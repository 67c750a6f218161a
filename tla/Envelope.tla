------------------------------- MODULE Envelope -------------------------------
(***************************************************************************)
(* How an event gets its envelope: SonderBus.buildEnvelope (bus.ts) asks   *)
(* every registered adapter to contribute, merges what they return, and    *)
(* findPendingGate (gate.ts) asks them one after the other whether they    *)
(* hold the event back.  The adapters are those of src/adapters and one of *)
(* a user's own.                                                           *)
(*                                                                         *)
(* One emit at a time; the host's policy and the operator act in between.  *)
(* A section of the event is a block; only whose block it is, and whether  *)
(* it carries an approval gate and evidence, is kept.  Sections are        *)
(* compared by reference in the code, so a contribution is represented by  *)
(* the sections it has a new object for.                                   *)
(***************************************************************************)
EXTENDS Integers, Sequences

CONSTANTS
  Deployments,      \* the sequences of adapters that may be registered
  CustomSections,   \* the sections that a user's own adapter may fill
  CallerSections,   \* the sets of sections that the caller may have filled
  Subjects          \* the kinds of event a policy tells apart

Sections ==
  {"capabilities", "memory", "reasoning", "governance", "prediction", "intent"}

Kinds ==
  {"acr", "engram", "parliament", "lattice", "aegis", "lewm", "awm", "custom"}

ASSUME EnvelopeAssumption ==
  /\ Deployments \subseteq Seq(Kinds)
  /\ CustomSections \subseteq Sections
  /\ CallerSections \subseteq SUBSET Sections
  /\ Subjects # {}

VARIABLES
  adapters,    \* SonderBus.adapters, in the order of registration
  moves,       \* the host's policy may begin to demand gates at any time
  stage,       \* how far the emit in flight has come
  about,       \* the kind of event that is being emitted
  snapshot,    \* the envelope as every adapter is shown it
  answers,     \* the contributions that have arrived, by adapter
  envelope,    \* the envelope as merged so far
  turn,        \* the adapter that is merged, or asked, next
  demanded,    \* gates that the host's policy asks for
  status,      \* the registry's entry of each gate
  late         \* gates demanded after the emit in flight had asked (auxiliary)

gateVars == <<demanded, status, late>>
envelopeVars ==
  <<adapters, moves, stage, about, snapshot, answers, envelope, turn, demanded,
    status, late>>

-----------------------------------------------------------------------------
(* Blocks and contributions.                                               *)

Block(s) == [from |-> s, gate |-> FALSE, evidence |-> FALSE]
Blocks ==
  [from : {"default", "caller", "empty", "live", "custom"},
   gate : BOOLEAN, evidence : BOOLEAN]

\* {...DEFAULTS, ...base}
Base(filled) ==
  [s \in Sections |-> IF s \in filled THEN Block("caller") ELSE Block("default")]

\* Altered: no EMPTY block.
FillUndefined(section) ==
  {[s \in {section} |-> [from |-> b, gate |-> FALSE, evidence |-> FALSE]] :
     b \in {"undefined", "live"}}

\* An adapter fills its section from the host's snapshot, or with its EMPTY block.
Fill(section) == {[s \in {section} |-> Block(b)] : b \in {"empty", "live"}}

Acr == Fill("capabilities")
Engram == Fill("memory")
Parliament == Fill("reasoning")
Lattice == Fill("governance")
Lewm == Fill("prediction")
Awm == Fill("intent")

\* Aegis overlays its verdict and its evidence on the governance of the snapshot
\* it is shown; with neither it returns the event as it is.
Aegis(event) ==
  {[s \in {} |-> Block("default")]} \cup
  {[s \in {"governance"} |->
      [from |-> event.governance.from,
       gate |-> event.governance.gate \/ v.gate,
       evidence |-> event.governance.evidence \/ v.evidence]] :
     v \in [gate : BOOLEAN, evidence : BOOLEAN] \ {[gate |-> FALSE, evidence |-> FALSE]}}

Custom == {[s \in S |-> Block("custom")] : S \in SUBSET CustomSections}

Contributions(kind, event) ==
  [acr |-> Acr, engram |-> Engram, parliament |-> Parliament, lattice |-> Lattice,
   aegis |-> Aegis(event), lewm |-> Lewm, awm |-> Awm, custom |-> Custom][kind]

\* Adapters with a checkGate.
Gatekeepers == {"lattice", "awm", "custom"}

\* The gate that adapter i would open for an event of kind s.
Gates == (UNION {DOMAIN d : d \in Deployments}) \X Subjects

Stages ==
  {"idle", "contributing", "merging", "gating", "clear", "vetoed", "rejected"}

EnvelopeTypeOK ==
  /\ adapters \in Seq(Kinds) /\ moves \in BOOLEAN
  /\ stage \in Stages
  /\ about \in Subjects
  /\ snapshot \in [Sections -> Blocks]
  /\ DOMAIN answers \subseteq DOMAIN adapters
  /\ \A i \in DOMAIN answers :
       /\ DOMAIN answers[i] \subseteq Sections
       /\ \A s \in DOMAIN answers[i] : answers[i][s] \in Blocks
  /\ envelope \in [Sections -> Blocks]
  /\ turn \in 1..Len(adapters) + 1
  /\ demanded \subseteq Gates /\ late \subseteq demanded
  /\ status \in [Gates -> {"unknown", "pending", "resolved", "denied"}]

EnvelopeInit ==
  /\ adapters \in Deployments /\ moves \in BOOLEAN
  /\ stage = "idle" /\ turn = 1
  /\ snapshot = Base({}) /\ envelope = snapshot /\ answers = << >>
  /\ demanded \in SUBSET {g \in Gates : /\ g[1] \in DOMAIN adapters
                                        /\ adapters[g[1]] \in Gatekeepers}
  /\ status = [g \in Gates |-> "unknown"] /\ late = {}

-----------------------------------------------------------------------------
(* buildEnvelope.                                                          *)

\* Up to its await: every adapter is shown the same snapshot.
BuildEnvelope(subject) ==
  /\ stage = "idle"
  /\ \E filled \in CallerSections : snapshot' = Base(filled)
  /\ envelope' = snapshot' /\ answers' = << >> /\ turn' = 1
  /\ stage' = "contributing" /\ about' = subject
  /\ late' = {}
  /\ UNCHANGED <<adapters, moves, demanded, status>>

\* The promise of adapter i resolves; adapters settle in any order.
Settles(i) ==
  /\ stage = "contributing"
  /\ i \in DOMAIN adapters \ DOMAIN answers
  /\ \E d \in Contributions(adapters[i], snapshot) :
       answers' = [j \in DOMAIN answers \cup {i} |-> IF j = i THEN d ELSE answers[j]]
  /\ UNCHANGED <<adapters, moves, stage, about, snapshot, envelope, turn, gateVars>>

\* Promise.all resolves when the last one has.
AllSettled ==
  /\ stage = "contributing"
  /\ DOMAIN answers = DOMAIN adapters
  /\ stage' = "merging"
  /\ UNCHANGED <<adapters, moves, about, snapshot, answers, envelope, turn, gateVars>>

\* contribute() or checkGate() of some adapter rejects, and so does emit().
AdapterRejects ==
  /\ stage \in {"contributing", "gating"}
  /\ DOMAIN adapters # {}
  /\ stage' = "rejected"
  /\ UNCHANGED <<adapters, moves, about, snapshot, answers, envelope, turn, gateVars>>

\* Altered: {...diff, ...partial}
OverlayUnder(partial, diff) == [s \in Sections |-> partial[s]]

\* {...partial, ...diff}
Overlay(partial, diff) ==
  [s \in Sections |-> IF s \in DOMAIN diff THEN diff[s] ELSE partial[s]]

\* One turn of the loop over the contributions, in the order of registration.
MergeNext ==
  /\ stage = "merging" /\ turn \in DOMAIN adapters
  /\ envelope' = Overlay(envelope, answers[turn])
  /\ turn' = turn + 1
  /\ UNCHANGED <<adapters, moves, stage, about, snapshot, answers, gateVars>>

AllMerged ==
  /\ stage = "merging" /\ turn \notin DOMAIN adapters
  /\ stage' = "gating" /\ turn' = 1
  /\ UNCHANGED <<adapters, moves, about, snapshot, answers, envelope, gateVars>>

-----------------------------------------------------------------------------
(* findPendingGate, with registry-backed gates (lattice/src/index.ts).     *)

GateOf(i) == <<i, about>>

\* Altered: a denied gate lets the event pass.
HoldsBackUndecided(i) ==
  /\ adapters[i] \in Gatekeepers
  /\ GateOf(i) \in demanded
  /\ status[GateOf(i)] \in {"unknown", "pending"}

\* The answer of adapter i: null when it has no checkGate, the policy opens no
\* gate, or the registry has resolved it; a gate that is pending otherwise.
HoldsBack(i) ==
  /\ adapters[i] \in Gatekeepers
  /\ GateOf(i) \in demanded
  /\ status[GateOf(i)] # "resolved"

\* Altered: a verdict is good for one event.
AskClearOnce ==
  /\ stage = "gating" /\ turn \in DOMAIN adapters
  /\ ~HoldsBack(turn)
  /\ turn' = turn + 1
  /\ status' = [status EXCEPT ![GateOf(turn)] = "unknown"]
  /\ UNCHANGED <<adapters, moves, stage, about, snapshot, answers, envelope, demanded, late>>

AskClear ==
  /\ stage = "gating" /\ turn \in DOMAIN adapters
  /\ ~HoldsBack(turn)
  /\ turn' = turn + 1
  /\ UNCHANGED <<adapters, moves, stage, about, snapshot, answers, envelope, gateVars>>

\* A gate that the registry does not know is registered; the emit is vetoed.
AskPending ==
  /\ stage = "gating" /\ turn \in DOMAIN adapters
  /\ HoldsBack(turn)
  /\ status' = [status EXCEPT ![GateOf(turn)] = IF @ = "unknown" THEN "pending" ELSE @]
  /\ stage' = "vetoed"
  /\ UNCHANGED <<adapters, moves, about, snapshot, answers, envelope, turn, demanded, late>>

NonePending ==
  /\ stage = "gating" /\ turn \notin DOMAIN adapters
  /\ stage' = "clear"
  /\ UNCHANGED <<adapters, moves, about, snapshot, answers, envelope, turn, gateVars>>

\* The emit is over; its envelope is not kept.
EmitOver ==
  /\ stage' = "idle" /\ turn' = 1 /\ late' = {}
  /\ snapshot' = Base({}) /\ envelope' = Base({}) /\ answers' = << >>
  /\ UNCHANGED <<adapters, moves, about, demanded, status>>

EmitStep ==
  \/ \E i \in DOMAIN adapters : Settles(i)
  \/ AllSettled \/ MergeNext \/ AllMerged
  \/ AskClear \/ AskPending \/ NonePending

\* An operator, or the expiry sweep, decides a gate.
Decide(g, verdict) ==
  /\ status[g] = "pending"
  /\ status' = [status EXCEPT ![g] = verdict]
  /\ UNCHANGED <<adapters, moves, stage, about, snapshot, answers, envelope, turn, demanded, late>>

\* The host begins to demand the gate g.  Late, if the emit has passed it.
Demand(g) ==
  /\ moves
  /\ g \in Gates \ demanded
  /\ g[1] \in DOMAIN adapters /\ adapters[g[1]] \in Gatekeepers
  /\ demanded' = demanded \cup {g}
  /\ late' = IF \/ stage = "clear"
                \/ stage = "gating" /\ g[2] = about /\ g[1] < turn
             THEN late \cup {g} ELSE late
  /\ UNCHANGED <<adapters, moves, stage, about, snapshot, answers, envelope, turn, status>>

Surroundings ==
  \E g \in Gates : Demand(g) \/ \E v \in {"resolved", "denied"} : Decide(g, v)

-----------------------------------------------------------------------------
(* What the envelope promises.                                             *)

\* Merged contributions up to adapter n.
Contributors(s, n) == {i \in 1..n : i \in DOMAIN answers /\ s \in DOMAIN answers[i]}

\* bus.ts:98-105: whatever the order in which adapters settle, a section is the
\* whole block of the adapter registered last among those that filled it, and a
\* section that none of them filled is as the caller gave it.
LastRegisteredWins ==
  stage \in {"gating", "clear"} =>
    \A s \in Sections :
      LET C == Contributors(s, Len(adapters)) IN
      IF C = {} THEN envelope[s] = snapshot[s]
      ELSE \E i \in C : (\A j \in C : j <= i) /\ envelope[s] = answers[i][s]

\* gate.ts:37-52: an event that gets past findPendingGate leaves no demanded gate
\* undecided behind, except one that was demanded after its adapter was asked;
\* asking the adapters one at a time loses nothing but that.
PassedNoPendingGate ==
  stage = "clear" =>
    \A i \in DOMAIN adapters :
      (adapters[i] \in Gatekeepers /\ GateOf(i) \in demanded \ late)
        => status[GateOf(i)] = "resolved"

\* lattice/src/index.ts:187-190, of an AegisAdapter registered after LatticeAdapter:
\* it "sees Lattice's governance" and overlays only its own fields, "preserving
\* validation/tier/violations".
AegisKeepsLattice ==
  stage = "clear" =>
    \A i, j \in DOMAIN adapters :
      (adapters[i] = "lattice" /\ adapters[j] = "aegis" /\ i < j)
        => \/ Contributors("governance", Len(adapters)) # {i, j}
           \/ envelope.governance.from = answers[i].governance.from
=============================================================================
