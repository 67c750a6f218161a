--------------------------- MODULE WrappedCallProofs ---------------------------
(***************************************************************************)
(* Proofs about WrappedCall and the Envelope it is built on.               *)
(***************************************************************************)
EXTENDS WrappedCall, TLAPS

-----------------------------------------------------------------------------
(* Types.                                                                  *)

\* What an adapter may contribute.
Contribution(d) == DOMAIN d \subseteq Sections /\ \A s \in DOMAIN d : d[s] \in Blocks

LEMMA BlockTyped ==
  ASSUME NEW b \in {"default", "caller", "empty", "live", "custom"}
  PROVE  Block(b) \in Blocks
BY DEF Block, Blocks

LEMMA FillTyped ==
  ASSUME NEW t \in Sections, NEW d \in Fill(t)
  PROVE  Contribution(d)
<1>1. PICK b \in {"empty", "live"} : d = [s \in {t} |-> Block(b)]
  BY DEF Fill
<1>2. QED
  BY <1>1, BlockTyped DEF Contribution

LEMMA AegisTyped ==
  ASSUME NEW event \in [Sections -> Blocks], NEW d \in Aegis(event)
  PROVE  Contribution(d)
<1>1. CASE d = [s \in {} |-> Block("default")]
  BY <1>1 DEF Contribution
<1>2. ASSUME NEW v \in [gate : BOOLEAN, evidence : BOOLEAN],
             d = [s \in {"governance"} |->
                    [from |-> event.governance.from,
                     gate |-> event.governance.gate \/ v.gate,
                     evidence |-> event.governance.evidence \/ v.evidence]]
      PROVE  Contribution(d)
  <2>1. event["governance"] \in Blocks /\ "governance" \in Sections
    BY DEF Sections
  <2>2. [from |-> event.governance.from,
         gate |-> event.governance.gate \/ v.gate,
         evidence |-> event.governance.evidence \/ v.evidence] \in Blocks
    BY <2>1 DEF Blocks
  <2>3. QED
    BY <1>2, <2>1, <2>2 DEF Contribution
<1>3. QED
  BY <1>1, <1>2 DEF Aegis

LEMMA CustomTyped ==
  ASSUME NEW d \in Custom
  PROVE  Contribution(d)
<1>1. PICK S \in SUBSET CustomSections : d = [s \in S |-> Block("custom")]
  BY DEF Custom
<1>2. QED
  BY <1>1, BlockTyped, EnvelopeAssumption DEF Contribution

LEMMA ContributionTyped ==
  ASSUME NEW event \in [Sections -> Blocks], NEW kind \in Kinds,
         NEW d \in Contributions(kind, event)
  PROVE  Contribution(d)
<1>1. CASE kind = "acr"
  <2>1. d \in Fill("capabilities")
    BY <1>1 DEF Contributions, Acr
  <2>2. QED
    BY <2>1, FillTyped DEF Sections
<1>2. CASE kind = "engram"
  <2>1. d \in Fill("memory")
    BY <1>2 DEF Contributions, Engram
  <2>2. QED
    BY <2>1, FillTyped DEF Sections
<1>3. CASE kind = "parliament"
  <2>1. d \in Fill("reasoning")
    BY <1>3 DEF Contributions, Parliament
  <2>2. QED
    BY <2>1, FillTyped DEF Sections
<1>4. CASE kind = "lattice"
  <2>1. d \in Fill("governance")
    BY <1>4 DEF Contributions, Lattice
  <2>2. QED
    BY <2>1, FillTyped DEF Sections
<1>5. CASE kind = "aegis"
  <2>1. d \in Aegis(event)
    BY <1>5 DEF Contributions
  <2>2. QED
    BY <2>1, AegisTyped
<1>6. CASE kind = "lewm"
  <2>1. d \in Fill("prediction")
    BY <1>6 DEF Contributions, Lewm
  <2>2. QED
    BY <2>1, FillTyped DEF Sections
<1>7. CASE kind = "awm"
  <2>1. d \in Fill("intent")
    BY <1>7 DEF Contributions, Awm
  <2>2. QED
    BY <2>1, FillTyped DEF Sections
<1>8. CASE kind = "custom"
  <2>1. d \in Custom
    BY <1>8 DEF Contributions
  <2>2. QED
    BY <2>1, CustomTyped
<1>9. QED
  BY <1>1, <1>2, <1>3, <1>4, <1>5, <1>6, <1>7, <1>8 DEF Kinds

LEMMA BaseTyped ==
  ASSUME NEW S
  PROVE  Base(S) \in [Sections -> Blocks]
BY BlockTyped DEF Base

LEMMA OverlayTyped ==
  ASSUME NEW e \in [Sections -> Blocks], NEW d, Contribution(d)
  PROVE  Overlay(e, d) \in [Sections -> Blocks]
BY DEF Overlay, Contribution

-----------------------------------------------------------------------------
(* The envelope.                                                           *)

\* The envelope after the contributions of the first n adapters.
MergedTo(n) ==
  \A s \in Sections :
    LET C == Contributors(s, n) IN
    IF C = {} THEN envelope[s] = snapshot[s]
    ELSE \E i \in C : (\A j \in C : j <= i) /\ envelope[s] = answers[i][s]

EmitTyped ==
  /\ stage \in Stages
  /\ about \in Subjects
  /\ snapshot \in [Sections -> Blocks]
  /\ DOMAIN answers \subseteq DOMAIN adapters
  /\ \A i \in DOMAIN answers : Contribution(answers[i])
  /\ envelope \in [Sections -> Blocks]
  /\ turn \in 1..Len(adapters) + 1

GatesTyped ==
  /\ adapters \in Seq(Kinds) /\ moves \in BOOLEAN
  /\ demanded \subseteq Gates /\ late \subseteq demanded
  /\ status \in [Gates -> {"unknown", "pending", "resolved", "denied"}]

\* How far the merge has come in each stage.
MergeInv ==
  /\ stage = "contributing" => envelope = snapshot /\ turn = 1
  /\ stage = "merging" => DOMAIN answers = DOMAIN adapters /\ MergedTo(turn - 1)
  /\ stage \in {"gating", "clear"} => MergedTo(Len(adapters))

\* An adapter that was asked holds nothing back by a gate that was demanded by then.
Passed(n) ==
  \A i \in DOMAIN adapters :
    (i < n /\ adapters[i] \in Gatekeepers /\ GateOf(i) \in demanded \ late)
      => status[GateOf(i)] = "resolved"

GateInv ==
  /\ stage = "gating" => Passed(turn)
  /\ stage = "clear" => Passed(Len(adapters) + 1)

EnvelopeInv == EmitTyped /\ GatesTyped /\ MergeInv /\ GateInv

LEMMA EnvelopeTypes == EnvelopeTypeOK <=> EmitTyped /\ GatesTyped
BY DEF EnvelopeTypeOK, EmitTyped, GatesTyped, Contribution

LEMMA AdaptersTyped ==
  ASSUME GatesTyped
  PROVE  /\ Len(adapters) \in Nat /\ DOMAIN adapters = 1..Len(adapters)
         /\ \A i \in DOMAIN adapters : adapters[i] \in Kinds
BY DEF GatesTyped

\* One contribution more.
LEMMA MergeOne ==
  ASSUME NEW n \in Nat, n + 1 \in DOMAIN answers, MergedTo(n),
         envelope' = Overlay(envelope, answers[n + 1]),
         UNCHANGED <<snapshot, answers>>
  PROVE  MergedTo(n + 1)'
<1>1. SUFFICES ASSUME NEW s \in Sections
               PROVE  LET C == Contributors(s, n + 1) IN
                      IF C = {} THEN envelope'[s] = snapshot[s]
                      ELSE \E i \in C : (\A j \in C : j <= i) /\ envelope'[s] = answers[i][s]
  BY DEF MergedTo, Contributors
<1>2. 1..n + 1 = (1..n) \cup {n + 1}
  OBVIOUS
<1>3. CASE s \in DOMAIN answers[n + 1]
  <2>1. n + 1 \in Contributors(s, n + 1)
    BY <1>3 DEF Contributors
  <2>2. \A j \in Contributors(s, n + 1) : j <= n + 1
    BY DEF Contributors
  <2>3. envelope'[s] = answers[n + 1][s]
    BY <1>3 DEF Overlay
  <2>4. QED
    BY <2>1, <2>2, <2>3
<1>4. CASE s \notin DOMAIN answers[n + 1]
  <2>1. Contributors(s, n + 1) = Contributors(s, n)
    BY <1>2, <1>4 DEF Contributors
  <2>2. envelope'[s] = envelope[s]
    BY <1>4 DEF Overlay
  <2>3. QED
    BY <2>1, <2>2 DEF MergedTo
<1>5. QED
  BY <1>3, <1>4

LEMMA SettlesKeeps ==
  ASSUME EnvelopeInv, NEW i \in DOMAIN adapters, Settles(i)
  PROVE  EnvelopeInv'
<1>1. EmitTyped /\ GatesTyped
  BY DEF EnvelopeInv
<1>2. PICK d \in Contributions(adapters[i], snapshot) :
        answers' = [j \in DOMAIN answers \cup {i} |-> IF j = i THEN d ELSE answers[j]]
  BY DEF Settles
<1>3. Contribution(d)
  BY <1>1, <1>2, AdaptersTyped, ContributionTyped DEF EmitTyped
<1>4. DOMAIN answers' \subseteq DOMAIN adapters
      /\ \A j \in DOMAIN answers' : Contribution(answers'[j])
  BY <1>1, <1>2, <1>3 DEF EmitTyped
<1>5. /\ stage = "contributing"
      /\ UNCHANGED <<adapters, moves, stage, about, snapshot, envelope, turn,
                     demanded, status, late>>
  BY DEF Settles, gateVars
<1>6. EmitTyped'
  BY <1>1, <1>4, <1>5 DEF EmitTyped
<1>7. GatesTyped'
  BY <1>1, <1>5 DEF GatesTyped, Gates
<1>8. MergeInv' /\ GateInv'
  BY <1>5 DEF EnvelopeInv, MergeInv, GateInv
<1>9. QED
  BY <1>6, <1>7, <1>8 DEF EnvelopeInv

LEMMA EmitStepKeeps ==
  ASSUME EnvelopeInv, EmitStep
  PROVE  EnvelopeInv'
<1> USE DEF gateVars
<1>1. EmitTyped /\ GatesTyped
  BY DEF EnvelopeInv
<1>2. /\ Len(adapters) \in Nat /\ DOMAIN adapters = 1..Len(adapters)
      /\ turn \in Nat
  BY <1>1, AdaptersTyped DEF EmitTyped
<1>3. CASE \E i \in DOMAIN adapters : Settles(i)
  BY <1>3, SettlesKeeps
<1>4. CASE AllSettled
  <2>1. /\ stage = "contributing" /\ stage' = "merging"
        /\ UNCHANGED <<adapters, moves, about, snapshot, answers, envelope, turn,
                       demanded, status, late>>
        /\ DOMAIN answers = DOMAIN adapters
    BY <1>4 DEF AllSettled
  <2>2. EmitTyped' /\ GatesTyped'
    BY <1>1, <2>1 DEF EmitTyped, GatesTyped, Stages, Gates
  <2>3. envelope = snapshot /\ turn = 1
    BY <2>1 DEF EnvelopeInv, MergeInv
  <2>4. \A s \in Sections : Contributors(s, 0) = {}
    BY DEF Contributors
  <2>5. MergedTo(turn - 1)'
    BY <2>1, <2>3, <2>4 DEF MergedTo, Contributors
  <2>6. QED
    BY <2>1, <2>2, <2>5 DEF EnvelopeInv, MergeInv, GateInv
<1>5. CASE MergeNext
  <2>1. /\ stage = "merging" /\ turn \in DOMAIN adapters
        /\ envelope' = Overlay(envelope, answers[turn]) /\ turn' = turn + 1
        /\ UNCHANGED <<adapters, moves, stage, about, snapshot, answers,
                       demanded, status, late>>
    BY <1>5 DEF MergeNext
  <2>2. DOMAIN answers = DOMAIN adapters /\ MergedTo(turn - 1)
    BY <2>1 DEF EnvelopeInv, MergeInv
  <2>3. envelope' \in [Sections -> Blocks]
    BY <1>1, <2>1, <2>2, OverlayTyped DEF EmitTyped
  <2>4. turn' \in 1..Len(adapters) + 1
    BY <1>2, <2>1
  <2>5. EmitTyped' /\ GatesTyped'
    BY <1>1, <2>1, <2>3, <2>4 DEF EmitTyped, GatesTyped, Gates
  <2>6. PICK n \in Nat : n + 1 = turn
    <3>1. turn - 1 \in Nat /\ (turn - 1) + 1 = turn
      BY <1>2, <2>1
    <3>2. QED
      BY <3>1
  <2>7. turn - 1 = n /\ turn' - 1 = n + 1
    BY <2>1, <2>6
  <2>8. MergedTo(n + 1)'
    BY <2>1, <2>2, <2>6, <2>7, MergeOne
  <2>9. QED
    BY <2>1, <2>2, <2>5, <2>7, <2>8 DEF EnvelopeInv, MergeInv, GateInv
<1>6. CASE AllMerged
  <2>1. /\ stage = "merging" /\ turn \notin DOMAIN adapters
        /\ stage' = "gating" /\ turn' = 1
        /\ UNCHANGED <<adapters, moves, about, snapshot, answers, envelope,
                       demanded, status, late>>
    BY <1>6 DEF AllMerged
  <2>2. turn = Len(adapters) + 1
    BY <1>1, <1>2, <2>1 DEF EmitTyped
  <2>3. MergedTo(Len(adapters))
    BY <1>2, <2>1, <2>2 DEF EnvelopeInv, MergeInv
  <2>4. MergedTo(Len(adapters))'
    BY <2>1, <2>3 DEF MergedTo, Contributors
  <2>5. EmitTyped' /\ GatesTyped'
    BY <1>1, <1>2, <2>1 DEF EmitTyped, GatesTyped, Stages, Gates
  <2>6. Passed(1)'
    BY <1>2, <2>1 DEF Passed
  <2>7. QED
    BY <2>1, <2>4, <2>5, <2>6 DEF EnvelopeInv, MergeInv, GateInv
<1>7. CASE AskClear
  <2>1. /\ stage = "gating" /\ turn \in DOMAIN adapters /\ ~HoldsBack(turn)
        /\ turn' = turn + 1
        /\ UNCHANGED <<adapters, moves, stage, about, snapshot, answers, envelope,
                       demanded, status, late>>
    BY <1>7 DEF AskClear
  <2>2. EmitTyped' /\ GatesTyped'
    BY <1>1, <1>2, <2>1 DEF EmitTyped, GatesTyped, Gates
  <2>3. MergedTo(Len(adapters))'
    BY <2>1 DEF EnvelopeInv, MergeInv, MergedTo, Contributors
  <2>4. Passed(turn)
    BY <2>1 DEF EnvelopeInv, GateInv
  <2>5. Passed(turn)'
    <3>1. SUFFICES ASSUME NEW i \in DOMAIN adapters, i < turn + 1,
                          adapters[i] \in Gatekeepers, GateOf(i) \in demanded \ late
                   PROVE  status[GateOf(i)] = "resolved"
      BY <2>1 DEF Passed, GateOf
    <3>2. i < turn \/ i = turn
      BY <1>2, <3>1
    <3>3. QED
      BY <2>1, <2>4, <3>1, <3>2 DEF Passed, HoldsBack
  <2>6. QED
    BY <2>1, <2>2, <2>3, <2>5 DEF EnvelopeInv, MergeInv, GateInv
<1>8. CASE AskPending
  <2>1. /\ stage = "gating" /\ turn \in DOMAIN adapters /\ HoldsBack(turn)
        /\ status' = [status EXCEPT ![GateOf(turn)] = IF @ = "unknown" THEN "pending" ELSE @]
        /\ stage' = "vetoed"
        /\ UNCHANGED <<adapters, moves, about, snapshot, answers, envelope, turn,
                       demanded, late>>
    BY <1>8 DEF AskPending
  <2>2. EmitTyped' /\ GatesTyped'
    BY <1>1, <2>1 DEF EmitTyped, GatesTyped, Stages, Gates
  <2>3. QED
    BY <2>1, <2>2 DEF EnvelopeInv, MergeInv, GateInv
<1>9. CASE NonePending
  <2>1. /\ stage = "gating" /\ turn \notin DOMAIN adapters /\ stage' = "clear"
        /\ UNCHANGED <<adapters, moves, about, snapshot, answers, envelope, turn,
                       demanded, status, late>>
    BY <1>9 DEF NonePending
  <2>2. EmitTyped' /\ GatesTyped'
    BY <1>1, <2>1 DEF EmitTyped, GatesTyped, Stages, Gates
  <2>3. turn = Len(adapters) + 1
    BY <1>1, <1>2, <2>1 DEF EmitTyped
  <2>4. Passed(Len(adapters) + 1)'
    BY <2>1, <2>3 DEF EnvelopeInv, GateInv, Passed, GateOf
  <2>5. MergedTo(Len(adapters))'
    BY <2>1 DEF EnvelopeInv, MergeInv, MergedTo, Contributors
  <2>6. QED
    BY <2>1, <2>2, <2>4, <2>5 DEF EnvelopeInv, MergeInv, GateInv
<1>10. QED
  BY <1>3, <1>4, <1>5, <1>6, <1>7, <1>8, <1>9 DEF EmitStep

LEMMA BuildKeeps ==
  ASSUME EnvelopeInv, NEW subject \in Subjects, BuildEnvelope(subject)
  PROVE  EnvelopeInv'
<1>1. EmitTyped /\ GatesTyped
  BY DEF EnvelopeInv
<1>2. PICK filled \in CallerSections : snapshot' = Base(filled)
  BY DEF BuildEnvelope
<1>3. /\ envelope' = snapshot' /\ answers' = << >> /\ turn' = 1
      /\ stage' = "contributing" /\ about' = subject /\ late' = {}
      /\ UNCHANGED <<adapters, moves, demanded, status>>
  BY DEF BuildEnvelope
<1>4. snapshot' \in [Sections -> Blocks]
  BY <1>2, BaseTyped
<1>5. DOMAIN answers' = {} /\ 1 \in 1..Len(adapters) + 1
  BY <1>1, <1>3, AdaptersTyped
<1>6. EmitTyped'
  BY <1>3, <1>4, <1>5 DEF EmitTyped, Stages
<1>7. GatesTyped'
  BY <1>1, <1>3 DEF GatesTyped, Gates
<1>8. QED
  BY <1>3, <1>6, <1>7 DEF EnvelopeInv, MergeInv, GateInv

LEMMA EmitOverKeeps ==
  ASSUME EnvelopeInv, EmitOver
  PROVE  EnvelopeInv'
<1>1. EmitTyped /\ GatesTyped
  BY DEF EnvelopeInv
<1>2. /\ stage' = "idle" /\ turn' = 1 /\ late' = {}
      /\ snapshot' = Base({}) /\ envelope' = Base({}) /\ answers' = << >>
      /\ UNCHANGED <<adapters, moves, about, demanded, status>>
  BY DEF EmitOver
<1>3. Base({}) \in [Sections -> Blocks]
  BY BaseTyped
<1>4. DOMAIN answers' = {} /\ 1 \in 1..Len(adapters) + 1
  BY <1>1, <1>2, AdaptersTyped
<1>5. EmitTyped'
  BY <1>1, <1>2, <1>3, <1>4 DEF EmitTyped, Stages
<1>6. GatesTyped'
  BY <1>1, <1>2 DEF GatesTyped, Gates
<1>7. QED
  BY <1>2, <1>5, <1>6 DEF EnvelopeInv, MergeInv, GateInv

LEMMA RejectsKeeps ==
  ASSUME EnvelopeInv, AdapterRejects
  PROVE  EnvelopeInv'
<1>1. /\ stage' = "rejected"
      /\ UNCHANGED <<adapters, moves, about, snapshot, answers, envelope, turn,
                     demanded, status, late>>
  BY DEF AdapterRejects, gateVars
<1>2. EmitTyped' /\ GatesTyped'
  BY <1>1 DEF EnvelopeInv, EmitTyped, GatesTyped, Stages, Gates
<1>3. QED
  BY <1>1, <1>2 DEF EnvelopeInv, MergeInv, GateInv

LEMMA DecideKeeps ==
  ASSUME EnvelopeInv, NEW g \in Gates, NEW v \in {"resolved", "denied"}, Decide(g, v)
  PROVE  EnvelopeInv'
<1>1. /\ status[g] = "pending" /\ status' = [status EXCEPT ![g] = v]
      /\ UNCHANGED <<adapters, moves, stage, about, snapshot, answers, envelope, turn,
                     demanded, late>>
  BY DEF Decide
<1>2. EmitTyped' /\ GatesTyped'
  BY <1>1 DEF EnvelopeInv, EmitTyped, GatesTyped, Gates
<1>3. ASSUME NEW n, Passed(n)
      PROVE  Passed(n)'
  BY <1>1, <1>3 DEF EnvelopeInv, GatesTyped, Passed, GateOf
<1>4. MergeInv'
  BY <1>1 DEF EnvelopeInv, MergeInv, MergedTo, Contributors
<1>5. GateInv'
  BY <1>1, <1>3 DEF EnvelopeInv, GateInv
<1>6. QED
  BY <1>2, <1>4, <1>5 DEF EnvelopeInv

LEMMA DemandKeeps ==
  ASSUME EnvelopeInv, NEW g \in Gates, Demand(g)
  PROVE  EnvelopeInv'
<1>1. /\ demanded' = demanded \cup {g}
      /\ late' = IF \/ stage = "clear"
                    \/ stage = "gating" /\ g[2] = about /\ g[1] < turn
                 THEN late \cup {g} ELSE late
      /\ UNCHANGED <<adapters, moves, stage, about, snapshot, answers, envelope, turn,
                     status>>
  BY DEF Demand
<1>2. EmitTyped' /\ GatesTyped'
  BY <1>1 DEF EnvelopeInv, EmitTyped, GatesTyped, Gates
<1>3. MergeInv'
  BY <1>1 DEF EnvelopeInv, MergeInv, MergedTo, Contributors
<1>4. ASSUME NEW n, Passed(n), (g[2] = about /\ g[1] < n) => g \in late'
      PROVE  Passed(n)'
  <2>1. SUFFICES ASSUME NEW i \in DOMAIN adapters, i < n, adapters[i] \in Gatekeepers,
                        GateOf(i) \in demanded' \ late'
                 PROVE  status[GateOf(i)] = "resolved"
    BY <1>1 DEF Passed, GateOf
  <2>2. GateOf(i)[1] = i /\ GateOf(i)[2] = about
    BY DEF GateOf
  <2>3. GateOf(i) # g
    BY <1>4, <2>1, <2>2
  <2>4. GateOf(i) \in demanded \ late
    BY <1>1, <2>1, <2>3
  <2>5. QED
    BY <1>4, <2>1, <2>4 DEF Passed
<1>5. stage' = stage /\ adapters' = adapters /\ turn' = turn
  BY <1>1
<1>6. GateInv'
  <2>1. CASE stage = "gating"
    <3>1. Passed(turn) /\ ((g[2] = about /\ g[1] < turn) => g \in late')
      BY <1>1, <2>1 DEF EnvelopeInv, GateInv
    <3>2. Passed(turn)'
      BY <1>4, <1>5, <3>1
    <3>3. QED
      BY <1>5, <2>1, <3>2 DEF GateInv
  <2>2. CASE stage = "clear"
    <3>1. Passed(Len(adapters) + 1) /\ g \in late'
      BY <1>1, <2>2 DEF EnvelopeInv, GateInv
    <3>2. Passed(Len(adapters) + 1)'
      BY <1>4, <1>5, <3>1
    <3>3. QED
      BY <1>5, <2>2, <3>2 DEF GateInv
  <2>3. QED
    BY <1>5, <2>1, <2>2 DEF GateInv
<1>7. QED
  BY <1>2, <1>3, <1>6 DEF EnvelopeInv

LEMMA SurroundingsKeep ==
  ASSUME EnvelopeInv, Surroundings
  PROVE  EnvelopeInv'
BY DecideKeeps, DemandKeeps DEF Surroundings

LEMMA StutterKeeps ==
  ASSUME EnvelopeInv, UNCHANGED envelopeVars
  PROVE  EnvelopeInv'
<1>1. UNCHANGED <<adapters, moves, stage, about, snapshot, answers, envelope, turn,
                  demanded, status, late>>
  BY DEF envelopeVars
<1>2. EmitTyped' /\ GatesTyped'
  BY <1>1 DEF EnvelopeInv, EmitTyped, GatesTyped, Gates
<1>3. QED
  BY <1>1, <1>2
  DEF EnvelopeInv, MergeInv, GateInv, MergedTo, Contributors, Passed, GateOf

LEMMA SubjectTyped ==
  ASSUME NEW s \in Subjects
  PROVE  PolicySubject(s) \in Subjects
BY WrappedCallAssumption DEF PolicySubject

\* What a step of the call does to the envelope.
LEMMA EnvelopeActions ==
  ASSUME Next
  PROVE  \/ EmitStep \/ EmitOver \/ AdapterRejects \/ Surroundings
         \/ UNCHANGED envelopeVars
         \/ \E s \in Subjects : BuildEnvelope(s)
<1>1. "decision" \in Subjects /\ "outcome" \in Subjects
  BY WrappedCallAssumption
<1>2. CASE Call
  BY <1>1, <1>2, SubjectTyped DEF Call
<1>3. CASE \E ok \in BOOLEAN : FnSettles(ok)
  BY <1>1, <1>3, SubjectTyped DEF FnSettles
<1>4. QED
  BY <1>2, <1>3
  DEF Next, CallStep, Stored, CallFn, Answer, EmitFails, OnEventThrows, Crash

LEMMA EnvelopeKept ==
  ASSUME EnvelopeInv, [Next]_vars
  PROVE  EnvelopeInv'
<1>1. CASE Next
  BY <1>1, EnvelopeActions, EmitStepKeeps, EmitOverKeeps, RejectsKeeps, SurroundingsKeep,
     StutterKeeps, BuildKeeps
<1>2. CASE UNCHANGED vars
  BY <1>2, StutterKeeps DEF vars
<1>3. QED
  BY <1>1, <1>2

-----------------------------------------------------------------------------
(* The wrapped call.                                                       *)

CallTyped ==
  /\ phase \in Phases /\ answer \in Answers
  /\ attempt \in 0..MaxAttempts /\ ran \subseteq 1..attempt
  /\ oneGate \in BOOLEAN /\ result \in BOOLEAN
  /\ decision \in Nat
  /\ log \subseteq Event
  /\ phase # "idle" => attempt \in 1..attempt

LEMMA CallTypedKept ==
  ASSUME CallTyped, [Next]_vars
  PROVE  CallTyped'
<1>1. attempt \in Nat /\ 0 \in Nat /\ "decision" \in Subjects /\ "outcome" \in Subjects
  BY WrappedCallAssumption DEF CallTyped
<1>2. CASE Call
  <2>1. /\ attempt < MaxAttempts /\ attempt' = attempt + 1
        /\ phase' = "deciding" /\ answer' = "none" /\ decision' = 0
        /\ UNCHANGED <<oneGate, result, ran, log>>
    BY <1>2 DEF Call
  <2>2. attempt' \in 0..MaxAttempts /\ 1..attempt \subseteq 1..attempt'
        /\ attempt' \in 1..attempt'
    BY <1>1, <2>1, WrappedCallAssumption
  <2>3. QED
    BY <1>1, <2>1, <2>2 DEF CallTyped, Phases, Answers
<1>3. CASE Stored
  <2>1. PICK e : e \in Event /\ log' = log \cup {e}
    <3>1. attempt * 2 \in Nat /\ attempt * 2 + 1 \in Nat /\ attempt * 2 + 0 \in Nat
      BY <1>1
    <3>2. CASE phase = "deciding"
      BY <1>1, <1>3, <3>1, <3>2 DEF Stored, Event
    <3>3. CASE phase # "deciding"
      BY <1>1, <1>3, <3>1, <3>3 DEF Stored, Event, CallTyped
    <3>4. QED
      BY <3>2, <3>3
  <2>2. decision' \in Nat /\ phase' \in {"decided", "reported"}
    <3>1. attempt * 2 + 0 \in Nat
      BY <1>1
    <3>2. QED
      BY <1>3, <3>1 DEF Stored, CallTyped
  <2>3. UNCHANGED <<attempt, oneGate, result, answer, ran>>
    BY <1>3 DEF Stored
  <2>4. phase # "idle"
    BY <1>3 DEF Stored, Emitting
  <2>5. QED
    BY <2>1, <2>2, <2>3, <2>4 DEF CallTyped, Phases
<1>4. CASE CallFn
  <2>1. phase' = "running" /\ ran' = ran \cup {attempt} /\ phase = "decided"
        /\ UNCHANGED <<attempt, oneGate, decision, result, answer, log>>
    BY <1>4 DEF CallFn
  <2>2. QED
    BY <2>1 DEF CallTyped, Phases
<1>5. CASE \E ok \in BOOLEAN : FnSettles(ok)
  BY <1>5 DEF FnSettles, CallTyped, Phases
<1>6. CASE Answer
  BY <1>6 DEF Answer, CallTyped, Phases, Answers
<1>7. CASE \E cause \in {"gate", "emit"} : EmitFails(cause)
  BY <1>7 DEF EmitFails, Emitting, CallTyped, Phases, Answers
<1>8. CASE OnEventThrows
  BY <1>8 DEF OnEventThrows, CallTyped, Phases, Answers
<1>9. CASE Crash
  BY <1>9 DEF Crash, CallTyped, Phases, Answers
<1>10. CASE UNCHANGED callVars
  BY <1>10 DEF callVars, CallTyped
<1>11. QED
  BY <1>2, <1>3, <1>4, <1>5, <1>6, <1>7, <1>8, <1>9, <1>10 DEF Next, CallStep, vars


-----------------------------------------------------------------------------
(* What is on file.                                                        *)

\* The log of the attempts so far.
LogInv ==
  /\ \A e \in log : e.attempt <= attempt
  /\ \A n \in ran : Decided(n) # {}
  /\ \A o \in log : o.subject = "outcome" =>
       /\ o.attempt \in ran
       /\ \E d \in Decided(o.attempt) : o.parent = d.id /\ d.id < o.id
       /\ \A p \in Reported(o.attempt) : p = o

\* What is on file of the attempt in flight, in each phase.
PhaseInv ==
  /\ phase = "deciding" => \A e \in log : e.attempt # attempt
  /\ phase \in {"decided", "running", "reporting"} =>
       /\ Reported(attempt) = {}
       /\ decision = attempt * 2
       /\ \E d \in Decided(attempt) : d.id = decision
  /\ phase \in {"running", "reporting"} => attempt \in ran
  /\ phase = "reported" => \E o \in Reported(attempt) : o.ok = result
  /\ answer \in {"value", "error"} =>
       \E o \in Reported(attempt) : o.ok = (answer = "value")

RecordInv == LogInv /\ PhaseInv

\* A step that leaves the log and the attempt as they are.
LEMMA LogStays ==
  ASSUME RecordInv, UNCHANGED <<log, attempt>>,
         ran' = ran \/ (phase = "decided" /\ ran' = ran \cup {attempt})
  PROVE  LogInv'
<1>1. \A n : Decided(n)' = Decided(n) /\ Reported(n)' = Reported(n)
  BY DEF Decided, Reported
<1>2. phase = "decided" => Decided(attempt) # {}
  BY DEF RecordInv, PhaseInv
<1>3. QED
  BY <1>1, <1>2 DEF RecordInv, LogInv

LEMMA CallRecorded ==
  ASSUME CallTyped, RecordInv, Call
  PROVE  RecordInv'
<1>1. /\ attempt' = attempt + 1 /\ phase' = "deciding" /\ answer' = "none"
      /\ UNCHANGED <<ran, log>>
  BY DEF Call
<1>2. attempt \in Nat /\ log \subseteq Event
  BY WrappedCallAssumption DEF CallTyped
<1>3. \A e \in log : e.attempt \in Nat /\ e.attempt <= attempt
  BY <1>2 DEF RecordInv, LogInv, Event
<1>4. \A e \in log : e.attempt <= attempt' /\ e.attempt # attempt'
  <2>1. \A k \in Nat : k <= attempt => k <= attempt + 1 /\ k # attempt + 1
    BY <1>2
  <2>2. QED
    BY <1>1, <1>3, <2>1
<1>5. \A n : Decided(n)' = Decided(n) /\ Reported(n)' = Reported(n)
  BY <1>1 DEF Decided, Reported
<1>6. LogInv'
  BY <1>1, <1>4, <1>5 DEF RecordInv, LogInv
<1>7. PhaseInv'
  BY <1>1, <1>4 DEF PhaseInv
<1>8. QED
  BY <1>6, <1>7 DEF RecordInv

LEMMA DecisionRecorded ==
  ASSUME CallTyped, RecordInv, Stored, phase = "deciding"
  PROVE  RecordInv'
<1> DEFINE e == [id |-> attempt * 2 + 0, attempt |-> attempt, subject |-> "decision",
                 ok |-> TRUE, parent |-> 0]
<1>1. /\ log' = log \cup {e} /\ decision' = e.id /\ phase' = "decided"
      /\ UNCHANGED <<attempt, result, answer, ran>>
  BY DEF Stored
<1>2. /\ e.attempt = attempt /\ e.subject = "decision" /\ e.id = attempt * 2 + 0
      /\ attempt \in Nat
  BY WrappedCallAssumption DEF CallTyped
<1> HIDE DEF e
<1>3. \A n : Reported(n)' = Reported(n) /\ Decided(n) \subseteq Decided(n)'
  BY <1>1, <1>2 DEF Reported, Decided
<1>4. Reported(attempt) = {}
  BY DEF RecordInv, PhaseInv, Reported
<1>5. e \in Decided(attempt)'
  BY <1>1, <1>2 DEF Decided
<1>6. attempt * 2 + 0 = attempt * 2 /\ attempt <= attempt
  BY <1>2
<1>7. LogInv'
  <2>1. \A x \in log' : x.attempt <= attempt'
    BY <1>1, <1>2, <1>6 DEF RecordInv, LogInv
  <2>2. \A n \in ran' : Decided(n)' # {}
    BY <1>1, <1>3 DEF RecordInv, LogInv
  <2>3. ASSUME NEW o \in log', o.subject = "outcome"
        PROVE  /\ o.attempt \in ran'
               /\ \E d \in Decided(o.attempt)' : o.parent = d.id /\ d.id < o.id
               /\ \A p \in Reported(o.attempt)' : p = o
    <3>1. o \in log
      BY <1>1, <1>2, <2>3
    <3>2. QED
      BY <1>1, <1>3, <2>3, <3>1 DEF RecordInv, LogInv
  <2>4. QED
    BY <2>1, <2>2, <2>3 DEF LogInv
<1>8. PhaseInv'
  <2>1. Reported(attempt)' = {} /\ decision' = attempt * 2
    BY <1>1, <1>2, <1>3, <1>4, <1>6
  <2>2. \E d \in Decided(attempt)' : d.id = decision'
    BY <1>1, <1>5
  <2>3. answer \notin {"value", "error"}
    BY <1>4 DEF RecordInv, PhaseInv
  <2>4. QED
    BY <1>1, <2>1, <2>2, <2>3 DEF PhaseInv
<1>9. QED
  BY <1>7, <1>8 DEF RecordInv

LEMMA OutcomeRecorded ==
  ASSUME CallTyped, RecordInv, Stored, phase # "deciding"
  PROVE  RecordInv'
<1> DEFINE e == [id |-> attempt * 2 + 1, attempt |-> attempt, subject |-> "outcome",
                 ok |-> result, parent |-> decision]
<1>1. /\ log' = log \cup {e} /\ phase' = "reported" /\ phase = "reporting"
      /\ UNCHANGED <<attempt, result, answer, ran, decision>>
  BY DEF Stored, Emitting
<1>2. /\ e.attempt = attempt /\ e.subject = "outcome" /\ e.id = attempt * 2 + 1
      /\ e.ok = result /\ e.parent = decision
      /\ attempt \in Nat
  BY WrappedCallAssumption DEF CallTyped
<1> HIDE DEF e
<1>3. \A n : Decided(n)' = Decided(n) /\ Reported(n) \subseteq Reported(n)'
  BY <1>1, <1>2 DEF Reported, Decided
<1>4. \A n : n # attempt => Reported(n)' = Reported(n)
  BY <1>1, <1>2 DEF Reported
<1>5. /\ Reported(attempt) = {} /\ decision = attempt * 2 /\ attempt \in ran
      /\ \E d \in Decided(attempt) : d.id = decision
  BY <1>1 DEF RecordInv, PhaseInv
<1>6. Reported(attempt)' = {e}
  BY <1>1, <1>2, <1>5 DEF Reported
<1>7. attempt * 2 < attempt * 2 + 1 /\ attempt <= attempt
  BY <1>2
<1>8. LogInv'
  <2>1. \A x \in log' : x.attempt <= attempt'
    BY <1>1, <1>2, <1>7 DEF RecordInv, LogInv
  <2>2. \A n \in ran' : Decided(n)' # {}
    BY <1>1, <1>3 DEF RecordInv, LogInv
  <2>3. ASSUME NEW o \in log', o.subject = "outcome"
        PROVE  /\ o.attempt \in ran'
               /\ \E d \in Decided(o.attempt)' : o.parent = d.id /\ d.id < o.id
               /\ \A p \in Reported(o.attempt)' : p = o
    <3>1. CASE o = e
      <4>1. PICK d \in Decided(attempt) : d.id = decision
        BY <1>5
      <4>2. o.parent = d.id /\ d.id < o.id
        BY <1>2, <1>5, <1>7, <3>1, <4>1
      <4>3. QED
        BY <1>1, <1>2, <1>3, <1>5, <1>6, <3>1, <4>1, <4>2
    <3>2. CASE o # e
      <4>1. o \in log
        BY <1>1, <3>2
      <4>2. o.attempt # attempt
        BY <1>5, <2>3, <4>1 DEF Reported
      <4>3. QED
        BY <1>1, <1>3, <1>4, <2>3, <4>1, <4>2 DEF RecordInv, LogInv
    <3>3. QED
      BY <3>1, <3>2
  <2>4. QED
    BY <2>1, <2>2, <2>3 DEF LogInv
<1>9. PhaseInv'
  <2>1. \E o \in Reported(attempt)' : o.ok = result'
    BY <1>1, <1>2, <1>6
  <2>2. answer \notin {"value", "error"}
    BY <1>5 DEF RecordInv, PhaseInv
  <2>3. QED
    BY <1>1, <2>1, <2>2 DEF PhaseInv
<1>10. QED
  BY <1>8, <1>9 DEF RecordInv

LEMMA RecordKept ==
  ASSUME CallTyped, RecordInv, [Next]_vars
  PROVE  RecordInv'
<1>1. CASE Call
  BY <1>1, CallRecorded
<1>2. CASE Stored
  BY <1>2, DecisionRecorded, OutcomeRecorded
<1>3. ASSUME UNCHANGED <<log, attempt>>
      PROVE  \A n : Decided(n)' = Decided(n) /\ Reported(n)' = Reported(n)
  BY <1>3 DEF Decided, Reported
<1>4. CASE CallFn
  <2>1. /\ phase = "decided" /\ phase' = "running" /\ ran' = ran \cup {attempt}
        /\ UNCHANGED <<attempt, decision, result, answer, log>>
    BY <1>4 DEF CallFn
  <2>2. LogInv'
    BY <2>1, LogStays
  <2>3. PhaseInv'
    BY <1>3, <2>1 DEF RecordInv, PhaseInv
  <2>4. QED
    BY <2>2, <2>3 DEF RecordInv
<1>5. ASSUME NEW ok \in BOOLEAN, FnSettles(ok)
      PROVE  RecordInv'
  <2>1. /\ phase = "running" /\ phase' = "reporting"
        /\ UNCHANGED <<attempt, decision, answer, ran, log>>
    BY <1>5 DEF FnSettles
  <2>2. LogInv'
    BY <2>1, LogStays
  <2>3. PhaseInv'
    BY <1>3, <2>1 DEF RecordInv, PhaseInv
  <2>4. QED
    BY <2>2, <2>3 DEF RecordInv
<1>6. CASE Answer
  <2>1. /\ phase = "reported" /\ phase' = "over"
        /\ answer' = IF result THEN "value" ELSE "error"
        /\ UNCHANGED <<attempt, decision, result, ran, log>>
    BY <1>6 DEF Answer
  <2>2. LogInv'
    BY <2>1, LogStays
  <2>3. result \in BOOLEAN /\ \E o \in Reported(attempt) : o.ok = result
    BY <2>1 DEF CallTyped, RecordInv, PhaseInv
  <2>4. result = (answer' = "value")
    BY <2>1, <2>3
  <2>5. PhaseInv'
    BY <1>3, <2>1, <2>3, <2>4 DEF PhaseInv
  <2>6. QED
    BY <2>2, <2>5 DEF RecordInv
<1>7. ASSUME phase' = "over", answer' \notin {"value", "error"},
             UNCHANGED <<attempt, ran, log>>
      PROVE  RecordInv'
  BY <1>3, <1>7, LogStays DEF RecordInv, PhaseInv
<1>8. CASE \E cause \in {"gate", "emit"} : EmitFails(cause)
  BY <1>7, <1>8 DEF EmitFails
<1>9. CASE OnEventThrows
  BY <1>7, <1>9 DEF OnEventThrows
<1>10. CASE Crash
  BY <1>7, <1>10 DEF Crash
<1>11. CASE UNCHANGED callVars
  <2>1. UNCHANGED <<phase, attempt, decision, result, answer, ran, log>>
    BY <1>11 DEF callVars
  <2>2. LogInv'
    BY <2>1, LogStays
  <2>3. PhaseInv'
    BY <1>3, <2>1 DEF RecordInv, PhaseInv
  <2>4. QED
    BY <2>2, <2>3 DEF RecordInv
<1>12. QED
  BY <1>1, <1>2, <1>4, <1>5, <1>6, <1>8, <1>9, <1>10, <1>11 DEF Next, CallStep, vars

-----------------------------------------------------------------------------
(* Retries under a policy that opens no new gate for the outcome.          *)

SteadyPolicy == ~moves /\ (oneGate \/ \A g \in demanded : g[2] = "decision")

\* Every gate that an outcome may meet has been resolved.
GatesOpen ==
  \A i \in DOMAIN adapters :
    (adapters[i] \in Gatekeepers /\ <<i, PolicySubject("outcome")>> \in demanded)
      => status[<<i, PolicySubject("outcome")>>] = "resolved"

\* A decision that passed has resolved them; so no outcome is vetoed, and a call
\* that is retried has not yet called the function.
OnceParts ==
  /\ late = {}
  /\ phase = "deciding" => about = "decision"
  /\ phase = "reporting" => about = PolicySubject("outcome") /\ stage # "vetoed"
  /\ phase \in {"decided", "running", "reporting"} => GatesOpen
  /\ answer # "none" <=> phase = "over"
  /\ (phase \in {"idle", "deciding", "decided"} \/ answer = "gate") => ran = {}
  /\ \A m, n \in ran : m = n

OnceInv == SteadyPolicy => OnceParts

\* What the steps of an emit and of its surroundings do to the gates.
LEMMA GatesMove ==
  ASSUME GatesTyped, ~moves, EmitStep \/ AdapterRejects \/ Surroundings
  PROVE  /\ UNCHANGED <<adapters, moves, about, demanded, late>>
         /\ \A g \in Gates : status[g] = "resolved" => status'[g] = "resolved"
         /\ stage' = "vetoed" => stage = "vetoed" \/ AskPending
<1>1. CASE \E i \in DOMAIN adapters : Settles(i)
  BY <1>1 DEF Settles, gateVars
<1>2. CASE AllSettled
  BY <1>2 DEF AllSettled, gateVars
<1>3. CASE MergeNext
  BY <1>3 DEF MergeNext, gateVars
<1>4. CASE AllMerged
  BY <1>4 DEF AllMerged, gateVars
<1>5. CASE AskClear
  BY <1>5 DEF AskClear, gateVars
<1>6. CASE AskPending
  <2>1. /\ UNCHANGED <<adapters, moves, about, demanded, late>>
        /\ status' = [status EXCEPT ![GateOf(turn)] = IF @ = "unknown" THEN "pending" ELSE @]
    BY <1>6 DEF AskPending
  <2>2. \A g \in Gates : status[g] = "resolved" => status'[g] = "resolved"
    BY <2>1 DEF GatesTyped
  <2>3. QED
    BY <1>6, <2>1, <2>2
<1>7. CASE NonePending
  BY <1>7 DEF NonePending, gateVars
<1>8. CASE AdapterRejects
  BY <1>8 DEF AdapterRejects, gateVars
<1>9. ASSUME NEW g \in Gates, NEW v \in {"resolved", "denied"}, Decide(g, v)
      PROVE  /\ UNCHANGED <<adapters, moves, stage, about, demanded, late>>
             /\ \A h \in Gates : status[h] = "resolved" => status'[h] = "resolved"
  <2>1. /\ UNCHANGED <<adapters, moves, stage, about, demanded, late>>
        /\ status[g] = "pending" /\ status' = [status EXCEPT ![g] = v]
    BY <1>9 DEF Decide
  <2>2. QED
    BY <2>1 DEF GatesTyped
<1>10. ~ \E g \in Gates : Demand(g)
  BY DEF Demand
<1>11. CASE Surroundings
  BY <1>9, <1>10, <1>11 DEF Surroundings
<1>12. QED
  BY <1>1, <1>2, <1>3, <1>4, <1>5, <1>6, <1>7, <1>8, <1>11 DEF EmitStep

\* The policy is the host's; gates are only ever added to it.
LEMMA PolicyWasSteady ==
  ASSUME [Next]_vars, SteadyPolicy'
  PROVE  SteadyPolicy
<1>1. moves' = moves /\ demanded \subseteq demanded'
  <2>1. CASE EmitStep
    BY <2>1 DEF EmitStep, Settles, AllSettled, MergeNext, AllMerged, AskClear, AskPending,
                NonePending, gateVars
  <2>2. CASE EmitOver
    BY <2>2 DEF EmitOver
  <2>3. CASE AdapterRejects
    BY <2>3 DEF AdapterRejects, gateVars
  <2>4. CASE Surroundings
    BY <2>4 DEF Surroundings, Demand, Decide
  <2>5. CASE \E s \in Subjects : BuildEnvelope(s)
    BY <2>5 DEF BuildEnvelope
  <2>6. CASE UNCHANGED envelopeVars
    BY <2>6 DEF envelopeVars
  <2>7. UNCHANGED vars => UNCHANGED envelopeVars
    BY DEF vars
  <2>8. QED
    BY <2>1, <2>2, <2>3, <2>4, <2>5, <2>6, <2>7, EnvelopeActions
<1>2. oneGate' = oneGate
  BY DEF Next, CallStep, Call, Stored, CallFn, Answer, FnSettles, EmitFails, OnEventThrows,
         Crash, callVars, vars
<1>3. QED
  BY <1>1, <1>2 DEF SteadyPolicy

\* An emit that takes steps of its own, or whose surroundings do.
LEMMA EmitKeepsOnce ==
  ASSUME EnvelopeInv, SteadyPolicy, OnceParts, UNCHANGED callVars,
         EmitStep \/ AdapterRejects \/ Surroundings
  PROVE  OnceParts'
<1>1. GatesTyped /\ ~moves
  BY DEF EnvelopeInv, SteadyPolicy
<1>2. /\ UNCHANGED <<adapters, moves, about, demanded, late>>
      /\ \A g \in Gates : status[g] = "resolved" => status'[g] = "resolved"
      /\ stage' = "vetoed" => stage = "vetoed" \/ AskPending
  BY <1>1, GatesMove
<1>3. UNCHANGED <<phase, oneGate, answer, ran>>
  BY DEF callVars
<1>4. GatesOpen => GatesOpen'
  BY <1>1, <1>2, <1>3 DEF GatesOpen, GatesTyped, PolicySubject
<1>5. phase = "reporting" => stage' # "vetoed"
  <2>1. SUFFICES ASSUME phase = "reporting", AskPending
                 PROVE  FALSE
    BY <1>2 DEF OnceParts
  <2>2. GatesOpen /\ about = PolicySubject("outcome")
    BY <2>1 DEF OnceParts
  <2>3. turn \in DOMAIN adapters /\ HoldsBack(turn)
    BY <2>1 DEF AskPending
  <2>4. QED
    BY <2>2, <2>3 DEF GatesOpen, HoldsBack, GateOf
<1>6. PolicySubject("outcome")' = PolicySubject("outcome")
  BY <1>3 DEF PolicySubject
<1>7. QED
  BY <1>2, <1>3, <1>4, <1>5, <1>6 DEF OnceParts

\* A decision that is stored has passed every gate that its outcome may meet.
LEMMA DecidedOpensGates ==
  ASSUME EnvelopeInv, SteadyPolicy, OnceParts, stage = "clear", phase = "deciding"
  PROVE  GatesOpen
<1>1. SUFFICES ASSUME NEW i \in DOMAIN adapters, adapters[i] \in Gatekeepers,
                      <<i, PolicySubject("outcome")>> \in demanded
               PROVE  status[<<i, PolicySubject("outcome")>>] = "resolved"
  BY DEF GatesOpen
<1>2. PolicySubject("outcome") = "decision"
  BY <1>1 DEF SteadyPolicy, PolicySubject
<1>3. GateOf(i) = <<i, "decision">> /\ late = {}
  BY DEF OnceParts, GateOf
<1>4. i < Len(adapters) + 1
  BY <1>1, AdaptersTyped DEF EnvelopeInv
<1>5. QED
  BY <1>1, <1>2, <1>3, <1>4 DEF EnvelopeInv, GateInv, Passed

LEMMA OnceKept ==
  ASSUME EnvelopeInv, CallTyped, OnceInv, [Next]_vars
  PROVE  OnceInv'
<1>1. SUFFICES ASSUME SteadyPolicy'
               PROVE  OnceParts'
  BY DEF OnceInv
<1>2. SteadyPolicy
  BY <1>1, PolicyWasSteady
<1>3. OnceParts
  BY <1>2 DEF OnceInv
<1>4. CASE Call
  <2>1. /\ phase \in {"idle", "over"} /\ answer \in {"none", "gate"}
        /\ BuildEnvelope(PolicySubject("decision"))
        /\ phase' = "deciding" /\ answer' = "none" /\ ran' = ran
    BY <1>4 DEF Call
  <2>2. about' = "decision" /\ late' = {}
    BY <2>1 DEF BuildEnvelope, PolicySubject
  <2>3. ran = {}
    BY <1>3, <2>1 DEF OnceParts
  <2>4. QED
    BY <2>1, <2>2, <2>3 DEF OnceParts
<1>5. CASE Stored
  <2>1. /\ stage = "clear" /\ UNCHANGED <<oneGate, answer, ran>> /\ EmitOver
        /\ phase \in {"deciding", "reporting"}
        /\ phase' = IF phase = "deciding" THEN "decided" ELSE "reported"
    BY <1>5 DEF Stored, Emitting
  <2>2. late' = {} /\ UNCHANGED <<adapters, demanded, status>>
    BY <2>1 DEF EmitOver
  <2>3. phase = "deciding" => GatesOpen'
    BY <1>2, <1>3, <2>1, <2>2, DecidedOpensGates DEF GatesOpen, PolicySubject
  <2>4. QED
    BY <1>3, <2>1, <2>2, <2>3 DEF OnceParts
<1>6. CASE CallFn
  <2>1. /\ phase = "decided" /\ phase' = "running" /\ ran' = ran \cup {attempt}
        /\ UNCHANGED <<late, adapters, demanded, status, oneGate, answer>>
    BY <1>6 DEF CallFn, envelopeVars
  <2>2. ran = {} /\ answer = "none" /\ GatesOpen
    BY <1>3, <2>1 DEF OnceParts
  <2>3. GatesOpen'
    BY <2>1, <2>2 DEF GatesOpen, PolicySubject
  <2>4. QED
    BY <1>3, <2>1, <2>2, <2>3 DEF OnceParts
<1>7. ASSUME NEW ok \in BOOLEAN, FnSettles(ok)
      PROVE  OnceParts'
  <2>1. /\ phase = "running" /\ phase' = "reporting"
        /\ UNCHANGED <<oneGate, answer, ran>> /\ BuildEnvelope(PolicySubject("outcome"))
    BY <1>7 DEF FnSettles
  <2>2. /\ late' = {} /\ stage' = "contributing" /\ about' = PolicySubject("outcome")
        /\ UNCHANGED <<adapters, demanded, status>>
    BY <2>1 DEF BuildEnvelope
  <2>3. GatesOpen /\ answer = "none"
    BY <1>3, <2>1 DEF OnceParts
  <2>4. GatesOpen' /\ PolicySubject("outcome")' = PolicySubject("outcome")
    BY <2>1, <2>2, <2>3 DEF GatesOpen, PolicySubject
  <2>5. QED
    BY <1>3, <2>1, <2>2, <2>3, <2>4 DEF OnceParts
<1>8. ASSUME phase' = "over", answer' # "none", ran' = ran, late' = {},
             answer' = "gate" => ran = {}
      PROVE  OnceParts'
  BY <1>3, <1>8 DEF OnceParts
<1>9. CASE \E cause \in {"gate", "emit"} : EmitFails(cause)
  <2>1. PICK cause \in {"gate", "emit"} : EmitFails(cause)
    BY <1>9
  <2>2. /\ phase \in {"deciding", "reporting"} /\ (cause = "gate" => stage = "vetoed")
        /\ EmitOver /\ phase' = "over" /\ answer' = cause /\ ran' = ran
    BY <2>1 DEF EmitFails, Emitting
  <2>3. cause = "gate" => ran = {}
    BY <1>3, <2>2 DEF OnceParts
  <2>4. late' = {}
    BY <2>2 DEF EmitOver
  <2>5. QED
    BY <1>8, <2>2, <2>3, <2>4
<1>10. CASE Answer
  BY <1>3, <1>8, <1>10 DEF Answer, OnceParts, envelopeVars
<1>11. CASE OnEventThrows
  BY <1>3, <1>8, <1>11 DEF OnEventThrows, OnceParts, envelopeVars
<1>12. CASE Crash
  BY <1>8, <1>12 DEF Crash, EmitOver
<1>13. CASE (EmitStep \/ AdapterRejects \/ Surroundings) /\ UNCHANGED callVars
  BY <1>2, <1>3, <1>13, EmitKeepsOnce
<1>14. CASE UNCHANGED vars
  <2>1. UNCHANGED <<phase, oneGate, answer, ran, adapters, stage, about, demanded, status,
                    late>>
    BY <1>14 DEF vars, envelopeVars, callVars
  <2>2. GatesOpen' = GatesOpen /\ PolicySubject("outcome")' = PolicySubject("outcome")
    BY <2>1 DEF GatesOpen, PolicySubject
  <2>3. QED
    BY <1>3, <2>1, <2>2 DEF OnceParts
<1>15. QED
  BY <1>4, <1>5, <1>6, <1>7, <1>9, <1>10, <1>11, <1>12, <1>13, <1>14
  DEF Next, CallStep

-----------------------------------------------------------------------------
(* The theorems.                                                           *)

CallInv == EnvelopeInv /\ CallTyped /\ RecordInv /\ OnceInv

LEMMA CallInvInit ==
  ASSUME Init
  PROVE  CallInv
<1>1. /\ adapters \in Deployments /\ moves \in BOOLEAN /\ stage = "idle" /\ turn = 1
      /\ snapshot = Base({}) /\ envelope = snapshot /\ answers = << >>
      /\ demanded \subseteq Gates /\ status = [g \in Gates |-> "unknown"] /\ late = {}
      /\ about = "decision"
  BY DEF Init, EnvelopeInit
<1>2. /\ phase = "idle" /\ attempt = 0 /\ oneGate \in BOOLEAN
      /\ decision = 0 /\ result = TRUE /\ answer = "none" /\ ran = {} /\ log = {}
  BY DEF Init
<1>3. GatesTyped
  BY <1>1, EnvelopeAssumption DEF GatesTyped
<1>4. DOMAIN answers = {} /\ 1 \in 1..Len(adapters) + 1
  BY <1>1, <1>3, AdaptersTyped
<1>5. EmitTyped
  BY <1>1, <1>4, BaseTyped, WrappedCallAssumption DEF EmitTyped, Stages
<1>6. EnvelopeInv
  BY <1>1, <1>3, <1>5 DEF EnvelopeInv, MergeInv, GateInv
<1>7. CallTyped
  BY <1>2, WrappedCallAssumption DEF CallTyped, Phases, Answers
<1>8. RecordInv
  BY <1>2 DEF RecordInv, LogInv, PhaseInv
<1>9. OnceInv
  BY <1>1, <1>2 DEF OnceInv, OnceParts
<1>10. QED
  BY <1>6, <1>7, <1>8, <1>9 DEF CallInv

LEMMA CallInvKept ==
  ASSUME CallInv, [Next]_vars
  PROVE  CallInv'
BY EnvelopeKept, CallTypedKept, RecordKept, OnceKept DEF CallInv

\* The wrapped call and its envelope keep their types.
THEOREM CallTypes == Spec => []CallTypeOK
<1>1. CallInv => CallTypeOK
  BY EnvelopeTypes DEF CallInv, EnvelopeInv, CallTypeOK, CallTyped
<1>2. QED
  BY <1>1, CallInvInit, CallInvKept, PTL DEF Spec

\* However many adapters are registered, and in whatever order they settle: a section
\* of an envelope is the whole block of the last registered one that filled it, and
\* one that none of them filled is the caller's (bus.ts:98-105).
THEOREM MergeIsByRegistration == Spec => []LastRegisteredWins
<1>1. CallInv => LastRegisteredWins
  BY DEF CallInv, EnvelopeInv, MergeInv, MergedTo, LastRegisteredWins
<1>2. QED
  BY <1>1, CallInvInit, CallInvKept, PTL DEF Spec

\* An event that has passed findPendingGate (gate.ts:37-52) leaves no demanded gate
\* unresolved but one that was demanded after its adapter was asked.
THEOREM PassedIsClear == Spec => []PassedNoPendingGate
<1>1. CallInv => PassedNoPendingGate
  <2>1. SUFFICES ASSUME CallInv, stage = "clear", NEW i \in DOMAIN adapters,
                        adapters[i] \in Gatekeepers, GateOf(i) \in demanded \ late
                 PROVE  status[GateOf(i)] = "resolved"
    BY DEF PassedNoPendingGate
  <2>2. i < Len(adapters) + 1
    BY <2>1, AdaptersTyped DEF CallInv, EnvelopeInv
  <2>3. QED
    BY <2>1, <2>2 DEF CallInv, EnvelopeInv, GateInv, Passed
<1>2. QED
  BY <1>1, CallInvInit, CallInvKept, PTL DEF Spec

\* Whoever is given the value of a wrapped function, or its error, finds the decision
\* and the outcome on file, and no outcome is on file without the decision it names
\* (with-sonder.ts:60-86).
THEOREM AnswersAreRecorded == Spec => []AnswerIsRecorded
<1>1. CallInv => AnswerIsRecorded
  BY DEF CallInv, RecordInv, LogInv, PhaseInv, AnswerIsRecorded
<1>2. QED
  BY <1>1, CallInvInit, CallInvKept, PTL DEF Spec

\* Under a policy that opens no gate for an outcome which its decision has not met,
\* a caller who retries vetoed calls, however often, runs the function once
\* (gate.ts:26-29, with-sonder.ts:60-86).
THEOREM RetriesRunOnce == Spec => []FnRunsOnce
<1>1. CallInv => FnRunsOnce
  BY DEF CallInv, OnceInv, SteadyPolicy, OnceParts, FnRunsOnce
<1>2. QED
  BY <1>1, CallInvInit, CallInvKept, PTL DEF Spec

=============================================================================
