-------------------------- MODULE EmitPipelineProofs --------------------------
(***************************************************************************)
(* Theorems about EmitPipeline, for any number of emits, agents and        *)
(* restarts, any scheduling and any subset of the faults.                  *)
(***************************************************************************)
EXTENDS EmitPipeline, TLAPS

-----------------------------------------------------------------------------
(* The order of the log.                                                   *)

LEMMA SubsetTyped ==
  ASSUME NEW R, R \subseteq Row, NEW a
  PROVE  V2(R, a) \subseteq Row /\ \A r \in V2(R, a) : r.agent = a /\ r.version = 2
  BY DEF V2

LEMMA BeforeAsymmetric ==
  ASSUME NEW r \in Row, NEW s \in Row, Before(r, s)
  PROVE  ~Before(s, r) /\ r # s
  BY DEF Before, Row

LEMMA BeforeTransitive ==
  ASSUME NEW r \in Row, NEW s \in Row, NEW t \in Row, Before(r, s), Before(s, t)
  PROVE  Before(r, t)
  BY DEF Before, Row

LEMMA BeforeTotal ==
  ASSUME NEW r \in Row, NEW s \in Row, r.id # s.id
  PROVE  Before(r, s) \/ Before(s, r)
  BY DEF Before, Row

LEMMA HeadUnique ==
  ASSUME NEW S, S \subseteq Row, NEW h \in S, NEW k \in S, IsHead(S, h), IsHead(S, k)
  PROVE  h = k
  BY BeforeAsymmetric DEF IsHead

\* A set of rows with a last row still has one when a row is added.
LEMMA HeadOfUnion ==
  ASSUME NEW S, S \subseteq Row, NEW r \in Row, \A s \in S : s.id # r.id,
         S # {} => \E h \in S : IsHead(S, h)
  PROVE  \E h \in S \cup {r} : IsHead(S \cup {r}, h)
<1>1. CASE S = {}
  BY <1>1 DEF IsHead
<1>2. CASE S # {}
  <2>1. PICK h \in S : IsHead(S, h)
    BY <1>2
  <2>2. CASE Before(h, r)
    <3>1. \A s \in (S \cup {r}) \ {r} : Before(s, r)
      BY <2>1, <2>2, BeforeTransitive DEF IsHead
    <3>2. QED
      BY <3>1 DEF IsHead
  <2>3. CASE Before(r, h)
    <3>1. IsHead(S \cup {r}, h)
      BY <2>1, <2>3 DEF IsHead
    <3>2. QED
      BY <3>1
  <2>4. QED
    BY <2>1, <2>2, <2>3, BeforeTotal
<1>3. QED
  BY <1>1, <1>2

\* readLatestHash finds the last row.
LEMMA LatestIsHead ==
  ASSUME NEW R, R \subseteq Row, NEW a, NEW h \in V2(R, a), IsHead(V2(R, a), h)
  PROVE  ReadHeadEvent(R, a) = h /\ ReadLatestHash(R, a) = HashOf(h.id)
<1>1. ReadHeadEvent(R, a) \in V2(R, a) /\ IsHead(V2(R, a), ReadHeadEvent(R, a))
  BY DEF ReadHeadEvent
<1>2. ReadHeadEvent(R, a) = h
  BY <1>1, SubsetTyped, HeadUnique
<1>3. QED
  BY <1>2 DEF ReadLatestHash

LEMMA HashesDiffer ==
  /\ \A i : HashOf(i) # NoHash
  /\ \A i, a, t : HashOf(i) # Seed(a, t)
  /\ \A i, j : HashOf(i) = HashOf(j) => i = j
  /\ \A a, b, t, u : Seed(a, t) = Seed(b, u) => a = b /\ t = u
  BY DEF HashOf, NoHash, Seed

-----------------------------------------------------------------------------
(* The inductive invariant.                                                *)

\* Ids are minted once, and an emit in flight has stored nothing yet.
IdsMinted ==
  /\ \A e \in Emits : pc[e] # "idle" => env[e].id < nextId
  /\ \A e, f \in Emits :
       (pc[e] # "idle" /\ pc[f] # "idle" /\ env[e].id = env[f].id) => e = f
  /\ \A e \in Emits : InFlight(e) => \A r \in rows : r.id # env[e].id
  /\ \A r \in rows : r.id < nextId
  /\ \A r, s \in rows : r.id = s.id => r = s

\* Every chain has a last row.
HeadsExist ==
  \A a \in Agents :
    V2(rows, a) # {} => \E h \in V2(rows, a) : IsHead(V2(rows, a), h)

IInv == TypeOK /\ IdsMinted /\ HeadsExist /\ OneRoot

\* No emit that started before e is still in flight.
FirstInLine(e) == \A f \in Emits : InFlight(f) => ~(env[f].id < env[e].id)

\* What a step may do to the store.
CommitsSigned(e) ==
  /\ InFlight(e) /\ env[e] \in Envelope /\ env[e].version = 2
  /\ Lockstep => FirstInLine(e)
  /\ WriteChain(SignedRow(env[e]))
  /\ pc'[e] \in Settled

StoresLegacy(e) ==
  /\ InFlight(e) /\ env[e] \in Envelope
  /\ Lockstep => FirstInLine(e)
  /\ rows' = rows \cup {LegacyRow(env[e])}
  /\ genesis' = genesis
  /\ pc'[e] \in Settled

LEMMA StoreSteps ==
  ASSUME TypeOK, [Next]_vars
  PROVE  \/ rows' = rows /\ genesis' = genesis
         \/ \E e \in Emits : CommitsSigned(e) \/ StoresLegacy(e)
<1>1. \A e \in Emits : pc[e] = "gating" => InFlight(e) /\ env[e] \in Envelope
  BY DEF TypeOK, InFlight, InFlightStages
<1>2. \A e \in Emits : \A x \in Settled : Settle(e, x) => pc'[e] \in Settled
  BY DEF TypeOK, Settle
<1>2a. \A e \in Emits : (pc[e] = "gating" /\ MayStep(e)) => (Lockstep => FirstInLine(e))
  BY DEF MayStep, FirstInLine
<1>3. ASSUME NEW e \in Emits, PersistSigned(e)
      PROVE  CommitsSigned(e)
  BY <1>1, <1>2, <1>2a, <1>3 DEF PersistSigned, ReachesStore, CommitsSigned, Settled
<1>4. ASSUME NEW e \in Emits, CrashAfterCommit(e)
      PROVE  CommitsSigned(e) \/ StoresLegacy(e)
  <2>1. pc'[e] \in Settled
    BY <1>1, <1>4 DEF CrashAfterCommit, ReachesStore, Die, TypeOK, Settled
  <2>2. CASE ReachesStore(e, 2) /\ WriteChain(SignedRow(env[e]))
    BY <1>1, <1>2a, <2>1, <2>2 DEF ReachesStore, CommitsSigned
  <2>3. CASE ReachesStore(e, 1) /\ rows' = rows \cup {LegacyRow(env[e])} /\ UNCHANGED genesis
    BY <1>1, <1>2a, <2>1, <2>3 DEF ReachesStore, StoresLegacy
  <2>4. QED
    BY <1>4, <2>2, <2>3 DEF CrashAfterCommit
<1>5. ASSUME NEW e \in Emits, PersistLegacy(e)
      PROVE  StoresLegacy(e)
  BY <1>1, <1>2, <1>2a, <1>5 DEF PersistLegacy, ReachesStore, StoresLegacy, Settled
<1>6. ASSUME NEW e \in Emits, NEW a \in Agents, NEW v \in Versions, Start(e, a, v)
      PROVE  UNCHANGED store
  BY <1>6 DEF Start
<1>7. ASSUME NEW e \in Emits,
             \/ Contribute(e) \/ AdapterFails(e) \/ GateVetoes(e) \/ Refused(e)
             \/ StoreRefuses(e) \/ HandlerRollsBack(e) \/ LateRollback(e)
      PROVE  UNCHANGED store
  BY <1>7 DEF Contribute, AdapterFails, GateVetoes, Refused, StoreRefuses,
              HandlerRollsBack, LateRollback
<1>8. ASSUME NEW i \in observing, ObserveResolves(i) \/ ObserveRejects(i)
      PROVE  UNCHANGED store
  BY <1>8 DEF ObserveResolves, ObserveRejects
<1>9. ASSUME Shutdown \/ Crash \/ Restart \/ Tick \/ StepBack
      PROVE  UNCHANGED store
  BY <1>9 DEF Shutdown, Crash, Restart, Tick, StepBack
<1>10. QED
  BY <1>3, <1>4, <1>5, <1>6, <1>7, <1>8, <1>9 DEF Next, Finish, vars, store

\* The hash that the next row is linked to.
LEMMA PrevOfNext ==
  ASSUME TypeOK, HeadsExist, OneRoot, NEW a \in Agents, NEW t \in Nat
  PROVE  LET p == ReadPrevHashForNextEvent(rows, genesis, a, t) IN
         \/ V2(rows, a) = {} /\ p = Seed(a, t)
         \/ \E h \in V2(rows, a) : IsHead(V2(rows, a), h) /\ p = HashOf(h.id)
<1>1. CASE V2(rows, a) = {}
  <2>1. ReadGenesis(genesis, a) = {}
    BY <1>1 DEF OneRoot
  <2>2. QED
    BY <1>1, <2>1 DEF ReadPrevHashForNextEvent, ReadLatestHash
<1>2. CASE V2(rows, a) # {}
  <2>1. PICK h \in V2(rows, a) : IsHead(V2(rows, a), h)
    BY <1>2 DEF HeadsExist
  <2>2. ReadLatestHash(rows, a) = HashOf(h.id)
    BY <2>1, LatestIsHead DEF TypeOK
  <2>3. QED
    BY <2>1, <2>2, HashesDiffer DEF ReadPrevHashForNextEvent
<1>3. QED
  BY <1>1, <1>2

LEMMA NewRowTyped ==
  ASSUME TypeOK, HeadsExist, OneRoot, NEW e \in Emits, env[e] \in Envelope
  PROVE  SignedRow(env[e]) \in Row /\ LegacyRow(env[e]) \in Row
<1>1. env[e].agent \in Agents /\ env[e].ts \in Nat /\ env[e].id \in Nat
  BY DEF Envelope
<1>2. ReadPrevHashForNextEvent(rows, genesis, env[e].agent, env[e].ts) \in Hash
  <2>1. \A r \in rows : r.id \in Nat
    BY DEF TypeOK, Row
  <2>2. \A r \in V2(rows, env[e].agent) : HashOf(r.id) \in Hash
    BY <2>1 DEF V2, HashOf, Hash
  <2>3. Seed(env[e].agent, env[e].ts) \in Hash
    BY <1>1 DEF Seed, Hash
  <2>4. QED
    BY <1>1, <2>2, <2>3, PrevOfNext
<1>3. key \in Nat
  BY DEF TypeOK
<1>4. SignedRow(env[e]) \in Row
  BY <1>1, <1>2, <1>3 DEF SignedRow, Row
<1>5. LegacyRow(env[e]) \in Row
  BY <1>1, <1>3 DEF LegacyRow, Row, Hash
<1>6. QED
  BY <1>4, <1>5

-----------------------------------------------------------------------------
(* Each part of the invariant is preserved.                                *)

\* The tables keep their types.
LEMMA StoreTyped ==
  ASSUME IInv, [Next]_vars
  PROVE  /\ rows' \subseteq Row
         /\ genesis' \subseteq [agent : Agents, id : Nat, ts : Nat]
<1>1. CASE rows' = rows /\ genesis' = genesis
  BY <1>1 DEF IInv, TypeOK
<1>2. ASSUME NEW e \in Emits, CommitsSigned(e)
      PROVE  /\ rows' \subseteq Row
             /\ genesis' \subseteq [agent : Agents, id : Nat, ts : Nat]
  <2>1. SignedRow(env[e]) \in Row
    BY <1>2, NewRowTyped DEF IInv, CommitsSigned
  <2>2. QED
    BY <1>2, <2>1 DEF IInv, TypeOK, CommitsSigned, WriteChain, GenesisAfter, Row
<1>3. ASSUME NEW e \in Emits, StoresLegacy(e)
      PROVE  /\ rows' \subseteq Row
             /\ genesis' \subseteq [agent : Agents, id : Nat, ts : Nat]
  <2>1. LegacyRow(env[e]) \in Row
    BY <1>3, NewRowTyped DEF IInv, StoresLegacy
  <2>2. QED
    BY <1>3, <2>1 DEF IInv, TypeOK, StoresLegacy
<1>4. QED
  BY <1>1, <1>2, <1>3, StoreSteps DEF IInv

LEMMA TypePreserved ==
  ASSUME IInv, [Next]_vars
  PROVE  TypeOK'
<1> USE DEF IInv, TypeOK, store, world
<1>1. rows' \subseteq Row /\ genesis' \subseteq [agent : Agents, id : Nat, ts : Nat]
  BY StoreTyped
<1>2. ASSUME NEW e \in Emits, NEW a \in Agents, NEW v \in Versions, Start(e, a, v)
      PROVE  TypeOK'
  <2>1. env'[e] \in Envelope
    BY <1>2, ConstantsAssumption DEF Start, Envelope, GovernanceRecords
  <2>2. DOMAIN env = Emits /\ DOMAIN env' = Emits /\ \A f \in Emits \ {e} : env'[f] = env[f]
    BY <1>2 DEF Start
  <2>3. env' \in [Emits -> Envelope \cup {NoEnvelope}]
    BY <1>2, <2>1, <2>2 DEF Start
  <2>4. \A f \in Emits : pc'[f] # "idle" => env'[f] \in Envelope
    BY <1>2, <2>1, <2>2 DEF Start
  <2>5. pc' \in [Emits -> {"idle"} \cup InFlightStages \cup Settled] /\ nextId' \in Nat
    BY <1>2 DEF Start, InFlightStages
  <2>6. UNCHANGED <<proc, clock, key, restarts, seen, observing>>
    BY <1>2 DEF Start
  <2>7. QED
    BY <1>1, <2>3, <2>4, <2>5, <2>6
<1>3. ASSUME NEW e \in Emits, Contribute(e)
      PROVE  TypeOK'
  <2>1. PICK g \in Governance : env' = [env EXCEPT ![e] = Merged(env[e], g)]
    BY <1>3 DEF Contribute
  <2>2. env'[e] = Merged(env[e], g) /\ env[e] \in Envelope
    BY <1>3, <2>1 DEF Contribute
  <2>3. g \in GovernanceRecords
    BY <2>1, ConstantsAssumption
  <2>4. env'[e] \in Envelope
    BY <2>2, <2>3 DEF Envelope, Merged
  <2>5. QED
    BY <1>1, <1>3, <2>1, <2>4 DEF Contribute, InFlightStages
<1>4. ASSUME NEW e \in Emits, AdapterFails(e) \/ GateVetoes(e) \/ Refused(e) \/ StoreRefuses(e)
      PROVE  TypeOK'
  <2>1. pc[e] # "idle"
    BY <1>4 DEF AdapterFails, GateVetoes, Refused, StoreRefuses, ReachesStore,
                InFlight, InFlightStages
  <2>2. QED
    BY <1>1, <1>4, <2>1 DEF AdapterFails, GateVetoes, Refused, StoreRefuses, Settle,
                            Settled
<1>5. ASSUME NEW e \in Emits,
             PersistSigned(e) \/ HandlerRollsBack(e) \/ LateRollback(e) \/ PersistLegacy(e)
      PROVE  TypeOK'
  <2>1. pc[e] # "idle" /\ env[e].id \in Nat
    BY <1>5 DEF PersistSigned, HandlerRollsBack, LateRollback, PersistLegacy,
                ReachesStore, Envelope
  <2>2. QED
    BY <1>1, <1>5, <2>1 DEF PersistSigned, HandlerRollsBack, LateRollback,
                            PersistLegacy, Settle, Settled
<1>6. ASSUME Die
      PROVE  TypeOK'
  BY <1>1, <1>6 DEF Die, InFlight, InFlightStages, Settled
<1>7. ASSUME NEW i \in observing, ObserveResolves(i)
      PROVE  TypeOK'
  BY <1>1, <1>7 DEF ObserveResolves
<1>8. ASSUME Shutdown \/ Restart \/ Tick \/ StepBack
      PROVE  TypeOK'
  <2>1. clock \in Nat /\ restarts \in Nat /\ key \in Nat
    OBVIOUS
  <2>2. proc' \in {"running", "closed", "down"} /\ clock' \in Nat
        /\ key' \in Nat /\ restarts' \in Nat
    BY <1>8, <2>1 DEF Shutdown, Restart, Tick, StepBack
  <2>3. UNCHANGED <<nextId, pc, env, seen, observing>>
    BY <1>8 DEF Shutdown, Restart, Tick, StepBack
  <2>4. QED
    BY <1>1, <2>2, <2>3
<1>9. CASE UNCHANGED vars
  BY <1>9 DEF vars
<1>10. QED
  BY <1>2, <1>3, <1>4, <1>5, <1>6, <1>7, <1>8, <1>9
     DEF Next, Finish, Crash, CrashAfterCommit, ObserveRejects

\* Every step but Start leaves the ids of the emits alone and puts no emit in flight.
LEMMA EmitSteps ==
  ASSUME TypeOK, [Next]_vars
  PROVE  \/ \E e \in Emits, a \in Agents, v \in Versions : Start(e, a, v)
         \/ /\ nextId' = nextId
            /\ \A f \in Emits : /\ env'[f].id = env[f].id
                                /\ InFlight(f)' => InFlight(f)
                                /\ pc'[f] # "idle" => pc[f] # "idle"
<1> DEFINE Quiet == /\ nextId' = nextId
                    /\ \A f \in Emits : /\ env'[f].id = env[f].id
                                        /\ InFlight(f)' => InFlight(f)
                                        /\ pc'[f] # "idle" => pc[f] # "idle"
<1> USE DEF TypeOK, InFlight, InFlightStages, world
<1>1. ASSUME NEW e \in Emits, Contribute(e)
      PROVE  Quiet
  <2>1. PICK g \in Governance : env' = [env EXCEPT ![e] = Merged(env[e], g)]
    BY <1>1 DEF Contribute
  <2>2. \A f \in Emits : env'[f].id = env[f].id
    BY <2>1 DEF Merged
  <2>3. \A f \in Emits : (pc'[f] # "idle" => pc[f] # "idle") /\ (InFlight(f)' => InFlight(f))
    BY <1>1 DEF Contribute
  <2>4. QED
    BY <1>1, <2>2, <2>3 DEF Contribute
<1>2. ASSUME NEW e \in Emits, NEW x \in Settled, InFlight(e), Settle(e, x),
             UNCHANGED <<nextId, env>>
      PROVE  Quiet
  BY <1>2 DEF Settle, Settled
<1>3. ASSUME NEW e \in Emits, Finish(e) \/ AdapterFails(e)
      PROVE  Quiet
  <2>1. InFlight(e) /\ \E x \in Settled : Settle(e, x)
    BY <1>3 DEF Finish, AdapterFails, GateVetoes, Refused, StoreRefuses, PersistSigned,
                HandlerRollsBack, LateRollback, PersistLegacy, ReachesStore, Settled
  <2>2. UNCHANGED <<nextId, env>>
    BY <1>3 DEF Finish, AdapterFails, GateVetoes, Refused, StoreRefuses, PersistSigned,
                HandlerRollsBack, LateRollback, PersistLegacy
  <2>3. QED
    BY <1>2, <2>1, <2>2
<1>4. ASSUME Die
      PROVE  Quiet
  BY <1>4 DEF Die
<1>5. ASSUME \/ \E i \in observing : ObserveResolves(i)
             \/ Shutdown \/ Restart \/ Tick \/ StepBack \/ UNCHANGED vars
      PROVE  Quiet
  <2>1. UNCHANGED <<nextId, pc, env>>
    BY <1>5 DEF ObserveResolves, Shutdown, Restart, Tick, StepBack, vars
  <2>2. QED
    BY <2>1
<1>6. QED
  BY <1>1, <1>3, <1>4, <1>5 DEF Next, Crash, CrashAfterCommit, ObserveRejects

LEMMA IdsPreserved ==
  ASSUME IInv, [Next]_vars
  PROVE  IdsMinted'
<1> USE DEF IInv, IdsMinted
<1>0. /\ \A e \in Emits : pc[e] # "idle" => env[e].id \in Nat
      /\ nextId \in Nat
      /\ \A r \in rows : r.id \in Nat
  BY DEF TypeOK, Envelope, Row
<1>1. ASSUME NEW e \in Emits, NEW a \in Agents, NEW v \in Versions, Start(e, a, v)
      PROVE  IdsMinted'
  <2>1. nextId' = nextId + 1 /\ rows' = rows /\ pc[e] = "idle"
    BY <1>1 DEF Start, store
  <2>2. env'[e].id = nextId /\ \A f \in Emits \ {e} : env'[f] = env[f]
    BY <1>1 DEF Start, TypeOK
  <2>3. \A f \in Emits \ {e} : pc'[f] = pc[f]
    BY <1>1 DEF Start, TypeOK
  <2>4. \A f \in Emits : pc'[f] # "idle" => env'[f].id < nextId'
    BY <1>0, <2>1, <2>2, <2>3
  <2>5. \A f, g \in Emits :
          (pc'[f] # "idle" /\ pc'[g] # "idle" /\ env'[f].id = env'[g].id) => f = g
    BY <1>0, <2>2, <2>3
  <2>6. \A f \in Emits : InFlight(f)' => \A r \in rows' : r.id # env'[f].id
    BY <1>0, <2>1, <2>2, <2>3 DEF InFlight
  <2>7. \A r \in rows' : r.id < nextId'
    BY <1>0, <2>1
  <2>8. QED
    BY <2>1, <2>4, <2>5, <2>6, <2>7
<1>2. ASSUME nextId' = nextId,
             \A f \in Emits : /\ env'[f].id = env[f].id
                              /\ InFlight(f)' => InFlight(f)
                              /\ pc'[f] # "idle" => pc[f] # "idle"
      PROVE  IdsMinted'
  <2>1. CASE rows' = rows
    BY <1>2, <2>1
  <2>2. ASSUME NEW e \in Emits, CommitsSigned(e) \/ StoresLegacy(e)
        PROVE  IdsMinted'
    <3>0. SignedRow(env[e]).id = env[e].id /\ LegacyRow(env[e]).id = env[e].id
      BY DEF SignedRow, LegacyRow
    <3>1. PICK r : rows' = rows \cup {r} /\ r.id = env[e].id
      BY <2>2, <3>0 DEF CommitsSigned, StoresLegacy, WriteChain
    <3>2. InFlight(e) /\ ~InFlight(e)'
      BY <2>2 DEF CommitsSigned, StoresLegacy, InFlight, InFlightStages, Settled
    <3>3. pc[e] # "idle"
      BY <3>2 DEF InFlight, InFlightStages
    <3>4. \A f \in Emits : InFlight(f)' => env[f].id # r.id
      BY <1>2, <3>1, <3>2, <3>3 DEF InFlight, InFlightStages
    <3>5. \A f \in Emits : InFlight(f)' => \A s \in rows' : s.id # env'[f].id
      BY <1>2, <3>1, <3>4
    <3>6. \A s \in rows' : s.id < nextId'
      BY <1>2, <3>1, <3>3
    <3>7. \A s, t \in rows' : s.id = t.id => s = t
      BY <3>1, <3>2
    <3>8. QED
      BY <1>2, <3>5, <3>6, <3>7
  <2>3. QED
    BY <2>1, <2>2, StoreSteps
<1>3. QED
  BY <1>1, <1>2, EmitSteps

\* Emit e adds the row r, with a new id, to the chain of agent a and to no other.
ExtendsChain(e, r, a) ==
  /\ InFlight(e) /\ (Lockstep => FirstInLine(e))
  /\ r \in Row /\ r.agent = a /\ r.version = 2
  /\ r.prev = ReadPrevHashForNextEvent(rows, genesis, a, r.ts)
  /\ \A s \in rows : s.id # r.id
  /\ V2(rows', a) = V2(rows, a) \cup {r}
  /\ \A b \in Agents \ {a} : V2(rows', b) = V2(rows, b)
  /\ genesis' = GenesisAfter(genesis, r)

\* No step but a commit touches a chain.
LEMMA ChainSteps ==
  ASSUME IInv, [Next]_vars, NEW a \in Agents
  PROVE  \/ V2(rows', a) = V2(rows, a) /\ ReadGenesis(genesis', a) = ReadGenesis(genesis, a)
         \/ \E e \in Emits, r \in Row : ExtendsChain(e, r, a)
<1>1. CASE rows' = rows /\ genesis' = genesis
  BY <1>1
<1>2. ASSUME NEW e \in Emits, StoresLegacy(e)
      PROVE  V2(rows', a) = V2(rows, a) /\ genesis' = genesis
  BY <1>2 DEF StoresLegacy, LegacyRow, V2
<1>3. ASSUME NEW e \in Emits, CommitsSigned(e)
      PROVE  \/ V2(rows', a) = V2(rows, a) /\ ReadGenesis(genesis', a) = ReadGenesis(genesis, a)
             \/ \E r \in Row : ExtendsChain(e, r, a)
  <2> DEFINE r == SignedRow(env[e])
  <2>1. /\ r.version = 2 /\ r.id = env[e].id /\ r.agent = env[e].agent
        /\ r.prev = ReadPrevHashForNextEvent(rows, genesis, r.agent, r.ts)
    BY DEF SignedRow
  <2>2. r \in Row
    BY <1>3, NewRowTyped DEF CommitsSigned, IInv
  <2>3. \A s \in rows : s.id # r.id
    BY <1>3, <2>1 DEF CommitsSigned, IInv, IdsMinted
  <2>4. rows' = rows \cup {r} /\ genesis' = GenesisAfter(genesis, r) /\ InFlight(e)
        /\ (Lockstep => FirstInLine(e))
    BY <1>3 DEF CommitsSigned, WriteChain
  <2> HIDE DEF r
  <2>5. CASE r.agent = a
    <3>1. V2(rows', a) = V2(rows, a) \cup {r}
      BY <2>1, <2>4, <2>5 DEF V2
    <3>2. \A b \in Agents \ {a} : V2(rows', b) = V2(rows, b)
      BY <2>1, <2>4, <2>5 DEF V2
    <3>3. QED
      BY <2>1, <2>2, <2>3, <2>4, <2>5, <3>1, <3>2 DEF ExtendsChain
  <2>6. CASE r.agent # a
    <3>1. V2(rows', a) = V2(rows, a)
      BY <2>1, <2>4, <2>6 DEF V2
    <3>2. ReadGenesis(genesis', a) = ReadGenesis(genesis, a)
      BY <2>1, <2>4, <2>6 DEF ReadGenesis, GenesisAfter
    <3>3. QED
      BY <3>1, <3>2
  <2>7. QED
    BY <2>5, <2>6
<1>4. QED
  BY <1>1, <1>2, <1>3, StoreSteps DEF IInv

LEMMA HeadsPreserved ==
  ASSUME IInv, [Next]_vars
  PROVE  HeadsExist'
<1>1. SUFFICES ASSUME NEW a \in Agents, V2(rows', a) # {}
               PROVE  \E h \in V2(rows', a) : IsHead(V2(rows', a), h)
  BY DEF HeadsExist
<1>2. CASE V2(rows', a) = V2(rows, a)
  BY <1>1, <1>2 DEF IInv, HeadsExist
<1>3. ASSUME NEW r \in Row, \A s \in rows : s.id # r.id, V2(rows', a) = V2(rows, a) \cup {r}
      PROVE  \E h \in V2(rows', a) : IsHead(V2(rows', a), h)
  <2>1. V2(rows, a) \subseteq Row /\ \A s \in V2(rows, a) : s.id # r.id
    BY <1>3 DEF V2, IInv, TypeOK
  <2>2. V2(rows, a) # {} => \E h \in V2(rows, a) : IsHead(V2(rows, a), h)
    BY DEF IInv, HeadsExist
  <2>3. \E h \in V2(rows, a) \cup {r} : IsHead(V2(rows, a) \cup {r}, h)
    BY <2>1, <2>2, HeadOfUnion
  <2>4. QED
    BY <1>3, <2>3
<1>4. QED
  BY <1>2, <1>3, ChainSteps DEF ExtendsChain

LEMMA RootPreserved ==
  ASSUME IInv, [Next]_vars
  PROVE  OneRoot'
<1> DEFINE Root(S, G, a) ==
      /\ S = {} <=> G = {}
      /\ \A g, h \in G : g = h
      /\ \A g \in G : \A r \in S :
           IF r.id = g.id
           THEN r.prev = Seed(a, g.ts) /\ r.ts = g.ts
           ELSE \E p \in S \ {r} : r.prev = HashOf(p.id)
      /\ \A g \in G : \E r \in S : r.id = g.id
<1>1. SUFFICES ASSUME NEW a \in Agents
               PROVE  Root(V2(rows', a), ReadGenesis(genesis', a), a)
  BY DEF OneRoot
<1>2. Root(V2(rows, a), ReadGenesis(genesis, a), a)
  BY DEF IInv, OneRoot
<1>3. CASE V2(rows', a) = V2(rows, a) /\ ReadGenesis(genesis', a) = ReadGenesis(genesis, a)
  BY <1>2, <1>3
<1>4. ASSUME NEW r \in Row, r.agent = a,
             r.prev = ReadPrevHashForNextEvent(rows, genesis, a, r.ts),
             \A s \in rows : s.id # r.id,
             V2(rows', a) = V2(rows, a) \cup {r}, genesis' = GenesisAfter(genesis, r)
      PROVE  Root(V2(rows', a), ReadGenesis(genesis', a), a)
  <2>1. r.ts \in Nat /\ \A s \in V2(rows, a) : s.id # r.id
    BY <1>4 DEF Row, V2
  <2>2. CASE V2(rows, a) = {}
    <3>1. ReadGenesis(genesis, a) = {}
      BY <1>2, <2>2
    <3>2. ReadGenesis(genesis', a) = {[agent |-> a, id |-> r.id, ts |-> r.ts]}
      BY <1>4, <3>1 DEF ReadGenesis, GenesisAfter
    <3>3. r.prev = Seed(a, r.ts)
      BY <1>4, <2>1, <2>2, PrevOfNext DEF IInv
    <3>4. V2(rows', a) = {r}
      BY <1>4, <2>2
    <3> DEFINE g == [agent |-> a, id |-> r.id, ts |-> r.ts]
    <3>5. ReadGenesis(genesis', a) = {g} /\ g.id = r.id /\ g.ts = r.ts
      BY <3>2
    <3> HIDE DEF g
    <3>6. r.prev = Seed(a, g.ts)
      BY <3>3, <3>5
    <3>7. Root({r}, {g}, a)
      BY <3>5, <3>6, Zenon
    <3>8. QED
      BY <3>4, <3>5, <3>7
  <2>3. CASE V2(rows, a) # {}
    <3>1. ReadGenesis(genesis, a) # {}
      BY <1>2, <2>3
    <3>2. ReadGenesis(genesis', a) = ReadGenesis(genesis, a)
      BY <1>4, <3>1 DEF GenesisAfter
    <3>3. PICK h \in V2(rows, a) : r.prev = HashOf(h.id)
      BY <1>4, <2>1, <2>3, PrevOfNext DEF IInv
    <3>4. \A g \in ReadGenesis(genesis, a) : g.id # r.id
      BY <1>2, <2>1
    <3>5. h # r
      BY <2>1
    <3>6. QED
      BY <1>2, <1>4, <2>3, <3>1, <3>2, <3>3, <3>4, <3>5
  <2>4. QED
    BY <2>2, <2>3
<1>5. QED
  BY <1>3, <1>4, ChainSteps DEF ExtendsChain

-----------------------------------------------------------------------------
(* The theorems.                                                           *)

LEMMA InitIInv == Init => IInv
<1>1. SUFFICES ASSUME Init
               PROVE  IInv
  OBVIOUS
<1>2. TypeOK
  BY <1>1 DEF Init, TypeOK, NoEnvelope
<1>3. IdsMinted
  BY <1>1 DEF Init, IdsMinted, InFlight, InFlightStages
<1>4. HeadsExist
  BY <1>1 DEF Init, HeadsExist, V2
<1>5. OneRoot
  BY <1>1 DEF Init, OneRoot, V2, ReadGenesis
<1>6. QED
  BY <1>2, <1>3, <1>4, <1>5 DEF IInv

LEMMA NextIInv == IInv /\ [Next]_vars => IInv'
  BY TypePreserved, IdsPreserved, HeadsPreserved, RootPreserved DEF IInv

\* IInv holds in every reachable state.
THEOREM Inductive == Spec => []IInv
  BY InitIInv, NextIInv, PTL DEF Spec

\* Every variable keeps its type: in particular readPrevHashForNextEvent always
\* finds a hash or a seed, never an undefined value.
THEOREM TypeCorrect == Spec => []TypeOK
<1>1. IInv => TypeOK
  BY DEF IInv
<1>2. QED
  BY Inductive, <1>1, PTL

\* However emits interleave, whatever the clock does and wherever a transaction is
\* rolled back, each agent has one root, recorded in chain_genesis, and every other
\* row is linked to a stored row of the agent.
THEOREM RootedChains == Spec => []OneRoot
<1>1. IInv => OneRoot
  BY DEF IInv
<1>2. QED
  BY Inductive, <1>1, PTL

\* However emits interleave and whatever the clock does, the log only grows and a
\* new head of a chain is linked to the old one.
THEOREM HeadsAdvance == Spec => HeadAdvances
<1>1. ASSUME IInv, [Next]_vars
      PROVE  /\ rows \subseteq rows'
             /\ \A a \in Agents : \A h \in V2(rows, a) : \A n \in V2(rows', a) :
                  (IsHead(V2(rows, a), h) /\ IsHead(V2(rows', a), n) /\ n # h)
                    => n.prev = HashOf(h.id)
  <2>1. rows \subseteq rows'
    BY <1>1, StoreSteps DEF IInv, CommitsSigned, StoresLegacy, WriteChain
  <2>2. ASSUME NEW a \in Agents, NEW h \in V2(rows, a), NEW n \in V2(rows', a),
               IsHead(V2(rows, a), h), IsHead(V2(rows', a), n), n # h
        PROVE  n.prev = HashOf(h.id)
    <3>1. V2(rows, a) \subseteq Row
      BY <1>1, SubsetTyped DEF IInv, TypeOK
    <3>2. CASE V2(rows', a) = V2(rows, a)
      BY <2>2, <3>1, <3>2, HeadUnique
    <3>3. ASSUME NEW r \in Row, V2(rows', a) = V2(rows, a) \cup {r},
                 r.prev = ReadPrevHashForNextEvent(rows, genesis, a, r.ts)
          PROVE  n.prev = HashOf(h.id)
      <4>1. n = r
        \* Otherwise n is an old row that comes after h.
        <5>1. SUFFICES ASSUME n \in V2(rows, a)
                       PROVE  FALSE
          BY <3>3
        <5>2. Before(n, h) /\ Before(h, n)
          BY <2>2, <3>3, <5>1 DEF IsHead
        <5>3. QED
          BY <3>1, <5>1, <5>2, BeforeAsymmetric
      <4>2. r.ts \in Nat
        BY DEF Row
      <4>3. PICK k \in V2(rows, a) : IsHead(V2(rows, a), k) /\ r.prev = HashOf(k.id)
        BY <1>1, <2>2, <3>3, <4>2, PrevOfNext DEF IInv
      <4>4. k = h
        BY <2>2, <3>1, <4>3, HeadUnique
      <4>5. QED
        BY <4>1, <4>3, <4>4
    <3>4. QED
      BY <1>1, <3>2, <3>3, ChainSteps DEF ExtendsChain
  <2>3. QED
    BY <2>1, <2>2
<1>2. QED
  BY Inductive, <1>1, PTL DEF Spec, HeadAdvances

-----------------------------------------------------------------------------
(* What the caller is told and what is stored.                             *)

Outcomes ==
  \A e \in Emits :
    /\ pc[e] = "done" => \E r \in rows : r.id = env[e].id
    /\ (pc[e] = "failed" /\ env[e].version = 2) => \A r \in rows : r.id # env[e].id

\* An emit resolves only in the step that stores its row, and a v2 emit rejects only
\* in a step that stores nothing.
LEMMA OutcomeSteps ==
  ASSUME TypeOK, [Next]_vars, NEW f \in Emits
  PROVE  /\ (pc'[f] = "done" /\ pc[f] # "done") => \E r \in rows' : r.id = env'[f].id
         /\ (pc'[f] = "failed" /\ env'[f].version = 2) =>
              \/ pc[f] = "failed" /\ env[f].version = 2
              \/ InFlight(f) /\ rows' = rows
<1> DEFINE Goal ==
      /\ (pc'[f] = "done" /\ pc[f] # "done") => \E r \in rows' : r.id = env'[f].id
      /\ (pc'[f] = "failed" /\ env'[f].version = 2) =>
           \/ pc[f] = "failed" /\ env[f].version = 2
           \/ InFlight(f) /\ rows' = rows
<1> USE DEF TypeOK, world, store
<1>1. ASSUME NEW e \in Emits, NEW a \in Agents, NEW v \in Versions, Start(e, a, v)
      PROVE  Goal
  <2>1. CASE f = e
    BY <1>1, <2>1 DEF Start
  <2>2. CASE f # e
    BY <1>1, <2>2 DEF Start
  <2>3. QED
    BY <2>1, <2>2
<1>2. ASSUME NEW e \in Emits, Contribute(e)
      PROVE  Goal
  BY <1>2 DEF Contribute, Merged
<1>3. ASSUME NEW e \in Emits,
             \/ AdapterFails(e) \/ GateVetoes(e) \/ Refused(e) \/ StoreRefuses(e)
             \/ HandlerRollsBack(e) \/ LateRollback(e)
      PROVE  Goal
  <2>1. InFlight(e) /\ Settle(e, "failed") /\ rows' = rows /\ env' = env
    BY <1>3 DEF AdapterFails, GateVetoes, Refused, StoreRefuses, HandlerRollsBack,
                LateRollback, ReachesStore, InFlight, InFlightStages
  <2>2. QED
    BY <2>1 DEF Settle
<1>4. ASSUME NEW e \in Emits, PersistSigned(e)
      PROVE  Goal
  <2>1. SignedRow(env[e]) \in rows' /\ SignedRow(env[e]).id = env[e].id
    BY <1>4 DEF PersistSigned, WriteChain, SignedRow
  <2>2. Settle(e, "done") /\ env' = env
    BY <1>4 DEF PersistSigned
  <2>3. QED
    BY <2>1, <2>2 DEF Settle
<1>5. ASSUME NEW e \in Emits, PersistLegacy(e)
      PROVE  Goal
  <2>1. LegacyRow(env[e]) \in rows' /\ LegacyRow(env[e]).id = env[e].id
    BY <1>5 DEF PersistLegacy, LegacyRow
  <2>2. (Settle(e, "done") \/ Settle(e, "failed")) /\ env' = env /\ env[e].version = 1
    BY <1>5 DEF PersistLegacy, ReachesStore
  <2>3. QED
    BY <2>1, <2>2 DEF Settle
<1>6. ASSUME Die
      PROVE  Goal
  BY <1>6 DEF Die
<1>7. ASSUME \/ \E i \in observing : ObserveResolves(i)
             \/ Shutdown \/ Restart \/ Tick \/ StepBack \/ UNCHANGED vars
      PROVE  Goal
  <2>1. pc' = pc /\ env' = env
    BY <1>7 DEF ObserveResolves, Shutdown, Restart, Tick, StepBack, vars
  <2>2. QED
    BY <2>1
<1>8. QED
  BY <1>1, <1>2, <1>3, <1>4, <1>5, <1>6, <1>7
     DEF Next, Finish, Crash, CrashAfterCommit, ObserveRejects

LEMMA OutcomesPreserved ==
  ASSUME IInv, Outcomes, [Next]_vars
  PROVE  Outcomes'
<1>1. SUFFICES ASSUME NEW f \in Emits
               PROVE  /\ pc'[f] = "done" => \E r \in rows' : r.id = env'[f].id
                      /\ (pc'[f] = "failed" /\ env'[f].version = 2)
                           => \A r \in rows' : r.id # env'[f].id
  BY DEF Outcomes
<1>2. rows \subseteq rows'
  BY StoreSteps DEF IInv, CommitsSigned, StoresLegacy, WriteChain
<1>3. pc[f] # "idle" => env'[f].id = env[f].id
  <2>1. CASE \E e \in Emits, a \in Agents, v \in Versions : Start(e, a, v)
    BY <2>1 DEF Start, IInv, TypeOK
  <2>2. QED
    BY <2>1, EmitSteps DEF IInv
<1>4. pc'[f] = "done" => \E r \in rows' : r.id = env'[f].id
  BY <1>2, <1>3, OutcomeSteps DEF Outcomes, IInv
<1>5. ASSUME pc'[f] = "failed", env'[f].version = 2
      PROVE  \A r \in rows' : r.id # env'[f].id
  <2>1. CASE InFlight(f) /\ rows' = rows
    BY <1>3, <2>1 DEF IInv, IdsMinted, InFlight, InFlightStages
  <2>2. CASE pc[f] = "failed" /\ env[f].version = 2
    <3>1. \A r \in rows : r.id # env[f].id
      BY <2>2 DEF Outcomes
    <3>2. ASSUME NEW e \in Emits, CommitsSigned(e) \/ StoresLegacy(e)
          PROVE  \A r \in rows' : r.id # env[f].id
      <4>1. e # f /\ pc[e] # "idle"
        BY <2>2, <3>2 DEF CommitsSigned, StoresLegacy, InFlight, InFlightStages
      <4>2. env[e].id # env[f].id
        BY <2>2, <4>1 DEF IInv, IdsMinted
      <4>3. SignedRow(env[e]).id = env[e].id /\ LegacyRow(env[e]).id = env[e].id
        BY DEF SignedRow, LegacyRow
      <4>4. QED
        BY <3>1, <3>2, <4>2, <4>3 DEF CommitsSigned, StoresLegacy, WriteChain
    <3>3. QED
      BY <1>3, <2>2, <3>1, <3>2, StoreSteps DEF IInv
  <2>3. QED
    BY <1>5, <2>1, <2>2, OutcomeSteps DEF IInv
<1>6. QED
  BY <1>4, <1>5

\* Whatever a handler or an observer was shown belongs to an emit, and is on file if
\* that is a v1 emit.
Shown(i) ==
  \E e \in Emits : /\ pc[e] # "idle" /\ env[e].id = i
                   /\ env[e].version = 1 => \E r \in rows : r.id = i

\* An emit stays the emit it is once it has started.
LEMMA VersionKept ==
  ASSUME TypeOK, [Next]_vars, NEW f \in Emits, pc[f] # "idle"
  PROVE  pc'[f] # "idle" /\ env'[f].id = env[f].id /\ env'[f].version = env[f].version
<1> DEFINE Kept == pc'[f] # "idle" /\ env'[f].id = env[f].id
                   /\ env'[f].version = env[f].version
<1> USE DEF TypeOK, world
<1>1. ASSUME NEW e \in Emits, NEW a \in Agents, NEW v \in Versions, Start(e, a, v)
      PROVE  Kept
  BY <1>1 DEF Start
<1>2. ASSUME NEW e \in Emits, Contribute(e)
      PROVE  Kept
  BY <1>2 DEF Contribute, Merged
<1>3. ASSUME NEW e \in Emits, Finish(e) \/ AdapterFails(e)
      PROVE  Kept
  <2>1. env' = env /\ \E x \in Settled : Settle(e, x)
    BY <1>3 DEF Finish, AdapterFails, GateVetoes, Refused, StoreRefuses, PersistSigned,
                HandlerRollsBack, LateRollback, PersistLegacy, Settled
  <2>2. QED
    BY <2>1 DEF Settle, Settled
<1>4. ASSUME Die
      PROVE  Kept
  BY <1>4 DEF Die, InFlight
<1>5. ASSUME \/ \E i \in observing : ObserveResolves(i)
             \/ Shutdown \/ Restart \/ Tick \/ StepBack \/ UNCHANGED vars
      PROVE  Kept
  <2>1. UNCHANGED <<pc, env>>
    BY <1>5 DEF ObserveResolves, Shutdown, Restart, Tick, StepBack, vars
  <2>2. QED
    BY <2>1
<1>6. QED
  BY <1>1, <1>2, <1>3, <1>4, <1>5 DEF Next, Crash, CrashAfterCommit, ObserveRejects

\* An id that is shown in a step is that of a v2 emit, or of a v1 emit whose row the
\* step stores.
LEMMA ShowSteps ==
  ASSUME TypeOK, [Next]_vars, NEW i \in seen' \cup observing',
         i \notin seen \cup observing
  PROVE  \E e \in Emits : /\ pc[e] # "idle" /\ env[e].id = i
                          /\ env[e].version = 1 => \E r \in rows' : r.id = i
<1> DEFINE Goal == \E e \in Emits : /\ pc[e] # "idle" /\ env[e].id = i
                                    /\ env[e].version = 1 => \E r \in rows' : r.id = i
<1> USE DEF world, store
<1>1. ASSUME NEW e \in Emits, PersistSigned(e) \/ HandlerRollsBack(e) \/ LateRollback(e)
      PROVE  Goal
  <2>1. env[e].id = i
    BY <1>1 DEF PersistSigned, HandlerRollsBack, LateRollback
  <2>2. pc[e] # "idle" /\ env[e].version = 2
    BY <1>1 DEF PersistSigned, HandlerRollsBack, LateRollback, ReachesStore
  <2>3. QED
    BY <2>1, <2>2
<1>2. ASSUME NEW e \in Emits, PersistLegacy(e)
      PROVE  Goal
  <2>1. env[e].id = i /\ pc[e] # "idle"
    BY <1>2 DEF PersistLegacy, ReachesStore
  <2>2. LegacyRow(env[e]) \in rows' /\ LegacyRow(env[e]).id = env[e].id
    BY <1>2 DEF PersistLegacy, LegacyRow
  <2>3. QED
    BY <2>1, <2>2
<1>3. ASSUME seen' = seen, observing' \subseteq observing
      PROVE  FALSE
  BY <1>3
<1>4. ASSUME NEW e \in Emits, NEW a \in Agents, NEW v \in Versions, Start(e, a, v)
      PROVE  FALSE
  BY <1>3, <1>4 DEF Start
<1>5. ASSUME NEW e \in Emits,
             \/ Contribute(e) \/ AdapterFails(e) \/ GateVetoes(e) \/ Refused(e)
             \/ StoreRefuses(e)
      PROVE  FALSE
  BY <1>3, <1>5 DEF Contribute, AdapterFails, GateVetoes, Refused, StoreRefuses
<1>6. ASSUME Die
      PROVE  FALSE
  BY <1>3, <1>6 DEF Die
<1>7. ASSUME \/ \E j \in observing : ObserveResolves(j)
             \/ Shutdown \/ Restart \/ Tick \/ StepBack \/ UNCHANGED vars
      PROVE  FALSE
  <2>1. seen' = seen /\ observing' \subseteq observing
    BY <1>7 DEF ObserveResolves, Shutdown, Restart, Tick, StepBack, vars
  <2>2. QED
    BY <1>3, <2>1
<1>8. QED
  BY <1>1, <1>2, <1>4, <1>5, <1>6, <1>7
     DEF Next, Finish, Crash, CrashAfterCommit, ObserveRejects

LEMMA ShownPreserved ==
  ASSUME TypeOK, [Next]_vars, \A i \in seen \cup observing : Shown(i)
  PROVE  \A i \in seen' \cup observing' : Shown(i)'
<1>1. rows \subseteq rows'
  BY StoreSteps DEF CommitsSigned, StoresLegacy, WriteChain
<1>2. SUFFICES ASSUME NEW i \in seen' \cup observing'
               PROVE  Shown(i)'
  OBVIOUS
<1>3. PICK e \in Emits : /\ pc[e] # "idle" /\ env[e].id = i
                         /\ env[e].version = 1 => \E r \in rows' : r.id = i
  <2>1. CASE i \in seen \cup observing
    BY <1>1, <2>1 DEF Shown
  <2>2. CASE i \notin seen \cup observing
    BY <2>2, ShowSteps
  <2>3. QED
    BY <2>1, <2>2
<1>4. QED
  BY <1>3, VersionKept DEF Shown

\* An emit that resolved is on file for good, a v2 emit that rejected or is still under
\* way has neither a row nor a genesis tuple, and a v1 event that was shown is on file.
THEOREM OutcomesMatch == Spec => []OutcomeMatchesStore
<1> DEFINE AllShown == \A i \in seen \cup observing : Shown(i)
<1>1. Init => Outcomes /\ AllShown
  BY DEF Init, Outcomes
<1>2. IInv /\ Outcomes /\ AllShown /\ [Next]_vars => Outcomes' /\ AllShown'
  BY OutcomesPreserved, ShownPreserved DEF IInv
<1>3. IInv /\ Outcomes /\ AllShown => OutcomeMatchesStore
  <2>1. SUFFICES ASSUME IInv, Outcomes, AllShown, NEW e \in Emits
                 PROVE  /\ pc[e] = "done" => env[e].id \in Ids(rows)
                        /\ (InFlight(e) \/ (pc[e] = "failed" /\ env[e].version = 2))
                             => env[e].id \notin Ids(rows) \cup Ids(genesis)
                        /\ (pc[e] # "idle" /\ env[e].version = 1
                             /\ env[e].id \in seen \cup observing)
                             => env[e].id \in Ids(rows)
    BY DEF OutcomeMatchesStore
  <2>2. Ids(genesis) \subseteq Ids(rows)
    <3>1. SUFFICES ASSUME NEW g \in genesis
                   PROVE  \E r \in rows : r.id = g.id
      BY DEF Ids
    <3>2. g.agent \in Agents /\ g \in ReadGenesis(genesis, g.agent)
      BY <2>1 DEF IInv, TypeOK, ReadGenesis
    <3>3. QED
      BY <2>1, <3>2 DEF IInv, OneRoot, V2
  <2>3. (InFlight(e) \/ (pc[e] = "failed" /\ env[e].version = 2))
          => \A r \in rows : r.id # env[e].id
    BY <2>1 DEF IInv, IdsMinted, Outcomes
  <2>4. pc[e] = "done" => \E r \in rows : r.id = env[e].id
    BY <2>1 DEF Outcomes
  <2>5. \A i : i \in Ids(rows) <=> \E r \in rows : r.id = i
    BY DEF Ids
  <2>6. (pc[e] # "idle" /\ env[e].version = 1 /\ env[e].id \in seen \cup observing)
          => \E r \in rows : r.id = env[e].id
    BY <2>1 DEF Shown, IInv, IdsMinted
  <2>7. QED
    BY <2>2, <2>3, <2>4, <2>5, <2>6
<1>4. QED
  BY Inductive, <1>1, <1>2, <1>3, PTL DEF Spec

-----------------------------------------------------------------------------
(***************************************************************************)
(* What holds when emits keep the order they were started in (Lockstep)    *)
(* and the wall clock is not set back: the chain is linear, verify-chain   *)
(* passes, and the pipeline implements LinearLedger.                       *)
(***************************************************************************)

\* Timestamps follow ids, and what is stored comes before what is in flight.
Chronological ==
  /\ \A e \in Emits : InFlight(e) => env[e].ts <= clock
  /\ \A e, f \in Emits :
       (InFlight(e) /\ InFlight(f) /\ env[e].id < env[f].id) => env[e].ts <= env[f].ts
  /\ \A r \in rows : r.ts <= clock
  /\ \A r \in rows : \A e \in Emits : InFlight(e) => Before(r, env[e])

\* R5: in `timestamp, id` order each row carries the hash of the one before it.
Linked == \A a \in Agents : \A r \in V2(rows, a) : LinkHolds(V2(rows, a), r)

\* All rows carry the runtime's key and are stored as they were signed.
Signed == \A r \in rows : r.key = key /\ r.intact

OrdInv == Chronological /\ Linked

-----------------------------------------------------------------------------
\* The clock does not go back, and only Start adds to what is in flight.
LEMMA ClockSteps ==
  ASSUME TypeOK, [Next]_vars, "clock_step_back" \notin Faults
  PROVE  clock' \in Nat /\ clock' >= clock
<1> USE DEF TypeOK, world
<1>1. ASSUME NEW e \in Emits,
             \/ \E a \in Agents, v \in Versions : Start(e, a, v)
             \/ Contribute(e) \/ AdapterFails(e) \/ Finish(e)
      PROVE  clock' = clock
  BY <1>1 DEF Start, Contribute, AdapterFails, Finish, GateVetoes, Refused, StoreRefuses,
              PersistSigned, HandlerRollsBack, LateRollback, PersistLegacy
<1>2. ASSUME Die
      PROVE  clock' = clock
  BY <1>2 DEF Die
<1>3. ASSUME NEW i \in observing, ObserveResolves(i)
      PROVE  clock' = clock
  BY <1>3 DEF ObserveResolves
<1>4. CASE Shutdown \/ UNCHANGED vars
  BY <1>4 DEF Shutdown, vars
<1>5. CASE Restart \/ Tick
  BY <1>5 DEF Restart, Tick
<1>6. CASE StepBack
  BY <1>6 DEF StepBack
<1>7. QED
  BY <1>1, <1>2, <1>3, <1>4, <1>5, <1>6
     DEF Next, Crash, CrashAfterCommit, ObserveRejects

\* The same as EmitSteps, with the timestamps.
LEMMA TimestampSteps ==
  ASSUME TypeOK, [Next]_vars
  PROVE  \/ \E e \in Emits, a \in Agents, v \in Versions : Start(e, a, v)
         \/ \A f \in Emits : env'[f].ts = env[f].ts /\ env'[f].id = env[f].id
<1> USE DEF TypeOK, world
<1>1. ASSUME NEW e \in Emits, Contribute(e)
      PROVE  \A f \in Emits : env'[f].ts = env[f].ts /\ env'[f].id = env[f].id
  BY <1>1 DEF Contribute, Merged
<1>2. ASSUME NEW e \in Emits, AdapterFails(e) \/ Finish(e)
      PROVE  env' = env
  BY <1>2 DEF AdapterFails, Finish, GateVetoes, Refused, StoreRefuses,
              PersistSigned, HandlerRollsBack, LateRollback, PersistLegacy
<1>3. ASSUME Die
      PROVE  env' = env
  BY <1>3 DEF Die
<1>4. ASSUME \/ \E i \in observing : ObserveResolves(i)
             \/ Shutdown \/ Restart \/ Tick \/ StepBack \/ UNCHANGED vars
      PROVE  env' = env
  BY <1>4 DEF ObserveResolves, Shutdown, Restart, Tick, StepBack, vars
<1>5. QED
  BY <1>1, <1>2, <1>3, <1>4 DEF Next, Crash, CrashAfterCommit, ObserveRejects

LEMMA StoreTimes ==
  ASSUME IInv, [Next]_vars
  PROVE  \/ rows' = rows
         \/ \E e \in Emits :
              /\ InFlight(e) /\ ~InFlight(e)' /\ (Lockstep => FirstInLine(e))
              /\ \E r \in Row : /\ rows' = rows \cup {r}
                                /\ r.id = env[e].id /\ r.ts = env[e].ts
<1>1. ASSUME NEW e \in Emits, CommitsSigned(e) \/ StoresLegacy(e)
      PROVE  \E r \in Row : /\ rows' = rows \cup {r}
                            /\ r.id = env[e].id /\ r.ts = env[e].ts
  <2>1. SignedRow(env[e]) \in Row /\ LegacyRow(env[e]) \in Row
    BY <1>1, NewRowTyped DEF IInv, CommitsSigned, StoresLegacy
  <2>2. /\ SignedRow(env[e]).id = env[e].id /\ SignedRow(env[e]).ts = env[e].ts
        /\ LegacyRow(env[e]).id = env[e].id /\ LegacyRow(env[e]).ts = env[e].ts
    BY DEF SignedRow, LegacyRow
  <2>3. QED
    BY <1>1, <2>1, <2>2 DEF CommitsSigned, StoresLegacy, WriteChain
<1>2. ASSUME NEW e \in Emits, CommitsSigned(e) \/ StoresLegacy(e)
      PROVE  InFlight(e) /\ ~InFlight(e)' /\ (Lockstep => FirstInLine(e))
  BY <1>2 DEF CommitsSigned, StoresLegacy, InFlight, InFlightStages, Settled
<1>3. QED
  BY <1>1, <1>2, StoreSteps DEF IInv

LEMMA ChronologicalPreserved ==
  ASSUME IInv, Chronological, [Next]_vars, Lockstep, "clock_step_back" \notin Faults
  PROVE  Chronological'
<1>1. clock \in Nat /\ clock' \in Nat /\ clock' >= clock
  BY ClockSteps DEF IInv, TypeOK
<1>2. \A e \in Emits : InFlight(e) => env[e].id \in Nat /\ env[e].ts \in Nat
                                      /\ env[e].id < nextId
  BY DEF IInv, TypeOK, IdsMinted, InFlight, InFlightStages, Envelope
<1>3. \A r \in rows : r.id \in Nat /\ r.ts \in Nat /\ r.id < nextId
  BY DEF IInv, TypeOK, IdsMinted, Row
<1>4. ASSUME NEW e \in Emits, NEW a \in Agents, NEW v \in Versions, Start(e, a, v)
      PROVE  Chronological'
  <2>1. rows' = rows /\ clock' = clock
    BY <1>4 DEF Start, store
  <2>2. /\ env'[e].id = nextId /\ env'[e].ts = clock
        /\ \A f \in Emits \ {e} : env'[f] = env[f] /\ (InFlight(f)' => InFlight(f))
    BY <1>4 DEF Start, IInv, TypeOK, InFlight
  <2>3. nextId \in Nat
    BY DEF IInv, TypeOK
  <2>4. \A f \in Emits : InFlight(f)' => env'[f].ts <= clock'
    BY <1>1, <2>1, <2>2 DEF Chronological
  <2>5. \A f, g \in Emits :
          (InFlight(f)' /\ InFlight(g)' /\ env'[f].id < env'[g].id)
            => env'[f].ts <= env'[g].ts
    BY <1>1, <1>2, <2>2, <2>3 DEF Chronological
  <2>6. \A r \in rows' : \A f \in Emits : InFlight(f)' => Before(r, env'[f])
    BY <1>1, <1>3, <2>1, <2>2, <2>3 DEF Chronological, Before
  <2>7. QED
    BY <2>1, <2>4, <2>5, <2>6 DEF Chronological
<1>5. ASSUME \A f \in Emits : /\ env'[f].ts = env[f].ts /\ env'[f].id = env[f].id
                              /\ InFlight(f)' => InFlight(f)
      PROVE  Chronological'
  <2>1. \A f \in Emits : InFlight(f)' => env'[f].ts <= clock'
    BY <1>1, <1>2, <1>5 DEF Chronological
  <2>2. \A f, g \in Emits :
          (InFlight(f)' /\ InFlight(g)' /\ env'[f].id < env'[g].id)
            => env'[f].ts <= env'[g].ts
    BY <1>5 DEF Chronological
  <2>3. \A r \in rows : r.ts <= clock' /\ \A f \in Emits : InFlight(f)' => Before(r, env'[f])
    BY <1>1, <1>3, <1>5 DEF Chronological, Before
  <2>4. ASSUME NEW e \in Emits, InFlight(e), ~InFlight(e)', FirstInLine(e),
               NEW r \in Row, r.id = env[e].id, r.ts = env[e].ts
        PROVE  r.ts <= clock' /\ \A f \in Emits : InFlight(f)' => Before(r, env'[f])
    <3>1. r.ts <= clock'
      BY <1>1, <1>2, <2>4 DEF Chronological
    <3>2. ASSUME NEW f \in Emits, InFlight(f)'
          PROVE  Before(r, env'[f])
      <4>1. InFlight(f) /\ f # e
        BY <1>5, <2>4, <3>2
      <4>2. pc[e] # "idle" /\ pc[f] # "idle"
        BY <2>4, <4>1 DEF InFlight, InFlightStages
      <4>3. env[f].id # env[e].id
        BY <4>1, <4>2 DEF IInv, IdsMinted
      <4>4. env[e].id < env[f].id
        BY <1>2, <2>4, <4>1, <4>3 DEF FirstInLine
      <4>5. env[e].ts <= env[f].ts
        BY <2>4, <4>1, <4>4 DEF Chronological
      <4>6. QED
        BY <1>2, <1>5, <2>4, <4>1, <4>4, <4>5 DEF Before
    <3>3. QED
      BY <3>1, <3>2
  <2>5. \A r \in rows' : r.ts <= clock' /\ \A f \in Emits : InFlight(f)' => Before(r, env'[f])
    BY <2>3, <2>4, StoreTimes
  <2>6. QED
    BY <2>1, <2>2, <2>5 DEF Chronological
<1>6. QED
  BY <1>4, <1>5, EmitSteps, TimestampSteps DEF IInv

-----------------------------------------------------------------------------
\* A row appended after all the others is linked, and the others stay linked.
LEMMA LinkAppended ==
  ASSUME NEW S, S \subseteq Row, NEW r \in Row, \A s \in S : Before(s, r),
         \/ S = {} /\ r.prev = Seed(r.agent, r.ts)
         \/ \E h \in S : IsHead(S, h) /\ r.prev = HashOf(h.id),
         \A s \in S : LinkHolds(S, s)
  PROVE  \A s \in S \cup {r} : LinkHolds(S \cup {r}, s)
<1>1. ASSUME NEW s \in S
      PROVE  LinkHolds(S \cup {r}, s)
  <2>1. ~Before(r, s)
    BY BeforeAsymmetric
  <2>2. CASE \A q \in S : ~Before(q, s)
    BY <2>1, <2>2 DEF LinkHolds
  <2>3. CASE \E q \in S : Before(q, s)
    <3>1. PICK p \in S : IsPredecessor(S, p, s) /\ s.prev = HashOf(p.id)
      BY <2>3 DEF LinkHolds
    <3>2. IsPredecessor(S \cup {r}, p, s)
      BY <2>1, <3>1 DEF IsPredecessor
    <3>3. QED
      BY <2>3, <3>1, <3>2 DEF LinkHolds
  <2>4. QED
    BY <2>2, <2>3
<1>2. ~Before(r, r)
  BY BeforeAsymmetric
<1>3. LinkHolds(S \cup {r}, r)
  <2>1. CASE S = {} /\ r.prev = Seed(r.agent, r.ts)
    BY <1>2, <2>1 DEF LinkHolds
  <2>2. ASSUME NEW h \in S, IsHead(S, h), r.prev = HashOf(h.id)
        PROVE  LinkHolds(S \cup {r}, r)
    <3>1. IsPredecessor(S \cup {r}, h, r)
      BY <1>2, <2>2 DEF IsPredecessor, IsHead
    <3>2. QED
      BY <2>2, <3>1 DEF LinkHolds
  <2>3. QED
    BY <2>1, <2>2
<1>4. QED
  BY <1>1, <1>3

\* In a linked chain nothing is linked to the head yet.
LEMMA HeadIsFree ==
  ASSUME NEW S, S \subseteq Row, \A s \in S : LinkHolds(S, s),
         \A s, t \in S : s.id = t.id => s = t,
         NEW h \in S, IsHead(S, h)
  PROVE  \A s \in S : s.prev # HashOf(h.id)
<1>1. SUFFICES ASSUME NEW s \in S, s.prev = HashOf(h.id)
               PROVE  FALSE
  OBVIOUS
<1>2. s.prev # Seed(s.agent, s.ts)
  BY <1>1, HashesDiffer
<1>3. PICK p \in S : IsPredecessor(S, p, s) /\ s.prev = HashOf(p.id)
  BY <1>2 DEF LinkHolds
<1>4. p = h
  BY <1>1, <1>3, HashesDiffer
<1>5. Before(h, s)
  BY <1>3, <1>4 DEF IsPredecessor
<1>6. s # h /\ ~Before(s, h)
  BY <1>5, BeforeAsymmetric
<1>7. QED
  BY <1>6 DEF IsHead

LEMMA LinkedPreserved ==
  ASSUME IInv, OrdInv, [Next]_vars, Lockstep
  PROVE  Linked'
<1>1. SUFFICES ASSUME NEW a \in Agents
               PROVE  \A r \in V2(rows', a) : LinkHolds(V2(rows', a), r)
  BY DEF Linked
<1>2. CASE V2(rows', a) = V2(rows, a)
  BY <1>2 DEF OrdInv, Linked
<1>3. ASSUME NEW e \in Emits, NEW r \in Row, ExtendsChain(e, r, a)
      PROVE  \A s \in V2(rows', a) : LinkHolds(V2(rows', a), s)
  <2>1. V2(rows, a) \subseteq Row /\ V2(rows, a) \subseteq rows
    BY DEF V2, IInv, TypeOK
  <2>2. r \in rows'
    BY <1>3 DEF ExtendsChain, V2
  <2>3. \A s \in V2(rows, a) : Before(s, r)
    <3>1. PICK f \in Emits, x \in Row :
             InFlight(f) /\ rows' = rows \cup {x} /\ x.id = env[f].id /\ x.ts = env[f].ts
      BY <1>3, <2>2, StoreTimes DEF ExtendsChain
    <3>2. r = x
      BY <1>3, <2>2, <3>1 DEF ExtendsChain
    <3>3. QED
      BY <2>1, <3>1, <3>2 DEF OrdInv, Chronological, Before
  <2>4. \/ V2(rows, a) = {} /\ r.prev = Seed(r.agent, r.ts)
        \/ \E h \in V2(rows, a) : IsHead(V2(rows, a), h) /\ r.prev = HashOf(h.id)
    <3>1. r.ts \in Nat
      BY DEF Row
    <3>2. QED
      BY <1>3, <3>1, PrevOfNext DEF ExtendsChain, IInv
  <2>5. \A s \in V2(rows, a) : LinkHolds(V2(rows, a), s)
    BY DEF OrdInv, Linked
  <2>6. V2(rows', a) = V2(rows, a) \cup {r}
    BY <1>3 DEF ExtendsChain
  <2>7. QED
    BY <2>1, <2>3, <2>4, <2>5, <2>6, LinkAppended
<1>4. QED
  BY <1>2, <1>3, ChainSteps

LEMMA InitOrdInv == Init => OrdInv
  BY DEF Init, OrdInv, Chronological, Linked, InFlight, InFlightStages, V2

\* R5 holds in every reachable state: in `timestamp, id` order every row of an agent
\* carries the hash of the row before it and the first one carries its own seed.
THEOREM ChainsLinked ==
  ASSUME Lockstep, "clock_step_back" \notin Faults
  PROVE  Spec => [](IInv /\ OrdInv)
<1>1. Init => IInv /\ OrdInv
  BY InitIInv, InitOrdInv
<1>2. (IInv /\ OrdInv) /\ [Next]_vars => (IInv /\ OrdInv)'
  BY NextIInv, ChronologicalPreserved, LinkedPreserved DEF OrdInv
<1>3. QED
  BY <1>1, <1>2, PTL DEF Spec

-----------------------------------------------------------------------------
(* The verifier.                                                           *)

LEMMA KeyKept ==
  ASSUME [Next]_vars, "key_lost" \notin Faults
  PROVE  key' = key
<1> USE DEF world
<1>1. ASSUME NEW e \in Emits,
             \/ \E a \in Agents, v \in Versions : Start(e, a, v)
             \/ Contribute(e) \/ AdapterFails(e) \/ Finish(e)
      PROVE  key' = key
  BY <1>1 DEF Start, Contribute, AdapterFails, Finish, GateVetoes, Refused, StoreRefuses,
              PersistSigned, HandlerRollsBack, LateRollback, PersistLegacy
<1>2. ASSUME Die
      PROVE  key' = key
  BY <1>2 DEF Die
<1>3. ASSUME NEW i \in observing, ObserveResolves(i)
      PROVE  key' = key
  BY <1>3 DEF ObserveResolves
<1>4. CASE Shutdown \/ Restart \/ Tick \/ StepBack \/ UNCHANGED vars
  BY <1>4 DEF Shutdown, Restart, Tick, StepBack, vars
<1>5. QED
  BY <1>1, <1>2, <1>3, <1>4 DEF Next, Crash, CrashAfterCommit, ObserveRejects

LEMMA SignedPreserved ==
  ASSUME IInv, Signed, [Next]_vars, "key_lost" \notin Faults
  PROVE  Signed'
<1>1. key' = key
  BY KeyKept
<1>2. ASSUME NEW e \in Emits, CommitsSigned(e) \/ StoresLegacy(e)
      PROVE  \A r \in rows' : r.key = key /\ r.intact
  <2>1. /\ SignedRow(env[e]).key = key /\ SignedRow(env[e]).intact
        /\ LegacyRow(env[e]).key = key /\ LegacyRow(env[e]).intact
    BY DEF SignedRow, LegacyRow
  <2>2. QED
    BY <1>2, <2>1 DEF CommitsSigned, StoresLegacy, WriteChain, Signed
<1>3. QED
  BY <1>1, <1>2, StoreSteps DEF Signed, IInv

\* With the order kept, the clock not set back and the key kept, verify-chain never
\* reports a mismatch: through crashes, rolled back transactions and refused emits.
THEOREM VerifierAccepts ==
  ASSUME Lockstep, "clock_step_back" \notin Faults, "key_lost" \notin Faults
  PROVE  Spec => []VerifierPasses
<1>1. Init => Signed
  BY DEF Init, Signed
<1>2. IInv /\ Signed /\ [Next]_vars => Signed'
  BY SignedPreserved
<1>3. Linked /\ Signed => VerifierPasses
  <2>1. SUFFICES ASSUME Linked, Signed, NEW a \in Agents
                 PROVE  VerifyChain(rows, a, key) # "mismatch"
    BY DEF VerifierPasses
  <2>2. \A r \in V2(rows, a) : r.intact /\ r.key = key /\ LinkHolds(V2(rows, a), r)
    BY <2>1 DEF Linked, Signed, V2
  <2>3. \A r \in V2(rows, a) : FailedCheck(V2(rows, a), r, key) = "none"
    BY <2>2 DEF FailedCheck
  <2>4. QED
    BY <2>3 DEF VerifyChain
<1>4. OrdInv => Linked
  BY DEF OrdInv
<1>5. QED
  BY ChainsLinked, <1>1, <1>2, <1>3, <1>4, PTL DEF Spec

-----------------------------------------------------------------------------
(* The linear ledger.                                                      *)

LEMMA LedgerInit == Init => Ledger!Init
  BY DEF Init, Ledger!Init, ChainLinks, V2

\* A commit is an Append of the ledger: the new row's hash is new, and what it is
\* linked to is the one entry that nothing was linked to.
LEMMA LedgerStep ==
  ASSUME IInv, OrdInv, NEW a \in Agents, NEW e \in Emits, NEW r \in Row,
         ExtendsChain(e, r, a)
  PROVE  Ledger!Next
<1> DEFINE S == V2(rows, a)
<1> DEFINE l == <<r.prev, HashOf(r.id)>>
<1>1. S \subseteq Row /\ S \subseteq rows
  BY DEF V2, IInv, TypeOK
<1>2. \A s \in S : s.id # r.id
  BY <1>1 DEF ExtendsChain
<1>3. ChainLinks[a] = {<<s.prev, HashOf(s.id)>> : s \in S}
  BY DEF ChainLinks
<1>4. ChainLinks' = [ChainLinks EXCEPT ![a] = ChainLinks[a] \cup {l}]
  <2>1. ChainLinks'[a] = ChainLinks[a] \cup {l}
    BY DEF ExtendsChain, ChainLinks
  <2>2. \A b \in Agents \ {a} : ChainLinks'[b] = ChainLinks[b]
    BY DEF ExtendsChain, ChainLinks
  <2>3. QED
    BY <2>1, <2>2 DEF ChainLinks
<1>5. HashOf(r.id) \notin Ledger!Hashes(a)
  BY <1>2, <1>3, HashesDiffer DEF Ledger!Hashes
<1>6. IF ChainLinks[a] = {}
      THEN r.prev.kind = "seed" /\ r.prev.agent = a
      ELSE r.prev \in Ledger!Tips(a)
  <2>1. r.ts \in Nat
    BY DEF Row
  <2>2. CASE S = {}
    <3>1. r.prev = Seed(a, r.ts)
      BY <2>1, <2>2, PrevOfNext DEF ExtendsChain, IInv
    <3>2. QED
      BY <1>3, <2>2, <3>1 DEF Seed
  <2>3. CASE S # {}
    <3>1. PICK h \in S : IsHead(S, h) /\ r.prev = HashOf(h.id)
      BY <2>1, <2>3, PrevOfNext DEF ExtendsChain, IInv
    <3>2. \A s \in S : LinkHolds(S, s)
      BY DEF OrdInv, Linked
    <3>3. \A s, t \in S : s.id = t.id => s = t
      BY <1>1 DEF IInv, IdsMinted
    <3>4. \A s \in S : s.prev # HashOf(h.id)
      BY <1>1, <3>1, <3>2, <3>3, HeadIsFree
    <3>5. ChainLinks[a] # {}
      BY <1>3, <2>3
    <3>6. r.prev \in Ledger!Hashes(a)
      <4>1. <<h.prev, HashOf(h.id)>> \in ChainLinks[a]
        BY <1>3, <3>1
      <4>2. <<h.prev, HashOf(h.id)>>[2] = r.prev
        BY <3>1
      <4>3. QED
        BY <4>1, <4>2 DEF Ledger!Hashes
    <3>7. \A k \in ChainLinks[a] : k[1] # r.prev
      BY <1>3, <3>1, <3>4
    <3>8. QED
      BY <3>5, <3>6, <3>7 DEF Ledger!Tips
  <2>4. QED
    BY <2>2, <2>3
<1>7. Ledger!Append(a, l[1], l[2])
  BY <1>4, <1>5, <1>6 DEF Ledger!Append
<1>8. l \in Ledger!Added(a)
  <2>1. l \notin ChainLinks[a]
    BY <1>5 DEF Ledger!Hashes
  <2>2. l \in ChainLinks'[a]
    BY <1>4 DEF ChainLinks
  <2>3. QED
    BY <2>1, <2>2 DEF Ledger!Added
<1>9. QED
  BY <1>7, <1>8 DEF Ledger!Next

\* With the order kept and the clock not set back, the pipeline implements the linear
\* ledger: every step appends one entry to the end of one agent's list, or none.
THEOREM ImplementsLedger ==
  ASSUME Lockstep, "clock_step_back" \notin Faults
  PROVE  Spec => LedgerSpec
<1>1. IInv /\ OrdInv /\ [Next]_vars => [Ledger!Next]_ChainLinks
  <2>1. SUFFICES ASSUME IInv, OrdInv, [Next]_vars, ~Ledger!Next
                 PROVE  ChainLinks' = ChainLinks
    OBVIOUS
  <2>2. \A a \in Agents : V2(rows', a) = V2(rows, a)
    BY <2>1, ChainSteps, LedgerStep
  <2>3. QED
    BY <2>2 DEF ChainLinks
<1>2. QED
  BY ChainsLinked, LedgerInit, <1>1, PTL DEF Spec, LedgerSpec, Ledger!Spec
=============================================================================
