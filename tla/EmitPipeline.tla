----------------------------- MODULE EmitPipeline -----------------------------
(***************************************************************************)
(* One process that emits events into the audit log: SonderBus.emit (v1)   *)
(* and createEmitPipeline().emit (v2, signed and chained), with many emits *)
(* in flight at once.                                                      *)
(*                                                                         *)
(* JavaScript runs to completion between awaits, so an emit has three      *)
(* atomic steps: Start (id and timestamp are taken, `contribute` is called *)
(* on the adapters), Contribute (their promises have resolved and          *)
(* findPendingGate is called), and one of the outcomes of the rest, which  *)
(* is synchronous: gate verdict, redaction, L0 evidence, transaction.      *)
(***************************************************************************)
EXTENDS AuditStore

CONSTANTS
  Emits,        \* calls of emit()
  Versions,     \* subset of {1, 2}: SonderBus.emit writes 1, the pipeline 2
  Governance,   \* subset of GovernanceRecords: what the adapters answer
  Lockstep,     \* all emits need the same number of event-loop turns
  Faults,       \* what the environment may do, a subset of AllFaults
  MaxClock,     \* bound on the wall clock
  MaxRestarts   \* bound on restarts of the process

AllFaults ==
  {"clock_step_back", "key_lost", "crash", "store", "handler", "observer"}

\* floor: every must-not-redact path is there and survives redaction.
\* gate: what findPendingGate will learn from the adapters' checkGate.
GovernanceRecords ==
  [floor : BOOLEAN, tier : {"none", "L0", "L1+"},
   evidence : {"absent", "empty", "given"}, gate : {"clear", "pending"}]

ASSUME ConstantsAssumption ==
  /\ Versions \subseteq {1, 2}
  /\ Governance \subseteq GovernanceRecords
  /\ Lockstep \in BOOLEAN
  /\ Faults \subseteq AllFaults
  /\ MaxClock \in Nat
  /\ MaxRestarts \in Nat

VARIABLES
  proc,         \* "running", "closed" (after shutdown()) or "down"
  clock,        \* Date.now()
  nextId,       \* the next ULID; monotonicFactory makes them increase
  key,          \* the key pair that signs
  restarts,     \* how often the process was restarted
  pc,           \* stage of each emit
  env,          \* envelope of each emit
  rows,         \* table events
  genesis,      \* table chain_genesis
  seen,         \* ids that were passed to the first of the handlers
  observing     \* ids with an adapter.observe() still running

store == <<rows, genesis>>
world == <<proc, clock, nextId, key, restarts>>
vars == <<proc, clock, nextId, key, restarts, pc, env, rows, genesis, seen,
          observing>>

-----------------------------------------------------------------------------
InFlightStages == {"contributing", "gating"}
Settled == {"done", "failed", "lost"}

NoEnvelope == [id |-> 0]
Envelope ==
  [id : Nat, ts : Nat, agent : Agents, version : {1, 2},
   gov : GovernanceRecords]
Hash ==
  [kind : {"seed"}, agent : Agents, ts : Nat] \cup [kind : {"hash"}, id : Nat]
    \cup {NoHash}
Row ==
  [id : Nat, ts : Nat, agent : Agents, version : {1, 2}, prev : Hash,
   key : Nat, intact : BOOLEAN]

TypeOK ==
  /\ proc \in {"running", "closed", "down"}
  /\ clock \in Nat /\ nextId \in Nat /\ key \in Nat /\ restarts \in Nat
  /\ pc \in [Emits -> {"idle"} \cup InFlightStages \cup Settled]
  /\ env \in [Emits -> Envelope \cup {NoEnvelope}]
  /\ \A e \in Emits : pc[e] # "idle" => env[e] \in Envelope
  /\ rows \subseteq Row
  /\ genesis \subseteq [agent : Agents, id : Nat, ts : Nat]
  /\ seen \subseteq Nat
  /\ observing \subseteq Nat

InFlight(e) == pc[e] \in InFlightStages
Ids(S) == {r.id : r \in S}

Init ==
  /\ proc = "running" /\ clock = 1 /\ nextId = 1 /\ key = 1 /\ restarts = 0
  /\ pc = [e \in Emits |-> "idle"]
  /\ env = [e \in Emits |-> NoEnvelope]
  /\ rows = {} /\ genesis = {} /\ seen = {} /\ observing = {}

-----------------------------------------------------------------------------
(* The event loop.                                                         *)

\* The continuation of e may run now.  When all adapters take equally many
\* turns the emits go through their stages in the order they were started.
MayStep(e) ==
  Lockstep =>
    \A f \in Emits :
      (InFlight(f) /\ env[f].id < env[e].id) =>
        (pc[f] = "gating" /\ pc[e] = "contributing")

Settle(e, outcome) == pc' = [pc EXCEPT ![e] = outcome]

-----------------------------------------------------------------------------
(* buildEnvelope and the checks before the store.                          *)

\* buildEnvelope up to its await.  emitOutcome is an emit whose parent_id is
\* the decision event.
Start(e, a, v) ==
  /\ proc \in {"running", "closed"}
  /\ pc[e] = "idle"
  /\ env' = [env EXCEPT ![e] =
       [id |-> nextId, ts |-> clock, agent |-> a, version |-> v,
        gov |-> [floor |-> TRUE, tier |-> "none", evidence |-> "absent",
                gate |-> "clear"]]]
  /\ nextId' = nextId + 1
  /\ pc' = [pc EXCEPT ![e] = "contributing"]
  /\ UNCHANGED <<proc, clock, key, restarts, store, seen, observing>>

\* The envelope v with what the adapters contributed.
Merged(v, g) ==
  [id |-> v.id, ts |-> v.ts, agent |-> v.agent, version |-> v.version, gov |-> g]

\* Promise.all(contribute) resolves, the diffs are merged, checkGate is called.
Contribute(e) ==
  /\ pc[e] = "contributing" /\ MayStep(e)
  /\ \E g \in Governance : env' = [env EXCEPT ![e] = Merged(env[e], g)]
  /\ pc' = [pc EXCEPT ![e] = "gating"]
  /\ UNCHANGED <<world, store, seen, observing>>

\* contribute() or checkGate() rejects, and so does emit().
AdapterFails(e) ==
  /\ InFlight(e) /\ MayStep(e)
  /\ Settle(e, "failed")
  /\ UNCHANGED <<world, env, store, seen, observing>>

\* GatePendingError: an adapter holds the envelope back.
GateVetoes(e) ==
  /\ pc[e] = "gating" /\ MayStep(e)
  /\ env[e].gov.gate = "pending"
  /\ Settle(e, "failed")
  /\ UNCHANGED <<world, env, store, seen, observing>>

\* RedactionRefusedError: a must-not-redact path is masked or missing.
RedactionRefuses(gov) ==
  ~gov.floor \/ (gov.tier # "none" /\ gov.evidence = "absent")

\* SignRefusedError: L1/L2/L3 is claimed without evidence.
L0EvidenceMissing(gov) ==
  gov.tier = "L1+" /\ gov.evidence \in {"absent", "empty"}

\* Altered: the error is swallowed and emit() never settles.
RefusedSilently(e) == FALSE

Refused(e) ==
  /\ pc[e] = "gating" /\ MayStep(e)
  /\ env[e].gov.gate = "clear" /\ env[e].version = 2
  /\ RedactionRefuses(env[e].gov) \/ L0EvidenceMissing(env[e].gov)
  /\ Settle(e, "failed")
  /\ UNCHANGED <<world, env, store, seen, observing>>

\* Nothing stops the emit before the store.
ReachesStore(e, v) ==
  /\ pc[e] = "gating" /\ MayStep(e)
  /\ env[e].gov.gate = "clear" /\ env[e].version = v
  /\ v = 2 => ~(RedactionRefuses(env[e].gov) \/ L0EvidenceMissing(env[e].gov))

-----------------------------------------------------------------------------
(* The store.                                                              *)

\* SQLite refuses: the connection was closed, or the disk is full or locked.
StoreRefuses(e) ==
  /\ \E v \in {1, 2} : ReachesStore(e, v)
  /\ proc = "closed" \/ "store" \in Faults
  /\ Settle(e, "failed")
  /\ UNCHANGED <<world, env, store, seen, observing>>

\* The event that stampChainHashes and sign make of the envelope v.
SignedRow(v) ==
  [id |-> v.id, ts |-> v.ts, agent |-> v.agent, version |-> 2,
   prev |-> ReadPrevHashForNextEvent(rows, genesis, v.agent, v.ts),
   key |-> key, intact |-> TRUE]

\* Altered: the column of a v1 row is bound to undefined.
LegacyRowUndefined(v) ==
  [id |-> v.id, ts |-> v.ts, agent |-> v.agent, version |-> 1,
   prev |-> [kind |-> "undefined"], key |-> key, intact |-> TRUE]

LegacyRow(v) ==
  [id |-> v.id, ts |-> v.ts, agent |-> v.agent, version |-> 1,
   prev |-> NoHash, key |-> key, intact |-> TRUE]

\* writeChain: the genesis tuple of a first event, then the row.
WriteChain(r) ==
  /\ genesis' = GenesisAfter(genesis, r)
  /\ rows' = rows \cup {r}

\* The immediate transaction commits: prev hash read, row and genesis written,
\* handlers run, observers started.
PersistSigned(e) ==
  /\ proc = "running"
  /\ ReachesStore(e, 2)
  /\ WriteChain(SignedRow(env[e]))
  /\ seen' = seen \cup {env[e].id}
  /\ observing' = observing \cup {env[e].id}
  /\ Settle(e, "done")
  /\ UNCHANGED <<world, env>>

\* Altered: chain_genesis is written outside the transaction.
HandlerLeavesGenesis(e) ==
  /\ proc = "running" /\ "handler" \in Faults
  /\ ReachesStore(e, 2)
  /\ genesis' = GenesisAfter(genesis, SignedRow(env[e]))
  /\ seen' = seen \cup {env[e].id}
  /\ Settle(e, "failed")
  /\ UNCHANGED <<world, env, rows, observing>>

\* A handler throws inside the transaction, which is rolled back.
HandlerRollsBack(e) ==
  /\ proc = "running" /\ "handler" \in Faults
  /\ ReachesStore(e, 2)
  /\ seen' = seen \cup {env[e].id}
  /\ Settle(e, "failed")
  /\ UNCHANGED <<world, env, store, observing>>

\* Altered: the error of COMMIT is swallowed.
LateRollbackUnnoticed(e) ==
  /\ proc = "running" /\ {"store", "observer"} \cap Faults # {}
  /\ ReachesStore(e, 2)
  /\ seen' = seen \cup {env[e].id}
  /\ observing' = observing \cup {env[e].id}
  /\ Settle(e, "done")
  /\ UNCHANGED <<world, env, store>>

\* The transaction is rolled back after observers were started: COMMIT fails,
\* or an observe() that is not async throws.
LateRollback(e) ==
  /\ proc = "running" /\ {"store", "observer"} \cap Faults # {}
  /\ ReachesStore(e, 2)
  /\ seen' = seen \cup {env[e].id}
  /\ observing' = observing \cup {env[e].id}
  /\ Settle(e, "failed")
  /\ UNCHANGED <<world, env, store>>

\* SonderBus.emit: the row is stored on its own, then the handlers run; one
\* that throws rejects the emit and keeps the observers from being called.  An
\* observe() that is not async and throws rejects it too.
PersistLegacy(e) ==
  /\ proc = "running"
  /\ ReachesStore(e, 1)
  /\ rows' = rows \cup {LegacyRow(env[e])}
  /\ seen' = seen \cup {env[e].id}
  /\ \/ /\ Settle(e, "done")
        /\ observing' = observing \cup {env[e].id}
     \/ /\ "handler" \in Faults
        /\ Settle(e, "failed")
        /\ UNCHANGED observing
     \/ /\ "observer" \in Faults
        /\ Settle(e, "failed")
        /\ observing' = observing \cup {env[e].id}
  /\ UNCHANGED <<world, env, genesis>>

ObserveResolves(i) ==
  /\ i \in observing
  /\ observing' = observing \ {i}
  /\ UNCHANGED <<world, pc, env, store, seen>>

-----------------------------------------------------------------------------
(* The process and its surroundings.                                       *)

\* runtime.shutdown() closes the database; emits in flight go on.
Shutdown ==
  /\ proc = "running"
  /\ proc' = "closed"
  /\ UNCHANGED <<clock, nextId, key, restarts, pc, env, store, seen, observing>>

\* The process ends: promises and their continuations are gone.
Die ==
  /\ proc' = "down"
  /\ pc' = [e \in Emits |-> IF InFlight(e) THEN "lost" ELSE pc[e]]
  /\ observing' = {}
  /\ UNCHANGED <<clock, nextId, key, restarts, env, seen>>

Crash ==
  /\ proc # "down" /\ "crash" \in Faults
  /\ Die
  /\ UNCHANGED store

\* The process dies after COMMIT, or after the row of a v1 event is stored, and before
\* emit() answers.
CrashAfterCommit(e) ==
  /\ proc = "running" /\ "crash" \in Faults
  /\ \/ /\ ReachesStore(e, 2)
        /\ WriteChain(SignedRow(env[e]))
     \/ /\ ReachesStore(e, 1)
        /\ rows' = rows \cup {LegacyRow(env[e])}
        /\ UNCHANGED genesis
  /\ Die

\* A rejected observe() is an unhandled rejection ("void Promise.all"), which
\* ends a Node process.
ObserveRejects(i) ==
  /\ "observer" \in Faults
  /\ i \in observing
  /\ Die
  /\ UNCHANGED store

\* createRuntime in a new process, at a later time.  The key file may be gone,
\* and then loadOrGenerateKeypair makes another key.
Restart ==
  /\ proc # "running"
  /\ restarts < MaxRestarts /\ clock < MaxClock
  /\ \A e \in Emits : ~InFlight(e)
  /\ proc' = "running"
  /\ clock' = clock + 1
  /\ restarts' = restarts + 1
  /\ key' = key \/ ("key_lost" \in Faults /\ key' = key + 1)
  /\ UNCHANGED <<nextId, pc, env, store, seen, observing>>

Tick ==
  /\ clock < MaxClock
  /\ clock' = clock + 1
  /\ UNCHANGED <<proc, nextId, key, restarts, pc, env, store, seen, observing>>

\* The operator or NTP sets the wall clock back.
StepBack ==
  /\ "clock_step_back" \in Faults
  /\ clock > 1
  /\ clock' = clock - 1
  /\ UNCHANGED <<proc, nextId, key, restarts, pc, env, store, seen, observing>>

-----------------------------------------------------------------------------
\* What may follow findPendingGate.
Finish(e) ==
  \/ GateVetoes(e) \/ Refused(e) \/ StoreRefuses(e)
  \/ PersistSigned(e) \/ HandlerRollsBack(e) \/ LateRollback(e)
  \/ PersistLegacy(e)

Next ==
  \/ \E e \in Emits :
       \/ \E a \in Agents, v \in Versions : Start(e, a, v)
       \/ Contribute(e) \/ AdapterFails(e)
       \/ Finish(e)
       \/ CrashAfterCommit(e)
  \/ \E i \in observing : ObserveResolves(i) \/ ObserveRejects(i)
  \/ Shutdown \/ Crash \/ Restart \/ Tick \/ StepBack

Spec == Init /\ [][Next]_vars

\* The event loop runs what is ready.  Adapters settle their promises: they resolve,
\* unless they fail.
Fairness == \A e \in Emits : WF_vars(Contribute(e)) /\ WF_vars(Finish(e))

FairSpec == Spec /\ Fairness

-----------------------------------------------------------------------------
(* What the log promises.                                                  *)

\* R5 and R7 (audit-chain/spec.md): verify-chain, run on any agent with the key
\* of the runtime, never reports a mismatch on a log nobody touched.
VerifierPasses == \A a \in Agents : VerifyChain(rows, a, key) # "mismatch"

\* R6: "Concurrent emit calls produce a linear chain with no fork": two rows of
\* an agent never name the same predecessor.
NoFork ==
  \A a \in Agents : \A r, s \in V2(rows, a) : r.prev = s.prev => r = s

\* Whatever the scheduling and the clock: an agent's rows hang together.  One
\* row, the one chain_genesis names, carries the seed that the table records;
\* each other row carries the hash of another stored row of that agent.  So no
\* rollback leaves a genesis tuple or a predecessor behind that is not there.
OneRoot ==
  \A a \in Agents :
    /\ V2(rows, a) = {} <=> ReadGenesis(genesis, a) = {}
    /\ \A g, h \in ReadGenesis(genesis, a) : g = h
    /\ \A g \in ReadGenesis(genesis, a) : \A r \in V2(rows, a) :
         IF r.id = g.id
         THEN r.prev = Seed(a, g.ts) /\ r.ts = g.ts
         ELSE \E p \in V2(rows, a) \ {r} : r.prev = HashOf(p.id)
    /\ \A g \in ReadGenesis(genesis, a) : \E r \in V2(rows, a) : r.id = g.id

\* Whatever the scheduling and the clock: the log is append-only, and when an
\* agent's head changes, the new head carries the hash of the old one.  An
\* anchor of a head therefore stays on the path from every later head.
HeadAdvances ==
  [][/\ rows \subseteq rows'
     /\ \A a \in Agents : \A h \in V2(rows, a) : \A n \in V2(rows', a) :
          (IsHead(V2(rows, a), h) /\ IsHead(V2(rows', a), n) /\ n # h)
            => n.prev = HashOf(h.id)]_vars

\* emit-pipeline.ts:22 "Failure at any step does NOT persist", and the converse:
\* a v2 emit that rejected, or has not finished, left neither a row nor a
\* genesis tuple; an emit that resolved is on file, after any crash; and
\* (bus.ts:124, "Persist before notifying observers") so is a v1 event that a handler
\* or an observer was shown.
OutcomeMatchesStore ==
  \A e \in Emits :
    /\ pc[e] = "done" => env[e].id \in Ids(rows)
    /\ (InFlight(e) \/ (pc[e] = "failed" /\ env[e].version = 2))
         => env[e].id \notin Ids(rows) \cup Ids(genesis)
    /\ (pc[e] # "idle" /\ env[e].version = 1 /\ env[e].id \in seen \cup observing)
         => env[e].id \in Ids(rows)

\* Every emit comes to an end: no refusal, veto or failure leaves it hanging,
\* and no emit waits for another for ever.
EmitSettles == \A e \in Emits : InFlight(e) ~> pc[e] \in Settled

-----------------------------------------------------------------------------
(* The chain as a linear ledger: see LinearLedger.                         *)

ChainLinks ==
  [a \in Agents |-> {<<r.prev, HashOf(r.id)>> : r \in V2(rows, a)}]

Ledger == INSTANCE LinearLedger WITH links <- ChainLinks

LedgerSpec == Ledger!Spec
=============================================================================
