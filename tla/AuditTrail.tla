------------------------------ MODULE AuditTrail ------------------------------
(***************************************************************************)
(* A log on disk over its whole life: the processes that write to it with  *)
(* the key they started with (KeyFile), somebody who edits the database by *)
(* hand, and what the command sonder-verify-chain                          *)
(* (packages/sdk/src/cli/verify-chain.ts) says of it afterwards.           *)
(*                                                                         *)
(* An emit is one step here and the clock does not go back: EmitPipeline   *)
(* is about emits that overtake each other.                                *)
(***************************************************************************)
EXTENDS AuditStore, KeyFile, Sequences

CONSTANTS
  MaxEvents,    \* bound on the events that are emitted
  MaxEdits      \* bound on the edits by hand

ASSUME AuditTrailAssumption == MaxEvents \in Nat /\ MaxEdits \in Nat

VARIABLES
  rows,       \* table events
  genesis,    \* table chain_genesis
  nextId,     \* the next id, which is also the time
  edits,      \* edits by hand so far
  before      \* ids of the agent's v2 rows when an event was emitted (auxiliary)

logVars == <<rows, genesis, nextId, edits, before>>
vars == <<file, pc, held, made, raced, rows, genesis, nextId, edits, before>>

Ids(S) == {r.id : r \in S}
Touched == edits > 0

Hash ==
  [kind : {"seed"}, agent : Agents, ts : Nat] \cup [kind : {"hash"}, id : Nat]
    \cup {NoHash}
Row ==
  [id : Nat \ {0}, ts : Nat, agent : Agents, version : {1, 2}, prev : Hash,
   key : Nat, intact : BOOLEAN]

TrailTypeOK ==
  /\ KeyTypeOK
  /\ rows \subseteq Row
  /\ genesis \subseteq [agent : Agents, id : Nat, ts : Nat]
  /\ nextId \in Nat \ {0} /\ edits \in Nat
  /\ DOMAIN before = 1..nextId - 1
  /\ \A i \in DOMAIN before : before[i] \subseteq 1..i - 1
  /\ Ids(rows) \subseteq DOMAIN before

Init ==
  /\ KeyInit
  /\ rows = {} /\ genesis = {} /\ nextId = 1 /\ edits = 0 /\ before = << >>

-----------------------------------------------------------------------------
(* Writing.                                                                *)

\* Altered: the hash column of a v1 row is bound to undefined.
NewRowUndefined(p, a, v) ==
  [id |-> nextId, ts |-> nextId, agent |-> a, version |-> v,
   prev |-> IF v = 2 THEN ReadPrevHashForNextEvent(rows, genesis, a, nextId)
            ELSE [kind |-> "undefined"],
   key |-> held[p], intact |-> TRUE]

NewRow(p, a, v) ==
  [id |-> nextId, ts |-> nextId, agent |-> a, version |-> v,
   prev |-> IF v = 2 THEN ReadPrevHashForNextEvent(rows, genesis, a, nextId) ELSE NoHash,
   key |-> held[p], intact |-> TRUE]

\* An emit of a running process.
Emit(p, a, v) ==
  LET r == NewRow(p, a, v) IN
  /\ pc[p] = "up" /\ nextId <= MaxEvents
  /\ rows' = rows \cup {r}
  /\ genesis' = IF v = 2 THEN GenesisAfter(genesis, r) ELSE genesis
  /\ before' = Append(before, Ids(V2(rows, a)))
  /\ nextId' = nextId + 1
  /\ UNCHANGED <<keyVars, edits>>

\* An edit of the database by somebody who has no signing key.
EditTo(newRows) ==
  /\ edits < MaxEdits
  /\ rows' = newRows /\ edits' = edits + 1
  /\ UNCHANGED <<keyVars, genesis, nextId, before>>

\* Rows are removed; chain_genesis stays.
Delete(r) == EditTo(rows \ {r})

\* The stored JSON is altered, and left so or hashed and signed again.
Alter(r) ==
  \E forged \in {[r EXCEPT !.intact = FALSE], [r EXCEPT !.key = 0]} :
    EditTo((rows \ {r}) \cup {forged})

-----------------------------------------------------------------------------
(* The command sonder-verify-chain.                                        *)

\* How a key flag was given: "unusable" is empty or no key of 32 bytes.  `required`
\* says that --agent-id and --db were given.
KeyFlag(kinds) ==
  [kind : kinds, key : {0}] \cup [kind : {"key"}, key : 1..MaxKeys]

Arguments ==
  [unknown : BOOLEAN, help : BOOLEAN, required : BOOLEAN, agent : Agents,
   pubKey : KeyFlag({"absent", "unusable"}),
   pubKeyFile : KeyFlag({"absent", "unusable", "unreadable"})]

\* --pub-key goes before --pub-key-file, even if it is empty.
GivenKey(args) == IF args.pubKey.kind # "absent" THEN args.pubKey ELSE args.pubKeyFile

\* The flags get as far as the log.
Usable(args) ==
  /\ ~args.unknown /\ ~args.help
  /\ args.required
  /\ GivenKey(args).kind = "key"

\* An unknown flag ends the command before --help is seen; a file that cannot be
\* read is an uncaught error, for which Node exits with 1 as for a mismatch.
ExitCode(args) ==
  IF Usable(args)
  THEN [pass |-> 0, mismatch |-> 1, missing |-> 2]
         [VerifyChain(rows, args.agent, GivenKey(args).key)]
  ELSE IF args.unknown THEN 64
  ELSE IF args.help THEN 0
  ELSE IF args.required /\ GivenKey(args).kind = "unreadable" THEN 1
  ELSE 64

-----------------------------------------------------------------------------
Next ==
  \/ /\ \/ \E p \in Procs : KeyStep(p) \/ Ends(p)
        \/ FileRemoved \/ ModeChanged
     /\ UNCHANGED logVars
  \/ \E p \in Procs, a \in Agents, v \in {1, 2} : Emit(p, a, v)
  \/ \E r \in rows : Delete(r) \/ Alter(r)

Spec == Init /\ [][Next]_vars

-----------------------------------------------------------------------------
(* What can be learned from the log.                                       *)

\* verify-chain.ts (cli) 7-11: exit code 0, unless for --help, means that the agent's
\* log is whole: every event is as the owner of the key signed it, and everything the
\* agent had on file when it was emitted is still there.  Only the newest events
\* can be missing, which is what anchors are for.
PassMeansWhole ==
  \A args \in Arguments :
    (ExitCode(args) = 0 /\ ~args.help) =>
      \A r \in V2(rows, args.agent) :
        /\ r.intact /\ r.key = GivenKey(args).key
        /\ before[r.id] \subseteq Ids(V2(rows, args.agent))

\* runtime.ts:81-84, verify-chain.ts: the key in the key file verifies the whole log
\* of every agent, whichever process wrote it and wherever a start or a process was
\* cut short, if nobody edited the log and no key was lost (see OneKey).
Asks(args, a) == Usable(args) /\ args.agent = a /\ GivenKey(args).key = file.key

UntouchedPasses ==
  (~Touched /\ ~raced) =>
    \A args \in Arguments, a \in Agents :
      Asks(args, a) => ExitCode(args) = IF V2(rows, a) = {} THEN 2 ELSE 0
=============================================================================
