----------------------------- MODULE GateRegistry -----------------------------
(***************************************************************************)
(* The registry of approval gates (packages/core/src/gate-registry.ts): a  *)
(* map in memory, and a JSONL file to which each change is appended and    *)
(* from which a new process replays the map.                               *)
(*                                                                         *)
(* A line is [type, gate, opened]; `opened`, the ApprovalGate as the       *)
(* policy opened it, is there on "register" lines.  `tail` is text after   *)
(* the last newline, left by a process that died inside appendFileSync:    *)
(* part of a line, or a line that lacks only its newline.  The next append *)
(* completes that text to one line, which does not parse.                  *)
(***************************************************************************)
EXTENDS Integers, Sequences

CONSTANTS
  Gates,       \* gate_id values
  Opened,      \* gates as opened: [state, deadline, default_action]
  LogFaults,   \* subset of {"append", "torn"}
  NoDeadline,  \* expires_at is absent
  BadDeadline  \* expires_at does not parse: Date.parse gives NaN

ASSUME GateAssumption ==
  /\ NoDeadline \notin Nat /\ BadDeadline \notin Nat /\ NoDeadline # BadDeadline
  /\ LogFaults \subseteq {"append", "torn"}
  /\ Opened \subseteq
       [state : {"pending", "allowed", "denied"},
        deadline : Nat \cup {NoDeadline, BadDeadline},
        default_action : {"deny", "allow"}]

VARIABLES
  up,          \* the process with the registry runs
  records,     \* the map
  file,        \* complete lines that parse
  tail         \* text after the last newline

registry == <<up, records, file, tail>>

-----------------------------------------------------------------------------
Unknown == [status |-> "unknown"]
Record ==
  [status : {"pending", "resolved", "denied", "expired"}, opened : Opened]

RegisterLine(g, o) == [type |-> "register", gate |-> g, opened |-> o]
ResolveLine(g, decision) == [type |-> decision, gate |-> g]
ExpireLine(g) == [type |-> "expire", gate |-> g]

Line ==
  [type : {"register"}, gate : Gates, opened : Opened]
    \cup [type : {"resume", "deny", "expire"}, gate : Gates]

NoTail == [type |-> "none"]
Fragment == [type |-> "fragment"]

RegistryTypeOK ==
  /\ up \in BOOLEAN
  /\ records \in [Gates -> Record \cup {Unknown}]
  /\ file \in Seq(Line)
  /\ tail \in Line \cup {NoTail, Fragment}

RegistryInit ==
  /\ up = TRUE
  /\ records = [g \in Gates |-> Unknown]
  /\ file = <<>>
  /\ tail = NoTail

-----------------------------------------------------------------------------
(* The file.                                                               *)

\* What a write of the line that stops half way makes of the text after the last newline.
Torn(line) == IF tail = NoTail THEN {Fragment, line} ELSE {Fragment}

\* appendLog.  Errors are swallowed, also of a write that stops half way (disk full): the
\* caller goes on.
AppendLog(line) ==
  \/ /\ tail = NoTail
     /\ file' = Append(file, line)
     /\ UNCHANGED tail
  \/ /\ tail # NoTail
     /\ tail' = NoTail
     /\ UNCHANGED file
  \/ /\ "append" \in LogFaults
     /\ UNCHANGED <<file, tail>>
  \/ /\ "torn" \in LogFaults
     /\ tail' \in Torn(line)
     /\ UNCHANGED file

\* What replay() reads: the complete lines, and the tail if it parses.
Readable == IF tail \in Line THEN Append(file, tail) ELSE file

\* Altered: the decision is read the wrong way round.
StatusOfInverted(line) ==
  CASE line.type = "register" -> "pending"
    [] line.type = "resume" -> "denied"
    [] line.type = "deny" -> "resolved"
    [] line.type = "expire" -> "expired"

\* The status that a line gives to its gate.
StatusOf(line) ==
  CASE line.type = "register" -> "pending"
    [] line.type = "resume" -> "resolved"
    [] line.type = "deny" -> "denied"
    [] line.type = "expire" -> "expired"

\* Altered: expire lines are not replayed.
ReplayLineButExpire(map, line) ==
  IF line.type = "register"
  THEN [map EXCEPT ![line.gate] = [status |-> "pending", opened |-> line.opened]]
  ELSE IF map[line.gate] = Unknown \/ line.type = "expire"
       THEN map
       ELSE [map EXCEPT ![line.gate] =
               [status |-> StatusOf(line), opened |-> map[line.gate].opened]]

\* One turn of the loop of replay().
ReplayLine(map, line) ==
  IF line.type = "register"
  THEN [map EXCEPT ![line.gate] = [status |-> "pending", opened |-> line.opened]]
  ELSE IF map[line.gate] = Unknown
       THEN map
       ELSE [map EXCEPT ![line.gate] =
               [status |-> StatusOf(line), opened |-> map[line.gate].opened]]

\* The loop of replay() over the lines of f.
ReplayLoop(f) ==
  LET map[n \in 0 .. Len(f)] ==
        IF n = 0 THEN [g \in Gates |-> Unknown] ELSE ReplayLine(map[n - 1], f[n])
  IN  map[Len(f)]

\* Line i of f is the last one in f that is about g and of one of these types.
IsLastLine(f, g, types, i) ==
  /\ i \in DOMAIN f /\ f[i].gate = g /\ f[i].type \in types
  /\ \A j \in DOMAIN f : (f[j].gate = g /\ f[j].type \in types) => j <= i

LastLine(f, g, types) == f[CHOOSE i \in DOMAIN f : IsLastLine(f, g, types, i)]

AllTypes == {"register", "resume", "deny", "expire"}

\* The records after all lines of f, in closed form: a register line sets the record, a
\* later line changes its status, a line about a gate that is not in the map is skipped.
Replay(f) ==
  [g \in Gates |->
     IF \E i \in DOMAIN f : f[i].gate = g /\ f[i].type = "register"
     THEN [status |-> StatusOf(LastLine(f, g, AllTypes)),
           opened |-> LastLine(f, g, {"register"}).opened]
     ELSE Unknown]

-----------------------------------------------------------------------------
(* The operations.                                                         *)

Verdict(decision) ==
  CASE decision = "resume" -> "resolved"
    [] decision = "deny" -> "denied"
    [] decision = "expire" -> "expired"

\* Altered: the decision is stored in place of the status.
DecidedRaw(g, decision) ==
  [records EXCEPT ![g] = [status |-> decision, opened |-> records[g].opened]]

Decided(g, decision) ==
  [records EXCEPT ![g] =
     [status |-> Verdict(decision), opened |-> records[g].opened]]

IsPending(g) == records[g] # Unknown /\ records[g].status = "pending"

\* register() of a gate that is not in the map.
Register(g, o) ==
  /\ up /\ records[g] = Unknown
  /\ records' = [records EXCEPT ![g] = [status |-> "pending", opened |-> o]]
  /\ AppendLog(RegisterLine(g, o))
  /\ UNCHANGED up

\* Altered: a gate with a verdict can be resolved again.
ResolveAgain(g, decision) ==
  /\ up /\ records[g] # Unknown
  /\ records' = Decided(g, decision)
  /\ AppendLog(ResolveLine(g, decision))
  /\ UNCHANGED up

\* resolve() of a pending gate; of any other it returns null.
Resolve(g, decision) ==
  /\ up /\ IsPending(g)
  /\ records' = Decided(g, decision)
  /\ AppendLog(ResolveLine(g, decision))
  /\ UNCHANGED up

\* Date.parse(expires_at) > now is false for NaN too.
Overdue(o, now) ==
  \/ o.deadline = BadDeadline
  \/ o.deadline \in Nat /\ o.deadline <= now

\* Altered: the expiry is not logged.
ExpireUnlogged(g, now) ==
  /\ up /\ IsPending(g)
  /\ Overdue(records[g].opened, now)
  /\ records' = Decided(g, "expire")
  /\ UNCHANGED <<up, file, tail>>

\* One turn of the loop of expireOverdue(now).  The listeners run between two
\* turns and may call the registry.
Expire(g, now) ==
  /\ up /\ IsPending(g)
  /\ Overdue(records[g].opened, now)
  /\ records' = Decided(g, "expire")
  /\ AppendLog(ExpireLine(g))
  /\ UNCHANGED up

ForgetMemory ==
  /\ up' = FALSE
  /\ records' = [g \in Gates |-> Unknown]

Crash ==
  /\ up
  /\ ForgetMemory
  /\ UNCHANGED <<file, tail>>

\* The lines that some call may be writing.
MayBeWriting(line, now) ==
  \/ \E g \in Gates, o \in Opened :
       records[g] = Unknown /\ line = RegisterLine(g, o)
  \/ \E g \in Gates, d \in {"resume", "deny"} :
       IsPending(g) /\ line = ResolveLine(g, d)
  \/ \E g \in Gates :
       /\ IsPending(g) /\ Overdue(records[g].opened, now)
       /\ line = ExpireLine(g)

\* The process dies while it appends a line.
CrashInAppend(line, now) ==
  /\ up /\ "torn" \in LogFaults
  /\ MayBeWriting(line, now)
  /\ tail' \in Torn(line)
  /\ ForgetMemory
  /\ UNCHANGED file

\* The constructor of a new process.
Restart ==
  /\ ~up
  /\ up' = TRUE
  /\ records' = Replay(Readable)
  /\ UNCHANGED <<file, tail>>

-----------------------------------------------------------------------------
RegistryNext ==
  \/ \E g \in Gates :
       \/ \E o \in Opened : Register(g, o)
       \/ \E d \in {"resume", "deny"} : Resolve(g, d)
       \/ \E now \in Nat : Expire(g, now)
  \/ \E line \in Line, now \in Nat : CrashInAppend(line, now)
  \/ Crash \/ Restart

RegistrySpec == RegistryInit /\ [][RegistryNext]_registry

-----------------------------------------------------------------------------
\* gate-registry.ts:15-18 "The registry is a projection of an event log [...] lose
\* the process, replay the log, you're back where you were": at any time a replay
\* would give the map that is in memory.
Projection == up => Replay(Readable) = records

\* gate-registry.ts:183-207: the closed form that the other properties speak of is what
\* the loop of the code makes of the file, line by line.
ReplayIsLoop == Replay(Readable) = ReplayLoop(Readable)

\* The gates as GateLifecycle sees them: what a new process would find.
Lifecycle == INSTANCE GateLifecycle WITH
  status <- [g \in Gates |-> Replay(Readable)[g].status]

LifecycleSpec == Lifecycle!Spec
=============================================================================
