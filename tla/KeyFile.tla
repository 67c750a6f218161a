-------------------------------- MODULE KeyFile --------------------------------
(***************************************************************************)
(* The key file (packages/core/src/sign.ts) and the processes that start   *)
(* from it: loadOrGenerateKeypair looks for the file, loads it or writes a *)
(* new one.  It takes no lock, and a process may end between two of its    *)
(* system calls, so each of them is an action.                             *)
(*                                                                         *)
(* Keys are numbered as they are generated; 0 is no key.  `private` stands *)
(* for mode 0600.                                                          *)
(***************************************************************************)
EXTENDS Integers

CONSTANTS
  Procs,       \* processes that call createRuntime()
  MaxKeys      \* bound on the keys that they generate

ASSUME KeyFileAssumption == MaxKeys \in Nat

VARIABLES
  file,      \* the key file
  pc,        \* what each process is doing
  held,      \* the key in its hands
  made,      \* keys generated so far
  raced      \* two starts found no file, or it was removed (auxiliary)

keyVars == <<file, pc, held, made, raced>>

Stages ==
  {"off", "load", "checked", "looked", "generated", "truncated", "written", "up"}

KeyTypeOK ==
  /\ file \in [state : {"absent", "torn", "whole"}, key : Nat, private : BOOLEAN]
  /\ pc \in [Procs -> Stages]
  /\ held \in [Procs -> Nat]
  /\ made \in Nat /\ raced \in BOOLEAN

NoFile == [state |-> "absent", key |-> 0, private |-> FALSE]

KeyInit ==
  /\ file = NoFile
  /\ pc = [p \in Procs |-> "off"] /\ held = [p \in Procs |-> 0]
  /\ made = 0 /\ raced = FALSE

\* p has looked, and nothing has been written since.
FoundNone(p) == pc[p] \in {"looked", "generated"}

Goto(p, stage) == pc' = [pc EXCEPT ![p] = stage]

\* Altered: a file that is not whole is taken for none.
LookForWhole(p) ==
  /\ pc[p] = "off"
  /\ Goto(p, IF file.state = "whole" THEN "load" ELSE "looked")
  /\ raced' = (raced \/ (file.state = "absent" /\ \E q \in Procs : FoundNone(q)))
  /\ UNCHANGED <<file, held, made>>

\* existsSync in loadOrGenerateKeypair.
Look(p) ==
  /\ pc[p] = "off"
  /\ Goto(p, IF file.state = "absent" THEN "looked" ELSE "load")
  /\ raced' = (raced \/ (file.state = "absent" /\ \E q \in Procs : FoundNone(q)))
  /\ UNCHANGED <<file, held, made>>

\* Altered: a key file with an unsafe mode is replaced.
CheckModeOrReplace(p) ==
  /\ pc[p] = "load"
  /\ Goto(p, IF file.state # "absent" /\ file.private THEN "checked" ELSE "looked")
  /\ UNCHANGED <<file, held, made, raced>>

\* existsSync and statSync in loadKeypair.
CheckMode(p) ==
  /\ pc[p] = "load"
  /\ Goto(p, IF file.state # "absent" /\ file.private THEN "checked" ELSE "off")
  /\ UNCHANGED <<file, held, made, raced>>

\* readFileSync and JSON.parse; a missing or torn file throws.
ReadKey(p) ==
  /\ pc[p] = "checked"
  /\ IF file.state = "whole"
     THEN Goto(p, "up") /\ held' = [held EXCEPT ![p] = file.key]
     ELSE Goto(p, "off") /\ UNCHANGED held
  /\ UNCHANGED <<file, made, raced>>

Generate(p) ==
  /\ pc[p] = "looked" /\ made < MaxKeys
  /\ made' = made + 1 /\ held' = [held EXCEPT ![p] = made + 1]
  /\ Goto(p, "generated")
  /\ UNCHANGED <<file, raced>>

\* writeFileSync opens the file: it is empty now, and 0600 if it is new.
Truncate(p) ==
  /\ pc[p] = "generated"
  /\ file' = [state |-> "torn", key |-> 0,
              private |-> file.state = "absent" \/ file.private]
  /\ Goto(p, "truncated")
  /\ UNCHANGED <<held, made, raced>>

\* writeFileSync writes; what is written to a file that was removed is gone.
Write(p) ==
  /\ pc[p] = "truncated"
  /\ file' = IF file.state = "absent" THEN file
             ELSE [file EXCEPT !.state = "whole", !.key = held[p]]
  /\ Goto(p, "written")
  /\ UNCHANGED <<held, made, raced>>

\* chmodSync.  The process goes on with the key that it generated.
Chmod(p) ==
  /\ pc[p] = "written" /\ file.state # "absent"
  /\ file' = [file EXCEPT !.private = TRUE]
  /\ Goto(p, "up")
  /\ UNCHANGED <<held, made, raced>>

\* The process ends, or createRuntime throws, as chmodSync does if the file is gone.
Ends(p) ==
  /\ pc[p] # "off" /\ Goto(p, "off")
  /\ held' = [held EXCEPT ![p] = 0]
  /\ UNCHANGED <<file, made, raced>>

KeyStep(p) ==
  \/ Look(p) \/ CheckMode(p) \/ ReadKey(p)
  \/ Generate(p) \/ Truncate(p) \/ Write(p) \/ Chmod(p)

\* The key file is removed, or copied with another mode.
FileRemoved ==
  /\ file.state # "absent" /\ file' = NoFile
  /\ raced' = TRUE
  /\ UNCHANGED <<pc, held, made>>

ModeChanged ==
  /\ file.state # "absent" /\ file' = [file EXCEPT !.private = ~file.private]
  /\ UNCHANGED <<pc, held, made, raced>>

-----------------------------------------------------------------------------
\* sign.ts:51-63: all processes that run hold the one key that is in the file,
\* wherever a start was cut short, unless two starts found no file at the same time
\* or the file was removed.
OneKey ==
  ~raced => \A p \in Procs : pc[p] = "up" => file.state = "whole" /\ held[p] = file.key
=============================================================================
