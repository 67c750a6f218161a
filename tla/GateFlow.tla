------------------------------- MODULE GateFlow -------------------------------
(***************************************************************************)
(* Emits that wait for an approval: emitWithGateRetry (gate-retry.ts)      *)
(* around an emit whose envelope goes through findPendingGate (gate.ts)    *)
(* with a registry-backed checkGate (adapters/lattice), an operator who    *)
(* decides, the periodic expireOverdue, and the clock.                     *)
(*                                                                         *)
(* A caller emits one event that the policy gates; openGate gives the same *)
(* gate_id for it on every try.                                            *)
(***************************************************************************)
EXTENDS GateRegistry

CONSTANTS
  Callers,      \* calls of emitWithGateRetry
  GateOf,       \* the gate_id of each caller's event
  Poll,         \* pollMs
  Timeout,      \* timeoutMs
  MaxNow,       \* bound on the clock
  MaxRestarts   \* bound on restarts

ASSUME FlowAssumption ==
  /\ GateOf \in [Callers -> Gates]
  /\ Poll \in Nat \ {0} /\ Timeout \in Nat /\ MaxNow \in Nat /\ MaxRestarts \in Nat

VARIABLES
  now,         \* Date.now()
  restarts,
  cpc,         \* state of each caller
  since,       \* when its loop began
  wake,        \* when its sleep ends
  decisions    \* decisions[g]: what operators submitted for gate g
               \* (history: no action reads it)

flow == <<now, restarts, cpc, since, wake, decisions>>
fvars == <<registry, flow>>

Waiting == {"emitting", "sleeping"}
Over == {"emitted", "timedout", "rejected", "lost"}

FlowTypeOK ==
  /\ RegistryTypeOK
  /\ now \in Nat /\ restarts \in Nat
  /\ cpc \in [Callers -> {"idle"} \cup Waiting \cup Over]
  /\ since \in [Callers -> Nat] /\ wake \in [Callers -> Nat]
  /\ decisions \in [Gates -> SUBSET {"resume", "deny"}]

FlowInit ==
  /\ RegistryInit
  /\ now = 0 /\ restarts = 0
  /\ cpc = [c \in Callers |-> "idle"]
  /\ since = [c \in Callers |-> 0] /\ wake = [c \in Callers |-> 0]
  /\ decisions = [g \in Gates |-> {}]

Goto(c, state) == cpc' = [cpc EXCEPT ![c] = state]

-----------------------------------------------------------------------------
(* The caller.                                                             *)

\* The agent calls, or calls again for the same event after a crash.  The loop begins
\* early enough to end within the bound on the clock.
Begin(c) ==
  /\ up /\ cpc[c] \in {"idle", "lost"}
  /\ now + Timeout + Poll <= MaxNow
  /\ Goto(c, "emitting")
  /\ since' = [since EXCEPT ![c] = now]
  /\ UNCHANGED <<registry, now, restarts, wake, decisions>>

\* The gate that checkGate returns keeps the event back: its `state` is what the
\* policy wrote when it opened the gate, whatever the registry knows by now.
Vetoes(o) == o.state = "pending"

\* Altered: timeoutMs is not looked at.
HandleVetoForever(c, o) ==
  /\ IF o.deadline \in Nat /\ o.deadline <= now
     THEN Goto(c, "timedout") /\ UNCHANGED wake
     ELSE Goto(c, "sleeping") /\ wake' = [wake EXCEPT ![c] = now + Poll]
  /\ UNCHANGED <<now, restarts, since, decisions>>

\* The catch block, for a gate o: give up or sleep.  (onGate is the caller's; if it
\* throws, the loop rejects.)
HandleVeto(c, o) ==
  /\ IF \/ o.deadline \in Nat /\ o.deadline <= now
        \/ now - since[c] >= Timeout
     THEN Goto(c, "timedout") /\ UNCHANGED wake
     ELSE Goto(c, "sleeping") /\ wake' = [wake EXCEPT ![c] = now + Poll]
  /\ UNCHANGED <<now, restarts, since, decisions>>

\* No gate is pending, and the event is persisted.
Passes(c) ==
  /\ Goto(c, "emitted")
  /\ UNCHANGED <<now, restarts, since, wake, decisions>>

\* Altered: the candidate is returned without register().
FirstTryUnlisted(c) ==
  /\ up /\ cpc[c] = "emitting" /\ records[GateOf[c]] = Unknown
  /\ \E o \in Opened : IF Vetoes(o) THEN HandleVeto(c, o) ELSE Passes(c)
  /\ UNCHANGED registry

\* An emit that meets its gate for the first time: the gate is registered.
FirstTry(c) ==
  /\ cpc[c] = "emitting"
  /\ \E o \in Opened :
       /\ Register(GateOf[c], o)
       /\ IF Vetoes(o) THEN HandleVeto(c, o) ELSE Passes(c)

\* A gate that the registry holds as resolved or expired is no gate any more.
Cleared(r) == r.status \in {"resolved", "expired"}

\* Altered: the deadline is checked before the emit is tried.
RetryOverdue(c) ==
  LET r == records[GateOf[c]] IN
  /\ up /\ cpc[c] = "emitting" /\ r # Unknown
  /\ IF r.opened.deadline \in Nat /\ r.opened.deadline <= now
     THEN /\ Goto(c, "timedout")
          /\ UNCHANGED <<now, restarts, since, wake, decisions>>
     ELSE IF Cleared(r) \/ ~Vetoes(r.opened)
          THEN Passes(c)
          ELSE HandleVeto(c, r.opened)
  /\ UNCHANGED registry

\* An emit whose gate the registry knows.
Retry(c) ==
  LET r == records[GateOf[c]] IN
  /\ up /\ cpc[c] = "emitting" /\ r # Unknown
  /\ IF Cleared(r) \/ ~Vetoes(r.opened) THEN Passes(c) ELSE HandleVeto(c, r.opened)
  /\ UNCHANGED registry

\* The emit fails for another reason, which is thrown on.
Rejects(c) ==
  /\ cpc[c] = "emitting"
  /\ Goto(c, "rejected")
  /\ UNCHANGED <<registry, now, restarts, since, wake, decisions>>

WakeUp(c) ==
  /\ cpc[c] = "sleeping" /\ now >= wake[c]
  /\ Goto(c, "emitting")
  /\ UNCHANGED <<registry, now, restarts, since, wake, decisions>>

-----------------------------------------------------------------------------
(* The others.                                                             *)

Operator(g, d) ==
  /\ Resolve(g, d)
  /\ decisions' = [decisions EXCEPT ![g] = @ \cup {d}]
  /\ UNCHANGED <<now, restarts, cpc, since, wake>>

Sweep(g) ==
  /\ Expire(g, now)
  /\ UNCHANGED flow

CallersLost ==
  cpc' = [c \in Callers |-> IF cpc[c] \in Waiting THEN "lost" ELSE cpc[c]]

Die ==
  /\ Crash /\ CallersLost
  /\ UNCHANGED <<now, restarts, since, wake, decisions>>

\* The operator's call that was being logged never returns.
DieInAppend ==
  /\ \E line \in Line : 
       /\ CrashInAppend(line, now)
       /\ decisions' =
            IF line.type \in {"resume", "deny"}
            THEN [decisions EXCEPT ![line.gate] = @ \cup {line.type}]
            ELSE decisions
  /\ CallersLost
  /\ UNCHANGED <<now, restarts, since, wake>>

Recover ==
  /\ restarts < MaxRestarts
  /\ restarts' = restarts + 1
  /\ Restart
  /\ UNCHANGED <<now, cpc, since, wake, decisions>>

Tick ==
  /\ now < MaxNow
  /\ now' = now + 1
  /\ UNCHANGED <<registry, restarts, cpc, since, wake, decisions>>

-----------------------------------------------------------------------------
Try(c) == FirstTry(c) \/ Retry(c)

FlowNext ==
  \/ \E c \in Callers :
       Begin(c) \/ FirstTry(c) \/ Retry(c) \/ Rejects(c) \/ WakeUp(c)
  \/ \E g \in Gates :
       \/ \E d \in {"resume", "deny"} : Operator(g, d)
       \/ Sweep(g)
  \/ Die \/ DieInAppend \/ Recover \/ Tick

FlowSpec == FlowInit /\ [][FlowNext]_fvars

\* The event loop runs what is ready, timers fire and time goes on.  Operators need
\* not act, nobody needs to sweep and a dead process need not be started again.
FlowFairness ==
  /\ WF_fvars(Tick)
  /\ \A c \in Callers : WF_fvars(Try(c)) /\ WF_fvars(WakeUp(c))

FairFlowSpec == FlowSpec /\ FlowFairness

-----------------------------------------------------------------------------
\* In all that crashes and swallowed errors make of the map and the file, a verdict
\* in the map is one that an operator submitted, never one made up by a replay.
NoInventedVerdict ==
  \A g \in Gates : records[g] # Unknown =>
    /\ records[g].status = "resolved" => "resume" \in decisions[g]
    /\ records[g].status = "denied" => "deny" \in decisions[g]

\* A caller that sleeps waits for a gate that the registry holds, so that the operator
\* sees it in list() and a verdict can end the wait.
SleepersAreListed ==
  \A c \in Callers : cpc[c] = "sleeping" => up /\ records[GateOf[c]] # Unknown

\* Once an operator has denied a gate that was opened pending, no event passes it:
\* neither by a later sweep, nor after a crash and a replay.
DenyStands ==
  [][\A c \in Callers :
       LET r == records[GateOf[c]] IN
       (cpc[c] # "emitted" /\ cpc'[c] = "emitted" /\ "deny" \in decisions[GateOf[c]])
         => r # Unknown /\ ~Vetoes(r.opened)]_fvars

\* Every call of emitWithGateRetry comes to an end, though no operator acts.
RetryEnds == \A c \in Callers : cpc[c] \in Waiting ~> cpc[c] \in Over

\* A caller that waits when its gate is resumed gets its event out: even when the
\* deadline or the timeout passes before the next poll.
ResumeUnblocks ==
  \A c \in Callers :
    (cpc[c] = "sleeping" /\ records[GateOf[c]] # Unknown
       /\ records[GateOf[c]].status = "resolved")
      ~> cpc[c] \in {"emitted", "rejected", "lost"}

\* types/event.ts "After this [expires_at], default_action applies": an event whose
\* gate expired with default_action 'deny' is not emitted.
DefaultActionApplies ==
  [][\A c \in Callers :
       LET r == records[GateOf[c]] IN
       (cpc[c] # "emitted" /\ cpc'[c] = "emitted" /\ r # Unknown /\ r.status = "expired")
         => r.opened.default_action = "allow"]_fvars
=============================================================================
