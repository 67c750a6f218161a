------------------------------ MODULE MCGateFlow ------------------------------
(***************************************************************************)
(* Values of the constants of GateFlow for TLC.                            *)
(***************************************************************************)
EXTENDS GateFlow, TLC

CONSTANTS c1, c2, c3, g1, g2

\* Two callers that retry the same event, two that wait for a gate each, one alone.
GateOfTwo == c1 :> g1 @@ c2 :> g1
GateOfEach == c1 :> g1 @@ c2 :> g2
GateOfOne == c1 :> g1

PendingGate(deadline, action) ==
  [state |-> "pending", deadline |-> deadline, default_action |-> action]

SomeGates ==
  {PendingGate(1, "deny"), PendingGate(BadDeadline, "allow"),
   [state |-> "denied", deadline |-> NoDeadline, default_action |-> "deny"]}
\* A deadline that passes before the timeout, none, and one that does not parse.
DatedOrNot ==
  {PendingGate(d, "deny") : d \in {1, NoDeadline, BadDeadline}}
Misdated == {PendingGate(BadDeadline, "deny")}
OpenEnded == {PendingGate(NoDeadline, "deny")}
WithDeadline == {PendingGate(1, "deny"), PendingGate(NoDeadline, "deny")}
=============================================================================
