---------------------------- MODULE GateLifecycle -----------------------------
(***************************************************************************)
(* What the gate registry promises (packages/core/src/gate-registry.ts):   *)
(* an approval gate is opened once, gets at most one verdict, and keeps    *)
(* it, whether or not the process survives.                                *)
(***************************************************************************)
CONSTANT Gates

VARIABLE status    \* status[g], or "unknown" for a gate never opened

Verdicts == {"resolved", "denied", "expired"}

Init == status = [g \in Gates |-> "unknown"]

Open(g) ==
  /\ status[g] = "unknown"
  /\ status' = [status EXCEPT ![g] = "pending"]

Decide(g, v) ==
  /\ status[g] = "pending"
  /\ status' = [status EXCEPT ![g] = v]

Next == \E g \in Gates : Open(g) \/ \E v \in Verdicts : Decide(g, v)

Spec == Init /\ [][Next]_status
=============================================================================
