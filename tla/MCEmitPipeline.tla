---------------------------- MODULE MCEmitPipeline ----------------------------
(***************************************************************************)
(* Values of the constants of EmitPipeline for TLC.                        *)
(***************************************************************************)
EXTENDS EmitPipeline, TLC

CONSTANTS e1, e2, e3, a1, a2

Accepted ==
  [floor |-> TRUE, tier |-> "L1+", evidence |-> "given", gate |-> "clear"]
Masked ==
  [floor |-> FALSE, tier |-> "none", evidence |-> "absent", gate |-> "clear"]
Unproved ==
  [floor |-> TRUE, tier |-> "L1+", evidence |-> "empty", gate |-> "clear"]
Held ==
  [floor |-> TRUE, tier |-> "none", evidence |-> "absent", gate |-> "pending"]

OneEvent == {Accepted}
SomeKinds == {Accepted, Masked}
AllKinds == {Accepted, Masked, Unproved, Held}

\* Emits and agents are interchangeable: no action or property tells them apart.
Symmetry == Permutations(Emits) \cup Permutations(Agents)
=============================================================================
