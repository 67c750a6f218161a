-------------------------------- MODULE MCAnchor --------------------------------
(***************************************************************************)
(* Values of the constants of AnchorPublisher for TLC.                     *)
(***************************************************************************)
EXTENDS AnchorPublisher, TLC

CONSTANTS a1, a2, r1, r2, d1, d2
=============================================================================
