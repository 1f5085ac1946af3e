---------------------------- MODULE MCBlockSync ----------------------------
(***************************************************************************)
(* Instances of BlockSync for TLC: a node that starts behind a producer,   *)
(* over a connection that may break.  Both may commit blocks, so that the  *)
(* engine and the block handler of the late node race for its chain.       *)
(***************************************************************************)
EXTENDS BlockSync, TLC

CONSTANTS late, prod

OneLink == {{late, prod}}
Behind == (late :> 0) @@ (prod :> 2)
=============================================================================
