------------------------------ MODULE MCWsHub ------------------------------
(***************************************************************************)
(* An instance of WsHub for TLC: one client.  Clients share nothing but    *)
(* Run, which serves them in one step; its channel is just large enough    *)
(* for a greeting and the events broadcast meanwhile, so that it fills up. *)
(***************************************************************************)
EXTENDS WsHub

CONSTANTS p
=============================================================================
