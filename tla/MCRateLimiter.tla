--------------------------- MODULE MCRateLimiter ---------------------------
(***************************************************************************)
(* An instance of RateLimiter for TLC: a type with a limit and one without *)
(***************************************************************************)
EXTENDS RateLimiter

MCTypes == {"NewTx", "Ping"}
MCLimit == [y \in MCTypes |-> IF y = "NewTx" THEN 1 ELSE 0]
=============================================================================
