---------------------------- MODULE MCPeerTable ----------------------------
(***************************************************************************)
(* Instances of PeerTable for TLC: a boot node and two nodes that learn of *)
(* each other from it.                                                     *)
(***************************************************************************)
EXTENDS PeerTable, TLC

CONSTANTS boot, a, b, Main, Test

MCRank == (boot :> 2) @@ (a :> 1) @@ (b :> 3)
SameNetwork == [n \in Node |-> Main]
TwoNetworks == (boot :> Main) @@ (a :> Main) @@ (b :> Test)
MCBoot == [n \in Node |-> IF n = boot THEN {} ELSE {boot}]
=============================================================================
