----------------------------- MODULE ChainCopy -----------------------------
(***************************************************************************)
(* What block synchronisation promises: every node holds a prefix of one   *)
(* chain, which grows block by block.  A node without the right to produce *)
(* blocks only ever adds the next block, and only one another node has.    *)
(***************************************************************************)
EXTENDS Naturals

CONSTANTS
  Node,
  Producer     \* the nodes that commit new blocks

VARIABLES
  height       \* height[n]: the latest block of n

Grow(n) ==
  /\ n \in Producer \/ \E m \in Node : height[m] > height[n]
  /\ height' = [height EXCEPT ![n] = @ + 1]

Init == height \in [Node -> Nat]

Next == \E n \in Node : Grow(n)

Spec == Init /\ [][Next]_height
=============================================================================
