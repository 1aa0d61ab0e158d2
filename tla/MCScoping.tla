------------------------------ MODULE MCScoping ------------------------------
(* A small instance of Scoping. *)
EXTENDS Scoping, TLC

CONSTANTS x, y

MCNames == {x, y}
\* The worst case for the chains: every name in the same bucket.
MCBuckets == {0}
MCHash == [n \in MCNames |-> 0]

NameSymmetry == Permutations(MCNames)
=============================================================================
