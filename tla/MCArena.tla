------------------------------ MODULE MCArena ------------------------------
(* Small instances of Arena: two arenas sharing the free list. *)
EXTENDS Arena, TLC

CONSTANTS p, f, b1, b2, b3

MCArenas == {p, f}
MCBlocks == {b1, b2, b3}
None == {}
MCSizes == {1, 2}

\* Which block malloc returns, and which arena is which, does not matter.
Symmetry == Permutations(MCBlocks) \cup Permutations(MCArenas)
=============================================================================
