--------------------------- MODULE MCArenaLifetime --------------------------
(* Small instances of ArenaLifetime. *)
EXTENDS ArenaLifetime, TLC

CONSTANTS p, f, b1, b2, b3

MCArenas == {p, f}
ProgramOnly == {p}
FileOnly == {f}
None == {}
MCBlocks == {b1, b2, b3}
MCSizes == {1, 2}
OneSize == {1}

BlockSymmetry == Permutations(MCBlocks)
=============================================================================
