------------------------------ MODULE MCDriver ------------------------------
(* Two files, three texts of which two share a bucket, four blocks. *)
EXTENDS Driver, TLC

CONSTANTS p, f, b1, b2, b3, b4, x, y, z

MCArenas == {p, f}
ProgramOnly == {p}
FileOnly == {f}
None == {}
MCBlocks == {b1, b2, b3, b4}
MCSizes == {1, 2}
MCTexts == {x, y, z}
MCHash == [t \in MCTexts |-> IF t = z THEN 1 ELSE 0]

BlockSymmetry == Permutations(MCBlocks)
=============================================================================
