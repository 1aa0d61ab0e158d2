------------------------------ MODULE MCX86Run ------------------------------
(* Small instances of X86Run. *)
EXTENDS X86Run, MCTrees

MCPrograms == Emittable \cup AllPrograms

\* The shape of factorial in func_recursion.c:3-7: a return inside an if.
EarlyReturn ==
  {<<Blk(<< >>, <<If(Less(X(1), C(1)), Ret(C(1)), NoNode), Ret(Bin("OP_MUL", X(1), X(1)))>>)>>}
MCTreeNodes == NodesOf(MCPrograms)
EarlyTrees == NodesOf(EarlyReturn)
=============================================================================
