------------------------------ MODULE MCIRRun ------------------------------
EXTENDS IRRun, MCTrees

\* The loop of control_while.c:5-8; i = i + 1 is parsed as (i = i) + 1.
AssignPrograms ==
  {<<Blk(<<Decl(1, C(0))>>,
         <<While(Less(X(1), C(1)),
                 Blk(<< >>, <<Printf(7),
                              ExprS(Bin("OP_ADD", Bin("OP_ASSIGN", X(1), X(1)), C(1)))>>)),
           Ret(C(0))>>)>>}
AllTrees == NodesOf(AllPrograms)
AssignTrees == NodesOf(AssignPrograms)
=============================================================================
