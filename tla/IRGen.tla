------------------------------- MODULE IRGen -------------------------------
(***************************************************************************)
(* The lowering of a syntax tree to basic blocks: src/src/ir/ir_gen.cpp.   *)
(*                                                                         *)
(* The visitor's recursion is an explicit stack, work: an action pops the  *)
(* top task, does what the method does before its first recursive call and *)
(* pushes the rest of the method, in the code's order.  vals is the stack  *)
(* of the symbols the finished translateExpr calls returned.               *)
(*                                                                         *)
(* A tree node is a record with a kind, its operator and its children; an  *)
(* absent child (a null pointer in the tree) is None.  Constants keep only *)
(* what the lowering looks at: whether they are zero.                      *)
(***************************************************************************)
EXTENDS Integers, Sequences, FiniteSets

CONSTANTS
  Programs,  \* translation units: sequences of function bodies
  Trees      \* the nodes of their trees

VARIABLES
  program,   \* the unit being lowered
  funcs,     \* functions_: entryBB and exitBB of every function seen
  work,      \* the activation stack of the visitor
  vals,      \* results of the translateExpr calls not consumed yet
  blocks,    \* every BBlock created, in order of creation
  cur,       \* currentBB_
  temps,     \* the number of temporaries created
  crashed    \* a null Symbol* was dereferenced

vars == <<program, funcs, work, vals, blocks, cur, temps, crashed>>

None == [kind |-> "None"]
NoBlock == 0
NoName == 0

\* The four sorts of Symbol* the lowering tells apart.
Sym(kind, id) == [kind |-> kind, id |-> id]
Null == Sym("null", 0)
Const(v) == Sym("const", v)
Var(x) == Sym("var", x)
Temp(n) == Sym("temp", n)

\* insts: opcode, opds[0..2], branch target, and the tree node lowered here.
Inst(op, dst, src1, src2, to, of) ==
  [op |-> op, dst |-> dst, src1 |-> src1, src2 |-> src2, to |-> to, of |-> of]
NewBlock == [insts |-> << >>, succs |-> << >>, preds |-> << >>, next |-> NoBlock]

\* The tasks: calls still to be made, and what remains of a method.
Task(do, node) == [do |-> do, node |-> node]
Visit(s) == Task("visit", s)
Eval(e) == Task("eval", e)
Then(do, e) == Task(do, e)
Branch(e, y, n) == [do |-> "branch", node |-> e, yes |-> y, no |-> n]
Test(op, e, y, n) == [do |-> "test", op |-> op, node |-> e, yes |-> y, no |-> n]
TestValue(e, y, n) == [do |-> "testvalue", node |-> e, yes |-> y, no |-> n]
Start(bb) == [do |-> "start", bb |-> bb]
Jump(bb) == [do |-> "jump", bb |-> bb]
Move(dst, src) == [do |-> "move", dst |-> dst, src |-> src]
Result(v) == [do |-> "result", val |-> v]

\* What the parser and the checker leave behind them: a construct has its parts,
\* but for those the syntax makes optional.
WellFormed(nodes) ==
  LET optional == nodes \cup {None}
  IN \A n \in nodes :
       /\ n.kind \in {"Unary", "Binary", "Index", "Member"} => n.a \in nodes
       /\ n.kind \in {"Binary", "Index"} => n.b \in nodes
       /\ n.kind \in {"Index", "Member"} => "op" \in DOMAIN n
       /\ n.kind = "Call" => n.func \in nodes /\ n.args \in Seq(nodes)
       /\ n.kind \in {"ExprStmt", "Return", "InitDeclarator"} => n.a \in optional
       /\ n.kind \in {"If", "While", "Do"} => n.cond \in nodes
       /\ n.kind = "If" => n.then \in optional /\ n.else \in optional
       /\ n.kind \in {"While", "Do", "For", "Wrapped"} => n.body \in optional
       /\ n.kind = "For" => n.init \in optional /\ n.cond \in optional /\ n.incr \in optional
       /\ n.kind = "Compound" => n.decls \in Seq(nodes) /\ n.stmts \in Seq(nodes)

ASSUME TreesAssumption == WellFormed(Trees) /\ Programs \subseteq Seq(Trees)

Map(s, Op(_)) == [i \in 1..Len(s) |-> Op(s[i])]

Init ==
  /\ program \in Programs
  /\ funcs = << >>
  /\ work = << >>
  /\ vals = << >>
  /\ blocks = << >>
  /\ cur = NoBlock
  /\ temps = 0
  /\ crashed = FALSE

-----------------------------------------------------------------------------
Top == Head(work)
Doing(do) == work # << >> /\ Top.do = do
At(do, kind) == Doing(do) /\ Top.node.kind = kind
Do(tasks) == work' = tasks \o Tail(work)
Give(v) == vals' = <<v>> \o vals
Taking(n, more) == vals' = more \o SubSeq(vals, n + 1, Len(vals))

New(i) == Len(blocks) + i
Create(n) == blocks' = blocks \o [i \in 1..n |-> NewBlock]

WithInst(bs, bb, inst) == [bs EXCEPT ![bb].insts = Append(@, inst)]
WithEdge(bs, from, to) == [bs EXCEPT ![from].succs = <<to>> \o @,
                                     ![to].preds = <<from>> \o @]
Emit(inst) == blocks' = WithInst(blocks, cur, inst)
NewTemp == Temp(temps + 1)

LastOp(bb) == LET insts == blocks[bb].insts
              IN IF insts = << >> THEN "NOP" ELSE insts[Len(insts)].op

\* Dereferencing a null Symbol* ends the compilation.
Crash ==
  /\ crashed' = TRUE
  /\ work' = << >>
  /\ UNCHANGED <<program, funcs, vals, blocks, cur, temps>>

keepCode == UNCHANGED <<program, funcs, blocks, cur, temps, crashed>>
keepLayout == UNCHANGED <<program, funcs, cur, crashed>>

-----------------------------------------------------------------------------
(* startBBlock, genJump, genBranch, genMove, genReturn.                    *)

\* Mutant of StartBBlock: a block that returns is taken to fall through.
StartAfterReturn ==
  /\ Doing("start")
  /\ cur' = Top.bb
  /\ blocks' =
       IF cur = NoBlock THEN blocks
       ELSE LET linked == [blocks EXCEPT ![cur].next = Top.bb]
            IN IF LastOp(cur) \in {"JMP", "IJMP"} THEN linked
               ELSE WithEdge(linked, cur, Top.bb)
  /\ Do(<< >>)
  /\ UNCHANGED <<program, funcs, vals, temps, crashed>>

StartBBlock ==
  /\ Doing("start")
  /\ cur' = Top.bb
  /\ blocks' =
       IF cur = NoBlock THEN blocks
       ELSE LET linked == [blocks EXCEPT ![cur].next = Top.bb]
            IN IF LastOp(cur) \in {"JMP", "IJMP", "RET"} THEN linked
               ELSE WithEdge(linked, cur, Top.bb)
  /\ Do(<< >>)
  /\ UNCHANGED <<program, funcs, vals, temps, crashed>>

GenJump ==
  /\ Doing("jump")
  /\ blocks' = WithInst(WithEdge(blocks, cur, Top.bb), cur,
                        Inst("JMP", Null, Null, Null, Top.bb, None))
  /\ Do(<< >>)
  /\ UNCHANGED <<vals, temps>> /\ keepLayout

GenMove ==
  /\ Doing("move")
  /\ Emit(Inst("MOV", Top.dst, Top.src, Null, NoBlock, None))
  /\ Do(<< >>)
  /\ UNCHANGED <<vals, temps>> /\ keepLayout

\* A method hands its symbol back to its caller.
Return ==
  /\ Doing("result")
  /\ Give(Top.val)
  /\ Do(<< >>)
  /\ keepCode

GenBranch(op, to, src1, src2, of) ==
  blocks' = WithInst(WithEdge(blocks, cur, to), cur,
                     Inst(op, Null, src1, src2, to, of))

-----------------------------------------------------------------------------
(* Expressions: translatePrimaryExpr, translateUnary, translateBinary, ... *)

EvalConstant ==
  /\ At("eval", "Constant")
  /\ Give(Const(Top.node.value))
  /\ Do(<< >>)
  /\ keepCode

\* A name that was never declared becomes an extern variable on the spot.
EvalIdentifier ==
  /\ At("eval", "Identifier")
  /\ Give(Var(Top.node.id))
  /\ Do(<< >>)
  /\ keepCode

EvalString ==
  /\ At("eval", "String")
  /\ Emit(Inst("ADDR", NewTemp, Sym("string", 0), Null, NoBlock, None))
  /\ temps' = temps + 1
  /\ Give(NewTemp)
  /\ Do(<< >>)
  /\ keepLayout

UnaryOps == [OP_NEG |-> "NEG", OP_COMP |-> "BCOM", OP_ADDRESS |-> "ADDR",
             OP_DEREF |-> "DEREF"]
Incs == {"OP_PREINC", "OP_PREDEC", "OP_POSTINC", "OP_POSTDEC"}

\* OP_POS, OP_SIZEOF and the like hand the operand's symbol on.
EvalUnary ==
  /\ At("eval", "Unary")
  /\ Top.node.op # "OP_NOT"
  /\ Do(<<Eval(Top.node.a)>> \o
        (IF Top.node.op \in DOMAIN UnaryOps THEN <<Then("unary", Top.node)>>
         ELSE IF Top.node.op \in Incs THEN <<Then("increment", Top.node)>>
         ELSE << >>))
  /\ UNCHANGED vals /\ keepCode

\* simplify, addressOf and deref: always a new temporary.
ApplyUnary ==
  /\ Doing("unary")
  /\ IF vals[1] = Null THEN Crash
     ELSE /\ Emit(Inst(UnaryOps[Top.node.op], NewTemp, vals[1], Null, NoBlock, Top.node))
          /\ temps' = temps + 1
          /\ Taking(1, <<NewTemp>>)
          /\ Do(<< >>)
          /\ keepLayout

\* Every increment and decrement, prefix or postfix, is INC.
TranslateIncrement ==
  /\ Doing("increment")
  /\ IF vals[1] = Null THEN Crash
     ELSE /\ Emit(Inst("INC", NewTemp, vals[1], Null, NoBlock, Top.node))
          /\ temps' = temps + 1
          /\ Do(<<Move(vals[1], NewTemp)>>)
          /\ UNCHANGED vals /\ keepLayout

RelOps == {"OP_EQUAL", "OP_UNEQUAL", "OP_GREAT", "OP_LESS", "OP_GREAT_EQ", "OP_LESS_EQ"}
LogicOps == {"OP_AND", "OP_OR"}
ArithOps == [OP_ADD |-> "ADD", OP_SUB |-> "SUB", OP_MUL |-> "MUL", OP_DIV |-> "DIV",
             OP_MOD |-> "MOD", OP_LSHIFT |-> "LSH", OP_RSHIFT |-> "RSH",
             OP_BITOR |-> "BOR", OP_BITXOR |-> "BXOR", OP_BITAND |-> "BAND"]

IsTest(e) == \/ e.kind = "Binary" /\ e.op \in RelOps \cup LogicOps
             \/ e.kind = "Unary" /\ e.op = "OP_NOT"

EvalBinary ==
  /\ At("eval", "Binary")
  /\ ~IsTest(Top.node)
  /\ Do(<<Eval(Top.node.a), Eval(Top.node.b), Then("binary", Top.node)>>)
  /\ UNCHANGED vals /\ keepCode

\* Not an arithmetic operator (OP_ASSIGN, OP_COMMA, OP_NONE): the left symbol.
ApplyBinary ==
  /\ Doing("binary")
  /\ IF Top.node.op \notin DOMAIN ArithOps
     THEN Taking(2, <<vals[2]>>) /\ Do(<< >>) /\ keepCode
     ELSE IF vals[2] = Null THEN Crash
     ELSE /\ Emit(Inst(ArithOps[Top.node.op], NewTemp, vals[2], vals[1], NoBlock, Top.node))
          /\ temps' = temps + 1
          /\ Taking(2, <<NewTemp>>)
          /\ Do(<< >>)
          /\ keepLayout

\* translateBranchExpr: a condition used for its value.
EvalTest ==
  /\ Doing("eval") /\ IsTest(Top.node)
  /\ LET nextBB == New(1)  trueBB == New(2)  falseBB == New(3)
     IN Do(<<Branch(Top.node, trueBB, falseBB),
             Start(falseBB), Move(NewTemp, Const(0)), Jump(nextBB),
             Start(trueBB), Move(NewTemp, Const(1)),
             Start(nextBB), Result(NewTemp)>>)
  /\ Create(3)
  /\ temps' = temps + 1
  /\ UNCHANGED vals /\ keepLayout

EvalCall ==
  /\ At("eval", "Call")
  /\ Do(<<Eval(Top.node.func)>> \o Map(Top.node.args, Eval) \o <<Then("call", Top.node)>>)
  /\ UNCHANGED vals /\ keepCode

\* Mutant of TranslateCall: a null argument is passed on as it is.
TranslateCallNull ==
  /\ Doing("call")
  /\ LET n == Len(Top.node.args)
         args == [i \in 1..n |-> vals[n + 1 - i]]
     IN IF vals[n + 1] = Null THEN Crash
        ELSE /\ Emit(Inst("CALL", Null, vals[n + 1], args, NoBlock, Top.node))
             /\ Taking(n + 1, <<Null>>)
             /\ Do(<< >>)
             /\ UNCHANGED temps /\ keepLayout

\* A null argument becomes the constant 0.  The checker leaves CallExpr::ty
\* null, so a call has no result symbol.
TranslateCall ==
  /\ Doing("call")
  /\ LET n == Len(Top.node.args)
         args == [i \in 1..n |-> LET v == vals[n + 1 - i] IN IF v = Null THEN Const(0) ELSE v]
     IN IF vals[n + 1] = Null THEN Crash
        ELSE /\ Emit(Inst("CALL", Null, vals[n + 1], args, NoBlock, Top.node))
             /\ Taking(n + 1, <<Null>>)
             /\ Do(<< >>)
             /\ UNCHANGED temps /\ keepLayout

EvalIndex ==
  /\ At("eval", "Index")
  /\ Do(<<Eval(Top.node.a), Eval(Top.node.b),
          Then("binary", [Top.node EXCEPT !.op = "OP_ADD"]),
          Then("unary", [Top.node EXCEPT !.op = "OP_DEREF"])>>)
  /\ UNCHANGED vals /\ keepCode

EvalMember ==
  /\ At("eval", "Member")
  /\ Do(<<Eval(Top.node.a)>> \o
        (IF Top.node.op = "OP_PTR_MEMBER" THEN <<Then("unary", [Top.node EXCEPT !.op = "OP_DEREF"])>>
         ELSE << >>))
  /\ UNCHANGED vals /\ keepCode

-----------------------------------------------------------------------------
(* Conditions: the cases of translateBranch.                               *)

BranchLogic ==
  /\ At("branch", "Binary") /\ Top.node.op \in LogicOps
  /\ LET rtestBB == New(1)
         left == IF Top.node.op = "OP_AND" THEN Branch(Top.node.a, rtestBB, Top.no)
                                           ELSE Branch(Top.node.a, Top.yes, rtestBB)
     IN Do(<<left, Start(rtestBB), Branch(Top.node.b, Top.yes, Top.no)>>)
  /\ Create(1)
  /\ UNCHANGED <<vals, temps>> /\ keepLayout

BranchRelation ==
  /\ At("branch", "Binary") /\ Top.node.op \in RelOps
  /\ Do(<<Eval(Top.node.a), Eval(Top.node.b), Test("JCC", Top.node, Top.yes, Top.no)>>)
  /\ UNCHANGED vals /\ keepCode

\* Mutant of BranchNot: the targets are not exchanged.
BranchNotUnswapped ==
  /\ At("branch", "Unary") /\ Top.node.op = "OP_NOT"
  /\ Do(<<Eval(Top.node.a), Test("JNZ", Top.node.a, Top.yes, Top.no)>>)
  /\ UNCHANGED vals /\ keepCode

BranchNot ==
  /\ At("branch", "Unary") /\ Top.node.op = "OP_NOT"
  /\ Do(<<Eval(Top.node.a), Test("JNZ", Top.node.a, Top.no, Top.yes)>>)
  /\ UNCHANGED vals /\ keepCode

BranchConstant ==
  /\ At("branch", "Constant")
  /\ Do(<<Jump(IF Top.node.value # 0 THEN Top.yes ELSE Top.no)>>)
  /\ UNCHANGED vals /\ keepCode

BranchValue ==
  /\ Doing("branch") /\ Top.node.kind # "Constant" /\ ~IsTest(Top.node)
  /\ Do(<<Eval(Top.node), TestValue(Top.node, Top.yes, Top.no)>>)
  /\ UNCHANGED vals /\ keepCode

\* The end of the relational and OP_NOT cases: JE..JLE on two symbols, JNZ on one.
GenTest ==
  /\ Doing("test")
  /\ LET two  == Top.op = "JCC"
         n    == IF two THEN 2 ELSE 1
     IN IF vals[n] = Null THEN Crash
        ELSE /\ GenBranch(Top.op, Top.yes, vals[n], IF two THEN vals[1] ELSE Null, Top.node)
             /\ Taking(n, << >>)
             /\ Do(<<Jump(Top.no)>>)
             /\ UNCHANGED temps /\ keepLayout

GenTestValue ==
  /\ Doing("testvalue")
  /\ CASE vals[1].kind = "const" ->
            /\ Taking(1, << >>)
            /\ Do(<<Jump(IF vals[1].id # 0 THEN Top.yes ELSE Top.no)>>)
            /\ keepCode
       [] vals[1] = Null -> Crash
       [] OTHER ->
            /\ GenBranch("JNZ", Top.yes, vals[1], Null, Top.node)
            /\ Taking(1, << >>)
            /\ Do(<<Jump(Top.no)>>)
            /\ UNCHANGED temps /\ keepLayout

-----------------------------------------------------------------------------
(* Statements.                                                             *)

\* A translateExpr whose result the statement ignores.
Effect(e) == IF e = None THEN << >> ELSE <<Eval(e), Then("drop", None)>>
Body(s) == IF s = None THEN << >> ELSE <<Visit(s)>>

Drop ==
  /\ Doing("drop")
  /\ Taking(1, << >>)
  /\ Do(<< >>)
  /\ keepCode

VisitExprStmt ==
  /\ At("visit", "ExprStmt")
  /\ Do(Effect(Top.node.a))
  /\ UNCHANGED vals /\ keepCode

VisitReturn ==
  /\ At("visit", "Return")
  /\ Do(<<IF Top.node.a = None THEN Result(Const(0)) ELSE Eval(Top.node.a),
          Then("return", Top.node)>>)
  /\ UNCHANGED vals /\ keepCode

GenReturn ==
  /\ Doing("return")
  /\ IF vals[1] = Null THEN Crash
     ELSE /\ Emit(Inst("RET", Null, vals[1], Null, NoBlock, None))
          /\ Taking(1, << >>)
          /\ Do(<< >>)
          /\ UNCHANGED temps /\ keepLayout

VisitIf ==
  /\ At("visit", "If")
  /\ LET trueBB == New(1)  falseBB == New(2)  nextBB == New(3)
     IN Do(<<Branch(Top.node.cond, trueBB, falseBB), Start(trueBB)>>
           \o Body(Top.node.then) \o <<Jump(nextBB), Start(falseBB)>>
           \o Body(Top.node.else) \o <<Start(nextBB)>>)
  /\ Create(3)
  /\ UNCHANGED <<vals, temps>> /\ keepLayout

\* Mutant of VisitWhile: the body jumps back to itself, past the test.
VisitWhileUntested ==
  /\ At("visit", "While")
  /\ LET loopBB == New(1)  bodyBB == New(2)  nextBB == New(3)
     IN Do(<<Jump(loopBB), Start(loopBB), Branch(Top.node.cond, bodyBB, nextBB), Start(bodyBB)>>
           \o Body(Top.node.body) \o <<Jump(bodyBB), Start(nextBB)>>)
  /\ Create(3)
  /\ UNCHANGED <<vals, temps>> /\ keepLayout

VisitWhile ==
  /\ At("visit", "While")
  /\ LET loopBB == New(1)  bodyBB == New(2)  nextBB == New(3)
     IN Do(<<Jump(loopBB), Start(loopBB), Branch(Top.node.cond, bodyBB, nextBB), Start(bodyBB)>>
           \o Body(Top.node.body) \o <<Jump(loopBB), Start(nextBB)>>)
  /\ Create(3)
  /\ UNCHANGED <<vals, temps>> /\ keepLayout

\* Mutant of VisitDo: the body's block is started again for the test.
VisitDoTwice ==
  /\ At("visit", "Do")
  /\ LET bodyBB == New(1)  loopBB == New(2)  nextBB == New(3)
     IN Do(<<Jump(bodyBB), Start(bodyBB)>> \o Body(Top.node.body)
           \o <<Jump(loopBB), Start(bodyBB), Branch(Top.node.cond, bodyBB, nextBB), Start(nextBB)>>)
  /\ Create(3)
  /\ UNCHANGED <<vals, temps>> /\ keepLayout

VisitDo ==
  /\ At("visit", "Do")
  /\ LET bodyBB == New(1)  loopBB == New(2)  nextBB == New(3)
     IN Do(<<Jump(bodyBB), Start(bodyBB)>> \o Body(Top.node.body)
           \o <<Jump(loopBB), Start(loopBB), Branch(Top.node.cond, bodyBB, nextBB), Start(nextBB)>>)
  /\ Create(3)
  /\ UNCHANGED <<vals, temps>> /\ keepLayout

\* The initialiser is translated before the blocks are created.
VisitFor ==
  /\ At("visit", "For")
  /\ Do(Effect(Top.node.init) \o <<Then("for", Top.node)>>)
  /\ UNCHANGED vals /\ keepCode

ForLoop ==
  /\ Doing("for")
  /\ LET testBB == New(1)  bodyBB == New(2)  incrBB == New(3)  nextBB == New(4)
     IN Do(<<Jump(testBB), Start(testBB),
             IF Top.node.cond = None THEN Jump(bodyBB) ELSE Branch(Top.node.cond, bodyBB, nextBB),
             Start(bodyBB)>> \o Body(Top.node.body)
           \o <<Start(incrBB)>> \o Effect(Top.node.incr)
           \o <<Jump(testBB), Start(nextBB)>>)
  /\ Create(4)
  /\ UNCHANGED <<vals, temps>> /\ keepLayout

VisitCompound ==
  /\ At("visit", "Compound")
  /\ Do(Map(Top.node.decls, Visit) \o Map(Top.node.stmts, Visit))
  /\ UNCHANGED vals /\ keepCode

\* A declarator without a name declares nothing and is not initialised.
VisitInitDeclarator ==
  /\ At("visit", "InitDeclarator")
  /\ Do(IF Top.node.a = None \/ Top.node.id = NoName THEN << >> ELSE <<Eval(Top.node.a), Then("init", Top.node)>>)
  /\ UNCHANGED vals /\ keepCode

\* A null value leaves the variable without its initialiser.
InitVariable ==
  /\ Doing("init")
  /\ Do(IF vals[1] = Null THEN << >> ELSE <<Move(Var(Top.node.id), vals[1])>>)
  /\ Taking(1, << >>)
  /\ keepCode

\* Label, case, default and switch are their inner statement.
VisitWrapped ==
  /\ At("visit", "Wrapped")
  /\ Do(Body(Top.node.body))
  /\ UNCHANGED vals /\ keepCode

\* goto, break and continue generate nothing.
VisitStub ==
  /\ At("visit", "Stub")
  /\ Do(<< >>)
  /\ UNCHANGED vals /\ keepCode

-----------------------------------------------------------------------------
(* Functions and the translation unit.                                     *)

VisitFunction ==
  /\ work = << >> /\ ~crashed
  /\ Len(funcs) < Len(program)
  /\ LET entryBB == New(1)  exitBB == New(2)
         body == program[Len(funcs) + 1]
     IN /\ funcs' = Append(funcs, [entry |-> entryBB, exit |-> exitBB])
        /\ work' = <<Start(entryBB), Visit(body), Then("finish", None)>>
  /\ Create(2)
  /\ cur' = NoBlock
  /\ UNCHANGED <<program, vals, temps, crashed>>

\* "If body doesn't end with return, add one (reuse exitBB)".
FinishFunction ==
  /\ Doing("finish")
  /\ Do(IF LastOp(cur) \in {"RET", "JMP"} THEN << >>
        ELSE <<Start(funcs[Len(funcs)].exit), Result(Const(0)), Then("return", None)>>)
  /\ UNCHANGED vals /\ keepCode

Generated == work = << >> /\ ~crashed /\ Len(funcs) = Len(program)
Done == crashed \/ Generated

Expression ==
  \/ EvalConstant \/ EvalIdentifier \/ EvalString \/ EvalUnary \/ ApplyUnary
  \/ TranslateIncrement \/ EvalBinary \/ ApplyBinary \/ EvalTest \/ EvalCall
  \/ TranslateCall \/ EvalIndex \/ EvalMember
Condition ==
  \/ BranchLogic \/ BranchRelation \/ BranchNot \/ BranchConstant \/ BranchValue
  \/ GenTest \/ GenTestValue
Statement ==
  \/ VisitExprStmt \/ Drop \/ VisitReturn \/ GenReturn \/ VisitIf \/ VisitWhile
  \/ VisitDo \/ VisitFor \/ ForLoop \/ VisitCompound \/ VisitInitDeclarator
  \/ InitVariable \/ VisitWrapped \/ VisitStub
Code == StartBBlock \/ GenJump \/ GenMove \/ Return

Generate == VisitFunction \/ FinishFunction \/ Statement \/ Condition \/ Expression \/ Code
Stop == Done /\ UNCHANGED vars
Next == Generate \/ Stop

Spec == Init /\ [][Next]_vars

-----------------------------------------------------------------------------
(* Properties.                                                             *)

BlockIds == 1..Len(blocks)
Entries == {funcs[f].entry : f \in DOMAIN funcs}
Follow == {blocks[b].next : b \in BlockIds} \ {NoBlock}
Placed == Entries \cup Follow

\* No block is started twice: it follows at most one block, and an entry block
\* follows none.  So the emitter's walk along next ends.
PlacedOnce ==
  /\ Entries \cap Follow = {}
  /\ \A b, c \in BlockIds : blocks[b].next = blocks[c].next /\ blocks[b].next # NoBlock => b = c

Targets(b) == {i \in DOMAIN blocks[b].insts : blocks[b].insts[i].to # NoBlock}

\* Every block that is jumped to is placed: the emitter defines the labels it uses.
TargetsPlaced ==
  UNION {{blocks[b].insts[i].to : i \in Targets(b)} : b \in BlockIds} \subseteq Placed

\* Control never runs off the end: the last block ends in a return, the body's
\* own or the one FinishFunction adds.
EndsInReturn == \A b \in Placed : blocks[b].next = NoBlock => LastOp(b) = "RET"

\* However statements nest, the blocks of a unit are laid out each once, with
\* every target of a jump among them, and the code of a function ends in a return.
LaidOutOnce == PlacedOnce /\ (Generated => TargetsPlaced /\ EndsInReturn)

Members(s) == {s[i] : i \in DOMAIN s}
Count(s, x) == Cardinality({i \in DOMAIN s : s[i] = x})
Jumps(b, c) == Cardinality({i \in Targets(b) : blocks[b].insts[i].to = c})
Falls(b) == blocks[b].next # NoBlock /\ LastOp(b) \notin {"JMP", "RET"}

\* At every moment the edges are exactly the ways control can leave a block:
\* one per branch or jump, one for falling into the next block, and the
\* predecessor lists (which decide what gets a label) mirror them.
EdgesExact ==
  \A b \in BlockIds :
    /\ Len(blocks[b].succs) = Cardinality(Targets(b)) + (IF Falls(b) THEN 1 ELSE 0)
    /\ \A c \in Members(blocks[b].succs) :
         /\ Count(blocks[b].succs, c) =
              Jumps(b, c) + (IF Falls(b) /\ c = blocks[b].next THEN 1 ELSE 0)
         /\ Count(blocks[c].preds, b) = Count(blocks[b].succs, c)
    /\ \A a \in Members(blocks[b].preds) : b \in Members(blocks[a].succs)
=============================================================================
