--------------------------- MODULE X86EmitProofs ---------------------------
(***************************************************************************)
(* A theorem about X86Emit, for every set of programs: no label is printed *)
(* twice, and every label a jump uses is printed.                          *)
(*                                                                         *)
(* The argument: the emitter walks from each function's entry along next.  *)
(* Entries are distinct and follow nothing, and no two blocks have the     *)
(* same next, so the walks never meet; and since the code was laid out by  *)
(* the same links, together they visit every block that is placed.  The    *)
(* target of a jump is one of these, and has a predecessor.                *)
(***************************************************************************)
EXTENDS X86Emit, IRGenProofs

-----------------------------------------------------------------------------
(* What else the generator leaves: the entries of the functions differ, a  *)
(* jump names its target and a call has a list of arguments, and every     *)
(* block that is placed can be reached from an entry.                      *)

JumpOps == {"JMP", "JCC", "JNZ"}
InstOK(x) ==
  /\ x.op \in JumpOps => x.to # NoBlock
  /\ x.op = "CALL" => Len(x.src2) \in Nat
Named(insts) == \A i \in DOMAIN insts : InstOK(insts[i])
AllNamed(bs) == \A b \in 1..Len(bs) : Named(bs[b].insts)

\* A set with the blocks E that is closed under next has all that follow.
ClosedIn(bs, S) == \A b \in S \cap (1..Len(bs)) : bs[b].next # NoBlock => bs[b].next \in S
Chained(bs, E) == \A S : E \subseteq S /\ ClosedIn(bs, S) => FollowIn(bs) \subseteq S

WalkInv ==
  /\ \A f, g \in DOMAIN funcs : funcs[f].entry = funcs[g].entry => f = g
  /\ AllNamed(blocks)
  /\ Chained(blocks, Entries)

SameNext(bs, cs) ==
  /\ Len(bs) \in Nat /\ Len(cs) \in Nat /\ Len(bs) <= Len(cs)
  /\ \A b \in 1..Len(bs) : cs[b].next = bs[b].next
  /\ \A b \in Len(bs) + 1..Len(cs) : cs[b].next = NoBlock

LEMMA ChainedStays ==
  ASSUME NEW bs, NEW cs, NEW E, NEW F, SameNext(bs, cs), Chained(bs, E), E \subseteq F
  PROVE  Chained(cs, F)
<1> SUFFICES ASSUME NEW S, F \subseteq S, ClosedIn(cs, S)
             PROVE  FollowIn(cs) \subseteq S
  BY DEF Chained
<1>1. \A b \in 1..Len(bs) : b \in 1..Len(cs) /\ cs[b].next = bs[b].next
  BY DEF SameNext
<1>2. ClosedIn(bs, S)
  BY <1>1 DEF ClosedIn
<1>3. FollowIn(bs) \subseteq S
  BY <1>2 DEF Chained
<1>4. \A b \in 1..Len(cs) : b \in 1..Len(bs) \/ cs[b].next = NoBlock
  BY DEF SameNext
<1>5. FollowIn(cs) \subseteq FollowIn(bs)
  BY <1>1, <1>4 DEF FollowIn
<1>6. QED
  BY <1>3, <1>5

LEMMA NamedAppend ==
  ASSUME NEW insts, IsSeq(insts), Named(insts), NEW x, InstOK(x)
  PROVE  Named(Append(insts, x))
<1> DEFINE more == Append(insts, x)
<1>1. /\ DOMAIN insts = 1..Len(insts) /\ DOMAIN more = 1..Len(insts) + 1 /\ Len(insts) \in Nat
      /\ \A i \in 1..Len(insts) : more[i] = insts[i]
      /\ more[Len(insts) + 1] = x
  BY AppendIs, SeqIs
<1> HIDE DEF more
<1>2. Named(more)
  BY <1>1 DEF Named
<1>3. QED
  BY <1>2 DEF more

\* The walk changes only where a block is started.
LEMMA SameWalk ==
  ASSUME WalkInv, SameNext(blocks, blocks'), AllNamed(blocks'), funcs' = funcs
  PROVE  WalkInv'
<1>1. Entries' = Entries
  BY DEF Entries
<1>2. Chained(blocks', Entries')
  BY <1>1, ChainedStays DEF WalkInv
<1>3. QED
  BY <1>2 DEF WalkInv

LEMMA InstWalk ==
  ASSUME WalkInv, NEW bs, Blocks(bs), NEW b \in 1..Len(bs), NEW x,
         Len(bs) = Len(blocks), Len(blocks) \in Nat,
         \A a \in 1..Len(bs) : bs[a].insts = blocks[a].insts /\ bs[a].next = blocks[a].next,
         blocks' = WithInst(bs, b, x), InstOK(x), funcs' = funcs
  PROVE  WalkInv'
<1>1. /\ Len(blocks') = Len(bs) /\ blocks'[b].insts = Append(bs[b].insts, x)
      /\ \A a \in 1..Len(bs) : /\ a # b => blocks'[a].insts = bs[a].insts
                               /\ blocks'[a].next = bs[a].next
  BY WithInstIs
<1>2. SameNext(blocks, blocks')
  BY <1>1 DEF SameNext
<1>3. IsSeq(bs[b].insts) /\ Named(bs[b].insts)
  BY BlockIs DEF WalkInv, AllNamed
<1>4. Named(blocks'[b].insts)
  BY <1>1, <1>3, NamedAppend
<1>5. AllNamed(blocks')
  BY <1>1, <1>4 DEF WalkInv, AllNamed
<1>6. QED
  BY <1>2, <1>5, SameWalk

LEMMA EmitWalk ==
  ASSUME IInv, WalkInv, work # << >>, Top.do # "start", keepLayout,
         NEW x, Emit(x), InstOK(x)
  PROVE  WalkInv'
<1>1. Lowering /\ cur \in BlockIds /\ Blocks(blocks)
  BY TopNodeIs, TopIs
<1>2. Len(blocks) \in Nat
  BY <1>1, SeqIs DEF Blocks
<1>3. QED
  BY <1>1, <1>2, InstWalk DEF Emit, BlockIds, keepLayout

LEMMA BranchWalk ==
  ASSUME IInv, WalkInv, work # << >>, Top.do # "start", keepLayout, NEW b \in Goals(Top), NEW x,
         blocks' = WithInst(WithEdge(blocks, cur, b), cur, x), x.to = b, x.op \in JumpOps
  PROVE  WalkInv'
<1>1. /\ Lowering /\ cur \in 1..Len(blocks) /\ Blocks(blocks) /\ Len(blocks) \in Nat
      /\ b \in 1..Len(blocks) /\ b # NoBlock
  <2>1. /\ Lowering /\ cur \in BlockIds /\ Blocks(blocks)
        /\ Goals(Top) \subseteq BlockIds
    BY TopNodeIs, TopIs
  <2>2. Len(blocks) \in Nat
    BY <2>1, SeqIs DEF Blocks
  <2>3. QED
    BY <2>1, <2>2 DEF BlockIds, NoBlock
<1> DEFINE es == WithEdge(blocks, cur, b)
<1>2. EdgeAdded(blocks, es, cur, b)
  BY <1>1, WithEdgeIs
<1>3. /\ Blocks(es) /\ Len(es) = Len(blocks)
      /\ \A a \in 1..Len(es) : es[a].insts = blocks[a].insts /\ es[a].next = blocks[a].next
  <2> HIDE DEF es
  <2>1. QED
    BY <1>2 DEF EdgeAdded
<1> HIDE DEF es
<1>4. cur \in 1..Len(es) /\ blocks' = WithInst(es, cur, x)
  BY <1>1, <1>3 DEF es
<1>5. InstOK(x)
  BY <1>1 DEF InstOK, JumpOps
<1>6. QED
  BY <1>1, <1>3, <1>4, <1>5, InstWalk DEF keepLayout

LEMMA CreatedNext ==
  ASSUME NEW bs, Blocks(bs), AllNamed(bs), NEW n \in Nat, NEW cs, cs = Created(bs, n)
  PROVE  SameNext(bs, cs) /\ AllNamed(cs)
<1>1. /\ Len(cs) = Len(bs) + n /\ Len(bs) \in Nat
      /\ \A a \in 1..Len(bs) : cs[a] = bs[a]
      /\ \A a \in Len(bs) + 1..Len(bs) + n : cs[a] = NewBlock
  BY CreateIs
<1>2. NewBlock.next = NoBlock /\ NewBlock.insts = << >>
  BY DEF NewBlock
<1>3. Named(<< >>)
  BY DEF Named
<1>4. SameNext(bs, cs)
  BY <1>1, <1>2 DEF SameNext
<1>5. \A a \in 1..Len(cs) : a \in 1..Len(bs) \/ a \in Len(bs) + 1..Len(bs) + n
  BY <1>1
<1>6. AllNamed(cs)
  BY <1>1, <1>2, <1>3, <1>5 DEF AllNamed
<1>7. QED
  BY <1>4, <1>6

LEMMA CreateWalk ==
  ASSUME IInv, WalkInv, NEW n \in Nat, Create(n), funcs' = funcs
  PROVE  WalkInv'
<1>1. blocks' = Created(blocks, n)
  BY DEF Create, Created
<1>2. Blocks(blocks) /\ AllNamed(blocks)
  BY DEF IInv, LayoutInv, Edges, WalkInv
<1>3. QED
  BY <1>1, <1>2, CreatedNext, SameWalk

LEMMA IdleWalk ==
  ASSUME WalkInv, UNCHANGED <<blocks, funcs>>
  PROVE  WalkInv'
<1>1. Entries' = Entries
  BY DEF Entries
<1>2. QED
  BY <1>1 DEF WalkInv

-----------------------------------------------------------------------------
(* The same, step by step.                                                 *)

LEMMA CrashWalk ==
  ASSUME WalkInv, Crash
  PROVE  WalkInv'
BY IdleWalk DEF Crash

LEMMA StartWalk ==
  ASSUME IInv, WalkInv, StartBBlock
  PROVE  WalkInv'
<1> DEFINE b == Top.bb
           ls == WithNext(blocks, cur, b)
<1>1. /\ work # << >> /\ Top.do = "start" /\ funcs' = funcs
      /\ blocks' = IF cur = NoBlock THEN blocks
                   ELSE IF LastOp(cur) \in {"JMP", "IJMP", "RET"} THEN ls
                   ELSE WithEdge(ls, cur, b)
  BY DEF StartBBlock, Doing, WithNext
<1>2. /\ Placed \subseteq BlockIds /\ Len(blocks) \in Nat /\ Blocks(blocks)
      /\ Entries \subseteq BlockIds
  BY PlacedIs DEF IInv, LayoutInv, Edges
<1>3. CASE Launching
  BY <1>1, <1>3, IdleWalk DEF Launching
<1>4. CASE Lowering
  <2>1. /\ cur \in Placed /\ blocks[cur].next = NoBlock /\ cur \in 1..Len(blocks) /\ cur # NoBlock
        /\ Runs(blocks, Placed, cur, work, Exit)
    BY <1>2, <1>4 DEF Lowering, Runs, BlockIds, NoBlock
  <2>2. b \in 1..Len(blocks) /\ b \in Nat
    <3>1. /\ \A a \in Starts(work) : Fresh(blocks, Placed, a)
          /\ \E A, last : Fits(work, Starts(work), A, last)
      BY <2>1 DEF Runs
    <3>2. b \in Starts(work)
      BY <1>1, <3>1, FitsTail DEF Top
    <3>3. QED
      BY <1>2, <3>1, <3>2 DEF Fresh
  <2>3. /\ Blocks(ls) /\ Len(ls) = Len(blocks) /\ ls[cur].next = b
        /\ \A a \in 1..Len(blocks) : ls[a].insts = blocks[a].insts /\ (a # cur => ls[a].next = blocks[a].next)
    BY <1>2, <2>1, <2>2, WithNextIs
  <2> HIDE DEF ls
  <2>4. EdgeAdded(ls, WithEdge(ls, cur, b), cur, b)
    BY <2>1, <2>2, <2>3, WithEdgeIs
  <2>5. blocks' = ls \/ blocks' = WithEdge(ls, cur, b)
    BY <1>1, <2>1
  <2>6. /\ Len(blocks') = Len(blocks) /\ blocks'[cur].next = b
        /\ \A a \in 1..Len(blocks) : /\ blocks'[a].insts = blocks[a].insts
                                     /\ a # cur => blocks'[a].next = blocks[a].next
    BY <2>1, <2>3, <2>4, <2>5 DEF EdgeAdded
  <2> HIDE DEF b
  <2>7. AllNamed(blocks')
    BY <2>6 DEF WalkInv, AllNamed
  <2>8. Entries' = Entries
    BY <1>1 DEF Entries
  <2>9. ASSUME NEW S, Entries \subseteq S, ClosedIn(blocks', S)
        PROVE  FollowIn(blocks') \subseteq S
    <3>1. \A a \in S \cap (1..Len(blocks)) : blocks'[a].next # NoBlock => blocks'[a].next \in S
      BY <2>6, <2>9 DEF ClosedIn
    <3>2. ClosedIn(blocks, S)
      BY <2>1, <2>6, <3>1 DEF ClosedIn
    <3>3. FollowIn(blocks) \subseteq S
      BY <2>9, <3>2 DEF WalkInv, Chained
    <3>4. cur \in S
      BY <2>1, <2>9, <3>3 DEF Placed, Follow, FollowIn, BlockIds
    <3>5. b \in S \/ b = NoBlock
      BY <2>1, <2>6, <3>1, <3>4
    <3>6. \A a \in 1..Len(blocks) : blocks'[a].next \in S \/ blocks'[a].next = NoBlock
      BY <2>6, <3>3, <3>5 DEF FollowIn
    <3>7. QED
      BY <2>6, <3>6 DEF FollowIn
  <2>10. Chained(blocks', Entries')
    BY <2>8, <2>9 DEF Chained
  <2>11. QED
    BY <1>1, <2>7, <2>10 DEF WalkInv
<1>5. QED
  BY <1>1, <1>3, <1>4 DEF IInv, Idle

LEMMA FunctionWalk ==
  ASSUME IInv, WalkInv, VisitFunction
  PROVE  WalkInv'
<1> DEFINE f == [entry |-> Len(blocks) + 1, exit |-> Len(blocks) + 2]
<1>1. funcs' = Append(funcs, f) /\ blocks' = Created(blocks, 2)
  BY DEF VisitFunction, New, Create, Created
<1>2. /\ Blocks(blocks) /\ IsSeq(funcs) /\ Len(blocks) \in Nat /\ Entries \subseteq BlockIds
      /\ AllNamed(blocks)
  BY PlacedIs DEF IInv, LayoutInv, Edges, WalkInv
<1>3. SameNext(blocks, blocks') /\ AllNamed(blocks')
  BY <1>1, <1>2, CreatedNext
<1>4. f.entry = Len(blocks) + 1
  OBVIOUS
<1> HIDE DEF f
<1>5. /\ Len(funcs) \in Nat /\ DOMAIN funcs = 1..Len(funcs) /\ DOMAIN funcs' = 1..Len(funcs) + 1
      /\ \A i \in 1..Len(funcs) : funcs'[i] = funcs[i]
      /\ funcs'[Len(funcs) + 1] = f
  BY <1>1, <1>2, AppendIs, SeqIs
<1>6. Entries \subseteq Entries'
  BY <1>5 DEF Entries
<1>7. Chained(blocks', Entries')
  BY <1>3, <1>6, ChainedStays DEF WalkInv
<1>8. \A i \in DOMAIN funcs : funcs[i].entry # f.entry
  <2>1. \A i \in DOMAIN funcs : funcs[i].entry \in Entries
    BY DEF Entries
  <2>2. f.entry \notin BlockIds
    BY <1>2, <1>4 DEF BlockIds
  <2>3. QED
    BY <1>2, <2>1, <2>2
<1>9. \A i, j \in DOMAIN funcs' : funcs'[i].entry = funcs'[j].entry => i = j
  <2>1. \A i \in DOMAIN funcs' : i \in DOMAIN funcs \/ i = Len(funcs) + 1
    BY <1>5
  <2>2. QED
    BY <1>5, <1>8, <2>1 DEF WalkInv
<1>10. QED
  BY <1>3, <1>7, <1>9 DEF WalkInv

LEMMA ExpressionWalk ==
  ASSUME IInv, WalkInv, Expression
  PROVE  WalkInv'
<1> USE DEF Doing, At
<1>1. CASE EvalConstant \/ EvalIdentifier \/ EvalUnary \/ EvalBinary \/ EvalCall \/ EvalIndex \/ EvalMember
  BY <1>1, IdleWalk DEF EvalConstant, EvalIdentifier, EvalUnary, EvalBinary, EvalCall, EvalIndex,
                        EvalMember, keepCode
<1>2. CASE EvalString
  <2> DEFINE x == Inst("ADDR", NewTemp, Sym("string", 0), Null, NoBlock, None)
  <2>1. work # << >> /\ Top.do = "eval" /\ keepLayout /\ Emit(x)
    BY <1>2 DEF EvalString
  <2>2. InstOK(x)
    BY InstIs DEF InstOK, JumpOps
  <2> HIDE DEF x
  <2>3. QED
    BY <2>1, <2>2, EmitWalk
<1>3. CASE ApplyUnary
  <2> DEFINE x == Inst(UnaryOps[Top.node.op], NewTemp, vals[1], Null, NoBlock, Top.node)
  <2>1. work # << >> /\ Top.do = "unary" /\ (Crash \/ (keepLayout /\ Emit(x)))
    BY <1>3 DEF ApplyUnary
  <2>2. Top.node.op \in DOMAIN UnaryOps
    BY <2>1, TopNodeIs
  <2>3. x.op = UnaryOps[Top.node.op]
    BY InstIs
  <2>4. InstOK(x)
    BY <2>2, <2>3 DEF UnaryOps, InstOK, JumpOps
  <2> HIDE DEF x
  <2>5. QED
    BY <2>1, <2>4, EmitWalk, CrashWalk
<1>4. CASE TranslateIncrement
  <2> DEFINE x == Inst("INC", NewTemp, vals[1], Null, NoBlock, Top.node)
  <2>1. work # << >> /\ Top.do = "increment" /\ (Crash \/ (keepLayout /\ Emit(x)))
    BY <1>4 DEF TranslateIncrement
  <2>2. InstOK(x)
    BY InstIs DEF InstOK, JumpOps
  <2> HIDE DEF x
  <2>3. QED
    BY <2>1, <2>2, EmitWalk, CrashWalk
<1>5. CASE ApplyBinary
  <2> DEFINE x == Inst(ArithOps[Top.node.op], NewTemp, vals[2], vals[1], NoBlock, Top.node)
  <2>1. /\ work # << >> /\ Top.do = "binary"
        /\ \/ keepCode
           \/ Crash
           \/ keepLayout /\ Emit(x) /\ Top.node.op \in DOMAIN ArithOps
    BY <1>5 DEF ApplyBinary
  <2>2. x.op = ArithOps[Top.node.op]
    BY InstIs
  <2>3. Top.node.op \in DOMAIN ArithOps => InstOK(x)
    BY <2>2 DEF ArithOps, InstOK, JumpOps
  <2> HIDE DEF x
  <2>4. keepCode => UNCHANGED <<blocks, funcs>>
    BY DEF keepCode
  <2>5. QED
    BY <2>1, <2>3, <2>4, EmitWalk, CrashWalk, IdleWalk
<1>6. CASE EvalTest
  <2>1. Create(3) /\ funcs' = funcs
    BY <1>6 DEF EvalTest, keepLayout
  <2>2. QED
    BY <2>1, CreateWalk
<1>7. CASE TranslateCall
  <2> DEFINE k == Len(Top.node.args)
             args == [i \in 1..k |-> LET v == vals[k + 1 - i] IN IF v = Null THEN Const(0) ELSE v]
             x == Inst("CALL", Null, vals[k + 1], args, NoBlock, Top.node)
  <2>1. work # << >> /\ Top.do = "call" /\ (Crash \/ (keepLayout /\ Emit(x)))
    BY <1>7 DEF TranslateCall
  <2>2. k \in Nat
    BY <2>1, TopNodeIs
  <2>3. x.op = "CALL" /\ x.src2 = args
    BY DEF Inst
  <2> HIDE DEF k, x
  <2>4. Len(args) \in Nat
    BY <2>2, FunctionIs
  <2>5. InstOK(x)
    BY <2>3, <2>4 DEF InstOK, JumpOps
  <2>6. QED
    BY <2>1, <2>5, EmitWalk, CrashWalk
<1>8. QED
  BY <1>1, <1>2, <1>3, <1>4, <1>5, <1>6, <1>7 DEF Expression

LEMMA ConditionWalk ==
  ASSUME IInv, WalkInv, Condition
  PROVE  WalkInv'
<1> USE DEF Doing, At
<1>1. CASE BranchLogic
  <2>1. Create(1) /\ funcs' = funcs
    BY <1>1 DEF BranchLogic, keepLayout
  <2>2. QED
    BY <2>1, CreateWalk
<1>2. CASE BranchRelation \/ BranchNot \/ BranchConstant \/ BranchValue
  BY <1>2, IdleWalk DEF BranchRelation, BranchNot, BranchConstant, BranchValue, keepCode
<1>3. CASE GenTest \/ GenTestValue
  <2>1. /\ work # << >> /\ Top.do \in {"test", "testvalue"}
        /\ \/ Crash
           \/ keepCode
           \/ keepLayout /\ \E op \in JumpOps : \E src1, src2 : GenBranch(op, Top.yes, src1, src2, Top.node)
    <3>1. CASE GenTest
      <4>1. work # << >> /\ Top.do = "test"
        BY <3>1 DEF GenTest
      <4>2. Top.op \in JumpOps
        BY <4>1, TopNodeIs DEF JumpOps
      <4>3. QED
        BY <3>1, <4>2 DEF GenTest
    <3>2. CASE GenTestValue
      BY <3>2 DEF GenTestValue, JumpOps
    <3>3. QED
      BY <1>3, <3>1, <3>2
  <2>2. Top.yes \in Goals(Top)
    BY <2>1 DEF Goals, Jumpy
  <2>3. CASE keepLayout /\ \E op \in JumpOps : \E src1, src2 : GenBranch(op, Top.yes, src1, src2, Top.node)
    <3>1. PICK op \in JumpOps : \E src1, src2 : GenBranch(op, Top.yes, src1, src2, Top.node)
      BY <2>3
    <3>2. PICK src1, src2 : GenBranch(op, Top.yes, src1, src2, Top.node)
      BY <3>1
    <3> DEFINE x == Inst(op, Null, src1, src2, Top.yes, Top.node)
    <3>3. /\ blocks' = WithInst(WithEdge(blocks, cur, Top.yes), cur, x)
          /\ x.to = Top.yes /\ x.op \in JumpOps
      BY <3>2, InstIs DEF GenBranch
    <3> HIDE DEF x
    <3>4. QED
      BY <2>1, <2>2, <2>3, <3>3, BranchWalk
  <2>4. keepCode => UNCHANGED <<blocks, funcs>>
    BY DEF keepCode
  <2>5. QED
    BY <2>1, <2>3, <2>4, CrashWalk, IdleWalk
<1>4. QED
  BY <1>1, <1>2, <1>3 DEF Condition

LEMMA StatementWalk ==
  ASSUME IInv, WalkInv, Statement
  PROVE  WalkInv'
<1> USE DEF Doing, At
<1>1. CASE VisitIf \/ VisitWhile \/ VisitDo
  <2>1. Create(3) /\ funcs' = funcs
    BY <1>1 DEF VisitIf, VisitWhile, VisitDo, keepLayout
  <2>2. QED
    BY <2>1, CreateWalk
<1>2. CASE ForLoop
  <2>1. Create(4) /\ funcs' = funcs
    BY <1>2 DEF ForLoop, keepLayout
  <2>2. QED
    BY <2>1, CreateWalk
<1>3. CASE GenReturn
  <2> DEFINE x == Inst("RET", Null, vals[1], Null, NoBlock, None)
  <2>1. work # << >> /\ Top.do = "return" /\ (Crash \/ (keepLayout /\ Emit(x)))
    BY <1>3 DEF GenReturn
  <2>2. InstOK(x)
    BY InstIs DEF InstOK, JumpOps
  <2> HIDE DEF x
  <2>3. QED
    BY <2>1, <2>2, EmitWalk, CrashWalk
<1>4. CASE \/ VisitExprStmt \/ Drop \/ VisitReturn \/ VisitFor \/ VisitCompound
           \/ VisitInitDeclarator \/ InitVariable \/ VisitWrapped \/ VisitStub
  BY <1>4, IdleWalk DEF VisitExprStmt, Drop, VisitReturn, VisitFor, VisitCompound,
                        VisitInitDeclarator, InitVariable, VisitWrapped, VisitStub, keepCode
<1>5. QED
  BY <1>1, <1>2, <1>3, <1>4 DEF Statement

LEMMA CodeWalk ==
  ASSUME IInv, WalkInv, Code
  PROVE  WalkInv'
<1> USE DEF Doing
<1>1. CASE StartBBlock
  BY <1>1, StartWalk
<1>2. CASE GenJump
  <2> DEFINE x == Inst("JMP", Null, Null, Null, Top.bb, None)
  <2>1. /\ work # << >> /\ Top.do = "jump" /\ keepLayout
        /\ blocks' = WithInst(WithEdge(blocks, cur, Top.bb), cur, x)
    BY <1>2 DEF GenJump
  <2>2. x.to = Top.bb /\ Top.bb \in Goals(Top) /\ x.op \in JumpOps
    BY <2>1, InstIs DEF Goals, JumpOps
  <2> HIDE DEF x
  <2>3. QED
    BY <2>1, <2>2, BranchWalk
<1>3. CASE GenMove
  <2> DEFINE x == Inst("MOV", Top.dst, Top.src, Null, NoBlock, None)
  <2>1. work # << >> /\ Top.do = "move" /\ keepLayout /\ Emit(x)
    BY <1>3 DEF GenMove
  <2>2. InstOK(x)
    BY InstIs DEF InstOK, JumpOps
  <2> HIDE DEF x
  <2>3. QED
    BY <2>1, <2>2, EmitWalk
<1>4. CASE Return
  BY <1>4, IdleWalk DEF Return, keepCode
<1>5. QED
  BY <1>1, <1>2, <1>3, <1>4 DEF Code

LEMMA StepWalk ==
  ASSUME IInv, WalkInv, [Next]_vars
  PROVE  WalkInv'
<1>1. CASE VisitFunction
  BY <1>1, FunctionWalk
<1>2. CASE FinishFunction \/ Stop \/ UNCHANGED vars
  BY <1>2, IdleWalk DEF FinishFunction, keepCode, Stop, vars
<1>3. CASE Statement \/ Condition \/ Expression \/ Code
  BY <1>3, StatementWalk, ConditionWalk, ExpressionWalk, CodeWalk
<1>4. QED
  BY <1>1, <1>2, <1>3 DEF Next, Generate

LEMMA InitWalk ==
  ASSUME Init
  PROVE  WalkInv
<1>1. blocks = << >> /\ funcs = << >> /\ Len(<< >>) = 0 /\ DOMAIN << >> = {} /\ 1..0 = {}
  BY DEF Init
<1>2. FollowIn(blocks) = {}
  BY <1>1 DEF FollowIn
<1>3. QED
  BY <1>1, <1>2 DEF WalkInv, AllNamed, Chained

-----------------------------------------------------------------------------
(* The code the emitter reads.                                             *)

Wanted == {b \in Placed : blocks[b].preds # << >>}
InstAt(b, i) == blocks[b].insts[i]

\* A finished unit: the links of placed blocks lead to placed blocks, and so do
\* the jumps, whose targets have predecessors.
LaidCode ==
  /\ Placed \subseteq BlockIds /\ NoBlock \notin Placed
  /\ Len(funcs) \in Nat /\ DOMAIN funcs = 1..Len(funcs)
  /\ \A f \in 1..Len(funcs) : funcs[f].entry \in Placed
  /\ \A b \in Placed : blocks[b].next \in Placed \cup {NoBlock}
  /\ \A b \in Placed : Len(blocks[b].insts) \in Nat
  /\ \A b \in Placed : \A i \in 1..Len(blocks[b].insts) :
       /\ InstAt(b, i).op \in JumpOps => InstAt(b, i).to \in Wanted
       /\ InstAt(b, i).op = "CALL" => Len(InstAt(b, i).src2) \in Nat

LEMMA TargetWanted ==
  ASSUME NEW bs, Edges(bs), NEW b \in 1..Len(bs), NEW i \in TargetsIn(bs[b].insts),
         NEW t \in 1..Len(bs), bs[b].insts[i].to = t
  PROVE  bs[t].preds # << >>
<1> DEFINE J == {j \in TargetsIn(bs[b].insts) : bs[b].insts[j].to = t}
<1>1. Blocks(bs) /\ EdgesAt(bs[b], Len(bs)) /\ Mirrored(bs)
  BY DEF Edges
<1>2. /\ t \in Nat /\ IsSeq(bs[b].insts) /\ JumpsIn(bs[b].insts, t) \in Nat
  BY <1>1, BlockIs
<1>3. IsFiniteSet(J)
  <2>1. DOMAIN bs[b].insts = 1..Len(bs[b].insts) /\ Len(bs[b].insts) \in Nat
    BY <1>2, SeqIs
  <2>2. J \subseteq 1..Len(bs[b].insts)
    BY <2>1 DEF TargetsIn
  <2>3. \A n \in Nat : IsFiniteSet(1..n)
    BY FS_Interval
  <2> HIDE DEF J
  <2>4. QED
    BY <2>1, <2>2, <2>3, FS_Subset
<1>4. JumpsIn(bs[b].insts, t) # 0
  <2>1. i \in J
    OBVIOUS
  <2>2. Cardinality(J) # 0
    BY <1>3, <2>1, FS_EmptySet
  <2>3. QED
    BY <2>2 DEF JumpsIn
<1>5. Count(bs[b].succs, t) = JumpsIn(bs[b].insts, t) + (IF FallsFrom(bs[b]) /\ t = bs[b].next THEN 1 ELSE 0)
  BY <1>1, <1>2 DEF EdgesAt
<1>6. Count(bs[t].preds, b) = Count(bs[b].succs, t)
  BY <1>1 DEF Mirrored
<1>7. Count(bs[t].preds, b) # 0
  BY <1>2, <1>4, <1>5, <1>6
<1>8. QED
  BY <1>7, NoInsts

LEMMA CodeIsLaid ==
  ASSUME IInv, WalkInv, Generated
  PROVE  LaidCode
<1>1. /\ Edges(blocks) /\ IsSeq(funcs) /\ Entries \subseteq BlockIds
      /\ Placed \subseteq BlockIds /\ NoBlock \notin Placed
  BY PlacedIs DEF IInv, LayoutInv
<1>2. LandsIn(blocks, Placed)
  BY DEF Generated, IInv, Idle, Launching, Lowering, Runs, Finished
<1>3. Len(funcs) \in Nat /\ DOMAIN funcs = 1..Len(funcs)
  BY <1>1, SeqIs
<1>4. \A f \in 1..Len(funcs) : funcs[f].entry \in Placed
  BY <1>3 DEF Placed, Entries
<1>5. \A b \in Placed : blocks[b].next \in Placed \cup {NoBlock}
  BY <1>1 DEF Placed, Follow
<1>6. \A b \in Placed : b \in 1..Len(blocks) /\ IsSeq(blocks[b].insts)
  BY <1>1, BlockIs DEF Edges, BlockIds
<1>7. \A b \in Placed : /\ Len(blocks[b].insts) \in Nat
                        /\ DOMAIN blocks[b].insts = 1..Len(blocks[b].insts)
  BY <1>6, SeqIs
<1>8. ASSUME NEW b \in Placed, NEW i \in 1..Len(blocks[b].insts)
      PROVE  /\ InstAt(b, i).op \in JumpOps => InstAt(b, i).to \in Wanted
             /\ InstAt(b, i).op = "CALL" => Len(InstAt(b, i).src2) \in Nat
  <2>1. b \in 1..Len(blocks) /\ i \in DOMAIN blocks[b].insts
    BY <1>6, <1>7
  <2>2. InstOK(InstAt(b, i))
    BY <2>1 DEF WalkInv, AllNamed, Named, InstAt
  <2>3. ASSUME InstAt(b, i).op \in JumpOps
        PROVE  InstAt(b, i).to \in Wanted
    <3>1. i \in TargetsIn(blocks[b].insts)
      BY <2>1, <2>2, <2>3 DEF InstOK, InstAt, TargetsIn
    <3>2. InstAt(b, i).to \in Placed
      BY <1>2, <2>1, <3>1 DEF LandsIn, InstAt
    <3>3. InstAt(b, i).to \in 1..Len(blocks)
      BY <1>1, <3>2 DEF BlockIds
    <3>4. blocks[InstAt(b, i).to].preds # << >>
      BY <1>1, <2>1, <3>1, <3>3, TargetWanted DEF InstAt
    <3>5. QED
      BY <3>2, <3>4 DEF Wanted
  <2>4. QED
    BY <2>2, <2>3 DEF InstOK
<1>9. QED
  BY <1>1, <1>3, <1>4, <1>5, <1>7, <1>8 DEF LaidCode

-----------------------------------------------------------------------------
(* The labels and the text.  V are the blocks whose emission has begun, W  *)
(* those that are wanted.                                                  *)

Numbered(lab, n) ==
  /\ n \in Nat /\ lab \in [BlockIds -> 0..n]
  /\ \A a, b \in BlockIds : lab[a] = lab[b] /\ lab[a] # NoLabel => a = b
KeepsLabels(lab, more, S) == \A b \in S : lab[b] # NoLabel => more[b] = lab[b]

LabelLine(line) == line.op = "label"
JumpLine(line) == line.op \in {"jmp", "jcc"}
Names(line, lab, S) == \E b \in S : lab[b] # NoLabel /\ line.a = Label(lab[b])

Prints(text, lab, V, W) ==
  /\ IsSeq(text)
  /\ \A i \in 1..Len(text) : LabelLine(text[i]) => Names(text[i], lab, V)
  /\ \A i, j \in 1..Len(text) :
       LabelLine(text[i]) /\ LabelLine(text[j]) /\ text[i].a = text[j].a => i = j
  /\ \A b \in V \cap W : \E i \in 1..Len(text) : LabelLine(text[i]) /\ text[i].a = Label(lab[b])
  /\ \A i \in 1..Len(text) : JumpLine(text[i]) => Names(text[i], lab, W)

LEMMA LineIs ==
  ASSUME NEW x
  PROVE  IsSeq(<<x>>) /\ Len(<<x>>) = 1 /\ <<x>>[1] = x
<1>1. <<x>> \in Seq({x}) /\ Len(<<x>>) = 1 /\ <<x>>[1] = x
  OBVIOUS
<1>2. QED
  BY <1>1 DEF IsSeq

LEMMA LabelIs == \A m, n : Label(m) = Label(n) => m = n
BY DEF Label, Sym

LEMMA NamesKept ==
  ASSUME NEW line, NEW lab, NEW more, NEW S, Names(line, lab, S), KeepsLabels(lab, more, S)
  PROVE  Names(line, more, S)
BY DEF Names, KeepsLabels

\* Instructions that are no labels, and jump to what is wanted.
LEMMA LinesPrinted ==
  ASSUME NEW text, NEW lab, NEW V, NEW W, Prints(text, lab, V, W), NEW more,
         KeepsLabels(lab, more, V \cup W), NEW lines, IsSeq(lines),
         \A i \in 1..Len(lines) : /\ ~LabelLine(lines[i])
                                  /\ JumpLine(lines[i]) => Names(lines[i], more, W)
  PROVE  Prints(text \o lines, more, V, W)
<1> DEFINE all == text \o lines
<1>1. IsSeq(text) /\ Len(text) \in Nat /\ Len(lines) \in Nat
  BY SeqIs DEF Prints
<1>2. /\ IsSeq(all) /\ Len(all) = Len(text) + Len(lines)
      /\ \A i \in 1..Len(text) : all[i] = text[i]
      /\ \A i \in 1..Len(lines) : all[Len(text) + i] = lines[i]
  BY <1>1, ConcatIs
<1> HIDE DEF all
<1>3. \A i \in 1..Len(all) : \/ i \in 1..Len(text) /\ all[i] = text[i]
                             \/ i - Len(text) \in 1..Len(lines) /\ all[i] = lines[i - Len(text)]
  <2> SUFFICES ASSUME NEW i \in 1..Len(all), i \notin 1..Len(text)
               PROVE  i - Len(text) \in 1..Len(lines) /\ all[i] = lines[i - Len(text)]
    BY <1>2
  <2>1. i - Len(text) \in 1..Len(lines) /\ Len(text) + (i - Len(text)) = i
    BY <1>1, <1>2
  <2>2. QED
    BY <1>2, <2>1
<1>4. KeepsLabels(lab, more, V) /\ KeepsLabels(lab, more, W)
  BY DEF KeepsLabels
<1>5. \A i \in 1..Len(all) : LabelLine(all[i]) => i \in 1..Len(text) /\ all[i] = text[i]
  BY <1>3
<1>6. \A i \in 1..Len(all) : LabelLine(all[i]) => Names(all[i], more, V)
  BY <1>4, <1>5, NamesKept DEF Prints
<1>7. \A i, j \in 1..Len(all) :
        LabelLine(all[i]) /\ LabelLine(all[j]) /\ all[i].a = all[j].a => i = j
  BY <1>5 DEF Prints
<1>8. ASSUME NEW b \in V \cap W
      PROVE  \E i \in 1..Len(all) : LabelLine(all[i]) /\ all[i].a = Label(more[b])
  <2>1. PICK i \in 1..Len(text) : LabelLine(text[i]) /\ text[i].a = Label(lab[b])
    BY <1>8 DEF Prints
  <2>2. PICK c \in V : lab[c] # NoLabel /\ text[i].a = Label(lab[c])
    BY <2>1 DEF Prints, Names
  <2>3. lab[b] = lab[c]
    BY <2>1, <2>2, LabelIs
  <2>4. more[b] = lab[b]
    BY <1>4, <1>8, <2>2, <2>3 DEF KeepsLabels
  <2>5. i \in 1..Len(all) /\ all[i] = text[i]
    BY <1>1, <1>2, <2>1
  <2>6. QED
    BY <2>1, <2>4, <2>5
<1>9. \A i \in 1..Len(all) : JumpLine(all[i]) => Names(all[i], more, W)
  <2> SUFFICES ASSUME NEW i \in 1..Len(all), JumpLine(all[i])
               PROVE  Names(all[i], more, W)
    OBVIOUS
  <2>1. CASE i \in 1..Len(text) /\ all[i] = text[i]
    BY <1>4, <2>1, NamesKept DEF Prints
  <2>2. CASE i - Len(text) \in 1..Len(lines) /\ all[i] = lines[i - Len(text)]
    BY <2>2
  <2>3. QED
    BY <1>3, <2>1, <2>2
<1>10. Prints(all, more, V, W)
  BY <1>2, <1>6, <1>7, <1>8, <1>9 DEF Prints
<1>11. QED
  BY <1>10 DEF all

\* The label of a block that has just been reached.
LEMMA LabelPrinted ==
  ASSUME NEW text, NEW lab, NEW V, NEW W, Prints(text, lab, V, W), NEW more,
         KeepsLabels(lab, more, V \cup W), NEW b, b \notin V, more[b] # NoLabel,
         \A a \in V : more[a] # more[b], NEW line, LabelLine(line), line.a = Label(more[b])
  PROVE  Prints(text \o <<line>>, more, V \cup {b}, W)
<1> DEFINE all == text \o <<line>>
           n == Len(text) + 1
<1>1. IsSeq(text) /\ Len(text) \in Nat
  BY SeqIs DEF Prints
<1>2. /\ IsSeq(all) /\ Len(all) = n /\ all[n] = line
      /\ \A i \in 1..Len(text) : all[i] = text[i]
  <2>1. IsSeq(<<line>>) /\ Len(<<line>>) = 1 /\ <<line>>[1] = line
    BY LineIs
  <2>2. 1 \in 1..1
    OBVIOUS
  <2>3. QED
    BY <1>1, <2>1, <2>2, ConcatIs
<1> HIDE DEF all
<1>3. 1..n = 1..Len(text) \cup {n} /\ n \notin 1..Len(text)
  BY <1>1
<1> HIDE DEF n
<1>4. KeepsLabels(lab, more, V) /\ KeepsLabels(lab, more, W)
  BY DEF KeepsLabels
<1>5. ~JumpLine(line)
  BY DEF LabelLine, JumpLine
<1>6. \A i \in 1..Len(text) : LabelLine(text[i]) => Names(text[i], more, V)
  BY <1>4, NamesKept DEF Prints
<1>7. \A i \in 1..n : LabelLine(all[i]) => Names(all[i], more, V \cup {b})
  BY <1>2, <1>3, <1>6 DEF Names
<1>8. \A i \in 1..Len(text) : LabelLine(text[i]) => text[i].a # line.a
  BY <1>6, LabelIs DEF Names
<1>9. \A i, j \in 1..n : LabelLine(all[i]) /\ LabelLine(all[j]) /\ all[i].a = all[j].a => i = j
  BY <1>2, <1>3, <1>8 DEF Prints
<1>10. ASSUME NEW a \in (V \cup {b}) \cap W
       PROVE  \E i \in 1..n : LabelLine(all[i]) /\ all[i].a = Label(more[a])
  <2>1. CASE a = b
    BY <1>2, <1>3, <2>1
  <2>2. CASE a # b
    <3>1. PICK i \in 1..Len(text) : LabelLine(text[i]) /\ text[i].a = Label(lab[a])
      BY <1>10, <2>2 DEF Prints
    <3>2. PICK c \in V : lab[c] # NoLabel /\ text[i].a = Label(lab[c])
      BY <3>1 DEF Prints, Names
    <3>3. lab[a] = lab[c]
      BY <3>1, <3>2, LabelIs
    <3>4. more[a] = lab[a]
      BY <1>4, <1>10, <3>2, <3>3 DEF KeepsLabels
    <3>5. QED
      BY <1>2, <1>3, <3>1, <3>4
  <2>3. QED
    BY <2>1, <2>2
<1>11. \A i \in 1..n : JumpLine(all[i]) => Names(all[i], more, W)
  BY <1>2, <1>3, <1>4, <1>5, NamesKept DEF Prints
<1>12. Prints(all, more, V \cup {b}, W)
  BY <1>2, <1>7, <1>9, <1>10, <1>11 DEF Prints
<1>13. QED
  BY <1>12 DEF all

\* A block nobody jumps to has none.
LEMMA NothingPrinted ==
  ASSUME NEW text, NEW lab, NEW V, NEW W, Prints(text, lab, V, W), NEW b, b \notin W
  PROVE  Prints(text, lab, V \cup {b}, W)
<1>1. \A i \in 1..Len(text) : Names(text[i], lab, V) => Names(text[i], lab, V \cup {b})
  BY DEF Names
<1>2. (V \cup {b}) \cap W = V \cap W
  OBVIOUS
<1>3. QED
  BY <1>1, <1>2 DEF Prints

LEMMA TakeIs ==
  ASSUME Numbered(labels, nlabels), NEW b \in BlockIds, TakeLabel(b)
  PROVE  /\ Numbered(labels', nlabels') /\ KeepsLabels(labels, labels', BlockIds)
         /\ labels'[b] = LabelOf(b) /\ labels'[b] # NoLabel
         /\ \A a \in BlockIds : a # b => labels'[a] # labels'[b]
<1>1. /\ nlabels \in Nat /\ labels \in [BlockIds -> 0..nlabels]
      /\ \A x, y \in BlockIds : labels[x] = labels[y] /\ labels[x] # NoLabel => x = y
  BY DEF Numbered
<1>2. /\ labels' = [labels EXCEPT ![b] = LabelOf(b)]
      /\ nlabels' = IF labels[b] = NoLabel THEN nlabels + 1 ELSE nlabels
      /\ LabelOf(b) = IF labels[b] = NoLabel THEN nlabels + 1 ELSE labels[b]
  BY DEF TakeLabel, LabelOf
<1>4. /\ nlabels' \in Nat /\ labels' \in [BlockIds -> 0..nlabels'] /\ labels'[b] = LabelOf(b)
      /\ \A a \in BlockIds : a # b => labels'[a] = labels[a]
  BY <1>1, <1>2
<1>5. LabelOf(b) # NoLabel /\ \A a \in BlockIds : a # b => labels[a] # LabelOf(b)
  <2>1. CASE labels[b] = NoLabel
    BY <1>1, <1>2, <2>1 DEF NoLabel
  <2>2. CASE labels[b] # NoLabel
    BY <1>1, <1>2, <2>2
  <2>3. QED
    BY <2>1, <2>2
<1>6. \A x, y \in BlockIds : labels'[x] = labels'[y] /\ labels'[x] # NoLabel => x = y
  BY <1>1, <1>4, <1>5
<1>7. KeepsLabels(labels, labels', BlockIds)
  BY <1>2, <1>4 DEF KeepsLabels
<1>8. QED
  BY <1>4, <1>5, <1>6, <1>7 DEF Numbered

-----------------------------------------------------------------------------
(* Lines that are neither labels nor jumps.                                *)

Plain(line) == ~LabelLine(line) /\ ~JumpLine(line)
AllPlain(lines) == IsSeq(lines) /\ \A i \in 1..Len(lines) : Plain(lines[i])

LEMMA PlainOne ==
  ASSUME NEW x, Plain(x)
  PROVE  AllPlain(<<x>>)
BY LineIs DEF AllPlain

LEMMA PlainNone == AllPlain(<< >>)
<1>1. IsSeq(<< >>) /\ Len(<< >>) = 0 /\ 1..0 = {}
  BY EmptyIs
<1>2. QED
  BY <1>1 DEF AllPlain

LEMMA PlainConcat ==
  ASSUME NEW s, NEW t, AllPlain(s), AllPlain(t)
  PROVE  AllPlain(s \o t)
<1> DEFINE all == s \o t
<1>1. IsSeq(s) /\ IsSeq(t) /\ Len(s) \in Nat /\ Len(t) \in Nat
  BY SeqIs DEF AllPlain
<1>2. /\ IsSeq(all) /\ Len(all) = Len(s) + Len(t)
      /\ \A i \in 1..Len(s) : all[i] = s[i]
      /\ \A i \in 1..Len(t) : all[Len(s) + i] = t[i]
  BY <1>1, ConcatIs
<1> HIDE DEF all
<1>3. ASSUME NEW i \in 1..Len(all)
      PROVE  Plain(all[i])
  <2>1. CASE i \in 1..Len(s)
    BY <1>2, <2>1 DEF AllPlain
  <2>2. CASE i \notin 1..Len(s)
    <3>1. i - Len(s) \in 1..Len(t) /\ Len(s) + (i - Len(s)) = i
      BY <1>1, <1>2, <2>2
    <3>2. all[i] = t[i - Len(s)]
      BY <1>2, <3>1
    <3>3. QED
      BY <3>1, <3>2 DEF AllPlain
  <2>3. QED
    BY <2>1, <2>2
<1>4. AllPlain(all)
  BY <1>2, <1>3 DEF AllPlain
<1>5. QED
  BY <1>4 DEF all

LEMMA PlainAsm ==
  ASSUME NEW op, NEW a, NEW b, NEW e, op \notin {"label", "jmp", "jcc"}
  PROVE  Plain(Asm(op, a, b)) /\ Plain(AsmOf(op, a, b, e))
BY DEF Plain, Asm, AsmOf, LabelLine, JumpLine

LEMMA TwoLines ==
  ASSUME NEW x, NEW y
  PROVE  IsSeq(<<x, y>>) /\ \A i \in 1..Len(<<x, y>>) : <<x, y>>[i] \in {x, y}
<1> DEFINE s == <<x, y>>
<1>1. s \in Seq({x, y}) /\ Len(s) = 2
  OBVIOUS
<1>2. s[1] = x /\ s[2] = y
  OBVIOUS
<1> HIDE DEF s
<1>3. \A i \in 1..2 : i = 1 \/ i = 2
  OBVIOUS
<1>4. IsSeq(s) /\ \A i \in 1..Len(s) : s[i] \in {x, y}
  BY <1>1, <1>2, <1>3 DEF IsSeq
<1>5. QED
  BY <1>4 DEF s

LEMMA PlainTwo ==
  ASSUME NEW x, NEW y, Plain(x), Plain(y)
  PROVE  AllPlain(<<x, y>>)
BY TwoLines DEF AllPlain

LEMMA ThreeLines ==
  ASSUME NEW x, NEW y, NEW z
  PROVE  IsSeq(<<x, y, z>>) /\ \A i \in 1..Len(<<x, y, z>>) : <<x, y, z>>[i] \in {x, y, z}
<1> DEFINE s == <<x, y, z>>
<1>1. s \in Seq({x, y, z}) /\ Len(s) = 3
  OBVIOUS
<1>2. s[1] = x /\ s[2] = y /\ s[3] = z
  OBVIOUS
<1> HIDE DEF s
<1>3. \A i \in 1..3 : i = 1 \/ i = 2 \/ i = 3
  OBVIOUS
<1>4. IsSeq(s) /\ \A i \in 1..Len(s) : s[i] \in {x, y, z}
  BY <1>1, <1>2, <1>3 DEF IsSeq
<1>5. QED
  BY <1>4 DEF s

LEMMA PlainThree ==
  ASSUME NEW x, NEW y, NEW z, Plain(x), Plain(y), Plain(z)
  PROVE  AllPlain(<<x, y, z>>)
BY ThreeLines DEF AllPlain

LEMMA FourLines ==
  ASSUME NEW x, NEW y, NEW z, NEW w
  PROVE  IsSeq(<<x, y, z, w>>) /\ \A i \in 1..Len(<<x, y, z, w>>) : <<x, y, z, w>>[i] \in {x, y, z, w}
<1> DEFINE s == <<x, y, z, w>>
<1>1. s \in Seq({x, y, z, w}) /\ Len(s) = 4
  OBVIOUS
<1>2. s[1] = x /\ s[2] = y /\ s[3] = z /\ s[4] = w
  OBVIOUS
<1> HIDE DEF s
<1>3. \A i \in 1..4 : i = 1 \/ i = 2 \/ i = 3 \/ i = 4
  OBVIOUS
<1>4. IsSeq(s) /\ \A i \in 1..Len(s) : s[i] \in {x, y, z, w}
  BY <1>1, <1>2, <1>3 DEF IsSeq
<1>5. QED
  BY <1>4 DEF s

LEMMA PlainFour ==
  ASSUME NEW x, NEW y, NEW z, NEW w, Plain(x), Plain(y), Plain(z), Plain(w)
  PROVE  AllPlain(<<x, y, z, w>>)
BY FourLines DEF AllPlain

-----------------------------------------------------------------------------
(* The walk.  V are the blocks whose emission has begun, em is where it is. *)

Reached(em, V, b) ==
  \/ \E f \in 1..em.fn : funcs[f].entry = b
  \/ \E a \in V \ {em.bb} : blocks[a].next = b

Walked(em, V) ==
  /\ V \subseteq Placed
  /\ em.bb # NoBlock => em.bb \in Placed /\ (em.i = 0 <=> em.bb \notin V)
  /\ \A f \in 1..em.fn : funcs[f].entry \in V \cup {em.bb}
  /\ \A a \in V \ {em.bb} : blocks[a].next \in V \cup {em.bb, NoBlock}
  /\ \A b \in V \cup {em.bb} : b # NoBlock => Reached(em, V, b)

Positions == [fn : Nat, bb : Nat, i : Nat]
Emitting(em, lab, n, text) ==
  /\ em \in Positions /\ em.fn <= Len(funcs)
  /\ Numbered(lab, n)
  /\ \E V : Walked(em, V) /\ Prints(text, lab, V, Wanted)
Before(em, lab, n, text) ==
  em.fn = 0 /\ em.bb = NoBlock /\ lab = << >> /\ n = 0 /\ text = << >>

EmInv ==
  \/ Before(emitting, labels, nlabels, asm)
  \/ Generated /\ Emitting(emitting, labels, nlabels, asm)

LEMMA InBlockIs ==
  ASSUME EmInv, InBlock
  PROVE  Generated /\ Emitting(emitting, labels, nlabels, asm)
BY DEF EmInv, InBlock, Before

LEMMA Goes ==
  ASSUME Generated, keepUnit, Emitting(emitting', labels', nlabels', asm')
  PROVE  EmInv'
<1>1. /\ blocks' = blocks /\ funcs' = funcs /\ program' = program /\ work' = work
      /\ crashed' = crashed
  BY DEF keepUnit
<1>2. Generated'
  BY <1>1 DEF Generated
<1>3. BlockIds' = BlockIds
  BY <1>1 DEF BlockIds
<1>4. Placed' = Placed
  BY <1>1, <1>3 DEF Placed, Entries, Follow
<1>5. Wanted' = Wanted
  BY <1>1, <1>4 DEF Wanted
<1>6. \A V : Walked(emitting, V)' <=> Walked(emitting', V)
  BY <1>1, <1>4 DEF Walked, Reached
<1>7. Numbered(labels, nlabels)' <=> Numbered(labels', nlabels')
  BY <1>3 DEF Numbered
<1>8. \A V : Prints(asm, labels, V, Wanted)' <=> Prints(asm', labels', V, Wanted)
  BY <1>5 DEF Prints, Names
<1>9. Emitting(emitting, labels, nlabels, asm)'
  BY <1>1, <1>6, <1>7, <1>8 DEF Emitting
<1>10. QED
  BY <1>2, <1>9 DEF EmInv

\* The next line of a block, or a step that prints nothing more.
LEMMA StaysIn ==
  ASSUME NEW em \in Positions, NEW more \in Positions, NEW V, Walked(em, V),
         more.fn = em.fn, more.bb = em.bb, em.i # 0, more.i # 0
  PROVE  Walked(more, V)
BY DEF Walked, Reached

LEMMA LabelsKept ==
  ASSUME NEW text, NEW lab, NEW V, NEW W, Prints(text, lab, V, W), NEW more,
         KeepsLabels(lab, more, V \cup W)
  PROVE  Prints(text, more, V, W)
<1>1. PICK S : text \in Seq(S)
  BY DEF Prints, IsSeq
<1>2. text \o << >> = text
  BY <1>1, ConcatEmptySeq
<1>3. IsSeq(<< >>) /\ \A i \in 1..Len(<< >>) : FALSE
  BY EmptyIs
<1>4. Prints(text \o << >>, more, V, W)
  BY <1>3, LinesPrinted
<1>5. QED
  BY <1>2, <1>4

LEMMA LinesKeep ==
  ASSUME EmInv, LaidCode, InBlock, emitting.i # 0, keepUnit,
         NEW ops, NEW lines, PrintLines(ops, lines), IsSeq(lines),
         Numbered(labels', nlabels'), KeepsLabels(labels, labels', BlockIds),
         \A i \in 1..Len(lines) : /\ ~LabelLine(lines[i])
                                  /\ JumpLine(lines[i]) => Names(lines[i], labels', Wanted)
  PROVE  EmInv'
<1>1. Generated /\ Emitting(emitting, labels, nlabels, asm)
  BY InBlockIs
<1>2. PICK V : Walked(emitting, V) /\ Prints(asm, labels, V, Wanted)
  BY <1>1 DEF Emitting
<1>3. KeepsLabels(labels, labels', V \cup Wanted)
  BY <1>2 DEF KeepsLabels, LaidCode, Walked, Wanted
<1>4. emitting \in Positions /\ emitting.fn <= Len(funcs)
  BY <1>1 DEF Emitting
<1>5. CASE emitting' = emitting /\ asm' = asm
  <2>1. Prints(asm', labels', V, Wanted)
    BY <1>2, <1>3, <1>5, LabelsKept
  <2>2. Emitting(emitting', labels', nlabels', asm')
    BY <1>2, <1>4, <1>5, <2>1 DEF Emitting
  <2>3. QED
    BY <1>1, <2>2, Goes
<1>6. CASE emitting' = [emitting EXCEPT !.i = @ + 1] /\ asm' = asm \o lines
  <2>1. Prints(asm', labels', V, Wanted)
    BY <1>2, <1>3, <1>6, LinesPrinted
  <2>2. /\ emitting' \in Positions /\ emitting'.fn = emitting.fn /\ emitting'.bb = emitting.bb
        /\ emitting'.i # 0
    BY <1>4, <1>6 DEF Positions
  <2>3. Walked(emitting', V)
    BY <1>2, <1>4, <2>2, StaysIn
  <2>4. Emitting(emitting', labels', nlabels', asm')
    BY <1>4, <2>1, <2>2, <2>3 DEF Emitting
  <2>5. QED
    BY <1>1, <2>4, Goes
<1>7. QED
  BY <1>5, <1>6 DEF PrintLines

LEMMA PlainKeep ==
  ASSUME EmInv, LaidCode, InBlock, emitting.i # 0, keepUnit, noLabels,
         NEW ops, NEW lines, PrintLines(ops, lines), AllPlain(lines)
  PROVE  EmInv'
<1>1. labels' = labels /\ nlabels' = nlabels
  BY DEF noLabels
<1>2. Numbered(labels', nlabels') /\ KeepsLabels(labels, labels', BlockIds)
  BY <1>1, InBlockIs DEF Emitting, KeepsLabels
<1>3. IsSeq(lines) /\ \A i \in 1..Len(lines) : ~LabelLine(lines[i]) /\ ~JumpLine(lines[i])
  BY DEF AllPlain, Plain
<1>4. QED
  BY <1>2, <1>3, LinesKeep

-----------------------------------------------------------------------------
(* The steps of the emitter.                                               *)

\* Where an instruction is emitted from.
LEMMA NowIs ==
  ASSUME EmInv, LaidCode, NEW ops, Now(ops)
  PROVE  /\ InBlock /\ emitting.i # 0 /\ Ir.op \in ops
         /\ Ir.op \in JumpOps => Ir.to \in Wanted /\ Ir.to \in BlockIds
         /\ Ir.op = "CALL" => Len(Ir.src2) \in Nat
<1>1. InBlock /\ emitting.i \in 1..Len(Code1) /\ Ir.op \in ops
  BY DEF Now, Ir
<1>2. PICK V : Walked(emitting, V)
  BY <1>1, InBlockIs DEF Emitting
<1>3. emitting.bb \in Placed
  BY <1>1, <1>2 DEF InBlock, Walked
<1>4. Ir = InstAt(emitting.bb, emitting.i) /\ emitting.i \in 1..Len(blocks[emitting.bb].insts)
  BY <1>1 DEF Ir, InstAt, Code1
<1>5. Wanted \subseteq BlockIds
  BY DEF LaidCode, Wanted
<1>6. Len(Code1) \in Nat
  BY <1>3 DEF LaidCode, Code1
<1>7. emitting.i # 0
  BY <1>1, <1>6
<1>8. QED
  BY <1>1, <1>3, <1>4, <1>5, <1>7 DEF LaidCode

LEMMA FunctionEmits ==
  ASSUME EmInv, LaidCode, PlacedOnce, WalkInv, EmitFunction
  PROVE  EmInv'
<1> DEFINE fn == emitting.fn + 1
           e == funcs[fn].entry
           line == Asm("function", Sym("function", fn), Nothing)
<1>1. /\ Generated /\ keepUnit /\ emitting.bb = NoBlock /\ emitting.fn < Len(funcs)
      /\ emitting' = [fn |-> fn, bb |-> e, i |-> 0] /\ asm' = asm \o <<line>>
      /\ labels' = IF labels = << >> THEN [b \in BlockIds |-> NoLabel] ELSE labels
      /\ nlabels' = nlabels
  BY DEF EmitFunction
<1>2. Len(funcs) \in Nat /\ DOMAIN funcs = 1..Len(funcs) /\ Placed \subseteq BlockIds
  BY DEF LaidCode
<1>3. /\ emitting.fn \in Nat
      /\ \E V : Walked(emitting, V) /\ Prints(asm, labels', V, Wanted)
      /\ Numbered(labels', nlabels')
  <2>1. CASE Before(emitting, labels, nlabels, asm)
    <3>1. labels' = [b \in BlockIds |-> NoLabel] /\ nlabels' = 0
      BY <1>1, <2>1 DEF Before
    <3>2. Numbered(labels', nlabels')
      BY <3>1 DEF Numbered, NoLabel
    <3>3. Walked(emitting, {})
      BY <2>1 DEF Before, Walked, NoBlock
    <3>4. IsSeq(asm) /\ Len(asm) = 0 /\ 1..0 = {}
      BY <2>1, EmptyIs DEF Before
    <3>5. Prints(asm, labels', {}, Wanted)
      BY <3>4 DEF Prints
    <3>6. QED
      BY <2>1, <3>2, <3>3, <3>5 DEF Before
  <2>2. CASE Emitting(emitting, labels, nlabels, asm)
    <3>1. funcs[1].entry \in BlockIds
      BY <1>2, <2>2, <1>1 DEF LaidCode, Emitting, Positions
    <3>2. DOMAIN labels = BlockIds /\ DOMAIN << >> = {}
      BY <2>2 DEF Emitting, Numbered
    <3>3. labels' = labels
      BY <1>1, <3>1, <3>2
    <3>4. QED
      BY <1>1, <2>2, <3>3 DEF Emitting, Positions
  <2>3. QED
    BY <2>1, <2>2 DEF EmInv
<1>4. fn \in 1..Len(funcs) /\ fn \in Nat /\ 1..fn = 1..emitting.fn \cup {fn} /\ fn \notin 1..emitting.fn
  BY <1>1, <1>2, <1>3
<1>5. e \in Placed /\ e \in BlockIds /\ e \in Entries /\ e # NoBlock /\ NoBlock \notin Placed
  BY <1>2, <1>4 DEF LaidCode, Entries
<1>6. PICK V : Walked(emitting, V) /\ Prints(asm, labels', V, Wanted)
  BY <1>3
<1>7. V \subseteq Placed /\ V \subseteq BlockIds
  BY <1>2, <1>6 DEF Walked
<1> HIDE DEF line
<1>8. Plain(line)
  BY PlainAsm DEF line
<1>9. Prints(asm', labels', V, Wanted)
  <2>1. KeepsLabels(labels', labels', V \cup Wanted)
    BY DEF KeepsLabels
  <2>2. IsSeq(<<line>>) /\ \A i \in 1..Len(<<line>>) : ~LabelLine(<<line>>[i]) /\ ~JumpLine(<<line>>[i])
    BY <1>8, PlainOne DEF AllPlain, Plain
  <2>3. Prints(asm \o <<line>>, labels', V, Wanted)
    BY <1>6, <2>1, <2>2, LinesPrinted
  <2>4. QED
    BY <1>1, <2>3
<1>10. emitting'.fn = fn /\ emitting'.bb = e /\ emitting'.i = 0
  BY <1>1
<1>11. emitting' \in Positions
  <2>1. e \in Nat
    BY <1>5 DEF BlockIds
  <2>2. QED
    BY <1>1, <1>4, <2>1 DEF Positions
<1> HIDE DEF fn, e
<1>12. e \notin V
  <2>1. SUFFICES ASSUME e \in V PROVE FALSE
    OBVIOUS
  <2>2. Reached(emitting, V, e)
    BY <1>5, <1>6, <2>1 DEF Walked
  <2>3. ASSUME NEW f \in 1..emitting.fn, funcs[f].entry = e
        PROVE  FALSE
    <3>1. f \in DOMAIN funcs /\ fn \in DOMAIN funcs /\ f # fn
      BY <1>1, <1>2, <1>3, <1>4
    <3>2. QED
      BY <2>3, <3>1 DEF WalkInv, e
  <2>4. ASSUME NEW a \in V, blocks[a].next = e
        PROVE  FALSE
    BY <1>5, <1>7, <2>4 DEF PlacedOnce, Follow
  <2>5. QED
    BY <2>2, <2>3, <2>4 DEF Reached
<1>13. Walked(emitting', V)
  <2>1. \A f \in 1..fn : funcs[f].entry \in V \cup {e}
    BY <1>1, <1>4, <1>5, <1>6 DEF Walked, e, LaidCode
  <2>2. \A a \in V : a # NoBlock /\ a # e
    BY <1>5, <1>7, <1>12
  <2>3. \A a \in V : blocks[a].next \in V \cup {e, NoBlock}
    BY <1>1, <1>6, <2>2 DEF Walked
  <2>4. Reached(emitting', V, e)
    BY <1>4, <1>10 DEF Reached, e
  <2>5. \A b \in V : Reached(emitting', V, b)
    <3>1. \A b \in V : Reached(emitting, V, b)
      BY <1>6, <2>2 DEF Walked
    <3>2. QED
      BY <1>4, <1>10, <2>2, <3>1 DEF Reached
  <2>6. QED
    BY <1>5, <1>7, <1>10, <1>12, <2>1, <2>3, <2>4, <2>5 DEF Walked
<1>14. emitting'.fn <= Len(funcs)
  BY <1>2, <1>4, <1>10
<1>15. Emitting(emitting', labels', nlabels', asm')
  BY <1>3, <1>9, <1>11, <1>13, <1>14 DEF Emitting
<1>16. QED
  BY <1>1, <1>15, Goes

LEMMA LabelEmits ==
  ASSUME EmInv, LaidCode, EmitLabel
  PROVE  EmInv'
<1> DEFINE b == emitting.bb
           line == Asm("label", Label(LabelOf(b)), Nothing)
<1>1. /\ InBlock /\ emitting.i = 0 /\ keepUnit /\ b # NoBlock
      /\ emitting' = [emitting EXCEPT !.i = 1]
  BY DEF EmitLabel, InBlock
<1>2. \/ TakeLabel(b) /\ asm' = asm \o <<line>>
      \/ UNCHANGED <<labels, nlabels, asm>> /\ ~(blocks[b].preds # << >>)
  BY DEF EmitLabel
<1>3. Generated /\ Emitting(emitting, labels, nlabels, asm)
  BY <1>1, InBlockIs
<1>4. PICK V : Walked(emitting, V) /\ Prints(asm, labels, V, Wanted)
  BY <1>3 DEF Emitting
<1>5. /\ b \in Placed /\ b \in BlockIds /\ b \notin V /\ V \subseteq BlockIds /\ V \subseteq Placed
      /\ Wanted \subseteq BlockIds
  BY <1>1, <1>4 DEF Walked, LaidCode, Wanted
<1>6. emitting' \in Positions /\ emitting'.fn = emitting.fn /\ emitting'.bb = b /\ emitting'.i = 1
  BY <1>1, <1>3 DEF Positions, Emitting
<1>7. emitting.fn <= Len(funcs)
  BY <1>3 DEF Emitting
<1> HIDE DEF line, b
<1>8. Walked(emitting', V \cup {b})
  <2>1. (V \cup {b}) \ {b} = V \ {b}
    OBVIOUS
  <2>2. \A a \in V \cup {b} : a # NoBlock => Reached(emitting', V \cup {b}, a)
    BY <1>4, <1>6, <2>1 DEF Walked, Reached, b
  <2>3. QED
    BY <1>4, <1>5, <1>6, <2>1, <2>2 DEF Walked, b
<1>9. /\ Numbered(labels', nlabels')
      /\ Prints(asm', labels', V \cup {b}, Wanted)
  <2>1. CASE TakeLabel(b) /\ asm' = asm \o <<line>>
    <3>1. Numbered(labels, nlabels)
      BY <1>3 DEF Emitting
    <3>2. /\ Numbered(labels', nlabels') /\ KeepsLabels(labels, labels', BlockIds)
          /\ labels'[b] = LabelOf(b) /\ labels'[b] # NoLabel
          /\ \A a \in BlockIds : a # b => labels'[a] # labels'[b]
      BY <1>5, <2>1, <3>1, TakeIs
    <3>3. KeepsLabels(labels, labels', V \cup Wanted)
      BY <1>5, <3>2 DEF KeepsLabels
    <3>4. \A a \in V : labels'[a] # labels'[b]
      BY <1>5, <3>2
    <3>5. LabelLine(line) /\ line.a = Label(labels'[b])
      BY <3>2 DEF LabelLine, Asm, line
    <3>6. Prints(asm \o <<line>>, labels', V \cup {b}, Wanted)
      BY <1>4, <1>5, <3>2, <3>3, <3>4, <3>5, LabelPrinted
    <3>7. QED
      BY <2>1, <3>2, <3>6
  <2>2. CASE UNCHANGED <<labels, nlabels, asm>> /\ ~(blocks[b].preds # << >>)
    <3>1. b \notin Wanted
      BY <2>2 DEF Wanted
    <3>2. Prints(asm, labels, V \cup {b}, Wanted)
      BY <1>4, <3>1, NothingPrinted
    <3>3. QED
      BY <1>3, <2>2, <3>2 DEF Emitting
  <2>3. QED
    BY <1>2, <2>1, <2>2
<1>10. Emitting(emitting', labels', nlabels', asm')
  BY <1>6, <1>7, <1>8, <1>9 DEF Emitting
<1>11. QED
  BY <1>1, <1>3, <1>10, Goes

LEMMA NextEmits ==
  ASSUME EmInv, LaidCode, PlacedOnce, EmitNext
  PROVE  EmInv'
<1> DEFINE b == emitting.bb
           c == blocks[b].next
           line == Asm("ret", Eax, Nothing)
<1>1. /\ InBlock /\ emitting.i > Len(Code1) /\ keepUnit /\ b # NoBlock
      /\ emitting' = [emitting EXCEPT !.bb = c, !.i = 0]
      /\ asm' = asm \o <<line>> \/ asm' = asm
      /\ labels' = labels /\ nlabels' = nlabels
  BY DEF EmitNext, InBlock
<1>2. Generated /\ Emitting(emitting, labels, nlabels, asm)
  BY <1>1, InBlockIs
<1>3. PICK V : Walked(emitting, V) /\ Prints(asm, labels, V, Wanted)
  BY <1>2 DEF Emitting
<1>4. /\ V \subseteq Placed /\ V \subseteq BlockIds /\ NoBlock \notin V
      /\ b \in Placed /\ b \in BlockIds /\ c \in Placed \cup {NoBlock}
      /\ Placed \subseteq BlockIds /\ NoBlock \notin Placed
  BY <1>1, <1>3 DEF Walked, LaidCode
<1>5. b \in V
  <2>1. Len(Code1) \in Nat
    BY <1>4 DEF LaidCode, Code1, b
  <2>2. emitting.i # 0
    BY <1>1, <2>1
  <2>3. QED
    BY <1>1, <1>3, <2>2 DEF Walked
<1>6. /\ emitting' \in Positions /\ emitting'.fn = emitting.fn /\ emitting'.bb = c
      /\ emitting'.i = 0 /\ emitting.fn <= Len(funcs)
  <2>1. c \in Nat
    <3>1. BlockIds \subseteq Nat /\ NoBlock \in Nat
      BY DEF BlockIds, NoBlock
    <3>2. QED
      BY <1>4, <3>1
  <2>2. QED
    BY <1>1, <1>2, <2>1 DEF Positions, Emitting
<1> HIDE DEF line
<1>7. Prints(asm', labels', V, Wanted)
  <2>1. KeepsLabels(labels, labels, V \cup Wanted)
    BY DEF KeepsLabels
  <2>2. Plain(line)
    BY PlainAsm DEF line
  <2>3. IsSeq(<<line>>) /\ \A i \in 1..Len(<<line>>) : ~LabelLine(<<line>>[i]) /\ ~JumpLine(<<line>>[i])
    BY <2>2, PlainOne DEF AllPlain, Plain
  <2>4. Prints(asm \o <<line>>, labels, V, Wanted)
    BY <1>3, <2>1, <2>3, LinesPrinted
  <2>5. QED
    BY <1>1, <1>3, <2>4
<1> HIDE DEF b, c
<1>8. c = blocks[b].next /\ b = emitting.bb
  BY DEF b, c
<1>9. c # NoBlock => c \in Follow
  BY <1>4, <1>8 DEF Follow
<1>10. c \notin V
  <2>1. SUFFICES ASSUME c \in V PROVE FALSE
    OBVIOUS
  <2>2. c \in Follow /\ c # NoBlock
    BY <1>4, <1>9, <2>1
  <2>3. Reached(emitting, V, c)
    BY <1>3, <2>1, <2>2 DEF Walked
  <2>4. ASSUME NEW f \in 1..emitting.fn, funcs[f].entry = c
        PROVE  FALSE
    <3>1. f \in DOMAIN funcs
      BY <1>2, <2>4 DEF Emitting, Positions, LaidCode
    <3>2. c \in Entries
      BY <2>4, <3>1 DEF Entries
    <3>3. QED
      BY <2>2, <3>2 DEF PlacedOnce
  <2>5. ASSUME NEW a \in V \ {b}, blocks[a].next = c
        PROVE  FALSE
    BY <1>4, <1>8, <2>2, <2>5 DEF PlacedOnce
  <2>6. QED
    BY <1>8, <2>3, <2>4, <2>5 DEF Reached
<1>11. Walked(emitting', V)
  <2>1. c # b
    BY <1>5, <1>10
  <2>2. \A f \in 1..emitting.fn : funcs[f].entry \in V \cup {c}
    BY <1>3, <1>5, <1>8 DEF Walked
  <2>3. \A a \in V \ {c} : blocks[a].next \in V \cup {c, NoBlock}
    <3>1. \A a \in V \ {b} : blocks[a].next \in V \cup {NoBlock}
      BY <1>3, <1>5, <1>8 DEF Walked
    <3>2. QED
      BY <1>8, <3>1
  <2>4. Reached(emitting', V, c)
    BY <1>5, <1>6, <1>8, <2>1 DEF Reached
  <2>5. \A a \in V : Reached(emitting', V, a)
    <3>1. \A a \in V : Reached(emitting, V, a)
      BY <1>3, <1>4 DEF Walked
    <3>2. QED
      BY <1>6, <1>10, <3>1 DEF Reached
  <2>6. QED
    BY <1>4, <1>6, <1>10, <2>2, <2>3, <2>4, <2>5 DEF Walked
<1>12. Numbered(labels', nlabels')
  BY <1>1, <1>2 DEF Emitting
<1>13. Emitting(emitting', labels', nlabels', asm')
  BY <1>6, <1>7, <1>11, <1>12 DEF Emitting
<1>14. QED
  BY <1>1, <1>2, <1>13, Goes

\* The instructions that print no label: what each prints is plain.
LEMMA MovesEmit ==
  ASSUME EmInv, LaidCode, EmitAddr \/ EmitMov \/ EmitNeg \/ EmitRet \/ EmitOther
  PROVE  EmInv'
<1>1. \A op, a, b : op \in {"leal", "movl", "negl"} => Plain(Asm(op, a, b))
  BY PlainAsm
<1>2. \A s, d : Plain(Load(s)) /\ Plain(Store(d))
  BY <1>1 DEF Load, Store
<1>3. CASE EmitAddr
  <2> DEFINE one == Asm("leal", Ir.src1, Ir.dst)
             two == <<Asm("leal", Ir.src1, Eax), Store(Ir.dst)>>
  <2>1. AllPlain(two) /\ AllPlain(<<one>>)
    BY <1>1, <1>2, PlainOne, PlainTwo
  <2>2. /\ Now({"ADDR"}) /\ noLabels /\ keepUnit
        /\ PrintLines(<<Ir.src1, Ir.dst>>, IF Ir.src1.kind = "string" THEN two ELSE <<one>>)
    BY <1>3 DEF EmitAddr
  <2> HIDE DEF one, two
  <2>3. AllPlain(IF Ir.src1.kind = "string" THEN two ELSE <<one>>)
    BY <2>1
  <2>4. QED
    BY <2>2, <2>3, NowIs, PlainKeep
<1>4. CASE EmitMov
  <2> DEFINE one == Asm("movl", Ir.src1, Ir.dst)
             two == <<Load(Ir.src1), Store(Ir.dst)>>
  <2>1. AllPlain(two) /\ AllPlain(<<one>>)
    BY <1>1, <1>2, PlainOne, PlainTwo
  <2>2. /\ Now({"MOV"}) /\ noLabels /\ keepUnit
        /\ PrintLines(<<Ir.src1, Ir.dst>>, IF Ir.src1.kind = "const" THEN <<one>> ELSE two)
    BY <1>4 DEF EmitMov
  <2> HIDE DEF one, two
  <2>3. AllPlain(IF Ir.src1.kind = "const" THEN <<one>> ELSE two)
    BY <2>1
  <2>4. QED
    BY <2>2, <2>3, NowIs, PlainKeep
<1>5. CASE EmitNeg
  <2> DEFINE lines == <<Load(Ir.src1), Asm("negl", Eax, Eax)>>
  <2>1. AllPlain(lines)
    BY <1>1, <1>2, PlainTwo
  <2>2. Now({"NEG"}) /\ noLabels /\ keepUnit /\ PrintLines(<<Ir.src1, Ir.dst>>, lines)
    BY <1>5 DEF EmitNeg
  <2> HIDE DEF lines
  <2>3. QED
    BY <2>1, <2>2, NowIs, PlainKeep
<1>6. CASE EmitRet
  <2> DEFINE lines == <<Load(Ir.src1)>>
  <2>1. AllPlain(lines)
    BY <1>2, PlainOne
  <2>2. Now({"RET"}) /\ noLabels /\ keepUnit /\ PrintLines(<<Ir.src1>>, lines)
    BY <1>6 DEF EmitRet
  <2> HIDE DEF lines
  <2>3. QED
    BY <2>1, <2>2, NowIs, PlainKeep
<1>7. CASE EmitOther
  <2>1. /\ Now({"INC", "BCOM", "DEREF", "LSH", "RSH"}) /\ noLabels /\ keepUnit
        /\ PrintLines(<< >>, << >>)
    BY <1>7 DEF EmitOther
  <2>2. QED
    BY <2>1, NowIs, PlainNone, PlainKeep
<1>8. QED
  BY <1>3, <1>4, <1>5, <1>6, <1>7

LEMMA AluEmits ==
  ASSUME EmInv, LaidCode, EmitAlu \/ EmitDiv
  PROVE  EmInv'
<1>1. \A s, d : Plain(Load(s)) /\ Plain(Store(d))
  BY PlainAsm DEF Load, Store
<1>2. CASE EmitAlu
  <2> DEFINE lines == <<Load(Ir.src1), Asm(Alu[Ir.op], Ir.src2, Eax), Store(Ir.dst)>>
  <2>1. /\ Now(DOMAIN Alu) /\ noLabels /\ keepUnit
        /\ PrintLines(<<Ir.src1, Ir.src2, Ir.dst>>, lines)
    BY <1>2 DEF EmitAlu
  <2>2. Ir.op \in DOMAIN Alu
    BY <2>1 DEF Now, Ir
  <2>3. Alu[Ir.op] \notin {"label", "jmp", "jcc"}
    BY <2>2 DEF Alu
  <2>4. AllPlain(lines)
    BY <1>1, <2>3, PlainAsm, PlainThree
  <2> HIDE DEF lines
  <2>5. QED
    BY <2>1, <2>4, NowIs, PlainKeep
<1>3. CASE EmitDiv
  <2> DEFINE load0 == Asm("movl", Const(0), Edx)
             load1 == Load(Ir.src1)
             div == Asm("divl", Ir.src2, Eax)
             store == Asm("movl", IF Ir.op = "DIV" THEN Eax ELSE Edx, Ir.dst)
             lines == <<load0, load1, div, store>>
  <2>1. /\ Now({"DIV", "MOD"}) /\ noLabels /\ keepUnit
        /\ PrintLines(<<Ir.src1, Ir.src2, Ir.dst>>, lines)
    BY <1>3 DEF EmitDiv
  <2>2. Plain(load0) /\ Plain(load1) /\ Plain(div) /\ Plain(store)
    BY <1>1, PlainAsm
  <2> HIDE DEF load0, load1, div, store
  <2>3. AllPlain(lines)
    BY <2>2, PlainFour
  <2> HIDE DEF lines
  <2>4. QED
    BY <2>1, <2>3, NowIs, PlainKeep
<1>4. QED
  BY <1>2, <1>3

LEMMA CallEmits ==
  ASSUME EmInv, LaidCode, EmitCall
  PROVE  EmInv'
<1> DEFINE n == Len(Ir.src2)
           args == [i \in 1..n |-> Ir.src2[n + 1 - i]]
           pushes == [i \in 1..n |-> Asm("pushl", args[i], Nothing)]
           call == <<AsmOf("call", Sym("const", n), Nothing, Ir.of)>>
           pop == IF n = 0 THEN << >> ELSE <<Asm("addl esp", Sym("const", n), Nothing)>>
<1>1. Now({"CALL"}) /\ noLabels /\ keepUnit /\ PrintLines(args, pushes \o call \o pop)
  BY DEF EmitCall
<1>2. n \in Nat
  <2>1. Ir.op = "CALL"
    BY <1>1 DEF Now, Ir
  <2>2. QED
    BY <1>1, <2>1, NowIs
<1>3. AllPlain(pushes)
  <2>1. IsSeq(pushes) /\ Len(pushes) = n
    BY <1>2, FunctionIs
  <2>2. \A i \in 1..n : pushes[i] = Asm("pushl", args[i], Nothing)
    OBVIOUS
  <2> HIDE DEF pushes, args, n
  <2>3. \A i \in 1..n : Plain(pushes[i])
    BY <2>2, PlainAsm
  <2>4. QED
    BY <2>1, <2>3 DEF AllPlain
<1>4. AllPlain(call)
  BY PlainAsm, PlainOne
<1>5. AllPlain(pop)
  BY PlainAsm, PlainOne, PlainNone
<1> HIDE DEF n, args, pushes, call, pop
<1>6. AllPlain(pushes \o call \o pop)
  BY <1>3, <1>4, <1>5, PlainConcat
<1>7. QED
  BY <1>1, <1>6, NowIs, PlainKeep

\* A jump takes the label of its target, which is wanted.
LEMMA JumpKeep ==
  ASSUME EmInv, LaidCode, NEW ops, Now(ops), ops \subseteq JumpOps, keepUnit, TakeLabel(Ir.to),
         NEW syms, NEW lines, PrintLines(syms, lines), IsSeq(lines),
         \A i \in 1..Len(lines) : Plain(lines[i]) \/
             (~LabelLine(lines[i]) /\ lines[i].a = Label(LabelOf(Ir.to)))
  PROVE  EmInv'
<1>1. InBlock /\ emitting.i # 0 /\ Ir.to \in Wanted /\ Ir.to \in BlockIds
  BY NowIs
<1>2. Numbered(labels, nlabels)
  BY <1>1, InBlockIs DEF Emitting
<1>3. /\ Numbered(labels', nlabels') /\ KeepsLabels(labels, labels', BlockIds)
      /\ labels'[Ir.to] = LabelOf(Ir.to) /\ labels'[Ir.to] # NoLabel
  BY <1>1, <1>2, TakeIs
<1>4. \A i \in 1..Len(lines) : /\ ~LabelLine(lines[i])
                               /\ JumpLine(lines[i]) => Names(lines[i], labels', Wanted)
  BY <1>1, <1>3 DEF Plain, Names
<1>5. QED
  BY <1>1, <1>3, <1>4, LinesKeep

LEMMA JumpsEmit ==
  ASSUME EmInv, LaidCode, EmitJmp \/ EmitJcc
  PROVE  EmInv'
<1> DEFINE Good(line) == Plain(line) \/ (~LabelLine(line) /\ line.a = Label(LabelOf(Ir.to)))
<1>1. \A op, a, b : op \in {"movl", "cmpl"} => Good(Asm(op, a, b))
  BY PlainAsm
<1>2. CASE EmitJmp
  <2> DEFINE jmp == Asm("jmp", Label(LabelOf(Ir.to)), Nothing)
  <2>1. Now({"JMP"}) /\ TakeLabel(Ir.to) /\ PrintLines(<< >>, <<jmp>>) /\ keepUnit
    BY <1>2 DEF EmitJmp
  <2>2. Good(jmp)
    BY DEF Asm, LabelLine
  <2> HIDE DEF jmp, Good
  <2>3. IsSeq(<<jmp>>) /\ \A i \in 1..Len(<<jmp>>) : Good(<<jmp>>[i])
    <3>1. IsSeq(<<jmp>>) /\ Len(<<jmp>>) = 1 /\ <<jmp>>[1] = jmp
      BY LineIs
    <3>2. QED
      BY <2>2, <3>1
  <2>4. {"JMP"} \subseteq JumpOps
    BY DEF JumpOps
  <2>5. QED
    BY <2>1, <2>3, <2>4, JumpKeep DEF Good
<1>3. CASE EmitJcc
  <2> DEFINE two == Ir.src2 # Null
             jcc == AsmOf("jcc", Label(LabelOf(Ir.to)), IF two THEN Nothing ELSE Ir.src1, Ir.of)
             load == Load(Ir.src2)
             cmp == Asm("cmpl", Eax, Ir.src1)
             cmp0 == Asm("cmpl", Const(0), Ir.src1)
             lines == IF two THEN <<load, cmp, jcc>> ELSE <<cmp0, jcc>>
             syms == IF two THEN <<Ir.src2, Ir.src1>> ELSE <<Ir.src1>>
  <2>1. Now({"JCC", "JNZ"}) /\ TakeLabel(Ir.to) /\ PrintLines(syms, lines) /\ keepUnit
    BY <1>3 DEF EmitJcc
  <2>2. Good(jcc)
    BY DEF AsmOf, LabelLine
  <2>3. Good(load) /\ Good(cmp) /\ Good(cmp0)
    BY <1>1 DEF Load
  <2> HIDE DEF jcc, load, cmp, cmp0, syms, two, Good
  <2>4. IsSeq(<<load, cmp, jcc>>) /\ \A i \in 1..Len(<<load, cmp, jcc>>) : Good(<<load, cmp, jcc>>[i])
    BY <2>2, <2>3, ThreeLines
  <2>5. IsSeq(<<cmp0, jcc>>) /\ \A i \in 1..Len(<<cmp0, jcc>>) : Good(<<cmp0, jcc>>[i])
    BY <2>2, <2>3, TwoLines
  <2>6. IsSeq(lines) /\ \A i \in 1..Len(lines) : Good(lines[i])
    BY <2>4, <2>5
  <2>7. {"JCC", "JNZ"} \subseteq JumpOps
    BY DEF JumpOps
  <2> HIDE DEF lines
  <2>8. QED
    BY <2>1, <2>6, <2>7, JumpKeep DEF Good
<1>4. QED
  BY <1>2, <1>3

LEMMA EmissionKeeps ==
  ASSUME EmInv, LaidCode, PlacedOnce, WalkInv, Emission
  PROVE  EmInv'
<1>1. CASE EmitIR
  BY <1>1, MovesEmit, AluEmits, CallEmits, JumpsEmit DEF EmitIR
<1>2. QED
  BY <1>1, FunctionEmits, LabelEmits, NextEmits DEF Emission

\* The unit is lowered before anything is emitted.
LEMMA LoweredFirst ==
  ASSUME Generated
  PROVE  ~Generate
<1> USE DEF Generated, Doing, At
<1>1. ~VisitFunction /\ ~FinishFunction
  BY DEF VisitFunction, FinishFunction
<1>2. ~Statement
  BY DEF Statement, VisitExprStmt, Drop, VisitReturn, GenReturn, VisitIf, VisitWhile, VisitDo,
         VisitFor, ForLoop, VisitCompound, VisitInitDeclarator, InitVariable, VisitWrapped, VisitStub
<1>3. ~Condition
  BY DEF Condition, BranchLogic, BranchRelation, BranchNot, BranchConstant, BranchValue, GenTest,
         GenTestValue
<1>4. ~Expression
  BY DEF Expression, EvalConstant, EvalIdentifier, EvalString, EvalUnary, ApplyUnary,
         TranslateIncrement, EvalBinary, ApplyBinary, EvalTest, EvalCall, TranslateCall,
         EvalIndex, EvalMember
<1>5. ~Code
  BY DEF Code, StartBBlock, GenJump, GenMove, Return
<1>6. QED
  BY <1>1, <1>2, <1>3, <1>4, <1>5 DEF Generate

LEMMA EmStepKeeps ==
  ASSUME EmInv, IInv, WalkInv, [EmitNextStep]_unitVars
  PROVE  EmInv'
<1>1. CASE LowerStep
  <2>1. Before(emitting, labels, nlabels, asm)
    BY <1>1, LoweredFirst DEF EmInv, LowerStep
  <2>2. UNCHANGED <<emitting, labels, nlabels, asm>>
    BY <1>1 DEF LowerStep, emitVars
  <2>3. QED
    BY <2>1, <2>2 DEF EmInv, Before
<1>2. CASE Emission
  <2>1. Generated
    BY <1>2 DEF Emission, EmitFunction, EmitLabel, EmitNext, InBlock, EmitIR, EmitAddr, EmitMov,
                EmitAlu, EmitDiv, EmitNeg, EmitCall, EmitRet, EmitJmp, EmitJcc, EmitOther, Now
  <2>2. LaidCode /\ PlacedOnce
    BY <2>1, CodeIsLaid DEF IInv, LayoutInv
  <2>3. QED
    BY <1>2, <2>2, EmissionKeeps
<1>3. CASE UNCHANGED unitVars
  <2>1. /\ keepUnit
        /\ emitting' = emitting /\ labels' = labels /\ nlabels' = nlabels /\ asm' = asm
    BY <1>3 DEF unitVars, keepUnit
  <2>2. CASE Before(emitting, labels, nlabels, asm)
    BY <2>1, <2>2 DEF EmInv, Before
  <2>3. CASE Generated /\ Emitting(emitting, labels, nlabels, asm)
    <3>1. Emitting(emitting', labels', nlabels', asm')
      BY <2>1, <2>3
    <3>2. QED
      BY <2>1, <2>3, <3>1, Goes
  <2>4. QED
    BY <2>2, <2>3 DEF EmInv
<1>4. QED
  BY <1>1, <1>2, <1>3 DEF EmitNextStep, EmitStop

-----------------------------------------------------------------------------
(* The theorems.                                                           *)

\* The emitter only reads what the generator left.
LEMMA StepLowers == [EmitNextStep]_unitVars => [Next]_vars
<1>1. Emission => UNCHANGED vars
  BY DEF Emission, EmitFunction, EmitLabel, EmitNext, EmitIR, EmitAddr, EmitMov, EmitAlu,
         EmitDiv, EmitNeg, EmitCall, EmitRet, EmitJmp, EmitJcc, EmitOther, keepUnit, vars
<1>2. UNCHANGED unitVars => UNCHANGED vars
  BY DEF unitVars, vars
<1>3. LowerStep => Next
  BY DEF LowerStep, Next
<1>4. QED
  BY <1>1, <1>2, <1>3 DEF EmitNextStep, EmitStop

LEMMA UnitLowers == EmitSpec => Spec
<1>1. EmitInit => Init
  BY DEF EmitInit
<1>2. [EmitNextStep]_unitVars => [Next]_vars
  BY StepLowers
<1>3. QED
  BY <1>1, <1>2, PTL DEF EmitSpec, Spec

LEMMA EmitHolds == EmitSpec => [](IInv /\ WalkInv /\ EmInv)
<1>1. EmitSpec => []IInv
  BY UnitLowers, InvariantHolds, PTL
<1>2. EmitInit => WalkInv /\ EmInv
  <2>1. EmitInit => Init
    BY DEF EmitInit
  <2>2. EmitInit => EmInv
    BY DEF EmitInit, EmInv, Before
  <2>3. QED
    BY <2>1, <2>2, InitWalk
<1>3. [EmitNextStep]_unitVars => [Next]_vars
  BY StepLowers
<1>4. IInv /\ WalkInv /\ EmInv /\ [EmitNextStep]_unitVars => WalkInv' /\ EmInv'
  BY <1>3, StepWalk, EmStepKeeps
<1>5. QED
  BY <1>1, <1>2, <1>4, PTL DEF EmitSpec

LEMMA LabelsGood ==
  ASSUME IInv, WalkInv, EmInv
  PROVE  LabelsDefined
<1>1. CASE Before(emitting, labels, nlabels, asm)
  <2>1. 1..nlabels = {} /\ DOMAIN asm = {}
    BY <1>1, EmptyIs DEF Before
  <2>2. QED
    BY <2>1 DEF LabelsDefined, JumpLines
<1>2. CASE Generated /\ Emitting(emitting, labels, nlabels, asm)
  <2>1. PICK V : Walked(emitting, V) /\ Prints(asm, labels, V, Wanted)
    BY <1>2 DEF Emitting
  <2>2. IsSeq(asm) /\ DOMAIN asm = 1..Len(asm)
    BY <2>1, SeqIs DEF Prints
  <2>3. ASSUME NEW n \in 1..nlabels
        PROVE  Cardinality(LabelLines(n)) <= 1
    <3>1. \A i, j \in LabelLines(n) : i = j
      BY <2>1, <2>2 DEF Prints, LabelLines, LabelLine
    <3>2. CASE LabelLines(n) = {}
      <4>1. Cardinality(LabelLines(n)) = 0
        BY <3>2, FS_EmptySet
      <4>2. QED
        BY <4>1
    <3>3. CASE LabelLines(n) # {}
      <4>1. PICK i : i \in LabelLines(n)
        BY <3>3
      <4>2. LabelLines(n) = {i}
        BY <3>1, <4>1
      <4>3. Cardinality(LabelLines(n)) = 1
        BY <4>2, FS_Singleton
      <4>4. QED
        BY <4>3
    <3>4. QED
      BY <3>2, <3>3
  <2>4. ASSUME Emitted, NEW i \in JumpLines
        PROVE  LabelLines(asm[i].a.id) # {}
    <3>1. LaidCode
      BY <1>2, CodeIsLaid
    <3>2. emitting.bb = NoBlock /\ emitting.fn = Len(funcs)
      BY <2>4 DEF Emitted
    <3>3. \A f \in DOMAIN funcs : funcs[f].entry \in V
      BY <2>1, <3>1, <3>2 DEF Walked, LaidCode
    <3>4. Entries \subseteq V
      BY <3>3 DEF Entries
    <3>5. V \subseteq BlockIds /\ NoBlock \notin V
      BY <2>1, <3>1 DEF Walked, LaidCode
    <3>6. ClosedIn(blocks, V)
      BY <2>1, <3>2, <3>5 DEF Walked, ClosedIn
    <3>7. Follow \subseteq V
      BY <3>4, <3>6 DEF WalkInv, Chained, Follow, FollowIn, BlockIds
    <3>8. Wanted \subseteq V
      BY <3>4, <3>7 DEF Wanted, Placed
    <3>9. i \in 1..Len(asm) /\ JumpLine(asm[i])
      BY <2>2, <2>4 DEF JumpLines, JumpLine
    <3>10. PICK b \in Wanted : labels[b] # NoLabel /\ asm[i].a = Label(labels[b])
      BY <2>1, <3>9 DEF Prints, Names
    <3>11. PICK j \in 1..Len(asm) : LabelLine(asm[j]) /\ asm[j].a = Label(labels[b])
      BY <2>1, <3>8, <3>10 DEF Prints
    <3>12. asm[i].a.id = labels[b]
      BY <3>10 DEF Label, Sym
    <3>13. j \in LabelLines(labels[b])
      BY <2>2, <3>11 DEF LabelLines, LabelLine
    <3>14. QED
      BY <3>12, <3>13
  <2>5. QED
    BY <2>3, <2>4 DEF LabelsDefined
<1>3. QED
  BY <1>1, <1>2 DEF EmInv

\* Whatever the unit, no label is printed twice, and when all its functions are
\* out every label a jump names is printed: a block's label is taken on the first
\* jump to it or when it is reached, and jumps forward trust emitBBlock to come by.
THEOREM LabelsAreDefined == EmitSpec => []LabelsDefined
<1>1. IInv /\ WalkInv /\ EmInv => LabelsDefined
  BY LabelsGood
<1>2. QED
  BY <1>1, EmitHolds, PTL
=============================================================================
