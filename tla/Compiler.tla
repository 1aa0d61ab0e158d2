------------------------------- MODULE Compiler -------------------------------
(***************************************************************************)
(* The passes of Driver::compileFile on one text: the parser, the checker, *)
(* the lowering and the emission, each taking what the one before it made. *)
(*                                                                         *)
(* Parser and X86Emit are the modules of the passes; the tree is handed    *)
(* from one to the other in Lowered, class by class.  An "ID" of a text is *)
(* always the same name, so whether it is declared when the checker meets  *)
(* it (a variable, or the function that is being defined) is left open.    *)
(***************************************************************************)
EXTENDS CGrammar

VARIABLES
  stage,    \* the pass that runs, or "refused"
  program, funcs, lowering, symbols, blocks, cur, temps, crashed,
  emitting, labels, nlabels, asm, slots, failed

G == INSTANCE X86Emit WITH work <- lowering, vals <- symbols, Programs <- {}, Trees <- {}
backVars == <<program, funcs, lowering, symbols, blocks, cur, temps, crashed,
              emitting, labels, nlabels, asm, slots, failed>>

-----------------------------------------------------------------------------
(* The tree as the generator's visitor methods read it.                    *)

UnaryOp == [t \in PrefixSigns |->
  CASE t = "-" -> "OP_NEG" [] t = "!" -> "OP_NOT" [] t = "~" -> "OP_COMP"
    [] t = "*" -> "OP_DEREF" [] t = "&" -> "OP_ADDRESS" [] t = "+" -> "OP_POS"
    [] t = "++" -> "OP_PREINC" [] t = "--" -> "OP_PREDEC" [] t = "sizeof" -> "OP_SIZEOF"]
BinaryOp == [t \in (DOMAIN Prec \ Assignments) \cup {"=", "OP_NONE"} |->
  CASE t = "||" -> "OP_OR" [] t = "&&" -> "OP_AND" [] t = "|" -> "OP_BITOR"
    [] t = "^" -> "OP_BITXOR" [] t = "&" -> "OP_BITAND" [] t = "==" -> "OP_EQUAL"
    [] t = "<" -> "OP_LESS" [] t = "<<" -> "OP_LSHIFT" [] t = "+" -> "OP_ADD"
    [] t = "-" -> "OP_SUB" [] t = "*" -> "OP_MUL" [] t = "/" -> "OP_DIV"
    [] t = "=" -> "OP_ASSIGN" [] t = "," -> "OP_COMMA" [] t = "OP_NONE" -> "OP_NONE"]

RECURSIVE ExprOf(_), StmtOf(_)

SuffixOf(n) ==
  LET obj == ExprOf(n.parts[1])
      args == Tail(n.parts)
  IN CASE n.kind = "Call" -> [kind |-> "Call", func |-> obj, args |-> [i \in DOMAIN args |-> ExprOf(args[i])]]
       [] n.kind = "Index" -> [kind |-> "Index", op |-> "OP_INDEX", a |-> obj, b |-> ExprOf(n.parts[2])]
       [] n.kind = "Member" -> [kind |-> "Member", a |-> obj,
                                op |-> IF n.op = "->" THEN "OP_PTR_MEMBER" ELSE "OP_MEMBER"]
       [] n.kind = "Postfix" -> [kind |-> "Unary", a |-> obj,
                                 op |-> IF n.op = "++" THEN "OP_POSTINC" ELSE "OP_POSTDEC"]

ExprOf(n) ==
  CASE n.kind = "Absent" -> G!None
    [] n.kind = "Constant" -> [kind |-> "Constant", value |-> 1]
    [] n.kind = "Identifier" -> [kind |-> "Identifier", id |-> 1]
    [] n.kind = "String" -> [kind |-> "String"]
    [] n.kind = "Unary" -> [kind |-> "Unary", op |-> UnaryOp[n.op], a |-> ExprOf(n.parts[1])]
    [] n.kind = "Binary" -> [kind |-> "Binary", op |-> BinaryOp[n.op],
                             a |-> ExprOf(n.parts[1]), b |-> ExprOf(n.parts[2])]
    [] OTHER -> SuffixOf(n)

\* An InitDeclarator with no name has the empty one.
DeclaratorOf(n) ==
  [kind |-> "InitDeclarator",
   id |-> IF n.parts[1].at = 0 THEN G!NoName ELSE 1,
   a |-> IF Len(n.parts) = 1 THEN G!None ELSE ExprOf(n.parts[2])]
DeclaratorsOf(declaration) == [i \in DOMAIN declaration.parts |-> DeclaratorOf(declaration.parts[i])]

CompoundOf(n) ==
  LET is(d) == d.kind = "Declaration"
      isNot(d) == ~is(d)
      decls == SelectSeq(n.parts, is)
      stmts == SelectSeq(n.parts, isNot)
  IN [kind |-> "Compound", decls |-> FlattenSeq([i \in DOMAIN decls |-> DeclaratorsOf(decls[i])]),
      stmts |-> [i \in DOMAIN stmts |-> StmtOf(stmts[i])]]

LoopOf(n) ==
  CASE n.kind = "While" -> [kind |-> "While", cond |-> ExprOf(n.parts[1]), body |-> StmtOf(n.parts[2])]
    [] n.kind = "Do" -> [kind |-> "Do", cond |-> ExprOf(n.parts[2]), body |-> StmtOf(n.parts[1])]
    [] n.kind = "For" -> [kind |-> "For", init |-> ExprOf(n.parts[1]), cond |-> ExprOf(n.parts[2]),
                          incr |-> ExprOf(n.parts[3]), body |-> StmtOf(n.parts[4])]

SelectionOf(n) ==
  IF n.kind = "Switch" THEN [kind |-> "Wrapped", body |-> StmtOf(n.parts[2])]
  ELSE [kind |-> "If", cond |-> ExprOf(n.parts[1]), then |-> StmtOf(n.parts[2]),
        else |-> IF Len(n.parts) = 2 THEN G!None ELSE StmtOf(n.parts[3])]

JumpOf(n) ==
  IF n.kind = "Return" THEN [kind |-> "Return", a |-> ExprOf(n.parts[1])]
  ELSE [kind |-> "Stub", op |-> n.kind]

StmtOf(n) ==
  CASE n.kind = "ExprStmt" ->
         [kind |-> "ExprStmt", a |-> IF n.parts = << >> THEN G!None ELSE ExprOf(n.parts[1])]
    [] n.kind = "Label" -> [kind |-> "Wrapped", body |-> StmtOf(Last(n.parts))]
    [] n.kind \in {"If", "Switch"} -> SelectionOf(n)
    [] n.kind \in {"While", "Do", "For"} -> LoopOf(n)
    [] n.kind \in {"Break", "Continue", "Goto", "Return"} -> JumpOf(n)
    [] n.kind = "Compound" -> CompoundOf(n)

\* The declarations at file level lower to nothing.
FunctionsOf(unit) ==
  LET isFunction(n) == n.kind = "Function"
      fs == SelectSeq(unit.parts, isFunction)
  IN [i \in DOMAIN fs |-> StmtOf(fs[i].parts[2])]

-----------------------------------------------------------------------------
(* The checker goes into these parts of a node and no others.              *)
VisitedParts(n) ==
  IF n.kind \in {"Unit", "Compound", "Declaration", "Binary", "ExprStmt", "If", "While", "Do", "For", "Return"}
  THEN DOMAIN n.parts
  ELSE IF n.kind = "Function" THEN {2} ELSE {}
RECURSIVE MeetsName(_)
MeetsName(n) == n.kind = "Identifier" \/ \E i \in VisitedParts(n) : MeetsName(n.parts[i])

CompileInit ==
  /\ ParseInit
  /\ stage = "parse"
  /\ program = << >> /\ funcs = << >> /\ lowering = << >> /\ symbols = << >>
  /\ blocks = << >> /\ cur = G!NoBlock /\ temps = 0 /\ crashed = FALSE
  /\ emitting = [fn |-> 0, bb |-> G!NoBlock, i |-> 1]
  /\ labels = << >> /\ nlabels = 0 /\ asm = << >> /\ slots = << >> /\ failed = FALSE

Parse == stage = "parse" /\ ParseNext /\ UNCHANGED <<stage, backVars>>

AfterParse ==
  /\ stage = "parse" /\ Done
  /\ stage' = IF errors THEN "refused" ELSE "check"
  /\ UNCHANGED <<parseVars, backVars>>

\* An undeclared name is an error, and a unit with errors is not lowered.
Check ==
  /\ stage = "check"
  /\ errors' \in IF MeetsName(Tree) THEN BOOLEAN ELSE {FALSE}
  /\ stage' = IF errors' THEN "refused" ELSE "lower"
  /\ program' = IF errors' THEN program ELSE FunctionsOf(Tree)
  /\ UNCHANGED <<text, pos, work, vals, dropped, funcs, lowering, symbols, blocks, cur, temps,
                 crashed, emitting, labels, nlabels, asm, slots, failed>>

Lower == stage = "lower" /\ G!LowerStep /\ UNCHANGED <<parseVars, stage>>
Emission == stage = "lower" /\ G!Emission /\ UNCHANGED <<parseVars, stage>>

CompileNext == Parse \/ AfterParse \/ Check \/ Lower \/ Emission

\* One thread: it goes on as long as there is something to do.
CompileSpec ==
  /\ CompileInit /\ [][CompileNext]_<<parseVars, stage, backVars>>
  /\ WF_<<parseVars, stage, backVars>>(CompileNext)

-----------------------------------------------------------------------------
(* Properties.                                                             *)

Died == crashed \/ failed
Compiled == stage = "lower" /\ G!Emitted
Finished == stage = "refused" \/ Died \/ Compiled

RECURSIVE NoValue(_)
\* A call yields no symbol, and some operators hand that of an operand on.
NoValue(e) ==
  \/ e.kind = "Call"
  \/ /\ \/ e.kind = "Unary" /\ e.op \in {"+", "sizeof"}
        \/ e.kind = "Binary" /\ e.op \in {"=", "OP_NONE", ","}
        \/ e.kind = "Member" /\ e.op = "."
     /\ NoValue(e.parts[1])

\* The parts of a node whose value its code needs.
Needed(n) ==
  CASE n.kind = "Unary" /\ n.op \notin {"+", "sizeof"} -> {1}
    [] n.kind = "Binary" /\ n.op \in {"==", "<", "<<"} -> {1}
    [] n.kind = "Binary" /\ n.op \in DOMAIN Prec \ ({"==", "<", "<<", ","} \cup Assignments) -> {1, 2}
    [] n.kind = "Index" -> {1, 2}
    [] n.kind = "Member" /\ n.op = "->" -> {1}
    [] n.kind \in {"Call", "Postfix", "Return", "If", "While"} -> {1}
    [] n.kind \in {"Do", "For"} -> {2}
    [] OTHER -> {}

\* Not lowered: the value a switch goes by, and what no name is initialised with.
LeftOut(n) == CASE n.kind = "Switch" -> {1}
                [] n.kind = "InitDeclarator" /\ n.parts[1].at = 0 -> {2}
                [] OTHER -> {}
RECURSIVE LoweredNodes(_)
LoweredNodes(n) == {n} \cup UNION {LoweredNodes(n.parts[i]) : i \in DOMAIN n.parts \ LeftOut(n)}

\* What the parser accepts and the checker lets pass is compiled to the end,
\* but for one cause: the compiler dereferences a null symbol exactly if the
\* text uses the value of a call, for a call has none (translateCallExpr).
\* So no tree without an error in it has a child missing that a pass needs.
DiesForCallsOnly ==
  Finished /\ stage = "lower" =>
    (Died <=> \E n \in LoweredNodes(Tree) : \E i \in Needed(n) : NoValue(n.parts[i]))

\* On every text that brings the parser neither to a case label nor to a token
\* no external declaration begins with, the compiler comes to an end.
Halts == [](~AtCase) /\ [](~UnitStuck) => <>Finished
=============================================================================
