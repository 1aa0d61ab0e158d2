------------------------------ MODULE SourceC ------------------------------
(***************************************************************************)
(* What a C function body does, as an abstract machine over the same tree  *)
(* the lowering reads: the reference the generated code is compared with.  *)
(*                                                                         *)
(* The machine is a continuation (a stack of tasks) and a stack of values. *)
(* Data is abstract: a value is 0, 1 or Any.  What an observer sees are    *)
(* the events: a condition on an unknown value being decided, a call, a    *)
(* store to a variable, and the return of the function.  Between events    *)
(* the machine is deterministic.  Operands are evaluated left to right,    *)
(* one of the orders C allows.                                             *)
(***************************************************************************)
EXTENDS Integers, Sequences

VARIABLES
  cont,    \* the continuation
  stack    \* the values of the expressions evaluated so far

srcVars == <<cont, stack>>

Any == 2
Absent == [kind |-> "None"]

Step(do, node) == [do |-> do, node |-> node]
Exec(s) == IF s = Absent THEN << >> ELSE <<Step("exec", s)>>
Value(e) == <<Step("value", e)>>
Push(v) == <<[do |-> "push", val |-> v]>>
Cond(e, yes, no) == <<[do |-> "cond", node |-> e, yes |-> yes, no |-> no]>>
Effects(e) == IF e = Absent THEN << >> ELSE Value(e) \o <<Step("pop", e)>>
Again(s) == <<Step("again", s)>>
Leave(s) == <<Step("leave", s)>>

All(do, s) == [i \in 1..Len(s) |-> Step(do, s[i])]

Identifier(x) == [kind |-> "Identifier", id |-> x]
Event(ev, of, val) == [ev |-> ev, of |-> of, val |-> val]

-----------------------------------------------------------------------------
Rel == {"OP_EQUAL", "OP_UNEQUAL", "OP_GREAT", "OP_LESS", "OP_GREAT_EQ", "OP_LESS_EQ"}
Incr == {"OP_PREINC", "OP_PREDEC", "OP_POSTINC", "OP_POSTDEC"}
IsRel(e) == e.kind = "Binary" /\ e.op \in Rel
IsLogic(e) == e.kind = "Binary" /\ e.op \in {"OP_AND", "OP_OR"}
IsNot(e) == e.kind = "Unary" /\ e.op = "OP_NOT"
IsArith(e) == e.kind = "Binary" /\ ~IsRel(e) /\ ~IsLogic(e) /\ e.op \notin {"OP_ASSIGN", "OP_COMMA"}
IsLoop(s) == s.kind \in {"While", "Do", "For"}

\* The tasks that evaluate expression e.
Evaluation(e) ==
  CASE e.kind = "Constant" -> Push(e.value)
    [] e.kind \in {"Identifier", "String"} -> Push(Any)
    [] IsRel(e) \/ IsLogic(e) \/ IsNot(e) -> Cond(e, Push(1), Push(0))
    [] e.kind = "Call" ->
         Value(e.func) \o All("value", e.args) \o <<Step("called", e)>>
    [] e.kind = "Unary" /\ e.op = "OP_POS" -> Value(e.a)
    [] e.kind = "Unary" /\ e.op \in Incr -> Value(e.a) \o <<Step("store", e.a)>>
    [] e.kind = "Unary" /\ e.op \notin Incr \cup {"OP_POS", "OP_NOT"} ->
         Value(e.a) \o <<Step("operate", e)>>
    [] e.kind = "Binary" /\ e.op = "OP_ASSIGN" -> Value(e.b) \o <<Step("assign", e.a)>>
    [] e.kind = "Binary" /\ e.op = "OP_COMMA" -> Effects(e.a) \o Value(e.b)
    [] IsArith(e) \/ e.kind = "Index" -> Value(e.a) \o Value(e.b) \o <<Step("operate2", e)>>
    [] e.kind = "Member" -> Value(e.a)

\* The tasks that decide condition e and go on with yes or no.
Decision(e, yes, no) ==
  CASE IsRel(e) -> Value(e.a) \o Value(e.b) \o
                   <<[do |-> "compare", node |-> e, yes |-> yes, no |-> no]>>
    [] IsLogic(e) /\ e.op = "OP_AND" -> Cond(e.a, Cond(e.b, yes, no), no)
    [] IsLogic(e) /\ e.op = "OP_OR" -> Cond(e.a, yes, Cond(e.b, yes, no))
    [] IsNot(e) -> Value(e.a) \o <<[do |-> "decide", node |-> e.a, yes |-> no, no |-> yes]>>
    [] OTHER -> Value(e) \o <<[do |-> "decide", node |-> e, yes |-> yes, no |-> no]>>

Loop(s) == Cond(s.cond, Exec(s.body) \o Again(s), << >>)

Execution(s) ==
  CASE s.kind = "ExprStmt" -> Effects(s.a)
    [] s.kind = "Return" -> (IF s.a = Absent THEN Push(0) ELSE Value(s.a))
                            \o <<Step("return", s)>>
    [] s.kind = "If" -> Cond(s.cond, Exec(s.then), Exec(s.else))
    [] s.kind = "While" -> Again(s) \o Leave(s)
    [] s.kind = "Do" -> Exec(s.body) \o Again(s) \o Leave(s)
    [] s.kind = "For" -> Effects(s.init) \o <<Step("enter", s)>> \o Leave(s)
    [] s.kind = "Compound" -> All("exec", s.decls) \o All("exec", s.stmts)
    [] s.kind = "InitDeclarator" ->
         IF s.a = Absent THEN << >>
         ELSE Value(s.a) \o <<Step("assign", Identifier(s.id)), Step("pop", s.a)>>

ForTest(s) == IF s.cond = Absent THEN Exec(s.body) \o Again(s) ELSE Loop(s)

\* Where the next turn of a loop starts: continue comes here, too.
NextTurn(s) == CASE s.kind = "For" -> Effects(s.incr) \o <<Step("enter", s)>>
                 [] OTHER -> Loop(s)

-----------------------------------------------------------------------------
(* The machine at continuation k with the values v.                        *)

\* break drops everything up to the end of the innermost loop.
First(do, k) == CHOOSE i \in DOMAIN k : k[i].do = do /\ \A j \in 1..(i - 1) : k[j].do # do
AfterBreak(k) == SubSeq(k, First("leave", k) + 1, Len(k))
AfterContinue(k) == SubSeq(k, First("again", k), Len(k))

\* The event the machine is about to perform, if it is at one.
EventAt(k, v) ==
  IF k = << >> THEN Event("return", Absent, 0)
  ELSE LET top == Head(k) IN
       CASE top.do = "return" -> Event("return", Absent, v[1])
         [] top.do = "called" -> Event("call", top.node, Any)
         [] top.do = "compare" -> Event("test", top.node, Any)
         [] top.do = "decide" /\ v[1] = Any -> Event("test", top.node, Any)
         [] top.do = "store" -> Event("store", top.node, Any)
         [] top.do = "assign" -> Event("store", top.node, v[1])
         [] OTHER -> Event("none", Absent, 0)

\* The tasks that take the first one's place, and the values that take the place
\* of the first n.
Going(tasks, k, v) == [cont |-> tasks \o Tail(k), stack |-> v]
Popping(n, more, k, v) == [cont |-> Tail(k), stack |-> more \o SubSeq(v, n + 1, Len(v))]
Deciding(tasks, n, k, v) == [cont |-> tasks \o Tail(k), stack |-> SubSeq(v, n + 1, Len(v))]

\* Where a step nobody sees leads.
Silently(k, v) ==
  LET top == Head(k) IN
  CASE top.do = "exec" /\ top.node.kind # "Stub" -> Going(Execution(top.node), k, v)
    [] top.do = "exec" /\ top.node.kind = "Stub" ->
         [cont |-> IF top.node.op = "break" THEN AfterBreak(k) ELSE AfterContinue(k), stack |-> v]
    [] top.do = "value" -> Going(Evaluation(top.node), k, v)
    [] top.do = "cond" -> Going(Decision(top.node, top.yes, top.no), k, v)
    [] top.do = "enter" -> Going(ForTest(top.node), k, v)
    [] top.do = "again" -> Going(NextTurn(top.node), k, v)
    [] top.do = "leave" -> Going(<< >>, k, v)
    [] top.do = "push" -> Popping(0, <<top.val>>, k, v)
    [] top.do = "pop" -> Popping(1, << >>, k, v)
    [] top.do = "operate" -> Popping(1, <<Any>>, k, v)
    [] top.do = "operate2" -> Popping(2, <<Any>>, k, v)
    [] top.do = "decide" -> Deciding(IF v[1] = 1 THEN top.yes ELSE top.no, 1, k, v)

\* Where the event leads; a test goes the way it is told.
Performing(k, v, outcome) ==
  LET top == Head(k) IN
  CASE top.do = "called" -> Popping(Len(top.node.args) + 1, <<Any>>, k, v)
    [] top.do = "compare" -> Deciding(IF outcome THEN top.yes ELSE top.no, 2, k, v)
    [] top.do = "decide" -> Deciding(IF outcome THEN top.yes ELSE top.no, 1, k, v)
    [] top.do = "store" -> Popping(1, <<Any>>, k, v)
    [] top.do = "assign" -> Going(<< >>, k, v)

-----------------------------------------------------------------------------
SrcEvent == EventAt(cont, stack)
Becomes(state) == cont' = state.cont /\ stack' = state.stack

SrcSilent == SrcEvent.ev = "none" /\ Becomes(Silently(cont, stack))
SrcPerform(outcome) == SrcEvent.ev # "return" /\ Becomes(Performing(cont, stack, outcome))
=============================================================================
