------------------------------ MODULE MCTrees ------------------------------
(* Syntax trees for the bounded instances: every statement form around      *)
(* every form of condition, and a selection of nestings.                    *)
EXTENDS Integers, Sequences

NoNode == [kind |-> "None"]
C(v) == [kind |-> "Constant", value |-> v]
X(i) == [kind |-> "Identifier", id |-> i]
Str == [kind |-> "String"]
Un(op, a) == [kind |-> "Unary", op |-> op, a |-> a]
Bin(op, a, b) == [kind |-> "Binary", op |-> op, a |-> a, b |-> b]
Fn(i, args) == [kind |-> "Call", func |-> X(i), args |-> args]
And(a, b) == Bin("OP_AND", a, b)
Or(a, b) == Bin("OP_OR", a, b)
Not(a) == Un("OP_NOT", a)
Less(a, b) == Bin("OP_LESS", a, b)
Inc(i) == Un("OP_POSTINC", X(i))

ExprS(e) == [kind |-> "ExprStmt", a |-> e]
Ret(e) == [kind |-> "Return", a |-> e]
If(c, s, t) == [kind |-> "If", cond |-> c, then |-> s, else |-> t]
While(c, s) == [kind |-> "While", cond |-> c, body |-> s]
DoWhile(s, c) == [kind |-> "Do", cond |-> c, body |-> s]
For(i, c, n, s) == [kind |-> "For", init |-> i, cond |-> c, incr |-> n, body |-> s]
Decl(i, e) == [kind |-> "InitDeclarator", id |-> i, a |-> e]
Blk(d, s) == [kind |-> "Compound", decls |-> d, stmts |-> s]
Stub(op) == [kind |-> "Stub", op |-> op]
Wrapped(s) == [kind |-> "Wrapped", body |-> s]
Printf(i) == ExprS(Fn(i, <<Str, X(1)>>))

Less12 == Less(X(1), X(2))
Atoms == {C(0), C(1), X(1)}
Tests == Atoms \cup {Less12, Not(C(1)), Not(X(1)), Not(Less12)}
         \cup {And(a, b) : a \in Atoms, b \in {X(2), Less12}}
         \cup {Or(a, b) : a \in Atoms, b \in {X(2), Less12}}
Deep == {And(Or(X(1), X(2)), Not(X(3))), Or(Not(And(X(1), X(2))), X(3)),
         Not(Not(X(1))), Not(And(X(1), X(2))), Un("OP_POS", And(X(1), X(2))),
         Less(And(X(1), X(2)), Not(X(3))),
         And(Bin("OP_ADD", X(1), Un("OP_NEG", X(2))), Less(X(1), C(1)))}

Ifs(tests, bodies) == {If(c, s, t) : c \in tests, s \in bodies, t \in {NoNode, Printf(8)}}
Loops(tests, bodies) ==
  {While(c, s) : c \in tests, s \in bodies} \cup {DoWhile(s, c) : c \in tests, s \in bodies}
  \cup {For(IF c = NoNode THEN c ELSE Inc(2), c, Inc(1), s) : c \in tests \cup {NoNode}, s \in bodies}
OneLevel(tests, bodies) == Ifs(tests, bodies) \cup Loops(tests, bodies)

Inner == {If(Or(X(2), X(3)), Ret(C(1)), Printf(6)), While(Not(X(2)), Printf(5)),
          For(Inc(1), Less12, Inc(2), ExprS(Fn(5, << >>))),
          Blk(<<Decl(3, And(X(1), X(2)))>>, <<Printf(5), Ret(X(3))>>)}

Main(s) == Blk(<<Decl(1, C(0)), Decl(2, Less12), Decl(3, NoNode)>>, <<s, Printf(9)>>)

\* Structured programs: no goto, break or continue that matters, no use of the
\* value of a call, no assignment.
Structured ==
  {<<Main(s)>> : s \in Ifs(Tests \cup Deep, {Ret(And(X(1), X(2))), NoNode})
                       \cup Loops(Tests, {Printf(7)}) \cup Loops({X(1)}, {Ret(X(1)), NoNode})
                       \cup OneLevel({And(X(1), X(2))}, Inner)}
  \cup {<<Blk(<< >>, <<Ret(e)>>), Blk(<< >>, <<ExprS(e)>>)>> : e \in Tests \cup Deep}
  \cup {<<Main(While(X(1), Blk(<< >>, <<Printf(7), Stub("continue")>>)))>>,
        <<Main(DoWhile(Blk(<< >>, <<Printf(7), Stub("break")>>), C(0)))>>}

\* Programs the backend can finish: they return only at their end, and use no
\* operator it prints as a comment and no negation of a constant.
Emittable ==
  {<<Main(s)>> :
     s \in Ifs((Tests \ {Not(C(1))}) \cup {And(Or(X(1), X(2)), Not(X(3))), Less(And(X(1), X(2)), Not(X(3)))},
               {Printf(7), NoNode})
          \cup {While(c, t) : c \in Tests \ {Not(C(1))}, t \in {Printf(7), NoNode}}
          \cup {DoWhile(Printf(7), c) : c \in {Not(X(1)), Or(X(1), X(2))}}
          \cup {For(i, c, Fn(5, <<Str>>), t) : i \in {NoNode, Fn(6, << >>)}, c \in {NoNode, Less12},
                                              t \in {Printf(7), While(And(X(1), X(2)), Printf(4))}}}
  \cup {<<Blk(<< >>, <<Ret(e)>>), Blk(<<Decl(1, C(1))>>, <<ExprS(e)>>)>> :
           e \in (Tests \ {Not(C(1))}) \cup {Not(And(X(1), X(2))), Bin("OP_ADD", X(1), C(1)),
                                             Bin("OP_DIV", X(1), X(2)),
                                             Bin("OP_MOD", Less12, Bin("OP_ADD", X(1), C(1)))}}

\* Immediates where memory is wanted, and where they are not in the way.
Misplaced ==
  {Bin(op, X(1), e) : op \in {"OP_DIV", "OP_MOD"},
                      e \in {C(1), Un("OP_POS", C(1)), Bin("OP_COMMA", C(1), X(2)), Not(C(1))}}
  \cup {Bin("OP_DIV", C(1), X(1)), Un("OP_PREINC", C(1)), Un("OP_PREINC", Un("OP_POS", X(1))),
        Less(C(1), X(1)), Less(Bin("OP_COMMA", C(1), X(1)), C(1)), Less(X(1), Un("OP_PREINC", C(0))),
        Not(Un("OP_SIZEOF", C(1))), Un("OP_NEG", Not(C(1))), Un("OP_ADDRESS", C(1))}

Exprs == {Un(op, X(1)) : op \in {"OP_COMP", "OP_ADDRESS", "OP_DEREF", "OP_SIZEOF", "OP_PREDEC"}}
         \cup {Bin(op, X(1), Un("OP_NEG", X(2))) : op \in {"OP_MOD", "OP_ASSIGN", "OP_COMMA"}}
         \cup {[kind |-> "Index", op |-> "OP_INDEX", a |-> X(1), b |-> And(X(2), X(3))],
               [kind |-> "Member", op |-> "OP_PTR_MEMBER", a |-> X(1)],
               [kind |-> "Member", op |-> "OP_MEMBER", a |-> Fn(4, <<Fn(5, << >>), Str>>)],
               Fn(4, <<Fn(5, << >>)>>), Bin("OP_MUL", X(1), Fn(4, << >>))}

\* Everything the lowering accepts, calls whose value is used and stubs included.
AllPrograms ==
  Structured
  \cup {<<Main(s)>> : s \in OneLevel({Or(X(1), Less12)}, Inner \cup {Stub("break"), Wrapped(Printf(7)), Ret(NoNode)})}
  \cup {<<Main(f)>> : f \in {ExprS(e) : e \in Exprs} \cup {Ret(e) : e \in Exprs}
                            \cup {If(e, Printf(7), NoNode) : e \in Exprs}
                            \cup {Blk(<<Decl(4, e)>>, << >>) : e \in Exprs}}
  \cup {<<Blk(<< >>, <<If(X(1), Ret(e), Ret(X(1)))>>), Blk(<< >>, <<Ret(Not(e))>>)>> : e \in Exprs}
  \cup {<<Blk(<< >>, << >>), Blk(<< >>, <<While(C(1), NoNode)>>), Main(Ret(C(1)))>>}
  \cup {<<Blk(<< >>, <<ExprS(e)>>), Blk(<< >>, <<If(e, Ret(e), NoNode)>>)>> : e \in Misplaced}

\* The nodes of a tree, and of a set of programs.
RECURSIVE Nodes(_)
Nodes(n) ==
  LET children == {n[f] : f \in DOMAIN n \cap {"a", "b", "func", "cond", "then", "else", "body", "init", "incr"}}
      lists == {n[f] : f \in DOMAIN n \cap {"args", "decls", "stmts"}}
      below == children \cup UNION {{l[i] : i \in DOMAIN l} : l \in lists}
  IN IF n = NoNode THEN {} ELSE {n} \cup UNION {Nodes(c) : c \in below}
NodesOf(programs) == UNION {UNION {Nodes(p[i]) : i \in DOMAIN p} : p \in programs}
=============================================================================
