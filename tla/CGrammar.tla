------------------------------- MODULE CGrammar -------------------------------
(***************************************************************************)
(* What a C grammar says of a token sequence, to compare Parser with: how  *)
(* operators group (Reference, by splitting an expression at the operator  *)
(* that binds last), and what a tree reads as (Reading).  Nothing here is  *)
(* translated from the code.                                               *)
(***************************************************************************)
EXTENDS Parser, SequencesExt

Opens == {"(", "["}
Closes == {")", "]"}

(* Positions first..last of text hold an expression. *)
RECURSIVE EndsOperand(_, _)
\* An operand ends at i, so that what follows is a binary or postfix operator.
EndsOperand(first, i) ==
  /\ i >= first
  /\ \/ text[i] \in DOMAIN Operands \cup Closes
     \/ text[i] \in {"++", "--"} /\ EndsOperand(first, i - 1)

Balance(i, j) == Cardinality({k \in i..j : text[k] \in Opens})
                 - Cardinality({k \in i..j : text[k] \in Closes})
Opener(j) == Max({i \in 1..(j - 1) : Balance(i, j) = 0})

BinaryAt(first, last) ==
  {i \in first..last : PrecOf(text[i]) > 0 /\ EndsOperand(first, i - 1) /\ Balance(first, i) = 0}

\* Assignments group to the right, the other operators to the left.
SplitAt(first, last) ==
  LET ops == BinaryAt(first, last)
      loosest == Min({PrecOf(text[i]) : i \in ops})
      binding == {i \in ops : PrecOf(text[i]) = loosest}
  IN IF loosest = 2 THEN Min(binding) ELSE Max(binding)

RECURSIVE Reference(_, _), References(_, _)
Reference(first, last) ==
  IF BinaryAt(first, last) # {}
  THEN LET k == SplitAt(first, last) IN
       Node("Binary", OpOf(text[k]), 0, <<Reference(first, k - 1), Reference(k + 1, last)>>)
  ELSE LET open == Opener(last) IN
       CASE text[first] \in PrefixSigns ->
              Node("Unary", text[first], 0, <<Reference(first + 1, last)>>)
         [] text[first] \notin PrefixSigns /\ first = last -> Leaf(Operands[text[first]], first)
         [] text[first] \notin PrefixSigns /\ first < last /\ text[last] \in {"++", "--"} ->
              Node("Postfix", text[last], 0, <<Reference(first, last - 1)>>)
         [] text[first] \notin PrefixSigns /\ text[last] = "ID" /\ first < last ->
              Node("Member", text[last - 1], last, <<Reference(first, last - 2)>>)
         [] text[first] \notin PrefixSigns /\ text[last] = "]" ->
              Node("Index", "", 0, <<Reference(first, open - 1), Reference(open + 1, last - 1)>>)
         [] text[first] \notin PrefixSigns /\ text[last] = ")" /\ open > first ->
              Node("Call", "", 0, <<Reference(first, open - 1)>> \o References(open + 1, last - 1))
         [] text[last] = ")" /\ open = first -> Reference(first + 1, last - 1)
\* The arguments of a call, split at its commas.
References(first, last) ==
  LET commas == {i \in BinaryAt(first, last) : text[i] = ","} IN
  IF first > last THEN << >>
  ELSE IF commas = {} THEN <<Reference(first, last)>>
  ELSE <<Reference(first, Min(commas) - 1)>> \o References(Min(commas) + 1, last)

(* Two operators of one group, one after the other with no bracket between. *)
Neighbours(first, last) ==
  {p \in (first..last) \X (first..last) :
     /\ p[1] < p[2]
     /\ \A i \in {p[1], p[2]} : PrecOf(text[i]) > 0 /\ EndsOperand(first, i - 1)
     /\ Balance(p[1], p[2]) = 0
     /\ \A k \in p[1]..p[2] : Balance(p[1], k) >= 0}
ArgumentComma(first, i) ==
  /\ text[i] = ","
  /\ LET open == {k \in first..(i - 1) : Balance(k, i) = 1 /\ text[k] = "("}
     IN open # {} /\ EndsOperand(first, Max(open) - 1)
\* No operator binds tighter than one before it, and none groups to the right.
GroupsFromTheLeft(first, last) ==
  \A p \in Neighbours(first, last) :
     \/ ArgumentComma(first, p[1])
     \/ /\ PrecOf(text[p[2]]) <= PrecOf(text[p[1]])
        /\ {text[p[1]], text[p[2]]} \cap Assignments = {} \/ text[p[2]] \notin Assignments

-----------------------------------------------------------------------------
Sign(t) == << <<t, 0>> >>
RECURSIVE Reading(_)
Listed(ns, sep) == FoldLeft(LAMBDA s, i : s \o (IF i = 1 THEN << >> ELSE sep) \o Reading(ns[i]),
                            << >>, [i \in DOMAIN ns |-> i])
\* The tokens a tree stands for, without parentheses; operands carry their position.
Reading(n) ==
  LET part(i) == Reading(n.parts[i])
      mark(at) == IF at = 0 THEN << >> ELSE << <<text[at], at>> >>
      word == [If |-> "if", Switch |-> "switch", While |-> "while", Break |-> "break",
               Continue |-> "continue", Return |-> "return", Goto |-> "goto"]
  IN CASE n.kind \in {"Identifier", "Constant", "String", "Name"} -> mark(n.at)
       [] n.kind = "Absent" -> << >>
       [] n.kind = "Unary" -> Sign(n.op) \o part(1)
       [] n.kind = "Postfix" -> part(1) \o Sign(n.op)
       [] n.kind = "Binary" ->
            part(1) \o (IF n.op = "OP_NONE" THEN << >> ELSE Sign(n.op)) \o part(2)
       [] n.kind = "Index" -> part(1) \o Sign("[") \o part(2) \o Sign("]")
       [] n.kind = "Call" -> part(1) \o Listed(Tail(n.parts), Sign(","))
       [] n.kind = "Member" -> part(1) \o Sign(n.op) \o mark(n.at)
       [] n.kind = "InitDeclarator" ->
            part(1) \o (IF Len(n.parts) = 1 THEN << >> ELSE Sign("=") \o part(2))
       [] n.kind \in {"ExprStmt", "Declaration"} -> Listed(n.parts, << >>) \o Sign(";")
       [] n.kind \in {"Break", "Continue", "Return", "Goto"} ->
            Sign(word[n.kind]) \o Listed(n.parts, << >>) \o Sign(";")
       [] n.kind \in {"If", "Switch", "While"} ->
            Sign(word[n.kind]) \o part(1) \o part(2)
              \o (IF Len(n.parts) = 3 THEN Sign("else") \o part(3) ELSE << >>)
       [] n.kind = "Do" -> Sign("do") \o part(1) \o Sign("while") \o part(2) \o Sign(";")
       [] n.kind = "For" -> Sign("for") \o part(1) \o Sign(";") \o part(2) \o Sign(";")
                              \o part(3) \o part(4)
       [] n.kind = "Compound" -> Sign("{") \o Listed(n.parts, << >>) \o Sign("}")
       [] n.kind \in {"Function", "Unit"} -> Listed(n.parts, << >>)

\* The tokens of the text that should be in the tree.
Kept ==
  LET signs == [i \in 1..Len(text) |-> <<text[i], IF text[i] \in DOMAIN Operands THEN i ELSE 0>>]
      kept == {i \in 1..Len(text) : i \notin dropped /\ text[i] \notin {"(", ")"}}
  IN FoldLeft(LAMBDA s, i : IF i \in kept THEN Append(s, signs[i]) ELSE s,
              << >>, [i \in 1..Len(text) |-> i])

RECURSIVE NodesOf(_)
NodesOf(n) == {n} \cup UNION {NodesOf(n.parts[i]) : i \in DOMAIN n.parts}
RECURSIVE EndsOpen(_)
\* The statement ends in an if that could still take an else.
EndsOpen(n) ==
  \/ n.kind = "If" /\ Len(n.parts) = 2
  \/ /\ n.kind \in {"If", "Switch", "While", "For"}
     /\ EndsOpen(n.parts[Len(n.parts)])

-----------------------------------------------------------------------------
(* Properties of Parser. *)

Opening == <<"int", "ID", "(", ")", "{">>
\* The text is one function whose body is one expression statement.
OneExpression ==
  /\ Len(text) > 7
  /\ SubSeq(text, 1, 5) = Opening
  /\ SubSeq(text, Len(text) - 1, Len(text)) = <<";", "}">>
  /\ \A i \in 6..(Len(text) - 2) :
        text[i] \in Opens \cup Closes \cup PrefixSigns \cup DOMAIN Prec \cup DOMAIN Operands
                      \cup {".", "->"}
Body == Tree.parts[1].parts[2].parts[1].parts[1]

\* Nothing of an accepted text is lost but what the parser passes over
\* knowingly (types, parameters, array sizes, braced initializers, names at
\* file level, the operators of compound assignments): the tree reads as the text.
KeepsTokens == Accepted => Reading(Tree) = Kept

\* Where no operator binds tighter than one to its left, the tree groups the
\* operands as the C grammar does (parseBinaryExpression, parseUnaryExpression,
\* parsePostfixExpression).
GroupsLikeC ==
  Accepted /\ OneExpression /\ GroupsFromTheLeft(6, Len(text) - 2) =>
    Body = Reference(6, Len(text) - 2)

\* What a reader of a C parser expects: every accepted expression statement is
\* grouped as the C grammar groups it.  It is not so: i = i + 1 is (i = i) + 1.
GroupsAsC == Accepted /\ OneExpression => Body = Reference(6, Len(text) - 2)

\* An else belongs to the nearest if before it that has none (parseIfStatement).
ElseNearest ==
  Accepted => \A n \in NodesOf(Tree) :
                n.kind = "If" /\ Len(n.parts) = 3 => ~EndsOpen(n.parts[2])
=============================================================================
