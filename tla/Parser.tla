-------------------------------- MODULE Parser --------------------------------
(***************************************************************************)
(* The recursive-descent parser of src/src/parse/parser.cpp.               *)
(*                                                                         *)
(* The recursion is an explicit stack, work: an action pops the top task,  *)
(* consumes what the method consumes before its first call and pushes the  *)
(* calls still to be made.  vals holds the nodes of the calls that have    *)
(* returned, newest first.                                                 *)
(*                                                                         *)
(* A text is a sequence of token kinds, written as they are spelt; "ID",   *)
(* "INT" and "STRING" stand for any identifier, number and string, "int"   *)
(* for any of the words isTypeSpecifier knows.  A node has its kind, an    *)
(* operator, the position of the token it stands for, and its parts in the *)
(* order of the text; an absent part (a null pointer) is Absent.           *)
(***************************************************************************)
EXTENDS Integers, Sequences, FiniteSetsExt

CONSTANTS
  Texts,        \* the token sequences to parse
  MaxExternals  \* bound: the external declarations of a translation unit

VARIABLES
  text,     \* what the lexer delivers
  pos,      \* the position of currentTok_
  work,     \* the activation stack
  vals,     \* the nodes returned and not yet part of another
  errors,   \* diag_.hasErrors()
  dropped   \* history: the positions passed over that leave nothing in the tree

parseVars == <<text, pos, work, vals, errors, dropped>>

Tok == IF pos <= Len(text) THEN text[pos] ELSE "END"
TokAt(i) == IF i <= Len(text) THEN text[i] ELSE "END"

Specifiers == {"int"}
Assignments == {"=", "+="}
Prec ==
  [t \in {"||", "&&", "|", "^", "&", "==", "<", "<<", "+", "-", "*", "/", ","} \cup Assignments |->
     CASE t = "||" -> 4 [] t = "&&" -> 5 [] t = "|" -> 6 [] t = "^" -> 7 [] t = "&" -> 8
       [] t = "==" -> 9 [] t = "<" -> 10 [] t = "<<" -> 11 [] t \in {"+", "-"} -> 12
       [] t \in {"*", "/"} -> 13 [] t \in Assignments -> 2 [] t = "," -> 1]
PrecOf(t) == IF t \in DOMAIN Prec THEN Prec[t] ELSE 0
\* Compound assignments are nodes with no operator, OP_NONE.
OpOf(t) == IF t \in Assignments \ {"="} THEN "OP_NONE" ELSE t
PrefixSigns == {"-", "!", "~", "*", "&", "+", "++", "--", "sizeof"}
Operands == [ID |-> "Identifier", INT |-> "Constant", STRING |-> "String"]

Node(kind, op, at, parts) == [kind |-> kind, op |-> op, at |-> at, parts |-> parts]
Leaf(kind, at) == Node(kind, "", at, << >>)
Absent == Leaf("Absent", 0)

\* Tasks.
Rule(name) == [do |-> name]
Expect(tok) == [do |-> "expect", tok |-> tok]
Accept(tok) == [do |-> "accept", tok |-> tok]
Optional(stop) == [do |-> "optional", stop |-> stop]
Expression(min) == [do |-> "binary", min |-> min]
Climb(min) == [do |-> "climb", min |-> min]
\* What has been returned since there were base nodes becomes one node.
Collect(kind, op, base) == [do |-> "collect", kind |-> kind, op |-> op, base |-> base]
Elements(start, base) == [do |-> "elements", start |-> start, base |-> base]

ParseInit ==
  /\ text \in Texts
  /\ pos = 1
  /\ work = <<Rule("unit")>>
  /\ vals = << >>
  /\ errors = FALSE
  /\ dropped = {}

-----------------------------------------------------------------------------
Doing(do) == work # << >> /\ Head(work).do = do
Top == Head(work)
Do(tasks) == work' = tasks \o Tail(work)
Give(n) == vals' = <<n>> \o vals
keep == UNCHANGED <<text, errors, dropped>>

\* nextToken at the end of the file returns TK_END again.
After(i) == IF i <= Len(text) THEN i + 1 ELSE i
While(i, class) == Min({j \in i..Len(text) + 1 : TokAt(j) \notin class})
Until(i, class) == Min({j \in i..Len(text) + 1 : TokAt(j) \in class \cup {"END"}})
Pass(i) == pos' = i /\ dropped' = dropped \cup (pos..(i - 1))

\* The nodes returned since there were base of them, in order.
Since(base) == [i \in 1..(Len(vals) - base) |-> vals[Len(vals) - base + 1 - i]]
Below(base) == SubSeq(vals, Len(vals) - base + 1, Len(vals))

\* A token other than the one expected is reported and left where it is.
ParseExpect ==
  /\ Doing("expect")
  /\ IF Tok = Top.tok THEN pos' = After(pos) /\ UNCHANGED errors
     ELSE errors' = TRUE /\ UNCHANGED pos
  /\ Do(<< >>)
  /\ UNCHANGED <<text, vals, dropped>>

ParseAccept ==
  /\ Doing("accept")
  /\ IF Tok = Top.tok THEN Pass(After(pos)) ELSE UNCHANGED <<pos, dropped>>
  /\ Do(<< >>)
  /\ UNCHANGED <<text, vals, errors>>

ParseOptional ==
  /\ Doing("optional")
  /\ IF Tok = Top.stop THEN Give(Absent) /\ Do(<< >>)
     ELSE Do(<<Expression(1)>>) /\ UNCHANGED vals
  /\ UNCHANGED pos /\ keep

ParseCollect ==
  /\ Doing("collect")
  /\ vals' = <<Node(Top.kind, Top.op, 0, Since(Top.base))>> \o Below(Top.base)
  /\ Do(<< >>)
  /\ UNCHANGED pos /\ keep

-----------------------------------------------------------------------------
(* Declarations. *)

\* A file-level declarator that no body follows is dropped: the Declaration
\* node keeps the type alone.  A token that begins neither a declarator nor a
\* body stays current for ever; MaxExternals cuts that loop.
ParseUnit ==
  /\ Doing("unit")
  /\ IF Tok = "END" THEN Do(<<Collect("Unit", "", 0)>>) /\ UNCHANGED <<pos, dropped>>
     ELSE /\ Len(vals) < MaxExternals
          /\ Pass(While(pos, Specifiers))
          /\ Do(<<Rule("declarator"), Rule("external"), Rule("unit")>>)
  /\ UNCHANGED <<text, vals, errors>>

ParseExternal ==
  /\ Doing("external")
  /\ IF Tok = "{"
     THEN /\ Do(<<Rule("compound"), Collect("Function", "", Len(vals) - 1)>>)
          /\ UNCHANGED <<vals, dropped>>
     ELSE /\ Do(<<Expect(";")>>)
          /\ vals' = <<Leaf("Declaration", 0)>> \o Tail(vals)
          /\ dropped' = dropped \cup ({Head(vals).at} \ {0})
  /\ UNCHANGED <<text, pos, errors>>

\* The stars and the parentheses leave nothing; neither do array sizes and
\* parameters, skipped up to the bracket that closes them.
ParseDeclarator ==
  /\ Doing("declarator")
  /\ LET p == While(pos, {"*"}) IN
     \/ /\ TokAt(p) = "("
        /\ Pass(p + 1)
        /\ Do(<<Rule("declarator"), Accept(")"), Rule("suffix")>>)
        /\ UNCHANGED vals
     \/ /\ TokAt(p) = "ID"
        /\ pos' = p + 1
        /\ dropped' = dropped \cup (pos..(p - 1))
        /\ Give(Leaf("Name", p))
        /\ Do(<<Rule("suffix")>>)
     \/ /\ TokAt(p) \notin {"(", "ID"}
        /\ Pass(p)
        /\ Give(Leaf("Name", 0))
        /\ Do(<<Rule("suffix")>>)
  /\ UNCHANGED <<text, errors>>

Closing == [b \in {"[", "("} |-> IF b = "[" THEN "]" ELSE ")"]

ParseSuffix ==
  /\ Doing("suffix")
  /\ IF Tok \in DOMAIN Closing
     THEN /\ pos' = Until(pos + 1, {Closing[Tok]})
          /\ dropped' = dropped \cup (pos..pos')
          /\ Do(<<Expect(Closing[Tok]), Rule("suffix")>>)
     ELSE Do(<< >>) /\ UNCHANGED <<pos, dropped>>
  /\ UNCHANGED <<text, vals, errors>>

Take(tasks) == pos' = After(pos) /\ Do(tasks) /\ UNCHANGED vals /\ keep
Call(tasks) == Do(tasks) /\ UNCHANGED <<pos, vals>> /\ keep

ParseDeclaration ==
  /\ Doing("declaration")
  /\ Pass(While(pos, Specifiers))
  /\ Do(IF TokAt(pos') = ";" THEN <<Expect(";"), Collect("Declaration", "", Len(vals))>>
        ELSE <<Accept(","), Rule("initDeclarator"), Rule("more"), Expect(";"),
               Collect("Declaration", "", Len(vals))>>)
  /\ UNCHANGED <<text, vals, errors>>

ParseMore ==
  /\ Doing("more")
  /\ Call(IF Tok = "," THEN <<Accept(","), Rule("initDeclarator"), Rule("more")>> ELSE << >>)

ParseInitDeclarator ==
  /\ Doing("initDeclarator")
  /\ Call(<<Rule("declarator"), Rule("equals"), Collect("InitDeclarator", "", Len(vals))>>)

ParseEquals ==
  /\ Doing("equals")
  /\ IF Tok = "=" THEN Take(<<Rule("initializer")>>) ELSE Call(<< >>)

\* The elements of a braced initializer are parsed and thrown away.
ParseInitializer ==
  /\ Doing("initializer")
  /\ IF Tok = "{" THEN Take(<<Elements(pos, Len(vals))>>) ELSE Call(<<Expression(2)>>)

ParseElements ==
  /\ Doing("elements")
  /\ IF Tok \notin {"}", "END"} THEN Call(<<Rule("initializer"), Accept(","), Top>>)
     ELSE /\ Do(<<Expect("}")>>)
          /\ vals' = <<Absent>> \o Below(Top.base)
          /\ dropped' = dropped \cup (Top.start..pos)
          /\ UNCHANGED <<text, pos, errors>>

-----------------------------------------------------------------------------
(* Statements. *)

ParseCompound ==
  /\ Doing("compound")
  /\ Take(<<Rule("declarations"), Rule("statements"), Expect("}"),
            Collect("Compound", "", Len(vals))>>)

ParseDeclarations ==
  /\ Doing("declarations")
  /\ Call(IF Tok \in Specifiers THEN <<Rule("declaration"), Rule("declarations")>> ELSE << >>)

ParseStatements ==
  /\ Doing("statements")
  /\ Call(IF Tok \notin {"}", "END"} THEN <<Rule("statement"), Rule("statements")>> ELSE << >>)

\* A statement that begins with a word of its own.
Begin(word, kind, tasks) ==
  /\ Doing("statement")
  /\ Tok = word
  /\ Take(tasks \o <<Collect(kind, "", Len(vals))>>)

Condition == <<Expect("("), Expression(1), Expect(")")>>
ParseIf == Begin("if", "If", Condition \o <<Rule("statement"), Rule("else")>>)
ParseSwitch == Begin("switch", "Switch", Condition \o <<Rule("statement")>>)
ParseWhile == Begin("while", "While", Condition \o <<Rule("statement")>>)
ParseDo == Begin("do", "Do", <<Rule("statement"), Expect("while")>> \o Condition \o <<Expect(";")>>)
ParseFor ==
  Begin("for", "For", <<Expect("("), Optional(";"), Expect(";"), Optional(";"), Expect(";"),
                        Optional(")"), Expect(")"), Rule("statement")>>)
ParseBreak == Begin("break", "Break", <<Expect(";")>>)
ParseContinue == Begin("continue", "Continue", <<Expect(";")>>)
ParseReturn == Begin("return", "Return", <<Optional(";"), Expect(";")>>)
ParseEmpty == Begin(";", "ExprStmt", << >>)

\* Mutant: an if in the branch of another leaves the else to it.
ParseElseOutermost ==
  /\ Doing("else")
  /\ IF Tok = "else" /\ (\A i \in 2..Len(work) : work[i] # Top) THEN Take(<<Rule("statement")>>)
     ELSE Call(<< >>)

ParseElse ==
  /\ Doing("else")
  /\ IF Tok = "else" THEN Take(<<Rule("statement")>>) ELSE Call(<< >>)

ParseGoto ==
  /\ Doing("statement")
  /\ Tok = "goto"
  /\ pos' = After(pos)
  /\ Give(Leaf("Name", After(pos)))
  /\ Do(<<Expect("ID"), Expect(";"), Collect("Goto", "", Len(vals))>>)
  /\ keep

IsLabel == Tok = "ID" /\ TokAt(pos + 1) = ":"
\* Mutant: the name is restored and the statement dispatched on it again.
ParseLabelAgain ==
  /\ Doing("statement")
  /\ IsLabel
  /\ UNCHANGED parseVars

\* currentToken() is the colon by now, so the name is gone and is missed.
ParseLabel ==
  /\ Doing("statement")
  /\ IsLabel
  /\ Pass(pos + 1)
  /\ Do(<<Expect("ID"), Expect(":"), Rule("statement"), Collect("Label", "", Len(vals))>>)
  /\ UNCHANGED <<text, vals, errors>>

\* parseStatement calls itself with nothing consumed.
ParseCase ==
  /\ Doing("statement")
  /\ Tok \in {"case", "default"}
  /\ UNCHANGED parseVars

ParseBlock ==
  /\ Doing("statement")
  /\ Tok = "{"
  /\ Call(<<Rule("compound")>>)

StatementWords == {"{", "if", "switch", "while", "do", "for", "goto", "break", "continue",
                   "return", "case", "default", ";"}

ParseExprStmt ==
  /\ Doing("statement")
  /\ Tok \notin StatementWords /\ ~IsLabel
  /\ Call(<<Expression(1), Expect(";"), Collect("ExprStmt", "", Len(vals))>>)

-----------------------------------------------------------------------------
(* Expressions. *)

ParseBinary ==
  /\ Doing("binary")
  /\ Call(<<Rule("unary"), Climb(Top.min)>>)

\* Mutant: the right operand takes the operators of the same precedence.
ParseClimbRight ==
  /\ Doing("climb")
  /\ IF PrecOf(Tok) >= Top.min
     THEN /\ pos' = pos + 1
          /\ dropped' = dropped \cup (IF OpOf(Tok) = Tok THEN {} ELSE {pos})
          /\ Do(<<Expression(PrecOf(Tok)), Collect("Binary", OpOf(Tok), Len(vals) - 1), Top>>)
     ELSE Do(<< >>) /\ UNCHANGED <<pos, dropped>>
  /\ UNCHANGED <<text, vals, errors>>

\* The right operand is parsed by parseCastExpression, so what has been read
\* so far is the left operand of the next operator, whatever its precedence.
ParseClimb ==
  /\ Doing("climb")
  /\ IF PrecOf(Tok) >= Top.min
     THEN /\ pos' = pos + 1
          /\ dropped' = dropped \cup (IF OpOf(Tok) = Tok THEN {} ELSE {pos})
          /\ Do(<<Rule("unary"), Collect("Binary", OpOf(Tok), Len(vals) - 1), Top>>)
     ELSE Do(<< >>) /\ UNCHANGED <<pos, dropped>>
  /\ UNCHANGED <<text, vals, errors>>

\* Mutant: the case of & is a copy of the case of *.
ParseUnaryCopied ==
  /\ Doing("unary")
  /\ IF Tok \in PrefixSigns
     THEN Take(<<Rule("unary"), Collect("Unary", IF Tok = "&" THEN "*" ELSE Tok, Len(vals))>>)
     ELSE Call(<<Rule("primary"), Rule("postfix")>>)

ParseUnary ==
  /\ Doing("unary")
  /\ IF Tok \in PrefixSigns THEN Take(<<Rule("unary"), Collect("Unary", Tok, Len(vals))>>)
     ELSE Call(<<Rule("primary"), Rule("postfix")>>)

ParsePostfix ==
  /\ Doing("postfix")
  /\ \/ /\ Tok = "["
        /\ Take(<<Expression(1), Expect("]"), Collect("Index", "", Len(vals) - 1), Top>>)
     \/ /\ Tok = "("
        /\ Take((IF TokAt(pos + 1) = ")" THEN << >> ELSE <<Expression(2), Rule("arguments")>>)
                \o <<Expect(")"), Collect("Call", "", Len(vals) - 1), Top>>)
     \/ /\ Tok \in {".", "->"}
        /\ pos' = pos + 1
        /\ vals' = <<Node("Member", Tok, pos + 1, <<Head(vals)>>)>> \o Tail(vals)
        /\ Do(<<Expect("ID"), Top>>)
        /\ keep
     \/ /\ Tok \in {"++", "--"}
        /\ pos' = pos + 1
        /\ vals' = <<Node("Postfix", Tok, 0, <<Head(vals)>>)>> \o Tail(vals)
        /\ UNCHANGED work /\ keep
     \/ /\ Tok \notin {"[", "(", ".", "->", "++", "--"}
        /\ Call(<< >>)

ParseArguments ==
  /\ Doing("arguments")
  /\ IF Tok = "," THEN Take(<<Expression(2), Rule("arguments")>>) ELSE Call(<< >>)

\* An unexpected token is reported, passed over and becomes a zero.
ParsePrimary ==
  /\ Doing("primary")
  /\ \/ /\ Tok \in DOMAIN Operands
        /\ pos' = pos + 1
        /\ Give(Leaf(Operands[Tok], pos))
        /\ Do(<< >>) /\ keep
     \/ /\ Tok = "("
        /\ Take(<<Expression(1), Expect(")")>>)
     \/ /\ Tok \notin DOMAIN Operands \cup {"("}
        /\ Pass(After(pos))
        /\ errors' = TRUE
        /\ Give(Leaf("Constant", 0))
        /\ Do(<< >>)
        /\ UNCHANGED text

-----------------------------------------------------------------------------
ParseNext ==
  \/ ParseExpect \/ ParseAccept \/ ParseOptional \/ ParseCollect
  \/ ParseUnit \/ ParseExternal \/ ParseDeclarator \/ ParseSuffix
  \/ ParseDeclaration \/ ParseMore \/ ParseInitDeclarator \/ ParseEquals
  \/ ParseInitializer \/ ParseElements
  \/ ParseCompound \/ ParseDeclarations \/ ParseStatements
  \/ ParseIf \/ ParseElse \/ ParseSwitch \/ ParseWhile \/ ParseDo \/ ParseFor
  \/ ParseBreak \/ ParseContinue \/ ParseReturn \/ ParseEmpty \/ ParseGoto
  \/ ParseLabel \/ ParseCase \/ ParseBlock \/ ParseExprStmt
  \/ ParseBinary \/ ParseClimb \/ ParseUnary \/ ParsePostfix
  \/ ParseArguments \/ ParsePrimary

\* The parser is a sequential program: it goes on as long as it has a call to make.
ParserSpec == ParseInit /\ [][ParseNext]_parseVars /\ WF_parseVars(ParseNext)

Done == work = << >>
Accepted == Done /\ ~errors
Tree == Head(vals)

\* The two places where the parser goes round without consuming anything.
AtCase == Doing("statement") /\ Tok \in {"case", "default"}
UnitStuck == Doing("unit") /\ Tok \notin Specifiers \cup {"*", "(", "ID", "[", "{", ";", "END"}
=============================================================================
