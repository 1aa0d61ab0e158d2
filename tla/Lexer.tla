-------------------------------- MODULE Lexer --------------------------------
(***************************************************************************)
(* From characters to tokens: src/src/lex/lexer.cpp, with the one-token    *)
(* lookahead of Parser::parseStatement.                                    *)
(*                                                                         *)
(* The text is a sequence of characters; what follows it is the 255 byte   *)
(* open() stores behind the mapping.  A character class the scanners do    *)
(* not tell apart is one character of the alphabet ("a" is a hexadecimal   *)
(* letter, "z" another one, "line" the word of a #line directive, "if" a keyword).  The    *)
(* loops of skipWhiteSpace and of the two literals are steps; the others   *)
(* run to the first character outside their class.  The values of floating *)
(* constants and strings, file names and ppline are left out.              *)
(***************************************************************************)
EXTENDS Literals, SequencesExt

CONSTANTS
  Texts,     \* the source files
  PageSize   \* of the memory the file is mapped to
ASSUME PageAssumption == PageSize \in Nat \ {0}

VARIABLES
  text,    \* base_
  cursor,  \* cursor_, as a position in text
  line,    \* line_
  mode,    \* where nextToken is: see Modes
  from,    \* where the token being scanned starts, and the line it is given
  tokens,  \* the tokens returned: kind, from, to (exclusive), loc.line and value
  peek,    \* what beginPeek saved, or NoPeek
  again,   \* history: the token endPeek has given back, until it is read again
  reread   \* history: how many newlines peeks have run over and given back

lexVars == <<text, cursor, line, mode, from, tokens, peek, again, reread>>

\* skip: in skipWhiteSpace; join: in the one after a string; char and string:
\* inside a literal; joined: deciding whether the string goes on; overrun: an
\* access beyond the mapping, which ends the process.
Modes == {"idle", "skip", "scan", "char", "string", "join", "joined", "overrun"}

EOF == "eof"
NoValue == [value |-> 0, tooBig |-> FALSE]
NoToken == [kind |-> "none", from |-> 0, to |-> 0, line |-> 0, val |-> NoValue]
NoPeek == [cursor |-> 0, tokens |-> << >>]

OctDigits == {"0", "1", "7"}
Digits == OctDigits \cup {"9"}
HexDigits == Digits \cup {"a", "e", "f"}
Letters == {"a", "e", "f", "z", "x", "u", "L", "line", "if"}
Blanks == {" "}
Illegal == {"@", "\\"}
Singles == {"{", "}", "[", "]", "(", ")", ",", ";", "~", "?", ":"}
Operators == {"+", "-", "*", "/", "%", "<", ">", "!", "=", "|", "&", "^", "."}

\* A byte 255 is the end for the lexer: text is what comes before it.
Characters == Letters \cup Digits \cup Blanks \cup Illegal \cup Singles \cup Operators
              \cup {"\n", "#", "'", "\""}
ASSUME TextAssumption == Texts \subseteq Seq(Characters)

Ch(i) == IF i <= Len(text) THEN text[i] ELSE EOF
Mapped(i) == i <= Len(text) + 1

\* The first position from i on whose character is not, or is, of the class.
While(i, class) == Min({j \in i..Len(text) + 1 : Ch(j) \notin class})
Until(i, class) == Min({j \in i..Len(text) + 1 : Ch(j) \in class \cup {EOF}})

Newlines(i, j) == Cardinality({k \in i..j : k <= Len(text) /\ text[k] = "\n"})

\* The byte open() stores behind the file lies in a page of the file.
SentinelFits == Len(text) % PageSize # 0

\* open: an empty file and one of whole pages end the process at that store.
LexInit ==
  /\ text \in Texts
  /\ cursor = 1 /\ line = 1
  /\ mode = IF SentinelFits THEN "idle" ELSE "overrun"
  /\ from = [at |-> 1, line |-> 1]
  /\ tokens = << >>
  /\ peek = NoPeek /\ again = NoToken /\ reread = 0

-----------------------------------------------------------------------------
(* skipWhiteSpace and scanPPLine.                                          *)

Latest == IF tokens = << >> THEN NoToken ELSE tokens[Len(tokens)]

\* A step within nextToken: the cursor goes to i, outside the mapping or not.
Move(i, nextMode) ==
  /\ cursor' = i
  /\ mode' = IF Mapped(i) THEN nextMode ELSE "overrun"
  /\ UNCHANGED <<text, peek, again, reread>>

Peeked == peek # NoPeek /\ tokens # peek.tokens

\* The parser asks for the next token until it has seen the end, and settles a
\* peek first.
NextToken ==
  /\ mode = "idle" /\ Latest.kind # "TK_END" /\ ~Peeked
  /\ mode' = "skip"
  /\ UNCHANGED <<text, cursor, line, from, tokens, peek, again, reread>>

Skipping == mode \in {"skip", "join"}

SkipBlank ==
  /\ Skipping /\ Ch(cursor) \in Blanks
  /\ Move(cursor + 1, mode)
  /\ UNCHANGED <<line, from, tokens>>

SkipNewline ==
  /\ Skipping /\ Ch(cursor) = "\n"
  /\ line' = line + 1
  /\ Move(cursor + 1, mode)
  /\ UNCHANGED <<from, tokens>>

SkipLineComment ==
  /\ Skipping /\ Ch(cursor) = "/" /\ Ch(cursor + 1) = "/"
  /\ Move(Until(cursor + 2, {"\n"}), mode)
  /\ UNCHANGED <<line, from, tokens>>

Closes(j) == Ch(j) = "*" /\ Ch(j + 1) = "/"
LeaveSkip == IF mode = "skip" THEN "scan" ELSE "joined"

\* Mutant of SkipComment: the newlines of a comment are not counted.
SkipCommentUncounted ==
  /\ Skipping /\ Ch(cursor) = "/" /\ Ch(cursor + 1) = "*"
  /\ LET start == cursor + 3
         stops == {j \in start..Len(text) + 1 :
                     Closes(j) \/ (Ch(j) # "\n" /\ EOF \in {Ch(j), Ch(j + 1)})}
     IN IF stops = {} THEN Move(start, mode) /\ UNCHANGED line
        ELSE LET j == Min(stops) IN
               /\ UNCHANGED line
               /\ IF Closes(j) THEN Move(j + 2, mode) ELSE Move(j, LeaveSkip)
  /\ UNCHANGED <<from, tokens>>

\* The search for the end starts one character too late, and an unclosed
\* comment is left at the last character of the file.
SkipComment ==
  /\ Skipping /\ Ch(cursor) = "/" /\ Ch(cursor + 1) = "*"
  /\ LET start == cursor + 3
         stops == {j \in start..Len(text) + 1 :
                     Closes(j) \/ (Ch(j) # "\n" /\ EOF \in {Ch(j), Ch(j + 1)})}
     IN IF stops = {} THEN Move(start, mode) /\ UNCHANGED line
        ELSE LET j == Min(stops) IN
               /\ line' = line + Newlines(start, j - 1)
               /\ IF Closes(j) THEN Move(j + 2, mode) ELSE Move(j, LeaveSkip)
  /\ UNCHANGED <<from, tokens>>

\* The places of the directive whose # is at i: its first word, whether that
\* is a line number or the word line, and what stands behind the number.
WordAt(i) == While(i + 1, Blanks)
NamesLine(i) == Ch(WordAt(i)) \in Digits \cup {"line"}
NumberAt(i) == IF Ch(WordAt(i)) = "line" THEN While(WordAt(i) + 1, Blanks) ELSE WordAt(i)
QuoteAt(i) == While(While(NumberAt(i), Digits), Blanks)

\* Behind a line number one character, whatever it is, is taken for the quote
\* of the file name.
SkipDirective ==
  /\ Skipping /\ Ch(cursor) = "#"
  /\ LET name == IF NamesLine(cursor) THEN QuoteAt(cursor) + 1 ELSE WordAt(cursor)
     IN Move(IF Mapped(name) THEN Until(name, {"\n"}) ELSE name, mode)
  /\ UNCHANGED <<line, from, tokens>>

SpaceHere == \/ Ch(cursor) \in Blanks \cup {"\n", "#"}
             \/ Ch(cursor) = "/" /\ Ch(cursor + 1) \in {"/", "*"}

EndSkip ==
  /\ Skipping /\ ~SpaceHere
  /\ Move(cursor, LeaveSkip)
  /\ UNCHANGED <<line, from, tokens>>

-----------------------------------------------------------------------------
(* The scanners.                                                           *)

\* The scanner returns: the token given the coordinates of start ends before to.
TokenOf(kind, start, to, val) ==
  /\ tokens' = Append(tokens, [kind |-> kind, from |-> start.at, to |-> to,
                               line |-> start.line, val |-> val])
  /\ cursor' = to
  /\ mode' = "idle"
  /\ again' = NoToken
  /\ UNCHANGED <<text, line, from, peek, reread>>
Token(kind, start, to) == TokenOf(kind, start, to, NoValue)

Start == [at |-> cursor, line |-> line]
Quoted == Ch(cursor) \in {"'", "\""} \/ (Ch(cursor) = "L" /\ Ch(cursor + 1) \in {"'", "\""})

ScanEOF ==
  /\ mode = "scan" /\ Ch(cursor) = EOF
  /\ Token("TK_END", Start, cursor)

\* A keyword is compared by length and by text.
FindKeyword(start, to) == IF SubSeq(text, start, to - 1) = <<"if">> THEN "TK_IF" ELSE "TK_ID"

ScanIdentifier ==
  /\ mode = "scan" /\ Ch(cursor) \in Letters /\ ~Quoted
  /\ LET to == While(cursor + 1, Letters \cup Digits)
     IN Token(FindKeyword(cursor, to), Start, to)

After(i, class) == IF Ch(i) \in class THEN i + 1 ELSE i

\* The U, L and LL suffixes.
IntLiteral(start, i, base) ==
  LET u == After(i, {"u"})
      l == After(u, {"L"})
      ll == IF l > u THEN After(l, {"L"}) ELSE l
  IN TokenOf(SuffixKind(u > i, l > u, ll > l), Start, ll, IntValue(SubSeq(text, start, i - 1), base))

\* The F and L suffixes.
FloatKind(c) ==
  CASE c = "f" -> "TK_FLOATCONST" [] c = "L" -> "TK_LDOUBLECONST" [] OTHER -> "TK_DOUBLECONST"
FloatLiteral(i) ==
  LET f == IF Ch(i) = "." THEN While(i + 1, Digits) ELSE i
      e == IF Ch(f) = "e" THEN While(After(f + 1, {"+", "-"}), Digits) ELSE f
  IN Token(FloatKind(Ch(e)), Start, After(e, {"f", "L"}))

Hexadecimal == Ch(cursor) = "0" /\ Ch(cursor + 1) = "x"

\* A 0x without digits is an error, and the integer zero.
ScanHexadecimal ==
  /\ mode = "scan" /\ Hexadecimal
  /\ LET h == While(cursor + 2, HexDigits)
     IN IF h = cursor + 2 THEN Token("TK_INTCONST", Start, h) ELSE IntLiteral(cursor + 2, h, 16)

ScanNumericLiteral ==
  /\ mode = "scan" /\ ~Hexadecimal
  /\ Ch(cursor) \in Digits \/ (Ch(cursor) = "." /\ Ch(cursor + 1) \in Digits)
  /\ LET octal == Ch(cursor) = "0"
         d == While(cursor, IF octal THEN OctDigits ELSE Digits)
     IN IF Ch(d) \in {".", "e"} THEN FloatLiteral(d)
        ELSE IntLiteral(cursor, d, IF octal THEN 8 ELSE 10)

Doubles == {<<"+", "+">>, <<"-", "-">>, <<"-", ">">>, <<"<", "<">>, <<">", ">">>,
            <<"|", "|">>, <<"&", "&">>}

\* Mutant of OperatorEnd: a shift never is an assignment.
OperatorEndShift(i) ==
  CASE Ch(i) = "." -> IF Ch(i + 1) = "." /\ Ch(i + 2) = "." THEN i + 3 ELSE i + 1
    [] Ch(i) # "." /\ Ch(i + 1) = "=" -> i + 2
    [] <<Ch(i), Ch(i + 1)>> \in Doubles -> i + 2
    [] OTHER -> i + 1

OperatorEnd(i) ==
  CASE Ch(i) = "." -> IF Ch(i + 1) = "." /\ Ch(i + 2) = "." THEN i + 3 ELSE i + 1
    [] Ch(i) # "." /\ Ch(i + 1) = "=" -> i + 2
    [] <<Ch(i), Ch(i + 1)>> \in Doubles ->
         IF Ch(i) \in {"<", ">"} THEN After(i + 2, {"="}) ELSE i + 2
    [] OTHER -> i + 1

ScanOperator ==
  /\ mode = "scan" /\ Ch(cursor) \in Operators
  /\ ~(Ch(cursor) = "." /\ Ch(cursor + 1) \in Digits)
  /\ Token("operator", Start, OperatorEnd(cursor))

ScanSingle ==
  /\ mode = "scan" /\ Ch(cursor) \in Singles
  /\ Token("single", Start, cursor + 1)

\* Mutant of ScanBadChar: any character but a letter is a bad one.
ScanBadCharMore ==
  /\ mode = "scan" /\ Ch(cursor) \in Illegal \cup {"0"}
  /\ Move(cursor, "skip")
  /\ UNCHANGED <<line, from, tokens>>

\* The error is reported and nextToken called again, at the same character.
ScanBadChar ==
  /\ mode = "scan" /\ Ch(cursor) \in Illegal
  /\ Move(cursor, "skip")
  /\ UNCHANGED <<line, from, tokens>>

-----------------------------------------------------------------------------
(* Character and string literals.                                          *)

\* scanEscapeChar.
EscapeEnd(i) ==
  CASE Ch(i + 1) = "x" -> While(i + 2, HexDigits)
    [] Ch(i + 1) \in OctDigits -> After(After(i + 2, OctDigits), OctDigits)
    [] OTHER -> i + 2

ElementEnd(i) == IF Ch(i) = "\\" THEN EscapeEnd(i) ELSE i + 1

BeginLiteral ==
  /\ mode = "scan" /\ Quoted
  /\ LET quote == After(cursor, {"L"})
     IN Move(quote + 1, IF Ch(quote) = "'" THEN "char" ELSE "string")
  /\ from' = Start
  /\ UNCHANGED <<line, tokens>>

Quote == IF mode = "char" THEN "'" ELSE "\""
InLiteral == mode \in {"char", "string"}

\* Mutant of LiteralElement: an escape is taken to be four characters.
LiteralElementWide ==
  /\ InLiteral /\ Ch(cursor) \notin {Quote, "\n", EOF}
  /\ Move(cursor + (IF Ch(cursor) = "\\" THEN 4 ELSE 1), mode)
  /\ UNCHANGED <<line, from, tokens>>

LiteralElement ==
  /\ InLiteral /\ Ch(cursor) \notin {Quote, "\n", EOF}
  /\ Move(ElementEnd(cursor), mode)
  /\ UNCHANGED <<line, from, tokens>>

\* The line or the file ends before the quote: reported, and the token ends.
UnclosedLiteral ==
  /\ InLiteral /\ Ch(cursor) \in {"\n", EOF}
  /\ Token("literal", from, cursor)

EndChar ==
  /\ mode = "char" /\ Ch(cursor) = "'"
  /\ Token("literal", from, cursor + 1)

EndString ==
  /\ mode = "string" /\ Ch(cursor) = "\""
  /\ Move(cursor + 1, "join")
  /\ UNCHANGED <<line, from, tokens>>

Adjacent == Ch(After(cursor, {"L"})) = "\""

JoinString ==
  /\ mode = "joined" /\ Adjacent
  /\ Move(After(cursor, {"L"}) + 1, "string")
  /\ UNCHANGED <<line, from, tokens>>

FinishString ==
  /\ mode = "joined" /\ ~Adjacent
  /\ Token("literal", from, cursor)

-----------------------------------------------------------------------------
(* beginPeek and endPeek, as parseStatement uses them: an identifier that  *)
(* starts a statement is a label if a colon follows.                       *)

BeginPeek ==
  /\ mode = "idle" /\ Latest.kind = "TK_ID" /\ again = NoToken /\ peek = NoPeek
  /\ peek' = [cursor |-> cursor, tokens |-> tokens]
  /\ UNCHANGED <<text, cursor, line, mode, from, tokens, again, reread>>

\* Mutant of EndPeek: the token comes back but not the cursor.
EndPeekCursor ==
  /\ mode = "idle" /\ Peeked
  /\ peek' = NoPeek
  /\ IF Ch(Latest.from) = ":" THEN UNCHANGED <<cursor, tokens, again, reread>>
     ELSE /\ UNCHANGED cursor
          /\ tokens' = peek.tokens
          /\ again' = Latest
          /\ reread' = reread + Newlines(peek.cursor, cursor - 1)
  /\ UNCHANGED <<text, line, mode, from>>

\* The cursor and the token are restored; line_ is not.
EndPeek ==
  /\ mode = "idle" /\ Peeked
  /\ peek' = NoPeek
  /\ IF Ch(Latest.from) = ":" THEN UNCHANGED <<cursor, tokens, again, reread>>
     ELSE /\ cursor' = peek.cursor
          /\ tokens' = peek.tokens
          /\ again' = Latest
          /\ reread' = reread + Newlines(peek.cursor, cursor - 1)
  /\ UNCHANGED <<text, line, mode, from>>

AtEnd == mode = "idle" /\ Latest.kind = "TK_END" /\ ~Peeked
LexStop == (AtEnd \/ mode = "overrun") /\ UNCHANGED lexVars

Skip == \/ SkipBlank \/ SkipNewline \/ SkipLineComment \/ SkipComment
        \/ SkipDirective \/ EndSkip
Scan == \/ ScanEOF \/ ScanIdentifier \/ ScanHexadecimal \/ ScanNumericLiteral
        \/ ScanOperator
        \/ ScanSingle \/ ScanBadChar \/ BeginLiteral \/ LiteralElement
        \/ UnclosedLiteral \/ EndChar \/ EndString \/ JoinString \/ FinishString

LexNext == NextToken \/ Skip \/ Scan \/ BeginPeek \/ EndPeek \/ LexStop

\* One thread: whenever the lexer can take a step it takes one.
LexSpec == LexInit /\ [][LexNext]_lexVars /\ WF_lexVars(LexNext)

-----------------------------------------------------------------------------
(* Properties.                                                             *)

EndsInNewline == text # << >> /\ text[Len(text)] = "\n"
Has(word) == \E i \in 0..Len(text) - Len(word) :
               \A k \in 1..Len(word) : text[i + k] = word[k]

\* A file that ends in a newline and is not of whole pages is lexed within its
\* mapping, however its comments, directives, literals and escapes break off.
InBounds == EndsInNewline /\ SentinelFits => mode # "overrun"

\* The directive at i takes its newline for the quote of a file name.
SwallowsLine(i) == text[i] = "#" /\ NamesLine(i) /\ Ch(QuoteAt(i)) = "\n"

Swallows ==
  \/ \E i \in DOMAIN text : SwallowsLine(i)
  \/ Has(<<"/", "*", "\n">>) \/ Has(<<"\\", "\n">>)

\* A token is reported at the line it stands on, behind directives too, and
\* ahead of it by no more than the newlines peeks have run over.  That is for a
\* text without the three shapes that swallow a newline: a # with a line number
\* and no file name, an opening of a comment and a backslash before the end of
\* the line, wherever in the text they are.
LineExact ==
  ~Swallows => \A i \in DOMAIN tokens :
    tokens[i].line - (1 + Newlines(1, tokens[i].from - 1)) \in 0..reread

\* The operators of C that begin with a character of Operators.
Spellings ==
  {<<o>> : o \in Operators} \cup {<<o, "=">> : o \in Operators \ {"."}} \cup Doubles
  \cup {<<o, o, "=">> : o \in {"<", ">"}} \cup {<<".", ".", ".">>}

\* An operator token is the longest operator that begins where it begins.
MaximalMunch ==
  \A i \in DOMAIN tokens : tokens[i].kind = "operator" =>
    LET at == tokens[i].from
        here == {w \in Spellings : /\ at + Len(w) - 1 <= Len(text)
                                   /\ SubSeq(text, at, at + Len(w) - 1) = w}
    IN tokens[i].to - at = Max({Len(w) : w \in here})

Integral == {"TK_INTCONST", "TK_UINTCONST", "TK_LONGCONST", "TK_ULONGCONST", "TK_LLONGCONST"}
\* The digits of a token read in its base, in exact arithmetic.
ExactValue(t) ==
  LET hex == t.to - t.from > 1 /\ text[t.from + 1] = "x"
      base == IF hex THEN 16 ELSE IF text[t.from] = "0" THEN 8 ELSE 10
      start == IF hex THEN t.from + 2 ELSE t.from
      digits == {i \in start..t.to - 1 : text[i] \in DOMAIN DigitValue}
      value[n \in 0..Cardinality(digits)] ==
        IF n = 0 THEN 0 ELSE value[n - 1] * base + DigitValue[text[start + n - 1]]
  IN value[Cardinality(digits)]

\* An integer literal has its value modulo the word, and the warning is given
\* exactly if the value does not fit it.
ValueExact ==
  \A i \in DOMAIN tokens : tokens[i].kind \in Integral =>
    tokens[i].val = [value |-> ExactValue(tokens[i]) % Word, tooBig |-> ExactValue(tokens[i]) >= Word]

\* After endPeek the lexer returns the same token again, at the same place.
PeekTransparent ==
  [][again # NoToken /\ again' = NoToken =>
       [Latest' EXCEPT !.line = 0] = [again EXCEPT !.line = 0]]_lexVars

\* A file that ends in a newline and is not of whole pages is lexed to its end
\* unless a token begins with an illegal character.
AtIllegal == mode = "scan" /\ Ch(cursor) \in Illegal
ReachesEnd == EndsInNewline /\ SentinelFits /\ [](~AtIllegal) => <>AtEnd
=============================================================================
