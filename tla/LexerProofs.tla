----------------------------- MODULE LexerProofs -----------------------------
(***************************************************************************)
(* Theorems about Lexer: the lexer stays within its file, an operator is   *)
(* the longest there is, a token has the line it stands on and an integer  *)
(* constant its value, and a peek is transparent.                          *)
(***************************************************************************)
EXTENDS Lexer, FiniteSetTheorems, SequenceTheorems, WellFoundedInduction, TLAPS

-----------------------------------------------------------------------------
(* Sequences whose elements have no type that matters.                     *)

IsSeq(s) == \E S : s \in Seq(S)

LEMMA SeqDomain ==
  ASSUME NEW s, IsSeq(s)
  PROVE  Len(s) \in Nat /\ DOMAIN s = 1..Len(s)
BY DEF IsSeq

LEMMA EmptyIsSeq ==
  ASSUME NEW s, s = << >>
  PROVE  IsSeq(s) /\ Len(s) = 0
<1>1. s \in Seq(Nat) /\ Len(s) = 0
  OBVIOUS
<1>2. \E S : s \in Seq(S)
  <2>1. WITNESS Nat
  <2>2. QED
    BY <1>1
<1>3. QED
  BY <1>1, <1>2 DEF IsSeq

LEMMA AppendSeq ==
  ASSUME NEW s, NEW x, IsSeq(s)
  PROVE  /\ IsSeq(Append(s, x))
         /\ DOMAIN Append(s, x) = 1..Len(s) + 1
         /\ \A i \in 1..Len(s) : Append(s, x)[i] = s[i]
         /\ Append(s, x)[Len(s) + 1] = x
<1>1. PICK S : s \in Seq(S)
  BY DEF IsSeq
<1>2. s \in Seq(S \cup {x}) /\ x \in S \cup {x}
  BY <1>1
<1>3. Append(s, x) \in Seq(S \cup {x})
  BY <1>2
<1>4. QED
  BY <1>2, <1>3 DEF IsSeq

LEMMA LeastNat ==
  ASSUME NEW S \in SUBSET Nat, S # {}
  PROVE  Min(S) \in S /\ \A k \in S : Min(S) <= k
<1> DEFINE R == OpToRel(<, Nat)
<1>1. IsWellFoundedOn(R, Nat)
  BY NatLessThanWellFounded
<1>2. \A j, k \in Nat : j < k => <<j, k>> \in R
  BY DEF OpToRel
<1> HIDE DEF R
<1>3. PICK m \in S : \A k \in S : ~(<<k, m>> \in R)
  BY <1>1, WFMin
<1>4. ASSUME NEW k \in S PROVE m <= k
  <2>1. ~(k < m)
    BY <1>2, <1>3
  <2>2. QED
    BY <2>1
<1>5. QED
  BY <1>4 DEF Min

LEMMA MaxIs ==
  ASSUME NEW S \in SUBSET Int, NEW m \in S, \A k \in S : k <= m
  PROVE  Max(S) = m
<1>1. Max(S) \in S /\ \A k \in S : Max(S) >= k
  <2>1. \E x \in S : \A y \in S : x >= y
    OBVIOUS
  <2>2. QED
    BY <2>1 DEF Max
<1>2. Max(S) <= m /\ m <= Max(S) /\ Max(S) \in Int /\ m \in Int
  BY <1>1
<1>3. QED
  BY <1>2

-----------------------------------------------------------------------------
(* Characters.                                                             *)

Positions == 1..Len(text) + 1
IsText == text \in Seq(Characters)

LEMMA PositionsAre == ASSUME IsText, NEW i \in Positions PROVE i \in Nat \ {0}
BY DEF IsText, Positions

LEMMA NoEnd == EOF \notin Characters
BY DEF EOF, Characters, Letters, Digits, OctDigits, Blanks, Illegal, Singles, Operators

LEMMA Classes ==
  /\ Letters \subseteq Characters /\ Digits \subseteq Characters
  /\ OctDigits \subseteq Characters /\ HexDigits \subseteq Characters
  /\ Blanks \subseteq Characters
  /\ \A c \in Letters \cup HexDigits \cup Blanks : c # "\n" /\ c # EOF
BY DEF Characters, Letters, Digits, OctDigits, HexDigits, Blanks, EOF

LEMMA ChIs ==
  ASSUME IsText, NEW i \in Nat \ {0}
  PROVE  /\ Ch(i) = EOF <=> i > Len(text)
         /\ Ch(i) # EOF => i \in 1..Len(text) /\ Ch(i) = text[i]
         /\ i \in 1..Len(text) => Ch(i) = text[i]
BY NoEnd DEF IsText, Ch

\* From a one can go to b, no further than the end, and meet no newline.
Reach(a, b) ==
  /\ a \in Positions /\ b \in a..Len(text) + 1
  /\ \A k \in a..b - 1 : text[k] # "\n"

LEMMA ReachNone == ASSUME IsText, NEW a \in Positions PROVE Reach(a, a)
BY DEF IsText, Positions, Reach

LEMMA ReachTrans ==
  ASSUME IsText, NEW a, NEW b, NEW c, Reach(a, b), Reach(b, c)
  PROVE  Reach(a, c)
BY DEF IsText, Positions, Reach

LEMMA ReachOne ==
  ASSUME IsText, NEW a \in Nat \ {0}, Ch(a) # EOF, Ch(a) # "\n"
  PROVE  Reach(a, a + 1)
<1>1. a \in 1..Len(text) /\ text[a] # "\n" /\ Len(text) \in Nat
  BY ChIs DEF IsText
<1>2. QED
  BY <1>1 DEF Positions, Reach

\* What While and Until return.
LEMMA WhileIs ==
  ASSUME IsText, NEW a \in Positions, NEW class, EOF \notin class
  PROVE  /\ While(a, class) \in a..Len(text) + 1
         /\ \A k \in a..While(a, class) - 1 : Ch(k) \in class
         /\ Ch(While(a, class)) \notin class
<1> DEFINE S == {j \in a..Len(text) + 1 : Ch(j) \notin class}
<1>1. Len(text) \in Nat
  BY DEF IsText
<1>2. Ch(Len(text) + 1) = EOF
  BY <1>1, ChIs
<1>3. S \in SUBSET Nat /\ Len(text) + 1 \in S
  BY <1>1, <1>2 DEF Positions
<1>4. While(a, class) = Min(S)
  BY DEF While
<1>5. Min(S) \in S /\ \A k \in S : Min(S) <= k
  BY <1>3, LeastNat
<1>6. \A k \in a..Min(S) - 1 : Ch(k) \in class
  BY <1>1, <1>5 DEF Positions
<1>7. QED
  BY <1>4, <1>5, <1>6

LEMMA ReachWhile ==
  ASSUME IsText, NEW a \in Positions, NEW class, EOF \notin class, "\n" \notin class
  PROVE  Reach(a, While(a, class))
<1>1. /\ While(a, class) \in a..Len(text) + 1
      /\ \A k \in a..While(a, class) - 1 : Ch(k) \in class
  BY WhileIs
<1>2. ASSUME NEW k \in a..While(a, class) - 1 PROVE text[k] # "\n"
  <2>1. k \in 1..Len(text)
    BY <1>1 DEF Positions, IsText
  <2>2. Ch(k) = text[k] /\ Ch(k) \in class
    BY <1>1, <2>1, ChIs
  <2>3. QED
    BY <2>2
<1>3. QED
  BY <1>1, <1>2 DEF Reach

LEMMA ReachUntil ==
  ASSUME IsText, NEW a \in Positions
  PROVE  Reach(a, Until(a, {"\n"}))
<1> DEFINE S == {j \in a..Len(text) + 1 : Ch(j) \in {"\n"} \cup {EOF}}
<1>1. Len(text) \in Nat
  BY DEF IsText
<1>2. Ch(Len(text) + 1) = EOF
  BY <1>1, ChIs
<1>3. S \in SUBSET Nat /\ Len(text) + 1 \in S
  BY <1>1, <1>2 DEF Positions
<1>4. Until(a, {"\n"}) = Min(S)
  BY DEF Until
<1>5. Min(S) \in S /\ \A k \in S : Min(S) <= k
  BY <1>3, LeastNat
<1>6. ASSUME NEW k \in a..Min(S) - 1 PROVE text[k] # "\n"
  <2>1. k \in 1..Len(text) /\ k \in a..Len(text) + 1 /\ k \notin S
    BY <1>1, <1>5 DEF Positions
  <2>2. Ch(k) = text[k] /\ Ch(k) # "\n"
    BY <2>1, ChIs
  <2>3. QED
    BY <2>2
<1>7. QED
  BY <1>4, <1>5, <1>6 DEF Reach

LEMMA ReachAfter ==
  ASSUME IsText, NEW a \in Positions, NEW class, EOF \notin class, "\n" \notin class
  PROVE  Reach(a, After(a, class))
<1>1. CASE Ch(a) \in class
  BY <1>1, ReachOne DEF After, Positions
<1>2. CASE Ch(a) \notin class
  BY <1>2, ReachNone DEF After
<1>3. QED
  BY <1>1, <1>2

LEMMA ReachIn ==
  ASSUME NEW a, NEW b, Reach(a, b)
  PROVE  a \in Positions /\ b \in Positions
BY DEF Reach, Positions

-----------------------------------------------------------------------------
(* Where the tokens end.                                                   *)

LEMMA ReachInt ==
  ASSUME IsText, NEW a \in Positions, NEW u, NEW l, NEW ll,
         u = After(a, {"u"}), l = After(u, {"L"}), ll = IF l > u THEN After(l, {"L"}) ELSE l
  PROVE  Reach(a, ll)
<1>1. EOF \notin {"u"} /\ EOF \notin {"L"}
  BY DEF EOF
<1>2. Reach(a, u) /\ u \in Positions
  BY <1>1, ReachAfter, ReachIn
<1>3. Reach(u, l) /\ l \in Positions
  BY <1>1, <1>2, ReachAfter, ReachIn
<1>4. Reach(l, ll)
  BY <1>1, <1>3, ReachAfter, ReachNone
<1>5. QED
  BY <1>2, <1>3, <1>4, ReachTrans

LEMMA ReachFloat ==
  ASSUME IsText, NEW a \in Positions, NEW f, NEW e,
         f = IF Ch(a) = "." THEN While(a + 1, Digits) ELSE a,
         e = IF Ch(f) = "e" THEN While(After(f + 1, {"+", "-"}), Digits) ELSE f
  PROVE  Reach(a, After(e, {"f", "L"}))
<1>1. /\ EOF \notin Digits /\ "\n" \notin Digits /\ EOF \notin {"+", "-"}
      /\ EOF \notin {".", "e"} /\ EOF \notin {"f", "L"}
  BY Classes DEF EOF, Digits, OctDigits
<1>2. ASSUME NEW i \in Positions, Ch(i) \in {".", "e"}
      PROVE  Reach(i, i + 1) /\ i + 1 \in Positions
  BY <1>1, <1>2, ReachOne, ReachIn DEF Positions
<1>3. Reach(a, f) /\ f \in Positions
  <2>1. CASE Ch(a) = "."
    BY <1>1, <1>2, <2>1, ReachWhile, ReachTrans, ReachIn
  <2>2. CASE Ch(a) # "."
    BY <2>2, ReachNone
  <2>3. QED
    BY <2>1, <2>2
<1>4. Reach(f, e) /\ e \in Positions
  <2>1. CASE Ch(f) = "e"
    <3>1. Reach(f, f + 1) /\ f + 1 \in Positions
      BY <1>2, <1>3, <2>1
    <3> DEFINE g == After(f + 1, {"+", "-"})
    <3>2. Reach(f + 1, g) /\ g \in Positions
      BY <1>1, <3>1, ReachAfter, ReachIn
    <3>3. Reach(g, e) /\ e \in Positions
      BY <1>1, <2>1, <3>2, ReachWhile, ReachIn
    <3> HIDE DEF g
    <3>4. QED
      BY <3>1, <3>2, <3>3, ReachTrans
  <2>2. CASE Ch(f) # "e"
    BY <1>3, <2>2, ReachNone
  <2>3. QED
    BY <2>1, <2>2
<1>5. Reach(a, e)
  BY <1>3, <1>4, ReachTrans
<1>6. Reach(e, After(e, {"f", "L"}))
  BY <1>1, <1>4, ReachAfter
<1>7. QED
  BY <1>5, <1>6, ReachTrans

LEMMA ReachOperator ==
  ASSUME IsText, NEW a \in Positions, Ch(a) \in Operators
  PROVE  Reach(a, OperatorEnd(a))
<1>1. ASSUME NEW i \in Nat \ {0}, Ch(i) \in Operators
      PROVE  Reach(i, i + 1)
  BY <1>1, ReachOne DEF EOF, Operators
<1>2. Reach(a, a + 1) /\ a + 1 \in Positions
  BY <1>1, ReachIn DEF Positions
<1>3. ASSUME Ch(a + 1) \in Operators PROVE Reach(a, a + 2) /\ a + 2 \in Positions
  <2>1. Reach(a + 1, (a + 1) + 1)
    BY <1>1, <1>2, <1>3 DEF Positions
  <2>2. (a + 1) + 1 = a + 2
    BY DEF Positions
  <2>3. QED
    BY <1>2, <2>1, <2>2, ReachTrans, ReachIn
<1>4. ASSUME Ch(a + 1) \in Operators, Ch(a + 2) \in Operators PROVE Reach(a, a + 3)
  <2>1. Reach(a + 2, (a + 2) + 1)
    BY <1>1, <1>3, <1>4 DEF Positions
  <2>2. (a + 2) + 1 = a + 3
    BY DEF Positions
  <2>3. QED
    BY <1>3, <1>4, <2>1, <2>2, ReachTrans
<1>5. CASE Ch(a) = "."
  <2>1. <<Ch(a), Ch(a + 1)>> \notin Doubles
    BY <1>5 DEF Doubles
  <2>2. OperatorEnd(a) = IF Ch(a + 1) = "." /\ Ch(a + 2) = "." THEN a + 3 ELSE a + 1
    BY <1>5, <2>1 DEF OperatorEnd
  <2>3. "." \in Operators
    BY DEF Operators
  <2>4. QED
    BY <1>2, <1>4, <2>2, <2>3
<1>6. CASE Ch(a) # "." /\ Ch(a + 1) = "="
  <2>1. OperatorEnd(a) = a + 2
    BY <1>6 DEF OperatorEnd, Doubles, After
  <2>2. QED
    BY <1>3, <1>6, <2>1 DEF Operators
<1>7. CASE Ch(a) # "." /\ Ch(a + 1) # "=" /\ <<Ch(a), Ch(a + 1)>> \in Doubles
  <2>1. Ch(a + 1) \in Operators
    BY <1>7 DEF Doubles, Operators
  <2>2. OperatorEnd(a) = IF Ch(a) \in {"<", ">"} THEN After(a + 2, {"="}) ELSE a + 2
    BY <1>7 DEF OperatorEnd
  <2>3. OperatorEnd(a) = IF Ch(a) \in {"<", ">"} /\ Ch(a + 2) = "=" THEN (a + 2) + 1 ELSE a + 2
    BY <2>2 DEF After
  <2>4. (a + 2) + 1 = a + 3 /\ "=" \in Operators
    BY DEF Positions, Operators
  <2>5. QED
    BY <1>3, <1>4, <2>1, <2>3, <2>4
<1>8. CASE Ch(a) # "." /\ Ch(a + 1) # "=" /\ <<Ch(a), Ch(a + 1)>> \notin Doubles
  BY <1>2, <1>8 DEF OperatorEnd
<1>9. QED
  BY <1>5, <1>6, <1>7, <1>8

\* No newline is swallowed.
Neat == ~Swallows

LEMMA NeatIs ==
  ASSUME IsText, Neat, NEW i \in Nat \ {0}
  PROVE  /\ (Ch(i) = "#" /\ NamesLine(i)) => Ch(QuoteAt(i)) # "\n"
         /\ Ch(i) = "\\" => Ch(i + 1) # "\n"
         /\ (Ch(i) = "/" /\ Ch(i + 1) = "*") => Ch(i + 2) # "\n"
<1>1. Len(<<"\\", "\n">>) = 2 /\ Len(<<"/", "*", "\n">>) = 3
  OBVIOUS
<1>2. Len(text) \in Nat
  BY DEF IsText
<1>3. \A j \in Nat \ {0} : Ch(j) # EOF => j \in 1..Len(text) /\ Ch(j) = text[j]
  BY ChIs
<1>4. EOF \notin {"#", "\n"}
  BY DEF EOF
<1>5. ASSUME Ch(i) = "#", NamesLine(i), Ch(QuoteAt(i)) = "\n" PROVE FALSE
  <2>1. i \in DOMAIN text /\ text[i] = "#"
    BY <1>3, <1>4, <1>5 DEF IsText
  <2>2. QED
    BY <1>5, <2>1 DEF Neat, Swallows, SwallowsLine
<1>6. ASSUME Ch(i) = "\\", Ch(i + 1) = "\n" PROVE FALSE
  <2>1. i + 1 \in 1..Len(text) /\ text[i + 1] = "\n" /\ i \in 1..Len(text) /\ text[i] = "\\"
    BY <1>2, <1>3, <1>4, <1>6 DEF EOF
  <2>2. i - 1 \in 0..Len(text) - 2 /\ (i - 1) + 1 = i /\ (i - 1) + 2 = i + 1
    BY <1>2, <2>1
  <2>3. \A k \in 1..2 : text[(i - 1) + k] = <<"\\", "\n">>[k]
    BY <2>1, <2>2
  <2>4. QED
    BY <1>1, <2>2, <2>3 DEF Neat, Swallows, Has
<1>7. ASSUME Ch(i) = "/", Ch(i + 1) = "*", Ch(i + 2) = "\n" PROVE FALSE
  <2>1. /\ i + 2 \in 1..Len(text) /\ text[i + 2] = "\n"
        /\ i + 1 \in 1..Len(text) /\ text[i + 1] = "*"
        /\ i \in 1..Len(text) /\ text[i] = "/"
    BY <1>2, <1>3, <1>4, <1>7 DEF EOF
  <2>2. /\ i - 1 \in 0..Len(text) - 3 
        /\ (i - 1) + 1 = i /\ (i - 1) + 2 = i + 1 /\ (i - 1) + 3 = i + 2
    BY <1>2, <2>1
  <2>3. \A k \in 1..3 : text[(i - 1) + k] = <<"/", "*", "\n">>[k]
    BY <2>1, <2>2
  <2>4. QED
    BY <1>1, <2>2, <2>3 DEF Neat, Swallows, Has
<1>8. QED
  BY <1>5, <1>6, <1>7

-----------------------------------------------------------------------------
(* Counting newlines.                                                      *)

LEMMA NewlinesAre ==
  ASSUME IsText, NEW a \in Nat, NEW b \in Int
  PROVE  Newlines(a, b) \in Nat
<1>1. IsFiniteSet(a..b)
  BY FS_Interval
<1>2. IsFiniteSet({k \in a..b : k <= Len(text) /\ text[k] = "\n"})
  BY <1>1, FS_Subset
<1>3. QED
  BY <1>2, FS_CardinalityType DEF Newlines

LEMMA NewlinesAdd ==
  ASSUME IsText, NEW a \in Nat, NEW b \in Nat, NEW c \in Nat, a <= b, b <= c
  PROVE  Newlines(a, c - 1) = Newlines(a, b - 1) + Newlines(b, c - 1)
<1> DEFINE N(i, j) == {k \in i..j : k <= Len(text) /\ text[k] = "\n"}
<1>1. IsFiniteSet(a..b - 1) /\ IsFiniteSet(b..c - 1)
  BY FS_Interval
<1>2. IsFiniteSet(N(a, b - 1)) /\ IsFiniteSet(N(b, c - 1))
  BY <1>1, FS_Subset
<1>3. N(a, c - 1) = N(a, b - 1) \cup N(b, c - 1) /\ N(a, b - 1) \cap N(b, c - 1) = {}
  OBVIOUS
<1>4. /\ Newlines(a, c - 1) = Cardinality(N(a, c - 1))
      /\ Newlines(a, b - 1) = Cardinality(N(a, b - 1))
      /\ Newlines(b, c - 1) = Cardinality(N(b, c - 1))
  BY DEF Newlines
<1> HIDE DEF N
<1>5. Cardinality(N(a, c - 1)) =
        Cardinality(N(a, b - 1)) + Cardinality(N(b, c - 1)) - Cardinality(N(a, b - 1) \cap N(b, c - 1))
  BY <1>2, <1>3, FS_Union
<1>6. Cardinality(N(a, b - 1) \cap N(b, c - 1)) = 0
  BY <1>3, FS_EmptySet
<1>7. Cardinality(N(a, b - 1)) \in Nat /\ Cardinality(N(b, c - 1)) \in Nat
  BY <1>2, FS_CardinalityType
<1>8. QED
  BY <1>4, <1>5, <1>6, <1>7

LEMMA NoNewlines ==
  ASSUME IsText, NEW a, NEW b, Reach(a, b)
  PROVE  Newlines(a, b - 1) = 0
<1>1. {k \in a..b - 1 : k <= Len(text) /\ text[k] = "\n"} = {}
  BY DEF Reach
<1>2. QED
  BY <1>1, FS_EmptySet DEF Newlines

LEMMA OneNewline ==
  ASSUME IsText, NEW a \in Positions, Ch(a) = "\n"
  PROVE  a + 1 \in Positions /\ Newlines(a, (a + 1) - 1) = 1
<1>1. a \in 1..Len(text) /\ text[a] = "\n" /\ Len(text) \in Nat
  BY ChIs DEF EOF, Positions, IsText
<1>2. {k \in a..(a + 1) - 1 : k <= Len(text) /\ text[k] = "\n"} = {a}
  BY <1>1
<1>3. Cardinality({a}) = 1
  BY FS_Singleton
<1>4. Newlines(a, (a + 1) - 1) = 1
  BY <1>2, <1>3 DEF Newlines
<1>5. QED
  BY <1>1, <1>4 DEF Positions

-----------------------------------------------------------------------------
(* The steps of nextToken.                                                 *)

\* What holds of the text, the positions and the sequences of tokens.
Bounds ==
  /\ IsText
  /\ mode \in Modes
  /\ cursor \in Nat /\ (mode # "overrun" => cursor \in Positions)
  /\ EndsInNewline /\ SentinelFits => mode # "overrun"
  /\ IsSeq(tokens) /\ IsSeq(peek.tokens)
  /\ peek # NoPeek => peek.cursor \in Positions /\ peek.cursor <= cursor

\* The cursor goes on, within the mapping if the file ends in a newline, and
\* line counts the newlines it passes, except for those that are not seen.
Advances ==
  /\ UNCHANGED <<text, peek, reread>>
  /\ cursor' \in Nat /\ cursor <= cursor'
  /\ line' \in Nat
  /\ mode' \in Modes
  /\ mode' = "overrun" <=> ~Mapped(cursor')
  /\ EndsInNewline => Mapped(cursor')
  /\ Neat /\ Mapped(cursor') => line' = line + Newlines(cursor, cursor' - 1)

LEMMA ReachAdvances ==
  ASSUME Bounds, line \in Nat, Reach(cursor, cursor'), mode' \in Modes \ {"overrun"},
         UNCHANGED <<text, peek, reread, line>>
  PROVE  Advances
<1>1. cursor' \in Positions /\ cursor <= cursor' /\ Len(text) \in Nat
  BY DEF Reach, Positions, Bounds, IsText
<1>2. Newlines(cursor, cursor' - 1) = 0
  BY NoNewlines DEF Bounds
<1>3. QED
  BY <1>1, <1>2 DEF Advances, Mapped, Positions

LEMMA MoveTo ==
  ASSUME IsText, NEW i \in Positions, NEW m, Move(i, m)
  PROVE  cursor' = i /\ mode' = m /\ UNCHANGED <<text, peek, again, reread>>
BY DEF Move, Positions, Mapped, IsText

LEMMA TokenTo ==
  ASSUME NEW kind, NEW start, NEW to, NEW val, TokenOf(kind, start, to, val)
  PROVE  /\ cursor' = to /\ mode' = "idle" /\ UNCHANGED <<text, peek, reread, line, from>>
         /\ tokens' = Append(tokens, [kind |-> kind, from |-> start.at, to |-> to,
                                      line |-> start.line, val |-> val])
BY DEF TokenOf

LEMMA SkipBlankAdvances ==
  ASSUME Bounds, line \in Nat, SkipBlank PROVE Advances
<1>1. Skipping /\ Ch(cursor) \in Blanks /\ cursor \in Positions /\ IsText
  BY DEF SkipBlank, Skipping, Bounds
<1>2. Reach(cursor, cursor + 1) /\ cursor + 1 \in Positions
  BY <1>1, ReachOne, ReachIn, Classes DEF Positions
<1>3. cursor' = cursor + 1 /\ mode' = mode /\ UNCHANGED <<text, peek, reread, line>>
  BY <1>1, <1>2, MoveTo DEF SkipBlank
<1>4. QED
  BY <1>1, <1>2, <1>3, ReachAdvances DEF Skipping, Modes

LEMMA SkipNewlineAdvances ==
  ASSUME Bounds, line \in Nat, SkipNewline PROVE Advances
<1>1. Skipping /\ Ch(cursor) = "\n" /\ cursor \in Positions /\ IsText
  BY DEF SkipNewline, Skipping, Bounds
<1>2. cursor + 1 \in Positions /\ Newlines(cursor, (cursor + 1) - 1) = 1
  BY <1>1, OneNewline
<1>3. cursor' = cursor + 1 /\ mode' = mode /\ UNCHANGED <<text, peek, reread>> /\ line' = line + 1
  BY <1>1, <1>2, MoveTo DEF SkipNewline
<1>4. QED
  BY <1>1, <1>2, <1>3 DEF Advances, Skipping, Modes, Positions, Mapped

LEMMA SkipLineCommentAdvances ==
  ASSUME Bounds, line \in Nat, SkipLineComment PROVE Advances
<1>1. /\ Skipping /\ cursor \in Positions /\ IsText
      /\ Ch(cursor) = "/" /\ Ch(cursor + 1) = "/"
  BY DEF SkipLineComment, Skipping, Bounds
<1>2. Reach(cursor, cursor + 1) /\ cursor + 1 \in Positions
  BY <1>1, ReachOne, ReachIn DEF Positions, EOF
<1>3. Reach(cursor + 1, (cursor + 1) + 1) /\ (cursor + 1) + 1 = cursor + 2
  BY <1>1, <1>2, ReachOne DEF Positions, EOF
<1>4. Reach(cursor, cursor + 2) /\ cursor + 2 \in Positions
  BY <1>1, <1>2, <1>3, ReachTrans, ReachIn
<1>5. Reach(cursor, Until(cursor + 2, {"\n"})) /\ Until(cursor + 2, {"\n"}) \in Positions
  BY <1>1, <1>4, ReachUntil, ReachTrans, ReachIn
<1>6. cursor' = Until(cursor + 2, {"\n"}) /\ mode' = mode /\ UNCHANGED <<text, peek, reread, line>>
  BY <1>1, <1>5, MoveTo DEF SkipLineComment
<1>7. QED
  BY <1>1, <1>5, <1>6, ReachAdvances DEF Skipping, Modes

LEMMA EndSkipAdvances ==
  ASSUME Bounds, line \in Nat, EndSkip PROVE Advances
<1>1. Skipping /\ cursor \in Positions /\ IsText
  BY DEF EndSkip, Skipping, Bounds
<1>2. Reach(cursor, cursor)
  BY <1>1, ReachNone
<1>3. cursor' = cursor /\ mode' = LeaveSkip /\ UNCHANGED <<text, peek, reread, line>>
  BY <1>1, MoveTo DEF EndSkip
<1>4. QED
  BY <1>1, <1>2, <1>3, ReachAdvances DEF LeaveSkip, Modes

\* Only the last character is an end's neighbour, and that is a newline.
LEMMA BeforeNewline ==
  ASSUME IsText, EndsInNewline, NEW i \in Nat \ {0}, Ch(i) # EOF, Ch(i) # "\n"
  PROVE  i + 1 \in 1..Len(text)
<1>1. i \in 1..Len(text) /\ Ch(i) = text[i] /\ Len(text) \in Nat
  BY ChIs DEF IsText
<1>2. text[Len(text)] = "\n"
  BY DEF EndsInNewline
<1>3. QED
  BY <1>1, <1>2

LEMMA SkipCommentAdvances ==
  ASSUME Bounds, line \in Nat, SkipComment PROVE Advances
<1> DEFINE start == cursor + 3
           stops == {j \in start..Len(text) + 1 :
                       Closes(j) \/ (Ch(j) # "\n" /\ EOF \in {Ch(j), Ch(j + 1)})}
<1>1. /\ Skipping /\ cursor \in Positions /\ IsText /\ Len(text) \in Nat
      /\ Ch(cursor) = "/" /\ Ch(cursor + 1) = "*"
  BY DEF SkipComment, Skipping, Bounds, IsText
<1>2. Reach(cursor, cursor + 1) /\ Reach(cursor + 1, (cursor + 1) + 1) /\ (cursor + 1) + 1 = cursor + 2
  BY <1>1, ReachOne DEF Positions, EOF
<1>3. Reach(cursor, cursor + 2) /\ cursor + 2 \in Positions
  BY <1>1, <1>2, ReachTrans, ReachIn
<1>4. UNCHANGED <<text, peek, reread>>
  <2>1. \A i, m : Move(i, m) => UNCHANGED <<text, peek, reread>>
    BY DEF Move
  <2>2. QED
    BY <2>1 DEF SkipComment
<1>5. CASE cursor + 2 = Len(text) + 1
  <2>1. stops = {} /\ start \notin Positions /\ ~Mapped(start) /\ start \in Nat /\ cursor <= start
    BY <1>1, <1>5 DEF Positions, Mapped
  <2>2. Move(start, mode) /\ UNCHANGED line
    BY <2>1 DEF SkipComment
  <2>3. cursor' = start /\ mode' = "overrun"
    BY <2>1, <2>2 DEF Move
  <2>4. ~EndsInNewline
    <3>1. Ch(cursor + 1) # EOF /\ Ch(cursor + 1) # "\n" /\ cursor + 1 \in Nat \ {0}
      BY <1>1 DEF EOF, Positions
    <3>2. ~((cursor + 1) + 1 \in 1..Len(text))
      BY <1>1, <1>5 DEF Positions
    <3>3. QED
      BY <1>1, <3>1, <3>2, BeforeNewline
  <2>5. QED
    BY <1>4, <2>1, <2>2, <2>3, <2>4 DEF Advances, Modes, Mapped
<1>6. CASE cursor + 2 # Len(text) + 1
  <2>1. start \in Positions /\ Ch(Len(text) + 1) = EOF
    BY <1>1, <1>3, <1>6, ChIs DEF Positions
  <2>2. stops \in SUBSET Nat /\ stops # {}
    <3>1. Len(text) + 1 \in stops
      BY <1>1, <2>1 DEF Positions, EOF, IsText
    <3>2. stops \in SUBSET Nat
      BY <1>1 DEF Positions
    <3>3. QED
      BY <3>1, <3>2
  <2>3. PICK j \in stops : j = Min(stops)
    BY <2>2, LeastNat
  <2>4. j \in Nat /\ start <= j /\ cursor <= j /\ j \in Positions
    BY <1>1, <2>1, <2>3 DEF Positions
  <2>5. /\ line' = line + Newlines(start, j - 1)
        /\ IF Closes(j) THEN Move(j + 2, mode) ELSE Move(j, LeaveSkip)
    BY <2>2, <2>3 DEF SkipComment
  <2>6. Newlines(start, j - 1) \in Nat /\ line' \in Nat
    <3>1. start \in Nat /\ j - 1 \in Int
      BY <1>1, <2>4 DEF Positions
    <3>2. Newlines(start, j - 1) \in Nat
      <4> HIDE DEF start
      <4>1. QED
        BY <1>1, <3>1, NewlinesAre
    <3>3. QED
      BY <2>5, <3>2
  <2>7. Neat => Newlines(cursor, j - 1) = Newlines(start, j - 1)
    <3>1. SUFFICES ASSUME Neat PROVE Newlines(cursor, j - 1) = Newlines(start, j - 1)
      OBVIOUS
    <3>2. Ch(cursor + 2) # "\n"
      BY <1>1, <3>1, NeatIs DEF Positions
    <3>3. Reach(cursor + 2, start)
      <4>1. cursor + 2 \in 1..Len(text) /\ start = (cursor + 2) + 1
        BY <1>1, <1>3, <1>6 DEF Positions
      <4>2. Ch(cursor + 2) # EOF
        BY <1>1, <4>1, ChIs
      <4>3. QED
        BY <1>1, <3>2, <4>1, <4>2, ReachOne
    <3>4. Newlines(cursor, start - 1) = 0
      BY <1>1, <1>3, <3>3, ReachTrans, NoNewlines
    <3>5. Newlines(cursor, j - 1) = Newlines(cursor, start - 1) + Newlines(start, j - 1)
      BY <1>1, <2>4, NewlinesAdd DEF Positions
    <3>6. QED
      BY <2>6, <3>4, <3>5
  <2>8. CASE Closes(j)
    <3>1. Reach(j, j + 1) /\ Reach(j + 1, (j + 1) + 1) /\ (j + 1) + 1 = j + 2
      BY <1>1, <2>4, <2>8, ReachOne DEF Closes, Positions, EOF
    <3>2. Reach(j, j + 2) /\ j + 2 \in Positions
      BY <1>1, <3>1, ReachTrans, ReachIn
    <3>3. cursor' = j + 2 /\ mode' = mode
      BY <1>1, <2>5, <2>8, <3>2, MoveTo
    <3>4. Newlines(cursor, (j + 2) - 1) = Newlines(cursor, j - 1) + Newlines(j, (j + 2) - 1)
      <4>1. cursor \in Nat /\ j \in Nat /\ j + 2 \in Nat /\ cursor <= j /\ j <= j + 2
        BY <1>1, <2>4 DEF Positions
      <4>2. QED
        BY <1>1, <4>1, NewlinesAdd
    <3>5. Newlines(j, (j + 2) - 1) = 0 /\ Newlines(cursor, j - 1) \in Nat
      <4>1. cursor \in Nat /\ j - 1 \in Int
        BY <1>1, <2>4 DEF Positions
      <4>2. Newlines(cursor, j - 1) \in Nat
        BY <1>1, <4>1, NewlinesAre
      <4>3. QED
        BY <1>1, <3>2, <4>2, NoNewlines
    <3>6. Mapped(j + 2) /\ cursor <= j + 2 /\ j + 2 \in Nat
      BY <1>1, <2>4, <3>2 DEF Mapped, Positions
    <3>7. Neat => line' = line + Newlines(cursor, cursor' - 1)
      BY <2>5, <2>7, <3>3, <3>4, <3>5
    <3>8. mode' # "overrun" /\ mode' \in Modes
      BY <1>1, <3>3 DEF Skipping, Modes
    <3>9. QED
      BY <1>4, <2>6, <3>3, <3>6, <3>7, <3>8 DEF Advances, Mapped
  <2>9. CASE ~Closes(j)
    <3>1. cursor' = j /\ mode' = LeaveSkip
      BY <1>1, <2>4, <2>5, <2>9, MoveTo
    <3>2. Neat => line' = line + Newlines(cursor, cursor' - 1)
      BY <2>5, <2>7, <3>1
    <3>3. mode' # "overrun" /\ mode' \in Modes
      BY <3>1 DEF LeaveSkip, Modes
    <3>4. Mapped(j)
      BY <1>1, <2>4 DEF Mapped, Positions
    <3>5. QED
      BY <1>4, <2>4, <2>6, <3>1, <3>2, <3>3, <3>4 DEF Advances, Mapped
  <2>10. QED
    BY <2>8, <2>9
<1>7. QED
  BY <1>5, <1>6

LEMMA SkipDirectiveAdvances ==
  ASSUME Bounds, line \in Nat, SkipDirective PROVE Advances
<1> DEFINE word == WordAt(cursor)
           number == NumberAt(cursor)
           quote == QuoteAt(cursor)
           name == IF NamesLine(cursor) THEN quote + 1 ELSE word
           end == IF Mapped(name) THEN Until(name, {"\n"}) ELSE name
<1>1. /\ Skipping /\ cursor \in Positions /\ IsText /\ Len(text) \in Nat
      /\ Ch(cursor) = "#"
  BY DEF SkipDirective, Skipping, Bounds, IsText
<1>2. Move(end, mode) /\ UNCHANGED line
  BY DEF SkipDirective
<1>3. EOF \notin Blanks /\ EOF \notin Digits /\ EOF # "line" /\ "\n" \notin Blanks /\ "\n" \notin Digits
  BY DEF EOF, Blanks, Digits, OctDigits
<1>4. ASSUME NEW i \in Positions, NEW class, EOF \notin class, "\n" \notin class
      PROVE  /\ While(i, class) \in Positions /\ i <= While(i, class)
             /\ EndsInNewline /\ i <= Len(text) => While(i, class) <= Len(text)
  <2>1. /\ While(i, class) \in i..Len(text) + 1
        /\ \A k \in i..While(i, class) - 1 : Ch(k) \in class
    BY <1>1, <1>4, WhileIs
  <2>2. ASSUME EndsInNewline, i <= Len(text), While(i, class) = Len(text) + 1
        PROVE  FALSE
    <3>1. Ch(Len(text)) \in class /\ Len(text) \in 1..Len(text)
      BY <1>1, <2>1, <2>2 DEF Positions
    <3>2. Ch(Len(text)) = text[Len(text)]
      BY <1>1, <3>1, ChIs
    <3>3. QED
      BY <1>4, <2>2, <3>1, <3>2 DEF EndsInNewline
  <2>3. QED
    BY <1>1, <2>1, <2>2 DEF Positions
<1>5. /\ cursor + 1 \in Positions
      /\ EndsInNewline => cursor + 1 <= Len(text)
  <2>1. Ch(cursor) # EOF /\ Ch(cursor) # "\n"
    BY <1>1 DEF EOF
  <2>2. cursor \in 1..Len(text)
    BY <1>1, <2>1, ChIs DEF Positions
  <2>3. EndsInNewline => cursor + 1 \in 1..Len(text)
    BY <1>1, <2>1, BeforeNewline DEF Positions
  <2>4. QED
    BY <1>1, <2>2, <2>3 DEF Positions
<1>6. word \in Positions /\ cursor + 1 <= word /\ (EndsInNewline => word <= Len(text))
  BY <1>3, <1>4, <1>5 DEF WordAt
<1>6a. number = IF Ch(word) = "line" THEN While(word + 1, Blanks) ELSE word
  BY DEF NumberAt
<1>6b. quote = While(While(number, Digits), Blanks)
  BY DEF QuoteAt
<1>6c. Reach(cursor, word)
  BY <1>1, <1>3, <1>5, ReachOne, ReachWhile, ReachTrans DEF WordAt, EOF, Positions
<1> HIDE DEF word, number, quote
<1>7. number \in Positions /\ word <= number /\ (EndsInNewline => number <= Len(text))
  <2>1. CASE Ch(word) = "line"
    <3>1. Ch(word) # EOF /\ Ch(word) # "\n"
      BY <2>1 DEF EOF
    <3>2. word \in 1..Len(text)
      BY <1>1, <1>6, <3>1, ChIs DEF Positions
    <3>3. EndsInNewline => word + 1 \in 1..Len(text)
      BY <1>1, <1>6, <3>1, BeforeNewline DEF Positions
    <3>4. word + 1 \in Positions /\ (EndsInNewline => word + 1 <= Len(text))
      BY <1>1, <3>2, <3>3 DEF Positions
    <3>5. /\ While(word + 1, Blanks) \in Positions /\ word + 1 <= While(word + 1, Blanks)
          /\ EndsInNewline => While(word + 1, Blanks) <= Len(text)
      BY <1>3, <1>4, <3>4
    <3>6. QED
      BY <1>6a, <2>1, <3>2, <3>5 DEF Positions
  <2>2. CASE Ch(word) # "line"
    BY <1>6, <1>6a, <2>2 DEF Positions
  <2>3. QED
    BY <2>1, <2>2
<1>8. While(number, Digits) \in Positions /\ number <= While(number, Digits)
      /\ (EndsInNewline => While(number, Digits) <= Len(text))
  BY <1>3, <1>4, <1>7
<1>9. quote \in Positions /\ While(number, Digits) <= quote /\ (EndsInNewline => quote <= Len(text))
  BY <1>3, <1>4, <1>6b, <1>8
<1>10. /\ number <= quote /\ word <= quote /\ cursor + 1 <= quote
  BY <1>1, <1>5, <1>6, <1>7, <1>8, <1>9 DEF Positions
<1>11. name \in Nat /\ cursor <= name /\ name > 0 /\ (EndsInNewline => Mapped(name))
  BY <1>1, <1>6, <1>9, <1>10 DEF Positions, Mapped
<1>12. Neat /\ Mapped(name) => Reach(cursor, name)
  <2>1. SUFFICES ASSUME Neat, Mapped(name), NamesLine(cursor) PROVE Reach(cursor, quote + 1)
    BY <1>6c
  <2>2. Ch(quote) # "\n"
    BY <1>1, <2>1, NeatIs DEF quote, Positions
  <2>3. Ch(quote) # EOF
    BY <1>1, <1>9, <2>1, ChIs DEF Mapped, Positions
  <2>4. Reach(quote, quote + 1)
    BY <1>1, <1>9, <2>2, <2>3, ReachOne DEF Positions
  <2>5. Reach(word, number)
    <3>1. CASE Ch(word) = "line"
      <4>1. Reach(word, word + 1)
        BY <1>1, <1>6, <3>1, ReachOne DEF EOF, Positions
      <4>2. Reach(word + 1, number)
        BY <1>1, <1>3, <1>6a, <3>1, <4>1, ReachIn, ReachWhile
      <4>3. QED
        BY <1>1, <4>1, <4>2, ReachTrans
    <3>2. CASE Ch(word) # "line"
      BY <1>1, <1>6, <1>6a, <3>2, ReachNone
    <3>3. QED
      BY <3>1, <3>2
  <2>6. Reach(number, While(number, Digits)) /\ Reach(While(number, Digits), quote)
    BY <1>1, <1>3, <1>6b, <1>7, <1>8, ReachWhile
  <2>7. QED
    BY <1>1, <1>6c, <2>4, <2>5, <2>6, ReachTrans
<1> HIDE DEF name
<1>13. CASE Mapped(name)
  <2>1. name \in Positions
    BY <1>1, <1>11, <1>13 DEF Positions, Mapped
  <2>2. Reach(name, end)
    BY <1>1, <1>13, <2>1, ReachUntil
  <2>2a. Neat => Newlines(cursor, end - 1) = 0
    BY <1>1, <1>12, <1>13, <2>2, ReachTrans, NoNewlines
  <2>3. end \in Positions /\ name <= end /\ cursor <= end
    BY <1>1, <1>11, <2>1, <2>2 DEF Reach, Positions
  <2> HIDE DEF end
  <2>4. cursor' = end /\ mode' = mode /\ UNCHANGED <<text, peek, reread>>
    BY <1>1, <1>2, <2>3, MoveTo
  <2>5. Mapped(end) /\ mode' # "overrun" /\ mode' \in Modes
    BY <1>1, <2>3, <2>4 DEF Positions, Mapped, Skipping, Modes
  <2>6. QED
    BY <1>2, <2>2a, <2>3, <2>4, <2>5 DEF Advances, Positions, Mapped
<1>14. CASE ~Mapped(name)
  <2>1. end = name
    BY <1>14
  <2> HIDE DEF end
  <2>2. cursor' = name /\ mode' = "overrun" /\ UNCHANGED <<text, peek, reread>>
    BY <1>2, <1>14, <2>1 DEF Move
  <2>3. QED
    BY <1>2, <1>11, <1>14, <2>2 DEF Advances, Mapped, Modes
<1>15. QED
  BY <1>13, <1>14

-----------------------------------------------------------------------------
(* The scanners.                                                           *)

\* A step returns a token that began at start and ends at the cursor.
Returns(kind, start) ==
  /\ mode' = "idle"
  /\ UNCHANGED <<text, peek, reread, line, from>>
  /\ \E val : tokens' = Append(tokens, [kind |-> kind, from |-> start.at, to |-> cursor',
                                       line |-> start.line, val |-> val])

LEMMA TokenReturns ==
  ASSUME NEW kind, NEW start, NEW to, Token(kind, start, to)
  PROVE  Returns(kind, start) /\ cursor' = to
BY TokenTo DEF Token, Returns

LEMMA ScanEOFReturns ==
  ASSUME Bounds, line \in Nat, ScanEOF
  PROVE  Advances /\ Returns("TK_END", Start)
<1>1. Token("TK_END", Start, cursor) /\ mode # "overrun"
  BY DEF ScanEOF
<1>2. Returns("TK_END", Start) /\ cursor' = cursor
  BY <1>1, TokenReturns
<1>3. Reach(cursor, cursor)
  BY <1>1, ReachNone DEF Bounds
<1>4. QED
  BY <1>2, <1>3, ReachAdvances DEF Returns, Modes

LEMMA ScanIdentifierReturns ==
  ASSUME Bounds, line \in Nat, ScanIdentifier
  PROVE  Advances /\ \E kind : Returns(kind, Start) /\ kind # "operator"
<1> DEFINE to == While(cursor + 1, Letters \cup Digits)
           kind == FindKeyword(cursor, to)
<1>1. Token(kind, Start, to) /\ mode # "overrun" /\ Ch(cursor) \in Letters /\ IsText /\ cursor \in Positions
  BY DEF ScanIdentifier, Bounds
<1>2. Returns(kind, Start) /\ cursor' = to /\ kind # "operator"
  BY <1>1, TokenReturns DEF FindKeyword
<1>3. Reach(cursor, cursor + 1) /\ cursor + 1 \in Positions
  BY <1>1, Classes, ReachOne, ReachIn DEF Positions
<1>4. EOF \notin Letters \cup Digits /\ "\n" \notin Letters \cup Digits
  BY Classes DEF Digits, OctDigits, EOF
<1>5. Reach(cursor, to)
  BY <1>1, <1>3, <1>4, ReachWhile, ReachTrans
<1> HIDE DEF to, kind
<1>6. QED
  BY <1>2, <1>5, ReachAdvances DEF Returns, Modes

LEMMA IntLiteralReturns ==
  ASSUME Bounds, line \in Nat, mode = "scan", NEW start, NEW i \in Positions, NEW base,
         Reach(cursor, i), IntLiteral(start, i, base)
  PROVE  Advances /\ \E kind : Returns(kind, Start) /\ kind # "operator"
<1> DEFINE u == After(i, {"u"})
           l == After(u, {"L"})
           ll == IF l > u THEN After(l, {"L"}) ELSE l
           kind == SuffixKind(u > i, l > u, ll > l)
           val == IntValue(SubSeq(text, start, i - 1), base)
<1>1. TokenOf(kind, Start, ll, val)
  BY DEF IntLiteral
<1>2. kind # "operator"
  <2>1. ASSUME NEW a \in BOOLEAN, NEW b \in BOOLEAN, NEW c \in BOOLEAN, c => b
        PROVE  SuffixKind(a, b, c) # "operator"
    <3>1. CASE c
      BY <2>1, <3>1 DEF SuffixKind
    <3>2. CASE ~c /\ b
      BY <3>2 DEF SuffixKind
    <3>3. CASE ~c /\ ~b
      BY <3>3 DEF SuffixKind
    <3>4. QED
      BY <3>1, <3>2, <3>3
  <2>2. ll > l => l > u
    <3>1. SUFFICES ASSUME ~(l > u) PROVE ~(ll > l)
      OBVIOUS
    <3>2. ll = l /\ IsText
      BY <3>1 DEF Bounds
    <3>3. EOF \notin {"u"} /\ EOF \notin {"L"}
      BY DEF EOF
    <3>4. u \in Positions /\ l \in Positions
      BY <3>2, <3>3, ReachAfter, ReachIn
    <3> HIDE DEF l, ll
    <3>5. QED
      BY <3>2, <3>4 DEF Positions
  <2> HIDE DEF u, l, ll
  <2>3. (u > i) \in BOOLEAN /\ (l > u) \in BOOLEAN /\ (ll > l) \in BOOLEAN
    OBVIOUS
  <2>4. SuffixKind(u > i, l > u, ll > l) # "operator"
    BY <2>1, <2>2, <2>3
  <2>5. QED
    BY <2>4
<1>3. Reach(i, ll)
  BY ReachInt DEF Bounds
<1>4. Reach(cursor, ll)
  BY <1>3, ReachTrans DEF Bounds
<1> HIDE DEF ll, kind, val
<1>5. Returns(kind, Start) /\ cursor' = ll
  BY <1>1, TokenTo DEF Returns
<1>6. QED
  BY <1>2, <1>4, <1>5, ReachAdvances DEF Returns, Modes

LEMMA ScanHexadecimalReturns ==
  ASSUME Bounds, line \in Nat, ScanHexadecimal
  PROVE  Advances /\ \E kind : Returns(kind, Start) /\ kind # "operator"
<1> DEFINE h == While(cursor + 2, HexDigits)
<1>1. /\ mode = "scan" /\ IsText /\ cursor \in Positions
      /\ Ch(cursor) = "0" /\ Ch(cursor + 1) = "x"
      /\ IF h = cursor + 2 THEN Token("TK_INTCONST", Start, h) ELSE IntLiteral(cursor + 2, h, 16)
  BY DEF ScanHexadecimal, Hexadecimal, Bounds
<1>2. Reach(cursor, cursor + 1) /\ Reach(cursor + 1, (cursor + 1) + 1) /\ (cursor + 1) + 1 = cursor + 2
  BY <1>1, ReachOne DEF Positions, EOF
<1>3. Reach(cursor, cursor + 2) /\ cursor + 2 \in Positions
  BY <1>1, <1>2, ReachTrans, ReachIn
<1>4. EOF \notin HexDigits /\ "\n" \notin HexDigits
  BY DEF EOF, HexDigits, Digits, OctDigits
<1>5. Reach(cursor + 2, h)
  BY <1>1, <1>3, <1>4, ReachWhile
<1> HIDE DEF h
<1>6. Reach(cursor, h) /\ h \in Positions
  BY <1>1, <1>3, <1>5, ReachTrans, ReachIn
<1>7. CASE h = cursor + 2
  <2>1. Returns("TK_INTCONST", Start) /\ cursor' = h
    BY <1>1, <1>7, TokenReturns
  <2>2. Advances
    BY <1>6, <2>1, ReachAdvances DEF Returns, Modes
  <2>3. QED
    BY <2>1, <2>2
<1>8. CASE h # cursor + 2
  <2>1. IntLiteral(cursor + 2, h, 16)
    BY <1>1, <1>8
  <2>2. QED
    BY <1>1, <1>6, <2>1, IntLiteralReturns
<1>9. QED
  BY <1>7, <1>8

LEMMA ScanNumericLiteralReturns ==
  ASSUME Bounds, line \in Nat, ScanNumericLiteral
  PROVE  Advances /\ \E kind : Returns(kind, Start) /\ kind # "operator"
<1> DEFINE class == IF Ch(cursor) = "0" THEN OctDigits ELSE Digits
           d == While(cursor, class)
<1>1. /\ mode = "scan" /\ IsText /\ cursor \in Positions
      /\ IF Ch(d) \in {".", "e"} THEN FloatLiteral(d)
         ELSE IntLiteral(cursor, d, IF Ch(cursor) = "0" THEN 8 ELSE 10)
  BY DEF ScanNumericLiteral, Bounds
<1>2. EOF \notin class /\ "\n" \notin class
  BY DEF EOF, Digits, OctDigits
<1> HIDE DEF class
<1>3. Reach(cursor, d) /\ d \in Positions
  BY <1>1, <1>2, ReachWhile, ReachIn
<1> HIDE DEF d
<1>4. CASE Ch(d) \in {".", "e"}
  <2> DEFINE f == IF Ch(d) = "." THEN While(d + 1, Digits) ELSE d
             e == IF Ch(f) = "e" THEN While(After(f + 1, {"+", "-"}), Digits) ELSE f
  <2>1. Reach(d, After(e, {"f", "L"}))
    BY <1>1, <1>3, ReachFloat
  <2>2. Token(FloatKind(Ch(e)), Start, After(e, {"f", "L"}))
    BY <1>1, <1>4 DEF FloatLiteral
  <2> HIDE DEF e
  <2>3. FloatKind(Ch(e)) # "operator"
    BY DEF FloatKind
  <2>4. Reach(cursor, After(e, {"f", "L"}))
    BY <1>1, <1>3, <2>1, ReachTrans
  <2>5. Returns(FloatKind(Ch(e)), Start) /\ cursor' = After(e, {"f", "L"})
    BY <2>2, TokenReturns
  <2>6. Advances
    BY <2>4, <2>5, ReachAdvances DEF Returns, Modes
  <2>7. QED
    BY <2>3, <2>5, <2>6
<1>5. CASE Ch(d) \notin {".", "e"}
  <2>1. IntLiteral(cursor, d, IF Ch(cursor) = "0" THEN 8 ELSE 10)
    BY <1>1, <1>5
  <2>2. QED
    BY <1>1, <1>3, <2>1, IntLiteralReturns
<1>6. QED
  BY <1>4, <1>5

LEMMA ScanOperatorReturns ==
  ASSUME Bounds, line \in Nat, ScanOperator
  PROVE  /\ Advances /\ Returns("operator", Start)
         /\ cursor' = OperatorEnd(cursor) /\ Ch(cursor) \in Operators
<1>1. /\ Token("operator", Start, OperatorEnd(cursor)) /\ Ch(cursor) \in Operators
      /\ mode # "overrun"
  BY DEF ScanOperator
<1>2. Returns("operator", Start) /\ cursor' = OperatorEnd(cursor)
  BY <1>1, TokenReturns
<1>3. Reach(cursor, OperatorEnd(cursor))
  BY <1>1, ReachOperator DEF Bounds
<1>4. QED
  BY <1>1, <1>2, <1>3, ReachAdvances DEF Returns, Modes

LEMMA ScanSingleReturns ==
  ASSUME Bounds, line \in Nat, ScanSingle
  PROVE  Advances /\ Returns("single", Start)
<1>1. /\ Token("single", Start, cursor + 1) /\ Ch(cursor) \in Singles
      /\ mode # "overrun" /\ IsText /\ cursor \in Positions
  BY DEF ScanSingle, Bounds
<1>2. Returns("single", Start) /\ cursor' = cursor + 1
  BY <1>1, TokenReturns
<1>3. Reach(cursor, cursor + 1)
  <2>1. Ch(cursor) # EOF /\ Ch(cursor) # "\n"
    BY <1>1 DEF Singles, EOF
  <2>2. cursor \in Nat \ {0}
    BY <1>1 DEF Positions, IsText
  <2>3. QED
    BY <1>1, <2>1, <2>2, ReachOne
<1>4. QED
  BY <1>2, <1>3, ReachAdvances DEF Returns, Modes

LEMMA ScanBadCharAdvances ==
  ASSUME Bounds, line \in Nat, ScanBadChar PROVE Advances
<1>1. mode = "scan" /\ cursor \in Positions /\ IsText
  BY DEF ScanBadChar, Bounds
<1>2. cursor' = cursor /\ mode' = "skip" /\ UNCHANGED <<text, peek, reread, line>>
  BY <1>1, MoveTo DEF ScanBadChar
<1>3. QED
  BY <1>1, <1>2, ReachNone, ReachAdvances DEF Modes

-----------------------------------------------------------------------------
(* Literals.                                                               *)

LEMMA QuoteReach ==
  ASSUME IsText, NEW a \in Positions, Ch(After(a, {"L"})) \in {"'", "\""}
  PROVE  Reach(a, After(a, {"L"}) + 1)
<1> DEFINE q == After(a, {"L"})
<1>1. Reach(a, q) /\ q \in Positions
  BY ReachAfter, ReachIn DEF EOF
<1> HIDE DEF q
<1>2. Reach(q, q + 1)
  <2>1. Ch(q) \in {"'", "\""}
    BY DEF q
  <2>2. QED
    <3>1. Ch(q) # EOF /\ Ch(q) # "\n"
      BY <1>1, <2>1 DEF EOF
    <3>2. q \in Nat \ {0}
      BY <1>1, PositionsAre
    <3>3. QED
      BY <3>1, <3>2, ReachOne
<1>3. Reach(a, q + 1)
  BY <1>1, <1>2, ReachTrans
<1>4. QED
  BY <1>3 DEF q

LEMMA BeginLiteralAdvances ==
  ASSUME Bounds, line \in Nat, BeginLiteral PROVE Advances
<1> DEFINE to == After(cursor, {"L"}) + 1
           m == IF Ch(After(cursor, {"L"})) = "'" THEN "char" ELSE "string"
<1>1. mode = "scan" /\ cursor \in Positions /\ IsText /\ Move(to, m) /\ UNCHANGED line /\ Quoted
  BY DEF BeginLiteral, Bounds
<1>2. Ch(After(cursor, {"L"})) \in {"'", "\""}
  BY <1>1 DEF Quoted, After
<1>3. Reach(cursor, to) /\ to \in Positions
  BY <1>1, <1>2, QuoteReach, ReachIn
<1>4. m \in {"char", "string"}
  OBVIOUS
<1> HIDE DEF to, m
<1>5. cursor' = to /\ mode' = m /\ UNCHANGED <<text, peek, reread, line>>
  BY <1>1, <1>3, MoveTo
<1>6. QED
  BY <1>3, <1>4, <1>5, ReachAdvances DEF Modes

LEMMA JoinStringAdvances ==
  ASSUME Bounds, line \in Nat, JoinString PROVE Advances
<1> DEFINE to == After(cursor, {"L"}) + 1
<1>1. mode = "joined" /\ cursor \in Positions /\ IsText /\ Move(to, "string") /\ UNCHANGED line /\ Adjacent
  BY DEF JoinString, Bounds
<1>2. Reach(cursor, to) /\ to \in Positions
  BY <1>1, QuoteReach, ReachIn DEF Adjacent
<1> HIDE DEF to
<1>3. cursor' = to /\ mode' = "string" /\ UNCHANGED <<text, peek, reread, line>>
  BY <1>1, <1>2, MoveTo
<1>4. QED
  BY <1>2, <1>3, ReachAdvances DEF Modes

LEMMA EndStringAdvances ==
  ASSUME Bounds, line \in Nat, EndString PROVE Advances
<1>1. mode = "string" /\ cursor \in Positions /\ IsText /\ Ch(cursor) = "\""
  BY DEF EndString, Bounds
<1>2. Reach(cursor, cursor + 1) /\ cursor + 1 \in Positions
  <2>1. Ch(cursor) # EOF /\ Ch(cursor) # "\n"
    BY <1>1 DEF EOF
  <2>2. cursor \in Nat \ {0}
    BY <1>1, PositionsAre
  <2>3. QED
    BY <1>1, <2>1, <2>2, ReachOne, ReachIn
<1>3. cursor' = cursor + 1 /\ mode' = "join" /\ UNCHANGED <<text, peek, reread, line>>
  BY <1>2, MoveTo DEF EndString, Bounds
<1>4. QED
  BY <1>2, <1>3, ReachAdvances DEF Modes

LEMMA UnclosedLiteralReturns ==
  ASSUME Bounds, line \in Nat, UnclosedLiteral
  PROVE  Advances /\ Returns("literal", from) /\ InLiteral
<1>1. InLiteral /\ cursor \in Positions /\ IsText
  BY DEF UnclosedLiteral, InLiteral, Bounds
<1>2. Returns("literal", from) /\ cursor' = cursor
  BY TokenReturns DEF UnclosedLiteral
<1>3. QED
  BY <1>1, <1>2, ReachNone, ReachAdvances DEF Returns, Modes

LEMMA FinishStringReturns ==
  ASSUME Bounds, line \in Nat, FinishString
  PROVE  Advances /\ Returns("literal", from)
<1>1. mode = "joined" /\ cursor \in Positions /\ IsText
  BY DEF FinishString, Bounds
<1>2. Returns("literal", from) /\ cursor' = cursor
  BY TokenReturns DEF FinishString
<1>3. QED
  BY <1>1, <1>2, ReachNone, ReachAdvances DEF Returns, Modes

LEMMA EndCharReturns ==
  ASSUME Bounds, line \in Nat, EndChar
  PROVE  Advances /\ Returns("literal", from)
<1>1. mode = "char" /\ cursor \in Positions /\ IsText /\ Ch(cursor) = "'"
  BY DEF EndChar, Bounds
<1>2. Returns("literal", from) /\ cursor' = cursor + 1
  BY TokenReturns DEF EndChar
<1>3. Reach(cursor, cursor + 1)
  BY <1>1, ReachOne DEF Positions, EOF
<1>4. QED
  BY <1>2, <1>3, ReachAdvances DEF Returns, Modes

\* A backslash before the end of a file that ends in a newline is before that
\* newline, and it is the newline that is then taken for the escape.
LEMMA LiteralElementAdvances ==
  ASSUME Bounds, line \in Nat, LiteralElement PROVE Advances
<1>1. /\ InLiteral /\ cursor \in Positions /\ IsText /\ Len(text) \in Nat
      /\ Ch(cursor) # "\n" /\ Ch(cursor) # EOF
      /\ Move(ElementEnd(cursor), mode) /\ UNCHANGED line
  BY DEF LiteralElement, InLiteral, Bounds, IsText
<1>2. Reach(cursor, cursor + 1) /\ cursor + 1 \in Positions /\ mode \in Modes \ {"overrun"}
  BY <1>1, ReachOne, ReachIn DEF Positions, InLiteral, Modes
<1>3. ASSUME ElementEnd(cursor) \in Positions, Neat => Reach(cursor, ElementEnd(cursor)), 
             cursor <= ElementEnd(cursor)
      PROVE  Advances
  <2>1. cursor' = ElementEnd(cursor) /\ mode' = mode /\ UNCHANGED <<text, peek, reread, line>>
    BY <1>1, <1>3, MoveTo
  <2>2. Neat => Newlines(cursor, cursor' - 1) = 0
    BY <1>1, <1>3, <2>1, NoNewlines
  <2>3. Mapped(cursor') /\ cursor' \in Nat
    BY <1>1, <1>3, <2>1 DEF Mapped, Positions
  <2>4. QED
    BY <1>2, <1>3, <2>1, <2>2, <2>3 DEF Advances, Mapped
<1>4. CASE Ch(cursor) # "\\"
  <2>1. ElementEnd(cursor) = cursor + 1
    BY <1>4 DEF ElementEnd
  <2>2. QED
    BY <1>1, <1>2, <1>3, <2>1 DEF Positions
<1>5. CASE Ch(cursor) = "\\"
  <2> DEFINE next == Ch(cursor + 1)
  <2>1. ElementEnd(cursor) = EscapeEnd(cursor) /\ cursor + 1 \in Nat \ {0} /\ (cursor + 1) + 1 = cursor + 2
    BY <1>1, <1>5 DEF ElementEnd, Positions
  <2>2. ASSUME next # EOF, next # "\n"
        PROVE  Reach(cursor, cursor + 2) /\ cursor + 2 \in Positions
    BY <1>1, <1>2, <2>1, <2>2, ReachOne, ReachTrans, ReachIn
  <2>3. EOF \notin HexDigits /\ "\n" \notin HexDigits /\ EOF \notin OctDigits /\ "\n" \notin OctDigits
    BY DEF EOF, HexDigits, Digits, OctDigits
  <2>4. CASE next = "x"
    <3>1. EscapeEnd(cursor) = While(cursor + 2, HexDigits)
      BY <2>4 DEF EscapeEnd, OctDigits
    <3>2. Reach(cursor, cursor + 2) /\ cursor + 2 \in Positions
      BY <2>2, <2>4 DEF EOF
    <3>3. Reach(cursor, EscapeEnd(cursor)) /\ EscapeEnd(cursor) \in Positions
      BY <1>1, <2>3, <3>1, <3>2, ReachWhile, ReachTrans, ReachIn
    <3>4. cursor <= EscapeEnd(cursor)
      BY <3>3 DEF Reach, Positions
    <3>5. QED
      BY <1>3, <2>1, <3>3, <3>4
  <2>5. CASE next \in OctDigits
    <3> DEFINE a == After(cursor + 2, OctDigits)
    <3>1. EscapeEnd(cursor) = After(a, OctDigits)
      BY <2>5 DEF EscapeEnd, OctDigits
    <3>2. Reach(cursor, cursor + 2) /\ cursor + 2 \in Positions
      BY <2>2, <2>3, <2>5
    <3>3. Reach(cursor + 2, a) /\ a \in Positions
      BY <1>1, <2>3, <3>2, ReachAfter, ReachIn
    <3> HIDE DEF a
    <3>4. Reach(a, EscapeEnd(cursor)) /\ EscapeEnd(cursor) \in Positions
      BY <1>1, <2>3, <3>1, <3>3, ReachAfter, ReachIn
    <3>5. Reach(cursor, a)
      BY <1>1, <3>2, <3>3, ReachTrans
    <3>6. Reach(cursor, EscapeEnd(cursor))
      BY <1>1, <3>4, <3>5, ReachTrans
    <3>7. cursor <= EscapeEnd(cursor)
      BY <3>6 DEF Reach, Positions
    <3>8. QED
      BY <1>3, <2>1, <3>4, <3>6, <3>7
  <2>6. CASE next # "x" /\ next \notin OctDigits
    <3>1. EscapeEnd(cursor) = cursor + 2
      BY <2>6 DEF EscapeEnd
    <3>2. CASE cursor + 2 \in Positions
      <4>1. next # EOF
        <5>1. cursor + 1 \in 1..Len(text)
          BY <1>1, <3>2 DEF Positions
        <5>2. QED
          BY <1>1, <2>1, <5>1, ChIs
      <4>2. Neat => next # "\n"
        BY <1>1, <1>5, NeatIs DEF Positions
      <4>3. cursor <= cursor + 2
        BY <1>1 DEF Positions
      <4>4. QED
        BY <1>3, <2>1, <2>2, <3>1, <3>2, <4>1, <4>2, <4>3
    <3>3. CASE cursor + 2 \notin Positions
      <4>1. ~Mapped(cursor + 2) /\ cursor + 2 \in Nat /\ cursor <= cursor + 2
        BY <1>1, <3>3 DEF Positions, Mapped
      <4>2. cursor' = cursor + 2 /\ mode' = "overrun" /\ UNCHANGED <<text, peek, reread, line>>
        BY <1>1, <2>1, <3>1, <4>1 DEF Move
      <4>3. ~EndsInNewline
        <5>1. ~(cursor + 1 \in 1..Len(text))
          BY <1>1, <3>3 DEF Positions
        <5>2. QED
          BY <1>1, <5>1, BeforeNewline DEF Positions
      <4>4. QED
        BY <4>1, <4>2, <4>3 DEF Advances, Mapped, Modes
    <3>4. QED
      BY <3>2, <3>3
  <2>7. QED
    BY <2>4, <2>5, <2>6
<1>6. QED
  BY <1>4, <1>5

-----------------------------------------------------------------------------
(* Operators.                                                              *)

\* The operators that stand in s at position at.
Here(s, at) == {w \in Spellings : /\ at + Len(w) - 1 <= Len(s)
                                  /\ SubSeq(s, at, at + Len(w) - 1) = w}

LEMMA StandsHere ==
  ASSUME IsText, NEW a \in Positions, NEW w \in Seq(Characters), Len(w) > 0
  PROVE  (a + Len(w) - 1 <= Len(text) /\ SubSeq(text, a, a + Len(w) - 1) = w)
           <=> \A k \in 1..Len(w) : Ch(a + k - 1) = w[k]
<1> DEFINE b == a + Len(w) - 1
<1>1. Len(w) \in Nat \ {0} /\ Len(text) \in Nat /\ a \in Nat \ {0} /\ b \in Nat
  BY PositionsAre DEF IsText
<1>2. \A k \in 1..Len(w) : w[k] \in Characters /\ w[k] # EOF
  BY NoEnd
<1>3. ASSUME b <= Len(text), SubSeq(text, a, b) = w, NEW k \in 1..Len(w)
      PROVE  Ch(a + k - 1) = w[k]
  <2>1. a + k - 1 \in 1..Len(text) /\ a + k - 1 \in Nat \ {0}
    BY <1>1, <1>3
  <2>2. Ch(a + k - 1) = text[a + k - 1]
    BY <2>1, ChIs
  <2>3. SubSeq(text, a, b)[k] = text[a + k - 1]
    BY <1>1, <1>3 DEF IsText
  <2>4. QED
    BY <1>3, <2>2, <2>3
<1>4. ASSUME \A k \in 1..Len(w) : Ch(a + k - 1) = w[k]
      PROVE  b <= Len(text) /\ SubSeq(text, a, b) = w
  <2>1. ASSUME NEW k \in 1..Len(w)
        PROVE  a + k - 1 \in 1..Len(text) /\ text[a + k - 1] = w[k]
    <3>1. Ch(a + k - 1) # EOF /\ Ch(a + k - 1) = w[k] /\ a + k - 1 \in Nat \ {0}
      BY <1>1, <1>2, <1>4
    <3>2. QED
      BY <3>1, ChIs
  <2>2. b <= Len(text)
    BY <1>1, <2>1
  <2>3. SubSeq(text, a, b) \in Seq(Characters) /\ Len(SubSeq(text, a, b)) = Len(w)
    BY <1>1, <2>2 DEF IsText
  <2>4. \A k \in 1..Len(w) : SubSeq(text, a, b)[k] = w[k]
    BY <1>1, <2>1, <2>2 DEF IsText
  <2>5. SubSeq(text, a, b) = w
    BY <2>3, <2>4, SeqEqual
  <2>6. QED
    BY <2>2, <2>5
<1>5. QED
  BY <1>3, <1>4

LEMMA SpellingsAre ==
  ASSUME NEW w \in Spellings
  PROVE  /\ w \in Seq(Characters)
         /\ Len(w) \in {1, 2, 3}
         /\ Len(w) = 2 => (w[2] = "=" /\ w[1] # ".") \/ <<w[1], w[2]>> \in Doubles
         /\ Len(w) = 3 => \/ w[1] = "." /\ w[2] = "." /\ w[3] = "."
                          \/ w[1] = w[2] /\ w[1] \in {"<", ">"} /\ w[3] = "="
<1>1. Operators \subseteq Characters
  BY DEF Characters
<1>2. CASE w \in {<<o>> : o \in Operators}
  BY <1>1, <1>2
<1>3. CASE w \in {<<o, "=">> : o \in Operators \ {"."}}
  <2>1. PICK o \in Operators \ {"."} : w = <<o, "=">>
    BY <1>3
  <2>2. "=" \in Characters /\ o \in Characters
    BY <1>1 DEF Operators
  <2>3. QED
    BY <2>1, <2>2
<1>4. CASE w \in Doubles
  <2>1. \A p \in Doubles : /\ p[1] \in Characters /\ p[2] \in Characters
                           /\ p = <<p[1], p[2]>>
    BY <1>1 DEF Doubles, Operators
  <2>2. PICK x \in Characters, y \in Characters : w = <<x, y>>
    BY <1>4, <2>1
  <2>3. w \in Seq(Characters) /\ Len(w) = 2 /\ w[1] = x /\ w[2] = y
    BY <2>2
  <2>4. <<w[1], w[2]>> = w
    BY <2>2, <2>3
  <2>5. <<w[1], w[2]>> \in Doubles
    BY <1>4, <2>4
  <2>6. QED
    BY <2>3, <2>5
<1>5. CASE w \in {<<o, o, "=">> : o \in {"<", ">"}}
  <2>1. PICK o \in {"<", ">"} : w = <<o, o, "=">>
    BY <1>5
  <2>2. "=" \in Characters /\ o \in Characters
    BY <1>1 DEF Operators
  <2>3. QED
    BY <2>1, <2>2
<1>6. CASE w = <<".", ".", ".">>
  <2>1. "." \in Characters
    BY <1>1 DEF Operators
  <2>2. QED
    BY <1>6, <2>1
<1>7. QED
  BY <1>2, <1>3, <1>4, <1>5, <1>6 DEF Spellings

\* OperatorEnd returns the end of the longest operator.
LEMMA LongestOperator ==
  ASSUME IsText, NEW a \in Positions, Ch(a) \in Operators
  PROVE  OperatorEnd(a) - a = Max({Len(w) : w \in Here(text, a)})
<1> DEFINE L == {Len(w) : w \in Here(text, a)}
           x == Ch(a)
           y == Ch(a + 1)
           z == Ch(a + 2)
           n == OperatorEnd(a) - a
<1>1. a \in Nat \ {0}
  BY PositionsAre
<1> DEFINE Two == (y = "=" /\ x # ".") \/ <<x, y>> \in Doubles
           Three == (x = "." /\ y = "." /\ z = ".") \/ (x = y /\ x \in {"<", ">"} /\ z = "=")
<1>2. ASSUME NEW w \in Spellings, \A k \in 1..Len(w) : Ch(a + k - 1) = w[k]
      PROVE  Len(w) \in L
  <2>1. w \in Seq(Characters) /\ Len(w) > 0
    <3>1. w \in Seq(Characters) /\ Len(w) \in {1, 2, 3}
      BY SpellingsAre
    <3>2. QED
      BY <3>1
  <2>2. w \in Here(text, a)
    BY <1>2, <2>1, StandsHere DEF Here
  <2>3. QED
    BY <2>2
<1>3. ASSUME NEW w \in Here(text, a)
      PROVE  /\ w \in Spellings
             /\ \A k \in 1..Len(w) : Ch(a + k - 1) = w[k]
  <2>1. w \in Seq(Characters) /\ Len(w) > 0 /\ w \in Spellings
    <3>1. w \in Spellings
      BY <1>3 DEF Here
    <3>2. w \in Seq(Characters) /\ Len(w) \in {1, 2, 3}
      BY <3>1, SpellingsAre
    <3>3. Len(w) > 0
      BY <3>2
    <3>4. QED
      BY <3>1, <3>2, <3>3
  <2>2. QED
    BY <1>3, <2>1, StandsHere DEF Here
<1>4. a + 1 - 1 = a /\ a + 2 - 1 = a + 1 /\ a + 3 - 1 = a + 2
  BY <1>1
<1>5. 1 \in L
  <2>1. <<x>> \in Spellings /\ Len(<<x>>) = 1
    BY DEF Spellings
  <2>2. \A k \in 1..1 : Ch(a + k - 1) = <<x>>[k]
    BY <1>4
  <2>3. QED
    BY <1>2, <2>1, <2>2
<1>6. ASSUME <<x, y>> \in Spellings PROVE 2 \in L
  <2>1. Len(<<x, y>>) = 2
    OBVIOUS
  <2>2. \A k \in 1..2 : Ch(a + k - 1) = <<x, y>>[k]
    BY <1>4
  <2>3. QED
    BY <1>2, <1>6, <2>1, <2>2
<1>7. ASSUME <<x, y, z>> \in Spellings PROVE 3 \in L
  <2>1. Len(<<x, y, z>>) = 3
    OBVIOUS
  <2>2. \A k \in 1..3 : Ch(a + k - 1) = <<x, y, z>>[k]
    BY <1>4
  <2>3. QED
    BY <1>2, <1>7, <2>1, <2>2
<1>8. ASSUME NEW w \in Here(text, a)
      PROVE  Len(w) \in {1, 2, 3} /\ (Len(w) = 2 => Two) /\ (Len(w) = 3 => Three)
  <2>1. /\ w \in Spellings
        /\ \A k \in 1..Len(w) : Ch(a + k - 1) = w[k]
    BY <1>3, <1>8
  <2>2. Len(w) \in {1, 2, 3}
    BY <2>1, SpellingsAre
  <2>3. CASE Len(w) = 2
    <3>1. x = w[1] /\ y = w[2]
      BY <1>4, <2>1, <2>3
    <3>2. Two
      BY <2>1, <2>3, <3>1, SpellingsAre
    <3>3. QED
      BY <2>3, <3>2
  <2>4. CASE Len(w) = 3
    <3>1. x = w[1] /\ y = w[2] /\ z = w[3]
      BY <1>4, <2>1, <2>4
    <3>2. Three
      BY <2>1, <2>4, <3>1, SpellingsAre
    <3>3. QED
      BY <2>4, <3>2
  <2>5. QED
    BY <2>2, <2>3, <2>4
<1> HIDE DEF Two, Three
<1>9. /\ L \in SUBSET Int
      /\ \A w \in Here(text, a) : Len(w) <= 3
      /\ ~Three => \A w \in Here(text, a) : Len(w) <= 2
      /\ ~Three /\ ~Two => \A w \in Here(text, a) : Len(w) <= 1
  <2>1. L \in SUBSET Int
    BY <1>8
  <2>2. ASSUME NEW w \in Here(text, a)
        PROVE  /\ Len(w) <= 3
               /\ ~Three => Len(w) <= 2
               /\ ~Three /\ ~Two => Len(w) <= 1
    <3>1. CASE Len(w) = 1
      BY <3>1
    <3>2. CASE Len(w) = 2
      BY <1>8, <3>2
    <3>3. CASE Len(w) = 3
      BY <1>8, <3>3
    <3>4. QED
      BY <1>8, <3>1, <3>2, <3>3
  <2>3. QED
    BY <2>1, <2>2
<1>10. Max(L) = n
  <2> HIDE DEF L
  <2>1. ASSUME n \in Int, n \in L, \A w \in Here(text, a) : Len(w) <= n
        PROVE  Max(L) = n
    <3>1. \A k \in L : k <= n
      BY <2>1 DEF L
    <3> HIDE DEF n
    <3>2. QED
      BY <1>9, <2>1, <3>1, MaxIs
  <2> HIDE DEF x, y, z
  <2>2. CASE x = "."
    <3>1. <<x, y>> \notin Doubles
      BY <2>2 DEF Doubles
    <3>2. OperatorEnd(a) = IF y = "." /\ z = "." THEN a + 3 ELSE a + 1
      BY <2>2, <3>1 DEF OperatorEnd, x, y, z
    <3>3. CASE y = "." /\ z = "."
      <4>1. n = 3
        BY <1>1, <3>2, <3>3
      <4>2. <<x, y, z>> \in Spellings
        BY <2>2, <3>3 DEF Spellings
      <4>3. \A w \in Here(text, a) : Len(w) <= 3
        BY <1>9
      <4>4. QED
        BY <1>7, <2>1, <4>1, <4>2, <4>3
    <3>4. CASE ~(y = "." /\ z = ".")
      <4>1. n = 1
        BY <1>1, <3>2, <3>4
      <4>2. \A w \in Here(text, a) : Len(w) <= 1
        BY <1>9, <2>2, <3>1, <3>4 DEF Two, Three
      <4>3. QED
        BY <1>5, <2>1, <4>1, <4>2
    <3>5. QED
      BY <3>3, <3>4
  <2>3. CASE x # "." /\ y = "="
    <3>1. n = 2
      BY <1>1, <2>3 DEF OperatorEnd, Doubles, After, x, y
    <3>2. <<x, y>> \in Spellings
      BY <2>3 DEF Spellings, x
    <3>3. \A w \in Here(text, a) : Len(w) <= 2
      BY <1>9, <2>3 DEF Three
    <3>4. QED
      BY <1>6, <2>1, <3>1, <3>2, <3>3
  <2>4. CASE x # "." /\ y # "=" /\ <<x, y>> \in Doubles
    <3>1. OperatorEnd(a) = IF x \in {"<", ">"} THEN After(a + 2, {"="}) ELSE a + 2
      BY <2>4 DEF OperatorEnd, x, y
    <3>2. OperatorEnd(a) = IF x \in {"<", ">"} /\ z = "=" THEN (a + 2) + 1 ELSE a + 2
      BY <3>1 DEF After, z
    <3>3. CASE x \in {"<", ">"} /\ z = "="
      <4>1. n = 3
        BY <1>1, <3>2, <3>3
      <4>2. x = y
        BY <2>4, <3>3 DEF Doubles
      <4>3. <<x, y, z>> \in Spellings
        BY <3>3, <4>2 DEF Spellings
      <4>4. \A w \in Here(text, a) : Len(w) <= 3
        BY <1>9
      <4>5. QED
        BY <1>7, <2>1, <4>1, <4>3, <4>4
    <3>4. CASE ~(x \in {"<", ">"} /\ z = "=")
      <4>1. n = 2
        BY <1>1, <3>2, <3>4
      <4>2. <<x, y>> \in Spellings
        BY <2>4 DEF Spellings
      <4>3. \A w \in Here(text, a) : Len(w) <= 2
        BY <1>9, <2>4, <3>4 DEF Three
      <4>4. QED
        BY <1>6, <2>1, <4>1, <4>2, <4>3
    <3>5. QED
      BY <3>3, <3>4
  <2>5. CASE x # "." /\ y # "=" /\ <<x, y>> \notin Doubles
    <3>1. n = 1
      BY <1>1, <2>5 DEF OperatorEnd, x, y
    <3>2. ~(x = y /\ x \in {"<", ">"})
      BY <2>5 DEF Doubles
    <3>3. \A w \in Here(text, a) : Len(w) <= 1
      BY <1>9, <2>5, <3>2 DEF Two, Three
    <3>4. QED
      BY <1>5, <2>1, <3>1, <3>3
  <2>6. QED
    BY <2>2, <2>3, <2>4, <2>5
<1>11. QED
  BY <1>10

-----------------------------------------------------------------------------
(* The invariant.                                                          *)

\* Modes in which from is the start of the literal that is being scanned.
Inside == {"char", "string", "join", "joined"}

Count(s, i, j) == Cardinality({k \in i..j : k <= Len(s) /\ s[k] = "\n"})
Exact(s, t, r) == t.line - (1 + Count(s, 1, t.from - 1)) \in 0..r
AllExact(s, ts, r) == \A i \in DOMAIN ts : Exact(s, ts[i], r)

\* The line is counted as the cursor goes, and so is the one a literal began at;
\* a peek comes back to the line it went to.
Lines ==
  /\ line \in Nat /\ reread \in Nat /\ (mode \in Inside => from.at \in Nat)
  /\ Neat =>
       /\ mode # "overrun" => line = 1 + Count(text, 1, cursor - 1) + reread
       /\ mode \in Inside => from.line = 1 + Count(text, 1, from.at - 1) + reread
       /\ AllExact(text, tokens, reread) /\ AllExact(text, peek.tokens, reread)

Longest(s, t) == t.kind = "operator" => t.to - t.from = Max({Len(w) : w \in Here(s, t.from)})
AllLongest(s, ts) == \A i \in DOMAIN ts : Longest(s, ts[i])
Munches == AllLongest(text, tokens) /\ AllLongest(text, peek.tokens)

LEMMA NewlinesCount == \A i, j : Newlines(i, j) = Count(text, i, j)
BY DEF Newlines, Count

LEMMA ExactLater ==
  ASSUME NEW s, NEW ts, NEW r \in Nat, NEW q \in Nat, AllExact(s, ts, r)
  PROVE  AllExact(s, ts, r + q)
BY DEF AllExact, Exact

LEMMA CountNat ==
  ASSUME IsText, NEW a \in Int PROVE Count(text, 1, a) \in Nat
<1>1. 1 \in Nat
  OBVIOUS
<1>2. QED
  BY <1>1, NewlinesAre, NewlinesCount

LEMMA SameText ==
  ASSUME UNCHANGED text
  PROVE  /\ Neat' <=> Neat
         /\ EndsInNewline' <=> EndsInNewline
         /\ SentinelFits' <=> SentinelFits
         /\ IsText' <=> IsText
<1>1. Neat' <=> Neat
  <2>1. \A i : Ch(i)' = Ch(i)
    BY DEF Ch
  <2>2. \A i, class : While(i, class)' = While(i, class)
    BY DEF While, Ch
  <2>3. \A i : WordAt(i)' = WordAt(i)
    BY <2>2 DEF WordAt
  <2>4. \A i : NumberAt(i)' = NumberAt(i)
    BY <2>1, <2>2, <2>3 DEF NumberAt
  <2>5. \A i : QuoteAt(i)' = QuoteAt(i)
    BY <2>2, <2>4 DEF QuoteAt
  <2>6. \A i : SwallowsLine(i)' <=> SwallowsLine(i)
    BY <2>1, <2>3, <2>5 DEF SwallowsLine, NamesLine
  <2>7. \A w : Has(w)' <=> Has(w)
    BY DEF Has
  <2>8. QED
    BY <2>6, <2>7 DEF Neat, Swallows
<1>2. EndsInNewline' <=> EndsInNewline
  BY DEF EndsInNewline
<1>3. IsText' <=> IsText
  BY DEF IsText
<1>4. SentinelFits' <=> SentinelFits
  BY DEF SentinelFits
<1>5. QED
  BY <1>1, <1>2, <1>3, <1>4

\* The cursor goes on and no token is returned.
Passes ==
  /\ UNCHANGED tokens
  /\ \/ UNCHANGED from /\ (mode' \in Inside => mode \in Inside)
     \/ from' = Start

Scanned == \E kind : /\ Returns(kind, Start)
                     /\ kind = "operator" => Ch(cursor) \in Operators /\ cursor' = OperatorEnd(cursor)

LEMMA NextTokenSteps ==
  ASSUME Bounds, line \in Nat, NextToken \/ Skip \/ Scan
  PROVE  /\ Advances
         /\ Passes \/ Scanned \/ (mode \in Inside /\ Returns("literal", from))
<1>1. CASE NextToken
  <2>1. /\ mode = "idle" /\ mode' = "skip" /\ UNCHANGED <<cursor, text, peek, reread, line, tokens, from>>
    BY <1>1 DEF NextToken
  <2>2. Reach(cursor, cursor)
    BY <2>1, ReachNone DEF Bounds
  <2>3. Advances
    BY <2>1, <2>2, ReachAdvances DEF Modes
  <2>4. QED
    BY <2>1, <2>3 DEF Passes, Inside
<1>2. CASE Skip
  <2>1. Advances
    BY <1>2, SkipBlankAdvances, SkipNewlineAdvances, SkipLineCommentAdvances, SkipCommentAdvances,
       SkipDirectiveAdvances, EndSkipAdvances DEF Skip
  <2>2. Skipping /\ UNCHANGED <<tokens, from>>
    BY <1>2 DEF Skip, SkipBlank, SkipNewline, SkipLineComment, SkipComment, SkipDirective, EndSkip
  <2>3. mode' \in Inside => mode \in Inside
    <3>1. SUFFICES ASSUME mode = "skip" PROVE mode' \notin Inside
      BY <2>2 DEF Skipping, Inside
    <3>2. \A i, m : Move(i, m) => mode' \in {m, "overrun"}
      BY DEF Move
    <3>3. mode' \in {"skip", "scan", "overrun"}
      <4>1. CASE SkipBlank
        BY <3>1, <3>2, <4>1 DEF SkipBlank
      <4>2. CASE SkipNewline
        BY <3>1, <3>2, <4>2 DEF SkipNewline
      <4>3. CASE SkipLineComment
        BY <3>1, <3>2, <4>3 DEF SkipLineComment
      <4>4. CASE SkipComment
        BY <3>1, <3>2, <4>4 DEF SkipComment, LeaveSkip
      <4>5. CASE SkipDirective
        BY <3>1, <3>2, <4>5 DEF SkipDirective
      <4>6. CASE EndSkip
        BY <3>1, <3>2, <4>6 DEF EndSkip, LeaveSkip
      <4>7. QED
        BY <1>2, <4>1, <4>2, <4>3, <4>4, <4>5, <4>6 DEF Skip
    <3>4. QED
      BY <3>3 DEF Inside
  <2>4. QED
    BY <2>1, <2>2, <2>3 DEF Passes
<1>3. CASE ScanEOF
  BY <1>3, ScanEOFReturns DEF Scanned
<1>4. CASE ScanIdentifier
  BY <1>4, ScanIdentifierReturns DEF Scanned
<1>5. CASE ScanHexadecimal
  BY <1>5, ScanHexadecimalReturns DEF Scanned
<1>6. CASE ScanNumericLiteral
  BY <1>6, ScanNumericLiteralReturns DEF Scanned
<1>7. CASE ScanOperator
  BY <1>7, ScanOperatorReturns DEF Scanned
<1>8. CASE ScanSingle
  BY <1>8, ScanSingleReturns DEF Scanned
<1>9. CASE ScanBadChar
  <2>1. UNCHANGED <<tokens, from>> /\ mode' \in {"skip", "overrun"}
    BY <1>9 DEF ScanBadChar, Move
  <2>2. QED
    BY <1>9, <2>1, ScanBadCharAdvances DEF Passes, Inside
<1>10. CASE BeginLiteral
  <2>1. UNCHANGED tokens /\ from' = Start
    BY <1>10 DEF BeginLiteral
  <2>2. QED
    BY <1>10, <2>1, BeginLiteralAdvances DEF Passes
<1>11. CASE LiteralElement
  <2>1. UNCHANGED <<tokens, from>> /\ mode \in {"char", "string"}
    BY <1>11 DEF LiteralElement, InLiteral
  <2>2. QED
    BY <1>11, <2>1, LiteralElementAdvances DEF Passes, Inside
<1>12. CASE UnclosedLiteral
  BY <1>12, UnclosedLiteralReturns DEF InLiteral, Inside
<1>13. CASE EndChar
  <2>1. mode = "char"
    BY <1>13 DEF EndChar
  <2>2. QED
    BY <1>13, <2>1, EndCharReturns DEF Inside
<1>14. CASE EndString
  <2>1. UNCHANGED <<tokens, from>> /\ mode = "string"
    BY <1>14 DEF EndString
  <2>2. QED
    BY <1>14, <2>1, EndStringAdvances DEF Passes, Inside
<1>15. CASE JoinString
  <2>1. UNCHANGED <<tokens, from>> /\ mode = "joined"
    BY <1>15 DEF JoinString
  <2>2. QED
    BY <1>15, <2>1, JoinStringAdvances DEF Passes, Inside
<1>16. CASE FinishString
  <2>1. mode = "joined"
    BY <1>16 DEF FinishString
  <2>2. QED
    BY <1>16, <2>1, FinishStringReturns DEF Inside
<1>17. QED
  BY <1>1, <1>2, <1>3, <1>4, <1>5, <1>6, <1>7, <1>8, <1>9, <1>10, <1>11, <1>12, <1>13, <1>14,
     <1>15, <1>16 DEF Scan

LEMMA BoundsStep ==
  ASSUME Bounds, line \in Nat, [LexNext]_lexVars
  PROVE  Bounds'
<1>1. CASE NextToken \/ Skip \/ Scan
  <2>1. /\ Advances
        /\ Passes \/ Scanned \/ Returns("literal", from)
    BY <1>1, NextTokenSteps
  <2>2. IsSeq(tokens')
    <3>1. IsSeq(tokens)
      BY DEF Bounds
    <3>2. ASSUME NEW kind, NEW start, Returns(kind, start) PROVE IsSeq(tokens')
      BY <3>1, <3>2, AppendSeq DEF Returns
    <3>3. CASE Passes
      BY <3>1, <3>3 DEF Passes
    <3>4. CASE Scanned
      <4>1. PICK kind : Returns(kind, Start)
        BY <3>4 DEF Scanned, Returns, Start
      <4>2. QED
        BY <3>2, <4>1
    <3>5. QED
      BY <2>1, <3>2, <3>3, <3>4
  <2>3. UNCHANGED <<text, peek>> /\ mode' \in Modes /\ cursor' \in Nat /\ cursor <= cursor'
    BY <2>1 DEF Advances
  <2>4. mode' # "overrun" => cursor' \in Positions'
    <3>1. cursor \in Nat /\ cursor # 0
      <4>1. mode # "overrun"
        BY <1>1 DEF NextToken, Skip, Scan, SkipBlank, SkipNewline, SkipLineComment, SkipComment,
           SkipDirective, EndSkip, Skipping, ScanEOF, ScanIdentifier, ScanHexadecimal,
           ScanNumericLiteral, ScanOperator, ScanSingle, ScanBadChar, BeginLiteral, LiteralElement,
           UnclosedLiteral, EndChar, EndString, JoinString, FinishString, InLiteral
      <4>2. QED
        BY <4>1, PositionsAre DEF Bounds
    <3>2. QED
      BY <2>1, <3>1 DEF Advances, Mapped, Positions, Bounds, IsText
  <2>5. EndsInNewline /\ SentinelFits => mode' # "overrun"
    BY <2>1 DEF Advances
  <2>6. IsText' /\ (EndsInNewline' <=> EndsInNewline) /\ (SentinelFits' <=> SentinelFits)
    BY <2>3, SameText DEF Bounds
  <2>7. peek' # NoPeek => peek'.cursor \in Positions' /\ peek'.cursor <= cursor'
    BY <2>3, PositionsAre DEF Bounds, Positions
  <2>8. QED
    BY <2>2, <2>3, <2>4, <2>5, <2>6, <2>7 DEF Bounds
<1>2. CASE BeginPeek
  <2>1. /\ mode = "idle" /\ peek' = [cursor |-> cursor, tokens |-> tokens]
        /\ UNCHANGED <<text, cursor, mode, tokens>>
    BY <1>2 DEF BeginPeek
  <2>2. peek'.cursor = cursor /\ peek'.tokens = tokens
    BY <2>1
  <2>3. Positions' = Positions
    BY <2>1 DEF Positions
  <2>4. QED
    BY <2>1, <2>2, <2>3, SameText DEF Bounds
<1>3. CASE EndPeek
  <2>1. /\ mode = "idle" /\ peek # NoPeek /\ peek' = NoPeek
        /\ UNCHANGED <<text, mode>>
        /\ \/ UNCHANGED <<cursor, tokens>>
           \/ cursor' = peek.cursor /\ tokens' = peek.tokens
    BY <1>3 DEF EndPeek, Peeked
  <2>2. Positions' = Positions
    BY <2>1 DEF Positions
  <2>3. cursor' \in Positions /\ cursor' \in Nat /\ IsSeq(tokens')
    BY <2>1, PositionsAre DEF Bounds
  <2>4. peek'.tokens = << >>
    BY <2>1 DEF NoPeek
  <2>5. IsSeq(peek'.tokens)
    BY <2>4, EmptyIsSeq
  <2>6. QED
    BY <2>1, <2>2, <2>3, <2>5, SameText DEF Bounds
<1>4. CASE UNCHANGED lexVars
  <2>1. UNCHANGED <<text, cursor, mode, tokens, peek>>
    BY <1>4 DEF lexVars
  <2>2. Positions' = Positions
    BY <2>1 DEF Positions
  <2>3. QED
    BY <2>1, <2>2, SameText DEF Bounds
<1>5. QED
  BY <1>1, <1>2, <1>3, <1>4 DEF LexNext, LexStop

LEMMA AppendAll ==
  ASSUME IsSeq(tokens), NEW kind, NEW start, Returns(kind, start)
  PROVE  \A i \in DOMAIN tokens' :
           \/ i \in DOMAIN tokens /\ tokens'[i] = tokens[i]
           \/ /\ tokens'[i].kind = kind /\ tokens'[i].from = start.at
              /\ tokens'[i].to = cursor' /\ tokens'[i].line = start.line
<1>1. PICK t : /\ tokens' = Append(tokens, t)
               /\ t.kind = kind /\ t.from = start.at /\ t.to = cursor' /\ t.line = start.line
  BY DEF Returns
<1>2. QED
  BY <1>1, AppendSeq, SeqDomain

\* line and from.line keep up with the cursor from any step of nextToken.
LEMMA LineFollows ==
  ASSUME Bounds, Lines, Advances, mode # "overrun", Neat, mode' # "overrun"
  PROVE  line' = 1 + Count(text', 1, cursor' - 1) + reread
<1>1. IsText /\ cursor \in Nat /\ 1 <= cursor /\ UNCHANGED text /\ cursor' \in Nat /\ cursor <= cursor'
  BY DEF Bounds, Advances, Positions, IsText
<1>2. line = 1 + Newlines(1, cursor - 1) + reread /\ reread \in Nat
  BY NewlinesCount DEF Lines
<1>3. line' = line + Newlines(cursor, cursor' - 1)
  BY DEF Advances
<1>4. Newlines(1, cursor' - 1) = Newlines(1, cursor - 1) + Newlines(cursor, cursor' - 1)
  BY <1>1, NewlinesAdd
<1>5. Newlines(1, cursor - 1) \in Nat /\ Newlines(cursor, cursor' - 1) \in Nat
  <2>1. 1 \in Nat /\ cursor - 1 \in Int /\ cursor' - 1 \in Int
    BY <1>1
  <2>2. QED
    BY <1>1, <2>1, NewlinesAre
<1>6. line' = 1 + Newlines(1, cursor' - 1) + reread
  BY <1>2, <1>3, <1>4, <1>5
<1>7. QED
  BY <1>1, <1>6, NewlinesCount

LEMMA LinesStep ==
  ASSUME Bounds, Lines, [LexNext]_lexVars
  PROVE  Lines'
<1>1. CASE NextToken \/ Skip \/ Scan
  <2>1. /\ Advances
        /\ Passes \/ Scanned \/ (mode \in Inside /\ Returns("literal", from))
    BY <1>1, NextTokenSteps DEF Lines
  <2>2. UNCHANGED <<text, peek, reread>> /\ line' \in Nat
    BY <2>1 DEF Advances
  <2>3. mode # "overrun"
    BY <1>1 DEF NextToken, Skip, Scan, SkipBlank, SkipNewline, SkipLineComment, SkipComment,
       SkipDirective, EndSkip, Skipping, ScanEOF, ScanIdentifier, ScanHexadecimal,
       ScanNumericLiteral, ScanOperator, ScanSingle, ScanBadChar, BeginLiteral, LiteralElement,
       UnclosedLiteral, EndChar, EndString, JoinString, FinishString, InLiteral
  <2>3a. mode' \in Inside => from'.at \in Nat
    <3>1. Start.at \in Nat
      BY DEF Start, Bounds
    <3>2. CASE Passes
      BY <3>1, <3>2 DEF Passes, Lines
    <3>3. CASE Scanned
      BY <3>3 DEF Scanned, Returns, Inside, Start
    <3>4. CASE Returns("literal", from)
      BY <3>4 DEF Returns, Inside
    <3>5. QED
      BY <2>1, <3>2, <3>3, <3>4
  <2>4. SUFFICES ASSUME Neat
                 PROVE  /\ mode' # "overrun" => line' = 1 + Count(text', 1, cursor' - 1) + reread
                        /\ mode' \in Inside => from'.line = 1 + Count(text, 1, from'.at - 1) + reread
                        /\ AllExact(text, tokens', reread) /\ AllExact(text, peek.tokens, reread)
    BY <2>2, <2>3a, SameText DEF Lines
  <2>5. /\ line = 1 + Count(text, 1, cursor - 1) + reread /\ reread \in Nat
        /\ mode \in Inside => from.line = 1 + Count(text, 1, from.at - 1) + reread
        /\ AllExact(text, tokens, reread) /\ AllExact(text, peek.tokens, reread)
    BY <2>3, <2>4 DEF Lines
  <2>6. mode' # "overrun" => line' = 1 + Count(text', 1, cursor' - 1) + reread
    BY <2>1, <2>3, <2>4, LineFollows
  <2>7. Start.line = 1 + Count(text, 1, Start.at - 1) + reread
    BY <2>5 DEF Start
  <2>8. mode' \in Inside => from'.line = 1 + Count(text, 1, from'.at - 1) + reread
    <3>1. CASE Passes
      BY <2>5, <2>7, <3>1 DEF Passes
    <3>2. CASE Scanned
      BY <3>2 DEF Scanned, Returns, Inside, Start
    <3>3. CASE Returns("literal", from)
      BY <3>3 DEF Returns, Inside
    <3>4. QED
      BY <2>1, <3>1, <3>2, <3>3
  <2>9. AllExact(text, tokens', reread)
    <3>1. CASE Passes
      BY <2>5, <3>1 DEF Passes
    <3>2. ASSUME NEW kind, NEW start, start.at \in Int, Returns(kind, start),
                 start.line = 1 + Count(text, 1, start.at - 1) + reread
          PROVE  AllExact(text, tokens', reread)
      <4>1. IsSeq(tokens) /\ IsText
        BY DEF Bounds
      <4>2. Count(text, 1, start.at - 1) \in Nat
        BY <3>2, <4>1, CountNat
      <4>3. start.line - (1 + Count(text, 1, start.at - 1)) \in 0..reread
        BY <2>5, <3>2, <4>2
      <4>4. QED
        BY <2>5, <3>2, <4>1, <4>3, AppendAll DEF AllExact, Exact
    <3>3. CASE Scanned
      <4>1. PICK kind : Returns(kind, Start)
        BY <3>3 DEF Scanned, Returns, Start
      <4>2. Start.at \in Int
        BY DEF Start, Bounds
      <4>3. QED
        BY <2>7, <3>2, <4>1, <4>2
    <3>4. CASE mode \in Inside /\ Returns("literal", from)
      <4>1. from.at \in Int
        BY <3>4 DEF Lines
      <4>2. QED
        BY <2>5, <3>2, <3>4, <4>1
    <3>5. QED
      BY <2>1, <3>1, <3>3, <3>4
  <2>10. QED
    BY <2>5, <2>6, <2>8, <2>9
<1>2. CASE BeginPeek
  <2>1. /\ peek' = [cursor |-> cursor, tokens |-> tokens]
        /\ UNCHANGED <<text, cursor, line, mode, from, tokens, reread>>
    BY <1>2 DEF BeginPeek
  <2>2. peek'.tokens = tokens
    BY <2>1
  <2>3. QED
    BY <2>1, <2>2, SameText DEF Lines
<1>3. CASE EndPeek
  <2>1. /\ mode = "idle" /\ peek # NoPeek /\ peek' = NoPeek
        /\ UNCHANGED <<text, line, mode, from>>
    BY <1>3 DEF EndPeek, Peeked
  <2>2. peek'.tokens = << >>
    BY <2>1 DEF NoPeek
  <2>3. \A r : AllExact(text, peek'.tokens, r)
    BY <2>2, EmptyIsSeq, SeqDomain DEF AllExact
  <2>4. CASE UNCHANGED <<cursor, tokens, again, reread>>
    BY <2>1, <2>3, <2>4, SameText DEF Lines
  <2>5. CASE /\ cursor' = peek.cursor /\ tokens' = peek.tokens
             /\ reread' = reread + Newlines(peek.cursor, cursor - 1)
    <3>1. IsText /\ peek.cursor \in Nat /\ 1 <= peek.cursor /\ cursor \in Nat /\ peek.cursor <= cursor
      BY <2>1 DEF Bounds, Positions, IsText
    <3>2. Newlines(peek.cursor, cursor - 1) \in Nat /\ Newlines(1, peek.cursor - 1) \in Nat
      <4>1. 1 \in Nat /\ cursor - 1 \in Int /\ peek.cursor - 1 \in Int
        BY <3>1
      <4>2. QED
        BY <3>1, <4>1, NewlinesAre
    <3>3. reread \in Nat /\ reread' \in Nat /\ line \in Nat
      BY <2>5, <3>2 DEF Lines
    <3>4. SUFFICES ASSUME Neat
                   PROVE  /\ line = 1 + Count(text, 1, peek.cursor - 1) + reread'
                          /\ AllExact(text, peek.tokens, reread')
      BY <2>1, <2>3, <2>5, <3>3, SameText DEF Lines, Inside
    <3>5. line = 1 + Newlines(1, cursor - 1) + reread /\ AllExact(text, peek.tokens, reread)
      BY <2>1, <3>4, NewlinesCount DEF Lines
    <3>6. Newlines(1, cursor - 1) = Newlines(1, peek.cursor - 1) + Newlines(peek.cursor, cursor - 1)
      BY <3>1, NewlinesAdd
    <3>7. line = 1 + Newlines(1, peek.cursor - 1) + reread'
      BY <2>5, <3>2, <3>3, <3>5, <3>6
    <3>8. AllExact(text, peek.tokens, reread')
      BY <2>5, <3>2, <3>3, <3>5, ExactLater
    <3>9. QED
      BY <3>7, <3>8, NewlinesCount
  <2>6. QED
    BY <1>3, <2>4, <2>5 DEF EndPeek
<1>4. CASE UNCHANGED lexVars
  BY <1>4, SameText DEF Lines, lexVars
<1>5. QED
  BY <1>1, <1>2, <1>3, <1>4 DEF LexNext, LexStop

LEMMA MunchesStep ==
  ASSUME Bounds, line \in Nat, Munches, [LexNext]_lexVars
  PROVE  Munches'
<1>1. CASE NextToken \/ Skip \/ Scan
  <2>1. /\ Advances
        /\ Passes \/ Scanned \/ Returns("literal", from)
    BY <1>1, NextTokenSteps
  <2>2. UNCHANGED <<text, peek>> /\ IsSeq(tokens)
    BY <2>1 DEF Advances, Bounds
  <2>3. ASSUME NEW kind, NEW start, Returns(kind, start),
               kind = "operator" => cursor' - start.at = Max({Len(w) : w \in Here(text, start.at)})
        PROVE  AllLongest(text, tokens')
    <3>1. SUFFICES ASSUME NEW i \in DOMAIN tokens' PROVE Longest(text, tokens'[i])
      BY DEF AllLongest
    <3>2. CASE i \in DOMAIN tokens /\ tokens'[i] = tokens[i]
      BY <3>2 DEF Munches, AllLongest
    <3>3. CASE tokens'[i].kind = kind /\ tokens'[i].from = start.at /\ tokens'[i].to = cursor'
      BY <2>3, <3>3 DEF Longest
    <3>4. QED
      BY <2>2, <2>3, <3>1, <3>2, <3>3, AppendAll
  <2>4. CASE Passes
    BY <2>2, <2>4 DEF Passes, Munches
  <2>5. CASE Scanned
    <3>1. PICK kind : /\ Returns(kind, Start)
                      /\ kind = "operator" => Ch(cursor) \in Operators /\ cursor' = OperatorEnd(cursor)
      BY <2>5 DEF Scanned, Returns, Start
    <3>2. kind = "operator" => cursor' - cursor = Max({Len(w) : w \in Here(text, cursor)})
      <4>1. SUFFICES ASSUME kind = "operator" 
                     PROVE  cursor' - cursor = Max({Len(w) : w \in Here(text, cursor)})
        OBVIOUS
      <4>2. Ch(cursor) # EOF /\ IsText /\ cursor \in Nat
        BY <3>1, <4>1 DEF Operators, EOF, Bounds
      <4>3. mode # "overrun"
        BY <1>1 DEF NextToken, Skip, Scan, SkipBlank, SkipNewline, SkipLineComment, SkipComment,
           SkipDirective, EndSkip, Skipping, ScanEOF, ScanIdentifier, ScanHexadecimal,
           ScanNumericLiteral, ScanOperator, ScanSingle, ScanBadChar, BeginLiteral, LiteralElement,
           UnclosedLiteral, EndChar, EndString, JoinString, FinishString, InLiteral
      <4>4. cursor \in Positions
        BY <4>3 DEF Bounds
      <4>5. QED
        BY <3>1, <4>1, <4>2, <4>4, LongestOperator
    <3>3. Start.at = cursor
      BY DEF Start
    <3>4. AllLongest(text, tokens')
      BY <2>3, <3>1, <3>2, <3>3
    <3>5. QED
      BY <2>2, <3>4 DEF Munches
  <2>6. CASE Returns("literal", from)
    <3>1. AllLongest(text, tokens')
      BY <2>3, <2>6
    <3>2. QED
      BY <2>2, <3>1 DEF Munches
  <2>7. QED
    BY <2>1, <2>4, <2>5, <2>6
<1>2. CASE BeginPeek
  <2>1. /\ peek' = [cursor |-> cursor, tokens |-> tokens]
        /\ UNCHANGED <<text, tokens>>
    BY <1>2 DEF BeginPeek
  <2>2. peek'.tokens = tokens
    BY <2>1
  <2>3. QED
    BY <2>1, <2>2 DEF Munches
<1>3. CASE EndPeek
  <2>1. peek' = NoPeek /\ UNCHANGED text /\ (UNCHANGED tokens \/ tokens' = peek.tokens)
    BY <1>3 DEF EndPeek
  <2>2. peek'.tokens = << >>
    BY <2>1 DEF NoPeek
  <2>3. AllLongest(text, peek'.tokens)
    BY <2>2, EmptyIsSeq, SeqDomain DEF AllLongest
  <2>4. QED
    BY <2>1, <2>3 DEF Munches
<1>4. CASE UNCHANGED lexVars
  BY <1>4 DEF Munches, lexVars
<1>5. QED
  BY <1>1, <1>2, <1>3, <1>4 DEF LexNext, LexStop

-----------------------------------------------------------------------------
(* Shifts and words, and what AddDigit makes of them.                      *)

\* Quotient and remainder are what their equation says.
LEMMA DivisionIs ==
  ASSUME NEW q \in Nat \ {0}, NEW a \in Nat, NEW b \in 0..q - 1
  PROVE  (a * q + b) \div q = a /\ (a * q + b) % q = b
<1> DEFINE x == a * q + b
           d == x \div q
           r == x % q
<1>1. x \in Nat /\ x = q * d + r /\ r \in 0..q - 1 /\ d \in Int
  OBVIOUS
<1>2. q * (d - a) = b - r
  BY <1>1
<1>3. CASE d - a >= 1
  <2>1. q * (d - a) >= q
    BY <1>1, <1>3
  <2> QED
    BY <2>1, <1>1, <1>2
<1>4. CASE d - a <= -1
  <2>1. q * (a - d) >= q
    BY <1>1, <1>4
  <2> QED
    BY <2>1, <1>1, <1>2
<1>5. CASE d = a
  BY <1>1, <1>2, <1>5
<1> QED
  BY <1>1, <1>3, <1>4, <1>5

LEMMA Smaller ==
  ASSUME NEW q \in Nat \ {0}, NEW b \in 0..q - 1
  PROVE  b % q = b
<1>1. (0 * q + b) % q = b
  BY DivisionIs
<1>2. 0 * q + b = b
  OBVIOUS
<1> QED
  BY <1>1, <1>2

LEMMA NotMuchBigger ==
  ASSUME NEW q \in Nat \ {0}, NEW b \in q..2 * q - 1
  PROVE  b % q = b - q
<1>1. (1 * q + (b - q)) % q = b - q
  <2>1. b - q \in 0..q - 1
    OBVIOUS
  <2> QED
    BY <2>1, DivisionIs
<1>2. 1 * q + (b - q) = b
  OBVIOUS
<1> QED
  BY <1>1, <1>2

LEMMA Distributes ==
  ASSUME NEW m \in {2, 8, 16}, NEW p \in Nat, NEW b \in Nat
  PROVE  (p + b) * m = p * m + b * m
<1>1. CASE m = 2
  BY <1>1
<1>2. CASE m = 8
  BY <1>2
<1>3. CASE m = 16
  BY <1>3
<1> QED
  BY <1>1, <1>2, <1>3

LEMMA OnceAround ==
  ASSUME NEW q \in Nat \ {0}, NEW p \in 0..2 * q - 1
  PROVE  p % q = IF p < q THEN p ELSE p - q
<1>1. CASE p < q
  BY <1>1, Smaller
<1>2. CASE p >= q
  <2>1. p \in q..2 * q - 1
    BY <1>2
  <2> QED
    BY <2>1, <1>2, NotMuchBigger
<1> QED
  BY <1>1, <1>2

\* The two halves of a shift: what is pushed out and what stays.
LEMMA ShiftIs ==
  ASSUME NEW m \in {2, 8, 16}, NEW x \in 0..MaxWord
  PROVE  /\ x * m = Upper(x, m) * Word + Shift(x, m)
         /\ Upper(x, m) \in 0..m - 1 /\ Shift(x, m) \in 0..MaxWord
<1> DEFINE q == Word \div m
           a == x \div q
           b == x % q
<1>1. Word \in Nat /\ Word > 0 /\ Word = q * m /\ q \in Nat \ {0}
  BY WordAssumption
<1>2. x \in Nat /\ x < Word /\ a \in Nat /\ b \in 0..q - 1 /\ x = a * q + b
  BY <1>1 DEF MaxWord
<1>3. a < m
  <2>1. a >= m => a * q >= m * q
    BY <1>1, <1>2
  <2> QED
    BY <2>1, <1>1, <1>2
<1>4. x * m = a * Word + b * m
  <2>1. x * m = (a * q) * m + b * m
    <3>1. a * q \in Nat /\ b \in Nat /\ x = a * q + b
      BY <1>1, <1>2
    <3> HIDE DEF a, b, q
    <3> QED
      BY <3>1, Distributes
  <2>2. (a * q) * m = a * (q * m)
    BY <1>1, <1>2
  <2> QED
    BY <2>1, <2>2, <1>1
<1>5. b * m \in 0..Word - 1
  BY <1>1, <1>2
<1>6. (a * Word + b * m) \div Word = a /\ (a * Word + b * m) % Word = b * m
  <2>1. Word \in Nat \ {0}
    BY <1>1
  <2> HIDE DEF a, b, q
  <2> QED
    BY <2>1, <1>2, <1>5, DivisionIs
<1> QED
  BY <1>1, <1>2, <1>3, <1>4, <1>5, <1>6 DEF Upper, Shift, MaxWord

\* A word times the base, as a word and what it carries.
LEMMA TimesIs ==
  ASSUME NEW base \in {8, 10, 16}, NEW x \in 0..MaxWord
  PROVE  /\ x * base = Carry(x, base) * Word + Times(x, base)
         /\ Carry(x, base) \in 0..15 /\ Times(x, base) \in 0..MaxWord
<1>0. Word \in Nat /\ Word > 0
  BY WordAssumption
<1>1. CASE base = 16
  BY <1>1, ShiftIs DEF Carry, Times
<1>2. CASE base = 8
  BY <1>2, ShiftIs DEF Carry, Times
<1>3. CASE base = 10
  <2> DEFINE s == Shift(x, 8) + Shift(x, 2)
             u == Upper(x, 8) + Upper(x, 2)
  <2>1. /\ Upper(x, 8) \in 0..7 /\ Upper(x, 2) \in 0..1
        /\ Shift(x, 8) \in 0..Word - 1 /\ Shift(x, 2) \in 0..Word - 1
        /\ x * 8 = Upper(x, 8) * Word + Shift(x, 8) /\ x * 2 = Upper(x, 2) * Word + Shift(x, 2)
    BY ShiftIs DEF MaxWord
  <2>2. x * 10 = u * Word + s /\ x \in Nat
    <3>1. x * 10 = x * 8 + x * 2 /\ x \in Nat
      BY <1>0 DEF MaxWord
    <3>2. u * Word = Upper(x, 8) * Word + Upper(x, 2) * Word
      BY <1>0, <2>1
    <3> QED
      BY <3>1, <3>2, <1>0, <2>1
  <2>3. Times(x, base) = s % Word
        /\ Carry(x, base) = u + (IF Shift(x, 8) > MaxWord - Shift(x, 2) THEN 1 ELSE 0)
    BY <1>3 DEF Times, Carry
  <2>4. CASE s < Word
    <3>1. s % Word = s
      <4>1. s \in 0..Word - 1
        BY <2>1, <2>4, <1>0
      <4> QED
        BY <4>1, <1>0, Smaller
    <3>2. ~(Shift(x, 8) > MaxWord - Shift(x, 2))
      BY <2>1, <2>4, <1>0 DEF MaxWord
    <3> QED
      BY <1>3, <3>1, <3>2, <2>1, <2>2, <2>3, <2>4, <1>0 DEF MaxWord
  <2>5. CASE s >= Word
    <3>1. s % Word = s - Word
      <4>1. s \in Word..2 * Word - 1
        BY <2>1, <2>5, <1>0
      <4> QED
        BY <4>1, <1>0, NotMuchBigger
    <3>2. Shift(x, 8) > MaxWord - Shift(x, 2)
      BY <2>1, <2>5, <1>0 DEF MaxWord
    <3>3. (u + 1) * Word = u * Word + Word
      BY <1>0, <2>1
    <3> QED
      BY <1>3, <3>1, <3>2, <3>3, <2>1, <2>2, <2>3, <2>5, <1>0 DEF MaxWord
  <2> QED
    BY <2>1, <2>4, <2>5, <1>0
<1> QED
  BY <1>1, <1>2, <1>3

\* One digit more: the two words hold the value so far and the digit, and the
\* overflow says whether a multiple of the two words' size is missing.
LEMMA AddDigitIs ==
  ASSUME NEW n \in Words, NEW base \in {8, 10, 16}, NEW d \in 0..15
  PROVE  /\ AddDigit(n, d, base) \in Words
         /\ \E k \in Nat :
              /\ (n.low + Word * n.high) * base + d =
                   AddDigit(n, d, base).low + Word * AddDigit(n, d, base).high + (Word * Word) * k
              /\ AddDigit(n, d, base).overflow <=> n.overflow \/ k > 0
<1> DEFINE low == Times(n.low, base)
           high == Times(n.high, base)
           c0 == Carry(n.low, base) + (IF low > MaxWord - d THEN 1 ELSE 0)
           c1 == Carry(n.high, base)
           e == IF high > MaxWord - c0 THEN 1 ELSE 0
           m == AddDigit(n, d, base)
<1>0. Word \in Nat /\ Word >= 16 /\ n.low \in 0..MaxWord /\ n.high \in 0..MaxWord /\ n.overflow \in BOOLEAN
  BY WordAssumption DEF Words
<1>1. /\ low \in 0..Word - 1 /\ high \in 0..Word - 1 /\ c1 \in 0..15
      /\ n.low * base = Carry(n.low, base) * Word + low /\ n.high * base = c1 * Word + high
      /\ Carry(n.low, base) \in 0..15
  BY <1>0, TimesIs DEF MaxWord
<1>2. /\ m.low = (low + d) % Word /\ m.high = (high + c0) % Word
      /\ m.overflow = (n.overflow \/ c1 # 0 \/ high > MaxWord - c0)
      /\ m = [low |-> m.low, high |-> m.high, overflow |-> m.overflow]
  BY DEF AddDigit
<1> DEFINE c == Carry(n.low, base)
<1>3. /\ low + d < Word => c0 = c
      /\ low + d >= Word => c0 = c + 1
      /\ high + c0 < Word => e = 0 /\ ~(high > MaxWord - c0)
      /\ high + c0 >= Word => e = 1 /\ high > MaxWord - c0
      /\ e \in 0..1 /\ c0 \in 0..16
  BY <1>0, <1>1 DEF MaxWord
<1> HIDE DEF low, high, c0, c1, c, e, m
<1>a. c \in 0..15 /\ n.low * base = c * Word + low
  BY <1>1 DEF c
<1>4. /\ m.low \in 0..Word - 1 /\ n.low * base + d = c0 * Word + m.low
      /\ m.high \in 0..Word - 1 /\ n.high * base + c0 = (c1 + e) * Word + m.high
  <2>1. \A p \in 0..2 * Word - 1 : p % Word = IF p < Word THEN p ELSE p - Word
    <3>1. Word \in Nat \ {0}
      BY <1>0
    <3> QED
      BY <3>1, OnceAround
  <2>2. (c + 1) * Word = c * Word + Word /\ (c1 + 1) * Word = c1 * Word + Word
    BY <1>0, <1>1, <1>a
  <2>3. low + d \in 0..2 * Word - 1 /\ high + c0 \in 0..2 * Word - 1
    BY <1>0, <1>1, <1>3
  <2>4. m.low = IF low + d < Word THEN low + d ELSE (low + d) - Word
    <3>1. PICK p : p = low + d
      OBVIOUS
    <3>2. p % Word = IF p < Word THEN p ELSE p - Word
      <4>1. p \in 0..2 * Word - 1
        BY <3>1, <2>3
      <4> QED
        BY <2>1, <4>1
    <3>3. m.low = p % Word
      BY <3>1, <1>2
    <3>4. m.low = IF p < Word THEN p ELSE p - Word
      BY <3>2, <3>3
    <3> QED
      BY <3>1, <3>4
  <2>5. m.high = IF high + c0 < Word THEN high + c0 ELSE (high + c0) - Word
    <3>1. PICK p : p = high + c0
      OBVIOUS
    <3>2. p % Word = IF p < Word THEN p ELSE p - Word
      <4>1. p \in 0..2 * Word - 1
        BY <3>1, <2>3
      <4> QED
        BY <2>1, <4>1
    <3>3. m.high = p % Word
      BY <3>1, <1>2
    <3>4. m.high = IF p < Word THEN p ELSE p - Word
      BY <3>2, <3>3
    <3> QED
      BY <3>1, <3>4
  <2>6. c * Word \in Nat /\ c1 * Word \in Nat
    BY <1>0, <1>1, <1>a
  <2>7. m.low \in 0..Word - 1 /\ n.low * base + d = c0 * Word + m.low
    <3>1. m.low \in 0..Word - 1
      <4>1. low + d < Word => low + d \in 0..Word - 1
        BY <2>3, <1>0, <1>1
      <4>2. ~(low + d < Word) => (low + d) - Word \in 0..Word - 1
        BY <2>3, <1>0, <1>1
      <4> QED
        BY <4>1, <4>2, <2>4, Zenon
    <3>2. CASE low + d < Word
      BY <3>2, <2>4, <2>6, <1>0, <1>1, <1>3, <1>a
    <3>3. CASE low + d >= Word
      <4>1. c0 * Word = c * Word + Word
        BY <3>3, <2>2, <1>3
      <4> QED
        BY <3>3, <4>1, <2>4, <2>6, <1>0, <1>1, <1>a
    <3> QED
      BY <3>1, <3>2, <3>3, <2>3, <1>0
  <2>8. m.high \in 0..Word - 1 /\ n.high * base + c0 = (c1 + e) * Word + m.high
    <3>1. c1 + 0 = c1
      BY <1>1
    <3> QED
      BY <3>1, <2>2, <2>3, <2>5, <2>6, <1>0, <1>1, <1>3
  <2> QED
    BY <2>7, <2>8
<1>5. c1 + e \in Nat /\ (m.overflow <=> n.overflow \/ c1 + e > 0)
  <2>1. (c1 # 0 \/ high > MaxWord - c0) <=> c1 + e > 0
    BY <1>0, <1>1, <1>3
  <2>2. c1 + e \in Nat
    BY <1>1, <1>3
  <2> QED
    BY <2>1, <2>2, <1>2
<1>6. (n.low + Word * n.high) * base + d = m.low + Word * m.high + (Word * Word) * (c1 + e)
  <2>0. base \in Nat /\ n.low \in Nat /\ n.high \in Nat /\ m.low \in Nat /\ m.high \in Nat /\ c0 \in Nat /\ d \in Nat
    BY <1>0, <1>1, <1>3, <1>4 DEF MaxWord
  <2>1. (n.low + Word * n.high) * base + d = (n.low * base + d) + Word * (n.high * base)
    BY <2>0, <1>0
  <2>2. Word * (n.high * base + c0) = Word * (n.high * base) + Word * c0
    BY <2>0, <1>0
  <2>3. Word * ((c1 + e) * Word + m.high) = (Word * Word) * (c1 + e) + Word * m.high
    BY <2>0, <1>0, <1>5
  <2>4. (n.low + Word * n.high) * base + d = c0 * Word + m.low + Word * (n.high * base)
    BY <2>1, <1>4
  <2>5. Word * (n.high * base) + Word * c0 = (Word * Word) * (c1 + e) + Word * m.high
    BY <2>2, <2>3, <1>4
  <2>6. c0 * Word = Word * c0 /\ c0 * Word \in Nat /\ Word * (n.high * base) \in Nat
        /\ (Word * Word) * (c1 + e) \in Nat /\ Word * m.high \in Nat
    BY <2>0, <1>0, <1>5
  <2> QED
    BY <2>4, <2>5, <2>6, <2>0
<1>7. m \in Words
  <2>1. m.overflow \in BOOLEAN
    BY <1>2
  <2> QED
    BY <2>1, <1>2, <1>4 DEF Words, MaxWord
<1> QED
  BY <1>5, <1>6, <1>7 DEF m

-----------------------------------------------------------------------------
(* Recursion along an interval, and the digits of a literal.               *)

\* The steps of a recursion along 1..n, and a function that takes them.
Steps(n, S) == [(1..n) \X S -> S]
Follows(f, z, n, S, step) ==
  f \in [0..n -> S] /\ f[0] = z /\ \A i \in 1..n : f[i] = step[<<i, f[i - 1]>>]

\* A function defined by recursion along an interval exists.
LEMMA RecursionExists ==
  ASSUME NEW S, NEW z, z \in S, NEW n, n \in Nat, NEW step, step \in Steps(n, S)
  PROVE  \E f : Follows(f, z, n, S, step)
<1> USE DEF Steps, Follows
<1> DEFINE Defined(m) == \E f \in [0..m -> S] : f[0] = z /\ \A i \in 1..m : f[i] = step[<<i, f[i - 1]>>]
           D == {m \in 0..n : ~Defined(m)}
<1>1. SUFFICES ASSUME D # {} PROVE FALSE
  <2>1. n \in 0..n
    OBVIOUS
  <2> QED
    BY <2>1
<1>2. D \in SUBSET Nat
  OBVIOUS
<1>3. PICK m \in D : \A k \in D : m <= k
  BY <1>1, <1>2, LeastNat
<1>4. m \in 0..n /\ ~Defined(m)
  BY <1>3
<1>5. CASE m = 0
  <2> DEFINE f == [i \in 0..0 |-> z]
  <2>1. f \in [0..m -> S] /\ f[0] = z /\ \A i \in 1..m : f[i] = step[<<i, f[i - 1]>>]
    BY <1>5
  <2> QED
    BY <1>4, <2>1
<1>6. CASE m > 0
  <2>1. m - 1 \in 0..n /\ m - 1 \notin D
    BY <1>3, <1>4, <1>6
  <2>2. Defined(m - 1)
    BY <2>1
  <2>3. PICK g \in [0..m - 1 -> S] : g[0] = z /\ \A i \in 1..m - 1 : g[i] = step[<<i, g[i - 1]>>]
    BY <2>2
  <2> DEFINE f == [i \in 0..m |-> IF i = m THEN step[<<m, g[m - 1]>>] ELSE g[i]]
  <2>4. step[<<m, g[m - 1]>>] \in S
    BY <1>4, <1>6, <2>3
  <2>5. f \in [0..m -> S]
    BY <1>4, <1>6, <2>3, <2>4
  <2>6. f[0] = z
    BY <1>4, <1>6, <2>3
  <2>7. ASSUME NEW i \in 1..m PROVE f[i] = step[<<i, f[i - 1]>>]
    <3>1. f[i - 1] = g[i - 1]
      BY <1>4, <1>6
    <3>2. CASE i = m
      BY <1>4, <3>1, <3>2
    <3>3. CASE i # m
      BY <1>4, <2>3, <3>1, <3>3
    <3> QED
      BY <3>2, <3>3
  <2>8. Defined(m)
    BY <2>5, <2>6, <2>7
  <2> QED
    BY <1>4, <2>8
<1> QED
  BY <1>4, <1>5, <1>6

\* The values of the first digits of a text from start on, in exact arithmetic.
DigitPrefixes(x, start, N, base) ==
  LET value[n \in 0..N] ==
        IF n = 0 THEN 0 ELSE value[n - 1] * base + DigitValue[x[start + n - 1]]
  IN value

\* A function on an interval has its type if every step keeps it.
LEMMA TypeAlong ==
  ASSUME NEW S, NEW n \in Nat, NEW f, DOMAIN f = 0..n, f = [i \in DOMAIN f |-> f[i]],
         f[0] \in S, \A i \in 1..n : f[i - 1] \in S => f[i] \in S
  PROVE  f \in [0..n -> S]
<1> DEFINE D == {i \in 0..n : f[i] \notin S}
<1>1. SUFFICES ASSUME D # {} PROVE FALSE
  OBVIOUS
<1>2. D \in SUBSET Nat
  OBVIOUS
<1>3. PICK m \in D : \A k \in D : m <= k
  BY <1>1, <1>2, LeastNat
<1>4. m # 0 /\ m \in 0..n
  BY <1>3
<1>5. m - 1 \in 0..n /\ m - 1 \notin D
  BY <1>3, <1>4
<1> QED
  BY <1>3, <1>4, <1>5

\* v is the value of each of the first digits.
Digitwise(v, x, start, N, base) ==
  /\ v \in [0..N -> Nat]
  /\ v[0] = 0 /\ \A n \in 1..N : v[n] = v[n - 1] * base + DigitValue[x[start + n - 1]]

LEMMA PrefixesAre ==
  ASSUME NEW x, NEW start \in Nat, NEW N \in Nat, NEW base \in Nat,
         \A n \in 1..N : x[start + n - 1] \in DOMAIN DigitValue
  PROVE  Digitwise(DigitPrefixes(x, start, N, base), x, start, N, base)
<1> DEFINE d(n) == DigitValue[x[start + n - 1]]
           step == [p \in (1..N) \X Nat |-> p[2] * base + d(p[1])]
<1>1. \A n \in 1..N : d(n) \in Nat
  <2>1. \A c \in DOMAIN DigitValue : DigitValue[c] \in Nat
    BY DEF DigitValue
  <2> QED
    BY <2>1
<1> DEFINE value == CHOOSE value : value = [n \in 0..N |-> IF n = 0 THEN 0 ELSE value[n - 1] * base + d(n)]
<1>7. DigitPrefixes(x, start, N, base) = value
  BY DEF DigitPrefixes
<1> HIDE DEF d
<1>2. step \in [(1..N) \X Nat -> Nat]
  <2>1. ASSUME NEW p \in (1..N) \X Nat PROVE p[2] * base + d(p[1]) \in Nat
    <3>1. d(p[1]) \in Nat /\ p[2] \in Nat
      BY <1>1
    <3> QED
      BY <3>1
  <2> QED
    BY <2>1
<1>3. PICK f \in [0..N -> Nat] : f[0] = 0 /\ \A i \in 1..N : f[i] = step[<<i, f[i - 1]>>]
  <2>1. 0 \in Nat
    OBVIOUS
  <2> HIDE DEF step, value
  <2>2. step \in Steps(N, Nat)
    BY <1>2 DEF Steps
  <2>3. PICK f : Follows(f, 0, N, Nat, step)
    BY <2>1, <2>2, RecursionExists
  <2> QED
    BY <2>3 DEF Follows
<1>4. \A i \in 1..N : f[i] = f[i - 1] * base + d(i)
  <2>1. SUFFICES ASSUME NEW i \in 1..N PROVE f[i] = f[i - 1] * base + d(i)
    OBVIOUS
  <2>2. <<i, f[i - 1]>> \in (1..N) \X Nat
    OBVIOUS
  <2> QED
    BY <1>3, <2>2
<1>5. f = [n \in 0..N |-> IF n = 0 THEN 0 ELSE f[n - 1] * base + d(n)]
  BY <1>3, <1>4
<1>6. value = [n \in 0..N |-> IF n = 0 THEN 0 ELSE value[n - 1] * base + d(n)]
  BY <1>5
<1> HIDE DEF value
<1>8. value[0] = 0 /\ \A n \in 1..N : value[n] = value[n - 1] * base + d(n)
  <2> DEFINE R(n) == IF n = 0 THEN 0 ELSE value[n - 1] * base + d(n)
  <2>1. value = [n \in 0..N |-> R(n)]
    BY <1>6
  <2> HIDE DEF R
  <2>2. \A n \in 0..N : value[n] = R(n)
    BY <2>1
  <2> QED
    BY <2>2 DEF R
<1>9. DOMAIN value = 0..N /\ value = [i \in DOMAIN value |-> value[i]]
  BY <1>6
<1>10. ASSUME NEW i \in 1..N, value[i - 1] \in Nat PROVE value[i] \in Nat
  <2>1. value[i - 1] * base \in Nat /\ d(i) \in Nat
    BY <1>1, <1>10
  <2> QED
    BY <1>8, <2>1
<1>11. value \in [0..N -> Nat]
  <2>1. value[0] \in Nat
    BY <1>8
  <2> QED
    BY <1>9, <1>10, <2>1, TypeAlong, Zenon
<1> QED
  BY <1>7, <1>8, <1>11 DEF d, Digitwise

\* The two words hold the value, or fewer of its multiples of their size.
Holding(w, v) ==
  \E k \in Nat : /\ v = w.low + Word * w.high + (Word * Word) * k
                 /\ w.overflow <=> k > 0

LEMMA HoldingNext ==
  ASSUME NEW w \in Words, NEW v \in Nat, Holding(w, v), NEW base \in {8, 10, 16}, NEW d \in 0..15
  PROVE  AddDigit(w, d, base) \in Words /\ Holding(AddDigit(w, d, base), v * base + d)
<1>1. PICK k \in Nat : v = w.low + Word * w.high + (Word * Word) * k /\ (w.overflow <=> k > 0)
  BY DEF Holding
<1> DEFINE m == AddDigit(w, d, base)
<1>2. m \in Words /\ w.overflow \in BOOLEAN
  BY AddDigitIs DEF Words
<1>3. PICK j \in Nat : /\ (w.low + Word * w.high) * base + d = m.low + Word * m.high + (Word * Word) * j
                       /\ m.overflow <=> w.overflow \/ j > 0
  BY AddDigitIs
<1> HIDE DEF m
<1>4. /\ Word \in Nat /\ w.low \in Nat /\ w.high \in Nat /\ m.low \in Nat /\ m.high \in Nat /\ base \in Nat
      /\ base >= 1 /\ d \in Nat
  BY <1>2, WordAssumption DEF Words, MaxWord
<1>5. v * base + d = m.low + Word * m.high + (Word * Word) * (j + k * base)
  <2> DEFINE p == w.low + Word * w.high
             q == Word * Word
  <2>1. p \in Nat /\ q \in Nat /\ Word * m.high \in Nat
    BY <1>4
  <2>2. v = p + q * k /\ p * base + d = m.low + Word * m.high + q * j
    BY <1>1, <1>3
  <2> HIDE DEF p, q
  <2>3. (p + q * k) * base = p * base + q * (k * base)
    BY <1>4, <2>1
  <2>4. q * (j + k * base) = q * j + q * (k * base)
    BY <1>4, <2>1
  <2>5. q * j \in Nat /\ q * (k * base) \in Nat /\ p * base \in Nat
    BY <1>4, <2>1
  <2>6. v * base + d = m.low + Word * m.high + q * (j + k * base)
    BY <1>4, <2>1, <2>2, <2>3, <2>4, <2>5
  <2> QED
    BY <2>6 DEF q
<1>6. j + k * base \in Nat /\ (m.overflow <=> j + k * base > 0)
  <2>1. k * base \in Nat /\ (k > 0 <=> k * base > 0)
    BY <1>4
  <2> QED
    BY <1>1, <1>3, <2>1
<1>7. Holding(m, v * base + d)
  BY <1>5, <1>6 DEF Holding
<1> QED
  BY <1>2, <1>7 DEF m

\* What the words say when they hold the value.
LEMMA HoldingMeans ==
  ASSUME NEW w \in Words, NEW v \in Nat, Holding(w, v)
  PROVE  w.low = v % Word /\ ((w.overflow \/ w.high # 0) <=> v >= Word)
<1>1. PICK k \in Nat : v = w.low + Word * w.high + (Word * Word) * k /\ (w.overflow <=> k > 0)
  BY DEF Holding
<1>2. Word \in Nat \ {0} /\ w.low \in 0..Word - 1 /\ w.high \in Nat
  BY WordAssumption DEF Words, MaxWord
<1> DEFINE a == w.high + Word * k
<1>3. a \in Nat /\ v = a * Word + w.low
  BY <1>1, <1>2
<1>4. w.low = v % Word
  <2> HIDE DEF a
  <2> QED
    BY <1>2, <1>3, DivisionIs
<1>5. (w.high # 0 \/ k > 0) <=> a > 0
  <2>1. k > 0 => Word * k > 0
    BY <1>2
  <2>2. k = 0 => Word * k = 0
    BY <1>2
  <2> QED
    BY <1>2, <2>1, <2>2
<1>6. a > 0 <=> v >= Word
  <2> HIDE DEF a
  <2>1. a > 0 => a * Word >= Word
    BY <1>2, <1>3
  <2>2. a = 0 => a * Word = 0
    BY <1>2
  <2> QED
    BY <1>2, <1>3, <2>1, <2>2
<1> QED
  BY <1>1, <1>4, <1>5, <1>6

\* ds is N digits of a text, from start on.
Spells(ds, x, start, N) ==
  Len(ds) = N /\ \A n \in 1..N : ds[n] = x[start + n - 1] /\ ds[n] \in DOMAIN DigitValue

LEMMA IntValueIs ==
  ASSUME NEW x, NEW start \in Nat, NEW N \in Nat, NEW base \in {8, 10, 16}, NEW ds,
         Spells(ds, x, start, N)
  PROVE  IntValue(ds, base) = [value |-> DigitPrefixes(x, start, N, base)[N] % Word,
                               tooBig |-> DigitPrefixes(x, start, N, base)[N] >= Word]
<1>0. Len(ds) = N /\ \A n \in 1..N : ds[n] = x[start + n - 1] /\ ds[n] \in DOMAIN DigitValue
  BY DEF Spells
<1> USE <1>0
<1> DEFINE d(n) == DigitValue[ds[n]]
<1>1. \A n \in 1..N : d(n) \in 0..15 /\ d(n) \in Nat
  <2>1. \A c \in DOMAIN DigitValue : DigitValue[c] \in 0..15
    BY DEF DigitValue
  <2> QED
    BY <2>1
<1> DEFINE v == DigitPrefixes(x, start, N, base)
<1>2. Digitwise(v, x, start, N, base)
  <2>1. base \in Nat
    OBVIOUS
  <2>2. \A n \in 1..N : x[start + n - 1] \in DOMAIN DigitValue
    <3>1. SUFFICES ASSUME NEW n \in 1..N PROVE x[start + n - 1] \in DOMAIN DigitValue
      OBVIOUS
    <3>2. ds[n] = x[start + n - 1] /\ ds[n] \in DOMAIN DigitValue
      OBVIOUS
    <3> QED
      BY <3>2, Zenon
  <2> HIDE DEF d
  <2> QED
    BY <2>1, <2>2, PrefixesAre
<1>3. v \in [0..N -> Nat] /\ v[0] = 0 /\ \A n \in 1..N : v[n] = v[n - 1] * base + d(n)
  BY <1>2 DEF Digitwise
<1> DEFINE add == [p \in Words \X Nat |-> AddDigit(p[1], p[2], base)]
           scan == CHOOSE scan : scan = [i \in 0..Len(ds) |->
                     IF i = 0 THEN Zero ELSE add[<<scan[i - 1], DigitValue[ds[i]]>>]]
<1>4. IntValue(ds, base) = [value |-> scan[Len(ds)].low, tooBig |-> scan[Len(ds)].overflow \/ scan[Len(ds)].high # 0]
  BY DEF IntValue
<1> HIDE DEF d, v
<1> DEFINE step == [p \in (1..N) \X Words |-> AddDigit(p[2], d(p[1]), base)]
<1>5. ASSUME NEW n \in 1..N, NEW w \in Words PROVE AddDigit(w, d(n), base) \in Words
  BY <1>1, AddDigitIs
<1>6. Zero \in Words /\ Zero.low = 0 /\ Zero.high = 0 /\ Zero.overflow = FALSE
  BY WordAssumption DEF Zero, Words, MaxWord
<1>7. step \in Steps(N, Words)
  <2>1. ASSUME NEW p \in (1..N) \X Words PROVE AddDigit(p[2], d(p[1]), base) \in Words
    BY <1>5
  <2> QED
    BY <2>1 DEF Steps
<1>8. PICK f : Follows(f, Zero, N, Words, step)
  <2> HIDE DEF step
  <2> QED
    BY <1>6, <1>7, RecursionExists
<1>9. f \in [0..N -> Words] /\ f[0] = Zero /\ \A i \in 1..N : f[i] = AddDigit(f[i - 1], d(i), base)
  <2>1. f \in [0..N -> Words] /\ f[0] = Zero /\ \A i \in 1..N : f[i] = step[<<i, f[i - 1]>>]
    BY <1>8 DEF Follows
  <2>2. SUFFICES ASSUME NEW i \in 1..N PROVE f[i] = AddDigit(f[i - 1], d(i), base)
    BY <2>1
  <2>3. <<i, f[i - 1]>> \in (1..N) \X Words
    BY <2>1
  <2> QED
    BY <2>1, <2>3
<1>10. \A w \in Words, c \in Nat : add[<<w, c>>] = AddDigit(w, c, base)
  OBVIOUS
<1> HIDE DEF add
<1>11. f = [i \in 0..Len(ds) |-> IF i = 0 THEN Zero ELSE add[<<f[i - 1], d(i)>>]]
  <2>1. \A i \in 1..N : f[i] = add[<<f[i - 1], d(i)>>]
    <3>1. SUFFICES ASSUME NEW i \in 1..N PROVE f[i] = add[<<f[i - 1], d(i)>>]
      OBVIOUS
    <3>2. f[i - 1] \in Words /\ d(i) \in Nat
      <4>1. i - 1 \in 0..N
        OBVIOUS
      <4> QED
        BY <1>1, <1>9, <4>1
    <3> QED
      BY <1>9, <1>10, <3>2
  <2> QED
    BY <1>9, <2>1
<1>12. scan = [i \in 0..Len(ds) |-> IF i = 0 THEN Zero ELSE add[<<scan[i - 1], d(i)>>]]
  BY <1>11 DEF d
<1> HIDE DEF scan
<1>13. scan[0] = Zero /\ \A i \in 1..N : scan[i] = add[<<scan[i - 1], d(i)>>]
  <2> DEFINE R(i) == IF i = 0 THEN Zero ELSE add[<<scan[i - 1], d(i)>>]
  <2>1. scan = [i \in 0..N |-> R(i)]
    BY <1>12
  <2> HIDE DEF R
  <2>2. \A i \in 0..N : scan[i] = R(i)
    BY <2>1
  <2>3. scan[0] = R(0) /\ \A i \in 1..N : scan[i] = R(i)
    BY <2>2
  <2>4. R(0) = Zero /\ \A i \in 1..N : R(i) = add[<<scan[i - 1], d(i)>>]
    BY DEF R
  <2> QED
    BY <2>3, <2>4
\* The words hold the value of the digits read so far.
<1> DEFINE Wrong == {i \in 0..N : ~(scan[i] \in Words /\ Holding(scan[i], v[i]))}
<1>14. Wrong = {}
  <2>1. SUFFICES ASSUME Wrong # {} PROVE FALSE
    OBVIOUS
  <2>2. Wrong \in SUBSET Nat
    OBVIOUS
  <2>3. PICK m \in Wrong : \A k \in Wrong : m <= k
    BY <2>1, <2>2, LeastNat
  <2>4. m \in 0..N /\ ~(scan[m] \in Words /\ Holding(scan[m], v[m]))
    BY <2>3
  <2>5. CASE m = 0
    <3>1. v[m] = Zero.low + Word * Zero.high + (Word * Word) * 0 /\ (Zero.overflow <=> 0 > 0)
      BY <1>3, <1>6, <2>5, WordAssumption
    <3>2. Holding(scan[m], v[m])
      BY <1>13, <2>5, <3>1 DEF Holding
    <3> QED
      BY <1>6, <1>13, <2>4, <2>5, <3>2
  <2>6. CASE m > 0
    <3>1. m \in 1..N /\ m - 1 \in 0..N /\ m - 1 \notin Wrong
      BY <2>3, <2>4, <2>6
    <3>2. scan[m - 1] \in Words /\ Holding(scan[m - 1], v[m - 1]) /\ v[m - 1] \in Nat /\ d(m) \in 0..15
      BY <1>1, <1>3, <3>1
    <3>3. scan[m] = AddDigit(scan[m - 1], d(m), base)
      <4>1. d(m) \in Nat
        BY <3>2
      <4> QED
        BY <1>10, <1>13, <3>1, <3>2, <4>1
    <3>4. v[m] = v[m - 1] * base + d(m)
      BY <1>3, <3>1
    <3> HIDE DEF Wrong
    <3> QED
      BY <2>4, <3>2, <3>3, <3>4, HoldingNext
  <2> QED
    BY <2>4, <2>5, <2>6
<1>15. scan[N] \in Words /\ Holding(scan[N], v[N]) /\ v[N] \in Nat
  <2>1. N \in 0..N /\ N \notin Wrong
    BY <1>14
  <2> QED
    BY <1>3, <2>1
<1>16. scan[N].low = v[N] % Word /\ ((scan[N].overflow \/ scan[N].high # 0) <=> v[N] >= Word)
  BY <1>15, HoldingMeans
<1>17. (scan[N].overflow \/ scan[N].high # 0) = (v[N] >= Word)
  BY <1>16
<1> QED
  BY <1>2, <1>4, <1>16, <1>17 DEF v

-----------------------------------------------------------------------------
(* The values of the tokens.                                               *)

\* The parts of ExactValue, for any text.
Hex(x, t) == t.to - t.from > 1 /\ x[t.from + 1] = "x"
BaseOf(x, t) == IF Hex(x, t) THEN 16 ELSE IF x[t.from] = "0" THEN 8 ELSE 10
FirstOf(x, t) == IF Hex(x, t) THEN t.from + 2 ELSE t.from
DigitsOf(x, t) == {i \in FirstOf(x, t)..t.to - 1 : x[i] \in DOMAIN DigitValue}
Exactly(x, t) == 
  DigitPrefixes(x, FirstOf(x, t), Cardinality(DigitsOf(x, t)), BaseOf(x, t))[Cardinality(DigitsOf(x, t))]

LEMMA ExactValueIs == ASSUME NEW t PROVE ExactValue(t) = Exactly(text, t)
BY DEF ExactValue, Exactly, DigitsOf, FirstOf, BaseOf, Hex, DigitPrefixes

Valued(x, t) == t.kind \in Integral =>
  t.val = [value |-> Exactly(x, t) % Word, tooBig |-> Exactly(x, t) >= Word]
AllValued(x, s) == \A i \in DOMAIN s : Valued(x, s[i])
Values == AllValued(text, tokens) /\ AllValued(text, peek.tokens)

\* A token of digits and suffixes has the value of its digits.
LEMMA DigitsValued ==
  ASSUME IsText, NEW t, NEW start \in Positions, NEW i \in start..Len(text) + 1, t.to \in i..Len(text) + 1,
         \A k \in start..i - 1 : Ch(k) \in DOMAIN DigitValue,
         \A k \in i..t.to - 1 : Ch(k) \in {"u", "L"},
         FirstOf(text, t) = start, BaseOf(text, t) \in {8, 10, 16},
         t.val = IntValue(SubSeq(text, start, i - 1), BaseOf(text, t))
  PROVE  Valued(text, t)
<1> DEFINE N == i - start
           ds == SubSeq(text, start, i - 1)
<1>1. start \in Nat /\ start >= 1 /\ N \in Nat /\ Len(text) \in Nat /\ i \in Nat /\ t.to \in Nat
  BY DEF Positions, IsText
<1>2. \A k \in start..t.to - 1 : k \in 1..Len(text) /\ Ch(k) = text[k]
  BY <1>1, ChIs
<1>3. DigitsOf(text, t) = start..i - 1
  <2>1. {"u", "L"} \cap DOMAIN DigitValue = {}
    BY DEF DigitValue
  <2>2. ASSUME NEW k \in start..t.to - 1 PROVE text[k] \in DOMAIN DigitValue <=> k \in start..i - 1
    <3>1. CASE k \in start..i - 1
      BY <1>2, <3>1
    <3>2. CASE k \in i..t.to - 1
      BY <1>1, <1>2, <2>1, <3>2
    <3> QED
      BY <1>1, <3>1, <3>2
  <2>3. start..i - 1 \subseteq start..t.to - 1
    BY <1>1
  <2> QED
    BY <2>2, <2>3 DEF DigitsOf
<1>4. Cardinality(DigitsOf(text, t)) = N
  <2>1. Cardinality(start..i - 1) = IF start > i - 1 THEN 0 ELSE (i - 1) - start + 1
    BY <1>1, FS_Interval
  <2> QED
    BY <1>1, <1>3, <2>1
<1>5. Len(ds) = N /\ \A n \in 1..N : ds[n] = text[start + n - 1]
  <2>1. text \in Seq(Characters) /\ start \in 1..Len(text) + 1 /\ i - 1 \in start - 1..Len(text)
    BY <1>1 DEF IsText
  <2>2. Len(ds) = IF start <= i - 1 THEN (i - 1) - start + 1 ELSE 0
    BY <1>1, <2>1
  <2>3. \A n \in 1..(i - 1) - start + 1 : ds[n] = text[start + n - 1]
    BY <1>1, <2>1
  <2> QED
    BY <1>1, <2>2, <2>3
<1>6. \A n \in 1..N : ds[n] = text[start + n - 1] /\ ds[n] \in DOMAIN DigitValue
  <2>1. SUFFICES ASSUME NEW n \in 1..N PROVE ds[n] = text[start + n - 1] /\ ds[n] \in DOMAIN DigitValue
    OBVIOUS
  <2>2. start + n - 1 \in start..i - 1 /\ start + n - 1 \in start..t.to - 1
    BY <1>1
  <2> QED
    BY <1>2, <1>5, <2>2
<1> HIDE DEF N, ds
<1>7. IntValue(ds, BaseOf(text, t)) =
        [value |-> DigitPrefixes(text, start, N, BaseOf(text, t))[N] % Word,
         tooBig |-> DigitPrefixes(text, start, N, BaseOf(text, t))[N] >= Word]
  <2>1. Spells(ds, text, start, N)
    BY <1>5, <1>6 DEF Spells
  <2> QED
    BY <1>1, <2>1, IntValueIs
<1>8. Exactly(text, t) = DigitPrefixes(text, start, N, BaseOf(text, t))[N]
  BY <1>4 DEF Exactly
<1> QED
  BY <1>7, <1>8 DEF Valued, ds

LEMMA AfterIs ==
  ASSUME IsText, NEW a \in Positions, NEW c, c # EOF
  PROVE  /\ After(a, {c}) \in a..Len(text) + 1
         /\ \A k \in a..After(a, {c}) - 1 : Ch(k) = c
<1>1. a \in Nat /\ Len(text) \in Nat /\ a >= 1
  BY DEF Positions, IsText
<1>2. Ch(a) = c => a \in 1..Len(text)
  BY <1>1, ChIs
<1> QED
  BY <1>1, <1>2 DEF After, Positions

\* What IntLiteral appends.
LEMMA IntLiteralValued ==
  ASSUME IsText, cursor \in Positions, NEW start \in Positions, cursor <= start,
         NEW i \in start..Len(text) + 1, NEW base \in {8, 10, 16},
         \A k \in start..i - 1 : Ch(k) \in DOMAIN DigitValue,
         \A t : t.from = cursor /\ t.to \in i..Len(text) + 1 /\ (\A k \in i..t.to - 1 : Ch(k) \in {"u", "L"})
                => FirstOf(text, t) = start /\ BaseOf(text, t) = base,
         IntLiteral(start, i, base)
  PROVE  \E t : tokens' = Append(tokens, t) /\ Valued(text, t)
<1> DEFINE u == After(i, {"u"})
           l == After(u, {"L"})
           ll == IF l > u THEN After(l, {"L"}) ELSE l
           kind == SuffixKind(u > i, l > u, ll > l)
           val == IntValue(SubSeq(text, start, i - 1), base)
           t == [kind |-> kind, from |-> cursor, to |-> ll, line |-> line, val |-> val]
<1>1. TokenOf(kind, Start, ll, val)
  BY DEF IntLiteral
<1>2. tokens' = Append(tokens, t)
  BY <1>1, TokenTo DEF Start
<1>3. Len(text) \in Nat /\ i \in Positions /\ start \in Nat /\ start >= 1 /\ i \in Nat
  BY DEF IsText, Positions
<1>4. "u" # EOF /\ "L" # EOF
  BY DEF EOF
<1>5. u \in i..Len(text) + 1 /\ \A k \in i..u - 1 : Ch(k) = "u"
  BY <1>3, <1>4, AfterIs
<1> HIDE DEF u
<1>6. u \in Positions /\ u \in Nat
  BY <1>3, <1>5 DEF Positions
<1>7. l \in u..Len(text) + 1 /\ \A k \in u..l - 1 : Ch(k) = "L"
  BY <1>3, <1>4, <1>6, AfterIs
<1> HIDE DEF l
<1>8. l \in Positions /\ l \in Nat
  BY <1>3, <1>6, <1>7 DEF Positions
<1>9. ll \in l..Len(text) + 1 /\ \A k \in l..ll - 1 : Ch(k) = "L"
  <2>1. /\ After(l, {"L"}) \in l..Len(text) + 1
        /\ \A k \in l..After(l, {"L"}) - 1 : Ch(k) = "L"
    BY <1>4, <1>8, AfterIs
  <2>2. l \in l..Len(text) + 1 /\ \A k \in l..l - 1 : Ch(k) = "L"
    BY <1>3, <1>8, <1>7
  <2> QED
    BY <2>1, <2>2, Zenon
<1> HIDE DEF ll
<1>10. ll \in i..Len(text) + 1 /\ \A k \in i..ll - 1 : Ch(k) \in {"u", "L"}
  BY <1>3, <1>5, <1>6, <1>7, <1>8, <1>9
<1>11. t.from = cursor /\ t.to = ll /\ t.val = val
  OBVIOUS
<1> HIDE DEF t, kind
<1>12. FirstOf(text, t) = start /\ BaseOf(text, t) = base
  BY <1>10, <1>11
<1>13. Valued(text, t)
  BY <1>10, <1>11, <1>12, DigitsValued
<1> QED
  BY <1>2, <1>13

\* Other tokens are not integer constants.
LEMMA OtherValued ==
  ASSUME NEW kind, NEW start, NEW to, Token(kind, start, to), kind \notin Integral
  PROVE  \E t : tokens' = Append(tokens, t) /\ Valued(text, t)
<1> DEFINE t == [kind |-> kind, from |-> start.at, to |-> to, line |-> start.line, val |-> NoValue]
<1>1. tokens' = Append(tokens, t)
  BY TokenTo DEF Token
<1>2. Valued(text, t)
  BY DEF Valued
<1> QED
  BY <1>1, <1>2

LEMMA HexadecimalValued ==
  ASSUME Bounds, ScanHexadecimal
  PROVE  \E t : tokens' = Append(tokens, t) /\ Valued(text, t)
<1> DEFINE h == While(cursor + 2, HexDigits)
           start == cursor + 2
<1>1. /\ mode = "scan" /\ IsText /\ cursor \in Positions
      /\ Ch(cursor) = "0" /\ Ch(cursor + 1) = "x"
      /\ IF h = cursor + 2 THEN Token("TK_INTCONST", Start, h) ELSE IntLiteral(cursor + 2, h, 16)
  BY DEF ScanHexadecimal, Hexadecimal, Bounds
<1>2. cursor \in Nat /\ cursor >= 1 /\ Len(text) \in Nat
  BY <1>1 DEF Positions, IsText
<1>3. /\ cursor + 1 \in 1..Len(text) /\ text[cursor + 1] = "x"
      /\ start \in Positions /\ cursor <= start
  BY <1>1, <1>2, ChIs DEF Positions, EOF
<1>4. EOF \notin HexDigits /\ HexDigits = DOMAIN DigitValue
  BY DEF EOF, HexDigits, Digits, OctDigits, DigitValue
<1>5. h \in start..Len(text) + 1 /\ \A k \in start..h - 1 : Ch(k) \in HexDigits
  BY <1>1, <1>3, <1>4, WhileIs
<1>6. ASSUME NEW t, t.from = cursor, t.to \in start..Len(text) + 1
      PROVE  FirstOf(text, t) = start /\ BaseOf(text, t) = 16
  <2>1. Hex(text, t)
    BY <1>2, <1>3, <1>6 DEF Hex
  <2> QED
    BY <1>6, <2>1 DEF FirstOf, BaseOf
<1>7. CASE h = cursor + 2
  <2> DEFINE t == [kind |-> "TK_INTCONST", from |-> cursor, to |-> cursor + 2, line |-> line, val |-> NoValue]
  <2>1. tokens' = Append(tokens, t)
    BY <1>1, <1>7, TokenTo DEF Token, Start
  <2>2. t.from = cursor /\ t.to = start /\ t.val = NoValue
    OBVIOUS
  <2> HIDE DEF t
  <2>3. FirstOf(text, t) = start /\ BaseOf(text, t) = 16
    BY <1>2, <1>3, <1>6, <2>2 DEF Positions
  <2>4. DigitsOf(text, t) = {}
    BY <1>2, <2>2, <2>3 DEF DigitsOf
  <2>5. Cardinality(DigitsOf(text, t)) = 0
    BY <2>4, FS_EmptySet
  <2>6. Digitwise(DigitPrefixes(text, start, 0, 16), text, start, 0, 16)
    <3>1. start \in Nat /\ 0 \in Nat /\ 16 \in Nat
      BY <1>2
    <3>2. \A n \in 1..0 : text[start + n - 1] \in DOMAIN DigitValue
      OBVIOUS
    <3> HIDE DEF start
    <3> QED
      BY <3>1, <3>2, PrefixesAre
  <2>7. Exactly(text, t) = 0
    BY <2>3, <2>5, <2>6 DEF Exactly, Digitwise
  <2>8. 0 % Word = 0 /\ (0 >= Word) = FALSE
    BY WordAssumption
  <2> HIDE DEF start
  <2>9. Valued(text, t)
    BY <2>2, <2>7, <2>8 DEF Valued, NoValue
  <2> QED
    BY <2>1, <2>9
<1>8. CASE h # cursor + 2
  <2>1. IntLiteral(start, h, 16)
    BY <1>1, <1>8
  <2>2. \A k \in start..h - 1 : Ch(k) \in DOMAIN DigitValue
    BY <1>4, <1>5
  <2>3. \A t : t.from = cursor /\ t.to \in h..Len(text) + 1 /\ (\A k \in h..t.to - 1 : Ch(k) \in {"u", "L"})
               => FirstOf(text, t) = start /\ BaseOf(text, t) = 16
    <3>1. SUFFICES ASSUME NEW t, t.from = cursor, t.to \in h..Len(text) + 1
                   PROVE  FirstOf(text, t) = start /\ BaseOf(text, t) = 16
      OBVIOUS
    <3>2. t.to \in start..Len(text) + 1
      <4> HIDE DEF h
      <4> QED
        BY <1>2, <1>5, <3>1
    <3> QED
      BY <1>6, <3>1, <3>2
  <2> HIDE DEF start, h
  <2> QED
    BY <1>1, <1>3, <1>5, <2>1, <2>2, <2>3, IntLiteralValued
<1> QED
  BY <1>7, <1>8

LEMMA NumericValued ==
  ASSUME Bounds, ScanNumericLiteral
  PROVE  \E t : tokens' = Append(tokens, t) /\ Valued(text, t)
<1> DEFINE class == IF Ch(cursor) = "0" THEN OctDigits ELSE Digits
           d == While(cursor, class)
           base == IF Ch(cursor) = "0" THEN 8 ELSE 10
<1>1. /\ mode = "scan" /\ IsText /\ cursor \in Positions /\ ~Hexadecimal
      /\ Ch(cursor) \in Digits \/ (Ch(cursor) = "." /\ Ch(cursor + 1) \in Digits)
      /\ IF Ch(d) \in {".", "e"} THEN FloatLiteral(d) ELSE IntLiteral(cursor, d, base)
  BY DEF ScanNumericLiteral, Bounds
<1>2. cursor \in Nat /\ cursor >= 1 /\ Len(text) \in Nat
  BY <1>1 DEF Positions, IsText
<1>3. EOF \notin class /\ class \subseteq DOMAIN DigitValue /\ "." \notin class /\ "x" \notin DOMAIN DigitValue
  BY DEF EOF, Digits, OctDigits, DigitValue
<1>4. Ch(cursor) \in Digits => Ch(cursor) \in class
  BY DEF Digits, OctDigits
<1> HIDE DEF class
<1>5. d \in cursor..Len(text) + 1 /\ (\A k \in cursor..d - 1 : Ch(k) \in class) /\ Ch(d) \notin class
  BY <1>1, <1>3, WhileIs
<1> HIDE DEF d
<1>6. CASE Ch(d) \in {".", "e"}
  <2> DEFINE f == IF Ch(d) = "." THEN While(d + 1, Digits) ELSE d
             e == IF Ch(f) = "e" THEN While(After(f + 1, {"+", "-"}), Digits) ELSE f
  <2>1. Token(FloatKind(Ch(e)), Start, After(e, {"f", "L"}))
    BY <1>1, <1>6 DEF FloatLiteral
  <2> HIDE DEF e
  <2>2. FloatKind(Ch(e)) \notin Integral
    BY DEF FloatKind, Integral
  <2> QED
    BY <2>1, <2>2, OtherValued
<1>7. CASE Ch(d) \notin {".", "e"}
  <2>1. IntLiteral(cursor, d, base)
    BY <1>1, <1>7
  <2>2. d > cursor
    <3>1. d = cursor => Ch(cursor) \notin class /\ Ch(cursor) # "."
      BY <1>5, <1>7
    <3> QED
      BY <1>1, <1>2, <1>4, <1>5, <3>1
  <2>3. cursor \in 1..Len(text) /\ Ch(cursor) = text[cursor]
    <3>1. cursor \in 1..Len(text)
      BY <1>2, <1>5, <2>2
    <3> QED
      BY <1>1, <3>1, ChIs
  <2>4. \A k \in cursor..d - 1 : Ch(k) \in DOMAIN DigitValue
    BY <1>3, <1>5
  <2>5. \A t : t.from = cursor /\ t.to \in d..Len(text) + 1 /\ (\A k \in d..t.to - 1 : Ch(k) \in {"u", "L"})
               => FirstOf(text, t) = cursor /\ BaseOf(text, t) = base
    <3>1. SUFFICES ASSUME NEW t, t.from = cursor, t.to \in d..Len(text) + 1,
                          \A k \in d..t.to - 1 : Ch(k) \in {"u", "L"}
                   PROVE  FirstOf(text, t) = cursor /\ BaseOf(text, t) = base
      OBVIOUS
    <3>2. ~Hex(text, t)
      <4>1. SUFFICES ASSUME t.to - cursor > 1 PROVE text[cursor + 1] # "x"
        BY <3>1 DEF Hex
      <4>2. cursor + 1 \in 1..Len(text) /\ cursor + 1 \in cursor..t.to - 1
        BY <1>2, <1>5, <3>1, <4>1
      <4>3. Ch(cursor + 1) = text[cursor + 1]
        BY <1>1, <4>2, ChIs
      <4>4. cursor + 1 \in cursor..d - 1 \/ cursor + 1 \in d..t.to - 1
        BY <1>2, <1>5, <2>2, <4>2
      <4>5. Ch(cursor + 1) \in DOMAIN DigitValue \/ Ch(cursor + 1) \in {"u", "L"}
        BY <2>4, <3>1, <4>4
      <4> QED
        BY <1>3, <4>3, <4>5
    <3> QED
      BY <2>3, <3>1, <3>2 DEF FirstOf, BaseOf
  <2>6. base \in {8, 10, 16}
    OBVIOUS
  <2> HIDE DEF base
  <2> QED
    BY <1>1, <1>2, <1>5, <2>1, <2>4, <2>5, <2>6, IntLiteralValued
<1> QED
  BY <1>6, <1>7

\* A step returns no token or one with its value.
LEMMA StepValued ==
  ASSUME Bounds, NextToken \/ Skip \/ Scan
  PROVE  UNCHANGED tokens \/ \E t : tokens' = Append(tokens, t) /\ Valued(text, t)
<1>0. {"TK_END", "TK_ID", "TK_IF", "operator", "single", "literal"} \cap Integral = {}
  BY DEF Integral
<1>1. CASE NextToken
  BY <1>1 DEF NextToken
<1>2. CASE Skip
  BY <1>2 DEF Skip, SkipBlank, SkipNewline, SkipLineComment, SkipComment, SkipDirective, EndSkip
<1>3. CASE ScanBadChar \/ BeginLiteral \/ LiteralElement \/ EndString \/ JoinString
  BY <1>3 DEF ScanBadChar, BeginLiteral, LiteralElement, EndString, JoinString
<1>4. CASE ScanEOF \/ ScanIdentifier \/ ScanOperator \/ ScanSingle \/ UnclosedLiteral \/ EndChar \/ FinishString
  <2>1. \A kind, start, to : Token(kind, start, to) /\ kind \notin Integral =>
          \E t : tokens' = Append(tokens, t) /\ Valued(text, t)
    BY OtherValued
  <2>2. \E kind, start, to : Token(kind, start, to) /\ kind \notin Integral
    <3>1. CASE ScanEOF
      BY <1>0, <3>1 DEF ScanEOF
    <3>2. CASE ScanIdentifier
      BY <1>0, <3>2 DEF ScanIdentifier, FindKeyword
    <3>3. CASE ScanOperator
      BY <1>0, <3>3 DEF ScanOperator
    <3>4. CASE ScanSingle
      BY <1>0, <3>4 DEF ScanSingle
    <3>5. CASE UnclosedLiteral
      BY <1>0, <3>5 DEF UnclosedLiteral
    <3>6. CASE EndChar
      BY <1>0, <3>6 DEF EndChar
    <3>7. CASE FinishString
      BY <1>0, <3>7 DEF FinishString
    <3> QED
      BY <1>4, <3>1, <3>2, <3>3, <3>4, <3>5, <3>6, <3>7
  <2> QED
    BY <2>1, <2>2
<1>5. CASE ScanHexadecimal
  BY <1>5, HexadecimalValued
<1>6. CASE ScanNumericLiteral
  BY <1>6, NumericValued
<1> QED
  BY <1>1, <1>2, <1>3, <1>4, <1>5, <1>6 DEF Scan

LEMMA ValuesStep ==
  ASSUME Bounds, line \in Nat, Values, [LexNext]_lexVars
  PROVE  Values'
<1>1. CASE NextToken \/ Skip \/ Scan
  <2>1. UNCHANGED <<text, peek>> /\ IsSeq(tokens)
    BY <1>1, NextTokenSteps DEF Advances, Bounds
  <2>2. CASE UNCHANGED tokens
    BY <2>1, <2>2 DEF Values
  <2>3. CASE \E t : tokens' = Append(tokens, t) /\ Valued(text, t)
    <3>1. PICK t : tokens' = Append(tokens, t) /\ Valued(text, t)
      BY <2>3
    <3>2. AllValued(text, tokens')
      <4>1. SUFFICES ASSUME NEW i \in DOMAIN tokens' PROVE Valued(text, tokens'[i])
        BY DEF AllValued
      <4>2. Len(tokens) \in Nat /\ DOMAIN tokens = 1..Len(tokens)
        BY <2>1, SeqDomain
      <4>3. /\ DOMAIN tokens' = 1..Len(tokens) + 1
            /\ \A j \in 1..Len(tokens) : tokens'[j] = tokens[j]
            /\ tokens'[Len(tokens) + 1] = t
        BY <2>1, <3>1, AppendSeq
      <4>4. CASE i \in 1..Len(tokens)
        BY <4>2, <4>3, <4>4 DEF Values, AllValued
      <4>5. CASE i = Len(tokens) + 1
        BY <3>1, <4>3, <4>5
      <4> QED
        BY <4>2, <4>3, <4>4, <4>5
    <3> QED
      BY <2>1, <3>2 DEF Values
  <2> QED
    BY <1>1, <2>2, <2>3, StepValued
<1>2. CASE BeginPeek
  <2>1. /\ peek' = [cursor |-> cursor, tokens |-> tokens]
        /\ UNCHANGED <<text, tokens>>
    BY <1>2 DEF BeginPeek
  <2>2. peek'.tokens = tokens
    BY <2>1
  <2> QED
    BY <2>1, <2>2 DEF Values
<1>3. CASE EndPeek
  <2>1. peek' = NoPeek /\ UNCHANGED text /\ (UNCHANGED tokens \/ tokens' = peek.tokens)
    BY <1>3 DEF EndPeek
  <2>2. peek'.tokens = << >>
    BY <2>1 DEF NoPeek
  <2>3. AllValued(text, peek'.tokens)
    BY <2>2, EmptyIsSeq, SeqDomain DEF AllValued
  <2> QED
    BY <2>1, <2>3 DEF Values
<1>4. CASE UNCHANGED lexVars
  BY <1>4 DEF Values, lexVars
<1> QED
  BY <1>1, <1>2, <1>3, <1>4 DEF LexNext, LexStop

-----------------------------------------------------------------------------
(* Where nextToken goes: a function of the text and of where it is.        *)

\* The operators of Lexer, for any text.
ChIn(x, i) == IF i <= Len(x) THEN x[i] ELSE EOF
WhileIn(x, i, class) == Min({j \in i..Len(x) + 1 : ChIn(x, j) \notin class})
UntilIn(x, i, class) == Min({j \in i..Len(x) + 1 : ChIn(x, j) \in class \cup {EOF}})
AfterIn(x, i, class) == IF ChIn(x, i) \in class THEN i + 1 ELSE i
ClosesIn(x, j) == ChIn(x, j) = "*" /\ ChIn(x, j + 1) = "/"
StopsIn(x, c) == {j \in c + 3..Len(x) + 1 :
                    ClosesIn(x, j) \/ (ChIn(x, j) # "\n" /\ EOF \in {ChIn(x, j), ChIn(x, j + 1)})}
QuotedIn(x, i) ==
  ChIn(x, i) \in {"'", "\""} \/ (ChIn(x, i) = "L" /\ ChIn(x, i + 1) \in {"'", "\""})
HexadecimalIn(x, i) == ChIn(x, i) = "0" /\ ChIn(x, i + 1) = "x"
OperatorEndIn(x, i) ==
  CASE ChIn(x, i) = "." -> IF ChIn(x, i + 1) = "." /\ ChIn(x, i + 2) = "." THEN i + 3 ELSE i + 1
    [] ChIn(x, i) # "." /\ ChIn(x, i + 1) = "=" -> i + 2
    [] <<ChIn(x, i), ChIn(x, i + 1)>> \in Doubles ->
         IF ChIn(x, i) \in {"<", ">"} THEN AfterIn(x, i + 2, {"="}) ELSE i + 2
    [] OTHER -> i + 1
EscapeEndIn(x, i) ==
  CASE ChIn(x, i + 1) = "x" -> WhileIn(x, i + 2, HexDigits)
    [] ChIn(x, i + 1) \in OctDigits -> AfterIn(x, AfterIn(x, i + 2, OctDigits), OctDigits)
    [] OTHER -> i + 2

LEMMA ForText ==
  /\ \A i : Ch(i) = ChIn(text, i)
  /\ \A i, class : While(i, class) = WhileIn(text, i, class)
  /\ \A i, class : Until(i, class) = UntilIn(text, i, class)
  /\ \A i, class : After(i, class) = AfterIn(text, i, class)
  /\ \A i : Closes(i) = ClosesIn(text, i)
  /\ \A i : OperatorEnd(i) = OperatorEndIn(text, i)
  /\ \A i : EscapeEnd(i) = EscapeEndIn(text, i)
  /\ Quoted = QuotedIn(text, cursor)
  /\ Hexadecimal = HexadecimalIn(text, cursor)
<1>1. \A i : Ch(i) = ChIn(text, i)
  BY DEF Ch, ChIn
<1>2. \A i, class : While(i, class) = WhileIn(text, i, class)
  BY DEF While, WhileIn, Ch, ChIn
<1>3. \A i, class : Until(i, class) = UntilIn(text, i, class)
  BY DEF Until, UntilIn, Ch, ChIn
<1>4. \A i, class : After(i, class) = AfterIn(text, i, class)
  BY DEF After, AfterIn, Ch, ChIn
<1>5. \A i : Closes(i) = ClosesIn(text, i)
  BY DEF Closes, ClosesIn, Ch, ChIn
<1>6. \A i : OperatorEnd(i) = OperatorEndIn(text, i)
  BY DEF OperatorEnd, OperatorEndIn, Ch, ChIn, After, AfterIn
<1>7. \A i : EscapeEnd(i) = EscapeEndIn(text, i)
  BY DEF EscapeEnd, EscapeEndIn, Ch, ChIn, After, AfterIn, While, WhileIn
<1>8. Quoted = QuotedIn(text, cursor)
  BY DEF Quoted, QuotedIn, Ch, ChIn
<1>9. Hexadecimal = HexadecimalIn(text, cursor)
  BY DEF Hexadecimal, HexadecimalIn, Ch, ChIn
<1> QED
  BY <1>1, <1>2, <1>3, <1>4, <1>5, <1>6, <1>7, <1>8, <1>9

\* A place in nextToken, and what comes of a step from it: another place, or a
\* token (its line left out) and the place behind it.
SpotAt(at, m, f) == [at |-> at, mode |-> m, from |-> IF m \in Inside THEN f ELSE 0]
Spot == SpotAt(cursor, mode, from.at)
Goes(x, i, m, f) ==
  [gives |-> FALSE, token |-> NoToken, spot |-> SpotAt(i, IF i <= Len(x) + 1 THEN m ELSE "overrun", f)]
Gives(kind, f, to, val) ==
  [gives |-> TRUE, spot |-> SpotAt(to, "idle", 0),
   token |-> [kind |-> kind, from |-> f, to |-> to, line |-> 0, val |-> val]]

Leaves(m) == IF m = "skip" THEN "scan" ELSE "joined"

CommentEnd(x, s) ==
  IF StopsIn(x, s.at) = {} THEN Goes(x, s.at + 3, s.mode, s.from)
  ELSE IF ClosesIn(x, Min(StopsIn(x, s.at))) THEN Goes(x, Min(StopsIn(x, s.at)) + 2, s.mode, s.from)
       ELSE Goes(x, Min(StopsIn(x, s.at)), Leaves(s.mode), s.from)

DirectiveEnd(x, s) ==
  LET word == WhileIn(x, s.at + 1, Blanks)
      number == IF ChIn(x, word) = "line" THEN WhileIn(x, word + 1, Blanks) ELSE word
      quote == WhileIn(x, WhileIn(x, number, Digits), Blanks)
      name == IF ChIn(x, word) \in Digits \cup {"line"} THEN quote + 1 ELSE word
  IN Goes(x, IF name <= Len(x) + 1 THEN UntilIn(x, name, {"\n"}) ELSE name, s.mode, s.from)

SkipOutcome(x, s) ==
  IF ChIn(x, s.at) \in Blanks \cup {"\n"} THEN Goes(x, s.at + 1, s.mode, s.from)
  ELSE IF ChIn(x, s.at) = "/" /\ ChIn(x, s.at + 1) = "/"
       THEN Goes(x, UntilIn(x, s.at + 2, {"\n"}), s.mode, s.from)
  ELSE IF ChIn(x, s.at) = "/" /\ ChIn(x, s.at + 1) = "*" THEN CommentEnd(x, s)
  ELSE IF ChIn(x, s.at) = "#" THEN DirectiveEnd(x, s)
  ELSE Goes(x, s.at, Leaves(s.mode), s.from)

GivesInt(x, c, start, i, base) ==
  LET u == AfterIn(x, i, {"u"})
      l == AfterIn(x, u, {"L"})
      ll == IF l > u THEN AfterIn(x, l, {"L"}) ELSE l
  IN Gives(SuffixKind(u > i, l > u, ll > l), c, ll, IntValue(SubSeq(x, start, i - 1), base))

GivesFloat(x, c, i) ==
  LET f == IF ChIn(x, i) = "." THEN WhileIn(x, i + 1, Digits) ELSE i
      e == IF ChIn(x, f) = "e" THEN WhileIn(x, AfterIn(x, f + 1, {"+", "-"}), Digits) ELSE f
  IN Gives(FloatKind(ChIn(x, e)), c, AfterIn(x, e, {"f", "L"}), NoValue)

GivesHexadecimal(x, c) ==
  LET h == WhileIn(x, c + 2, HexDigits)
  IN IF h = c + 2 THEN Gives("TK_INTCONST", c, h, NoValue) ELSE GivesInt(x, c, c + 2, h, 16)

GivesNumber(x, c) ==
  LET octal == ChIn(x, c) = "0"
      d == WhileIn(x, c, IF octal THEN OctDigits ELSE Digits)
  IN IF ChIn(x, d) \in {".", "e"} THEN GivesFloat(x, c, d)
     ELSE GivesInt(x, c, c, d, IF octal THEN 8 ELSE 10)

GivesName(x, c) ==
  LET to == WhileIn(x, c + 1, Letters \cup Digits)
  IN Gives(IF SubSeq(x, c, to - 1) = <<"if">> THEN "TK_IF" ELSE "TK_ID", c, to, NoValue)

OpensLiteral(x, c) ==
  LET quote == AfterIn(x, c, {"L"})
  IN Goes(x, quote + 1, IF ChIn(x, quote) = "'" THEN "char" ELSE "string", c)

ScanOutcome(x, c) ==
  IF ChIn(x, c) = EOF THEN Gives("TK_END", c, c, NoValue)
  ELSE IF QuotedIn(x, c) THEN OpensLiteral(x, c)
  ELSE IF ChIn(x, c) \in Letters THEN GivesName(x, c)
  ELSE IF HexadecimalIn(x, c) THEN GivesHexadecimal(x, c)
  ELSE IF ChIn(x, c) \in Digits \/ (ChIn(x, c) = "." /\ ChIn(x, c + 1) \in Digits) THEN GivesNumber(x, c)
  ELSE IF ChIn(x, c) \in Operators THEN Gives("operator", c, OperatorEndIn(x, c), NoValue)
  ELSE IF ChIn(x, c) \in Singles THEN Gives("single", c, c + 1, NoValue)
  ELSE Goes(x, c, "skip", 0)

LiteralOutcome(x, s) ==
  IF ChIn(x, s.at) \in {"\n", EOF} THEN Gives("literal", s.from, s.at, NoValue)
  ELSE IF s.mode = "char" /\ ChIn(x, s.at) = "'" THEN Gives("literal", s.from, s.at + 1, NoValue)
  ELSE IF s.mode = "string" /\ ChIn(x, s.at) = "\"" THEN Goes(x, s.at + 1, "join", s.from)
  ELSE Goes(x, IF ChIn(x, s.at) = "\\" THEN EscapeEndIn(x, s.at) ELSE s.at + 1, s.mode, s.from)

JoinOutcome(x, s) ==
  LET quote == AfterIn(x, s.at, {"L"})
  IN IF ChIn(x, quote) = "\"" THEN Goes(x, quote + 1, "string", s.from)
     ELSE Gives("literal", s.from, s.at, NoValue)

Outcome(x, s) ==
  CASE s.mode = "idle" -> Goes(x, s.at, "skip", 0)
    [] s.mode \in {"skip", "join"} -> SkipOutcome(x, s)
    [] s.mode = "scan" -> ScanOutcome(x, s.at)
    [] s.mode \in {"char", "string"} -> LiteralOutcome(x, s)
    [] s.mode = "joined" -> JoinOutcome(x, s)
    [] OTHER -> Goes(x, s.at, "overrun", 0)

\* A token without its line.
Plain(t) == [t EXCEPT !.line = 0]

\* A step has an outcome.
Went(o) ==
  ~o.gives /\ Spot' = o.spot /\ UNCHANGED <<text, tokens, peek, again>>
Gave(o) ==
  /\ o.gives /\ mode' = "idle" /\ again' = NoToken /\ UNCHANGED <<text, peek>>
  /\ \E t : tokens' = Append(tokens, t) /\ Plain(t) = o.token
Had(o) == Went(o) \/ Gave(o)

LEMMA MoveHas ==
  ASSUME NEW i, NEW m, NEW f, Move(i, m), UNCHANGED tokens, m \in Inside => from'.at = f
  PROVE  Had(Goes(text, i, m, f))
<1>1. cursor' = i /\ mode' = (IF i <= Len(text) + 1 THEN m ELSE "overrun") /\ UNCHANGED <<text, peek, again>>
  BY DEF Move, Mapped
<1>2. Spot' = SpotAt(cursor', mode', from'.at)
  BY DEF Spot, SpotAt, Inside
<1>3. "overrun" \notin Inside
  BY DEF Inside
<1>4. SpotAt(cursor', mode', from'.at) = SpotAt(i, mode', f)
  BY <1>1, <1>3 DEF SpotAt
<1> QED
  BY <1>1, <1>2, <1>4 DEF Had, Went, Goes

LEMMA TokenHas ==
  ASSUME NEW kind, NEW start, NEW to, NEW val, TokenOf(kind, start, to, val)
  PROVE  Had(Gives(kind, start.at, to, val))
<1> DEFINE o == Gives(kind, start.at, to, val)
<1>1. /\ cursor' = to /\ mode' = "idle" /\ again' = NoToken /\ UNCHANGED <<text, peek>>
      /\ tokens' = Append(tokens, [kind |-> kind, from |-> start.at, to |-> to,
                                   line |-> start.line, val |-> val])
  BY DEF TokenOf
<1> DEFINE t == [kind |-> kind, from |-> start.at, to |-> to, line |-> start.line, val |-> val]
<1>2. Plain(t) = o.token /\ o.gives
  BY DEF Gives, Plain
<1> HIDE DEF o
<1> QED
  BY <1>1, <1>2 DEF o, Had, Gave

\* The classes of characters do not overlap.
LEMMA ClassesApart ==
  /\ Letters \cap (Digits \cup Blanks \cup Illegal \cup Singles \cup Operators \cup {"\n", "#", "'", "\"", EOF}) = {}
  /\ Digits \cap (Blanks \cup Illegal \cup Singles \cup Operators \cup {"\n", "#", "'", "\"", EOF}) = {}
  /\ Blanks \cap (Illegal \cup Singles \cup Operators \cup {"\n", "#", "'", "\"", EOF}) = {}
  /\ Illegal \cap (Singles \cup Operators \cup {"\n", "#", "'", "\"", EOF}) = {}
  /\ Singles \cap (Operators \cup {"\n", "#", "'", "\"", EOF}) = {}
  /\ Operators \cap {"\n", "#", "'", "\"", EOF} = {}
  /\ "/" \in Operators /\ "." \in Operators /\ "0" \in Digits /\ "L" \in Letters /\ EOF \notin {"\n", "#", "'", "\"", "=", "*"}
BY DEF Letters, Digits, OctDigits, Blanks, Illegal, Singles, Operators, EOF

LEMMA SpotIs ==
  /\ Spot.at = cursor /\ Spot.mode = mode
  /\ mode \in Inside => Spot.from = from.at
  /\ mode \notin Inside => Spot.from = 0
BY DEF Spot, SpotAt

LEMMA SkipHas ==
  ASSUME Skip PROVE Had(SkipOutcome(text, Spot))
<1>0. Skipping /\ UNCHANGED <<tokens, from>>
  BY DEF Skip, SkipBlank, SkipNewline, SkipLineComment, SkipComment, SkipDirective, EndSkip
<1>a. mode \in {"skip", "join"} /\ Spot.at = cursor /\ Spot.mode = mode /\ (mode = "join" => Spot.from = from.at)
  BY <1>0, SpotIs DEF Skipping, Inside
<1>b. "skip" \notin Inside /\ "scan" \notin Inside
  BY DEF Inside
<1> DEFINE Same(m) == m \in Inside => from'.at = Spot.from
<1>c. Same(mode) /\ Same(LeaveSkip) /\ LeaveSkip = Leaves(Spot.mode)
  BY <1>0, <1>a, <1>b DEF LeaveSkip, Leaves
<1>d. ASSUME NEW i, NEW m, Move(i, m), Same(m) PROVE Had(Goes(text, i, m, Spot.from))
  BY <1>0, <1>d, MoveHas
<1> HIDE DEF Same
<1>1. CASE SkipBlank \/ SkipNewline
  <2>1. Ch(cursor) \in Blanks \cup {"\n"} /\ Move(cursor + 1, mode)
    BY <1>1 DEF SkipBlank, SkipNewline
  <2>2. SkipOutcome(text, Spot) = Goes(text, cursor + 1, mode, Spot.from)
    BY <1>a, <2>1, ForText DEF SkipOutcome
  <2> QED
    BY <1>c, <1>d, <2>1, <2>2
<1>2. CASE SkipLineComment
  <2>1. Ch(cursor) = "/" /\ Ch(cursor + 1) = "/" /\ Move(Until(cursor + 2, {"\n"}), mode)
    BY <1>2 DEF SkipLineComment
  <2>2. Ch(cursor) \notin Blanks \cup {"\n"}
    BY <2>1, ClassesApart
  <2>3. SkipOutcome(text, Spot) = Goes(text, Until(cursor + 2, {"\n"}), mode, Spot.from)
    BY <1>a, <2>1, <2>2, ForText DEF SkipOutcome
  <2> QED
    BY <1>c, <1>d, <2>1, <2>3
<1>3. CASE SkipComment
  <2> DEFINE stops == {j \in cursor + 3..Len(text) + 1 :
                         Closes(j) \/ (Ch(j) # "\n" /\ EOF \in {Ch(j), Ch(j + 1)})}
  <2>1. /\ Ch(cursor) = "/" /\ Ch(cursor + 1) = "*"
        /\ stops = {} => Move(cursor + 3, mode)
        /\ stops # {} => IF Closes(Min(stops)) THEN Move(Min(stops) + 2, mode) ELSE Move(Min(stops), LeaveSkip)
    BY <1>3 DEF SkipComment
  <2>2. stops = StopsIn(text, cursor)
    BY DEF StopsIn, ClosesIn, Closes, Ch, ChIn
  <2> HIDE DEF stops
  <2>3. Ch(cursor) \notin Blanks \cup {"\n"}
    BY <2>1, ClassesApart
  <2>4. SkipOutcome(text, Spot) = CommentEnd(text, Spot)
    BY <1>a, <2>1, <2>3, ForText DEF SkipOutcome
  <2>5. CASE stops = {}
    <3>1. CommentEnd(text, Spot) = Goes(text, cursor + 3, mode, Spot.from)
      BY <1>a, <2>2, <2>5 DEF CommentEnd
    <3> QED
      BY <1>c, <1>d, <2>1, <2>4, <2>5, <3>1
  <2>6. CASE stops # {} /\ Closes(Min(stops))
    <3>1. CommentEnd(text, Spot) = Goes(text, Min(stops) + 2, mode, Spot.from)
      BY <1>a, <2>2, <2>6, ForText DEF CommentEnd
    <3> QED
      BY <1>c, <1>d, <2>1, <2>4, <2>6, <3>1
  <2>7. CASE stops # {} /\ ~Closes(Min(stops))
    <3>1. CommentEnd(text, Spot) = Goes(text, Min(stops), LeaveSkip, Spot.from)
      BY <1>a, <1>c, <2>2, <2>7, ForText DEF CommentEnd
    <3> QED
      BY <1>c, <1>d, <2>1, <2>4, <2>7, <3>1
  <2> QED
    BY <2>5, <2>6, <2>7
<1>4. CASE SkipDirective
  <2> DEFINE name == IF NamesLine(cursor) THEN QuoteAt(cursor) + 1 ELSE WordAt(cursor)
             to == IF Mapped(name) THEN Until(name, {"\n"}) ELSE name
  <2>1. Ch(cursor) = "#" /\ Move(to, mode)
    BY <1>4 DEF SkipDirective
  <2>2. DirectiveEnd(text, Spot) = Goes(text, to, mode, Spot.from)
    BY <1>a, ForText DEF DirectiveEnd, Mapped, NamesLine, WordAt, NumberAt, QuoteAt
  <2> HIDE DEF to
  <2>3. Ch(cursor) \notin Blanks \cup {"\n"} /\ Ch(cursor) # "/"
    BY <2>1, ClassesApart
  <2>4. SkipOutcome(text, Spot) = DirectiveEnd(text, Spot)
    BY <1>a, <2>1, <2>3, ForText DEF SkipOutcome
  <2> QED
    BY <1>c, <1>d, <2>1, <2>2, <2>4
<1>5. CASE EndSkip
  <2>1. ~SpaceHere /\ Move(cursor, LeaveSkip)
    BY <1>5 DEF EndSkip
  <2>2. SkipOutcome(text, Spot) = Goes(text, cursor, LeaveSkip, Spot.from)
    BY <1>a, <1>c, <2>1, ForText DEF SkipOutcome, SpaceHere
  <2> QED
    BY <1>c, <1>d, <2>1, <2>2
<1> QED
  BY <1>1, <1>2, <1>3, <1>4, <1>5 DEF Skip

LEMMA IntHas ==
  ASSUME NEW start, NEW i, NEW base, IntLiteral(start, i, base)
  PROVE  Had(GivesInt(text, cursor, start, i, base))
<1> DEFINE u == After(i, {"u"})
           l == After(u, {"L"})
           ll == IF l > u THEN After(l, {"L"}) ELSE l
<1>1. TokenOf(SuffixKind(u > i, l > u, ll > l), Start, ll, IntValue(SubSeq(text, start, i - 1), base))
  BY DEF IntLiteral
<1>2. GivesInt(text, cursor, start, i, base) =
        Gives(SuffixKind(u > i, l > u, ll > l), cursor, ll, IntValue(SubSeq(text, start, i - 1), base))
  BY ForText DEF GivesInt
<1>3. Start.at = cursor
  BY DEF Start
<1> HIDE DEF u, l, ll
<1> QED
  BY <1>1, <1>2, <1>3, TokenHas

LEMMA FloatHas ==
  ASSUME NEW i, FloatLiteral(i)
  PROVE  Had(GivesFloat(text, cursor, i))
<1> DEFINE f == IF Ch(i) = "." THEN While(i + 1, Digits) ELSE i
           e == IF Ch(f) = "e" THEN While(After(f + 1, {"+", "-"}), Digits) ELSE f
<1>1. Token(FloatKind(Ch(e)), Start, After(e, {"f", "L"}))
  BY DEF FloatLiteral
<1>2. GivesFloat(text, cursor, i) = Gives(FloatKind(Ch(e)), cursor, After(e, {"f", "L"}), NoValue)
  BY ForText DEF GivesFloat
<1>3. Start.at = cursor
  BY DEF Start
<1> HIDE DEF e, f
<1> QED
  BY <1>1, <1>2, <1>3, TokenHas DEF Token

LEMMA ScanHas ==
  ASSUME mode = "scan", Scan PROVE Had(ScanOutcome(text, cursor))
<1>0. Start.at = cursor
  BY DEF Start
<1>a. \A kind, to : Token(kind, Start, to) => Had(Gives(kind, cursor, to, NoValue))
  BY <1>0, TokenHas DEF Token
<1>b. Quoted => Ch(cursor) \in {"'", "\"", "L"}
  BY DEF Quoted
<1>c. Hexadecimal => Ch(cursor) \in Digits
  BY ClassesApart DEF Hexadecimal
<1>1. CASE ScanEOF
  <2>1. Ch(cursor) = EOF /\ Token("TK_END", Start, cursor)
    BY <1>1 DEF ScanEOF
  <2>2. ScanOutcome(text, cursor) = Gives("TK_END", cursor, cursor, NoValue)
    BY <2>1, ForText DEF ScanOutcome
  <2> QED
    BY <1>a, <2>1, <2>2
<1>2. CASE ScanIdentifier
  <2> DEFINE to == While(cursor + 1, Letters \cup Digits)
  <2>1. Ch(cursor) \in Letters /\ ~Quoted /\ Token(FindKeyword(cursor, to), Start, to)
    BY <1>2 DEF ScanIdentifier
  <2>2. Ch(cursor) # EOF
    BY <2>1, ClassesApart
  <2>3. ScanOutcome(text, cursor) = GivesName(text, cursor)
    BY <2>1, <2>2, ForText DEF ScanOutcome
  <2>4. GivesName(text, cursor) = Gives(FindKeyword(cursor, to), cursor, to, NoValue)
    BY ForText DEF GivesName, FindKeyword
  <2> HIDE DEF to
  <2> QED
    BY <1>a, <2>1, <2>3, <2>4
<1>3. CASE ScanHexadecimal
  <2> DEFINE h == While(cursor + 2, HexDigits)
  <2>1. Hexadecimal /\ IF h = cursor + 2 THEN Token("TK_INTCONST", Start, h) ELSE IntLiteral(cursor + 2, h, 16)
    BY <1>3 DEF ScanHexadecimal
  <2>2. Ch(cursor) # EOF /\ ~Quoted /\ Ch(cursor) \notin Letters
    BY <1>b, <1>c, <2>1, ClassesApart
  <2>3. ScanOutcome(text, cursor) = GivesHexadecimal(text, cursor)
    BY <2>1, <2>2, ForText DEF ScanOutcome
  <2>4. GivesHexadecimal(text, cursor) =
          IF h = cursor + 2 THEN Gives("TK_INTCONST", cursor, h, NoValue)
          ELSE GivesInt(text, cursor, cursor + 2, h, 16)
    BY ForText DEF GivesHexadecimal
  <2> HIDE DEF h
  <2> QED
    BY <1>a, <2>1, <2>3, <2>4, IntHas
<1>4. CASE ScanNumericLiteral
  <2> DEFINE octal == Ch(cursor) = "0"
             d == While(cursor, IF octal THEN OctDigits ELSE Digits)
  <2>1. /\ ~Hexadecimal
        /\ Ch(cursor) \in Digits \/ (Ch(cursor) = "." /\ Ch(cursor + 1) \in Digits)
        /\ IF Ch(d) \in {".", "e"} THEN FloatLiteral(d) ELSE IntLiteral(cursor, d, IF octal THEN 8 ELSE 10)
    BY <1>4 DEF ScanNumericLiteral
  <2>2. Ch(cursor) # EOF /\ ~Quoted /\ Ch(cursor) \notin Letters
    BY <1>b, <2>1, ClassesApart
  <2>3. ScanOutcome(text, cursor) = GivesNumber(text, cursor)
    BY <2>1, <2>2, ForText DEF ScanOutcome
  <2>4. GivesNumber(text, cursor) =
          IF Ch(d) \in {".", "e"} THEN GivesFloat(text, cursor, d)
          ELSE GivesInt(text, cursor, cursor, d, IF octal THEN 8 ELSE 10)
    BY ForText DEF GivesNumber
  <2> HIDE DEF d, octal
  <2> QED
    BY <2>1, <2>3, <2>4, IntHas, FloatHas
<1>5. CASE ScanOperator
  <2>1. /\ Ch(cursor) \in Operators /\ ~(Ch(cursor) = "." /\ Ch(cursor + 1) \in Digits)
        /\ Token("operator", Start, OperatorEnd(cursor))
    BY <1>5 DEF ScanOperator
  <2>2. Ch(cursor) # EOF /\ ~Quoted /\ Ch(cursor) \notin Letters /\ Ch(cursor) \notin Digits /\ ~Hexadecimal
    BY <1>b, <1>c, <2>1, ClassesApart
  <2>3. ScanOutcome(text, cursor) = Gives("operator", cursor, OperatorEnd(cursor), NoValue)
    BY <2>1, <2>2, ForText DEF ScanOutcome
  <2> QED
    BY <1>a, <2>1, <2>3
<1>6. CASE ScanSingle
  <2>1. Ch(cursor) \in Singles /\ Token("single", Start, cursor + 1)
    BY <1>6 DEF ScanSingle
  <2>2. /\ Ch(cursor) # EOF /\ ~Quoted /\ Ch(cursor) \notin Letters /\ Ch(cursor) \notin Digits /\ ~Hexadecimal
        /\ Ch(cursor) \notin Operators /\ Ch(cursor) # "."
    BY <1>b, <1>c, <2>1, ClassesApart
  <2>3. ScanOutcome(text, cursor) = Gives("single", cursor, cursor + 1, NoValue)
    BY <2>1, <2>2, ForText DEF ScanOutcome
  <2> QED
    BY <1>a, <2>1, <2>3
<1>7. CASE ScanBadChar
  <2>1. Ch(cursor) \in Illegal /\ Move(cursor, "skip") /\ UNCHANGED tokens
    BY <1>7 DEF ScanBadChar
  <2>2. /\ Ch(cursor) # EOF /\ ~Quoted /\ Ch(cursor) \notin Letters /\ Ch(cursor) \notin Digits /\ ~Hexadecimal
        /\ Ch(cursor) \notin Operators /\ Ch(cursor) # "." /\ Ch(cursor) \notin Singles
    BY <1>b, <1>c, <2>1, ClassesApart
  <2>3. ScanOutcome(text, cursor) = Goes(text, cursor, "skip", 0)
    BY <2>1, <2>2, ForText DEF ScanOutcome
  <2>4. "skip" \notin Inside
    BY DEF Inside
  <2> QED
    BY <2>1, <2>3, <2>4, MoveHas
<1>8. CASE BeginLiteral
  <2> DEFINE quote == After(cursor, {"L"})
             m == IF Ch(quote) = "'" THEN "char" ELSE "string"
  <2>1. Quoted /\ Move(quote + 1, m) /\ from' = Start /\ UNCHANGED tokens
    BY <1>8 DEF BeginLiteral
  <2>2. Ch(cursor) # EOF
    BY <1>b, <2>1, ClassesApart DEF EOF
  <2>3. ScanOutcome(text, cursor) = OpensLiteral(text, cursor)
    BY <2>1, <2>2, ForText DEF ScanOutcome
  <2>4. OpensLiteral(text, cursor) = Goes(text, quote + 1, m, cursor)
    BY ForText DEF OpensLiteral
  <2>5. from'.at = cursor
    BY <1>0, <2>1
  <2> HIDE DEF quote, m
  <2> QED
    BY <2>1, <2>3, <2>4, <2>5, MoveHas
<1>9. ~(LiteralElement \/ UnclosedLiteral \/ EndChar \/ EndString \/ JoinString \/ FinishString)
  BY DEF LiteralElement, UnclosedLiteral, EndChar, EndString, JoinString, FinishString, InLiteral
<1> QED
  BY <1>1, <1>2, <1>3, <1>4, <1>5, <1>6, <1>7, <1>8, <1>9 DEF Scan

LEMMA LiteralHas ==
  ASSUME mode \in {"char", "string"}, Scan PROVE Had(LiteralOutcome(text, Spot))
<1>0. /\ Spot.at = cursor /\ Spot.mode = mode /\ Spot.from = from.at
  BY SpotIs DEF Inside
<1>a. Ch(cursor) \in {"\n", EOF} => Ch(cursor) \notin {"'", "\"", "\\"}
  BY DEF EOF
<1>b. Quote = IF mode = "char" THEN "'" ELSE "\""
  BY DEF Quote
<1>1. CASE LiteralElement
  <2>1. Ch(cursor) \notin {Quote, "\n", EOF} /\ Move(ElementEnd(cursor), mode) /\ UNCHANGED <<tokens, from>>
    BY <1>1 DEF LiteralElement
  <2>2. LiteralOutcome(text, Spot) = Goes(text, ElementEnd(cursor), mode, from.at)
    BY <1>0, <1>b, <2>1, ForText DEF LiteralOutcome, ElementEnd
  <2> QED
    BY <2>1, <2>2, MoveHas
<1>2. CASE UnclosedLiteral
  <2>1. Ch(cursor) \in {"\n", EOF} /\ Token("literal", from, cursor)
    BY <1>2 DEF UnclosedLiteral
  <2>2. LiteralOutcome(text, Spot) = Gives("literal", from.at, cursor, NoValue)
    BY <1>0, <2>1, ForText DEF LiteralOutcome
  <2> QED
    BY <2>1, <2>2, TokenHas DEF Token
<1>3. CASE EndChar
  <2>1. mode = "char" /\ Ch(cursor) = "'" /\ Token("literal", from, cursor + 1)
    BY <1>3 DEF EndChar
  <2>2. LiteralOutcome(text, Spot) = Gives("literal", from.at, cursor + 1, NoValue)
    BY <1>0, <1>a, <2>1, ForText DEF LiteralOutcome
  <2> QED
    BY <2>1, <2>2, TokenHas DEF Token
<1>4. CASE EndString
  <2>1. mode = "string" /\ Ch(cursor) = "\"" /\ Move(cursor + 1, "join") /\ UNCHANGED <<tokens, from>>
    BY <1>4 DEF EndString
  <2>2. LiteralOutcome(text, Spot) = Goes(text, cursor + 1, "join", from.at)
    BY <1>0, <1>a, <2>1, ForText DEF LiteralOutcome
  <2> QED
    BY <2>1, <2>2, MoveHas
<1>5. ~(ScanEOF \/ ScanIdentifier \/ ScanHexadecimal \/ ScanNumericLiteral \/ ScanOperator \/ ScanSingle
        \/ ScanBadChar \/ BeginLiteral \/ JoinString \/ FinishString)
  BY DEF ScanEOF, ScanIdentifier, ScanHexadecimal, ScanNumericLiteral, ScanOperator, ScanSingle, ScanBadChar,
     BeginLiteral, JoinString, FinishString
<1> QED
  BY <1>1, <1>2, <1>3, <1>4, <1>5 DEF Scan

LEMMA JoinHas ==
  ASSUME mode = "joined", Scan PROVE Had(JoinOutcome(text, Spot))
<1>0. /\ Spot.at = cursor /\ Spot.mode = mode /\ Spot.from = from.at
  BY SpotIs DEF Inside
<1> DEFINE quote == After(cursor, {"L"})
<1>1. JoinOutcome(text, Spot) = IF Ch(quote) = "\"" THEN Goes(text, quote + 1, "string", from.at)
                                ELSE Gives("literal", from.at, cursor, NoValue)
  BY <1>0, ForText DEF JoinOutcome
<1>2. CASE JoinString
  <2>1. Ch(quote) = "\"" /\ Move(quote + 1, "string") /\ UNCHANGED <<tokens, from>>
    BY <1>2 DEF JoinString, Adjacent
  <2> HIDE DEF quote
  <2> QED
    BY <1>1, <2>1, MoveHas
<1>3. CASE FinishString
  <2>1. Ch(quote) # "\"" /\ Token("literal", from, cursor)
    BY <1>3 DEF FinishString, Adjacent
  <2> HIDE DEF quote
  <2> QED
    BY <1>1, <2>1, TokenHas DEF Token
<1>5. ~(ScanEOF \/ ScanIdentifier \/ ScanHexadecimal \/ ScanNumericLiteral \/ ScanOperator \/ ScanSingle
        \/ ScanBadChar \/ BeginLiteral \/ LiteralElement \/ UnclosedLiteral \/ EndChar \/ EndString)
  BY DEF ScanEOF, ScanIdentifier, ScanHexadecimal, ScanNumericLiteral, ScanOperator, ScanSingle, ScanBadChar,
     BeginLiteral, LiteralElement, UnclosedLiteral, EndChar, EndString, InLiteral
<1> QED
  BY <1>2, <1>3, <1>5 DEF Scan

\* Every step of nextToken is the one its place in the text calls for.
LEMMA StepHas ==
  ASSUME Bounds, NextToken \/ Skip \/ Scan PROVE Had(Outcome(text, Spot))
<1>0. Spot.at = cursor /\ Spot.mode = mode
  BY SpotIs
<1>1. CASE NextToken
  <2>1. mode = "idle" /\ mode' = "skip" /\ UNCHANGED <<text, cursor, tokens, peek, again>>
    BY <1>1 DEF NextToken
  <2>2. Outcome(text, Spot) = Goes(text, cursor, "skip", 0)
    BY <1>0, <2>1 DEF Outcome
  <2>3. cursor <= Len(text) + 1
    BY <2>1 DEF Bounds, Positions
  <2>4. "skip" \notin Inside
    BY DEF Inside
  <2>5. Spot' = SpotAt(cursor', mode', from'.at)
    BY DEF Spot, SpotAt, Inside
  <2>6. Spot' = SpotAt(cursor, "skip", 0)
    BY <2>1, <2>4, <2>5 DEF SpotAt
  <2> QED
    BY <2>1, <2>2, <2>3, <2>6 DEF Had, Went, Goes
<1>2. CASE Skip
  <2>1. mode \in {"skip", "join"}
    BY <1>2 DEF Skip, SkipBlank, SkipNewline, SkipLineComment, SkipComment, SkipDirective, EndSkip, Skipping
  <2>2. Outcome(text, Spot) = SkipOutcome(text, Spot)
    BY <1>0, <2>1 DEF Outcome
  <2> QED
    BY <1>2, <2>2, SkipHas
<1>3. CASE Scan
  <2>1. mode \in {"scan", "char", "string", "joined"}
    BY <1>3 DEF Scan, ScanEOF, ScanIdentifier, ScanHexadecimal, ScanNumericLiteral, ScanOperator, ScanSingle,
       ScanBadChar, BeginLiteral, LiteralElement, UnclosedLiteral, EndChar, EndString, JoinString, FinishString,
       InLiteral
  <2>2. CASE mode = "scan"
    BY <1>0, <1>3, <2>2, ScanHas DEF Outcome
  <2>3. CASE mode \in {"char", "string"}
    BY <1>0, <1>3, <2>3, LiteralHas DEF Outcome
  <2>4. CASE mode = "joined"
    BY <1>0, <1>3, <2>4, JoinHas DEF Outcome
  <2> QED
    BY <2>1, <2>2, <2>3, <2>4
<1> QED
  BY <1>1, <1>2, <1>3

-----------------------------------------------------------------------------
(* What a peek gives back is found again.                                  *)

\* From s on the lexer finds t: s is in every set of places that has those at
\* which t is returned and those that lead into the set.
Spots == [at : Nat, mode : Modes, from : Nat]
Ends(x, s, t) == Outcome(x, s).gives /\ Outcome(x, s).token = t
Onward(x, s) == Outcome(x, s).spot
Closed(x, t, R) ==
  \A s \in Spots : Ends(x, s, t) \/ (~Outcome(x, s).gives /\ Onward(x, s) \in R) => s \in R
Finds(x, s, t) == \A R \in SUBSET Spots : Closed(x, t, R) => s \in R

LEMMA FindsBack ==
  ASSUME NEW x, NEW t, NEW s \in Spots,
         Ends(x, s, t) \/ (~Outcome(x, s).gives /\ Finds(x, Onward(x, s), t))
  PROVE  Finds(x, s, t)
BY DEF Finds, Closed

LEMMA FindsOn ==
  ASSUME NEW x, NEW t, NEW s \in Spots, Finds(x, s, t)
  PROVE  Ends(x, s, t) \/ (~Outcome(x, s).gives /\ Finds(x, Onward(x, s), t))
<1> DEFINE Q == {p \in Spots : Ends(x, p, t) \/ (~Outcome(x, p).gives /\ Finds(x, Onward(x, p), t))}
<1>1. \A p \in Q : Finds(x, p, t)
  BY FindsBack
<1>2. Closed(x, t, Q)
  BY <1>1 DEF Closed
<1>3. Q \in SUBSET Spots
  OBVIOUS
<1>4. s \in Q
  <2> HIDE DEF Q
  <2> QED
    BY <1>2, <1>3 DEF Finds
<1> QED
  BY <1>4

\* A peek starts at a place from which the token is found that it returns, and
\* the token it gives back is found from where the lexer is.
Began(c) == SpotAt(c, "idle", 0)
Rereads ==
  /\ from.at \in Nat
  /\ again # NoToken => peek = NoPeek /\ Finds(text, Spot, Plain(again))
  /\ peek # NoPeek =>
       IF tokens = peek.tokens THEN \A t : Finds(text, Spot, t) => Finds(text, Began(peek.cursor), t)
       ELSE mode = "idle" /\ Finds(text, Began(peek.cursor), Plain(Latest))

LEMMA SpotType == ASSUME Bounds, Rereads PROVE Spot \in Spots
<1>1. cursor \in Nat /\ mode \in Modes /\ from.at \in Nat
  BY DEF Bounds, Rereads
<1> QED
  BY <1>1 DEF Spot, SpotAt, Spots

\* No step of nextToken is taken before a peek is settled.
LEMMA NotPeeked ==
  ASSUME mode = "idle", NextToken \/ Skip \/ Scan PROVE ~Peeked
<1>1. ~Skip
  BY DEF Skip, SkipBlank, SkipNewline, SkipLineComment, SkipComment, SkipDirective, EndSkip, Skipping
<1>2. ~Scan
  BY DEF Scan, ScanEOF, ScanIdentifier, ScanHexadecimal, ScanNumericLiteral, ScanOperator, ScanSingle,
     ScanBadChar, BeginLiteral, LiteralElement, UnclosedLiteral, EndChar, EndString, JoinString, FinishString,
     InLiteral
<1> QED
  BY <1>1, <1>2 DEF NextToken

LEMMA LatestIs ==
  ASSUME IsSeq(tokens), NEW t, tokens' = Append(tokens, t)
  PROVE  Latest' = t /\ tokens' # tokens
<1>1. /\ IsSeq(tokens') /\ DOMAIN tokens' = 1..Len(tokens) + 1 /\ tokens'[Len(tokens) + 1] = t
      /\ Len(tokens) \in Nat
  BY AppendSeq, SeqDomain
<1>2. Len(tokens') \in Nat /\ DOMAIN tokens' = 1..Len(tokens')
  BY <1>1, SeqDomain
<1>3. Len(tokens') = Len(tokens) + 1
  BY <1>1, <1>2
<1>4. tokens' # << >> /\ tokens' # tokens
  BY <1>1, <1>3
<1> QED
  BY <1>1, <1>3, <1>4 DEF Latest

\* The token that comes of a step is the one the lexer is to find.
LEMMA GaveFinds ==
  ASSUME Bounds, Rereads, NextToken \/ Skip \/ Scan, Gave(Outcome(text, Spot))
  PROVE  /\ Finds(text, Spot, Plain(Latest'))
         /\ again # NoToken => Plain(Latest') = Plain(again)
<1> DEFINE o == Outcome(text, Spot)
<1>1. PICK t : tokens' = Append(tokens, t) /\ Plain(t) = o.token
  BY DEF Gave
<1>2. Latest' = t
  BY <1>1, LatestIs DEF Bounds
<1>3. o.gives
  BY DEF Gave
<1>4. Ends(text, Spot, Plain(Latest'))
  BY <1>1, <1>2, <1>3 DEF Ends
<1>5. Finds(text, Spot, Plain(Latest'))
  BY <1>4, SpotType, FindsBack
<1>6. ASSUME again # NoToken PROVE Plain(Latest') = Plain(again)
  <2>1. Ends(text, Spot, Plain(again))
    BY <1>3, <1>6, SpotType, FindsOn DEF Rereads
  <2> QED
    BY <1>4, <2>1 DEF Ends
<1> QED
  BY <1>5, <1>6

LEMMA RereadsStep ==
  ASSUME Bounds, line \in Nat, Rereads, [LexNext]_lexVars
  PROVE  Rereads'
<1> DEFINE o == Outcome(text, Spot)
<1>0. Spot \in Spots
  BY SpotType
<1>1. CASE NextToken \/ Skip \/ Scan
  <2>1. Had(o)
    BY <1>1, StepHas
  <2>2. from'.at \in Nat
    <3>1. UNCHANGED from \/ from' = Start
      BY <1>1, NextTokenSteps DEF Passes, Scanned, Returns
    <3> QED
      BY <3>1 DEF Rereads, Start, Bounds
  <2>3. peek # NoPeek => tokens = peek.tokens
    BY <1>1, NotPeeked DEF Peeked, Rereads
  <2>4. CASE Went(o)
    <3>1. ~o.gives /\ Spot' = o.spot /\ UNCHANGED <<text, tokens, peek, again>>
      BY <2>4 DEF Went
    <3>2. again # NoToken => Finds(text, Spot', Plain(again))
      BY <1>0, <3>1, FindsOn DEF Rereads, Ends, Onward
    <3>3. \A t : Finds(text, Spot', t) => Finds(text, Spot, t)
      BY <1>0, <3>1, FindsBack DEF Onward
    <3>4. again' # NoToken => peek' = NoPeek /\ Finds(text', Spot', Plain(again'))
      BY <3>1, <3>2 DEF Rereads
    <3>5. peek' # NoPeek =>
            tokens' = peek'.tokens /\ \A t : Finds(text', Spot', t) => Finds(text', Began(peek'.cursor), t)
      BY <2>3, <3>1, <3>3 DEF Rereads
    <3> QED
      BY <2>2, <3>4, <3>5 DEF Rereads
  <2>5. CASE Gave(o)
    <3>1. mode' = "idle" /\ again' = NoToken /\ UNCHANGED <<text, peek>>
      BY <2>5 DEF Gave
    <3>2. Finds(text, Spot, Plain(Latest'))
      BY <1>1, <2>5, GaveFinds
    <3>3. peek # NoPeek => tokens' # peek.tokens
      BY <2>3, <2>5, LatestIs DEF Gave, Bounds
    <3>4. peek' # NoPeek => tokens' # peek'.tokens /\ Finds(text', Began(peek'.cursor), Plain(Latest'))
      BY <2>3, <3>1, <3>2, <3>3 DEF Rereads
    <3> QED
      BY <2>2, <3>1, <3>4 DEF Rereads
  <2> QED
    BY <2>1, <2>4, <2>5 DEF Had
<1>2. CASE BeginPeek
  <2>1. /\ mode = "idle" /\ again = NoToken /\ peek' = [cursor |-> cursor, tokens |-> tokens]
        /\ UNCHANGED <<text, cursor, mode, from, tokens, again>>
    BY <1>2 DEF BeginPeek
  <2>2. peek'.tokens = tokens' /\ peek'.cursor = cursor'
    BY <2>1
  <2>3. Spot' = Began(cursor')
    BY <2>1 DEF Spot, SpotAt, Began, Inside
  <2> QED
    BY <2>1, <2>2, <2>3 DEF Rereads
<1>3. CASE EndPeek
  <2>1. /\ mode = "idle" /\ peek' = NoPeek /\ UNCHANGED <<text, mode, from>>
        /\ peek # NoPeek /\ tokens # peek.tokens
    BY <1>3 DEF EndPeek, Peeked
  <2>2. again = NoToken /\ Finds(text, Began(peek.cursor), Plain(Latest))
    BY <2>1 DEF Rereads
  <2>3. UNCHANGED again \/ (again' = Latest /\ cursor' = peek.cursor)
    BY <1>3 DEF EndPeek
  <2>4. Spot' = SpotAt(cursor', mode', from'.at)
    BY DEF Spot, SpotAt, Inside
  <2>5. cursor' = peek.cursor => Spot' = Began(peek.cursor)
    BY <2>1, <2>4 DEF Began, SpotAt, Inside
  <2> QED
    BY <2>1, <2>2, <2>3, <2>5 DEF Rereads
<1>4. CASE UNCHANGED lexVars
  <2>1. UNCHANGED <<text, cursor, mode, from, tokens, peek, again>>
    BY <1>4 DEF lexVars
  <2>2. Spot' = Spot /\ Latest' = Latest
    BY <2>1 DEF Spot, SpotAt, Inside, Latest
  <2> QED
    BY <2>1, <2>2 DEF Rereads
<1> QED
  BY <1>1, <1>2, <1>3, <1>4 DEF LexNext, LexStop

LEMMA TransparentStep ==
  ASSUME Bounds, Rereads, [LexNext]_lexVars, again # NoToken, again' = NoToken
  PROVE  [Latest' EXCEPT !.line = 0] = [again EXCEPT !.line = 0]
<1>1. peek = NoPeek /\ ~UNCHANGED again
  BY DEF Rereads
<1>2. ~EndPeek /\ ~BeginPeek
  BY <1>1 DEF EndPeek, BeginPeek, Peeked
<1>3. NextToken \/ Skip \/ Scan
  BY <1>1, <1>2 DEF LexNext, LexStop, lexVars
<1>4. Gave(Outcome(text, Spot))
  BY <1>1, <1>3, StepHas DEF Had, Went
<1> QED
  BY <1>3, <1>4, GaveFinds DEF Plain

-----------------------------------------------------------------------------
(* The theorems.                                                           *)

LexInv == Bounds /\ Lines /\ Munches /\ Values /\ Rereads

LEMMA LexInitInv == LexInit => LexInv
<1> SUFFICES ASSUME LexInit PROVE LexInv
  OBVIOUS
<1>1. IsText
  BY TextAssumption DEF LexInit, IsText
<1>2. cursor = 1 /\ 1 \in Positions /\ line = 1 /\ reread = 0
  BY <1>1 DEF LexInit, Positions, IsText
<1>2a. mode = "idle" \/ (mode = "overrun" /\ ~SentinelFits)
  BY DEF LexInit
<1>3. tokens = << >> /\ peek.tokens = << >> /\ peek = NoPeek
  BY DEF LexInit, NoPeek
<1>4. IsSeq(tokens) /\ IsSeq(peek.tokens) /\ DOMAIN tokens = {} /\ DOMAIN peek.tokens = {}
  BY <1>3, EmptyIsSeq, SeqDomain
<1>5. Bounds
  BY <1>1, <1>2, <1>2a, <1>3, <1>4 DEF Bounds, Modes
<1>6. Count(text, 1, cursor - 1) = 0
  <2>1. {k \in 1..cursor - 1 : k <= Len(text) /\ text[k] = "\n"} = {}
    BY <1>2
  <2>2. QED
    BY <2>1, FS_EmptySet DEF Count
<1>7. Lines
  BY <1>2, <1>2a, <1>4, <1>6 DEF Lines, Inside, AllExact
<1>8. Munches
  BY <1>4 DEF Munches, AllLongest
<1>9. Values
  BY <1>4 DEF Values, AllValued
<1>10. Rereads
  BY DEF Rereads, LexInit
<1>11. QED
  BY <1>5, <1>7, <1>8, <1>9, <1>10 DEF LexInv

LEMMA LexInvariant == LexSpec => []LexInv
<1>1. LexInv /\ [LexNext]_lexVars => LexInv'
  BY BoundsStep, LinesStep, MunchesStep, ValuesStep, RereadsStep DEF LexInv, Lines
<1>2. QED
  BY LexInitInv, <1>1, PTL DEF LexSpec

\* Whatever a file that ends in a newline breaks off in, the lexer stays within
\* its mapping, if the file is not of whole pages (open, skipWhiteSpace,
\* scanPPLine, the scanners).
THEOREM StaysInBounds == LexSpec => []InBounds
<1>1. LexInv => InBounds
  BY DEF LexInv, Bounds, InBounds
<1>2. QED
  BY LexInvariant, <1>1, PTL

\* In a text that does not swallow a newline (Swallows: a directive with a line
\* number and no file name, an opening of a comment or a backslash at the end of
\* a line) every token has the line it stands on, or one that is ahead of it by
\* no more than the newlines peeks have run over (line_, scanPPLine, endPeek).
THEOREM CountsLines == LexSpec => []LineExact
<1>1. LexInv => LineExact
  BY NewlinesCount DEF LexInv, Lines, LineExact, Neat, AllExact, Exact
<1>2. QED
  BY LexInvariant, <1>1, PTL

\* Every operator token is the longest operator of C that begins where it
\* begins, with two and three characters and at the end of the file as well.
THEOREM TakesLongest == LexSpec => []MaximalMunch
<1>1. LexInv => MaximalMunch
  BY DEF LexInv, Munches, AllLongest, Longest, Here, MaximalMunch
<1>2. QED
  BY LexInvariant, <1>1, PTL

\* An integer constant has its value modulo the word, and is reported as too big
\* exactly if that is not its value, for every number of digits (scanIntLiteral).
THEOREM ReadsExactly == LexSpec => []ValueExact
<1>1. LexInv => ValueExact
  BY ExactValueIs DEF LexInv, Values, AllValued, Valued, ValueExact
<1>2. QED
  BY LexInvariant, <1>1, PTL

\* What endPeek has given back is what the lexer returns next: the token that was
\* peeked at, its line apart (beginPeek, endPeek).
THEOREM PeeksTransparently == LexSpec => PeekTransparent
<1>1. LexInv /\ [LexNext]_lexVars =>
        [again # NoToken /\ again' = NoToken =>
           [Latest' EXCEPT !.line = 0] = [again EXCEPT !.line = 0]]_lexVars
  BY TransparentStep DEF LexInv
<1>2. QED
  BY LexInvariant, <1>1, PTL DEF LexSpec, PeekTransparent
=============================================================================
