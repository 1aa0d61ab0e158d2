------------------------------- MODULE Literals -------------------------------
(***************************************************************************)
(* The value of an integer literal: Lexer::scanIntLiteral in               *)
(* src/src/lex/lexer.cpp.  It is computed in two words of unsigned         *)
(* arithmetic, i[0] and i[1]; the token keeps the lower one, and a warning *)
(* is given when the literal does not fit it.                              *)
(***************************************************************************)
EXTENDS Integers, Sequences

CONSTANT Word   \* the values of an unsigned int: 2^32 in the code
ASSUME WordAssumption == Word \in Nat /\ Word > 0 /\ Word % 16 = 0

MaxWord == Word - 1

DigitValue == [c \in {"0", "1", "7", "9", "a", "e", "f"} |->
  CASE c = "0" -> 0 [] c = "1" -> 1 [] c = "7" -> 7 [] c = "9" -> 9
    [] c = "a" -> 10 [] c = "e" -> 14 [] c = "f" -> 15]

\* The shifts by 1, 3 and 4 bits, for m = 2, 8 and 16.
Upper(x, m) == x \div (Word \div m)   \* x >> (32 - n), where m = 2^n
Shift(x, m) == (x * m) % Word          \* x << n

Times(x, base) ==
  CASE base = 16 -> Shift(x, 16)
    [] base = 8 -> Shift(x, 8)
    [] base = 10 -> (Shift(x, 8) + Shift(x, 2)) % Word

\* Mutant of Carry: in base 10 the carry of the addition is forgotten.
CarryOfShifts(x, base) ==
  CASE base = 16 -> Upper(x, 16)
    [] base = 8 -> Upper(x, 8)
    [] base = 10 -> Upper(x, 8) + Upper(x, 2)

\* What x * base leaves behind a word.
Carry(x, base) ==
  CASE base = 16 -> Upper(x, 16)
    [] base = 8 -> Upper(x, 8)
    [] base = 10 -> Upper(x, 8) + Upper(x, 2)
                    + (IF Shift(x, 8) > MaxWord - Shift(x, 2) THEN 1 ELSE 0)

Zero == [low |-> 0, high |-> 0, overflow |-> FALSE]

AddDigit(n, d, base) ==
  LET low == Times(n.low, base)
      high == Times(n.high, base)
      carry0 == Carry(n.low, base) + (IF low > MaxWord - d THEN 1 ELSE 0)
  IN [low |-> (low + d) % Word,
      high |-> (high + carry0) % Word,
      overflow |-> n.overflow \/ Carry(n.high, base) # 0 \/ high > MaxWord - carry0]

Words == [low : 0..MaxWord, high : 0..MaxWord, overflow : BOOLEAN]

\* The value of the token, and whether it is reported as too big.
IntValue(digits, base) ==
  LET add[p \in Words \X Nat] == AddDigit(p[1], p[2], base)
      scan[idx \in 0..Len(digits)] ==
        IF idx = 0 THEN Zero ELSE add[<<scan[idx - 1], DigitValue[digits[idx]]>>]
      words == scan[Len(digits)]
  IN [value |-> words.low, tooBig |-> words.overflow \/ words.high # 0]

\* The literal's kind by its suffixes.  ll makes an unsigned literal a signed one.
SuffixKind(u, l, ll) ==
  CASE ll -> "TK_LLONGCONST"
    [] u /\ l /\ ~ll -> "TK_ULONGCONST"
    [] l /\ ~u /\ ~ll -> "TK_LONGCONST"
    [] u /\ ~l -> "TK_UINTCONST"
    [] ~u /\ ~l -> "TK_INTCONST"
=============================================================================
