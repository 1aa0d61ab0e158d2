------------------------------- MODULE MCLexer -------------------------------
(* Small files for Lexer: every short text over the whole alphabet and      *)
(* longer ones over the characters of one feature.                          *)
EXTENDS Lexer

Alphabet == {"z", "L", "0", "x", "+", "=", ".", "@", " ", "\n", "/", "*", "#",
             "\"", "'", "\\", ":"}
Comments == {"/", "*", "\n", "z"}
Quotes == {"\"", "L", "\\", "\n", "x"}
Chars == {"'", "\\", "0", "x"}
Numbers == {"0", "9", "x", ".", "e", "f", "u", "L"}
Symbols == {"<", "=", ">", "-", "."}
Labels == {"z", ":", "\n", "(", "if"}
Directives == {"#", " ", "line", "1", "\"", "\n"}

\* Beyond the two words of six bits, which together hold less than 4096; 70 is
\* the least decimal that needs the carry of an addition alone.
BigNumbers == BoundedSeq({"0", "1", "7", "9"}, 5) \cup BoundedSeq({"0", "7"}, 6)
              \cup {<<"0", "x">> \o d : d \in BoundedSeq({"1", "9", "a", "e"}, 2)
                                              \cup BoundedSeq({"0", "1", "e"}, 4)}

MCTexts ==
  LET words == BoundedSeq(Alphabet, 2) \cup BoundedSeq(Comments, 5)
               \cup BoundedSeq(Quotes, 4) \cup BoundedSeq(Chars, 4)
               \cup BoundedSeq(Numbers, 4) \cup BigNumbers \cup BoundedSeq(Symbols, 4)
               \cup BoundedSeq(Labels, 4) \cup BoundedSeq(Directives, 4)
  IN words \cup {Append(w, "\n") : w \in words}
=============================================================================
