------------------------------ MODULE MCCompiler ------------------------------
(* Small texts for the whole compiler. *)
EXTENDS Compiler, MCParser

\* The value of a call in every place, and conditions of every form.
CallPlaces == {<<"if", "(", "ID", "(", ")", ")", ";">>, <<"return", "ID", "(", ")", ";">>,
               <<"while", "(", "!", "ID", "(", ")", ")", ";">>,
               <<"do", ";", "while", "(", "ID", "&&", "ID", "(", ")", ")", ";">>,
               <<"for", "(", "ID", "(", ")", ";", "ID", "<", "ID", "(", ")", ";", "ID", "(", ")", ")", ";">>,
               <<"switch", "(", "-", "ID", "(", ")", ")", ";">>, <<"int", "ID", "=", "ID", "(", ")", ";">>,
               <<"int", "*", "=", "-", "ID", "(", ")", ";">>, <<"ID", "(", "ID", "(", ")", ")", ";">>,
               <<"ID", "(", ")", "(", ")", ";">>, <<"ID", "(", ")", "++", ";">>,
               <<"sizeof", "ID", "(", ")", "[", "INT", "]", ";">>, <<"ID", "(", ")", "->", "ID", ";">>,
               <<"ID", "(", ")", ".", "ID", "->", "ID", ";">>, <<"ID", "[", "ID", "(", ")", "]", ";">>}
CallOperators == {<<a, b>> : a \in {"=", "+=", "||", "|", "<", "<<", "/", ","}, b \in {"==", "+", ","}}
Calls ==
  {Around(b) : b \in CallPlaces}
  \cup {Around(<<"ID", "(", ")", p[1], "ID", p[2], "INT", ";">>) : p \in CallOperators}
  \cup {Around(<<"ID", p[1], "ID", "(", ")", p[2], "INT", ";">>) : p \in CallOperators}

CompilerTexts == MCTexts \cup Calls
=============================================================================
