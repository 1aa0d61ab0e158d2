------------------------------- MODULE MCParser -------------------------------
EXTENDS CGrammar

\* A function around a body.
Around(body) == Opening \o body \o <<"}">>
Chunks(pieces, n) == {FlattenSeq(c) : c \in BoundedSeq(pieces, n)}

\* Two operators between three operands, and operands of every form.
Operators == {"=", "+=", "||", "&&", "|", "^", "&", "==", "<", "<<", "+", "*", ","}
Chains == {Around(<<"ID", o1, "ID", o2, "INT", ";">>) : o1, o2 \in Operators}
Operand == {<<"-", "ID">>, <<"(", "ID">>, <<"ID", ")">>, <<"ID", "[", "INT", "]">>,
            <<"ID", "(", "ID", ",", "ID", "+", "INT", ")">>, <<"ID", "(", ")">>,
            <<"*", "++", "ID">>, <<"&", "ID", "->", "ID">>, <<"ID", "--">>, <<"sizeof", "STRING">>}
Mixed == {Around(a \o <<o>> \o b \o <<";">>) : a, b \in Operand, o \in {"=", "*", ","}}
\* Any few tokens of an expression, most of them wrong.
Free == {Around(e \o <<";">>) : e \in BoundedSeq({"ID", "-", "(", ")", "*", "[", "]"}, 3)}

Statement == {<<"if", "(", "ID", ")">>, <<"else">>, <<"ID", ";">>, <<"{">>, <<"}">>,
              <<"while", "(", "ID", ")">>}
Statements == {Around(b) : b \in Chunks(Statement, 4)}
DanglingElse ==
  {Around(<<"if", "(", "ID", ")">> \o l \o <<"if", "(", "ID", ")", ";", "else">> \o l
            \o <<"ID", ";">> \o e) :
     l \in {<< >>, <<"while", "(", "ID", ")">>, <<"for", "(", ";", "ID", ";", ")">>},
     e \in {<< >>, <<"else", "return", "ID", ";">>}}
Others ==
  {Around(b) : b \in
    {<<"do", "ID", ";", "while", "(", "ID", ")", ";">>, <<"do", "ID", ";", "if">>,
     <<"for", "(", "ID", "=", "INT", ";", "ID", ";", "ID", "++", ")", "break", ";">>,
     <<"for", "(", ";", ";", ")", "continue", ";">>, <<"for", "(", "ID", ")", ";">>,
     <<"goto", "ID", ";">>, <<"goto", ";">>, <<"ID", ":", "ID", ";">>, <<"return", ";">>,
     <<"switch", "(", "ID", ")", "{", "case", "INT", ":", "break", ";", "}">>,
     <<"switch", "(", "ID", ")", "{", "ID", ";", "}">>, <<"ID", ";", "int", "ID", ";">>}}

Declarator == {<<"int">>, <<"*", "ID">>, <<"=", "INT">>, <<",", "ID">>, <<";">>,
               <<"=", "{", "INT", ",", "{", "ID", "}", "}">>, <<"[", "INT", "]">>, <<"(", "ID", ")">>}
Locals == {Around(<<"int">> \o d \o <<";">>) : d \in Chunks(Declarator, 3)}
Globals == {<<"int">> \o d : d \in Chunks(Declarator \cup {<<"{", "}">>}, 3)}

MCTexts == Chains \cup Mixed \cup Free \cup Statements \cup DanglingElse \cup Others
             \cup Locals \cup Globals
\* i = i + 1; of src/tests/cases/control_while.c:7
MCIncrement == {Around(<<"ID", "=", "ID", o, "INT", ";">>) : o \in {"+", "*", "<<"}}
=============================================================================
