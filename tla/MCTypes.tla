------------------------------ MODULE MCTypes ------------------------------
(* Small clients of a TypeContext. *)
EXTENDS Types

IntType == type(T_INT)
CharType == type(T_CHAR)

Member(t, bits) == [ty |-> t, bits |-> bits]

LayoutClient(records, fields, members) ==
  [heap |-> Builtins, pool |-> {}, derived |-> 0, quals |-> {}, lens |-> {}, sigs |-> {},
   records |-> records, fields |-> fields, members |-> members]

\* One record with every sort of member; records in records; records in those.
Flat == LayoutClient(1, 4, {Member(CharType, 0), Member(IntType, 0), Member(IntType, 2),
                            Member(IntType, 30), Member(type(T_DOUBLE), 0),
                            Member(type(T_LONGDOUBLE), 0)})
Nested == LayoutClient(2, 3, {Member(CharType, 0), Member(IntType, 30)})
Deep == LayoutClient(3, 2, {Member(CharType, 0)})

DeriveClient(heap, given, derived, quals, lens, sigs) ==
  [heap |-> heap, pool |-> given, derived |-> derived, quals |-> quals, lens |-> lens,
   sigs |-> sigs, records |-> 0, fields |-> 0, members |-> {}]

\* All the arithmetic types, qualified; a few types, derived three times.
Arithmetic == DeriveClient(Builtins, 1..14, 1, {{"const"}}, {}, {})
Derivation ==
  DeriveClient(Builtins, {IntType}, 3, {{"const"}, {"volatile"}, {"const", "volatile"}},
               {0, 2}, {NoSignature})

ArrayAt(len, t, size) == [NewType(T_ARRAY) EXCEPT !.size = len * size, !.align = 4, !.bty = t]
PointerAt(t) == Sized(T_POINTER, 4, t)
Signature(proto, ellipse, params) ==
  [id |-> 0, proto |-> proto, ellipse |-> ellipse, params |-> params]
FunctionAt(id, ty, sig) == [Sized(T_FUNCTION, 4, ty) EXCEPT !.sig = [sig EXCEPT !.id = id]]

\* Functions whose results and parameters are pointers to arrays: int (*)[] is
\* type 20, int (*)[2] type 21; type 23 is a function that returns int (*)[3].
ArraysHeap ==
  Builtins \o <<ArrayAt(0, IntType, 4), ArrayAt(2, IntType, 4), ArrayAt(3, IntType, 4),
                PointerAt(17), PointerAt(18), PointerAt(19), FunctionAt(23, 22, NoSignature)>>
Functions ==
  DeriveClient(ArraysHeap, {20, 21, 23}, 3, {}, {},
    {NoSignature, Signature(TRUE, FALSE, << >>), Signature(TRUE, TRUE, <<IntType>>),
     Signature(FALSE, FALSE, <<CharType>>), Signature(FALSE, FALSE, <<20>>)}
    \cup {Signature(TRUE, FALSE, <<t>>) : t \in {CharType, IntType, 20, 21}})

\* Functions of functions, two of one type: 24 is int (int (*)[]), 25 and 26 are
\* int (int (*)[2]) and int (int (*)[3]); 30 is a function of two pointers to 24,
\* 31 one of a pointer to 24 and one to 25, 32 one of pointers to 25 and 26, and 33
\* shares the Signature of 24.
Proto(params) == Signature(TRUE, FALSE, params)
CallbacksHeap ==
  ArraysHeap \o <<FunctionAt(24, IntType, Proto(<<20>>)), FunctionAt(25, IntType, Proto(<<21>>)),
                  FunctionAt(26, IntType, Proto(<<22>>)),
                  PointerAt(24), PointerAt(25), PointerAt(26),
                  FunctionAt(30, IntType, Proto(<<27, 27>>)),
                  FunctionAt(31, IntType, Proto(<<27, 28>>)),
                  FunctionAt(32, IntType, Proto(<<28, 29>>)),
                  FunctionAt(24, 20, Proto(<<20>>))>>
Callbacks == DeriveClient(CallbacksHeap, {24, 25, 26, 30, 31, 32, 33}, 2, {}, {}, {})

\* Functions of functions with and without a prototype: 23 has none, 24 and 25 take
\* an int and return int (*)[] and int (*)[2]; 29 to 31 are functions of them.
OldStyle ==
  LET heap == ArraysHeap \o <<FunctionAt(24, 20, Proto(<<IntType>>)),
                              FunctionAt(25, 21, Proto(<<IntType>>)),
                              PointerAt(23), PointerAt(24), PointerAt(25)>>
                         \o [i \in 1..3 |-> FunctionAt(28 + i, IntType, Proto(<<25 + i>>))]
  IN DeriveClient(heap, {23, 24, 29, 30, 31}, 2, {}, {}, {})

\* Arrays of pointers to arrays: 24, 25 and 26 are int (*[])[3], int (*[2])[] and
\* int (*[2])[2], 30 to 32 functions of pointers to them.
Elements ==
  LET heap == ArraysHeap \o <<ArrayAt(0, 22, 4), ArrayAt(2, 20, 4), ArrayAt(2, 21, 4),
                              PointerAt(24), PointerAt(25), PointerAt(26)>>
                         \o [i \in 1..3 |-> FunctionAt(29 + i, IntType, Proto(<<26 + i>>))]
  IN DeriveClient(heap, {24, 25, 26, 30, 31, 32}, 2, {}, {}, {})

\* Constant pointers: 24 and 25 are int (*const)[] and int (*const)[2], 26 and 27
\* functions of them, 29 a function of an int (**const)[2].
Constants ==
  LET Constant(t, ty) == [ty EXCEPT !.qual = {"const"}, !.bty = t]
  IN DeriveClient(ArraysHeap \o <<Constant(20, PointerAt(17)), Constant(21, PointerAt(18)),
                                  FunctionAt(26, IntType, Proto(<<24>>)),
                                  FunctionAt(27, IntType, Proto(<<25>>)),
                                  PointerAt(21), FunctionAt(29, IntType, Proto(<<30>>)),
                                  Constant(28, PointerAt(21))>>,
                  {24, 25, 26, 27, 29}, 3, {}, {}, {})

MCClients ==
  {Flat, Nested, Deep, Arithmetic, Derivation, Functions, Callbacks, OldStyle, Elements, Constants}
=============================================================================
