------------------------------- MODULE Types -------------------------------
(***************************************************************************)
(* Function types, compatible and composite types and the usual arithmetic *)
(* conversions of src/src/type/type.cpp, on top of the types of Layout,    *)
(* and the types the checker gives to binary expressions with them.        *)
(*                                                                         *)
(* compositeType() is the one operation that changes finished types: the   *)
(* function types it is given are completed where they stand, and a        *)
(* Signature with them that several of them may hold.  That makes types    *)
(* possible that contain themselves: isCompatible() would not return on    *)
(* them, and is FALSE here.                                                *)
(***************************************************************************)
EXTENDS Layout

VARIABLE composed   \* history: the last compositeType(), its operands and result

typeVars == <<client, types, ending, complete, composed>>

NotComposed == [left |-> Null, right |-> Null, result |-> Null]

TypesInit == LayoutInit /\ composed = NotComposed

FunctionReturn(t, sig) ==
  /\ MayDerive
  /\ New([Sized(T_FUNCTION, IntSize, t) EXCEPT !.sig = sig])
  /\ UNCHANGED composed

\* A client passes a Signature of its own, or that of another function type.
GivenSignatures ==
  {[sig EXCEPT !.id = Len(types) + 1] : sig \in client.sigs}
    \cup {types[f].sig : f \in {t \in pool : types[t].categ = T_FUNCTION}}

PromoteIn(heap, t) ==
  CASE heap[t].categ < T_INT -> type(T_INT)
    [] heap[t].categ = T_FLOAT -> type(T_DOUBLE)
    [] OTHER -> t

UnqualIn(heap, t) == IF heap[t].qual # {} THEN heap[t].bty ELSE t


\* Mutant of CompatibleFunction: the signatures are not swapped.
CompatibleFunctionUnswapped(heap, f, g, below) ==
  LET s1 == heap[f].sig
      s2 == heap[g].sig
      Each(ps, qs) == Len(ps) = Len(qs) /\ \A i \in DOMAIN ps : below[<<ps[i], qs[i]>>]
      Promoted(ps) == [i \in DOMAIN ps |-> PromoteIn(heap, ps[i])]
  IN /\ below[<<heap[f].bty, heap[g].bty>>]
     /\ CASE ~s1.proto /\ ~s2.proto -> TRUE
          [] s1.proto /\ s2.proto -> s1.ellipse = s2.ellipse /\ Each(s1.params, s2.params)
          [] OTHER ->
               /\ ~s1.ellipse
               /\ IF s2.params = << >> THEN Each(Promoted(s1.params), s1.params)
                  ELSE Each(s1.params, Promoted(s2.params))

\* isCompatibleFunction.  A prototype is held against the parameters of the
\* old-style type as a call promotes them, or against its own when there are none.
CompatibleFunction(heap, f, g, below) ==
  LET s1 == heap[f].sig
      s2 == heap[g].sig
      new == IF s1.proto THEN s1 ELSE s2
      old == IF s1.proto THEN s2 ELSE s1
      Each(ps, qs) == Len(ps) = Len(qs) /\ \A i \in DOMAIN ps : below[<<ps[i], qs[i]>>]
      Promoted(ps) == [i \in DOMAIN ps |-> PromoteIn(heap, ps[i])]
  IN /\ below[<<heap[f].bty, heap[g].bty>>]
     /\ CASE ~s1.proto /\ ~s2.proto -> TRUE
          [] s1.proto /\ s2.proto -> s1.ellipse = s2.ellipse /\ Each(s1.params, s2.params)
          [] OTHER ->
               /\ ~new.ellipse
               /\ IF old.params = << >> THEN Each(Promoted(new.params), new.params)
                  ELSE Each(new.params, Promoted(old.params))

CompatibleAt(heap, s, t, below) ==
  LET u == UnqualIn(heap, s)
      v == UnqualIn(heap, t)
      a == heap[u]
      b == heap[v]
  IN \/ s = t
     \/ /\ heap[s].qual = heap[t].qual
        /\ \/ a.categ = T_ENUM /\ v = a.bty
           \/ b.categ = T_ENUM /\ u = b.bty
           \/ /\ a.categ = b.categ
              /\ CASE a.categ = T_POINTER -> below[<<a.bty, b.bty>>]
                   [] a.categ = T_ARRAY -> /\ below[<<a.bty, b.bty>>]
                                           /\ a.size = b.size \/ a.size = 0 \/ b.size = 0
                   [] a.categ = T_FUNCTION -> CompatibleFunction(heap, u, v, below)
                   [] OTHER -> u = v

\* isCompatible, a function of how deep the types may nest: no deeper than
\* there are types.
CompatibleIn(heap, s, t) ==
  LET compatible[n \in 0..Len(heap)] ==
        [p \in (DOMAIN heap) \X (DOMAIN heap) |->
           n > 0 /\ CompatibleAt(heap, p[1], p[2], compatible[n - 1])]
  IN compatible[Len(heap)][<<s, t>>]

Compatible(s, t) == CompatibleIn(types, s, t)

-----------------------------------------------------------------------------
(* compositeType(): its result, in the heap it leaves.                     *)

\* Mutant of CompositeArray: the operand of unknown length wins.
CompositeArrayUnknown(heap, s, t) == IF heap[s].size # 0 THEN t ELSE s

CompositeArray(heap, s, t) == IF heap[s].size # 0 THEN s ELSE t

\* The assertion that the operands are compatible fails: the process ends.
Asserted(heap) == [heap |-> heap, ty |-> Null]
Is(heap, ty) == [heap |-> heap, ty |-> ty]

\* Every function type with this Signature sees its parameter change.
WriteParam(heap, f, i, ty) ==
  [k \in DOMAIN heap |->
     IF heap[k].categ = T_FUNCTION /\ heap[k].sig.id = heap[f].sig.id
     THEN [heap[k] EXCEPT !.sig.params[i] = ty] ELSE heap[k]]

\* The parameters of f become the composites, the first to the last.
CompositeParams(heap, f, g, below) ==
  LET after[i \in 0..Len(heap[f].sig.params)] ==
        IF i = 0 THEN Is(heap, f)
        ELSE LET h == after[i - 1].heap
                 c == below[<<h, h[f].sig.params[i], h[g].sig.params[i]>>]
             IN IF after[i - 1].ty = Null \/ c.ty = Null THEN Asserted(h)
                ELSE Is(WriteParam(c.heap, f, i, c.ty), f)
  IN after[Len(heap[f].sig.params)]

\* A qualified pointer's bty is the unqualified pointer, and not what it points
\* at: its composite points to a pointer.
CompositePointer(heap, qual, ty) ==
  LET h == Append(heap, PointerType(ty))
      p == Len(h)
  IN IF qual = {} THEN Is(h, p)
     ELSE Is(Append(h, [PointerType(p) EXCEPT !.qual = qual]), p + 1)

CompositeFunction(heap, s, t, below) ==
  CASE ~heap[s].sig.proto -> Is(heap, t)
    [] heap[s].sig.proto /\ ~heap[t].sig.proto -> Is(heap, s)
    [] OTHER -> CompositeParams(heap, s, t, below)

CompositeAt(heap, s, t, below) ==
  LET a == heap[s]
      b == heap[t]
      inner == below[<<heap, a.bty, b.bty>>]
  IN IF ~CompatibleIn(heap, s, t) THEN Asserted(heap)
     ELSE IF a.categ = T_ENUM THEN Is(heap, s)
     ELSE IF b.categ = T_ENUM THEN Is(heap, t)
     ELSE IF a.categ \in {T_POINTER, T_FUNCTION} /\ inner.ty = Null THEN inner
     ELSE CASE a.categ = T_POINTER -> CompositePointer(inner.heap, a.qual, inner.ty)
            [] a.categ = T_ARRAY -> Is(heap, CompositeArray(heap, s, t))
            [] a.categ = T_FUNCTION ->
                 CompositeFunction([inner.heap EXCEPT ![s].bty = inner.ty], s, t, below)
            [] OTHER -> Is(heap, s)

\* compositeType, again a function of how deep the types may nest.
CompositeIn(heap, s, t) ==
  LET composite[n \in 0..Len(heap)] ==
        [c \in Seq(Objects) \X Nat \X Nat |->
           IF n = 0 THEN Asserted(c[1]) ELSE CompositeAt(c[1], c[2], c[3], composite[n - 1])]
  IN composite[Len(heap)][<<heap, s, t>>]

Composite(s, t) ==
  /\ MayDerive
  /\ LET c == CompositeIn(types, s, t)
     IN /\ composed' = [left |-> s, right |-> t, result |-> c.ty]
        /\ \/ c.ty # Null /\ types' = c.heap /\ UNCHANGED ending
           \/ c.ty = Null /\ ending' = Ended /\ UNCHANGED types
  /\ UNCHANGED <<client, complete>>

\* C has no functions that return functions or arrays.
TypesNext ==
  \/ LayoutNext /\ UNCHANGED composed
  \/ \E t \in pool, sig \in GivenSignatures :
       types[t].categ \notin {T_FUNCTION, T_ARRAY} /\ FunctionReturn(t, sig)
  \/ \E s, t \in pool : Composite(s, t)

TypesSpec == TypesInit /\ [][TypesNext]_typeVars

-----------------------------------------------------------------------------
(* The usual arithmetic conversions and the checker's use of them.         *)

IsArith(t) == types[t].categ <= T_LONGDOUBLE
IsUnsigned(categ) == categ % 2 = 1

\* Mutant of IntegerCommon: the unsigned type of the other's rank is forgotten.
IntegerCommonSigned(s, t) ==
  LET unsigned == IF IsUnsigned(types[t].categ) THEN t ELSE s
      signed   == IF unsigned = t THEN s ELSE t
  IN IF types[unsigned].categ >= types[signed].categ THEN unsigned ELSE signed

\* The last part of commonRealType: one operand is unsigned, one is not.
IntegerCommon(s, t) ==
  LET unsigned == IF IsUnsigned(types[t].categ) THEN t ELSE s
      signed   == IF unsigned = t THEN s ELSE t
  IN IF types[unsigned].categ >= types[signed].categ THEN unsigned
     ELSE IF types[signed].size > types[unsigned].size THEN signed
     ELSE type(types[signed].categ + 1)

CommonRealType(s, t) ==
  LET Either(categ) == types[s].categ = categ \/ types[t].categ = categ
      Widened(u) == IF types[u].categ < T_INT THEN type(T_INT) ELSE u
      l == Widened(s)
      r == Widened(t)
  IN IF Either(T_LONGDOUBLE) THEN type(T_LONGDOUBLE)
     ELSE IF Either(T_DOUBLE) THEN type(T_DOUBLE)
     ELSE IF Either(T_FLOAT) THEN type(T_FLOAT)
     ELSE IF types[l].categ = types[r].categ THEN l
     ELSE IF IsUnsigned(types[l].categ) = IsUnsigned(types[r].categ)
          THEN IF types[l].categ > types[r].categ THEN l ELSE r
     ELSE IntegerCommon(l, r)

\* What SemanticChecker::visit(BinaryExpr) gives the node, from the types of its
\* operands; those of the expressions it does not visit have none.
BinaryExprType(l, r) ==
  IF l # Null /\ r # Null /\ IsArith(l) /\ IsArith(r) THEN CommonRealType(l, r)
  ELSE type(T_INT)

-----------------------------------------------------------------------------
(* Properties.                                                             *)

\* Which declaration comes first does not matter: for function types with and
\* without prototypes, arrays of unknown length, qualified and nested types.
CompatibleSymmetric == \A s, t \in pool : Compatible(s, t) <=> Compatible(t, s)

\* The types t leads to: what it points to, its elements, its result and parameters.
Parts(t) ==
  LET next(u) == {types[u].bty} \cup {types[u].sig.params[i] : i \in DOMAIN types[u].sig.params}
      reach[n \in 0..Len(types)] ==
        IF n = 0 THEN {t}
        ELSE LET nearer == reach[n - 1] IN nearer \cup UNION {next(u) \ {Null} : u \in nearer}
  IN reach[Len(types)]

FunctionsOf(t) == {f \in Parts(t) : types[f].categ = T_FUNCTION}

\* No function type, and no Signature, is reached in two ways from s and t.
Apart(s, t) ==
  LET all == Parts(s) \cup Parts(t)
      Uses(u) == {<<k, 0>> : k \in {j \in all : types[j].bty = u}}
                   \cup UNION {{<<k, i>> : i \in {j \in DOMAIN types[k].sig.params :
                                                    types[k].sig.params[j] = u}} : k \in all}
  IN /\ s # t
     /\ \A u \in all : FunctionsOf(u) # {} => Cardinality(Uses(u)) = IF u \in {s, t} THEN 0 ELSE 1
     /\ \A f, g \in FunctionsOf(s) \cup FunctionsOf(t) : types[f].sig.id = types[g].sig.id => f = g

\* The composite of qualified pointers is a pointer to a pointer.
PlainPointers(s, t) ==
  \A u \in Parts(s) \cup Parts(t) : types[u].categ = T_POINTER => types[u].qual = {}

\* compositeType of two compatible types gets through, and the composite is
\* compatible with both; an array keeps the length that either gives.  That is
\* so if no pointer in them is qualified and no function type is used twice: one
\* that is the type of two parameters is completed by the first, and the assertion
\* can fail on the second.
CompositeCompatible ==
  [][LET s == composed'.left
         t == composed'.right
         c == composed'.result
     IN composed' # composed /\ Compatible(s, t) /\ Apart(s, t) /\ PlainPointers(s, t) =>
          /\ c # Null
          /\ \A u \in {s, t} :
               /\ CompatibleIn(types', c, u)
               /\ types'[c].categ = T_ARRAY => types'[c].size >= types[u].size]_typeVars

\* Nothing in t that another type can be compatible with in more than one form.
Definite(t) ==
  \A u \in Parts(t) :
    /\ types[u].categ \notin {T_ENUM, T_FUNCTION}
    /\ types[u].categ = T_ARRAY => types[u].size # 0

\* compositeType takes one of two arrays, or the function type with a prototype,
\* as it stands: what only the other knew is lost.  Nothing is lost of s and t.
NothingLost(s, t) ==
  \A u \in Parts(s) \cup Parts(t) :
    /\ types[u].categ = T_ARRAY /\ types[u].qual = {} => Definite(types[u].bty)
    /\ types[u].categ = T_FUNCTION => \A f \in FunctionsOf(u) \ {u} : types[f].sig.proto

\* Completing a function type where it stands only narrows it: no two types
\* become compatible that were not, also of those that share its Signature, if
\* compositeType loses nothing of the two and no pointer in them is qualified.
CompositeNarrows ==
  [][LET l == composed'.left
         r == composed'.right
     IN composed' # composed /\ NothingLost(l, r) /\ PlainPointers(l, r) =>
          \A s, t \in pool : CompatibleIn(types', s, t) => Compatible(s, t)]_typeVars

\* Does a signed type of this many bytes hold every value of t?
Holds(size, t) ==
  IF IsUnsigned(types[t].categ) THEN types[t].size < size ELSE types[t].size <= size

Rank(t) == IF types[t].categ < T_INT THEN T_INT \div 2 ELSE types[t].categ \div 2

\* A binary expression has the type C gives it: the wider floating type, or the
\* higher integer rank, signed exactly when that can hold the values of both
\* operands.  (Enums excepted: commonRealType does not turn them into integers.)
ArithmeticAsC ==
  \A s, t \in {u \in pool : IsArith(u) /\ types[u].categ # T_ENUM} :
    LET r == BinaryExprType(s, t)
    IN IF types[s].categ >= T_FLOAT \/ types[t].categ >= T_FLOAT
       THEN types[r].categ = IF types[s].categ > types[t].categ THEN types[s].categ ELSE types[t].categ
       ELSE /\ Rank(r) = IF Rank(s) > Rank(t) THEN Rank(s) ELSE Rank(t)
            /\ IsUnsigned(types[r].categ) <=> ~(Holds(types[r].size, s) /\ Holds(types[r].size, t))
=============================================================================
