---------------------------- MODULE TypesProofs ----------------------------
(***************************************************************************)
(* Theorems about Types and Layout, for every client: members of a record  *)
(* with at most one level of nameless ones share no bit and lie at         *)
(* multiples of their alignment, compatibility is symmetric, and           *)
(* arithmetic has the types that C gives it.                               *)
(*                                                                         *)
(* The argument: every type there is was built as the context builds it    *)
(* (Sound).  The members of the record being ended that have their place   *)
(* lie behind each other, and the size or the open unit of bit-fields is   *)
(* behind them all; a record that is held by another lies where its holder *)
(* does, because addOffset() moved it there, and because a record defined  *)
(* in place is held once.                                                  *)
(***************************************************************************)
EXTENDS Types, WellFoundedInduction, NaturalsInduction, FiniteSetTheorems, TLAPS

-----------------------------------------------------------------------------
(* Numbers and objects.                                                    *)

\* A set of numbers has a least one.
LEMMA LeastNat ==
  ASSUME NEW S \in SUBSET Nat, S # {}
  PROVE  \E m \in S : \A k \in S : m <= k
<1> DEFINE R == OpToRel(<, Nat)
<1>1. IsWellFoundedOn(R, Nat)
  BY NatLessThanWellFounded
<1>2. \A j, k \in Nat : j < k => <<j, k>> \in R
  BY DEF OpToRel
<1> HIDE DEF R
<1>3. PICK m \in S : \A k \in S : ~(<<k, m>> \in R)
  BY <1>1, WFMin
<1>4. ASSUME NEW k \in S PROVE m <= k
  <2>1. ~(k < m)
    BY <1>2, <1>3
  <2>2. QED
    BY <2>1
<1>5. QED
  BY <1>4

-----------------------------------------------------------------------------
(* Rounding up.                                                            *)

\* AlignUp does not go down.
LEMMA RoundsUp ==
  ASSUME NEW x \in Nat, NEW a \in Aligns, a # 0
  PROVE  AlignUp(x, a) \in Nat /\ x <= AlignUp(x, a)
<1>1. CASE a = 1
  BY <1>1 DEF AlignUp
<1>2. CASE a = 2
  BY <1>2 DEF AlignUp
<1>3. CASE a = 4
  BY <1>3 DEF AlignUp
<1>4. CASE a = 8
  BY <1>4 DEF AlignUp
<1>5. CASE a = 12
  BY <1>5 DEF AlignUp
<1> QED
  BY <1>1, <1>2, <1>3, <1>4, <1>5 DEF Aligns

\* AlignUp finds the next multiple of a power of two.
LEMMA RoundsToMultiple ==
  ASSUME NEW x \in Nat, NEW a \in {1, 2, 4, 8}
  PROVE  AlignUp(x, a) % a = 0 /\ AlignUp(x, a) < x + a
<1>1. CASE a = 1
  BY <1>1 DEF AlignUp
<1>2. CASE a = 2
  BY <1>2 DEF AlignUp
<1>3. CASE a = 4
  BY <1>3 DEF AlignUp
<1>4. CASE a = 8
  BY <1>4 DEF AlignUp
<1> QED
  BY <1>1, <1>2, <1>3, <1>4

\* A record without members has alignment 0.
LEMMA RoundsNothing == ASSUME NEW x \in Nat PROVE AlignUp(x, 0) = 0
BY DEF AlignUp

-----------------------------------------------------------------------------
(* Heaps of types.                                                         *)

\* A heap of types built as the context builds them.
GoodHeap(h) ==
  /\ h \in Seq(Objects)
  /\ \A t \in DOMAIN Builtins : t \in DOMAIN h /\ h[t] = Builtins[t]
  /\ \A t \in DOMAIN h : WellBuilt(h, t)

\* What an object of a heap is made of.
LEMMA ObjectAt ==
  ASSUME NEW h \in Seq(Objects), NEW t \in DOMAIN h
  PROVE  /\ h[t] \in Objects
         /\ t \in 1..Len(h) /\ t \in Nat
         /\ h[t] = [categ |-> h[t].categ, qual |-> h[t].qual, align |-> h[t].align, size |-> h[t].size,
                    bty |-> h[t].bty, sig |-> h[t].sig, flds |-> h[t].flds]
         /\ h[t].categ \in Nat /\ h[t].qual \in SUBSET Quals /\ h[t].align \in Nat /\ h[t].size \in Nat
         /\ h[t].bty \in Nat /\ h[t].sig \in Signatures /\ h[t].flds \in Seq(Fields)
         /\ h[t].sig.proto \in BOOLEAN /\ h[t].sig.ellipse \in BOOLEAN /\ h[t].sig.params \in Seq(Nat)
<1>1. h[t] \in Objects /\ t \in 1..Len(h) /\ t \in Nat
  OBVIOUS
<1>2. /\ h[t].categ \in Nat /\ h[t].qual \in SUBSET Quals /\ h[t].align \in Nat /\ h[t].size \in Nat
      /\ h[t].bty \in Nat /\ h[t].sig \in Signatures /\ h[t].flds \in Seq(Fields)
  BY <1>1, Zenon DEF Objects
<1>3. h[t] = [categ |-> h[t].categ, qual |-> h[t].qual, align |-> h[t].align, size |-> h[t].size,
              bty |-> h[t].bty, sig |-> h[t].sig, flds |-> h[t].flds]
  BY <1>1, Zenon DEF Objects
<1>4. h[t].sig.proto \in BOOLEAN /\ h[t].sig.ellipse \in BOOLEAN /\ h[t].sig.params \in Seq(Nat)
  BY <1>2, Zenon DEF Signatures
<1> QED
  BY <1>1, <1>2, <1>3, <1>4

\* What a member of an object is made of.
LEMMA FieldAt ==
  ASSUME NEW h \in Seq(Objects), NEW t \in DOMAIN h, NEW i \in DOMAIN h[t].flds
  PROVE  /\ h[t].flds[i] \in Fields
         /\ i \in 1..Len(h[t].flds) /\ i \in Nat /\ Len(h[t].flds) \in Nat
         /\ h[t].flds[i].id \in Nat /\ h[t].flds[i].ty \in Nat /\ h[t].flds[i].bits \in Nat
         /\ h[t].flds[i].offset \in Nat /\ h[t].flds[i].pos \in Nat
<1>1. h[t].flds \in Seq(Fields)
  BY ObjectAt
<1>2. h[t].flds[i] \in Fields
  BY <1>1
<1>3. i \in 1..Len(h[t].flds) /\ i \in Nat /\ Len(h[t].flds) \in Nat
  BY <1>1
<1>4. /\ h[t].flds[i].id \in Nat /\ h[t].flds[i].ty \in Nat /\ h[t].flds[i].bits \in Nat
      /\ h[t].flds[i].offset \in Nat /\ h[t].flds[i].pos \in Nat
  BY <1>2, Zenon DEF Fields
<1> QED
  BY <1>2, <1>3, <1>4

\* The types there are before any is derived.
LEMMA BuiltinTypes ==
  ASSUME NEW c \in 0..15
  PROVE  /\ type(c) \in DOMAIN Builtins
         /\ Builtins[type(c)].categ = c /\ Builtins[type(c)].qual = {} /\ Builtins[type(c)].flds = << >>
BY DEF type, Builtins, Sized, NewType

\* A type's base is there where the code follows it.
LEMMA BaseProper ==
  ASSUME NEW h, GoodHeap(h), NEW t \in Proper(h)
  PROVE  /\ UnqualIn(h, t) \in Proper(h)
         /\ h[UnqualIn(h, t)].categ = h[t].categ
         /\ h[t].categ \in {T_POINTER, T_ARRAY, T_FUNCTION} => h[t].bty \in Proper(h)
         /\ \A i \in DOMAIN h[t].sig.params : h[t].sig.params[i] \in Proper(h)
<1>1. t \in DOMAIN h /\ t # type(T_POINTER) /\ WellBuilt(h, t)
  BY DEF Proper, GoodHeap
<1> QED
  BY <1>1 DEF WellBuilt, UnqualIn

-----------------------------------------------------------------------------
(* Recursion along an interval.                                            *)

\* The steps of a recursion along 1..n, and a function that takes them.
Steps(n, S) == [(1..n) \X S -> S]
Follows(f, z, n, S, step) ==
  f \in [0..n -> S] /\ f[0] = z /\ \A i \in 1..n : f[i] = step[<<i, f[i - 1]>>]

\* A function defined by recursion along an interval exists.
LEMMA RecursionExists ==
  ASSUME NEW S, NEW z, z \in S, NEW n, n \in Nat, NEW step, step \in Steps(n, S)
  PROVE  \E f : Follows(f, z, n, S, step)
<1> USE DEF Steps, Follows
<1> DEFINE Defined(m) == \E f \in [0..m -> S] : f[0] = z /\ \A i \in 1..m : f[i] = step[<<i, f[i - 1]>>]
           D == {m \in 0..n : ~Defined(m)}
<1>1. SUFFICES ASSUME D # {} PROVE FALSE
  <2>1. n \in 0..n
    OBVIOUS
  <2> QED
    BY <2>1
<1>2. D \in SUBSET Nat
  OBVIOUS
<1>3. PICK m \in D : \A k \in D : m <= k
  BY <1>1, <1>2, LeastNat
<1>4. m \in 0..n /\ ~Defined(m)
  BY <1>3
<1>5. CASE m = 0
  <2> DEFINE f == [i \in 0..0 |-> z]
  <2>1. f \in [0..m -> S] /\ f[0] = z /\ \A i \in 1..m : f[i] = step[<<i, f[i - 1]>>]
    BY <1>5
  <2> QED
    BY <1>4, <2>1
<1>6. CASE m > 0
  <2>1. m - 1 \in 0..n /\ m - 1 \notin D
    BY <1>3, <1>4, <1>6
  <2>2. Defined(m - 1)
    BY <2>1
  <2>3. PICK g \in [0..m - 1 -> S] : g[0] = z /\ \A i \in 1..m - 1 : g[i] = step[<<i, g[i - 1]>>]
    BY <2>2
  <2> DEFINE f == [i \in 0..m |-> IF i = m THEN step[<<m, g[m - 1]>>] ELSE g[i]]
  <2>4. step[<<m, g[m - 1]>>] \in S
    BY <1>4, <1>6, <2>3
  <2>5. f \in [0..m -> S]
    BY <1>4, <1>6, <2>3, <2>4
  <2>6. f[0] = z
    BY <1>4, <1>6, <2>3
  <2>7. ASSUME NEW i \in 1..m PROVE f[i] = step[<<i, f[i - 1]>>]
    <3>1. f[i - 1] = g[i - 1]
      BY <1>4, <1>6
    <3>2. CASE i = m
      BY <1>4, <3>1, <3>2
    <3>3. CASE i # m
      BY <1>4, <2>3, <3>1, <3>3
    <3> QED
      BY <3>2, <3>3
  <2>8. Defined(m)
    BY <2>5, <2>6, <2>7
  <2> QED
    BY <1>4, <2>8
<1> QED
  BY <1>4, <1>5, <1>6

-----------------------------------------------------------------------------
(* Compatible types.                                                       *)

Relations(h) == [(DOMAIN h) \X (DOMAIN h) -> BOOLEAN]

\* isCompatible down to each depth.
CompatibleTo(h) ==
  LET compatible[n \in 0..Len(h)] ==
        [p \in (DOMAIN h) \X (DOMAIN h) |->
           n > 0 /\ CompatibleAt(h, p[1], p[2], compatible[n - 1])]
  IN compatible

Deepens(c, h) ==
  /\ c \in [0..Len(h) -> Relations(h)]
  /\ c[0] = [p \in (DOMAIN h) \X (DOMAIN h) |-> FALSE]
  /\ \A n \in 1..Len(h) :
       c[n] = [p \in (DOMAIN h) \X (DOMAIN h) |-> CompatibleAt(h, p[1], p[2], c[n - 1])]

\* The recursive function that decides compatibility has the values it is defined by.
LEMMA CompatibleDeepens ==
  ASSUME NEW h, h \in Seq(Objects)
  PROVE  Deepens(CompatibleTo(h), h)
<1> DEFINE P == (DOMAIN h) \X (DOMAIN h)
           At(below) == [p \in P |-> CompatibleAt(h, p[1], p[2], below)]
           z == [p \in P |-> FALSE]
           S == [P -> BOOLEAN]
           N == Len(h)
           step == [q \in (1..N) \X S |-> At(q[2])]
           compatible == CHOOSE compatible :
             compatible = [n \in 0..N |-> [p \in P |-> n > 0 /\ CompatibleAt(h, p[1], p[2], compatible[n - 1])]]
<1>1. CompatibleTo(h) = compatible
  BY DEF CompatibleTo
<1>2. N \in Nat
  OBVIOUS
<1>3. \A below : At(below) \in S
  <2>1. ASSUME NEW below, NEW p PROVE CompatibleAt(h, p[1], p[2], below) \in BOOLEAN
    BY DEF CompatibleAt
  <2> QED
    BY <2>1
<1>4. z \in S
  OBVIOUS
<1>5. \A below, n : n > 0 => [p \in P |-> n > 0 /\ CompatibleAt(h, p[1], p[2], below)] = At(below)
  <2>1. ASSUME NEW below, NEW n, n > 0
        PROVE  [p \in P |-> n > 0 /\ CompatibleAt(h, p[1], p[2], below)] = At(below)
    <3>1. \A p \in P : (n > 0 /\ CompatibleAt(h, p[1], p[2], below)) = CompatibleAt(h, p[1], p[2], below)
      <4>1. ASSUME NEW p PROVE CompatibleAt(h, p[1], p[2], below) \in BOOLEAN
        BY DEF CompatibleAt
      <4> QED
        BY <4>1, <2>1
    <3> QED
      BY <3>1
  <2> QED
    BY <2>1
<1>6. \A below : [p \in P |-> 0 > 0 /\ CompatibleAt(h, p[1], p[2], below)] = z
  <2>1. (0 > 0) = FALSE
    OBVIOUS
  <2>2. \A below, p : (0 > 0 /\ CompatibleAt(h, p[1], p[2], below)) = FALSE
    BY <2>1, Zenon
  <2> QED
    BY <2>2, Zenon
<1> HIDE DEF P, At, z, S, N
<1>7. step \in Steps(N, S)
  BY <1>3 DEF Steps
<1> HIDE DEF step
<1>8. PICK f : Follows(f, z, N, S, step)
  BY <1>2, <1>4, <1>7, RecursionExists
<1>9. f \in [0..N -> S] /\ f[0] = z /\ \A n \in 1..N : f[n] = At(f[n - 1])
  <2>1. \A n \in 1..N : step[<<n, f[n - 1]>>] = At(f[n - 1])
    BY <1>2, <1>8 DEF step, Follows
  <2> QED
    BY <1>8, <2>1 DEF Follows
<1>10. f = [n \in 0..N |-> [p \in P |-> n > 0 /\ CompatibleAt(h, p[1], p[2], f[n - 1])]]
  <2>1. \A n \in 0..N : f[n] = [p \in P |-> n > 0 /\ CompatibleAt(h, p[1], p[2], f[n - 1])]
    <3>1. SUFFICES ASSUME NEW n \in 0..N
                   PROVE  f[n] = [p \in P |-> n > 0 /\ CompatibleAt(h, p[1], p[2], f[n - 1])]
      OBVIOUS
    <3>2. CASE n = 0
      BY <1>6, <1>9, <3>2
    <3>3. CASE n # 0
      <4>1. n \in 1..N /\ n > 0
        BY <1>2, <3>3
      <4> QED
        BY <1>5, <1>9, <4>1
    <3> QED
      BY <3>2, <3>3
  <2> QED
    BY <1>9, <2>1
<1>11. compatible = [n \in 0..N |-> [p \in P |-> n > 0 /\ CompatibleAt(h, p[1], p[2], compatible[n - 1])]]
  BY <1>10
<1> HIDE DEF compatible
<1>12. compatible[0] = z
  <2> DEFINE Level(n) == [p \in P |-> n > 0 /\ CompatibleAt(h, p[1], p[2], compatible[n - 1])]
  <2>0. compatible = [n \in 0..N |-> Level(n)]
    BY <1>11, Zenon
  <2>2. 0 \in 0..N
    BY <1>2
  <2>1. compatible[0] = [p \in P |-> 0 > 0 /\ CompatibleAt(h, p[1], p[2], compatible[0 - 1])]
    <3>1. Level(0) = [p \in P |-> 0 > 0 /\ CompatibleAt(h, p[1], p[2], compatible[0 - 1])]
      BY Zenon
    <3> HIDE DEF Level
    <3> QED
      BY <2>0, <2>2, <3>1
  <2> QED
    BY <1>6, <2>1
<1>13. ASSUME NEW n \in 1..N PROVE compatible[n] = At(compatible[n - 1])
  <2>1. compatible[n] = [p \in P |-> n > 0 /\ CompatibleAt(h, p[1], p[2], compatible[n - 1])]
    BY <1>2, <1>11
  <2>2. n > 0
    BY <1>2
  <2> QED
    BY <1>5, <2>1, <2>2
<1>14. compatible \in [0..N -> S]
  <2>1. \A n \in 0..N : compatible[n] \in S
    <3>1. ASSUME NEW n \in 0..N PROVE compatible[n] \in S
      <4>1. n = 0 \/ n \in 1..N
        BY <1>2
      <4> QED
        BY <1>3, <1>4, <1>12, <1>13, <4>1
    <3> QED
      BY <3>1
  <2>2. DOMAIN compatible = 0..N /\ compatible = [n \in DOMAIN compatible |-> compatible[n]]
    BY <1>11
  <2> QED
    BY <2>1, <2>2
<1>15. /\ compatible \in [0..N -> [P -> BOOLEAN]]
       /\ compatible[0] = [p \in P |-> FALSE]
       /\ \A n \in 1..N : compatible[n] = [p \in P |-> CompatibleAt(h, p[1], p[2], compatible[n - 1])]
  BY <1>12, <1>13, <1>14 DEF At, z, S
<1> HIDE DEF compatible
<1>16. PICK c : c = compatible
  OBVIOUS
<1>17. Deepens(c, h)
  BY <1>15, <1>16 DEF Deepens, Relations, P, N
<1> QED
  BY <1>1, <1>16, <1>17, Zenon

\* c decides alike in both directions.
Symmetric(c, h) == \A s, t \in Proper(h) : c[<<s, t>>] = c[<<t, s>>]

\* isCompatibleFunction exchanges its operands when only the second has a prototype.
LEMMA FunctionsSymmetric ==
  ASSUME NEW h, GoodHeap(h), NEW c, Symmetric(c, h), NEW f \in Proper(h), NEW g \in Proper(h),
         h[f].categ = T_FUNCTION, h[g].categ = T_FUNCTION
  PROVE  CompatibleFunction(h, f, g, c) = CompatibleFunction(h, g, f, c)
<1> DEFINE s == h[f].sig
           t == h[g].sig
           Each(ps, qs) == Len(ps) = Len(qs) /\ \A i \in DOMAIN ps : c[<<ps[i], qs[i]>>]
<1>1. c[<<h[f].bty, h[g].bty>>] = c[<<h[g].bty, h[f].bty>>]
  BY BaseProper DEF Symmetric
<1>2. s.params \in Seq(Nat) /\ t.params \in Seq(Nat) /\ s.proto \in BOOLEAN /\ t.proto \in BOOLEAN
      /\ s.ellipse \in BOOLEAN /\ t.ellipse \in BOOLEAN
  BY ObjectAt DEF GoodHeap, Proper
<1>3. Each(s.params, t.params) = Each(t.params, s.params)
  <2>1. /\ \A i \in DOMAIN s.params : s.params[i] \in Proper(h)
        /\ \A i \in DOMAIN t.params : t.params[i] \in Proper(h)
    BY BaseProper
  <2>2. Len(s.params) = Len(t.params) =>
          \A i \in DOMAIN s.params : i \in DOMAIN t.params /\ c[<<s.params[i], t.params[i]>>] = c[<<t.params[i], s.params[i]>>]
    BY <1>2, <2>1 DEF Symmetric
  <2>3. Len(s.params) = Len(t.params) => DOMAIN s.params = DOMAIN t.params
    BY <1>2
  <2> HIDE DEF s, t
  <2> QED
    BY <2>2, <2>3
<1>4. CASE s.proto /\ t.proto
  <2>1. CompatibleFunction(h, f, g, c) =
          (c[<<h[f].bty, h[g].bty>>] /\ s.ellipse = t.ellipse /\ Each(s.params, t.params))
    BY <1>4 DEF CompatibleFunction
  <2>2. CompatibleFunction(h, g, f, c) =
          (c[<<h[g].bty, h[f].bty>>] /\ t.ellipse = s.ellipse /\ Each(t.params, s.params))
    BY <1>4 DEF CompatibleFunction
  <2> HIDE DEF Each, s, t
  <2> QED
    BY <1>1, <1>3, <2>1, <2>2
<1>5. CASE ~s.proto /\ ~t.proto
  BY <1>1, <1>5 DEF CompatibleFunction
<1>6. CASE s.proto /\ ~t.proto
  BY <1>1, <1>6 DEF CompatibleFunction
<1>7. CASE ~s.proto /\ t.proto
  BY <1>1, <1>7 DEF CompatibleFunction
<1> QED
  BY <1>2, <1>4, <1>5, <1>6, <1>7

\* What holds one level down for both orders holds here for both.
LEMMA TypesSymmetric ==
  ASSUME NEW h, GoodHeap(h), NEW c, Symmetric(c, h), NEW s \in Proper(h), NEW t \in Proper(h)
  PROVE  CompatibleAt(h, s, t, c) = CompatibleAt(h, t, s, c)
<1> DEFINE u == UnqualIn(h, s)
           v == UnqualIn(h, t)
<1>1. u \in Proper(h) /\ v \in Proper(h)
  BY BaseProper
<1>2. /\ h[u].categ \in {T_POINTER, T_ARRAY} /\ h[v].categ \in {T_POINTER, T_ARRAY} =>
           c[<<h[u].bty, h[v].bty>>] = c[<<h[v].bty, h[u].bty>>]
  BY <1>1, BaseProper DEF Symmetric
<1>3. h[u].categ = T_FUNCTION /\ h[v].categ = T_FUNCTION =>
         CompatibleFunction(h, u, v, c) = CompatibleFunction(h, v, u, c)
  BY <1>1, FunctionsSymmetric
<1> DEFINE Same(x, y) ==
      CASE h[x].categ = T_POINTER -> c[<<h[x].bty, h[y].bty>>]
        [] h[x].categ = T_ARRAY -> c[<<h[x].bty, h[y].bty>>] /\ (h[x].size = h[y].size \/ h[x].size = 0 \/ h[y].size = 0)
        [] h[x].categ = T_FUNCTION -> CompatibleFunction(h, x, y, c)
        [] OTHER -> x = y
<1>4. h[u].categ = h[v].categ => Same(u, v) = Same(v, u)
  <2> SUFFICES ASSUME h[u].categ = h[v].categ PROVE Same(u, v) = Same(v, u)
    OBVIOUS
  <2>0. T_POINTER # T_ARRAY /\ T_POINTER # T_FUNCTION /\ T_ARRAY # T_FUNCTION
    BY DEF T_POINTER, T_ARRAY, T_FUNCTION
  <2> HIDE DEF u, v
  <2>1. CASE h[u].categ = T_POINTER
    BY <1>2, <2>0, <2>1
  <2>2. CASE h[u].categ = T_ARRAY
    BY <1>2, <2>0, <2>2
  <2>3. CASE h[u].categ = T_FUNCTION
    BY <1>3, <2>0, <2>3
  <2>4. CASE h[u].categ \notin {T_POINTER, T_ARRAY, T_FUNCTION}
    BY <2>4
  <2> QED
    BY <2>1, <2>2, <2>3, <2>4
<1>5. CompatibleAt(h, s, t, c) =
        (\/ s = t
         \/ /\ h[s].qual = h[t].qual
            /\ \/ h[u].categ = T_ENUM /\ v = h[u].bty
               \/ h[v].categ = T_ENUM /\ u = h[v].bty
               \/ h[u].categ = h[v].categ /\ Same(u, v))
  BY DEF CompatibleAt
<1>6. CompatibleAt(h, t, s, c) =
        (\/ t = s
         \/ /\ h[t].qual = h[s].qual
            /\ \/ h[v].categ = T_ENUM /\ u = h[v].bty
               \/ h[u].categ = T_ENUM /\ v = h[u].bty
               \/ h[v].categ = h[u].categ /\ Same(v, u))
  BY DEF CompatibleAt
<1> HIDE DEF Same, u, v
<1> QED
  BY <1>4, <1>5, <1>6

\* Compatibility is symmetric, by induction on the depth.
LEMMA AlwaysSymmetric ==
  ASSUME NEW h, GoodHeap(h), NEW s \in Proper(h), NEW t \in Proper(h)
  PROVE  CompatibleIn(h, s, t) = CompatibleIn(h, t, s)
<1> DEFINE c == CompatibleTo(h)
           D == {n \in 0..Len(h) : ~Symmetric(c[n], h)}
<1>1. h \in Seq(Objects) /\ Len(h) \in Nat
  BY DEF GoodHeap
<1>2. Deepens(c, h)
  BY <1>1, CompatibleDeepens
<1>3. Proper(h) \subseteq DOMAIN h
  BY DEF Proper
<1>4. D = {}
  <2>1. SUFFICES ASSUME D # {} PROVE FALSE
    OBVIOUS
  <2>2. D \in SUBSET Nat
    OBVIOUS
  <2>3. PICK n \in D : \A k \in D : n <= k
    BY <2>1, <2>2, LeastNat
  <2> HIDE DEF c
  <2>4. n # 0
    <3>1. \A x, y \in Proper(h) : c[0][<<x, y>>] = FALSE
      BY <1>2, <1>3 DEF Deepens
    <3>2. Symmetric(c[0], h)
      BY <3>1, Zenon DEF Symmetric
    <3> QED
      BY <2>3, <3>2
  <2>5. n \in 1..Len(h) /\ n - 1 \in 0..Len(h) /\ n - 1 \notin D
    BY <1>1, <2>3, <2>4
  <2>6. Symmetric(c[n - 1], h)
    BY <2>5
  <2>7. \A x, y \in Proper(h) : c[n][<<x, y>>] = CompatibleAt(h, x, y, c[n - 1])
    <3>1. ASSUME NEW x \in Proper(h), NEW y \in Proper(h)
          PROVE  c[n][<<x, y>>] = CompatibleAt(h, x, y, c[n - 1])
      <4>1. c[n] = [p \in (DOMAIN h) \X (DOMAIN h) |-> CompatibleAt(h, p[1], p[2], c[n - 1])]
        BY <1>2, <2>5 DEF Deepens
      <4>2. <<x, y>> \in (DOMAIN h) \X (DOMAIN h)
        BY <1>3
      <4>3. c[n][<<x, y>>] = CompatibleAt(h, <<x, y>>[1], <<x, y>>[2], c[n - 1])
        BY <4>1, <4>2, Zenon
      <4> QED
        BY <4>3
    <3> QED
      BY <3>1
  <2>8. Symmetric(c[n], h)
    <3>1. ASSUME NEW x \in Proper(h), NEW y \in Proper(h) PROVE c[n][<<x, y>>] = c[n][<<y, x>>]
      <4>1. CompatibleAt(h, x, y, c[n - 1]) = CompatibleAt(h, y, x, c[n - 1])
        BY <2>6, TypesSymmetric
      <4> QED
        BY <2>7, <4>1
    <3> QED
      BY <3>1 DEF Symmetric
  <2> QED
    BY <2>3, <2>8
<1>5. CompatibleIn(h, s, t) = c[Len(h)][<<s, t>>] /\ CompatibleIn(h, t, s) = c[Len(h)][<<t, s>>]
  BY DEF CompatibleIn, CompatibleTo
<1> HIDE DEF c
<1>6. Symmetric(c[Len(h)], h)
  BY <1>1, <1>4
<1> QED
  BY <1>5, <1>6 DEF Symmetric

\* Two types that are compatible look alike: what compositeType relies on.
LEMMA CompatibleLooks ==
  ASSUME NEW h, GoodHeap(h), NEW s \in Proper(h), NEW t \in Proper(h), CompatibleIn(h, s, t)
  PROVE  \/ h[s].categ = T_ENUM \/ h[t].categ = T_ENUM
         \/ /\ h[s].categ = h[t].categ
            /\ h[s].categ = T_FUNCTION /\ h[s].sig.proto /\ h[t].sig.proto =>
                 Len(h[s].sig.params) = Len(h[t].sig.params)
<1> DEFINE c == CompatibleTo(h)
<1>1. h \in Seq(Objects) /\ Len(h) \in Nat /\ Len(h) # 0
  <2>1. h \in Seq(Objects) /\ s \in DOMAIN h
    BY DEF GoodHeap, Proper
  <2> QED
    BY <2>1
<1>2. Deepens(c, h)
  BY <1>1, CompatibleDeepens
<1>3. CompatibleIn(h, s, t) = c[Len(h)][<<s, t>>]
  BY DEF CompatibleIn, CompatibleTo
<1> HIDE DEF c
<1>4. CompatibleAt(h, s, t, c[Len(h) - 1])
  <2>1. c[Len(h)] = [p \in (DOMAIN h) \X (DOMAIN h) |-> CompatibleAt(h, p[1], p[2], c[Len(h) - 1])]
    <3>1. Len(h) \in 1..Len(h)
      BY <1>1
    <3> QED
      BY <1>2, <3>1 DEF Deepens
  <2>2. <<s, t>> \in (DOMAIN h) \X (DOMAIN h)
    BY DEF Proper
  <2>3. c[Len(h)][<<s, t>>] = CompatibleAt(h, <<s, t>>[1], <<s, t>>[2], c[Len(h) - 1])
    BY <2>1, <2>2, Zenon
  <2> QED
    BY <1>3, <2>3
<1>5. /\ h[UnqualIn(h, s)].categ = h[s].categ /\ h[UnqualIn(h, t)].categ = h[t].categ
  BY BaseProper
<1>6. h[s].categ = T_FUNCTION => UnqualIn(h, s) = s
  BY DEF GoodHeap, Proper, WellBuilt, UnqualIn
<1>7. h[t].categ = T_FUNCTION => UnqualIn(h, t) = t
  BY DEF GoodHeap, Proper, WellBuilt, UnqualIn
<1>8. CASE s = t
  BY <1>8
<1>9. CASE s # t /\ h[s].categ # T_ENUM /\ h[t].categ # T_ENUM
  <2>1. h[s].categ = h[t].categ
    BY <1>4, <1>5, <1>9 DEF CompatibleAt
  <2>2. ASSUME h[s].categ = T_FUNCTION, h[s].sig.proto, h[t].sig.proto
        PROVE  Len(h[s].sig.params) = Len(h[t].sig.params)
    <3>1. CompatibleFunction(h, s, t, c[Len(h) - 1])
      <4>1. UnqualIn(h, s) = s /\ UnqualIn(h, t) = t
        BY <1>6, <1>7, <2>1, <2>2
      <4>2. /\ h[s].categ = T_FUNCTION /\ h[t].categ = T_FUNCTION
            /\ T_FUNCTION # T_POINTER /\ T_FUNCTION # T_ARRAY /\ T_FUNCTION # T_ENUM
        BY <2>1, <2>2 DEF T_FUNCTION, T_POINTER, T_ARRAY, T_ENUM
      <4> QED
        BY <1>4, <1>9, <4>1, <4>2, Zenon DEF CompatibleAt
    <3> QED
      BY <2>2, <3>1 DEF CompatibleFunction
  <2> QED
    BY <2>1, <2>2
<1> QED
  BY <1>8, <1>9

-----------------------------------------------------------------------------
(* What grows a heap.                                                      *)

\* What every step but those on records keeps of the types there are, and what
\* the new ones are not.
Grown(h, k) ==
  /\ Len(h) <= Len(k)
  /\ \A t \in DOMAIN h :
       /\ k[t].categ = h[t].categ /\ k[t].qual = h[t].qual
       /\ k[t].align = h[t].align /\ k[t].size = h[t].size
       /\ k[t].flds = h[t].flds
       /\ k[t].sig.proto = h[t].sig.proto /\ Len(k[t].sig.params) = Len(h[t].sig.params)
  /\ \A t \in DOMAIN k \ DOMAIN h : ~(IsRecord(k[t]) /\ k[t].qual = {}) /\ k[t].flds = << >>

\* No step, no change.
LEMMA GrownSelf == ASSUME NEW h PROVE Len(h) \in Nat => Grown(h, h)
BY DEF Grown

\* Types stay.
LEMMA GrownDomain ==
  ASSUME NEW h \in Seq(Objects), NEW k \in Seq(Objects), Grown(h, k)
  PROVE  DOMAIN h \subseteq DOMAIN k /\ Proper(h) \subseteq Proper(k)
BY DEF Grown, Proper

\* Two steps are one.
LEMMA GrownTwice ==
  ASSUME NEW h \in Seq(Objects), NEW k \in Seq(Objects), NEW l \in Seq(Objects), Grown(h, k), Grown(k, l)
  PROVE  Grown(h, l)
<1>1. DOMAIN h \subseteq DOMAIN k /\ DOMAIN k \subseteq DOMAIN l
  BY GrownDomain
<1>2. Len(h) <= Len(l)
  BY DEF Grown
<1>3. ASSUME NEW t \in DOMAIN h
      PROVE  /\ l[t].categ = h[t].categ /\ l[t].qual = h[t].qual
             /\ l[t].align = h[t].align /\ l[t].size = h[t].size
             /\ l[t].flds = h[t].flds
             /\ l[t].sig.proto = h[t].sig.proto /\ Len(l[t].sig.params) = Len(h[t].sig.params)
  <2>1. t \in DOMAIN k
    BY <1>1
  <2> QED
    BY <2>1 DEF Grown
<1>4. ASSUME NEW t \in DOMAIN l \ DOMAIN h PROVE ~(IsRecord(l[t]) /\ l[t].qual = {}) /\ l[t].flds = << >>
  <2>1. CASE t \in DOMAIN k
    <3>1. ~(IsRecord(k[t]) /\ k[t].qual = {}) /\ k[t].flds = << >>
      BY <1>4, <2>1 DEF Grown
    <3>2. l[t].categ = k[t].categ /\ l[t].qual = k[t].qual /\ l[t].flds = k[t].flds
      BY <2>1 DEF Grown
    <3> QED
      BY <3>1, <3>2 DEF IsRecord
  <2>2. CASE t \notin DOMAIN k
    BY <1>4, <2>2 DEF Grown
  <2> QED
    BY <2>1, <2>2
<1> QED
  BY <1>2, <1>3, <1>4 DEF Grown

\* A type that is not changed stays well built.
LEMMA StaysBuilt ==
  ASSUME NEW h \in Seq(Objects), NEW k \in Seq(Objects), Grown(h, k),
         NEW t \in DOMAIN h, k[t] = h[t], WellBuilt(h, t)
  PROVE  WellBuilt(k, t)
<1>1. Proper(h) \subseteq Proper(k)
  BY GrownDomain
<1>2. \A b \in Proper(h) : k[b].qual = h[b].qual /\ k[b].categ = h[b].categ
  BY DEF Grown, Proper
<1> QED
  BY <1>1, <1>2 DEF WellBuilt

\* A derived type grows the heap.
LEMMA NewTypeGrows ==
  ASSUME NEW h, GoodHeap(h), NEW ty \in Objects, ~(IsRecord(ty) /\ ty.qual = {}), ty.flds = << >>,
         WellBuilt(Append(h, ty), Len(h) + 1)
  PROVE  /\ GoodHeap(Append(h, ty)) /\ Grown(h, Append(h, ty))
         /\ Len(Append(h, ty)) = Len(h) + 1 /\ Append(h, ty)[Len(h) + 1] = ty
         /\ Len(h) + 1 \in Proper(Append(h, ty))
<1> DEFINE k == Append(h, ty)
<1>1. h \in Seq(Objects) /\ Len(h) \in Nat /\ DOMAIN h = 1..Len(h)
  BY DEF GoodHeap
<1>2. k \in Seq(Objects) /\ Len(k) = Len(h) + 1 /\ DOMAIN k = 1..Len(h) + 1 /\ k[Len(h) + 1] = ty
      /\ \A t \in DOMAIN h : k[t] = h[t]
  BY <1>1
<1> HIDE DEF k
<1>3. Grown(h, k)
  <2>1. \A t \in DOMAIN k \ DOMAIN h : t = Len(h) + 1
    BY <1>1, <1>2
  <2>2. Len(h) <= Len(k)
    BY <1>1, <1>2
  <2> QED
    BY <1>2, <2>1, <2>2 DEF Grown
<1>4. \A t \in DOMAIN k : WellBuilt(k, t)
  <2>1. SUFFICES ASSUME NEW t \in DOMAIN k PROVE WellBuilt(k, t)
    OBVIOUS
  <2>2. CASE t \in DOMAIN h
    BY <1>1, <1>2, <1>3, <2>2, StaysBuilt DEF GoodHeap
  <2>3. CASE t \notin DOMAIN h
    <3>1. t = Len(h) + 1
      BY <1>1, <1>2, <2>3
    <3> QED
      BY <3>1 DEF k
  <2> QED
    BY <2>2, <2>3
<1>5. \A t \in DOMAIN Builtins : t \in DOMAIN k /\ k[t] = Builtins[t]
  <2>1. \A t \in DOMAIN Builtins : t \in DOMAIN h /\ h[t] = Builtins[t]
    BY DEF GoodHeap
  <2>2. DOMAIN h \subseteq DOMAIN k
    BY <1>1, <1>2
  <2> QED
    BY <1>2, <2>1, <2>2
<1>6. GoodHeap(k)
  BY <1>2, <1>4, <1>5 DEF GoodHeap
<1>7. Len(h) + 1 \in Proper(k)
  <2>1. type(T_POINTER) \in DOMAIN h
    <3>1. type(T_POINTER) \in DOMAIN Builtins
      BY BuiltinTypes DEF T_POINTER
    <3> QED
      BY <3>1 DEF GoodHeap
  <2>2. Len(h) + 1 \notin DOMAIN h /\ Len(h) + 1 \in DOMAIN k
    BY <1>1, <1>2
  <2> QED
    BY <2>1, <2>2 DEF Proper
<1> QED
  BY <1>2, <1>3, <1>6, <1>7 DEF k

\* A pointer.
LEMMA PointerFields ==
  ASSUME NEW p
  PROVE  PointerType(p) =
           [categ |-> T_POINTER, qual |-> {}, align |-> IntSize, size |-> IntSize, bty |-> p,
            sig |-> NoSignature, flds |-> << >>]
<1>1. NewType(T_POINTER) =
        [categ |-> T_POINTER, qual |-> {}, align |-> 0, size |-> 0, bty |-> Null,
         sig |-> NoSignature, flds |-> << >>]
  BY DEF NewType
<1> DEFINE n == NewType(T_POINTER)
<1>2. PointerType(p) = [n EXCEPT !.size = IntSize, !.align = IntSize, !.bty = p]
  BY DEF PointerType, Sized
<1> HIDE DEF n, T_POINTER, IntSize, NoSignature, Null
<1>3. n = [categ |-> T_POINTER, qual |-> {}, align |-> 0, size |-> 0, bty |-> Null,
           sig |-> NoSignature, flds |-> << >>]
  BY <1>1 DEF n
<1> QED
  BY <1>2, <1>3

\* A pointer type with qualifiers.
QualifiedPointer(p, q) == [PointerType(p) EXCEPT !.qual = q]

\* A qualified pointer.
LEMMA QualifiedFields ==
  ASSUME NEW p, NEW q
  PROVE  QualifiedPointer(p, q) =
           [categ |-> T_POINTER, qual |-> q, align |-> IntSize, size |-> IntSize, bty |-> p,
            sig |-> NoSignature, flds |-> << >>]
<1> DEFINE n == PointerType(p)
<1>1. n = [categ |-> T_POINTER, qual |-> {}, align |-> IntSize, size |-> IntSize, bty |-> p,
           sig |-> NoSignature, flds |-> << >>]
  BY PointerFields
<1>2. QualifiedPointer(p, q) = [n EXCEPT !.qual = q]
  BY DEF QualifiedPointer
<1> HIDE DEF n, T_POINTER, IntSize, NoSignature
<1> QED
  BY <1>1, <1>2

\* A pointer is one without qualifiers.
LEMMA PointerIsQualified ==
  ASSUME NEW p
  PROVE  PointerType(p) = QualifiedPointer(p, {})
BY PointerFields, QualifiedFields

\* A pointer is an object.
LEMMA PointerObject ==
  ASSUME NEW p \in Nat, NEW q \in SUBSET Quals
  PROVE  LET ty == QualifiedPointer(p, q)
         IN /\ ty \in Objects /\ ty.categ = T_POINTER /\ ty.qual = q /\ ty.bty = p
            /\ ty.size = IntSize /\ ty.align = IntSize /\ ty.flds = << >> /\ ty.sig = NoSignature
<1>1. T_POINTER \in Nat /\ IntSize \in Nat
  BY DEF T_POINTER, IntSize
<1>2. NoSignature \in Signatures /\ << >> \in Seq(Fields)
  BY DEF NoSignature, Signatures
<1>3. QualifiedPointer(p, q) =
        [categ |-> T_POINTER, qual |-> q, align |-> IntSize, size |-> IntSize, bty |-> p,
         sig |-> NoSignature, flds |-> << >>]
  BY QualifiedFields
<1> HIDE DEF T_POINTER, IntSize, NoSignature
<1> QED
  BY <1>1, <1>2, <1>3 DEF Objects

\* A pointer is built as the context builds it.
LEMMA PointerBuilt ==
  ASSUME NEW k, NEW t, NEW q, k[t].categ = T_POINTER, k[t].qual = q, k[t].bty \in Proper(k),
         k[t].size = IntSize, k[t].align = IntSize, k[t].sig = NoSignature,
         q # {} => k[k[t].bty].qual = {} /\ k[k[t].bty].categ = T_POINTER
  PROVE  WellBuilt(k, t)
BY DEF WellBuilt, T_POINTER, T_FUNCTION, T_LONGDOUBLE, T_ENUM, IntSize, Aligns, NoSignature

\* A new pointer grows the heap.
LEMMA NewPointerGrows ==
  ASSUME NEW h, GoodHeap(h), NEW p \in Proper(h), NEW q \in SUBSET Quals,
         q # {} => h[p].qual = {} /\ h[p].categ = T_POINTER
  PROVE  LET k == Append(h, QualifiedPointer(p, q))
         IN /\ GoodHeap(k) /\ Grown(h, k) /\ Len(k) = Len(h) + 1 /\ Len(k) \in Proper(k)
            /\ k[Len(k)].categ = T_POINTER /\ k[Len(k)].qual = q
<1> DEFINE ty == QualifiedPointer(p, q)
           k == Append(h, ty)
<1>1. h \in Seq(Objects) /\ Len(h) \in Nat /\ DOMAIN h = 1..Len(h) /\ p \in DOMAIN h /\ p \in Nat
  BY DEF GoodHeap, Proper
<1>2. /\ ty \in Objects /\ ty.categ = T_POINTER /\ ty.qual = q /\ ty.bty = p
      /\ ty.size = IntSize /\ ty.align = IntSize /\ ty.flds = << >> /\ ty.sig = NoSignature
  BY <1>1, PointerObject
<1> HIDE DEF ty
<1>3. /\ k[Len(h) + 1] = ty /\ p \in Proper(k) /\ k[p] = h[p]
  BY <1>1, <1>2 DEF Proper
<1>4. WellBuilt(k, Len(h) + 1)
  <2> HIDE DEF k
  <2> QED
    BY <1>2, <1>3, PointerBuilt
<1>5. ~IsRecord(ty)
  BY <1>2 DEF IsRecord, T_POINTER, T_STRUCT, T_UNION
<1> QED
  BY <1>2, <1>4, <1>5, NewTypeGrows DEF ty

\* A function type may be completed where it stands.
WithType(h, f, ty) == [h EXCEPT ![f] = ty]

\* A function type is completed where it stands, with as many parameters.
LEMMA CompletedGrows ==
  ASSUME NEW h, GoodHeap(h), NEW f \in Proper(h), h[f].categ = T_FUNCTION,
         NEW ty \in Objects,
         ty.categ = T_FUNCTION, ty.qual = h[f].qual, ty.align = h[f].align, ty.size = h[f].size,
         ty.flds = h[f].flds, ty.sig.proto = h[f].sig.proto,
         Len(ty.sig.params) = Len(h[f].sig.params),
         ty.bty \in Proper(h), \A i \in DOMAIN ty.sig.params : ty.sig.params[i] \in Proper(h)
  PROVE  LET k == WithType(h, f, ty)
         IN GoodHeap(k) /\ Grown(h, k) /\ Proper(k) = Proper(h)
<1> DEFINE k == WithType(h, f, ty)
<1>1. h \in Seq(Objects) /\ Len(h) \in Nat /\ DOMAIN h = 1..Len(h) /\ f \in DOMAIN h /\ WellBuilt(h, f)
      /\ f # type(T_POINTER)
  BY DEF GoodHeap, Proper
<1>2. k \in Seq(Objects) /\ Len(k) = Len(h) /\ DOMAIN k = DOMAIN h /\ k[f] = ty
      /\ \A t \in DOMAIN h : t # f => k[t] = h[t]
  BY <1>1 DEF WithType
<1> HIDE DEF k
<1>3. Proper(k) = Proper(h)
  BY <1>2 DEF Proper
<1>4. Grown(h, k)
  <2>1. Len(h) <= Len(k)
    BY <1>1, <1>2
  <2>2. ASSUME NEW t \in DOMAIN h
        PROVE  /\ k[t].categ = h[t].categ /\ k[t].qual = h[t].qual
               /\ k[t].align = h[t].align /\ k[t].size = h[t].size
               /\ k[t].flds = h[t].flds
               /\ k[t].sig.proto = h[t].sig.proto /\ Len(k[t].sig.params) = Len(h[t].sig.params)
    BY <1>2
  <2> QED
    BY <1>2, <2>1, <2>2 DEF Grown
<1>5. ASSUME NEW t \in DOMAIN k PROVE WellBuilt(k, t)
  <2>1. CASE t = f
    <3>1. h[f].qual = {}
      BY <1>1 DEF WellBuilt
    <3>2. h[f].align \in Aligns /\ (h[f].size # 0 => h[f].align # 0)
      BY <1>1 DEF WellBuilt
    <3>3. ty.categ \notin 0..T_LONGDOUBLE /\ ty.categ # T_ARRAY
      BY DEF T_FUNCTION, T_LONGDOUBLE, T_ARRAY
    <3> QED
      BY <1>2, <1>3, <2>1, <3>1, <3>2, <3>3 DEF WellBuilt
  <2>2. CASE t # f
    BY <1>1, <1>2, <1>4, <1>5, <2>2, StaysBuilt DEF GoodHeap
  <2> QED
    BY <2>1, <2>2
<1>6. ASSUME NEW t \in DOMAIN Builtins PROVE t \in DOMAIN k /\ k[t] = Builtins[t]
  <2>1. h[t] = Builtins[t] /\ t \in DOMAIN h
    BY <1>6 DEF GoodHeap
  <2>2. Builtins[t].categ = t - 1 /\ t \in 1..16
    BY DEF Builtins, Sized, NewType
  <2>3. t # f
    BY <2>1, <2>2 DEF T_FUNCTION
  <2> QED
    BY <1>2, <2>1, <2>3
<1>7. GoodHeap(k)
  BY <1>2, <1>5, <1>6 DEF GoodHeap
<1> QED
  BY <1>3, <1>4, <1>7 DEF k

-----------------------------------------------------------------------------
(* compositeType() grows the heap.                                         *)

\* An assertion failed, or there is a composite in a heap that has grown.
Composed(r, h) ==
  r.ty = Null \/ (GoodHeap(r.heap) /\ Grown(h, r.heap) /\ r.ty \in Proper(r.heap))

Composes(below) ==
  \A h : GoodHeap(h) => \A s, t \in Proper(h) : Composed(below[<<h, s, t>>], h)

\* A composite in a heap that has grown.
LEMMA ComposedAgain ==
  ASSUME NEW h, GoodHeap(h), NEW k, GoodHeap(k), Grown(h, k), NEW r, Composed(r, k)
  PROVE  Composed(r, h)
<1>1. CASE r.ty = Null
  BY <1>1 DEF Composed
<1>2. CASE r.ty # Null
  <2>1. GoodHeap(r.heap) /\ Grown(k, r.heap) /\ r.ty \in Proper(r.heap)
    BY <1>2 DEF Composed
  <2>2. h \in Seq(Objects) /\ k \in Seq(Objects) /\ r.heap \in Seq(Objects)
    BY <2>1 DEF GoodHeap
  <2>3. Grown(h, r.heap)
    BY <2>1, <2>2, GrownTwice
  <2> QED
    BY <2>1, <2>3 DEF Composed
<1> QED
  BY <1>1, <1>2

WithBase(h, f, b) == [h EXCEPT ![f].bty = b]

\* A function type gets a composite return type.
LEMMA BaseCompleted ==
  ASSUME NEW h, GoodHeap(h), NEW f \in Proper(h), h[f].categ = T_FUNCTION, NEW b \in Proper(h)
  PROVE  LET k == WithBase(h, f, b)
         IN GoodHeap(k) /\ Grown(h, k) /\ Proper(k) = Proper(h)
<1> DEFINE o == h[f]
           ty == [categ |-> o.categ, qual |-> o.qual, align |-> o.align, size |-> o.size,
                  bty |-> b, sig |-> o.sig, flds |-> o.flds]
<1>1. h \in Seq(Objects) /\ f \in DOMAIN h /\ b \in Nat
  <2>1. h \in Seq(Objects) /\ f \in DOMAIN h /\ b \in DOMAIN h
    BY DEF GoodHeap, Proper
  <2> QED
    BY <2>1
<1>2. /\ o = [categ |-> o.categ, qual |-> o.qual, align |-> o.align, size |-> o.size,
              bty |-> o.bty, sig |-> o.sig, flds |-> o.flds]
      /\ o.categ \in Nat /\ o.qual \in SUBSET Quals /\ o.align \in Nat /\ o.size \in Nat
      /\ o.sig \in Signatures /\ o.flds \in Seq(Fields)
  BY <1>1, ObjectAt
<1>3. \A i \in DOMAIN o.sig.params : o.sig.params[i] \in Proper(h)
  BY BaseProper
<1>4. o.categ = T_FUNCTION
  OBVIOUS
<1>5. WithBase(h, f, b) = WithType(h, f, ty)
  <2>1. WithBase(h, f, b) = [h EXCEPT ![f] = [o EXCEPT !.bty = b]]
    BY DEF WithBase
  <2> HIDE DEF o
  <2>2. [o EXCEPT !.bty = b] = ty
    BY <1>2
  <2> QED
    BY <2>1, <2>2 DEF WithType
<1>6. ty \in Objects
  <2> HIDE DEF o
  <2> QED
    BY <1>1, <1>2 DEF Objects
<1>7. /\ ty.categ = T_FUNCTION /\ ty.qual = h[f].qual /\ ty.align = h[f].align /\ ty.size = h[f].size
      /\ ty.flds = h[f].flds /\ ty.sig = h[f].sig /\ ty.bty = b
  BY <1>4
<1> HIDE DEF ty
<1> QED
  BY <1>3, <1>5, <1>6, <1>7, CompletedGrows

\* A signature with a new parameter.
WithParameter(o, j, b) == [o EXCEPT !.sig.params[j] = b]

\* It is as it was but for this.
LEMMA ParameterWritten ==
  ASSUME NEW o \in Objects, NEW j, NEW b \in Nat
  PROVE  LET ty == WithParameter(o, j, b)
         IN /\ ty \in Objects
            /\ ty.categ = o.categ /\ ty.qual = o.qual /\ ty.align = o.align /\ ty.size = o.size
            /\ ty.bty = o.bty /\ ty.flds = o.flds /\ ty.sig.proto = o.sig.proto
            /\ Len(ty.sig.params) = Len(o.sig.params) /\ DOMAIN ty.sig.params = DOMAIN o.sig.params
            /\ \A i \in DOMAIN o.sig.params : ty.sig.params[i] = IF i = j THEN b ELSE o.sig.params[i]
<1> DEFINE g == o.sig
           ps == [g.params EXCEPT ![j] = b]
           sig == [id |-> g.id, proto |-> g.proto, ellipse |-> g.ellipse, params |-> ps]
           new == [categ |-> o.categ, qual |-> o.qual, align |-> o.align, size |-> o.size,
                   bty |-> o.bty, sig |-> sig, flds |-> o.flds]
           ty == WithParameter(o, j, b)
<1>2. /\ o = [categ |-> o.categ, qual |-> o.qual, align |-> o.align, size |-> o.size,
              bty |-> o.bty, sig |-> o.sig, flds |-> o.flds]
      /\ o.categ \in Nat /\ o.qual \in SUBSET Quals /\ o.align \in Nat /\ o.size \in Nat
      /\ o.sig \in Signatures /\ o.flds \in Seq(Fields) /\ o.bty \in Nat
  BY Zenon DEF Objects
<1>3. /\ g = [id |-> g.id, proto |-> g.proto, ellipse |-> g.ellipse, params |-> g.params]
      /\ g.id \in Nat /\ g.proto \in BOOLEAN /\ g.ellipse \in BOOLEAN /\ g.params \in Seq(Nat)
  <2>1. g \in Signatures
    BY <1>2
  <2> HIDE DEF g
  <2> QED
    BY <2>1, Zenon DEF Signatures
<1>4. /\ ps \in Seq(Nat) /\ Len(ps) = Len(g.params) /\ DOMAIN ps = DOMAIN g.params
      /\ \A i \in DOMAIN g.params : ps[i] = IF i = j THEN b ELSE g.params[i]
  <2> HIDE DEF g
  <2>1. PICK s \in Seq(Nat) : s = g.params
    BY <1>3
  <2>2. /\ [s EXCEPT ![j] = b] \in Seq(Nat) /\ Len([s EXCEPT ![j] = b]) = Len(s)
        /\ DOMAIN [s EXCEPT ![j] = b] = DOMAIN s
    <3>1. CASE j \in DOMAIN s
      BY <3>1
    <3>2. CASE j \notin DOMAIN s
      <4>1. [s EXCEPT ![j] = b] = [i \in DOMAIN s |-> s[i]]
        BY <3>2
      <4>2. s = [i \in DOMAIN s |-> s[i]]
        OBVIOUS
      <4> QED
        BY <4>1, <4>2
    <3> QED
      BY <3>1, <3>2
  <2>3. \A i \in DOMAIN s : [s EXCEPT ![j] = b][i] = IF i = j THEN b ELSE s[i]
    OBVIOUS
  <2> QED
    BY <2>1, <2>2, <2>3
<1>5. ty = new
  <2>1. ty = [o EXCEPT !.sig = [g EXCEPT !.params = ps]]
    BY DEF WithParameter
  <2>2. [g EXCEPT !.params = ps] = sig
    <3> HIDE DEF g, ps
    <3> QED
      BY <1>3
  <2> HIDE DEF sig, ty
  <2>3. [o EXCEPT !.sig = sig] = new
    BY <1>2
  <2> QED
    BY <2>1, <2>2, <2>3
<1>6. sig \in Signatures
  <2> HIDE DEF g, ps
  <2> QED
    BY <1>3, <1>4 DEF Signatures
<1>7. new \in Objects
  <2> HIDE DEF sig
  <2> QED
    BY <1>2, <1>6 DEF Objects
<1>8. /\ new.categ = o.categ /\ new.qual = o.qual /\ new.align = o.align /\ new.size = o.size
      /\ new.bty = o.bty /\ new.flds = o.flds /\ new.sig.proto = g.proto /\ new.sig.params = ps
  OBVIOUS
<1> HIDE DEF new, ps, ty
<1> QED
  BY <1>4, <1>5, <1>7, <1>8 DEF ty

\* The function types with one signature get a composite parameter.
LEMMA ParameterCompleted ==
  ASSUME NEW h, GoodHeap(h), NEW f \in Proper(h), NEW b \in Proper(h), NEW j
  PROVE  LET k == WriteParam(h, f, j, b)
         IN GoodHeap(k) /\ Grown(h, k) /\ Proper(k) = Proper(h)
<1> DEFINE k == WriteParam(h, f, j, b)
<1>1. /\ h \in Seq(Objects) /\ Len(h) \in Nat /\ DOMAIN h = 1..Len(h) /\ b \in Nat
  <2>1. h \in Seq(Objects) /\ b \in DOMAIN h
    BY DEF GoodHeap, Proper
  <2> QED
    BY <2>1
<1>2. DOMAIN k = DOMAIN h
  BY DEF WriteParam
<1>3. ASSUME NEW t \in DOMAIN h
      PROVE  /\ h[t] \in Objects
             /\ k[t] = h[t] \/ (h[t].categ = T_FUNCTION /\ k[t] = WithParameter(h[t], j, b))
  BY <1>1, <1>3 DEF WriteParam, WithParameter
<1> HIDE DEF k
<1>4. ASSUME NEW t \in DOMAIN h
      PROVE  /\ k[t] \in Objects
             /\ k[t].categ = h[t].categ /\ k[t].qual = h[t].qual /\ k[t].align = h[t].align
             /\ k[t].size = h[t].size /\ k[t].bty = h[t].bty /\ k[t].flds = h[t].flds
             /\ k[t].sig.proto = h[t].sig.proto
             /\ Len(k[t].sig.params) = Len(h[t].sig.params)
             /\ DOMAIN k[t].sig.params = DOMAIN h[t].sig.params
             /\ \A i \in DOMAIN h[t].sig.params : k[t].sig.params[i] \in {b, h[t].sig.params[i]}
  <2>1. CASE k[t] = h[t]
    BY <1>3, <2>1
  <2>2. CASE k[t] = WithParameter(h[t], j, b)
    <3> DEFINE ty == WithParameter(h[t], j, b)
    <3>1. h[t] \in Objects
      BY <1>3
    <3>2. /\ ty \in Objects
          /\ ty.categ = h[t].categ /\ ty.qual = h[t].qual /\ ty.align = h[t].align
          /\ ty.size = h[t].size /\ ty.bty = h[t].bty /\ ty.flds = h[t].flds
          /\ ty.sig.proto = h[t].sig.proto
          /\ Len(ty.sig.params) = Len(h[t].sig.params)
          /\ DOMAIN ty.sig.params = DOMAIN h[t].sig.params
          /\ \A i \in DOMAIN h[t].sig.params :
               ty.sig.params[i] = IF i = j THEN b ELSE h[t].sig.params[i]
      BY <1>1, <3>1, ParameterWritten
    <3>3. k[t] = ty
      BY <2>2
    <3> HIDE DEF ty
    <3> QED
      BY <3>2, <3>3
  <2> QED
    BY <1>3, <2>1, <2>2
<1>5. k \in Seq(Objects) /\ Len(k) = Len(h)
  <2>1. k = [t \in 1..Len(h) |-> k[t]]
    BY <1>1 DEF k, WriteParam
  <2>2. \A t \in 1..Len(h) : k[t] \in Objects
    BY <1>1, <1>4
  <2> QED
    BY <1>1, <2>1, <2>2
<1>6. Proper(k) = Proper(h)
  BY <1>2 DEF Proper
<1>7. Grown(h, k)
  BY <1>1, <1>2, <1>4, <1>5 DEF Grown
<1>8. ASSUME NEW t \in DOMAIN k PROVE WellBuilt(k, t)
  <2>1. WellBuilt(h, t) /\ t \in DOMAIN h
    BY <1>2 DEF GoodHeap
  <2>2. \A i \in DOMAIN k[t].sig.params : k[t].sig.params[i] \in Proper(k)
    <3>1. \A i \in DOMAIN h[t].sig.params : h[t].sig.params[i] \in Proper(h)
      BY <2>1 DEF WellBuilt
    <3> QED
      BY <1>4, <1>6, <2>1, <3>1
  <2>3. /\ k[t].categ = h[t].categ /\ k[t].qual = h[t].qual /\ k[t].align = h[t].align
        /\ k[t].size = h[t].size /\ k[t].bty = h[t].bty
    BY <1>4, <2>1
  <2>4. \A x \in Proper(h) : k[x].qual = h[x].qual /\ k[x].categ = h[x].categ
    BY <1>4 DEF Proper
  <2> QED
    BY <1>6, <2>1, <2>2, <2>3, <2>4 DEF WellBuilt
<1>9. ASSUME NEW t \in DOMAIN Builtins PROVE t \in DOMAIN k /\ k[t] = Builtins[t]
  <2>1. h[t] = Builtins[t] /\ t \in DOMAIN h
    BY <1>9 DEF GoodHeap
  <2>2. Builtins[t].categ = t - 1 /\ t \in 1..16
    BY DEF Builtins, Sized, NewType
  <2>3. h[t].categ # T_FUNCTION
    BY <2>1, <2>2 DEF T_FUNCTION
  <2> QED
    BY <1>2, <1>3, <2>1, <2>3
<1>10. GoodHeap(k)
  BY <1>5, <1>8, <1>9 DEF GoodHeap
<1> QED
  BY <1>6, <1>7, <1>10 DEF k

\* A composite pointer is new.
LEMMA PointerComposed ==
  ASSUME NEW h, GoodHeap(h), NEW q \in SUBSET Quals, NEW p \in Proper(h)
  PROVE  Composed(CompositePointer(h, q, p), h)
<1> DEFINE k == Append(h, PointerType(p))
           l == Append(k, QualifiedPointer(Len(k), q))
<1>1. /\ GoodHeap(k) /\ Grown(h, k) /\ Len(k) \in Proper(k)
      /\ k[Len(k)].categ = T_POINTER /\ k[Len(k)].qual = {}
  <2>1. {} \in SUBSET Quals
    OBVIOUS
  <2>2. PointerType(p) = QualifiedPointer(p, {})
    BY PointerIsQualified
  <2> QED
    BY <2>1, <2>2, NewPointerGrows
<1>2. CASE q = {}
  <2>1. CompositePointer(h, q, p) = Is(k, Len(k))
    BY <1>2 DEF CompositePointer
  <2> HIDE DEF k
  <2> QED
    BY <1>1, <2>1 DEF Composed, Is
<1>3. CASE q # {}
  <2>1. CompositePointer(h, q, p) = Is(l, Len(k) + 1)
    BY <1>3 DEF CompositePointer, QualifiedPointer
  <2> HIDE DEF k
  <2>2. GoodHeap(l) /\ Grown(k, l) /\ Len(l) = Len(k) + 1 /\ Len(l) \in Proper(l)
    BY <1>1, NewPointerGrows
  <2> HIDE DEF l
  <2>3. Composed(Is(l, Len(k) + 1), k)
    BY <2>2 DEF Composed, Is
  <2> QED
    BY <1>1, <2>1, <2>3, ComposedAgain
<1> QED
  BY <1>2, <1>3

\* The parameters: the composite of each, in the heap the ones before it leave.
LEMMA ParametersComposed ==
  ASSUME NEW h, GoodHeap(h), NEW below, Composes(below), NEW f \in Proper(h), NEW g \in Proper(h),
         h[f].categ = T_FUNCTION, Len(h[f].sig.params) = Len(h[g].sig.params)
  PROVE  Composed(CompositeParams(h, f, g, below), h)
<1> DEFINE N == Len(h[f].sig.params)
           At(i, r) == LET k == r.heap
                           c == below[<<k, k[f].sig.params[i], k[g].sig.params[i]>>]
                       IN IF r.ty = Null \/ c.ty = Null THEN Asserted(k)
                          ELSE Is(WriteParam(c.heap, f, i, c.ty), f)
           Def(a, n) == a = [i \in 0..n |-> IF i = 0 THEN Is(h, f) ELSE At(i, a[i - 1])]
           after == CHOOSE after : Def(after, N)
           D == {n \in 0..N : ~\E a : Def(a, n)}
<1>1. CompositeParams(h, f, g, below) = after[N]
  BY DEF CompositeParams
<1>2. N \in Nat /\ h \in Seq(Objects)
  <2>1. h \in Seq(Objects) /\ f \in DOMAIN h
    BY DEF GoodHeap, Proper
  <2>2. h[f].sig.params \in Seq(Nat)
    BY <2>1, ObjectAt
  <2> QED
    BY <2>1, <2>2
<1> HIDE DEF At, N
<1>3. \E a : Def(a, N)
  <2>1. SUFFICES ASSUME D # {} PROVE FALSE
    BY <1>2
  <2>2. D \in SUBSET Nat
    OBVIOUS
  <2>3. PICK n \in D : \A k \in D : n <= k
    BY <2>1, <2>2, LeastNat
  <2>4. n \in 0..N /\ ~\E a : Def(a, n)
    BY <2>3
  <2>5. CASE n = 0
    <3> DEFINE a == [i \in 0..0 |-> Is(h, f)]
    <3>1. Def(a, 0)
      OBVIOUS
    <3> QED
      BY <2>4, <2>5, <3>1
  <2>6. CASE n # 0
    <3>1. n - 1 \in 0..N /\ n - 1 \notin D
      <4>1. n - 1 \in 0..N /\ ~(n <= n - 1)
        BY <1>2, <2>4, <2>6
      <4> HIDE DEF D
      <4> QED
        BY <2>3, <4>1
    <3>2. PICK b : Def(b, n - 1)
      BY <3>1
    <3> DEFINE a == [i \in 0..n |-> IF i = n THEN At(n, b[n - 1]) ELSE b[i]]
    <3>3. n \in Nat /\ n > 0
      BY <1>2, <2>4, <2>6
    <3>4. \A i \in 0..n : a[i] = IF i = 0 THEN Is(h, f) ELSE At(i, a[i - 1])
      <4>1. SUFFICES ASSUME NEW i \in 0..n PROVE a[i] = IF i = 0 THEN Is(h, f) ELSE At(i, a[i - 1])
        OBVIOUS
      <4>2. CASE i = n
        <5>1. a[n] = At(n, b[n - 1]) /\ a[n - 1] = b[n - 1]
          BY <3>3
        <5> QED
          BY <3>3, <4>2, <5>1
      <4>3. CASE i # n
        <5>1. i \in 0..n - 1
          BY <3>3, <4>3
        <5>2. b[i] = IF i = 0 THEN Is(h, f) ELSE At(i, b[i - 1])
          BY <3>2, <5>1
        <5>3. a[i] = b[i]
          BY <4>3
        <5>4. i # 0 => a[i - 1] = b[i - 1]
          <6>1. i # 0 => i - 1 \in 0..n /\ i - 1 # n
            BY <3>3, <5>1
          <6> QED
            BY <6>1
        <5> QED
          BY <5>2, <5>3, <5>4
      <4> QED
        BY <4>2, <4>3
    <3>5. a = [i \in 0..n |-> a[i]]
      OBVIOUS
    <3> HIDE DEF a
    <3>6. Def(a, n)
      BY <3>4, <3>5
    <3> QED
      BY <2>4, <3>6
  <2> QED
    BY <2>5, <2>6
<1>4. Def(after, N)
  <2> HIDE DEF Def
  <2> QED
    BY <1>3
<1> HIDE DEF after, D
<1>5. after[0] = Is(h, f) /\ \A i \in 1..N : after[i] = At(i, after[i - 1])
  BY <1>2, <1>4
<1> HIDE DEF Def
<1> DEFINE E == {n \in 0..N : ~(Composed(after[n], h) /\ (after[n].ty = Null \/ after[n].ty = f))}
<1>6. E = {}
  <2>1. SUFFICES ASSUME E # {} PROVE FALSE
    OBVIOUS
  <2>2. E \in SUBSET Nat
    OBVIOUS
  <2>3. PICK n \in E : \A k \in E : n <= k
    BY <2>1, <2>2, LeastNat
  <2>4. n \in 0..N /\ ~(Composed(after[n], h) /\ (after[n].ty = Null \/ after[n].ty = f))
    BY <2>3
  <2>5. n # 0
    <3>1. Len(h) \in Nat
      BY <1>2
    <3>2. Composed(Is(h, f), h)
      BY <3>1, GrownSelf DEF Composed, Is
    <3> QED
      BY <1>5, <2>4, <3>2 DEF Is
  <2>6. n \in 1..N /\ n - 1 \in 0..N /\ n - 1 \notin E
    BY <1>2, <2>3, <2>4, <2>5
  <2> DEFINE r == after[n - 1]
             k == r.heap
             c == below[<<k, k[f].sig.params[n], k[g].sig.params[n]>>]
             m == WriteParam(c.heap, f, n, c.ty)
  <2>7. Composed(r, h) /\ (r.ty = Null \/ r.ty = f)
    BY <2>6
  <2>8. after[n] = IF r.ty = Null \/ c.ty = Null THEN Asserted(k) ELSE Is(m, f)
    BY <1>5, <2>6 DEF At
  <2>9. CASE r.ty = Null \/ c.ty = Null
    <3> HIDE DEF c, k, m, r
    <3>1. after[n].ty = Null
      BY <2>8, <2>9 DEF Asserted
    <3> QED
      BY <2>4, <3>1 DEF Composed
  <2>10. CASE r.ty # Null /\ c.ty # Null
    <3>1. GoodHeap(k) /\ Grown(h, k)
      BY <2>7, <2>10 DEF Composed
    <3>2. h \in Seq(Objects) /\ k \in Seq(Objects)
      BY <3>1 DEF GoodHeap
    <3>3. f \in Proper(k) /\ g \in Proper(k)
      BY <3>1, <3>2, GrownDomain
    <3>4. /\ k[f].categ = T_FUNCTION
          /\ Len(k[f].sig.params) = N /\ Len(k[g].sig.params) = N
      BY <3>1 DEF Grown, Proper, N
    <3>5. k[f].sig.params \in Seq(Nat) /\ k[g].sig.params \in Seq(Nat)
      BY <3>2, <3>3, ObjectAt DEF Proper
    <3>6. n \in DOMAIN k[f].sig.params /\ n \in DOMAIN k[g].sig.params
      <4> HIDE DEF k
      <4>1. DOMAIN k[f].sig.params = 1..N /\ DOMAIN k[g].sig.params = 1..N
        BY <3>4, <3>5
      <4> QED
        BY <2>6, <4>1
    <3>7. k[f].sig.params[n] \in Proper(k) /\ k[g].sig.params[n] \in Proper(k)
      BY <3>1, <3>3, <3>6, BaseProper, Zenon
    <3>8. Composed(c, k)
      <4> HIDE DEF k
      <4> QED
        BY <3>1, <3>7 DEF Composes
    <3>9. GoodHeap(c.heap) /\ Grown(k, c.heap) /\ c.ty \in Proper(c.heap)
      BY <2>10, <3>8 DEF Composed
    <3>10. c.heap \in Seq(Objects)
      BY <3>9, Zenon DEF GoodHeap
    <3> HIDE DEF c, k
    <3>11. f \in Proper(c.heap)
      BY <3>2, <3>3, <3>9, <3>10, GrownDomain
    <3>12. GoodHeap(m) /\ Grown(c.heap, m) /\ Proper(m) = Proper(c.heap)
      BY <3>9, <3>11, ParameterCompleted
    <3> HIDE DEF m, k
    <3>13. Composed(Is(m, f), c.heap)
      BY <3>11, <3>12 DEF Composed, Is
    <3>14. Composed(Is(m, f), k)
      BY <3>1, <3>9, <3>13, ComposedAgain
    <3>15. Composed(Is(m, f), h)
      BY <3>1, <3>14, ComposedAgain
    <3> QED
      BY <2>4, <2>8, <2>10, <3>15 DEF Is
  <2> QED
    BY <2>9, <2>10
<1>7. Composed(after[N], h)
  <2>1. N \in 0..N /\ N \notin E
    BY <1>2, <1>6
  <2> QED
    BY <2>1
<1> QED
  BY <1>1, <1>7 DEF after, Def

\* The composite of two function types is one of them.
LEMMA FunctionComposed ==
  ASSUME NEW h, GoodHeap(h), NEW below, Composes(below), NEW s \in Proper(h), NEW t \in Proper(h),
         h[s].categ = T_FUNCTION,
         h[s].sig.proto /\ h[t].sig.proto => Len(h[s].sig.params) = Len(h[t].sig.params)
  PROVE  Composed(CompositeFunction(h, s, t, below), h)
<1>1. Len(h) \in Nat
  BY DEF GoodHeap
<1>2. Composed(Is(h, s), h) /\ Composed(Is(h, t), h)
  BY <1>1, GrownSelf DEF Composed, Is
<1>3. CASE h[s].sig.proto /\ h[t].sig.proto
  <2>1. CompositeFunction(h, s, t, below) = CompositeParams(h, s, t, below)
    BY <1>3 DEF CompositeFunction
  <2> QED
    BY <1>3, <2>1, ParametersComposed
<1>4. CASE h[s].sig.proto /\ ~h[t].sig.proto
  BY <1>2, <1>4 DEF CompositeFunction
<1>5. CASE ~h[s].sig.proto
  BY <1>2, <1>5 DEF CompositeFunction
<1> QED
  BY <1>3, <1>4, <1>5

\* What holds of composites one level down holds here.
LEMMA TypesComposed ==
  ASSUME NEW h, GoodHeap(h), NEW below, Composes(below), NEW s \in Proper(h), NEW t \in Proper(h)
  PROVE  Composed(CompositeAt(h, s, t, below), h)
<1> DEFINE inner == below[<<h, h[s].bty, h[t].bty>>]
<1>1. h \in Seq(Objects) /\ Len(h) \in Nat /\ s \in DOMAIN h
  BY DEF GoodHeap, Proper
<1>2. Composed(Is(h, s), h) /\ Composed(Is(h, t), h) /\ Composed(Asserted(h), h)
  BY <1>1, GrownSelf DEF Composed, Is, Asserted
<1>3. CASE ~CompatibleIn(h, s, t)
  <2>1. CompositeAt(h, s, t, below).ty = Null
    BY <1>3, CompatibleLooks DEF CompositeAt, Asserted
  <2> QED
    BY <2>1 DEF Composed
<1>4. CASE CompatibleIn(h, s, t) /\ (h[s].categ = T_ENUM \/ h[t].categ = T_ENUM)
  BY <1>2, <1>4 DEF CompositeAt
<1>5. CASE CompatibleIn(h, s, t) /\ h[s].categ # T_ENUM /\ h[t].categ # T_ENUM
  <2>1. h[t].categ = h[s].categ
    BY <1>5, CompatibleLooks
  <2>2. CASE h[s].categ \notin {T_POINTER, T_FUNCTION}
    <3>1. CompositeArray(h, s, t) \in {s, t}
      BY DEF CompositeArray
    <3>2. CompositeAt(h, s, t, below) \in {Is(h, s), Is(h, t)}
      BY <1>5, <2>2, <3>1, Zenon DEF CompositeAt
    <3> QED
      BY <1>2, <3>2
  <2>3. CASE h[s].categ \in {T_POINTER, T_FUNCTION}
    <3>1. h[s].bty \in Proper(h) /\ h[t].bty \in Proper(h)
      BY <2>1, <2>3, BaseProper
    <3>2. Composed(inner, h)
      BY <3>1 DEF Composes
    <3>0. T_POINTER # T_ARRAY /\ T_FUNCTION # T_ARRAY /\ T_POINTER # T_FUNCTION
      BY DEF T_POINTER, T_FUNCTION, T_ARRAY
    <3>3. h[s].categ # T_ARRAY
      BY <2>3, <3>0
    <3>4. CASE inner.ty = Null
      <4>1. CompositeAt(h, s, t, below) = inner
        BY <1>5, <2>3, <3>3, <3>4, Zenon DEF CompositeAt
      <4> QED
        BY <3>2, <4>1
    <3>5. CASE inner.ty # Null
      <4>1. GoodHeap(inner.heap) /\ Grown(h, inner.heap) /\ inner.ty \in Proper(inner.heap)
        BY <3>2, <3>5 DEF Composed
      <4>2. CASE h[s].categ = T_POINTER
        <5>1. CompositeAt(h, s, t, below) = CompositePointer(inner.heap, h[s].qual, inner.ty)
          BY <1>5, <3>0, <3>3, <3>5, <4>2, Zenon DEF CompositeAt
        <5>2. h[s].qual \in SUBSET Quals
          BY <1>1, ObjectAt
        <5> HIDE DEF inner
        <5>3. Composed(CompositePointer(inner.heap, h[s].qual, inner.ty), inner.heap)
          BY <4>1, <5>2, PointerComposed
        <5> QED
          BY <4>1, <5>1, <5>3, ComposedAgain
      <4>3. CASE h[s].categ = T_FUNCTION
        <5> DEFINE k == WithBase(inner.heap, s, inner.ty)
        <5>0. h[s].categ # T_POINTER
          BY <4>3 DEF T_POINTER, T_FUNCTION
        <5>1. CompositeAt(h, s, t, below) = CompositeFunction(k, s, t, below)
          BY <1>5, <3>3, <3>5, <4>3, <5>0, Zenon DEF CompositeAt, WithBase
        <5> HIDE DEF inner
        <5>2. inner.heap \in Seq(Objects)
          BY <4>1 DEF GoodHeap
        <5>3. s \in Proper(inner.heap) /\ t \in Proper(inner.heap)
          BY <1>1, <4>1, <5>2, GrownDomain
        <5>4. inner.heap[s].categ = T_FUNCTION
          BY <1>1, <4>1, <4>3 DEF Grown
        <5>5. GoodHeap(k) /\ Grown(inner.heap, k) /\ Proper(k) = Proper(inner.heap)
          BY <4>1, <5>3, <5>4, BaseCompleted
        <5> HIDE DEF k
        <5>6. k \in Seq(Objects)
          BY <5>5 DEF GoodHeap
        <5>7. Grown(h, k)
          BY <1>1, <4>1, <5>2, <5>5, <5>6, GrownTwice
        <5>8. /\ k[s].categ = T_FUNCTION
              /\ k[s].sig.proto = h[s].sig.proto /\ k[t].sig.proto = h[t].sig.proto
              /\ Len(k[s].sig.params) = Len(h[s].sig.params)
              /\ Len(k[t].sig.params) = Len(h[t].sig.params)
          BY <4>3, <5>7 DEF Grown, Proper
        <5>9. h[s].sig.proto /\ h[t].sig.proto => Len(h[s].sig.params) = Len(h[t].sig.params)
          BY <1>5, <4>3, CompatibleLooks
        <5>10. Composed(CompositeFunction(k, s, t, below), k)
          BY <5>3, <5>5, <5>8, <5>9, FunctionComposed
        <5> QED
          BY <5>1, <5>5, <5>7, <5>10, ComposedAgain
      <4> QED
        BY <2>3, <4>2, <4>3
    <3> QED
      BY <3>4, <3>5
  <2> QED
    BY <2>2, <2>3
<1> QED
  BY <1>3, <1>4, <1>5

\* compositeType grows the heap it is given.
LEMMA CompositeGrows ==
  ASSUME NEW h, GoodHeap(h), NEW s \in Proper(h), NEW t \in Proper(h)
  PROVE  Composed(CompositeIn(h, s, t), h)
<1> DEFINE N == Len(h)
           C == Seq(Objects) \X Nat \X Nat
           At(n, b) == [c \in C |-> IF n = 0 THEN Asserted(c[1]) ELSE CompositeAt(c[1], c[2], c[3], b)]
           Def(a, n) == a = [i \in 0..n |-> At(i, a[i - 1])]
           composite == CHOOSE composite : Def(composite, N)
           D == {n \in 0..N : ~\E a : Def(a, n)}
<1>1. CompositeIn(h, s, t) = composite[N][<<h, s, t>>]
  BY DEF CompositeIn
<1>2. N \in Nat /\ h \in Seq(Objects) /\ s \in Nat /\ t \in Nat
  BY DEF GoodHeap, Proper
<1>3. \A a, b : At(0, a) = At(0, b)
  <2>1. ASSUME NEW b PROVE At(0, b) = [c \in C |-> Asserted(c[1])]
    <3>1. \A c : (IF 0 = 0 THEN Asserted(c[1]) ELSE CompositeAt(c[1], c[2], c[3], b)) = Asserted(c[1])
      OBVIOUS
    <3> QED
      BY <3>1, Zenon
  <2> HIDE DEF At
  <2> QED
    BY <2>1, Zenon
<1> HIDE DEF At, N
<1>4. \E a : Def(a, N)
  <2>1. SUFFICES ASSUME D # {} PROVE FALSE
    BY <1>2
  <2>2. D \in SUBSET Nat
    OBVIOUS
  <2>3. PICK n \in D : \A k \in D : n <= k
    BY <2>1, <2>2, LeastNat
  <2>4. n \in 0..N /\ ~\E a : Def(a, n)
    BY <2>3
  <2>5. CASE n = 0
    <3> DEFINE a == [i \in 0..0 |-> At(0, << >>)]
    <3>1. \A i \in 0..0 : At(i, a[i - 1]) = At(0, << >>)
      <4>1. At(0, a[0 - 1]) = At(0, << >>)
        BY <1>3
      <4> QED
        BY <4>1
    <3>2. Def(a, 0)
      BY <3>1
    <3> QED
      BY <2>4, <2>5, <3>2
  <2>6. CASE n # 0
    <3>1. n - 1 \in 0..N /\ n - 1 \notin D
      <4>1. n - 1 \in 0..N /\ ~(n <= n - 1)
        BY <1>2, <2>4, <2>6
      <4> HIDE DEF D
      <4> QED
        BY <2>3, <4>1
    <3>2. PICK b : Def(b, n - 1)
      BY <3>1
    <3> DEFINE a == [i \in 0..n |-> IF i = n THEN At(n, b[n - 1]) ELSE b[i]]
    <3>3. n \in Nat /\ n > 0
      BY <1>2, <2>4, <2>6
    <3>4. \A i \in 0..n : a[i] = At(i, a[i - 1])
      <4>1. SUFFICES ASSUME NEW i \in 0..n PROVE a[i] = At(i, a[i - 1])
        OBVIOUS
      <4>2. CASE i = n
        <5>1. a[n] = At(n, b[n - 1]) /\ a[n - 1] = b[n - 1]
          BY <3>3
        <5> QED
          BY <3>3, <4>2, <5>1
      <4>3. CASE i # n
        <5>1. i \in 0..n - 1
          BY <3>3, <4>3
        <5>2. b[i] = At(i, b[i - 1])
          BY <3>2, <5>1
        <5>3. a[i] = b[i]
          BY <4>3
        <5>4. i # 0 => a[i - 1] = b[i - 1]
          <6>1. i # 0 => i - 1 \in 0..n /\ i - 1 # n
            BY <3>3, <5>1
          <6> QED
            BY <6>1
        <5>5. At(i, a[i - 1]) = At(i, b[i - 1])
          <6> HIDE DEF a
          <6> QED
            BY <1>3, <5>4
        <5> QED
          BY <5>2, <5>3, <5>5
      <4> QED
        BY <4>2, <4>3
    <3>5. a = [i \in 0..n |-> a[i]]
      OBVIOUS
    <3> HIDE DEF a
    <3>6. Def(a, n)
      BY <3>4, <3>5
    <3> QED
      BY <2>4, <3>6
  <2> QED
    BY <2>5, <2>6
<1>5. Def(composite, N)
  <2> HIDE DEF Def
  <2> QED
    BY <1>4
<1> HIDE DEF composite, D
<1>6. \A i \in 0..N : composite[i] = At(i, composite[i - 1])
  BY <1>2, <1>5
<1> HIDE DEF Def
<1> DEFINE E == {n \in 0..N : ~Composes(composite[n])}
<1>7. E = {}
  <2>1. SUFFICES ASSUME E # {} PROVE FALSE
    OBVIOUS
  <2>2. E \in SUBSET Nat
    OBVIOUS
  <2>3. PICK n \in E : \A k \in E : n <= k
    BY <2>1, <2>2, LeastNat
  <2>4. n \in 0..N /\ ~Composes(composite[n])
    BY <2>3
  <2>5. ASSUME NEW k, GoodHeap(k), NEW x \in Proper(k), NEW y \in Proper(k)
        PROVE  /\ <<k, x, y>> \in C
               /\ composite[n][<<k, x, y>>] =
                    IF n = 0 THEN Asserted(k) ELSE CompositeAt(k, x, y, composite[n - 1])
    <3>1. k \in Seq(Objects) /\ x \in Nat /\ y \in Nat
      BY <2>5 DEF GoodHeap, Proper
    <3>2. <<k, x, y>> \in C
      BY <3>1
    <3>3. composite[n] = At(n, composite[n - 1])
      BY <1>6, <2>4
    <3> DEFINE c == <<k, x, y>>
    <3>4. composite[n][c] = IF n = 0 THEN Asserted(c[1]) ELSE CompositeAt(c[1], c[2], c[3], composite[n - 1])
      <4> HIDE DEF c
      <4> QED
        BY <3>2, <3>3 DEF At, c
    <3>5. c[1] = k /\ c[2] = x /\ c[3] = y
      OBVIOUS
    <3> HIDE DEF c
    <3>6. composite[n][c] = IF n = 0 THEN Asserted(k) ELSE CompositeAt(k, x, y, composite[n - 1])
      BY <3>4, <3>5
    <3> QED
      BY <3>2, <3>6 DEF c
  <2>6. CASE n = 0
    <3>1. ASSUME NEW k, GoodHeap(k), NEW x \in Proper(k), NEW y \in Proper(k)
          PROVE  Composed(composite[n][<<k, x, y>>], k)
      <4>1. composite[n][<<k, x, y>>] = Asserted(k)
        BY <2>5, <2>6, <3>1
      <4> QED
        BY <4>1 DEF Composed, Asserted
    <3> QED
      BY <2>4, <3>1 DEF Composes
  <2>7. CASE n # 0
    <3>1. n - 1 \in 0..N /\ ~(n <= n - 1)
      BY <1>2, <2>4, <2>7
    <3>2. n - 1 \notin E
      <4> HIDE DEF E
      <4> QED
        BY <2>3, <3>1
    <3>3. Composes(composite[n - 1])
      BY <3>1, <3>2
    <3>4. ASSUME NEW k, GoodHeap(k), NEW x \in Proper(k), NEW y \in Proper(k)
          PROVE  Composed(composite[n][<<k, x, y>>], k)
      <4>1. composite[n][<<k, x, y>>] = CompositeAt(k, x, y, composite[n - 1])
        BY <2>5, <2>7, <3>4
      <4> QED
        BY <3>3, <3>4, <4>1, TypesComposed
    <3> QED
      BY <2>4, <3>4 DEF Composes
  <2> QED
    BY <2>6, <2>7
<1>8. Composes(composite[N])
  <2>1. N \in 0..N /\ N \notin E
    BY <1>2, <1>7
  <2> QED
    BY <2>1
<1> QED
  BY <1>1, <1>8 DEF Composes

-----------------------------------------------------------------------------
(* The invariant: every type is built as the context builds them.          *)

Sound ==
  /\ client \in Clients
  /\ GoodHeap(types)
  /\ Len(client.heap) <= Len(types)
  /\ \A t \in DOMAIN client.heap : ~IsRecord(types[t])

\* The heap has the client's types, and the builtin ones.
LEMMA Heap ==
  ASSUME Sound
  PROVE  /\ types \in Seq(Objects) /\ Len(types) \in Nat /\ DOMAIN types = 1..Len(types)
         /\ client.heap \in Seq(Objects) /\ Len(client.heap) \in Nat /\ 16 <= Len(client.heap)
         /\ DOMAIN client.heap = 1..Len(client.heap) /\ DOMAIN client.heap \subseteq DOMAIN types
         /\ client.fields \in Nat /\ client.records \in Nat /\ client.derived \in Nat
<1>1. types \in Seq(Objects) /\ client.heap \in Seq(Objects) /\ 16 \in DOMAIN client.heap
      /\ client.fields \in Nat /\ client.records \in Nat /\ client.derived \in Nat
  <2>1. 16 \in DOMAIN Builtins
    BY DEF Builtins
  <2> QED
    BY <2>1, ClientAssumption DEF Sound, GoodHeap
<1>2. Len(client.heap) <= Len(types)
  BY DEF Sound
<1> QED
  BY <1>1, <1>2

\* What the client passes on is no unfinished record's copy.
LEMMA PoolProper == ASSUME Sound PROVE pool \subseteq Proper(types)
<1>1. client.pool \subseteq Proper(client.heap)
  BY ClientAssumption DEF Sound
<1>2. Proper(client.heap) \subseteq Proper(types)
  BY Heap DEF Proper
<1>3. \A t \in Len(client.heap) + 1 .. Len(types) : t \in Proper(types)
  <2>1. type(T_POINTER) = 15
    BY DEF type, T_POINTER
  <2> QED
    BY <2>1, Heap DEF Proper
<1> QED
  BY <1>1, <1>2, <1>3 DEF pool

\* A heap that has grown is sound.
LEMMA SoundGrows ==
  ASSUME Sound, client' = client, GoodHeap(types'), Grown(types, types')
  PROVE  Sound'
<1>1. DOMAIN client.heap \subseteq DOMAIN types
  BY Heap
<1>2. \A t \in DOMAIN client.heap : ~IsRecord(types'[t])
  BY <1>1 DEF Sound, Grown, IsRecord
<1>3. Len(client.heap) <= Len(types')
  <2>1. Len(types') \in Nat
    BY DEF GoodHeap
  <2> QED
    BY <2>1, Heap DEF Sound, Grown
<1> QED
  BY <1>2, <1>3 DEF Sound

-----------------------------------------------------------------------------
(* Derived types.                                                          *)

\* A qualified copy is built as the context builds it.
LEMMA QualifiedGrows ==
  ASSUME NEW q \in SUBSET Quals, NEW t \in Proper(types), GoodHeap(types),
         q # {}, types[t].categ # T_FUNCTION
  PROVE  /\ GoodHeap(Append(types, QualifiedCopy(q, t)))
         /\ Grown(types, Append(types, QualifiedCopy(q, t)))
<1> DEFINE o == types[t]
           b == IF o.qual # {} THEN o.bty ELSE t
           ty == [categ |-> o.categ, qual |-> o.qual \cup q, align |-> o.align, size |-> o.size,
                  bty |-> b, sig |-> o.sig, flds |-> << >>]
           k == Append(types, ty)
<1>1. types \in Seq(Objects) /\ t \in DOMAIN types /\ Len(types) \in Nat /\ WellBuilt(types, t)
      /\ t # type(T_POINTER)
  BY DEF GoodHeap, Proper
<1>2. /\ o = [categ |-> o.categ, qual |-> o.qual, align |-> o.align, size |-> o.size,
              bty |-> o.bty, sig |-> o.sig, flds |-> o.flds]
      /\ o.categ \in Nat /\ o.qual \in SUBSET Quals /\ o.align \in Nat /\ o.size \in Nat
      /\ o.sig \in Signatures /\ o.bty \in Nat
  BY <1>1, ObjectAt
<1>3. b \in Proper(types) /\ b \in Nat /\ types[b].qual = {} /\ types[b].categ = o.categ
  <2>1. b \in Proper(types) /\ types[b].qual = {} /\ types[b].categ = o.categ
    BY <1>1 DEF WellBuilt
  <2> QED
    BY <1>1, <2>1 DEF Proper
<1>4. QualifiedCopy(q, t) = ty
  <2>1. QualifiedCopy(q, t) = [o EXCEPT !.qual = @ \cup q, !.bty = b, !.flds = << >>]
    BY DEF QualifiedCopy
  <2> HIDE DEF o, b
  <2> QED
    BY <1>2, <2>1
<1>5. ty \in Objects /\ ty.flds = << >> /\ ty.qual # {}
  <2>1. << >> \in Seq(Fields) /\ o.qual \cup q \in SUBSET Quals /\ o.qual \cup q # {}
    BY <1>2
  <2> HIDE DEF o, b
  <2> QED
    BY <1>2, <1>3, <2>1 DEF Objects
<1>6. /\ k[Len(types) + 1] = ty
      /\ Proper(types) \subseteq Proper(k)
      /\ \A x \in DOMAIN types : k[x] = types[x]
  <2>1. k[Len(types) + 1] = ty /\ \A x \in DOMAIN types : k[x] = types[x]
    <3> HIDE DEF ty
    <3> QED
      BY <1>1, <1>5
  <2>2. DOMAIN types \subseteq DOMAIN k
    <3> HIDE DEF ty
    <3> QED
      BY <1>1, <1>5
  <2> QED
    BY <2>1, <2>2 DEF Proper
<1>7. /\ ty.categ = o.categ /\ ty.align = o.align /\ ty.size = o.size /\ ty.bty = b /\ ty.sig = o.sig
  OBVIOUS
<1>8. /\ o.align \in Aligns /\ (o.size # 0 \/ o.categ = T_ARRAY => o.align # 0)
      /\ (o.categ \in 0..T_LONGDOUBLE \ {T_ENUM} =>
           o.size = Builtins[type(o.categ)].size /\ o.align = o.size)
      /\ \A i \in DOMAIN o.sig.params : o.sig.params[i] \in Proper(types)
  BY <1>1 DEF WellBuilt
<1>9. k[b].qual = {} /\ k[b].categ = o.categ /\ b \in Proper(k)
  BY <1>3, <1>6 DEF Proper
<1>10. o.categ # T_FUNCTION
  OBVIOUS
<1> HIDE DEF ty, k, o, b
<1>11. WellBuilt(k, Len(types) + 1)
  <2>1. /\ k[Len(types) + 1].categ = o.categ /\ k[Len(types) + 1].align = o.align
        /\ k[Len(types) + 1].size = o.size /\ k[Len(types) + 1].bty = b /\ k[Len(types) + 1].sig = o.sig
    BY <1>6, <1>7
  <2>2. \A i \in DOMAIN o.sig.params : o.sig.params[i] \in Proper(k)
    BY <1>6, <1>8
  <2> QED
    BY <1>8, <1>9, <1>10, <2>1, <2>2, Zenon DEF WellBuilt
<1> QED
  BY <1>4, <1>5, <1>11, NewTypeGrows DEF k

\* So is an array,
LEMMA ArrayGrows ==
  ASSUME NEW n \in Nat, NEW t \in Proper(types), GoodHeap(types), types[t].size # 0
  PROVE  /\ GoodHeap(Append(types, ArrayType(n, t)))
         /\ Grown(types, Append(types, ArrayType(n, t)))
<1> DEFINE o == types[t]
           ty == [categ |-> T_ARRAY, qual |-> {}, align |-> o.align, size |-> n * o.size,
                  bty |-> t, sig |-> NoSignature, flds |-> << >>]
           k == Append(types, ty)
<1>1. types \in Seq(Objects) /\ t \in DOMAIN types /\ Len(types) \in Nat /\ WellBuilt(types, t)
  BY DEF GoodHeap, Proper
<1>2. o.align \in Nat /\ o.size \in Nat /\ o.align \in Aligns /\ o.align # 0 /\ t \in Nat
  BY <1>1, ObjectAt DEF WellBuilt
<1>3. n * o.size \in Nat
  BY <1>2
<1>4. ArrayType(n, t) = ty
  <2> DEFINE e == NewType(T_ARRAY)
             s == n * o.size
             al == o.align
  <2>1. e = [categ |-> T_ARRAY, qual |-> {}, align |-> 0, size |-> 0, bty |-> Null,
             sig |-> NoSignature, flds |-> << >>]
    BY DEF NewType
  <2>2. ArrayType(n, t) = [e EXCEPT !.size = s, !.align = al, !.bty = t]
    BY DEF ArrayType
  <2>3. ty = [categ |-> T_ARRAY, qual |-> {}, align |-> al, size |-> s,
              bty |-> t, sig |-> NoSignature, flds |-> << >>]
    OBVIOUS
  <2> HIDE DEF e, s, al, T_ARRAY, NoSignature, Null, ty
  <2> QED
    BY <2>1, <2>2, <2>3
<1>5. ty \in Objects
  <2>1. NoSignature \in Signatures /\ << >> \in Seq(Fields) /\ T_ARRAY \in Nat
    BY DEF NoSignature, Signatures, T_ARRAY
  <2>2. {} \in SUBSET Quals
    OBVIOUS
  <2> DEFINE s == n * o.size
             al == o.align
  <2> HIDE DEF T_ARRAY, NoSignature, s, al
  <2> QED
    BY <1>2, <1>3, <2>1, <2>2 DEF Objects, s, al
<1>6. /\ k[Len(types) + 1] = ty
      /\ Proper(types) \subseteq Proper(k)
  <2>1. k[Len(types) + 1] = ty
    <3> HIDE DEF ty
    <3> QED
      BY <1>1, <1>5
  <2>2. DOMAIN types \subseteq DOMAIN k
    <3> HIDE DEF ty
    <3> QED
      BY <1>1, <1>5
  <2> QED
    BY <2>1, <2>2 DEF Proper
<1>7. /\ ty.categ = T_ARRAY /\ ty.qual = {} /\ ty.align = o.align /\ ty.bty = t /\ ty.sig = NoSignature
      /\ ty.flds = << >>
  OBVIOUS
<1> HIDE DEF ty, k, o
<1>8. WellBuilt(k, Len(types) + 1)
  BY <1>2, <1>6, <1>7 DEF WellBuilt, T_ARRAY, T_LONGDOUBLE, NoSignature
<1>9. ~IsRecord(ty)
  BY <1>7 DEF IsRecord, T_ARRAY, T_STRUCT, T_UNION
<1> QED
  BY <1>4, <1>5, <1>7, <1>8, <1>9, NewTypeGrows DEF k

\* A function type without its signature, and with one.
FunctionType(t, sig) == [Sized(T_FUNCTION, IntSize, t) EXCEPT !.sig = sig]

\* a function type,
LEMMA FunctionGrows ==
  ASSUME NEW t \in Proper(types), GoodHeap(types), NEW sig \in Signatures,
         \A i \in DOMAIN sig.params : sig.params[i] \in Proper(types)
  PROVE  /\ GoodHeap(Append(types, FunctionType(t, sig)))
         /\ Grown(types, Append(types, FunctionType(t, sig)))
<1> DEFINE ty == [categ |-> T_FUNCTION, qual |-> {}, align |-> IntSize, size |-> IntSize,
                  bty |-> t, sig |-> sig, flds |-> << >>]
           k == Append(types, ty)
<1>1. types \in Seq(Objects) /\ t \in DOMAIN types /\ Len(types) \in Nat
  BY DEF GoodHeap, Proper
<1>2. FunctionType(t, sig) = ty
  <2> DEFINE e == NewType(T_FUNCTION)
             s == Sized(T_FUNCTION, IntSize, t)
  <2>1. e = [categ |-> T_FUNCTION, qual |-> {}, align |-> 0, size |-> 0, bty |-> Null,
             sig |-> NoSignature, flds |-> << >>]
    BY DEF NewType
  <2>2. s = [e EXCEPT !.size = IntSize, !.align = IntSize, !.bty = t]
    BY DEF Sized
  <2>3. FunctionType(t, sig) = [s EXCEPT !.sig = sig]
    BY DEF FunctionType
  <2> HIDE DEF e, s, T_FUNCTION, NoSignature, Null, IntSize
  <2>4. s = [categ |-> T_FUNCTION, qual |-> {}, align |-> IntSize, size |-> IntSize, bty |-> t,
             sig |-> NoSignature, flds |-> << >>]
    BY <2>1, <2>2
  <2> QED
    BY <2>3, <2>4
<1>3. ty \in Objects
  <2>1. << >> \in Seq(Fields) /\ T_FUNCTION \in Nat /\ IntSize \in Nat /\ t \in Nat
    BY <1>1 DEF T_FUNCTION, IntSize
  <2>2. {} \in SUBSET Quals
    OBVIOUS
  <2> HIDE DEF T_FUNCTION, IntSize
  <2> QED
    BY <2>1, <2>2 DEF Objects
<1>4. /\ k[Len(types) + 1] = ty
      /\ Proper(types) \subseteq Proper(k)
  <2>1. k[Len(types) + 1] = ty
    <3> HIDE DEF ty
    <3> QED
      BY <1>1, <1>3
  <2>2. DOMAIN types \subseteq DOMAIN k
    <3> HIDE DEF ty
    <3> QED
      BY <1>1, <1>3
  <2> QED
    BY <2>1, <2>2 DEF Proper
<1>5. /\ ty.categ = T_FUNCTION /\ ty.qual = {} /\ ty.align = IntSize /\ ty.bty = t /\ ty.sig = sig
      /\ ty.flds = << >>
  OBVIOUS
<1> HIDE DEF ty, k
<1>6. WellBuilt(k, Len(types) + 1)
  <2>1. IntSize \in Aligns /\ IntSize # 0 /\ T_FUNCTION \notin 0..T_LONGDOUBLE
    BY DEF IntSize, Aligns, T_FUNCTION, T_LONGDOUBLE
  <2>2. \A i \in DOMAIN sig.params : sig.params[i] \in Proper(k)
    BY <1>4
  <2>3. t \in Proper(k)
    BY <1>4
  <2> HIDE DEF T_FUNCTION, IntSize, T_LONGDOUBLE
  <2> QED
    BY <1>4, <1>5, <2>1, <2>2, <2>3, Zenon DEF WellBuilt
<1>7. ~IsRecord(ty)
  BY <1>5 DEF IsRecord, T_FUNCTION, T_STRUCT, T_UNION
<1> QED
  BY <1>2, <1>3, <1>5, <1>6, <1>7, NewTypeGrows DEF k

\* and a pointer.
LEMMA PointerGrows ==
  ASSUME NEW h, GoodHeap(h), NEW p \in Proper(h)
  PROVE  GoodHeap(Append(h, PointerType(p))) /\ Grown(h, Append(h, PointerType(p)))
<1>1. {} \in SUBSET Quals
  OBVIOUS
<1>2. PointerType(p) = QualifiedPointer(p, {})
  BY PointerIsQualified
<1> QED
  BY <1>1, <1>2, NewPointerGrows

\* Deriving types, and completing them, grows the heap.
LEMMA DerivingGrows ==
  ASSUME Sound,
         \/ Derive
         \/ \E t \in pool, sig \in GivenSignatures : FunctionReturn(t, sig)
         \/ \E s, t \in pool : Composite(s, t)
  PROVE  /\ GoodHeap(types') /\ Grown(types, types')
         /\ client' = client /\ complete' = complete
         /\ ending' = ending \/ (ending = NotEnding /\ ending' = Ended)
<1>1. GoodHeap(types) /\ pool \subseteq Proper(types)
  BY PoolProper DEF Sound
<1>2. /\ client.quals \subseteq SUBSET Quals /\ client.lens \subseteq Nat
      /\ \A sig \in client.sigs :
           sig \in Signatures /\ \A i \in DOMAIN sig.params : sig.params[i] \in Proper(client.heap)
  BY ClientAssumption DEF Sound
<1>3. ASSUME NEW q \in client.quals, NEW t \in pool, types[t].categ # T_FUNCTION, Qualify(q, t)
      PROVE  /\ GoodHeap(types') /\ Grown(types, types')
             /\ client' = client /\ ending' = ending /\ complete' = complete
  <2>1. types' = Append(types, QualifiedCopy(q, t)) /\ q # {}
        /\ client' = client /\ ending' = ending /\ complete' = complete
    BY <1>3 DEF Qualify, New
  <2> QED
    BY <1>1, <1>2, <1>3, <2>1, QualifiedGrows
<1>4. ASSUME NEW t \in pool, PointerTo(t)
      PROVE  /\ GoodHeap(types') /\ Grown(types, types')
             /\ client' = client /\ ending' = ending /\ complete' = complete
  <2>1. types' = Append(types, PointerType(t))
        /\ client' = client /\ ending' = ending /\ complete' = complete
    BY <1>4 DEF PointerTo, New
  <2> QED
    BY <1>1, <2>1, PointerGrows
<1>5. ASSUME NEW len \in client.lens, NEW t \in pool, types[t].size # 0, ArrayOf(len, t)
      PROVE  /\ GoodHeap(types') /\ Grown(types, types')
             /\ client' = client /\ ending' = ending /\ complete' = complete
  <2>1. types' = Append(types, ArrayType(len, t))
        /\ client' = client /\ ending' = ending /\ complete' = complete
    BY <1>5 DEF ArrayOf, New
  <2> QED
    BY <1>1, <1>2, <1>5, <2>1, ArrayGrows
<1>6. ASSUME NEW t \in pool, AdjustParameter(t)
      PROVE  /\ GoodHeap(types') /\ Grown(types, types')
             /\ client' = client /\ ending' = ending /\ complete' = complete
  <2> DEFINE u == UnqualIn(types, t)
  <2>1. t \in Proper(types)
    BY <1>1
  <2>2. u \in Proper(types)
    BY <1>1, <2>1, BaseProper
  <2>3. types[u].categ \in {T_POINTER, T_ARRAY, T_FUNCTION} => types[u].bty \in Proper(types)
    <3> HIDE DEF u
    <3> QED
      BY <1>1, <2>2, BaseProper
  <2>4. unqual(t) = u
    BY DEF unqual, UnqualIn
  <2>5. /\ \/ types[u].categ = T_ARRAY /\ types' = Append(types, PointerType(types[u].bty))
           \/ types[u].categ = T_FUNCTION /\ types' = Append(types, PointerType(u))
        /\ client' = client /\ ending' = ending /\ complete' = complete
    <3> HIDE DEF u
    <3> QED
      BY <1>6, <2>4 DEF AdjustParameter, New
  <2> HIDE DEF u
  <2> QED
    BY <1>1, <2>2, <2>3, <2>5, PointerGrows
<1>7. ASSUME NEW t \in pool, NEW sig \in GivenSignatures, FunctionReturn(t, sig)
      PROVE  /\ GoodHeap(types') /\ Grown(types, types')
             /\ client' = client /\ ending' = ending /\ complete' = complete
  <2>1. types' = Append(types, FunctionType(t, sig))
        /\ client' = client /\ ending' = ending /\ complete' = complete
    BY <1>7 DEF FunctionReturn, FunctionType, New
  <2>2. Proper(client.heap) \subseteq Proper(types)
    BY Heap DEF Proper
  <2>3. t \in Proper(types)
    BY <1>1
  <2>4. sig \in Signatures /\ \A i \in DOMAIN sig.params : sig.params[i] \in Proper(types)
    <3>1. CASE \E f \in pool : types[f].categ = T_FUNCTION /\ sig = types[f].sig
      <4>1. PICK f \in pool : sig = types[f].sig
        BY <3>1
      <4>2. f \in Proper(types) /\ types \in Seq(Objects)
        BY <1>1 DEF GoodHeap
      <4>3. types[f].sig \in Signatures
        BY <4>2, ObjectAt DEF Proper
      <4>4. \A i \in DOMAIN types[f].sig.params : types[f].sig.params[i] \in Proper(types)
        BY <1>1, <4>2, BaseProper
      <4> QED
        BY <4>1, <4>3, <4>4
    <3>2. CASE \E own \in client.sigs : sig = [own EXCEPT !.id = Len(types) + 1]
      <4>1. PICK own \in client.sigs : sig = [own EXCEPT !.id = Len(types) + 1]
        BY <3>2
      <4>2. own \in Signatures /\ \A i \in DOMAIN own.params : own.params[i] \in Proper(types)
        BY <1>2, <2>2
      <4>3. Len(types) + 1 \in Nat
        BY Heap
      <4>4. sig \in Signatures /\ sig.params = own.params
        BY <4>1, <4>2, <4>3 DEF Signatures
      <4> QED
        BY <4>2, <4>4
    <3> QED
      BY <1>7, <3>1, <3>2 DEF GivenSignatures
  <2> QED
    BY <1>1, <2>1, <2>3, <2>4, FunctionGrows
<1>8. ASSUME NEW s \in pool, NEW t \in pool, Composite(s, t)
      PROVE  /\ GoodHeap(types') /\ Grown(types, types')
             /\ client' = client /\ complete' = complete
             /\ ending' = ending \/ (ending = NotEnding /\ ending' = Ended)
  <2> DEFINE c == CompositeIn(types, s, t)
  <2>1. /\ ending = NotEnding /\ client' = client /\ complete' = complete
        /\ \/ c.ty # Null /\ types' = c.heap /\ ending' = ending
           \/ ending' = Ended /\ types' = types
    BY <1>8 DEF Composite, MayDerive
  <2>2. Composed(c, types)
    BY <1>1, CompositeGrows
  <2>3. Grown(types, types)
    BY Heap, GrownSelf
  <2> HIDE DEF c
  <2> QED
    BY <1>1, <2>1, <2>2, <2>3 DEF Composed
<1> QED
  BY <1>3, <1>4, <1>5, <1>6, <1>7, <1>8 DEF Derive

-----------------------------------------------------------------------------
(* The invariant: records.                                                 *)

\* A member's type is finished, and a nameless member a finished record.
WellFormedField(f) ==
  /\ f.ty \in DOMAIN types
  /\ f.ty \in Records => f.ty \in complete
  /\ types[f.ty].align # 0
  /\ f.bits \in 0..IntBits
  /\ f.bits # 0 => types[f.ty].categ = T_INT
  /\ f.id = Null /\ f.bits = 0 => f.ty \in complete

\* A record defined in place is the type of one member only.
Structure ==
  /\ complete \subseteq Records
  /\ Records # {} => client.records # 0
  /\ \A t \in DOMAIN types \ Records : types[t].flds = << >>
  /\ \A r \in Records :
       /\ Len(types[r].flds) <= client.fields
       /\ \A i \in DOMAIN types[r].flds : WellFormedField(types[r].flds[i])
  /\ \A t \in Records : InPlace(t) => \A g, h \in Holders(t) : g = h

\* An open unit belongs to the bit-field before, and the size is its place.
EndingOK ==
  Ending =>
    /\ ending \in [rec : Records \ complete, at : Nat, bits : 0..IntBits]
    /\ ending.at \in 1..Len(Rec.flds) + 1
    /\ ending.bits # 0 =>
         ending.at > 1 /\ Rec.flds[ending.at - 1].bits # 0 /\ Rec.size % IntSize = 0 /\ Rec.categ = T_STRUCT

\* The members of r that have their place, and the bits of its open unit.
Placed(r) ==
  IF r \in complete THEN Len(types[r].flds)
  ELSE IF r = ending.rec THEN ending.at - 1
  ELSE 0
Open(r) == IF r = ending.rec THEN ending.bits ELSE 0

Begin(f) == 8 * f.offset + f.pos
Finish(f) == Begin(f) + (IF f.bits = 0 THEN 8 * types[f.ty].size ELSE f.bits)
Align(f) == types[f.ty].align
Exact == {1, 2, 4, 8}

\* A record has the alignment of its widest member.
Extent(r) ==
  LET flds == types[r].flds
  IN /\ Placed(r) = 0 => types[r].size = 0 /\ types[r].align = 0
     /\ Placed(r) # 0 => \E i \in 1..Placed(r) : Align(flds[i]) = types[r].align
     /\ \A i \in 1..Placed(r) : Align(flds[i]) <= types[r].align
     /\ r \in complete /\ types[r].categ = T_STRUCT /\ types[r].align \in Exact =>
          types[r].size % types[r].align = 0
     /\ \A i \in DOMAIN flds : i > Placed(r) => flds[i].offset = 0
     /\ \A i \in DOMAIN flds : i > Placed(r) \/ flds[i].bits = 0 => flds[i].pos = 0

Extents == \A r \in Records : Extent(r)

\* The members of r that have their place lie behind each other from base on.
LaidFrom(r, base) ==
  LET flds == types[r].flds
  IN /\ \A i \in 1..Placed(r) :
          /\ base <= flds[i].offset
          /\ Align(flds[i]) \in Exact => (flds[i].offset - base) % Align(flds[i]) = 0
     /\ types[r].categ = T_STRUCT =>
          /\ \A i, j \in 1..Placed(r) : i < j => Finish(flds[i]) <= Begin(flds[j])
          /\ \A i \in 1..Placed(r) : Finish(flds[i]) <= 8 * (base + types[r].size) + Open(r)

\* A record that is not defined in place begins at 0.
Own == \A r \in Records : ~InPlace(r) => LaidFrom(r, 0)

\* One that is begins where its holder lies, if nothing is nested in it and the
\* holder is not nested itself nor follows a bit-field.
Simply(r, h) ==
  LET flds == types[h[1]].flds
  IN /\ Anonymous(flds[h[2]])
     /\ ~InPlace(h[1])
     /\ Nameless(r) = {}
     /\ h[2] > 1 => flds[h[2] - 1].bits = 0
Held == \A r \in Records : \A h \in Holders(r) :
          Simply(r, h) => LaidFrom(r, types[h[1]].flds[h[2]].offset)

IInv == Sound /\ Structure /\ EndingOK /\ Extents /\ Own /\ Held

-----------------------------------------------------------------------------
(* Steps that keep the shape of the records there are.                     *)

\* Same members, maybe elsewhere.
SameShape ==
  /\ Sound /\ Sound'
  /\ client' = client
  /\ Records' = Records
  /\ DOMAIN types \subseteq DOMAIN types'
  /\ \A t \in DOMAIN types : types'[t].categ = types[t].categ
  /\ \A r \in Records :
       /\ Len(types'[r].flds) = Len(types[r].flds)
       /\ \A i \in DOMAIN types[r].flds :
            /\ types'[r].flds[i].id = types[r].flds[i].id
            /\ types'[r].flds[i].ty = types[r].flds[i].ty
            /\ types'[r].flds[i].bits = types[r].flds[i].bits

\* What a record is made of.
LEMMA RecordFields ==
  ASSUME Sound, NEW r \in Records
  PROVE  /\ r \in DOMAIN types /\ r \in Nat /\ r # 0
         /\ types[r].flds \in Seq(Fields)
         /\ Len(types[r].flds) \in Nat /\ DOMAIN types[r].flds = 1..Len(types[r].flds)
         /\ types[r].categ \in {T_STRUCT, T_UNION}
         /\ types[r].size \in Nat /\ types[r].align \in Nat
         /\ \A i \in DOMAIN types[r].flds :
              /\ types[r].flds[i].id \in Nat /\ types[r].flds[i].ty \in Nat
              /\ types[r].flds[i].bits \in Nat
              /\ types[r].flds[i].offset \in Nat /\ types[r].flds[i].pos \in Nat
<1>1. r \in DOMAIN types /\ types \in Seq(Objects) /\ types[r].categ \in {T_STRUCT, T_UNION}
  BY Heap DEF Records, IsRecord
<1>2. r \in Nat /\ r # 0
  BY <1>1
<1>3. types[r].flds \in Seq(Fields) /\ types[r].size \in Nat /\ types[r].align \in Nat
  BY <1>1, ObjectAt
<1>4. Len(types[r].flds) \in Nat /\ DOMAIN types[r].flds = 1..Len(types[r].flds)
  BY <1>3
<1> QED
  BY <1>1, <1>2, <1>3, <1>4, FieldAt

\* A member that has this type.
LEMMA HolderIs ==
  ASSUME Sound, NEW t, NEW h
  PROVE  h \in Holders(t) <=>
           /\ h = <<h[1], h[2]>> /\ h[1] \in Records /\ h[2] \in 1..client.fields
           /\ h[2] \in DOMAIN types[h[1]].flds /\ types[h[1]].flds[h[2]].ty = t
BY DEF Holders

\* Steps that keep the shape of records keep what depends on it.
LEMMA ShapeKept ==
  ASSUME SameShape, Structure
  PROVE  /\ \A t : Holders(t)' = Holders(t)
         /\ \A r \in Records : DOMAIN types'[r].flds = DOMAIN types[r].flds
         /\ \A r \in Records : \A i \in DOMAIN types[r].flds :
              Anonymous(types[r].flds[i])' = Anonymous(types[r].flds[i])
         /\ \A t : InPlace(t)' = InPlace(t)
         /\ \A r \in Records : Nameless(r)' = Nameless(r)
<1>1. Sound /\ Sound' /\ client' = client /\ Records' = Records
  BY DEF SameShape
<1>2. \A r \in Records :
        /\ DOMAIN types[r].flds = 1..Len(types[r].flds)
        /\ DOMAIN types'[r].flds = 1..Len(types'[r].flds)
  <2>1. \A r \in Records : DOMAIN types[r].flds = 1..Len(types[r].flds)
    BY <1>1, RecordFields
  <2>2. \A r \in Records' : DOMAIN types'[r].flds = 1..Len(types'[r].flds)
    <3>1. SUFFICES ASSUME NEW r \in Records' PROVE DOMAIN types'[r].flds = 1..Len(types'[r].flds)
      OBVIOUS
    <3>2. r \in DOMAIN types' /\ types' \in Seq(Objects)
      BY <1>1 DEF Records, Sound, GoodHeap
    <3>3. types'[r].flds \in Seq(Fields)
      BY <3>2, ObjectAt
    <3> QED
      BY <3>3
  <2> QED
    BY <1>1, <2>1, <2>2
<1>3. \A r \in Records : DOMAIN types'[r].flds = DOMAIN types[r].flds
  BY <1>2 DEF SameShape
<1>4. ASSUME NEW t PROVE Holders(t)' = Holders(t)
  <2>1. \A r \in Records : \A i : (i \in DOMAIN types'[r].flds /\ types'[r].flds[i].ty = t)
                               <=> (i \in DOMAIN types[r].flds /\ types[r].flds[i].ty = t)
    BY <1>3 DEF SameShape
  <2> QED
    BY <1>1, <2>1, Zenon DEF Holders
<1>5. ASSUME NEW r \in Records, NEW i \in DOMAIN types[r].flds
      PROVE  Anonymous(types[r].flds[i])' = Anonymous(types[r].flds[i])
  <2>1. types[r].flds[i].ty \in DOMAIN types
    BY DEF Structure, WellFormedField
  <2>2. /\ types'[r].flds[i].id = types[r].flds[i].id
        /\ types'[r].flds[i].ty = types[r].flds[i].ty
        /\ types'[types[r].flds[i].ty].categ = types[types[r].flds[i].ty].categ
    BY <2>1 DEF SameShape
  <2> QED
    BY <2>2 DEF Anonymous, IsRecord
<1>6. ASSUME NEW t PROVE InPlace(t)' = InPlace(t)
  <2>1. \A h \in Holders(t) : Anonymous(types[h[1]].flds[h[2]])' = Anonymous(types[h[1]].flds[h[2]])
    BY <1>1, <1>5, HolderIs
  <2>2. Holders(t)' = Holders(t)
    BY <1>4
  <2>3. InPlace(t)' = \E h \in Holders(t)' : Anonymous(types[h[1]].flds[h[2]])'
    BY DEF InPlace
  <2>4. InPlace(t) = \E h \in Holders(t) : Anonymous(types[h[1]].flds[h[2]])
    BY DEF InPlace
  <2> QED
    BY <2>1, <2>2, <2>3, <2>4
<1>7. ASSUME NEW r \in Records PROVE Nameless(r)' = Nameless(r)
  <2>1. Nameless(r)' = {types'[r].flds[i].ty : i \in {j \in DOMAIN types'[r].flds : Anonymous(types[r].flds[j])'}}
    BY DEF Nameless
  <2>2. Nameless(r) = {types[r].flds[i].ty : i \in {j \in DOMAIN types[r].flds : Anonymous(types[r].flds[j])}}
    BY DEF Nameless
  <2>3. {j \in DOMAIN types'[r].flds : Anonymous(types[r].flds[j])'}
          = {j \in DOMAIN types[r].flds : Anonymous(types[r].flds[j])}
    BY <1>3, <1>5
  <2>4. \A i \in {j \in DOMAIN types[r].flds : Anonymous(types[r].flds[j])} :
          types'[r].flds[i].ty = types[r].flds[i].ty
    BY DEF SameShape
  <2> QED
    BY <2>1, <2>2, <2>3, <2>4
<1> QED
  BY <1>3, <1>4, <1>5, <1>6, <1>7

\* The shape of the records is all that Structure is about.
LEMMA StructureKept ==
  ASSUME SameShape, Structure, complete \subseteq complete', complete' \subseteq Records,
         \A t \in DOMAIN types \ Records : types'[t].align = types[t].align,
         \A t \in complete : types'[t].align = types[t].align,
         \A t \in DOMAIN types' \ Records : types'[t].flds = << >>
  PROVE  Structure'
<1>1. client' = client /\ Records' = Records
  BY DEF SameShape
<1>2. ASSUME NEW r \in Records
      PROVE  /\ Len(types'[r].flds) <= client'.fields
             /\ \A i \in DOMAIN types'[r].flds : WellFormedField(types[r].flds[i])'
  <2>1. Len(types'[r].flds) <= client'.fields
    BY <1>1 DEF SameShape, Structure
  <2>2. ASSUME NEW i \in DOMAIN types'[r].flds PROVE WellFormedField(types[r].flds[i])'
    <3>1. i \in DOMAIN types[r].flds
      BY ShapeKept
    <3>2. WellFormedField(types[r].flds[i])
      BY <3>1 DEF Structure
    <3>3. /\ types'[r].flds[i].id = types[r].flds[i].id
          /\ types'[r].flds[i].ty = types[r].flds[i].ty
          /\ types'[r].flds[i].bits = types[r].flds[i].bits
      BY <3>1 DEF SameShape
    <3> DEFINE u == types[r].flds[i].ty
    <3>4. /\ u \in DOMAIN types /\ (u \in Records => u \in complete) /\ types[u].align # 0
      BY <3>2 DEF WellFormedField
    <3>5. types'[u].align = types[u].align /\ types'[u].categ = types[u].categ /\ u \in DOMAIN types'
      BY <3>4 DEF SameShape
    <3> QED
      BY <1>1, <3>2, <3>3, <3>4, <3>5 DEF WellFormedField
  <2> QED
    BY <2>1, <2>2
<1>3. \A t \in Records' : InPlace(t)' => \A g, h \in Holders(t)' : g = h
  BY <1>1, ShapeKept DEF Structure
<1> QED
  BY <1>1, <1>2, <1>3 DEF Structure

\* A record whose members and extent are kept is laid out as before.
LEMMA LaidAsBefore ==
  ASSUME SameShape, Structure, NEW r \in Records, NEW base,
         types'[r].flds = types[r].flds, types'[r].size = types[r].size,
         \A t \in DOMAIN types \ (Records \ complete) :
            types'[t].align = types[t].align /\ types'[t].size = types[t].size,
         Placed(r)' = Placed(r), Open(r)' = Open(r), Placed(r) \in 0..Len(types[r].flds),
         LaidFrom(r, base)
  PROVE  LaidFrom(r, base)'
<1> DEFINE flds == types[r].flds
<1>1. DOMAIN flds = 1..Len(flds) /\ Len(flds) \in Nat
  BY RecordFields DEF SameShape
<1>2. \A i \in 1..Placed(r) : i \in DOMAIN flds
  BY <1>1
<1>3. ASSUME NEW i \in 1..Placed(r)
      PROVE  /\ Align(flds[i])' = Align(flds[i])
             /\ Begin(flds[i])' = Begin(flds[i])
             /\ Finish(flds[i])' = Finish(flds[i])
  <2>1. i \in DOMAIN flds
    BY <1>2
  <2>2. WellFormedField(flds[i])
    BY <2>1 DEF Structure
  <2>3. flds[i].ty \in DOMAIN types \ (Records \ complete)
    BY <2>2 DEF WellFormedField
  <2>4. flds' = flds
    OBVIOUS
  <2> QED
    BY <2>3, <2>4 DEF Align, Begin, Finish
<1>4. types'[r].categ = types[r].categ
  BY RecordFields DEF SameShape
<1>5. flds' = flds
  OBVIOUS
<1>6. /\ \A i \in 1..Placed(r) :
          /\ base <= flds[i].offset
          /\ Align(flds[i]) \in Exact => (flds[i].offset - base) % Align(flds[i]) = 0
      /\ types[r].categ = T_STRUCT =>
          /\ \A i, j \in 1..Placed(r) : i < j => Finish(flds[i]) <= Begin(flds[j])
          /\ \A i \in 1..Placed(r) : Finish(flds[i]) <= 8 * (base + types[r].size) + Open(r)
  BY DEF LaidFrom
<1> DEFINE L == /\ \A i \in 1..Placed(r)' :
                    /\ base <= flds'[i].offset
                    /\ Align(flds[i])' \in Exact => (flds'[i].offset - base) % Align(flds[i])' = 0
                /\ types'[r].categ = T_STRUCT =>
                    /\ \A i, j \in 1..Placed(r)' : i < j => Finish(flds[i])' <= Begin(flds[j])'
                    /\ \A i \in 1..Placed(r)' : Finish(flds[i])' <= 8 * (base + types'[r].size) + Open(r)'
<1>7. L
  <2> HIDE DEF flds
  <2> QED
    BY <1>3, <1>4, <1>5, <1>6
<1> QED
  BY <1>7 DEF LaidFrom

\* How many members have their place.
LEMMA PlacedRange ==
  ASSUME Sound, Structure, EndingOK, NEW r \in Records
  PROVE  /\ Placed(r) \in 0..Len(types[r].flds) /\ Placed(r) \in Nat
         /\ Open(r) \in 0..IntBits
         /\ r \in complete => Placed(r) = Len(types[r].flds) /\ Open(r) = 0
         /\ ending = NotEnding /\ r \notin complete => Placed(r) = 0
         /\ ending = NotEnding => Open(r) = 0
<1>1. Len(types[r].flds) \in Nat /\ r # 0
  BY RecordFields
<1>2. ending = NotEnding => ending.rec # r
  BY <1>1 DEF NotEnding, Null
<1>3. IntBits = 32
  BY DEF IntBits, IntSize
<1>4. ending.rec # Null =>
        /\ ending.rec \notin complete /\ ending.at \in Nat /\ ending.bits \in 0..IntBits
        /\ ending.rec = r => ending.at \in 1..Len(types[r].flds) + 1
  BY DEF EndingOK, Ending, Rec
<1>5. CASE r = ending.rec
  BY <1>1, <1>2, <1>3, <1>4, <1>5 DEF Placed, Open, Null
<1>6. CASE r # ending.rec
  BY <1>1, <1>2, <1>3, <1>4, <1>6 DEF Placed, Open
<1> QED
  BY <1>5, <1>6

\* A record in place stays so.
LEMMA SimplyKept ==
  ASSUME SameShape, Structure, NEW r \in Records, NEW h \in Holders(r)
  PROVE  Simply(r, h)' = Simply(r, h)
<1> DEFINE flds == types[h[1]].flds
<1>1. h[1] \in Records /\ h[2] \in DOMAIN flds
  BY HolderIs DEF SameShape
<1>2. DOMAIN flds = 1..Len(flds) /\ Len(flds) \in Nat
  BY <1>1, RecordFields DEF SameShape
<1>3. h[2] > 1 => h[2] - 1 \in DOMAIN flds
  BY <1>1, <1>2
<1>4. h[2] > 1 => types'[h[1]].flds[h[2] - 1].bits = flds[h[2] - 1].bits
  BY <1>1, <1>3 DEF SameShape
<1>5. Anonymous(types[h[1]].flds[h[2]])' = Anonymous(types[h[1]].flds[h[2]])
  BY <1>1, ShapeKept
<1>6. InPlace(h[1])' = InPlace(h[1]) /\ Nameless(r)' = Nameless(r)
  BY ShapeKept
<1>7. Simply(r, h)' = (/\ Anonymous(types[h[1]].flds[h[2]])' /\ ~InPlace(h[1])' /\ Nameless(r)' = {}
                       /\ h[2] > 1 => types'[h[1]].flds[h[2] - 1].bits = 0)
  BY DEF Simply
<1>8. Simply(r, h) = (/\ Anonymous(flds[h[2]]) /\ ~InPlace(h[1]) /\ Nameless(r) = {}
                      /\ h[2] > 1 => flds[h[2] - 1].bits = 0)
  BY DEF Simply
<1> QED
  BY <1>4, <1>5, <1>6, <1>7, <1>8

\* The record keeps its own members and extent, and the types of its members do.
Untouched(r) ==
  /\ SameShape
  /\ types'[r].flds = types[r].flds /\ types'[r].size = types[r].size /\ types'[r].align = types[r].align
  /\ \A t \in DOMAIN types \ (Records \ complete) :
       types'[t].align = types[t].align /\ types'[t].size = types[t].size
  /\ Placed(r)' = Placed(r) /\ Open(r)' = Open(r)
  /\ (r \in complete') = (r \in complete)

\* A record no step touches lies where it lay.
LEMMA UntouchedLaid ==
  ASSUME NEW r \in Records, Untouched(r), Structure, EndingOK, NEW base, LaidFrom(r, base)
  PROVE  LaidFrom(r, base)'
<1>1. SameShape /\ Sound /\ Placed(r) \in 0..Len(types[r].flds)
  BY PlacedRange DEF Untouched, SameShape
<1> QED
  BY <1>1, LaidAsBefore DEF Untouched

\* And is as large.
LEMMA UntouchedExtent ==
  ASSUME NEW r \in Records, Untouched(r), Structure, EndingOK, Extent(r)
  PROVE  Extent(r)'
<1> DEFINE flds == types[r].flds
<1>1. SameShape /\ Sound /\ Placed(r) \in 0..Len(flds)
  BY PlacedRange DEF Untouched, SameShape
<1>2. DOMAIN flds = 1..Len(flds) /\ Len(flds) \in Nat
  BY <1>1, RecordFields
<1>3. ASSUME NEW i \in 1..Placed(r) PROVE Align(flds[i])' = Align(flds[i])
  <2>1. i \in DOMAIN flds
    BY <1>1, <1>2
  <2>2. WellFormedField(flds[i])
    BY <2>1 DEF Structure
  <2>3. flds[i].ty \in DOMAIN types \ (Records \ complete)
    BY <2>2 DEF WellFormedField
  <2>4. flds' = flds
    BY DEF Untouched
  <2> QED
    BY <2>3, <2>4 DEF Align, Untouched
<1>4. types'[r].categ = types[r].categ
  BY <1>1, RecordFields DEF SameShape
<1>5. flds' = flds /\ types'[r].size = types[r].size /\ types'[r].align = types[r].align
      /\ Placed(r)' = Placed(r) /\ (r \in complete') = (r \in complete)
  BY DEF Untouched
<1>6. /\ Placed(r) = 0 => types[r].size = 0 /\ types[r].align = 0
      /\ Placed(r) # 0 => \E i \in 1..Placed(r) : Align(flds[i]) = types[r].align
      /\ \A i \in 1..Placed(r) : Align(flds[i]) <= types[r].align
      /\ r \in complete /\ types[r].categ = T_STRUCT /\ types[r].align \in Exact =>
           types[r].size % types[r].align = 0
      /\ \A i \in DOMAIN flds : i > Placed(r) => flds[i].offset = 0
      /\ \A i \in DOMAIN flds : i > Placed(r) \/ flds[i].bits = 0 => flds[i].pos = 0
  BY DEF Extent
<1> DEFINE E == /\ Placed(r)' = 0 => types'[r].size = 0 /\ types'[r].align = 0
                /\ Placed(r)' # 0 => \E i \in 1..Placed(r)' : Align(flds[i])' = types'[r].align
                /\ \A i \in 1..Placed(r)' : Align(flds[i])' <= types'[r].align
                /\ r \in complete' /\ types'[r].categ = T_STRUCT /\ types'[r].align \in Exact =>
                     types'[r].size % types'[r].align = 0
                /\ \A i \in DOMAIN flds' : i > Placed(r)' => flds'[i].offset = 0
                /\ \A i \in DOMAIN flds' : i > Placed(r)' \/ flds'[i].bits = 0 => flds'[i].pos = 0
<1>7. E
  <2> HIDE DEF flds
  <2> QED
    BY <1>3, <1>4, <1>5, <1>6
<1> QED
  BY <1>7 DEF Extent, Exact

-----------------------------------------------------------------------------
(* Deriving types.                                                         *)

\* Steps that derive types leave records alone.
LEMMA DerivingKeeps ==
  ASSUME IInv, GoodHeap(types'), Grown(types, types'),
         client' = client, complete' = complete,
         ending' = ending \/ (ending = NotEnding /\ ending' = Ended)
  PROVE  IInv'
<1>1. Sound /\ Structure /\ EndingOK /\ Extents /\ Own /\ Held
  BY DEF IInv
<1>0. ending' = ending \/ (ending.rec = 0 /\ ending.bits = 0 /\ ending'.rec = 0 /\ ending'.bits = 0)
  BY DEF NotEnding, Ended, Null
<1>2. Sound'
  BY <1>1, SoundGrows
<1>3. types \in Seq(Objects) /\ types' \in Seq(Objects)
  BY <1>1 DEF Sound, GoodHeap
<1>4. DOMAIN types \subseteq DOMAIN types'
  BY <1>3, GrownDomain
<1>5. \A t \in DOMAIN types :
        /\ types'[t].categ = types[t].categ /\ types'[t].qual = types[t].qual
        /\ types'[t].align = types[t].align /\ types'[t].size = types[t].size
        /\ types'[t].flds = types[t].flds
  BY DEF Grown
<1>6. \A t \in DOMAIN types' \ DOMAIN types : ~(IsRecord(types'[t]) /\ types'[t].qual = {}) /\ types'[t].flds = << >>
  BY DEF Grown
<1>7. Records' = Records
  <2>1. Records' = {t \in DOMAIN types' : IsRecord(types'[t]) /\ types'[t].qual = {}}
    BY DEF Records
  <2>2. \A t \in DOMAIN types : IsRecord(types'[t]) = IsRecord(types[t])
    BY <1>5 DEF IsRecord
  <2> QED
    BY <1>4, <1>5, <1>6, <2>1, <2>2 DEF Records
<1>8. Records \subseteq DOMAIN types
  BY DEF Records
<1>9. SameShape
  BY <1>1, <1>2, <1>4, <1>5, <1>7, <1>8 DEF SameShape
<1>10. Structure'
  <2>1. \A t \in DOMAIN types' \ Records : types'[t].flds = << >>
    BY <1>1, <1>5, <1>6 DEF Structure
  <2>2. complete \subseteq complete' /\ complete' \subseteq Records /\ complete \subseteq DOMAIN types
    BY <1>1, <1>8 DEF Structure
  <2> QED
    BY <1>1, <1>5, <1>9, <2>1, <2>2, StructureKept
<1>11. ending' = ending /\ ending.rec \in Records =>
         Rec' = types'[ending.rec] /\ Rec'.flds = Rec.flds /\ Rec'.size = Rec.size /\ Rec'.categ = Rec.categ
  BY <1>5, <1>8 DEF Rec
<1>12. EndingOK'
  <2>1. CASE ending' = ending
    BY <1>1, <1>7, <1>11, <2>1 DEF EndingOK, Ending
  <2>2. CASE ending'.rec = 0
    BY <2>2 DEF EndingOK, Ending, Null
  <2> QED
    BY <1>0, <2>1, <2>2
<1>13. ASSUME NEW r \in Records PROVE Untouched(r)
  <2>0. r # 0 /\ r \in DOMAIN types
    BY <1>1, <1>8, RecordFields
  <2>1. Placed(r)' = Placed(r) /\ Open(r)' = Open(r)
    BY <1>0, <1>5, <2>0 DEF Placed, Open
  <2> QED
    BY <1>5, <1>8, <1>9, <2>1 DEF Untouched
<1>14. Extents'
  BY <1>1, <1>7, <1>13, UntouchedExtent DEF Extents
<1>15. Own'
  <2>1. ASSUME NEW r \in Records, ~InPlace(r)' PROVE LaidFrom(r, 0)'
    BY <1>1, <1>9, <1>13, <2>1, ShapeKept, UntouchedLaid DEF Own
  <2> QED
    BY <1>7, <2>1 DEF Own
<1>16. Held'
  <2>1. ASSUME NEW r \in Records, NEW h \in Holders(r)', Simply(r, h)'
        PROVE  LaidFrom(r, types[h[1]].flds[h[2]].offset)'
    <3>1. h \in Holders(r)
      BY <1>1, <1>9, ShapeKept
    <3>2. Simply(r, h)
      BY <1>1, <1>9, <2>1, <3>1, SimplyKept
    <3>3. h[1] \in DOMAIN types
      BY <1>1, <1>8, <3>1, HolderIs
    <3> DEFINE base == types[h[1]].flds[h[2]].offset
    <3>4. LaidFrom(r, base)
      BY <1>1, <3>1, <3>2 DEF Held
    <3>5. base' = base
      BY <1>5, <3>3
    <3>6. Untouched(r)
      BY <1>13
    <3> HIDE DEF base
    <3>7. LaidFrom(r, base)'
      <4> SUFFICES ASSUME NEW b, b = base, b = base' PROVE LaidFrom(r, b)'
        BY <3>5 DEF LaidFrom
      <4> QED
        BY <1>1, <3>4, <3>6, UntouchedLaid
    <3> QED
      BY <3>7 DEF base
  <2> QED
    BY <1>7, <2>1 DEF Held
<1> QED
  BY <1>2, <1>10, <1>12, <1>14, <1>15, <1>16 DEF IInv

-----------------------------------------------------------------------------
(* A record begins, and endRecord() begins.                                *)

\* A record begins without members.
LEMMA NewRecord ==
  ASSUME NEW categ \in {T_STRUCT, T_UNION}
  PROVE  LET ty == NewType(categ)
         IN /\ ty \in Objects /\ ty.categ = categ /\ ty.qual = {} /\ ty.align = 0 /\ ty.size = 0
            /\ ty.bty = Null /\ ty.sig = NoSignature /\ ty.flds = << >>
<1> DEFINE ty == NewType(categ)
<1>1. ty = [categ |-> categ, qual |-> {}, align |-> 0, size |-> 0, bty |-> Null,
            sig |-> NoSignature, flds |-> << >>]
  BY DEF NewType
<1>2. NoSignature \in Signatures /\ << >> \in Seq(Fields) /\ categ \in Nat /\ Null \in Nat
  BY DEF NoSignature, Signatures, T_STRUCT, T_UNION, Null
<1>3. {} \in SUBSET Quals
  OBVIOUS
<1> HIDE DEF ty, NoSignature, Null
<1>4. ty \in Objects
  BY <1>1, <1>2, <1>3 DEF Objects
<1> QED
  BY <1>1, <1>4 DEF ty

\* makeStructType and makeUnionType keep the invariant.
LEMMA StartsRecord ==
  ASSUME IInv, NEW categ \in {T_STRUCT, T_UNION}, StartRecord(categ)
  PROVE  IInv'
<1> DEFINE ty == NewType(categ)
<1>0. PICK n : n = Len(types) + 1
  OBVIOUS
<1>1. Sound /\ Structure /\ EndingOK /\ Extents /\ Own /\ Held
  BY DEF IInv
<1>2. /\ types' = Append(types, ty)
      /\ client' = client /\ ending' = ending /\ complete' = complete
      /\ ending = NotEnding /\ Cardinality(Records) < client.records /\ Records = complete
  BY DEF StartRecord, New
<1>3. /\ ty \in Objects /\ ty.categ = categ /\ ty.qual = {} /\ ty.align = 0 /\ ty.size = 0
      /\ ty.bty = Null /\ ty.sig = NoSignature /\ ty.flds = << >>
  BY NewRecord
<1>4. /\ types \in Seq(Objects) /\ Len(types) \in Nat /\ DOMAIN types = 1..Len(types)
      /\ 16 <= Len(types) /\ Len(client.heap) <= Len(types)
  BY <1>1, Heap DEF Sound
<1> HIDE DEF ty
<1>5. /\ types' \in Seq(Objects) /\ Len(types') = Len(types) + 1 /\ DOMAIN types' = 1..Len(types) + 1
      /\ types'[n] = ty /\ \A t \in DOMAIN types : types'[t] = types[t]
  BY <1>0, <1>2, <1>3, <1>4
<1>6. n \in Nat /\ n \notin DOMAIN types /\ DOMAIN types' = DOMAIN types \cup {n}
  BY <1>0, <1>4, <1>5
<1>7. Proper(types) \subseteq Proper(types')
  BY <1>6 DEF Proper
<1>8. ASSUME NEW t \in DOMAIN types' PROVE WellBuilt(types', t)
  <2>1. CASE t \in DOMAIN types
    <3>1. WellBuilt(types, t)
      BY <1>1, <2>1 DEF Sound, GoodHeap
    <3>2. \A b \in Proper(types) : types'[b] = types[b]
      BY <1>5 DEF Proper
    <3>3. types'[t] = types[t]
      BY <1>5, <2>1
    <3> QED
      BY <1>7, <3>1, <3>2, <3>3 DEF WellBuilt
  <2>2. CASE t = n
    <3>1. types'[t] = ty
      BY <1>5, <2>2
    <3>2. categ \notin 0..T_LONGDOUBLE /\ categ \notin {T_POINTER, T_ARRAY, T_FUNCTION}
      BY DEF T_STRUCT, T_UNION, T_LONGDOUBLE, T_POINTER, T_ARRAY, T_FUNCTION
    <3> QED
      BY <1>3, <3>1, <3>2 DEF WellBuilt, Aligns, NoSignature
  <2> QED
    BY <1>6, <2>1, <2>2
<1>9. Sound'
  <2>1. \A t \in DOMAIN Builtins : t \in DOMAIN types' /\ types'[t] = Builtins[t]
    BY <1>1, <1>5, <1>6 DEF Sound, GoodHeap
  <2>2. GoodHeap(types')
    BY <1>5, <1>8, <2>1 DEF GoodHeap
  <2>3. \A t \in DOMAIN client.heap : ~IsRecord(types'[t])
    BY <1>1, <1>5, Heap DEF Sound
  <2> QED
    BY <1>1, <1>2, <1>4, <1>5, <2>2, <2>3 DEF Sound
<1>10. Records' = Records \cup {n}
  <2>1. IsRecord(ty)
    BY <1>3 DEF IsRecord
  <2>2. Records' = {t \in DOMAIN types' : IsRecord(types'[t]) /\ types'[t].qual = {}}
    BY DEF Records
  <2>3. Records = {t \in DOMAIN types : IsRecord(types[t]) /\ types[t].qual = {}}
    BY DEF Records
  <2>4. \A t \in DOMAIN types' : t \in Records' <=> t \in Records \/ t = n
    <3>1. SUFFICES ASSUME NEW t \in DOMAIN types' PROVE t \in Records' <=> t \in Records \/ t = n
      OBVIOUS
    <3>2. CASE t = n
      BY <1>3, <1>5, <2>1, <2>2, <3>2
    <3>3. CASE t # n
      <4>1. t \in DOMAIN types /\ types'[t] = types[t]
        BY <1>5, <1>6, <3>3
      <4> QED
        BY <2>2, <2>3, <3>3, <4>1
    <3> QED
      BY <3>2, <3>3
  <2>5. n \in DOMAIN types' /\ Records \subseteq DOMAIN types' /\ Records' \subseteq DOMAIN types'
    BY <1>6, <2>2, <2>3
  <2> QED
    BY <2>4, <2>5
<1>11. Records \subseteq DOMAIN types /\ n \notin Records
  BY <1>6 DEF Records
<1>12. client.records # 0
  <2>1. IsFiniteSet(1..Len(types))
    BY <1>4, FS_Interval
  <2>2. IsFiniteSet(Records)
    BY <1>4, <1>11, <2>1, FS_Subset
  <2>3. Cardinality(Records) \in Nat
    BY <2>2, FS_CardinalityType
  <2> QED
    BY <1>2, <2>3
<1>13. \A t : Holders(t)' = Holders(t)
  <2>1. SUFFICES ASSUME NEW t PROVE Holders(t)' = Holders(t)
    OBVIOUS
  <2>2. DOMAIN types'[n].flds = {}
    BY <1>3, <1>5
  <2>3. \A r \in Records : types'[r] = types[r]
    BY <1>5, <1>11
  <2>4. Holders(t)' = {h \in Records' \X (1..client.fields) :
                         h[2] \in DOMAIN types'[h[1]].flds /\ types'[h[1]].flds[h[2]].ty = t}
    BY <1>2 DEF Holders
  <2>5. Holders(t) = {h \in Records \X (1..client.fields) :
                         h[2] \in DOMAIN types[h[1]].flds /\ types[h[1]].flds[h[2]].ty = t}
    BY DEF Holders
  <2> QED
    BY <1>10, <2>2, <2>3, <2>4, <2>5
<1>14. \A r \in Records : \A i \in DOMAIN types[r].flds :
         /\ WellFormedField(types[r].flds[i])
         /\ types[r].flds[i].ty \in DOMAIN types /\ types[r].flds[i].ty # n
  BY <1>1, <1>6 DEF Structure, WellFormedField
<1>15. \A r \in Records : \A i \in DOMAIN types[r].flds :
         Anonymous(types[r].flds[i])' = Anonymous(types[r].flds[i])
  BY <1>5, <1>11, <1>14 DEF Anonymous
<1>16. \A t : InPlace(t)' = InPlace(t)
  <2>1. SUFFICES ASSUME NEW t PROVE InPlace(t)' = InPlace(t)
    OBVIOUS
  <2>2. \A h \in Holders(t) : h[1] \in Records /\ h[2] \in DOMAIN types[h[1]].flds
    BY <1>1, HolderIs
  <2>3. \A h \in Holders(t) : Anonymous(types[h[1]].flds[h[2]])' = Anonymous(types[h[1]].flds[h[2]])
    BY <1>15, <2>2
  <2>4. InPlace(t)' = \E h \in Holders(t)' : Anonymous(types[h[1]].flds[h[2]])'
    BY DEF InPlace
  <2>5. InPlace(t) = \E h \in Holders(t) : Anonymous(types[h[1]].flds[h[2]])
    BY DEF InPlace
  <2>6. Holders(t)' = Holders(t)
    BY <1>13
  <2> QED
    BY <2>3, <2>4, <2>5, <2>6
<1>17. Holders(n) = {}
  <2>1. \A h \in Holders(n) : FALSE
    BY <1>1, <1>14, HolderIs
  <2> QED
    BY <2>1
<1>18. Structure'
  <2>1. \A t \in DOMAIN types' \ Records' : types'[t].flds = << >>
    BY <1>1, <1>5, <1>6, <1>10 DEF Structure
  <2>2. complete' \subseteq Records'
    BY <1>1, <1>2, <1>10 DEF Structure
  <2>3. ASSUME NEW r \in Records'
        PROVE  /\ Len(types'[r].flds) <= client'.fields
               /\ \A i \in DOMAIN types'[r].flds : WellFormedField(types[r].flds[i])'
    <3>1. CASE r = n
      <4>1. types'[n].flds = << >> /\ client.fields \in Nat
        BY <1>1, <1>3, <1>5, Heap
      <4>2. Len(<< >>) = 0 /\ DOMAIN << >> = {}
        OBVIOUS
      <4> QED
        BY <1>2, <3>1, <4>1, <4>2
    <3>2. CASE r # n
      <4>1. r \in Records /\ types'[r] = types[r]
        BY <1>5, <1>10, <1>11, <3>2
      <4>2. ASSUME NEW i \in DOMAIN types[r].flds PROVE WellFormedField(types[r].flds[i])'
        <5>1. WellFormedField(types[r].flds[i]) /\ types[r].flds[i].ty # n
          BY <1>14, <4>1, <4>2
        <5>2. types[r].flds[i].ty \in DOMAIN types /\ types'[types[r].flds[i].ty] = types[types[r].flds[i].ty]
          BY <1>5, <1>14, <4>1, <4>2
        <5> QED
          BY <1>2, <1>6, <1>10, <4>1, <5>1, <5>2 DEF WellFormedField
      <4> QED
        BY <1>1, <1>2, <4>1, <4>2 DEF Structure
    <3> QED
      BY <3>1, <3>2
  <2>4. ASSUME NEW t \in Records', InPlace(t)' PROVE \A g, h \in Holders(t)' : g = h
    <3>1. CASE t = n
      BY <1>13, <1>17, <3>1
    <3>2. CASE t # n
      BY <1>1, <1>10, <1>13, <1>16, <2>4, <3>2 DEF Structure
    <3> QED
      BY <3>1, <3>2
  <2> QED
    BY <1>2, <1>12, <2>1, <2>2, <2>3, <2>4 DEF Structure
<1>19. EndingOK'
  BY <1>2 DEF EndingOK, Ending, NotEnding
<1>20. /\ Placed(n)' = 0 /\ types'[n].flds = << >> /\ types'[n].size = 0 /\ types'[n].align = 0
  <2>1. n \notin complete /\ ending.rec # n
    BY <1>0, <1>1, <1>2, <1>4, <1>11 DEF Structure, NotEnding, Null
  <2>2. Placed(n)' = IF n \in complete' THEN Len(types'[n].flds) ELSE IF n = ending'.rec THEN ending'.at - 1 ELSE 0
    BY DEF Placed
  <2>3. Placed(n)' = 0
    BY <1>2, <2>1, <2>2
  <2> QED
    BY <1>3, <1>5, <2>3
<1>21. ASSUME NEW r \in Records
       PROVE  /\ types'[r] = types[r] /\ Placed(r)' = Placed(r) /\ Open(r)' = Open(r)
              /\ \A i \in DOMAIN types[r].flds :
                   /\ Align(types[r].flds[i])' = Align(types[r].flds[i])
                   /\ Begin(types[r].flds[i])' = Begin(types[r].flds[i])
                   /\ Finish(types[r].flds[i])' = Finish(types[r].flds[i])
  <2>1. types'[r] = types[r]
    BY <1>5, <1>11
  <2>2. Placed(r)' = Placed(r) /\ Open(r)' = Open(r)
    BY <1>2, <2>1 DEF Placed, Open
  <2>3. ASSUME NEW i \in DOMAIN types[r].flds
        PROVE  /\ Align(types[r].flds[i])' = Align(types[r].flds[i])
               /\ Begin(types[r].flds[i])' = Begin(types[r].flds[i])
               /\ Finish(types[r].flds[i])' = Finish(types[r].flds[i])
    <3>1. types'[types[r].flds[i].ty] = types[types[r].flds[i].ty]
      BY <1>5, <1>14
    <3> QED
      BY <2>1, <3>1 DEF Align, Begin, Finish
  <2> QED
    BY <2>1, <2>2, <2>3
<1>22. \A r \in Records : \A i \in 1..Placed(r) : i \in DOMAIN types[r].flds
  BY <1>1, PlacedRange, RecordFields
<1>23. Extents'
  <2>1. ASSUME NEW r \in Records' PROVE Extent(r)'
    <3>1. CASE r = n
      <4>1. n \notin complete'
        BY <1>1, <1>2, <1>11 DEF Structure
      <4>2. DOMAIN types'[n].flds = {}
        BY <1>20
      <4> QED
        BY <1>20, <3>1, <4>1, <4>2 DEF Extent
    <3>2. CASE r # n
      <4>1. r \in Records /\ Extent(r)
        BY <1>1, <1>10, <3>2 DEF Extents
      <4> DEFINE flds == types[r].flds
      <4>2. /\ Placed(r) = 0 => types[r].size = 0 /\ types[r].align = 0
            /\ Placed(r) # 0 => \E i \in 1..Placed(r) : Align(flds[i]) = types[r].align
            /\ \A i \in 1..Placed(r) : Align(flds[i]) <= types[r].align
            /\ r \in complete /\ types[r].categ = T_STRUCT /\ types[r].align \in Exact =>
                 types[r].size % types[r].align = 0
            /\ \A i \in DOMAIN flds : i > Placed(r) => flds[i].offset = 0
            /\ \A i \in DOMAIN flds : i > Placed(r) \/ flds[i].bits = 0 => flds[i].pos = 0
        BY <4>1 DEF Extent
      <4>3. /\ types'[r] = types[r] /\ Placed(r)' = Placed(r) /\ complete' = complete /\ flds' = flds
            /\ \A i \in 1..Placed(r) : Align(flds[i])' = Align(flds[i])
        BY <1>2, <1>21, <1>22, <4>1
      <4> DEFINE E == /\ Placed(r)' = 0 => types'[r].size = 0 /\ types'[r].align = 0
                      /\ Placed(r)' # 0 => \E i \in 1..Placed(r)' : Align(flds[i])' = types'[r].align
                      /\ \A i \in 1..Placed(r)' : Align(flds[i])' <= types'[r].align
                      /\ r \in complete' /\ types'[r].categ = T_STRUCT /\ types'[r].align \in Exact =>
                           types'[r].size % types'[r].align = 0
                      /\ \A i \in DOMAIN flds' : i > Placed(r)' => flds'[i].offset = 0
                      /\ \A i \in DOMAIN flds' : i > Placed(r)' \/ flds'[i].bits = 0 => flds'[i].pos = 0
      <4>4. E
        <5> HIDE DEF flds
        <5> QED
          BY <4>2, <4>3
      <4> QED
        BY <4>4 DEF Extent, Exact
    <3> QED
      BY <3>1, <3>2
  <2> QED
    BY <2>1 DEF Extents
<1>24. ASSUME NEW r \in Records, NEW base, LaidFrom(r, base) PROVE LaidFrom(r, base)'
  BY <1>21, <1>22, <1>24 DEF LaidFrom
<1>25. \A base : LaidFrom(n, base)'
  BY <1>20 DEF LaidFrom
<1>26. Own'
  <2>1. ASSUME NEW r \in Records', ~InPlace(r)' PROVE LaidFrom(r, 0)'
    <3>1. CASE r = n
      BY <1>25, <3>1
    <3>2. CASE r # n
      <4>1. r \in Records /\ LaidFrom(r, 0)
        BY <1>1, <1>10, <1>16, <2>1, <3>2 DEF Own
      <4> QED
        BY <1>24, <4>1
    <3> QED
      BY <3>1, <3>2
  <2> QED
    BY <2>1 DEF Own
<1>27. Held'
  <2>1. ASSUME NEW r \in Records', NEW h \in Holders(r)', Simply(r, h)'
        PROVE  LaidFrom(r, types[h[1]].flds[h[2]].offset)'
    <3>1. r \in Records /\ h \in Holders(r)
      BY <1>10, <1>13, <1>17, <2>1
    <3>2. h[1] \in Records /\ h[2] \in DOMAIN types[h[1]].flds
      BY <1>1, <3>1, HolderIs
    <3>3. types'[h[1]] = types[h[1]]
      BY <1>21, <3>2
    <3>4. Nameless(r)' = Nameless(r)
      <4>1. types'[r] = types[r]
        BY <1>21, <3>1
      <4>2. \A i \in DOMAIN types[r].flds : Anonymous(types[r].flds[i])' = Anonymous(types[r].flds[i])
        BY <1>15, <3>1
      <4>3. Nameless(r)' = {types'[r].flds[i].ty : i \in {j \in DOMAIN types'[r].flds : Anonymous(types[r].flds[j])'}}
        BY DEF Nameless
      <4>4. Nameless(r) = {types[r].flds[i].ty : i \in {j \in DOMAIN types[r].flds : Anonymous(types[r].flds[j])}}
        BY DEF Nameless
      <4> QED
        BY <4>1, <4>2, <4>3, <4>4
    <3>5. Simply(r, h)
      <4>1. Anonymous(types[h[1]].flds[h[2]]) /\ ~InPlace(h[1])
        BY <1>15, <1>16, <2>1, <3>2 DEF Simply
      <4>2. h[2] > 1 => types'[h[1]].flds[h[2] - 1].bits = 0
        BY <2>1 DEF Simply
      <4>3. Nameless(r)' = {}
        BY <2>1 DEF Simply
      <4> QED
        BY <3>3, <3>4, <4>1, <4>2, <4>3 DEF Simply
    <3>6. LaidFrom(r, types[h[1]].flds[h[2]].offset)
      BY <1>1, <3>1, <3>5 DEF Held
    <3> SUFFICES ASSUME NEW b, b = types[h[1]].flds[h[2]].offset, b = types'[h[1]].flds[h[2]].offset
                 PROVE  LaidFrom(r, b)'
      BY <3>3 DEF LaidFrom
    <3> QED
      BY <1>24, <3>1, <3>6
  <2> QED
    BY <2>1 DEF Held
<1> QED
  BY <1>9, <1>18, <1>19, <1>23, <1>26, <1>27 DEF IInv

\* So does the beginning of endRecord.
LEMMA BeginsEnding ==
  ASSUME IInv, NEW r \in Records, EndRecord(r)
  PROVE  IInv'
<1>1. Sound /\ Structure /\ EndingOK /\ Extents /\ Own /\ Held
  BY DEF IInv
<1>2. /\ ending = NotEnding /\ r \notin complete
      /\ ending' = [rec |-> r, at |-> 1, bits |-> 0]
      /\ types' = types /\ client' = client /\ complete' = complete
  BY DEF EndRecord
<1>3. Sound'
  BY <1>1, <1>2 DEF Sound
<1>4. Records' = Records
  BY <1>2 DEF Records
<1>5. SameShape
  BY <1>1, <1>2, <1>3, <1>4 DEF SameShape
<1>6. Structure'
  <2>1. complete \subseteq complete' /\ complete' \subseteq Records
    BY <1>1, <1>2 DEF Structure
  <2>2. \A t \in DOMAIN types' \ Records : types'[t].flds = << >>
    BY <1>1, <1>2 DEF Structure
  <2> QED
    BY <1>1, <1>2, <1>5, <2>1, <2>2, StructureKept
<1>7. EndingOK'
  <2>1. Len(types[r].flds) \in Nat /\ r \in Records
    BY <1>1, RecordFields
  <2>2. ending'.rec = r /\ ending'.at = 1 /\ ending'.bits = 0
    BY <1>2
  <2>3. ending' \in [rec : Records \ complete, at : Nat, bits : 0..IntBits]
    BY <1>2 DEF IntBits, IntSize
  <2>4. Rec' = types[r]
    BY <1>2, <2>2 DEF Rec
  <2>5. ending'.at \in 1..Len(Rec'.flds) + 1
    BY <2>1, <2>2, <2>4
  <2>6. Records' = Records /\ complete' = complete
    BY <1>2, <1>4
  <2> QED
    BY <2>2, <2>3, <2>5, <2>6 DEF EndingOK
<1>8. ASSUME NEW k \in Records PROVE Untouched(k)
  <2>1. ending.rec # k /\ ending.bits = 0
    BY <1>1, <1>2, RecordFields DEF NotEnding, Null
  <2>2. Placed(k)' = Placed(k) /\ Open(k)' = Open(k)
    BY <1>2, <2>1 DEF Placed, Open
  <2> QED
    BY <1>2, <1>5, <2>2 DEF Untouched
<1>9. Extents'
  BY <1>1, <1>4, <1>8, UntouchedExtent DEF Extents
<1>10. Own'
  <2>1. ASSUME NEW k \in Records, ~InPlace(k)' PROVE LaidFrom(k, 0)'
    BY <1>1, <1>5, <1>8, <2>1, ShapeKept, UntouchedLaid DEF Own
  <2> QED
    BY <1>4, <2>1 DEF Own
<1>11. Held'
  <2>1. ASSUME NEW k \in Records, NEW h \in Holders(k)', Simply(k, h)'
        PROVE  LaidFrom(k, types[h[1]].flds[h[2]].offset)'
    <3>1. h \in Holders(k)
      BY <1>1, <1>5, ShapeKept
    <3>2. Simply(k, h)
      BY <1>1, <1>5, <2>1, <3>1, SimplyKept
    <3>3. LaidFrom(k, types[h[1]].flds[h[2]].offset)
      BY <1>1, <3>1, <3>2 DEF Held
    <3> SUFFICES ASSUME NEW b, b = types[h[1]].flds[h[2]].offset, b = types'[h[1]].flds[h[2]].offset
                 PROVE  LaidFrom(k, b)'
      BY <1>2 DEF LaidFrom
    <3> QED
      BY <1>1, <1>8, <3>3, UntouchedLaid
  <2> QED
    BY <1>4, <2>1 DEF Held
<1> QED
  BY <1>3, <1>6, <1>7, <1>9, <1>10, <1>11 DEF IInv

-----------------------------------------------------------------------------
(* endRecord() changes records only.                                       *)

\* A heap stays good when only records change.
LEMMA RetouchedGood ==
  ASSUME NEW h, GoodHeap(h), NEW k \in Seq(Objects), DOMAIN k = DOMAIN h,
         \A t \in DOMAIN h :
           \/ k[t] = h[t]
           \/ /\ IsRecord(h[t]) /\ h[t].qual = {}
              /\ k[t].categ = h[t].categ /\ k[t].qual = {} /\ k[t].sig = h[t].sig
              /\ k[t].align \in Aligns /\ (k[t].size # 0 => k[t].align # 0)
  PROVE  GoodHeap(k)
<1>1. Proper(k) = Proper(h)
  BY DEF Proper
<1>2. \A t \in DOMAIN h : k[t].categ = h[t].categ /\ k[t].qual = h[t].qual /\ k[t].sig = h[t].sig
  OBVIOUS
<1>3. ASSUME NEW t \in DOMAIN k PROVE WellBuilt(k, t)
  <2>1. WellBuilt(h, t)
    BY DEF GoodHeap
  <2>2. CASE k[t] = h[t]
    <3>1. \A b \in Proper(h) : k[b].categ = h[b].categ /\ k[b].qual = h[b].qual
      BY <1>2 DEF Proper
    <3> QED
      BY <1>1, <2>1, <2>2, <3>1 DEF WellBuilt
  <2>3. CASE k[t] # h[t]
    <3>1. /\ IsRecord(h[t]) /\ k[t].categ = h[t].categ /\ k[t].qual = {} /\ k[t].sig = h[t].sig
          /\ k[t].align \in Aligns /\ (k[t].size # 0 => k[t].align # 0)
      BY <2>3
    <3>2. k[t].categ \notin 0..T_LONGDOUBLE /\ k[t].categ \notin {T_POINTER, T_ARRAY, T_FUNCTION}
      BY <3>1 DEF IsRecord, T_STRUCT, T_UNION, T_LONGDOUBLE, T_POINTER, T_ARRAY, T_FUNCTION
    <3>3. \A i \in DOMAIN k[t].sig.params : k[t].sig.params[i] \in Proper(k)
      BY <1>1, <2>1, <3>1 DEF WellBuilt
    <3> QED
      BY <3>1, <3>2, <3>3 DEF WellBuilt
  <2> QED
    BY <2>2, <2>3
<1>4. \A t \in DOMAIN Builtins : t \in DOMAIN k /\ k[t] = Builtins[t]
  <2>1. SUFFICES ASSUME NEW t \in DOMAIN Builtins PROVE t \in DOMAIN k /\ k[t] = Builtins[t]
    OBVIOUS
  <2>2. t \in DOMAIN h /\ h[t] = Builtins[t]
    BY DEF GoodHeap
  <2>3. t \in 1..16 /\ Builtins[t].categ = t - 1
    BY DEF Builtins, Sized, NewType
  <2>4. ~IsRecord(h[t])
    BY <2>2, <2>3 DEF IsRecord, T_STRUCT, T_UNION
  <2> QED
    BY <2>2, <2>4
<1> QED
  BY <1>3, <1>4 DEF GoodHeap

\* An object with another extent.
Extended(o, size, align) == [o EXCEPT !.size = size, !.align = align]

\* An object is its fields.
LEMMA ObjectFields ==
  ASSUME NEW o \in Objects
  PROVE  /\ o = [categ |-> o.categ, qual |-> o.qual, align |-> o.align, size |-> o.size,
                 bty |-> o.bty, sig |-> o.sig, flds |-> o.flds]
         /\ o.categ \in Nat /\ o.qual \in SUBSET Quals /\ o.align \in Nat /\ o.size \in Nat
         /\ o.sig \in Signatures /\ o.flds \in Seq(Fields) /\ o.bty \in Nat
<1>1. o = [categ |-> o.categ, qual |-> o.qual, align |-> o.align, size |-> o.size,
           bty |-> o.bty, sig |-> o.sig, flds |-> o.flds]
  BY Zenon DEF Objects
<1>2. /\ o.categ \in Nat /\ o.qual \in SUBSET Quals /\ o.align \in Nat /\ o.size \in Nat
      /\ o.sig \in Signatures /\ o.flds \in Seq(Fields) /\ o.bty \in Nat
  BY Zenon DEF Objects
<1> QED
  BY <1>1, <1>2

\* A larger object differs in size and alignment.
LEMMA ExtendedObject ==
  ASSUME NEW o \in Objects, NEW s \in Nat, NEW a \in Nat
  PROVE  /\ Extended(o, s, a) \in Objects
         /\ Extended(o, s, a).categ = o.categ /\ Extended(o, s, a).qual = o.qual
         /\ Extended(o, s, a).align = a /\ Extended(o, s, a).size = s
         /\ Extended(o, s, a).bty = o.bty /\ Extended(o, s, a).sig = o.sig
         /\ Extended(o, s, a).flds = o.flds
<1> DEFINE n == Extended(o, s, a)
<1>1. n = [categ |-> o.categ, qual |-> o.qual, align |-> a, size |-> s,
           bty |-> o.bty, sig |-> o.sig, flds |-> o.flds]
  <2>1. n = [o EXCEPT !.size = s, !.align = a]
    BY DEF Extended
  <2>2. o = [categ |-> o.categ, qual |-> o.qual, align |-> o.align, size |-> o.size,
             bty |-> o.bty, sig |-> o.sig, flds |-> o.flds]
    BY ObjectFields
  <2> HIDE DEF n
  <2> QED
    BY <2>1, <2>2
<1> HIDE DEF n
<1>2. n \in Objects
  <2>1. /\ o.categ \in Nat /\ o.qual \in SUBSET Quals
        /\ o.sig \in Signatures /\ o.flds \in Seq(Fields) /\ o.bty \in Nat
    BY ObjectFields
  <2> QED
    BY <1>1, <2>1 DEF Objects
<1>3. /\ n.categ = o.categ /\ n.qual = o.qual /\ n.align = a /\ n.size = s
      /\ n.bty = o.bty /\ n.sig = o.sig /\ n.flds = o.flds
  BY <1>1
<1> QED
  BY <1>2, <1>3 DEF n

\* A nameless record is no bit-field, and is finished.
LEMMA NamelessField ==
  ASSUME NEW f, WellFormedField(f), Anonymous(f)
  PROVE  f.bits = 0 /\ f.ty \in complete
<1>1. f.bits = 0
  BY DEF WellFormedField, Anonymous, IsRecord, T_INT, T_STRUCT, T_UNION
<1> QED
  BY <1>1 DEF WellFormedField, Anonymous

\* A record defined in place is complete.
LEMMA InPlaceComplete ==
  ASSUME Sound, Structure, NEW t, InPlace(t)
  PROVE  t \in complete
<1>1. PICK h \in Holders(t) : Anonymous(types[h[1]].flds[h[2]])
  BY DEF InPlace
<1>2. h[1] \in Records /\ h[2] \in DOMAIN types[h[1]].flds /\ types[h[1]].flds[h[2]].ty = t
  BY HolderIs
<1> QED
  BY <1>1, <1>2, NamelessField DEF Structure

\* One record gets another extent.
LEMMA ResizedShape ==
  ASSUME Sound, Structure, NEW p \in Records \ complete, NEW s \in Nat, NEW a \in Aligns, s # 0 => a # 0,
         types' = WithType(types, p, Extended(types[p], s, a)), client' = client
  PROVE  /\ SameShape
         /\ \A t \in DOMAIN types : t # p => types'[t] = types[t]
         /\ types'[p].flds = types[p].flds /\ types'[p].size = s /\ types'[p].align = a
         /\ types'[p].categ = types[p].categ
         /\ DOMAIN types' = DOMAIN types
<1> DEFINE n == Extended(types[p], s, a)
<1>1. types \in Seq(Objects) /\ p \in DOMAIN types /\ a \in Nat /\ IsRecord(types[p]) /\ types[p].qual = {}
  BY Heap DEF Records, Aligns
<1>2. /\ n \in Objects
      /\ n.categ = types[p].categ /\ n.qual = types[p].qual /\ n.align = a /\ n.size = s
      /\ n.bty = types[p].bty /\ n.sig = types[p].sig /\ n.flds = types[p].flds
  <2>1. PICK o : o = types[p]
    OBVIOUS
  <2>2. o \in Objects /\ s \in Nat /\ a \in Nat
    BY <1>1, <2>1
  <2>3. /\ Extended(o, s, a) \in Objects
        /\ Extended(o, s, a).categ = o.categ /\ Extended(o, s, a).qual = o.qual
        /\ Extended(o, s, a).align = a /\ Extended(o, s, a).size = s
        /\ Extended(o, s, a).bty = o.bty /\ Extended(o, s, a).sig = o.sig
        /\ Extended(o, s, a).flds = o.flds
    BY <2>2, ExtendedObject
  <2> QED
    BY <2>1, <2>3
<1> HIDE DEF n
<1>3. /\ types' = [types EXCEPT ![p] = n]
  BY DEF n, WithType
<1>4. /\ types' \in Seq(Objects) /\ DOMAIN types' = DOMAIN types /\ Len(types') = Len(types)
      /\ types'[p] = n /\ \A t \in DOMAIN types : t # p => types'[t] = types[t]
  BY <1>1, <1>2, <1>3
<1>5. GoodHeap(types')
  <2>1. \A t \in DOMAIN types :
           \/ types'[t] = types[t]
           \/ /\ IsRecord(types[t]) /\ types[t].qual = {}
              /\ types'[t].categ = types[t].categ /\ types'[t].qual = {} /\ types'[t].sig = types[t].sig
              /\ types'[t].align \in Aligns /\ (types'[t].size # 0 => types'[t].align # 0)
    BY <1>1, <1>2, <1>4
  <2>2. GoodHeap(types)
    BY DEF Sound
  <2> QED
    BY <1>4, <2>1, <2>2, RetouchedGood
<1>6. \A t \in DOMAIN types : /\ types'[t].categ = types[t].categ /\ types'[t].qual = types[t].qual
                              /\ types'[t].flds = types[t].flds
  BY <1>2, <1>4
<1>7. Sound'
  <2>1. \A t \in DOMAIN client.heap : ~IsRecord(types'[t])
    BY <1>6, Heap DEF Sound, IsRecord
  <2> QED
    BY <1>4, <1>5, <2>1 DEF Sound
<1>8. Records' = Records
  <2>1. \A t \in DOMAIN types : IsRecord(types'[t]) = IsRecord(types[t])
    BY <1>6 DEF IsRecord
  <2>2. Records' = {t \in DOMAIN types' : IsRecord(types'[t]) /\ types'[t].qual = {}}
    BY DEF Records
  <2> QED
    BY <1>4, <1>6, <2>1, <2>2 DEF Records
<1>9. SameShape
  <2>1. Records \subseteq DOMAIN types
    BY DEF Records
  <2> QED
    BY <1>4, <1>6, <1>7, <1>8, <2>1 DEF SameShape
<1> QED
  BY <1>2, <1>4, <1>9

\* The records beside the one whose extent changes.
LEMMA OthersUntouched ==
  ASSUME Sound, Structure, SameShape, NEW p \in Records \ complete,
         \A t \in DOMAIN types : t # p => types'[t] = types[t],
         complete' \subseteq complete \cup {p}, complete \subseteq complete',
         ending.rec = p, ending'.rec \in {p, Null},
         NEW r \in Records, r # p
  PROVE  Untouched(r)
<1>1. r \in DOMAIN types /\ r # Null
  BY RecordFields DEF Null
<1>2. types'[r] = types[r]
  BY <1>1
<1>3. (r \in complete') = (r \in complete)
  OBVIOUS
<1>4. Placed(r)' = Placed(r) /\ Open(r)' = Open(r)
  BY <1>1, <1>2, <1>3 DEF Placed, Open
<1>5. \A t \in DOMAIN types \ (Records \ complete) :
        types'[t].align = types[t].align /\ types'[t].size = types[t].size
  OBVIOUS
<1> QED
  BY <1>2, <1>3, <1>4, <1>5 DEF Untouched

\* What is left to show when one record's extent changes: the record itself.
LEMMA ResizedKeeps ==
  ASSUME IInv, SameShape, NEW p \in Records \ complete,
         \A t \in DOMAIN types : t # p => types'[t] = types[t],
         types'[p].flds = types[p].flds, DOMAIN types' = DOMAIN types,
         complete' \subseteq complete \cup {p}, complete \subseteq complete',
         ending.rec = p, ending'.rec \in {p, Null},
         EndingOK', Extent(p)', LaidFrom(p, 0)'
  PROVE  IInv'
<1>1. Sound /\ Structure /\ EndingOK /\ Extents /\ Own /\ Held
  BY DEF IInv
<1>2. Records' = Records /\ Sound'
  BY DEF SameShape
<1>3. p \notin complete /\ ~InPlace(p)
  BY <1>1, InPlaceComplete
<1>4. Structure'
  <2>1. complete' \subseteq Records /\ complete \subseteq DOMAIN types
    BY <1>1 DEF Structure, Records
  <2>2. \A t \in DOMAIN types' \ Records : types'[t].flds = << >>
    BY <1>1 DEF Structure
  <2>3. \A t \in complete : types'[t].align = types[t].align
    BY <1>3, <2>1
  <2> QED
    BY <1>1, <2>1, <2>2, <2>3, StructureKept
<1>5. \A r \in Records : r # p => Untouched(r)
  BY <1>1, OthersUntouched
<1>6. Extents'
  <2>1. ASSUME NEW r \in Records PROVE Extent(r)'
    <3>1. CASE r = p
      BY <3>1
    <3>2. CASE r # p
      BY <1>1, <1>5, <3>2, UntouchedExtent DEF Extents
    <3> QED
      BY <3>1, <3>2
  <2> QED
    BY <1>2, <2>1 DEF Extents
<1>7. Own'
  <2>1. ASSUME NEW r \in Records, ~InPlace(r)' PROVE LaidFrom(r, 0)'
    <3>1. CASE r = p
      BY <3>1
    <3>2. CASE r # p
      BY <1>1, <1>5, <2>1, <3>2, ShapeKept, UntouchedLaid DEF Own
    <3> QED
      BY <3>1, <3>2
  <2> QED
    BY <1>2, <2>1 DEF Own
<1>8. Held'
  <2>1. ASSUME NEW r \in Records, NEW h \in Holders(r)', Simply(r, h)'
        PROVE  LaidFrom(r, types[h[1]].flds[h[2]].offset)'
    <3>1. h \in Holders(r)
      BY <1>1, ShapeKept
    <3>2. Simply(r, h)
      BY <1>1, <2>1, <3>1, SimplyKept
    <3>3. LaidFrom(r, types[h[1]].flds[h[2]].offset)
      BY <1>1, <3>1, <3>2 DEF Held
    <3>4. h[1] \in Records
      BY <1>1, <3>1, HolderIs
    <3>5. types'[h[1]].flds = types[h[1]].flds
      BY <3>4 DEF Records
    <3>6. r # p
      <4>1. InPlace(r)
        BY <3>1, <3>2 DEF Simply, InPlace
      <4> QED
        BY <1>3, <4>1
    <3> SUFFICES ASSUME NEW b, b = types[h[1]].flds[h[2]].offset, b = types'[h[1]].flds[h[2]].offset
                 PROVE  LaidFrom(r, b)'
      BY <3>5 DEF LaidFrom
    <3> QED
      BY <1>1, <1>5, <3>3, <3>6, UntouchedLaid
  <2> QED
    BY <1>2, <2>1 DEF Held
<1> QED
  BY <1>2, <1>4, <1>6, <1>7, <1>8 DEF IInv

\* The record that is being laid out.
LEMMA BeingLaidOut ==
  ASSUME IInv, Ending
  PROVE  LET p == ending.rec
             flds == types[p].flds
         IN /\ p \in Records \ complete /\ p \in DOMAIN types /\ p # Null
            /\ ending.at \in Nat /\ ending.bits \in 0..32 /\ ending.at \in 1..Len(flds) + 1
            /\ ending = [rec |-> p, at |-> ending.at, bits |-> ending.bits]
            /\ Placed(p) = ending.at - 1 /\ Placed(p) \in Nat /\ Open(p) = ending.bits
            /\ Rec = types[p] /\ flds \in Seq(Fields)
            /\ DOMAIN flds = 1..Len(flds) /\ Len(flds) \in Nat
            /\ types[p].size \in Nat /\ types[p].align \in Aligns
            /\ types[p].categ \in {T_STRUCT, T_UNION}
            /\ types[p].size # 0 => types[p].align # 0
            /\ ending.bits # 0 =>
                 /\ ending.at > 1 /\ flds[ending.at - 1].bits # 0
                 /\ types[p].size % 4 = 0 /\ types[p].categ = T_STRUCT
            /\ LaidFrom(p, 0) /\ Extent(p) /\ ~InPlace(p)
            /\ \A i \in DOMAIN flds :
                 /\ WellFormedField(flds[i])
                 /\ flds[i].id \in Nat /\ flds[i].ty \in Nat /\ flds[i].bits \in Nat
                 /\ flds[i].offset \in Nat /\ flds[i].pos \in Nat
                 /\ flds[i].ty \in DOMAIN types /\ flds[i].ty # p
                 /\ types[flds[i].ty].size \in Nat
                 /\ types[flds[i].ty].align \in Aligns /\ types[flds[i].ty].align # 0
<1> DEFINE p == ending.rec
           flds == types[p].flds
<1>1. Sound /\ Structure /\ EndingOK /\ Extents /\ Own /\ Held
  BY DEF IInv
<1>2. /\ ending \in [rec : Records \ complete, at : Nat, bits : 0..IntBits]
      /\ ending.at \in 1..Len(flds) + 1
      /\ ending.bits # 0 =>
           ending.at > 1 /\ flds[ending.at - 1].bits # 0 /\ types[p].size % IntSize = 0 /\ types[p].categ = T_STRUCT
  BY <1>1 DEF EndingOK, Rec
<1>3. /\ p \in Records \ complete /\ ending.at \in Nat /\ ending.bits \in 0..32
      /\ ending = [rec |-> p, at |-> ending.at, bits |-> ending.bits]
  BY <1>2 DEF IntBits, IntSize
<1>4. /\ p \in DOMAIN types /\ p # Null /\ flds \in Seq(Fields)
      /\ DOMAIN flds = 1..Len(flds) /\ Len(flds) \in Nat
      /\ types[p].size \in Nat /\ types[p].categ \in {T_STRUCT, T_UNION}
  BY <1>1, <1>3, RecordFields DEF Null
<1>5. \A t \in DOMAIN types : WellBuilt(types, t)
  BY <1>1 DEF Sound, GoodHeap
<1>6. types[p].align \in Aligns /\ (types[p].size # 0 => types[p].align # 0)
  BY <1>4, <1>5 DEF WellBuilt
<1>7. Placed(p) = ending.at - 1 /\ Open(p) = ending.bits
  BY <1>3 DEF Placed, Open
<1>8. Placed(p) \in Nat
  BY <1>2, <1>3, <1>4, <1>7
<1>9. ~InPlace(p)
  BY <1>1, <1>3, InPlaceComplete
<1>10. LaidFrom(p, 0) /\ Extent(p)
  BY <1>1, <1>3, <1>9 DEF Own, Extents
<1>11. ASSUME NEW i \in DOMAIN flds
       PROVE  /\ WellFormedField(flds[i])
              /\ flds[i].id \in Nat /\ flds[i].ty \in Nat /\ flds[i].bits \in Nat
              /\ flds[i].offset \in Nat /\ flds[i].pos \in Nat
              /\ flds[i].ty \in DOMAIN types /\ flds[i].ty # p
              /\ types[flds[i].ty].size \in Nat
              /\ types[flds[i].ty].align \in Aligns /\ types[flds[i].ty].align # 0
  <2>1. WellFormedField(flds[i])
    BY <1>1, <1>3 DEF Structure
  <2>2. flds[i].ty \in DOMAIN types /\ flds[i].ty # p /\ types[flds[i].ty].align # 0
    BY <1>3, <2>1 DEF WellFormedField
  <2>3. types \in Seq(Objects)
    BY <1>1, Heap
  <2>4. types[flds[i].ty].size \in Nat
    BY <2>2, <2>3, ObjectAt
  <2>5. types[flds[i].ty].align \in Aligns
    BY <1>5, <2>2 DEF WellBuilt
  <2> QED
    BY <1>1, <1>3, <2>1, <2>2, <2>4, <2>5, RecordFields
<1>12. Rec = types[p] /\ IntSize = 4
  BY DEF Rec, IntSize
<1> HIDE DEF p, flds
<1>13. flds = types[p].flds
  BY DEF flds
<1> QED
  BY <1>2, <1>3, <1>4, <1>6, <1>7, <1>8, <1>9, <1>10, <1>11, <1>12 DEF p, flds

\* Where a member begins and ends is a number.
LEMMA PlaceNumbers ==
  ASSUME NEW f, f.offset \in Nat, f.pos \in Nat, f.bits \in Nat, types[f.ty].size \in Nat
  PROVE  Begin(f) \in Nat /\ Finish(f) \in Nat /\ Begin(f) <= Finish(f)
<1>1. Begin(f) \in Nat
  BY DEF Begin
<1>2. CASE f.bits = 0
  <2>1. Finish(f) = Begin(f) + 8 * types[f.ty].size
    BY <1>2 DEF Finish
  <2> QED
    BY <1>1, <2>1
<1>3. CASE f.bits # 0
  <2>1. Finish(f) = Begin(f) + f.bits
    BY <1>3 DEF Finish
  <2> QED
    BY <1>1, <2>1
<1> QED
  BY <1>2, <1>3

\* A record that is rounded up keeps its alignment.
LEMMA ResizedObject ==
  ASSUME NEW o \in Objects, NEW s
  PROVE  [o EXCEPT !.size = s] = Extended(o, s, o.align)
BY ObjectFields DEF Extended

\* Members of finished types are where they were when their record's extent changes.
LEMMA FieldsStay ==
  ASSUME NEW p \in DOMAIN types, types'[p].flds = types[p].flds,
         \A t \in DOMAIN types : t # p => types'[t] = types[t],
         NEW i \in DOMAIN types[p].flds, types[p].flds[i].ty \in DOMAIN types, types[p].flds[i].ty # p
  PROVE  /\ Align(types[p].flds[i])' = Align(types[p].flds[i])
         /\ Begin(types[p].flds[i])' = Begin(types[p].flds[i])
         /\ Finish(types[p].flds[i])' = Finish(types[p].flds[i])
<1>1. types'[types[p].flds[i].ty] = types[types[p].flds[i].ty]
  OBVIOUS
<1> QED
  BY <1>1 DEF Align, Begin, Finish

\* The end of endRecord keeps the invariant.
LEMMA EndsRecord ==
  ASSUME IInv, EndDone
  PROVE  IInv'
<1>0. PICK p : p = ending.rec
  OBVIOUS
<1> DEFINE flds == types[p].flds
           s == types[p].size
           a == types[p].align
           n == Len(flds)
<1>1. /\ Ending /\ ending.at > Len(Rec.flds)
      /\ types' = [types EXCEPT ![p].size = FullSize]
      /\ ending' = NotEnding /\ complete' = complete \cup {p} /\ client' = client
  BY <1>0 DEF EndDone
<1>2. Sound /\ Structure
  BY DEF IInv
<1>3. /\ p \in Records \ complete /\ p \in DOMAIN types /\ p # Null
      /\ ending.at \in Nat /\ ending.bits \in 0..32 /\ ending.at \in 1..n + 1
      /\ Placed(p) = ending.at - 1 /\ Open(p) = ending.bits
      /\ Rec = types[p] /\ DOMAIN flds = 1..n /\ n \in Nat
      /\ s \in Nat /\ a \in Aligns /\ types[p].categ \in {T_STRUCT, T_UNION} /\ (s # 0 => a # 0)
      /\ (ending.bits # 0 => ending.at > 1 /\ types[p].categ = T_STRUCT)
      /\ LaidFrom(p, 0) /\ Extent(p)
  BY <1>0, <1>1, BeingLaidOut
<1>4. \A i \in DOMAIN flds : flds[i].ty \in DOMAIN types /\ flds[i].ty # p /\ Align(flds[i]) # 0
  BY <1>0, <1>1, BeingLaidOut DEF Align
<1>5. Placed(p) = n
  BY <1>1, <1>3
<1> DEFINE u == ending.bits
<1>n. s \in Nat /\ u \in 0..32 /\ a \in Aligns /\ a \in Nat /\ n \in Nat /\ (s # 0 => a # 0)
  <2>1. a \in Aligns /\ s \in Nat /\ u \in 0..32 /\ n \in Nat /\ (s # 0 => a # 0)
    BY <1>3
  <2> HIDE DEF s, u, a, n
  <2> QED
    BY <2>1 DEF Aligns
<1> DEFINE s2 == FullSize
<1>6. types[p].categ = T_UNION => s2 = s
  BY <1>3 DEF FullSize
<1>7. types[p].categ = T_STRUCT => s2 = AlignUp(IF ending.bits # 0 THEN s + 4 ELSE s, a)
  BY <1>3 DEF FullSize, T_STRUCT, T_UNION, IntSize
<1>8. Placed(p) = 0 => s = 0 /\ a = 0
  BY <1>3 DEF Extent
<1>9. Placed(p) # 0 => a # 0
  <2>1. Placed(p) # 0 => \E i \in 1..Placed(p) : Align(flds[i]) = a
    BY <1>3 DEF Extent
  <2> QED
    BY <1>3, <1>4, <1>5, <2>1
<1>10. types[p].categ = T_STRUCT /\ a # 0 =>
         /\ s2 \in Nat /\ 8 * s + ending.bits <= 8 * s2
         /\ (a \in Exact => s2 % a = 0)
  <2> SUFFICES ASSUME types[p].categ = T_STRUCT, a # 0
               PROVE  s2 \in Nat /\ 8 * s + ending.bits <= 8 * s2 /\ (a \in Exact => s2 % a = 0)
    OBVIOUS
  <2> DEFINE x == IF ending.bits # 0 THEN s + 4 ELSE s
  <2>1. x \in Nat /\ 8 * s + u <= 8 * x
    <3> HIDE DEF s, u, a, n
    <3> QED
      BY <1>n DEF u
  <2>2. s2 = AlignUp(x, a)
    BY <1>7
  <2> HIDE DEF x, s2, a, s, u, n
  <2>3. s2 \in Nat /\ x <= s2
    BY <1>n, <2>1, <2>2, RoundsUp
  <2>4. a \in Exact => s2 % a = 0
    BY <2>1, <2>2, RoundsToMultiple DEF Exact
  <2> QED
    BY <1>n, <2>1, <2>3, <2>4 DEF u
<1>11. a = 0 => s2 = 0 /\ s = 0 /\ Placed(p) = 0
  <2>1. a = 0 => s = 0 /\ Placed(p) = 0
    BY <1>3, <1>9
  <2>2. a = 0 /\ types[p].categ = T_STRUCT => s2 = 0
    <3>1. s \in Nat /\ s + 4 \in Nat
      BY <1>3
    <3> HIDE DEF s2
    <3> QED
      BY <1>7, <3>1, RoundsNothing
  <2> HIDE DEF s2
  <2> QED
    BY <1>3, <1>6, <2>1, <2>2
<1>12. s2 \in Nat /\ (s2 # 0 => a # 0)
  <2> HIDE DEF s2
  <2> QED
    BY <1>3, <1>6, <1>10, <1>11
<1>13. types' = WithType(types, p, Extended(types[p], s2, a))
  <2>1. types[p] \in Objects
    BY <1>2, <1>3, Heap, ObjectAt
  <2>2. types' = [types EXCEPT ![p] = [types[p] EXCEPT !.size = s2]]
    BY <1>1
  <2> HIDE DEF s2
  <2> QED
    BY <2>1, <2>2, ResizedObject DEF WithType
<1> HIDE DEF s2
<1>14. /\ SameShape /\ DOMAIN types' = DOMAIN types
       /\ \A t \in DOMAIN types : t # p => types'[t] = types[t]
       /\ types'[p].flds = flds /\ types'[p].size = s2 /\ types'[p].align = a
       /\ types'[p].categ = types[p].categ
  <2>1. p \in Records \ complete /\ client' = client
    BY <1>1, <1>3
  <2> HIDE DEF a
  <2> QED
    BY <1>2, <1>n, <1>12, <1>13, <2>1, ResizedShape
<1>15. \A i \in 1..n :
         /\ Align(flds[i])' = Align(flds[i]) /\ Begin(flds[i])' = Begin(flds[i])
         /\ Finish(flds[i])' = Finish(flds[i])
  BY <1>3, <1>4, <1>14, FieldsStay
<1>16. Placed(p)' = n /\ Open(p)' = 0
  BY <1>1, <1>3, <1>14 DEF Placed, Open, NotEnding
<1>17. Extent(p)'
  <2>1. /\ Placed(p) = 0 => s = 0 /\ a = 0
        /\ Placed(p) # 0 => \E i \in 1..Placed(p) : Align(flds[i]) = a
        /\ \A i \in 1..Placed(p) : Align(flds[i]) <= a
        /\ \A i \in DOMAIN flds : i > Placed(p) => flds[i].offset = 0
        /\ \A i \in DOMAIN flds : i > Placed(p) \/ flds[i].bits = 0 => flds[i].pos = 0
    BY <1>3 DEF Extent
  <2>2. /\ n = 0 => s2 = 0 /\ a = 0
        /\ n # 0 => \E i \in 1..n : Align(flds[i])' = a
        /\ \A i \in 1..n : Align(flds[i])' <= a
        /\ types[p].categ = T_STRUCT /\ a \in Exact => s2 % a = 0
        /\ \A i \in DOMAIN flds : i > n => flds[i].offset = 0
        /\ \A i \in DOMAIN flds : i > n \/ flds[i].bits = 0 => flds[i].pos = 0
    <3>1. a \in Exact => a # 0
      BY DEF Exact
    <3> HIDE DEF flds, s, a, n
    <3> QED
      BY <1>5, <1>10, <1>11, <1>15, <2>1, <3>1
  <2> DEFINE f2 == types'[p].flds
  <2>3. f2 = flds
    BY <1>14
  <2>4. /\ Placed(p)' = 0 => types'[p].size = 0 /\ types'[p].align = 0
        /\ Placed(p)' # 0 => \E i \in 1..Placed(p)' : Align(types[p].flds[i])' = types'[p].align
        /\ \A i \in 1..Placed(p)' : Align(types[p].flds[i])' <= types'[p].align
        /\ types'[p].categ = T_STRUCT /\ types'[p].align \in Exact => types'[p].size % types'[p].align = 0
        /\ \A i \in DOMAIN f2 : i > Placed(p)' => f2[i].offset = 0
        /\ \A i \in DOMAIN f2 : i > Placed(p)' \/ f2[i].bits = 0 => f2[i].pos = 0
    BY <1>14, <1>16, <2>2, <2>3
  <2> QED
    BY <2>4 DEF Extent, Exact
<1>18. LaidFrom(p, 0)'
  <2>1. /\ \A i \in 1..n :
             /\ 0 <= flds[i].offset
             /\ Align(flds[i]) \in Exact => (flds[i].offset - 0) % Align(flds[i]) = 0
        /\ types[p].categ = T_STRUCT =>
             /\ \A i, j \in 1..n : i < j => Finish(flds[i]) <= Begin(flds[j])
             /\ \A i \in 1..n : Finish(flds[i]) <= 8 * (0 + s) + ending.bits
    BY <1>3, <1>5 DEF LaidFrom
  <2>2. types[p].categ = T_STRUCT => \A i \in 1..n : Finish(flds[i]) <= 8 * (0 + s2) + 0
    <3>1. SUFFICES ASSUME types[p].categ = T_STRUCT, NEW i \in 1..n PROVE Finish(flds[i]) <= 8 * (0 + s2) + 0
      OBVIOUS
    <3>2. n # 0 /\ a # 0
      BY <1>3, <1>5, <1>9
    <3>3. Finish(flds[i]) <= 8 * (0 + s) + ending.bits
      BY <2>1, <3>1
    <3>4. Finish(flds[i]) \in Int
      <4>1. i \in DOMAIN flds
        BY <1>3
      <4>2. /\ flds[i].offset \in Nat /\ flds[i].pos \in Nat /\ flds[i].bits \in Nat
            /\ types[flds[i].ty].size \in Nat
        BY <1>0, <1>1, <4>1, BeingLaidOut
      <4>3. PICK f : f = flds[i]
        OBVIOUS
      <4> HIDE DEF flds
      <4>5. f.offset \in Nat /\ f.pos \in Nat /\ f.bits \in Nat /\ types[f.ty].size \in Nat
        BY <4>2, <4>3
      <4>4. Finish(f) \in Int
        BY <4>5, PlaceNumbers
      <4> QED
        BY <4>3, <4>4
    <3> HIDE DEF s, a, n, flds
    <3>5. 8 * s + u <= 8 * s2
      BY <1>10, <3>1, <3>2 DEF u
    <3> HIDE DEF u
    <3>6. Finish(flds[i]) <= 8 * (0 + s) + u
      BY <3>3 DEF u
    <3> QED
      BY <1>n, <1>12, <3>4, <3>5, <3>6
  <2> DEFINE f2 == types'[p].flds
  <2>3. f2 = flds
    BY <1>14
  <2>4. /\ \A i \in 1..Placed(p)' :
             /\ 0 <= f2[i].offset
             /\ Align(types[p].flds[i])' \in Exact => (f2[i].offset - 0) % Align(types[p].flds[i])' = 0
        /\ types'[p].categ = T_STRUCT =>
             /\ \A i, j \in 1..Placed(p)' : i < j => Finish(types[p].flds[i])' <= Begin(types[p].flds[j])'
             /\ \A i \in 1..Placed(p)' : Finish(types[p].flds[i])' <= 8 * (0 + types'[p].size) + Open(p)'
    <3> HIDE DEF s, a, n
    <3> QED
      BY <1>14, <1>15, <1>16, <2>1, <2>2, <2>3
  <2> QED
    BY <2>4 DEF LaidFrom, Exact
<1>19. EndingOK'
  BY <1>1, Zenon DEF EndingOK, Ending, NotEnding
<1> QED
  BY <1>0, <1>1, <1>3, <1>14, <1>17, <1>18, <1>19, ResizedKeeps DEF NotEnding

\* So does a member of a union.
LEMMA UnionPlaces ==
  ASSUME IInv, PlaceInUnion
  PROVE  IInv'
<1>0. PICK p : p = ending.rec
  OBVIOUS
<1> DEFINE flds == types[p].flds
           s == types[p].size
           a == types[p].align
           k == ending.at
           w == flds[k].ty
           s2 == IF types[w].size > s THEN types[w].size ELSE s
           a2 == IF types[w].align > a THEN types[w].align ELSE a
<1>1. /\ Ending /\ types[p].categ = T_UNION /\ k <= Len(flds)
      /\ types' = [types EXCEPT ![p].size = IF types[w].size > @ THEN types[w].size ELSE @, ![p].align = a2]
      /\ ending' = [ending EXCEPT !.at = @ + 1] /\ complete' = complete /\ client' = client
  BY <1>0, Zenon DEF PlaceInUnion, Placing, Rec, FldType, Fld, Widest
<1>2. Sound /\ Structure
  BY DEF IInv
<1>3. /\ p \in Records \ complete /\ p \in DOMAIN types /\ p # Null
      /\ k \in Nat /\ ending.bits \in 0..32 /\ k \in 1..Len(flds) + 1
      /\ ending = [rec |-> p, at |-> k, bits |-> ending.bits]
      /\ Placed(p) = k - 1 /\ Open(p) = ending.bits
      /\ Rec = types[p] /\ DOMAIN flds = 1..Len(flds) /\ Len(flds) \in Nat
      /\ s \in Nat /\ a \in Aligns /\ types[p].categ \in {T_STRUCT, T_UNION} /\ (s # 0 => a # 0)
      /\ (ending.bits # 0 => types[p].categ = T_STRUCT)
      /\ LaidFrom(p, 0) /\ Extent(p)
  BY <1>0, <1>1, BeingLaidOut, Zenon
<1>4. \A i \in DOMAIN flds : /\ flds[i].ty \in DOMAIN types /\ flds[i].ty # p
                             /\ Align(flds[i]) # 0 /\ Align(flds[i]) \in Aligns
                             /\ types[flds[i].ty].size \in Nat
  BY <1>0, <1>1, BeingLaidOut, Zenon DEF Align
<1>n. s \in Nat /\ a \in Aligns /\ a \in Nat /\ k \in Nat /\ Len(flds) \in Nat /\ k \in 1..Len(flds) + 1
  <2>1. s \in Nat /\ a \in Aligns /\ k \in Nat /\ Len(flds) \in Nat /\ k \in 1..Len(flds) + 1
    BY <1>3
  <2> HIDE DEF s, a, k, flds
  <2> QED
    BY <2>1 DEF Aligns
<1>5. k \in 1..Len(flds) /\ ending.bits = 0
  <2>1. types[p].categ # T_STRUCT
    BY <1>1 DEF T_STRUCT, T_UNION
  <2>2. k <= Len(flds)
    BY <1>1
  <2>3. k \in 1..Len(flds)
    <3> HIDE DEF k, flds
    <3> QED
      BY <1>n, <2>2
  <2> QED
    BY <1>3, <2>1, <2>3
<1>6. s2 \in Nat /\ a2 \in Aligns /\ a2 # 0 /\ a <= a2 /\ Align(flds[k]) <= a2
      /\ (a2 = a \/ a2 = Align(flds[k]))
  <2>1. types[w].size \in Nat /\ types[w].align \in Aligns /\ types[w].align # 0
    BY <1>3, <1>4, <1>5 DEF Align
  <2> DEFINE b == types[w].align
  <2>2. b \in Nat /\ b \in Aligns /\ b # 0
    <3> HIDE DEF b
    <3> QED
      BY <2>1 DEF Aligns, b
  <2>3. Align(flds[k]) = b
    BY DEF Align
  <2>4. a2 \in Aligns /\ a2 # 0 /\ a <= a2 /\ b <= a2 /\ (a2 = a \/ a2 = b)
    <3>1. a2 = IF b > a THEN b ELSE a
      OBVIOUS
    <3> HIDE DEF a, b, a2
    <3> QED
      BY <1>n, <2>2, <3>1
  <2>5. s2 \in Nat
    BY <1>n, <2>1
  <2> HIDE DEF a2, b
  <2> QED
    BY <2>3, <2>4, <2>5
<1>7. types' = WithType(types, p, Extended(types[p], s2, a2))
  <2>1. types[p] \in Objects
    BY <1>2, <1>3, Heap, ObjectAt
  <2> DEFINE m == [types EXCEPT ![p].size = IF types[w].size > @ THEN types[w].size ELSE @]
  <2>2. types' = [m EXCEPT ![p].align = a2]
    BY <1>1
  <2>3. m = [types EXCEPT ![p] = [types[p] EXCEPT !.size = s2]]
    OBVIOUS
  <2> HIDE DEF m, s2, a2
  <2>4. m[p] = [types[p] EXCEPT !.size = s2]
    BY <1>3, <2>3
  <2>5. types' = [types EXCEPT ![p] = [m[p] EXCEPT !.align = a2]]
    BY <1>3, <2>2, <2>3
  <2> QED
    BY <2>4, <2>5 DEF Extended, WithType
<1> HIDE DEF s2, a2
<1>8. /\ SameShape /\ DOMAIN types' = DOMAIN types
      /\ \A t \in DOMAIN types : t # p => types'[t] = types[t]
      /\ types'[p].flds = flds /\ types'[p].size = s2 /\ types'[p].align = a2
      /\ types'[p].categ = types[p].categ
  <2>1. p \in Records \ complete /\ client' = client
    BY <1>1, <1>3
  <2> QED
    BY <1>2, <1>6, <1>7, <2>1, ResizedShape
<1>9. \A i \in 1..k :
         /\ Align(flds[i])' = Align(flds[i]) /\ Begin(flds[i])' = Begin(flds[i])
         /\ Finish(flds[i])' = Finish(flds[i])
  <2>1. SUFFICES ASSUME NEW i \in 1..k
                 PROVE  /\ Align(flds[i])' = Align(flds[i]) /\ Begin(flds[i])' = Begin(flds[i])
                        /\ Finish(flds[i])' = Finish(flds[i])
    OBVIOUS
  <2>2. i \in DOMAIN flds
    <3> HIDE DEF flds, k
    <3> QED
      BY <1>3, <1>5
  <2>3. flds[i].ty \in DOMAIN types /\ flds[i].ty # p
    BY <1>4, <2>2, Zenon
  <2>4. p \in DOMAIN types
    BY <1>3
  <2> QED
    BY <1>8, <2>2, <2>3, <2>4, FieldsStay
<1>10. ending' = [rec |-> p, at |-> k + 1, bits |-> 0]
  <2>1. PICK at, bits : at = k /\ bits = ending.bits
    OBVIOUS
  <2>2. ending = [rec |-> p, at |-> at, bits |-> bits] /\ bits = 0 /\ ending' = [ending EXCEPT !.at = @ + 1]
    BY <1>1, <1>3, <1>5, <2>1
  <2>3. ending' = [rec |-> p, at |-> at + 1, bits |-> 0]
    <3> HIDE DEF k, flds
    <3> QED
      BY <2>2
  <2> QED
    BY <2>1, <2>3
<1>11. Placed(p)' = k /\ Open(p)' = 0
  <2>1. PICK at : at = k
    OBVIOUS
  <2>2. at \in Nat /\ ending'.rec = p /\ ending'.at = at + 1 /\ ending'.bits = 0
    BY <1>n, <1>10, <2>1
  <2>n. p \notin complete'
    BY <1>1, <1>3, Zenon
  <2>3. at + 1 - 1 = at
    BY <2>2
  <2>4. Placed(p)' = at + 1 - 1 /\ Open(p)' = 0
    BY <2>2, <2>n DEF Placed, Open
  <2> QED
    BY <2>1, <2>3, <2>4
<1>12. types[p].categ # T_STRUCT
  BY <1>1 DEF T_STRUCT, T_UNION
<1>13. Extent(p)'
  <2>1. /\ Placed(p) # 0 => \E i \in 1..k - 1 : Align(flds[i]) = a
        /\ Placed(p) = 0 => a = 0
        /\ \A i \in 1..k - 1 : Align(flds[i]) <= a
        /\ \A i \in DOMAIN flds : i > k - 1 => flds[i].offset = 0
        /\ \A i \in DOMAIN flds : i > k - 1 \/ flds[i].bits = 0 => flds[i].pos = 0
    BY <1>3 DEF Extent
  <2>2. \E i \in 1..k : Align(flds[i]) = a2
    <3>1. CASE a2 = Align(flds[k])
      BY <1>5, <3>1
    <3>2. CASE a2 # Align(flds[k])
      <4>1. a2 = a /\ Placed(p) # 0
        BY <1>6, <2>1, <3>2
      <4>2. PICK i \in 1..k - 1 : Align(flds[i]) = a
        BY <2>1, <4>1
      <4>3. i \in 1..k
        BY <1>3
      <4> QED
        BY <4>1, <4>2, <4>3
    <3> QED
      BY <3>1, <3>2
  <2>3. \A i \in 1..k : Align(flds[i]) <= a2
    <3>1. SUFFICES ASSUME NEW i \in 1..k PROVE Align(flds[i]) <= a2
      OBVIOUS
    <3>2. i \in DOMAIN flds
      BY <1>3, <1>5
    <3>3. Align(flds[i]) \in Nat /\ a \in Nat /\ a2 \in Nat
      <4>1. Align(flds[i]) \in Aligns
        BY <1>4, <3>2
      <4> HIDE DEF a, flds
      <4> QED
        BY <1>n, <1>6, <4>1 DEF Aligns
    <3>4. i # k => Align(flds[i]) <= a
      BY <1>3, <2>1
    <3> QED
      BY <1>6, <3>3, <3>4
  <2>4. /\ k # 0
        /\ \E i \in 1..k : Align(flds[i])' = a2
        /\ \A i \in 1..k : Align(flds[i])' <= a2
        /\ \A i \in DOMAIN flds : i > k => flds[i].offset = 0
        /\ \A i \in DOMAIN flds : i > k \/ flds[i].bits = 0 => flds[i].pos = 0
    <3> HIDE DEF flds, k
    <3> QED
      BY <1>3, <1>5, <1>9, <2>1, <2>2, <2>3
  <2> DEFINE f2 == types'[p].flds
  <2>5. f2 = flds
    BY <1>8
  <2>6. /\ Placed(p)' # 0
        /\ \E i \in 1..Placed(p)' : Align(types[p].flds[i])' = types'[p].align
        /\ \A i \in 1..Placed(p)' : Align(types[p].flds[i])' <= types'[p].align
        /\ types'[p].categ # T_STRUCT
        /\ \A i \in DOMAIN f2 : i > Placed(p)' => f2[i].offset = 0
        /\ \A i \in DOMAIN f2 : i > Placed(p)' \/ f2[i].bits = 0 => f2[i].pos = 0
    BY <1>8, <1>11, <1>12, <2>4, <2>5
  <2> QED
    BY <2>6 DEF Extent, Exact
<1>14. LaidFrom(p, 0)'
  <2>1. \A i \in 1..k - 1 :
          /\ 0 <= flds[i].offset
          /\ Align(flds[i]) \in Exact => (flds[i].offset - 0) % Align(flds[i]) = 0
    BY <1>3 DEF LaidFrom
  <2>2. flds[k].offset = 0
    BY <1>3, <1>5 DEF Extent
  <2>3. \A i \in 1..k :
          /\ 0 <= flds[i].offset
          /\ Align(flds[i]) \in Exact => (flds[i].offset - 0) % Align(flds[i]) = 0
    <3>1. (0 - 0) % 1 = 0 /\ (0 - 0) % 2 = 0 /\ (0 - 0) % 4 = 0 /\ (0 - 0) % 8 = 0
      OBVIOUS
    <3>2. Align(flds[k]) \in Exact => (flds[k].offset - 0) % Align(flds[k]) = 0
      BY <2>2, <3>1 DEF Exact
    <3>3. \A i \in 1..k : i = k \/ i \in 1..k - 1
      BY <1>3
    <3> QED
      BY <2>1, <2>2, <3>2, <3>3
  <2> DEFINE f2 == types'[p].flds
  <2>4. f2 = flds
    BY <1>8
  <2>5. /\ \A i \in 1..Placed(p)' :
             /\ 0 <= f2[i].offset
             /\ Align(types[p].flds[i])' \in Exact => (f2[i].offset - 0) % Align(types[p].flds[i])' = 0
        /\ types'[p].categ # T_STRUCT
    BY <1>8, <1>9, <1>11, <1>12, <2>3, <2>4
  <2> QED
    BY <2>5 DEF LaidFrom, Exact
<1>15. EndingOK'
  <2>1. ending'.rec = p /\ ending'.at = k + 1 /\ ending'.bits = 0
    BY <1>10
  <2>2. Rec'.flds = flds
    BY <1>8, <2>1 DEF Rec
  <2>3. Records' = Records
    BY <1>8 DEF SameShape
  <2>4. ending' \in [rec : Records' \ complete', at : Nat, bits : 0..IntBits]
    <3>1. p \in Records' \ complete' /\ k + 1 \in Nat /\ 0 \in 0..IntBits
      <4>1. 0 \in 0..IntBits
        BY DEF IntBits, IntSize
      <4>2. k + 1 \in Nat
        BY <1>n
      <4>3. p \in Records' \ complete'
        BY <1>1, <1>3, <2>3, Zenon
      <4> QED
        BY <4>1, <4>2, <4>3
    <3> HIDE DEF k
    <3> QED
      BY <1>10, <3>1
  <2>5. ending'.at \in 1..Len(Rec'.flds) + 1
    BY <1>3, <1>5, <2>1, <2>2
  <2> QED
    BY <2>1, <2>4, <2>5 DEF EndingOK
<1>16. ending.rec = p /\ ending'.rec \in {p, Null}
  BY <1>0, <1>10
<1>17. /\ p \in Records \ complete /\ types'[p].flds = types[p].flds
       /\ complete' \subseteq complete \cup {p} /\ complete \subseteq complete'
  BY <1>1, <1>3, <1>8
<1> QED
  BY <1>8, <1>13, <1>14, <1>15, <1>16, <1>17, ResizedKeeps, Zenon

-----------------------------------------------------------------------------
(* A record gets one more member.                                          *)

\* An object with other members.
WithFields(o, flds) == [o EXCEPT !.flds = flds]

\* An object with other members differs in these.
LEMMA FieldsObject ==
  ASSUME NEW o \in Objects, NEW f \in Seq(Fields)
  PROVE  /\ WithFields(o, f) \in Objects
         /\ WithFields(o, f).categ = o.categ /\ WithFields(o, f).qual = o.qual
         /\ WithFields(o, f).align = o.align /\ WithFields(o, f).size = o.size
         /\ WithFields(o, f).bty = o.bty /\ WithFields(o, f).sig = o.sig
         /\ WithFields(o, f).flds = f
<1> DEFINE n == WithFields(o, f)
<1>1. n = [categ |-> o.categ, qual |-> o.qual, align |-> o.align, size |-> o.size,
           bty |-> o.bty, sig |-> o.sig, flds |-> f]
  <2>1. n = [o EXCEPT !.flds = f]
    BY DEF WithFields
  <2>2. o = [categ |-> o.categ, qual |-> o.qual, align |-> o.align, size |-> o.size,
             bty |-> o.bty, sig |-> o.sig, flds |-> o.flds]
    BY ObjectFields
  <2> HIDE DEF n
  <2> QED
    BY <2>1, <2>2
<1> HIDE DEF n
<1>2. n \in Objects
  <2>1. /\ o.categ \in Nat /\ o.qual \in SUBSET Quals /\ o.align \in Nat /\ o.size \in Nat
        /\ o.sig \in Signatures /\ o.bty \in Nat
    BY ObjectFields
  <2> QED
    BY <1>1, <2>1 DEF Objects
<1>3. /\ n.categ = o.categ /\ n.qual = o.qual /\ n.align = o.align /\ n.size = o.size
      /\ n.bty = o.bty /\ n.sig = o.sig /\ n.flds = f
  BY <1>1
<1> QED
  BY <1>2, <1>3 DEF n

\* addField keeps the invariant: the record that gets the member is not laid out yet.
LEMMA AddsField ==
  ASSUME IInv, NEW r \in Records, NEW named \in BOOLEAN, NEW t, NEW bits,
         MemberOfC(named, t, bits), AddField(r, named, t, bits),
         t \in complete \/ t \in DOMAIN client.heap, bits \in 0..IntBits
  PROVE  IInv'
<1> DEFINE flds == types[r].flds
           n == Len(flds)
<1>0. PICK fld : fld = [id |-> IF named THEN n + 1 ELSE Null, ty |-> t, bits |-> bits, offset |-> 0, pos |-> 0]
  OBVIOUS
<1>1. Sound /\ Structure /\ EndingOK /\ Extents /\ Own /\ Held
  BY DEF IInv
<1>f. CASE ending' = Ended /\ types' = types
  <2>1. ending = NotEnding /\ client' = client /\ complete' = complete
    BY DEF AddField
  <2>2. GoodHeap(types) /\ Grown(types, types)
    BY <1>1, Heap, GrownSelf DEF Sound
  <2> QED
    BY <1>f, <2>1, <2>2, DerivingKeeps
<1>s. SUFFICES ASSUME ~(ending' = Ended /\ types' = types)
               PROVE  IInv'
  BY <1>f
<1>2. /\ ending = NotEnding /\ r \notin complete /\ n < client.fields
      /\ types[t].size = 0 => types[t].categ = T_ARRAY
      /\ bits # 0 => types[t].categ = T_INT
      /\ ~InPlace(t)
      /\ ~named /\ bits = 0 => t \in complete /\ Holders(t) = {}
      /\ types' = [types EXCEPT ![r].flds = Append(@, fld)]
      /\ client' = client /\ ending' = ending /\ complete' = complete
  BY <1>s, <1>0 DEF AddField, MemberOfC, WithMember
<1>3. /\ types \in Seq(Objects) /\ r \in DOMAIN types /\ types[r] \in Objects
      /\ flds \in Seq(Fields) /\ n \in Nat /\ DOMAIN flds = 1..n
      /\ client.fields \in Nat
  BY <1>1, Heap, RecordFields, ObjectAt
<1>4. t \in DOMAIN types /\ t # r /\ t \in Nat
      /\ (t \in Records => t \in complete)
  <2>1. complete \subseteq DOMAIN types /\ DOMAIN client.heap \subseteq DOMAIN types
    BY <1>1, Heap DEF Structure, Records
  <2>2. \A x \in DOMAIN client.heap : x \notin Records
    BY <1>1 DEF Sound, Records
  <2> QED
    BY <1>2, <1>3, <2>1, <2>2
<1>5. types[t].align # 0
  <2>1. WellBuilt(types, t)
    BY <1>1, <1>4 DEF Sound, GoodHeap
  <2> QED
    BY <1>2, <2>1 DEF WellBuilt
<1>6. fld \in Fields /\ fld.ty = t /\ fld.bits = bits /\ fld.offset = 0 /\ fld.pos = 0
      /\ (fld.id = Null <=> ~named)
  <2>1. fld.ty = t /\ fld.bits = bits /\ fld.offset = 0 /\ fld.pos = 0
        /\ fld.id = IF named THEN n + 1 ELSE Null
    BY <1>0
  <2>2. (fld.id = Null <=> ~named) /\ fld.id \in Nat
    <3> HIDE DEF n
    <3> QED
      BY <1>3, <2>1 DEF Null
  <2>3. bits \in Nat
    BY DEF IntBits, IntSize
  <2>4. fld \in Fields
    BY <1>0, <1>4, <2>1, <2>2, <2>3 DEF Fields
  <2> QED
    BY <2>1, <2>2, <2>4
<1> DEFINE more == Append(flds, fld)
<1>7. /\ more \in Seq(Fields) /\ Len(more) = n + 1 /\ DOMAIN more = 1..n + 1
      /\ more[n + 1] = fld /\ \A i \in 1..n : more[i] = flds[i]
  <2> HIDE DEF flds
  <2> QED
    BY <1>3, <1>6
<1> HIDE DEF more
<1>8. types' = [types EXCEPT ![r] = WithFields(types[r], more)]
  BY <1>2 DEF WithFields, more
<1> DEFINE o == WithFields(types[r], more)
<1>9. /\ o \in Objects
      /\ o.categ = types[r].categ /\ o.qual = types[r].qual /\ o.align = types[r].align
      /\ o.size = types[r].size /\ o.sig = types[r].sig /\ o.flds = more
  BY <1>3, <1>7, FieldsObject
<1> HIDE DEF o
<1>10. /\ types' \in Seq(Objects) /\ DOMAIN types' = DOMAIN types /\ Len(types') = Len(types)
       /\ types'[r] = o /\ \A x \in DOMAIN types : x # r => types'[x] = types[x]
  BY <1>3, <1>8, <1>9 DEF o
<1>11. \A x \in DOMAIN types :
         /\ types'[x].categ = types[x].categ /\ types'[x].qual = types[x].qual
         /\ types'[x].align = types[x].align /\ types'[x].size = types[x].size
         /\ types'[x].sig = types[x].sig
  BY <1>9, <1>10
<1>12. types'[r].flds = more /\ \A x \in DOMAIN types : x # r => types'[x].flds = types[x].flds
  BY <1>9, <1>10
<1>13. Sound'
  <2>1. IsRecord(types[r]) /\ types[r].qual = {}
    BY DEF Records
  <2>2. WellBuilt(types, r)
    BY <1>1, <1>3 DEF Sound, GoodHeap
  <2>3. types'[r].align \in Aligns /\ (types'[r].size # 0 => types'[r].align # 0)
    BY <1>3, <1>11, <2>2 DEF WellBuilt
  <2>4. GoodHeap(types')
    <3>1. \A x \in DOMAIN types :
           \/ types'[x] = types[x]
           \/ /\ IsRecord(types[x]) /\ types[x].qual = {}
              /\ types'[x].categ = types[x].categ /\ types'[x].qual = {} /\ types'[x].sig = types[x].sig
              /\ types'[x].align \in Aligns /\ (types'[x].size # 0 => types'[x].align # 0)
      BY <1>3, <1>10, <1>11, <2>1, <2>3
    <3>2. GoodHeap(types)
      BY <1>1 DEF Sound
    <3> QED
      BY <1>10, <3>1, <3>2, RetouchedGood
  <2>5. \A x \in DOMAIN client.heap : ~IsRecord(types'[x])
    BY <1>1, <1>11, Heap DEF Sound, IsRecord
  <2> QED
    BY <1>1, <1>2, <1>10, <2>4, <2>5 DEF Sound
<1>14. Records' = Records /\ Records \subseteq DOMAIN types
  <2>1. \A x \in DOMAIN types : IsRecord(types'[x]) = IsRecord(types[x])
    BY <1>11 DEF IsRecord
  <2>2. Records' = {x \in DOMAIN types' : IsRecord(types'[x]) /\ types'[x].qual = {}}
    BY DEF Records
  <2> QED
    BY <1>10, <1>11, <2>1, <2>2 DEF Records
<1>15. \A f : f.ty \in DOMAIN types => Anonymous(f)' = Anonymous(f)
  BY <1>11 DEF Anonymous, IsRecord
<1>16. Anonymous(fld) <=> ~named /\ bits = 0
  <2>1. ~named /\ bits = 0 => IsRecord(types[t])
    BY <1>1, <1>2 DEF Structure, Records
  <2>2. bits # 0 => ~IsRecord(types[t])
    BY <1>2 DEF IsRecord, T_INT, T_STRUCT, T_UNION
  <2> QED
    BY <1>6, <2>1, <2>2 DEF Anonymous
<1>17. \A x \in Records : \A i \in DOMAIN types[x].flds :
         WellFormedField(types[x].flds[i]) /\ types[x].flds[i].ty \in DOMAIN types
  BY <1>1 DEF Structure, WellFormedField
<1>18. ASSUME NEW x, NEW h
       PROVE  h \in Holders(x)' <=> h \in Holders(x) \/ (h = <<r, n + 1>> /\ x = t)
  <2>1. h \in Holders(x)' <=>
           /\ h = <<h[1], h[2]>> /\ h[1] \in Records /\ h[2] \in 1..client.fields
           /\ h[2] \in DOMAIN types'[h[1]].flds /\ types'[h[1]].flds[h[2]].ty = x
    BY <1>2, <1>14 DEF Holders
  <2>2. h \in Holders(x) <=>
           /\ h = <<h[1], h[2]>> /\ h[1] \in Records /\ h[2] \in 1..client.fields
           /\ h[2] \in DOMAIN types[h[1]].flds /\ types[h[1]].flds[h[2]].ty = x
    BY <1>1, HolderIs
  <2>3. CASE h[1] # r
    <3>1. h[1] \in Records => types'[h[1]].flds = types[h[1]].flds
      BY <1>12, <1>14, <2>3
    <3>2. h # <<r, n + 1>>
      BY <2>3
    <3> QED
      BY <2>1, <2>2, <3>1, <3>2
  <2>4. CASE h[1] = r /\ h[2] # n + 1
    <3>1. h[2] \in DOMAIN more <=> h[2] \in DOMAIN flds
      <4> HIDE DEF n, flds
      <4> QED
        BY <1>3, <1>7, <2>4
    <3>2. h[2] \in DOMAIN flds => more[h[2]] = flds[h[2]]
      BY <1>3, <1>7
    <3>3. h # <<r, n + 1>>
      BY <2>4
    <3> QED
      BY <1>12, <2>1, <2>2, <2>4, <3>1, <3>2, <3>3
  <2>5. CASE h[1] = r /\ h[2] = n + 1
    <3>1. h[2] \in DOMAIN more /\ more[h[2]] = fld /\ h[2] \notin DOMAIN flds
      <4> HIDE DEF n, flds
      <4> QED
        BY <1>3, <1>7, <2>5
    <3>2. n + 1 \in 1..client.fields
      <4> HIDE DEF n, flds
      <4> QED
        BY <1>2, <1>3
    <3>3. h = <<r, n + 1>> <=> h = <<h[1], h[2]>>
      BY <2>5
    <3> QED
      BY <1>6, <1>12, <2>1, <2>2, <2>5, <3>1, <3>2, <3>3
  <2> QED
    BY <2>3, <2>4, <2>5
<1>19. ASSUME NEW x, NEW h \in Holders(x)
       PROVE  /\ h[1] \in Records /\ h[2] \in DOMAIN types[h[1]].flds /\ h[2] \in DOMAIN types'[h[1]].flds
              /\ types'[h[1]].flds[h[2]] = types[h[1]].flds[h[2]]
              /\ Anonymous(types[h[1]].flds[h[2]])' = Anonymous(types[h[1]].flds[h[2]])
  <2>1. h[1] \in Records /\ h[2] \in DOMAIN types[h[1]].flds
    BY <1>1, HolderIs
  <2>2. h[2] \in DOMAIN types'[h[1]].flds /\ types'[h[1]].flds[h[2]] = types[h[1]].flds[h[2]]
    <3>1. CASE h[1] = r
      <4>1. h[2] \in 1..n /\ h[2] \in 1..n + 1
        <5> HIDE DEF n
        <5> QED
          BY <1>3, <2>1, <3>1
      <4> QED
        BY <1>7, <1>12, <3>1, <4>1
    <3>2. CASE h[1] # r
      BY <1>12, <1>14, <2>1, <3>2
    <3> QED
      BY <3>1, <3>2
  <2>3. PICK f : f = types[h[1]].flds[h[2]] /\ f = types'[h[1]].flds[h[2]]
    BY <2>2
  <2>4. Anonymous(f)' = Anonymous(f)
    BY <1>15, <1>17, <2>1, <2>3
  <2>5. Anonymous(types[h[1]].flds[h[2]])' = Anonymous(f)'
    BY <2>3 DEF Anonymous
  <2> QED
    BY <2>1, <2>2, <2>3, <2>4, <2>5
<1>20. ASSUME NEW x PROVE InPlace(x)' <=> InPlace(x) \/ (x = t /\ ~named /\ bits = 0)
  <2>1. InPlace(x)' <=> \E h \in Holders(x)' : Anonymous(types[h[1]].flds[h[2]])'
    BY DEF InPlace
  <2>2. InPlace(x) <=> \E h \in Holders(x) : Anonymous(types[h[1]].flds[h[2]])
    BY DEF InPlace
  <2>3. \A h \in Holders(x) : Anonymous(types[h[1]].flds[h[2]])' = Anonymous(types[h[1]].flds[h[2]])
    BY <1>19
  <2>4. ASSUME NEW h, h = <<r, n + 1>> PROVE Anonymous(types[h[1]].flds[h[2]])' <=> ~named /\ bits = 0
    <3>1. types'[h[1]].flds[h[2]] = fld
      BY <1>7, <1>12, <2>4
    <3>2. Anonymous(types[h[1]].flds[h[2]])' = Anonymous(fld)'
      BY <3>1 DEF Anonymous
    <3> QED
      BY <1>4, <1>6, <1>15, <1>16, <3>2
  <2>5. \A h : h \in Holders(x)' <=> h \in Holders(x) \/ (h = <<r, n + 1>> /\ x = t)
    BY <1>18
  <2> HIDE DEF n
  <2> QED
    BY <2>1, <2>2, <2>3, <2>4, <2>5
<1>21. Structure'
  <2>1. \A x \in DOMAIN types' \ Records : types'[x].flds = << >>
    BY <1>1, <1>10, <1>12, <1>14 DEF Structure
  <2>2. ASSUME NEW f, f.ty \in DOMAIN types, WellFormedField(f) PROVE WellFormedField(f)'
    BY <1>2, <1>10, <1>11, <1>14, <2>2 DEF WellFormedField
  <2>3. WellFormedField(fld)
    BY <1>2, <1>4, <1>5, <1>6 DEF WellFormedField
  <2>4. ASSUME NEW x \in Records
        PROVE  /\ Len(types'[x].flds) <= client.fields
               /\ \A i \in DOMAIN types'[x].flds : WellFormedField(types'[x].flds[i]) \/ TRUE
    <3>1. CASE x = r
      <4> HIDE DEF n
      <4> QED
        BY <1>2, <1>3, <1>7, <1>12, <3>1
    <3>2. CASE x # r
      BY <1>1, <1>12, <1>14, <3>2 DEF Structure
    <3> QED
      BY <3>1, <3>2
  <2>5. ASSUME NEW x \in Records, NEW i \in DOMAIN types'[x].flds
        PROVE  WellFormedField(types[x].flds[i])'
    <3>1. PICK f : f = types'[x].flds[i]
      OBVIOUS
    <3>2. f.ty \in DOMAIN types /\ WellFormedField(f)
      <4>1. CASE x = r /\ i = n + 1
        BY <1>4, <1>6, <1>7, <1>12, <2>3, <3>1, <4>1
      <4>2. CASE x = r /\ i # n + 1
        <5>1. i \in DOMAIN flds
          <6>1. i \in 1..n + 1
            BY <1>7, <1>12, <2>5, <4>2
          <6> HIDE DEF n
          <6> QED
            BY <1>3, <4>2, <6>1
        <5> QED
          BY <1>3, <1>7, <1>12, <1>17, <3>1, <4>2, <5>1
      <4>3. CASE x # r
        BY <1>12, <1>14, <1>17, <2>5, <3>1, <4>3
      <4> QED
        BY <4>1, <4>2, <4>3
    <3>3. WellFormedField(f)'
      BY <2>2, <3>2
    <3> QED
      BY <3>1, <3>3 DEF WellFormedField
  <2>6. ASSUME NEW x \in Records, InPlace(x)' PROVE \A g, h \in Holders(x)' : g = h
    <3>1. CASE x = t
      <4>1. ~named /\ bits = 0
        BY <1>2, <1>20, <2>6, <3>1
      <4>2. Holders(x) = {}
        BY <1>2, <3>1, <4>1
      <4> QED
        BY <1>18, <4>2
    <3>2. CASE x # t
      <4>1. InPlace(x)
        BY <1>20, <2>6, <3>2
      <4> QED
        BY <1>1, <1>18, <3>2, <4>1 DEF Structure
    <3> QED
      BY <3>1, <3>2
  <2>7. complete' \subseteq Records' /\ (Records' # {} => client'.records # 0)
    BY <1>1, <1>2, <1>14 DEF Structure
  <2>8. \A x \in Records : Len(types'[x].flds) <= client.fields
    BY <2>4
  <2> QED
    BY <1>2, <1>10, <1>14, <2>1, <2>5, <2>6, <2>7, <2>8 DEF Structure
<1>22. EndingOK'
  BY <1>2 DEF EndingOK, Ending, NotEnding
<1>23. Placed(r)' = 0 /\ Placed(r) = 0
  <2>1. ending.rec # r
    BY <1>1, <1>2, RecordFields DEF NotEnding, Null
  <2> QED
    BY <1>2, <2>1 DEF Placed
<1>24. Extents'
  <2>1. ASSUME NEW x \in Records PROVE Extent(x)'
    <3>1. CASE x = r
      <4>1. /\ Placed(r) = 0 => types[r].size = 0 /\ types[r].align = 0
            /\ \A i \in DOMAIN flds : i > Placed(r) => flds[i].offset = 0
            /\ \A i \in DOMAIN flds : i > Placed(r) \/ flds[i].bits = 0 => flds[i].pos = 0
        BY <1>1 DEF Extents, Extent
      <4>2. ASSUME NEW i \in DOMAIN more PROVE more[i].offset = 0 /\ more[i].pos = 0
        <5>1. CASE i = n + 1
          BY <1>6, <1>7, <5>1
        <5>2. CASE i # n + 1
          <6>1. i \in 1..n /\ i > 0
            <7> HIDE DEF n
            <7> QED
              BY <1>3, <1>7, <4>2, <5>2
          <6> QED
            BY <1>3, <1>7, <1>23, <4>1, <6>1
        <5> QED
          BY <5>1, <5>2
      <4>3. r \notin complete'
        BY <1>2
      <4>4. types'[r].size = 0 /\ types'[r].align = 0 /\ types'[r].flds = more
        BY <1>3, <1>11, <1>12, <1>23, <4>1
      <4> QED
        BY <1>23, <3>1, <4>2, <4>3, <4>4 DEF Extent
    <3>2. CASE x # r
      <4> DEFINE f1 == types[x].flds
                 f2 == types'[x].flds
      <4>1. f2 = f1 /\ types'[x].size = types[x].size /\ types'[x].align = types[x].align
            /\ types'[x].categ = types[x].categ
        BY <1>11, <1>12, <1>14, <3>2
      <4>2. Placed(x)' = Placed(x)
        BY <1>2, <4>1 DEF Placed
      <4>3. \A i \in 1..Placed(x) : i \in DOMAIN f1
        BY <1>1, PlacedRange, RecordFields
      <4>4. \A i \in 1..Placed(x) : Align(types[x].flds[i])' = Align(f1[i])
        <5>1. SUFFICES ASSUME NEW i \in 1..Placed(x) PROVE Align(types[x].flds[i])' = Align(f1[i])
          OBVIOUS
        <5>2. f1[i].ty \in DOMAIN types
          BY <1>17, <4>3
        <5> QED
          BY <1>11, <4>1, <5>2 DEF Align
      <4>5. /\ Placed(x) = 0 => types[x].size = 0 /\ types[x].align = 0
            /\ Placed(x) # 0 => \E i \in 1..Placed(x) : Align(f1[i]) = types[x].align
            /\ \A i \in 1..Placed(x) : Align(f1[i]) <= types[x].align
            /\ x \in complete /\ types[x].categ = T_STRUCT /\ types[x].align \in Exact =>
                 types[x].size % types[x].align = 0
            /\ \A i \in DOMAIN f1 : i > Placed(x) => f1[i].offset = 0
            /\ \A i \in DOMAIN f1 : i > Placed(x) \/ f1[i].bits = 0 => f1[i].pos = 0
        BY <1>1 DEF Extents, Extent
      <4>6. /\ Placed(x)' = 0 => types'[x].size = 0 /\ types'[x].align = 0
            /\ Placed(x)' # 0 => \E i \in 1..Placed(x)' : Align(types[x].flds[i])' = types'[x].align
            /\ \A i \in 1..Placed(x)' : Align(types[x].flds[i])' <= types'[x].align
            /\ x \in complete' /\ types'[x].categ = T_STRUCT /\ types'[x].align \in Exact =>
                 types'[x].size % types'[x].align = 0
            /\ \A i \in DOMAIN f2 : i > Placed(x)' => f2[i].offset = 0
            /\ \A i \in DOMAIN f2 : i > Placed(x)' \/ f2[i].bits = 0 => f2[i].pos = 0
        <5> HIDE DEF f1, f2
        <5> QED
          BY <1>2, <4>1, <4>2, <4>4, <4>5
      <4> QED
        BY <4>6 DEF Extent, Exact
    <3> QED
      BY <3>1, <3>2
  <2> QED
    BY <1>14, <2>1 DEF Extents
<1>25. ASSUME NEW x \in Records, NEW base, x = r \/ LaidFrom(x, base) PROVE LaidFrom(x, base)'
  <2>1. CASE x = r
    BY <1>23, <2>1 DEF LaidFrom
  <2>2. CASE x # r
    <3> DEFINE f1 == types[x].flds
               f2 == types'[x].flds
    <3>1. f2 = f1 /\ types'[x].size = types[x].size /\ types'[x].categ = types[x].categ
      BY <1>11, <1>12, <1>14, <2>2
    <3>2. Placed(x)' = Placed(x) /\ Open(x)' = Open(x)
      BY <1>2, <3>1 DEF Placed, Open
    <3>3. \A i \in 1..Placed(x) : i \in DOMAIN f1
      BY <1>1, PlacedRange, RecordFields
    <3>4. \A i \in 1..Placed(x) : /\ Align(types[x].flds[i])' = Align(f1[i])
                                  /\ Begin(types[x].flds[i])' = Begin(f1[i])
                                  /\ Finish(types[x].flds[i])' = Finish(f1[i])
      <4>1. SUFFICES ASSUME NEW i \in 1..Placed(x)
                     PROVE  /\ Align(types[x].flds[i])' = Align(f1[i])
                            /\ Begin(types[x].flds[i])' = Begin(f1[i])
                            /\ Finish(types[x].flds[i])' = Finish(f1[i])
        OBVIOUS
      <4>2. f1[i].ty \in DOMAIN types
        BY <1>17, <3>3
      <4> QED
        BY <1>11, <3>1, <4>2 DEF Align, Begin, Finish
    <3>5. /\ \A i \in 1..Placed(x) :
               /\ base <= f1[i].offset
               /\ Align(f1[i]) \in Exact => (f1[i].offset - base) % Align(f1[i]) = 0
          /\ types[x].categ = T_STRUCT =>
               /\ \A i, j \in 1..Placed(x) : i < j => Finish(f1[i]) <= Begin(f1[j])
               /\ \A i \in 1..Placed(x) : Finish(f1[i]) <= 8 * (base + types[x].size) + Open(x)
      BY <1>25, <2>2 DEF LaidFrom
    <3>6. /\ \A i \in 1..Placed(x)' :
               /\ base <= f2[i].offset
               /\ Align(types[x].flds[i])' \in Exact => (f2[i].offset - base) % Align(types[x].flds[i])' = 0
          /\ types'[x].categ = T_STRUCT =>
               /\ \A i, j \in 1..Placed(x)' : i < j => Finish(types[x].flds[i])' <= Begin(types[x].flds[j])'
               /\ \A i \in 1..Placed(x)' : Finish(types[x].flds[i])' <= 8 * (base + types'[x].size) + Open(x)'
      <4> HIDE DEF f1, f2
      <4> QED
        BY <3>1, <3>2, <3>4, <3>5
    <3> QED
      BY <3>6 DEF LaidFrom, Exact
  <2> QED
    BY <2>1, <2>2
<1>26. Own'
  <2>1. ASSUME NEW x \in Records, ~InPlace(x)' PROVE LaidFrom(x, 0)'
    BY <1>1, <1>20, <1>25, <2>1 DEF Own
  <2> QED
    BY <1>14, <2>1 DEF Own
<1>27. Held'
  <2>1. ASSUME NEW x \in Records, NEW h \in Holders(x)', Simply(x, h)'
        PROVE  LaidFrom(x, types[h[1]].flds[h[2]].offset)'
    <3>1. CASE x = r
      <4>1. InPlace(x)'
        BY <2>1 DEF Simply, InPlace
      <4>2. InPlace(r)
        BY <1>4, <1>20, <3>1, <4>1
      <4> QED
        BY <1>1, <1>2, <4>2, InPlaceComplete
    <3>2. CASE x # r /\ h \notin Holders(x)
      <4>1. h = <<r, n + 1>> /\ x = t
        BY <1>18, <3>2
      <4>2. types'[h[1]].flds[h[2]] = fld
        BY <1>7, <1>12, <4>1
      <4>3. LaidFrom(x, 0)
        BY <1>1, <1>2, <4>1 DEF Own
      <4> SUFFICES ASSUME NEW b, b = 0, b = types'[h[1]].flds[h[2]].offset PROVE LaidFrom(x, b)'
        BY <1>6, <4>2 DEF LaidFrom
      <4> QED
        BY <1>25, <4>3
    <3>3. CASE x # r /\ h \in Holders(x)
      <4>1. /\ h[1] \in Records /\ h[2] \in DOMAIN types[h[1]].flds
            /\ types'[h[1]].flds[h[2]] = types[h[1]].flds[h[2]]
            /\ Anonymous(types[h[1]].flds[h[2]])' = Anonymous(types[h[1]].flds[h[2]])
        BY <1>19, <3>3
      <4>2. Nameless(x) = {}
        <5>1. \A i \in DOMAIN types[x].flds : Anonymous(types[x].flds[i])' = Anonymous(types[x].flds[i])
          <6>1. SUFFICES ASSUME NEW i \in DOMAIN types[x].flds
                         PROVE  Anonymous(types[x].flds[i])' = Anonymous(types[x].flds[i])
            OBVIOUS
          <6>2. types'[x].flds[i] = types[x].flds[i] /\ types[x].flds[i].ty \in DOMAIN types
            BY <1>12, <1>14, <1>17, <3>3
          <6> QED
            BY <1>11, <6>2 DEF Anonymous, IsRecord
        <5>2. Nameless(x)' = {types'[x].flds[i].ty : i \in {j \in DOMAIN types'[x].flds : Anonymous(types[x].flds[j])'}}
          BY DEF Nameless
        <5>3. Nameless(x)' = {}
          BY <2>1 DEF Simply
        <5>4. types'[x].flds = types[x].flds
          BY <1>12, <1>14, <3>3
        <5> QED
          BY <5>1, <5>2, <5>3, <5>4 DEF Nameless
      <4>3. h[2] > 1 => types[h[1]].flds[h[2] - 1].bits = 0
        <5>1. h[2] > 1 => types'[h[1]].flds[h[2] - 1].bits = 0
          BY <2>1 DEF Simply
        <5>2. h[2] > 1 => types'[h[1]].flds[h[2] - 1] = types[h[1]].flds[h[2] - 1]
          <6>1. CASE h[1] = r
            <7>1. h[2] \in 1..n
              BY <1>3, <4>1, <6>1
            <7>2. h[2] > 1 => h[2] - 1 \in 1..n
              <8> HIDE DEF n
              <8> QED
                BY <1>3, <7>1
            <7> QED
              BY <1>7, <1>12, <6>1, <7>2
          <6>2. CASE h[1] # r
            BY <1>12, <1>14, <4>1, <6>2
          <6> QED
            BY <6>1, <6>2
        <5> QED
          BY <5>1, <5>2
      <4>4. ~InPlace(h[1])
        BY <1>20, <2>1 DEF Simply
      <4>5. Anonymous(types[h[1]].flds[h[2]])
        BY <2>1, <4>1 DEF Simply
      <4>6. Simply(x, h)
        BY <4>2, <4>3, <4>4, <4>5 DEF Simply
      <4>7. LaidFrom(x, types[h[1]].flds[h[2]].offset)
        BY <1>1, <3>3, <4>6 DEF Held
      <4> SUFFICES ASSUME NEW b, b = types[h[1]].flds[h[2]].offset, b = types'[h[1]].flds[h[2]].offset
                   PROVE  LaidFrom(x, b)'
        BY <4>1 DEF LaidFrom
      <4> QED
        BY <1>25, <4>7
    <3> QED
      BY <3>1, <3>2, <3>3
  <2> QED
    BY <1>14, <2>1 DEF Held
<1> QED
  BY <1>13, <1>21, <1>22, <1>24, <1>26, <1>27 DEF IInv

-----------------------------------------------------------------------------
(* addOffset() moves the members of records defined in place.              *)

\* An object whose members have moved.
Moved(o, d) ==
  WithFields(o, Shifted(o.flds, d))

\* The records that addOffset(root, first) may reach.
Movable(root) ==
  {k \in complete : InPlace(k) /\ (k = root \/ \E h \in Holders(k) : InPlace(h[1]))}

Distances(root, first) ==
  {g \in UNION {[D -> Nat] : D \in SUBSET Movable(root)} :
     /\ root \in DOMAIN g /\ g[root] = first
     /\ Nameless(root) = {} => DOMAIN g = {root}}

\* What a set of distances holds.
LEMMA DistancesAre ==
  ASSUME NEW root, NEW first, NEW g
  PROVE  g \in Distances(root, first) <=>
           /\ g = [k \in DOMAIN g |-> g[k]]
           /\ DOMAIN g \subseteq Movable(root)
           /\ \A k \in DOMAIN g : g[k] \in Nat
           /\ root \in DOMAIN g /\ g[root] = first
           /\ Nameless(root) = {} => DOMAIN g = {root}
<1>1. (\E D \in SUBSET Movable(root) : g \in [D -> Nat]) <=>
           /\ g = [k \in DOMAIN g |-> g[k]]
           /\ DOMAIN g \subseteq Movable(root)
           /\ \A k \in DOMAIN g : g[k] \in Nat
  <2>1. ASSUME NEW D \in SUBSET Movable(root), g \in [D -> Nat]
        PROVE  /\ g = [k \in DOMAIN g |-> g[k]]
               /\ DOMAIN g \subseteq Movable(root)
               /\ \A k \in DOMAIN g : g[k] \in Nat
    BY <2>1
  <2>2. ASSUME g = [k \in DOMAIN g |-> g[k]], DOMAIN g \subseteq Movable(root),
               \A k \in DOMAIN g : g[k] \in Nat
        PROVE  DOMAIN g \in SUBSET Movable(root) /\ g \in [DOMAIN g -> Nat]
    BY <2>2
  <2> QED
    BY <2>1, <2>2
<1> QED
  BY <1>1 DEF Distances

\* One more level of records.
Further(above) ==
  LET Holder(k) == CHOOSE h \in Holders(k) : h[1] \in DOMAIN above
  IN [k \in DOMAIN above \cup UNION {Nameless(j) : j \in DOMAIN above} |->
       IF k \in DOMAIN above THEN above[k]
       ELSE types[Holder(k)[1]].flds[Holder(k)[2]].offset + above[Holder(k)[1]]]

Adding(r, offset) ==
  LET added[n \in 0..client.records] ==
        IF n = 0 THEN [k \in {r} |-> offset] ELSE Further(added[n - 1])
  IN added

\* A nameless record is complete and in place.
LEMMA NamelessIs ==
  ASSUME Sound, Structure, NEW j \in Records, NEW k \in Nameless(j)
  PROVE  \E i \in DOMAIN types[j].flds :
           /\ Anonymous(types[j].flds[i]) /\ types[j].flds[i].ty = k
           /\ <<j, i>> \in Holders(k)
           /\ k \in complete /\ InPlace(k)
<1>1. PICK i \in DOMAIN types[j].flds : Anonymous(types[j].flds[i]) /\ types[j].flds[i].ty = k
  BY DEF Nameless
<1>2. WellFormedField(types[j].flds[i]) /\ Len(types[j].flds) <= client.fields
  BY DEF Structure
<1>3. k \in complete
  BY <1>1, <1>2, NamelessField
<1>4. i \in 1..client.fields
  <2>1. DOMAIN types[j].flds = 1..Len(types[j].flds) /\ Len(types[j].flds) \in Nat
    BY RecordFields
  <2>2. client.fields \in Nat
    BY Heap
  <2> QED
    BY <1>2, <2>1, <2>2
<1>5. <<j, i>> \in Holders(k)
  BY <1>1, <1>4 DEF Holders
<1>6. InPlace(k)
  BY <1>1, <1>5 DEF InPlace
<1> QED
  BY <1>1, <1>3, <1>5, <1>6

\* One level more of addOffset reaches only records it may reach.
LEMMA FurtherDistances ==
  ASSUME Sound, Structure, NEW root \in complete, NEW first \in Nat,
         NEW above \in Distances(root, first)
  PROVE  Further(above) \in Distances(root, first)
<1> DEFINE D == DOMAIN above
           E == D \cup UNION {Nameless(j) : j \in D}
           Holder(k) == CHOOSE h \in Holders(k) : h[1] \in D
           g == Further(above)
<1>1. /\ D \subseteq Movable(root) /\ (\A k \in D : above[k] \in Nat)
      /\ root \in D /\ above[root] = first /\ (Nameless(root) = {} => D = {root})
  BY DistancesAre
<1>2. g = [k \in E |-> IF k \in D THEN above[k]
                       ELSE types[Holder(k)[1]].flds[Holder(k)[2]].offset + above[Holder(k)[1]]]
  BY DEF Further
<1>3. complete \subseteq Records
  BY DEF Structure
<1>4. \A j \in D : j \in complete /\ j \in Records /\ InPlace(j)
  BY <1>1, <1>3 DEF Movable
<1>5. ASSUME NEW k \in E, k \notin D
      PROVE  /\ k \in Movable(root)
             /\ types[Holder(k)[1]].flds[Holder(k)[2]].offset + above[Holder(k)[1]] \in Nat
  <2>1. PICK j \in D : k \in Nameless(j)
    BY <1>5
  <2>2. PICK i \in DOMAIN types[j].flds :
           <<j, i>> \in Holders(k) /\ k \in complete /\ InPlace(k)
    BY <1>4, <2>1, NamelessIs
  <2>3. <<j, i>>[1] = j /\ InPlace(j)
    BY <1>4
  <2>4. k \in Movable(root)
    BY <2>2, <2>3 DEF Movable
  <2>5. \E h \in Holders(k) : h[1] \in D
    BY <2>2, <2>3
  <2>6. Holder(k) \in Holders(k) /\ Holder(k)[1] \in D
    BY <2>5
  <2> HIDE DEF Holder
  <2>7. types[Holder(k)[1]].flds[Holder(k)[2]].offset \in Nat
    <3>1. Holder(k)[1] \in Records /\ Holder(k)[2] \in DOMAIN types[Holder(k)[1]].flds
      BY <2>6, HolderIs
    <3> QED
      BY <3>1, RecordFields
  <2>8. above[Holder(k)[1]] \in Nat
    BY <1>1, <2>6
  <2> QED
    BY <2>4, <2>7, <2>8
<1>6. DOMAIN g = E /\ g = [k \in DOMAIN g |-> g[k]]
  BY <1>2
<1> HIDE DEF Holder, g
<1>7. E \subseteq Movable(root)
  BY <1>1, <1>5
<1>8. ASSUME NEW k \in E PROVE g[k] \in Nat
  <2>1. CASE k \in D
    BY <1>1, <1>2, <2>1
  <2>2. CASE k \notin D
    BY <1>2, <1>5, <2>2
  <2> QED
    BY <2>1, <2>2
<1>9. root \in E /\ g[root] = first
  BY <1>1, <1>2
<1>10. Nameless(root) = {} => E = {root}
  BY <1>1
<1> HIDE DEF E, D
<1>11. g \in Distances(root, first)
  BY <1>6, <1>7, <1>8, <1>9, <1>10, DistancesAre
<1> QED
  BY <1>11 DEF g

\* All levels of addOffset reach only records it may reach.
LEMMA AddingEnds ==
  ASSUME Sound, Structure, NEW root \in complete, InPlace(root), NEW first \in Nat
  PROVE  Adding(root, first)[client.records] \in Distances(root, first)
<1> DEFINE S == Distances(root, first)
           z == [k \in {root} |-> first]
           N == client.records
           step == [q \in (1..N) \X S |-> Further(q[2])]
           added == CHOOSE added :
             added = [n \in 0..N |-> IF n = 0 THEN z ELSE Further(added[n - 1])]
<1>1. Adding(root, first) = added
  BY DEF Adding
<1>2. N \in Nat
  BY Heap
<1>3. \A above \in S : Further(above) \in S
  BY FurtherDistances
<1>4. z \in S
  <2>1. root \in Movable(root)
    BY DEF Movable
  <2>2. DOMAIN z = {root} /\ z[root] = first
    OBVIOUS
  <2> HIDE DEF z
  <2>3. z = [k \in DOMAIN z |-> z[k]]
    BY DEF z
  <2> QED
    BY <2>1, <2>2, <2>3, DistancesAre
<1> HIDE DEF S, z, N
<1>5. step \in Steps(N, S)
  BY <1>3 DEF Steps
<1> HIDE DEF step
<1>6. PICK f : Follows(f, z, N, S, step)
  BY <1>2, <1>4, <1>5, RecursionExists
<1>7. f \in [0..N -> S] /\ f[0] = z /\ \A n \in 1..N : f[n] = Further(f[n - 1])
  <2>1. \A n \in 1..N : step[<<n, f[n - 1]>>] = Further(f[n - 1])
    BY <1>2, <1>6 DEF step, Follows
  <2> QED
    BY <1>6, <2>1 DEF Follows
<1>8. f = [n \in 0..N |-> IF n = 0 THEN z ELSE Further(f[n - 1])]
  <2>1. \A n \in 0..N : f[n] = IF n = 0 THEN z ELSE Further(f[n - 1])
    <3>1. \A n \in 0..N : n = 0 \/ n \in 1..N
      BY <1>2
    <3> QED
      BY <1>7, <3>1
  <2> QED
    BY <1>7, <2>1
<1>9. added = [n \in 0..N |-> IF n = 0 THEN z ELSE Further(added[n - 1])]
  BY <1>8
<1> HIDE DEF added
<1>10. added[0] = z
  BY <1>2, <1>9
<1>11. \A n \in 1..N : added[n] = Further(added[n - 1])
  <2>1. \A n \in 1..N : n \in 0..N /\ n # 0
    BY <1>2
  <2> QED
    BY <1>9, <2>1
<1>12. added[N] \in S
  <2> DEFINE B == {n \in 0..N : added[n] \notin S}
  <2>1. SUFFICES ASSUME B # {} PROVE FALSE
    BY <1>2
  <2>2. B \in SUBSET Nat
    OBVIOUS
  <2>3. PICK m \in B : \A n \in B : m <= n
    BY <2>1, <2>2, LeastNat
  <2>4. m # 0
    BY <1>4, <1>10, <2>3
  <2>5. m \in 1..N /\ m - 1 \in 0..N /\ ~(m <= m - 1)
    BY <1>2, <2>3, <2>4
  <2>6. added[m - 1] \in S
    BY <2>3, <2>5
  <2> QED
    BY <1>3, <1>11, <2>3, <2>5, <2>6
<1> QED
  BY <1>1, <1>12 DEF S, N

\* addOffset moves its record, and others only when it has nameless ones.
LEMMA AddOffsetMoves ==
  ASSUME Sound, Structure, NEW root \in complete, InPlace(root), NEW first \in Nat,
         NEW h, h = AddOffset(root, first)
  PROVE  /\ h = [t \in DOMAIN types |-> h[t]]
         /\ h[root] = Moved(types[root], first)
         /\ \A t \in DOMAIN types :
              t # root =>
              \/ h[t] = types[t]
              \/ /\ t \in complete /\ InPlace(t)
                 /\ Nameless(root) # {}
                 /\ \E g \in Holders(t) : InPlace(g[1])
                 /\ \E d \in Nat : h[t] = Moved(types[t], d)
<1> DEFINE moved == Adding(root, first)[client.records]
<1>1. h = [k \in DOMAIN types |->
             IF k \in DOMAIN moved THEN Moved(types[k], moved[k]) ELSE types[k]]
  <2>1. Adding(root, first) =
          CHOOSE added : added = [n \in 0..client.records |->
             IF n = 0 THEN [k \in {root} |-> first] ELSE Further(added[n - 1])]
    BY DEF Adding
  <2> DEFINE was == CHOOSE added : added = [n \in 0..client.records |->
        IF n = 0 THEN [k \in {root} |-> first]
        ELSE LET above == added[n - 1]
                 Holder(k) == CHOOSE hh \in Holders(k) : hh[1] \in DOMAIN above
             IN [k \in DOMAIN above \cup UNION {Nameless(j) : j \in DOMAIN above} |->
                  IF k \in DOMAIN above THEN above[k]
                  ELSE types[Holder(k)[1]].flds[Holder(k)[2]].offset + above[Holder(k)[1]]]]
  <2>2. was = Adding(root, first)
    BY Zenon DEF Adding, Further
  <2>3. h = [k \in DOMAIN types |->
       IF k \in DOMAIN was[client.records]
       THEN [types[k] EXCEPT !.flds = Shifted(@, was[client.records][k])]
       ELSE types[k]]
    BY Zenon DEF AddOffset
  <2> HIDE DEF was
  <2>4. moved = was[client.records]
    BY <2>2
  <2> HIDE DEF moved
  <2>5. \A k \in DOMAIN types :
          [types[k] EXCEPT !.flds = Shifted(@, moved[k])]
            = Moved(types[k], moved[k])
    BY DEF Moved, WithFields
  <2> QED
    BY <2>3, <2>4, <2>5
<1>2. moved \in Distances(root, first)
  BY AddingEnds
<1> HIDE DEF moved
<1>3. /\ DOMAIN moved \subseteq Movable(root)
      /\ \A k \in DOMAIN moved : moved[k] \in Nat
      /\ root \in DOMAIN moved /\ moved[root] = first
      /\ Nameless(root) = {} => DOMAIN moved = {root}
  BY <1>2, DistancesAre
<1>4. root \in DOMAIN types
  BY DEF Structure, Records
<1>5. h = [t \in DOMAIN types |-> h[t]] /\ h[root] = Moved(types[root], first)
  BY <1>1, <1>3, <1>4
<1>6. ASSUME NEW t \in DOMAIN types, t # root, h[t] # types[t]
      PROVE  /\ t \in complete /\ InPlace(t)
             /\ Nameless(root) # {}
             /\ \E g \in Holders(t) : InPlace(g[1])
             /\ \E d \in Nat : h[t] = Moved(types[t], d)
  <2>1. t \in DOMAIN moved /\ h[t] = Moved(types[t], moved[t])
    BY <1>1, <1>6
  <2>2. t \in Movable(root) /\ moved[t] \in Nat /\ Nameless(root) # {}
    BY <1>3, <1>6, <2>1
  <2> QED
    BY <1>6, <2>1, <2>2 DEF Movable
<1> QED
  BY <1>5, <1>6

\* An object whose members have moved differs in their offsets.
LEMMA MovedObject ==
  ASSUME NEW o \in Objects, NEW d \in Nat
  PROVE  /\ Moved(o, d) \in Objects
         /\ Moved(o, d).categ = o.categ /\ Moved(o, d).qual = o.qual
         /\ Moved(o, d).align = o.align /\ Moved(o, d).size = o.size
         /\ Moved(o, d).bty = o.bty /\ Moved(o, d).sig = o.sig
         /\ DOMAIN Moved(o, d).flds = DOMAIN o.flds /\ Len(Moved(o, d).flds) = Len(o.flds)
         /\ \A i \in DOMAIN o.flds :
              /\ Moved(o, d).flds[i].id = o.flds[i].id /\ Moved(o, d).flds[i].ty = o.flds[i].ty
              /\ Moved(o, d).flds[i].bits = o.flds[i].bits /\ Moved(o, d).flds[i].pos = o.flds[i].pos
              /\ Moved(o, d).flds[i].offset = o.flds[i].offset + d
<1> DEFINE f == o.flds
           g == Shifted(f, d)
<1>1. f \in Seq(Fields)
  BY ObjectFields
<1>2. ASSUME NEW i \in DOMAIN f
      PROVE  /\ g[i] \in Fields
             /\ g[i].id = f[i].id /\ g[i].ty = f[i].ty /\ g[i].bits = f[i].bits /\ g[i].pos = f[i].pos
             /\ g[i].offset = f[i].offset + d
  <2>1. PICK e : e = f[i]
    OBVIOUS
  <2>2. PICK e2 : e2 = [e EXCEPT !.offset = @ + d]
    OBVIOUS
  <2>3. e \in Fields
    BY <1>1, <1>2, <2>1
  <2>4. e = [id |-> e.id, ty |-> e.ty, bits |-> e.bits, offset |-> e.offset, pos |-> e.pos]
        /\ e.id \in Nat /\ e.ty \in Nat /\ e.bits \in Nat /\ e.offset \in Nat /\ e.pos \in Nat
    BY <2>3 DEF Fields
  <2>5. e2 = [id |-> e.id, ty |-> e.ty, bits |-> e.bits, offset |-> e.offset + d, pos |-> e.pos]
    BY <2>2, <2>4
  <2>6. e2 \in Fields
    <3>1. e.offset + d \in Nat
      BY <2>4
    <3> QED
      BY <2>4, <2>5, <3>1 DEF Fields
  <2>7. g[i] = e2
    BY <2>1, <2>2 DEF Shifted
  <2> HIDE DEF g, f
  <2>8. /\ e2.id = e.id /\ e2.ty = e.ty /\ e2.bits = e.bits /\ e2.pos = e.pos
        /\ e2.offset = e.offset + d
    BY <2>5
  <2> QED
    BY <2>1, <2>6, <2>7, <2>8
<1>3. DOMAIN g = DOMAIN f
  BY DEF Shifted
<1>4. Moved(o, d) = WithFields(o, g)
  BY DEF Moved
<1> HIDE DEF g, f
<1>5. g \in Seq(Fields) /\ Len(g) = Len(f)
  <2>1. DOMAIN f = 1..Len(f) /\ Len(f) \in Nat
    BY <1>1
  <2>2. g \in [1..Len(f) -> Fields]
    <3>1. g = [i \in DOMAIN f |-> g[i]]
      BY DEF g, Shifted
    <3> QED
      BY <1>2, <2>1, <3>1
  <2> QED
    BY <2>1, <2>2
<1> QED
  BY <1>2, <1>3, <1>4, <1>5, FieldsObject DEF f

-----------------------------------------------------------------------------
(* A member gets its place.                                                *)

\* An object one member of which has its place.
PlacedField(f, offset, pos) == [f EXCEPT !.offset = offset, !.pos = pos]
WithPlaced(o, k, f, size, align) ==
  [o EXCEPT !.flds[k] = f, !.size = size, !.align = align]

\* A member that has its place differs in offset and position.
LEMMA PlacedFieldIs ==
  ASSUME NEW f \in Fields, NEW offset \in Nat, NEW pos \in Nat
  PROVE  /\ PlacedField(f, offset, pos) \in Fields
         /\ PlacedField(f, offset, pos).id = f.id /\ PlacedField(f, offset, pos).ty = f.ty
         /\ PlacedField(f, offset, pos).bits = f.bits
         /\ PlacedField(f, offset, pos).offset = offset /\ PlacedField(f, offset, pos).pos = pos
<1>1. f = [id |-> f.id, ty |-> f.ty, bits |-> f.bits, offset |-> f.offset, pos |-> f.pos]
      /\ f.id \in Nat /\ f.ty \in Nat /\ f.bits \in Nat
  BY DEF Fields
<1>2. PICK g : g = PlacedField(f, offset, pos)
  OBVIOUS
<1>3. g = [id |-> f.id, ty |-> f.ty, bits |-> f.bits, offset |-> offset, pos |-> pos]
  BY <1>1, <1>2 DEF PlacedField
<1>4. g \in Fields
  BY <1>1, <1>3 DEF Fields
<1>5. g.id = f.id /\ g.ty = f.ty /\ g.bits = f.bits /\ g.offset = offset /\ g.pos = pos
  BY <1>3
<1> QED
  BY <1>2, <1>4, <1>5

\* A record with one more place differs in that member, its size and alignment.
LEMMA PlacedObject ==
  ASSUME NEW o \in Objects, NEW k \in DOMAIN o.flds, NEW f \in Fields, NEW s \in Nat, NEW a \in Nat,
         NEW n, n = WithPlaced(o, k, f, s, a)
  PROVE  /\ n \in Objects
         /\ n.categ = o.categ /\ n.qual = o.qual /\ n.align = a /\ n.size = s
         /\ n.bty = o.bty /\ n.sig = o.sig
         /\ Len(n.flds) = Len(o.flds) /\ DOMAIN n.flds = DOMAIN o.flds
         /\ n.flds[k] = f /\ \A i \in DOMAIN o.flds : i # k => n.flds[i] = o.flds[i]
<1> DEFINE g == [o.flds EXCEPT ![k] = f]
<1>1. n = [categ |-> o.categ, qual |-> o.qual, align |-> a, size |-> s,
           bty |-> o.bty, sig |-> o.sig, flds |-> g]
  <2>1. n = [o EXCEPT !.flds[k] = f, !.size = s, !.align = a]
    BY DEF WithPlaced
  <2>2. o = [categ |-> o.categ, qual |-> o.qual, align |-> o.align, size |-> o.size,
             bty |-> o.bty, sig |-> o.sig, flds |-> o.flds]
    BY ObjectFields
  <2> QED
    BY <2>1, <2>2
<1>2. /\ o.categ \in Nat /\ o.qual \in SUBSET Quals
      /\ o.sig \in Signatures /\ o.flds \in Seq(Fields) /\ o.bty \in Nat
  BY ObjectFields
<1>3. /\ g \in Seq(Fields) /\ Len(g) = Len(o.flds) /\ DOMAIN g = DOMAIN o.flds
      /\ g[k] = f /\ \A i \in DOMAIN o.flds : i # k => g[i] = o.flds[i]
  <2>1. PICK w : w = o.flds
    OBVIOUS
  <2>2. w \in Seq(Fields) /\ k \in DOMAIN w
    BY <1>2, <2>1
  <2>3. PICK v : v = [w EXCEPT ![k] = f]
    OBVIOUS
  <2>4. /\ v \in Seq(Fields) /\ Len(v) = Len(w) /\ DOMAIN v = DOMAIN w
        /\ v[k] = f /\ \A i \in DOMAIN w : i # k => v[i] = w[i]
    BY <2>2, <2>3
  <2> QED
    BY <2>1, <2>3, <2>4
<1> HIDE DEF g
<1>4. n \in Objects
  BY <1>1, <1>2, <1>3 DEF Objects
<1>5. /\ n.categ = o.categ /\ n.qual = o.qual /\ n.align = a /\ n.size = s
      /\ n.bty = o.bty /\ n.sig = o.sig /\ n.flds = g
  BY <1>1
<1> QED
  BY <1>3, <1>4, <1>5

\* What Place does to the heap: p is the record being ended, k its member.
Replaced(p, k, offset, pos, size, first) ==
  /\ client' = client /\ types' \in Seq(Objects)
  /\ DOMAIN types' = DOMAIN types /\ Len(types') = Len(types)
  /\ types'[p].categ = types[p].categ /\ types'[p].qual = types[p].qual /\ types'[p].sig = types[p].sig
  /\ types'[p].size = size
  /\ Len(types'[p].flds) = Len(types[p].flds) /\ DOMAIN types'[p].flds = DOMAIN types[p].flds
  /\ \A i \in DOMAIN types[p].flds : i # k => types'[p].flds[i] = types[p].flds[i]
  /\ types'[p].flds[k].id = types[p].flds[k].id /\ types'[p].flds[k].ty = types[p].flds[k].ty
  /\ types'[p].flds[k].bits = types[p].flds[k].bits
  /\ types'[p].flds[k].offset = offset /\ types'[p].flds[k].pos = pos
  /\ Anonymous(types[p].flds[k]) =>
       types'[types[p].flds[k].ty] = Moved(types[types[p].flds[k].ty], first)
  /\ \A t \in DOMAIN types \ {p} :
       \/ types'[t] = types[t]
       \/ /\ t \in complete /\ InPlace(t)
          /\ \E d \in Nat : types'[t] = Moved(types[t], d)
          /\ \/ t = types[p].flds[k].ty /\ Anonymous(types[p].flds[k])
             \/ \E g \in Holders(t) : InPlace(g[1])

\* What Place does to the heap.
LEMMA PlaceReplaces ==
  ASSUME IInv, Placing(T_STRUCT), NEW offset \in Nat, NEW pos \in Nat, NEW size \in Nat, NEW bits,
         Place(offset, pos, size, bits),
         NEW p, p = ending.rec
  PROVE  /\ Replaced(p, ending.at, offset, pos, size, AlignUp(types[p].size, FldType.align))
         /\ types'[p].align = Widest
<1> DEFINE k == ending.at
           flds == types[p].flds
           root == flds[k].ty
           first == AlignUp(types[p].size, FldType.align)
           nested == IF Anonymous(Fld) THEN AddOffset(Fld.ty, first) ELSE types
<1>1. Sound /\ Structure /\ Ending
  BY DEF IInv, Placing
<1>2. /\ p \in Records \ complete /\ p \in DOMAIN types
      /\ k \in 1..Len(flds) + 1 /\ Rec = types[p] /\ flds \in Seq(Fields)
      /\ DOMAIN flds = 1..Len(flds) /\ Len(flds) \in Nat
      /\ types[p].size \in Nat /\ types[p].align \in Aligns
      /\ ~InPlace(p)
  BY <1>1, BeingLaidOut
<1>3. k \in DOMAIN flds /\ Fld = flds[k]
  <2>1. k <= Len(flds)
    BY <1>2 DEF Placing
  <2>2. k \in DOMAIN flds
    <3> HIDE DEF flds
    <3> QED
      BY <1>2, <2>1
  <2> QED
    BY <1>2, <2>2 DEF Fld
<1>4. /\ flds[k].ty \in DOMAIN types /\ flds[k].ty # p
      /\ types[root].align \in Aligns /\ types[root].align # 0
      /\ WellFormedField(flds[k])
  BY <1>1, <1>3, BeingLaidOut
<1>5. FldType = types[root]
  BY <1>3 DEF FldType
<1>6. first \in Nat
  BY <1>2, <1>4, <1>5, RoundsUp
<1>7. /\ types' = [nested EXCEPT ![p] = WithPlaced(types[p], k, PlacedField(flds[k], offset, pos), size, Widest)]
      /\ client' = client
  BY <1>2, <1>3 DEF Place, WithPlaced, PlacedField
<1>8. ASSUME Anonymous(Fld)
      PROVE  root \in complete /\ InPlace(root)
  <2>1. root \in Nameless(p)
    BY <1>3, <1>8 DEF Nameless
  <2> QED
    BY <1>1, <1>2, <2>1, NamelessIs
<1>9. /\ DOMAIN nested = DOMAIN types /\ nested = [t \in DOMAIN nested |-> nested[t]]
      /\ nested[p] = types[p]
      /\ Anonymous(flds[k]) => nested[root] = Moved(types[root], first)
      /\ \A t \in DOMAIN types :
           \/ nested[t] = types[t]
           \/ /\ t \in complete /\ InPlace(t)
              /\ \E d \in Nat : nested[t] = Moved(types[t], d)
              /\ \/ t = root /\ Anonymous(flds[k])
                 \/ \E g \in Holders(t) : InPlace(g[1])
  <2>1. CASE Anonymous(Fld)
    <3>1. nested = AddOffset(root, first)
      BY <1>3, <2>1
    <3>2. /\ nested = [t \in DOMAIN types |-> nested[t]]
          /\ nested[root] = Moved(types[root], first)
          /\ \A t \in DOMAIN types :
               t # root =>
               \/ nested[t] = types[t]
               \/ /\ t \in complete /\ InPlace(t)
                  /\ Nameless(root) # {}
                  /\ \E g \in Holders(t) : InPlace(g[1])
                  /\ \E d \in Nat : nested[t] = Moved(types[t], d)
      <4> HIDE DEF nested, first, root
      <4> QED
        BY <1>1, <1>6, <1>8, <2>1, <3>1, AddOffsetMoves
    <3> HIDE DEF nested, first
    <3>3. nested[p] = types[p]
      BY <1>2, <1>4, <3>2
    <3> QED
      BY <1>3, <1>6, <1>8, <2>1, <3>2, <3>3, Zenon
  <2>2. CASE ~Anonymous(Fld)
    <3>1. nested = types
      BY <2>2
    <3>2. types = [t \in DOMAIN types |-> types[t]]
      BY <1>1, Heap
    <3> HIDE DEF nested
    <3> QED
      BY <1>3, <2>2, <3>1, <3>2
  <2> QED
    BY <2>1, <2>2, Zenon
<1> DEFINE f == PlacedField(flds[k], offset, pos)
           n == WithPlaced(types[p], k, f, size, Widest)
<1>10. f \in Fields /\ f.id = flds[k].id /\ f.ty = flds[k].ty /\ f.bits = flds[k].bits
       /\ f.offset = offset /\ f.pos = pos
  <2>1. PICK e : e = flds[k]
    OBVIOUS
  <2>2. e \in Fields
    BY <1>2, <1>3, <2>1
  <2>3. f = PlacedField(e, offset, pos)
    BY <2>1
  <2> HIDE DEF f
  <2>4. /\ PlacedField(e, offset, pos) \in Fields
        /\ PlacedField(e, offset, pos).id = e.id /\ PlacedField(e, offset, pos).ty = e.ty
        /\ PlacedField(e, offset, pos).bits = e.bits
        /\ PlacedField(e, offset, pos).offset = offset /\ PlacedField(e, offset, pos).pos = pos
    BY <2>2, PlacedFieldIs
  <2> HIDE DEF flds
  <2> QED
    BY <2>1, <2>3, <2>4
<1>11. Widest \in Nat
  <2>1. Widest = IF types[root].align > types[p].align THEN types[root].align ELSE types[p].align
    BY <1>2, <1>5 DEF Widest
  <2>2. types[root].align \in Aligns /\ types[p].align \in Aligns
    BY <1>2, <1>4
  <2>3. PICK x, y : x = types[root].align /\ y = types[p].align
    OBVIOUS
  <2>4. x \in Nat /\ y \in Nat
    BY <2>2, <2>3 DEF Aligns
  <2> QED
    BY <2>1, <2>3, <2>4
<1> HIDE DEF f
<1>12. types \in Seq(Objects) /\ types[p] \in Objects /\ Len(types) \in Nat /\ DOMAIN types = 1..Len(types)
  BY <1>1, <1>2, Heap, ObjectAt
<1>13. /\ n \in Objects
       /\ n.categ = types[p].categ /\ n.qual = types[p].qual /\ n.align = Widest /\ n.size = size
       /\ n.bty = types[p].bty /\ n.sig = types[p].sig
       /\ Len(n.flds) = Len(flds) /\ DOMAIN n.flds = DOMAIN flds
       /\ n.flds[k] = f /\ \A i \in DOMAIN flds : i # k => n.flds[i] = flds[i]
  <2> HIDE DEF n
  <2>1. n = WithPlaced(types[p], k, f, size, Widest)
    BY DEF n
  <2>2. PICK o, a : o = types[p] /\ a = Widest
    OBVIOUS
  <2>3. /\ o \in Objects /\ k \in DOMAIN o.flds /\ f \in Fields /\ size \in Nat /\ a \in Nat
        /\ n = WithPlaced(o, k, f, size, a)
    BY <1>3, <1>10, <1>11, <1>12, <2>1, <2>2
  <2>4. /\ n \in Objects
        /\ n.categ = o.categ /\ n.qual = o.qual /\ n.align = a /\ n.size = size
        /\ n.bty = o.bty /\ n.sig = o.sig
        /\ Len(n.flds) = Len(o.flds) /\ DOMAIN n.flds = DOMAIN o.flds
        /\ n.flds[k] = f /\ \A i \in DOMAIN o.flds : i # k => n.flds[i] = o.flds[i]
    BY <2>3, PlacedObject
  <2> QED
    BY <2>2, <2>4
<1>14. types' = [nested EXCEPT ![p] = n]
  BY <1>7 DEF f
<1> HIDE DEF n, nested, first
<1>15. DOMAIN types' = DOMAIN types /\ types'[p] = n /\ types' = [t \in DOMAIN types |-> types'[t]]
       /\ \A t \in DOMAIN types \ {p} : types'[t] = nested[t]
  BY <1>2, <1>9, <1>14
<1>16. \A t \in DOMAIN types : nested[t] \in Objects
  <2>1. SUFFICES ASSUME NEW t \in DOMAIN types PROVE nested[t] \in Objects
    OBVIOUS
  <2>2. types[t] \in Objects
    BY <1>12, ObjectAt
  <2> QED
    BY <1>9, <2>2, MovedObject
<1>17. types' \in Seq(Objects) /\ Len(types') = Len(types)
  <2>1. \A t \in 1..Len(types) : types'[t] \in Objects
    BY <1>12, <1>13, <1>15, <1>16
  <2>2. types' \in [1..Len(types) -> Objects]
    BY <1>12, <1>15, <2>1
  <2> QED
    BY <1>12, <2>2
<1>18. Anonymous(flds[k]) => types'[root] = Moved(types[root], first)
  BY <1>4, <1>9, <1>15
<1>19. types'[p].align = Widest
  BY <1>13, <1>15
<1>20. Replaced(p, k, offset, pos, size, first)
  <2>1. /\ types'[p].categ = types[p].categ /\ types'[p].qual = types[p].qual /\ types'[p].sig = types[p].sig
        /\ types'[p].size = size
        /\ Len(types'[p].flds) = Len(flds) /\ DOMAIN types'[p].flds = DOMAIN flds
        /\ \A i \in DOMAIN flds : i # k => types'[p].flds[i] = flds[i]
        /\ types'[p].flds[k].id = flds[k].id /\ types'[p].flds[k].ty = flds[k].ty
        /\ types'[p].flds[k].bits = flds[k].bits
        /\ types'[p].flds[k].offset = offset /\ types'[p].flds[k].pos = pos
    BY <1>10, <1>13, <1>15, Zenon
  <2>2. \A t \in DOMAIN types \ {p} :
           \/ types'[t] = types[t]
           \/ /\ t \in complete /\ InPlace(t)
              /\ \E d \in Nat : types'[t] = Moved(types[t], d)
              /\ \/ t = root /\ Anonymous(flds[k])
                 \/ \E g \in Holders(t) : InPlace(g[1])
    BY <1>9, <1>15
  <2> QED
    BY <1>7, <1>15, <1>17, <1>18, <2>1, <2>2 DEF Replaced
<1> QED
  BY <1>19, <1>20 DEF first

\* Members that have moved are the same but for their offsets.
SameButOffsets(t) ==
  /\ types'[t].categ = types[t].categ /\ types'[t].qual = types[t].qual /\ types'[t].sig = types[t].sig
  /\ types'[t].align = types[t].align /\ types'[t].size = types[t].size
  /\ Len(types'[t].flds) = Len(types[t].flds) /\ DOMAIN types'[t].flds = DOMAIN types[t].flds
  /\ \A i \in DOMAIN types[t].flds :
       /\ types'[t].flds[i].id = types[t].flds[i].id /\ types'[t].flds[i].ty = types[t].flds[i].ty
       /\ types'[t].flds[i].bits = types[t].flds[i].bits /\ types'[t].flds[i].pos = types[t].flds[i].pos

\* Moving changes offsets only.
LEMMA MovedIsSame ==
  ASSUME Sound, NEW t \in DOMAIN types, NEW d \in Nat, types'[t] = types[t] \/ types'[t] = Moved(types[t], d)
  PROVE  SameButOffsets(t)
<1>1. types[t] \in Objects
  BY Heap, ObjectAt
<1>2. CASE types'[t] = types[t]
  BY <1>2 DEF SameButOffsets
<1>3. CASE types'[t] = Moved(types[t], d)
  BY <1>1, <1>3, MovedObject DEF SameButOffsets
<1> QED
  BY <1>2, <1>3

\* Place keeps the shape of records.
LEMMA ReplacedShape ==
  ASSUME Sound, Structure, NEW p \in Records \ complete, NEW k \in DOMAIN types[p].flds,
         NEW offset, NEW pos, NEW size, NEW first,
         Replaced(p, k, offset, pos, size, first), types'[p].align \in Aligns, types'[p].align # 0
  PROVE  /\ SameShape
         /\ \A t \in DOMAIN types \ {p} : SameButOffsets(t)
<1>1. p \in DOMAIN types /\ IsRecord(types[p]) /\ types[p].qual = {}
  BY DEF Records
<1>2. \A t \in DOMAIN types \ {p} : SameButOffsets(t)
  <2>1. SUFFICES ASSUME NEW t \in DOMAIN types \ {p} PROVE SameButOffsets(t)
    OBVIOUS
  <2>2. types'[t] = types[t] \/ \E d \in Nat : types'[t] = Moved(types[t], d)
    BY DEF Replaced
  <2>3. 0 \in Nat
    OBVIOUS
  <2> QED
    BY <2>2, <2>3, MovedIsSame
<1>3. /\ client' = client /\ types' \in Seq(Objects)
      /\ DOMAIN types' = DOMAIN types /\ Len(types') = Len(types)
      /\ types'[p].categ = types[p].categ /\ types'[p].qual = types[p].qual /\ types'[p].sig = types[p].sig
      /\ Len(types'[p].flds) = Len(types[p].flds)
  BY DEF Replaced
<1>4. \A t \in DOMAIN types : /\ types'[t].categ = types[t].categ /\ types'[t].qual = types[t].qual
                              /\ types'[t].sig = types[t].sig
  BY <1>2, <1>3 DEF SameButOffsets
<1>5. GoodHeap(types')
  <2>1. ASSUME NEW t \in DOMAIN types
        PROVE  \/ types'[t] = types[t]
               \/ /\ IsRecord(types[t]) /\ types[t].qual = {}
                  /\ types'[t].categ = types[t].categ /\ types'[t].qual = {} /\ types'[t].sig = types[t].sig
                  /\ types'[t].align \in Aligns /\ (types'[t].size # 0 => types'[t].align # 0)
    <3>1. CASE t = p
      BY <1>1, <1>3, <3>1
    <3>2. CASE t # p /\ types'[t] # types[t]
      <4>1. t \in complete
        BY <3>2 DEF Replaced
      <4>2. IsRecord(types[t]) /\ types[t].qual = {}
        BY <4>1 DEF Structure, Records
      <4>3. types'[t].align = types[t].align /\ types'[t].size = types[t].size
        BY <1>2, <3>2 DEF SameButOffsets
      <4>4. WellBuilt(types, t)
        BY DEF Sound, GoodHeap
      <4>5. types[t].align \in Aligns /\ (types[t].size # 0 => types[t].align # 0)
        BY <4>4 DEF WellBuilt
      <4> QED
        BY <1>4, <4>2, <4>3, <4>5
    <3> QED
      BY <3>1, <3>2
  <2>2. GoodHeap(types)
    BY DEF Sound
  <2> QED
    BY <1>3, <2>1, <2>2, RetouchedGood
<1>6. Sound'
  <2>1. \A t \in DOMAIN client.heap : ~IsRecord(types'[t])
    BY <1>4, Heap DEF Sound, IsRecord
  <2> QED
    BY <1>3, <1>5, <2>1 DEF Sound
<1>7. Records' = Records
  <2>1. \A t \in DOMAIN types : IsRecord(types'[t]) = IsRecord(types[t])
    BY <1>4 DEF IsRecord
  <2>2. Records' = {t \in DOMAIN types' : IsRecord(types'[t]) /\ types'[t].qual = {}}
    BY DEF Records
  <2> QED
    BY <1>3, <1>4, <2>1, <2>2 DEF Records
<1>8. ASSUME NEW r \in Records
      PROVE  /\ Len(types'[r].flds) = Len(types[r].flds)
             /\ \A i \in DOMAIN types[r].flds :
                  /\ types'[r].flds[i].id = types[r].flds[i].id
                  /\ types'[r].flds[i].ty = types[r].flds[i].ty
                  /\ types'[r].flds[i].bits = types[r].flds[i].bits
  <2>1. CASE r = p
    BY <2>1 DEF Replaced
  <2>2. CASE r # p
    BY <1>2, <2>2 DEF SameButOffsets, Records
  <2> QED
    BY <2>1, <2>2
<1>9. SameShape
  BY <1>3, <1>4, <1>6, <1>7, <1>8 DEF SameShape
<1> QED
  BY <1>2, <1>9

\* A finished record that has moved is laid out from where it has moved to.
LEMMA MovedLaid ==
  ASSUME Sound, Structure, NEW r \in complete, r \in complete', NEW d \in Nat, ending.rec # r, ending'.rec # r,
         types'[r] = Moved(types[r], d), \A t \in DOMAIN types \ (Records \ complete) : SameButOffsets(t),
         NEW base \in Nat, LaidFrom(r, base)
  PROVE  LaidFrom(r, base + d)'
<1>0. r \in Records
  BY DEF Structure
<1>1. types[r] \in Objects /\ r \in DOMAIN types
  BY <1>0, RecordFields, Heap, ObjectAt
<1> DEFINE f1 == types[r].flds
           f2 == types'[r].flds
           n == Len(f1)
<1>2. /\ DOMAIN f1 = 1..n /\ n \in Nat /\ types[r].size \in Nat
      /\ \A i \in 1..n : f1[i].offset \in Nat /\ f1[i].pos \in Nat /\ f1[i].bits \in Nat
  BY <1>0, RecordFields
<1>3. /\ types'[r].categ = types[r].categ /\ types'[r].size = types[r].size
      /\ Len(f2) = n
      /\ \A i \in DOMAIN f1 :
              /\ f2[i].id = f1[i].id /\ f2[i].ty = f1[i].ty
              /\ f2[i].bits = f1[i].bits /\ f2[i].pos = f1[i].pos
              /\ f2[i].offset = f1[i].offset + d
  BY <1>1, MovedObject
<1>4. Placed(r) = n /\ Placed(r)' = n /\ Open(r) = 0 /\ Open(r)' = 0
  BY <1>3 DEF Placed, Open
<1>5. \A i \in 1..n : f1[i].ty \in DOMAIN types \ (Records \ complete)
  BY <1>0, <1>2 DEF Structure, WellFormedField
<1>6. ASSUME NEW i \in 1..n
      PROVE  /\ Align(f1[i]) \in Nat /\ Begin(f1[i]) \in Nat /\ Finish(f1[i]) \in Nat
             /\ Align(types[r].flds[i])' = Align(f1[i])
             /\ Begin(types[r].flds[i])' = Begin(f1[i]) + 8 * d
             /\ Finish(types[r].flds[i])' = Finish(f1[i]) + 8 * d
  <2>1. PICK e, g : e = f1[i] /\ g = f2[i]
    OBVIOUS
  <2>2. PICK w : w = f1[i].ty
    OBVIOUS
  <2>3. /\ w \in DOMAIN types /\ types[w].size \in Nat /\ types[w].align \in Nat
        /\ types'[w].size = types[w].size /\ types'[w].align = types[w].align
    BY <1>5, <2>2, Heap, ObjectAt DEF SameButOffsets
  <2>4. /\ e.offset \in Nat /\ e.pos \in Nat /\ e.bits \in Nat /\ e.ty = w
        /\ g.offset = e.offset + d /\ g.pos = e.pos /\ g.bits = e.bits /\ g.ty = w
    BY <1>2, <1>3, <2>1, <2>2
  <2>5. Begin(e) \in Nat /\ Finish(e) \in Nat
    BY <2>3, <2>4, PlaceNumbers
  <2>6. Begin(g)' = Begin(e) + 8 * d
    <3>1. Begin(g)' = 8 * g.offset + g.pos /\ Begin(e) = 8 * e.offset + e.pos
      BY DEF Begin
    <3> QED
      BY <2>4, <3>1
  <2>7. Finish(g)' = Finish(e) + 8 * d
    <3>1. Finish(g)' = Begin(g)' + (IF g.bits = 0 THEN 8 * types'[w].size ELSE g.bits)
      BY <2>4 DEF Finish, Begin
    <3>2. Finish(e) = Begin(e) + (IF e.bits = 0 THEN 8 * types[w].size ELSE e.bits)
      BY <2>4 DEF Finish
    <3> QED
      BY <2>3, <2>4, <2>5, <2>6, <3>1, <3>2
  <2>8. Align(g)' = Align(e) /\ Align(e) \in Nat
    BY <2>3, <2>4 DEF Align
  <2>9. Align(types[r].flds[i])' = Align(g)' /\ Begin(types[r].flds[i])' = Begin(g)'
        /\ Finish(types[r].flds[i])' = Finish(g)'
    BY <2>1 DEF Align, Begin, Finish
  <2> QED
    BY <2>1, <2>5, <2>6, <2>7, <2>8, <2>9
<1>7. /\ \A i \in 1..n :
           /\ base <= f1[i].offset
           /\ Align(f1[i]) \in Exact => (f1[i].offset - base) % Align(f1[i]) = 0
      /\ types[r].categ = T_STRUCT =>
           /\ \A i, j \in 1..n : i < j => Finish(f1[i]) <= Begin(f1[j])
           /\ \A i \in 1..n : Finish(f1[i]) <= 8 * (base + types[r].size) + 0
  BY <1>4 DEF LaidFrom
<1> HIDE DEF f1, f2, n
<1>8. \A i \in 1..n :
           /\ base + d <= f2[i].offset
           /\ Align(types[r].flds[i])' \in Exact => (f2[i].offset - (base + d)) % Align(types[r].flds[i])' = 0
  <2>1. SUFFICES ASSUME NEW i \in 1..n
                 PROVE  /\ base + d <= f2[i].offset
                        /\ Align(types[r].flds[i])' \in Exact => (f2[i].offset - (base + d)) % Align(types[r].flds[i])' = 0
    OBVIOUS
  <2>2. f2[i].offset = f1[i].offset + d /\ f1[i].offset \in Nat /\ base <= f1[i].offset
    BY <1>2, <1>3, <1>7
  <2>3. f2[i].offset - (base + d) = f1[i].offset - base
    BY <2>2
  <2> QED
    BY <1>6, <1>7, <2>2, <2>3
<1>9. types[r].categ = T_STRUCT =>
           /\ \A i, j \in 1..n : i < j => Finish(types[r].flds[i])' <= Begin(types[r].flds[j])'
           /\ \A i \in 1..n : Finish(types[r].flds[i])' <= 8 * (base + d + types'[r].size) + 0
  <2>1. SUFFICES ASSUME types[r].categ = T_STRUCT
                 PROVE  /\ \A i, j \in 1..n : i < j => Finish(types[r].flds[i])' <= Begin(types[r].flds[j])'
                        /\ \A i \in 1..n : Finish(types[r].flds[i])' <= 8 * (base + d + types'[r].size) + 0
    OBVIOUS
  <2>2. ASSUME NEW i \in 1..n, NEW j \in 1..n, i < j PROVE Finish(types[r].flds[i])' <= Begin(types[r].flds[j])'
    <3>1. Finish(f1[i]) <= Begin(f1[j])
      BY <1>7, <2>1, <2>2
    <3> QED
      BY <1>6, <3>1
  <2>3. ASSUME NEW i \in 1..n PROVE Finish(types[r].flds[i])' <= 8 * (base + d + types'[r].size) + 0
    <3>1. Finish(f1[i]) <= 8 * (base + types[r].size) + 0
      BY <1>7, <2>1
    <3>2. /\ Finish(f1[i]) \in Nat /\ types[r].size \in Nat /\ types'[r].size = types[r].size
          /\ Finish(types[r].flds[i])' = Finish(f1[i]) + 8 * d
      BY <1>2, <1>3, <1>6
    <3> QED
      BY <3>1, <3>2
  <2> QED
    BY <2>2, <2>3
<1>10. /\ \A i \in 1..Placed(r)' :
             /\ base + d <= types'[r].flds[i].offset
             /\ Align(types[r].flds[i])' \in Exact =>
                  (types'[r].flds[i].offset - (base + d)) % Align(types[r].flds[i])' = 0
       /\ types'[r].categ = T_STRUCT =>
             /\ \A i, j \in 1..Placed(r)' : i < j => Finish(types[r].flds[i])' <= Begin(types[r].flds[j])'
             /\ \A i \in 1..Placed(r)' : Finish(types[r].flds[i])' <= 8 * (base + d + types'[r].size) + Open(r)'
  BY <1>3, <1>4, <1>8, <1>9 DEF f2
<1> QED
  BY <1>10 DEF LaidFrom, Exact

\* A record that has moved is as large.
LEMMA MovedExtent ==
  ASSUME Sound, Structure, NEW r \in complete, r \in complete',
         \A t \in DOMAIN types \ (Records \ complete) : SameButOffsets(t), Extent(r)
  PROVE  Extent(r)'
<1>0. r \in Records /\ r \in DOMAIN types
  BY DEF Structure, Records
<1> DEFINE f1 == types[r].flds
           f2 == types'[r].flds
           n == Len(f1)
<1>1. DOMAIN f1 = 1..n /\ n \in Nat
  BY <1>0, RecordFields
<1>2. /\ types'[r].categ = types[r].categ /\ types'[r].size = types[r].size /\ types'[r].align = types[r].align
      /\ Len(f2) = n /\ DOMAIN f2 = DOMAIN f1
      /\ \A i \in DOMAIN f1 : f2[i].ty = f1[i].ty /\ f2[i].bits = f1[i].bits /\ f2[i].pos = f1[i].pos
  BY <1>0 DEF SameButOffsets
<1>3. Placed(r) = n /\ Placed(r)' = n
  BY <1>2 DEF Placed
<1>4. \A i \in 1..n : f1[i].ty \in DOMAIN types \ (Records \ complete)
  BY <1>0, <1>1 DEF Structure, WellFormedField
<1>5. \A i \in 1..n : Align(types[r].flds[i])' = Align(f1[i])
  BY <1>1, <1>2, <1>4 DEF Align, SameButOffsets
<1>6. /\ n = 0 => types[r].size = 0 /\ types[r].align = 0
      /\ n # 0 => \E i \in 1..n : Align(f1[i]) = types[r].align
      /\ \A i \in 1..n : Align(f1[i]) <= types[r].align
      /\ types[r].categ = T_STRUCT /\ types[r].align \in Exact => types[r].size % types[r].align = 0
      /\ \A i \in DOMAIN f1 : i > n \/ f1[i].bits = 0 => f1[i].pos = 0
  BY <1>3 DEF Extent
<1>7. /\ n = 0 => types'[r].size = 0 /\ types'[r].align = 0
      /\ n # 0 => \E i \in 1..n : Align(types[r].flds[i])' = types'[r].align
      /\ \A i \in 1..n : Align(types[r].flds[i])' <= types'[r].align
      /\ types'[r].categ = T_STRUCT /\ types'[r].align \in Exact => types'[r].size % types'[r].align = 0
      /\ \A i \in DOMAIN f2 : i > n => f2[i].offset = 0
      /\ \A i \in DOMAIN f2 : i > n \/ f2[i].bits = 0 => f2[i].pos = 0
  <2>1. \A i \in DOMAIN f2 : ~(i > n)
    BY <1>1, <1>2
  <2> HIDE DEF f1, f2, n
  <2> QED
    BY <1>2, <1>5, <1>6, <2>1
<1> QED
  BY <1>3, <1>7 DEF Extent, Exact

\* The records that a member's place leaves alone.
LEMMA UnmovedUntouched ==
  ASSUME Sound, Structure, SameShape, NEW p \in Records \ complete, complete' = complete,
         ending.rec = p, ending'.rec = p, \A t \in DOMAIN types \ {p} : SameButOffsets(t),
         NEW r \in Records, r # p, types'[r] = types[r]
  PROVE  Untouched(r)
<1>1. Placed(r)' = Placed(r) /\ Open(r)' = Open(r)
  BY DEF Placed, Open
<1>2. \A t \in DOMAIN types \ (Records \ complete) :
        types'[t].align = types[t].align /\ types'[t].size = types[t].size
  BY DEF SameButOffsets
<1> QED
  BY <1>1, <1>2 DEF Untouched

\* A place at a multiple of the member's alignment, with what is placed already
\* before it and the new size or open unit behind it.
PlaceFits(p, f, offset, pos, size, bits) ==
  /\ Align(f) \in Exact => offset % Align(f) = 0
  /\ 8 * types[p].size + ending.bits <= 8 * offset + pos
  /\ 8 * offset + pos + (IF f.bits = 0 THEN 8 * types[f.ty].size ELSE f.bits) <= 8 * size + bits
  /\ f.bits = 0 => pos = 0
  /\ bits # 0 => f.bits # 0 /\ size % IntSize = 0
  /\ Anonymous(f) /\ ending.bits = 0 => offset = AlignUp(types[p].size, types[f.ty].align)

\* A member placed behind the others, at a multiple of its alignment, keeps the invariant.
LEMMA PlaceKeeps ==
  ASSUME IInv, Placing(T_STRUCT), NEW offset \in Nat, NEW pos \in Nat, NEW size \in Nat, NEW bits \in 0..IntBits,
         Place(offset, pos, size, bits), NEW p, p = ending.rec, NEW k, k = ending.at,
         NEW f, f = types[p].flds[k],
         PlaceFits(p, f, offset, pos, size, bits)
  PROVE  IInv'
<1> DEFINE flds == types[p].flds
           root == f.ty
           s == types[p].size
           a == types[p].align
           first == AlignUp(s, types[root].align)
<1>1. Sound /\ Structure /\ EndingOK /\ Extents /\ Own /\ Held /\ Ending
  BY DEF IInv, Placing
<1>2. /\ p \in Records \ complete /\ p \in DOMAIN types /\ p # Null
      /\ k \in Nat /\ ending.bits \in 0..32 /\ k \in 1..Len(flds) + 1
      /\ ending = [rec |-> p, at |-> k, bits |-> ending.bits]
      /\ Placed(p) = k - 1 /\ Open(p) = ending.bits
      /\ Rec = types[p] /\ DOMAIN flds = 1..Len(flds) /\ Len(flds) \in Nat
      /\ s \in Nat /\ a \in Aligns
      /\ ending.bits # 0 => k > 1 /\ flds[k - 1].bits # 0
      /\ LaidFrom(p, 0) /\ Extent(p) /\ ~InPlace(p)
  BY <1>1, BeingLaidOut
<1>3. k \in DOMAIN flds /\ k \in 1..Len(flds) /\ f = flds[k] /\ Fld = f /\ FldType = types[root]
  <2>1. k <= Len(flds)
    BY <1>2 DEF Placing
  <2>2. k \in 1..Len(flds)
    <3> HIDE DEF flds
    <3> QED
      BY <1>2, <2>1
  <2> QED
    BY <1>2, <2>2 DEF Fld, FldType
<1>n. k \in Nat /\ k >= 1
  <2>1. k \in Nat /\ k \in 1..Len(flds)
    BY <1>2, <1>3
  <2> HIDE DEF flds
  <2> QED
    BY <2>1
<1>4. \A i \in DOMAIN flds : /\ flds[i].ty \in DOMAIN types /\ flds[i].ty # p /\ WellFormedField(flds[i])
                             /\ Align(flds[i]) # 0 /\ Align(flds[i]) \in Aligns
                             /\ types[flds[i].ty].size \in Nat
                             /\ flds[i].offset \in Nat /\ flds[i].pos \in Nat /\ flds[i].bits \in Nat
                             /\ flds[i].ty \in DOMAIN types \ (Records \ complete)
  <2>1. SUFFICES ASSUME NEW i \in DOMAIN flds
                 PROVE  /\ flds[i].ty \in DOMAIN types /\ flds[i].ty # p /\ WellFormedField(flds[i])
                        /\ Align(flds[i]) # 0 /\ Align(flds[i]) \in Aligns
                        /\ types[flds[i].ty].size \in Nat
                        /\ flds[i].offset \in Nat /\ flds[i].pos \in Nat /\ flds[i].bits \in Nat
                        /\ flds[i].ty \in DOMAIN types \ (Records \ complete)
    OBVIOUS
  <2>2. /\ flds[i].ty \in DOMAIN types /\ flds[i].ty # p /\ WellFormedField(flds[i])
        /\ types[flds[i].ty].align # 0 /\ types[flds[i].ty].align \in Aligns
        /\ types[flds[i].ty].size \in Nat
        /\ flds[i].offset \in Nat /\ flds[i].pos \in Nat /\ flds[i].bits \in Nat
    BY <1>1, BeingLaidOut
  <2> QED
    BY <2>2 DEF Align, WellFormedField
<1>5. first \in Nat
  BY <1>2, <1>3, <1>4, RoundsUp DEF Align
<1>6. Replaced(p, k, offset, pos, size, first) /\ types'[p].align = Widest
  BY <1>3, PlaceReplaces
<1>7. /\ ending' = [rec |-> p, at |-> k + 1, bits |-> bits] /\ complete' = complete /\ client' = client
  BY <1>2 DEF Place
<1> DEFINE a2 == types'[p].align
           b == types[root].align
<1>8. a2 \in Aligns /\ a2 # 0 /\ a2 \in Nat /\ a \in Nat /\ b \in Nat /\ b # 0 /\ a <= a2 /\ b <= a2
      /\ (a2 = a \/ a2 = b)
  <2>1. b \in Aligns /\ b # 0
    BY <1>3, <1>4 DEF Align
  <2>2. a2 = IF b > a THEN b ELSE a
    BY <1>2, <1>3, <1>6 DEF Widest
  <2>3. a \in Aligns
    BY <1>2, Zenon
  <2> HIDE DEF a, b, a2
  <2> QED
    BY <2>1, <2>2, <2>3 DEF Aligns
<1>9. SameShape /\ \A t \in DOMAIN types \ {p} : SameButOffsets(t)
  BY <1>1, <1>2, <1>3, <1>6, <1>8, ReplacedShape, Zenon
<1>10. Records' = Records /\ Sound'
  <2>1. SameShape
    BY <1>9, Zenon
  <2> QED
    BY <2>1 DEF SameShape
<1>11. /\ DOMAIN types' = DOMAIN types
       /\ types'[p].categ = types[p].categ /\ types'[p].size = size
       /\ Len(types'[p].flds) = Len(flds) /\ DOMAIN types'[p].flds = DOMAIN flds
       /\ \A i \in DOMAIN flds : i # k => types'[p].flds[i] = flds[i]
       /\ types'[p].flds[k].id = f.id /\ types'[p].flds[k].ty = root
       /\ types'[p].flds[k].bits = f.bits
       /\ types'[p].flds[k].offset = offset /\ types'[p].flds[k].pos = pos
  BY <1>3, <1>6 DEF Replaced
<1>m. /\ Anonymous(f) => types'[root] = Moved(types[root], first)
      /\ \A t \in DOMAIN types \ {p} :
           \/ types'[t] = types[t]
           \/ /\ t \in complete /\ InPlace(t)
              /\ \E d \in Nat : types'[t] = Moved(types[t], d)
              /\ \/ t = root /\ Anonymous(f)
                 \/ \E g \in Holders(t) : InPlace(g[1])
  <2> DEFINE Elsewhere(t) == /\ t \in complete /\ InPlace(t)
                             /\ \E d \in Nat : types'[t] = Moved(types[t], d)
             e == types[p].flds[k]
  <2>2. /\ Anonymous(e) => types'[e.ty] = Moved(types[e.ty], first)
        /\ \A t \in DOMAIN types \ {p} :
             \/ types'[t] = types[t]
             \/ /\ Elsewhere(t)
                /\ \/ t = e.ty /\ Anonymous(e)
                   \/ \E g \in Holders(t) : InPlace(g[1])
    <3> HIDE DEF first
    <3> QED
      BY <1>6, Zenon DEF Replaced
  <2>3. e = f
    OBVIOUS
  <2> HIDE DEF first, e, Elsewhere
  <2> QED
    BY <2>2, <2>3 DEF Elsewhere
<1>12. ASSUME NEW r \in Records, r # p, types'[r] = types[r] PROVE Untouched(r)
  BY <1>1, <1>2, <1>7, <1>9, <1>12, UnmovedUntouched
<1>13. ASSUME NEW r \in Records, r # p, types'[r] # types[r]
       PROVE  /\ r \in complete /\ InPlace(r) /\ \E d \in Nat : types'[r] = Moved(types[r], d)
              /\ \/ r = root /\ Anonymous(f)
                 \/ \E g \in Holders(r) : InPlace(g[1])
  <2>1. r \in DOMAIN types \ {p}
    BY <1>13 DEF Records
  <2> QED
    BY <1>m, <1>13, <2>1
<1>14. \A t \in DOMAIN types \ (Records \ complete) : SameButOffsets(t)
  BY <1>2, <1>9
<1>15. \A i \in DOMAIN flds :
         /\ Align(types[p].flds[i])' = Align(flds[i])
         /\ i # k => /\ Begin(types[p].flds[i])' = Begin(flds[i])
                     /\ Finish(types[p].flds[i])' = Finish(flds[i])
  <2>1. SUFFICES ASSUME NEW i \in DOMAIN flds
                 PROVE  /\ Align(types[p].flds[i])' = Align(flds[i])
                        /\ i # k => /\ Begin(types[p].flds[i])' = Begin(flds[i])
                                    /\ Finish(types[p].flds[i])' = Finish(flds[i])
    OBVIOUS
  <2>2. PICK w : w = flds[i].ty
    OBVIOUS
  <2>3. types'[w].align = types[w].align /\ types'[w].size = types[w].size
    BY <1>4, <1>14, <2>2 DEF SameButOffsets
  <2>4. types'[p].flds[i].ty = w
    BY <1>3, <1>11, <2>2
  <2>5. Align(types[p].flds[i])' = Align(flds[i])
    BY <2>2, <2>3, <2>4 DEF Align
  <2>6. CASE i # k
    <3>1. types'[p].flds[i] = flds[i]
      BY <1>11, <2>6
    <3> QED
      BY <2>2, <2>3, <2>5, <3>1 DEF Begin, Finish
  <2> QED
    BY <2>5, <2>6
<1>16. Placed(p)' = k /\ Open(p)' = bits /\ k - 1 + 1 = k
  BY <1>2, <1>7, <1>11 DEF Placed, Open
<1>17. Extent(p)'
  <2> DEFINE f2 == types'[p].flds
             n == Len(flds)
  <2>1. /\ k - 1 # 0 => \E i \in 1..k - 1 : Align(flds[i]) = a
        /\ k - 1 = 0 => a = 0
        /\ \A i \in 1..k - 1 : Align(flds[i]) <= a
        /\ \A i \in DOMAIN flds : i > k - 1 => flds[i].offset = 0
        /\ \A i \in DOMAIN flds : i > k - 1 \/ flds[i].bits = 0 => flds[i].pos = 0
    BY <1>2 DEF Extent
  <2>2. Align(flds[k]) = b
    BY <1>3 DEF Align
  <2>3. \A i \in 1..k : i \in DOMAIN flds /\ (i = k \/ i \in 1..k - 1)
    <3> HIDE DEF flds
    <3> QED
      BY <1>2, <1>3
  <2>4. \E i \in 1..k : Align(types[p].flds[i])' = a2
    <3>1. CASE a2 = b
      <4>1. Align(types[p].flds[k])' = a2
        <5> HIDE DEF a2, b
        <5> QED
          BY <1>3, <1>15, <2>2, <3>1
      <4>2. k \in 1..k
        BY <1>n, <1>3
      <4> HIDE DEF a2
      <4> QED
        BY <4>1, <4>2
    <3>2. CASE a2 # b
      <4>1. a2 = a /\ k - 1 # 0
        BY <1>8, <2>1, <3>2, Zenon
      <4>2. PICK i \in 1..k - 1 : Align(flds[i]) = a
        BY <2>1, <4>1
      <4>3. i \in 1..k
        BY <1>2
      <4> QED
        BY <1>15, <2>3, <4>1, <4>2, <4>3, Zenon
    <3> QED
      BY <3>1, <3>2
  <2>5. \A i \in 1..k : Align(types[p].flds[i])' <= a2
    <3>1. SUFFICES ASSUME NEW i \in 1..k PROVE Align(types[p].flds[i])' <= a2
      OBVIOUS
    <3>2. Align(types[p].flds[i])' = Align(flds[i]) /\ Align(flds[i]) \in Aligns
      BY <1>4, <1>15, <2>3
    <3>3. PICK x : x = Align(flds[i])
      OBVIOUS
    <3>4. x \in Nat
      BY <3>2, <3>3 DEF Aligns
    <3>5. x <= a \/ x = b
      BY <2>1, <2>2, <2>3, <3>3
    <3> HIDE DEF a, b, a2
    <3> QED
      BY <1>8, <3>2, <3>3, <3>4, <3>5
  <2>6. /\ \A i \in DOMAIN f2 : i > k => f2[i].offset = 0
        /\ \A i \in DOMAIN f2 : i > k \/ f2[i].bits = 0 => f2[i].pos = 0
    <3>1. SUFFICES ASSUME NEW i \in DOMAIN flds
                   PROVE  /\ i > k => f2[i].offset = 0
                          /\ i > k \/ f2[i].bits = 0 => f2[i].pos = 0
      BY <1>11
    <3>2. CASE i = k
      <4>1. ~(k > k)
        BY <1>n
      <4>2. f.bits = 0 => pos = 0
        BY DEF PlaceFits
      <4> QED
        BY <1>11, <3>2, <4>1, <4>2
    <3>3. CASE i # k
      <4>1. f2[i] = flds[i]
        BY <1>11, <3>3
      <4>2. i > k => i > k - 1
        BY <1>2
      <4> QED
        BY <2>1, <4>1, <4>2
    <3> QED
      BY <3>2, <3>3
  <2>7. k # 0 /\ p \notin complete'
    BY <1>2, <1>3, <1>7
  <2> QED
    BY <1>16, <2>4, <2>5, <2>6, <2>7 DEF Extent, Exact
<1>18. LaidFrom(p, 0)'
  <2> DEFINE u == ending.bits
             width == IF f.bits = 0 THEN 8 * types[root].size ELSE f.bits
             begin == 8 * offset + pos
  <2>1. /\ \A i \in 1..k - 1 :
             /\ 0 <= flds[i].offset
             /\ Align(flds[i]) \in Exact => (flds[i].offset - 0) % Align(flds[i]) = 0
        /\ \A i, j \in 1..k - 1 : i < j => Finish(flds[i]) <= Begin(flds[j])
        /\ \A i \in 1..k - 1 : Finish(flds[i]) <= 8 * (0 + s) + u
    BY <1>2 DEF LaidFrom, Placing
  <2>2. \A i \in 1..k : i \in DOMAIN flds /\ (i # k => i \in 1..k - 1)
    <3> HIDE DEF flds
    <3> QED
      BY <1>2, <1>3
  <2>3. ASSUME NEW i \in 1..k
        PROVE  /\ 0 <= types'[p].flds[i].offset
               /\ Align(types[p].flds[i])' \in Exact =>
                    (types'[p].flds[i].offset - 0) % Align(types[p].flds[i])' = 0
    <3>1. CASE i = k
      <4>1. types'[p].flds[i].offset = offset
        BY <1>11, <3>1
      <4>2. Align(types[p].flds[i])' = Align(f)
        BY <1>3, <1>15, <3>1
      <4>3. offset - 0 = offset /\ 0 <= offset
        OBVIOUS
      <4>4. Align(f) \in Exact => offset % Align(f) = 0
        BY DEF PlaceFits
      <4> QED
        BY <4>1, <4>2, <4>3, <4>4
    <3>2. CASE i # k
      <4>1. i \in DOMAIN flds /\ i \in 1..k - 1
        BY <2>2, <3>2
      <4>2. types'[p].flds[i] = flds[i]
        BY <1>11, <3>2, <4>1
      <4>3. Align(types[p].flds[i])' = Align(flds[i])
        BY <1>15, <4>1
      <4>4. 0 <= flds[i].offset /\ (Align(flds[i]) \in Exact => (flds[i].offset - 0) % Align(flds[i]) = 0)
        BY <2>1, <4>1
      <4> QED
        BY <4>2, <4>3, <4>4
    <3> QED
      BY <3>1, <3>2
  <2>4. Begin(types[p].flds[k])' = begin /\ Finish(types[p].flds[k])' = begin + width
    <3>1. Begin(types[p].flds[k])' = begin
      BY <1>11 DEF Begin
    <3>2. types'[root].size = types[root].size
      BY <1>3, <1>4, <1>14 DEF SameButOffsets
    <3>3. Finish(types[p].flds[k])' = Begin(types[p].flds[k])' + width
      BY <1>11, <3>2 DEF Finish, Begin
    <3> QED
      BY <3>1, <3>3
  <2>5. \A i \in 1..k - 1 : Finish(flds[i]) \in Nat /\ Finish(flds[i]) <= 8 * s + u
    <3>1. SUFFICES ASSUME NEW i \in 1..k - 1 PROVE Finish(flds[i]) \in Nat /\ Finish(flds[i]) <= 8 * s + u
      OBVIOUS
    <3>2. i \in 1..k
      BY <1>2
    <3>3. PICK e : e = flds[i]
      OBVIOUS
    <3>4. e.offset \in Nat /\ e.pos \in Nat /\ e.bits \in Nat /\ types[e.ty].size \in Nat
      BY <1>4, <2>2, <3>2, <3>3
    <3>5. Finish(e) \in Nat
      BY <3>4, PlaceNumbers
    <3>6. Finish(e) <= 8 * (0 + s) + u
      BY <2>1, <3>3
    <3> HIDE DEF s, u
    <3>7. s \in Nat
      BY <1>2 DEF s
    <3> QED
      BY <3>3, <3>5, <3>6, <3>7
  <2>6. s \in Nat /\ u \in Nat /\ width \in Nat /\ bits \in Nat /\ begin \in Nat
        /\ 8 * s + u <= begin /\ begin + width <= 8 * size + bits
    <3>1. f.bits \in Nat /\ types[root].size \in Nat /\ s \in Nat /\ u \in 0..32
      BY <1>2, <1>3, <1>4
    <3>2. 8 * s + u <= begin /\ begin + width <= 8 * size + bits
      BY DEF PlaceFits
    <3>3. begin \in Nat /\ bits \in Nat
      BY DEF IntBits, IntSize
    <3>4. width \in Nat
      BY <3>1
    <3> HIDE DEF s, u, begin, width
    <3> QED
      BY <3>1, <3>2, <3>3, <3>4
  <2> HIDE DEF begin, width, s
  <2>7. ASSUME NEW i \in 1..k, NEW j \in 1..k, i < j
        PROVE  Finish(types[p].flds[i])' <= Begin(types[p].flds[j])'
    <3>1. i # k /\ i \in 1..k - 1
      BY <1>n, <2>7
    <3>2. Finish(types[p].flds[i])' = Finish(flds[i])
      BY <1>15, <2>2, <3>1
    <3>3. CASE j = k
      BY <2>4, <2>5, <2>6, <3>1, <3>2, <3>3
    <3>4. CASE j # k
      BY <1>15, <2>1, <2>2, <2>7, <3>1, <3>2, <3>4
    <3> QED
      BY <3>3, <3>4
  <2>8. ASSUME NEW i \in 1..k PROVE Finish(types[p].flds[i])' <= 8 * (0 + types'[p].size) + bits
    <3>1. types'[p].size = size
      BY <1>11
    <3>2. CASE i = k
      BY <2>4, <2>6, <3>1, <3>2
    <3>3. CASE i # k
      <4>1. Finish(types[p].flds[i])' = Finish(flds[i])
        BY <1>15, <2>2, <3>3
      <4>2. Finish(flds[i]) \in Nat /\ Finish(flds[i]) <= 8 * s + u
        BY <2>2, <2>5, <3>3
      <4> HIDE DEF u
      <4> QED
        BY <2>6, <3>1, <4>1, <4>2
    <3> QED
      BY <3>2, <3>3
  <2>9. /\ \A i \in 1..Placed(p)' :
             /\ 0 <= types'[p].flds[i].offset
             /\ Align(types[p].flds[i])' \in Exact =>
                  (types'[p].flds[i].offset - 0) % Align(types[p].flds[i])' = 0
        /\ types'[p].categ = T_STRUCT =>
             /\ \A i, j \in 1..Placed(p)' : i < j => Finish(types[p].flds[i])' <= Begin(types[p].flds[j])'
             /\ \A i \in 1..Placed(p)' : Finish(types[p].flds[i])' <= 8 * (0 + types'[p].size) + Open(p)'
    BY <1>16, <2>3, <2>7, <2>8
  <2> QED
    BY <2>9 DEF LaidFrom, Exact
<1>19. EndingOK'
  <2>1. ending'.rec = p /\ ending'.at = k + 1 /\ ending'.bits = bits
    BY <1>7
  <2>2. Rec' = types'[p]
    BY <2>1 DEF Rec
  <2>3. ending' \in [rec : Records' \ complete', at : Nat, bits : 0..IntBits]
    BY <1>2, <1>7, <1>10
  <2>4. ending'.at \in 1..Len(Rec'.flds) + 1 /\ ending'.at > 1 /\ ending'.at - 1 = k
    <3>1. k + 1 \in 1..Len(flds) + 1 /\ k + 1 > 1 /\ k + 1 - 1 = k
      <4> HIDE DEF flds
      <4> QED
        BY <1>2, <1>3
    <3> QED
      <4>1. Len(Rec'.flds) = Len(flds)
        BY <1>11, <2>2
      <4>2. PICK n : n = Len(flds)
        OBVIOUS
      <4>3. k + 1 \in 1..n + 1 /\ k + 1 > 1 /\ k + 1 - 1 = k
        BY <3>1, <4>2
      <4>4. Len(Rec'.flds) = n
        BY <4>1, <4>2
      <4>5. ending'.at \in 1..Len(Rec'.flds) + 1
        BY <2>1, <4>3, <4>4, Zenon
      <4>6. ending'.at > 1 /\ ending'.at - 1 = k
        <5>1. PICK m : m = k + 1
          OBVIOUS
        <5>2. m > 1 /\ m - 1 = k
          BY <1>n, <1>3, <5>1
        <5>3. ending'.at = m
          BY <2>1, <5>1
        <5> QED
          BY <5>2, <5>3, Zenon
      <4> QED
        BY <4>5, <4>6
  <2>5. types'[p].categ = T_STRUCT
    BY <1>2, <1>11 DEF Placing
  <2>6. bits # 0 => Rec'.flds[k].bits # 0 /\ Rec'.size % IntSize = 0
    BY <1>11, <2>2 DEF PlaceFits
  <2> QED
    BY <2>1, <2>2, <2>3, <2>4, <2>5, <2>6 DEF EndingOK
<1>20. Structure'
  <2>1. \A t \in DOMAIN types' \ Records : types'[t].flds = << >>
    <3>1. SUFFICES ASSUME NEW t \in DOMAIN types \ Records PROVE types'[t].flds = << >>
      BY <1>11
    <3>2. types[t].flds = << >> /\ t # p /\ t \notin complete
      BY <1>1, <1>2 DEF Structure
    <3> QED
      BY <1>11, <1>m, <3>2
  <2>2. complete \subseteq Records /\ complete \subseteq DOMAIN types
    BY <1>1 DEF Structure, Records
  <2>3. \A t \in DOMAIN types \ Records : types'[t].align = types[t].align
    BY <1>14 DEF SameButOffsets
  <2>4. \A t \in complete : types'[t].align = types[t].align
    BY <1>14, <2>2 DEF SameButOffsets
  <2> QED
    BY <1>1, <1>7, <1>9, <2>1, <2>2, <2>3, <2>4, StructureKept
<1>21. Extents'
  <2>1. ASSUME NEW r \in Records PROVE Extent(r)'
    <3>1. CASE r = p
      BY <1>17, <3>1
    <3>2. CASE r # p /\ types'[r] = types[r]
      BY <1>1, <1>12, <3>2, UntouchedExtent DEF Extents
    <3>3. CASE r # p /\ types'[r] # types[r]
      <4>1. r \in complete /\ r \in complete'
        BY <1>7, <1>13, <3>3
      <4>2. Extent(r)
        BY <1>1 DEF Extents
      <4> QED
        BY <1>1, <1>14, <4>1, <4>2, MovedExtent
    <3> QED
      BY <3>1, <3>2, <3>3
  <2> QED
    BY <1>10, <2>1 DEF Extents
<1>22. Own'
  <2>1. ASSUME NEW r \in Records, ~InPlace(r)' PROVE LaidFrom(r, 0)'
    <3>1. CASE r = p
      BY <1>18, <3>1
    <3>2. CASE r # p
      <4>1. ~InPlace(r)
        BY <1>1, <1>9, <2>1, ShapeKept
      <4>2. types'[r] = types[r]
        BY <1>13, <3>2, <4>1
      <4> QED
        BY <1>1, <1>12, <3>2, <4>1, <4>2, UntouchedLaid DEF Own
    <3> QED
      BY <3>1, <3>2
  <2> QED
    BY <1>10, <2>1 DEF Own
<1>23. Held'
  <2>1. ASSUME NEW r \in Records, NEW h \in Holders(r)', Simply(r, h)'
        PROVE  LaidFrom(r, types[h[1]].flds[h[2]].offset)'
    <3>1. h \in Holders(r)
      BY <1>1, <1>9, ShapeKept
    <3>2. Simply(r, h)
      BY <1>1, <1>9, <2>1, <3>1, SimplyKept
    <3>3. LaidFrom(r, types[h[1]].flds[h[2]].offset)
      BY <1>1, <3>1, <3>2 DEF Held
    <3>4. h = <<h[1], h[2]>> /\ h[1] \in Records /\ h[2] \in DOMAIN types[h[1]].flds
          /\ types[h[1]].flds[h[2]].ty = r
      BY <1>1, <3>1, HolderIs
    <3>5. Anonymous(types[h[1]].flds[h[2]]) /\ ~InPlace(h[1]) /\ Nameless(r) = {}
          /\ (h[2] > 1 => types[h[1]].flds[h[2] - 1].bits = 0)
      BY <3>2 DEF Simply
    <3>6. InPlace(r) /\ r # p
      BY <1>2, <3>1, <3>5 DEF InPlace
    <3>7. \A g \in Holders(r) : g = h
      BY <1>1, <3>1, <3>6 DEF Structure
    <3>8. CASE h[1] = p /\ h[2] = k
      <4>1. r = root /\ Anonymous(f) /\ r \in complete
        <5>1. r = root /\ Anonymous(f)
          BY <1>3, <3>4, <3>5, <3>8
        <5> QED
          BY <1>1, <3>6, <5>1, InPlaceComplete
      <4>2. ending.bits = 0
        BY <1>2, <3>5, <3>8
      <4>3. types'[r] = Moved(types[r], first) /\ offset = first
        BY <1>m, <4>1, <4>2 DEF PlaceFits
      <4>4. types[h[1]].flds[h[2]].offset = 0
        <5>1. \A i \in DOMAIN flds : i > k - 1 => flds[i].offset = 0
          BY <1>2 DEF Extent
        <5>2. k > k - 1
          BY <1>2
        <5> QED
          BY <1>3, <3>8, <5>1, <5>2
      <4>5. LaidFrom(r, 0)
        BY <3>3, <4>4
      <4>6. ending.rec # r /\ ending'.rec # r /\ r \in complete'
        BY <1>7, <3>6, <4>1
      <4>7. LaidFrom(r, 0 + offset)'
        <5> HIDE DEF first
        <5>1. types'[r] = Moved(types[r], offset)
          BY <4>3
        <5> QED
          BY <1>1, <1>14, <4>1, <4>5, <4>6, <5>1, MovedLaid
      <4>8. types'[h[1]].flds[h[2]].offset = offset
        BY <1>11, <3>8
      <4>9. 0 + offset = offset
        OBVIOUS
      <4> SUFFICES ASSUME NEW c, c = 0 + offset, c = types'[h[1]].flds[h[2]].offset PROVE LaidFrom(r, c)'
        BY <4>8, <4>9 DEF LaidFrom
      <4> QED
        BY <4>7
    <3>9. CASE ~(h[1] = p /\ h[2] = k)
      <4>1. types'[r] = types[r]
        <5>1. SUFFICES ASSUME types'[r] # types[r] PROVE FALSE
          OBVIOUS
        <5>2. \/ r = root /\ Anonymous(f)
              \/ \E g \in Holders(r) : InPlace(g[1])
          BY <1>13, <3>6, <5>1
        <5>3. CASE r = root /\ Anonymous(f)
          <6>1. root \in Nameless(p)
            BY <1>3, <5>3 DEF Nameless
          <6>2. <<p, k>> \in Holders(root)
            <7>1. k \in 1..client.fields
              <8>1. Len(flds) <= client.fields /\ client.fields \in Nat
                BY <1>1, <1>2, Heap DEF Structure
              <8> HIDE DEF flds
              <8> QED
                BY <1>2, <1>3, <8>1
            <7> QED
              BY <1>2, <1>3, <7>1 DEF Holders
          <6>3. <<p, k>> = h
            BY <3>7, <5>3, <6>2
          <6> QED
            BY <3>9, <6>3
        <5>4. CASE \E g \in Holders(r) : InPlace(g[1])
          BY <3>5, <3>7, <5>4
        <5> QED
          BY <5>2, <5>3, <5>4
      <4>2. types'[h[1]].flds[h[2]] = types[h[1]].flds[h[2]]
        <5>1. CASE h[1] = p
          BY <1>11, <3>4, <3>9, <5>1
        <5>2. CASE h[1] # p
          BY <1>13, <3>4, <3>5, <5>2
        <5> QED
          BY <5>1, <5>2
      <4>3. Untouched(r)
        BY <1>12, <3>6, <4>1
      <4> SUFFICES ASSUME NEW c, c = types[h[1]].flds[h[2]].offset, c = types'[h[1]].flds[h[2]].offset
                   PROVE  LaidFrom(r, c)'
        BY <4>2 DEF LaidFrom
      <4> QED
        BY <1>1, <3>3, <4>3, UntouchedLaid
    <3> QED
      BY <3>8, <3>9
  <2> QED
    BY <1>10, <2>1 DEF Held
<1> QED
  BY <1>10, <1>19, <1>20, <1>21, <1>22, <1>23 DEF IInv

\* What the three kinds of members have in common.
LEMMA PlacingNumbers ==
  ASSUME IInv, Placing(T_STRUCT), NEW p, p = ending.rec, NEW k, k = ending.at,
         NEW f, f = types[p].flds[k]
  PROVE  /\ Rec = types[p] /\ Fld = f /\ FldType = types[f.ty]
         /\ types[p].size \in Nat /\ types[p].size = Rec.size
         /\ ending.bits \in 0..32 /\ (ending.bits # 0 => types[p].size % 4 = 0)
         /\ Align(f) = FldType.align /\ Align(f) \in Aligns /\ Align(f) # 0 /\ Align(f) \in Nat
         /\ types[f.ty].size \in Nat /\ f.bits \in 0..32
         /\ (f.bits # 0 => Align(f) = 4 /\ ~Anonymous(f))
<1> DEFINE flds == types[p].flds
<1>1. /\ p \in Records \ complete /\ k \in 1..Len(flds) + 1 /\ Rec = types[p]
      /\ DOMAIN flds = 1..Len(flds) /\ Len(flds) \in Nat
      /\ types[p].size \in Nat /\ ending.bits \in 0..32 /\ (ending.bits # 0 => types[p].size % 4 = 0)
  BY BeingLaidOut DEF Placing
<1>2. k \in DOMAIN flds /\ Fld = f /\ FldType = types[f.ty]
  <2>1. k <= Len(flds)
    BY <1>1 DEF Placing
  <2>2. k \in 1..Len(flds)
    <3> HIDE DEF flds
    <3> QED
      BY <1>1, <2>1
  <2> QED
    BY <1>1, <2>2 DEF Fld, FldType
<1>3. /\ WellFormedField(f) /\ f.ty \in DOMAIN types
      /\ types[f.ty].align \in Aligns /\ types[f.ty].align # 0 /\ types[f.ty].size \in Nat
  BY <1>2, BeingLaidOut DEF Placing
<1>4. Align(f) = FldType.align /\ Align(f) \in Aligns /\ Align(f) # 0
  BY <1>2, <1>3 DEF Align
<1>5. Align(f) \in Nat
  BY <1>4 DEF Aligns
<1>6. f.bits \in 0..32
  BY <1>3 DEF WellFormedField, IntBits, IntSize
<1>7. f.bits # 0 => Align(f) = 4
  <2>1. SUFFICES ASSUME f.bits # 0 PROVE Align(f) = 4
    OBVIOUS
  <2>2. types[f.ty].categ = 4
    BY <1>3, <2>1 DEF WellFormedField, T_INT
  <2>3. WellBuilt(types, f.ty)
    BY <1>3 DEF IInv, Sound, GoodHeap
  <2>4. 4 \in 0..T_LONGDOUBLE \ {T_ENUM}
    BY DEF T_LONGDOUBLE, T_ENUM
  <2>5. types[f.ty].size = Builtins[type(4)].size /\ types[f.ty].align = types[f.ty].size
    BY <2>2, <2>3, <2>4, Zenon DEF WellBuilt
  <2>6. Builtins[type(4)].size = 4
    <3>1. type(4) = 5
      BY DEF type
    <3>2. << 1, 1, 2, 2, 4, 4, 4, 4, 8, 8, 0, 4, 8, 12, 4, 0 >>[5] = 4
      OBVIOUS
    <3>3. Builtins[5] = Sized(5 - 1, 4, Null)
      BY <3>2 DEF Builtins
    <3>4. Sized(5 - 1, 4, Null).size = 4
      BY DEF Sized, NewType
    <3> QED
      BY <3>1, <3>3, <3>4
  <2> QED
    BY <2>5, <2>6 DEF Align
<1>8. f.bits # 0 => ~Anonymous(f)
  BY <1>3, NamelessField
<1> QED
  BY <1>1, <1>2, <1>3, <1>4, <1>5, <1>6, <1>7, <1>8, Zenon

\* A member that is no bit-field is placed so.
LEMMA OrdinaryPlaces ==
  ASSUME IInv, PlaceOrdinary
  PROVE  IInv'
<1>0. PICK p, k, f, s, b, u, w : /\ p = ending.rec /\ k = ending.at /\ f = types[p].flds[k]
                                 /\ s = types[p].size /\ b = Align(f) /\ u = ending.bits
                                 /\ w = types[f.ty].size
  OBVIOUS
<1>1. Placing(T_STRUCT) /\ Fld.bits = 0
  BY DEF PlaceOrdinary
<1>2. /\ Fld = f /\ FldType = types[f.ty] /\ Rec.size = s /\ s \in Nat /\ u \in 0..32
      /\ b = FldType.align /\ b \in Aligns /\ b # 0 /\ w \in Nat /\ FldType.size = w
  BY <1>0, <1>1, PlacingNumbers
<1>3. PICK first : first = AlignUp(s, b)
  OBVIOUS
<1>4. PICK offset : offset = IF u = 0 THEN first ELSE AlignUp(first + 4, b)
  OBVIOUS
<1>5. Place(offset, 0, offset + w, 0)
  BY <1>0, <1>2, <1>3, <1>4, Zenon DEF PlaceOrdinary, IntSize
<1>6. first \in Nat /\ s <= first /\ (b \in Exact => first % b = 0)
  BY <1>2, <1>3, RoundsUp, RoundsToMultiple DEF Exact
<1>7. first + 4 \in Nat
  BY <1>6
<1>8. u # 0 => offset \in Nat /\ first + 4 <= offset /\ (b \in Exact => offset % b = 0)
  BY <1>2, <1>4, <1>7, RoundsUp, RoundsToMultiple DEF Exact
<1>9. offset \in Nat /\ (b \in Exact => offset % b = 0) /\ 8 * s + u <= 8 * offset + 0
  BY <1>2, <1>4, <1>6, <1>8
<1>10. offset + w \in Nat /\ 8 * offset + 0 + 8 * w <= 8 * (offset + w) + 0
  BY <1>2, <1>9
<1>11. 0 \in 0..IntBits /\ 0 \in Nat
  BY DEF IntBits, IntSize
<1>12. f.bits = 0
  BY <1>1, <1>2, Zenon
<1>13. /\ Align(f) \in Exact => offset % Align(f) = 0
       /\ 8 * types[p].size + ending.bits <= 8 * offset + 0
  BY <1>0, <1>9, Zenon
<1>n. 8 * offset + 0 + 8 * types[f.ty].size <= 8 * (offset + w) + 0
  BY <1>0, <1>10, Zenon
<1>14. ending.bits = 0 => offset = AlignUp(types[p].size, types[f.ty].align)
  BY <1>0, <1>2, <1>3, <1>4, Zenon
<1>15. PICK size : size = offset + w
  OBVIOUS
<1>16. PICK zero : zero = 0
  OBVIOUS
<1>17. PlaceFits(p, f, offset, zero, size, zero)
  BY <1>12, <1>13, <1>n, <1>14, <1>15, <1>16 DEF PlaceFits
<1>18. /\ size \in Nat /\ zero \in Nat /\ zero \in 0..IntBits /\ offset \in Nat
       /\ Place(offset, zero, size, zero)
  BY <1>5, <1>9, <1>10, <1>11, <1>15, <1>16
<1> QED
  BY <1>0, <1>1, <1>17, <1>18, PlaceKeeps

\* A bit-field in the open unit is placed so.
LEMMA BitsPlace ==
  ASSUME IInv, PlaceBits
  PROVE  IInv'
<1>0. PICK p, k, f, s, u, w : /\ p = ending.rec /\ k = ending.at /\ f = types[p].flds[k]
                              /\ s = types[p].size /\ u = ending.bits /\ w = f.bits
  OBVIOUS
<1>1. Placing(T_STRUCT) /\ Fld.bits # 0 /\ ending.bits + Fld.bits <= IntBits
  BY DEF PlaceBits
<1>2. /\ Fld = f /\ FldType = types[f.ty] /\ Rec.size = s /\ s \in Nat /\ u \in 0..32
      /\ w \in 0..32 /\ w # 0 /\ FldType.align = 4 /\ Align(f) = 4 /\ ~Anonymous(f)
  BY <1>0, <1>1, PlacingNumbers
<1>3. PICK first : first = AlignUp(s, 4)
  OBVIOUS
<1>4. PICK size, bits : /\ size = IF u + w = 32 THEN first + 4 ELSE first
                        /\ bits = IF u + w = 32 THEN 0 ELSE u + w
  OBVIOUS
<1>5. Place(first, u, size, bits)
  <2>1. Place(AlignUp(s, 4), u, IF u + w = 32 THEN AlignUp(s, 4) + 4 ELSE AlignUp(s, 4),
              IF u + w = 32 THEN 0 ELSE u + w)
    <3>1. 8 * 4 = 32
      OBVIOUS
    <3> QED
      BY <1>0, <1>2, <3>1, Zenon DEF PlaceBits, IntBits, IntSize
  <2> QED
    BY <1>3, <1>4, <2>1
<1>6. first \in Nat /\ s <= first /\ first % 4 = 0
  BY <1>2, <1>3, RoundsUp, RoundsToMultiple DEF Aligns
<1>7. u + w <= 32
  BY <1>0, <1>1, <1>2 DEF IntBits, IntSize
<1>8. /\ u \in Nat /\ size \in Nat /\ bits \in 0..32
      /\ 8 * s + u <= 8 * first + u
      /\ 8 * first + u + w <= 8 * size + bits
      /\ bits # 0 => size % 4 = 0
  BY <1>2, <1>4, <1>6, <1>7
<1>9. bits \in 0..IntBits /\ IntSize = 4
  BY <1>8 DEF IntBits, IntSize
<1>10. PlaceFits(p, f, first, u, size, bits)
  BY <1>0, <1>2, <1>6, <1>8, <1>9 DEF PlaceFits
<1>11. first \in Nat /\ u \in Nat /\ size \in Nat /\ bits \in 0..IntBits
  BY <1>2, <1>6, <1>8, <1>9
<1> QED
  BY <1>0, <1>1, <1>5, <1>10, <1>11, PlaceKeeps

\* And one that opens a new unit.
LEMMA NewUnitPlaces ==
  ASSUME IInv, PlaceInNewUnit
  PROVE  IInv'
<1>0. PICK p, k, f, s, u, w : /\ p = ending.rec /\ k = ending.at /\ f = types[p].flds[k]
                              /\ s = types[p].size /\ u = ending.bits /\ w = f.bits
  OBVIOUS
<1>1. Placing(T_STRUCT) /\ Fld.bits # 0
  BY DEF PlaceInNewUnit
<1>2. /\ Fld = f /\ FldType = types[f.ty] /\ Rec.size = s /\ s \in Nat /\ u \in 0..32
      /\ w \in 0..32 /\ w # 0 /\ FldType.align = 4 /\ Align(f) = 4 /\ ~Anonymous(f)
  BY <1>0, <1>1, PlacingNumbers
<1>3. PICK first, next : first = AlignUp(s, 4) /\ next = first + 4
  OBVIOUS
<1>5. Place(next, 0, next, w)
  BY <1>0, <1>2, <1>3 DEF PlaceInNewUnit, IntSize
<1>6. first \in Nat /\ s <= first /\ first % 4 = 0
  BY <1>2, <1>3, RoundsUp, RoundsToMultiple DEF Aligns
<1>8. /\ next \in Nat /\ next % 4 = 0
      /\ 8 * s + u <= 8 * next + 0
      /\ 8 * next + 0 + w <= 8 * next + w
  BY <1>2, <1>3, <1>6
<1>9. w \in 0..IntBits /\ IntSize = 4 /\ 0 \in Nat
  BY <1>2 DEF IntBits, IntSize
<1>11. PICK zero, size, bits : zero = 0 /\ size = next /\ bits = w
  OBVIOUS
<1>12. PlaceFits(p, f, next, zero, size, bits)
  BY <1>0, <1>2, <1>8, <1>9, <1>11 DEF PlaceFits
<1>13. /\ next \in Nat /\ zero \in Nat /\ size \in Nat /\ bits \in 0..IntBits
       /\ Place(next, zero, size, bits)
  BY <1>5, <1>8, <1>9, <1>11
<1> QED
  BY <1>0, <1>1, <1>12, <1>13, PlaceKeeps

-----------------------------------------------------------------------------
(* The invariant holds.                                                    *)

\* No record, no type but the client's.
LEMMA InitiallyInvariant ==
  ASSUME TypesInit
  PROVE  IInv
<1>1. /\ client \in Clients /\ types = client.heap /\ ending = NotEnding /\ complete = {}
  BY DEF TypesInit, LayoutInit
<1>2. Sound
  <2>1. GoodHeap(client.heap)
    BY <1>1, ClientAssumption DEF GoodHeap
  <2>2. Len(types) <= Len(client.heap)
    <3>1. client.heap \in Seq(Objects)
      BY <1>1, ClientAssumption
    <3>2. Len(client.heap) \in Nat
      BY <3>1
    <3> QED
      BY <1>1, <3>2
  <2>3. \A t \in DOMAIN client.heap : ~IsRecord(types[t])
    BY <1>1, ClientAssumption
  <2> QED
    BY <1>1, <2>1, <2>2, <2>3 DEF Sound
<1>3. Records = {}
  BY <1>1, <1>2 DEF Sound, Records
<1>4. \A t \in DOMAIN types : types[t].flds = << >>
  BY ClientAssumption, <1>1
<1>5. Structure
  BY <1>1, <1>3, <1>4 DEF Structure
<1> QED
  BY <1>1, <1>2, <1>3, <1>5 DEF IInv, EndingOK, Ending, NotEnding, Extents, Own, Held

\* Every step keeps the invariant.
LEMMA InvariantKept ==
  ASSUME IInv, [TypesNext]_typeVars
  PROVE  IInv'
<1>1. Sound /\ Structure
  BY DEF IInv
<1>2. CASE UNCHANGED typeVars
  <2>1. types' = types /\ client' = client /\ ending' = ending /\ complete' = complete
    BY <1>2 DEF typeVars
  <2>2. GoodHeap(types) /\ Grown(types, types)
    BY <1>1, Heap, GrownSelf DEF Sound
  <2> QED
    BY <2>1, <2>2, DerivingKeeps
<1>3. ASSUME \/ Derive
             \/ \E t \in pool, sig \in GivenSignatures : FunctionReturn(t, sig)
             \/ \E s, t \in pool : Composite(s, t)
      PROVE  IInv'
  BY <1>1, <1>3, DerivingGrows, DerivingKeeps
<1>4. ASSUME NEW categ \in {T_STRUCT, T_UNION}, StartRecord(categ) PROVE IInv'
  BY <1>4, StartsRecord
<1>5. ASSUME NEW r \in Records, NEW m \in client.members, NEW named \in BOOLEAN,
             MemberOfC(named, m.ty, m.bits), AddField(r, named, m.ty, m.bits)
      PROVE  IInv'
  <2>1. m.ty \in DOMAIN client.heap /\ m.bits \in 0..IntBits
    BY <1>1, ClientAssumption DEF Sound
  <2> QED
    BY <1>5, <2>1, AddsField
<1>6. ASSUME NEW r \in Records, NEW t \in complete, NEW named \in BOOLEAN,
             MemberOfC(named, t, 0), AddField(r, named, t, 0)
      PROVE  IInv'
  <2>1. 0 \in 0..IntBits
    BY DEF IntBits, IntSize
  <2> QED
    BY <1>6, <2>1, AddsField
<1>7. ASSUME NEW r \in Records, EndRecord(r) PROVE IInv'
  BY <1>7, BeginsEnding
<1>8. CASE PlaceOrdinary \/ PlaceBits \/ PlaceInNewUnit \/ PlaceInUnion \/ EndDone
  BY <1>8, OrdinaryPlaces, BitsPlace, NewUnitPlaces, UnionPlaces, EndsRecord
<1> QED
  BY <1>2, <1>3, <1>4, <1>5, <1>6, <1>7, <1>8 DEF TypesNext, LayoutNext, Record

\* The invariant holds always.
LEMMA AlwaysInvariant == TypesSpec => []IInv
BY InitiallyInvariant, InvariantKept, PTL DEF TypesSpec

-----------------------------------------------------------------------------
(* The usual arithmetic conversions.                                       *)

\* The sizes of the arithmetic types.
SizeOf(categ) ==
  IF categ \in {0, 1} THEN 1
  ELSE IF categ \in {2, 3} THEN 2
  ELSE IF categ \in {4, 5, 6, 7, 11} THEN 4
  ELSE IF categ \in {8, 9, 12} THEN 8
  ELSE 12

Integer(t) == t \in DOMAIN types /\ types[t].categ \in 0..9 /\ types[t].size = SizeOf(types[t].categ)

\* The sizes of the builtin types.
LEMMA BuiltinSizes ==
  ASSUME NEW c \in 0..13, c # 10
  PROVE  type(c) \in DOMAIN Builtins /\ Builtins[type(c)].size = SizeOf(c)
<1> DEFINE size == << 1, 1, 2, 2, 4, 4, 4, 4, 8, 8, 0, 4, 8, 12, 4, 0 >>
<1>1. type(c) = c + 1 /\ c + 1 \in 1..16 /\ c + 1 - 1 = c
  BY DEF type
<1>2. size[c + 1] = SizeOf(c)
  <2>1. /\ size[1] = 1 /\ size[2] = 1 /\ size[3] = 2 /\ size[4] = 2 /\ size[5] = 4 /\ size[6] = 4
        /\ size[7] = 4 /\ size[8] = 4 /\ size[9] = 8 /\ size[10] = 8 /\ size[12] = 4 /\ size[13] = 8
        /\ size[14] = 12
    OBVIOUS
  <2> HIDE DEF size
  <2> QED
    BY <2>1 DEF SizeOf
<1>3. Builtins = [i \in 1..16 |-> Sized(i - 1, size[i], Null)]
  BY DEF Builtins
<1> HIDE DEF size
<1>4. Builtins[c + 1] = Sized(c, size[c + 1], Null)
  BY <1>1, <1>3
<1>5. Sized(c, size[c + 1], Null).size = size[c + 1]
  BY DEF Sized, NewType
<1> QED
  BY <1>1, <1>2, <1>3, <1>4, <1>5

\* A type of an arithmetic category has that category's size, whatever its qualifiers.
LEMMA ArithmeticSizes ==
  ASSUME Sound
  PROVE  /\ \A t \in DOMAIN types : IsArith(t) /\ types[t].categ # T_ENUM =>
              types[t].categ \in 0..13 /\ types[t].categ # 10 /\ types[t].size = SizeOf(types[t].categ)
         /\ \A c \in 0..13 : c # 10 =>
              /\ type(c) \in DOMAIN types /\ types[type(c)].categ = c
              /\ types[type(c)].size = SizeOf(c)
<1>1. GoodHeap(types)
  BY DEF Sound
<1>2. ASSUME NEW t \in DOMAIN types, IsArith(t), types[t].categ # T_ENUM
      PROVE  types[t].categ \in 0..13 /\ types[t].categ # 10 /\ types[t].size = SizeOf(types[t].categ)
  <2>1. types[t].categ \in Nat /\ WellBuilt(types, t)
    BY <1>1, ObjectAt DEF GoodHeap
  <2>2. types[t].categ \in 0..13 /\ types[t].categ # 10
    BY <1>2, <2>1 DEF IsArith, T_LONGDOUBLE, T_ENUM
  <2>3. types[t].size = Builtins[type(types[t].categ)].size
    BY <2>1, <2>2 DEF WellBuilt, T_LONGDOUBLE, T_ENUM
  <2> QED
    BY <2>2, <2>3, BuiltinSizes
<1>3. ASSUME NEW c \in 0..13, c # 10
      PROVE  /\ type(c) \in DOMAIN types /\ types[type(c)].categ = c
             /\ types[type(c)].size = SizeOf(c)
  <2>1. type(c) \in DOMAIN Builtins /\ Builtins[type(c)].categ = c
    BY BuiltinTypes
  <2>2. type(c) \in DOMAIN types /\ types[type(c)] = Builtins[type(c)]
    BY <1>1, <2>1 DEF GoodHeap
  <2> QED
    BY <1>3, <2>1, <2>2, BuiltinSizes
<1> QED
  BY <1>2, <1>3

\* Integer operands of the last part of commonRealType.
LEMMA CommonOfIntegers ==
  ASSUME Sound, NEW l, NEW r, Integer(l), Integer(r), types[l].categ \in 4..9, types[r].categ \in 4..9,
         IsUnsigned(types[l].categ) # IsUnsigned(types[r].categ)
  PROVE  LET u == IntegerCommon(l, r)
             max == IF types[l].categ \div 2 > types[r].categ \div 2
                    THEN types[l].categ \div 2 ELSE types[r].categ \div 2
         IN /\ Integer(u) /\ types[u].categ \in 4..9
            /\ types[u].categ \div 2 = max
            /\ IsUnsigned(types[u].categ) <=>
                 ~(/\ IF IsUnsigned(types[l].categ) THEN types[l].size < types[u].size ELSE types[l].size <= types[u].size
                   /\ IF IsUnsigned(types[r].categ) THEN types[r].size < types[u].size ELSE types[r].size <= types[u].size)
<1> DEFINE u == IntegerCommon(l, r)
<1>1. PICK c, d : c = types[l].categ /\ d = types[r].categ
  OBVIOUS
<1>2. c \in 4..9 /\ d \in 4..9 /\ types[l].size = SizeOf(c) /\ types[r].size = SizeOf(d)
      /\ l \in DOMAIN types /\ r \in DOMAIN types /\ c % 2 # d % 2
  BY <1>1 DEF Integer, IsUnsigned
<1>3. PICK e : e = IF d % 2 = 1
                   THEN IF d >= c THEN d ELSE IF SizeOf(c) > SizeOf(d) THEN c ELSE c + 1
                   ELSE IF c >= d THEN c ELSE IF SizeOf(d) > SizeOf(c) THEN d ELSE d + 1
  OBVIOUS
<1>4. e \in 4..9
  BY <1>2, <1>3
<1>5. e \in 0..13 /\ e # 10
  BY <1>4
<1>6. u \in DOMAIN types /\ types[u].categ = e /\ types[u].size = SizeOf(e)
  <2>1. CASE d % 2 = 1
    <3>1. l # r
      BY <1>1, <1>2
    <3>2. u = IF d >= c THEN r ELSE IF SizeOf(c) > SizeOf(d) THEN l ELSE type(c + 1)
      BY <1>1, <1>2, <2>1, <3>1 DEF IntegerCommon, IsUnsigned
    <3> HIDE DEF u
    <3>3. CASE d >= c
      BY <1>1, <1>2, <1>3, <2>1, <3>2, <3>3
    <3>4. CASE ~(d >= c) /\ SizeOf(c) > SizeOf(d)
      BY <1>1, <1>2, <1>3, <2>1, <3>2, <3>4
    <3>5. CASE ~(d >= c) /\ ~(SizeOf(c) > SizeOf(d))
      BY <1>3, <1>5, <2>1, <3>2, <3>5, ArithmeticSizes
    <3> QED
      BY <3>3, <3>4, <3>5
  <2>2. CASE d % 2 # 1
    <3>1. l # r /\ c % 2 = 1
      BY <1>1, <1>2, <2>2
    <3>2. u = IF c >= d THEN l ELSE IF SizeOf(d) > SizeOf(c) THEN r ELSE type(d + 1)
      BY <1>1, <1>2, <2>2, <3>1 DEF IntegerCommon, IsUnsigned
    <3> HIDE DEF u
    <3>3. CASE c >= d
      BY <1>1, <1>2, <1>3, <2>2, <3>2, <3>3
    <3>4. CASE ~(c >= d) /\ SizeOf(d) > SizeOf(c)
      BY <1>1, <1>2, <1>3, <2>2, <3>2, <3>4
    <3>5. CASE ~(c >= d) /\ ~(SizeOf(d) > SizeOf(c))
      BY <1>3, <1>5, <2>2, <3>2, <3>5, ArithmeticSizes
    <3> QED
      BY <3>3, <3>4, <3>5
  <2> QED
    BY <2>1, <2>2
<1>7. e \div 2 = IF c \div 2 > d \div 2 THEN c \div 2 ELSE d \div 2
  BY <1>2, <1>3
<1>8. e % 2 = 1 <=> ~(/\ IF c % 2 = 1 THEN SizeOf(c) < SizeOf(e) ELSE SizeOf(c) <= SizeOf(e)
                      /\ IF d % 2 = 1 THEN SizeOf(d) < SizeOf(e) ELSE SizeOf(d) <= SizeOf(e))
  BY <1>2, <1>3 DEF SizeOf
<1> HIDE DEF u
<1>9. Integer(u) /\ types[u].categ \in 4..9
  BY <1>4, <1>6 DEF Integer
<1> QED
  BY <1>1, <1>2, <1>6, <1>7, <1>8, <1>9 DEF u, IsUnsigned

\* binaryExprType follows C's usual arithmetic conversions, case by case.
LEMMA ArithmeticConversions ==
  ASSUME Sound
  PROVE  ArithmeticAsC
<1>1. SUFFICES ASSUME NEW s \in {u \in pool : IsArith(u) /\ types[u].categ # T_ENUM},
                      NEW t \in {u \in pool : IsArith(u) /\ types[u].categ # T_ENUM},
                      NEW r, r = BinaryExprType(s, t)
               PROVE  IF types[s].categ >= T_FLOAT \/ types[t].categ >= T_FLOAT
                      THEN types[r].categ = IF types[s].categ > types[t].categ THEN types[s].categ ELSE types[t].categ
                      ELSE /\ Rank(r) = IF Rank(s) > Rank(t) THEN Rank(s) ELSE Rank(t)
                           /\ IsUnsigned(types[r].categ) <=> ~(Holds(types[r].size, s) /\ Holds(types[r].size, t))
  BY DEF ArithmeticAsC
<1>2. s \in DOMAIN types /\ t \in DOMAIN types /\ s # Null /\ t # Null
  <2>1. s \in DOMAIN types /\ t \in DOMAIN types
    BY PoolProper DEF Proper
  <2> QED
    BY <2>1, Heap DEF Null
<1>3. PICK c, d : c = types[s].categ /\ d = types[t].categ
  OBVIOUS
<1>4. /\ c \in 0..13 /\ c # 10 /\ types[s].size = SizeOf(c)
      /\ d \in 0..13 /\ d # 10 /\ types[t].size = SizeOf(d)
  BY <1>2, <1>3, ArithmeticSizes
<1>5. r = CommonRealType(s, t)
  BY <1>1, <1>2 DEF BinaryExprType
<1>6. /\ types[type(11)].categ = 11 /\ types[type(12)].categ = 12 /\ types[type(13)].categ = 13
      /\ type(4) \in DOMAIN types /\ types[type(4)].categ = 4 /\ types[type(4)].size = SizeOf(4)
  BY ArithmeticSizes
<1>7. CASE c >= 11 \/ d >= 11
  <2>1. types[r].categ = IF c > d THEN c ELSE d
    <3>1. CASE c = 13 \/ d = 13
      <4>1. r = type(13)
        BY <1>3, <1>5, <3>1 DEF CommonRealType, T_LONGDOUBLE
      <4> QED
        BY <1>4, <1>6, <3>1, <4>1
    <3>2. CASE c # 13 /\ d # 13 /\ (c = 12 \/ d = 12)
      <4>1. r = type(12)
        BY <1>3, <1>5, <3>2 DEF CommonRealType, T_LONGDOUBLE, T_DOUBLE
      <4> QED
        BY <1>4, <1>6, <3>2, <4>1
    <3>3. CASE c # 13 /\ d # 13 /\ c # 12 /\ d # 12
      <4>1. c = 11 \/ d = 11
        BY <1>4, <1>7, <3>3
      <4>2. r = type(11)
        BY <1>3, <1>5, <3>3, <4>1 DEF CommonRealType, T_LONGDOUBLE, T_DOUBLE, T_FLOAT
      <4> QED
        BY <1>4, <1>6, <3>3, <4>1, <4>2
    <3> QED
      BY <3>1, <3>2, <3>3
  <2> QED
    BY <1>3, <1>7, <2>1 DEF T_FLOAT
<1>8. CASE ~(c >= 11 \/ d >= 11)
  <2>1. c \in 0..9 /\ d \in 0..9
    BY <1>4, <1>8
  <2>2. PICK a, b : a = (IF c < 4 THEN type(4) ELSE s) /\ b = (IF d < 4 THEN type(4) ELSE t)
    OBVIOUS
  <2>3. PICK e, f : e = (IF c < 4 THEN 4 ELSE c) /\ f = (IF d < 4 THEN 4 ELSE d)
    OBVIOUS
  <2>4. /\ a \in DOMAIN types /\ types[a].categ = e /\ types[a].size = SizeOf(e)
        /\ b \in DOMAIN types /\ types[b].categ = f /\ types[b].size = SizeOf(f)
        /\ e \in 4..9 /\ f \in 4..9
    <3>1. a \in DOMAIN types /\ types[a].categ = e /\ types[a].size = SizeOf(e)
      BY <1>2, <1>3, <1>4, <1>6, <2>2, <2>3
    <3>2. b \in DOMAIN types /\ types[b].categ = f /\ types[b].size = SizeOf(f)
      BY <1>2, <1>3, <1>4, <1>6, <2>2, <2>3
    <3> QED
      BY <2>1, <2>3, <3>1, <3>2
  <2>5. Integer(a) /\ Integer(b)
    <3>1. e \in 0..9 /\ f \in 0..9
      BY <2>4
    <3> QED
      BY <2>4, <3>1 DEF Integer
  <2>6. r = IF e = f THEN a
            ELSE IF (e % 2 = 1) = (f % 2 = 1) THEN IF e > f THEN a ELSE b
            ELSE IntegerCommon(a, b)
    <3>1. c # 13 /\ d # 13 /\ c # 12 /\ d # 12 /\ c # 11 /\ d # 11
      BY <2>1
    <3> DEFINE Widened(v) == IF types[v].categ < T_INT THEN type(T_INT) ELSE v
    <3>2. Widened(s) = a /\ Widened(t) = b
      BY <1>3, <2>2 DEF T_INT
    <3>3. r = IF types[Widened(s)].categ = types[Widened(t)].categ THEN Widened(s)
              ELSE IF IsUnsigned(types[Widened(s)].categ) = IsUnsigned(types[Widened(t)].categ)
                   THEN IF types[Widened(s)].categ > types[Widened(t)].categ THEN Widened(s) ELSE Widened(t)
              ELSE IntegerCommon(Widened(s), Widened(t))
      BY <1>3, <1>5, <3>1 DEF CommonRealType, T_LONGDOUBLE, T_DOUBLE, T_FLOAT
    <3> HIDE DEF Widened
    <3> QED
      BY <2>4, <3>2, <3>3 DEF IsUnsigned
  <2> DEFINE Fits(x, n, m) == IF x % 2 = 1 THEN n < m ELSE n <= m
             max == IF e \div 2 > f \div 2 THEN e \div 2 ELSE f \div 2
  <2>7. PICK g : g = types[r].categ
    OBVIOUS
  <2>8. /\ g \in 4..9 /\ types[r].size = SizeOf(g)
        /\ g \div 2 = max
        /\ g % 2 = 1 <=> ~(Fits(e, SizeOf(e), SizeOf(g)) /\ Fits(f, SizeOf(f), SizeOf(g)))
    <3>1. CASE e = f
      <4>1. r = a /\ g = e
        BY <2>4, <2>6, <2>7, <3>1
      <4> QED
        BY <2>4, <3>1, <4>1 DEF SizeOf
    <3>2. CASE e # f /\ (e % 2 = 1) = (f % 2 = 1)
      <4>1. CASE e > f
        <5>1. r = a /\ g = e
          BY <2>4, <2>6, <2>7, <3>2, <4>1
        <5> QED
          BY <2>4, <3>2, <4>1, <5>1 DEF SizeOf
      <4>2. CASE ~(e > f)
        <5>1. r = b /\ g = f
          BY <2>4, <2>6, <2>7, <3>2, <4>2
        <5> QED
          BY <2>4, <3>2, <4>2, <5>1 DEF SizeOf
      <4> QED
        BY <4>1, <4>2
    <3>3. CASE e # f /\ (e % 2 = 1) # (f % 2 = 1)
      <4>1. r = IntegerCommon(a, b)
        BY <2>6, <3>3
      <4>2. IsUnsigned(types[a].categ) # IsUnsigned(types[b].categ)
        BY <2>4, <3>3 DEF IsUnsigned
      <4>3. /\ Integer(r) /\ types[r].categ \in 4..9
            /\ types[r].categ \div 2 = IF types[a].categ \div 2 > types[b].categ \div 2
                                       THEN types[a].categ \div 2 ELSE types[b].categ \div 2
            /\ IsUnsigned(types[r].categ) <=>
                 ~(/\ IF IsUnsigned(types[a].categ) THEN types[a].size < types[r].size ELSE types[a].size <= types[r].size
                   /\ IF IsUnsigned(types[b].categ) THEN types[b].size < types[r].size ELSE types[b].size <= types[r].size)
        BY <2>4, <2>5, <4>1, <4>2, CommonOfIntegers
      <4> QED
        BY <2>4, <2>7, <4>3 DEF Integer, IsUnsigned
    <3> QED
      BY <3>1, <3>2, <3>3
  <2>9. /\ Rank(r) = g \div 2
        /\ Rank(s) = e \div 2
        /\ Rank(t) = f \div 2
    <3>1. 4 \div 2 = 2
      OBVIOUS
    <3>2. Rank(r) = IF g < 4 THEN 4 \div 2 ELSE g \div 2
      BY <2>7 DEF Rank, T_INT
    <3>3. Rank(s) = IF c < 4 THEN 4 \div 2 ELSE c \div 2
      BY <1>3 DEF Rank, T_INT
    <3>4. Rank(t) = IF d < 4 THEN 4 \div 2 ELSE d \div 2
      BY <1>3 DEF Rank, T_INT
    <3> QED
      BY <2>1, <2>3, <2>8, <3>2, <3>3, <3>4
  <2>10. /\ Holds(types[r].size, s) <=> Fits(c, SizeOf(c), SizeOf(g))
         /\ Holds(types[r].size, t) <=> Fits(d, SizeOf(d), SizeOf(g))
    BY <1>3, <1>4, <2>8 DEF Holds, IsUnsigned
  <2>11. /\ Fits(c, SizeOf(c), SizeOf(g)) <=> Fits(e, SizeOf(e), SizeOf(g))
         /\ Fits(d, SizeOf(d), SizeOf(g)) <=> Fits(f, SizeOf(f), SizeOf(g))
    <3>1. SizeOf(g) >= 4 /\ SizeOf(g) \in Nat
      BY <2>8 DEF SizeOf
    <3>2. c < 4 => Fits(c, SizeOf(c), SizeOf(g)) /\ Fits(4, SizeOf(4), SizeOf(g))
      BY <2>1, <3>1 DEF SizeOf
    <3>3. d < 4 => Fits(d, SizeOf(d), SizeOf(g)) /\ Fits(4, SizeOf(4), SizeOf(g))
      BY <2>1, <3>1 DEF SizeOf
    <3> HIDE DEF Fits
    <3> QED
      BY <2>3, <3>2, <3>3
  <2>12. IsUnsigned(types[r].categ) <=> g % 2 = 1
    BY <2>7 DEF IsUnsigned
  <2>13. ~(types[s].categ >= T_FLOAT \/ types[t].categ >= T_FLOAT)
    BY <1>3, <1>8 DEF T_FLOAT
  <2> HIDE DEF Fits
  <2> QED
    BY <2>8, <2>9, <2>10, <2>11, <2>12, <2>13
<1> QED
  BY <1>7, <1>8

\* Compatibility is symmetric on the types that are in use.
LEMMA CompatibleBothWays ==
  ASSUME Sound
  PROVE  CompatibleSymmetric
<1>1. SUFFICES ASSUME NEW s \in pool, NEW t \in pool PROVE Compatible(s, t) <=> Compatible(t, s)
  BY DEF CompatibleSymmetric
<1>2. GoodHeap(types) /\ s \in Proper(types) /\ t \in Proper(types)
  BY PoolProper DEF Sound
<1> QED
  BY <1>2, AlwaysSymmetric DEF Compatible

-----------------------------------------------------------------------------
(* The members that lookupField finds.                                     *)

Reached(r) ==
  LET reach[n \in 0..client.records] ==
        IF n = 0 THEN {r} ELSE reach[n - 1] \cup UNION {Nameless(k) : k \in reach[n - 1]}
  IN reach

Nearer(set) == set \cup UNION {Nameless(k) : k \in set}

\* Level by level.
LEMMA ReachesStepwise ==
  ASSUME Sound, Structure, NEW r \in Records
  PROVE  /\ Reached(r)[0] = {r}
         /\ \A n \in 1..client.records : Reached(r)[n] = Nearer(Reached(r)[n - 1])
<1> DEFINE N == client.records
           S == SUBSET Records
           step == [q \in (1..N) \X S |-> Nearer(q[2])]
           reach == CHOOSE reach : reach = [n \in 0..N |-> IF n = 0 THEN {r} ELSE Nearer(reach[n - 1])]
<1>1. Reached(r) = reach
  BY DEF Reached, Nearer
<1>2. N \in Nat
  BY Heap
<1>3. \A set \in S : Nearer(set) \in S
  <2>1. \A j \in Records : \A k \in Nameless(j) : k \in Records
    BY NamelessIs DEF Structure
  <2> QED
    BY <2>1 DEF Nearer
<1>4. {r} \in S
  OBVIOUS
<1> HIDE DEF N, S
<1>5. step \in Steps(N, S)
  BY <1>3 DEF Steps
<1> HIDE DEF step
<1>6. PICK f : Follows(f, {r}, N, S, step)
  BY <1>2, <1>4, <1>5, RecursionExists
<1>7. f \in [0..N -> S] /\ f[0] = {r} /\ \A n \in 1..N : f[n] = Nearer(f[n - 1])
  <2>1. \A n \in 1..N : step[<<n, f[n - 1]>>] = Nearer(f[n - 1])
    BY <1>2, <1>6 DEF step, Follows
  <2> QED
    BY <1>6, <2>1 DEF Follows
<1>8. f = [n \in 0..N |-> IF n = 0 THEN {r} ELSE Nearer(f[n - 1])]
  <2>1. \A n \in 0..N : f[n] = IF n = 0 THEN {r} ELSE Nearer(f[n - 1])
    <3>1. \A n \in 0..N : n = 0 \/ n \in 1..N
      BY <1>2
    <3> QED
      BY <1>7, <3>1
  <2> QED
    BY <1>7, <2>1
<1>9. reach = [n \in 0..N |-> IF n = 0 THEN {r} ELSE Nearer(reach[n - 1])]
  BY <1>8
<1> HIDE DEF reach
<1>10. reach[0] = {r}
  BY <1>2, <1>9
<1>11. \A n \in 1..N : reach[n] = Nearer(reach[n - 1])
  <2>1. \A n \in 1..N : n \in 0..N /\ n # 0
    BY <1>2
  <2> QED
    BY <1>9, <2>1
<1> QED
  BY <1>1, <1>10, <1>11 DEF N

\* The record itself is inside, and in a plain one only its nameless members are.
LEMMA InsideReaches ==
  ASSUME Sound, Structure, NEW r \in Records
  PROVE  /\ r \in Inside(r) /\ Nameless(r) \subseteq Inside(r)
         /\ Plain(r) => /\ Inside(r) \subseteq {r} \cup Nameless(r)
                        /\ \A k \in Inside(r) : k # r => Nameless(k) = {}
<1> DEFINE N == client.records
           reach == Reached(r)
<1>1. N \in Nat /\ N # 0
  BY Heap DEF Structure
<1>2. Inside(r) = reach[N]
  BY DEF Inside, Reached
<1>3. reach[0] = {r} /\ \A n \in 1..N : reach[n] = Nearer(reach[n - 1])
  BY ReachesStepwise
<1> HIDE DEF reach, N
<1>4. \A n \in 0..N : r \in reach[n] /\ (n # 0 => Nameless(r) \subseteq reach[n])
  <2> DEFINE B == {n \in 0..N : ~(r \in reach[n] /\ (n # 0 => Nameless(r) \subseteq reach[n]))}
  <2>1. SUFFICES ASSUME B # {} PROVE FALSE
    OBVIOUS
  <2>2. B \in SUBSET Nat
    OBVIOUS
  <2>3. PICK m \in B : \A n \in B : m <= n
    BY <2>1, <2>2, LeastNat
  <2>4. m # 0
    BY <1>3, <2>3
  <2>5. m \in 1..N /\ m - 1 \in 0..N /\ ~(m <= m - 1)
    BY <1>1, <2>3, <2>4
  <2>6. r \in reach[m - 1]
    BY <2>3, <2>5
  <2>7. reach[m] = Nearer(reach[m - 1])
    BY <1>3, <2>5
  <2>8. r \in reach[m] /\ Nameless(r) \subseteq reach[m]
    BY <2>6, <2>7 DEF Nearer
  <2> QED
    BY <2>3, <2>8
<1>5. r \in Inside(r) /\ Nameless(r) \subseteq Inside(r)
  <2>1. N \in 0..N
    BY <1>1
  <2> QED
    BY <1>1, <1>2, <1>4, <2>1
<1>6. ASSUME Plain(r)
      PROVE  /\ Inside(r) \subseteq {r} \cup Nameless(r)
             /\ \A k \in Inside(r) : k # r => Nameless(k) = {}
  <2>1. \A k \in Inside(r) : k # r => Nameless(k) = {}
    BY <1>6 DEF Plain, Nameless
  <2> DEFINE B == {n \in 0..N : ~(reach[n] \subseteq {r} \cup Nameless(r))}
  <2>2. SUFFICES ASSUME B # {} PROVE FALSE
    <3>1. N \in 0..N
      BY <1>1
    <3>2. B = {} => reach[N] \subseteq {r} \cup Nameless(r)
      BY <3>1
    <3> HIDE DEF B
    <3> QED
      BY <1>2, <2>1, <3>2
  <2>3. B \in SUBSET Nat
    OBVIOUS
  <2>4. PICK m \in B : \A n \in B : m <= n
    BY <2>2, <2>3, LeastNat
  <2>5. m # 0
    BY <1>3, <2>4
  <2>6. m \in 1..N /\ m - 1 \in 0..N /\ ~(m <= m - 1)
    BY <1>1, <2>4, <2>5
  <2>7. reach[m - 1] \subseteq {r} \cup Nameless(r)
    BY <2>4, <2>6
  <2>8. reach[m] = Nearer(reach[m - 1])
    BY <1>3, <2>6
  <2>9. \A k \in reach[m - 1] : k # r => Nameless(k) = {}
    BY <1>5, <2>1, <2>7
  <2>10. reach[m] \subseteq {r} \cup Nameless(r)
    BY <2>7, <2>8, <2>9 DEF Nearer
  <2> QED
    BY <2>4, <2>10
<1> QED
  BY <1>5, <1>6

\* The member of r that m is, or that holds the record m is a member of.
Outer(r, m, i) ==
  LET f == types[r].flds[i]
  IN /\ i \in DOMAIN types[r].flds
     /\ \/ m = <<r, i>> /\ ~Anonymous(f)
        \/ /\ Anonymous(f) /\ m[1] = f.ty /\ m[1] # r /\ m[1] \in complete /\ Nameless(m[1]) = {}
           /\ f.bits = 0 /\ LaidFrom(m[1], f.offset)

\* What is nested in a record that is laid out lies where its holder does.
LEMMA NestedLaid ==
  ASSUME IInv, NEW r \in LaidOut, NEW i \in DOMAIN types[r].flds, Anonymous(types[r].flds[i]),
         NEW k, k = types[r].flds[i].ty
  PROVE  /\ k \in complete /\ k \in Records /\ k # r /\ k \in Inside(r) /\ Nameless(k) = {}
         /\ types[r].flds[i].bits = 0
         /\ LaidFrom(k, types[r].flds[i].offset)
<1>1. Sound /\ Structure /\ Held
  BY DEF IInv
<1>2. r \in complete /\ r \in Records /\ Plain(r) /\ ~InPlace(r)
  BY <1>1 DEF LaidOut, Structure
<1>3. k \in Nameless(r)
  BY DEF Nameless
<1>4. k \in Inside(r) /\ r \in Inside(r)
  BY <1>1, <1>2, <1>3, InsideReaches
<1>5. k \in complete /\ k \in Records /\ InPlace(k)
  <2>1. PICK a, b : a = r /\ b = k
    OBVIOUS
  <2>2. a \in Records /\ b \in Nameless(a)
    BY <1>2, <1>3, <2>1
  <2>3. \E n \in DOMAIN types[a].flds : b \in complete /\ InPlace(b)
    BY <1>1, <2>2, NamelessIs
  <2>4. b \in complete /\ InPlace(b)
    BY <2>3
  <2>5. k \in complete /\ InPlace(k)
    BY <2>1, <2>4
  <2> QED
    BY <1>1, <2>5 DEF Structure
<1>6. k # r
  BY <1>2, <1>5
<1>7. Nameless(k) = {}
  BY <1>1, <1>2, <1>4, <1>6, InsideReaches
<1>8. WellFormedField(types[r].flds[i])
  BY <1>1, <1>2 DEF Structure
<1>9. types[r].flds[i].bits = 0
  BY <1>2, <1>8, NamelessField
<1>10. PICK h : h = <<r, i>>
  OBVIOUS
<1>11. h \in Holders(k)
  <2>1. i \in 1..client.fields
    <3>1. DOMAIN types[r].flds = 1..Len(types[r].flds) /\ Len(types[r].flds) \in Nat
      BY <1>1, <1>2, RecordFields
    <3>2. client.fields \in Nat /\ Len(types[r].flds) <= client.fields
      BY <1>1, <1>2, Heap DEF Structure
    <3> QED
      BY <3>1, <3>2
  <2> QED
    BY <1>2, <1>10, <2>1 DEF Holders
<1>12. i > 1 => types[r].flds[i - 1].bits = 0
  BY <1>2, <1>4 DEF Plain
<1>13. Simply(k, h)
  BY <1>2, <1>7, <1>10, <1>12 DEF Simply
<1>14. LaidFrom(k, types[h[1]].flds[h[2]].offset)
  BY <1>1, <1>5, <1>11, <1>13 DEF Held
<1>15. LaidFrom(k, types[r].flds[i].offset)
  <2> SUFFICES ASSUME NEW c, c = types[h[1]].flds[h[2]].offset, c = types[r].flds[i].offset
               PROVE  LaidFrom(k, c)
    BY <1>10, Zenon DEF LaidFrom
  <2> QED
    BY <1>14, Zenon
<1> QED
  BY <1>4, <1>5, <1>6, <1>7, <1>9, <1>15

\* A member that lookupField finds is one of the record's own, or in one of these.
LEMMA MembersOuter ==
  ASSUME IInv, NEW r \in LaidOut, NEW m \in Members(r)
  PROVE  /\ m = <<m[1], m[2]>> /\ m[1] \in Records /\ m[1] \in complete /\ m[1] \in Inside(r)
         /\ m[2] \in DOMAIN types[m[1]].flds
         /\ \E i \in DOMAIN types[r].flds : Outer(r, m, i)
<1>1. Sound /\ Structure
  BY DEF IInv
<1>2. r \in complete /\ r \in Records /\ Plain(r) /\ ~InPlace(r)
  BY <1>1 DEF LaidOut, Structure
<1>3. PICK k \in Inside(r) : \E j \in DOMAIN types[k].flds : ~Anonymous(types[k].flds[j]) /\ m = <<k, j>>
  BY DEF Members
<1>4. PICK j \in DOMAIN types[k].flds : ~Anonymous(types[k].flds[j]) /\ m = <<k, j>>
  BY <1>3
<1>5. CASE k = r
  <2>1. Outer(r, m, j)
    BY <1>4, <1>5 DEF Outer
  <2> QED
    BY <1>2, <1>4, <1>5, <2>1
<1>6. CASE k # r
  <2>1. k \in Nameless(r)
    BY <1>1, <1>2, <1>6, InsideReaches
  <2>2. PICK i \in DOMAIN types[r].flds : Anonymous(types[r].flds[i]) /\ types[r].flds[i].ty = k
    BY <2>1 DEF Nameless
  <2>3. /\ k \in complete /\ k \in Records /\ Nameless(k) = {}
        /\ types[r].flds[i].bits = 0
        /\ LaidFrom(k, types[r].flds[i].offset)
    BY <2>2, NestedLaid
  <2>4. m[1] = k
    BY <1>4
  <2>5. Outer(r, m, i)
    <3>1. LaidFrom(m[1], types[r].flds[i].offset)
      <4> SUFFICES ASSUME NEW c, c = types[r].flds[i].offset PROVE LaidFrom(m[1], c)
        BY DEF LaidFrom
      <4> QED
        BY <2>3, <2>4
    <3> QED
      BY <1>6, <2>2, <2>3, <2>4, <3>1 DEF Outer
  <2> QED
    BY <1>4, <2>3, <2>4, <2>5
<1> QED
  BY <1>5, <1>6

\* The bits of a member lie within those of the outer record's member.
LEMMA WithinOuter ==
  ASSUME IInv, NEW r \in LaidOut, NEW m \in Members(r), NEW i, Outer(r, m, i),
         \A k \in Inside(r) : types[k].categ = T_STRUCT
  PROVE  /\ FirstBit(m) \in Nat /\ EndBit(m) \in Nat
         /\ Begin(types[r].flds[i]) \in Nat /\ Finish(types[r].flds[i]) \in Nat
         /\ Begin(types[r].flds[i]) <= FirstBit(m)
         /\ EndBit(m) <= Finish(types[r].flds[i])
<1>1. Sound /\ Structure /\ EndingOK /\ Extents
  BY DEF IInv
<1>2. r \in complete /\ r \in Records
  BY <1>1 DEF LaidOut, Structure
<1>3. /\ m[1] \in Records /\ m[1] \in complete /\ m[1] \in Inside(r) /\ m[2] \in DOMAIN types[m[1]].flds
  BY MembersOuter
<1>4. PICK f, g : f = types[r].flds[i] /\ g = types[m[1]].flds[m[2]]
  OBVIOUS
<1>5. /\ f.offset \in Nat /\ f.pos \in Nat /\ f.bits \in Nat /\ types[f.ty].size \in Nat
      /\ g.offset \in Nat /\ g.pos \in Nat /\ g.bits \in Nat /\ types[g.ty].size \in Nat
  <2>1. i \in DOMAIN types[r].flds
    BY DEF Outer
  <2>2. f.ty \in DOMAIN types /\ g.ty \in DOMAIN types
    BY <1>1, <1>2, <1>3, <1>4, <2>1 DEF Structure, WellFormedField
  <2>3. types[f.ty].size \in Nat /\ types[g.ty].size \in Nat
    BY <1>1, <2>2, Heap, ObjectAt
  <2> QED
    BY <1>1, <1>2, <1>3, <1>4, <2>1, <2>3, RecordFields
<1>6. Begin(f) \in Nat /\ Finish(f) \in Nat /\ Begin(g) \in Nat /\ Finish(g) \in Nat
  BY <1>5, PlaceNumbers
<1>7. FirstBit(m) = Begin(g) /\ EndBit(m) = Finish(g)
  BY <1>4 DEF FirstBit, EndBit, Begin, Finish
<1>8. Begin(f) <= Begin(g) /\ Finish(g) <= Finish(f)
  <2>1. CASE m = <<r, i>>
    <3>1. f = g
      BY <1>4, <2>1
    <3> QED
      BY <1>6, <3>1
  <2>2. CASE m # <<r, i>>
    <3>1. /\ Anonymous(f) /\ m[1] = f.ty /\ f.bits = 0 /\ i \in DOMAIN types[r].flds
      BY <1>4, <2>2 DEF Outer
    <3>2. PICK k, base : k = m[1] /\ base = f.offset
      OBVIOUS
    <3>3. LaidFrom(k, base)
      <4>1. LaidFrom(m[1], types[r].flds[i].offset)
        BY <2>2 DEF Outer
      <4> SUFFICES ASSUME NEW c, c = types[r].flds[i].offset, c = base PROVE LaidFrom(k, c)
        BY <1>4, <3>2 DEF LaidFrom
      <4> QED
        BY <3>2, <4>1
    <3>4. Placed(k) = Len(types[k].flds) /\ Open(k) = 0 /\ DOMAIN types[k].flds = 1..Len(types[k].flds)
      BY <1>1, <1>3, <3>2, PlacedRange, RecordFields
    <3>5. m[2] \in 1..Placed(k) /\ types[k].categ = T_STRUCT
      BY <1>3, <3>2, <3>4
    <3>6. base <= g.offset /\ Finish(g) <= 8 * (base + types[k].size) + 0
      BY <1>4, <3>2, <3>3, <3>4, <3>5 DEF LaidFrom
    <3>7. f.pos = 0
      BY <1>1, <1>2, <1>4, <3>1 DEF Extents, Extent
    <3>8. Begin(f) = 8 * base + 0 /\ Finish(f) = 8 * base + 0 + 8 * types[k].size
      BY <3>1, <3>2, <3>7 DEF Begin, Finish
    <3>9. Begin(g) = 8 * g.offset + g.pos
      BY DEF Begin
    <3>10. base \in Nat /\ types[k].size \in Nat
      BY <1>5, <3>1, <3>2
    <3> QED
      BY <1>5, <1>6, <3>6, <3>8, <3>9, <3>10
  <2> QED
    BY <2>1, <2>2
<1> QED
  BY <1>4, <1>6, <1>7, <1>8

\* Members lie behind each other, and what they hold within them.
LEMMA DisjointFields ==
  ASSUME IInv
  PROVE  FieldsDisjoint
<1>1. Sound /\ Structure /\ EndingOK /\ Extents /\ Own
  BY DEF IInv
<1>2. SUFFICES ASSUME NEW r \in LaidOut, \A k \in Inside(r) : types[k].categ = T_STRUCT
               PROVE  /\ \A m, n \in Members(r) : m # n => EndBit(m) <= FirstBit(n) \/ EndBit(n) <= FirstBit(m)
                      /\ \A m \in Members(r) : EndBit(m) <= 8 * types[r].size
  BY DEF FieldsDisjoint
<1>3. r \in complete /\ r \in Records /\ ~InPlace(r) /\ r \in Inside(r)
  BY <1>1, InsideReaches DEF LaidOut, Structure
<1>4. LaidFrom(r, 0) /\ types[r].categ = T_STRUCT
  BY <1>1, <1>2, <1>3 DEF Own
<1>5. Placed(r) = Len(types[r].flds) /\ Open(r) = 0 /\ DOMAIN types[r].flds = 1..Len(types[r].flds)
      /\ types[r].size \in Nat /\ Len(types[r].flds) \in Nat
  BY <1>1, <1>3, PlacedRange, RecordFields
<1>6. /\ \A i, j \in DOMAIN types[r].flds : i < j => Finish(types[r].flds[i]) <= Begin(types[r].flds[j])
      /\ \A i \in DOMAIN types[r].flds : Finish(types[r].flds[i]) <= 8 * (0 + types[r].size) + 0
  BY <1>4, <1>5 DEF LaidFrom
<1>7. ASSUME NEW m \in Members(r) PROVE EndBit(m) <= 8 * types[r].size
  <2>1. PICK i \in DOMAIN types[r].flds : Outer(r, m, i)
    BY MembersOuter
  <2>2. EndBit(m) \in Nat /\ Finish(types[r].flds[i]) \in Nat /\ EndBit(m) <= Finish(types[r].flds[i])
    BY <1>2, <2>1, WithinOuter
  <2>3. Finish(types[r].flds[i]) <= 8 * (0 + types[r].size) + 0
    BY <1>6
  <2> QED
    BY <1>5, <2>2, <2>3
<1>8. ASSUME NEW m \in Members(r), NEW n \in Members(r), NEW i \in DOMAIN types[r].flds, NEW j \in DOMAIN types[r].flds,
             Outer(r, m, i), Outer(r, n, j), i < j
      PROVE  EndBit(m) <= FirstBit(n)
  <2>1. Finish(types[r].flds[i]) <= Begin(types[r].flds[j])
    BY <1>6, <1>8
  <2>2. EndBit(m) \in Nat /\ Finish(types[r].flds[i]) \in Nat /\ EndBit(m) <= Finish(types[r].flds[i])
    BY <1>2, <1>8, WithinOuter
  <2>3. FirstBit(n) \in Nat /\ Begin(types[r].flds[j]) \in Nat /\ Begin(types[r].flds[j]) <= FirstBit(n)
    BY <1>2, <1>8, WithinOuter
  <2> QED
    BY <2>1, <2>2, <2>3
<1>9. ASSUME NEW m \in Members(r), NEW n \in Members(r), m # n
      PROVE  EndBit(m) <= FirstBit(n) \/ EndBit(n) <= FirstBit(m)
  <2>1. PICK i \in DOMAIN types[r].flds : Outer(r, m, i)
    BY MembersOuter
  <2>2. PICK j \in DOMAIN types[r].flds : Outer(r, n, j)
    BY MembersOuter
  <2>3. CASE i < j
    BY <1>8, <2>1, <2>2, <2>3
  <2>4. CASE j < i
    BY <1>8, <2>1, <2>2, <2>4
  <2>5. CASE i = j
    <3>1. PICK f : f = types[r].flds[i]
      OBVIOUS
    <3>2. Anonymous(f) /\ m[1] = f.ty /\ n[1] = f.ty
      BY <1>9, <2>1, <2>2, <2>5, <3>1 DEF Outer
    <3>3. PICK k : k = f.ty
      OBVIOUS
    <3>4. LaidFrom(k, f.offset) /\ k \in complete /\ k \in Records /\ k \in Inside(r)
      BY <3>1, <3>2, <3>3, NestedLaid
    <3>5. Placed(k) = Len(types[k].flds) /\ DOMAIN types[k].flds = 1..Len(types[k].flds)
          /\ Len(types[k].flds) \in Nat
      BY <1>1, <3>4, PlacedRange, RecordFields
    <3>6. /\ m = <<k, m[2]>> /\ n = <<k, n[2]>>
          /\ m[2] \in 1..Placed(k) /\ n[2] \in 1..Placed(k)
      BY <3>2, <3>3, <3>5, MembersOuter
    <3>7. \A x, y \in 1..Placed(k) : x < y => Finish(types[k].flds[x]) <= Begin(types[k].flds[y])
      <4>1. PICK base : base = f.offset
        OBVIOUS
      <4>2. LaidFrom(k, base)
        BY <3>4, <4>1
      <4> QED
        BY <1>2, <3>4, <4>2 DEF LaidFrom
    <3>8. PICK x, y : x = m[2] /\ y = n[2]
      OBVIOUS
    <3>9. x \in 1..Placed(k) /\ y \in 1..Placed(k) /\ x # y
      BY <1>9, <3>6, <3>8
    <3>10. x < y \/ y < x
      BY <3>5, <3>9
    <3>11. /\ EndBit(m) = Finish(types[k].flds[x]) /\ FirstBit(m) = Begin(types[k].flds[x])
           /\ EndBit(n) = Finish(types[k].flds[y]) /\ FirstBit(n) = Begin(types[k].flds[y])
      BY <3>2, <3>3, <3>8 DEF FirstBit, EndBit, Begin, Finish
    <3> QED
      BY <3>7, <3>9, <3>10, <3>11
  <2>6. i \in Int /\ j \in Int
    BY <1>5
  <2> QED
    BY <2>3, <2>4, <2>5, <2>6
<1> QED
  BY <1>7, <1>9

\* A multiple of a larger power of two is one of a smaller.
LEMMA MultiplesOfPowers ==
  ASSUME NEW a \in Exact, NEW b \in Exact, a <= b, NEW x \in Nat, x % b = 0
  PROVE  b % a = 0 /\ x % a = 0
<1>1. CASE a = 1
  BY <1>1 DEF Exact
<1>2. CASE a = 2
  BY <1>2 DEF Exact
<1>3. CASE a = 4
  BY <1>3 DEF Exact
<1>4. CASE a = 8
  BY <1>4 DEF Exact
<1> QED
  BY <1>1, <1>2, <1>3, <1>4 DEF Exact

\* Sums of multiples are multiples.
LEMMA SumOfMultiples ==
  ASSUME NEW a \in Exact, NEW x \in Nat, NEW y \in Nat, x <= y, x % a = 0, (y - x) % a = 0
  PROVE  y % a = 0
<1>1. CASE a = 1
  BY <1>1
<1>2. CASE a = 2
  BY <1>2
<1>3. CASE a = 4
  BY <1>3
<1>4. CASE a = 8
  BY <1>4
<1> QED
  BY <1>1, <1>2, <1>3, <1>4 DEF Exact

\* Members lie at multiples of their alignment, and what they hold begins there.
LEMMA AlignedFields ==
  ASSUME IInv
  PROVE  FieldsAligned
<1>1. Sound /\ Structure /\ EndingOK /\ Extents /\ Own
  BY DEF IInv
<1>2. SUFFICES ASSUME NEW r \in LaidOut, types[r].categ = T_STRUCT, MaskExact(r), NEW m \in Members(r),
                      NEW g, g = types[m[1]].flds[m[2]]
               PROVE  g.offset % Align(g) = 0 /\ types[r].align % Align(g) = 0 /\ types[r].size % Align(g) = 0
  BY DEF FieldsAligned, Align
<1>3. r \in complete /\ r \in Records /\ ~InPlace(r) /\ r \in Inside(r)
  BY <1>1, InsideReaches DEF LaidOut, Structure
<1>4. LaidFrom(r, 0) /\ Extent(r)
  BY <1>1, <1>3 DEF Own, Extents
<1>5. Placed(r) = Len(types[r].flds) /\ DOMAIN types[r].flds = 1..Len(types[r].flds)
      /\ Len(types[r].flds) \in Nat /\ types[r].size \in Nat
  BY <1>1, <1>3, PlacedRange, RecordFields
<1>6. \A n \in Members(r) : Align(types[n[1]].flds[n[2]]) \in Exact
  BY <1>2 DEF MaskExact, Align, Exact
<1>7. ASSUME NEW i \in DOMAIN types[r].flds PROVE Align(types[r].flds[i]) \in Exact
  <2>1. CASE ~Anonymous(types[r].flds[i])
    <3>1. <<r, i>> \in Members(r)
      BY <1>3, <2>1 DEF Members
    <3> QED
      BY <1>6, <3>1
  <2>2. CASE Anonymous(types[r].flds[i])
    <3>1. PICK k : k = types[r].flds[i].ty
      OBVIOUS
    <3>2. k \in complete /\ k \in Records /\ k \in Inside(r) /\ Nameless(k) = {}
      BY <2>2, <3>1, NestedLaid
    <3>3. types[k].align # 0
      BY <1>1, <1>3, <3>1 DEF Structure, WellFormedField
    <3>4. Placed(k) = Len(types[k].flds) /\ DOMAIN types[k].flds = 1..Len(types[k].flds)
      BY <1>1, <3>2, PlacedRange, RecordFields
    <3>5. PICK j \in 1..Placed(k) : Align(types[k].flds[j]) = types[k].align
      BY <1>1, <3>2, <3>3 DEF Extents, Extent
    <3>6. j \in DOMAIN types[k].flds /\ ~Anonymous(types[k].flds[j])
      BY <3>2, <3>4 DEF Nameless
    <3>7. <<k, j>> \in Members(r)
      BY <3>2, <3>6 DEF Members
    <3>8. Align(types[k].flds[j]) \in Exact
      BY <1>6, <3>7
    <3> QED
      BY <3>1, <3>5, <3>8 DEF Align
  <2> QED
    BY <2>1, <2>2
<1>8. PICK i \in DOMAIN types[r].flds : Outer(r, m, i)
  BY MembersOuter
<1>9. PICK f, a, b, top, size : /\ f = types[r].flds[i] /\ a = Align(g) /\ b = Align(f)
                                /\ top = types[r].align /\ size = types[r].size
  OBVIOUS
<1>10. a \in Exact /\ b \in Exact
  BY <1>2, <1>6, <1>7, <1>9
<1>11. top \in Exact /\ b <= top /\ size % top = 0 /\ size \in Nat
  <2>1. Placed(r) # 0
    <3>1. i \in 1..Len(types[r].flds)
      BY <1>5
    <3> QED
      BY <1>5, <3>1
  <2>2. PICK j \in 1..Placed(r) : Align(types[r].flds[j]) = types[r].align
    BY <1>4, <2>1 DEF Extent
  <2>3. top \in Exact
    BY <1>5, <1>7, <1>9, <2>2
  <2>4. b <= top
    BY <1>4, <1>5, <1>9 DEF Extent
  <2>5. size % top = 0
    BY <1>2, <1>3, <1>4, <1>9, <2>3 DEF Extent
  <2> QED
    BY <1>5, <1>9, <2>3, <2>4, <2>5
<1>12. f.offset \in Nat /\ f.offset % b = 0
  <2>1. f.offset \in Nat
    BY <1>1, <1>3, <1>9, RecordFields
  <2>2. (f.offset - 0) % b = 0
    BY <1>4, <1>5, <1>9, <1>10 DEF LaidFrom
  <2>3. f.offset - 0 = f.offset
    BY <2>1
  <2> QED
    BY <2>1, <2>2, <2>3
<1>13. a <= b /\ g.offset % a = 0
  <2>1. CASE m = <<r, i>>
    <3>1. g = f
      BY <1>2, <1>9, <2>1
    <3>2. b <= b
      BY <1>10 DEF Exact
    <3> QED
      BY <1>9, <1>12, <3>1, <3>2
  <2>2. CASE m # <<r, i>>
    <3>1. Anonymous(f) /\ m[1] = f.ty
      BY <1>8, <1>9, <2>2 DEF Outer
    <3>2. PICK k, base : k = f.ty /\ base = f.offset
      OBVIOUS
    <3>3. k \in complete /\ k \in Records /\ LaidFrom(k, base)
      BY <1>9, <3>1, <3>2, NestedLaid
    <3>4. Placed(k) = Len(types[k].flds) /\ DOMAIN types[k].flds = 1..Len(types[k].flds)
      BY <1>1, <3>3, PlacedRange, RecordFields
    <3>5. m[2] \in 1..Placed(k) /\ g = types[k].flds[m[2]] /\ g.offset \in Nat
      BY <1>1, <1>2, <3>1, <3>2, <3>3, <3>4, MembersOuter, RecordFields
    <3>6. base <= g.offset /\ (g.offset - base) % a = 0
      BY <1>9, <1>10, <3>3, <3>5 DEF LaidFrom
    <3>7. a <= b
      <4>1. Align(types[k].flds[m[2]]) <= types[k].align
        BY <1>1, <3>3, <3>5 DEF Extents, Extent
      <4>2. types[k].align = b
        BY <1>9, <3>2 DEF Align
      <4> QED
        BY <1>9, <3>5, <4>1, <4>2
    <3>8. base \in Nat /\ base % a = 0
      BY <1>10, <1>12, <3>2, <3>7, MultiplesOfPowers
    <3> QED
      BY <1>10, <3>5, <3>6, <3>7, <3>8, SumOfMultiples
  <2> QED
    BY <2>1, <2>2
<1>14. a <= top
  BY <1>10, <1>11, <1>13 DEF Exact
<1>15. top % a = 0 /\ size % a = 0
  BY <1>10, <1>11, <1>14, MultiplesOfPowers
<1> QED
  BY <1>9, <1>13, <1>15

-----------------------------------------------------------------------------
(* Theorems.                                                               *)

\* Every type is one that the context builds: a qualified copy has the category
\* and size of its base, a pointer has a pointer's, a function's parameters and
\* what a pointer, an array or a function is of are types that there are; and
\* completing function types where they stand leaves them so.
THEOREM TypesStaySound == TypesSpec => []Sound
<1>1. IInv => Sound
  BY DEF IInv
<1>2. QED
  BY <1>1, AlwaysInvariant, PTL

\* No two members share a bit in a struct that is not a nameless member itself,
\* and whose nameless members are structs, have no nameless members of their own
\* and do not directly follow a bit-field.  endRecord() places each member behind
\* the ones before, and addOffset() moves the members of a nameless one once, when
\* it is placed.  (Deeper nesting moves members twice, and they may overlap.)
THEOREM FieldsNeverOverlap == TypesSpec => []FieldsDisjoint
<1>1. IInv => FieldsDisjoint
  BY DisjointFields
<1>2. QED
  BY <1>1, AlwaysInvariant, PTL

\* A member lies at a multiple of its alignment, and the struct's size is one of
\* the largest, so that they do so in arrays as well: for the same structs, unions
\* among their nameless members too, and alignments of 1, 2, 4 and 8.
THEOREM FieldsStayAligned == TypesSpec => []FieldsAligned
<1>1. IInv => FieldsAligned
  BY AlignedFields
<1>2. QED
  BY <1>1, AlwaysInvariant, PTL

\* It does not matter which of two declarations comes first: isCompatible() says
\* the same of their types in both orders, at any depth of nesting.
THEOREM CompatibilityIsSymmetric == TypesSpec => []CompatibleSymmetric
<1>1. IInv => CompatibleSymmetric
  BY CompatibleBothWays DEF IInv
<1>2. QED
  BY <1>1, AlwaysInvariant, PTL

\* Whatever the operands' types and qualifiers, a binary expression has the type
\* that C's usual arithmetic conversions give it.
THEOREM ArithmeticIsLikeC == TypesSpec => []ArithmeticAsC
<1>1. IInv => ArithmeticAsC
  BY ArithmeticConversions DEF IInv
<1>2. QED
  BY <1>1, AlwaysInvariant, PTL
=============================================================================
