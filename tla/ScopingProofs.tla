---------------------------- MODULE ScopingProofs ----------------------------
(***************************************************************************)
(* Proofs about module Scoping, for any names, hash function and number of *)
(* symbols, events, blocks and functions: the table of hash chains is a    *)
(* stack of scopes in both passes, the checker finds for each name what    *)
(* the text means by it, inside a scope there is a function, the passes    *)
(* agree on what the names mean, and each lists a function's variables     *)
(* once.                                                                   *)
(*                                                                         *)
(* The argument: what InScope finds is the first symbol of a chain with    *)
(* the name, so a symbol put in front of a chain is found for its own name *)
(* and shifts the others; and the events of a unit alternate between       *)
(* "function" and "end", in the checker, which records them, and in the    *)
(* generator, which replays them.  While no declaration hides another,     *)
(* what either pass sees of a name is the last event that declared it.     *)
(* And since "function" and "end" alternate, an event is of one function,  *)
(* whose list is the one that is appended to.  And the scope at level l is *)
(* the block that l - 1 blocks of the text surround: what it shows is the  *)
(* latest declaration of that depth that no close has followed.            *)
(***************************************************************************)
EXTENDS Scoping, WellFoundedInduction, FiniteSetTheorems, TLAPS

-----------------------------------------------------------------------------
(* Least and greatest elements.                                            *)

LEMMA LeastNat ==
  ASSUME NEW S \in SUBSET Nat, S # {}
  PROVE  \E m \in S : \A k \in S : m <= k
<1> DEFINE R == OpToRel(<, Nat)
<1>1. IsWellFoundedOn(R, Nat)
  BY NatLessThanWellFounded
<1>2. \A j, k \in Nat : j < k => <<j, k>> \in R
  BY DEF OpToRel
<1> HIDE DEF R
<1>3. PICK m \in S : \A k \in S : ~(<<k, m>> \in R)
  BY <1>1, WFMin
<1>4. ASSUME NEW k \in S PROVE m <= k
  <2>1. ~(k < m)
    BY <1>2, <1>3
  <2>2. QED
    BY <2>1
<1>5. QED
  BY <1>4

LEMMA MinIs ==
  ASSUME NEW S \in SUBSET Int, NEW m \in S, \A k \in S : m <= k
  PROVE  Min(S) = m
<1>1. \E k \in S : \A j \in S : k <= j
  OBVIOUS
<1>2. Min(S) \in S /\ \A j \in S : Min(S) <= j
  BY <1>1 DEF Min
<1>3. Min(S) <= m /\ m <= Min(S) /\ Min(S) \in Int /\ m \in Int
  BY <1>2
<1>4. QED
  BY <1>3

LEMMA MinOfNats ==
  ASSUME NEW S \in SUBSET Nat, S # {}
  PROVE  Min(S) \in S /\ \A k \in S : Min(S) <= k
BY LeastNat DEF Min

LEMMA MaxOfNats ==
  ASSUME NEW n \in Nat, NEW S \in SUBSET (1..n), S # {}
  PROVE  Max(S) \in S /\ \A k \in S : k <= Max(S)
<1> DEFINE T == {n - k : k \in S}
<1>1. T \in SUBSET Nat /\ T # {}
  <2>1. \A k \in 1..n : n - k \in Nat
    OBVIOUS
  <2>2. QED
    BY <2>1
<1>2. PICK m \in T : \A k \in T : m <= k
  BY <1>1, LeastNat
<1>3. PICK k \in S : m = n - k
  OBVIOUS
<1>4. \A j \in S : n - j \in T /\ j \in Int
  OBVIOUS
<1> HIDE DEF T
<1>5. \A j \in S : k >= j
  BY <1>2, <1>3, <1>4
<1>6. Max(S) \in S /\ \A j \in S : Max(S) >= j
  BY <1>3, <1>5 DEF Max
<1>7. QED
  BY <1>4, <1>6

-----------------------------------------------------------------------------
(* The table.                                                              *)

Ids == 1..Len(symbols)
Symbols == [kind : {"SK_Variable", "SK_Function"}, name : Names, sclass : StorageClasses,
            level : Int, by : Nat]

\* The chains hold symbols there are, and level counts the scopes.
TableTypes ==
  /\ symbols \in Seq(Symbols) /\ Len(symbols) <= MaxSymbols
  /\ identifiers \in Seq([Buckets -> Seq(Ids)]) /\ Len(identifiers) > 0
  /\ level = Len(identifiers) - 1

\* What InScope returns, without its Min: the first of the chain with the name.
View == [l \in DOMAIN identifiers |-> [n \in Names |-> InScope(identifiers[l], n)]]

\* Pushing and popping scopes pushes and pops what they show.
LEMMA EnterView ==
  ASSUME TableTypes, EnterScope
  PROVE  TableTypes' /\ View' = Append(View, [n \in Names |-> NoSymbol])
<1>1. EmptyScope \in [Buckets -> Seq(Ids)] /\ symbols' = symbols
      /\ identifiers' = Append(identifiers, EmptyScope) /\ level' = level + 1
  BY DEF EnterScope, EmptyScope
<1>2. identifiers \in Seq([Buckets -> Seq(Ids)]) /\ Len(identifiers) \in Nat
      /\ DOMAIN identifiers = 1..Len(identifiers)
  BY DEF TableTypes
<1> HIDE DEF Ids
<1>3. /\ identifiers' \in Seq([Buckets -> Seq(Ids)]) /\ Len(identifiers') = Len(identifiers) + 1
      /\ DOMAIN identifiers' = 1..(Len(identifiers) + 1)
      /\ \A l \in 1..Len(identifiers) : identifiers'[l] = identifiers[l]
      /\ identifiers'[Len(identifiers) + 1] = EmptyScope
  BY <1>1, <1>2
<1>4. TableTypes'
  BY <1>1, <1>2, <1>3 DEF TableTypes, Ids
<1> PICK len \in Nat : len = Len(identifiers)
  BY <1>2
<1>5. \A n \in Names : InScope(EmptyScope, n)' = NoSymbol
  BY HashAssumption DEF InScope, InChain, EmptyScope
<1>6. ASSUME NEW l \in 1..len, NEW n \in Names
      PROVE  InScope(identifiers[l], n)' = InScope(identifiers[l], n)
  <2>1. identifiers'[l] = identifiers[l] /\ symbols' = symbols
    BY <1>1, <1>3
  <2>2. InChain(identifiers[l], n)' = InChain(identifiers[l], n)
    BY <2>1 DEF InChain
  <2>3. QED
    BY <2>1, <2>2 DEF InScope
<1> DEFINE wider == Append(View, [n \in Names |-> NoSymbol])
<1>7. /\ DOMAIN wider = 1..(len + 1)
      /\ \A l \in 1..len : wider[l] = [n \in Names |-> InScope(identifiers[l], n)]
      /\ wider[len + 1] = [n \in Names |-> NoSymbol]
      /\ wider = [l \in 1..(len + 1) |-> wider[l]]
  <2> DEFINE none == [n \in Names |-> NoSymbol]
             S == {View[l] : l \in 1..len} \cup {none}
  <2>1. View = [l \in 1..len |-> [n \in Names |-> InScope(identifiers[l], n)]]
    BY <1>2 DEF View
  <2>2. View \in Seq(S) /\ Len(View) = len /\ none \in S
    <3>1. View \in [1..len -> S]
      BY <2>1
    <3> HIDE DEF S, none
    <3>2. QED
      BY <3>1 DEF S
  <2> HIDE DEF S, none
  <2>3. /\ wider = Append(View, none) /\ DOMAIN wider = 1..(len + 1)
        /\ \A l \in 1..len : wider[l] = View[l]
        /\ wider[len + 1] = none
        /\ wider = [l \in 1..(len + 1) |-> wider[l]]
    BY <2>2 DEF none
  <2>4. QED
    BY <2>1, <2>3 DEF none
<1> HIDE DEF wider
<1>8. View' = [l \in 1..(len + 1) |-> [n \in Names |-> InScope(identifiers[l], n)']]
  BY <1>3 DEF View
<1>9. ASSUME NEW l \in 1..(len + 1)
      PROVE  [n \in Names |-> InScope(identifiers[l], n)'] = wider[l]
  <2>1. CASE l \in 1..len
    <3>1. \A n \in Names : InScope(identifiers[l], n)' = InScope(identifiers[l], n)
      BY <1>6, <2>1
    <3>2. wider[l] = [n \in Names |-> InScope(identifiers[l], n)]
      BY <1>7, <2>1
    <3>3. QED
      BY <3>1, <3>2
  <2>2. CASE l = len + 1
    <3>1. identifiers'[l] = EmptyScope
      BY <1>3, <2>2
    <3>2. \A n \in Names : InScope(identifiers[l], n)' = NoSymbol
      BY <1>5, <3>1 DEF EmptyScope
    <3>3. QED
      BY <1>7, <2>2, <3>2
  <2>3. QED
    BY <2>1, <2>2
<1>10. View' = wider
  BY <1>7, <1>8, <1>9
<1>11. QED
  BY <1>4, <1>10 DEF wider

LEMMA ExitView ==
  ASSUME TableTypes, level > 0, ExitScope
  PROVE  /\ TableTypes'
         /\ Len(View) > 1 /\ View' = SubSeq(View, 1, Len(View) - 1)
<1>1. /\ symbols' = symbols /\ level' = level - 1
      /\ identifiers' = SubSeq(identifiers, 1, Len(identifiers) - 1)
  BY DEF ExitScope
<1>2. /\ identifiers \in Seq([Buckets -> Seq(Ids)]) /\ Len(identifiers) \in Nat
      /\ DOMAIN identifiers = 1..Len(identifiers) /\ Len(identifiers) > 1
  BY DEF TableTypes
<1> HIDE DEF Ids
<1>3. /\ identifiers' \in Seq([Buckets -> Seq(Ids)]) /\ Len(identifiers') = Len(identifiers) - 1
      /\ DOMAIN identifiers' = 1..(Len(identifiers) - 1)
      /\ \A l \in 1..(Len(identifiers) - 1) : identifiers'[l] = identifiers[l]
  BY <1>1, <1>2
<1>4. TableTypes'
  BY <1>1, <1>2, <1>3 DEF TableTypes, Ids
<1>5. \A l \in 1..(Len(identifiers) - 1), n \in Names :
         InScope(identifiers[l], n)' = InScope(identifiers[l], n)
  BY <1>1, <1>3 DEF InScope, InChain
<1>6. View' = [l \in 1..(Len(identifiers) - 1) |-> [n \in Names |-> InScope(identifiers[l], n)]]
  BY <1>3, <1>5 DEF View
<1>7. Len(View) = Len(identifiers)
  BY <1>2 DEF View
<1>8. SubSeq(View, 1, Len(View) - 1) = [l \in 1..(Len(identifiers) - 1) |-> View[l]]
  BY <1>2, <1>7
<1>9. \A l \in 1..(Len(identifiers) - 1) : View[l] = [n \in Names |-> InScope(identifiers[l], n)]
  BY <1>2 DEF View
<1>10. QED
  BY <1>2, <1>4, <1>6, <1>7, <1>8, <1>9

\* A symbol created in a scope is what its name means there; nothing else the
\* table shows changes, in whichever chain the symbol is put.
LEMMA CreateView ==
  ASSUME TableTypes, NEW scope \in DOMAIN identifiers, NEW kind \in {"SK_Variable", "SK_Function"},
         NEW n \in Names, NEW sclass \in StorageClasses, NEW by \in Nat,
         Create(scope, kind, n, sclass, by), level' = level
  PROVE  /\ TableTypes' /\ NewSymbol \in SymbolIds /\ Len(symbols') = NewSymbol
         /\ View' = [View EXCEPT ![scope][n] = NewSymbol]
         /\ \A s \in Ids : symbols'[s] = symbols[s]
         /\ symbols'[NewSymbol].kind = kind /\ symbols'[NewSymbol].by = by
<1> DEFINE new == [kind |-> kind, name |-> n, sclass |-> sclass, level |-> scope - 1, by |-> by]
           h == Hash[n]
<1> PICK count \in Nat : count = Len(symbols)
  BY DEF TableTypes
<1>1. /\ symbols \in Seq(Symbols) /\ h \in Buckets /\ Ids = 1..count
      /\ identifiers \in Seq([Buckets -> Seq(1..count)]) /\ Len(identifiers) > 0
      /\ DOMAIN identifiers = 1..Len(identifiers) /\ Len(identifiers) \in Nat
      /\ level = Len(identifiers) - 1 /\ scope \in 1..Len(identifiers)
  <2>1. Ids = 1..count /\ h \in Buckets
    BY HashAssumption DEF Ids
  <2>2. symbols \in Seq(Symbols) /\ identifiers \in Seq([Buckets -> Seq(Ids)])
        /\ Len(identifiers) > 0 /\ level = Len(identifiers) - 1
    BY DEF TableTypes
  <2> HIDE DEF Ids, h
  <2>3. DOMAIN identifiers = 1..Len(identifiers) /\ Len(identifiers) \in Nat
    BY <2>2
  <2>4. QED
    BY <2>1, <2>2, <2>3
<1>2. /\ NewSymbol = count + 1 /\ NewSymbol <= MaxSymbols
      /\ symbols' = Append(symbols, new)
      /\ identifiers' = [identifiers EXCEPT ![scope][h] = <<NewSymbol>> \o @]
  BY DEF Create, NewSymbol
<1>3. new \in Symbols /\ new.name = n /\ new.kind = kind /\ new.by = by
  BY <1>1 DEF Symbols
<1> HIDE DEF new
<1>4. /\ symbols' \in Seq(Symbols) /\ Len(symbols') = count + 1
      /\ \A s \in 1..count : symbols'[s] = symbols[s]
      /\ symbols'[count + 1] = new
  BY <1>1, <1>2, <1>3
<1> DEFINE c == identifiers[scope][h]
           d == <<NewSymbol>> \o c
<1>5. identifiers[scope] \in [Buckets -> Seq(1..count)] /\ c \in Seq(1..count) /\ Len(c) \in Nat
  BY <1>1
<1>6. /\ d \in Seq(1..(count + 1)) /\ DOMAIN d = 1..(Len(c) + 1) /\ DOMAIN c = 1..Len(c)
      /\ d[1] = count + 1 /\ \A i \in 1..Len(c) : d[i + 1] = c[i]
  <2>1. c \in Seq(1..(count + 1)) /\ <<NewSymbol>> \in Seq(1..(count + 1))
    BY <1>2, <1>5
  <2> HIDE DEF c
  <2>2. QED
    BY <1>2, <2>1
<1>7. /\ identifiers' \in Seq([Buckets -> Seq(1..(count + 1))])
      /\ Len(identifiers') = Len(identifiers) /\ DOMAIN identifiers' = DOMAIN identifiers
      /\ \A l \in DOMAIN identifiers, b \in Buckets :
            identifiers'[l][b] = IF l = scope /\ b = h THEN d ELSE identifiers[l][b]
  <2>1. identifiers' = [identifiers EXCEPT ![scope] = [identifiers[scope] EXCEPT ![h] = d]]
    BY <1>2
  <2>2. \A l \in DOMAIN identifiers : identifiers[l] \in [Buckets -> Seq(1..(count + 1))]
    BY <1>1
  <2> HIDE DEF d, c
  <2>3. [identifiers[scope] EXCEPT ![h] = d] \in [Buckets -> Seq(1..(count + 1))]
    BY <1>1, <1>6, <2>2
  <2> DEFINE new1 == [identifiers[scope] EXCEPT ![h] = d]
             T == [Buckets -> Seq(1..(count + 1))]
  <2>4. /\ identifiers \in Seq(T) /\ new1 \in T
        /\ identifiers' = [identifiers EXCEPT ![scope] = new1]
    <3>1. identifiers \in Seq(T)
      <4>1. identifiers \in Seq([Buckets -> Seq(1..count)])
        BY <1>1
      <4> HIDE DEF T
      <4>2. \A l \in 1..Len(identifiers) : identifiers[l] \in T
        BY <1>1, <2>2 DEF T
      <4>3. identifiers \in [1..Len(identifiers) -> T] /\ Len(identifiers) \in Nat
        BY <1>1, <4>1, <4>2
      <4>4. QED
        BY <4>3
    <3>2. QED
      BY <2>1, <2>3, <3>1
  <2>5. \A b \in Buckets : new1[b] = IF b = h THEN d ELSE identifiers[scope][b]
    BY <1>1
  <2> HIDE DEF T, new1
  <2>6. /\ identifiers' \in Seq(T) /\ Len(identifiers') = Len(identifiers)
        /\ DOMAIN identifiers' = DOMAIN identifiers
        /\ identifiers'[scope] = new1
        /\ \A l \in DOMAIN identifiers : l # scope => identifiers'[l] = identifiers[l]
    BY <1>1, <2>4
  <2>7. QED
    BY <2>5, <2>6 DEF T
<1>8. TableTypes'
  BY <1>1, <1>2, <1>4, <1>7 DEF TableTypes, Ids
<1> HIDE DEF c, d, h
<1>9. ASSUME NEW l \in DOMAIN identifiers, NEW m \in Names, l # scope \/ Hash[m] # h
      PROVE  InScope(identifiers[l], m)' = InScope(identifiers[l], m)
  <2>1. Hash[m] \in Buckets /\ identifiers[l][Hash[m]] \in Seq(1..count)
    BY <1>1, HashAssumption
  <2>2. identifiers'[l][Hash[m]] = identifiers[l][Hash[m]]
    BY <1>7, <1>9, <2>1
  <2>3. \A i \in DOMAIN identifiers[l][Hash[m]] : identifiers[l][Hash[m]][i] \in 1..count
    BY <2>1
  <2>4. InChain(identifiers[l], m)' = InChain(identifiers[l], m)
    BY <1>4, <2>2, <2>3 DEF InChain
  <2>5. QED
    BY <2>2, <2>4 DEF InScope
<1>10. c = identifiers[scope][h] /\ identifiers'[scope][h] = d
  BY <1>1, <1>7 DEF c
<1>11. InScope(identifiers[scope], n)' = count + 1
  <2>1. h = Hash[n]
    BY DEF h
  <2>2. InChain(identifiers[scope], n)' = {i \in DOMAIN d : symbols'[d[i]].name = n}
    BY <1>10, <2>1 DEF InChain
  <2> DEFINE S == {i \in DOMAIN d : symbols'[d[i]].name = n}
  <2>3. S \in SUBSET Int /\ 1 \in S /\ \A i \in S : 1 <= i
    BY <1>3, <1>4, <1>5, <1>6
  <2> HIDE DEF S
  <2>4. Min(S) = 1 /\ S # {}
    BY <2>3, MinIs
  <2>5. InScope(identifiers[scope], n)' = d[Min(S)]
    BY <1>10, <2>1, <2>2, <2>4 DEF InScope, S
  <2>6. QED
    BY <1>6, <2>4, <2>5
<1>12. ASSUME NEW m \in Names, m # n, Hash[m] = h
       PROVE  InScope(identifiers[scope], m)' = InScope(identifiers[scope], m)
  <2> DEFINE S == {i \in DOMAIN c : symbols[c[i]].name = m}
             T == {i \in DOMAIN d : symbols'[d[i]].name = m}
  <2>1. InChain(identifiers[scope], m) = S /\ InChain(identifiers[scope], m)' = T
    BY <1>10, <1>12 DEF InChain
  <2>2. \A i \in 1..Len(c) : /\ c[i] \in 1..count /\ symbols'[c[i]] = symbols[c[i]]
                             /\ d[i + 1] = c[i] /\ i + 1 \in 1..(Len(c) + 1)
    BY <1>4, <1>5, <1>6
  <2>3. symbols'[d[1]].name # m
    BY <1>3, <1>4, <1>6, <1>12
  <2>4. \A i \in 1..(Len(c) + 1) : i = 1 \/ (i - 1 \in 1..Len(c) /\ (i - 1) + 1 = i)
    BY <1>5
  <2>5. \A i \in 1..Len(c) : i \in S <=> i + 1 \in T
    BY <1>6, <2>2
  <2>6. \A j \in T : j - 1 \in S /\ (j - 1) + 1 = j
    BY <1>6, <2>2, <2>3, <2>4
  <2>7. S \in SUBSET Nat /\ S \subseteq 1..Len(c) /\ T \in SUBSET Int
    BY <1>5, <1>6
  <2>8. InScope(identifiers[scope], m) = IF S = {} THEN NoSymbol ELSE c[Min(S)]
    BY <1>10, <1>12, <2>1 DEF InScope
  <2>9. InScope(identifiers[scope], m)' = IF T = {} THEN NoSymbol ELSE d[Min(T)]
    BY <1>10, <1>12, <2>1 DEF InScope
  <2> HIDE DEF S, T
  <2>10. CASE S = {}
    <3>1. T = {}
      BY <2>6, <2>10
    <3>2. QED
      BY <2>8, <2>9, <2>10, <3>1
  <2>11. CASE S # {}
    <3>1. PICK k \in S : \A j \in S : k <= j
      BY <2>7, <2>11, LeastNat
    <3>2. Min(S) = k
      BY <2>7, <3>1, MinIs
    <3>3. k + 1 \in T /\ \A j \in T : k + 1 <= j
      BY <2>5, <2>6, <2>7, <3>1
    <3>4. Min(T) = k + 1 /\ T # {}
      BY <2>7, <3>3, MinIs
    <3>5. d[k + 1] = c[k]
      BY <2>2, <2>7
    <3>6. QED
      BY <2>8, <2>9, <2>11, <3>2, <3>4, <3>5
  <2>12. QED
    BY <2>10, <2>11
<1>13. \A l \in DOMAIN identifiers, m \in Names :
          InScope(identifiers[l], m)' = IF l = scope /\ m = n THEN count + 1 ELSE InScope(identifiers[l], m)
  BY <1>9, <1>11, <1>12 DEF h
<1>14. View' = [l \in DOMAIN identifiers |-> [m \in Names |-> InScope(identifiers[l], m)']]
  BY <1>7 DEF View
<1>15. View' = [View EXCEPT ![scope][n] = NewSymbol]
  <2>1. ASSUME NEW l \in DOMAIN identifiers
        PROVE  [m \in Names |-> InScope(identifiers[l], m)'] = [View EXCEPT ![scope][n] = NewSymbol][l]
    <3>1. \A m \in Names : InScope(identifiers[l], m)' = IF l = scope /\ m = n THEN count + 1 ELSE InScope(identifiers[l], m)
      BY <1>13
    <3>2. View[l] = [m \in Names |-> InScope(identifiers[l], m)]
      BY DEF View
    <3>3. [View EXCEPT ![scope][n] = NewSymbol][l] =
             IF l = scope THEN [View[l] EXCEPT ![n] = NewSymbol] ELSE View[l]
      BY DEF View
    <3>4. QED
      BY <1>2, <3>1, <3>2, <3>3
  <2>2. [View EXCEPT ![scope][n] = NewSymbol] =
           [l \in DOMAIN identifiers |-> [View EXCEPT ![scope][n] = NewSymbol][l]]
    BY DEF View
  <2>3. QED
    BY <1>14, <2>1, <2>2
<1>16. QED
  BY <1>1, <1>2, <1>3, <1>4, <1>8, <1>15 DEF SymbolIds

-----------------------------------------------------------------------------
(* The walks.                                                              *)

Kinds == {"function", "body", "open", "close", "end", "declare", "use"}
EventType == [kind : Kinds, name : Names \cup {NoName}, seen : BOOLEAN]

\* No function is being walked behind event k of the unit.
Outside(k) == k = 0 \/ unit[k].kind = "end"

\* "function" and "end" alternate, and each function of the unit has its symbol.
UnitInv ==
  /\ unit \in Seq(EventType)
  /\ \A i \in DOMAIN unit :
       /\ unit[i].kind = "function" <=> Outside(i - 1)
       /\ unit[i].kind = "function" =>
             \E s \in Ids : symbols[s].by = i /\ symbols[s].kind = "SK_Function"
       /\ unit[i].kind \in {"declare", "use"} => unit[i].name \in Names

\* Where each pass is in the unit tells whether a function's scope is open.
WalkInv ==
  /\ depth \in Nat /\ pos \in Nat
  /\ level > 0 => currentFunc # NoSymbol
  /\ phase = "sema" => /\ currentFunc = NoSymbol <=> Outside(Len(unit))
                       /\ depth = IF level = 0 THEN 0 ELSE level - 1
  /\ phase = "ir" => /\ pos \in 1..(Len(unit) + 1)
                     /\ level = IF Outside(pos - 1) THEN 0 ELSE 1

ScopeInv == TableTypes /\ UnitInv /\ WalkInv

\* What a step may do to what the table shows.
ViewNext ==
  \/ View' = Append(View, [n \in Names |-> NoSymbol])
  \/ Len(View) > 1 /\ View' = SubSeq(View, 1, Len(View) - 1)
  \/ \E l \in {1, Len(View)}, n \in Names, s \in SymbolIds : View' = [View EXCEPT ![l][n] = s]
  \/ View' = View

LEMMA InitScope == ScopingInit => ScopeInv
<1> SUFFICES ASSUME ScopingInit PROVE ScopeInv
  OBVIOUS
<1>1. /\ symbols = << >> /\ identifiers = <<EmptyScope>> /\ level = 0 /\ currentFunc = NoSymbol
      /\ phase = "sema" /\ unit = << >> /\ depth = 0 /\ pos = 0
  BY DEF ScopingInit, TableInit
<1>2. EmptyScope \in [Buckets -> Seq(Ids)]
  BY DEF EmptyScope
<1>3. TableTypes
  <2> HIDE DEF Ids
  <2>1. identifiers \in Seq([Buckets -> Seq(Ids)]) /\ Len(identifiers) = 1
    BY <1>1, <1>2
  <2>2. symbols \in Seq(Symbols) /\ Len(symbols) = 0
    BY <1>1
  <2>3. QED
    BY <1>1, <2>1, <2>2, SymbolBound DEF TableTypes
<1>4. UnitInv /\ WalkInv
  BY <1>1 DEF UnitInv, WalkInv, Outside
<1>5. QED
  BY <1>3, <1>4 DEF ScopeInv

\* The checker records an event.
LEMMA RecordUnit ==
  ASSUME UnitInv, NEW e \in EventType, unit' = Append(unit, e),
         Len(symbols') \in Nat, Len(symbols) \in Nat, Len(symbols') >= Len(symbols),
         \A s \in Ids : symbols'[s] = symbols[s],
         e.kind = "function" <=> Outside(Len(unit)),
         e.kind = "function" => \E s \in Ids' : symbols'[s].by = Here /\ symbols'[s].kind = "SK_Function",
         e.kind \in {"declare", "use"} => e.name \in Names
  PROVE  UnitInv' /\ (Outside(Len(unit))' <=> e.kind = "end")
<1> PICK len \in Nat : len = Len(unit)
  BY DEF UnitInv
<1>1. /\ unit \in Seq(EventType) /\ DOMAIN unit = 1..len
      /\ unit' \in Seq(EventType) /\ Len(unit') = len + 1 /\ DOMAIN unit' = 1..(len + 1)
      /\ \A i \in 1..len : unit'[i] = unit[i]
      /\ unit'[len + 1] = e
  BY DEF UnitInv
<1>2. \A k \in 0..len : Outside(k)' <=> Outside(k)
  BY <1>1 DEF Outside
<1>3. \A s \in Ids : s \in Ids'
  BY DEF Ids
<1>4. ASSUME NEW i \in DOMAIN unit'
      PROVE  /\ unit'[i].kind = "function" <=> Outside(i - 1)'
             /\ unit'[i].kind = "function" =>
                   \E s \in Ids' : symbols'[s].by = i /\ symbols'[s].kind = "SK_Function"
             /\ unit'[i].kind \in {"declare", "use"} => unit'[i].name \in Names
  <2>1. CASE i \in 1..len
    <3>1. i - 1 \in 0..len /\ unit'[i] = unit[i]
      BY <1>1, <2>1
    <3>2. QED
      BY <1>1, <1>2, <1>3, <2>1, <3>1 DEF UnitInv
  <2>2. CASE i = len + 1
    <3>1. i - 1 = len /\ unit'[i] = e /\ Here = i
      BY <1>1, <2>2 DEF Here
    <3>2. Outside(len)' <=> Outside(Len(unit))
      BY <1>2
    <3>3. QED
      BY <3>1, <3>2
  <2>3. QED
    BY <1>1, <2>1, <2>2
<1>5. Outside(Len(unit))' <=> e.kind = "end"
  BY <1>1 DEF Outside
<1>6. QED
  BY <1>1, <1>4, <1>5 DEF UnitInv

\* Without a new event, symbols are only added.
LEMMA SameUnit ==
  ASSUME UnitInv, unit' = unit,
         Len(symbols') \in Nat, Len(symbols) \in Nat, Len(symbols') >= Len(symbols),
         \A s \in Ids : symbols'[s] = symbols[s]
  PROVE  UnitInv' /\ \A k : Outside(k)' <=> Outside(k)
<1>1. \A s \in Ids : s \in Ids'
  BY DEF Ids
<1>2. \A k : Outside(k)' <=> Outside(k)
  BY DEF Outside
<1>3. QED
  BY <1>1, <1>2 DEF UnitInv

\* A scope is open or closed, or nothing happens to the scopes at all.
LEMMA SameView ==
  ASSUME TableTypes, UNCHANGED <<symbols, identifiers, level>>
  PROVE  TableTypes' /\ View' = View
BY DEF TableTypes, View, InScope, InChain, Ids

LEMMA AddVariableView ==
  ASSUME TableTypes, NEW n \in Names, NEW sclass \in StorageClasses, NEW by \in Nat,
         AddVariable(n, sclass, by)
  PROVE  /\ TableTypes' /\ ViewNext /\ level' = level /\ currentFunc' = currentFunc
         /\ Len(symbols') \in Nat /\ Len(symbols) \in Nat /\ Len(symbols') >= Len(symbols)
         /\ \A s \in Ids : symbols'[s] = symbols[s]
<1>1. /\ Create(Len(identifiers), "SK_Variable", n, sclass, by)
      /\ level' = level /\ currentFunc' = currentFunc
  BY DEF AddVariable
<1>2. Len(identifiers) \in DOMAIN identifiers /\ Len(View) = Len(identifiers) /\ Len(symbols) \in Nat
  BY DEF TableTypes, View
<1>3. /\ TableTypes' /\ NewSymbol \in SymbolIds /\ Len(symbols') = NewSymbol
      /\ View' = [View EXCEPT ![Len(identifiers)][n] = NewSymbol]
      /\ \A s \in Ids : symbols'[s] = symbols[s]
  BY <1>1, <1>2, CreateView
<1>4. \E l \in {1, Len(View)}, m \in Names, s \in SymbolIds : View' = [View EXCEPT ![l][m] = s]
  BY <1>2, <1>3
<1>5. Len(symbols') \in Nat /\ Len(symbols') >= Len(symbols)
  BY <1>2, <1>3 DEF NewSymbol
<1>6. QED
  BY <1>1, <1>2, <1>3, <1>4, <1>5 DEF ViewNext

LEMMA AddFunctionView ==
  ASSUME TableTypes, NEW n \in Names, NEW by \in Nat, AddFunction(n, by)
  PROVE  /\ TableTypes' /\ ViewNext /\ level' = level
         /\ Len(symbols') \in Nat /\ Len(symbols) \in Nat /\ Len(symbols') >= Len(symbols)
         /\ \A s \in Ids : symbols'[s] = symbols[s]
         /\ NewSymbol \in Ids' /\ NewSymbol # NoSymbol
         /\ symbols'[NewSymbol].by = by /\ symbols'[NewSymbol].kind = "SK_Function"
<1>1. Create(1, "SK_Function", n, "none", by) /\ level' = level
  BY DEF AddFunction
<1>2. 1 \in DOMAIN identifiers /\ Len(symbols) \in Nat /\ "none" \in StorageClasses
  BY DEF TableTypes, StorageClasses
<1>3. /\ TableTypes' /\ NewSymbol \in SymbolIds /\ Len(symbols') = NewSymbol
      /\ View' = [View EXCEPT ![1][n] = NewSymbol]
      /\ \A s \in Ids : symbols'[s] = symbols[s]
      /\ symbols'[NewSymbol].kind = "SK_Function" /\ symbols'[NewSymbol].by = by
  BY <1>1, <1>2, CreateView
<1>4. \E l \in {1, Len(View)}, m \in Names, s \in SymbolIds : View' = [View EXCEPT ![l][m] = s]
  BY <1>3
<1>5. NewSymbol \in Nat /\ NewSymbol > 0 /\ Len(symbols') \in Nat /\ Len(symbols') >= Len(symbols)
  BY <1>2, <1>3 DEF NewSymbol
<1>6. NewSymbol \in Ids' /\ NewSymbol # NoSymbol
  BY <1>3, <1>5 DEF Ids, NoSymbol
<1>7. QED
  BY <1>1, <1>2, <1>3, <1>4, <1>5, <1>6 DEF ViewNext

-----------------------------------------------------------------------------
(* The checker's steps.                                                    *)

LEMMA SemaFunctionScope ==
  ASSUME ScopeInv, NEW n \in Names, SemaFunction(n)
  PROVE  ScopeInv' /\ ViewNext
<1> DEFINE e == Event("function", n, TRUE)
<1>1. /\ phase = "sema" /\ level = 0 /\ currentFunc = NoSymbol
      /\ AddFunction(n, Here) /\ currentFunc' = NewSymbol
      /\ unit' = Append(unit, e) /\ UNCHANGED <<phase, pos, depth>>
  BY DEF SemaFunction, Record
<1>2. TableTypes /\ UnitInv /\ WalkInv /\ Here \in Nat
  BY DEF ScopeInv, UnitInv, Here
<1>3. /\ e \in EventType /\ e.kind = "function" /\ Outside(Len(unit))
  BY <1>1, <1>2 DEF Event, EventType, Kinds, WalkInv
<1> HIDE DEF e
<1>4. /\ TableTypes' /\ ViewNext /\ level' = level
      /\ Len(symbols') \in Nat /\ Len(symbols) \in Nat /\ Len(symbols') >= Len(symbols)
      /\ \A s \in Ids : symbols'[s] = symbols[s]
      /\ NewSymbol \in Ids' /\ NewSymbol # NoSymbol
      /\ symbols'[NewSymbol].by = Here /\ symbols'[NewSymbol].kind = "SK_Function"
  BY <1>1, <1>2, AddFunctionView
<1>5. UnitInv' /\ ~Outside(Len(unit))'
  <2>1. \E s \in Ids' : symbols'[s].by = Here /\ symbols'[s].kind = "SK_Function"
    BY <1>4
  <2>2. QED
    BY <1>1, <1>2, <1>3, <1>4, <2>1, RecordUnit
<1>6. WalkInv'
  BY <1>1, <1>2, <1>4, <1>5 DEF WalkInv
<1>7. QED
  BY <1>4, <1>5, <1>6 DEF ScopeInv

\* What the other steps of the checker inside a function have in common.
LEMMA InFunctionScope ==
  ASSUME ScopeInv, InFunction, NEW e \in EventType, e.kind # "function",
         unit' = Append(unit, e), UNCHANGED <<phase, pos>>,
         TableTypes', depth' \in Nat,
         Len(symbols') \in Nat, Len(symbols) \in Nat, Len(symbols') >= Len(symbols),
         \A s \in Ids : symbols'[s] = symbols[s],
         e.kind \in {"declare", "use"} => e.name \in Names,
         e.kind # "end" => /\ currentFunc' = currentFunc
                           /\ level' > 0 /\ depth' = level' - 1,
         e.kind = "end" => currentFunc' = NoSymbol /\ level' = 0 /\ depth' = 0
  PROVE  ScopeInv'
<1>1. TableTypes /\ UnitInv /\ WalkInv /\ phase = "sema" /\ currentFunc # NoSymbol
  BY DEF ScopeInv, InFunction, WalkInv
<1>2. ~Outside(Len(unit))
  BY <1>1 DEF WalkInv
<1>3. UnitInv' /\ (Outside(Len(unit))' <=> e.kind = "end")
  BY <1>1, <1>2, RecordUnit
<1>4. WalkInv'
  BY <1>1, <1>3 DEF WalkInv
<1>5. QED
  BY <1>3, <1>4 DEF ScopeInv

LEMMA SemaNameScope ==
  ASSUME ScopeInv, NEW n \in Names, NEW k \in {"declare", "use"},
         SemaDeclare(n) \/ SemaUse(n) \/ SemaUnseen(k, n)
  PROVE  ScopeInv' /\ ViewNext
<1>1. /\ TableTypes /\ UnitInv /\ WalkInv /\ Len(symbols) \in Nat /\ Len(identifiers) \in Nat
      /\ level = Len(identifiers) - 1 /\ level \in Nat
  BY DEF ScopeInv, TableTypes
<1>2. InFunction => depth = level - 1 /\ depth \in Nat /\ level > 0 /\ phase = "sema"
  BY <1>1 DEF InFunction, WalkInv
<1>3. CASE SemaDeclare(n)
  <2> DEFINE e == Event("declare", n, TRUE)
  <2>1. /\ InFunction /\ AddVariable(n, "none", Here) /\ unit' = Append(unit, e)
        /\ UNCHANGED <<phase, pos, depth>>
    BY <1>3 DEF SemaDeclare, Opened, Record
  <2>2. e \in EventType /\ e.kind = "declare" /\ e.name = n /\ Here \in Nat /\ "none" \in StorageClasses
    BY <1>1 DEF Event, EventType, Kinds, Here, UnitInv, StorageClasses
  <2> HIDE DEF e
  <2>3. /\ TableTypes' /\ ViewNext /\ level' = level /\ currentFunc' = currentFunc
        /\ Len(symbols') \in Nat /\ Len(symbols) \in Nat /\ Len(symbols') >= Len(symbols)
        /\ \A s \in Ids : symbols'[s] = symbols[s]
    BY <1>1, <2>1, <2>2, AddVariableView
  <2>4. QED
    BY <1>2, <2>1, <2>2, <2>3, InFunctionScope
<1>4. CASE SemaUse(n) \/ SemaUnseen(k, n)
  <2>1. PICK e \in EventType : /\ e.kind \in {"declare", "use"} /\ e.name = n
                               /\ unit' = Append(unit, e)
    <3>1. Event("use", n, TRUE) \in EventType /\ Event(k, n, FALSE) \in EventType
      BY DEF Event, EventType, Kinds
    <3>2. /\ Event("use", n, TRUE).kind = "use" /\ Event("use", n, TRUE).name = n
          /\ Event(k, n, FALSE).kind = k /\ Event(k, n, FALSE).name = n
      BY DEF Event
    <3>3. QED
      BY <1>4, <3>1, <3>2 DEF SemaUse, SemaUnseen, Record
  <2>2. InFunction /\ UNCHANGED <<symbols, identifiers, level, currentFunc, phase, pos, depth>>
    BY <1>4 DEF SemaUse, SemaUnseen, Opened, Record, tableVars
  <2>3. TableTypes' /\ View' = View
    BY <1>1, <2>2, SameView
  <2>4. ScopeInv'
    BY <1>1, <1>2, <2>1, <2>2, <2>3, InFunctionScope
  <2>5. QED
    BY <2>3, <2>4 DEF ViewNext
<1>5. QED
  BY <1>3, <1>4

LEMMA SemaBlockScope ==
  ASSUME ScopeInv, SemaCompound \/ SemaEndCompound \/ SemaEndFunction
  PROVE  ScopeInv' /\ ViewNext
<1>1. /\ TableTypes /\ UnitInv /\ WalkInv /\ Len(symbols) \in Nat /\ Len(identifiers) \in Nat
      /\ level = Len(identifiers) - 1 /\ level \in Nat
  BY DEF ScopeInv, TableTypes
<1>2. InFunction => depth = level - 1 /\ depth \in Nat /\ level > 0 /\ phase = "sema"
  BY <1>1 DEF InFunction, WalkInv
<1>5. CASE SemaCompound
  <2> DEFINE e == Event(IF depth = 0 THEN "body" ELSE "open", NoName, TRUE)
  <2>1. /\ InFunction /\ EnterScope /\ depth' = depth + 1 /\ unit' = Append(unit, e)
        /\ UNCHANGED <<phase, pos, currentFunc>>
    BY <1>5 DEF SemaCompound, Record
  <2>2. e \in EventType /\ e.kind \in {"body", "open"}
    BY DEF Event, EventType, Kinds
  <2> HIDE DEF e
  <2>3. /\ TableTypes' /\ ViewNext
    BY <1>1, <2>1, EnterView DEF ViewNext
  <2>4. level' = level + 1 /\ symbols' = symbols
    BY <2>1 DEF EnterScope
  <2>5. QED
    BY <1>1, <1>2, <2>1, <2>2, <2>3, <2>4, InFunctionScope
<1>6. CASE SemaEndCompound
  <2> DEFINE e == Event("close", NoName, TRUE)
  <2>1. /\ InFunction /\ depth > 0 /\ ExitScope /\ depth' = depth - 1 /\ unit' = Append(unit, e)
        /\ UNCHANGED <<phase, pos, currentFunc>>
    BY <1>6 DEF SemaEndCompound, Opened, Record
  <2>2. e \in EventType /\ e.kind = "close"
    BY DEF Event, EventType, Kinds
  <2> HIDE DEF e
  <2>3. /\ TableTypes' /\ ViewNext
    BY <1>1, <1>2, <2>1, ExitView DEF ViewNext
  <2>4. level' = level - 1 /\ symbols' = symbols
    BY <2>1 DEF ExitScope
  <2>5. depth' \in Nat /\ level' > 0 /\ depth' = level' - 1
    BY <1>1, <1>2, <2>1, <2>4
  <2>6. QED
    BY <1>1, <1>2, <2>1, <2>2, <2>3, <2>4, <2>5, InFunctionScope
<1>7. CASE SemaEndFunction
  <2> DEFINE e == Event("end", NoName, TRUE)
  <2>1. /\ InFunction /\ depth = 0 /\ ExitScope /\ depth' = depth /\ unit' = Append(unit, e)
        /\ currentFunc' = NoSymbol /\ UNCHANGED <<phase, pos>>
    BY <1>7 DEF SemaEndFunction, Record
  <2>2. e \in EventType /\ e.kind = "end"
    BY DEF Event, EventType, Kinds
  <2> HIDE DEF e
  <2>3. /\ TableTypes' /\ ViewNext
    BY <1>1, <1>2, <2>1, ExitView DEF ViewNext
  <2>4. level' = level - 1 /\ symbols' = symbols
    BY <2>1 DEF ExitScope
  <2>5. level' = 0 /\ depth' = 0
    BY <1>1, <1>2, <2>1, <2>4
  <2>6. QED
    BY <1>1, <1>2, <2>1, <2>2, <2>3, <2>4, <2>5, InFunctionScope
<1>8. QED
  BY <1>5, <1>6, <1>7

LEMMA SemaEnterScope ==
  ASSUME ScopeInv, SemaEnterFunction
  PROVE  ScopeInv' /\ ViewNext
<1>1. /\ phase = "sema" /\ level = 0 /\ currentFunc # NoSymbol /\ EnterScope
      /\ UNCHANGED <<currentFunc, phase, unit, depth, pos>>
  BY DEF SemaEnterFunction, walkVars
<1>2. TableTypes /\ UnitInv /\ WalkInv /\ Len(symbols) \in Nat
  BY DEF ScopeInv, TableTypes
<1>3. TableTypes' /\ ViewNext
  BY <1>1, <1>2, EnterView DEF ViewNext
<1>4. symbols' = symbols /\ level' = level + 1
  BY <1>1 DEF EnterScope
<1>5. UnitInv' /\ \A k : Outside(k)' <=> Outside(k)
  BY <1>1, <1>2, <1>4, SameUnit
<1>6. Outside(Len(unit))' <=> Outside(Len(unit))
  BY <1>1 DEF Outside
<1>7. WalkInv'
  BY <1>1, <1>2, <1>4, <1>6 DEF WalkInv
<1>8. QED
  BY <1>3, <1>5, <1>7 DEF ScopeInv

\* The checker stops, and the generator starts, outside of every function.
LEMMA EndSemaScope ==
  ASSUME ScopeInv, EndSema
  PROVE  ScopeInv' /\ ViewNext
<1>1. /\ phase = "sema" /\ unit # << >> /\ unit[Len(unit)].kind = "end" /\ pos' = 1
      /\ phase' \in {"failed", "ir"}
      /\ UNCHANGED <<symbols, identifiers, level, currentFunc, unit, depth>>
  BY DEF EndSema, tableVars
<1>2. TableTypes /\ UnitInv /\ WalkInv /\ Len(symbols) \in Nat /\ Len(unit) \in Nat
  BY DEF ScopeInv, TableTypes, UnitInv
<1>3. TableTypes' /\ View' = View
  BY <1>1, <1>2, SameView
<1>4. UnitInv'
  BY <1>1, <1>2, SameUnit
<1>5. Outside(Len(unit)) /\ level \in Nat
  BY <1>1, <1>2 DEF Outside, TableTypes
<1>6. level = 0
  BY <1>1, <1>2, <1>5 DEF WalkInv
<1>7. Outside(pos - 1)'
  BY <1>1 DEF Outside
<1>8. WalkInv'
  BY <1>1, <1>2, <1>6, <1>7 DEF WalkInv
<1>9. QED
  BY <1>3, <1>4, <1>8 DEF ScopeInv, ViewNext

-----------------------------------------------------------------------------
(* The generator's steps.                                                  *)

\* What they have in common: the event at pos is replayed.
LEMMA LoweringScope ==
  ASSUME ScopeInv, phase = "ir", pos <= Len(unit), pos' = pos + 1, UNCHANGED <<phase, unit, depth>>,
         TableTypes',
         Len(symbols') \in Nat, Len(symbols) \in Nat, Len(symbols') >= Len(symbols),
         \A s \in Ids : symbols'[s] = symbols[s],
         unit[pos].kind = "function" => level' = level + 1 /\ currentFunc' # NoSymbol,
         unit[pos].kind = "end" => level' = level - 1,
         unit[pos].kind \notin {"function", "end"} => level' = level /\ currentFunc' = currentFunc
  PROVE  ScopeInv'
<1>1. TableTypes /\ UnitInv /\ WalkInv
  BY DEF ScopeInv
<1>2. pos \in DOMAIN unit /\ Len(unit) \in Nat /\ pos \in 1..Len(unit)
  BY <1>1 DEF UnitInv, WalkInv
<1>3. /\ unit[pos].kind = "function" <=> Outside(pos - 1)
      /\ level = IF Outside(pos - 1) THEN 0 ELSE 1
  BY <1>1, <1>2 DEF UnitInv, WalkInv
<1>4. UnitInv'
  BY <1>1, SameUnit
<1>5. Outside(pos - 1)' <=> unit[pos].kind = "end"
  BY <1>2 DEF Outside
<1>6. level' = IF Outside(pos - 1)' THEN 0 ELSE 1
  BY <1>3, <1>5
<1>7. level' > 0 => currentFunc' # NoSymbol
  BY <1>1, <1>3, <1>5, <1>6 DEF WalkInv
<1>8. WalkInv'
  BY <1>1, <1>2, <1>6, <1>7 DEF WalkInv
<1>9. QED
  BY <1>4, <1>8 DEF ScopeInv

LEMMA IRScope ==
  ASSUME ScopeInv, IRFunction \/ IRCompound \/ IRDeclare \/ IRIdentifier \/ IREndFunction
  PROVE  ScopeInv' /\ ViewNext
<1>1. /\ phase = "ir" /\ pos <= Len(unit) /\ pos' = pos + 1 /\ UNCHANGED <<phase, unit, depth>>
  BY DEF IRFunction, IRCompound, IRDeclare, IRIdentifier, IREndFunction, Lowering, Found
<1>2. /\ TableTypes /\ UnitInv /\ WalkInv /\ Len(symbols) \in Nat /\ DOMAIN symbols = Ids
      /\ pos \in DOMAIN unit /\ pos \in Nat
  BY <1>1 DEF ScopeInv, TableTypes, UnitInv, WalkInv, Ids
<1>3. CASE IRFunction
  <2>1. unit[pos].kind = "function" /\ EnterScope /\ currentFunc' = FunctionAt(pos)
    BY <1>3 DEF IRFunction, Lowering
  <2>2. TableTypes' /\ ViewNext /\ symbols' = symbols /\ level' = level + 1
    BY <1>2, <2>1, EnterView DEF ViewNext, EnterScope
  <2>3. \E s \in DOMAIN symbols : symbols[s].by = pos /\ symbols[s].kind = "SK_Function"
    BY <1>2, <2>1 DEF UnitInv
  <2>4. FunctionAt(pos) \in Ids
    BY <1>2, <2>3 DEF FunctionAt
  <2>5. currentFunc' # NoSymbol
    BY <1>2, <2>1, <2>4 DEF Ids, NoSymbol
  <2>6. QED
    BY <1>1, <1>2, <2>1, <2>2, <2>5, LoweringScope
<1>4. CASE IRCompound
  <2>1. unit[pos].kind \in {"body", "open", "close"} /\ UNCHANGED <<symbols, identifiers, level, currentFunc>>
    BY <1>4 DEF IRCompound, Lowering, tableVars
  <2>2. TableTypes' /\ ViewNext
    BY <1>2, <2>1, SameView DEF ViewNext
  <2>3. QED
    BY <1>1, <1>2, <2>1, <2>2, LoweringScope
<1>5. CASE IRDeclare
  <2>1. unit[pos].kind = "declare" /\ AddVariable(unit[pos].name, "none", pos)
    BY <1>5 DEF IRDeclare, Lowering
  <2>2. unit[pos].name \in Names /\ "none" \in StorageClasses
    BY <1>2, <2>1 DEF UnitInv, StorageClasses
  <2>3. /\ TableTypes' /\ ViewNext /\ level' = level /\ currentFunc' = currentFunc
        /\ Len(symbols') \in Nat /\ Len(symbols') >= Len(symbols)
        /\ \A s \in Ids : symbols'[s] = symbols[s]
    BY <1>2, <2>1, <2>2, AddVariableView
  <2>4. QED
    BY <1>1, <1>2, <2>1, <2>3, LoweringScope
<1>6. CASE IRIdentifier
  <2>1. unit[pos].kind = "use" /\ unit[pos].name \in Names /\ "TK_EXTERN" \in StorageClasses
    BY <1>2, <1>6 DEF IRIdentifier, Lowering, UnitInv, StorageClasses
  <2>2. \/ UNCHANGED <<symbols, identifiers, level, currentFunc>>
        \/ AddVariable(unit[pos].name, "TK_EXTERN", pos)
    BY <1>6 DEF IRIdentifier, tableVars
  <2>3. CASE UNCHANGED <<symbols, identifiers, level, currentFunc>>
    <3>1. TableTypes' /\ ViewNext
      BY <1>2, <2>3, SameView DEF ViewNext
    <3>2. QED
      BY <1>1, <1>2, <2>1, <2>3, <3>1, LoweringScope
  <2>4. CASE AddVariable(unit[pos].name, "TK_EXTERN", pos)
    <3>1. /\ TableTypes' /\ ViewNext /\ level' = level /\ currentFunc' = currentFunc
          /\ Len(symbols') \in Nat /\ Len(symbols') >= Len(symbols)
          /\ \A s \in Ids : symbols'[s] = symbols[s]
      BY <1>2, <2>1, <2>4, AddVariableView
    <3>2. QED
      BY <1>1, <1>2, <2>1, <3>1, LoweringScope
  <2>5. QED
    BY <2>2, <2>3, <2>4
<1>7. CASE IREndFunction
  <2>1. unit[pos].kind = "end" /\ ExitScope
    BY <1>7 DEF IREndFunction, Lowering
  <2>2. ~Outside(pos - 1)
    BY <1>2, <2>1 DEF UnitInv
  <2>3. level = 1
    BY <1>1, <1>2, <2>2 DEF WalkInv
  <2>4. TableTypes' /\ ViewNext /\ symbols' = symbols /\ level' = level - 1
    BY <1>2, <2>1, <2>3, ExitView DEF ViewNext, ExitScope
  <2>5. QED
    BY <1>1, <1>2, <2>1, <2>4, LoweringScope
<1>8. QED
  BY <1>3, <1>4, <1>5, <1>6, <1>7

LEMMA IdleScope ==
  ASSUME ScopeInv, EndIR \/ UNCHANGED allVars
  PROVE  ScopeInv' /\ ViewNext
<1>1. /\ UNCHANGED <<symbols, identifiers, level, currentFunc, unit, depth, pos>>
      /\ phase' \in {phase, "done"}
  BY DEF EndIR, allVars, tableVars
<1>2. TableTypes /\ UnitInv /\ WalkInv /\ Len(symbols) \in Nat
  BY DEF ScopeInv, TableTypes
<1>3. TableTypes' /\ View' = View
  BY <1>1, <1>2, SameView
<1>4. UnitInv'
  BY <1>1, <1>2, SameUnit
<1>5. (Outside(pos - 1)' <=> Outside(pos - 1)) /\ (Outside(Len(unit))' <=> Outside(Len(unit)))
  BY <1>1 DEF Outside
<1>6. WalkInv'
  BY <1>1, <1>2, <1>5 DEF WalkInv
<1>7. QED
  BY <1>3, <1>4, <1>6 DEF ScopeInv, ViewNext

LEMMA ScopeStep == ScopeInv /\ [ScopingNext]_allVars => ScopeInv' /\ ViewNext
<1> SUFFICES ASSUME ScopeInv, [ScopingNext]_allVars PROVE ScopeInv' /\ ViewNext
  OBVIOUS
<1>1. CASE Sema
  <2>1. ASSUME NEW n \in Names, SemaFunction(n) \/ SemaDeclare(n) \/ SemaUse(n)
        PROVE  ScopeInv' /\ ViewNext
    BY <2>1, SemaFunctionScope, SemaNameScope
  <2>2. ASSUME NEW n \in Names, NEW k \in {"declare", "use"}, SemaUnseen(k, n)
        PROVE  ScopeInv' /\ ViewNext
    BY <2>2, SemaNameScope
  <2>3. QED
    BY <1>1, <2>1, <2>2, SemaBlockScope, SemaEnterScope, EndSemaScope DEF Sema
<1>2. CASE IR
  BY <1>2, IRScope, IdleScope DEF IR
<1>3. CASE Finished \/ UNCHANGED allVars
  BY <1>3, IdleScope DEF Finished
<1>4. QED
  BY <1>1, <1>2, <1>3 DEF ScopingNext

LEMMA ScopeInvariance == ScopingSpec => []ScopeInv
<1>1. ScopeInv /\ [ScopingNext]_allVars => ScopeInv'
  BY ScopeStep
<1>2. QED
  BY InitScope, <1>1, PTL DEF ScopingSpec

\* Inside a scope there is a function to take the variables, in both passes and
\* for every nesting of blocks: the null currentFunc is never written through.
THEOREM AlwaysInFunction == ScopingSpec => []FunctionInScope
<1>1. ScopeInv => FunctionInScope
  BY DEF ScopeInv, WalkInv, FunctionInScope
<1>2. QED
  BY <1>1, ScopeInvariance, PTL

LEMMA AbstractView == TableTypes => Len(View) = Len(identifiers) /\ DOMAIN View = DOMAIN identifiers
BY DEF TableTypes, View

\* Through both passes the hash chains and levels are a stack of scopes in which
\* a declaration changes the meaning of its name in its own scope and nothing
\* else, and leaving a scope restores what was visible before it.
THEOREM TableIsStack == ScopingSpec => ImplementsScopes
<1>1. ScopingInit => Abstract!Init
  <2> SUFFICES ASSUME ScopingInit PROVE Abstract!Init
    OBVIOUS
  <2>1. identifiers = <<EmptyScope>>
    BY DEF ScopingInit, TableInit
  <2>2. \A n \in Names : InScope(EmptyScope, n) = NoSymbol
    BY HashAssumption DEF InScope, InChain, EmptyScope
  <2>3. View = <<[n \in Names |-> NoSymbol]>>
    BY <2>1, <2>2 DEF View
  <2>4. QED
    BY <2>3 DEF Abstract!Init, Abstract!NewScope, View
<1>2. ScopeInv /\ [ScopingNext]_allVars => [Abstract!Next]_View
  <2> SUFFICES ASSUME ScopeInv, ViewNext PROVE Abstract!Next \/ View' = View
    BY ScopeStep
  <2>1. CASE View' = Append(View, [n \in Names |-> NoSymbol])
    BY <2>1 DEF Abstract!Next, Abstract!Enter, Abstract!NewScope, View
  <2>2. CASE Len(View) > 1 /\ View' = SubSeq(View, 1, Len(View) - 1)
    BY <2>2 DEF Abstract!Next, Abstract!Exit, View
  <2>3. CASE \E l \in {1, Len(View)}, n \in Names, s \in SymbolIds : View' = [View EXCEPT ![l][n] = s]
    <3>1. PICK l \in {1, Len(View)}, n \in Names, s \in SymbolIds : View' = [View EXCEPT ![l][n] = s]
      BY <2>3
    <3>2. l \in DOMAIN View
      BY AbstractView DEF ScopeInv, TableTypes
    <3>3. Abstract!Declare(l, n, s)
      BY <3>1 DEF Abstract!Declare, View
    <3>4. QED
      BY <3>2, <3>3 DEF Abstract!Next, View
  <2>4. QED
    BY <2>1, <2>2, <2>3 DEF ViewNext
<1>3. QED
  BY <1>1, <1>2, ScopeInvariance, PTL DEF ScopingSpec, ImplementsScopes, Abstract!Spec, View

-----------------------------------------------------------------------------
(* The two passes agree.  What each scope shows is related to the record   *)
(* of the unit: while no declaration hides another, it is the last one of  *)
(* its name.                                                               *)

Sees(l, n) == InScope(identifiers[l], n)

\* Event j declares n; d is the last event up to k to do so, and if it declares a
\* variable, the function it is in does not end before k.
Decl(j, n) == unit[j].kind \in {"declare", "function"} /\ unit[j].name = n
Ends(d, k) == \E j \in d + 1..k : unit[j].kind = "end"
Last(d, n, k) ==
  /\ d \in 1..k /\ Decl(d, n)
  /\ \A j \in d + 1..k : ~Decl(j, n)
  /\ unit[d].kind = "declare" => ~Ends(d, k)

\* The checker found for a use the last declaration before it.
FoundLast ==
  \A i \in DOMAIN unit :
    unit[i].kind = "use" /\ unit[i].seen => Last(found[i], unit[i].name, i - 1)

\* What a scope shows for a name is the last event to declare it, of that kind.
Shown(l, n, kind) ==
  /\ Sees(l, n) \in Ids
  /\ LET p == symbols[Sees(l, n)].by IN Last(p, n, Len(unit)) /\ unit[p].kind = kind

\* The outermost scope has the functions of the unit.
ShowsFunctions ==
  /\ \A n \in Names : Sees(1, n) # NoSymbol => Shown(1, n, "function")
  /\ \A f \in DOMAIN unit : unit[f].kind = "function" =>
       /\ unit[f].name \in Names
       /\ Sees(1, unit[f].name) # NoSymbol /\ symbols[Sees(1, unit[f].name)].by = f

\* The others have variables of the function that is walked.
ShowsLocals ==
  \A l \in DOMAIN identifiers, n \in Names :
    l > 1 /\ Sees(l, n) # NoSymbol => Shown(l, n, "declare")

\* The generator's one scope has the last declaration the function has had so
\* far or, if there was none, the use for which the name was made up.
Before(j) == j < pos /\ ~Ends(j, pos - 1)
Declares(j, n) == unit[j].kind = "declare" /\ unit[j].name = n
NoneBefore(n) == \A j \in DOMAIN unit : Before(j) => ~Declares(j, n)
ShowsLatest ==
  \A n \in Names :
    \/ Sees(2, n) = NoSymbol /\ NoneBefore(n)
    \/ /\ Sees(2, n) # NoSymbol /\ Sees(2, n) \in Ids
       /\ LET p == symbols[Sees(2, n)].by IN
            /\ p \in DOMAIN unit /\ Before(p)
            /\ \/ Declares(p, n) /\ \A j \in p + 1..pos - 1 : ~Declares(j, n)
               \/ NoneBefore(n) /\ Sees(1, n) = NoSymbol

AgreeInv ==
  /\ found \in Seq(Nat) /\ Len(found) = Len(unit)
  /\ irFound \in Seq(Nat)
  /\ phase = "sema" => irFound = << >> /\ (~shadows => ShowsFunctions /\ ShowsLocals)
  /\ phase = "ir" => /\ ~errors /\ Len(irFound) = pos - 1
                     /\ ~shadows => ShowsFunctions /\ (level = 1 => ShowsLatest)
  /\ ~shadows /\ ~errors => FoundLast
  /\ PassesAgree

-----------------------------------------------------------------------------
(* What the scopes show.                                                   *)

LEMMA ScopesAre == TableTypes => Len(identifiers) \in Nat /\ DOMAIN identifiers = 1..Len(identifiers)
BY DEF TableTypes

LEMMA SeesIs ==
  ASSUME TableTypes, NEW l \in DOMAIN identifiers, NEW n \in Names
  PROVE  (Sees(l, n) = NoSymbol \/ Sees(l, n) \in Ids) /\ View[l][n] = Sees(l, n)
<1> DEFINE chain == identifiers[l][Hash[n]]
           S == InChain(identifiers[l], n)
<1>1. chain \in Seq(Ids)
  <2>1. identifiers \in Seq([Buckets -> Seq(Ids)]) /\ Hash[n] \in Buckets
    BY HashAssumption DEF TableTypes
  <2> HIDE DEF Ids
  <2>2. identifiers[l] \in [Buckets -> Seq(Ids)]
    BY <2>1
  <2>3. QED
    BY <2>1, <2>2
<1>2. S \subseteq DOMAIN chain
  BY DEF InChain
<1> HIDE DEF Ids, chain, S
<1>3. S \in SUBSET Nat /\ \A i \in S : chain[i] \in Ids
  BY <1>1, <1>2
<1>4. Sees(l, n) = IF S = {} THEN NoSymbol ELSE chain[Min(S)]
  BY DEF Sees, InScope, S, chain
<1>5. S # {} => Min(S) \in S
  BY <1>3, MinOfNats
<1>6. View[l][n] = Sees(l, n)
  BY DEF View, Sees
<1>7. QED
  BY <1>3, <1>4, <1>5, <1>6

LEMMA SameSees ==
  ASSUME NEW l, NEW n, identifiers'[l] = identifiers[l], symbols' = symbols
  PROVE  Sees(l, n)' = Sees(l, n)
BY DEF Sees, InScope, InChain

LEMMA EnterSees ==
  ASSUME TableTypes, EnterScope, NEW top \in Nat, top = Len(identifiers) + 1
  PROVE  /\ Len(identifiers') = top /\ DOMAIN identifiers' = 1..top /\ symbols' = symbols
         /\ \A n \in Names : /\ Sees(top, n)' = NoSymbol
                             /\ \A l \in 1..top : l # top => Sees(l, n)' = Sees(l, n)
<1>1. /\ symbols' = symbols /\ identifiers' = Append(identifiers, EmptyScope)
      /\ identifiers \in Seq([Buckets -> Seq(Ids)])
  BY DEF EnterScope, TableTypes
<1>2. EmptyScope \in [Buckets -> Seq(Ids)]
  BY DEF EmptyScope
<1> HIDE DEF Ids
<1>3. /\ Len(identifiers') = top /\ DOMAIN identifiers' = 1..top
      /\ \A l \in 1..top : l # top => identifiers'[l] = identifiers[l]
      /\ identifiers'[top] = EmptyScope
  BY <1>1, <1>2
<1>4. ASSUME NEW n \in Names PROVE Sees(top, n)' = NoSymbol
  <2>1. identifiers'[top] = EmptyScope /\ Hash[n] \in Buckets
    BY <1>3, HashAssumption
  <2>2. identifiers'[top][Hash[n]] = << >>
    BY <2>1 DEF EmptyScope
  <2>3. QED
    BY <2>2 DEF Sees, InScope, InChain
<1>5. ASSUME NEW n \in Names, NEW l \in 1..top, l # top PROVE Sees(l, n)' = Sees(l, n)
  BY <1>1, <1>3, <1>5, SameSees
<1>6. QED
  BY <1>1, <1>3, <1>4, <1>5

LEMMA ExitSees ==
  ASSUME TableTypes, level > 0, ExitScope
  PROVE  /\ Len(identifiers') = Len(identifiers) - 1 /\ symbols' = symbols
         /\ DOMAIN identifiers' \subseteq DOMAIN identifiers
         /\ \A n \in Names : \A l \in DOMAIN identifiers' : Sees(l, n)' = Sees(l, n)
<1>1. /\ symbols' = symbols /\ identifiers' = SubSeq(identifiers, 1, Len(identifiers) - 1)
      /\ identifiers \in Seq([Buckets -> Seq(Ids)]) /\ Len(identifiers) > 1
  BY DEF ExitScope, TableTypes
<1> HIDE DEF Ids
<1>2. /\ Len(identifiers') = Len(identifiers) - 1 /\ DOMAIN identifiers' \subseteq DOMAIN identifiers
      /\ \A l \in DOMAIN identifiers' : identifiers'[l] = identifiers[l]
  BY <1>1
<1>3. QED
  BY <1>1, <1>2, SameSees

LEMMA CreateSees ==
  ASSUME TableTypes, NEW scope \in DOMAIN identifiers, NEW kind \in {"SK_Variable", "SK_Function"},
         NEW n \in Names, NEW sclass \in StorageClasses, NEW by \in Nat,
         Create(scope, kind, n, sclass, by), level' = level
  PROVE  /\ TableTypes' /\ DOMAIN identifiers' = DOMAIN identifiers
         /\ Sees(scope, n)' = NewSymbol /\ NewSymbol # NoSymbol /\ NewSymbol \in Ids'
         /\ symbols'[NewSymbol].by = by
         /\ \A s \in Ids : symbols'[s] = symbols[s] /\ s \in Ids'
         /\ \A l \in DOMAIN identifiers, m \in Names :
               l # scope \/ m # n => Sees(l, m)' = Sees(l, m)
<1>1. /\ TableTypes' /\ Len(symbols') = NewSymbol
      /\ View' = [View EXCEPT ![scope][n] = NewSymbol]
      /\ \A s \in Ids : symbols'[s] = symbols[s]
      /\ symbols'[NewSymbol].by = by
  BY CreateView
<1>2. /\ DOMAIN View = DOMAIN identifiers /\ DOMAIN View' = DOMAIN identifiers'
      /\ \A l \in DOMAIN identifiers : DOMAIN View[l] = Names
  BY DEF View
<1>3. DOMAIN identifiers' = DOMAIN identifiers
  BY <1>1, <1>2
<1>4. \A l \in DOMAIN identifiers, m \in Names :
         Sees(l, m)' = IF l = scope /\ m = n THEN NewSymbol ELSE Sees(l, m)
  <2>1. \A l \in DOMAIN identifiers, m \in Names : View[l][m] = Sees(l, m)
    BY SeesIs
  <2>2. \A l \in DOMAIN identifiers, m \in Names : View'[l][m] = Sees(l, m)'
    BY <1>3 DEF View, Sees
  <2>3. QED
    BY <1>1, <1>2, <2>1, <2>2
<1>5. Len(symbols) \in Nat /\ NewSymbol = Len(symbols) + 1
  BY DEF TableTypes, NewSymbol
<1>6. NewSymbol # NoSymbol /\ NewSymbol \in Ids' /\ \A s \in Ids : s \in Ids'
  BY <1>1, <1>5 DEF Ids, NoSymbol
<1>7. QED
  BY <1>1, <1>3, <1>4, <1>6

LEMMA LookupIs ==
  ASSUME TableTypes, NEW n \in Names
  PROVE  \/ LookupID(n) = NoSymbol /\ \A l \in DOMAIN identifiers : Sees(l, n) = NoSymbol
         \/ \E l \in DOMAIN identifiers :
               /\ LookupID(n) = Sees(l, n) /\ Sees(l, n) # NoSymbol
               /\ \A k \in DOMAIN identifiers : k > l => Sees(k, n) = NoSymbol
<1> DEFINE levels == {l \in DOMAIN identifiers : Sees(l, n) # NoSymbol}
<1>1. LookupID(n) = IF levels = {} THEN NoSymbol ELSE Sees(Max(levels), n)
  BY DEF LookupID, Sees
<1>2. levels \in SUBSET (1..Len(identifiers)) /\ Len(identifiers) \in Nat
      /\ DOMAIN identifiers = 1..Len(identifiers)
  BY DEF TableTypes
<1>3. levels # {} => Max(levels) \in levels /\ \A k \in levels : k <= Max(levels)
  <2> HIDE DEF levels
  <2>1. QED
    BY <1>2, MaxOfNats
<1>4. CASE levels = {}
  BY <1>1, <1>4
<1>5. CASE levels # {}
  <2> DEFINE top == Max(levels)
  <2>1. top \in levels /\ (\A k \in levels : k <= top) /\ LookupID(n) = Sees(top, n)
    BY <1>1, <1>3, <1>5
  <2> HIDE DEF top
  <2>2. top \in DOMAIN identifiers /\ Sees(top, n) # NoSymbol
    BY <2>1
  <2>3. \A k \in DOMAIN identifiers : k > top => k \notin levels
    BY <1>2, <2>1, <2>2
  <2>4. QED
    BY <2>1, <2>2, <2>3
<1>6. QED
  BY <1>4, <1>5

-----------------------------------------------------------------------------
(* What the record of the unit says.                                       *)

IsDecl(e, n) == e.kind \in {"declare", "function"} /\ e.name = n

\* A recorded event changes nothing about those before it.
LEMMA LastGrows ==
  ASSUME UnitInv, NEW e \in EventType, unit' = Append(unit, e),
         NEW d, NEW n, NEW k \in 0..Len(unit)
  PROVE  Last(d, n, k)' <=> Last(d, n, k)
<1> PICK len \in Nat : len = Len(unit)
  BY DEF UnitInv
<1>1. /\ DOMAIN unit = 1..len /\ \A j \in 1..len : unit'[j] = unit[j]
      /\ k \in 0..len
  BY DEF UnitInv
<1>2. \A j \in 1..k : j \in 1..len /\ unit'[j] = unit[j]
  BY <1>1
<1>3. d \in 1..k => \A j \in d + 1..k : j \in 1..k
  OBVIOUS
<1>4. ASSUME d \in 1..k
      PROVE  Last(d, n, k)' <=> Last(d, n, k)
  <2>1. Decl(d, n)' <=> Decl(d, n)
    BY <1>2, <1>4 DEF Decl
  <2>2. \A j \in d + 1..k : Decl(j, n)' <=> Decl(j, n)
    BY <1>2, <1>3, <1>4 DEF Decl
  <2>3. Ends(d, k)' <=> Ends(d, k)
    BY <1>2, <1>3, <1>4 DEF Ends
  <2>4. unit'[d].kind = unit[d].kind
    BY <1>2, <1>4
  <2>5. QED
    BY <2>1, <2>2, <2>3, <2>4 DEF Last
<1>5. d \notin 1..k => ~Last(d, n, k) /\ ~Last(d, n, k)'
  BY DEF Last
<1>6. QED
  BY <1>4, <1>5

\* A name keeps its last declaration until it is declared again or, if it is a
\* variable, the function ends.
LEMMA LastOn ==
  ASSUME UnitInv, NEW e \in EventType, unit' = Append(unit, e),
         NEW d, NEW n, NEW k \in Nat, k = Len(unit), Last(d, n, k), ~IsDecl(e, n),
         e.kind = "end" => unit[d].kind # "declare"
  PROVE  Last(d, n, k + 1)' /\ unit'[d].kind = unit[d].kind
<1>1. /\ d \in 1..k /\ DOMAIN unit = 1..k /\ \A j \in 1..k : unit'[j] = unit[j]
      /\ unit'[k + 1] = e
  BY DEF UnitInv, Last
<1>2. \A j \in d + 1..k + 1 : j \in 1..k \/ j = k + 1
  BY <1>1
<1>3. Decl(d, n)' /\ unit'[d].kind = unit[d].kind
  BY <1>1 DEF Decl, Last
<1>4. ASSUME NEW j \in d + 1..k + 1 PROVE ~Decl(j, n)'
  <2>1. CASE j = k + 1
    BY <1>1, <2>1 DEF Decl, IsDecl
  <2>2. CASE j \in d + 1..k
    <3>1. j \in 1..k /\ ~Decl(j, n)
      BY <1>1, <2>2 DEF Last
    <3>2. QED
      BY <1>1, <3>1 DEF Decl
  <2>3. QED
    BY <1>1, <2>1, <2>2
<1>5. ASSUME unit[d].kind = "declare" PROVE ~Ends(d, k + 1)'
  <2>1. ~Ends(d, k) /\ e.kind # "end"
    BY <1>5 DEF Last
  <2>2. ASSUME NEW j \in d + 1..k + 1 PROVE unit'[j].kind # "end"
    <3>1. CASE j = k + 1
      BY <1>1, <2>1, <3>1
    <3>2. CASE j \in d + 1..k
      <4>1. j \in 1..k /\ unit[j].kind # "end"
        BY <1>1, <2>1, <3>2 DEF Ends
      <4>2. QED
        BY <1>1, <4>1
    <3>3. QED
      BY <1>1, <3>1, <3>2
  <2>3. QED
    BY <2>2 DEF Ends
<1>6. d \in 1..k + 1
  BY <1>1
<1>7. QED
  BY <1>3, <1>4, <1>5, <1>6 DEF Last

LEMMA LastNew ==
  ASSUME UnitInv, NEW e \in EventType, unit' = Append(unit, e),
         NEW n, NEW k \in Nat, k = Len(unit), IsDecl(e, n)
  PROVE  Last(k + 1, n, k + 1)' /\ unit'[k + 1] = e
<1>1. unit'[k + 1] = e
  BY DEF UnitInv
<1>2. Decl(k + 1, n)' /\ k + 1 \in 1..k + 1
  BY <1>1 DEF Decl, IsDecl
<1>3. ~Ends(k + 1, k + 1)' /\ \A j \in (k + 1) + 1..k + 1 : ~Decl(j, n)'
  BY DEF Ends
<1>4. QED
  BY <1>1, <1>2, <1>3 DEF Last

-----------------------------------------------------------------------------
(* The checker.                                                            *)

\* What a scope shows: it has not changed, or it is what the event declares.
Kept(l, n, e) == ~IsDecl(e, n) /\ (e.kind = "end" => l = 1)
Added(l, n, e) == IsDecl(e, n) /\ e.kind = IF l = 1 THEN "function" ELSE "declare"

LEMMA ShownNext ==
  ASSUME ScopeInv, NEW e \in EventType, unit' = Append(unit, e), NEW k \in Nat, k = Len(unit),
         \A s \in Ids : symbols'[s] = symbols[s] /\ s \in Ids',
         NEW l \in Nat, NEW n \in Names, NEW kind, kind = IF l = 1 THEN "function" ELSE "declare",
         \/ Sees(l, n)' = Sees(l, n) /\ Shown(l, n, kind) /\ Kept(l, n, e)
         \/ Sees(l, n)' \in Ids' /\ symbols'[Sees(l, n)'].by = k + 1 /\ Added(l, n, e)
  PROVE  Shown(l, n, kind)'
<1>1. UnitInv /\ Len(unit') = k + 1
  BY DEF ScopeInv, UnitInv
<1> PICK s : s = Sees(l, n)'
  OBVIOUS
<1> PICK p : p = symbols'[s].by
  OBVIOUS
<1>2. Shown(l, n, kind)' <=> s \in Ids' /\ Last(p, n, k + 1)' /\ unit'[p].kind = kind
  BY <1>1 DEF Shown
<1>3. CASE Sees(l, n)' = Sees(l, n) /\ Shown(l, n, kind) /\ Kept(l, n, e)
  <2>1. s \in Ids /\ p = symbols[s].by /\ Last(p, n, k) /\ unit[p].kind = kind
    BY <1>3 DEF Shown
  <2>2. ~IsDecl(e, n) /\ (e.kind = "end" => unit[p].kind # "declare")
    BY <1>3, <2>1 DEF Kept
  <2>3. Last(p, n, k + 1)' /\ unit'[p].kind = unit[p].kind
    BY <1>1, <2>1, <2>2, LastOn
  <2>4. QED
    BY <1>2, <2>1, <2>3
<1>4. CASE Sees(l, n)' \in Ids' /\ symbols'[Sees(l, n)'].by = k + 1 /\ Added(l, n, e)
  <2>1. p = k + 1 /\ IsDecl(e, n) /\ e.kind = kind
    BY <1>4 DEF Added
  <2>2. Last(p, n, k + 1)' /\ unit'[p] = e
    BY <1>1, <2>1, LastNew
  <2>3. QED
    BY <1>2, <1>4, <2>1, <2>2
<1>5. QED
  BY <1>3, <1>4
LEMMA ShowsNext ==
  ASSUME ScopeInv, ShowsFunctions, ShowsLocals,
         NEW e \in EventType, unit' = Append(unit, e), NEW k \in Nat, k = Len(unit),
         \A s \in Ids : symbols'[s] = symbols[s] /\ s \in Ids',
         DOMAIN identifiers' \subseteq Nat,
         \A l \in {1} \cup DOMAIN identifiers', n \in Names : Sees(l, n)' # NoSymbol =>
            \/ Sees(l, n)' = Sees(l, n) /\ l \in DOMAIN identifiers /\ Kept(l, n, e)
            \/ Sees(l, n)' \in Ids' /\ symbols'[Sees(l, n)'].by = k + 1 /\ Added(l, n, e),
         \A n \in Names : Sees(1, n) # NoSymbol => Sees(1, n)' = Sees(1, n),
         e.kind = "function" => /\ e.name \in Names /\ Sees(1, e.name)' # NoSymbol
                                /\ symbols'[Sees(1, e.name)'].by = k + 1
  PROVE  ShowsFunctions' /\ ShowsLocals'
<1>1. UnitInv /\ TableTypes
  BY DEF ScopeInv
<1>2. /\ DOMAIN unit = 1..k /\ DOMAIN unit' = 1..k + 1 /\ \A j \in 1..k : unit'[j] = unit[j]
      /\ unit'[k + 1] = e
  BY <1>1 DEF UnitInv
<1>3. ASSUME NEW l \in {1} \cup DOMAIN identifiers', NEW n \in Names, Sees(l, n)' # NoSymbol,
             NEW kind, kind = IF l = 1 THEN "function" ELSE "declare"
      PROVE  Shown(l, n, kind)'
  <2>1. l \in Nat /\ (l \in DOMAIN identifiers /\ l # 1 => l > 1)
    BY <1>1 DEF TableTypes
  <2>2. CASE Sees(l, n)' = Sees(l, n) /\ l \in DOMAIN identifiers /\ Kept(l, n, e)
    <3>1. Shown(l, n, kind)
      BY <1>3, <2>1, <2>2 DEF ShowsFunctions, ShowsLocals
    <3>2. QED
      BY <1>3, <2>1, <2>2, <3>1, ShownNext
  <2>3. CASE Sees(l, n)' \in Ids' /\ symbols'[Sees(l, n)'].by = k + 1 /\ Added(l, n, e)
    BY <1>3, <2>1, <2>3, ShownNext
  <2>4. QED
    BY <1>3, <2>2, <2>3
<1>4. \A n \in Names : Sees(1, n)' # NoSymbol => Shown(1, n, "function")'
  BY <1>3
<1>5. ASSUME NEW f \in DOMAIN unit', unit'[f].kind = "function"
      PROVE  /\ unit'[f].name \in Names
             /\ Sees(1, unit[f].name)' # NoSymbol /\ symbols'[Sees(1, unit[f].name)'].by = f
  <2>1. CASE f = k + 1
    <3>1. unit'[f] = e
      BY <1>2, <2>1
    <3>2. PICK n \in Names : n = e.name /\ Sees(1, n)' # NoSymbol /\ symbols'[Sees(1, n)'].by = k + 1
      BY <1>5, <3>1
    <3>3. unit'[f].name = n
      BY <3>1, <3>2
    <3>4. QED
      BY <2>1, <3>2, <3>3 DEF Sees
  <2>2. CASE f \in 1..k
    <3>1. unit'[f] = unit[f] /\ f \in DOMAIN unit
      BY <1>2, <2>2
    <3>2. PICK n \in Names : n = unit[f].name /\ Sees(1, n) # NoSymbol /\ symbols[Sees(1, n)].by = f
      BY <1>5, <3>1 DEF ShowsFunctions
    <3>3. Sees(1, n)' = Sees(1, n) /\ Sees(1, n) \in Ids
      BY <3>2 DEF ShowsFunctions, Shown
    <3>4. unit'[f].name = n
      BY <3>1, <3>2
    <3>5. symbols'[Sees(1, n)'].by = f /\ Sees(1, n)' # NoSymbol
      BY <3>2, <3>3
    <3>6. QED
      BY <3>4, <3>5 DEF Sees
  <2>3. QED
    BY <1>2, <2>1, <2>2
<1>6. ASSUME NEW l \in DOMAIN identifiers', NEW n \in Names, l > 1, Sees(l, n)' # NoSymbol
      PROVE  Shown(l, n, "declare")'
  BY <1>3, <1>6
<1>7. ShowsFunctions'
  BY <1>4, <1>5 DEF ShowsFunctions
<1>8. QED
  BY <1>6, <1>7 DEF ShowsLocals

\* What the checker's steps that record an event have in common.
LEMMA SemaAgrees ==
  ASSUME ScopeInv, AgreeInv, phase = "sema", NEW e \in EventType, NEW place \in Nat,
         unit' = Append(unit, e), found' = Append(found, place), UNCHANGED <<phase, irFound>>,
         shadows => shadows', errors => errors',
         ~shadows' => ShowsFunctions' /\ ShowsLocals',
         ~shadows' /\ ~errors' /\ e.kind = "use" /\ e.seen => Last(place, e.name, Len(unit))
  PROVE  AgreeInv'
<1>1. /\ UnitInv /\ found \in Seq(Nat) /\ Len(found) = Len(unit) /\ irFound = << >>
      /\ ~shadows /\ ~errors => FoundLast
  BY DEF ScopeInv, AgreeInv
<1> PICK k \in Nat : k = Len(unit)
  BY <1>1 DEF UnitInv
<1>2. /\ DOMAIN unit = 1..k /\ DOMAIN unit' = 1..k + 1 /\ \A j \in 1..k : unit'[j] = unit[j]
      /\ unit'[k + 1] = e /\ Len(unit') = k + 1
  BY <1>1 DEF UnitInv
<1>3. /\ found' \in Seq(Nat) /\ Len(found') = k + 1 /\ \A j \in 1..k : found'[j] = found[j]
      /\ found'[k + 1] = place
  BY <1>1
<1>4. ASSUME ~shadows', ~errors', NEW i \in DOMAIN unit', unit'[i].kind = "use", unit'[i].seen
      PROVE  Last(found[i], unit[i].name, i - 1)'
  <2>1. i - 1 \in 0..Len(unit) /\ (i = k + 1 \/ i \in 1..k)
    BY <1>2
  <2>2. Last(found'[i], unit'[i].name, i - 1)
    <3>1. CASE i = k + 1
      BY <1>2, <1>3, <1>4, <3>1
    <3>2. CASE i \in 1..k
      <4>1. unit'[i] = unit[i] /\ found'[i] = found[i] /\ i \in DOMAIN unit
        BY <1>2, <1>3, <3>2
      <4>2. Last(found[i], unit[i].name, i - 1)
        BY <1>1, <1>4, <4>1 DEF FoundLast
      <4>3. QED
        BY <4>1, <4>2
    <3>3. QED
      BY <2>1, <3>1, <3>2
  <2>3. PICK m, q, j : m = found'[i] /\ q = unit'[i].name /\ j = i - 1
    OBVIOUS
  <2>4. Last(m, q, j)'
    BY <1>1, <2>1, <2>2, <2>3, LastGrows
  <2>5. QED
    BY <2>3, <2>4 DEF Last, Decl, Ends
<1>5. ~shadows' /\ ~errors' => FoundLast'
  BY <1>4 DEF FoundLast
<1>6. PassesAgree'
  BY <1>1 DEF PassesAgree
<1>7. irFound' \in Seq(Nat)
  BY <1>1
<1>8. QED
  BY <1>1, <1>2, <1>3, <1>5, <1>6, <1>7 DEF AgreeInv
-----------------------------------------------------------------------------
(* The checker's steps, one by one.                                        *)

\* What the scopes show does not change, and nothing is declared.
LEMMA ShowsSame ==
  ASSUME ScopeInv, ShowsFunctions, ShowsLocals,
         NEW e \in EventType, unit' = Append(unit, e), symbols' = symbols,
         DOMAIN identifiers' \subseteq Nat, 1 \in DOMAIN identifiers,
         \A l \in {1} \cup DOMAIN identifiers', n \in Names :
            Sees(l, n)' # NoSymbol => l \in DOMAIN identifiers /\ Sees(l, n)' = Sees(l, n),
         \A n \in Names : Sees(1, n)' = Sees(1, n),
         e.kind # "function", e.kind = "end" => DOMAIN identifiers' = {1},
         \A n \in Names : IsDecl(e, n) => LookupID(n) = NoSymbol
  PROVE  ShowsFunctions' /\ ShowsLocals'
<1>1. TableTypes /\ Len(unit) \in Nat
  BY DEF ScopeInv, UnitInv
<1>2. ASSUME NEW l \in {1} \cup DOMAIN identifiers', NEW n \in Names, Sees(l, n)' # NoSymbol
      PROVE  Sees(l, n)' = Sees(l, n) /\ l \in DOMAIN identifiers /\ Kept(l, n, e)
  <2>1. l \in DOMAIN identifiers /\ Sees(l, n)' = Sees(l, n) /\ Sees(l, n) # NoSymbol
    BY <1>2
  <2>2. ~IsDecl(e, n)
    <3>1. LookupID(n) # NoSymbol
      BY <1>1, <2>1, LookupIs
    <3>2. QED
      BY <3>1
  <2>3. e.kind = "end" => l = 1
    OBVIOUS
  <2>4. QED
    BY <2>1, <2>2, <2>3 DEF Kept
<1>3. \A s \in Ids : symbols'[s] = symbols[s] /\ s \in Ids'
  BY DEF Ids
<1>4. QED
  BY <1>1, <1>2, <1>3, ShowsNext

LEMMA SemaBlockAgrees ==
  ASSUME ScopeInv, AgreeInv, SemaCompound \/ SemaEndCompound \/ SemaEndFunction
  PROVE  AgreeInv'
<1>1. /\ TableTypes /\ UnitInv /\ WalkInv /\ Len(identifiers) \in Nat /\ Len(identifiers) > 0
      /\ DOMAIN identifiers = 1..Len(identifiers)
  BY DEF ScopeInv, TableTypes
<1>9. level \in Nat /\ level = Len(identifiers) - 1 /\ Len(identifiers) \in Nat
  BY <1>1 DEF TableTypes
<1>2. PICK e \in EventType :
         /\ unit' = Append(unit, e) /\ found' = Append(found, Nowhere)
         /\ e.kind \in {"body", "open", "close", "end"}
         /\ SemaEndFunction => e.kind = "end"
         /\ e.kind = "end" => SemaEndFunction
  <2>1. CASE SemaCompound
    <3>1. /\ Event(IF depth = 0 THEN "body" ELSE "open", NoName, TRUE) \in EventType
          /\ Event(IF depth = 0 THEN "body" ELSE "open", NoName, TRUE).kind \in {"body", "open"}
      BY DEF Event, EventType, Kinds
    <3>2. ~SemaEndFunction
      <4>1. depth = 0 => unit[Len(unit)].kind = "function"
        BY <2>1 DEF SemaCompound
      <4>2. QED
        BY <4>1 DEF SemaEndFunction
    <3>3. QED
      BY <2>1, <3>1, <3>2 DEF SemaCompound, Record
  <2>2. CASE SemaEndCompound
    <3>1. Event("close", NoName, TRUE) \in EventType /\ Event("close", NoName, TRUE).kind = "close"
      BY DEF Event, EventType, Kinds
    <3>2. ~SemaEndFunction
      <4>1. depth > 0
        BY <2>2 DEF SemaEndCompound, Opened
      <4>2. SemaEndFunction => depth = 0
        BY DEF SemaEndFunction
      <4>3. QED
        BY <4>1, <4>2
    <3>3. QED
      BY <2>2, <3>1, <3>2 DEF SemaEndCompound, Record
  <2>3. CASE SemaEndFunction
    <3>1. Event("end", NoName, TRUE) \in EventType /\ Event("end", NoName, TRUE).kind = "end"
      BY DEF Event, EventType, Kinds
    <3>2. QED
      BY <2>3, <3>1 DEF SemaEndFunction, Record
  <2>4. QED
    BY <2>1, <2>2, <2>3
<1>3. /\ phase = "sema" /\ level > 0 /\ UNCHANGED <<phase, irFound, errors, shadows>>
      /\ SemaEndFunction => level = 1
  <2>1. InFunction /\ UNCHANGED <<phase, irFound, errors, shadows>>
    BY DEF SemaCompound, SemaEndCompound, SemaEndFunction, Opened, Record
  <2>2. phase = "sema" /\ level > 0
    BY <2>1 DEF InFunction
  <2>3. depth = IF level = 0 THEN 0 ELSE level - 1
    BY <1>1, <2>2 DEF WalkInv
  <2>4. SemaEndFunction => depth = 0
    BY DEF SemaEndFunction
  <2>5. ASSUME SemaEndFunction PROVE level = 1
    <3>1. level - 1 = 0
      BY <2>2, <2>3, <2>4, <2>5
    <3>2. level \in Int
      BY <1>9
    <3>3. QED
      BY <3>1, <3>2
  <2>6. QED
    BY <2>1, <2>2, <2>5
<1>4. /\ symbols' = symbols /\ DOMAIN identifiers' \subseteq Nat
      /\ \A l \in {1} \cup DOMAIN identifiers', n \in Names :
            Sees(l, n)' # NoSymbol => l \in DOMAIN identifiers /\ Sees(l, n)' = Sees(l, n)
      /\ \A n \in Names : Sees(1, n)' = Sees(1, n)
      /\ SemaEndFunction => DOMAIN identifiers' = {1}
  <2>1. CASE SemaCompound
    <3>1. EnterScope
      BY <2>1 DEF SemaCompound
    <3>2. PICK top \in Nat : top = Len(identifiers) + 1
      BY <1>1
    <3>3. /\ DOMAIN identifiers' = 1..top /\ symbols' = symbols
          /\ \A n \in Names : /\ Sees(top, n)' = NoSymbol
                              /\ \A l \in 1..top : l # top => Sees(l, n)' = Sees(l, n)
      BY <1>1, <3>1, <3>2, EnterSees
    <3>4. 1 \in 1..top /\ 1 # top /\ \A l \in 1..top : l # top => l \in DOMAIN identifiers
      BY <1>1, <3>2
    <3>5. ~SemaEndFunction
      BY <1>1, <2>1 DEF SemaCompound, SemaEndFunction, InFunction, EnterScope, ExitScope, TableTypes
    <3>6. QED
      BY <3>3, <3>4, <3>5
  <2>2. CASE SemaEndCompound \/ SemaEndFunction
    <3>1. ExitScope
      BY <2>2 DEF SemaEndCompound, SemaEndFunction
    <3>2. /\ Len(identifiers') = Len(identifiers) - 1 /\ symbols' = symbols
          /\ DOMAIN identifiers' \subseteq DOMAIN identifiers
          /\ \A n \in Names : \A l \in DOMAIN identifiers' : Sees(l, n)' = Sees(l, n)
      BY <1>1, <1>3, <3>1, ExitSees
    <3>3. identifiers' = SubSeq(identifiers, 1, Len(identifiers) - 1)
      BY <3>1 DEF ExitScope
    <3>4. DOMAIN identifiers' = 1..Len(identifiers) - 1
      BY <1>1, <3>3
    <3>5. 1 \in DOMAIN identifiers'
      BY <1>9, <1>3, <3>4
    <3>6. SemaEndFunction => DOMAIN identifiers' = {1}
      <4>1. ASSUME SemaEndFunction PROVE Len(identifiers) = 2
        <5>1. level = 1
          BY <1>3, <4>1
        <5>2. QED
          BY <1>9, <5>1
      <4>2. 1..(2 - 1) = {1}
        OBVIOUS
      <4>3. QED
        BY <3>4, <4>1, <4>2
    <3>7. QED
      BY <1>1, <3>2, <3>5, <3>6
  <2>3. QED
    BY <2>1, <2>2
<1>5. \A n : ~IsDecl(e, n)
  BY <1>2 DEF IsDecl
<1>6. ~shadows' => ShowsFunctions' /\ ShowsLocals'
  <2>1. SUFFICES ASSUME ~shadows PROVE ShowsFunctions' /\ ShowsLocals'
    BY <1>3
  <2>2. ShowsFunctions /\ ShowsLocals
    BY <1>3, <2>1 DEF AgreeInv
  <2>3. 1 \in DOMAIN identifiers
    BY <1>1
  <2>4. QED
    BY <1>2, <1>4, <1>5, <2>2, <2>3, ShowsSame
<1>7. e.kind # "use" /\ Nowhere \in Nat
  BY <1>2 DEF Nowhere
<1>8. QED
  BY <1>2, <1>3, <1>6, <1>7, SemaAgrees
\* While nothing is hidden, a declaration is of a name nothing is visible of.
LEMMA SemaFunctionAgrees ==
  ASSUME ScopeInv, AgreeInv, NEW n \in Names, SemaFunction(n)
  PROVE  AgreeInv'
<1> DEFINE e == Event("function", n, TRUE)
<1>1. /\ phase = "sema" /\ level = 0 /\ AddFunction(n, Here)
      /\ unit' = Append(unit, e) /\ found' = Append(found, Nowhere) /\ UNCHANGED <<phase, irFound, errors>>
      /\ shadows' = (shadows \/ LookupID(n) # NoSymbol)
  BY DEF SemaFunction, Record
<1>2. e \in EventType /\ e.kind = "function" /\ e.name = n /\ Nowhere \in Nat
  BY DEF Event, EventType, Kinds, Nowhere
<1> HIDE DEF e
<1>3. /\ TableTypes /\ UnitInv /\ 1 \in DOMAIN identifiers /\ DOMAIN identifiers \subseteq Nat
  BY DEF ScopeInv, TableTypes
<1>4. PICK k \in Nat : k = Len(unit) /\ Here = k + 1
  BY <1>3 DEF UnitInv, Here
<1>5. Create(1, "SK_Function", n, "none", k + 1) /\ level' = level /\ "none" \in StorageClasses
  BY <1>1, <1>4 DEF AddFunction, StorageClasses
<1>6. /\ DOMAIN identifiers' = DOMAIN identifiers
      /\ Sees(1, n)' = NewSymbol /\ NewSymbol # NoSymbol /\ NewSymbol \in Ids'
      /\ symbols'[NewSymbol].by = k + 1
      /\ \A s \in Ids : symbols'[s] = symbols[s] /\ s \in Ids'
      /\ \A l \in DOMAIN identifiers, m \in Names : l # 1 \/ m # n => Sees(l, m)' = Sees(l, m)
  BY <1>3, <1>5, CreateSees
<1>7. ~shadows' => ShowsFunctions' /\ ShowsLocals'
  <2> SUFFICES ASSUME ~shadows' PROVE ShowsFunctions' /\ ShowsLocals'
    OBVIOUS
  <2>1. ~shadows /\ LookupID(n) = NoSymbol
    BY <1>1
  <2>2. ShowsFunctions /\ ShowsLocals
    BY <1>1, <2>1 DEF AgreeInv
  <2>3. \A l \in DOMAIN identifiers : Sees(l, n) = NoSymbol
    BY <1>3, <2>1, LookupIs
  <2>4. ASSUME NEW l \in {1} \cup DOMAIN identifiers', NEW m \in Names, Sees(l, m)' # NoSymbol
        PROVE  \/ Sees(l, m)' = Sees(l, m) /\ l \in DOMAIN identifiers /\ Kept(l, m, e)
               \/ Sees(l, m)' \in Ids' /\ symbols'[Sees(l, m)'].by = k + 1 /\ Added(l, m, e)
    <3>1. l \in DOMAIN identifiers
      BY <1>3, <1>6
    <3>2. CASE m = n
      <4>1. l = 1
        BY <1>6, <2>3, <2>4, <3>1, <3>2
      <4>2. QED
        BY <1>2, <1>6, <3>2, <4>1 DEF Added, IsDecl
    <3>3. CASE m # n
      <4>1. Sees(l, m)' = Sees(l, m)
        BY <1>6, <3>1, <3>3
      <4>2. QED
        BY <1>2, <3>1, <3>3, <4>1 DEF Kept, IsDecl
    <3>4. QED
      BY <3>2, <3>3
  <2>5. \A m \in Names : Sees(1, m) # NoSymbol => Sees(1, m)' = Sees(1, m)
    BY <1>3, <1>6, <2>3
  <2>6. /\ e.name \in Names /\ Sees(1, e.name)' # NoSymbol /\ symbols'[Sees(1, e.name)'].by = k + 1
    BY <1>2, <1>6
  <2>7. QED
    BY <1>1, <1>2, <1>3, <1>4, <1>6, <2>2, <2>4, <2>5, <2>6, ShowsNext
<1>8. shadows => shadows'
  BY <1>1
<1>9. QED
  BY <1>1, <1>2, <1>7, <1>8, SemaAgrees

LEMMA SemaDeclareAgrees ==
  ASSUME ScopeInv, AgreeInv, NEW n \in Names, SemaDeclare(n)
  PROVE  AgreeInv'
<1> DEFINE e == Event("declare", n, TRUE)
<1>1. /\ phase = "sema" /\ level > 0 /\ AddVariable(n, "none", Here)
      /\ unit' = Append(unit, e) /\ found' = Append(found, Nowhere) /\ UNCHANGED <<phase, irFound, errors>>
      /\ shadows' = (shadows \/ LookupID(n) # NoSymbol)
  BY DEF SemaDeclare, Opened, InFunction, Record
<1>2. e \in EventType /\ e.kind = "declare" /\ e.name = n /\ Nowhere \in Nat
  BY DEF Event, EventType, Kinds, Nowhere
<1> HIDE DEF e
<1>3. /\ TableTypes /\ UnitInv /\ 1 \in DOMAIN identifiers /\ DOMAIN identifiers \subseteq Nat
      /\ level = Len(identifiers) - 1 /\ Len(identifiers) \in DOMAIN identifiers
  BY DEF ScopeInv, TableTypes
<1>4. PICK k \in Nat : k = Len(unit) /\ Here = k + 1
  BY <1>3 DEF UnitInv, Here
<1> PICK top \in DOMAIN identifiers : top = Len(identifiers)
  BY <1>3
<1>5. /\ Create(top, "SK_Variable", n, "none", k + 1) /\ level' = level /\ "none" \in StorageClasses
      /\ top # 1
  <2>1. Create(top, "SK_Variable", n, "none", k + 1) /\ level' = level
    BY <1>1, <1>4 DEF AddVariable
  <2>2. top # 1
    BY <1>1, <1>3
  <2>3. QED
    BY <2>1, <2>2 DEF StorageClasses
<1>6. /\ DOMAIN identifiers' = DOMAIN identifiers
      /\ Sees(top, n)' = NewSymbol /\ NewSymbol # NoSymbol /\ NewSymbol \in Ids'
      /\ symbols'[NewSymbol].by = k + 1
      /\ \A s \in Ids : symbols'[s] = symbols[s] /\ s \in Ids'
      /\ \A l \in DOMAIN identifiers, m \in Names : l # top \/ m # n => Sees(l, m)' = Sees(l, m)
  BY <1>3, <1>5, CreateSees
<1>7. ~shadows' => ShowsFunctions' /\ ShowsLocals'
  <2> SUFFICES ASSUME ~shadows' PROVE ShowsFunctions' /\ ShowsLocals'
    OBVIOUS
  <2>1. ~shadows /\ LookupID(n) = NoSymbol
    BY <1>1
  <2>2. ShowsFunctions /\ ShowsLocals
    BY <1>1, <2>1 DEF AgreeInv
  <2>3. \A l \in DOMAIN identifiers : Sees(l, n) = NoSymbol
    BY <1>3, <2>1, LookupIs
  <2>4. ASSUME NEW l \in {1} \cup DOMAIN identifiers', NEW m \in Names, Sees(l, m)' # NoSymbol
        PROVE  \/ Sees(l, m)' = Sees(l, m) /\ l \in DOMAIN identifiers /\ Kept(l, m, e)
               \/ Sees(l, m)' \in Ids' /\ symbols'[Sees(l, m)'].by = k + 1 /\ Added(l, m, e)
    <3>1. l \in DOMAIN identifiers
      BY <1>3, <1>6
    <3>2. CASE m = n
      <4>1. l = top
        BY <1>6, <2>3, <2>4, <3>1, <3>2
      <4>2. QED
        BY <1>2, <1>5, <1>6, <3>2, <4>1 DEF Added, IsDecl
    <3>3. CASE m # n
      <4>1. Sees(l, m)' = Sees(l, m)
        BY <1>6, <3>1, <3>3
      <4>2. QED
        BY <1>2, <3>1, <3>3, <4>1 DEF Kept, IsDecl
    <3>4. QED
      BY <3>2, <3>3
  <2>5. \A m \in Names : Sees(1, m) # NoSymbol => Sees(1, m)' = Sees(1, m)
    BY <1>3, <1>5, <1>6
  <2>6. QED
    BY <1>1, <1>2, <1>3, <1>4, <1>6, <2>2, <2>4, <2>5, ShowsNext
<1>8. shadows => shadows'
  BY <1>1
<1>9. QED
  BY <1>1, <1>2, <1>7, <1>8, SemaAgrees

\* What the checker finds for a name is its last declaration.
LEMMA FindsLast ==
  ASSUME TableTypes, ShowsFunctions, ShowsLocals, NEW n \in Names, LookupID(n) # NoSymbol
  PROVE  LookupID(n) \in Ids /\ Last(symbols[LookupID(n)].by, n, Len(unit))
<1>1. PICK l \in DOMAIN identifiers : LookupID(n) = Sees(l, n) /\ Sees(l, n) # NoSymbol
  BY LookupIs
<1>2. l = 1 \/ l > 1
  BY DEF TableTypes
<1>3. Shown(l, n, "function") \/ Shown(l, n, "declare")
  BY <1>1, <1>2 DEF ShowsFunctions, ShowsLocals
<1>4. QED
  BY <1>1, <1>3 DEF Shown

LEMMA SemaNamedAgrees ==
  ASSUME ScopeInv, AgreeInv, NEW n \in Names, NEW q \in {"declare", "use"},
         SemaUse(n) \/ SemaUnseen(q, n)
  PROVE  AgreeInv'
<1>1. PICK e \in EventType, place \in Nat :
         /\ unit' = Append(unit, e) /\ found' = Append(found, place)
         /\ e.kind \in {"declare", "use"} /\ e.name = n
         /\ e.kind = "declare" => shadows' = (shadows \/ LookupID(n) # NoSymbol)
         /\ e.seen => /\ place = PlaceOf(LookupID(n))
                      /\ errors' = (errors \/ LookupID(n) = NoSymbol)
  <2>1. CASE SemaUse(n)
    <3>1. Event("use", n, TRUE) \in EventType /\ Event("use", n, TRUE).kind = "use"
          /\ Event("use", n, TRUE).name = n
      BY DEF Event, EventType, Kinds
    <3>2. PlaceOf(LookupID(n)) \in Nat
      <4>1. TableTypes /\ symbols \in Seq(Symbols)
        BY DEF ScopeInv, TableTypes
      <4>2. LookupID(n) = NoSymbol \/ LookupID(n) \in Ids
        BY <4>1, LookupIs, SeesIs
      <4>3. \A s \in Ids : symbols[s].by \in Nat
        <5>1. \A s \in Ids : symbols[s] \in Symbols
          BY <4>1 DEF Ids
        <5>2. QED
          BY <5>1 DEF Symbols
      <4>4. QED
        BY <4>2, <4>3 DEF PlaceOf, Nowhere
    <3>3. QED
      BY <2>1, <3>1, <3>2 DEF SemaUse, Record
  <2>2. CASE SemaUnseen(q, n)
    <3>1. /\ Event(q, n, FALSE) \in EventType /\ Event(q, n, FALSE).kind = q
          /\ Event(q, n, FALSE).name = n /\ ~Event(q, n, FALSE).seen
      BY DEF Event, EventType, Kinds
    <3>2. QED
      BY <2>2, <3>1 DEF SemaUnseen, Record, Nowhere
  <2>3. QED
    BY <2>1, <2>2
<1>2. /\ phase = "sema" /\ UNCHANGED <<phase, irFound>> /\ UNCHANGED <<symbols, identifiers>>
      /\ shadows => shadows'
      /\ errors => errors'
  <2>1. /\ phase = "sema" /\ UNCHANGED <<phase, irFound>> /\ UNCHANGED <<symbols, identifiers>>
    BY DEF SemaUse, SemaUnseen, Record, Opened, InFunction, tableVars
  <2>2. CASE SemaUse(n)
    BY <2>1, <2>2 DEF SemaUse
  <2>3. CASE SemaUnseen(q, n)
    BY <2>1, <2>3 DEF SemaUnseen
  <2>4. QED
    BY <2>2, <2>3
<1>3. /\ TableTypes /\ UnitInv /\ 1 \in DOMAIN identifiers /\ DOMAIN identifiers \subseteq Nat
      /\ DOMAIN identifiers' = DOMAIN identifiers
  BY <1>2 DEF ScopeInv, TableTypes
<1>4. \A l, m : Sees(l, m)' = Sees(l, m)
  BY <1>2, SameSees
<1>5. ~shadows' => ShowsFunctions' /\ ShowsLocals'
  <2> SUFFICES ASSUME ~shadows' PROVE ShowsFunctions' /\ ShowsLocals'
    OBVIOUS
  <2>1. ~shadows
    BY <1>2
  <2>2. ShowsFunctions /\ ShowsLocals
    BY <1>2, <2>1 DEF AgreeInv
  <2>3. \A m \in Names : IsDecl(e, m) => LookupID(m) = NoSymbol
    BY <1>1, <1>2 DEF IsDecl
  <2>4. e.kind # "function" /\ e.kind # "end"
    BY <1>1
  <2>5. /\ \A l \in {1} \cup DOMAIN identifiers', m \in Names :
              Sees(l, m)' # NoSymbol => l \in DOMAIN identifiers /\ Sees(l, m)' = Sees(l, m)
        /\ \A m \in Names : Sees(1, m)' = Sees(1, m)
    BY <1>3, <1>4
  <2>6. QED
    BY <1>1, <1>2, <1>3, <2>2, <2>3, <2>4, <2>5, ShowsSame
<1>6. ASSUME ~shadows', ~errors', e.kind = "use", e.seen
      PROVE  Last(place, e.name, Len(unit))
  <2>1. LookupID(n) # NoSymbol /\ place = symbols[LookupID(n)].by /\ ~shadows
    BY <1>1, <1>2, <1>6 DEF PlaceOf
  <2>2. ShowsFunctions /\ ShowsLocals
    BY <1>2, <2>1 DEF AgreeInv
  <2>3. QED
    BY <1>1, <1>3, <2>1, <2>2, FindsLast
<1>7. QED
  BY <1>1, <1>2, <1>5, <1>6, SemaAgrees
\* Without a new event, what a scope still shows is still the last declaration.
LEMMA KeepsShown ==
  ASSUME unit' = unit, \A s \in Ids : symbols'[s] = symbols[s] /\ s \in Ids',
         NEW l, NEW n, NEW kind, Sees(l, n)' = Sees(l, n), Shown(l, n, kind)
  PROVE  Shown(l, n, kind)'
<1>1. PICK p, k : p = symbols[Sees(l, n)].by /\ k = Len(unit)
  OBVIOUS
<1>2. Sees(l, n) \in Ids /\ Last(p, n, k) /\ unit[p].kind = kind
  BY <1>1 DEF Shown
<1>3. Last(p, n, k)'
  BY <1>2 DEF Last, Decl, Ends
<1>4. symbols'[Sees(l, n)'].by = p /\ Len(unit') = k /\ Sees(l, n)' \in Ids'
  BY <1>1, <1>2
<1>5. QED
  BY <1>2, <1>3, <1>4 DEF Shown

LEMMA KeepsFunctions ==
  ASSUME unit' = unit, \A s \in Ids : symbols'[s] = symbols[s] /\ s \in Ids',
         \A n \in Names : Sees(1, n)' = Sees(1, n), ShowsFunctions
  PROVE  ShowsFunctions'
<1>1. \A n \in Names : Sees(1, n)' # NoSymbol => Shown(1, n, "function")'
  BY KeepsShown DEF ShowsFunctions
<1>2. ASSUME NEW f \in DOMAIN unit', unit'[f].kind = "function"
      PROVE  /\ unit'[f].name \in Names
             /\ Sees(1, unit[f].name)' # NoSymbol /\ symbols'[Sees(1, unit[f].name)'].by = f
  <2>1. PICK n \in Names : n = unit[f].name /\ Sees(1, n) # NoSymbol /\ symbols[Sees(1, n)].by = f
    BY <1>2 DEF ShowsFunctions
  <2>2. Sees(1, n)' = Sees(1, n) /\ Sees(1, n) \in Ids /\ unit'[f].name = n
    BY <2>1 DEF ShowsFunctions, Shown
  <2>3. QED
    BY <2>1, <2>2
<1>3. QED
  BY <1>1, <1>2 DEF ShowsFunctions

\* The scope of the function is new and empty.
LEMMA SemaEnterAgrees ==
  ASSUME ScopeInv, AgreeInv, SemaEnterFunction
  PROVE  AgreeInv'
<1>1. /\ TableTypes /\ UnitInv /\ Len(identifiers) \in Nat /\ Len(identifiers) > 0
      /\ DOMAIN identifiers = 1..Len(identifiers)
  BY DEF ScopeInv, TableTypes
<1>2. /\ EnterScope /\ phase = "sema"
      /\ UNCHANGED <<phase, unit, found, pos, irFound, errors, shadows>>
  BY DEF SemaEnterFunction, walkVars
<1>3. PICK top \in Nat : top = Len(identifiers) + 1
  BY <1>1
<1>4. /\ DOMAIN identifiers' = 1..top /\ symbols' = symbols
      /\ \A n \in Names : /\ Sees(top, n)' = NoSymbol
                          /\ \A l \in 1..top : l # top => Sees(l, n)' = Sees(l, n)
  BY <1>1, <1>2, <1>3, EnterSees
<1>5. 1 \in 1..top /\ 1 # top /\ \A l \in 1..top : l # top => l \in DOMAIN identifiers
  BY <1>1, <1>3
<1>6. \A s \in Ids : symbols'[s] = symbols[s] /\ s \in Ids'
  BY <1>4 DEF Ids
<1>7. ~shadows => ShowsFunctions' /\ ShowsLocals'
  <2> SUFFICES ASSUME ~shadows PROVE ShowsFunctions' /\ ShowsLocals'
    OBVIOUS
  <2>1. ShowsFunctions /\ ShowsLocals
    BY <1>2 DEF AgreeInv
  <2>2. ShowsFunctions'
    BY <1>2, <1>4, <1>5, <1>6, <2>1, KeepsFunctions
  <2>3. ASSUME NEW l \in DOMAIN identifiers', NEW n \in Names, l > 1, Sees(l, n)' # NoSymbol
        PROVE  Shown(l, n, "declare")'
    <3>1. Sees(l, n)' = Sees(l, n) /\ l \in DOMAIN identifiers
      BY <1>4, <1>5, <2>3
    <3>2. QED
      BY <1>2, <1>6, <2>1, <2>3, <3>1, KeepsShown DEF ShowsLocals
  <2>4. QED
    BY <2>2, <2>3 DEF ShowsLocals
<1>8. (FoundLast' <=> FoundLast) /\ PassesAgree'
  BY <1>2 DEF FoundLast, Last, Decl, Ends, PassesAgree, AgreeInv
<1>9. QED
  BY <1>2, <1>7, <1>8 DEF AgreeInv

-----------------------------------------------------------------------------
(* The generator.                                                          *)

LEMMA EndSemaAgrees ==
  ASSUME ScopeInv, AgreeInv, EndSema
  PROVE  AgreeInv'
<1>1. /\ phase = "sema" /\ Outside(Len(unit)) /\ pos' = 1
      /\ UNCHANGED <<unit, found, irFound, errors, shadows, symbols, identifiers, level>>
      /\ phase' = IF errors THEN "failed" ELSE "ir"
  BY DEF EndSema, Outside, tableVars
<1>2. level = 0
  <2>1. TableTypes /\ WalkInv
    BY DEF ScopeInv
  <2>2. currentFunc = NoSymbol
    BY <1>1, <2>1 DEF WalkInv
  <2>3. level \in Nat /\ ~(level > 0)
    BY <2>1, <2>2 DEF WalkInv, TableTypes
  <2>4. QED
    BY <2>3
<1>3. /\ irFound = << >>
      /\ ~shadows => ShowsFunctions
  BY <1>1 DEF AgreeInv
<1>4. \A n \in Names : Sees(1, n)' = Sees(1, n)
  BY <1>1, SameSees
<1>5. \A s \in Ids : symbols'[s] = symbols[s] /\ s \in Ids'
  BY <1>1 DEF Ids
<1>6. ~shadows' => ShowsFunctions'
  BY <1>1, <1>3, <1>4, <1>5, KeepsFunctions
<1>7. (FoundLast' <=> FoundLast) /\ PassesAgree'
  BY <1>1 DEF FoundLast, Last, Decl, Ends, PassesAgree, AgreeInv
<1>8. phase' = "ir" => ~errors' /\ Len(irFound') = pos' - 1 /\ level' # 1
  BY <1>1, <1>2, <1>3
<1>9. QED
  BY <1>1, <1>6, <1>7, <1>8 DEF AgreeInv

LEMMA IRAgrees ==
  ASSUME ScopeInv, AgreeInv, phase = "ir", pos <= Len(unit), NEW place \in Nat, Found(place),
         \A s \in Ids : symbols'[s] = symbols[s] /\ s \in Ids',
         \A n \in Names : Sees(1, n)' = Sees(1, n),
         ~shadows /\ level' = 1 => ShowsLatest',
         ~shadows /\ unit[pos].kind = "use" /\ unit[pos].seen => place = found[pos]
  PROVE  AgreeInv'
<1>1. /\ irFound' = Append(irFound, place) /\ pos' = pos + 1
      /\ UNCHANGED <<phase, unit, found, errors, shadows>>
  BY DEF Found
<1>2. /\ irFound \in Seq(Nat) /\ Len(irFound) = pos - 1 /\ ~errors
      /\ ~shadows => ShowsFunctions
      /\ PassesAgree /\ pos \in Nat /\ pos > 0
  BY DEF AgreeInv, ScopeInv, WalkInv
<1>3. /\ irFound' \in Seq(Nat) /\ Len(irFound') = pos /\ DOMAIN irFound' = 1..pos
      /\ \A i \in 1..pos : i # pos => i \in DOMAIN irFound /\ irFound'[i] = irFound[i]
      /\ irFound'[pos] = place
  BY <1>1, <1>2
<1>4. PassesAgree'
  <2> SUFFICES ASSUME ~shadows, NEW i \in 1..pos, unit[i].kind = "use", unit[i].seen
               PROVE  irFound'[i] = found[i]
    BY <1>1, <1>3 DEF PassesAgree
  <2>1. CASE i = pos
    BY <1>3, <2>1
  <2>2. CASE i # pos
    BY <1>2, <1>3, <2>2 DEF PassesAgree
  <2>3. QED
    BY <2>1, <2>2
<1>5. ~shadows => ShowsFunctions'
  BY <1>1, <1>2, KeepsFunctions
<1>6. FoundLast' <=> FoundLast
  BY <1>1 DEF FoundLast, Last, Decl, Ends
<1>7. Len(irFound') = pos' - 1
  BY <1>1, <1>2, <1>3
<1>8. QED
  BY <1>1, <1>2, <1>3, <1>4, <1>5, <1>6, <1>7 DEF AgreeInv
\* The generator passes an event that does not end the function.
LEMMA BeforeNext ==
  ASSUME ScopeInv, phase = "ir", pos <= Len(unit), unit' = unit, pos' = pos + 1,
         unit[pos].kind # "end", NEW j \in DOMAIN unit
  PROVE  Before(j)' <=> Before(j) \/ j = pos
<1>1. /\ DOMAIN unit = 1..Len(unit) /\ Len(unit) \in Nat /\ pos \in Nat /\ j \in Nat
  BY DEF ScopeInv, UnitInv, WalkInv
<1> PICK q \in Nat : q = pos
  BY <1>1
<1>2. Before(j)' <=> j < q + 1 /\ ~(\E i \in j + 1..q : unit[i].kind = "end")
  <2>1. pos' - 1 = q
    OBVIOUS
  <2>2. QED
    BY <2>1 DEF Before, Ends
<1>3. Before(j) <=> j < q /\ ~(\E i \in j + 1..q - 1 : unit[i].kind = "end")
  BY DEF Before, Ends
<1>4. CASE j = q
  <2>1. \A i \in j + 1..q : FALSE
    BY <1>4
  <2>2. j < q + 1
    BY <1>4
  <2>3. QED
    BY <1>2, <1>4, <2>1, <2>2
<1>5. CASE j < q
  <2>1. \A i \in j + 1..q : i \in j + 1..q - 1 \/ i = q
    BY <1>1
  <2>2. \A i \in j + 1..q - 1 : i \in j + 1..q
    BY <1>1
  <2>3. j < q + 1 /\ j # q
    BY <1>1, <1>5
  <2>4. QED
    BY <1>2, <1>3, <1>5, <2>1, <2>2, <2>3
<1>6. CASE j > q
  <2>1. ~(j < q + 1) /\ ~(j < q) /\ j # q
    BY <1>1, <1>6
  <2>2. QED
    BY <1>2, <1>3, <2>1
<1>7. QED
  BY <1>1, <1>4, <1>5, <1>6

\* The event at pos declares the name of a new symbol, or no name; a symbol of
\* a name nobody declared may be made up for it.
LEMMA LatestNext ==
  ASSUME ScopeInv, phase = "ir", pos <= Len(unit), ShowsLatest, unit' = unit, pos' = pos + 1,
         unit[pos].kind # "end", \A s \in Ids : symbols'[s] = symbols[s] /\ s \in Ids',
         \A n \in Names : Sees(1, n)' = Sees(1, n),
         \A n \in Names :
            \/ Sees(2, n)' = Sees(2, n) /\ ~Declares(pos, n)
            \/ /\ Sees(2, n)' # NoSymbol /\ Sees(2, n)' \in Ids' /\ symbols'[Sees(2, n)'].by = pos
               /\ Declares(pos, n) \/ (~Declares(pos, n) /\ NoneBefore(n) /\ Sees(1, n) = NoSymbol)
  PROVE  ShowsLatest'
<1>1. /\ DOMAIN unit = 1..Len(unit) /\ Len(unit) \in Nat /\ pos \in Nat /\ pos \in DOMAIN unit
  BY DEF ScopeInv, UnitInv, WalkInv
<1>2. \A j \in DOMAIN unit : Before(j)' <=> Before(j) \/ j = pos
  BY BeforeNext
<1>3. \A j, n : Declares(j, n)' <=> Declares(j, n)
  BY DEF Declares
<1>4. ASSUME NEW n, NoneBefore(n), ~Declares(pos, n) PROVE NoneBefore(n)'
  BY <1>2, <1>3, <1>4 DEF NoneBefore
<1> PICK q \in Nat : q = pos
  BY <1>1
<1>5. ASSUME NEW n \in Names
      PROVE  \/ Sees(2, n)' = NoSymbol /\ NoneBefore(n)'
             \/ /\ Sees(2, n)' # NoSymbol /\ Sees(2, n)' \in Ids'
                /\ \E p \in DOMAIN unit :
                     /\ p = symbols'[Sees(2, n)'].by /\ Before(p)'
                     /\ \/ Declares(p, n)' /\ \A j \in p + 1..pos' - 1 : ~Declares(j, n)'
                        \/ NoneBefore(n)' /\ Sees(1, n)' = NoSymbol
  <2>1. CASE Sees(2, n)' = Sees(2, n) /\ ~Declares(pos, n)
    <3>1. CASE Sees(2, n) = NoSymbol /\ NoneBefore(n)
      BY <1>4, <2>1, <3>1
    <3>2. CASE ~(Sees(2, n) = NoSymbol /\ NoneBefore(n))
      <4>1. PICK p \in DOMAIN unit :
               /\ Sees(2, n) # NoSymbol /\ Sees(2, n) \in Ids /\ p = symbols[Sees(2, n)].by /\ Before(p)
               /\ \/ Declares(p, n) /\ \A j \in p + 1..pos - 1 : ~Declares(j, n)
                  \/ NoneBefore(n) /\ Sees(1, n) = NoSymbol
        BY <3>2 DEF ShowsLatest
      <4>2. /\ Sees(2, n)' # NoSymbol /\ Sees(2, n)' \in Ids' /\ p = symbols'[Sees(2, n)'].by
            /\ p \in DOMAIN unit' /\ Before(p)'
        BY <1>2, <2>1, <4>1
      <4>3. CASE NoneBefore(n) /\ Sees(1, n) = NoSymbol
        BY <1>4, <2>1, <4>2, <4>3
      <4>4. CASE Declares(p, n) /\ \A j \in p + 1..pos - 1 : ~Declares(j, n)
        <5>1. \A j \in p + 1..q : j \in p + 1..q - 1 \/ j = q
          BY <1>1
        <5>2. pos' - 1 = q
          OBVIOUS
        <5>3. Declares(p, n)' /\ \A j \in p + 1..pos' - 1 : ~Declares(j, n)'
          BY <1>3, <2>1, <4>4, <5>1, <5>2
        <5>4. QED
          BY <4>2, <5>3
      <4>5. QED
        BY <4>1, <4>3, <4>4
    <3>3. QED
      BY <3>1, <3>2
  <2>2. CASE /\ Sees(2, n)' # NoSymbol /\ Sees(2, n)' \in Ids' /\ symbols'[Sees(2, n)'].by = pos
             /\ Declares(pos, n) \/ (~Declares(pos, n) /\ NoneBefore(n) /\ Sees(1, n) = NoSymbol)
    <3>1. pos \in DOMAIN unit' /\ q = pos /\ q \in DOMAIN unit /\ Before(q)'
      BY <1>1, <1>2
    <3>2. symbols'[Sees(2, n)'].by = q
      BY <2>2
    <3>3. CASE Declares(pos, n)
      <4>1. Declares(q, n)' /\ \A j \in q + 1..pos' - 1 : ~Declares(j, n)'
        <5>1. \A j \in q + 1..pos' - 1 : FALSE
          OBVIOUS
        <5>2. QED
          BY <1>3, <3>3, <5>1
      <4>2. QED
        BY <2>2, <3>1, <3>2, <4>1
    <3>4. CASE ~Declares(pos, n) /\ NoneBefore(n) /\ Sees(1, n) = NoSymbol
      <4>1. NoneBefore(n)' /\ Sees(1, n)' = NoSymbol
        BY <1>4, <3>4
      <4>2. QED
        BY <2>2, <3>1, <3>2, <4>1
    <3>5. QED
      BY <2>2, <3>3, <3>4
  <2>3. QED
    BY <2>1, <2>2
<1>6. QED
  BY <1>5 DEF ShowsLatest

\* The one scope of the generator finds what the checker's nest of scopes found:
\* a variable was declared in this function and not again, and before a function
\* none of its name can be left.
LEMMA FindsTheSame ==
  ASSUME ScopeInv, ShowsFunctions, ShowsLatest, phase = "ir", pos <= Len(unit), level = 1,
         NEW n \in Names, NEW d, Last(d, n, pos - 1)
  PROVE  LookupID(n) # NoSymbol /\ symbols[LookupID(n)].by = d
<1>1. /\ TableTypes /\ UnitInv /\ Len(identifiers) = 2 /\ DOMAIN identifiers = {1, 2}
  <2>1. TableTypes /\ UnitInv /\ level = Len(identifiers) - 1
    BY DEF ScopeInv, TableTypes
  <2>2. Len(identifiers) \in Nat /\ DOMAIN identifiers = 1..Len(identifiers)
    BY <2>1, ScopesAre
  <2>5. Len(identifiers) = 2
    BY <2>1, <2>2
  <2>3. 1..2 = {1, 2}
    OBVIOUS
  <2>4. QED
    BY <2>1, <2>2, <2>3, <2>5
<1>2. /\ DOMAIN unit = 1..Len(unit) /\ Len(unit) \in Nat /\ pos \in Nat
      /\ d \in 1..pos - 1 /\ d \in DOMAIN unit
  BY <1>1 DEF UnitInv, Last, ScopeInv, WalkInv
<1>3. /\ unit[d].kind \in {"declare", "function"} /\ unit[d].name = n
      /\ \A j \in d + 1..pos - 1 : ~Declares(j, n)
      /\ unit[d].kind = "declare" => ~Ends(d, pos - 1)
  BY DEF Last, Decl, Declares
<1>4. \/ Sees(2, n) = NoSymbol /\ NoneBefore(n)
      \/ /\ Sees(2, n) # NoSymbol
         /\ \E p \in DOMAIN unit :
              /\ p = symbols[Sees(2, n)].by /\ Before(p)
              /\ \/ Declares(p, n) /\ \A j \in p + 1..pos - 1 : ~Declares(j, n)
                 \/ NoneBefore(n) /\ Sees(1, n) = NoSymbol
  BY DEF ShowsLatest
<1>5. CASE unit[d].kind = "declare"
  <2>1. Before(d) /\ Declares(d, n)
    BY <1>2, <1>3, <1>5 DEF Before, Declares
  <2>2. ~NoneBefore(n)
    BY <1>2, <2>1 DEF NoneBefore
  <2>3. PICK p \in DOMAIN unit :
           /\ Sees(2, n) # NoSymbol /\ p = symbols[Sees(2, n)].by /\ Before(p) /\ Declares(p, n)
           /\ \A j \in p + 1..pos - 1 : ~Declares(j, n)
    BY <1>4, <2>2
  <2>4. p \in 1..pos - 1
    BY <1>2, <2>3 DEF Before
  <2>5. ~(p \in d + 1..pos - 1) /\ ~(d \in p + 1..pos - 1)
    BY <1>3, <2>1, <2>3
  <2>6. p = d
    BY <1>2, <2>4, <2>5
  <2>7. LookupID(n) = Sees(2, n)
    BY <1>1, <2>3, LookupIs
  <2>8. QED
    BY <2>3, <2>6, <2>7
<1>6. CASE unit[d].kind = "function"
  <2>1. Sees(1, n) # NoSymbol /\ symbols[Sees(1, n)].by = d
    BY <1>2, <1>3, <1>6 DEF ShowsFunctions
  <2>2. ASSUME NEW p \in DOMAIN unit, Before(p), Declares(p, n),
               \A j \in p + 1..pos - 1 : ~Declares(j, n)
        PROVE  FALSE
    <3>1. p \in 1..pos - 1 /\ p # d
      BY <1>2, <1>6, <2>2 DEF Before, Declares
    <3>2. ~(p \in d + 1..pos - 1)
      BY <1>3, <2>2
    <3>3. p < d
      BY <1>2, <3>1, <3>2
    <3>4. Outside(d - 1) /\ d - 1 \in 1..pos - 1
      BY <1>1, <1>2, <1>6, <3>1, <3>3 DEF UnitInv
    <3>5. unit[d - 1].kind = "end"
      BY <3>4 DEF Outside
    <3>6. p # d - 1
      BY <2>2, <3>5 DEF Declares
    <3>7. d - 1 \in p + 1..pos - 1
      BY <1>2, <3>1, <3>3, <3>4, <3>6
    <3>8. QED
      BY <2>2, <3>5, <3>7 DEF Before, Ends
  <2>3. Sees(2, n) = NoSymbol
    BY <1>4, <2>1, <2>2
  <2>4. LookupID(n) = Sees(1, n)
    BY <1>1, <2>1, <2>3, LookupIs
  <2>5. QED
    BY <2>1, <2>4
<1>7. QED
  BY <1>3, <1>5, <1>6
-----------------------------------------------------------------------------
(* The generator's steps, one by one.                                      *)

\* What they have in common, where they start.
LEMMA LoweringAt ==
  ASSUME ScopeInv, AgreeInv, phase = "ir", pos <= Len(unit)
  PROVE  /\ TableTypes /\ UnitInv /\ pos \in DOMAIN unit /\ pos \in Nat
         /\ ~shadows => ShowsFunctions /\ FoundLast /\ (level = 1 => ShowsLatest)
         /\ unit[pos].kind = "function" => level = 0 /\ Outside(pos - 1)
         /\ unit[pos].kind # "function" => level = 1
         /\ level = Len(identifiers) - 1 /\ DOMAIN identifiers = 1..Len(identifiers)
         /\ Len(identifiers) \in Nat
<1>1. TableTypes /\ UnitInv /\ WalkInv /\ pos \in DOMAIN unit /\ pos \in Nat
  BY DEF ScopeInv, UnitInv, WalkInv
<1>2. unit[pos].kind = "function" <=> Outside(pos - 1)
  BY <1>1 DEF UnitInv
<1>3. level = IF Outside(pos - 1) THEN 0 ELSE 1
  BY <1>1 DEF WalkInv
<1>4. ~shadows => ShowsFunctions /\ FoundLast /\ (level = 1 => ShowsLatest)
  BY DEF AgreeInv
<1> HIDE DEF Ids
<1>5. /\ level = Len(identifiers) - 1 /\ DOMAIN identifiers = 1..Len(identifiers)
      /\ Len(identifiers) \in Nat
  BY <1>1 DEF TableTypes
<1>6. QED
  BY <1>1, <1>2, <1>3, <1>4, <1>5

LEMMA IRFunctionAgrees ==
  ASSUME ScopeInv, AgreeInv, IRFunction
  PROVE  AgreeInv'
<1>1. /\ phase = "ir" /\ pos <= Len(unit) /\ unit[pos].kind = "function" /\ EnterScope /\ Found(Nowhere)
      /\ unit' = unit /\ pos' = pos + 1
  BY DEF IRFunction, Lowering, Found
<1>2. /\ TableTypes /\ UnitInv /\ pos \in DOMAIN unit /\ pos \in Nat
      /\ level = 0 /\ Outside(pos - 1) /\ Len(identifiers) = 1
  BY <1>1, LoweringAt
<1>3. PICK top \in Nat : top = 2 /\ top = Len(identifiers) + 1
  BY <1>2
<1>4. /\ symbols' = symbols
      /\ \A n \in Names : Sees(2, n)' = NoSymbol /\ Sees(1, n)' = Sees(1, n)
  BY <1>1, <1>2, <1>3, EnterSees
<1>5. \A s \in Ids : symbols'[s] = symbols[s] /\ s \in Ids'
  BY <1>4 DEF Ids
<1>6. ASSUME NEW j \in DOMAIN unit, unit[j].kind = "declare" PROVE ~Before(j)'
  <2> SUFFICES ASSUME j < pos + 1 PROVE \E i \in j + 1..pos' - 1 : unit'[i].kind = "end"
    BY <1>1 DEF Before, Ends
  <2>1. DOMAIN unit \subseteq Nat /\ j \in Nat /\ j > 0
    BY <1>2 DEF UnitInv
  <2>2. j # pos
    BY <1>1, <1>6
  <2>3. pos - 1 > 0
    BY <1>2, <2>1, <2>2
  <2>4. unit[pos - 1].kind = "end"
    BY <1>2, <2>3 DEF Outside
  <2>5. pos - 1 # j
    BY <1>6, <2>4
  <2>6. pos - 1 \in j + 1..pos' - 1
    BY <1>1, <1>2, <2>1, <2>2, <2>5
  <2>7. QED
    BY <1>1, <2>4, <2>6
<1>7. ShowsLatest'
  BY <1>1, <1>4, <1>6 DEF ShowsLatest, NoneBefore, Declares
<1>8. Nowhere \in Nat /\ unit[pos].kind # "use"
  BY <1>1 DEF Nowhere
<1>9. QED
  BY <1>1, <1>4, <1>5, <1>7, <1>8, IRAgrees

LEMMA IRCompoundAgrees ==
  ASSUME ScopeInv, AgreeInv, IRCompound
  PROVE  AgreeInv'
<1>1. /\ phase = "ir" /\ pos <= Len(unit) /\ unit[pos].kind \in {"body", "open", "close"}
      /\ Found(Nowhere) /\ unit' = unit /\ pos' = pos + 1 /\ UNCHANGED <<symbols, identifiers, level, shadows>>
  BY DEF IRCompound, Lowering, Found, tableVars
<1>2. \A s \in Ids : symbols'[s] = symbols[s] /\ s \in Ids'
  BY <1>1 DEF Ids
<1>3. \A l, n : Sees(l, n)' = Sees(l, n)
  BY <1>1, SameSees
<1>4. ~shadows /\ level' = 1 => ShowsLatest'
  <2> SUFFICES ASSUME ~shadows, level = 1 PROVE ShowsLatest'
    BY <1>1
  <2>1. ShowsLatest
    BY <1>1, LoweringAt
  <2>2. \A n \in Names : ~Declares(pos, n)
    BY <1>1 DEF Declares
  <2>3. unit[pos].kind # "end"
    BY <1>1
  <2>4. QED
    BY <1>1, <1>2, <1>3, <2>1, <2>2, <2>3, LatestNext
<1>5. Nowhere \in Nat /\ unit[pos].kind # "use"
  BY <1>1 DEF Nowhere
<1>6. QED
  BY <1>1, <1>2, <1>3, <1>4, <1>5, IRAgrees

\* A declaration, or the first use of a name nobody declared, makes a symbol in
\* the generator's scope.
LEMMA IRAddAgrees ==
  ASSUME ScopeInv, AgreeInv, NEW sclass \in StorageClasses, NEW place \in Nat,
         phase = "ir", pos <= Len(unit), AddVariable(unit[pos].name, sclass, pos), Found(place),
         \/ unit[pos].kind = "declare"
         \/ unit[pos].kind = "use" /\ LookupID(unit[pos].name) = NoSymbol
  PROVE  AgreeInv'
<1>1. /\ unit' = unit /\ pos' = pos + 1 /\ shadows' = shadows /\ level' = level
      /\ Create(Len(identifiers), "SK_Variable", unit[pos].name, sclass, pos)
  BY DEF Found, AddVariable
<1>2. /\ TableTypes /\ UnitInv /\ pos \in DOMAIN unit /\ pos \in Nat
      /\ level = 1 /\ Len(identifiers) = 2 /\ DOMAIN identifiers = 1..2
      /\ ~shadows => ShowsFunctions /\ FoundLast /\ ShowsLatest
  BY LoweringAt
<1>3. PICK n \in Names : n = unit[pos].name
  BY <1>2 DEF UnitInv
<1>4. 1 \in DOMAIN identifiers /\ 2 \in DOMAIN identifiers
  BY <1>2
<1>5. Create(2, "SK_Variable", n, sclass, pos)
  BY <1>1, <1>2, <1>3
<1>6. /\ Sees(2, n)' = NewSymbol /\ NewSymbol # NoSymbol /\ NewSymbol \in Ids'
      /\ symbols'[NewSymbol].by = pos
      /\ \A s \in Ids : symbols'[s] = symbols[s] /\ s \in Ids'
      /\ \A l \in DOMAIN identifiers, m \in Names : l # 2 \/ m # n => Sees(l, m)' = Sees(l, m)
  BY <1>1, <1>2, <1>4, <1>5, CreateSees
<1>7. \A m \in Names : Sees(1, m)' = Sees(1, m)
  BY <1>4, <1>6
<1>8. unit[pos].kind # "end"
  OBVIOUS
<1>9. ~shadows => ShowsLatest'
  <2> SUFFICES ASSUME ~shadows PROVE ShowsLatest'
    OBVIOUS
  <2>1. ShowsLatest
    BY <1>2
  <2>2. \A m \in Names : Declares(pos, m) <=> unit[pos].kind = "declare" /\ m = n
    BY <1>3 DEF Declares
  <2>3. unit[pos].kind = "use" => Sees(1, n) = NoSymbol /\ NoneBefore(n)
    <3> SUFFICES ASSUME unit[pos].kind = "use" PROVE Sees(1, n) = NoSymbol /\ NoneBefore(n)
      OBVIOUS
    <3>1. Sees(1, n) = NoSymbol /\ Sees(2, n) = NoSymbol
      BY <1>2, <1>3, <1>4, LookupIs
    <3>2. QED
      BY <2>1, <3>1 DEF ShowsLatest
  <2>4. ASSUME NEW m \in Names
        PROVE  \/ Sees(2, m)' = Sees(2, m) /\ ~Declares(pos, m)
               \/ /\ Sees(2, m)' # NoSymbol /\ Sees(2, m)' \in Ids' /\ symbols'[Sees(2, m)'].by = pos
                  /\ Declares(pos, m) \/ (~Declares(pos, m) /\ NoneBefore(m) /\ Sees(1, m) = NoSymbol)
    <3>1. CASE m # n
      BY <1>4, <1>6, <2>2, <3>1
    <3>2. CASE m = n
      <4>1. Sees(2, m)' # NoSymbol /\ Sees(2, m)' \in Ids' /\ symbols'[Sees(2, m)'].by = pos
        BY <1>6, <3>2
      <4>2. Declares(pos, m) \/ (~Declares(pos, m) /\ NoneBefore(m) /\ Sees(1, m) = NoSymbol)
        BY <2>2, <2>3, <3>2
      <4>3. QED
        BY <4>1, <4>2
    <3>3. QED
      BY <3>1, <3>2
  <2>5. QED
    BY <1>1, <1>6, <1>7, <1>8, <2>1, <2>4, LatestNext
<1>10. ASSUME ~shadows, unit[pos].kind = "use", unit[pos].seen PROVE place = found[pos]
  <2>1. Last(found[pos], n, pos - 1)
    BY <1>2, <1>3, <1>10 DEF FoundLast
  <2>2. PICK d : d = found[pos] /\ Last(d, n, pos - 1)
    BY <2>1
  <2>3. LookupID(n) # NoSymbol
    BY <1>2, <1>10, <2>2, FindsTheSame
  <2>4. QED
    BY <1>3, <1>10, <2>3
<1>11. QED
  BY <1>1, <1>6, <1>7, <1>9, <1>10, IRAgrees

LEMMA IRNameAgrees ==
  ASSUME ScopeInv, AgreeInv, IRDeclare \/ IRIdentifier
  PROVE  AgreeInv'
<1>1. phase = "ir" /\ pos <= Len(unit) /\ unit[pos].kind \in {"declare", "use"}
  BY DEF IRDeclare, IRIdentifier, Lowering
<1>2. /\ TableTypes /\ UnitInv /\ pos \in DOMAIN unit /\ pos \in Nat /\ level = 1
      /\ ~shadows => ShowsFunctions /\ FoundLast /\ ShowsLatest
  BY <1>1, LoweringAt
<1>3. PICK n \in Names : n = unit[pos].name
  BY <1>1, <1>2 DEF UnitInv
<1>4. Nowhere \in Nat /\ {"none", "TK_EXTERN"} \subseteq StorageClasses
  BY DEF Nowhere, StorageClasses
<1>5. CASE IRDeclare
  <2>1. unit[pos].kind = "declare" /\ AddVariable(unit[pos].name, "none", pos) /\ Found(Nowhere)
    BY <1>5 DEF IRDeclare, Lowering
  <2>2. QED
    BY <1>1, <1>4, <2>1, IRAddAgrees
<1>6. CASE IRIdentifier /\ LookupID(n) = NoSymbol
  <2>1. unit[pos].kind = "use" /\ AddVariable(unit[pos].name, "TK_EXTERN", pos) /\ Found(pos)
    BY <1>3, <1>6 DEF IRIdentifier, Lowering
  <2>2. QED
    BY <1>1, <1>2, <1>3, <1>4, <1>6, <2>1, IRAddAgrees
<1>7. CASE IRIdentifier /\ LookupID(n) # NoSymbol
  <2>1. /\ unit[pos].kind = "use" /\ Found(PlaceOf(LookupID(n)))
        /\ UNCHANGED <<symbols, identifiers, level>>
    BY <1>3, <1>7 DEF IRIdentifier, Lowering, tableVars
  <2>2. unit' = unit /\ pos' = pos + 1
    BY <2>1 DEF Found
  <2>3. PICK place \in Nat : place = symbols[LookupID(n)].by /\ Found(place)
    <3>1. LookupID(n) \in Ids
      BY <1>2, <1>7, LookupIs, SeesIs
    <3>2. symbols[LookupID(n)] \in Symbols
      BY <1>2, <3>1 DEF TableTypes, Ids
    <3>3. QED
      BY <1>7, <2>1, <3>2 DEF PlaceOf, Symbols
  <2>4. \A s \in Ids : symbols'[s] = symbols[s] /\ s \in Ids'
    BY <2>1 DEF Ids
  <2>5. \A l, m : Sees(l, m)' = Sees(l, m)
    BY <2>1, SameSees
  <2>6. ~shadows => ShowsLatest'
    <3> SUFFICES ASSUME ~shadows PROVE ShowsLatest'
      OBVIOUS
    <3>1. ShowsLatest /\ unit[pos].kind # "end" /\ \A m \in Names : ~Declares(pos, m)
      BY <1>2, <2>1 DEF Declares
    <3>2. QED
      BY <1>1, <2>2, <2>4, <2>5, <3>1, LatestNext
  <2>7. ASSUME ~shadows, unit[pos].seen PROVE place = found[pos]
    <3>1. Last(found[pos], n, pos - 1)
      BY <1>2, <1>3, <2>1, <2>7 DEF FoundLast
    <3>2. PICK d : d = found[pos] /\ Last(d, n, pos - 1)
      BY <3>1
    <3>3. symbols[LookupID(n)].by = d
      BY <1>1, <1>2, <2>7, <3>2, FindsTheSame
    <3>4. QED
      BY <2>3, <3>2, <3>3
  <2>8. QED
    BY <1>1, <2>3, <2>4, <2>5, <2>6, <2>7, IRAgrees
<1>8. QED
  BY <1>5, <1>6, <1>7

LEMMA IREndAgrees ==
  ASSUME ScopeInv, AgreeInv, IREndFunction
  PROVE  AgreeInv'
<1>1. /\ phase = "ir" /\ pos <= Len(unit) /\ unit[pos].kind = "end" /\ ExitScope /\ Found(Nowhere)
      /\ level' = level - 1
  BY DEF IREndFunction, Lowering, ExitScope
<1>2. /\ TableTypes /\ level = 1 /\ Len(identifiers) = 2 /\ 1 \in 1..(2 - 1)
      /\ Len(identifiers) \in Nat /\ DOMAIN identifiers = 1..Len(identifiers)
  BY <1>1, LoweringAt
<1>3. /\ symbols' = symbols
      /\ \A n \in Names : \A l \in DOMAIN identifiers' : Sees(l, n)' = Sees(l, n)
  BY <1>1, <1>2, ExitSees
<1>4. 1 \in DOMAIN identifiers'
  <2>1. identifiers' = SubSeq(identifiers, 1, 2 - 1)
    BY <1>1, <1>2 DEF ExitScope
  <2>2. QED
    BY <1>2, <2>1
<1>5. \A n \in Names : Sees(1, n)' = Sees(1, n)
  BY <1>3, <1>4
<1>6. \A s \in Ids : symbols'[s] = symbols[s] /\ s \in Ids'
  BY <1>3 DEF Ids
<1>7. Nowhere \in Nat /\ unit[pos].kind # "use" /\ level' # 1
  BY <1>1, <1>2 DEF Nowhere
<1>8. QED
  BY <1>1, <1>5, <1>6, <1>7, IRAgrees

LEMMA IdleAgrees ==
  ASSUME ScopeInv, AgreeInv, EndIR \/ UNCHANGED allVars
  PROVE  AgreeInv'
<1>1. CASE EndIR
  <2>1. /\ UNCHANGED <<unit, found, irFound, errors, shadows>> /\ phase' = "done"
    BY <1>1 DEF EndIR
  <2>2. (FoundLast' <=> FoundLast) /\ (PassesAgree' <=> PassesAgree)
    BY <2>1 DEF FoundLast, Last, Decl, Ends, PassesAgree
  <2>3. QED
    BY <2>1, <2>2 DEF AgreeInv
<1>2. CASE UNCHANGED allVars
  <2>1. UNCHANGED <<symbols, identifiers, level, phase, unit, found, pos, irFound, errors, shadows>>
    BY <1>2 DEF allVars
  <2>2. /\ (FoundLast' <=> FoundLast) /\ (PassesAgree' <=> PassesAgree)
    BY <2>1 DEF FoundLast, Last, Decl, Ends, PassesAgree
  <2>3. \A l, n : Sees(l, n)' = Sees(l, n)
    BY <2>1, SameSees
  <2>4. Ids' = Ids
    BY <2>1 DEF Ids
  <2>5. (ShowsFunctions' <=> ShowsFunctions) /\ (ShowsLocals' <=> ShowsLocals)
    BY <2>1, <2>3, <2>4 DEF ShowsFunctions, ShowsLocals, Shown, Last, Decl, Ends
  <2>6. ShowsLatest' <=> ShowsLatest
    BY <2>1, <2>3, <2>4 DEF ShowsLatest, NoneBefore, Before, Ends, Declares
  <2>7. QED
    BY <2>1, <2>2, <2>5, <2>6 DEF AgreeInv
<1>3. QED
  BY <1>1, <1>2

LEMMA InitAgrees == ScopingInit => AgreeInv
<1> SUFFICES ASSUME ScopingInit PROVE AgreeInv
  OBVIOUS
<1>1. /\ phase = "sema" /\ unit = << >> /\ found = << >> /\ irFound = << >>
      /\ TableTypes /\ identifiers = <<EmptyScope>>
  BY InitScope DEF ScopingInit, TableInit, ScopeInv
<1>2. \A n \in Names : Sees(1, n) = NoSymbol
  BY <1>1, HashAssumption DEF Sees, InScope, InChain, EmptyScope
<1>3. DOMAIN identifiers = {1}
  BY <1>1
<1>4. ShowsFunctions /\ ShowsLocals
  BY <1>1, <1>2, <1>3 DEF ShowsFunctions, ShowsLocals
<1>5. FoundLast /\ PassesAgree
  BY <1>1 DEF FoundLast, PassesAgree
<1>6. QED
  BY <1>1, <1>4, <1>5 DEF AgreeInv

\* With one scope for a whole function, and with declarations the checker never
\* saw in it, the generator finds for every use the checker saw what the checker
\* found in its nest of scopes, as long as no declaration hides another.
THEOREM PassesConcur == ScopingSpec => []PassesAgree
<1>1. ScopeInv /\ AgreeInv /\ [ScopingNext]_allVars => AgreeInv'
  <2> SUFFICES ASSUME ScopeInv, AgreeInv, [ScopingNext]_allVars PROVE AgreeInv'
    OBVIOUS
  <2>1. CASE Sema
    <3>1. ASSUME NEW n \in Names, SemaFunction(n) \/ SemaDeclare(n) \/ SemaUse(n)
          PROVE  AgreeInv'
      BY <3>1, SemaFunctionAgrees, SemaDeclareAgrees, SemaNamedAgrees
    <3>2. ASSUME NEW n \in Names, NEW k \in {"declare", "use"}, SemaUnseen(k, n)
          PROVE  AgreeInv'
      BY <3>2, SemaNamedAgrees
    <3>3. QED
      BY <2>1, <3>1, <3>2, SemaBlockAgrees, SemaEnterAgrees, EndSemaAgrees DEF Sema
  <2>2. CASE IR
    BY <2>2, IRFunctionAgrees, IRCompoundAgrees, IRNameAgrees, IREndAgrees, IdleAgrees DEF IR
  <2>3. CASE Finished \/ UNCHANGED allVars
    BY <2>3, IdleAgrees DEF Finished
  <2>4. QED
    BY <2>1, <2>2, <2>3 DEF ScopingNext
<1>2. AgreeInv => PassesAgree
  BY DEF AgreeInv
<1>3. QED
  BY <1>1, <1>2, InitAgrees, ScopeInvariance, PTL DEF ScopingSpec

-----------------------------------------------------------------------------
(* The lists of the functions.  A list holds the events of its function    *)
(* that declare a variable, once for each pass that has added it.          *)

\* Event i declares a variable of the function at event f.
Own(f, i) == f < i /\ unit[i].kind = "declare" /\ ~Ends(f, i)

Listed(s, i) == {k \in DOMAIN params[s] : symbols[params[s][k]].by = i}
Passed(i) == phase # "sema" /\ i < pos
Times(i) == IF unit[i].seen THEN IF Passed(i) THEN 2 ELSE 1 ELSE IF Passed(i) THEN 1 ELSE 0

FunctionIds == {s \in Ids : symbols[s].kind = "SK_Function"}

\* A function has one symbol, and currentFunc is the one that is walked.
FunctionsInv ==
  /\ \A s \in FunctionIds :
        symbols[s].by \in DOMAIN unit /\ unit[symbols[s].by].kind = "function"
  /\ \A s, t \in FunctionIds : symbols[s].by = symbols[t].by => s = t
  /\ currentFunc # NoSymbol =>
       /\ currentFunc \in FunctionIds
       /\ phase = "sema" => ~Ends(symbols[currentFunc].by, Len(unit))
       /\ phase # "sema" => symbols[currentFunc].by < pos /\ ~Ends(symbols[currentFunc].by, pos - 1)

Holds(s) ==
  /\ \A k \in DOMAIN params[s] : /\ symbols[params[s][k]].by \in DOMAIN unit
                                 /\ Own(symbols[s].by, symbols[params[s][k]].by)
  /\ \A i \in DOMAIN unit : Own(symbols[s].by, i) => Cardinality(Listed(s, i)) = Times(i)

ListInv ==
  /\ params \in [SymbolIds -> Seq(Ids)]
  /\ \A s \in SymbolIds : s \notin FunctionIds => params[s] = << >>
  /\ \A s \in FunctionIds : Holds(s)

EndInv ==
  /\ phase # "sema" => unit # << >> /\ unit[Len(unit)].kind = "end"
  /\ phase = "done" => pos > Len(unit)

-----------------------------------------------------------------------------
(* Symbols and lists that grow.                                            *)

\* A step that creates no function.
VariablesOnly ==
  /\ \A s \in Ids : symbols'[s] = symbols[s] /\ s \in Ids'
  /\ \A s \in Ids' : s \notin Ids => symbols'[s].kind = "SK_Variable"

LEMMA SameFunctions ==
  ASSUME VariablesOnly
  PROVE  FunctionIds' = FunctionIds /\ \A s \in FunctionIds : symbols'[s] = symbols[s] /\ s \in Ids
BY DEF VariablesOnly, FunctionIds

LEMMA AddVariableLists ==
  ASSUME TableTypes, level > 0, NEW n \in Names, NEW sclass \in {"none", "TK_EXTERN"}, NEW by \in Nat,
         AddVariable(n, sclass, by)
  PROVE  /\ VariablesOnly /\ NewSymbol \in Ids' /\ NewSymbol \notin Ids
         /\ symbols'[NewSymbol].by = by /\ currentFunc' = currentFunc
         /\ sclass = "TK_EXTERN" => params' = params
         /\ sclass = "none" => /\ currentFunc # NoSymbol
                               /\ params' = [params EXCEPT ![currentFunc] = Append(@, NewSymbol)]
<1>1. /\ Create(Len(identifiers), "SK_Variable", n, sclass, by) /\ level' = level
      /\ currentFunc' = currentFunc /\ sclass \in StorageClasses
      /\ sclass = "TK_EXTERN" => params' = params
      /\ sclass = "none" => /\ currentFunc # NoSymbol
                            /\ params' = [params EXCEPT ![currentFunc] = Append(@, NewSymbol)]
  <2>1. level # 0
    <3>1. level = Len(identifiers) - 1 /\ Len(identifiers) \in Nat
      BY ScopesAre DEF TableTypes
    <3>2. level \in Int
      BY <3>1
    <3>3. QED
      BY <3>2
  <2>2. QED
    BY <2>1 DEF AddVariable, StorageClasses
<1>2. Len(identifiers) \in DOMAIN identifiers
  BY ScopesAre DEF TableTypes
<1>3. /\ Len(symbols') = NewSymbol /\ \A s \in Ids : symbols'[s] = symbols[s]
      /\ symbols'[NewSymbol].kind = "SK_Variable" /\ symbols'[NewSymbol].by = by
  BY <1>1, <1>2, CreateView
<1>4. Len(symbols) \in Nat /\ NewSymbol = Len(symbols) + 1
  BY DEF TableTypes, NewSymbol
<1>5. Ids = 1..Len(symbols) /\ Ids' = 1..Len(symbols) + 1
  BY <1>3, <1>4 DEF Ids
<1>6. /\ \A s \in Ids : s \in Ids'
      /\ NewSymbol \in Ids' /\ NewSymbol \notin Ids
      /\ \A s \in Ids' : s \notin Ids => s = NewSymbol
  BY <1>4, <1>5
<1>7. QED
  BY <1>1, <1>3, <1>6 DEF VariablesOnly

\* What is appended to a list counts for its own event.
LEMMA CountAppend ==
  ASSUME NEW s, NEW i, params[s] \in Seq(Ids), \A t \in Ids : symbols'[t] = symbols[t],
         NEW new \in Ids', params'[s] = Append(params[s], new), new \notin Ids
  PROVE  /\ symbols'[new].by = i => Cardinality(Listed(s, i)') = Cardinality(Listed(s, i)) + 1
         /\ symbols'[new].by # i => Listed(s, i)' = Listed(s, i)
         /\ Cardinality(Listed(s, i)) \in Nat
         /\ \A k \in DOMAIN params'[s] :
               \/ k \in DOMAIN params[s] /\ params'[s][k] = params[s][k]
               \/ params'[s][k] = new
<1> PICK list : list = params[s]
  OBVIOUS
<1> HIDE DEF Ids
<1>1. list \in Seq(Ids) /\ params'[s] = Append(list, new)
  OBVIOUS
<1>2. /\ Len(list) \in Nat /\ DOMAIN list = 1..Len(list)
      /\ DOMAIN params'[s] = 1..Len(list) + 1
      /\ \A k \in 1..Len(list) : list[k] \in Ids /\ params'[s][k] = list[k]
      /\ params'[s][Len(list) + 1] = new
  BY <1>1
<1>3. /\ Listed(s, i) = {k \in 1..Len(list) : symbols[list[k]].by = i}
      /\ Listed(s, i)' = {k \in 1..Len(list) + 1 : symbols'[params'[s][k]].by = i}
  BY <1>2 DEF Listed
<1>4. \A k \in 1..Len(list) + 1 : k \in 1..Len(list) \/ k = Len(list) + 1
  BY <1>2
<1>5. \A k \in 1..Len(list) : k \in 1..Len(list) + 1 /\ symbols'[params'[s][k]] = symbols[list[k]]
  BY <1>2
<1>6. IsFiniteSet(Listed(s, i)) /\ Cardinality(Listed(s, i)) \in Nat
  <2>1. IsFiniteSet(1..Len(list))
    BY <1>2, FS_Interval
  <2>2. IsFiniteSet(Listed(s, i))
    BY <1>3, <2>1, FS_Subset
  <2>3. QED
    BY <2>2, FS_CardinalityType
<1>7. ASSUME symbols'[new].by = i PROVE Cardinality(Listed(s, i)') = Cardinality(Listed(s, i)) + 1
  <2>1. Len(list) + 1 \notin Listed(s, i)
    BY <1>2, <1>3
  <2>2. Listed(s, i)' = Listed(s, i) \cup {Len(list) + 1}
    BY <1>2, <1>3, <1>4, <1>5, <1>7
  <2>3. QED
    BY <1>6, <2>1, <2>2, FS_AddElement
<1>8. ASSUME symbols'[new].by # i PROVE Listed(s, i)' = Listed(s, i)
  BY <1>2, <1>3, <1>4, <1>5, <1>8
<1>9. QED
  BY <1>2, <1>4, <1>6, <1>7, <1>8

LEMMA CountSame ==
  ASSUME NEW s, NEW i, params[s] \in Seq(Ids), \A t \in Ids : symbols'[t] = symbols[t],
         params'[s] = params[s]
  PROVE  /\ Listed(s, i)' = Listed(s, i)
         /\ \A k \in DOMAIN params[s] : params[s][k] \in Ids /\ symbols'[params'[s][k]] = symbols[params[s][k]]
<1> HIDE DEF Ids
<1>1. \A k \in DOMAIN params[s] : params[s][k] \in Ids
  OBVIOUS
<1>2. QED
  BY <1>1 DEF Listed
\* The lists stay right when each holds what its function has declared: the events
\* there were, and the one that is added to the list of the current function.
LEMMA HoldsNext ==
  ASSUME VariablesOnly, NEW s \in FunctionIds, params[s] \in Seq(Ids), Holds(s),
         \A i \in DOMAIN unit : i \in DOMAIN unit' /\ (Own(symbols[s].by, i) => Own(symbols[s].by, i)'),
         \A i \in DOMAIN unit' : Own(symbols[s].by, i)' /\ i \in DOMAIN unit => Own(symbols[s].by, i),
         NEW new, NEW b,
         \/ /\ params'[s] = params[s]
            /\ \A i \in DOMAIN unit' : Own(symbols[s].by, i)' =>
                  Times(i)' = IF i \in DOMAIN unit THEN Times(i) ELSE 0
         \/ /\ params'[s] = Append(params[s], new) /\ new \in Ids' /\ new \notin Ids
            /\ symbols'[new].by = b /\ b \in DOMAIN unit' /\ Own(symbols[s].by, b)'
            /\ \A i \in DOMAIN unit' : Own(symbols[s].by, i)' =>
                  Times(i)' = (IF i \in DOMAIN unit THEN Times(i) ELSE 0) + (IF i = b THEN 1 ELSE 0)
  PROVE  Holds(s)'
<1> PICK f : f = symbols[s].by
  OBVIOUS
<1>1. symbols'[s].by = f /\ \A t \in Ids : symbols'[t] = symbols[t]
  BY DEF VariablesOnly, FunctionIds
<1>2. /\ \A k \in DOMAIN params[s] : /\ symbols[params[s][k]].by \in DOMAIN unit
                                     /\ Own(f, symbols[params[s][k]].by)
      /\ \A i \in DOMAIN unit : Own(f, i) => Cardinality(Listed(s, i)) = Times(i)
  BY DEF Holds
<1>3. /\ \A i \in DOMAIN unit : i \in DOMAIN unit' /\ (Own(f, i) => Own(f, i)')
      /\ \A i \in DOMAIN unit' : Own(f, i)' /\ i \in DOMAIN unit => Own(f, i)
  BY <1>1
<1>4. ASSUME NEW i \in DOMAIN unit', Own(f, i)'
      PROVE  Cardinality(Listed(s, i)) = IF i \in DOMAIN unit THEN Times(i) ELSE 0
  <2>1. CASE i \in DOMAIN unit
    BY <1>2, <1>3, <1>4, <2>1
  <2>2. CASE i \notin DOMAIN unit
    <3>1. Listed(s, i) = {}
      BY <1>2, <2>2 DEF Listed
    <3>2. QED
      BY <2>2, <3>1, FS_EmptySet
  <2>3. QED
    BY <2>1, <2>2
<1>5. CASE /\ params'[s] = params[s]
           /\ \A i \in DOMAIN unit' : Own(f, i)' => Times(i)' = IF i \in DOMAIN unit THEN Times(i) ELSE 0
  <2>1. ASSUME NEW k \in DOMAIN params'[s]
        PROVE  symbols'[params'[s][k]].by \in DOMAIN unit' /\ Own(f, symbols[params[s][k]].by)'
    <3>1. PICK p : p = symbols[params[s][k]].by
      OBVIOUS
    <3>2. k \in DOMAIN params[s] /\ symbols'[params'[s][k]].by = p
      BY <1>1, <1>5, <3>1, CountSame
    <3>3. p \in DOMAIN unit' /\ Own(f, p)'
      BY <1>2, <1>3, <3>1, <3>2
    <3>4. QED
      BY <3>2, <3>3 DEF Own, Ends
  <2>2. ASSUME NEW i \in DOMAIN unit', Own(f, i)'
        PROVE  Cardinality(Listed(s, i)') = Times(i)'
    BY <1>1, <1>4, <1>5, <2>2, CountSame
  <2>3. QED
    BY <1>1, <2>1, <2>2 DEF Holds, Own, Ends
<1>6. CASE /\ params'[s] = Append(params[s], new) /\ new \in Ids' /\ new \notin Ids
           /\ symbols'[new].by = b /\ b \in DOMAIN unit' /\ Own(f, b)'
           /\ \A i \in DOMAIN unit' : Own(f, i)' =>
                 Times(i)' = (IF i \in DOMAIN unit THEN Times(i) ELSE 0) + (IF i = b THEN 1 ELSE 0)
  <2>1. ASSUME NEW k \in DOMAIN params'[s]
        PROVE  symbols'[params'[s][k]].by \in DOMAIN unit' /\ Own(f, symbols[params[s][k]].by)'
    <3>1. PICK p : p = symbols'[params'[s][k]].by
      OBVIOUS
    <3>2. \/ k \in DOMAIN params[s] /\ params'[s][k] = params[s][k] /\ params[s][k] \in Ids
          \/ p = b
      BY <1>1, <1>6, <3>1, CountAppend
    <3>3. p \in DOMAIN unit' /\ Own(f, p)'
      BY <1>1, <1>2, <1>3, <1>6, <3>1, <3>2
    <3>4. QED
      BY <3>1, <3>3 DEF Own, Ends
  <2>2. ASSUME NEW i \in DOMAIN unit', Own(f, i)'
        PROVE  Cardinality(Listed(s, i)') = Times(i)'
    <3>1. Times(i)' = Cardinality(Listed(s, i)) + (IF i = b THEN 1 ELSE 0)
      BY <1>4, <1>6, <2>2
    <3>2. /\ b = i => Cardinality(Listed(s, i)') = Cardinality(Listed(s, i)) + 1
          /\ b # i => Listed(s, i)' = Listed(s, i)
          /\ Cardinality(Listed(s, i)) \in Nat
      BY <1>1, <1>6, CountAppend
    <3>3. QED
      BY <3>1, <3>2
  <2>3. QED
    BY <1>1, <2>1, <2>2 DEF Holds, Own, Ends
<1>7. QED
  BY <1>1, <1>5, <1>6

\* Two functions are not walked at once.
LEMMA OneOwner ==
  ASSUME UnitInv, FunctionsInv, NEW s \in FunctionIds, NEW c \in FunctionIds,
         NEW k \in 0..Len(unit), symbols[s].by <= k, symbols[c].by <= k,
         ~Ends(symbols[s].by, k), ~Ends(symbols[c].by, k)
  PROVE  s = c
<1>1. /\ Len(unit) \in Nat /\ DOMAIN unit = 1..Len(unit)
      /\ \A i \in DOMAIN unit : unit[i].kind = "function" <=> Outside(i - 1)
  BY DEF UnitInv
<1>2. ASSUME NEW f \in DOMAIN unit, NEW g \in DOMAIN unit, unit[f].kind = "function",
             unit[g].kind = "function", g <= k, f < g
      PROVE  Ends(f, k)
  <2>1. g - 1 \in Nat /\ g - 1 # 0 /\ Outside(g - 1)
    BY <1>1, <1>2
  <2>2. unit[g - 1].kind = "end"
    BY <2>1 DEF Outside
  <2>3. g - 1 # f
    BY <1>2, <2>2
  <2>4. g - 1 \in f + 1..k
    BY <1>1, <1>2, <2>3
  <2>5. QED
    BY <2>2, <2>4 DEF Ends
<1>3. PICK f \in DOMAIN unit, g \in DOMAIN unit :
         /\ f = symbols[s].by /\ g = symbols[c].by
         /\ unit[f].kind = "function" /\ unit[g].kind = "function"
  BY DEF FunctionsInv
<1>4. ~(f < g) /\ ~(g < f)
  BY <1>2, <1>3
<1>5. f = g
  BY <1>1, <1>4
<1>6. QED
  BY <1>3, <1>5 DEF FunctionsInv
\* What a step adds to the lists: nothing, or the symbol of event b to that of c.
Base(i) == IF i \in DOMAIN unit THEN Times(i) ELSE 0
AddsNone ==
  /\ params' = params
  /\ \A s \in FunctionIds : \A i \in DOMAIN unit' : Own(symbols[s].by, i)' => Times(i)' = Base(i)
AddsTo(c, b) ==
  /\ c \in FunctionIds /\ params' = [params EXCEPT ![c] = Append(@, NewSymbol)]
  /\ NewSymbol \in Ids' /\ NewSymbol \notin Ids /\ symbols'[NewSymbol].by = b
  /\ b \in DOMAIN unit' /\ Own(symbols[c].by, b)'
  /\ \A s \in FunctionIds : \A i \in DOMAIN unit' : Own(symbols[s].by, i)' =>
        Times(i)' = Base(i) + (IF s = c /\ i = b THEN 1 ELSE 0)

LEMMA ListsNext ==
  ASSUME TableTypes, FunctionsInv, ListInv, VariablesOnly,
         \A f \in DOMAIN unit : \A i \in DOMAIN unit : i \in DOMAIN unit' /\ (Own(f, i)' <=> Own(f, i)),
         AddsNone \/ \E c, b : AddsTo(c, b)
  PROVE  ListInv'
<1>1. /\ params \in [SymbolIds -> Seq(Ids)]
      /\ \A s \in SymbolIds : s \notin FunctionIds => params[s] = << >>
      /\ \A s \in FunctionIds : Holds(s)
  BY DEF ListInv
<1>2. FunctionIds' = FunctionIds /\ \A s \in FunctionIds : symbols'[s] = symbols[s]
  BY SameFunctions
<1>3. FunctionIds \subseteq SymbolIds
  <2>1. Len(symbols) \in Nat /\ Len(symbols) <= MaxSymbols
    BY DEF TableTypes
  <2>2. Ids \subseteq SymbolIds
    BY <2>1, SymbolBound DEF Ids, SymbolIds
  <2>3. QED
    BY <2>2 DEF FunctionIds
<1>4. Ids \subseteq Ids'
  BY DEF VariablesOnly
<1>5. ASSUME NEW s \in SymbolIds PROVE params[s] \in Seq(Ids')
  <2>1. params[s] \in Seq(Ids)
    BY <1>1
  <2> HIDE DEF Ids
  <2>2. QED
    BY <1>4, <2>1
<1>6. ASSUME NEW s \in FunctionIds
      PROVE  /\ params[s] \in Seq(Ids) /\ Holds(s)
             /\ \A i \in DOMAIN unit : i \in DOMAIN unit' /\ (Own(symbols[s].by, i) => Own(symbols[s].by, i)')
             /\ \A i \in DOMAIN unit' : Own(symbols[s].by, i)' /\ i \in DOMAIN unit => Own(symbols[s].by, i)
             /\ \A i \in DOMAIN unit : Base(i) + 0 = Base(i)
             /\ 0 + 0 = 0
  <2>1. PICK f \in DOMAIN unit : f = symbols[s].by
    BY DEF FunctionsInv
  <2>2. symbols'[s].by = f
    BY <1>2, <2>1
  <2>3. QED
    BY <1>1, <1>3, <2>1, <2>2 DEF Base, Times
<1>7. CASE AddsNone
  <2>1. ASSUME NEW s \in FunctionIds PROVE Holds(s)'
    <3>1. /\ params'[s] = params[s]
          /\ \A i \in DOMAIN unit' : Own(symbols[s].by, i)' =>
                Times(i)' = IF i \in DOMAIN unit THEN Times(i) ELSE 0
      BY <1>7 DEF AddsNone, Base
    <3>2. QED
      BY <1>6, <3>1, HoldsNext
  <2>2. params' \in [SymbolIds -> Seq(Ids')]
    BY <1>1, <1>5, <1>7 DEF AddsNone
  <2>3. QED
    BY <1>1, <1>2, <1>7, <2>1, <2>2 DEF AddsNone, ListInv
<1>8. ASSUME NEW c, NEW b, AddsTo(c, b) PROVE ListInv'
  <2>1. /\ c \in FunctionIds /\ c \in SymbolIds /\ params' = [params EXCEPT ![c] = Append(@, NewSymbol)]
        /\ NewSymbol \in Ids' /\ NewSymbol \notin Ids /\ symbols'[NewSymbol].by = b
        /\ b \in DOMAIN unit' /\ Own(symbols[c].by, b)'
    BY <1>3, <1>8 DEF AddsTo
  <2>2. /\ \A s \in SymbolIds : params'[s] = IF s = c THEN Append(params[s], NewSymbol) ELSE params[s]
        /\ params' = [s \in SymbolIds |-> params'[s]]
    BY <1>1, <2>1
  <2>3. ASSUME NEW s \in FunctionIds PROVE Holds(s)'
    <3>1. \A i \in DOMAIN unit' : Own(symbols[s].by, i)' =>
             Times(i)' = Base(i) + (IF s = c /\ i = b THEN 1 ELSE 0)
      BY <1>8 DEF AddsTo
    <3>2. CASE s = c
      <4>1. \A i \in DOMAIN unit' : Own(symbols[s].by, i)' =>
               Times(i)' = (IF i \in DOMAIN unit THEN Times(i) ELSE 0) + (IF i = b THEN 1 ELSE 0)
        BY <3>1, <3>2 DEF Base
      <4>2. params'[s] = Append(params[s], NewSymbol) /\ Own(symbols[s].by, b)'
        BY <2>1, <2>2, <3>2
      <4>3. PICK new : new = NewSymbol
        OBVIOUS
      <4>4. QED
        BY <1>6, <2>1, <4>1, <4>2, <4>3, HoldsNext
    <3>3. CASE s # c
      <4>1. ASSUME NEW i \in DOMAIN unit', Own(symbols[s].by, i)'
            PROVE  Times(i)' = IF i \in DOMAIN unit THEN Times(i) ELSE 0
        <5>1. Times(i)' = Base(i) + 0
          BY <3>1, <3>3, <4>1
        <5>2. QED
          BY <1>6, <5>1 DEF Base
      <4>2. params'[s] = params[s]
        BY <1>3, <2>2, <3>3
      <4>3. QED
        BY <1>6, <4>1, <4>2, HoldsNext
    <3>4. QED
      BY <3>2, <3>3
  <2>4. params' \in [SymbolIds -> Seq(Ids')]
    <3>1. Append(params[c], NewSymbol) \in Seq(Ids')
      <4>1. params[c] \in Seq(Ids')
        BY <1>5, <2>1
      <4>2. QED
        BY <2>1, <4>1
    <3>2. QED
      BY <1>5, <2>2, <3>1
  <2>5. \A s \in SymbolIds : s \notin FunctionIds' => params'[s] = << >>
    BY <1>1, <1>2, <2>1, <2>2
  <2>6. QED
    BY <1>2, <2>3, <2>4, <2>5 DEF ListInv
<1>9. QED
  BY <1>7, <1>8

LEMMA OwnGrows ==
  ASSUME UnitInv, NEW e \in EventType, unit' = Append(unit, e), NEW k \in Nat, k = Len(unit),
         NEW f \in DOMAIN unit
  PROVE  /\ \A i \in DOMAIN unit : Own(f, i)' <=> Own(f, i)
         /\ Own(f, k + 1)' <=> e.kind = "declare" /\ ~Ends(f, k)
         /\ e.kind # "end" => (Ends(f, k + 1)' <=> Ends(f, k))
<1>1. /\ DOMAIN unit = 1..k /\ \A j \in 1..k : unit'[j] = unit[j]
      /\ unit'[k + 1] = e /\ f \in 1..k
  BY DEF UnitInv
<1>2. \A i \in 1..k : Ends(f, i)' <=> Ends(f, i)
  <2>1. \A i \in 1..k, j \in f + 1..k : j \in f + 1..i => j \in 1..k
    BY <1>1
  <2>2. \A i \in 1..k : \A j \in f + 1..i : j \in 1..k
    BY <1>1
  <2>3. QED
    BY <1>1, <2>2 DEF Ends
<1>3. \A j \in f + 1..k + 1 : j \in f + 1..k \/ j = k + 1
  BY <1>1
<1>4. \A j \in f + 1..k : j \in f + 1..k + 1 /\ unit'[j] = unit[j]
  BY <1>1
<1>5. k + 1 \in f + 1..k + 1
  BY <1>1
<1>6. Ends(f, k + 1)' <=> Ends(f, k) \/ e.kind = "end"
  BY <1>1, <1>3, <1>4, <1>5 DEF Ends
<1>7. \A i \in 1..k : Own(f, i)' <=> Own(f, i)
  BY <1>1, <1>2 DEF Own
<1>8. f < k + 1
  BY <1>1
<1>9. QED
  BY <1>1, <1>6, <1>7, <1>8 DEF Own
-----------------------------------------------------------------------------
(* The checker's steps and the lists.                                      *)

\* The events recorded in a function: each that is a declaration the checker sees
\* goes to the list of the current function.
LEMMA RecordLists ==
  ASSUME ScopeInv, FunctionsInv, ListInv, phase = "sema", phase' = "sema", currentFunc # NoSymbol,
         NEW e \in EventType, unit' = Append(unit, e), e.kind # "function", VariablesOnly,
         currentFunc' = IF e.kind = "end" THEN NoSymbol ELSE currentFunc,
         NEW added \in BOOLEAN, added <=> e.kind = "declare" /\ e.seen,
         ~added => params' = params,
         added => /\ params' = [params EXCEPT ![currentFunc] = Append(@, NewSymbol)]
                  /\ NewSymbol \in Ids' /\ NewSymbol \notin Ids /\ symbols'[NewSymbol].by = Here
  PROVE  FunctionsInv' /\ ListInv'
<1>1. TableTypes /\ UnitInv
  BY DEF ScopeInv
<1> PICK k \in Nat : k = Len(unit) /\ Here = k + 1
  BY <1>1 DEF UnitInv, Here
<1> PICK c : c = currentFunc
  OBVIOUS
<1>2. /\ DOMAIN unit = 1..k /\ DOMAIN unit' = 1..k + 1 /\ \A j \in 1..k : unit'[j] = unit[j]
      /\ unit'[k + 1] = e /\ Len(unit') = k + 1
  BY <1>1 DEF UnitInv
<1>3. /\ FunctionIds' = FunctionIds /\ \A s \in FunctionIds : symbols'[s] = symbols[s]
  BY SameFunctions
<1>4. /\ c \in FunctionIds /\ ~Ends(symbols[c].by, k)
      /\ \A s \in FunctionIds : symbols[s].by \in DOMAIN unit /\ unit[symbols[s].by].kind = "function"
      /\ \A s, t \in FunctionIds : symbols[s].by = symbols[t].by => s = t
  BY DEF FunctionsInv
<1>5. ASSUME NEW f \in DOMAIN unit
      PROVE  /\ \A i \in DOMAIN unit : Own(f, i)' <=> Own(f, i)
             /\ Own(f, k + 1)' <=> e.kind = "declare" /\ ~Ends(f, k)
             /\ e.kind # "end" => (Ends(f, k + 1)' <=> Ends(f, k))
  BY <1>1, OwnGrows
<1>6. ASSUME currentFunc' # NoSymbol PROVE ~Ends(symbols[currentFunc].by, Len(unit))'
  <2>1. e.kind # "end" /\ currentFunc' = c
    BY <1>6
  <2>2. PICK f \in DOMAIN unit : f = symbols[c].by
    BY <1>4
  <2>3. ~Ends(f, k + 1)'
    BY <1>4, <1>5, <2>1, <2>2
  <2>4. symbols'[currentFunc'].by = f
    BY <1>3, <1>4, <2>1, <2>2
  <2>5. QED
    BY <1>2, <2>3, <2>4
<1>7. FunctionsInv'
  BY <1>2, <1>3, <1>4, <1>6 DEF FunctionsInv
<1>8. \A i \in DOMAIN unit : Times(i) = (IF unit[i].seen THEN 1 ELSE 0)
  BY DEF Times, Passed
<1>9. \A i : Times(i)' = (IF unit'[i].seen THEN 1 ELSE 0)
  BY DEF Times, Passed
<1>10. ASSUME NEW s \in FunctionIds, NEW i \in DOMAIN unit', Own(symbols[s].by, i)'
       PROVE  Times(i)' = Base(i) + (IF added /\ s = c /\ i = k + 1 THEN 1 ELSE 0)
  <2>1. PICK f \in DOMAIN unit : f = symbols[s].by /\ f = symbols'[s].by
    BY <1>3, <1>4
  <2>2. CASE i \in DOMAIN unit
    <3>1. i # k + 1 /\ unit'[i] = unit[i]
      BY <1>2, <2>2
    <3>2. Times(i)' = Times(i) /\ Times(i) \in Nat
      BY <1>8, <1>9, <2>2, <3>1
    <3>3. QED
      BY <2>2, <3>1, <3>2 DEF Base
  <2>3. CASE i = k + 1
    <3>1. i \notin DOMAIN unit /\ unit'[i] = e
      BY <1>2, <2>3
    <3>2. e.kind = "declare" /\ ~Ends(f, k)
      BY <1>5, <1>10, <2>1, <2>3
    <3>3. s = c
      <4>1. k \in 0..Len(unit) /\ symbols[s].by <= k /\ symbols[c].by <= k
        BY <1>2, <1>4
      <4>2. QED
        BY <1>1, <1>4, <2>1, <3>2, <4>1, OneOwner
    <3>4. Times(i)' = IF added THEN 1 ELSE 0
      BY <1>9, <3>1, <3>2
    <3>5. QED
      BY <2>3, <3>1, <3>3, <3>4 DEF Base
  <2>4. QED
    BY <1>2, <2>2, <2>3
<1>11. ASSUME added PROVE Own(symbols[c].by, k + 1)'
  <2>1. PICK f \in DOMAIN unit : f = symbols[c].by /\ f = symbols'[c].by
    BY <1>3, <1>4
  <2>2. QED
    BY <1>4, <1>5, <1>11, <2>1
<1>12. \A f \in DOMAIN unit : \A i \in DOMAIN unit : i \in DOMAIN unit' /\ (Own(f, i)' <=> Own(f, i))
  BY <1>2, <1>5
<1>13. k + 1 \in DOMAIN unit'
  BY <1>2
<1>14. ListInv'
  <2>1. CASE added
    <3>1. AddsTo(c, k + 1)
      BY <1>4, <1>10, <1>11, <1>13, <2>1 DEF AddsTo
    <3>2. QED
      BY <1>1, <1>12, <3>1, ListsNext
  <2>2. CASE ~added
    <3>1. \A s \in FunctionIds : \A i \in DOMAIN unit' : Own(symbols[s].by, i)' => Times(i)' = Base(i)
      <4>1. \A i \in DOMAIN unit : Base(i) + 0 = Base(i)
        BY <1>8 DEF Base
      <4>2. 0 + 0 = 0
        OBVIOUS
      <4>3. QED
        BY <1>10, <2>2, <4>1, <4>2 DEF Base
    <3>2. AddsNone
      BY <2>2, <3>1 DEF AddsNone
    <3>3. QED
      BY <1>1, <1>12, <3>2, ListsNext
  <2>3. QED
    BY <2>1, <2>2
<1>15. QED
  BY <1>7, <1>14

LEMMA SemaNameLists ==
  ASSUME ScopeInv, FunctionsInv, ListInv, NEW n \in Names, NEW q \in {"declare", "use"},
         SemaDeclare(n) \/ SemaUse(n) \/ SemaUnseen(q, n)
  PROVE  FunctionsInv' /\ ListInv'
<1>1. /\ phase = "sema" /\ phase' = "sema" /\ level > 0 /\ TableTypes /\ UnitInv
  BY DEF SemaDeclare, SemaUse, SemaUnseen, Opened, InFunction, Record, ScopeInv
<1>2. currentFunc # NoSymbol
  BY <1>1 DEF ScopeInv, WalkInv
<1>3. CASE SemaDeclare(n)
  <2> DEFINE e == Event("declare", n, TRUE)
  <2>1. AddVariable(n, "none", Here) /\ unit' = Append(unit, e)
    BY <1>3 DEF SemaDeclare, Record
  <2>2. e \in EventType /\ e.kind = "declare" /\ e.seen
    BY DEF Event, EventType, Kinds
  <2> HIDE DEF e
  <2>3. Here \in Nat
    BY <1>1 DEF Here, UnitInv
  <2>4. /\ VariablesOnly /\ NewSymbol \in Ids' /\ NewSymbol \notin Ids
        /\ symbols'[NewSymbol].by = Here /\ currentFunc' = currentFunc
        /\ params' = [params EXCEPT ![currentFunc] = Append(@, NewSymbol)]
    BY <1>1, <2>1, <2>3, AddVariableLists
  <2>5. QED
    BY <1>1, <1>2, <2>1, <2>2, <2>4, RecordLists
<1>4. CASE SemaUse(n) \/ SemaUnseen(q, n)
  <2>1. PICK e \in EventType : /\ e.kind \in {"declare", "use"} /\ ~(e.kind = "declare" /\ e.seen)
                               /\ unit' = Append(unit, e)
    <3>1. Event("use", n, TRUE) \in EventType /\ Event(q, n, FALSE) \in EventType
      BY DEF Event, EventType, Kinds
    <3>2. /\ Event("use", n, TRUE).kind = "use"
          /\ Event(q, n, FALSE).kind = q /\ ~Event(q, n, FALSE).seen
      BY DEF Event
    <3>3. QED
      BY <1>4, <3>1, <3>2 DEF SemaUse, SemaUnseen, Record
  <2>2. UNCHANGED <<symbols, params, currentFunc>>
    BY <1>4 DEF SemaUse, SemaUnseen, tableVars
  <2>3. VariablesOnly
    BY <2>2 DEF VariablesOnly, Ids
  <2>4. QED
    BY <1>1, <1>2, <2>1, <2>2, <2>3, RecordLists
<1>5. QED
  BY <1>3, <1>4

LEMMA SemaBlockLists ==
  ASSUME ScopeInv, FunctionsInv, ListInv, SemaCompound \/ SemaEndCompound \/ SemaEndFunction
  PROVE  FunctionsInv' /\ ListInv'
<1>1. /\ phase = "sema" /\ phase' = "sema" /\ level > 0 /\ TableTypes
      /\ UNCHANGED <<symbols, params>>
  BY DEF SemaCompound, SemaEndCompound, SemaEndFunction, Opened, InFunction, Record, ScopeInv,
         EnterScope, ExitScope
<1>2. currentFunc # NoSymbol
  BY <1>1 DEF ScopeInv, WalkInv
<1>3. PICK e \in EventType :
         /\ e.kind \in {"body", "open", "close", "end"} /\ unit' = Append(unit, e)
         /\ currentFunc' = IF e.kind = "end" THEN NoSymbol ELSE currentFunc
  <2>1. CASE SemaCompound
    <3>1. /\ Event(IF depth = 0 THEN "body" ELSE "open", NoName, TRUE) \in EventType
          /\ Event(IF depth = 0 THEN "body" ELSE "open", NoName, TRUE).kind \in {"body", "open"}
      BY DEF Event, EventType, Kinds
    <3>2. QED
      BY <2>1, <3>1 DEF SemaCompound, Record
  <2>2. CASE SemaEndCompound
    <3>1. Event("close", NoName, TRUE) \in EventType /\ Event("close", NoName, TRUE).kind = "close"
      BY DEF Event, EventType, Kinds
    <3>2. QED
      BY <2>2, <3>1 DEF SemaEndCompound, Record
  <2>3. CASE SemaEndFunction
    <3>1. Event("end", NoName, TRUE) \in EventType /\ Event("end", NoName, TRUE).kind = "end"
      BY DEF Event, EventType, Kinds
    <3>2. QED
      BY <2>3, <3>1 DEF SemaEndFunction, Record
  <2>4. QED
    BY <2>1, <2>2, <2>3
<1>4. VariablesOnly
  BY <1>1 DEF VariablesOnly, Ids
<1>5. QED
  BY <1>1, <1>2, <1>3, <1>4, RecordLists

\* A function starts with an empty list.
LEMMA SemaFunctionLists ==
  ASSUME ScopeInv, FunctionsInv, ListInv, NEW n \in Names, SemaFunction(n)
  PROVE  FunctionsInv' /\ ListInv'
<1> DEFINE e == Event("function", n, TRUE)
<1>1. /\ phase = "sema" /\ phase' = "sema" /\ AddFunction(n, Here) /\ currentFunc' = NewSymbol
      /\ unit' = Append(unit, e) /\ params' = params /\ TableTypes /\ UnitInv
  BY DEF SemaFunction, Record, AddFunction, ScopeInv
<1>2. e \in EventType /\ e.kind = "function"
  BY DEF Event, EventType, Kinds
<1> HIDE DEF e
<1> PICK k \in Nat : k = Len(unit) /\ Here = k + 1
  BY <1>1 DEF UnitInv, Here
<1> PICK new : new = NewSymbol
  OBVIOUS
<1>3. /\ DOMAIN unit = 1..k /\ DOMAIN unit' = 1..k + 1 /\ \A j \in 1..k : unit'[j] = unit[j]
      /\ unit'[k + 1] = e /\ Len(unit') = k + 1
  BY <1>1, <1>2 DEF UnitInv
<1>4. /\ Len(symbols') = new /\ new \in SymbolIds /\ new = Len(symbols) + 1 /\ Len(symbols) \in Nat
      /\ \A s \in Ids : symbols'[s] = symbols[s]
      /\ symbols'[new].kind = "SK_Function" /\ symbols'[new].by = k + 1
  <2>1. Create(1, "SK_Function", n, "none", k + 1) /\ level' = level
    BY <1>1 DEF AddFunction
  <2>2. 1 \in DOMAIN identifiers /\ Len(symbols) \in Nat /\ "none" \in StorageClasses
    BY <1>1 DEF TableTypes, StorageClasses
  <2>3. QED
    BY <1>1, <2>1, <2>2, CreateView DEF NewSymbol
<1>5. Ids' = Ids \cup {new} /\ new \notin Ids
  <2>1. Ids = 1..Len(symbols) /\ Ids' = 1..Len(symbols) + 1
    BY <1>4 DEF Ids
  <2>2. QED
    BY <1>4, <2>1
<1>6. FunctionIds' = FunctionIds \cup {new} /\ \A s \in FunctionIds : symbols'[s] = symbols[s] /\ s \in Ids
  BY <1>4, <1>5 DEF FunctionIds
<1>7. /\ \A s \in FunctionIds : symbols[s].by \in 1..k /\ unit[symbols[s].by].kind = "function"
      /\ \A s, t \in FunctionIds : symbols[s].by = symbols[t].by => s = t
  BY <1>3 DEF FunctionsInv
<1>8. FunctionsInv'
  <2>1. \A s \in FunctionIds' : symbols'[s].by \in DOMAIN unit' /\ unit'[symbols'[s].by].kind = "function"
    BY <1>2, <1>3, <1>4, <1>6, <1>7
  <2>2. \A s \in FunctionIds : symbols'[s].by # k + 1
    BY <1>6, <1>7
  <2>3. \A s, t \in FunctionIds' : symbols'[s].by = symbols'[t].by => s = t
    BY <1>4, <1>6, <1>7, <2>2
  <2>4. ~Ends(k + 1, k + 1)'
    BY DEF Ends
  <2>5. symbols'[currentFunc'].by = k + 1 /\ currentFunc' \in FunctionIds'
    BY <1>1, <1>4, <1>6
  <2>6. ~Ends(symbols[currentFunc].by, Len(unit))'
    BY <1>3, <2>4, <2>5
  <2>7. QED
    BY <1>1, <2>1, <2>3, <2>5, <2>6 DEF FunctionsInv
<1>9. /\ params \in [SymbolIds -> Seq(Ids)]
      /\ \A s \in SymbolIds : s \notin FunctionIds => params[s] = << >>
      /\ \A s \in FunctionIds : Holds(s)
  BY DEF ListInv
<1>10. params' \in [SymbolIds -> Seq(Ids')]
  <2>1. Ids \subseteq Ids'
    BY <1>5
  <2> HIDE DEF Ids
  <2>2. Seq(Ids) \subseteq Seq(Ids')
    BY <2>1
  <2>3. QED
    BY <1>1, <1>9, <2>2
<1>11. ASSUME NEW s \in FunctionIds PROVE Holds(s)'
  <2>1. params[s] \in Seq(Ids) /\ Holds(s) /\ params'[s] = params[s] /\ s \in Ids
    <3>1. s \in SymbolIds
      BY <1>1, <1>6, SymbolBound DEF Ids, SymbolIds, TableTypes
    <3>2. QED
      BY <1>1, <1>6, <1>9, <3>1
  <2>2. PICK f \in DOMAIN unit : f = symbols[s].by /\ symbols'[s].by = f
    BY <1>3, <1>6, <1>7
  <2>3. /\ \A i \in DOMAIN unit : Own(f, i)' <=> Own(f, i)
        /\ ~Own(f, k + 1)'
    BY <1>1, <1>2, OwnGrows
  <2>4. \A j \in DOMAIN params[s] :
           params[s][j] \in Ids /\ symbols'[params'[s][j]] = symbols[params[s][j]]
    BY <1>4, <2>1, CountSame
  <2>5. \A i : Listed(s, i)' = Listed(s, i)
    BY <1>4, <2>1, CountSame
  <2>6. ASSUME NEW j \in DOMAIN params'[s]
        PROVE  symbols'[params'[s][j]].by \in DOMAIN unit' /\ Own(symbols[s].by, symbols[params[s][j]].by)'
    <3>1. PICK p : p = symbols[params[s][j]].by /\ p = symbols'[params'[s][j]].by
      BY <2>1, <2>4
    <3>2. p \in DOMAIN unit /\ Own(f, p)
      BY <2>1, <2>2, <3>1 DEF Holds
    <3>3. p \in DOMAIN unit' /\ Own(f, p)'
      BY <1>3, <2>3, <3>2
    <3>4. QED
      BY <2>2, <3>1, <3>3
  <2>7. ASSUME NEW i \in DOMAIN unit', Own(f, i)' PROVE Cardinality(Listed(s, i)') = Times(i)'
    <3>1. i \in 1..k
      BY <1>3, <2>3, <2>7
    <3>2. Own(f, i) /\ unit'[i] = unit[i] /\ i \in DOMAIN unit
      BY <1>3, <2>3, <2>7, <3>1
    <3>3. Cardinality(Listed(s, i)) = Times(i)
      BY <2>1, <2>2, <3>2 DEF Holds
    <3>4. Times(i)' = Times(i)
      BY <1>1, <3>2 DEF Times, Passed
    <3>5. QED
      BY <2>5, <3>3, <3>4
  <2>8. QED
    BY <2>2, <2>6, <2>7 DEF Holds
<1>12. Holds(new)'
  <2>1. params'[new] = << >>
    BY <1>1, <1>4, <1>5, <1>6, <1>9 DEF FunctionIds
  <2>2. \A i \in DOMAIN unit' : ~Own(k + 1, i)'
    BY <1>3 DEF Own
  <2>3. symbols'[new].by = k + 1
    BY <1>4
  <2>4. QED
    BY <2>1, <2>2, <2>3 DEF Holds
<1>13. \A s \in SymbolIds : s \notin FunctionIds' => params'[s] = << >>
  BY <1>1, <1>6, <1>9
<1>14. QED
  BY <1>6, <1>8, <1>10, <1>11, <1>12, <1>13 DEF ListInv
LEMMA SemaIdleLists ==
  ASSUME ScopeInv, FunctionsInv, ListInv, SemaEnterFunction \/ EndSema
  PROVE  FunctionsInv' /\ ListInv'
<1>1. /\ phase = "sema" /\ UNCHANGED <<symbols, params, currentFunc, unit>> /\ TableTypes /\ UnitInv
      /\ phase' = "sema" \/ (pos' = 1 /\ phase' # "sema" /\ currentFunc = NoSymbol)
  <2>1. CASE SemaEnterFunction
    BY <2>1 DEF SemaEnterFunction, EnterScope, walkVars, ScopeInv
  <2>2. CASE EndSema
    <3>1. Outside(Len(unit)) /\ phase = "sema"
      BY <2>2 DEF EndSema, Outside
    <3>2. currentFunc = NoSymbol
      BY <3>1 DEF ScopeInv, WalkInv
    <3>3. QED
      BY <2>2, <3>2 DEF EndSema, tableVars, ScopeInv
  <2>3. QED
    BY <2>1, <2>2
<1>2. VariablesOnly /\ FunctionIds' = FunctionIds
  BY <1>1 DEF VariablesOnly, FunctionIds, Ids
<1>3. FunctionsInv'
  BY <1>1, <1>2 DEF FunctionsInv, Ends
<1>4. \A f, i : Own(f, i)' <=> Own(f, i)
  BY <1>1 DEF Own, Ends
<1>5. \A i \in DOMAIN unit : Times(i)' = Times(i)
  <2>1. \A i \in DOMAIN unit : i > 0 /\ i \in Nat
    BY <1>1 DEF UnitInv
  <2>2. \A i \in DOMAIN unit : ~(i < 1)
    BY <2>1
  <2>3. \A i \in DOMAIN unit : ~Passed(i) /\ ~Passed(i)'
    BY <1>1, <2>2 DEF Passed
  <2>4. QED
    BY <1>1, <2>3 DEF Times
<1>6. AddsNone
  BY <1>1, <1>5 DEF AddsNone, Base
<1>7. ListInv'
  BY <1>1, <1>2, <1>4, <1>6, ListsNext
<1>8. QED
  BY <1>3, <1>7

-----------------------------------------------------------------------------
(* The generator's steps and the lists.                                    *)

\* The generator adds each declaration to the list of the function it is in.
LEMMA LoweringLists ==
  ASSUME ScopeInv, FunctionsInv, ListInv, phase = "ir", phase' = "ir", pos <= Len(unit),
         unit' = unit, pos' = pos + 1, VariablesOnly,
         \/ currentFunc' = currentFunc /\ unit[pos].kind # "end"
         \/ currentFunc' = NoSymbol
         \/ currentFunc' \in FunctionIds /\ symbols[currentFunc'].by = pos,
         unit[pos].kind # "declare" => params' = params,
         unit[pos].kind = "declare" =>
            /\ currentFunc # NoSymbol /\ params' = [params EXCEPT ![currentFunc] = Append(@, NewSymbol)]
            /\ NewSymbol \in Ids' /\ NewSymbol \notin Ids /\ symbols'[NewSymbol].by = pos
  PROVE  FunctionsInv' /\ ListInv'
<1>1. TableTypes /\ UnitInv /\ Len(unit) \in Nat /\ DOMAIN unit = 1..Len(unit)
  BY DEF ScopeInv, UnitInv
<1> PICK q \in DOMAIN unit : q = pos
  BY <1>1 DEF ScopeInv, WalkInv
<1> PICK c : c = currentFunc
  OBVIOUS
<1>2. q \in Nat /\ q <= Len(unit) /\ pos' - 1 = q /\ pos' = q + 1
  BY <1>1
<1>3. FunctionIds' = FunctionIds /\ \A s \in FunctionIds : symbols'[s] = symbols[s]
  BY SameFunctions
<1>4. /\ \A s \in FunctionIds : symbols[s].by \in DOMAIN unit /\ unit[symbols[s].by].kind = "function"
      /\ \A s, t \in FunctionIds : symbols[s].by = symbols[t].by => s = t
      /\ c # NoSymbol => c \in FunctionIds /\ symbols[c].by < q /\ ~Ends(symbols[c].by, q - 1)
  BY DEF FunctionsInv
<1>5. \A f, k : Ends(f, k)' <=> Ends(f, k)
  BY DEF Ends
<1>6. \A f, i : Own(f, i)' <=> Own(f, i)
  BY DEF Own, Ends
<1>7. ASSUME NEW f \in DOMAIN unit, ~Ends(f, q - 1), unit[q].kind # "end" PROVE ~Ends(f, q)
  <2>1. \A j \in f + 1..q : j \in f + 1..q - 1 \/ j = q
    BY <1>1
  <2>2. QED
    BY <1>7, <2>1 DEF Ends
<1>8. ASSUME currentFunc' # NoSymbol
      PROVE  /\ currentFunc' \in FunctionIds'
             /\ symbols'[currentFunc'].by < pos' /\ ~Ends(symbols[currentFunc].by, pos - 1)'
  <2>1. CASE currentFunc' = c /\ unit[q].kind # "end"
    <3>1. PICK f \in DOMAIN unit : f = symbols[c].by /\ f = symbols'[currentFunc'].by
      BY <1>3, <1>4, <1>8, <2>1
    <3>2. ~Ends(f, q) /\ f < q + 1
      BY <1>1, <1>4, <1>7, <1>8, <2>1, <3>1
    <3>3. QED
      BY <1>2, <1>3, <1>4, <1>5, <1>8, <2>1, <3>1, <3>2
  <2>2. CASE currentFunc' \in FunctionIds /\ symbols[currentFunc'].by = q
    <3>1. symbols'[currentFunc'].by = q
      BY <1>3, <2>2
    <3>2. ~Ends(q, q)
      BY <1>2 DEF Ends
    <3>3. QED
      BY <1>2, <1>3, <1>5, <2>2, <3>1, <3>2
  <2>3. QED
    BY <1>8, <2>1, <2>2
<1>9. FunctionsInv'
  BY <1>3, <1>4, <1>8 DEF FunctionsInv
<1>10. \A i \in DOMAIN unit : Times(i) \in Nat /\ Base(i) = Times(i)
  BY DEF Times, Base
<1>11. ASSUME NEW i \in DOMAIN unit
       PROVE  /\ i # q => Times(i)' = Times(i)
              /\ i = q => Times(i)' = Times(i) + 1
  <2>1. (i < q + 1) <=> i < q \/ i = q
    BY <1>1
  <2>2. Passed(i)' <=> Passed(i) \/ i = q
    BY <1>2, <2>1 DEF Passed
  <2>3. i = q => ~Passed(i)
    BY <1>2 DEF Passed
  <2>4. QED
    BY <2>2, <2>3 DEF Times
<1>12. CASE unit[q].kind = "declare"
  <2>1. c # NoSymbol /\ c \in FunctionIds /\ symbols[c].by < q /\ symbols[c].by \in DOMAIN unit
    BY <1>4, <1>12
  <2>2. ~Ends(symbols[c].by, q)
    BY <1>4, <1>7, <1>12, <2>1
  <2>3. PICK f \in DOMAIN unit : f = symbols[c].by /\ f = symbols'[c].by
    BY <1>3, <2>1
  <2>4. Own(f, q)'
    BY <1>6, <1>12, <2>1, <2>2, <2>3 DEF Own
  <2>5. ASSUME NEW s \in FunctionIds, Own(symbols[s].by, q) PROVE s = c
    <3>1. q \in 0..Len(unit) /\ symbols[s].by <= q /\ symbols[c].by <= q
      BY <1>1, <1>2, <1>4, <2>1, <2>5 DEF Own
    <3>2. ~Ends(symbols[s].by, q)
      BY <2>5 DEF Own
    <3>3. QED
      BY <1>1, <2>1, <2>2, <3>1, <3>2, OneOwner
  <2>6. ASSUME NEW s \in FunctionIds, NEW i \in DOMAIN unit, Own(symbols[s].by, i)'
        PROVE  Times(i)' = Base(i) + (IF s = c /\ i = q THEN 1 ELSE 0)
    <3>1. Own(symbols[s].by, i)
      BY <1>3, <1>6, <2>6
    <3>2. i = q => s = c
      BY <2>5, <3>1
    <3>3. QED
      BY <1>10, <1>11, <3>2
  <2>7. AddsTo(c, q)
    BY <1>12, <2>1, <2>3, <2>4, <2>6 DEF AddsTo
  <2>8. ListInv'
    BY <1>1, <1>6, <2>7, ListsNext
  <2>9. QED
    BY <1>9, <2>8
<1>13. CASE unit[q].kind # "declare"
  <2>1. ASSUME NEW s \in FunctionIds, NEW i \in DOMAIN unit, Own(symbols[s].by, i)'
        PROVE  Times(i)' = Base(i)
    <3>1. unit[i].kind = "declare"
      BY <2>1 DEF Own
    <3>2. i # q
      BY <1>13, <3>1
    <3>3. QED
      BY <1>10, <1>11, <3>2
  <2>2. AddsNone
    BY <1>13, <2>1 DEF AddsNone
  <2>3. ListInv'
    BY <1>1, <1>6, <2>2, ListsNext
  <2>4. QED
    BY <1>9, <2>3
<1>14. QED
  BY <1>12, <1>13

LEMMA IRLists ==
  ASSUME ScopeInv, FunctionsInv, ListInv,
         IRFunction \/ IRCompound \/ IRDeclare \/ IRIdentifier \/ IREndFunction
  PROVE  FunctionsInv' /\ ListInv'
<1>1. /\ phase = "ir" /\ phase' = "ir" /\ pos <= Len(unit) /\ pos' = pos + 1 /\ unit' = unit
  BY DEF IRFunction, IRCompound, IRDeclare, IRIdentifier, IREndFunction, Lowering, Found
<1>2. /\ TableTypes /\ UnitInv /\ pos \in DOMAIN unit /\ pos \in Nat
      /\ unit[pos].kind # "function" => level > 0
  <2>1. TableTypes /\ UnitInv /\ pos \in DOMAIN unit /\ pos \in Nat
    BY <1>1 DEF ScopeInv, UnitInv, WalkInv
  <2>2. unit[pos].kind # "function" => ~Outside(pos - 1)
    BY <2>1 DEF UnitInv
  <2>3. unit[pos].kind # "function" => level = 1
    BY <1>1, <2>2 DEF ScopeInv, WalkInv
  <2>4. QED
    BY <2>1, <2>3
<1>3. unit[pos].kind \in {"declare", "use"} => unit[pos].name \in Names
  BY <1>2 DEF UnitInv
<1>4. CASE IRFunction
  <2>1. /\ unit[pos].kind = "function" /\ currentFunc' = FunctionAt(pos)
        /\ symbols' = symbols /\ params' = params
    BY <1>4 DEF IRFunction, Lowering, EnterScope
  <2>2. \E s \in DOMAIN symbols : symbols[s].by = pos /\ symbols[s].kind = "SK_Function"
    BY <1>2, <2>1 DEF UnitInv, TableTypes, Ids
  <2>3. /\ FunctionAt(pos) \in DOMAIN symbols /\ symbols[FunctionAt(pos)].by = pos
        /\ symbols[FunctionAt(pos)].kind = "SK_Function"
    BY <2>2 DEF FunctionAt
  <2>4. currentFunc' \in FunctionIds /\ symbols[currentFunc'].by = pos
    BY <1>2, <2>1, <2>3 DEF FunctionIds, Ids, TableTypes
  <2>5. VariablesOnly
    BY <2>1 DEF VariablesOnly, Ids
  <2>6. QED
    BY <1>1, <2>1, <2>4, <2>5, LoweringLists
<1>5. CASE IRCompound \/ IREndFunction \/ (IRIdentifier /\ UNCHANGED tableVars)
  <2>1. /\ unit[pos].kind # "declare" /\ symbols' = symbols /\ params' = params
        /\ (currentFunc' = currentFunc /\ unit[pos].kind # "end") \/ currentFunc' = NoSymbol
    BY <1>5 DEF IRCompound, IREndFunction, IRIdentifier, Lowering, tableVars, ExitScope
  <2>2. VariablesOnly
    BY <2>1 DEF VariablesOnly, Ids
  <2>3. QED
    BY <1>1, <2>1, <2>2, LoweringLists
<1>6. CASE IRDeclare
  <2>1. unit[pos].kind = "declare" /\ AddVariable(unit[pos].name, "none", pos)
    BY <1>6 DEF IRDeclare, Lowering
  <2>2. /\ VariablesOnly /\ NewSymbol \in Ids' /\ NewSymbol \notin Ids
        /\ symbols'[NewSymbol].by = pos /\ currentFunc' = currentFunc /\ currentFunc # NoSymbol
        /\ params' = [params EXCEPT ![currentFunc] = Append(@, NewSymbol)]
    BY <1>2, <1>3, <2>1, AddVariableLists
  <2>3. QED
    BY <1>1, <2>1, <2>2, LoweringLists
<1>7. CASE IRIdentifier /\ AddVariable(unit[pos].name, "TK_EXTERN", pos)
  <2>1. unit[pos].kind = "use"
    BY <1>7 DEF IRIdentifier, Lowering
  <2>2. VariablesOnly /\ params' = params /\ currentFunc' = currentFunc
    BY <1>2, <1>3, <1>7, <2>1, AddVariableLists
  <2>3. QED
    BY <1>1, <2>1, <2>2, LoweringLists
<1>8. IRIdentifier => UNCHANGED tableVars \/ AddVariable(unit[pos].name, "TK_EXTERN", pos)
  BY DEF IRIdentifier
<1>9. QED
  BY <1>4, <1>5, <1>6, <1>7, <1>8

LEMMA IdleLists ==
  ASSUME ScopeInv, FunctionsInv, ListInv, EndIR \/ UNCHANGED allVars
  PROVE  FunctionsInv' /\ ListInv'
<1>1. /\ UNCHANGED <<symbols, params, currentFunc, unit, pos>> /\ TableTypes
      /\ phase' = phase \/ (phase = "ir" /\ phase' = "done")
  BY DEF EndIR, allVars, tableVars, ScopeInv
<1>2. VariablesOnly /\ FunctionIds' = FunctionIds
  BY <1>1 DEF VariablesOnly, FunctionIds, Ids
<1>3. FunctionsInv'
  BY <1>1, <1>2 DEF FunctionsInv, Ends
<1>4. \A f, i : Own(f, i)' <=> Own(f, i)
  BY <1>1 DEF Own, Ends
<1>5. AddsNone
  BY <1>1 DEF AddsNone, Base, Times, Passed
<1>6. QED
  BY <1>1, <1>2, <1>3, <1>4, <1>5, ListsNext

LEMMA EndStep ==
  ASSUME ScopeInv, EndInv, [ScopingNext]_allVars
  PROVE  EndInv'
<1>1. CASE phase = "sema" /\ phase' = "sema"
  BY <1>1 DEF EndInv
<1>2. CASE EndSema
  BY <1>2 DEF EndSema, EndInv
<1>3. CASE IR
  <2>1. phase = "ir" /\ unit' = unit /\ (phase' = "ir" \/ (phase' = "done" /\ pos > Len(unit) /\ pos' = pos))
    BY <1>3 DEF IR, IRFunction, IRCompound, IRDeclare, IRIdentifier, IREndFunction, EndIR, Lowering, Found
  <2>2. QED
    BY <2>1 DEF EndInv
<1>4. CASE Finished \/ UNCHANGED allVars
  BY <1>4 DEF Finished, allVars, EndInv
<1>5. CASE Sema
  <2>1. ~EndSema => phase = "sema" /\ phase' = "sema"
    BY <1>5 DEF Sema, SemaFunction, SemaDeclare, SemaUse, SemaUnseen, SemaEnterFunction, SemaCompound,
                SemaEndCompound, SemaEndFunction, Opened, InFunction, Record, walkVars
  <2>2. QED
    BY <1>1, <1>2, <2>1
<1>6. QED
  BY <1>3, <1>4, <1>5 DEF ScopingNext
LEMMA InitLists == ScopingInit => FunctionsInv /\ ListInv /\ EndInv
<1> SUFFICES ASSUME ScopingInit PROVE FunctionsInv /\ ListInv /\ EndInv
  OBVIOUS
<1>1. /\ symbols = << >> /\ currentFunc = NoSymbol /\ phase = "sema"
      /\ params = [s \in SymbolIds |-> << >>]
  BY DEF ScopingInit, TableInit
<1>2. FunctionIds = {}
  BY <1>1 DEF FunctionIds, Ids
<1> HIDE DEF Ids
<1>3. params \in [SymbolIds -> Seq(Ids)] /\ \A s \in SymbolIds : params[s] = << >>
  BY <1>1
<1>4. QED
  BY <1>1, <1>2, <1>3 DEF FunctionsInv, ListInv, EndInv

\* The declarations of a function end where it does.
LEMMA DeclaredOwn ==
  ASSUME UnitInv, unit # << >>, unit[Len(unit)].kind = "end",
         NEW f \in DOMAIN unit, unit[f].kind = "function"
  PROVE  \A i : i \in Declared(f) <=> i \in DOMAIN unit /\ Own(f, i)
<1> DEFINE after == {i \in DOMAIN unit : i > f /\ unit[i].kind = "end"}
<1>1. DOMAIN unit = 1..Len(unit) /\ Len(unit) \in Nat /\ Len(unit) \in DOMAIN unit
  BY DEF UnitInv
<1>2. Len(unit) \in after
  <2>1. f # Len(unit)
    OBVIOUS
  <2>2. QED
    BY <1>1, <2>1
<1>3. after \in SUBSET Nat
  BY <1>1
<1>4. Declared(f) = {i \in DOMAIN unit : f < i /\ i < Min(after) /\ unit[i].kind = "declare"}
  BY DEF Declared
<1>5. \A j \in DOMAIN unit : j \in after <=> f < j /\ unit[j].kind = "end"
  BY <1>1
<1> HIDE DEF after
<1>6. Min(after) \in after /\ \A j \in after : Min(after) <= j
  BY <1>2, <1>3, MinOfNats
<1>7. Min(after) \in DOMAIN unit
  BY <1>6 DEF after
<1>8. ASSUME NEW i \in DOMAIN unit, f < i
      PROVE  i < Min(after) <=> ~Ends(f, i)
  <2>1. ASSUME i < Min(after), NEW j \in f + 1..i PROVE unit[j].kind # "end"
    <3>1. j \in DOMAIN unit /\ f < j /\ j < Min(after)
      BY <1>1, <1>7, <2>1
    <3>2. j \notin after
      BY <1>1, <1>6, <1>7, <3>1
    <3>3. QED
      BY <1>5, <3>1, <3>2
  <2>2. ASSUME ~(i < Min(after)) PROVE Ends(f, i)
    <3>1. Min(after) \in f + 1..i /\ unit[Min(after)].kind = "end"
      BY <1>1, <1>5, <1>6, <1>7, <2>2
    <3>2. QED
      BY <3>1 DEF Ends
  <2>3. QED
    BY <2>1, <2>2 DEF Ends
<1>9. QED
  BY <1>4, <1>8 DEF Own

\* In a lowered unit the list of each function holds each of its own variables
\* once for each pass that saw the declaration, and none of another function.
THEOREM EachPassLists == ScopingSpec => []ListedTwice
<1> DEFINE Inv == FunctionsInv /\ ListInv /\ EndInv
<1>1. ScopeInv /\ Inv /\ [ScopingNext]_allVars => Inv'
  <2> SUFFICES ASSUME ScopeInv, Inv, [ScopingNext]_allVars PROVE FunctionsInv' /\ ListInv'
    BY EndStep
  <2>1. CASE Sema
    <3>1. ASSUME NEW n \in Names, SemaFunction(n) \/ SemaDeclare(n) \/ SemaUse(n)
          PROVE  FunctionsInv' /\ ListInv'
      <4>1. "use" \in {"declare", "use"}
        OBVIOUS
      <4>2. QED
        BY <3>1, <4>1, SemaFunctionLists, SemaNameLists
    <3>2. ASSUME NEW n \in Names, NEW k \in {"declare", "use"}, SemaUnseen(k, n)
          PROVE  FunctionsInv' /\ ListInv'
      BY <3>2, SemaNameLists
    <3>3. QED
      BY <2>1, <3>1, <3>2, SemaBlockLists, SemaIdleLists DEF Sema
  <2>2. CASE IR
    BY <2>2, IRLists, IdleLists DEF IR
  <2>3. CASE Finished \/ UNCHANGED allVars
    BY <2>3, IdleLists DEF Finished
  <2>4. QED
    BY <2>1, <2>2, <2>3 DEF ScopingNext
<1>2. ScopeInv /\ Inv => ListedTwice
  <2> SUFFICES ASSUME ScopeInv, Inv, phase = "done",
                      NEW s \in DOMAIN symbols, symbols[s].kind = "SK_Function"
               PROVE  LET listed == params[s]
                          times(i) == Cardinality({k \in DOMAIN listed : symbols[listed[k]].by = i})
                      IN /\ \A i \in Declared(symbols[s].by) : times(i) = IF unit[i].seen THEN 2 ELSE 1
                         /\ \A k \in DOMAIN listed : symbols[listed[k]].by \in Declared(symbols[s].by)
    BY DEF ListedTwice
  <2> PICK f : f = symbols[s].by
    OBVIOUS
  <2>1. s \in FunctionIds
    BY DEF FunctionIds, Ids, ScopeInv, TableTypes
  <2>2. /\ f \in DOMAIN unit /\ unit[f].kind = "function" /\ UnitInv
        /\ unit # << >> /\ unit[Len(unit)].kind = "end" /\ pos > Len(unit) /\ pos \in Nat
    BY <2>1 DEF FunctionsInv, EndInv, ScopeInv, WalkInv
  <2>3. /\ \A k \in DOMAIN params[s] : /\ symbols[params[s][k]].by \in DOMAIN unit
                                       /\ Own(f, symbols[params[s][k]].by)
        /\ \A i \in DOMAIN unit : Own(f, i) => Cardinality(Listed(s, i)) = Times(i)
    BY <2>1 DEF ListInv, Holds
  <2>4. \A i : i \in Declared(f) <=> i \in DOMAIN unit /\ Own(f, i)
    BY <2>2, DeclaredOwn
  <2>5. ASSUME NEW i \in DOMAIN unit PROVE Times(i) = IF unit[i].seen THEN 2 ELSE 1
    <3>1. i < pos
      BY <2>2 DEF UnitInv
    <3>2. QED
      BY <3>1 DEF Times, Passed
  <2>6. \A i \in Declared(f) : Cardinality(Listed(s, i)) = IF unit[i].seen THEN 2 ELSE 1
    BY <2>3, <2>4, <2>5
  <2>7. \A k \in DOMAIN params[s] : symbols[params[s][k]].by \in Declared(f)
    BY <2>3, <2>4
  <2>8. QED
    BY <2>6, <2>7 DEF Listed
<1> HIDE DEF Inv
<1>3. ScopingInit => Inv
  BY InitLists DEF Inv
<1>4. QED
  BY <1>1, <1>2, <1>3, ScopeInvariance, PTL DEF ScopingSpec

-----------------------------------------------------------------------------
(* The checker finds what the text means.  Each scope of the table is a    *)
(* block of the text that is open, and shows the latest declaration there. *)

\* The scope of the declaration made by event j, and whether the name is still
\* known behind event k.
ScopeAt(j) == IF unit[j].kind = "function" THEN 1 ELSE Nesting(j) + 2
Known(j, n, k) ==
  /\ unit[j].seen /\ unit[j].name = n
  /\ \/ unit[j].kind = "function"
     \/ unit[j].kind = "declare" /\ \A m \in j..k : Nesting(m) >= Nesting(j)

\* Scope l shows for n the latest of its known declarations, or has none.
Shows(l, n, k) ==
  \/ /\ Sees(l, n) \in Ids
     /\ LET p == symbols[Sees(l, n)].by IN
          /\ p \in 1..k /\ Known(p, n, k) /\ ScopeAt(p) = l
          /\ \A j \in p + 1..k : Known(j, n, k) => ScopeAt(j) # l
  \/ /\ Sees(l, n) = NoSymbol
     /\ \A j \in 1..k : Known(j, n, k) => ScopeAt(j) # l

\* The declarations are inside of the functions, the functions outside of all.
Placed ==
  \A j \in DOMAIN unit : /\ unit[j].kind = "function" => Nesting(j) = 0
                         /\ unit[j].kind = "declare" /\ unit[j].seen => Nesting(j) >= 1

TextInv ==
  /\ found \in Seq(Nat) /\ Len(found) = Len(unit)
  /\ phase = "sema" => /\ depth = Nesting(Len(unit)) /\ Placed
                       /\ \A l \in DOMAIN identifiers, n \in Names : Shows(l, n, Len(unit))
  /\ UsesMeant

Step(e) == IF e.kind \in {"body", "open"} THEN 1 ELSE IF e.kind = "close" THEN -1 ELSE 0

LEMMA CountNext ==
  ASSUME NEW k \in Nat, NEW S \in SUBSET (1..k), NEW T \in SUBSET (1..k + 1),
         \A j \in 1..k : j \in T <=> j \in S
  PROVE  /\ Cardinality(S) \in Nat
         /\ Cardinality(T) = Cardinality(S) + (IF k + 1 \in T THEN 1 ELSE 0)
<1>1. IsFiniteSet(S) /\ Cardinality(S) \in Nat
  <2>1. IsFiniteSet(1..k)
    BY FS_Interval
  <2>2. IsFiniteSet(S)
    BY <2>1, FS_Subset
  <2>3. QED
    BY <2>2, FS_CardinalityType
<1>2. \A j \in 1..k + 1 : j \in 1..k \/ j = k + 1
  OBVIOUS
<1>3. CASE k + 1 \in T
  <2>1. T = S \cup {k + 1}
    BY <1>2, <1>3
  <2>2. k + 1 \notin S
    OBVIOUS
  <2>3. QED
    BY <1>1, <1>3, <2>1, <2>2, FS_AddElement
<1>4. CASE k + 1 \notin T
  <2>1. T = S
    BY <1>2, <1>4
  <2>2. QED
    BY <1>1, <1>4, <2>1
<1>5. QED
  BY <1>1, <1>3, <1>4

LEMMA NestingIs ==
  ASSUME UnitInv, NEW k \in 0..Len(unit)
  PROVE  Nesting(k) \in Int /\ (k = 0 => Nesting(k) = 0)
<1> DEFINE in == {j \in 1..k : unit[j].kind \in {"body", "open"}}
           out == {j \in 1..k : unit[j].kind = "close"}
<1>1. k \in Nat
  BY DEF UnitInv
<1>2. IsFiniteSet(in) /\ IsFiniteSet(out)
  <2>1. IsFiniteSet(1..k)
    BY <1>1, FS_Interval
  <2>2. in \in SUBSET (1..k) /\ out \in SUBSET (1..k)
    OBVIOUS
  <2> HIDE DEF in, out
  <2>3. QED
    BY <2>1, <2>2, FS_Subset
<1>3. Cardinality(in) \in Nat /\ Cardinality(out) \in Nat
  BY <1>2, FS_CardinalityType
<1>4. k = 0 => in = {} /\ out = {}
  BY <1>1
<1>5. Nesting(k) = Cardinality(in) - Cardinality(out)
  BY DEF Nesting
<1>6. k = 0 => Cardinality(in) = 0 /\ Cardinality(out) = 0
  BY <1>4, FS_EmptySet
<1> HIDE DEF in, out
<1>7. QED
  BY <1>3, <1>5, <1>6

LEMMA NestingNext ==
  ASSUME UnitInv, NEW e \in EventType, unit' = Append(unit, e), NEW len \in Nat, len = Len(unit)
  PROVE  /\ \A k \in 0..len : Nesting(k)' = Nesting(k) /\ Nesting(k) \in Int
         /\ Nesting(len + 1)' = Nesting(len) + Step(e)
         /\ DOMAIN unit = 1..len /\ DOMAIN unit' = 1..len + 1 /\ Len(unit') = len + 1
         /\ (\A j \in 1..len : unit'[j] = unit[j]) /\ unit'[len + 1] = e
<1>1. /\ DOMAIN unit = 1..len /\ DOMAIN unit' = 1..len + 1 /\ Len(unit') = len + 1
      /\ (\A j \in 1..len : unit'[j] = unit[j]) /\ unit'[len + 1] = e
  BY DEF UnitInv
<1>2. ASSUME NEW k \in 0..len PROVE Nesting(k)' = Nesting(k) /\ Nesting(k) \in Int
  <2>1. \A j \in 1..k : unit'[j] = unit[j]
    BY <1>1
  <2>2. QED
    BY <2>1, NestingIs DEF Nesting
<1>3. Nesting(len + 1)' = Nesting(len) + Step(e)
  <2> DEFINE in == {j \in 1..len : unit[j].kind \in {"body", "open"}}
             out == {j \in 1..len : unit[j].kind = "close"}
             inNext == {j \in 1..len + 1 : unit'[j].kind \in {"body", "open"}}
             outNext == {j \in 1..len + 1 : unit'[j].kind = "close"}
  <2>1. Nesting(len) = Cardinality(in) - Cardinality(out)
    BY DEF Nesting
  <2>2. Nesting(len + 1)' = Cardinality(inNext) - Cardinality(outNext)
    BY DEF Nesting
  <2>3. /\ in \in SUBSET (1..len) /\ inNext \in SUBSET (1..len + 1)
        /\ \A j \in 1..len : j \in inNext <=> j \in in
        /\ len + 1 \in inNext <=> e.kind \in {"body", "open"}
    BY <1>1
  <2>4. /\ out \in SUBSET (1..len) /\ outNext \in SUBSET (1..len + 1)
        /\ \A j \in 1..len : j \in outNext <=> j \in out
        /\ len + 1 \in outNext <=> e.kind = "close"
    BY <1>1
  <2> HIDE DEF in, out, inNext, outNext
  <2>5. /\ Cardinality(in) \in Nat
        /\ Cardinality(inNext) = Cardinality(in) + (IF len + 1 \in inNext THEN 1 ELSE 0)
    BY <2>3, CountNext
  <2>6. /\ Cardinality(out) \in Nat
        /\ Cardinality(outNext) = Cardinality(out) + (IF len + 1 \in outNext THEN 1 ELSE 0)
    BY <2>4, CountNext
  <2>7. CASE e.kind \in {"body", "open"}
    <3>1. e.kind # "close" /\ Step(e) = 1
      BY <2>7 DEF Step
    <3>2. QED
      BY <2>1, <2>2, <2>3, <2>4, <2>5, <2>6, <2>7, <3>1
  <2>8. CASE e.kind = "close"
    <3>1. e.kind \notin {"body", "open"} /\ Step(e) = -1
      BY <2>8 DEF Step
    <3>2. QED
      BY <2>1, <2>2, <2>3, <2>4, <2>5, <2>6, <2>8, <3>1
  <2>9. CASE e.kind \notin {"body", "open", "close"}
    <3>1. e.kind \notin {"body", "open"} /\ e.kind # "close" /\ Step(e) = 0
      BY <2>9 DEF Step
    <3>2. QED
      BY <2>1, <2>2, <2>3, <2>4, <2>5, <2>6, <3>1
  <2>10. QED
    BY <2>7, <2>8, <2>9
<1>4. QED
  BY <1>1, <1>2, <1>3

\* A name is known behind one more event when it was and its block is still open,
\* or when the event declares it.
LEMMA KnownNext ==
  ASSUME UnitInv, NEW e \in EventType, unit' = Append(unit, e),
         NEW len \in Nat, len = Len(unit), NEW n
  PROVE  /\ \A j \in 1..len :
              /\ ScopeAt(j)' = ScopeAt(j)
              /\ Known(j, n, len + 1)' <=>
                   /\ Known(j, n, len)
                   /\ unit[j].kind = "function" \/ Nesting(len) + Step(e) >= Nesting(j)
         /\ Known(len + 1, n, len + 1)' <=> e.seen /\ e.name = n /\ e.kind \in {"function", "declare"}
         /\ e.kind = "declare" => ScopeAt(len + 1)' = Nesting(len) + 2
         /\ e.kind = "function" => ScopeAt(len + 1)' = 1
<1>1. /\ \A k \in 0..len : Nesting(k)' = Nesting(k) /\ Nesting(k) \in Int
      /\ Nesting(len + 1)' = Nesting(len) + Step(e)
      /\ (\A j \in 1..len : unit'[j] = unit[j]) /\ unit'[len + 1] = e
  BY NestingNext
<1>2. /\ e.kind = "declare" => Step(e) = 0
      /\ Nesting(len) \in Int /\ Step(e) \in Int
  BY <1>1 DEF Step
<1>3. ASSUME NEW j \in 1..len
      PROVE  /\ ScopeAt(j)' = ScopeAt(j)
             /\ Known(j, n, len + 1)' <=>
                   /\ Known(j, n, len)
                   /\ unit[j].kind = "function" \/ Nesting(len) + Step(e) >= Nesting(j)
  <2>1. unit'[j] = unit[j] /\ Nesting(j)' = Nesting(j)
    BY <1>1
  <2>2. ScopeAt(j)' = ScopeAt(j)
    BY <2>1 DEF ScopeAt
  <2>3. (\A m \in j..len + 1 : Nesting(m)' >= Nesting(j)) <=>
        (\A m \in j..len : Nesting(m) >= Nesting(j)) /\ Nesting(len) + Step(e) >= Nesting(j)
    <3>1. \A m \in j..len + 1 : (m \in j..len /\ m \in 0..len) \/ m = len + 1
      OBVIOUS
    <3>2. \A m \in j..len : m \in j..len + 1 /\ m \in 0..len
      OBVIOUS
    <3>3. len + 1 \in j..len + 1
      OBVIOUS
    <3>4. QED
      BY <1>1, <3>1, <3>2, <3>3
  <2>4. QED
    BY <2>1, <2>2, <2>3 DEF Known
<1>4. Known(len + 1, n, len + 1)' <=> e.seen /\ e.name = n /\ e.kind \in {"function", "declare"}
  <2>1. e.kind = "declare" => \A m \in len + 1..len + 1 : Nesting(m)' >= Nesting(len + 1)'
    <3>1. \A m \in len + 1..len + 1 : m = len + 1
      OBVIOUS
    <3>2. Nesting(len + 1)' \in Int
      BY <1>1, <1>2
    <3>3. QED
      BY <3>1, <3>2
  <2>2. QED
    BY <1>1, <2>1 DEF Known
<1>5. /\ e.kind = "declare" => ScopeAt(len + 1)' = Nesting(len) + 2
      /\ e.kind = "function" => ScopeAt(len + 1)' = 1
  BY <1>1, <1>2 DEF ScopeAt
<1>6. QED
  BY <1>3, <1>4, <1>5

\* A scope that is left alone shows the same, if it is not closed and the event
\* declares nothing in it.
LEMMA ShowsKept ==
  ASSUME UnitInv, Placed, NEW e \in EventType, unit' = Append(unit, e),
         NEW len \in Nat, len = Len(unit), NEW l \in Nat, NEW n \in Names, Shows(l, n, len),
         Sees(l, n)' = Sees(l, n), \A s \in Ids : symbols'[s] = symbols[s] /\ s \in Ids',
         l = 1 \/ Nesting(len) + Step(e) + 2 >= l,
         e.seen /\ e.name = n /\ e.kind = "function" => l # 1,
         e.seen /\ e.name = n /\ e.kind = "declare" => l # Nesting(len) + 2
  PROVE  Shows(l, n, len + 1)'
<1>1. /\ \A j \in 1..len :
           /\ ScopeAt(j)' = ScopeAt(j)
           /\ Known(j, n, len + 1)' <=>
                /\ Known(j, n, len)
                /\ unit[j].kind = "function" \/ Nesting(len) + Step(e) >= Nesting(j)
      /\ Known(len + 1, n, len + 1)' <=> e.seen /\ e.name = n /\ e.kind \in {"function", "declare"}
      /\ e.kind = "declare" => ScopeAt(len + 1)' = Nesting(len) + 2
      /\ e.kind = "function" => ScopeAt(len + 1)' = 1
  BY KnownNext
<1>2. Known(len + 1, n, len + 1)' => ScopeAt(len + 1)' # l
  BY <1>1
<1>3. \A j \in 1..len : Known(j, n, len + 1)' => Known(j, n, len)
  BY <1>1
<1>4. \A j \in 1..len + 1 : j \in 1..len \/ j = len + 1
  OBVIOUS
<1>5. CASE Sees(l, n) \in Ids
  <2> PICK p : p = symbols[Sees(l, n)].by
    OBVIOUS
  <2>1. \/ /\ p \in 1..len /\ Known(p, n, len) /\ ScopeAt(p) = l
           /\ \A j \in p + 1..len : Known(j, n, len) => ScopeAt(j) # l
        \/ Sees(l, n) = NoSymbol
    BY DEF Shows
  <2>2. Sees(l, n) # NoSymbol
    BY <1>5 DEF Ids, NoSymbol
  <2>3. Sees(l, n)' \in Ids' /\ symbols'[Sees(l, n)'].by = p
    BY <1>5
  <2>4. Known(p, n, len + 1)'
    <3>1. p \in DOMAIN unit /\ Nesting(p) \in Int /\ Nesting(len) \in Int /\ Step(e) \in Int
      <4>1. p \in DOMAIN unit
        BY <2>1, <2>2 DEF UnitInv
      <4>2. p \in 0..Len(unit) /\ len \in 0..Len(unit)
        BY <2>1, <2>2
      <4>3. QED
        BY <4>1, <4>2, NestingIs DEF Step
    <3>2. CASE unit[p].kind = "function"
      BY <1>1, <2>1, <2>2, <3>2
    <3>3. CASE unit[p].kind # "function"
      <4>1. ScopeAt(p) = Nesting(p) + 2 /\ Nesting(p) >= 1
        BY <2>1, <2>2, <3>1, <3>3 DEF ScopeAt, Known, Placed
      <4>2. Nesting(len) + Step(e) >= Nesting(p)
        BY <2>1, <2>2, <3>1, <4>1
      <4>3. QED
        BY <1>1, <2>1, <2>2, <4>2
    <3>4. QED
      BY <3>2, <3>3
  <2>5. \A j \in p + 1..len + 1 : Known(j, n, len + 1)' => ScopeAt(j)' # l
    <3>1. \A j \in p + 1..len + 1 : (j \in 1..len /\ j \in p + 1..len) \/ j = len + 1
      BY <2>1, <2>2
    <3>2. QED
      BY <1>1, <1>2, <1>3, <2>1, <2>2, <3>1
  <2>6. p \in 1..len + 1 /\ ScopeAt(p)' = l
    BY <1>1, <2>1, <2>2
  <2>7. QED
    BY <2>3, <2>4, <2>5, <2>6 DEF Shows
<1>6. CASE Sees(l, n) = NoSymbol
  <2>1. \A j \in 1..len : Known(j, n, len) => ScopeAt(j) # l
    BY <1>6 DEF Shows, Ids, NoSymbol
  <2>2. \A j \in 1..len + 1 : Known(j, n, len + 1)' => ScopeAt(j)' # l
    BY <1>1, <1>2, <1>3, <1>4, <2>1
  <2>3. QED
    BY <1>6, <2>2 DEF Shows, NoSymbol
<1>7. QED
  BY <1>5, <1>6 DEF Shows

\* The scope of a declaration shows it.
LEMMA ShowsDeclared ==
  ASSUME UnitInv, NEW e \in EventType, unit' = Append(unit, e),
         NEW len \in Nat, len = Len(unit), NEW l \in Nat, NEW n \in Names,
         Sees(l, n)' \in Ids', symbols'[Sees(l, n)'].by = len + 1,
         e.seen, e.name = n,
         \/ e.kind = "function" /\ l = 1
         \/ e.kind = "declare" /\ l = Nesting(len) + 2
  PROVE  Shows(l, n, len + 1)'
<1>1. /\ Known(len + 1, n, len + 1)' <=> e.seen /\ e.name = n /\ e.kind \in {"function", "declare"}
      /\ e.kind = "declare" => ScopeAt(len + 1)' = Nesting(len) + 2
      /\ e.kind = "function" => ScopeAt(len + 1)' = 1
  BY KnownNext
<1>2. Known(len + 1, n, len + 1)' /\ ScopeAt(len + 1)' = l
  BY <1>1
<1>3. \A j \in (len + 1) + 1..len + 1 : FALSE
  OBVIOUS
<1>4. len + 1 \in 1..len + 1
  OBVIOUS
<1>5. QED
  BY <1>2, <1>3, <1>4 DEF Shows

\* A scope that is opened shows nothing: no declaration is so deep.
LEMMA ShowsOpened ==
  ASSUME UnitInv, NEW e \in EventType, unit' = Append(unit, e), e.kind \in {"body", "open"},
         NEW len \in Nat, len = Len(unit), NEW n \in Names, Nesting(len) \in Nat,
         NEW l, l = Nesting(len) + 3, Sees(l, n)' = NoSymbol
  PROVE  Shows(l, n, len + 1)'
<1>1. /\ \A j \in 1..len :
           /\ ScopeAt(j)' = ScopeAt(j)
           /\ Known(j, n, len + 1)' => Known(j, n, len)
      /\ ~Known(len + 1, n, len + 1)'
  BY KnownNext
<1>2. ASSUME NEW j \in 1..len, Known(j, n, len) PROVE ScopeAt(j) # l
  <2>1. CASE unit[j].kind = "function"
    BY <2>1 DEF ScopeAt
  <2>2. CASE unit[j].kind # "function"
    <3>1. len \in j..len /\ j \in 0..len
      OBVIOUS
    <3>2. Nesting(len) >= Nesting(j) /\ Nesting(j) \in Int
      BY <1>2, <2>2, <3>1, NestingIs DEF Known
    <3>3. QED
      BY <2>2, <3>2 DEF ScopeAt
  <2>3. QED
    BY <2>1, <2>2
<1>3. \A j \in 1..len + 1 : j \in 1..len \/ j = len + 1
  OBVIOUS
<1>4. QED
  BY <1>1, <1>2, <1>3 DEF Shows, NoSymbol

\* The latest of the names known is the one the table finds.
LEMMA FindsMeant ==
  ASSUME TableTypes, UnitInv, Placed, NEW len \in Nat, len = Len(unit),
         Len(identifiers) = Nesting(len) + 2 \/ (Len(identifiers) = 1 /\ Nesting(len) = 0),
         \A l \in DOMAIN identifiers, n \in Names : Shows(l, n, len),
         NEW n \in Names
  PROVE  PlaceOf(LookupID(n)) = Meant(len + 1, n)
<1> DEFINE S == {j \in 1..len : Known(j, n, len)}
<1>1. Meant(len + 1, n) = IF S = {} THEN Nowhere ELSE Max(S)
  <2>1. KnownAt(len + 1, n) = S
    <3>1. (len + 1) - 1 = len
      OBVIOUS
    <3>2. QED
      BY <3>1 DEF KnownAt, Known
  <2>2. QED
    BY <2>1 DEF Meant
<1>2. DOMAIN identifiers = 1..Len(identifiers) /\ Len(identifiers) \in Nat /\ DOMAIN unit = 1..len
  BY DEF TableTypes, UnitInv
<1>3. Nesting(len) \in Int /\ \A j \in 1..len : Nesting(j) \in Int
  <2>1. len \in 0..len /\ \A j \in 1..len : j \in 0..len
    OBVIOUS
  <2>2. QED
    BY <2>1, NestingIs
\* A known name is in a scope that is open.
<1>4. ASSUME NEW j \in S
      PROVE  /\ ScopeAt(j) \in DOMAIN identifiers
             /\ unit[j].kind # "function" => ScopeAt(j) = Nesting(j) + 2 /\ Nesting(j) >= 1
  <2>1. CASE unit[j].kind = "function"
    BY <1>2, <2>1 DEF ScopeAt, TableTypes
  <2>2. CASE unit[j].kind # "function"
    <3>1. len \in j..len /\ j \in 1..len
      OBVIOUS
    <3>2. Nesting(len) >= Nesting(j) /\ Nesting(j) >= 1 /\ ScopeAt(j) = Nesting(j) + 2
      BY <1>2, <2>2, <3>1 DEF Known, Placed, ScopeAt
    <3>3. QED
      BY <1>2, <1>3, <3>1, <3>2
  <2>3. QED
    BY <2>1, <2>2
\* The later of two known names is in no scope further out.
<1>5. ASSUME NEW i \in S, NEW j \in S, i < j
      PROVE  ScopeAt(i) <= ScopeAt(j)
  <2>1. CASE unit[i].kind = "function"
    <3>1. ScopeAt(i) = 1 /\ ScopeAt(j) \in 1..Len(identifiers)
      BY <1>2, <1>4, <2>1 DEF ScopeAt
    <3>2. QED
      BY <1>2, <3>1
  <2>2. CASE unit[i].kind # "function"
    <3>1. j \in i..len /\ i \in 1..len /\ j \in 1..len
      BY <1>5
    <3>2. Nesting(i) >= 1 /\ ScopeAt(i) = Nesting(i) + 2
      BY <1>4, <2>2
    <3>3. Nesting(j) >= Nesting(i) /\ Nesting(i) \in Int /\ Nesting(j) \in Int
      BY <1>3, <2>2, <3>1 DEF Known
    <3>4. unit[j].kind = "function" => Nesting(j) = 0
      BY <1>2, <3>1 DEF Placed
    <3>5. unit[j].kind # "function"
      BY <3>2, <3>3, <3>4
    <3>6. ScopeAt(j) = Nesting(j) + 2
      BY <1>4, <3>5
    <3>7. QED
      BY <3>2, <3>3, <3>6
  <2>3. QED
    BY <2>1, <2>2
<1>6. CASE LookupID(n) = NoSymbol /\ \A l \in DOMAIN identifiers : Sees(l, n) = NoSymbol
  <2>1. ASSUME NEW j \in S PROVE FALSE
    <3>1. ScopeAt(j) \in DOMAIN identifiers /\ j \in 1..len /\ Known(j, n, len)
      BY <1>4
    <3>2. Sees(ScopeAt(j), n) = NoSymbol
      BY <1>6, <3>1
    <3>3. Shows(ScopeAt(j), n, len)
      BY <3>1
    <3>4. QED
      BY <3>1, <3>2, <3>3 DEF Shows, Ids, NoSymbol
  <2>2. S = {}
    BY <2>1
  <2>3. QED
    BY <1>1, <1>6, <2>2 DEF PlaceOf
<1>7. CASE \E l \in DOMAIN identifiers :
               /\ LookupID(n) = Sees(l, n) /\ Sees(l, n) # NoSymbol
               /\ \A k \in DOMAIN identifiers : k > l => Sees(k, n) = NoSymbol
  <2> PICK l \in DOMAIN identifiers :
               /\ LookupID(n) = Sees(l, n) /\ Sees(l, n) # NoSymbol
               /\ \A k \in DOMAIN identifiers : k > l => Sees(k, n) = NoSymbol
    BY <1>7
  <2> PICK p : p = symbols[Sees(l, n)].by
    OBVIOUS
  <2>1. /\ p \in 1..len /\ Known(p, n, len) /\ ScopeAt(p) = l
        /\ \A j \in p + 1..len : Known(j, n, len) => ScopeAt(j) # l
    BY DEF Shows
  <2>2. p \in S
    BY <2>1
  <2>3. ASSUME NEW j \in S PROVE j <= p
    <3> SUFFICES ASSUME p < j PROVE FALSE
      BY <2>1
    <3>1. j \in 1..len /\ j \in p + 1..len /\ Known(j, n, len)
      BY <2>1
    <3>2. ScopeAt(j) # l /\ l <= ScopeAt(j) /\ ScopeAt(j) \in DOMAIN identifiers
      BY <1>4, <1>5, <2>1, <2>2, <3>1
    <3>3. ScopeAt(j) > l
      BY <1>2, <3>2
    <3>4. Sees(ScopeAt(j), n) = NoSymbol /\ Shows(ScopeAt(j), n, len)
      BY <3>2, <3>3
    <3>5. QED
      BY <3>1, <3>4 DEF Shows, Ids, NoSymbol
  <2>4. S \in SUBSET (1..len)
    OBVIOUS
  <2> HIDE DEF S
  <2>5. Max(S) \in S /\ \A j \in S : j <= Max(S)
    BY <2>2, <2>4, MaxOfNats
  <2>6. p <= Max(S) /\ Max(S) <= p /\ Max(S) \in 1..len
    BY <2>2, <2>3, <2>4, <2>5
  <2>7. Max(S) = p
    BY <2>1, <2>6
  <2>8. PlaceOf(LookupID(n)) = p
    BY DEF PlaceOf
  <2>9. QED
    BY <1>1, <2>2, <2>7, <2>8
<1>8. QED
  BY <1>6, <1>7, LookupIs

\* A recorded event keeps what was found, and what it finds itself is right.
LEMMA RecordMeant ==
  ASSUME UnitInv, TextInv, NEW e \in EventType, unit' = Append(unit, e),
         NEW len \in Nat, len = Len(unit), NEW place \in Nat, found' = Append(found, place),
         e.kind = "use" /\ e.seen => place = Meant(len + 1, e.name)
  PROVE  found' \in Seq(Nat) /\ Len(found') = Len(unit') /\ UsesMeant'
<1>1. /\ \A k \in 0..len : Nesting(k)' = Nesting(k) /\ Nesting(k) \in Int
      /\ DOMAIN unit = 1..len /\ DOMAIN unit' = 1..len + 1 /\ Len(unit') = len + 1
      /\ (\A j \in 1..len : unit'[j] = unit[j]) /\ unit'[len + 1] = e
  BY NestingNext
<1>2. /\ found' \in Seq(Nat) /\ Len(found') = len + 1
      /\ (\A j \in 1..len : found'[j] = found[j]) /\ found'[len + 1] = place
  BY DEF TextInv
<1>3. ASSUME NEW i \in 1..len + 1, NEW n PROVE Meant(i, n)' = Meant(i, n)
  <2>1. \A j \in 1..i - 1 : /\ unit'[j] = unit[j] /\ Nesting(j)' = Nesting(j)
                            /\ \A k \in j..i - 1 : Nesting(k)' = Nesting(k)
    <3>1. \A j \in 1..i - 1 : j \in 1..len /\ j \in 0..len /\ \A k \in j..i - 1 : k \in 0..len
      OBVIOUS
    <3>2. QED
      BY <1>1, <3>1
  <2>2. KnownAt(i, n)' = KnownAt(i, n)
    BY <2>1 DEF KnownAt
  <2>3. QED
    BY <2>2 DEF Meant
<1>4. ASSUME NEW i \in DOMAIN unit', unit'[i].kind = "use", unit'[i].seen
      PROVE  found'[i] = Meant(i, unit[i].name)'
  <2>1. CASE i \in 1..len
    <3>1. found[i] = Meant(i, unit[i].name)
      BY <1>1, <1>4, <2>1 DEF TextInv, UsesMeant
    <3>2. Meant(i, unit[i].name)' = Meant(i, unit[i].name)
      <4> PICK n : n = unit[i].name
        OBVIOUS
      <4>1. n = unit'[i].name /\ i \in 1..len + 1
        BY <1>1, <2>1
      <4>2. Meant(i, unit[i].name)' = Meant(i, n)'
        BY <4>1
      <4>3. QED
        BY <1>3, <4>1, <4>2
    <3>3. QED
      BY <1>2, <2>1, <3>1, <3>2
  <2>2. CASE i = len + 1
    <3>1. Meant(i, unit[i].name)' = Meant(i, e.name)
      BY <1>1, <1>3, <1>4, <2>2
    <3>2. QED
      BY <1>1, <1>2, <1>4, <2>2, <3>1
  <2>3. i \in 1..len \/ i = len + 1
    BY <1>1
  <2>4. QED
    BY <2>1, <2>2, <2>3
<1>5. QED
  BY <1>1, <1>2, <1>4 DEF UsesMeant

-----------------------------------------------------------------------------
(* The steps.                                                              *)

AllShow(k) == \A l \in DOMAIN identifiers, n \in Names : Shows(l, n, k)

LEMMA TextScopes ==
  ASSUME ScopeInv, TextInv, phase = "sema"
  PROVE  /\ TableTypes /\ UnitInv /\ Placed
         /\ \E len, top \in Nat :
              /\ len = Len(unit) /\ Here = len + 1 /\ top = Len(identifiers)
              /\ depth = Nesting(len) /\ Nesting(len) \in Nat
              /\ level = 0 => top = 1 /\ Nesting(len) = 0
              /\ level > 0 => top = Nesting(len) + 2
              /\ AllShow(len)
<1>1. TableTypes /\ UnitInv /\ WalkInv
  BY DEF ScopeInv
<1>2. Len(unit) \in Nat /\ Len(identifiers) \in Nat
  BY <1>1, ScopesAre DEF UnitInv
<1>3. PICK len, top \in Nat : len = Len(unit) /\ top = Len(identifiers)
  BY <1>2
<1>4. level = top - 1
  BY <1>1, <1>3 DEF TableTypes
<1>5. depth \in Nat /\ depth = (IF level = 0 THEN 0 ELSE level - 1) /\ Here = len + 1
  BY <1>1, <1>3 DEF WalkInv, Here
<1>6. Placed /\ depth = Nesting(len) /\ AllShow(len)
  BY <1>3 DEF TextInv, AllShow
<1>7. /\ level = 0 => top = 1 /\ depth = 0
      /\ level > 0 => top = depth + 2
  BY <1>4, <1>5
<1>8. /\ depth = Nesting(len) /\ Nesting(len) \in Nat
      /\ level = 0 => top = 1 /\ Nesting(len) = 0
      /\ level > 0 => top = Nesting(len) + 2
  BY <1>5, <1>6, <1>7
<1>9. QED
  BY <1>1, <1>3, <1>5, <1>6, <1>8

LEMMA PlacedNext ==
  ASSUME UnitInv, Placed, NEW e \in EventType, unit' = Append(unit, e),
         NEW len \in Nat, len = Len(unit),
         e.kind = "function" => Nesting(len) = 0,
         e.kind = "declare" /\ e.seen => Nesting(len) >= 1
  PROVE  Placed' /\ Nesting(Len(unit))' = Nesting(len) + Step(e)
<1>1. /\ \A k \in 0..len : Nesting(k)' = Nesting(k) /\ Nesting(k) \in Int
      /\ Nesting(len + 1)' = Nesting(len) + Step(e)
      /\ DOMAIN unit = 1..len /\ DOMAIN unit' = 1..len + 1 /\ Len(unit') = len + 1
      /\ (\A j \in 1..len : unit'[j] = unit[j]) /\ unit'[len + 1] = e
  BY NestingNext
<1>2. e.kind \in {"function", "declare"} => Nesting(len + 1)' = Nesting(len)
  BY <1>1 DEF Step
<1>3. ASSUME NEW j \in DOMAIN unit'
      PROVE  /\ unit'[j].kind = "function" => Nesting(j)' = 0
             /\ unit'[j].kind = "declare" /\ unit'[j].seen => Nesting(j)' >= 1
  <2>1. CASE j \in 1..len
    <3>1. unit'[j] = unit[j] /\ Nesting(j)' = Nesting(j) /\ j \in DOMAIN unit
      BY <1>1, <2>1
    <3>2. QED
      BY <3>1 DEF Placed
  <2>2. CASE j = len + 1
    BY <1>1, <1>2, <2>2
  <2>3. j \in 1..len \/ j = len + 1
    BY <1>1
  <2>4. QED
    BY <2>1, <2>2, <2>3
<1>4. Nesting(Len(unit))' = Nesting(len + 1)'
  BY <1>1
<1>5. QED
  BY <1>1, <1>3, <1>4 DEF Placed

LEMMA SemaFunctionText ==
  ASSUME ScopeInv, TextInv, NEW n \in Names, SemaFunction(n)
  PROVE  TextInv'
<1> DEFINE e == Event("function", n, TRUE)
<1>1. /\ phase = "sema" /\ level = 0 /\ AddFunction(n, Here) /\ UNCHANGED <<phase, depth>>
      /\ unit' = Append(unit, e) /\ found' = Append(found, Nowhere)
  BY DEF SemaFunction, Record
<1>2. e \in EventType /\ e.kind = "function" /\ e.name = n /\ e.seen /\ Nowhere \in Nat
  BY DEF Event, EventType, Kinds, Nowhere
<1> HIDE DEF e
<1>a. TableTypes /\ UnitInv /\ Placed
  BY <1>1, TextScopes
<1>b. PICK len, top \in Nat :
         /\ len = Len(unit) /\ Here = len + 1 /\ top = Len(identifiers)
         /\ depth = Nesting(len) /\ Nesting(len) \in Nat
         /\ level = 0 => top = 1 /\ Nesting(len) = 0
         /\ level > 0 => top = Nesting(len) + 2
         /\ AllShow(len)
  BY <1>1, TextScopes
<1>c. DOMAIN identifiers = 1..top /\ top > 0
  BY <1>a, <1>b, ScopesAre DEF TableTypes
<1>3. top = 1 /\ Nesting(len) = 0 /\ DOMAIN identifiers = 1..1 /\ 1 \in DOMAIN identifiers
  BY <1>1, <1>b, <1>c
<1>4. found' \in Seq(Nat) /\ Len(found') = Len(unit') /\ UsesMeant'
  BY <1>1, <1>2, <1>a, <1>b, RecordMeant
<1>5. Placed' /\ Nesting(Len(unit))' = Nesting(len) + Step(e) /\ Step(e) = 0
  BY <1>1, <1>2, <1>3, <1>a, <1>b, PlacedNext DEF Step
<1>6. /\ Create(1, "SK_Function", n, "none", len + 1) /\ level' = level /\ "none" \in StorageClasses
  BY <1>1, <1>b DEF AddFunction, StorageClasses
<1>7. /\ DOMAIN identifiers' = DOMAIN identifiers
      /\ Sees(1, n)' = NewSymbol /\ NewSymbol # NoSymbol /\ NewSymbol \in Ids'
      /\ symbols'[NewSymbol].by = len + 1
      /\ \A s \in Ids : symbols'[s] = symbols[s] /\ s \in Ids'
      /\ \A l \in DOMAIN identifiers, m \in Names : l # 1 \/ m # n => Sees(l, m)' = Sees(l, m)
  BY <1>3, <1>6, <1>a, CreateSees
<1>8. ASSUME NEW l \in DOMAIN identifiers', NEW m \in Names PROVE Shows(l, m, len + 1)'
  <2>1. l = 1 /\ l \in DOMAIN identifiers
    BY <1>3, <1>7
  <2>2. CASE m = n
    BY <1>1, <1>2, <1>7, <1>a, <1>b, <2>1, <2>2, ShowsDeclared
  <2>3. CASE m # n
    <3>1. Sees(l, m)' = Sees(l, m) /\ Shows(l, m, len) /\ l \in Nat
      BY <1>3, <1>7, <1>b, <2>1, <2>3 DEF AllShow
    <3>2. QED
      BY <1>1, <1>2, <1>7, <1>a, <1>b, <2>1, <2>3, <3>1, ShowsKept
  <2>4. QED
    BY <2>2, <2>3
<1>9. Len(unit') = len + 1
  BY <1>1, <1>a, <1>b DEF UnitInv
<1>10. depth' = Nesting(Len(unit))'
  <2>1. Nesting(len) + Step(e) = Nesting(len)
    BY <1>3, <1>5
  <2>2. QED
    BY <1>1, <1>5, <1>b, <2>1
<1>11. QED
  BY <1>4, <1>5, <1>8, <1>9, <1>10 DEF TextInv

LEMMA SemaDeclareText ==
  ASSUME ScopeInv, TextInv, NEW n \in Names, SemaDeclare(n)
  PROVE  TextInv'
<1> DEFINE e == Event("declare", n, TRUE)
<1>1. /\ phase = "sema" /\ level > 0 /\ depth > 0 /\ AddVariable(n, "none", Here)
      /\ UNCHANGED <<phase, depth>>
      /\ unit' = Append(unit, e) /\ found' = Append(found, Nowhere)
  BY DEF SemaDeclare, Opened, InFunction, Record
<1>2. e \in EventType /\ e.kind = "declare" /\ e.name = n /\ e.seen /\ Nowhere \in Nat
  BY DEF Event, EventType, Kinds, Nowhere
<1> HIDE DEF e
<1>a. TableTypes /\ UnitInv /\ Placed
  BY <1>1, TextScopes
<1>b. PICK len, top \in Nat :
         /\ len = Len(unit) /\ Here = len + 1 /\ top = Len(identifiers)
         /\ depth = Nesting(len) /\ Nesting(len) \in Nat
         /\ level = 0 => top = 1 /\ Nesting(len) = 0
         /\ level > 0 => top = Nesting(len) + 2
         /\ AllShow(len)
  BY <1>1, TextScopes
<1>c. DOMAIN identifiers = 1..top /\ top > 0
  BY <1>a, <1>b, ScopesAre DEF TableTypes
<1>3. /\ top = Nesting(len) + 2 /\ Nesting(len) \in Nat /\ Nesting(len) >= 1
      /\ DOMAIN identifiers = 1..top /\ top \in DOMAIN identifiers
  BY <1>1, <1>b, <1>c
<1>4. found' \in Seq(Nat) /\ Len(found') = Len(unit') /\ UsesMeant'
  BY <1>1, <1>2, <1>a, <1>b, RecordMeant
<1>5. Placed' /\ Nesting(Len(unit))' = Nesting(len) + Step(e) /\ Step(e) = 0
  BY <1>1, <1>2, <1>3, <1>a, <1>b, PlacedNext DEF Step
<1>6. /\ Create(top, "SK_Variable", n, "none", len + 1) /\ level' = level /\ "none" \in StorageClasses
  BY <1>1, <1>b DEF AddVariable, StorageClasses
<1>7. /\ DOMAIN identifiers' = DOMAIN identifiers
      /\ Sees(top, n)' = NewSymbol /\ NewSymbol # NoSymbol /\ NewSymbol \in Ids'
      /\ symbols'[NewSymbol].by = len + 1
      /\ \A s \in Ids : symbols'[s] = symbols[s] /\ s \in Ids'
      /\ \A l \in DOMAIN identifiers, m \in Names : l # top \/ m # n => Sees(l, m)' = Sees(l, m)
  BY <1>3, <1>6, <1>a, CreateSees
<1>8. ASSUME NEW l \in DOMAIN identifiers', NEW m \in Names PROVE Shows(l, m, len + 1)'
  <2>1. l \in DOMAIN identifiers /\ l \in Nat /\ Nesting(len) + Step(e) + 2 >= l
    BY <1>3, <1>5, <1>7
  <2>2. CASE m = n /\ l = top
    BY <1>1, <1>2, <1>3, <1>7, <1>a, <1>b, <2>1, <2>2, ShowsDeclared
  <2>3. CASE m # n \/ l # top
    <3>1. Sees(l, m)' = Sees(l, m) /\ Shows(l, m, len)
      BY <1>7, <1>b, <2>1, <2>3 DEF AllShow
    <3>2. e.seen /\ e.name = m /\ e.kind = "declare" => l # Nesting(len) + 2
      BY <1>2, <1>3, <2>3
    <3>3. QED
      BY <1>1, <1>2, <1>7, <1>a, <1>b, <2>1, <3>1, <3>2, ShowsKept
  <2>4. QED
    BY <2>2, <2>3
<1>9. Len(unit') = len + 1
  BY <1>1, <1>a, <1>b DEF UnitInv
<1>10. depth' = Nesting(Len(unit))'
  <2>1. Nesting(len) + Step(e) = Nesting(len)
    BY <1>3, <1>5
  <2>2. QED
    BY <1>1, <1>5, <1>b, <2>1
<1>11. QED
  BY <1>4, <1>5, <1>8, <1>9, <1>10 DEF TextInv

\* A use, or an event the checker does not see, leaves the table alone.
LEMMA SemaUseText ==
  ASSUME ScopeInv, TextInv, NEW n \in Names, NEW k \in {"declare", "use"},
         SemaUse(n) \/ SemaUnseen(k, n)
  PROVE  TextInv'
<1>1. /\ phase = "sema" /\ level > 0 /\ depth > 0
      /\ UNCHANGED <<symbols, identifiers, phase, depth>>
  BY DEF SemaUse, SemaUnseen, Opened, InFunction, Record, tableVars
<1>2. PICK e \in EventType, place \in Nat :
         /\ unit' = Append(unit, e) /\ found' = Append(found, place)
         /\ e.kind = "use" /\ e.seen => e.name = n /\ place = PlaceOf(LookupID(n))
         /\ e.kind # "function" /\ ~(e.kind = "declare" /\ e.seen) /\ Step(e) = 0
  <2>1. /\ Event("use", n, TRUE) \in EventType /\ Event("use", n, TRUE).kind = "use"
        /\ Event("use", n, TRUE).name = n /\ Step(Event("use", n, TRUE)) = 0
        /\ Event(k, n, FALSE) \in EventType /\ ~Event(k, n, FALSE).seen
        /\ Event(k, n, FALSE).kind # "function" /\ Step(Event(k, n, FALSE)) = 0
    BY DEF Event, EventType, Kinds, Step
  <2>2. Nowhere \in Nat /\ PlaceOf(LookupID(n)) \in Nat
    <3>1. LookupID(n) = NoSymbol \/ LookupID(n) \in Ids
      <4>1. TableTypes
        BY DEF ScopeInv
      <4>2. QED
        BY <4>1, LookupIs, SeesIs
    <3>2. \A s \in Ids : symbols[s].by \in Nat
      <4>1. symbols \in Seq(Symbols)
        BY DEF ScopeInv, TableTypes
      <4>2. \A s \in Ids : symbols[s] \in Symbols
        BY <4>1 DEF Ids
      <4>3. QED
        BY <4>2 DEF Symbols
    <3>3. QED
      BY <3>1, <3>2 DEF PlaceOf, Nowhere
  <2>3. CASE SemaUse(n)
    <3>1. unit' = Append(unit, Event("use", n, TRUE)) /\ found' = Append(found, PlaceOf(LookupID(n)))
      BY <2>3 DEF SemaUse, Record
    <3>2. QED
      BY <2>1, <2>2, <3>1
  <2>4. CASE SemaUnseen(k, n)
    <3>1. unit' = Append(unit, Event(k, n, FALSE)) /\ found' = Append(found, Nowhere)
      BY <2>4 DEF SemaUnseen, Record
    <3>2. QED
      BY <2>1, <2>2, <3>1
  <2>5. QED
    BY <2>3, <2>4
<1>a. TableTypes /\ UnitInv /\ Placed
  BY <1>1, TextScopes
<1>b. PICK len, top \in Nat :
         /\ len = Len(unit) /\ Here = len + 1 /\ top = Len(identifiers)
         /\ depth = Nesting(len) /\ Nesting(len) \in Nat
         /\ level = 0 => top = 1 /\ Nesting(len) = 0
         /\ level > 0 => top = Nesting(len) + 2
         /\ AllShow(len)
  BY <1>1, TextScopes
<1>c. DOMAIN identifiers = 1..top /\ top > 0
  BY <1>a, <1>b, ScopesAre DEF TableTypes
<1>3. /\ top = Nesting(len) + 2 /\ Nesting(len) \in Nat
      /\ DOMAIN identifiers = 1..top
  BY <1>1, <1>b, <1>c
<1>4. PlaceOf(LookupID(n)) = Meant(len + 1, n)
  <2>1. Len(identifiers) = Nesting(len) + 2
    BY <1>3, <1>b
  <2>2. \A l \in DOMAIN identifiers, m \in Names : Shows(l, m, len)
    BY <1>b DEF AllShow
  <2>3. QED
    BY <1>a, <1>b, <2>1, <2>2, FindsMeant
<1>5. found' \in Seq(Nat) /\ Len(found') = Len(unit') /\ UsesMeant'
  BY <1>2, <1>4, <1>a, <1>b, RecordMeant
<1>6. Placed' /\ Nesting(Len(unit))' = Nesting(len) + Step(e)
  BY <1>2, <1>a, <1>b, PlacedNext
<1>7. \A s \in Ids : symbols'[s] = symbols[s] /\ s \in Ids'
  BY <1>1 DEF Ids
<1>8. ASSUME NEW l \in DOMAIN identifiers', NEW m \in Names PROVE Shows(l, m, len + 1)'
  <2>1. l \in DOMAIN identifiers /\ l \in Nat /\ Nesting(len) + Step(e) + 2 >= l
    BY <1>1, <1>2, <1>3
  <2>2. Sees(l, m)' = Sees(l, m) /\ Shows(l, m, len)
    BY <1>1, <1>b, <2>1, SameSees DEF AllShow
  <2>3. QED
    BY <1>2, <1>7, <1>a, <1>b, <2>1, <2>2, ShowsKept
<1>9. Len(unit') = len + 1
  BY <1>2, <1>a, <1>b DEF UnitInv
<1>10. depth' = Nesting(Len(unit))'
  <2>1. Nesting(len) + Step(e) = Nesting(len)
    BY <1>2, <1>3
  <2>2. QED
    BY <1>1, <1>6, <1>b, <2>1
<1>11. QED
  BY <1>5, <1>6, <1>8, <1>9, <1>10 DEF TextInv

LEMMA SemaCompoundText ==
  ASSUME ScopeInv, TextInv, SemaCompound
  PROVE  TextInv'
<1> DEFINE e == Event(IF depth = 0 THEN "body" ELSE "open", NoName, TRUE)
<1>1. /\ phase = "sema" /\ level > 0 /\ EnterScope /\ phase' = phase /\ depth' = depth + 1
      /\ unit' = Append(unit, e) /\ found' = Append(found, Nowhere)
  BY DEF SemaCompound, InFunction, Record
<1>2. e \in EventType /\ e.kind \in {"body", "open"} /\ Nowhere \in Nat
  BY DEF Event, EventType, Kinds, Nowhere
<1> HIDE DEF e
<1>a. TableTypes /\ UnitInv /\ Placed
  BY <1>1, TextScopes
<1>b. PICK len, top \in Nat :
         /\ len = Len(unit) /\ Here = len + 1 /\ top = Len(identifiers)
         /\ depth = Nesting(len) /\ Nesting(len) \in Nat
         /\ level = 0 => top = 1 /\ Nesting(len) = 0
         /\ level > 0 => top = Nesting(len) + 2
         /\ AllShow(len)
  BY <1>1, TextScopes
<1>c. DOMAIN identifiers = 1..top /\ top > 0
  BY <1>a, <1>b, ScopesAre DEF TableTypes
<1>3. /\ top = Nesting(len) + 2 /\ Nesting(len) \in Nat
      /\ DOMAIN identifiers = 1..top
  BY <1>1, <1>b, <1>c
<1>4. e.kind # "function" /\ e.kind # "declare" /\ e.kind # "use" /\ Step(e) = 1
  BY <1>2 DEF Step
<1>5. found' \in Seq(Nat) /\ Len(found') = Len(unit') /\ UsesMeant'
  BY <1>1, <1>2, <1>4, <1>a, <1>b, RecordMeant
<1>6. Placed' /\ Nesting(Len(unit))' = Nesting(len) + Step(e)
  BY <1>1, <1>2, <1>4, <1>a, <1>b, PlacedNext
<1>7. /\ DOMAIN identifiers' = 1..top + 1 /\ symbols' = symbols
      /\ \A n \in Names : /\ Sees(top + 1, n)' = NoSymbol
                          /\ \A l \in 1..top + 1 : l # top + 1 => Sees(l, n)' = Sees(l, n)
  <2>1. top + 1 \in Nat /\ top + 1 = Len(identifiers) + 1
    BY <1>b
  <2>2. QED
    BY <1>1, <1>a, <2>1, EnterSees
<1>8. \A s \in Ids : symbols'[s] = symbols[s] /\ s \in Ids'
  BY <1>7 DEF Ids
<1>9. ASSUME NEW l \in DOMAIN identifiers', NEW m \in Names PROVE Shows(l, m, len + 1)'
  <2>1. CASE l = top + 1
    <3>1. l = Nesting(len) + 3
      BY <1>3, <2>1
    <3>2. Sees(l, m)' = NoSymbol
      BY <1>7, <2>1
    <3>3. QED
      BY <1>1, <1>2, <1>3, <1>a, <1>b, <3>1, <3>2, ShowsOpened
  <2>2. CASE l # top + 1
    <3>1. l \in 1..top + 1
      BY <1>7
    <3>2. l \in DOMAIN identifiers /\ l \in Nat /\ Nesting(len) + Step(e) + 2 >= l
      BY <1>3, <1>4, <2>2, <3>1
    <3>3. Sees(l, m)' = Sees(l, m)
      BY <1>7, <2>2, <3>1
    <3>4. Shows(l, m, len)
      BY <1>b, <3>2 DEF AllShow
    <3>5. QED
      BY <1>1, <1>2, <1>4, <1>8, <1>a, <1>b, <3>2, <3>3, <3>4, ShowsKept
  <2>3. QED
    BY <2>1, <2>2
<1>10. Len(unit') = len + 1
  BY <1>1, <1>a, <1>b DEF UnitInv
<1>11. depth' = Nesting(Len(unit))'
  BY <1>1, <1>4, <1>6, <1>b
<1>12. QED
  BY <1>5, <1>6, <1>9, <1>10, <1>11 DEF TextInv

\* The scope that is closed takes its declarations along.
LEMMA SemaEndText ==
  ASSUME ScopeInv, TextInv, SemaEndCompound \/ SemaEndFunction
  PROVE  TextInv'
<1>1. PICK e \in EventType :
         /\ phase = "sema" /\ level > 0 /\ ExitScope /\ phase' = phase
         /\ unit' = Append(unit, e) /\ found' = Append(found, Nowhere) /\ Nowhere \in Nat
         /\ e.kind \in {"close", "end"} /\ depth' = depth + Step(e)
         /\ e.kind = "end" => depth = 0
  <2>1. /\ Event("close", NoName, TRUE) \in EventType /\ Event("close", NoName, TRUE).kind = "close"
        /\ Event("end", NoName, TRUE) \in EventType /\ Event("end", NoName, TRUE).kind = "end"
        /\ Nowhere \in Nat
    BY DEF Event, EventType, Kinds, Nowhere
  <2>2. Step(Event("close", NoName, TRUE)) = -1 /\ Step(Event("end", NoName, TRUE)) = 0
    BY DEF Step, Event
  <2>3. depth \in Nat
    BY DEF ScopeInv, WalkInv
  <2>4. CASE SemaEndCompound
    <3>1. /\ phase = "sema" /\ level > 0 /\ ExitScope /\ phase' = phase /\ depth' = depth - 1
          /\ unit' = Append(unit, Event("close", NoName, TRUE)) /\ found' = Append(found, Nowhere)
      BY <2>4 DEF SemaEndCompound, Opened, InFunction, Record
    <3>2. depth' = depth + Step(Event("close", NoName, TRUE))
      BY <2>2, <2>3, <3>1
    <3>3. QED
      BY <2>1, <3>1, <3>2
  <2>5. CASE SemaEndFunction
    <3>1. /\ phase = "sema" /\ level > 0 /\ ExitScope /\ phase' = phase /\ depth' = depth /\ depth = 0
          /\ unit' = Append(unit, Event("end", NoName, TRUE)) /\ found' = Append(found, Nowhere)
      BY <2>5 DEF SemaEndFunction, InFunction, Record
    <3>2. depth' = depth + 0
      BY <2>3, <3>1
    <3>3. depth' = depth + Step(Event("end", NoName, TRUE))
      BY <2>2, <3>2
    <3>4. QED
      BY <2>1, <3>1, <3>3
  <2>6. QED
    BY <2>4, <2>5
<1>a. TableTypes /\ UnitInv /\ Placed
  BY <1>1, TextScopes
<1>b. PICK len, top \in Nat :
         /\ len = Len(unit) /\ Here = len + 1 /\ top = Len(identifiers)
         /\ depth = Nesting(len) /\ Nesting(len) \in Nat
         /\ level = 0 => top = 1 /\ Nesting(len) = 0
         /\ level > 0 => top = Nesting(len) + 2
         /\ AllShow(len)
  BY <1>1, TextScopes
<1>c. DOMAIN identifiers = 1..top /\ top > 0
  BY <1>a, <1>b, ScopesAre DEF TableTypes
<1>3. /\ top = Nesting(len) + 2 /\ Nesting(len) \in Nat
      /\ DOMAIN identifiers = 1..top
  BY <1>1, <1>b, <1>c
<1>4. /\ e.kind # "function" /\ e.kind # "declare" /\ e.kind # "use"
      /\ Step(e) \in {0, -1}
  BY <1>1 DEF Step
<1>5. found' \in Seq(Nat) /\ Len(found') = Len(unit') /\ UsesMeant'
  BY <1>1, <1>4, <1>a, <1>b, RecordMeant
<1>6. Placed' /\ Nesting(Len(unit))' = Nesting(len) + Step(e)
  BY <1>1, <1>4, <1>a, <1>b, PlacedNext
<1>7. /\ Len(identifiers') = Len(identifiers) - 1 /\ symbols' = symbols
      /\ DOMAIN identifiers' \subseteq DOMAIN identifiers
      /\ \A n \in Names : \A l \in DOMAIN identifiers' : Sees(l, n)' = Sees(l, n)
  BY <1>1, <1>a, ExitSees
<1>8. DOMAIN identifiers' = 1..top - 1
  <2>1. TableTypes'
    BY <1>1, <1>a, ExitView
  <2>2. DOMAIN identifiers' = 1..Len(identifiers')
    BY <2>1 DEF TableTypes
  <2>3. QED
    BY <1>7, <1>b, <2>2
<1>9. \A s \in Ids : symbols'[s] = symbols[s] /\ s \in Ids'
  BY <1>7 DEF Ids
<1>10. ASSUME NEW l \in DOMAIN identifiers', NEW m \in Names PROVE Shows(l, m, len + 1)'
  <2>1. Sees(l, m)' = Sees(l, m) /\ l \in DOMAIN identifiers
    BY <1>7
  <2>2. Shows(l, m, len)
    BY <1>b, <2>1 DEF AllShow
  <2>3. l \in Nat /\ Nesting(len) + Step(e) + 2 >= l
    BY <1>3, <1>4, <1>8
  <2>4. QED
    BY <1>1, <1>4, <1>9, <1>a, <1>b, <2>1, <2>2, <2>3, ShowsKept
<1>11. Len(unit') = len + 1
  BY <1>1, <1>a, <1>b DEF UnitInv
<1>12. depth' = Nesting(Len(unit))'
  BY <1>1, <1>6, <1>b
<1>13. QED
  BY <1>1, <1>5, <1>6, <1>10, <1>11, <1>12 DEF TextInv

\* The scope of a function is opened behind its event and shows nothing.
LEMMA SemaEnterText ==
  ASSUME ScopeInv, TextInv, SemaEnterFunction
  PROVE  TextInv'
<1>1. phase = "sema" /\ level = 0 /\ EnterScope /\ UNCHANGED <<phase, unit, depth, found>>
  BY DEF SemaEnterFunction, walkVars
<1>a. TableTypes /\ UnitInv /\ Placed
  BY <1>1, TextScopes
<1>b. PICK len, top \in Nat :
         /\ len = Len(unit) /\ Here = len + 1 /\ top = Len(identifiers)
         /\ depth = Nesting(len) /\ Nesting(len) \in Nat
         /\ level = 0 => top = 1 /\ Nesting(len) = 0
         /\ level > 0 => top = Nesting(len) + 2
         /\ AllShow(len)
  BY <1>1, TextScopes
<1>c. DOMAIN identifiers = 1..top /\ top > 0
  BY <1>a, <1>b, ScopesAre DEF TableTypes
<1>2. top = 1 /\ DOMAIN identifiers = 1..1 /\ Len(identifiers) = 1
  <2>1. top = 1
    BY <1>1, <1>b
  <2>2. QED
    BY <1>b, <1>c, <2>1
<1>3. /\ DOMAIN identifiers' = 1..2 /\ symbols' = symbols
      /\ \A n \in Names : /\ Sees(2, n)' = NoSymbol
                          /\ \A l \in 1..2 : l # 2 => Sees(l, n)' = Sees(l, n)
  <2>1. 2 \in Nat /\ 2 = Len(identifiers) + 1
    BY <1>2
  <2>2. QED
    BY <1>1, <1>a, <2>1, EnterSees
<1>4. /\ \A k : Nesting(k)' = Nesting(k)
      /\ \A j : ScopeAt(j)' = ScopeAt(j)
      /\ \A j, n : Known(j, n, len)' <=> Known(j, n, len)
  BY <1>1 DEF Nesting, ScopeAt, Known
<1>5. ASSUME NEW l \in DOMAIN identifiers', NEW m \in Names PROVE Shows(l, m, len)'
  <2>1. CASE l = 1
    <3>1. Sees(l, m)' = Sees(l, m) /\ Shows(l, m, len)
      BY <1>2, <1>3, <1>b, <2>1 DEF AllShow
    <3>2. Ids' = Ids
      BY <1>3 DEF Ids
    <3>3. QED
      BY <1>3, <1>4, <3>1, <3>2 DEF Shows
  <2>2. CASE l = 2
    <3>1. ASSUME NEW j \in 1..len, Known(j, m, len) PROVE ScopeAt(j) # 2
      <4>1. j \in DOMAIN unit /\ j \in 0..Len(unit)
        BY <1>a, <1>b DEF UnitInv
      <4>2. CASE unit[j].kind = "function"
        BY <4>2 DEF ScopeAt
      <4>3. CASE unit[j].kind # "function"
        <5>1. Nesting(j) >= 1 /\ Nesting(j) \in Int
          BY <1>a, <3>1, <4>1, <4>3, NestingIs DEF Known, Placed
        <5>2. QED
          BY <4>3, <5>1 DEF ScopeAt
      <4>4. QED
        BY <4>2, <4>3
    <3>2. QED
      BY <1>3, <1>4, <2>2, <3>1 DEF Shows
  <2>3. QED
    BY <1>3, <2>1, <2>2
<1>6. Placed'
  BY <1>1, <1>4, <1>a DEF Placed
<1>7. UsesMeant'
  <2>1. \A i, n : Meant(i, n)' = Meant(i, n)
    BY <1>1 DEF Meant, KnownAt, Nesting
  <2>2. QED
    BY <1>1, <2>1 DEF TextInv, UsesMeant
<1>8. depth' = Nesting(Len(unit))'
  BY <1>1, <1>4, <1>b
<1>9. Len(unit') = len
  BY <1>1, <1>b
<1>10. QED
  BY <1>1, <1>5, <1>6, <1>7, <1>8, <1>9 DEF TextInv

\* Behind the checker, what was found and the text stay.
LEMMA IdleText ==
  ASSUME TextInv, UNCHANGED <<unit, found>>, phase' # "sema" \/ UNCHANGED allVars
  PROVE  TextInv'
<1>1. UsesMeant'
  <2>1. \A i, n : Meant(i, n)' = Meant(i, n)
    BY DEF Meant, KnownAt, Nesting
  <2>2. QED
    BY <2>1 DEF TextInv, UsesMeant
<1>2. UNCHANGED allVars /\ phase = "sema" =>
        /\ depth' = Nesting(Len(unit))' /\ Placed'
        /\ \A l \in DOMAIN identifiers', n \in Names : Shows(l, n, Len(unit))'
  <2> SUFFICES ASSUME UNCHANGED <<unit, identifiers, symbols, depth>>, phase = "sema"
               PROVE  /\ depth' = Nesting(Len(unit))' /\ Placed'
                      /\ \A l \in DOMAIN identifiers', n \in Names : Shows(l, n, Len(unit))'
    BY DEF allVars
  <2>1. \A k : Nesting(k)' = Nesting(k)
    BY DEF Nesting
  <2>2. \A j : ScopeAt(j)' = ScopeAt(j)
    BY <2>1 DEF ScopeAt
  <2>3. \A j, n, k : Known(j, n, k)' <=> Known(j, n, k)
    BY <2>1 DEF Known
  <2>4. \A l, n : Sees(l, n)' = Sees(l, n)
    BY DEF Sees, InScope, InChain
  <2>5. Ids' = Ids
    BY DEF Ids
  <2>6. \A l, n, k : Shows(l, n, k) => Shows(l, n, k)'
    BY <2>2, <2>3, <2>4, <2>5 DEF Shows
  <2>7. Placed'
    BY <2>1 DEF TextInv, Placed
  <2>8. QED
    BY <2>1, <2>6, <2>7 DEF TextInv
<1>3. UNCHANGED allVars => phase' = phase
  BY DEF allVars
<1>4. QED
  BY <1>1, <1>2, <1>3 DEF TextInv

LEMMA TextStep == ScopeInv /\ TextInv /\ [ScopingNext]_allVars => TextInv'
<1> SUFFICES ASSUME ScopeInv, TextInv, [ScopingNext]_allVars PROVE TextInv'
  OBVIOUS
<1>1. ASSUME NEW n \in Names, SemaFunction(n) \/ SemaDeclare(n) \/ SemaUse(n) PROVE TextInv'
  <2>1. "use" \in {"declare", "use"}
    OBVIOUS
  <2>2. QED
    BY <1>1, <2>1, SemaFunctionText, SemaDeclareText, SemaUseText
<1>2. ASSUME NEW n \in Names, NEW k \in {"declare", "use"}, SemaUnseen(k, n) PROVE TextInv'
  BY <1>2, SemaUseText
<1>3. CASE SemaEnterFunction \/ SemaCompound \/ SemaEndCompound \/ SemaEndFunction
  BY <1>3, SemaEnterText, SemaCompoundText, SemaEndText
<1>4. CASE EndSema
  BY <1>4, IdleText DEF EndSema
<1>5. CASE IR
  <2>1. phase' # "sema" /\ UNCHANGED <<unit, found>>
    BY <1>5 DEF IR, IRFunction, IRCompound, IRDeclare, IRIdentifier, IREndFunction, EndIR, Lowering, Found
  <2>2. QED
    BY <2>1, IdleText
<1>6. CASE Finished \/ UNCHANGED allVars
  BY <1>6, IdleText DEF Finished, allVars
<1>7. QED
  BY <1>1, <1>2, <1>3, <1>4, <1>5, <1>6 DEF ScopingNext, Sema

\* For any names, hash function and unit: the checker finds for a use what C's
\* scope rules, read from the text alone, say the name means there; declarations
\* that hide others or are made again, blocks that were closed and functions that
\* share a bucket make no difference.
THEOREM FindsWhatIsMeant == ScopingSpec => []UsesMeant
<1>1. ScopingInit => TextInv
  <2> SUFFICES ASSUME ScopingInit PROVE TextInv
    OBVIOUS
  <2>1. /\ found = << >> /\ unit = << >> /\ depth = 0 /\ identifiers = <<EmptyScope>>
        /\ DOMAIN unit = {} /\ Len(unit) = 0
    BY DEF ScopingInit, TableInit
  <2>2. Nesting(0) = 0
    BY <2>1, InitScope, NestingIs DEF ScopeInv
  <2>3. ASSUME NEW l \in DOMAIN identifiers, NEW n \in Names PROVE Shows(l, n, 0)
    <3>1. identifiers[l] = EmptyScope /\ Hash[n] \in Buckets
      BY <2>1, HashAssumption
    <3>2. Sees(l, n) = NoSymbol
      BY <3>1 DEF Sees, InScope, InChain, EmptyScope
    <3>3. QED
      BY <3>2 DEF Shows
  <2>4. QED
    BY <2>1, <2>2, <2>3 DEF TextInv, Placed, UsesMeant
<1>2. TextInv => UsesMeant
  BY DEF TextInv
<1>3. QED
  BY <1>1, <1>2, TextStep, ScopeInvariance, PTL DEF ScopingSpec
=============================================================================
