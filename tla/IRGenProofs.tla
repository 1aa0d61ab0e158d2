----------------------------- MODULE IRGenProofs -----------------------------
(***************************************************************************)
(* Theorems about IRGen, for every set of programs: the blocks of a unit   *)
(* are laid out each once with the targets of the jumps among them, and    *)
(* the edges between them are the ways control can go.                     *)
(*                                                                         *)
(* The invariant is about the activation stack as much as about the code:  *)
(* a block that is named anywhere has been started or will be, by exactly  *)
(* one task, and a task that jumps is followed by one that starts a block. *)
(***************************************************************************)
EXTENDS IRGen, FiniteSetTheorems, SequenceTheorems, TLAPS

-----------------------------------------------------------------------------
(* Sequences whose elements have no type that matters.                     *)

IsSeq(s) == \E S : s \in Seq(S)

LEMMA SeqIs ==
  ASSUME NEW s, IsSeq(s)
  PROVE  Len(s) \in Nat /\ DOMAIN s = 1..Len(s) /\ (s = << >> <=> Len(s) = 0)
BY DEF IsSeq

LEMMA EmptyIs ==
  ASSUME NEW s, s = << >>
  PROVE  IsSeq(s) /\ Len(s) = 0 /\ DOMAIN s = 1..0
<1>1. s \in Seq(Nat) /\ Len(s) = 0
  OBVIOUS
<1>2. \E S : s \in Seq(S)
  <2>1. WITNESS Nat
  <2>2. QED
    BY <1>1
<1>3. QED
  BY <1>1, <1>2 DEF IsSeq

LEMMA FunctionIs ==
  ASSUME NEW n \in Nat, NEW s, s = [i \in 1..n |-> s[i]]
  PROVE  IsSeq(s) /\ Len(s) = n /\ DOMAIN s = 1..n
<1> DEFINE S == {s[i] : i \in 1..n}
<1>1. s \in [1..n -> S]
  OBVIOUS
<1>2. s \in Seq(S)
  BY <1>1
<1>3. DOMAIN s = 1..Len(s) /\ DOMAIN s = 1..n /\ Len(s) \in Nat
  BY <1>1, <1>2
<1>4. Len(s) = n
  BY <1>3
<1>5. \E Z : s \in Seq(Z)
  <2>1. WITNESS S
  <2>2. QED
    BY <1>2
<1>6. QED
  BY <1>3, <1>4, <1>5 DEF IsSeq

LEMMA AppendIs ==
  ASSUME NEW s, NEW x, IsSeq(s)
  PROVE  /\ IsSeq(Append(s, x)) /\ Len(Append(s, x)) = Len(s) + 1
         /\ \A i \in 1..Len(s) : Append(s, x)[i] = s[i]
         /\ Append(s, x)[Len(s) + 1] = x
<1>1. PICK S : s \in Seq(S)
  BY DEF IsSeq
<1>2. s \in Seq(S \cup {x}) /\ x \in S \cup {x}
  BY <1>1
<1>3. Append(s, x) \in Seq(S \cup {x})
  BY <1>2
<1>4. QED
  BY <1>2, <1>3 DEF IsSeq

LEMMA ConcatIs ==
  ASSUME NEW s, NEW t, IsSeq(s), IsSeq(t)
  PROVE  /\ IsSeq(s \o t) /\ Len(s \o t) = Len(s) + Len(t)
         /\ \A i \in 1..Len(s) : (s \o t)[i] = s[i]
         /\ \A i \in 1..Len(t) : (s \o t)[Len(s) + i] = t[i]
<1>1. PICK S : s \in Seq(S)
  BY DEF IsSeq
<1>2. PICK T : t \in Seq(T)
  BY DEF IsSeq
<1>3. s \in Seq(S \cup T) /\ t \in Seq(S \cup T)
  BY <1>1, <1>2
<1>4. s \o t \in Seq(S \cup T)
  BY <1>3
<1>5. QED
  BY <1>3, <1>4 DEF IsSeq

LEMMA TailIs ==
  ASSUME NEW s, IsSeq(s), s # << >>
  PROVE  /\ IsSeq(Tail(s)) /\ Len(Tail(s)) = Len(s) - 1
         /\ \A i \in 1..Len(s) - 1 : Tail(s)[i] = s[i + 1]
         /\ Head(s) = s[1]
<1>1. PICK S : s \in Seq(S)
  BY DEF IsSeq
<1>2. Tail(s) \in Seq(S)
  BY <1>1
<1>3. QED
  BY <1>1, <1>2 DEF IsSeq

LEMMA ExceptIs ==
  ASSUME NEW s, IsSeq(s), NEW i \in DOMAIN s, NEW x
  PROVE  LET t == [s EXCEPT ![i] = x]
         IN /\ IsSeq(t) /\ Len(t) = Len(s) /\ t[i] = x
            /\ \A j \in DOMAIN s : j # i => t[j] = s[j]
<1>1. PICK S : s \in Seq(S)
  BY DEF IsSeq
<1>2. s \in Seq(S \cup {x})
  BY <1>1
<1>3. [s EXCEPT ![i] = x] \in Seq(S \cup {x})
  BY <1>2
<1>4. QED
  BY <1>2, <1>3 DEF IsSeq

-----------------------------------------------------------------------------
(* Counting.                                                               *)

LEMMA AddOne ==
  ASSUME NEW S, IsFiniteSet(S), NEW x, x \notin S
  PROVE  IsFiniteSet(S \cup {x}) /\ Cardinality(S \cup {x}) = Cardinality(S) + 1
BY FS_AddElement

LEMMA CountIs ==
  ASSUME NEW s, IsSeq(s), NEW c
  PROVE  /\ Count(s, c) \in Nat
         /\ Count(s, c) > 0 <=> c \in Members(s)
<1> DEFINE S == {i \in DOMAIN s : s[i] = c}
<1>1. IsFiniteSet(DOMAIN s)
  BY SeqIs, FS_Interval
<1>2. IsFiniteSet(S)
  BY <1>1, FS_Subset
<1>3. Cardinality(S) \in Nat /\ (Cardinality(S) = 0 <=> S = {})
  BY <1>2, FS_CardinalityType, FS_EmptySet
<1>4. S # {} <=> c \in Members(s)
  BY DEF Members
<1> HIDE DEF S
<1>5. Cardinality(S) > 0 <=> S # {}
  BY <1>3
<1>6. Count(s, c) = Cardinality(S)
  BY DEF Count, S
<1>7. QED
  BY <1>3, <1>4, <1>5, <1>6

LEMMA CountCons ==
  ASSUME NEW s, IsSeq(s), NEW x
  PROVE  /\ IsSeq(<<x>> \o s) /\ Len(<<x>> \o s) = Len(s) + 1
         /\ Members(<<x>> \o s) = Members(s) \cup {x}
         /\ Count(<<x>> \o s, x) = Count(s, x) + 1
         /\ \A c : c # x => Count(<<x>> \o s, c) = Count(s, c)
<1> DEFINE t == <<x>> \o s
<1> SUFFICES ASSUME NEW c
             PROVE  /\ IsSeq(t) /\ Len(t) = Len(s) + 1
                    /\ x = c => Count(t, c) = Count(s, c) + 1
                    /\ x # c => Count(t, c) = Count(s, c)
                    /\ Members(t) = Members(s) \cup {x}
  OBVIOUS
<1> DEFINE S == {i \in DOMAIN s : s[i] = c}
           T == {i \in DOMAIN t : i > 1 /\ t[i] = c}
<1>0. t = <<x>> \o s
  OBVIOUS
<1> HIDE DEF t
<1>1. IsSeq(<<x>>) /\ Len(<<x>>) = 1 /\ <<x>>[1] = x
  <2>1. <<x>> \in Seq({x})
    OBVIOUS
  <2>2. \E Z : <<x>> \in Seq(Z)
    <3>1. WITNESS {x}
    <3>2. QED
      BY <2>1
  <2>3. QED
    BY <2>2 DEF IsSeq
<1>2. /\ IsSeq(t) /\ Len(t) = Len(s) + 1 /\ Len(s) \in Nat
      /\ DOMAIN s = 1..Len(s) /\ DOMAIN t = 1..Len(s) + 1
      /\ t[1] = x /\ \A i \in 1..Len(s) : t[i + 1] = s[i]
  <2>1. /\ IsSeq(t) /\ Len(t) = 1 + Len(s) /\ Len(s) \in Nat
        /\ \A i \in 1..1 : t[i] = <<x>>[i]
        /\ \A i \in 1..Len(s) : t[1 + i] = s[i]
    BY <1>0, <1>1, ConcatIs, SeqIs
  <2>2. QED
    BY <1>1, <2>1, SeqIs
<1>3. IsFiniteSet(S) /\ IsFiniteSet(T)
  <2>1. IsFiniteSet(1..Len(s)) /\ IsFiniteSet(1..Len(s) + 1)
    BY <1>2, FS_Interval
  <2>2. S \subseteq 1..Len(s) /\ T \subseteq 1..Len(s) + 1
    BY <1>2
  <2>3. QED
    BY <2>1, <2>2, FS_Subset
<1>4. Cardinality(S) = Cardinality(T)
  <2> DEFINE f == [i \in S |-> i + 1]
  <2>1. f \in [S -> T]
    BY <1>2
  <2>2. \A i, j \in S : f[i] = f[j] => i = j
    BY <1>2
  <2>3. \A j \in T : \E i \in S : f[i] = j
    <3>1. TAKE j \in T
    <3>2. j - 1 \in 1..Len(s) /\ s[j - 1] = t[(j - 1) + 1] /\ (j - 1) + 1 = j
      BY <1>2
    <3>3. j - 1 \in S /\ f[j - 1] = j
      BY <1>2, <3>2
    <3>4. QED
      BY <3>3
  <2>4. f \in Bijection(S, T)
    BY <2>1, <2>2, <2>3 DEF Bijection, Injection, Surjection, IsInjective
  <2>5. ExistsBijection(S, T)
    BY <2>4 DEF ExistsBijection
  <2>6. QED
    BY <1>3, <2>5, FS_Bijection
<1>5. Cardinality(S) \in Nat
  BY <1>3, FS_CardinalityType
<1>6. Members(t) = Members(s) \cup {x}
  <2>1. ASSUME NEW y \in Members(t) PROVE y \in Members(s) \cup {x}
    <3>1. PICK i \in DOMAIN t : y = t[i]
      BY DEF Members
    <3>2. CASE i = 1
      BY <1>2, <3>1, <3>2
    <3>3. CASE i # 1
      <4>1. i - 1 \in 1..Len(s) /\ (i - 1) + 1 = i
        BY <1>2, <3>3
      <4>2. y = s[i - 1] /\ i - 1 \in DOMAIN s
        BY <1>2, <3>1, <4>1
      <4>3. QED
        BY <4>2 DEF Members
    <3>4. QED
      BY <3>2, <3>3
  <2>2. x \in Members(t)
    BY <1>2 DEF Members
  <2>3. ASSUME NEW y \in Members(s) PROVE y \in Members(t)
    <3>1. PICK i \in DOMAIN s : y = s[i]
      BY DEF Members
    <3>2. i + 1 \in DOMAIN t /\ t[i + 1] = y
      BY <1>2, <3>1
    <3>3. QED
      BY <3>2 DEF Members
  <2>4. QED
    BY <2>1, <2>2, <2>3
<1>7. CASE x = c
  <2>1. {i \in DOMAIN t : t[i] = c} = T \cup {1} /\ 1 \notin T
    BY <1>2, <1>7
  <2>2. Cardinality(T \cup {1}) = Cardinality(T) + 1
    BY <1>3, <2>1, AddOne
  <2>3. Count(t, c) = Count(s, c) + 1
    BY <1>4, <2>1, <2>2 DEF Count
  <2>4. QED
    BY <1>2, <1>6, <1>7, <2>3
<1>8. CASE x # c
  <2>1. {i \in DOMAIN t : t[i] = c} = T
    BY <1>2, <1>8
  <2>2. Count(t, c) = Count(s, c)
    BY <1>4, <2>1 DEF Count
  <2>3. QED
    BY <1>2, <1>6, <1>8, <2>2
<1>9. QED
  BY <1>7, <1>8

-----------------------------------------------------------------------------
(* Blocks, and the ways out of them.                                       *)

OpOf(insts) == IF insts = << >> THEN "NOP" ELSE insts[Len(insts)].op
TargetsIn(insts) == {i \in DOMAIN insts : insts[i].to # NoBlock}
JumpsIn(insts, c) == Cardinality({i \in TargetsIn(insts) : insts[i].to = c})
FallsFrom(k) == k.next # NoBlock /\ OpOf(k.insts) \notin {"JMP", "RET"}

LEMMA OneMoreInst ==
  ASSUME NEW insts, IsSeq(insts), NEW x
  PROVE  LET more == Append(insts, x)
         IN /\ Cardinality(TargetsIn(insts)) \in Nat
            /\ \A c : JumpsIn(insts, c) \in Nat
            /\ OpOf(more) = x.op
            /\ x.to = NoBlock => /\ Cardinality(TargetsIn(more)) = Cardinality(TargetsIn(insts))
                                 /\ \A c : JumpsIn(more, c) = JumpsIn(insts, c)
            /\ x.to # NoBlock => /\ Cardinality(TargetsIn(more)) = Cardinality(TargetsIn(insts)) + 1
                                 /\ JumpsIn(more, x.to) = JumpsIn(insts, x.to) + 1
                                 /\ \A c : c # x.to => JumpsIn(more, c) = JumpsIn(insts, c)
<1> SUFFICES ASSUME NEW more, more = Append(insts, x), NEW c
             PROVE  /\ Cardinality(TargetsIn(insts)) \in Nat
                    /\ JumpsIn(insts, c) \in Nat
                    /\ OpOf(more) = x.op
                    /\ Cardinality(TargetsIn(more)) =
                         IF x.to # NoBlock THEN Cardinality(TargetsIn(insts)) + 1
                                           ELSE Cardinality(TargetsIn(insts))
                    /\ JumpsIn(more, c) =
                         IF x.to # NoBlock /\ x.to = c THEN JumpsIn(insts, c) + 1
                                                       ELSE JumpsIn(insts, c)
  OBVIOUS
<1> DEFINE n == Len(insts)
           T == TargetsIn(insts)
           J == {i \in T : insts[i].to = c}
<1>1. /\ n \in Nat /\ DOMAIN insts = 1..n /\ IsSeq(more)
      /\ Len(more) = n + 1 /\ DOMAIN more = 1..n + 1
      /\ \A i \in 1..n : more[i] = insts[i]
      /\ more[n + 1] = x
  BY AppendIs, SeqIs
<1>2. IsFiniteSet(T) /\ IsFiniteSet(J) /\ n + 1 \notin T /\ n + 1 \notin J
  <2>1. IsFiniteSet(1..n)
    BY <1>1, FS_Interval
  <2>2. T \subseteq 1..n /\ J \subseteq 1..n /\ n + 1 \notin 1..n
    BY <1>1 DEF TargetsIn
  <2>3. QED
    BY <2>1, <2>2, FS_Subset
<1>3. TargetsIn(more) = IF x.to # NoBlock THEN T \cup {n + 1} ELSE T
  BY <1>1 DEF TargetsIn
<1>4. {i \in TargetsIn(more) : more[i].to = c} =
        IF x.to # NoBlock /\ x.to = c THEN J \cup {n + 1} ELSE J
  BY <1>1, <1>3 DEF TargetsIn
<1>5. /\ Cardinality(T) \in Nat /\ Cardinality(J) \in Nat
      /\ Cardinality(T \cup {n + 1}) = Cardinality(T) + 1
      /\ Cardinality(J \cup {n + 1}) = Cardinality(J) + 1
  BY <1>2, AddOne, FS_CardinalityType
<1>6. OpOf(more) = x.op
  <2>1. more # << >>
    BY <1>1, SeqIs
  <2>2. QED
    BY <1>1, <2>1 DEF OpOf
<1> HIDE DEF n, T, J
<1>7. Cardinality(TargetsIn(more)) = IF x.to # NoBlock THEN Cardinality(T) + 1 ELSE Cardinality(T)
  BY <1>3, <1>5
<1>8. JumpsIn(more, c) = IF x.to # NoBlock /\ x.to = c THEN Cardinality(J) + 1 ELSE Cardinality(J)
  BY <1>4, <1>5 DEF JumpsIn
<1>9. QED
  BY <1>2, <1>5, <1>6, <1>7, <1>8 DEF T, J, JumpsIn

LEMMA NoInsts ==
  ASSUME NEW c
  PROVE  /\ OpOf(<< >>) = "NOP" /\ JumpsIn(<< >>, c) = 0
         /\ Cardinality(TargetsIn(<< >>)) = 0 /\ Count(<< >>, c) = 0 /\ Members(<< >>) = {}
<1>1. TargetsIn(<< >>) = {} /\ {i \in DOMAIN << >> : << >>[i] = c} = {} /\ Members(<< >>) = {}
  BY DEF TargetsIn, Members
<1>2. {i \in TargetsIn(<< >>) : << >>[i].to = c} = {}
  BY <1>1
<1>3. QED
  BY <1>1, <1>2, FS_EmptySet DEF OpOf, JumpsIn, Count

IsBlock(k) ==
  /\ k = [insts |-> k.insts, succs |-> k.succs, preds |-> k.preds, next |-> k.next]
  /\ IsSeq(k.insts) /\ IsSeq(k.succs) /\ IsSeq(k.preds) /\ k.next \in Nat
Blocks(bs) == IsSeq(bs) /\ \A b \in 1..Len(bs) : IsBlock(bs[b])

LEMMA FieldIs ==
  ASSUME NEW k, NEW x,
         k = [insts |-> k.insts, succs |-> k.succs, preds |-> k.preds, next |-> k.next]
  PROVE  /\ [k EXCEPT !.insts = x] = [insts |-> x, succs |-> k.succs, preds |-> k.preds, next |-> k.next]
         /\ [k EXCEPT !.succs = x] = [insts |-> k.insts, succs |-> x, preds |-> k.preds, next |-> k.next]
         /\ [k EXCEPT !.preds = x] = [insts |-> k.insts, succs |-> k.succs, preds |-> x, next |-> k.next]
         /\ [k EXCEPT !.next = x] = [insts |-> k.insts, succs |-> k.succs, preds |-> k.preds, next |-> x]
OBVIOUS

WithNext(bs, b, x) == [bs EXCEPT ![b].next = x]
Created(bs, n) == bs \o [i \in 1..n |-> NewBlock]

LEMMA WithInstIs ==
  ASSUME NEW bs, Blocks(bs), NEW b \in 1..Len(bs), NEW x
  PROVE  LET cs == WithInst(bs, b, x)
         IN /\ Blocks(cs) /\ Len(cs) = Len(bs)
            /\ cs[b].insts = Append(bs[b].insts, x)
            /\ \A a \in 1..Len(bs) :
                 /\ a # b => cs[a].insts = bs[a].insts
                 /\ cs[a].succs = bs[a].succs /\ cs[a].preds = bs[a].preds
                 /\ cs[a].next = bs[a].next
<1> SUFFICES ASSUME NEW cs, cs = WithInst(bs, b, x)
             PROVE  /\ Blocks(cs) /\ Len(cs) = Len(bs)
                    /\ cs[b].insts = Append(bs[b].insts, x)
                    /\ \A a \in 1..Len(bs) :
                         /\ a # b => cs[a].insts = bs[a].insts
                         /\ cs[a].succs = bs[a].succs /\ cs[a].preds = bs[a].preds
                         /\ cs[a].next = bs[a].next
  OBVIOUS
<1> DEFINE k == [bs[b] EXCEPT !.insts = Append(@, x)]
<1>1. /\ IsSeq(bs) /\ DOMAIN bs = 1..Len(bs)
      /\ \A a \in 1..Len(bs) : IsBlock(bs[a])
  BY SeqIs DEF Blocks
<1>2. /\ k.insts = Append(bs[b].insts, x) /\ k.succs = bs[b].succs
      /\ k.preds = bs[b].preds /\ k.next = bs[b].next
      /\ k = [insts |-> k.insts, succs |-> k.succs, preds |-> k.preds, next |-> k.next]
  BY <1>1, FieldIs DEF IsBlock
<1>3. IsBlock(k)
  <2>1. IsSeq(k.insts)
    BY <1>1, <1>2, AppendIs DEF IsBlock
  <2>2. QED
    BY <1>1, <1>2, <2>1 DEF IsBlock
<1>4. cs = [bs EXCEPT ![b] = k]
  BY DEF WithInst
<1> HIDE DEF k
<1>5. /\ IsSeq(cs) /\ Len(cs) = Len(bs) /\ cs[b] = k
      /\ \A a \in DOMAIN bs : a # b => cs[a] = bs[a]
  <2> DEFINE t == [bs EXCEPT ![b] = k]
  <2>1. /\ IsSeq(t) /\ Len(t) = Len(bs) /\ t[b] = k
        /\ \A a \in DOMAIN bs : a # b => t[a] = bs[a]
    BY <1>1, ExceptIs
  <2>2. cs = t
    BY <1>4
  <2> HIDE DEF t
  <2>3. QED
    BY <2>1, <2>2
<1>6. \A a \in 1..Len(bs) : IsBlock(cs[a])
  BY <1>1, <1>3, <1>5
<1>7. QED
  BY <1>1, <1>2, <1>5, <1>6 DEF Blocks

LEMMA WithNextIs ==
  ASSUME NEW bs, Blocks(bs), NEW b \in 1..Len(bs), NEW x \in Nat
  PROVE  LET cs == WithNext(bs, b, x)
         IN /\ Blocks(cs) /\ Len(cs) = Len(bs)
            /\ cs[b].next = x
            /\ \A a \in 1..Len(bs) :
                 /\ a # b => cs[a].next = bs[a].next
                 /\ cs[a].succs = bs[a].succs /\ cs[a].preds = bs[a].preds
                 /\ cs[a].insts = bs[a].insts
<1> SUFFICES ASSUME NEW cs, cs = WithNext(bs, b, x)
             PROVE  /\ Blocks(cs) /\ Len(cs) = Len(bs)
                    /\ cs[b].next = x
                    /\ \A a \in 1..Len(bs) :
                         /\ a # b => cs[a].next = bs[a].next
                         /\ cs[a].succs = bs[a].succs /\ cs[a].preds = bs[a].preds
                         /\ cs[a].insts = bs[a].insts
  OBVIOUS
<1> DEFINE k == [bs[b] EXCEPT !.next = x]
<1>1. /\ IsSeq(bs) /\ DOMAIN bs = 1..Len(bs)
      /\ \A a \in 1..Len(bs) : IsBlock(bs[a])
  BY SeqIs DEF Blocks
<1>2. /\ k.insts = bs[b].insts /\ k.succs = bs[b].succs
      /\ k.preds = bs[b].preds /\ k.next = x
      /\ k = [insts |-> k.insts, succs |-> k.succs, preds |-> k.preds, next |-> k.next]
  BY <1>1, FieldIs DEF IsBlock
<1>3. IsBlock(k)
  BY <1>1, <1>2 DEF IsBlock
<1>4. cs = [bs EXCEPT ![b] = k]
  BY DEF WithNext
<1> HIDE DEF k
<1>5. /\ IsSeq(cs) /\ Len(cs) = Len(bs) /\ cs[b] = k
      /\ \A a \in DOMAIN bs : a # b => cs[a] = bs[a]
  <2> DEFINE t == [bs EXCEPT ![b] = k]
  <2>1. /\ IsSeq(t) /\ Len(t) = Len(bs) /\ t[b] = k
        /\ \A a \in DOMAIN bs : a # b => t[a] = bs[a]
    BY <1>1, ExceptIs
  <2>2. cs = t
    BY <1>4
  <2> HIDE DEF t
  <2>3. QED
    BY <2>1, <2>2
<1>6. \A a \in 1..Len(bs) : IsBlock(cs[a])
  BY <1>1, <1>3, <1>5
<1>7. QED
  BY <1>1, <1>2, <1>5, <1>6 DEF Blocks

EdgeAdded(bs, cs, from, to) ==
  /\ Blocks(cs) /\ Len(cs) = Len(bs)
  /\ \A a \in 1..Len(bs) :
       /\ cs[a].insts = bs[a].insts /\ cs[a].next = bs[a].next
       /\ a # from => cs[a].succs = bs[a].succs
       /\ a # to => cs[a].preds = bs[a].preds
  /\ cs[from].succs = <<to>> \o bs[from].succs
  /\ cs[to].preds = <<from>> \o bs[to].preds

LEMMA WithEdgeIs ==
  ASSUME NEW bs, Blocks(bs), NEW from \in 1..Len(bs), NEW to \in 1..Len(bs)
  PROVE  EdgeAdded(bs, WithEdge(bs, from, to), from, to)
<1> SUFFICES ASSUME NEW cs, cs = WithEdge(bs, from, to)
             PROVE  EdgeAdded(bs, cs, from, to)
  OBVIOUS
<1> DEFINE k == [bs[from] EXCEPT !.succs = <<to>> \o @]
           ds == [bs EXCEPT ![from] = k]
           h == [ds[to] EXCEPT !.preds = <<from>> \o @]
<1>1. /\ IsSeq(bs) /\ DOMAIN bs = 1..Len(bs)
      /\ \A a \in 1..Len(bs) : IsBlock(bs[a])
  BY SeqIs DEF Blocks
<1>2. /\ k.insts = bs[from].insts /\ k.succs = <<to>> \o bs[from].succs
      /\ k.preds = bs[from].preds /\ k.next = bs[from].next
      /\ k = [insts |-> k.insts, succs |-> k.succs, preds |-> k.preds, next |-> k.next]
  <2> DEFINE x == <<to>> \o bs[from].succs
  <2>1. k = [bs[from] EXCEPT !.succs = x]
    OBVIOUS
  <2>2. IsBlock(bs[from])
    BY <1>1
  <2> HIDE DEF x, k
  <2>3. k = [insts |-> bs[from].insts, succs |-> x, preds |-> bs[from].preds, next |-> bs[from].next]
    BY <2>1, <2>2, FieldIs DEF IsBlock
  <2>4. QED
    BY <2>3 DEF x
<1>3. IsBlock(k)
  <2>1. IsSeq(k.succs)
    BY <1>1, <1>2, CountCons DEF IsBlock
  <2>2. QED
    BY <1>1, <1>2, <2>1 DEF IsBlock
<1>4. cs = [ds EXCEPT ![to] = h]
  BY DEF WithEdge
<1> HIDE DEF k
<1>5. /\ IsSeq(ds) /\ Len(ds) = Len(bs) /\ ds[from] = k /\ DOMAIN ds = DOMAIN bs
      /\ \A a \in DOMAIN bs : a # from => ds[a] = bs[a]
  BY <1>1, ExceptIs, SeqIs
<1> HIDE DEF ds
<1>6. \A a \in 1..Len(bs) : IsBlock(ds[a])
  BY <1>1, <1>3, <1>5
<1>7. /\ h.insts = ds[to].insts /\ h.preds = <<from>> \o ds[to].preds
      /\ h.succs = ds[to].succs /\ h.next = ds[to].next
      /\ h = [insts |-> h.insts, succs |-> h.succs, preds |-> h.preds, next |-> h.next]
  BY <1>6, FieldIs DEF IsBlock
<1>8. IsBlock(h)
  <2>1. IsSeq(h.preds)
    BY <1>6, <1>7, CountCons DEF IsBlock
  <2>2. QED
    BY <1>6, <1>7, <2>1 DEF IsBlock
<1> HIDE DEF h
<1>9. /\ IsSeq(cs) /\ Len(cs) = Len(bs) /\ cs[to] = h
      /\ \A a \in DOMAIN bs : a # to => cs[a] = ds[a]
  <2> DEFINE t == [ds EXCEPT ![to] = h]
  <2>1. /\ IsSeq(t) /\ Len(t) = Len(bs) /\ t[to] = h
        /\ \A a \in DOMAIN bs : a # to => t[a] = ds[a]
    BY <1>1, <1>5, ExceptIs
  <2>2. cs = t
    BY <1>4
  <2> HIDE DEF t
  <2>3. QED
    BY <2>1, <2>2
<1>10. \A a \in 1..Len(bs) : IsBlock(cs[a])
  BY <1>1, <1>6, <1>8, <1>9
<1>11. ASSUME NEW a \in 1..Len(bs)
       PROVE  /\ cs[a].insts = bs[a].insts /\ cs[a].next = bs[a].next
              /\ cs[a].succs = IF a = from THEN <<to>> \o bs[a].succs ELSE bs[a].succs
              /\ cs[a].preds = IF a = to THEN <<from>> \o bs[a].preds ELSE bs[a].preds
  <2>1. DOMAIN bs = 1..Len(bs)
    BY <1>1
  <2>2. /\ ds[a].insts = bs[a].insts /\ ds[a].next = bs[a].next /\ ds[a].preds = bs[a].preds
        /\ ds[a].succs = IF a = from THEN <<to>> \o bs[a].succs ELSE bs[a].succs
    BY <2>1, <1>2, <1>5
  <2>3. ds[to].preds = bs[to].preds
    BY <2>1, <1>2, <1>5
  <2>4. CASE a = to
    BY <2>2, <2>3, <2>4, <1>7, <1>9
  <2>5. CASE a # to
    BY <2>1, <2>2, <2>5, <1>9
  <2>6. QED
    BY <2>4, <2>5
<1>12. QED
  BY <1>9, <1>10, <1>11 DEF Blocks, EdgeAdded

LEMMA CreateIs ==
  ASSUME NEW bs, Blocks(bs), NEW n \in Nat
  PROVE  LET cs == Created(bs, n)
         IN /\ Blocks(cs) /\ Len(cs) = Len(bs) + n /\ Len(bs) \in Nat
            /\ \A a \in 1..Len(bs) : cs[a] = bs[a]
            /\ \A a \in Len(bs) + 1..Len(bs) + n : cs[a] = NewBlock
<1> SUFFICES ASSUME NEW cs, cs = Created(bs, n)
             PROVE  /\ Blocks(cs) /\ Len(cs) = Len(bs) + n /\ Len(bs) \in Nat
                    /\ \A a \in 1..Len(bs) : cs[a] = bs[a]
                    /\ \A a \in Len(bs) + 1..Len(bs) + n : cs[a] = NewBlock
  OBVIOUS
<1> DEFINE new == [i \in 1..n |-> NewBlock]
<1>1. IsSeq(bs) /\ Len(bs) \in Nat
  BY SeqIs DEF Blocks
<1>2. IsSeq(new) /\ Len(new) = n
  BY FunctionIs
<1>3. /\ IsSeq(cs) /\ Len(cs) = Len(bs) + n
      /\ \A a \in 1..Len(bs) : cs[a] = bs[a]
      /\ \A i \in 1..n : cs[Len(bs) + i] = new[i]
  BY <1>1, <1>2, ConcatIs DEF Created
<1>4. ASSUME NEW a \in Len(bs) + 1..Len(bs) + n
      PROVE  cs[a] = NewBlock
  <2>1. a - Len(bs) \in 1..n /\ Len(bs) + (a - Len(bs)) = a
    BY <1>1
  <2>2. QED
    BY <1>3, <2>1
<1>5. IsBlock(NewBlock)
  BY EmptyIs DEF IsBlock, NewBlock, NoBlock
<1>6. \A a \in 1..Len(cs) : a \in 1..Len(bs) \/ a \in Len(bs) + 1..Len(bs) + n
  BY <1>1, <1>3
<1>7. \A a \in 1..Len(cs) : IsBlock(cs[a])
  BY <1>3, <1>4, <1>5, <1>6 DEF Blocks
<1>8. QED
  BY <1>1, <1>3, <1>4, <1>7 DEF Blocks

-----------------------------------------------------------------------------
(* The edges are the ways out, and the two lists of a block mirror those   *)
(* of the others.  An indirect jump is never emitted.                      *)

EdgesAt(k, n) ==
  /\ k.next \in 0..n
  /\ Members(k.succs) \subseteq 1..n /\ Members(k.preds) \subseteq 1..n
  /\ OpOf(k.insts) # "IJMP"
  /\ Len(k.succs) = Cardinality(TargetsIn(k.insts)) + (IF FallsFrom(k) THEN 1 ELSE 0)
  /\ \A c \in Nat : Count(k.succs, c) =
                      JumpsIn(k.insts, c) + (IF FallsFrom(k) /\ c = k.next THEN 1 ELSE 0)
Mirrored(bs) ==
  \A b, c \in 1..Len(bs) : Count(bs[c].preds, b) = Count(bs[b].succs, c)
Edges(bs) == Blocks(bs) /\ (\A b \in 1..Len(bs) : EdgesAt(bs[b], Len(bs))) /\ Mirrored(bs)

LEMMA BlockIs ==
  ASSUME NEW bs, Blocks(bs), NEW b \in 1..Len(bs)
  PROVE  /\ Len(bs) \in Nat /\ b \in Nat /\ bs[b].next \in Nat /\ Len(bs[b].succs) \in Nat
         /\ IsSeq(bs[b].insts) /\ IsSeq(bs[b].succs) /\ IsSeq(bs[b].preds)
         /\ Cardinality(TargetsIn(bs[b].insts)) \in Nat
         /\ \A c : /\ JumpsIn(bs[b].insts, c) \in Nat
                   /\ Count(bs[b].succs, c) \in Nat /\ Count(bs[b].preds, c) \in Nat
<1>1. /\ IsSeq(bs) /\ IsSeq(bs[b].insts) /\ IsSeq(bs[b].succs) /\ IsSeq(bs[b].preds)
      /\ bs[b].next \in Nat
  BY DEF Blocks, IsBlock
<1>2. Len(bs) \in Nat /\ b \in Nat /\ Len(bs[b].succs) \in Nat
  BY <1>1, SeqIs
<1>3. \A c : Count(bs[b].succs, c) \in Nat /\ Count(bs[b].preds, c) \in Nat
  BY <1>1, CountIs
<1>4. Cardinality(TargetsIn(bs[b].insts)) \in Nat /\ \A c : JumpsIn(bs[b].insts, c) \in Nat
  BY <1>1, OneMoreInst
<1>5. QED
  BY <1>1, <1>2, <1>3, <1>4

\* New blocks have no way out and no way in.
LEMMA EdgesCreate ==
  ASSUME NEW bs, Edges(bs), NEW n \in Nat, NEW cs, cs = Created(bs, n)
  PROVE  Edges(cs)
<1>1. /\ Blocks(cs) /\ Len(cs) = Len(bs) + n /\ Len(bs) \in Nat
      /\ \A a \in 1..Len(bs) : cs[a] = bs[a]
      /\ \A a \in Len(bs) + 1..Len(bs) + n : cs[a] = NewBlock
  BY CreateIs DEF Edges
<1>2. \A a \in 1..Len(cs) : a \in 1..Len(bs) \/ a \in Len(bs) + 1..Len(bs) + n
  BY <1>1
<1>3. EdgesAt(NewBlock, Len(cs))
  <2>1. ~FallsFrom(NewBlock)
    BY DEF FallsFrom, NewBlock
  <2>2. Len(NewBlock.succs) = Cardinality(TargetsIn(NewBlock.insts)) + 0
    BY NoInsts DEF NewBlock
  <2>3. \A c \in Nat : Count(NewBlock.succs, c) = JumpsIn(NewBlock.insts, c) + 0
    BY NoInsts DEF NewBlock
  <2>4. OpOf(NewBlock.insts) # "IJMP" /\ Members(NewBlock.succs) = {} /\ Members(NewBlock.preds) = {}
    BY NoInsts DEF NewBlock
  <2>5. NewBlock.next \in 0..Len(cs)
    BY <1>1 DEF NewBlock, NoBlock
  <2>6. QED
    BY <2>1, <2>2, <2>3, <2>4, <2>5 DEF EdgesAt
<1>4. \A a \in 1..Len(bs) : EdgesAt(cs[a], Len(cs))
  <2>1. 1..Len(bs) \subseteq 1..Len(cs) /\ 0..Len(bs) \subseteq 0..Len(cs)
    BY <1>1
  <2>2. QED
    BY <1>1, <2>1 DEF Edges, EdgesAt
<1>5. Mirrored(cs)
  <2> SUFFICES ASSUME NEW b \in 1..Len(cs), NEW c \in 1..Len(cs)
               PROVE  Count(cs[c].preds, b) = Count(cs[b].succs, c)
    BY DEF Mirrored
  <2>1. \A a \in Len(bs) + 1..Len(bs) + n : \A x : Count(cs[a].preds, x) = 0 /\ Count(cs[a].succs, x) = 0
    BY <1>1, NoInsts DEF NewBlock
  <2>2. \A a \in 1..Len(bs) : \A x \in Len(bs) + 1..Len(bs) + n :
           Count(cs[a].preds, x) = 0 /\ Count(cs[a].succs, x) = 0
    <3> TAKE a \in 1..Len(bs)
    <3> TAKE x \in Len(bs) + 1..Len(bs) + n
    <3>1. x \notin 1..Len(bs)
      BY <1>1
    <3>2. x \notin Members(bs[a].succs) /\ x \notin Members(bs[a].preds)
      BY <3>1 DEF Edges, EdgesAt
    <3>3. IsSeq(bs[a].succs) /\ IsSeq(bs[a].preds)
      BY DEF Edges, Blocks, IsBlock
    <3>4. Count(bs[a].succs, x) = 0
      BY <3>2, <3>3, CountIs
    <3>5. Count(bs[a].preds, x) = 0
      BY <3>2, <3>3, CountIs
    <3>6. QED
      BY <1>1, <3>4, <3>5
  <2>3. CASE b \in 1..Len(bs) /\ c \in 1..Len(bs)
    BY <1>1, <2>3 DEF Edges, Mirrored
  <2>4. CASE b \in Len(bs) + 1..Len(bs) + n \/ c \in Len(bs) + 1..Len(bs) + n
    BY <1>2, <2>1, <2>2, <2>4
  <2>5. QED
    BY <1>2, <2>3, <2>4
<1>6. QED
  BY <1>1, <1>2, <1>3, <1>4, <1>5 DEF Edges

\* What stays in the block adds no way out.
LEMMA EdgesInst ==
  ASSUME NEW bs, Edges(bs), NEW f \in 1..Len(bs), bs[f].next = NoBlock,
         NEW x, x.to = NoBlock, x.op # "IJMP", NEW cs, cs = WithInst(bs, f, x)
  PROVE  Edges(cs)
<1>1. /\ Blocks(cs) /\ Len(cs) = Len(bs) /\ cs[f].insts = Append(bs[f].insts, x)
      /\ \A a \in 1..Len(bs) :
           /\ a # f => cs[a].insts = bs[a].insts
           /\ cs[a].succs = bs[a].succs /\ cs[a].preds = bs[a].preds
           /\ cs[a].next = bs[a].next
  BY WithInstIs DEF Edges
<1>2. Mirrored(cs)
  BY <1>1 DEF Edges, Mirrored
<1>3. ASSUME NEW a \in 1..Len(bs), a # f
      PROVE  EdgesAt(cs[a], Len(cs))
  BY <1>1, <1>3 DEF Edges, EdgesAt, FallsFrom
<1>4. EdgesAt(cs[f], Len(cs))
  <2>1. Blocks(bs) /\ EdgesAt(bs[f], Len(bs))
    BY DEF Edges
  <2>2. ~FallsFrom(bs[f]) /\ ~FallsFrom(cs[f])
    BY <1>1 DEF FallsFrom
  <2>3. /\ OpOf(cs[f].insts) = x.op
        /\ Cardinality(TargetsIn(cs[f].insts)) = Cardinality(TargetsIn(bs[f].insts))
        /\ \A c : JumpsIn(cs[f].insts, c) = JumpsIn(bs[f].insts, c)
    <3> DEFINE more == Append(bs[f].insts, x)
    <3>1. IsSeq(bs[f].insts)
      BY <2>1, BlockIs
    <3>2. /\ OpOf(more) = x.op /\ Cardinality(TargetsIn(more)) = Cardinality(TargetsIn(bs[f].insts))
          /\ \A c : JumpsIn(more, c) = JumpsIn(bs[f].insts, c)
      BY <3>1, OneMoreInst
    <3> HIDE DEF more
    <3>3. cs[f].insts = more
      BY <1>1 DEF more
    <3>4. QED
      BY <3>2, <3>3
  <2>4. QED
    BY <1>1, <2>1, <2>2, <2>3 DEF EdgesAt
<1>5. QED
  BY <1>1, <1>2, <1>3, <1>4 DEF Edges

EndsExist(bs) ==
  \A a \in 1..Len(bs) : /\ Members(bs[a].succs) \subseteq 1..Len(bs)
                        /\ Members(bs[a].preds) \subseteq 1..Len(bs)

\* One more edge, in both lists.
OneEdgeMore(bs, cs, f, t) ==
  /\ Mirrored(cs) /\ EndsExist(cs)
  /\ Len(cs[f].succs) = Len(bs[f].succs) + 1
  /\ Count(cs[f].succs, t) = Count(bs[f].succs, t) + 1
  /\ \A c : c # t => Count(cs[f].succs, c) = Count(bs[f].succs, c)

LEMMA EdgeCounts ==
  ASSUME NEW bs, Blocks(bs), Mirrored(bs), EndsExist(bs),
         NEW f \in 1..Len(bs), NEW t \in 1..Len(bs), NEW cs, EdgeAdded(bs, cs, f, t)
  PROVE  OneEdgeMore(bs, cs, f, t)
<1>1. /\ Len(cs) = Len(bs)
      /\ \A a \in 1..Len(bs) :
           /\ a # f => cs[a].succs = bs[a].succs
           /\ a # t => cs[a].preds = bs[a].preds
      /\ cs[f].succs = <<t>> \o bs[f].succs
      /\ cs[t].preds = <<f>> \o bs[t].preds
  BY DEF EdgeAdded
<1>2. /\ Len(cs[f].succs) = Len(bs[f].succs) + 1
      /\ Members(cs[f].succs) = Members(bs[f].succs) \cup {t}
      /\ Count(cs[f].succs, t) = Count(bs[f].succs, t) + 1
      /\ \A c : c # t => Count(cs[f].succs, c) = Count(bs[f].succs, c)
  <2>1. IsSeq(bs[f].succs) /\ cs[f].succs = <<t>> \o bs[f].succs
    BY <1>1, BlockIs
  <2>2. QED
    BY <2>1, CountCons
<1>3. /\ Members(cs[t].preds) = Members(bs[t].preds) \cup {f}
      /\ Count(cs[t].preds, f) = Count(bs[t].preds, f) + 1
      /\ \A c : c # f => Count(cs[t].preds, c) = Count(bs[t].preds, c)
  <2> DEFINE u == bs[t].preds
  <2>1. IsSeq(u) /\ cs[t].preds = <<f>> \o u
    BY <1>1, BlockIs
  <2> HIDE DEF u
  <2>2. /\ Members(<<f>> \o u) = Members(u) \cup {f}
        /\ Count(<<f>> \o u, f) = Count(u, f) + 1
        /\ \A c : c # f => Count(<<f>> \o u, c) = Count(u, c)
    BY <2>1, CountCons
  <2>3. QED
    BY <2>1, <2>2 DEF u
<1>4. Mirrored(cs)
  <2> SUFFICES ASSUME NEW b \in 1..Len(bs), NEW c \in 1..Len(bs)
               PROVE  Count(cs[c].preds, b) = Count(cs[b].succs, c)
    BY <1>1 DEF Mirrored
  <2>1. Count(bs[c].preds, b) = Count(bs[b].succs, c)
    BY DEF Mirrored
  <2>2. CASE b = f /\ c = t
    BY <1>2, <1>3, <2>1, <2>2
  <2>3. CASE b = f /\ c # t
    BY <1>1, <1>2, <2>1, <2>3
  <2>4. CASE b # f
    BY <1>1, <1>3, <2>1, <2>4
  <2>5. QED
    BY <2>2, <2>3, <2>4
<1>5. ASSUME NEW a \in 1..Len(bs)
      PROVE  Members(cs[a].succs) \subseteq 1..Len(bs) /\ Members(cs[a].preds) \subseteq 1..Len(bs)
  <2>1. Members(cs[a].succs) \subseteq 1..Len(bs)
    BY <1>1, <1>2 DEF EndsExist
  <2>2. Members(cs[a].preds) \subseteq 1..Len(bs)
    BY <1>1, <1>3 DEF EndsExist
  <2>3. QED
    BY <2>1, <2>2
<1>6. QED
  BY <1>1, <1>2, <1>4, <1>5 DEF EndsExist, OneEdgeMore

\* A jump or a branch adds one way out and its edge, also of a block to itself.
LEMMA EdgesJump ==
  ASSUME NEW bs, Edges(bs), NEW f \in 1..Len(bs), bs[f].next = NoBlock, NEW t \in 1..Len(bs),
         NEW x, x.to = t, x.op # "IJMP",
         NEW cs, cs = WithInst(WithEdge(bs, f, t), f, x)
  PROVE  Edges(cs)
<1> DEFINE ds == WithEdge(bs, f, t)
<1>1. /\ EdgeAdded(bs, ds, f, t) /\ Blocks(bs) /\ Len(bs) \in Nat
      /\ t \in Nat /\ t # NoBlock
  BY WithEdgeIs, BlockIs DEF Edges, NoBlock
<1>2. cs = WithInst(ds, f, x)
  OBVIOUS
<1> HIDE DEF ds
<1>3. /\ Blocks(ds) /\ Len(ds) = Len(bs)
      /\ \A a \in 1..Len(bs) :
           /\ ds[a].insts = bs[a].insts /\ ds[a].next = bs[a].next
           /\ a # f => ds[a].succs = bs[a].succs
  BY <1>1 DEF EdgeAdded
<1>4. /\ Blocks(cs) /\ Len(cs) = Len(bs) /\ cs[f].insts = Append(ds[f].insts, x)
      /\ \A a \in 1..Len(bs) :
           /\ a # f => cs[a].insts = ds[a].insts
           /\ cs[a].succs = ds[a].succs /\ cs[a].preds = ds[a].preds
           /\ cs[a].next = ds[a].next
  <2>1. f \in 1..Len(ds)
    BY <1>3
  <2>2. LET es == WithInst(ds, f, x)
        IN /\ Blocks(es) /\ Len(es) = Len(ds) /\ es[f].insts = Append(ds[f].insts, x)
           /\ \A a \in 1..Len(ds) :
                /\ a # f => es[a].insts = ds[a].insts
                /\ es[a].succs = ds[a].succs /\ es[a].preds = ds[a].preds
                /\ es[a].next = ds[a].next
    BY <1>3, <2>1, WithInstIs
  <2>3. QED
    BY <1>2, <1>3, <2>2
<1>5. /\ Mirrored(ds) /\ EndsExist(ds)
      /\ Len(ds[f].succs) = Len(bs[f].succs) + 1
      /\ Count(ds[f].succs, t) = Count(bs[f].succs, t) + 1
      /\ \A c : c # t => Count(ds[f].succs, c) = Count(bs[f].succs, c)
  <2>1. Mirrored(bs) /\ EndsExist(bs)
    BY DEF Edges, EdgesAt, EndsExist
  <2>2. OneEdgeMore(bs, ds, f, t)
    BY <1>1, <2>1, EdgeCounts
  <2>3. QED
    BY <2>2 DEF OneEdgeMore
<1>6. Mirrored(cs)
  BY <1>3, <1>4, <1>5 DEF Mirrored
<1>7. ASSUME NEW a \in 1..Len(bs)
      PROVE  Members(cs[a].succs) \subseteq 1..Len(bs) /\ Members(cs[a].preds) \subseteq 1..Len(bs)
  BY <1>3, <1>4, <1>5 DEF EndsExist
<1>8. ASSUME NEW a \in 1..Len(bs), a # f
      PROVE  EdgesAt(cs[a], Len(cs))
  <2>1. EdgesAt(bs[a], Len(bs))
    BY DEF Edges
  <2>2. cs[a].insts = bs[a].insts /\ cs[a].succs = bs[a].succs /\ cs[a].next = bs[a].next
    BY <1>3, <1>4, <1>8
  <2>3. FallsFrom(cs[a]) <=> FallsFrom(bs[a])
    BY <2>2 DEF FallsFrom
  <2>4. QED
    BY <1>4, <1>7, <2>1, <2>2, <2>3 DEF EdgesAt
<1>9. EdgesAt(cs[f], Len(cs))
  <2>1. EdgesAt(bs[f], Len(bs)) /\ cs[f].succs = ds[f].succs /\ cs[f].next = NoBlock
    BY <1>3, <1>4 DEF Edges
  <2>2. ~FallsFrom(bs[f]) /\ ~FallsFrom(cs[f])
    BY <2>1 DEF FallsFrom
  <2>3. /\ OpOf(cs[f].insts) = x.op
        /\ Cardinality(TargetsIn(cs[f].insts)) = Cardinality(TargetsIn(bs[f].insts)) + 1
        /\ JumpsIn(cs[f].insts, t) = JumpsIn(bs[f].insts, t) + 1
        /\ \A c : c # t => JumpsIn(cs[f].insts, c) = JumpsIn(bs[f].insts, c)
    <3> DEFINE more == Append(bs[f].insts, x)
    <3>1. IsSeq(bs[f].insts)
      BY <1>1, BlockIs
    <3>2. /\ OpOf(more) = x.op
          /\ Cardinality(TargetsIn(more)) = Cardinality(TargetsIn(bs[f].insts)) + 1
          /\ JumpsIn(more, t) = JumpsIn(bs[f].insts, t) + 1
          /\ \A c : c # t => JumpsIn(more, c) = JumpsIn(bs[f].insts, c)
      BY <1>1, <3>1, OneMoreInst
    <3> HIDE DEF more
    <3>3. cs[f].insts = more
      BY <1>3, <1>4 DEF more
    <3>4. QED
      BY <3>2, <3>3
  <2>4. Cardinality(TargetsIn(bs[f].insts)) \in Nat /\ \A c : JumpsIn(bs[f].insts, c) \in Nat
    BY <1>1, BlockIs
  <2>5. Len(cs[f].succs) = Cardinality(TargetsIn(cs[f].insts)) + 0
    BY <1>5, <2>1, <2>2, <2>3, <2>4 DEF EdgesAt
  <2>6. ASSUME NEW c \in Nat
        PROVE  Count(cs[f].succs, c) = JumpsIn(cs[f].insts, c) + 0
    <3>1. Count(bs[f].succs, c) = JumpsIn(bs[f].insts, c) + 0
      BY <2>1, <2>2 DEF EdgesAt
    <3>2. CASE c = t
      BY <1>5, <2>1, <2>3, <2>4, <3>1, <3>2
    <3>3. CASE c # t
      BY <1>5, <2>1, <2>3, <2>4, <3>1, <3>3
    <3>4. QED
      BY <3>2, <3>3
  <2>7. QED
    BY <1>3, <1>4, <1>7, <2>1, <2>2, <2>3, <2>5, <2>6 DEF EdgesAt
<1>10. QED
  BY <1>4, <1>6, <1>8, <1>9 DEF Edges

\* The block behind f begins: control falls into it unless f ends in a jump or
\* a return, and then there is an edge.
LEMMA EdgesFall ==
  ASSUME NEW bs, Edges(bs), NEW f \in 1..Len(bs), bs[f].next = NoBlock, NEW t \in 1..Len(bs),
         NEW cs, cs = LET linked == WithNext(bs, f, t)
                      IN IF OpOf(bs[f].insts) \in {"JMP", "IJMP", "RET"} THEN linked
                         ELSE WithEdge(linked, f, t)
  PROVE  Edges(cs)
<1> DEFINE ds == WithNext(bs, f, t)
<1>1. /\ Blocks(bs) /\ Len(bs) \in Nat /\ t \in Nat /\ t # NoBlock
      /\ EdgesAt(bs[f], Len(bs)) /\ ~FallsFrom(bs[f])
  BY BlockIs DEF Edges, NoBlock, FallsFrom
<1>2. /\ Blocks(ds) /\ Len(ds) = Len(bs) /\ ds[f].next = t
      /\ \A a \in 1..Len(bs) :
           /\ a # f => ds[a].next = bs[a].next
           /\ ds[a].succs = bs[a].succs /\ ds[a].preds = bs[a].preds
           /\ ds[a].insts = bs[a].insts
  BY <1>1, WithNextIs
<1>3. cs = IF OpOf(bs[f].insts) \in {"JMP", "RET"} THEN ds ELSE WithEdge(ds, f, t)
  BY <1>1 DEF EdgesAt
<1> HIDE DEF ds
<1>4. Mirrored(ds)
  BY <1>2 DEF Edges, Mirrored
<1>5. \A a \in 1..Len(bs) : /\ Members(ds[a].succs) \subseteq 1..Len(bs)
                            /\ Members(ds[a].preds) \subseteq 1..Len(bs)
  BY <1>2 DEF Edges, EdgesAt
<1>6. ASSUME NEW k, NEW a \in 1..Len(bs), a # f, k.insts = bs[a].insts, k.succs = bs[a].succs,
             k.next = bs[a].next, Members(k.preds) \subseteq 1..Len(bs)
      PROVE  EdgesAt(k, Len(bs))
  <2>1. EdgesAt(bs[a], Len(bs)) /\ (FallsFrom(k) <=> FallsFrom(bs[a]))
    BY <1>6 DEF Edges, FallsFrom
  <2>2. QED
    BY <1>6, <2>1 DEF EdgesAt
<1>7. CASE OpOf(bs[f].insts) \in {"JMP", "RET"}
  <2>1. cs = ds
    BY <1>3, <1>7
  <2>2. \A a \in 1..Len(bs) : a # f => EdgesAt(ds[a], Len(bs))
    BY <1>2, <1>5, <1>6
  <2>3. EdgesAt(ds[f], Len(bs))
    <3>1. ds[f].insts = bs[f].insts /\ ds[f].succs = bs[f].succs
      BY <1>2
    <3>2. ~FallsFrom(ds[f])
      BY <1>7, <3>1 DEF FallsFrom
    <3>3. QED
      BY <1>1, <1>2, <1>5, <3>1, <3>2 DEF EdgesAt
  <2>4. QED
    BY <1>2, <1>4, <2>1, <2>2, <2>3 DEF Edges
<1>8. CASE OpOf(bs[f].insts) \notin {"JMP", "RET"}
  <2>1. f \in 1..Len(ds) /\ t \in 1..Len(ds) /\ cs = WithEdge(ds, f, t)
    BY <1>2, <1>3, <1>8
  <2>2. EdgeAdded(ds, cs, f, t)
    BY <1>2, <2>1, WithEdgeIs
  <2>3. /\ Mirrored(cs) /\ EndsExist(cs)
        /\ Len(cs[f].succs) = Len(ds[f].succs) + 1
        /\ Count(cs[f].succs, t) = Count(ds[f].succs, t) + 1
        /\ \A c : c # t => Count(cs[f].succs, c) = Count(ds[f].succs, c)
    <3>1. EndsExist(ds) /\ Blocks(ds)
      BY <1>2, <1>5 DEF EndsExist
    <3>2. OneEdgeMore(ds, cs, f, t)
      BY <1>4, <2>1, <2>2, <3>1, EdgeCounts
    <3>3. QED
      BY <3>2 DEF OneEdgeMore
  <2>4. /\ Blocks(cs) /\ Len(cs) = Len(bs)
        /\ \A a \in 1..Len(bs) :
             /\ cs[a].insts = ds[a].insts /\ cs[a].next = ds[a].next
             /\ a # f => cs[a].succs = ds[a].succs
    BY <1>2, <2>2 DEF EdgeAdded
  <2>5. ASSUME NEW a \in 1..Len(bs), a # f
        PROVE  EdgesAt(cs[a], Len(bs))
    <3>1. cs[a].insts = bs[a].insts /\ cs[a].succs = bs[a].succs /\ cs[a].next = bs[a].next
      BY <1>2, <2>4, <2>5
    <3>2. QED
      BY <1>6, <2>3, <2>4, <2>5, <3>1 DEF EndsExist
  <2>6. EdgesAt(cs[f], Len(bs))
    <3>1. cs[f].insts = bs[f].insts /\ ds[f].succs = bs[f].succs /\ cs[f].next = t
      BY <1>2, <2>4
    <3>2. FallsFrom(cs[f])
      BY <1>1, <1>8, <3>1 DEF FallsFrom
    <3>3. Cardinality(TargetsIn(bs[f].insts)) \in Nat /\ \A c : JumpsIn(bs[f].insts, c) \in Nat
      BY <1>1, BlockIs
    <3>4. /\ Len(bs[f].succs) = Cardinality(TargetsIn(bs[f].insts)) + 0
          /\ \A c \in Nat : Count(bs[f].succs, c) = JumpsIn(bs[f].insts, c) + 0
      BY <1>1 DEF EdgesAt
    <3>5. Len(cs[f].succs) = Cardinality(TargetsIn(cs[f].insts)) + 1
      BY <2>3, <3>1, <3>3, <3>4
    <3>6. ASSUME NEW c \in Nat
          PROVE  Count(cs[f].succs, c) = JumpsIn(cs[f].insts, c) + (IF c = t THEN 1 ELSE 0)
      <4>1. CASE c = t
        BY <1>1, <2>3, <3>1, <3>3, <3>4, <4>1
      <4>2. CASE c # t
        BY <1>1, <2>3, <3>1, <3>3, <3>4, <4>2
      <4>3. QED
        BY <4>1, <4>2
    <3>7. t \in 0..Len(bs) /\ OpOf(bs[f].insts) # "IJMP"
      BY <1>1 DEF EdgesAt
    <3>8. QED
      BY <2>3, <2>4, <3>1, <3>2, <3>5, <3>6, <3>7 DEF EdgesAt, EndsExist
  <2>7. QED
    BY <2>3, <2>4, <2>5, <2>6 DEF Edges
<1>9. QED
  BY <1>7, <1>8

\* What the property of IRGen says, read from Edges.
LEMMA EdgesGiveExact ==
  ASSUME Edges(blocks)
  PROVE  EdgesExact
<1> SUFFICES ASSUME NEW b \in BlockIds
             PROVE  /\ Len(blocks[b].succs) = Cardinality(Targets(b)) + (IF Falls(b) THEN 1 ELSE 0)
                    /\ \A c \in Members(blocks[b].succs) :
                         /\ Count(blocks[b].succs, c) =
                              Jumps(b, c) + (IF Falls(b) /\ c = blocks[b].next THEN 1 ELSE 0)
                         /\ Count(blocks[c].preds, b) = Count(blocks[b].succs, c)
                    /\ \A a \in Members(blocks[b].preds) : b \in Members(blocks[a].succs)
  BY DEF EdgesExact
<1>1. b \in 1..Len(blocks) /\ Blocks(blocks) /\ EdgesAt(blocks[b], Len(blocks))
  BY DEF BlockIds, Edges
<1>2. Targets(b) = TargetsIn(blocks[b].insts) /\ \A c : Jumps(b, c) = JumpsIn(blocks[b].insts, c)
  BY DEF Targets, TargetsIn, Jumps, JumpsIn
<1>3. Falls(b) <=> FallsFrom(blocks[b])
  BY DEF Falls, FallsFrom, LastOp, OpOf
<1>4. Len(blocks) \in Nat /\ \A c \in 1..Len(blocks) : c \in Nat
  BY <1>1, BlockIs
<1>5. ASSUME NEW c \in Members(blocks[b].succs)
      PROVE  /\ Count(blocks[b].succs, c) =
                  Jumps(b, c) + (IF Falls(b) /\ c = blocks[b].next THEN 1 ELSE 0)
             /\ Count(blocks[c].preds, b) = Count(blocks[b].succs, c)
  <2>1. c \in 1..Len(blocks) /\ c \in Nat
    BY <1>1, <1>4 DEF EdgesAt
  <2>2. QED
    BY <1>1, <1>2, <1>3, <2>1 DEF Edges, EdgesAt, Mirrored
<1>6. ASSUME NEW a \in Members(blocks[b].preds)
      PROVE  b \in Members(blocks[a].succs)
  <2>1. a \in 1..Len(blocks)
    BY <1>1 DEF EdgesAt
  <2>2. IsSeq(blocks[b].preds) /\ IsSeq(blocks[a].succs)
    BY <1>1, <2>1, BlockIs
  <2>3. Count(blocks[b].preds, a) = Count(blocks[a].succs, b)
    BY <1>1, <2>1 DEF Edges, Mirrored
  <2>4. QED
    BY <2>2, <2>3, CountIs
<1>7. QED
  BY <1>1, <1>2, <1>3, <1>5, <1>6 DEF EdgesAt

-----------------------------------------------------------------------------
(* The tasks to come.  Whoever pushes tasks makes sure that each of its    *)
(* blocks is started by one of them, and that a block starts wherever      *)
(* control has just been sent elsewhere.                                   *)

Jumpy(t) == t.do \in {"branch", "test", "testvalue", "jump"}
Goals(t) == IF t.do = "jump" THEN {t.bb} ELSE IF Jumpy(t) THEN {t.yes, t.no} ELSE {}
StartsAt(s) == {i \in 1..Len(s) : s[i].do = "start"}
Starts(s) == {s[i].bb : i \in StartsAt(s)}

TaskOK(t) ==
  /\ t.do \in {"visit", "eval", "branch", "for"} => t.node \in Trees
  /\ t.do = "for" => t.node.kind = "For"
  /\ t.do = "unary" => t.node.op \in DOMAIN UnaryOps
  /\ t.do = "call" => t.node.args \in Seq(Trees)
  /\ t.do = "test" => t.op \in {"JCC", "JNZ"}

\* The tasks s start the blocks N, send control to A, and end with a jump that
\* wants a block behind it ("open"), with the end of a function ("finish"), or
\* with neither ("closed").
Fits(s, N, A, end) ==
  /\ IsSeq(s)
  /\ \A i \in 1..Len(s) : TaskOK(s[i]) /\ Goals(s[i]) \subseteq A
  /\ Starts(s) = N
  /\ \A i, j \in StartsAt(s) : s[i].bb = s[j].bb => i = j
  /\ \A i \in 1..Len(s) : Jumpy(s[i]) => IF i = Len(s) THEN end = "open" ELSE s[i + 1].do = "start"
  /\ \A i \in 1..Len(s) : s[i].do = "finish" <=> end = "finish" /\ i = Len(s)
  /\ end = "finish" => s # << >>

LEMMA FitsMore ==
  ASSUME NEW s, NEW N, NEW A, NEW B, NEW end, Fits(s, N, A, end), A \subseteq B
  PROVE  Fits(s, N, B, end)
BY DEF Fits

LEMMA FitsNone ==
  ASSUME NEW A, NEW end, end # "finish"
  PROVE  Fits(<< >>, {}, A, end)
<1>1. IsSeq(<< >>) /\ Len(<< >>) = 0 /\ 1..0 = {}
  BY EmptyIs
<1>2. StartsAt(<< >>) = {} /\ Starts(<< >>) = {}
  BY <1>1 DEF StartsAt, Starts
<1>3. QED
  BY <1>1, <1>2 DEF Fits

LEMMA OneIs ==
  ASSUME NEW x
  PROVE  IsSeq(<<x>>) /\ Len(<<x>>) = 1 /\ <<x>>[1] = x /\ 1..1 = {1}
<1>1. <<x>> \in Seq({x})
  OBVIOUS
<1>2. \E Z : <<x>> \in Seq(Z)
  <2>1. WITNESS {x}
  <2>2. QED
    BY <1>1
<1>3. QED
  BY <1>2 DEF IsSeq

LEMMA FitsOne ==
  ASSUME NEW t, NEW A, NEW end, TaskOK(t), Goals(t) \subseteq A, t.do # "start",
         Jumpy(t) => end = "open", t.do = "finish" <=> end = "finish"
  PROVE  Fits(<<t>>, {}, A, end)
<1>1. IsSeq(<<t>>) /\ Len(<<t>>) = 1 /\ <<t>>[1] = t /\ 1..1 = {1} /\ <<t>> # << >>
  BY OneIs
<1>2. StartsAt(<<t>>) = {} /\ Starts(<<t>>) = {}
  BY <1>1 DEF StartsAt, Starts
<1>3. QED
  BY <1>1, <1>2 DEF Fits

LEMMA FitsStart ==
  ASSUME NEW b, NEW A
  PROVE  Fits(<<Start(b)>>, {b}, A, "closed")
<1> DEFINE t == Start(b)
<1>1. t.do = "start" /\ t.bb = b
  BY DEF Start
<1>2. TaskOK(t) /\ Goals(t) = {} /\ ~Jumpy(t)
  BY <1>1 DEF TaskOK, Goals, Jumpy
<1> HIDE DEF t
<1>3. IsSeq(<<t>>) /\ Len(<<t>>) = 1 /\ <<t>>[1] = t /\ 1..1 = {1}
  BY OneIs
<1>4. StartsAt(<<t>>) = {1} /\ Starts(<<t>>) = {b}
  BY <1>1, <1>3 DEF StartsAt, Starts
<1>5. Fits(<<t>>, {b}, A, "closed")
  BY <1>1, <1>2, <1>3, <1>4 DEF Fits
<1>6. QED
  BY <1>5 DEF t

LEMMA FitsConcat ==
  ASSUME NEW s, NEW t, NEW N, NEW M, NEW A, NEW e, NEW end,
         Fits(s, N, A, e), Fits(t, M, A, end), N \cap M = {},
         e = "closed" \/ (e = "open" /\ t # << >> /\ t[1].do = "start")
  PROVE  Fits(s \o t, N \cup M, A, end)
<1> DEFINE u == s \o t
           n == Len(s)
           m == Len(t)
<1>1. /\ IsSeq(u) /\ n \in Nat /\ m \in Nat /\ Len(u) = n + m
      /\ \A i \in 1..n : u[i] = s[i]
      /\ \A i \in 1..m : u[n + i] = t[i]
  BY ConcatIs, SeqIs DEF Fits
<1>2. ASSUME NEW i \in 1..Len(u)
      PROVE  i \in 1..n \/ (i - n \in 1..m /\ n + (i - n) = i)
  BY <1>1
<1>3. ASSUME NEW i \in 1..m
      PROVE  n + i \in 1..Len(u) /\ u[n + i] = t[i]
  BY <1>1
<1>4. ASSUME NEW i \in 1..n
      PROVE  i \in 1..Len(u) /\ u[i] = s[i]
  BY <1>1
<1>5. t = << >> <=> m = 0
  BY SeqIs DEF Fits
<1> HIDE DEF u, n, m
<1>6. \A i \in 1..Len(u) : TaskOK(u[i]) /\ Goals(u[i]) \subseteq A
  <2> TAKE i \in 1..Len(u)
  <2>1. CASE i \in 1..n
    BY <1>4, <2>1 DEF Fits, n
  <2>2. CASE i - n \in 1..m /\ n + (i - n) = i
    <3>1. u[i] = t[i - n]
      BY <1>3, <2>2
    <3>2. QED
      BY <2>2, <3>1 DEF Fits, m
  <2>3. QED
    BY <1>2, <2>1, <2>2
<1>7. Starts(u) = N \cup M
  <2>1. ASSUME NEW b \in Starts(u) PROVE b \in N \cup M
    <3>1. PICK i \in 1..Len(u) : u[i].do = "start" /\ u[i].bb = b
      BY DEF Starts, StartsAt
    <3>2. CASE i \in 1..n
      BY <1>4, <3>1, <3>2 DEF Fits, Starts, StartsAt, n
    <3>3. CASE i - n \in 1..m /\ n + (i - n) = i
      <4>1. u[i] = t[i - n]
        BY <1>3, <3>3
      <4>2. QED
        BY <3>1, <3>3, <4>1 DEF Fits, Starts, StartsAt, m
    <3>4. QED
      BY <1>2, <3>2, <3>3
  <2>2. ASSUME NEW b \in N PROVE b \in Starts(u)
    <3>1. PICK i \in 1..n : s[i].do = "start" /\ s[i].bb = b
      BY DEF Fits, Starts, StartsAt, n
    <3>2. QED
      BY <1>4, <3>1 DEF Starts, StartsAt
  <2>3. ASSUME NEW b \in M PROVE b \in Starts(u)
    <3>1. PICK i \in 1..m : t[i].do = "start" /\ t[i].bb = b
      BY DEF Fits, Starts, StartsAt, m
    <3>2. QED
      BY <1>3, <3>1 DEF Starts, StartsAt
  <2>4. QED
    BY <2>1, <2>2, <2>3
<1>8. \A i, j \in StartsAt(u) : u[i].bb = u[j].bb => i = j
  <2> SUFFICES ASSUME NEW i \in 1..Len(u), NEW j \in 1..Len(u), u[i].do = "start",
                      u[j].do = "start", u[i].bb = u[j].bb
               PROVE  i = j
    BY DEF StartsAt
  <2>1. ASSUME NEW k \in 1..n, u[k].do = "start"
        PROVE  k \in StartsAt(s) /\ u[k].bb = s[k].bb /\ u[k].bb \in N
    BY <1>4, <2>1 DEF Fits, Starts, StartsAt, n
  <2>2. ASSUME NEW k \in 1..Len(u), k - n \in 1..m /\ n + (k - n) = k, u[k].do = "start"
        PROVE  k - n \in StartsAt(t) /\ u[k].bb = t[k - n].bb /\ u[k].bb \in M
    <3>1. u[k] = t[k - n]
      BY <1>3, <2>2
    <3>2. QED
      BY <2>2, <3>1 DEF Fits, Starts, StartsAt, m
  <2>3. CASE i \in 1..n /\ j \in 1..n
    <3>1. i \in StartsAt(s) /\ j \in StartsAt(s) /\ s[i].bb = s[j].bb
      BY <2>1, <2>3
    <3>2. QED
      BY <3>1 DEF Fits
  <2>4. CASE i \notin 1..n /\ j \notin 1..n
    <3>1. i - n \in StartsAt(t) /\ j - n \in StartsAt(t) /\ t[i - n].bb = t[j - n].bb
      BY <1>2, <2>2, <2>4
    <3>2. i - n = j - n
      BY <3>1 DEF Fits
    <3>3. QED
      BY <1>1, <3>2 DEF n
  <2>5. CASE i \in 1..n /\ j \notin 1..n
    <3>1. u[i].bb \in N /\ u[j].bb \in M
      BY <1>2, <2>1, <2>2, <2>5
    <3>2. QED
      BY <3>1
  <2>6. CASE i \notin 1..n /\ j \in 1..n
    <3>1. u[j].bb \in N /\ u[i].bb \in M
      BY <1>2, <2>1, <2>2, <2>6
    <3>2. QED
      BY <3>1
  <2>7. QED
    BY <2>3, <2>4, <2>5, <2>6
<1>9. ASSUME NEW i \in 1..Len(u), Jumpy(u[i])
      PROVE  IF i = Len(u) THEN end = "open" ELSE u[i + 1].do = "start"
  <2>1. CASE i \in 1..n /\ i # n
    <3>1. i + 1 \in 1..n /\ i # Len(u)
      BY <1>1, <2>1 DEF n, m, u
    <3>2. s[i + 1].do = "start"
      BY <1>4, <1>9, <2>1 DEF Fits, n
    <3>3. QED
      BY <1>4, <3>1, <3>2
  <2>2. CASE i \in 1..n /\ i = n
    <3>1. e = "open" /\ t # << >> /\ t[1].do = "start"
      BY <1>4, <1>9, <2>2 DEF Fits, n
    <3>2. 1 \in 1..m /\ i # Len(u)
      BY <1>1, <1>5, <2>2, <3>1 DEF n, m, u
    <3>3. u[n + 1] = t[1]
      BY <1>3, <3>2
    <3>4. QED
      BY <2>2, <3>1, <3>2, <3>3
  <2>3. CASE i - n \in 1..m /\ n + (i - n) = i
    <3>1. u[i] = t[i - n]
      BY <1>3, <2>3
    <3>2. IF i - n = m THEN end = "open" ELSE t[(i - n) + 1].do = "start"
      BY <1>9, <2>3, <3>1 DEF Fits, m
    <3>3. i = Len(u) <=> i - n = m
      BY <1>1, <2>3 DEF n, m, u
    <3>4. CASE i - n # m
      <4>1. (i - n) + 1 \in 1..m /\ n + ((i - n) + 1) = i + 1
        BY <1>1, <2>3, <3>4 DEF n, m
      <4>2. u[i + 1] = t[(i - n) + 1]
        BY <1>3, <4>1
      <4>3. QED
        BY <3>2, <3>3, <3>4, <4>2
    <3>5. QED
      BY <3>2, <3>3, <3>4
  <2>4. QED
    BY <1>2, <2>1, <2>2, <2>3
<1>10. ASSUME NEW i \in 1..Len(u)
       PROVE  u[i].do = "finish" <=> end = "finish" /\ i = Len(u)
  <2>1. CASE i \in 1..n
    <3>1. u[i].do # "finish"
      BY <1>4, <2>1 DEF Fits, n
    <3>2. end = "finish" => i # Len(u)
      <4>1. end = "finish" => m # 0
        BY <1>5 DEF Fits
      <4>2. QED
        BY <1>1, <2>1, <4>1 DEF n, m, u
    <3>3. QED
      BY <3>1, <3>2
  <2>2. CASE i - n \in 1..m /\ n + (i - n) = i
    <3>1. u[i] = t[i - n]
      BY <1>3, <2>2
    <3>2. i = Len(u) <=> i - n = m
      BY <1>1, <2>2 DEF n, m, u
    <3>3. t[i - n].do = "finish" <=> end = "finish" /\ i - n = m
      BY <2>2 DEF Fits, m
    <3>4. QED
      BY <3>1, <3>2, <3>3
  <2>3. QED
    BY <1>2, <2>1, <2>2
<1>11. end = "finish" => u # << >>
  <2>1. end = "finish" => m # 0
    BY <1>5 DEF Fits
  <2>2. u = << >> <=> Len(u) = 0
    BY <1>1, SeqIs
  <2>3. QED
    BY <1>1, <2>1, <2>2 DEF n, m, u
<1>12. IsSeq(u)
  BY <1>1 DEF u
<1>13. Fits(u, N \cup M, A, end)
  BY <1>6, <1>7, <1>8, <1>9, <1>10, <1>11, <1>12 DEF Fits
<1>14. QED
  BY <1>13 DEF u

LEMMA FitsTail ==
  ASSUME NEW s, NEW N, NEW A, NEW end, Fits(s, N, A, end), s # << >>, Head(s).do # "finish"
  PROVE  /\ Head(s) = s[1] /\ Len(Tail(s)) = Len(s) - 1
         /\ Fits(Tail(s), Starts(Tail(s)), A, end)
         /\ Head(s).do = "start" => /\ Head(s).bb \in N
                                    /\ Starts(Tail(s)) = N \ {Head(s).bb}
         /\ Head(s).do # "start" => Starts(Tail(s)) = N
         /\ Jumpy(Head(s)) /\ end # "open" => Tail(s) # << >> /\ Tail(s)[1].do = "start"
         /\ TaskOK(Head(s)) /\ Goals(Head(s)) \subseteq A
<1> DEFINE t == Tail(s)
           n == Len(s)
<1>1. /\ IsSeq(s) /\ IsSeq(t) /\ n \in Nat /\ n # 0 /\ Len(t) = n - 1
      /\ \A i \in 1..n - 1 : t[i] = s[i + 1]
      /\ Head(s) = s[1]
  BY TailIs, SeqIs DEF Fits
<1>2. t = << >> <=> n - 1 = 0
  BY <1>1, SeqIs
<1>3. 1 \in 1..n
  BY <1>1
<1>4. ASSUME NEW i \in 1..Len(t)
      PROVE  i + 1 \in 1..n /\ i + 1 # 1 /\ t[i] = s[i + 1]
  BY <1>1
<1>5. ASSUME NEW i \in 1..n
      PROVE  i = 1 \/ (i - 1 \in 1..Len(t) /\ (i - 1) + 1 = i)
  BY <1>1
<1> HIDE DEF t, n
<1>6. ASSUME NEW i \in 1..Len(t)
      PROVE  /\ TaskOK(t[i]) /\ Goals(t[i]) \subseteq A
             /\ t[i].do = "finish" <=> end = "finish" /\ i = Len(t)
  <2>1. i + 1 = n <=> i = Len(t)
    BY <1>1 DEF n
  <2>2. TaskOK(s[i + 1]) /\ Goals(s[i + 1]) \subseteq A /\ (s[i + 1].do = "finish" <=> end = "finish" /\ i + 1 = n)
    BY <1>4 DEF Fits, n
  <2>3. QED
    BY <1>4, <2>1, <2>2
<1>7. ASSUME NEW i \in 1..Len(t), Jumpy(t[i])
      PROVE  IF i = Len(t) THEN end = "open" ELSE t[i + 1].do = "start"
  <2>1. IF i + 1 = n THEN end = "open" ELSE s[(i + 1) + 1].do = "start"
    BY <1>4, <1>7 DEF Fits, n
  <2>2. i + 1 = n <=> i = Len(t)
    BY <1>1 DEF n
  <2>3. CASE i # Len(t)
    <3>1. i + 1 \in 1..Len(t)
      BY <1>1, <2>3 DEF n
    <3>2. QED
      BY <1>4, <2>1, <2>2, <2>3, <3>1
  <2>4. QED
    BY <2>1, <2>2, <2>3
<1>8. ASSUME NEW i \in StartsAt(t)
      PROVE  i + 1 \in StartsAt(s) /\ t[i].bb = s[i + 1].bb /\ i \in 1..Len(t)
  BY <1>4 DEF StartsAt, n
<1>9. \A i, j \in StartsAt(t) : t[i].bb = t[j].bb => i = j
  <2> SUFFICES ASSUME NEW i \in StartsAt(t), NEW j \in StartsAt(t), t[i].bb = t[j].bb
               PROVE  i = j
    OBVIOUS
  <2>1. i + 1 = j + 1
    BY <1>8 DEF Fits
  <2>2. i \in Nat /\ j \in Nat
    BY <1>8
  <2>3. QED
    BY <2>1, <2>2
<1>10. end = "finish" => t # << >>
  <2>1. s[1].do # "finish"
    BY <1>1
  <2>2. end = "finish" => n # 1
    BY <1>3, <2>1 DEF Fits, n
  <2>3. QED
    BY <1>1, <1>2, <2>2 DEF n
<1>11. Fits(t, Starts(t), A, end)
  BY <1>1, <1>6, <1>7, <1>9, <1>10 DEF Fits
<1>12. ASSUME NEW b \in Starts(t)
       PROVE  b \in N /\ (s[1].do = "start" => b # s[1].bb)
  <2>1. PICK i \in StartsAt(t) : b = t[i].bb
    BY DEF Starts
  <2>2. i + 1 \in StartsAt(s) /\ b = s[i + 1].bb /\ i + 1 # 1
    BY <1>4, <1>8, <2>1
  <2>3. s[1].do = "start" => 1 \in StartsAt(s)
    BY <1>3 DEF StartsAt, n
  <2>4. QED
    BY <2>2, <2>3 DEF Fits, Starts
<1>13. ASSUME NEW b \in N, b \notin Starts(t)
       PROVE  s[1].do = "start" /\ b = s[1].bb
  <2>1. PICK i \in 1..n : s[i].do = "start" /\ s[i].bb = b
    BY DEF Fits, Starts, StartsAt, n
  <2>2. CASE i - 1 \in 1..Len(t) /\ (i - 1) + 1 = i
    <3>1. t[i - 1] = s[i]
      BY <1>4, <2>2
    <3>2. b \in Starts(t)
      BY <2>1, <2>2, <3>1 DEF Starts, StartsAt
    <3>3. QED
      BY <1>13, <3>2
  <2>3. QED
    BY <1>5, <2>1, <2>2
<1>14. s[1].do = "start" => s[1].bb \in N
  BY <1>3 DEF Fits, Starts, StartsAt, n
<1>15. Jumpy(s[1]) /\ end # "open" => t # << >> /\ t[1].do = "start"
  <2> SUFFICES ASSUME Jumpy(s[1]), end # "open"
               PROVE  t # << >> /\ t[1].do = "start"
    OBVIOUS
  <2>1. n # 1 /\ s[1 + 1].do = "start"
    BY <1>3 DEF Fits, n
  <2>2. 1 \in 1..Len(t)
    BY <1>1, <2>1 DEF n
  <2>3. t[1] = s[1 + 1]
    BY <1>4, <2>2
  <2>4. QED
    BY <1>1, <1>2, <2>1, <2>2, <2>3 DEF n
<1>16. TaskOK(s[1]) /\ Goals(s[1]) \subseteq A
  BY <1>3 DEF Fits, n
<1>17. Starts(t) = IF s[1].do = "start" THEN N \ {s[1].bb} ELSE N
  BY <1>12, <1>13
<1>18. QED
  BY <1>1, <1>11, <1>14, <1>15, <1>16, <1>17 DEF t, n

-----------------------------------------------------------------------------
(* The pieces the methods are put together from.                           *)

LEMMA TwoAre ==
  ASSUME NEW a, NEW b
  PROVE  <<a, b>> = <<a>> \o <<b>>
<1>1. <<a, b>> = Append(<<a>>, b) /\ <<a>> \in Seq({a, b}) /\ b \in {a, b}
  OBVIOUS
<1>2. Append(<<a>>, b) = <<a>> \o <<b>>
  BY <1>1, AppendIsConcat
<1>3. QED
  BY <1>1, <1>2

LEMMA ThreeAre ==
  ASSUME NEW a, NEW b, NEW c
  PROVE  <<a, b, c>> = <<a, b>> \o <<c>>
OBVIOUS

LEMMA FourAre ==
  ASSUME NEW a, NEW b, NEW c, NEW d
  PROVE  <<a, b, c, d>> = <<a, b>> \o <<c, d>>
OBVIOUS

LEMMA EightAre ==
  ASSUME NEW a, NEW b, NEW c, NEW d, NEW x, NEW y, NEW z, NEW w
  PROVE  <<a, b, c, d, x, y, z, w>> = <<a, b, c, d>> \o <<x, y, z, w>>
BY SMTT(90)

LEMMA FitsTasks ==
  ASSUME NEW A
  PROVE  /\ \A e \in Trees : /\ Fits(<<Visit(e)>>, {}, A, "closed")
                             /\ Fits(<<Eval(e)>>, {}, A, "closed")
                             /\ e.kind = "For" => Fits(<<Then("for", e)>>, {}, A, "closed")
         /\ \A u : u.op \in DOMAIN UnaryOps => Fits(<<Then("unary", u)>>, {}, A, "closed")
         /\ \A u : u.args \in Seq(Trees) => Fits(<<Then("call", u)>>, {}, A, "closed")
         /\ \A u : \A do \in {"drop", "binary", "init", "return", "increment"} :
              Fits(<<Then(do, u)>>, {}, A, "closed")
         /\ \A u, v : Fits(<<Move(u, v)>>, {}, A, "closed")
         /\ \A u : Fits(<<Result(u)>>, {}, A, "closed")
<1>1. ASSUME NEW t, TaskOK(t), ~Jumpy(t), t.do \notin {"start", "finish"}
      PROVE  Fits(<<t>>, {}, A, "closed")
  <2>1. Goals(t) = {}
    BY <1>1 DEF Goals, Jumpy
  <2>2. QED
    BY <1>1, <2>1, FitsOne
<1>2. \A e : /\ Visit(e).do = "visit" /\ Visit(e).node = e
             /\ Eval(e).do = "eval" /\ Eval(e).node = e
  BY DEF Visit, Eval, Task
<1>3. \A k, w : Then(k, w).do = k /\ Then(k, w).node = w
  BY DEF Then, Task
<1>4. \A u, v : Move(u, v).do = "move" /\ Result(u).do = "result"
  BY DEF Move, Result
<1>5. ASSUME NEW e \in Trees
      PROVE  /\ Fits(<<Visit(e)>>, {}, A, "closed")
             /\ Fits(<<Eval(e)>>, {}, A, "closed")
             /\ e.kind = "For" => Fits(<<Then("for", e)>>, {}, A, "closed")
  <2>1. /\ TaskOK(Visit(e)) /\ ~Jumpy(Visit(e))
        /\ TaskOK(Eval(e)) /\ ~Jumpy(Eval(e))
        /\ e.kind = "For" => TaskOK(Then("for", e)) /\ ~Jumpy(Then("for", e))
    BY <1>2, <1>3, <1>5 DEF TaskOK, Jumpy
  <2>2. QED
    BY <1>1, <1>2, <1>3, <2>1
<1>6. ASSUME NEW u, u.op \in DOMAIN UnaryOps
      PROVE  Fits(<<Then("unary", u)>>, {}, A, "closed")
  <2>1. TaskOK(Then("unary", u)) /\ ~Jumpy(Then("unary", u))
    BY <1>3, <1>6 DEF TaskOK, Jumpy
  <2>2. QED
    BY <1>1, <1>3, <2>1
<1>7. ASSUME NEW u, NEW do \in {"drop", "binary", "init", "return", "increment"}
      PROVE  Fits(<<Then(do, u)>>, {}, A, "closed")
  <2>1. TaskOK(Then(do, u)) /\ ~Jumpy(Then(do, u))
    BY <1>3, <1>7 DEF TaskOK, Jumpy
  <2>2. QED
    BY <1>1, <1>3, <2>1
<1>8. ASSUME NEW u, u.args \in Seq(Trees)
      PROVE  Fits(<<Then("call", u)>>, {}, A, "closed")
  <2>1. TaskOK(Then("call", u)) /\ ~Jumpy(Then("call", u))
    BY <1>3, <1>8 DEF TaskOK, Jumpy
  <2>2. QED
    BY <1>1, <1>3, <2>1
<1>9. ASSUME NEW u, NEW v
      PROVE  Fits(<<Move(u, v)>>, {}, A, "closed") /\ Fits(<<Result(u)>>, {}, A, "closed")
  <2>1. TaskOK(Move(u, v)) /\ ~Jumpy(Move(u, v)) /\ TaskOK(Result(u)) /\ ~Jumpy(Result(u))
    BY <1>4 DEF TaskOK, Jumpy
  <2>2. QED
    BY <1>1, <1>4, <2>1
<1>10. QED
  BY <1>5, <1>6, <1>7, <1>8, <1>9

LEMMA FitsGoals ==
  ASSUME NEW A, NEW y \in A
  PROVE  /\ Fits(<<Jump(y)>>, {}, A, "open")
         /\ \A e \in Trees, n \in A : Fits(<<Branch(e, y, n)>>, {}, A, "open")
         /\ \A u : \A op \in {"JCC", "JNZ"}, n \in A : Fits(<<Test(op, u, y, n)>>, {}, A, "open")
         /\ \A u : \A n \in A : Fits(<<TestValue(u, y, n)>>, {}, A, "open")
<1>1. ASSUME NEW t, TaskOK(t), Jumpy(t), Goals(t) \subseteq A
      PROVE  Fits(<<t>>, {}, A, "open")
  <2>1. t.do # "start" /\ t.do # "finish"
    BY <1>1 DEF Jumpy
  <2>2. QED
    BY <1>1, <2>1, FitsOne
<1>2. Fits(<<Jump(y)>>, {}, A, "open")
  <2>1. Jump(y).do = "jump" /\ Jump(y).bb = y
    BY DEF Jump
  <2>2. QED
    BY <1>1, <2>1 DEF TaskOK, Jumpy, Goals
<1>3. ASSUME NEW e \in Trees, NEW n \in A
      PROVE  Fits(<<Branch(e, y, n)>>, {}, A, "open")
  <2>1. /\ Branch(e, y, n).do = "branch" /\ Branch(e, y, n).node = e
        /\ Branch(e, y, n).yes = y /\ Branch(e, y, n).no = n
    BY DEF Branch
  <2>2. QED
    BY <1>1, <2>1 DEF TaskOK, Jumpy, Goals
<1>4. ASSUME NEW op \in {"JCC", "JNZ"}, NEW u, NEW n \in A
      PROVE  Fits(<<Test(op, u, y, n)>>, {}, A, "open")
  <2>1. /\ Test(op, u, y, n).do = "test" /\ Test(op, u, y, n).op = op
        /\ Test(op, u, y, n).yes = y /\ Test(op, u, y, n).no = n
    BY DEF Test
  <2>2. QED
    BY <1>1, <2>1 DEF TaskOK, Jumpy, Goals
<1>5. ASSUME NEW u, NEW n \in A
      PROVE  Fits(<<TestValue(u, y, n)>>, {}, A, "open")
  <2>1. /\ TestValue(u, y, n).do = "testvalue"
        /\ TestValue(u, y, n).yes = y /\ TestValue(u, y, n).no = n
    BY DEF TestValue
  <2>2. QED
    BY <1>1, <2>1 DEF TaskOK, Jumpy, Goals
<1>6. QED
  BY <1>2, <1>3, <1>4, <1>5

LEMMA FitsTwo ==
  ASSUME NEW t, NEW u, NEW A, NEW end, Fits(<<t>>, {}, A, "closed"), Fits(<<u>>, {}, A, end)
  PROVE  Fits(<<t, u>>, {}, A, end)
<1>1. Fits(<<t>> \o <<u>>, {} \cup {}, A, end)
  BY FitsConcat
<1>2. QED
  BY <1>1, TwoAre

LEMMA FitsThree ==
  ASSUME NEW t, NEW u, NEW v, NEW A, NEW end,
         Fits(<<t>>, {}, A, "closed"), Fits(<<u>>, {}, A, "closed"), Fits(<<v>>, {}, A, end)
  PROVE  Fits(<<t, u, v>>, {}, A, end)
<1>1. Fits(<<t, u>>, {}, A, "closed")
  BY FitsTwo
<1>2. Fits(<<t, u>> \o <<v>>, {} \cup {}, A, end)
  BY <1>1, FitsConcat
<1>3. {} \cup {} = {} /\ <<t, u, v>> = <<t, u>> \o <<v>>
  BY ThreeAre
<1>4. QED
  BY <1>2, <1>3

\* A jump and the block behind it; a block and what begins it.
LEMMA FitsOpenStart ==
  ASSUME NEW t, NEW b, NEW A, Fits(<<t>>, {}, A, "open")
  PROVE  Fits(<<t, Start(b)>>, {b}, A, "closed")
<1>1. Fits(<<Start(b)>>, {b}, A, "closed")
  BY FitsStart
<1>2. <<Start(b)>> # << >> /\ <<Start(b)>>[1].do = "start"
  BY DEF Start
<1>3. Fits(<<t>> \o <<Start(b)>>, {} \cup {b}, A, "closed")
  BY <1>1, <1>2, FitsConcat
<1>4. <<t, Start(b)>> = <<t>> \o <<Start(b)>> /\ {} \cup {b} = {b}
  BY TwoAre
<1>5. QED
  BY <1>3, <1>4

LEMMA FitsStartThen ==
  ASSUME NEW t, NEW b, NEW A, NEW end, Fits(<<t>>, {}, A, end)
  PROVE  Fits(<<Start(b), t>>, {b}, A, end)
<1>1. Fits(<<Start(b)>>, {b}, A, "closed")
  BY FitsStart
<1>2. Fits(<<Start(b)>> \o <<t>>, {b} \cup {}, A, end)
  BY <1>1, FitsConcat
<1>3. <<Start(b), t>> = <<Start(b)>> \o <<t>> /\ {b} \cup {} = {b}
  BY TwoAre
<1>4. QED
  BY <1>2, <1>3

\* A jump and the block behind it, twice.
LEMMA FitsTwoPairs ==
  ASSUME NEW t, NEW b, NEW u, NEW c, NEW A, b # c,
         Fits(<<t, Start(b)>>, {b}, A, "closed"), Fits(<<u, Start(c)>>, {c}, A, "closed")
  PROVE  Fits(<<t, Start(b), u, Start(c)>>, {b, c}, A, "closed")
<1>1. Fits(<<t, Start(b)>> \o <<u, Start(c)>>, {b} \cup {c}, A, "closed")
  BY FitsConcat
<1>2. {b} \cup {c} = {b, c}
  OBVIOUS
<1>3. <<t, Start(b), u, Start(c)>> = <<t, Start(b)>> \o <<u, Start(c)>>
  BY FourAre
<1>4. QED
  BY <1>1, <1>2, <1>3

LEMMA FitsBody ==
  ASSUME NEW n \in Trees \cup {None}, NEW A
  PROVE  Fits(Body(n), {}, A, "closed") /\ Fits(Effect(n), {}, A, "closed")
<1>1. CASE n = None
  <2>1. Body(n) = << >> /\ Effect(n) = << >>
    BY <1>1 DEF Body, Effect
  <2>2. QED
    BY <2>1, FitsNone
<1>2. CASE n # None
  <2>1. n \in Trees
    BY <1>2
  <2>2. Body(n) = <<Visit(n)>> /\ Effect(n) = <<Eval(n), Then("drop", None)>>
    BY <1>2 DEF Body, Effect
  <2> DEFINE B == A \cup {0}
  <2>3. /\ TaskOK(Visit(n)) /\ ~Jumpy(Visit(n)) /\ Visit(n).do = "visit"
        /\ TaskOK(Eval(n)) /\ ~Jumpy(Eval(n)) /\ Eval(n).do = "eval"
        /\ TaskOK(Then("drop", None)) /\ ~Jumpy(Then("drop", None)) /\ Then("drop", None).do = "drop"
    BY <2>1 DEF TaskOK, Jumpy, Visit, Eval, Then, Task
  <2>4. Goals(Visit(n)) = {} /\ Goals(Eval(n)) = {} /\ Goals(Then("drop", None)) = {}
    BY <2>3 DEF Goals, Jumpy
  <2>5. Fits(<<Visit(n)>>, {}, A, "closed")
    BY <2>3, <2>4, FitsOne
  <2>6. Fits(<<Eval(n)>>, {}, A, "closed")
    BY <2>3, <2>4, FitsOne
  <2>7. Fits(<<Then("drop", None)>>, {}, A, "closed")
    BY <2>3, <2>4, FitsOne
  <2>8. Fits(<<Eval(n), Then("drop", None)>>, {}, A, "closed")
    BY <2>6, <2>7, FitsTwo
  <2>9. QED
    BY <2>2, <2>5, <2>8
<1>3. QED
  BY <1>1, <1>2

LEMMA FitsEach ==
  ASSUME NEW s, NEW n \in Nat, s = [i \in 1..n |-> s[i]], NEW A,
         \A i \in 1..n : TaskOK(s[i]) /\ s[i].do \in {"visit", "eval"}
  PROVE  Fits(s, {}, A, "closed")
<1>1. IsSeq(s) /\ Len(s) = n
  BY FunctionIs
<1>2. \A i \in 1..n : /\ ~Jumpy(s[i]) /\ Goals(s[i]) = {}
                      /\ s[i].do # "start" /\ s[i].do # "finish"
  BY DEF Jumpy, Goals
<1>3. StartsAt(s) = {} /\ Starts(s) = {}
  BY <1>1, <1>2 DEF StartsAt, Starts
<1>4. QED
  BY <1>1, <1>2, <1>3 DEF Fits

LEMMA FitsMap ==
  ASSUME NEW l \in Seq(Trees), NEW A
  PROVE  Fits(Map(l, Visit), {}, A, "closed") /\ Fits(Map(l, Eval), {}, A, "closed")
<1>1. Len(l) \in Nat /\ \A i \in 1..Len(l) : l[i] \in Trees
  OBVIOUS
<1>2. \A n \in Trees : /\ TaskOK(Visit(n)) /\ Visit(n).do = "visit"
                       /\ TaskOK(Eval(n)) /\ Eval(n).do = "eval"
  BY DEF TaskOK, Visit, Eval, Task
<1>3. Fits(Map(l, Visit), {}, A, "closed")
  <2> DEFINE s == Map(l, Visit)
  <2>1. s = [i \in 1..Len(l) |-> Visit(l[i])]
    BY DEF Map
  <2> HIDE DEF s
  <2>2. s = [i \in 1..Len(l) |-> s[i]] /\ \A i \in 1..Len(l) : s[i] = Visit(l[i])
    BY <2>1
  <2>3. Fits(s, {}, A, "closed")
    BY <1>1, <1>2, <2>2, FitsEach
  <2>4. QED
    BY <2>3 DEF s
<1>4. Fits(Map(l, Eval), {}, A, "closed")
  <2> DEFINE s == Map(l, Eval)
  <2>1. s = [i \in 1..Len(l) |-> Eval(l[i])]
    BY DEF Map
  <2> HIDE DEF s
  <2>2. s = [i \in 1..Len(l) |-> s[i]] /\ \A i \in 1..Len(l) : s[i] = Eval(l[i])
    BY <2>1
  <2>3. Fits(s, {}, A, "closed")
    BY <1>1, <1>2, <2>2, FitsEach
  <2>4. QED
    BY <2>3 DEF s
<1>5. QED
  BY <1>3, <1>4

-----------------------------------------------------------------------------
(* The inductive invariant.                                                *)

LandsIn(bs, P) ==
  \A b \in 1..Len(bs) : \A i \in TargetsIn(bs[b].insts) : bs[b].insts[i].to \in P
EndedBut(bs, P, x) ==
  \A b \in P \ {x} : bs[b].next = NoBlock => OpOf(bs[b].insts) = "RET"
Fresh(bs, P, b) ==
  b \in 1..Len(bs) /\ b \notin P /\ bs[b].next = NoBlock /\ bs[b].insts = << >>
FollowIn(bs) == {bs[b].next : b \in 1..Len(bs)} \ {NoBlock}
Exit == funcs[Len(funcs)].exit

\* The end of a function that FinishFunction completes.
Closing(s) ==
  \A i \in 1..Len(s) : IF i = Len(s) THEN s[i].do = "return" ELSE s[i].do \in {"start", "result"}

LayoutInv ==
  /\ program \in Seq(Trees) /\ IsSeq(funcs)
  /\ Edges(blocks)
  /\ Entries \subseteq BlockIds
  /\ PlacedOnce

\* Nothing is left to do, and every block that is placed is finished.
Finished(bs, P, w) == w = << >> /\ EndedBut(bs, P, NoBlock) /\ LandsIn(bs, P)

\* Between two functions, or at the end.
Idle == work = << >> /\ (crashed \/ Finished(blocks, Placed, work))

\* The entry block is about to be started.
Launching ==
  /\ work # << >> /\ ~crashed /\ cur = NoBlock
  /\ Top.do = "start" /\ Top.bb \in Placed
  /\ blocks[Top.bb].next = NoBlock /\ blocks[Top.bb].insts = << >>
  /\ IsSeq(work) /\ Fits(Tail(work), {}, Placed, "finish")
  /\ EndedBut(blocks, Placed, Top.bb) /\ LandsIn(blocks, Placed)
  /\ Fresh(blocks, Placed, Exit)

\* P are the blocks bs placed, c the current one, w the tasks, x the exit block.
\* A block named anywhere is placed or has a task that starts it, and only c is
\* unfinished.
Runs(bs, P, c, w, x) ==
  /\ w # << >> /\ P \subseteq 1..Len(bs)
  /\ c \in P /\ bs[c].next = NoBlock
  /\ \A b \in Starts(w) : Fresh(bs, P, b)
  /\ EndedBut(bs, P, c) /\ LandsIn(bs, P \cup Starts(w))
  /\ OpOf(bs[c].insts) = "JMP" => Head(w).do = "start"
  /\ \/ /\ Fits(w, Starts(w), P \cup Starts(w), "finish")
        /\ Fresh(bs, P, x) /\ x \notin Starts(w)
     \/ Fits(w, Starts(w), P \cup Starts(w), "closed") /\ Closing(w)

Lowering == ~crashed /\ Runs(blocks, Placed, cur, work, Exit)

IInv == LayoutInv /\ (Idle \/ Launching \/ Lowering)

-----------------------------------------------------------------------------
(* What the methods do to the blocks: add to the current one, and create   *)
(* some that are empty.                                                    *)

Extends(bs, cs, c, N) ==
  /\ Len(bs) \in Nat /\ Len(cs) \in Nat /\ Len(bs) <= Len(cs)
  /\ N = Len(bs) + 1..Len(cs)
  /\ \A a \in 1..Len(bs) : cs[a].next = bs[a].next /\ (a # c => cs[a].insts = bs[a].insts)
  /\ \A a \in N : cs[a].next = NoBlock /\ cs[a].insts = << >>

\* The tasks s replace the first of w.
Pushed(bs, cs, P, c, w, s, N, end) ==
  /\ Extends(bs, cs, c, N)
  /\ Head(w).do \notin {"start", "finish"}
  /\ Fits(s, N, N \cup Goals(Head(w)), end)
  /\ end = "closed" \/ (end = "open" /\ Jumpy(Head(w)))
  /\ Head(w).do \in {"result", "return"} => s = << >>
  /\ Head(w).do = "return" => OpOf(cs[c].insts) = "RET"
  /\ OpOf(cs[c].insts) = "JMP" => s = << >> /\ Jumpy(Head(w))
  /\ LandsIn(cs, P \cup Starts(w))

LEMMA NothingBefore ==
  ASSUME NEW s, NEW t, IsSeq(s), IsSeq(t), s = << >>
  PROVE  s \o t = t /\ t \o s = t
<1>1. PICK S : t \in Seq(S)
  BY DEF IsSeq
<1>2. QED
  BY <1>1

\* A task of a method in progress: never the last one but for a return.
LEMMA PushRuns ==
  ASSUME NEW bs, NEW cs, NEW P, NEW c, NEW w, NEW x, NEW s, NEW N, NEW end,
         Runs(bs, P, c, w, x), Pushed(bs, cs, P, c, w, s, N, end)
  PROVE  Runs(cs, P, c, s \o Tail(w), x) \/ Finished(cs, P, s \o Tail(w))
<1> DEFINE v == s \o Tail(w)
           M == Starts(Tail(w))
           A == P \cup M \cup N
<1>1. /\ w # << >> /\ P \subseteq 1..Len(bs) /\ c \in P /\ bs[c].next = NoBlock
      /\ \A b \in Starts(w) : Fresh(bs, P, b)
      /\ EndedBut(bs, P, c)
  BY DEF Runs
<1>2. PICK last \in {"finish", "closed"} :
        /\ Fits(w, Starts(w), P \cup Starts(w), last)
        /\ last = "finish" => Fresh(bs, P, x) /\ x \notin Starts(w)
        /\ last = "closed" => Closing(w)
  BY DEF Runs
<1>3. /\ Head(w).do # "start" /\ Head(w).do # "finish"
      /\ Extends(bs, cs, c, N)
      /\ Fits(s, N, N \cup Goals(Head(w)), end)
      /\ LandsIn(cs, P \cup Starts(w))
  BY DEF Pushed
<1>4. /\ Head(w) = w[1] /\ Len(Tail(w)) = Len(w) - 1
      /\ M = Starts(w)
      /\ Fits(Tail(w), M, P \cup M, last)
      /\ Jumpy(Head(w)) => Tail(w) # << >> /\ Tail(w)[1].do = "start"
      /\ Goals(Head(w)) \subseteq P \cup M
  BY <1>1, <1>2, <1>3, FitsTail
<1>5. IsSeq(s) /\ IsSeq(Tail(w)) /\ IsSeq(w)
  BY <1>2, <1>3, <1>4 DEF Fits
<1>6. s = << >> => v = Tail(w)
  BY <1>5, NothingBefore
<1>7. N \cap M = {}
  BY <1>1, <1>3, <1>4 DEF Fresh, Extends
<1>8. Fits(s, N, A, end) /\ Fits(Tail(w), M, A, last)
  <2>1. N \cup Goals(Head(w)) \subseteq A /\ P \cup M \subseteq A
    BY <1>4
  <2>2. QED
    BY <1>3, <1>4, <2>1, FitsMore
<1>9. Fits(v, M \cup N, A, last) /\ Starts(v) = M \cup N
  <2>1. \/ end = "closed"
        \/ end = "open" /\ Tail(w) # << >> /\ Tail(w)[1].do = "start"
    BY <1>4 DEF Pushed
  <2>2. Fits(v, N \cup M, A, last)
    BY <1>7, <1>8, <2>1, FitsConcat
  <2>3. N \cup M = M \cup N
    OBVIOUS
  <2>4. QED
    BY <2>2, <2>3 DEF Fits
<1>10. \A b : Fresh(bs, P, b) => Fresh(cs, P, b) /\ b \notin N
  BY <1>1, <1>3 DEF Fresh, Extends
<1>11. \A b \in M \cup N : Fresh(cs, P, b)
  BY <1>1, <1>3, <1>4, <1>10 DEF Fresh, Extends
<1>12. EndedBut(cs, P, c)
  BY <1>1, <1>3 DEF EndedBut, Extends
<1>13. P \subseteq 1..Len(cs) /\ cs[c].next = NoBlock
  BY <1>1, <1>3 DEF Extends
<1>14. LandsIn(cs, P \cup M) /\ LandsIn(cs, P \cup (M \cup N))
  BY <1>3, <1>4 DEF LandsIn
<1>15. v # << >> /\ OpOf(cs[c].insts) = "JMP" => Head(v).do = "start"
  <2>1. ASSUME OpOf(cs[c].insts) = "JMP"
        PROVE  Head(v).do = "start"
    <3>1. s = << >> /\ Jumpy(Head(w))
      BY <2>1 DEF Pushed
    <3>2. v = Tail(w) /\ v # << >> /\ v[1].do = "start"
      BY <3>1, <1>4, <1>6
    <3>3. Head(v) = v[1]
      BY <3>2, <1>5, TailIs
    <3>4. QED
      BY <3>2, <3>3
  <2>2. QED
    BY <2>1
<1>16. CASE last = "finish"
  <2>1. v # << >>
    BY <1>9, <1>16 DEF Fits
  <2>2. Fresh(cs, P, x) /\ x \notin M \cup N
    BY <1>2, <1>4, <1>10, <1>16
  <2>3. P \cup (M \cup N) = A
    OBVIOUS
  <2>4. Fits(v, Starts(v), P \cup Starts(v), "finish")
    BY <1>9, <1>16, <2>3
  <2>5. QED
    BY <2>1, <2>2, <2>4, <1>1, <1>9, <1>11, <1>12, <1>13, <1>14, <1>15 DEF Runs
<1>17. CASE last = "closed" /\ Head(w).do = "return"
  <2>1. s = << >> /\ OpOf(cs[c].insts) = "RET"
    BY <1>17 DEF Pushed
  <2>2. Len(w) \in Nat /\ Len(w) # 0 /\ 1 \in 1..Len(w)
    BY <1>1, <1>5, SeqIs
  <2>3. Closing(w) /\ w[1].do = "return"
    BY <1>2, <1>4, <1>17
  <2>4. Len(w) = 1
    BY <2>2, <2>3 DEF Closing
  <2>5. Len(Tail(w)) = 0 /\ Tail(w) = << >> /\ v = Tail(w)
    <3>1. Len(Tail(w)) = 0
      BY <1>4, <2>4
    <3>2. Tail(w) = << >>
      BY <1>5, <3>1, SeqIs
    <3>3. QED
      BY <1>6, <2>1, <3>1, <3>2
  <2>6. M = {}
    <3>1. Fits(<< >>, {}, P, "closed")
      BY FitsNone
    <3>2. Starts(<< >>) = {}
      BY <3>1 DEF Fits
    <3>3. QED
      BY <2>5, <3>2
  <2>7. EndedBut(cs, P, NoBlock)
    BY <1>12, <2>1 DEF EndedBut
  <2>8. P \cup M = P
    BY <2>6
  <2>9. QED
    BY <2>5, <2>7, <2>8, <1>14 DEF Finished
<1>18. CASE last = "closed" /\ Head(w).do # "return"
  <2>1. Len(w) \in Nat /\ Len(w) # 0 /\ 1 \in 1..Len(w)
    BY <1>1, <1>5, SeqIs
  <2>2. Head(w).do = "result" /\ Len(w) # 1
    BY <1>2, <1>3, <1>4, <1>18, <2>1 DEF Closing
  <2>3. s = << >>
    BY <2>2 DEF Pushed
  <2>4. v = Tail(w) /\ v # << >>
    <3>1. Len(Tail(w)) # 0
      BY <1>4, <2>1, <2>2
    <3>2. Tail(w) # << >>
      BY <1>5, <3>1, SeqIs
    <3>3. QED
      BY <1>6, <2>3, <3>2
  <2>5. \A i \in 1..Len(w) - 1 : Tail(w)[i] = w[i + 1]
    BY <1>1, <1>5, TailIs
  <2>6. Closing(v)
    <3>1. \A i \in 1..Len(w) - 1 : i + 1 \in 1..Len(w) /\ (i + 1 = Len(w) <=> i = Len(w) - 1)
      BY <2>1
    <3>2. QED
      BY <1>2, <1>4, <1>18, <2>4, <2>5, <3>1 DEF Closing
  <2>7. P \cup (M \cup N) = A
    OBVIOUS
  <2>8. Fits(v, Starts(v), P \cup Starts(v), "closed")
    BY <1>9, <1>18, <2>7
  <2>9. QED
    BY <2>4, <2>6, <2>8, <1>1, <1>9, <1>11, <1>12, <1>13, <1>14, <1>15 DEF Runs
<1>19. QED
  BY <1>2, <1>16, <1>17, <1>18

\* The current block falls through, jumps or returns; the next one is started.
LEMMA StartRuns ==
  ASSUME NEW bs, NEW cs, NEW P, NEW c, NEW w, NEW x, NEW b,
         Runs(bs, P, c, w, x), Head(w).do = "start", b = Head(w).bb,
         Len(cs) = Len(bs), cs[c].next = b,
         \A a \in 1..Len(bs) : cs[a].insts = bs[a].insts /\ (a # c => cs[a].next = bs[a].next)
  PROVE  Runs(cs, P \cup {b}, b, Tail(w), x) /\ Fresh(bs, P, b)
<1> DEFINE M == Starts(Tail(w))
           Q == P \cup {b}
<1>1. /\ w # << >> /\ P \subseteq 1..Len(bs) /\ c \in P /\ bs[c].next = NoBlock
      /\ \A a \in Starts(w) : Fresh(bs, P, a)
      /\ EndedBut(bs, P, c) /\ LandsIn(bs, P \cup Starts(w))
  BY DEF Runs
<1>2. PICK last \in {"finish", "closed"} :
        /\ Fits(w, Starts(w), P \cup Starts(w), last)
        /\ last = "finish" => Fresh(bs, P, x) /\ x \notin Starts(w)
        /\ last = "closed" => Closing(w)
  BY DEF Runs
<1>3. /\ Head(w) = w[1] /\ Len(Tail(w)) = Len(w) - 1
      /\ M = Starts(w) \ {b} /\ b \in Starts(w)
      /\ Fits(Tail(w), M, P \cup Starts(w), last)
  BY <1>1, <1>2, FitsTail
<1>4. Fresh(bs, P, b)
  BY <1>1, <1>3
<1>5. IsSeq(Tail(w)) /\ IsSeq(w)
  BY <1>2, <1>3 DEF Fits
<1>6. P \cup Starts(w) = Q \cup M /\ Q \subseteq 1..Len(cs)
  BY <1>1, <1>3, <1>4 DEF Fresh
<1>7. cs[b].next = NoBlock /\ cs[b].insts = << >> /\ OpOf(cs[b].insts) # "JMP"
  <2>1. cs[b].next = NoBlock /\ cs[b].insts = << >>
    BY <1>1, <1>4 DEF Fresh
  <2>2. QED
    BY <2>1 DEF OpOf
<1>8. \A a : Fresh(bs, P, a) /\ a # b => Fresh(cs, Q, a)
  BY <1>1 DEF Fresh
<1>9. \A a \in M : Fresh(cs, Q, a)
  BY <1>1, <1>3, <1>8
<1>10. EndedBut(cs, Q, b)
  <2>1. ASSUME NEW a \in Q \ {b}, cs[a].next = NoBlock
        PROVE  OpOf(cs[a].insts) = "RET"
    <3>1. a \in P /\ a \in 1..Len(bs) /\ a # c
      BY <1>1, <1>4, <2>1 DEF Fresh, NoBlock
    <3>2. QED
      BY <1>1, <2>1, <3>1 DEF EndedBut
  <2>2. QED
    BY <2>1 DEF EndedBut
<1>11. LandsIn(cs, Q \cup M)
  BY <1>1, <1>6 DEF LandsIn
<1>12. CASE last = "finish"
  <2>1. Tail(w) # << >> /\ Fits(Tail(w), M, Q \cup M, "finish")
    BY <1>3, <1>6, <1>12 DEF Fits
  <2>2. Fresh(cs, Q, x) /\ x \notin M
    BY <1>2, <1>3, <1>8, <1>12
  <2>3. QED
    BY <2>1, <2>2, <1>4, <1>6, <1>7, <1>9, <1>10, <1>11 DEF Runs
<1>13. CASE last = "closed"
  <2>1. Len(w) \in Nat /\ Len(w) # 0 /\ 1 \in 1..Len(w)
    BY <1>1, <1>5, SeqIs
  <2>2. Closing(w) /\ w[1].do # "return"
    BY <1>2, <1>3, <1>13
  <2>3. Len(w) # 1 /\ Len(Tail(w)) # 0
    BY <1>3, <2>1, <2>2 DEF Closing
  <2>4. Tail(w) # << >>
    BY <1>5, <2>3, SeqIs
  <2>5. \A i \in 1..Len(w) - 1 : Tail(w)[i] = w[i + 1]
    BY <1>1, <1>5, TailIs
  <2>6. Closing(Tail(w))
    <3>1. \A i \in 1..Len(w) - 1 : i + 1 \in 1..Len(w) /\ (i + 1 = Len(w) <=> i = Len(w) - 1)
      BY <2>1
    <3>2. QED
      BY <1>3, <2>2, <2>5, <3>1 DEF Closing
  <2>7. Fits(Tail(w), M, Q \cup M, "closed")
    BY <1>3, <1>6, <1>13
  <2>8. QED
    BY <2>4, <2>6, <2>7, <1>4, <1>6, <1>7, <1>9, <1>10, <1>11 DEF Runs
<1>14. QED
  BY <1>2, <1>4, <1>12, <1>13

\* The entry block of a function becomes the current one.
LEMMA LaunchRuns ==
  ASSUME NEW bs, NEW P, NEW w, NEW x, NEW b,
         IsSeq(w), w # << >>, P \subseteq 1..Len(bs), b \in P,
         bs[b].next = NoBlock, bs[b].insts = << >>,
         Fits(Tail(w), {}, P, "finish"), EndedBut(bs, P, b), LandsIn(bs, P), Fresh(bs, P, x)
  PROVE  Runs(bs, P, b, Tail(w), x)
<1>1. Starts(Tail(w)) = {} /\ Tail(w) # << >>
  BY DEF Fits
<1>2. P \cup {} = P
  OBVIOUS
<1>3. OpOf(bs[b].insts) # "JMP"
  BY DEF OpOf
<1>4. QED
  BY <1>1, <1>2, <1>3 DEF Runs

\* The end of a body: nothing more, or the return it lacks, in the exit block.
LEMMA FinishRuns ==
  ASSUME NEW bs, NEW P, NEW c, NEW w, NEW x, NEW v,
         Runs(bs, P, c, w, x), Head(w).do = "finish"
  PROVE  /\ OpOf(bs[c].insts) = "RET" => Finished(bs, P, << >> \o Tail(w))
         /\ OpOf(bs[c].insts) # "JMP"
         /\ LET s == <<Start(x), Result(v), Then("return", None)>>
            IN OpOf(bs[c].insts) # "RET" => Runs(bs, P, c, s \o Tail(w), x)
<1> DEFINE s == <<Start(x), Result(v), Then("return", None)>>
<1>1. /\ w # << >> /\ P \subseteq 1..Len(bs) /\ c \in P /\ bs[c].next = NoBlock
      /\ EndedBut(bs, P, c) /\ LandsIn(bs, P \cup Starts(w))
      /\ OpOf(bs[c].insts) # "JMP"
  BY DEF Runs
<1>2. PICK last \in {"finish", "closed"} :
        /\ Fits(w, Starts(w), P \cup Starts(w), last)
        /\ last = "finish" => Fresh(bs, P, x) /\ x \notin Starts(w)
        /\ last = "closed" => Closing(w)
  BY DEF Runs
<1>3. IsSeq(w)
  BY <1>2 DEF Fits
<1>4. /\ Len(w) \in Nat /\ Len(w) # 0 /\ 1 \in 1..Len(w)
      /\ Head(w) = w[1] /\ IsSeq(Tail(w)) /\ Len(Tail(w)) = Len(w) - 1
  BY <1>1, <1>3, SeqIs, TailIs
<1>5. last = "finish" /\ Len(w) = 1
  BY <1>2, <1>4 DEF Fits
<1>6. Tail(w) = << >> /\ << >> \o Tail(w) = << >>
  <2>1. Len(Tail(w)) = 0
    BY <1>4, <1>5
  <2>2. Tail(w) = << >>
    BY <1>4, <2>1, SeqIs
  <2>3. QED
    BY <1>4, <2>2, NothingBefore
<1>7. Starts(w) = {} /\ P \cup Starts(w) = P /\ LandsIn(bs, P)
  <2>1. \A i \in 1..Len(w) : w[i].do = "finish"
    BY <1>4, <1>5
  <2>2. StartsAt(w) = {}
    BY <2>1 DEF StartsAt
  <2>3. Starts(w) = {}
    BY <2>2 DEF Starts
  <2>4. QED
    BY <1>1, <2>3
<1>8. ASSUME OpOf(bs[c].insts) = "RET"
      PROVE  Finished(bs, P, << >> \o Tail(w))
  <2>1. EndedBut(bs, P, NoBlock)
    BY <1>1, <1>8 DEF EndedBut
  <2>2. QED
    BY <1>6, <1>7, <2>1 DEF Finished
<1>9. Fresh(bs, P, x)
  BY <1>2, <1>5
<1>10. Runs(bs, P, c, s \o Tail(w), x)
  <2>1. Fits(s, {x}, P \cup {x}, "closed")
    <3>1. Fits(<<Start(x)>>, {x}, P \cup {x}, "closed")
      BY FitsStart
    <3>2. /\ Result(v).do = "result" /\ Then("return", None).do = "return"
      BY DEF Result, Then, Task
    <3>3. /\ TaskOK(Result(v)) /\ TaskOK(Then("return", None))
          /\ ~Jumpy(Result(v)) /\ ~Jumpy(Then("return", None))
      BY <3>2 DEF TaskOK, Jumpy
    <3>4. Goals(Result(v)) = {} /\ Goals(Then("return", None)) = {}
      BY <3>2, <3>3 DEF Goals
    <3>5. /\ Fits(<<Result(v)>>, {}, P \cup {x}, "closed")
          /\ Fits(<<Then("return", None)>>, {}, P \cup {x}, "closed")
      BY <3>2, <3>3, <3>4, FitsOne
    <3>6. Fits(<<Result(v), Then("return", None)>>, {}, P \cup {x}, "closed")
      BY <3>5, FitsTwo
    <3>7. Fits(<<Start(x)>> \o <<Result(v), Then("return", None)>>, {x} \cup {}, P \cup {x}, "closed")
      BY <3>1, <3>6, FitsConcat
    <3>8. s = <<Start(x)>> \o <<Result(v), Then("return", None)>> /\ {x} \cup {} = {x}
      OBVIOUS
    <3>9. QED
      BY <3>7, <3>8
  <2>2. s \o Tail(w) = s
    <3>1. IsSeq(s)
      BY <2>1 DEF Fits
    <3>2. QED
      BY <1>4, <1>6, <3>1, NothingBefore
  <2>3. /\ Len(s) = 3 /\ s[1].do = "start" /\ s[2].do = "result" /\ s[3].do = "return"
        /\ Head(s).do = "start" /\ s # << >>
    BY DEF Start, Result, Then, Task
  <2>4. Closing(s)
    BY <2>3 DEF Closing
  <2>5. Starts(s) = {x}
    BY <2>1 DEF Fits
  <2>6. LandsIn(bs, P \cup Starts(s))
    BY <1>7 DEF LandsIn
  <2>7. Runs(bs, P, c, s, x)
    BY <1>1, <1>9, <2>1, <2>3, <2>4, <2>5, <2>6 DEF Runs
  <2>8. QED
    BY <2>2, <2>7
<1>11. QED
  BY <1>1, <1>8, <1>10

-----------------------------------------------------------------------------
(* The blocks placed.                                                      *)

LEMMA PlacedIs ==
  ASSUME Edges(blocks), Entries \subseteq BlockIds
  PROVE  /\ Placed \subseteq BlockIds /\ Len(blocks) \in Nat
         /\ \A b \in BlockIds : b # NoBlock /\ b \in Nat /\ blocks[b].next \in 0..Len(blocks)
<1>1. \A b \in BlockIds : blocks[b].next \in 0..Len(blocks)
  BY DEF Edges, EdgesAt, BlockIds
<1>2. Len(blocks) \in Nat
  BY SeqIs DEF Edges, Blocks
<1>3. Follow \subseteq BlockIds
  BY <1>1, <1>2 DEF Follow, BlockIds, NoBlock
<1>4. \A b \in BlockIds : b # NoBlock /\ b \in Nat
  BY <1>2 DEF BlockIds, NoBlock
<1>5. QED
  BY <1>1, <1>2, <1>3, <1>4 DEF Placed

\* No method but startBBlock places a block.
LEMMA PlacedStay ==
  ASSUME Edges(blocks), NEW N, Extends(blocks, blocks', cur, N), funcs' = funcs
  PROVE  /\ Entries' = Entries /\ Follow' = Follow /\ Placed' = Placed
         /\ PlacedOnce => PlacedOnce'
         /\ Entries \subseteq BlockIds => (Entries \subseteq BlockIds)'
         /\ Exit' = Exit
<1>1. /\ Len(blocks) \in Nat /\ Len(blocks') \in Nat /\ Len(blocks) <= Len(blocks')
      /\ N = Len(blocks) + 1..Len(blocks')
      /\ \A a \in 1..Len(blocks) : blocks'[a].next = blocks[a].next
      /\ \A a \in N : blocks'[a].next = NoBlock
  BY DEF Extends
<1>2. BlockIds' = BlockIds \cup N
  BY <1>1 DEF BlockIds
<1>3. Entries' = Entries /\ Exit' = Exit
  BY DEF Entries, Exit
<1>4. \A a \in BlockIds' : \/ a \in BlockIds /\ blocks'[a].next = blocks[a].next
                           \/ a \in N /\ blocks'[a].next = NoBlock
  BY <1>1, <1>2 DEF BlockIds
<1>5. Follow' = Follow
  BY <1>1, <1>2, <1>4 DEF Follow, BlockIds
<1>6. Placed' = Placed
  BY <1>3, <1>5 DEF Placed
<1>7. PlacedOnce => PlacedOnce'
  BY <1>3, <1>4, <1>5 DEF PlacedOnce
<1>8. QED
  BY <1>2, <1>3, <1>5, <1>6, <1>7

\* A step of a method in progress: its tasks are s, its new blocks N.
LEMMA PushKeeps ==
  ASSUME IInv, Lowering, keepLayout, NEW s, NEW N, NEW end, Do(s), Edges(blocks'),
         Pushed(blocks, blocks', Placed, cur, work, s, N, end)
  PROVE  IInv'
<1>1. /\ program' = program /\ funcs' = funcs /\ cur' = cur /\ crashed' = crashed
      /\ work' = s \o Tail(work)
  BY DEF keepLayout, Do
<1>2. Extends(blocks, blocks', cur, N)
  BY DEF Pushed
<1>3. /\ Entries' = Entries /\ Follow' = Follow /\ Placed' = Placed
      /\ PlacedOnce' /\ (Entries \subseteq BlockIds)' /\ Exit' = Exit
  BY <1>1, <1>2, PlacedStay DEF IInv, LayoutInv
<1>4. \/ Runs(blocks', Placed, cur, work', Exit)
      \/ Finished(blocks', Placed, work')
  BY <1>1, PushRuns DEF Lowering
<1>5. Lowering' \/ Idle'
  BY <1>1, <1>3, <1>4 DEF Lowering, Idle, Finished
<1>6. LayoutInv'
  BY <1>1, <1>3 DEF IInv, LayoutInv
<1>7. QED
  BY <1>5, <1>6 DEF IInv

\* What is known of the task on top.
LEMMA TopIs ==
  ASSUME IInv, Lowering
  PROVE  /\ work # << >> /\ Top = Head(work) /\ TaskOK(Top)
         /\ Goals(Top) \subseteq Placed \cup Starts(work)
         /\ Placed \cup Starts(work) \subseteq BlockIds
         /\ Placed \subseteq BlockIds
         /\ cur \in BlockIds /\ blocks[cur].next = NoBlock /\ LastOp(cur) = OpOf(blocks[cur].insts)
         /\ LastOp(cur) = "JMP" => Top.do = "start"
         /\ Edges(blocks) /\ Blocks(blocks) /\ LandsIn(blocks, Placed \cup Starts(work))
<1>1. /\ work # << >> /\ cur \in Placed /\ blocks[cur].next = NoBlock
      /\ \A b \in Starts(work) : Fresh(blocks, Placed, b)
      /\ OpOf(blocks[cur].insts) = "JMP" => Head(work).do = "start"
      /\ LandsIn(blocks, Placed \cup Starts(work))
  BY DEF Lowering, Runs
<1>2. PICK last : Fits(work, Starts(work), Placed \cup Starts(work), last)
  BY DEF Lowering, Runs
<1>3. IsSeq(work) /\ Len(work) \in Nat /\ Len(work) # 0 /\ Head(work) = work[1]
  BY <1>1, <1>2, SeqIs, TailIs DEF Fits
<1>4. 1 \in 1..Len(work)
  BY <1>3
<1>5. Top = Head(work) /\ Top = work[1]
  BY <1>3 DEF Top
<1>6. TaskOK(Top) /\ Goals(Top) \subseteq Placed \cup Starts(work)
  BY <1>2, <1>4, <1>5 DEF Fits
<1>7. Placed \subseteq BlockIds /\ Edges(blocks) /\ Blocks(blocks)
  BY PlacedIs DEF IInv, LayoutInv, Edges
<1>8. Starts(work) \subseteq BlockIds
  BY <1>1 DEF Fresh, BlockIds
<1>9. LastOp(cur) = OpOf(blocks[cur].insts)
  BY DEF LastOp, OpOf
<1>10. QED
  BY <1>1, <1>5, <1>6, <1>7, <1>8, <1>9

\* A step that only pushes tasks.
LEMMA PlanKeeps ==
  ASSUME IInv, Lowering, keepLayout, blocks' = blocks, NEW s, NEW end, Do(s),
         Top.do \notin {"start", "finish", "return"}, Fits(s, {}, Goals(Top), end),
         end = "closed" \/ (end = "open" /\ Jumpy(Top)), Top.do = "result" => s = << >>
  PROVE  IInv'
<1>1. /\ Top = Head(work) /\ cur \in BlockIds /\ Edges(blocks) /\ Blocks(blocks)
      /\ LastOp(cur) = OpOf(blocks[cur].insts)
      /\ LastOp(cur) = "JMP" => Top.do = "start"
      /\ LandsIn(blocks, Placed \cup Starts(work))
  BY TopIs
<1>2. Len(blocks) \in Nat
  BY <1>1, SeqIs DEF Blocks
<1>3. Extends(blocks, blocks', cur, {})
  BY <1>2 DEF Extends
<1>4. {} \cup Goals(Top) = Goals(Top)
  OBVIOUS
<1>5. Pushed(blocks, blocks', Placed, cur, work, s, {}, end)
  BY <1>1, <1>3, <1>4 DEF Pushed
<1>6. QED
  BY <1>1, <1>5, PushKeeps

\* A step that adds an instruction without a target.
LEMMA EmitKeeps ==
  ASSUME IInv, Lowering, keepLayout, NEW x, Emit(x), x.to = NoBlock, x.op \notin {"JMP", "IJMP"},
         NEW s, Do(s), Top.do \notin {"start", "finish"}, Fits(s, {}, Goals(Top), "closed"),
         Top.do \in {"result", "return"} => s = << >>, Top.do = "return" => x.op = "RET"
  PROVE  IInv'
<1>1. /\ Top = Head(work) /\ cur \in BlockIds /\ Edges(blocks) /\ Blocks(blocks)
      /\ blocks[cur].next = NoBlock /\ LandsIn(blocks, Placed \cup Starts(work))
  BY TopIs
<1>2. cur \in 1..Len(blocks) /\ Len(blocks) \in Nat
  BY <1>1, SeqIs DEF BlockIds, Blocks
<1>3. blocks' = WithInst(blocks, cur, x)
  BY DEF Emit
<1>4. Edges(blocks')
  BY <1>1, <1>2, <1>3, EdgesInst
<1>5. /\ Len(blocks') = Len(blocks)
      /\ blocks'[cur].insts = Append(blocks[cur].insts, x)
      /\ \A a \in 1..Len(blocks) : /\ a # cur => blocks'[a].insts = blocks[a].insts
                                   /\ blocks'[a].next = blocks[a].next
  BY <1>1, <1>2, <1>3, WithInstIs
<1>6. /\ IsSeq(blocks[cur].insts) /\ OpOf(blocks'[cur].insts) = x.op
      /\ TargetsIn(blocks'[cur].insts) = TargetsIn(blocks[cur].insts)
      /\ \A i \in TargetsIn(blocks[cur].insts) : blocks'[cur].insts[i].to = blocks[cur].insts[i].to
  <2> DEFINE insts == blocks[cur].insts
             more == blocks'[cur].insts
  <2>1. IsSeq(insts)
    BY <1>1, <1>2, BlockIs
  <2>2. more = Append(insts, x)
    BY <1>5
  <2> HIDE DEF insts, more
  <2>3. OpOf(more) = x.op
    BY <2>1, <2>2, OneMoreInst
  <2>4. /\ DOMAIN insts = 1..Len(insts) /\ DOMAIN more = 1..Len(insts) + 1
        /\ \A i \in 1..Len(insts) : more[i] = insts[i]
        /\ more[Len(insts) + 1] = x /\ Len(insts) \in Nat
    BY <2>1, <2>2, AppendIs, SeqIs
  <2>5. TargetsIn(more) = TargetsIn(insts) /\ \A i \in TargetsIn(insts) : more[i].to = insts[i].to
    BY <2>4 DEF TargetsIn
  <2>6. QED
    BY <2>1, <2>3, <2>5 DEF insts, more
<1>7. LandsIn(blocks', Placed \cup Starts(work))
  BY <1>1, <1>5, <1>6 DEF LandsIn
<1>8. Extends(blocks, blocks', cur, {})
  BY <1>2, <1>5 DEF Extends
<1>9. {} \cup Goals(Top) = Goals(Top)
  OBVIOUS
<1>10. Pushed(blocks, blocks', Placed, cur, work, s, {}, "closed")
  BY <1>1, <1>6, <1>7, <1>8, <1>9 DEF Pushed
<1>11. QED
  BY <1>4, <1>10, PushKeeps

\* A step that adds a branch or a jump.
LEMMA BranchKeeps ==
  ASSUME IInv, Lowering, keepLayout, NEW b, NEW x,
         blocks' = WithInst(WithEdge(blocks, cur, b), cur, x),
         b \in Goals(Top), x.to = b, x.op # "IJMP", Jumpy(Top),
         NEW s, NEW end \in {"closed", "open"}, Do(s), Fits(s, {}, Goals(Top), end),
         x.op = "JMP" => s = << >>
  PROVE  IInv'
<1>1. /\ Top = Head(work) /\ cur \in BlockIds /\ Edges(blocks) /\ Blocks(blocks)
      /\ blocks[cur].next = NoBlock /\ LandsIn(blocks, Placed \cup Starts(work))
      /\ Goals(Top) \subseteq Placed \cup Starts(work)
      /\ Placed \cup Starts(work) \subseteq BlockIds
  BY TopIs
<1>2. cur \in 1..Len(blocks) /\ Len(blocks) \in Nat /\ b \in 1..Len(blocks)
  BY <1>1, SeqIs DEF BlockIds, Blocks
<1>3. Edges(blocks')
  BY <1>1, <1>2, EdgesJump
<1> DEFINE ds == WithEdge(blocks, cur, b)
<1>4. /\ Blocks(ds) /\ Len(ds) = Len(blocks)
      /\ \A a \in 1..Len(blocks) : ds[a].insts = blocks[a].insts /\ ds[a].next = blocks[a].next
  <2>1. EdgeAdded(blocks, ds, cur, b)
    BY <1>1, <1>2, WithEdgeIs
  <2>2. QED
    BY <2>1 DEF EdgeAdded
<1> HIDE DEF ds
<1>5. blocks' = WithInst(ds, cur, x)
  BY DEF ds
<1>6. /\ Len(blocks') = Len(blocks)
      /\ blocks'[cur].insts = Append(blocks[cur].insts, x)
      /\ \A a \in 1..Len(blocks) : /\ a # cur => blocks'[a].insts = blocks[a].insts
                                   /\ blocks'[a].next = blocks[a].next
  <2>1. cur \in 1..Len(ds)
    BY <1>2, <1>4
  <2>2. LET es == WithInst(ds, cur, x)
        IN /\ Len(es) = Len(ds) /\ es[cur].insts = Append(ds[cur].insts, x)
           /\ \A a \in 1..Len(ds) : (a # cur => es[a].insts = ds[a].insts) /\ es[a].next = ds[a].next
    BY <1>4, <2>1, WithInstIs
  <2>3. QED
    BY <1>2, <1>4, <1>5, <2>2
<1>7. /\ OpOf(blocks'[cur].insts) = x.op
      /\ \A i \in TargetsIn(blocks'[cur].insts) :
           \/ i \in TargetsIn(blocks[cur].insts) /\ blocks'[cur].insts[i].to = blocks[cur].insts[i].to
           \/ blocks'[cur].insts[i].to = b
  <2> DEFINE insts == blocks[cur].insts
             more == blocks'[cur].insts
  <2>1. IsSeq(insts)
    BY <1>1, <1>2, BlockIs
  <2>2. more = Append(insts, x)
    BY <1>6
  <2> HIDE DEF insts, more
  <2>3. OpOf(more) = x.op
    BY <2>1, <2>2, OneMoreInst
  <2>4. /\ DOMAIN insts = 1..Len(insts) /\ DOMAIN more = 1..Len(insts) + 1
        /\ \A i \in 1..Len(insts) : more[i] = insts[i]
        /\ more[Len(insts) + 1] = x /\ Len(insts) \in Nat
    BY <2>1, <2>2, AppendIs, SeqIs
  <2>5. \A i \in TargetsIn(more) : \/ i \in TargetsIn(insts) /\ more[i].to = insts[i].to
                                  \/ more[i].to = b
    BY <2>4 DEF TargetsIn
  <2>6. QED
    BY <2>3, <2>5 DEF insts, more
<1>8. LandsIn(blocks', Placed \cup Starts(work))
  <2>1. SUFFICES ASSUME NEW a \in 1..Len(blocks), NEW i \in TargetsIn(blocks'[a].insts)
                 PROVE  blocks'[a].insts[i].to \in Placed \cup Starts(work)
    BY <1>6 DEF LandsIn
  <2>2. CASE a = cur
    BY <1>1, <1>2, <1>7, <2>1, <2>2 DEF LandsIn
  <2>3. CASE a # cur
    BY <1>1, <1>6, <2>1, <2>3 DEF LandsIn
  <2>4. QED
    BY <2>2, <2>3
<1>9. Extends(blocks, blocks', cur, {})
  BY <1>2, <1>6 DEF Extends
<1>10. {} \cup Goals(Top) = Goals(Top)
  OBVIOUS
<1>11. Top.do \notin {"start", "finish", "result", "return"}
  BY DEF Jumpy
<1>12. Pushed(blocks, blocks', Placed, cur, work, s, {}, end)
  BY <1>1, <1>7, <1>8, <1>9, <1>10, <1>11 DEF Pushed
<1>13. QED
  BY <1>3, <1>12, PushKeeps

\* A step that creates blocks, and pushes the tasks that start them.
LEMMA CreateKeeps ==
  ASSUME IInv, Lowering, keepLayout, NEW n \in Nat, Create(n), NEW s, NEW N, NEW end, Do(s),
         N = Len(blocks) + 1..Len(blocks) + n,
         Top.do \notin {"start", "finish", "return", "result"}, Fits(s, N, N \cup Goals(Top), end),
         end = "closed" \/ (end = "open" /\ Jumpy(Top))
  PROVE  IInv'
<1>1. /\ Top = Head(work) /\ cur \in BlockIds /\ Edges(blocks) /\ Blocks(blocks)
      /\ LastOp(cur) = OpOf(blocks[cur].insts)
      /\ LastOp(cur) = "JMP" => Top.do = "start"
      /\ LandsIn(blocks, Placed \cup Starts(work))
  BY TopIs
<1>2. cur \in 1..Len(blocks) /\ blocks' = Created(blocks, n)
  BY <1>1 DEF BlockIds, Create, Created
<1>3. Edges(blocks')
  BY <1>1, <1>2, EdgesCreate
<1>4. /\ Len(blocks') = Len(blocks) + n /\ Len(blocks) \in Nat
      /\ \A a \in 1..Len(blocks) : blocks'[a] = blocks[a]
      /\ \A a \in Len(blocks) + 1..Len(blocks) + n : blocks'[a] = NewBlock
  BY <1>1, <1>2, CreateIs
<1>5. NewBlock.next = NoBlock /\ NewBlock.insts = << >>
  BY DEF NewBlock
<1>6. Extends(blocks, blocks', cur, N)
  BY <1>4, <1>5 DEF Extends
<1>7. LandsIn(blocks', Placed \cup Starts(work))
  <2>1. \A a \in 1..Len(blocks') : a \in 1..Len(blocks) \/ blocks'[a].insts = << >>
    BY <1>4, <1>5
  <2>2. TargetsIn(<< >>) = {}
    BY EmptyIs DEF TargetsIn
  <2>3. QED
    BY <1>1, <1>4, <2>1, <2>2 DEF LandsIn
<1>8. Pushed(blocks, blocks', Placed, cur, work, s, N, end)
  BY <1>1, <1>2, <1>4, <1>6, <1>7 DEF Pushed
<1>9. QED
  BY <1>3, <1>8, PushKeeps

-----------------------------------------------------------------------------
(* The actions.                                                            *)

LEMMA IsRunning ==
  ASSUME IInv, work # << >>, Top.do # "start"
  PROVE  Lowering
BY DEF IInv, Idle, Launching

LEMMA CrashKeeps ==
  ASSUME IInv, Crash
  PROVE  IInv'
<1>1. /\ program' = program /\ funcs' = funcs /\ blocks' = blocks
      /\ crashed' = TRUE /\ work' = << >>
  BY DEF Crash
<1>2. LayoutInv'
  BY <1>1 DEF IInv, LayoutInv, Entries, BlockIds, PlacedOnce, Follow
<1>3. Idle'
  BY <1>1 DEF Idle
<1>4. QED
  BY <1>2, <1>3 DEF IInv

LEMMA StartKeeps ==
  ASSUME IInv, StartBBlock
  PROVE  IInv'
<1> DEFINE b == Top.bb
<1>1. /\ work # << >> /\ Top.do = "start" /\ cur' = b /\ work' = << >> \o Tail(work)
      /\ program' = program /\ funcs' = funcs /\ crashed' = crashed
      /\ blocks' = IF cur = NoBlock THEN blocks
                   ELSE LET linked == WithNext(blocks, cur, b)
                        IN IF LastOp(cur) \in {"JMP", "IJMP", "RET"} THEN linked
                           ELSE WithEdge(linked, cur, b)
  BY DEF StartBBlock, Doing, Do, WithNext
<1>2. Placed \subseteq BlockIds /\ Len(blocks) \in Nat /\ Edges(blocks) /\ Entries \subseteq BlockIds
  BY PlacedIs DEF IInv, LayoutInv
<1>3. CASE Launching
  <2>1. /\ ~crashed /\ cur = NoBlock /\ b \in Placed
        /\ blocks[b].next = NoBlock /\ blocks[b].insts = << >>
        /\ IsSeq(work) /\ Fits(Tail(work), {}, Placed, "finish")
        /\ EndedBut(blocks, Placed, b) /\ LandsIn(blocks, Placed)
        /\ Fresh(blocks, Placed, Exit)
    BY <1>3 DEF Launching
  <2>2. blocks' = blocks
    BY <1>1, <2>1
  <2>3. work' = Tail(work)
    <3>1. IsSeq(Tail(work)) /\ IsSeq(<< >>)
      BY <2>1, <1>1, TailIs, EmptyIs
    <3>2. QED
      BY <1>1, <3>1, NothingBefore
  <2>4. Runs(blocks, Placed, b, Tail(work), Exit)
    BY <1>1, <1>2, <2>1, LaunchRuns DEF BlockIds
  <2>5. Placed' = Placed /\ Exit' = Exit /\ LayoutInv'
    BY <1>1, <2>2 DEF Placed, Entries, Follow, Exit, BlockIds, IInv, LayoutInv, PlacedOnce
  <2>6. Lowering'
    BY <1>1, <2>1, <2>2, <2>3, <2>4, <2>5 DEF Lowering
  <2>7. QED
    BY <2>5, <2>6 DEF IInv
<1>4. CASE Lowering
  <2>1. ~crashed /\ Runs(blocks, Placed, cur, work, Exit)
    BY <1>4 DEF Lowering
  <2>2. /\ cur \in Placed /\ blocks[cur].next = NoBlock /\ Head(work).do = "start"
        /\ cur \in 1..Len(blocks) /\ cur # NoBlock
    BY <1>1, <1>2, <2>1 DEF Runs, Top, BlockIds, NoBlock
  <2>3. b \in 1..Len(blocks) /\ b \notin Placed /\ b \in Nat /\ b # NoBlock /\ IsSeq(work)
    <3>1. Fresh(blocks, Placed, b)
      <4>1. /\ \A a \in Starts(work) : Fresh(blocks, Placed, a)
            /\ \E A, last : Fits(work, Starts(work), A, last)
        BY <2>1 DEF Runs
      <4>2. b \in Starts(work)
        BY <1>1, <2>2, <4>1, FitsTail DEF Top
      <4>3. QED
        BY <4>1, <4>2
    <3>2. IsSeq(work)
      BY <2>1 DEF Runs, Fits
    <3>3. QED
      BY <1>2, <3>1, <3>2 DEF Fresh, NoBlock
  <2>4. LastOp(cur) = OpOf(blocks[cur].insts)
    BY DEF LastOp, OpOf
  <2>5. blocks' = LET linked == WithNext(blocks, cur, b)
                  IN IF OpOf(blocks[cur].insts) \in {"JMP", "IJMP", "RET"} THEN linked
                     ELSE WithEdge(linked, cur, b)
    BY <1>1, <2>2, <2>4
  <2>6. Edges(blocks')
    BY <1>2, <2>2, <2>3, <2>5, EdgesFall
  <2> DEFINE ls == WithNext(blocks, cur, b)
  <2>7. /\ Blocks(ls) /\ Len(ls) = Len(blocks) /\ ls[cur].next = b
        /\ \A a \in 1..Len(blocks) : ls[a].insts = blocks[a].insts /\ (a # cur => ls[a].next = blocks[a].next)
    BY <1>2, <2>2, <2>3, WithNextIs DEF Edges
  <2>8. EdgeAdded(ls, WithEdge(ls, cur, b), cur, b)
    <3> HIDE DEF ls
    <3>1. cur \in 1..Len(ls) /\ b \in 1..Len(ls)
      BY <2>2, <2>3, <2>7
    <3>2. QED
      BY <2>7, <3>1, WithEdgeIs
  <2>9. blocks' = ls \/ blocks' = WithEdge(ls, cur, b)
    BY <2>5
  <2>10. /\ Len(blocks') = Len(blocks) /\ blocks'[cur].next = b
         /\ \A a \in 1..Len(blocks) : /\ blocks'[a].insts = blocks[a].insts
                                      /\ a # cur => blocks'[a].next = blocks[a].next
    <3> HIDE DEF ls
    <3>1. QED
      BY <2>2, <2>7, <2>8, <2>9 DEF EdgeAdded
  <2>11. Runs(blocks', Placed \cup {b}, b, Tail(work), Exit)
    <3>1. b = Head(work).bb
      BY DEF Top
    <3> HIDE DEF b
    <3>2. QED
      BY <2>1, <2>2, <2>10, <3>1, StartRuns
  <2>12. Entries' = Entries /\ Exit' = Exit /\ BlockIds' = BlockIds
    BY <1>1, <2>10 DEF Entries, Exit, BlockIds
  <2>13. Follow' = Follow \cup {b} /\ Placed' = Placed \cup {b}
    <3>1. \A a \in BlockIds : a # cur => blocks'[a].next = blocks[a].next
      BY <2>10 DEF BlockIds
    <3>2. cur \in BlockIds
      BY <2>2 DEF BlockIds
    <3>3. Follow' = Follow \cup {b}
      BY <2>2, <2>3, <2>10, <2>12, <3>1, <3>2 DEF Follow
    <3>4. QED
      BY <2>12, <3>3 DEF Placed
  <2>14. PlacedOnce'
    <3>1. Entries \cap Follow = {} /\ b \notin Entries /\ b \notin Follow
      BY <2>3 DEF Placed, IInv, LayoutInv, PlacedOnce
    <3>2. (Entries \cap Follow = {})'
      BY <2>12, <2>13, <3>1
    <3>3. \A a \in BlockIds : blocks[a].next # b
      BY <2>3, <3>1 DEF Follow
    <3>4. \A a \in BlockIds : /\ a # cur => blocks'[a].next = blocks[a].next
                              /\ a = cur => blocks'[a].next = b
      BY <2>10 DEF BlockIds
    <3>5. \A a, c \in BlockIds : blocks[a].next = blocks[c].next /\ blocks[a].next # NoBlock => a = c
      BY DEF IInv, LayoutInv, PlacedOnce
    <3>6. \A a, c \in BlockIds : blocks'[a].next = blocks'[c].next /\ blocks'[a].next # NoBlock => a = c
      BY <3>3, <3>4, <3>5
    <3>7. QED
      BY <2>12, <3>2, <3>6 DEF PlacedOnce
  <2>15. LayoutInv'
    BY <1>1, <1>2, <2>6, <2>12, <2>14 DEF IInv, LayoutInv
  <2>16. work' = Tail(work)
    <3>1. IsSeq(Tail(work)) /\ IsSeq(<< >>)
      BY <2>3, <1>1, TailIs, EmptyIs
    <3>2. QED
      BY <1>1, <3>1, NothingBefore
  <2>17. Lowering'
    BY <1>1, <2>1, <2>11, <2>12, <2>13, <2>16 DEF Lowering
  <2>18. QED
    BY <2>15, <2>17 DEF IInv
<1>5. QED
  BY <1>1, <1>3, <1>4 DEF IInv, Idle

\* A task that ends, and leaves the code as it is.
LEMMA SkipKeeps ==
  ASSUME IInv, work # << >>, Top.do \notin {"start", "finish", "return"}, Do(<< >>), keepCode
  PROVE  IInv'
<1>1. Lowering
  BY IsRunning
<1>2. keepLayout /\ blocks' = blocks
  BY DEF keepCode, keepLayout
<1>3. Fits(<< >>, {}, Goals(Top), "closed")
  BY FitsNone
<1>4. QED
  BY <1>1, <1>2, <1>3, PlanKeeps

\* A task that is replaced by others, and leaves the code as it is.
LEMMA ReplaceKeeps ==
  ASSUME IInv, work # << >>, Top.do \notin {"start", "finish", "return", "result"}, keepCode,
         NEW s, NEW end, Do(s), Fits(s, {}, Goals(Top), end),
         end = "closed" \/ (end = "open" /\ Jumpy(Top))
  PROVE  IInv'
<1>1. Lowering
  BY IsRunning
<1>2. keepLayout /\ blocks' = blocks
  BY DEF keepCode, keepLayout
<1>3. QED
  BY <1>1, <1>2, PlanKeeps

\* A task that ends with an instruction.
LEMMA AddKeeps ==
  ASSUME IInv, work # << >>, Top.do \notin {"start", "finish"}, keepLayout, Do(<< >>),
         NEW x, Emit(x), x.to = NoBlock, x.op \notin {"JMP", "IJMP"}, Top.do = "return" => x.op = "RET"
  PROVE  IInv'
<1>1. Lowering
  BY IsRunning
<1>2. Fits(<< >>, {}, Goals(Top), "closed")
  BY FitsNone
<1>3. QED
  BY <1>1, <1>2, EmitKeeps

LEMMA JumpKeeps ==
  ASSUME IInv, GenJump
  PROVE  IInv'
<1> DEFINE b == Top.bb
           x == Inst("JMP", Null, Null, Null, b, None)
<1>1. /\ work # << >> /\ Top.do = "jump" /\ Do(<< >>) /\ keepLayout
      /\ blocks' = WithInst(WithEdge(blocks, cur, b), cur, x)
  BY DEF GenJump, Doing
<1>2. x.to = b /\ x.op = "JMP"
  BY DEF Inst
<1>3. Jumpy(Top) /\ b \in Goals(Top)
  BY <1>1 DEF Jumpy, Goals
<1>4. Lowering
  BY <1>1, IsRunning
<1>5. Fits(<< >>, {}, Goals(Top), "closed")
  BY FitsNone
<1> HIDE DEF b, x
<1>6. QED
  BY <1>1, <1>2, <1>3, <1>4, <1>5, BranchKeeps

LEMMA InstIs ==
  ASSUME NEW op, NEW dst, NEW src1, NEW src2, NEW to, NEW of
  PROVE  Inst(op, dst, src1, src2, to, of).op = op /\ Inst(op, dst, src1, src2, to, of).to = to
BY DEF Inst

LEMMA CodeKeeps ==
  ASSUME IInv, Code
  PROVE  IInv'
<1>1. CASE StartBBlock
  BY <1>1, StartKeeps
<1>2. CASE GenJump
  BY <1>2, JumpKeeps
<1>3. CASE GenMove
  <2> DEFINE x == Inst("MOV", Top.dst, Top.src, Null, NoBlock, None)
  <2>1. work # << >> /\ Top.do = "move" /\ Do(<< >>) /\ keepLayout /\ Emit(x)
    BY <1>3 DEF GenMove, Doing
  <2>2. x.to = NoBlock /\ x.op = "MOV"
    BY InstIs
  <2> HIDE DEF x
  <2>3. QED
    BY <2>1, <2>2, AddKeeps
<1>4. CASE Return
  <2>1. work # << >> /\ Top.do = "result" /\ Do(<< >>) /\ keepCode
    BY <1>4 DEF Return, Doing
  <2>2. QED
    BY <2>1, SkipKeeps
<1>5. QED
  BY <1>1, <1>2, <1>3, <1>4 DEF Code

LEMMA FunctionKeeps ==
  ASSUME IInv, VisitFunction
  PROVE  IInv'
<1> DEFINE entry == Len(blocks) + 1
           exit == Len(blocks) + 2
           f == [entry |-> entry, exit |-> exit]
           body == program[Len(funcs) + 1]
           rest == <<Visit(body), Then("finish", None)>>
<1>1. /\ work = << >> /\ ~crashed /\ Len(funcs) < Len(program)
      /\ funcs' = Append(funcs, f)
      /\ work' = <<Start(entry), Visit(body), Then("finish", None)>>
      /\ blocks' = Created(blocks, 2) /\ cur' = NoBlock
      /\ program' = program /\ crashed' = crashed
  BY DEF VisitFunction, New, Create, Created
<1>2. /\ Edges(blocks) /\ Blocks(blocks) /\ IsSeq(funcs) /\ program \in Seq(Trees)
      /\ Placed \subseteq BlockIds /\ Len(blocks) \in Nat
  BY PlacedIs DEF IInv, LayoutInv, Edges
<1>3. EndedBut(blocks, Placed, NoBlock) /\ LandsIn(blocks, Placed)
  BY <1>1 DEF IInv, Idle, Launching, Lowering, Runs, Finished
<1>4. Edges(blocks')
  BY <1>1, <1>2, EdgesCreate
<1>5. /\ Len(blocks') = Len(blocks) + 2
      /\ \A a \in 1..Len(blocks) : blocks'[a] = blocks[a]
      /\ \A a \in {entry, exit} : blocks'[a].next = NoBlock /\ blocks'[a].insts = << >>
      /\ 1..Len(blocks') = 1..Len(blocks) \cup {entry, exit}
  <2>1. /\ Len(blocks') = Len(blocks) + 2
        /\ \A a \in 1..Len(blocks) : blocks'[a] = blocks[a]
        /\ \A a \in Len(blocks) + 1..Len(blocks) + 2 : blocks'[a] = NewBlock
    <3>1. LET cs == Created(blocks, 2)
          IN /\ Len(cs) = Len(blocks) + 2
             /\ \A a \in 1..Len(blocks) : cs[a] = blocks[a]
             /\ \A a \in Len(blocks) + 1..Len(blocks) + 2 : cs[a] = NewBlock
      <4>1. 2 \in Nat
        OBVIOUS
      <4>2. QED
        BY <1>2, <4>1, CreateIs
    <3>2. QED
      BY <1>1, <3>1
  <2>2. entry \in Len(blocks) + 1..Len(blocks) + 2 /\ exit \in Len(blocks) + 1..Len(blocks) + 2
    BY <1>2
  <2>3. 1..Len(blocks') = 1..Len(blocks) \cup {entry, exit}
    BY <1>2, <2>1
  <2>4. QED
    BY <2>1, <2>2, <2>3 DEF NewBlock
<1>6. /\ IsSeq(funcs') /\ Len(funcs') = Len(funcs) + 1 /\ Len(funcs) \in Nat
      /\ \A i \in 1..Len(funcs) : funcs'[i] = funcs[i]
      /\ funcs'[Len(funcs) + 1] = f
      /\ DOMAIN funcs = 1..Len(funcs) /\ DOMAIN funcs' = 1..Len(funcs) + 1
  <2> HIDE DEF f
  <2>1. QED
    BY <1>1, <1>2, AppendIs, SeqIs
<1>7. f.entry = entry /\ f.exit = exit
  OBVIOUS
<1>8. Entries' = Entries \cup {entry} /\ Exit' = exit
  <2> HIDE DEF f, entry, exit
  <2>1. QED
    BY <1>6, <1>7 DEF Entries, Exit
<1>9. Follow' = Follow
  <2>1. BlockIds' = BlockIds \cup {entry, exit}
    BY <1>5 DEF BlockIds
  <2>2. \A a \in BlockIds : blocks'[a].next = blocks[a].next
    BY <1>5 DEF BlockIds
  <2> HIDE DEF entry, exit
  <2>3. QED
    BY <1>5, <2>1, <2>2 DEF Follow
<1>10. /\ entry \notin 1..Len(blocks) /\ exit \notin 1..Len(blocks) /\ entry # exit
       /\ entry \notin Placed /\ exit \notin Placed
  BY <1>2 DEF BlockIds
<1>11. Placed' = Placed \cup {entry}
  BY <1>8, <1>9 DEF Placed
<1>12. LayoutInv'
  <2>1. (Entries \subseteq BlockIds)'
    BY <1>5, <1>8 DEF BlockIds, IInv, LayoutInv
  <2>2. (Entries \cap Follow = {})'
    BY <1>8, <1>9, <1>10 DEF IInv, LayoutInv, PlacedOnce, Placed
  <2>3. \A a \in 1..Len(blocks') : \/ a \in 1..Len(blocks) /\ blocks'[a].next = blocks[a].next
                                   \/ blocks'[a].next = NoBlock
    BY <1>5
  <2>4. PlacedOnce'
    BY <2>2, <2>3 DEF IInv, LayoutInv, PlacedOnce, BlockIds
  <2>5. QED
    BY <1>1, <1>2, <1>4, <1>6, <2>1, <2>4 DEF LayoutInv
<1>13. Fits(rest, {}, Placed \cup {entry}, "finish")
  <2>1. body \in Trees
    BY <1>1, <1>2, <1>6
  <2>2. Fits(<<Visit(body)>>, {}, Placed \cup {entry}, "closed")
    BY <2>1, FitsTasks
  <2> DEFINE last == Then("finish", None)
  <2>3. last.do = "finish"
    BY DEF Then, Task
  <2>4. TaskOK(last) /\ ~Jumpy(last)
    BY <2>3 DEF TaskOK, Jumpy
  <2>5. Goals(last) = {}
    BY <2>3, <2>4 DEF Goals
  <2>6. Fits(<<last>>, {}, Placed \cup {entry}, "finish")
    BY <2>3, <2>4, <2>5, FitsOne
  <2>7. QED
    BY <2>2, <2>6, FitsTwo
<1>14. /\ work' # << >> /\ Head(work') = Start(entry) /\ Tail(work') = rest
  BY <1>1
<1>15. IsSeq(work') /\ Start(entry).do = "start" /\ Start(entry).bb = entry
  <2>1. IsSeq(rest)
    BY <1>13 DEF Fits
  <2>2. work' = <<Start(entry)>> \o rest
    BY <1>1
  <2>3. IsSeq(<<Start(entry)>>)
    BY OneIs
  <2> HIDE DEF rest
  <2>4. QED
    BY <2>1, <2>2, <2>3, ConcatIs DEF Start
<1>16. EndedBut(blocks', Placed \cup {entry}, entry)
  <2>1. \A a \in Placed : blocks'[a] = blocks[a] /\ a # NoBlock
    BY <1>2, <1>5 DEF BlockIds, NoBlock
  <2>2. QED
    BY <1>3, <2>1 DEF EndedBut
<1>17. LandsIn(blocks', Placed \cup {entry})
  <2>1. TargetsIn(<< >>) = {}
    BY EmptyIs DEF TargetsIn
  <2> HIDE DEF entry, exit
  <2>2. QED
    BY <1>3, <1>5, <2>1 DEF LandsIn
<1>18. Fresh(blocks', Placed \cup {entry}, exit)
  BY <1>5, <1>10 DEF Fresh
<1>19. Launching'
  <2> HIDE DEF entry, exit, rest
  <2>1. QED
    BY <1>1, <1>5, <1>8, <1>11, <1>13, <1>14, <1>15, <1>16, <1>17, <1>18 DEF Launching, Top
<1>20. QED
  BY <1>12, <1>19 DEF IInv

LEMMA FinishKeeps ==
  ASSUME IInv, FinishFunction
  PROVE  IInv'
<1> DEFINE s == <<Start(Exit), Result(Const(0)), Then("return", None)>>
<1>1. /\ work # << >> /\ Top.do = "finish" /\ Head(work).do = "finish"
      /\ program' = program /\ funcs' = funcs /\ blocks' = blocks /\ cur' = cur /\ crashed' = crashed
      /\ work' = IF LastOp(cur) \in {"RET", "JMP"} THEN << >> \o Tail(work) ELSE s \o Tail(work)
  BY DEF FinishFunction, Doing, Do, keepCode, Top, Exit
<1>2. Lowering
  BY <1>1, IsRunning
<1>3. LastOp(cur) = OpOf(blocks[cur].insts)
  BY DEF LastOp, OpOf
<1>4. Runs(blocks, Placed, cur, work, Exit) /\ ~crashed
  BY <1>2 DEF Lowering
<1>5. Entries' = Entries /\ Placed' = Placed /\ Exit' = Exit /\ LayoutInv'
  BY <1>1 DEF Placed, Entries, Follow, Exit, BlockIds, IInv, LayoutInv, PlacedOnce
<1>6. /\ OpOf(blocks[cur].insts) = "RET" => Finished(blocks, Placed, << >> \o Tail(work))
      /\ OpOf(blocks[cur].insts) # "JMP"
      /\ OpOf(blocks[cur].insts) # "RET" => Runs(blocks, Placed, cur, s \o Tail(work), Exit)
  BY <1>1, <1>4, FinishRuns
<1> HIDE DEF s
<1>7. Idle' \/ Lowering'
  <2>1. CASE OpOf(blocks[cur].insts) = "RET"
    <3>1. work' = << >> \o Tail(work)
      BY <1>1, <1>3, <2>1
    <3>2. Finished(blocks', Placed', work')
      BY <1>1, <1>5, <1>6, <2>1, <3>1
    <3>3. QED
      BY <3>2 DEF Idle, Finished
  <2>2. CASE OpOf(blocks[cur].insts) # "RET"
    <3>1. work' = s \o Tail(work)
      BY <1>1, <1>3, <1>6, <2>2
    <3>2. QED
      BY <1>1, <1>4, <1>5, <1>6, <2>2, <3>1 DEF Lowering
  <2>3. QED
    BY <2>1, <2>2
<1>8. QED
  BY <1>5, <1>7 DEF IInv

\* What a node of a tree has.
LEMMA NodeIs ==
  ASSUME NEW n \in Trees
  PROVE  /\ n.kind \in {"Unary", "Binary", "Index", "Member"} => n.a \in Trees
         /\ n.kind \in {"Binary", "Index"} => n.b \in Trees
         /\ n.kind \in {"Index", "Member"} => "op" \in DOMAIN n
         /\ n.kind = "Call" => n.func \in Trees /\ n.args \in Seq(Trees)
         /\ n.kind \in {"ExprStmt", "Return", "InitDeclarator"} => n.a \in Trees \cup {None}
         /\ n.kind \in {"If", "While", "Do"} => n.cond \in Trees
         /\ n.kind = "If" => n.then \in Trees \cup {None} /\ n.else \in Trees \cup {None}
         /\ n.kind \in {"While", "Do", "For", "Wrapped"} => n.body \in Trees \cup {None}
         /\ n.kind = "For" => /\ n.init \in Trees \cup {None} /\ n.cond \in Trees \cup {None}
                              /\ n.incr \in Trees \cup {None}
         /\ n.kind = "Compound" => n.decls \in Seq(Trees) /\ n.stmts \in Seq(Trees)
BY TreesAssumption DEF WellFormed

\* What is known of the node of the task on top.
LEMMA TopNodeIs ==
  ASSUME IInv, work # << >>, Top.do # "start"
  PROVE  /\ Lowering
         /\ Top.do \in {"visit", "eval", "branch", "for"} => Top.node \in Trees
         /\ Top.do = "for" => Top.node.kind = "For"
         /\ Top.do = "unary" => Top.node.op \in DOMAIN UnaryOps
         /\ Top.do = "call" => Top.node.args \in Seq(Trees)
         /\ Top.do = "test" => Top.op \in {"JCC", "JNZ"}
BY IsRunning, TopIs DEF TaskOK

LEMMA ExpressionKeeps ==
  ASSUME IInv, Expression
  PROVE  IInv'
<1> USE DEF Doing, At
<1>1. CASE EvalConstant
  <2>1. work # << >> /\ Top.do = "eval" /\ Do(<< >>) /\ keepCode
    BY <1>1 DEF EvalConstant
  <2>2. QED
    BY <2>1, SkipKeeps
<1>2. CASE EvalIdentifier
  <2>1. work # << >> /\ Top.do = "eval" /\ Do(<< >>) /\ keepCode
    BY <1>2 DEF EvalIdentifier
  <2>2. QED
    BY <2>1, SkipKeeps
<1>3. CASE EvalString
  <2> DEFINE x == Inst("ADDR", NewTemp, Sym("string", 0), Null, NoBlock, None)
  <2>1. work # << >> /\ Top.do = "eval" /\ Do(<< >>) /\ keepLayout /\ Emit(x)
    BY <1>3 DEF EvalString
  <2>2. x.to = NoBlock /\ x.op = "ADDR"
    BY InstIs
  <2> HIDE DEF x
  <2>3. QED
    BY <2>1, <2>2, AddKeeps
<1>4. CASE EvalUnary
  <2> DEFINE e == Top.node
             rest == IF e.op \in DOMAIN UnaryOps THEN <<Then("unary", e)>>
                     ELSE IF e.op \in Incs THEN <<Then("increment", e)>> ELSE << >>
             A == Goals(Top)
  <2>1. work # << >> /\ Top.do = "eval" /\ e.kind = "Unary" /\ Do(<<Eval(e.a)>> \o rest) /\ keepCode
    BY <1>4 DEF EvalUnary
  <2>2. e.a \in Trees
    BY <2>1, TopNodeIs, NodeIs
  <2> HIDE DEF e, A
  <2>3. Fits(<<Eval(e.a)>>, {}, A, "closed")
    BY <2>2, FitsTasks
  <2>4. Fits(rest, {}, A, "closed")
    BY FitsTasks, FitsNone
  <2> HIDE DEF rest
  <2>5. Fits(<<Eval(e.a)>> \o rest, {} \cup {}, A, "closed")
    BY <2>3, <2>4, FitsConcat
  <2>6. {} \cup {} = {}
    OBVIOUS
  <2>7. QED
    BY <2>1, <2>5, <2>6, ReplaceKeeps DEF A
<1>5. CASE ApplyUnary
  <2> DEFINE x == Inst(UnaryOps[Top.node.op], NewTemp, vals[1], Null, NoBlock, Top.node)
  <2>1. work # << >> /\ Top.do = "unary" /\ (Crash \/ (Do(<< >>) /\ keepLayout /\ Emit(x)))
    BY <1>5 DEF ApplyUnary
  <2>2. Top.node.op \in DOMAIN UnaryOps
    BY <2>1, TopNodeIs
  <2>3. x.to = NoBlock /\ x.op = UnaryOps[Top.node.op]
    BY InstIs
  <2>4. x.op \notin {"JMP", "IJMP"}
    BY <2>2, <2>3 DEF UnaryOps
  <2> HIDE DEF x
  <2>5. QED
    BY <2>1, <2>3, <2>4, AddKeeps, CrashKeeps
<1>6. CASE TranslateIncrement
  <2> DEFINE x == Inst("INC", NewTemp, vals[1], Null, NoBlock, Top.node)
             s == <<Move(vals[1], NewTemp)>>
  <2>1. work # << >> /\ Top.do = "increment" /\ (Crash \/ (Do(s) /\ keepLayout /\ Emit(x)))
    BY <1>6 DEF TranslateIncrement
  <2>2. x.to = NoBlock /\ x.op = "INC"
    BY InstIs
  <2>3. Fits(s, {}, Goals(Top), "closed")
    BY FitsTasks
  <2>4. Lowering
    BY <2>1, IsRunning
  <2> HIDE DEF x, s
  <2>5. QED
    BY <2>1, <2>2, <2>3, <2>4, EmitKeeps, CrashKeeps
<1>7. CASE EvalBinary
  <2> DEFINE e == Top.node
             A == Goals(Top)
  <2>1. /\ work # << >> /\ Top.do = "eval" /\ e.kind = "Binary"
        /\ Do(<<Eval(e.a), Eval(e.b), Then("binary", e)>>) /\ keepCode
    BY <1>7 DEF EvalBinary
  <2>2. e.a \in Trees /\ e.b \in Trees
    BY <2>1, TopNodeIs, NodeIs
  <2> HIDE DEF e, A
  <2>3. /\ Fits(<<Eval(e.a)>>, {}, A, "closed") /\ Fits(<<Eval(e.b)>>, {}, A, "closed")
        /\ Fits(<<Then("binary", e)>>, {}, A, "closed")
    BY <2>2, FitsTasks
  <2>4. Fits(<<Eval(e.a), Eval(e.b), Then("binary", e)>>, {}, A, "closed")
    BY <2>3, FitsThree
  <2>5. QED
    BY <2>1, <2>4, ReplaceKeeps DEF A
<1>8. CASE ApplyBinary
  <2> DEFINE x == Inst(ArithOps[Top.node.op], NewTemp, vals[2], vals[1], NoBlock, Top.node)
  <2>1. /\ work # << >> /\ Top.do = "binary"
        /\ \/ Do(<< >>) /\ keepCode
           \/ Crash
           \/ Top.node.op \in DOMAIN ArithOps /\ Do(<< >>) /\ keepLayout /\ Emit(x)
    BY <1>8 DEF ApplyBinary
  <2>2. x.to = NoBlock /\ x.op = ArithOps[Top.node.op]
    BY InstIs
  <2>3. Top.node.op \in DOMAIN ArithOps => x.op \notin {"JMP", "IJMP"}
    BY <2>2 DEF ArithOps
  <2> HIDE DEF x
  <2>4. QED
    BY <2>1, <2>2, <2>3, AddKeeps, SkipKeeps, CrashKeeps
<1>9. CASE EvalTest
  <2> DEFINE e == Top.node
             n == Len(blocks) + 1
             y == Len(blocks) + 2
             z == Len(blocks) + 3
             v == NewTemp
             N == {n, y, z}
             A == N \cup Goals(Top)
             p == <<Branch(e, y, z), Start(z), Move(v, Const(0)), Jump(n)>>
             q == <<Start(y), Move(v, Const(1)), Start(n), Result(v)>>
             s == <<Branch(e, y, z), Start(z), Move(v, Const(0)), Jump(n),
                    Start(y), Move(v, Const(1)), Start(n), Result(v)>>
  <2>1. work # << >> /\ Top.do = "eval" /\ Do(s) /\ Create(3) /\ keepLayout
    BY <1>9 DEF EvalTest, New
  <2>2. Lowering /\ e \in Trees /\ Len(blocks) \in Nat
    BY <2>1, TopNodeIs, PlacedIs DEF IInv, LayoutInv
  <2>3. n # y /\ n # z /\ y # z /\ N = Len(blocks) + 1..Len(blocks) + 3
    BY <2>2
  <2>4. n \in A /\ y \in A /\ z \in A
    OBVIOUS
  <2>5. s = p \o q
    BY EightAre
  <2> HIDE DEF e, n, y, z, v, A
  <2>6. /\ Fits(<<Branch(e, y, z)>>, {}, A, "open") /\ Fits(<<Jump(n)>>, {}, A, "open")
        /\ Fits(<<Move(v, Const(0))>>, {}, A, "closed") /\ Fits(<<Move(v, Const(1))>>, {}, A, "closed")
        /\ Fits(<<Result(v)>>, {}, A, "closed")
    BY <2>2, <2>4, FitsTasks, FitsGoals
  <2>7. Fits(<<Branch(e, y, z), Start(z)>>, {z}, A, "closed")
    BY <2>6, FitsOpenStart
  <2>8. Fits(<<Move(v, Const(0)), Jump(n)>>, {}, A, "open")
    BY <2>6, FitsTwo
  <2>9. Fits(p, {z}, A, "open")
    <3>1. Fits(<<Branch(e, y, z), Start(z)>> \o <<Move(v, Const(0)), Jump(n)>>, {z} \cup {}, A, "open")
      BY <2>7, <2>8, FitsConcat
    <3>2. {z} \cup {} = {z} /\ p = <<Branch(e, y, z), Start(z)>> \o <<Move(v, Const(0)), Jump(n)>>
      BY FourAre
    <3>3. QED
      BY <3>1, <3>2
  <2>10. Fits(<<Start(y), Move(v, Const(1))>>, {y}, A, "closed")
    BY <2>6, FitsStartThen
  <2>11. Fits(<<Start(n), Result(v)>>, {n}, A, "closed")
    BY <2>6, FitsStartThen
  <2>12. Fits(q, {y} \cup {n}, A, "closed")
    <3>1. Fits(<<Start(y), Move(v, Const(1))>> \o <<Start(n), Result(v)>>, {y} \cup {n}, A, "closed")
      BY <2>3, <2>10, <2>11, FitsConcat
    <3>2. q = <<Start(y), Move(v, Const(1))>> \o <<Start(n), Result(v)>>
      BY FourAre
    <3>3. QED
      BY <3>1, <3>2
  <2>13. q # << >> /\ q[1].do = "start"
    BY DEF Start
  <2> HIDE DEF p, q, s
  <2>14. Fits(s, {z} \cup ({y} \cup {n}), A, "closed")
    BY <2>3, <2>5, <2>9, <2>12, <2>13, FitsConcat
  <2>15. {z} \cup ({y} \cup {n}) = N
    OBVIOUS
  <2>16. Fits(s, N, N \cup Goals(Top), "closed")
    BY <2>14, <2>15 DEF A
  <2> HIDE DEF N
  <2>17. QED
    BY <2>1, <2>2, <2>3, <2>16, CreateKeeps
<1>10. CASE EvalCall
  <2> DEFINE e == Top.node
             A == Goals(Top)
             args == Map(e.args, Eval)
  <2>1. /\ work # << >> /\ Top.do = "eval" /\ e.kind = "Call"
        /\ Do(<<Eval(e.func)>> \o args \o <<Then("call", e)>>) /\ keepCode
    BY <1>10 DEF EvalCall
  <2>2. e.func \in Trees /\ e.args \in Seq(Trees)
    BY <2>1, TopNodeIs, NodeIs
  <2> HIDE DEF e, A
  <2>3. Fits(<<Eval(e.func)>>, {}, A, "closed") /\ Fits(<<Then("call", e)>>, {}, A, "closed")
    BY <2>2, FitsTasks
  <2>4. Fits(args, {}, A, "closed")
    BY <2>2, FitsMap
  <2> HIDE DEF args
  <2>5. Fits(<<Eval(e.func)>> \o args, {} \cup {}, A, "closed")
    BY <2>3, <2>4, FitsConcat
  <2>6. {} \cup {} = {}
    OBVIOUS
  <2>7. Fits(<<Eval(e.func)>> \o args \o <<Then("call", e)>>, {} \cup {}, A, "closed")
    BY <2>3, <2>5, <2>6, FitsConcat
  <2>8. QED
    BY <2>1, <2>6, <2>7, ReplaceKeeps DEF A
<1>11. CASE TranslateCall
  <2> DEFINE k == Len(Top.node.args)
             args == [i \in 1..k |-> LET v == vals[k + 1 - i] IN IF v = Null THEN Const(0) ELSE v]
             x == Inst("CALL", Null, vals[k + 1], args, NoBlock, Top.node)
  <2>1. work # << >> /\ Top.do = "call" /\ (Crash \/ (Do(<< >>) /\ keepLayout /\ Emit(x)))
    BY <1>11 DEF TranslateCall
  <2>2. x.to = NoBlock /\ x.op = "CALL"
    BY InstIs
  <2> HIDE DEF x
  <2>3. QED
    BY <2>1, <2>2, AddKeeps, CrashKeeps
<1>12. CASE EvalIndex
  <2> DEFINE e == Top.node
             A == Goals(Top)
             f == [e EXCEPT !.op = "OP_ADD"]
             g == [e EXCEPT !.op = "OP_DEREF"]
  <2>1. /\ work # << >> /\ Top.do = "eval" /\ e.kind = "Index"
        /\ Do(<<Eval(e.a), Eval(e.b), Then("binary", f), Then("unary", g)>>) /\ keepCode
    BY <1>12 DEF EvalIndex
  <2>2. e.a \in Trees /\ e.b \in Trees /\ "op" \in DOMAIN e
    BY <2>1, TopNodeIs, NodeIs
  <2>3. g.op = "OP_DEREF"
    BY <2>2
  <2>4. g.op \in DOMAIN UnaryOps
    BY <2>3 DEF UnaryOps
  <2> HIDE DEF e, A, f, g
  <2>5. /\ Fits(<<Eval(e.a)>>, {}, A, "closed") /\ Fits(<<Eval(e.b)>>, {}, A, "closed")
        /\ Fits(<<Then("binary", f)>>, {}, A, "closed") /\ Fits(<<Then("unary", g)>>, {}, A, "closed")
    BY <2>2, <2>4, FitsTasks
  <2>6. /\ Fits(<<Eval(e.a), Eval(e.b)>>, {}, A, "closed")
        /\ Fits(<<Then("binary", f), Then("unary", g)>>, {}, A, "closed")
    BY <2>5, FitsTwo
  <2>7. /\ Fits(<<Eval(e.a), Eval(e.b)>> \o <<Then("binary", f), Then("unary", g)>>, {} \cup {}, A, "closed")
    BY <2>6, FitsConcat
  <2>8. /\ {} \cup {} = {}
        /\ <<Eval(e.a), Eval(e.b), Then("binary", f), Then("unary", g)>>
           = <<Eval(e.a), Eval(e.b)>> \o <<Then("binary", f), Then("unary", g)>>
    BY FourAre
  <2>9. QED
    BY <2>1, <2>7, <2>8, ReplaceKeeps DEF A
<1>13. CASE EvalMember
  <2> DEFINE e == Top.node
             A == Goals(Top)
             g == [e EXCEPT !.op = "OP_DEREF"]
             rest == IF e.op = "OP_PTR_MEMBER" THEN <<Then("unary", g)>> ELSE << >>
  <2>1. /\ work # << >> /\ Top.do = "eval" /\ e.kind = "Member"
        /\ Do(<<Eval(e.a)>> \o rest) /\ keepCode
    BY <1>13 DEF EvalMember
  <2>2. e.a \in Trees /\ "op" \in DOMAIN e
    BY <2>1, TopNodeIs, NodeIs
  <2>3. g.op = "OP_DEREF"
    BY <2>2
  <2>4. g.op \in DOMAIN UnaryOps
    BY <2>3 DEF UnaryOps
  <2> HIDE DEF e, A, g
  <2>5. Fits(<<Eval(e.a)>>, {}, A, "closed") /\ Fits(<<Then("unary", g)>>, {}, A, "closed")
    BY <2>2, <2>4, FitsTasks
  <2>6. Fits(rest, {}, A, "closed")
    BY <2>5, FitsNone
  <2> HIDE DEF rest
  <2>7. Fits(<<Eval(e.a)>> \o rest, {} \cup {}, A, "closed")
    BY <2>5, <2>6, FitsConcat
  <2>8. {} \cup {} = {}
    OBVIOUS
  <2>9. QED
    BY <2>1, <2>7, <2>8, ReplaceKeeps DEF A
<1>14. QED
  BY <1>1, <1>2, <1>3, <1>4, <1>5, <1>6, <1>7, <1>8, <1>9, <1>10, <1>11, <1>12, <1>13 DEF Expression

LEMMA ConditionKeeps ==
  ASSUME IInv, Condition
  PROVE  IInv'
<1> USE DEF Doing, At
<1>1. Top.do \in {"branch", "test", "testvalue"} =>
        /\ Jumpy(Top) /\ Goals(Top) = {Top.yes, Top.no}
        /\ Top.do \notin {"start", "finish", "return", "result"}
  BY DEF Jumpy, Goals
<1>2. CASE BranchLogic
  <2> DEFINE e == Top.node
             m == Len(blocks) + 1
             A == {m} \cup Goals(Top)
             left == IF e.op = "OP_AND" THEN Branch(e.a, m, Top.no) ELSE Branch(e.a, Top.yes, m)
             right == Branch(e.b, Top.yes, Top.no)
             s == <<left, Start(m), right>>
  <2>1. /\ work # << >> /\ Top.do = "branch" /\ e.kind = "Binary"
        /\ Do(s) /\ Create(1) /\ keepLayout
    BY <1>2 DEF BranchLogic, New
  <2>2. Lowering /\ e.a \in Trees /\ e.b \in Trees /\ Len(blocks) \in Nat
    BY <2>1, TopNodeIs, NodeIs, PlacedIs DEF IInv, LayoutInv
  <2>3. {m} = Len(blocks) + 1..Len(blocks) + 1
    BY <2>2
  <2>4. m \in A /\ Top.yes \in A /\ Top.no \in A
    BY <1>1, <2>1
  <2> HIDE DEF e, m, A
  <2>5. Fits(<<left>>, {}, A, "open") /\ Fits(<<right>>, {}, A, "open")
    BY <2>2, <2>4, FitsGoals
  <2> HIDE DEF left, right
  <2>6. Fits(<<left, Start(m)>>, {m}, A, "closed")
    BY <2>5, FitsOpenStart
  <2>7. Fits(<<left, Start(m)>> \o <<right>>, {m} \cup {}, A, "open")
    BY <2>5, <2>6, FitsConcat
  <2>8. s = <<left, Start(m)>> \o <<right>> /\ {m} \cup {} = {m}
    BY ThreeAre
  <2>9. Fits(s, {m}, {m} \cup Goals(Top), "open")
    BY <2>7, <2>8 DEF A
  <2> HIDE DEF s
  <2>10. QED
    BY <1>1, <2>1, <2>2, <2>3, <2>9, CreateKeeps DEF m
<1>3. CASE BranchRelation
  <2> DEFINE e == Top.node
             A == Goals(Top)
             last == Test("JCC", e, Top.yes, Top.no)
  <2>1. /\ work # << >> /\ Top.do = "branch" /\ e.kind = "Binary"
        /\ Do(<<Eval(e.a), Eval(e.b), last>>) /\ keepCode
    BY <1>3 DEF BranchRelation
  <2>2. e.a \in Trees /\ e.b \in Trees
    BY <2>1, TopNodeIs, NodeIs
  <2>3. Top.yes \in A /\ Top.no \in A
    BY <1>1, <2>1
  <2> HIDE DEF e, A
  <2>4. /\ Fits(<<Eval(e.a)>>, {}, A, "closed") /\ Fits(<<Eval(e.b)>>, {}, A, "closed")
        /\ Fits(<<last>>, {}, A, "open")
    BY <2>2, <2>3, FitsTasks, FitsGoals
  <2> HIDE DEF last
  <2>5. Fits(<<Eval(e.a), Eval(e.b), last>>, {}, A, "open")
    BY <2>4, FitsThree
  <2>6. QED
    BY <1>1, <2>1, <2>5, ReplaceKeeps DEF A
<1>4. CASE BranchNot
  <2> DEFINE e == Top.node
             A == Goals(Top)
             last == Test("JNZ", e.a, Top.no, Top.yes)
  <2>1. /\ work # << >> /\ Top.do = "branch" /\ e.kind = "Unary"
        /\ Do(<<Eval(e.a), last>>) /\ keepCode
    BY <1>4 DEF BranchNot
  <2>2. e.a \in Trees
    BY <2>1, TopNodeIs, NodeIs
  <2>3. Top.yes \in A /\ Top.no \in A
    BY <1>1, <2>1
  <2> HIDE DEF e, A
  <2>4. Fits(<<Eval(e.a)>>, {}, A, "closed") /\ Fits(<<last>>, {}, A, "open")
    BY <2>2, <2>3, FitsTasks, FitsGoals
  <2> HIDE DEF last
  <2>5. Fits(<<Eval(e.a), last>>, {}, A, "open")
    BY <2>4, FitsTwo
  <2>6. QED
    BY <1>1, <2>1, <2>5, ReplaceKeeps DEF A
<1>5. CASE BranchConstant
  <2> DEFINE A == Goals(Top)
             b == IF Top.node.value # 0 THEN Top.yes ELSE Top.no
  <2>1. work # << >> /\ Top.do = "branch" /\ Do(<<Jump(b)>>) /\ keepCode
    BY <1>5 DEF BranchConstant
  <2>2. b \in A
    BY <1>1, <2>1
  <2> HIDE DEF A, b
  <2>3. Fits(<<Jump(b)>>, {}, A, "open")
    BY <2>2, FitsGoals
  <2>4. QED
    BY <1>1, <2>1, <2>3, ReplaceKeeps DEF A
<1>6. CASE BranchValue
  <2> DEFINE e == Top.node
             A == Goals(Top)
             last == TestValue(e, Top.yes, Top.no)
  <2>1. work # << >> /\ Top.do = "branch" /\ Do(<<Eval(e), last>>) /\ keepCode
    BY <1>6 DEF BranchValue
  <2>2. e \in Trees
    BY <2>1, TopNodeIs
  <2>3. Top.yes \in A /\ Top.no \in A
    BY <1>1, <2>1
  <2> HIDE DEF e, A
  <2>4. Fits(<<Eval(e)>>, {}, A, "closed") /\ Fits(<<last>>, {}, A, "open")
    BY <2>2, <2>3, FitsTasks, FitsGoals
  <2> HIDE DEF last
  <2>5. Fits(<<Eval(e), last>>, {}, A, "open")
    BY <2>4, FitsTwo
  <2>6. QED
    BY <1>1, <2>1, <2>5, ReplaceKeeps DEF A
<1>7. CASE GenTest
  <2> DEFINE two == Top.op = "JCC"
             n == IF two THEN 2 ELSE 1
             b == Top.yes
             x == Inst(Top.op, Null, vals[n], IF two THEN vals[1] ELSE Null, b, Top.node)
             A == Goals(Top)
             s == <<Jump(Top.no)>>
  <2>1. /\ work # << >> /\ Top.do = "test"
        /\ \/ Crash
           \/ blocks' = WithInst(WithEdge(blocks, cur, b), cur, x) /\ Do(s) /\ keepLayout
    BY <1>7 DEF GenTest, GenBranch
  <2>2. Lowering /\ Top.op \in {"JCC", "JNZ"}
    BY <2>1, TopNodeIs
  <2>3. x.to = b /\ x.op = Top.op
    BY InstIs
  <2>4. b \in A /\ Top.no \in A
    BY <1>1, <2>1
  <2>5. Fits(s, {}, A, "open")
    <3> HIDE DEF A
    <3>1. QED
      BY <2>4, FitsGoals
  <2> HIDE DEF s, x, b
  <2>6. QED
    BY <1>1, <2>1, <2>2, <2>3, <2>4, <2>5, BranchKeeps, CrashKeeps
<1>8. CASE GenTestValue
  <2> DEFINE b == Top.yes
             x == Inst("JNZ", Null, vals[1], Null, b, Top.node)
             A == Goals(Top)
             c == IF vals[1].id # 0 THEN Top.yes ELSE Top.no
             s == <<Jump(Top.no)>>
  <2>1. /\ work # << >> /\ Top.do = "testvalue"
        /\ \/ Do(<<Jump(c)>>) /\ keepCode
           \/ Crash
           \/ blocks' = WithInst(WithEdge(blocks, cur, b), cur, x) /\ Do(s) /\ keepLayout
    BY <1>8 DEF GenTestValue, GenBranch
  <2>2. Lowering
    BY <2>1, TopNodeIs
  <2>3. x.to = b /\ x.op = "JNZ"
    BY InstIs
  <2>4. b \in A /\ Top.no \in A /\ c \in A
    BY <1>1, <2>1
  <2>5. Fits(s, {}, A, "open") /\ Fits(<<Jump(c)>>, {}, A, "open")
    <3> HIDE DEF A, c
    <3>1. QED
      BY <2>4, FitsGoals
  <2> HIDE DEF s, x, b, c
  <2>6. QED
    BY <1>1, <2>1, <2>2, <2>3, <2>4, <2>5, BranchKeeps, ReplaceKeeps, CrashKeeps
<1>9. QED
  BY <1>2, <1>3, <1>4, <1>5, <1>6, <1>7, <1>8 DEF Condition

\* The shape of every loop and conditional: a closed head, a body, a closed end.
LEMMA FitsAround ==
  ASSUME NEW s, NEW t, NEW u, NEW N, NEW M, NEW A,
         Fits(s, N, A, "closed"), Fits(t, {}, A, "closed"), Fits(u, M, A, "closed"), N \cap M = {}
  PROVE  Fits(s \o t \o u, N \cup M, A, "closed")
<1>1. Fits(s \o t, N \cup {}, A, "closed")
  BY FitsConcat
<1>2. N \cup {} = N
  OBVIOUS
<1>3. QED
  BY <1>1, <1>2, FitsConcat

\* Three new blocks.
LEMMA ThreeNew ==
  ASSUME IInv
  PROVE  LET n == Len(blocks)
         IN /\ n \in Nat /\ {n + 1, n + 2, n + 3} = n + 1..n + 3
            /\ {n + 1, n + 2, n + 3, n + 4} = n + 1..n + 4
<1>1. Len(blocks) \in Nat
  BY PlacedIs DEF IInv, LayoutInv
<1>2. QED
  BY <1>1

LEMMA IfKeeps ==
  ASSUME IInv, VisitIf
  PROVE  IInv'
<1> DEFINE e == Top.node
           y == Len(blocks) + 1
           n == Len(blocks) + 2
           z == Len(blocks) + 3
           N == {y, n, z}
           A == N \cup Goals(Top)
           p == <<Branch(e.cond, y, n), Start(y)>>
           q == <<Jump(z), Start(n)>>
           r == <<Start(z)>>
           s == p \o Body(e.then) \o q \o Body(e.else) \o r
<1>1. /\ work # << >> /\ Top.do = "visit" /\ e.kind = "If"
      /\ Do(s) /\ Create(3) /\ keepLayout
  BY DEF VisitIf, New, Doing, At
<1>2. /\ Lowering /\ e.cond \in Trees
      /\ e.then \in Trees \cup {None} /\ e.else \in Trees \cup {None}
  BY <1>1, TopNodeIs, NodeIs
<1>3. N = Len(blocks) + 1..Len(blocks) + 3 /\ y # n /\ y # z /\ n # z
  BY ThreeNew
<1>4. y \in A /\ n \in A /\ z \in A
  OBVIOUS
<1> HIDE DEF e, y, n, z, A
<1>5. Fits(<<Branch(e.cond, y, n)>>, {}, A, "open") /\ Fits(<<Jump(z)>>, {}, A, "open")
  BY <1>2, <1>4, FitsGoals
<1>6. Fits(p, {y}, A, "closed") /\ Fits(q, {n}, A, "closed") /\ Fits(r, {z}, A, "closed")
  BY <1>5, FitsOpenStart, FitsStart
<1>7. Fits(Body(e.then), {}, A, "closed") /\ Fits(Body(e.else), {}, A, "closed")
  BY <1>2, FitsBody
<1> HIDE DEF p, q, r
<1>8. Fits(p \o Body(e.then) \o q, {y} \cup {n}, A, "closed")
  BY <1>3, <1>6, <1>7, FitsAround
<1>9. Fits(s, ({y} \cup {n}) \cup {z}, A, "closed")
  BY <1>3, <1>6, <1>7, <1>8, FitsAround
<1>10. ({y} \cup {n}) \cup {z} = N
  OBVIOUS
<1> HIDE DEF s
<1>11. Fits(s, N, N \cup Goals(Top), "closed")
  BY <1>9, <1>10 DEF A
<1> HIDE DEF N
<1>12. QED
  BY <1>1, <1>2, <1>3, <1>11, CreateKeeps

LEMMA WhileKeeps ==
  ASSUME IInv, VisitWhile
  PROVE  IInv'
<1> DEFINE e == Top.node
           l == Len(blocks) + 1
           b == Len(blocks) + 2
           z == Len(blocks) + 3
           N == {l, b, z}
           A == N \cup Goals(Top)
           p == <<Jump(l), Start(l), Branch(e.cond, b, z), Start(b)>>
           q == <<Jump(l), Start(z)>>
           s == p \o Body(e.body) \o q
<1>1. /\ work # << >> /\ Top.do = "visit" /\ e.kind = "While"
      /\ Do(s) /\ Create(3) /\ keepLayout
  BY DEF VisitWhile, New, Doing, At
<1>2. Lowering /\ e.cond \in Trees /\ e.body \in Trees \cup {None}
  BY <1>1, TopNodeIs, NodeIs
<1>3. N = Len(blocks) + 1..Len(blocks) + 3 /\ l # b /\ l # z /\ b # z
  BY ThreeNew
<1>4. l \in A /\ b \in A /\ z \in A
  OBVIOUS
<1> HIDE DEF e, l, b, z, A
<1>5. Fits(<<Branch(e.cond, b, z)>>, {}, A, "open") /\ Fits(<<Jump(l)>>, {}, A, "open")
  BY <1>2, <1>4, FitsGoals
<1>6. /\ Fits(<<Jump(l), Start(l)>>, {l}, A, "closed")
      /\ Fits(<<Branch(e.cond, b, z), Start(b)>>, {b}, A, "closed")
      /\ Fits(q, {z}, A, "closed")
  BY <1>5, FitsOpenStart
<1>7. Fits(p, {l, b}, A, "closed")
  BY <1>3, <1>6, FitsTwoPairs
<1>8. Fits(Body(e.body), {}, A, "closed")
  BY <1>2, FitsBody
<1> HIDE DEF p, q
<1>9. Fits(s, {l, b} \cup {z}, A, "closed")
  BY <1>3, <1>6, <1>7, <1>8, FitsAround
<1>10. {l, b} \cup {z} = N
  OBVIOUS
<1> HIDE DEF s
<1>11. Fits(s, N, N \cup Goals(Top), "closed")
  BY <1>9, <1>10 DEF A
<1> HIDE DEF N
<1>12. QED
  BY <1>1, <1>2, <1>3, <1>11, CreateKeeps

LEMMA DoKeeps ==
  ASSUME IInv, VisitDo
  PROVE  IInv'
<1> DEFINE e == Top.node
           b == Len(blocks) + 1
           l == Len(blocks) + 2
           z == Len(blocks) + 3
           N == {b, l, z}
           A == N \cup Goals(Top)
           p == <<Jump(b), Start(b)>>
           q == <<Jump(l), Start(l), Branch(e.cond, b, z), Start(z)>>
           s == p \o Body(e.body) \o q
<1>1. /\ work # << >> /\ Top.do = "visit" /\ e.kind = "Do"
      /\ Do(s) /\ Create(3) /\ keepLayout
  BY DEF VisitDo, New, Doing, At
<1>2. Lowering /\ e.cond \in Trees /\ e.body \in Trees \cup {None}
  BY <1>1, TopNodeIs, NodeIs
<1>3. N = Len(blocks) + 1..Len(blocks) + 3 /\ l # b /\ l # z /\ b # z
  BY ThreeNew
<1>4. l \in A /\ b \in A /\ z \in A
  OBVIOUS
<1> HIDE DEF e, l, b, z, A
<1>5. /\ Fits(<<Branch(e.cond, b, z)>>, {}, A, "open")
      /\ Fits(<<Jump(l)>>, {}, A, "open") /\ Fits(<<Jump(b)>>, {}, A, "open")
  BY <1>2, <1>4, FitsGoals
<1>6. /\ Fits(<<Jump(l), Start(l)>>, {l}, A, "closed")
      /\ Fits(<<Branch(e.cond, b, z), Start(z)>>, {z}, A, "closed")
      /\ Fits(p, {b}, A, "closed")
  BY <1>5, FitsOpenStart
<1>7. Fits(q, {l, z}, A, "closed")
  BY <1>3, <1>6, FitsTwoPairs
<1>8. Fits(Body(e.body), {}, A, "closed")
  BY <1>2, FitsBody
<1> HIDE DEF p, q
<1>9. Fits(s, {b} \cup {l, z}, A, "closed")
  BY <1>3, <1>6, <1>7, <1>8, FitsAround
<1>10. {b} \cup {l, z} = N
  OBVIOUS
<1> HIDE DEF s
<1>11. Fits(s, N, N \cup Goals(Top), "closed")
  BY <1>9, <1>10 DEF A
<1> HIDE DEF N
<1>12. QED
  BY <1>1, <1>2, <1>3, <1>11, CreateKeeps

LEMMA ForKeeps ==
  ASSUME IInv, ForLoop
  PROVE  IInv'
<1> DEFINE e == Top.node
           t == Len(blocks) + 1
           b == Len(blocks) + 2
           i == Len(blocks) + 3
           z == Len(blocks) + 4
           N == {t, b, i, z}
           A == N \cup Goals(Top)
           head == IF e.cond = None THEN Jump(b) ELSE Branch(e.cond, b, z)
           p == <<Jump(t), Start(t), head, Start(b)>>
           m == <<Start(i)>>
           q == <<Jump(t), Start(z)>>
           s == p \o Body(e.body) \o m \o Effect(e.incr) \o q
<1>1. /\ work # << >> /\ Top.do = "for"
      /\ Do(s) /\ Create(4) /\ keepLayout
  BY DEF ForLoop, New, Doing
<1>2. /\ Lowering /\ e.cond \in Trees \cup {None} /\ e.body \in Trees \cup {None}
      /\ e.incr \in Trees \cup {None}
  BY <1>1, TopNodeIs, NodeIs
<1>3. /\ N = Len(blocks) + 1..Len(blocks) + 4
      /\ t # b /\ t # i /\ t # z /\ b # i /\ b # z /\ i # z
  BY ThreeNew
<1>4. t \in A /\ b \in A /\ z \in A
  OBVIOUS
<1> HIDE DEF e, t, b, i, z, A
<1>5. Fits(<<head>>, {}, A, "open") /\ Fits(<<Jump(t)>>, {}, A, "open")
  BY <1>2, <1>4, FitsGoals
<1> HIDE DEF head
<1>6. /\ Fits(<<Jump(t), Start(t)>>, {t}, A, "closed")
      /\ Fits(<<head, Start(b)>>, {b}, A, "closed")
      /\ Fits(m, {i}, A, "closed") /\ Fits(q, {z}, A, "closed")
  BY <1>5, FitsOpenStart, FitsStart
<1>7. Fits(p, {t, b}, A, "closed")
  BY <1>3, <1>6, FitsTwoPairs
<1>8. Fits(Body(e.body), {}, A, "closed") /\ Fits(Effect(e.incr), {}, A, "closed")
  BY <1>2, FitsBody
<1> HIDE DEF p, q, m
<1>9. Fits(p \o Body(e.body) \o m, {t, b} \cup {i}, A, "closed")
  BY <1>3, <1>6, <1>7, <1>8, FitsAround
<1>10. Fits(s, ({t, b} \cup {i}) \cup {z}, A, "closed")
  BY <1>3, <1>6, <1>8, <1>9, FitsAround
<1>11. ({t, b} \cup {i}) \cup {z} = N
  OBVIOUS
<1> HIDE DEF s
<1>12. Fits(s, N, N \cup Goals(Top), "closed")
  BY <1>10, <1>11 DEF A
<1> HIDE DEF N
<1>13. QED
  BY <1>1, <1>2, <1>3, <1>12, CreateKeeps

LEMMA StatementKeeps ==
  ASSUME IInv, Statement
  PROVE  IInv'
<1> USE DEF Doing, At
<1>1. CASE VisitExprStmt
  <2> DEFINE e == Top.node
             A == Goals(Top)
  <2>1. work # << >> /\ Top.do = "visit" /\ e.kind = "ExprStmt" /\ Do(Effect(e.a)) /\ keepCode
    BY <1>1 DEF VisitExprStmt
  <2>2. e.a \in Trees \cup {None}
    BY <2>1, TopNodeIs, NodeIs
  <2> HIDE DEF e, A
  <2>3. Fits(Effect(e.a), {}, A, "closed")
    BY <2>2, FitsBody
  <2>4. QED
    BY <2>1, <2>3, ReplaceKeeps DEF A
<1>2. CASE Drop
  <2>1. work # << >> /\ Top.do = "drop" /\ Do(<< >>) /\ keepCode
    BY <1>2 DEF Drop
  <2>2. QED
    BY <2>1, SkipKeeps
<1>3. CASE VisitReturn
  <2> DEFINE e == Top.node
             A == Goals(Top)
             first == IF e.a = None THEN Result(Const(0)) ELSE Eval(e.a)
  <2>1. /\ work # << >> /\ Top.do = "visit" /\ e.kind = "Return"
        /\ Do(<<first, Then("return", e)>>) /\ keepCode
    BY <1>3 DEF VisitReturn
  <2>2. e.a \in Trees \cup {None}
    BY <2>1, TopNodeIs, NodeIs
  <2> HIDE DEF e, A
  <2>3. Fits(<<first>>, {}, A, "closed") /\ Fits(<<Then("return", e)>>, {}, A, "closed")
    BY <2>2, FitsTasks
  <2> HIDE DEF first
  <2>4. Fits(<<first, Then("return", e)>>, {}, A, "closed")
    BY <2>3, FitsTwo
  <2>5. QED
    BY <2>1, <2>4, ReplaceKeeps DEF A
<1>4. CASE GenReturn
  <2> DEFINE x == Inst("RET", Null, vals[1], Null, NoBlock, None)
  <2>1. work # << >> /\ Top.do = "return" /\ (Crash \/ (Do(<< >>) /\ keepLayout /\ Emit(x)))
    BY <1>4 DEF GenReturn
  <2>2. x.to = NoBlock /\ x.op = "RET"
    BY InstIs
  <2> HIDE DEF x
  <2>3. QED
    BY <2>1, <2>2, AddKeeps, CrashKeeps
<1>5. CASE VisitIf \/ VisitWhile \/ VisitDo \/ ForLoop
  BY <1>5, IfKeeps, WhileKeeps, DoKeeps, ForKeeps
<1>6. CASE VisitFor
  <2> DEFINE e == Top.node
             A == Goals(Top)
             last == <<Then("for", e)>>
  <2>1. /\ work # << >> /\ Top.do = "visit" /\ e.kind = "For"
        /\ Do(Effect(e.init) \o last) /\ keepCode
    BY <1>6 DEF VisitFor
  <2>2. e.init \in Trees \cup {None} /\ e \in Trees
    BY <2>1, TopNodeIs, NodeIs
  <2>3. e.kind = "For"
    BY <2>1
  <2> HIDE DEF e, A
  <2>4. Fits(Effect(e.init), {}, A, "closed") /\ Fits(last, {}, A, "closed")
    BY <2>2, <2>3, FitsBody, FitsTasks
  <2> HIDE DEF last
  <2>5. Fits(Effect(e.init) \o last, {} \cup {}, A, "closed")
    BY <2>4, FitsConcat
  <2>6. {} \cup {} = {}
    OBVIOUS
  <2>7. QED
    BY <2>1, <2>5, <2>6, ReplaceKeeps DEF A
<1>7. CASE VisitCompound
  <2> DEFINE e == Top.node
             A == Goals(Top)
             p == Map(e.decls, Visit)
             q == Map(e.stmts, Visit)
  <2>1. work # << >> /\ Top.do = "visit" /\ e.kind = "Compound" /\ Do(p \o q) /\ keepCode
    BY <1>7 DEF VisitCompound
  <2>2. e.decls \in Seq(Trees) /\ e.stmts \in Seq(Trees)
    BY <2>1, TopNodeIs, NodeIs
  <2> HIDE DEF e, A
  <2>3. Fits(p, {}, A, "closed") /\ Fits(q, {}, A, "closed")
    BY <2>2, FitsMap
  <2> HIDE DEF p, q
  <2>4. Fits(p \o q, {} \cup {}, A, "closed")
    BY <2>3, FitsConcat
  <2>5. {} \cup {} = {}
    OBVIOUS
  <2>6. QED
    BY <2>1, <2>4, <2>5, ReplaceKeeps DEF A
<1>8. CASE VisitInitDeclarator
  <2> DEFINE e == Top.node
             A == Goals(Top)
             s == IF e.a = None \/ e.id = NoName THEN << >> ELSE <<Eval(e.a), Then("init", e)>>
  <2>1. work # << >> /\ Top.do = "visit" /\ e.kind = "InitDeclarator" /\ Do(s) /\ keepCode
    BY <1>8 DEF VisitInitDeclarator
  <2>2. e.a \in Trees \cup {None}
    BY <2>1, TopNodeIs, NodeIs
  <2> HIDE DEF e, A
  <2>3. e.a # None => Fits(<<Eval(e.a)>>, {}, A, "closed") /\ Fits(<<Then("init", e)>>, {}, A, "closed")
    BY <2>2, FitsTasks
  <2>4. e.a # None => Fits(<<Eval(e.a), Then("init", e)>>, {}, A, "closed")
    BY <2>3, FitsTwo
  <2>5. Fits(s, {}, A, "closed")
    BY <2>4, FitsNone
  <2> HIDE DEF s
  <2>6. QED
    BY <2>1, <2>5, ReplaceKeeps DEF A
<1>9. CASE InitVariable
  <2> DEFINE A == Goals(Top)
             v == Var(Top.node.id)
             s == IF vals[1] = Null THEN << >> ELSE <<Move(v, vals[1])>>
  <2>1. work # << >> /\ Top.do = "init" /\ Do(s) /\ keepCode
    BY <1>9 DEF InitVariable
  <2> HIDE DEF A, v
  <2>2. Fits(s, {}, A, "closed")
    BY FitsTasks, FitsNone
  <2> HIDE DEF s
  <2>3. QED
    BY <2>1, <2>2, ReplaceKeeps DEF A
<1>10. CASE VisitWrapped
  <2> DEFINE e == Top.node
             A == Goals(Top)
  <2>1. work # << >> /\ Top.do = "visit" /\ e.kind = "Wrapped" /\ Do(Body(e.body)) /\ keepCode
    BY <1>10 DEF VisitWrapped
  <2>2. e.body \in Trees \cup {None}
    BY <2>1, TopNodeIs, NodeIs
  <2> HIDE DEF e, A
  <2>3. Fits(Body(e.body), {}, A, "closed")
    BY <2>2, FitsBody
  <2>4. QED
    BY <2>1, <2>3, ReplaceKeeps DEF A
<1>11. CASE VisitStub
  <2>1. work # << >> /\ Top.do = "visit" /\ Do(<< >>) /\ keepCode
    BY <1>11 DEF VisitStub
  <2>2. QED
    BY <2>1, SkipKeeps
<1>12. QED
  BY <1>1, <1>2, <1>3, <1>4, <1>5, <1>6, <1>7, <1>8, <1>9, <1>10, <1>11 DEF Statement

-----------------------------------------------------------------------------
(* The theorems.                                                           *)

LEMMA InitHolds ==
  ASSUME Init
  PROVE  IInv
<1>1. /\ program \in Seq(Trees) /\ funcs = << >> /\ work = << >> /\ blocks = << >>
  BY TreesAssumption DEF Init
<1>2. IsSeq(funcs) /\ DOMAIN funcs = {} /\ IsSeq(blocks) /\ Len(blocks) = 0 /\ 1..0 = {}
  BY <1>1, EmptyIs
<1>3. Edges(blocks)
  BY <1>2 DEF Edges, Blocks, Mirrored
<1>4. Entries = {} /\ Follow = {} /\ BlockIds = {} /\ Placed = {}
  BY <1>2 DEF Entries, Follow, BlockIds, Placed
<1>5. LayoutInv
  BY <1>1, <1>2, <1>3, <1>4 DEF LayoutInv, PlacedOnce
<1>6. Idle
  BY <1>1, <1>2, <1>4 DEF Idle, Finished, EndedBut, LandsIn
<1>7. QED
  BY <1>5, <1>6 DEF IInv

LEMMA StutterKeeps ==
  ASSUME IInv, UNCHANGED vars
  PROVE  IInv'
BY DEF vars, IInv, LayoutInv, Entries, Follow, BlockIds, Placed, PlacedOnce, Idle, Launching,
       Lowering, Exit, Top

LEMMA StepKeeps ==
  ASSUME IInv, [Next]_vars
  PROVE  IInv'
<1>1. CASE VisitFunction
  BY <1>1, FunctionKeeps
<1>2. CASE FinishFunction
  BY <1>2, FinishKeeps
<1>3. CASE Statement \/ Condition \/ Expression \/ Code
  BY <1>3, StatementKeeps, ConditionKeeps, ExpressionKeeps, CodeKeeps
<1>4. CASE Stop \/ UNCHANGED vars
  BY <1>4, StutterKeeps DEF Stop
<1>5. QED
  BY <1>1, <1>2, <1>3, <1>4 DEF Next, Generate

LEMMA InvariantHolds == Spec => []IInv
<1>1. Init => IInv
  BY InitHolds
<1>2. IInv /\ [Next]_vars => IInv'
  BY StepKeeps
<1>3. QED
  BY <1>1, <1>2, PTL DEF Spec

\* Once nothing is left to do, every target of a jump has its place in the chain
\* and the last block of each chain ends in a return.
LEMMA ChainsGood ==
  ASSUME IInv
  PROVE  LaidOutOnce
<1>1. PlacedOnce
  BY DEF IInv, LayoutInv
<1>2. ASSUME Generated
      PROVE  TargetsPlaced /\ EndsInReturn
  <2>1. EndedBut(blocks, Placed, NoBlock) /\ LandsIn(blocks, Placed)
    BY <1>2 DEF Generated, IInv, Idle, Launching, Lowering, Runs, Finished
  <2>2. \A b : LastOp(b) = OpOf(blocks[b].insts)
    BY DEF LastOp, OpOf
  <2>3. \A b : Targets(b) = TargetsIn(blocks[b].insts)
    BY DEF Targets, TargetsIn
  <2>4. EndsInReturn
    <3>1. \A b \in Placed : b # NoBlock
      BY PlacedIs DEF IInv, LayoutInv
    <3>2. QED
      BY <2>1, <2>2, <3>1 DEF EndsInReturn, EndedBut
  <2>5. TargetsPlaced
    BY <2>1, <2>3 DEF TargetsPlaced, LandsIn, BlockIds
  <2>6. QED
    BY <2>4, <2>5
<1>3. QED
  BY <1>1, <1>2 DEF LaidOutOnce

\* The lowering lays every block out at most once, however statements nest; when
\* it is through, every block that some jump names is laid out (ir_gen.cpp makes
\* the block, jumps to it and starts it in different calls) and no chain of
\* blocks runs out without a return.
THEOREM LaidOut == Spec => []LaidOutOnce
<1>1. IInv => LaidOutOnce
  BY ChainsGood
<1>2. QED
  BY <1>1, InvariantHolds, PTL

\* At every moment the successors of a block are its jumps and its fall-through,
\* each as often as it is one, and the predecessors are the same edges read
\* backwards: genJump, genBranch and startBBlock keep two lists and the
\* instructions in step.
THEOREM EdgesAreExact == Spec => []EdgesExact
<1>1. IInv => EdgesExact
  BY EdgesGiveExact DEF IInv, LayoutInv
<1>2. QED
  BY <1>1, InvariantHolds, PTL
=============================================================================
