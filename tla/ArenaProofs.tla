---------------------------- MODULE ArenaProofs ----------------------------
(***************************************************************************)
(* Proofs about the modules Arena and ArenaLifetime, for any number of     *)
(* arenas, blocks and sizes: no block is ever referred to twice, and no    *)
(* live memory is handed out again.                                        *)
(*                                                                         *)
(* The argument: home tells which list a block was last put on, every next *)
(* pointer stays inside one home, and the live allocations of an arena are *)
(* in blocks whose home is that arena.  A block that changes hands is at   *)
(* home in the free list, so it holds no live allocation.                  *)
(*                                                                         *)
(* That an arena still reaches its live memory is a second layer: a walk   *)
(* from the arena that stops at last_ meets the block of every one of its  *)
(* live allocations (KeptInv), and the link of last_ is the only one the   *)
(* arena's own chain ever has overwritten while memory of it is live.      *)
(***************************************************************************)
EXTENDS ArenaLifetime, TLAPS

HomeOf(n) == IF n \in Arenas THEN n ELSE home[n]

\* A head_ block has no room; last_ is the arena's own head_ or a block of it.
HeadInv ==
  /\ \A a \in Arenas : cap[a] = 0 /\ avail[a] = 0
  /\ \A a \in Arenas : last[a] \in Arenas => last[a] = a
  /\ \A a \in Arenas : HomeOf(last[a]) = a

\* Only allocated blocks are on lists.
HeapInv ==
  /\ \A n \in Nodes : next[n] # Null => next[n] \in heap
  /\ freeBlocks # Null => freeBlocks \in heap
  /\ \A b \in Blocks : b \notin heap => home[b] = FreeList

\* Pointers stay inside one home, and live memory is at home in its arena.
HomeInv ==
  /\ \A n \in Nodes : next[n] # Null => home[next[n]] = HomeOf(n)
  /\ freeBlocks # Null => home[freeBlocks] = FreeList
  /\ \A r \in live : home[r.block] = r.arena

IInv == TypeOK /\ HeadInv /\ HeapInv /\ UniqueReference /\ HomeInv /\ LiveDisjoint

-----------------------------------------------------------------------------

LEMMA InitInv == Init => IInv
BY BlockAssumption
   DEF Init, IInv, TypeOK, HeadInv, HeapInv, UniqueReference, HomeInv,
       LiveDisjoint, HomeOf, Nodes, Pointers, NoCall

\* A pending call names an arena and a positive size, and the loop of
\* allocate() is entered with a last_ block the arena owns.
LEMMA PendingCall ==
  ASSUME TypeOK, call # NoCall
  PROVE  /\ call.arena \in Arenas
         /\ call.size \in Sizes /\ call.size \in Nat /\ call.size > 0
         /\ last[call.arena] \in Nodes
<1>1. call \in Calls
  BY DEF TypeOK
<1>2. call.arena \in Arenas /\ call.size \in Sizes
  BY <1>1 DEF Calls
<1>3. last[call.arena] \in Nodes
  BY <1>2 DEF TypeOK
<1>4. \A k \in Sizes : k \in Nat /\ k > 0
  BY SizeAssumption
<1>5. QED
  BY <1>2, <1>3, <1>4

LEMMA AllocateInv ==
  ASSUME IInv, NEW a \in Arenas, NEW size \in Sizes, Allocate(a, size)
  PROVE  IInv'
BY DEF IInv, Allocate, TypeOK, Calls, HeadInv, HeapInv, UniqueReference,
       HomeInv, LiveDisjoint, HomeOf

LEMMA TakeFreeBlockInv ==
  ASSUME IInv, TakeFreeBlock
  PROVE  IInv'
<1> DEFINE a == call.arena
           blk == freeBlocks
<1>1. /\ a \in Arenas /\ last[a] \in Nodes /\ a # FreeList
      /\ blk \in Blocks /\ blk \notin Arenas /\ blk # Null
      /\ home[blk] = FreeList
      /\ TypeOK
  BY PendingCall, BlockAssumption
     DEF IInv, TakeFreeBlock, TypeOK, Pointers, HomeInv
<1>2. /\ next' = [next EXCEPT ![last[a]] = blk, ![blk] = Null]
      /\ avail' = [avail EXCEPT ![blk] = 0]
      /\ last' = [last EXCEPT ![a] = blk]
      /\ home' = [home EXCEPT ![blk] = a]
      /\ freeBlocks' = next[blk]
      /\ UNCHANGED <<cap, heap, call, live>>
  BY DEF TakeFreeBlock, LinkBehind
<1> HIDE DEF a, blk
<1>3. TypeOK'
  BY <1>1, <1>2 DEF TypeOK, Nodes, Pointers
<1>4. HeadInv'
  <2>1. \A b \in Arenas : b # blk /\ b # FreeList
    BY <1>1, BlockAssumption
  <2>2. \A b \in Arenas : b # a => last[b] # blk
    BY <1>1, <2>1 DEF IInv, HeadInv, HomeOf
  <2>3. \A b \in Arenas : avail'[b] = 0 /\ cap'[b] = 0
    BY <1>1, <1>2, <2>1 DEF IInv, HeadInv, TypeOK, Nodes
  <2>4. \A b \in Arenas : last'[b] = IF b = a THEN blk ELSE last[b]
    BY <1>1, <1>2 DEF TypeOK
  <2>5. \A c \in Blocks : home'[c] = IF c = blk THEN a ELSE home[c]
    BY <1>1, <1>2 DEF TypeOK
  <2>6. QED
    BY <1>1, <2>2, <2>3, <2>4, <2>5 DEF IInv, HeadInv, HomeOf, TypeOK, Nodes
<1>5. HeapInv'
  BY <1>1, <1>2 DEF IInv, HeapInv, TypeOK, Nodes, TakeFreeBlock, blk
<1>6. UniqueReference'
  BY <1>1, <1>2 DEF IInv, UniqueReference, TypeOK, Nodes, Pointers, blk
<1>7. HomeInv'
  <2>1. \A c \in Blocks : home'[c] = IF c = blk THEN a ELSE home[c]
    BY <1>1, <1>2 DEF TypeOK
  <2>2. HomeOf(last[a]) = a
    BY <1>1 DEF IInv, HeadInv
  <2>3. \A n \in Nodes : next'[n] # Null => home'[next'[n]] = HomeOf(n)'
    <3> SUFFICES ASSUME NEW n \in Nodes, next'[n] # Null
                 PROVE  home'[next'[n]] = HomeOf(n)'
      OBVIOUS
    <3>1. n # blk
      BY <1>1, <1>2 DEF TypeOK, Nodes
    <3>2. CASE n = last[a]
      BY <1>1, <1>2, <2>1, <2>2, <3>1, <3>2 DEF HomeOf, TypeOK, Nodes
    <3>3. CASE n # last[a]
      <4>1. next'[n] = next[n] /\ next[n] \in Blocks
        BY <1>1, <1>2, <3>1, <3>3 DEF TypeOK, Nodes, Pointers
      <4>2. next[n] # blk
        BY <1>1 DEF IInv, UniqueReference, blk
      <4>3. home[next[n]] = HomeOf(n)
        BY <3>1, <4>1 DEF IInv, HomeInv
      <4>4. QED
        BY <1>1, <2>1, <3>1, <4>1, <4>2, <4>3 DEF HomeOf, Nodes
    <3>4. QED
      BY <3>2, <3>3
  <2>4. freeBlocks' # Null => home'[freeBlocks'] = FreeList
    <3>1. next[blk] # Null => next[blk] # blk /\ next[blk] \in Blocks
      BY <1>1 DEF IInv, UniqueReference, TypeOK, Nodes, Pointers, blk
    <3>2. next[blk] # Null => home[next[blk]] = FreeList
      BY <1>1 DEF IInv, HomeInv, HomeOf, Nodes
    <3>3. QED
      BY <1>2, <2>1, <3>1, <3>2
  <2>5. \A r \in live : home'[r.block] = r.arena
    <3>1. \A r \in live : r.block \in Blocks /\ home[r.block] = r.arena
                          /\ r.arena # FreeList
      BY <1>1, BlockAssumption DEF IInv, HomeInv, TypeOK, Allocations
    <3>2. QED
      BY <1>1, <2>1, <3>1
  <2>6. QED
    BY <1>2, <2>3, <2>4, <2>5 DEF HomeInv
<1>8. LiveDisjoint'
  <2>1. \A r \in live : r.block \in Blocks /\ r.block # blk
    BY <1>1, BlockAssumption DEF IInv, HomeInv, TypeOK, Allocations
  <2>2. \A c \in Blocks : c # blk => avail'[c] = avail[c]
    BY <1>1, <1>2 DEF TypeOK, Nodes
  <2>3. QED
    BY <1>2, <2>1, <2>2 DEF IInv, LiveDisjoint
<1>9. QED
  BY <1>3, <1>4, <1>5, <1>6, <1>7, <1>8 DEF IInv
LEMMA MallocBlockInv ==
  ASSUME IInv, NEW blk \in Blocks, MallocBlock(blk)
  PROVE  IInv'
<1> DEFINE a == call.arena
<1>1. /\ a \in Arenas /\ last[a] \in Nodes /\ a # FreeList
      /\ blk \notin heap /\ blk \notin Arenas /\ blk # Null
      /\ home[blk] = FreeList /\ freeBlocks = Null
      /\ call.size \in Nat
      /\ TypeOK
  BY PendingCall, BlockAssumption
     DEF IInv, MallocBlock, TypeOK, HeapInv
<1>2. /\ next' = [next EXCEPT ![last[a]] = blk, ![blk] = Null]
      /\ avail' = [avail EXCEPT ![blk] = 0]
      /\ last' = [last EXCEPT ![a] = blk]
      /\ home' = [home EXCEPT ![blk] = a]
      /\ heap' = heap \cup {blk}
      /\ cap' = [cap EXCEPT ![blk] = call.size + BlockSize]
      /\ UNCHANGED <<freeBlocks, call, live>>
  BY DEF MallocBlock, LinkBehind
<1>3. \A n \in Nodes : next[n] # blk
  BY <1>1 DEF IInv, HeapInv
<1> HIDE DEF a
<1>4. TypeOK'
  <2>1. call.size + BlockSize \in Nat
    BY <1>1, SizeAssumption
  <2>2. QED
    BY <1>1, <1>2, <2>1 DEF TypeOK, Nodes, Pointers
<1>5. \A c \in Blocks : home'[c] = IF c = blk THEN a ELSE home[c]
  BY <1>1, <1>2 DEF TypeOK
<1>6. HeadInv'
  <2>1. \A b \in Arenas : b # blk /\ b # FreeList
    BY <1>1, BlockAssumption
  <2>2. \A b \in Arenas : b # a => last[b] # blk
    BY <1>1, <2>1 DEF IInv, HeadInv, HomeOf
  <2>3. \A b \in Arenas : avail'[b] = 0 /\ cap'[b] = 0
    BY <1>1, <1>2, <2>1 DEF IInv, HeadInv, TypeOK, Nodes
  <2>4. \A b \in Arenas : last'[b] = IF b = a THEN blk ELSE last[b]
    BY <1>1, <1>2 DEF TypeOK
  <2>5. QED
    BY <1>1, <1>5, <2>2, <2>3, <2>4 DEF IInv, HeadInv, HomeOf, TypeOK, Nodes
<1>7. HeapInv'
  BY <1>1, <1>2, <1>5 DEF IInv, HeapInv, TypeOK, Nodes
<1>8. UniqueReference'
  BY <1>1, <1>2, <1>3 DEF IInv, UniqueReference, TypeOK, Nodes, Pointers
<1>9. HomeInv'
  <2>1. HomeOf(last[a]) = a
    BY <1>1 DEF IInv, HeadInv
  <2>2. \A n \in Nodes : next'[n] # Null => home'[next'[n]] = HomeOf(n)'
    <3> SUFFICES ASSUME NEW n \in Nodes, next'[n] # Null
                 PROVE  home'[next'[n]] = HomeOf(n)'
      OBVIOUS
    <3>1. n # blk
      BY <1>1, <1>2 DEF TypeOK, Nodes
    <3>2. CASE n = last[a]
      BY <1>1, <1>2, <1>5, <2>1, <3>1, <3>2 DEF HomeOf, TypeOK, Nodes
    <3>3. CASE n # last[a]
      <4>1. next'[n] = next[n] /\ next[n] \in Blocks
        BY <1>1, <1>2, <3>1, <3>3 DEF TypeOK, Nodes, Pointers
      <4>2. home[next[n]] = HomeOf(n)
        BY <3>1, <4>1 DEF IInv, HomeInv
      <4>3. QED
        BY <1>1, <1>3, <1>5, <3>1, <4>1, <4>2 DEF HomeOf, Nodes
    <3>4. QED
      BY <3>2, <3>3
  <2>3. \A r \in live : home'[r.block] = r.arena
    <3>1. \A r \in live : r.block \in Blocks /\ home[r.block] = r.arena
                          /\ r.arena # FreeList
      BY <1>1, BlockAssumption DEF IInv, HomeInv, TypeOK, Allocations
    <3>2. QED
      BY <1>1, <1>5, <3>1
  <2>4. QED
    BY <1>1, <1>2, <2>2, <2>3 DEF HomeInv
<1>10. LiveDisjoint'
  <2>1. \A r \in live : r.block \in Blocks /\ r.block # blk
    BY <1>1, BlockAssumption DEF IInv, HomeInv, TypeOK, Allocations
  <2>2. \A c \in Blocks : c # blk => avail'[c] = avail[c] /\ cap'[c] = cap[c]
    BY <1>1, <1>2 DEF TypeOK, Nodes
  <2>3. QED
    BY <1>2, <2>1, <2>2 DEF IInv, LiveDisjoint
<1>11. QED
  BY <1>4, <1>6, <1>7, <1>8, <1>9, <1>10 DEF IInv

LEMMA MallocFailsInv ==
  ASSUME IInv, MallocFails
  PROVE  IInv'
<1>1. call.arena \in Arenas /\ last[call.arena] \in Nodes /\ TypeOK
  BY PendingCall DEF IInv, MallocFails
<1>2. TypeOK'
  BY <1>1 DEF MallocFails, TypeOK, Pointers
<1>3. \A n \in Nodes : next'[n] = next[n] \/ next'[n] = Null
  BY <1>1 DEF MallocFails, TypeOK
<1>4. QED
  BY <1>2, <1>3
     DEF IInv, MallocFails, HeadInv, HeapInv, UniqueReference, HomeInv,
         LiveDisjoint, HomeOf

LEMMA BumpInv ==
  ASSUME IInv, Bump
  PROVE  IInv'
<1> DEFINE blk == last[call.arena]
           hi == avail[blk] + call.size
           new == [arena |-> call.arena, block |-> blk, lo |-> avail[blk], hi |-> hi]
<1>1. /\ call.arena \in Arenas /\ call.size \in Nat /\ call.size > 0
      /\ blk \in Nodes /\ TypeOK
  BY PendingCall DEF IInv, Bump
<1>2. avail[blk] \in Nat /\ cap[blk] \in Nat
  BY <1>1 DEF TypeOK
<1>3. hi \in Nat /\ avail[blk] < hi /\ hi <= cap[blk]
  <2>1. cap[blk] - avail[blk] >= call.size
    BY DEF Bump, HasRoom
  <2>2. QED
    BY <1>1, <1>2, <2>1
<1>4. blk \in Blocks /\ home[blk] = call.arena
  <2>1. cap[blk] # 0
    BY <1>2, <1>3
  <2>2. blk \notin Arenas
    BY <2>1 DEF IInv, HeadInv
  <2>3. QED
    BY <1>1, <2>2 DEF IInv, HeadInv, HomeOf, Nodes
<1>5. /\ avail' = [avail EXCEPT ![blk] = hi]
      /\ live' = live \cup {new}
      /\ UNCHANGED <<next, last, cap, freeBlocks, heap, home>>
      /\ call' = NoCall
  BY DEF Bump
<1> HIDE DEF blk, hi
<1>6. new \in Allocations
  BY <1>1, <1>2, <1>3, <1>4 DEF Allocations
<1>7. TypeOK'
  BY <1>1, <1>3, <1>5, <1>6 DEF TypeOK
<1>8. HeadInv' /\ HeapInv' /\ UniqueReference'
  <2>1. \A b \in Arenas : avail'[b] = avail[b]
    BY <1>1, <1>4, <1>5, BlockAssumption DEF TypeOK, Nodes
  <2>2. QED
    BY <1>5, <2>1 DEF IInv, HeadInv, HeapInv, UniqueReference, HomeOf
<1>9. HomeInv'
  BY <1>4, <1>5 DEF IInv, HomeInv, HomeOf
<1>10. LiveDisjoint'
  <2>1. \A r \in live : /\ r.lo \in Nat /\ r.hi \in Nat /\ r.block \in Blocks
                        /\ avail[r.block] \in Nat
    BY <1>1 DEF TypeOK, Allocations, Nodes
  <2>2. \A r \in live : r.lo < r.hi /\ r.hi <= avail[r.block] /\ r.hi <= cap[r.block]
    BY DEF IInv, LiveDisjoint
  <2>3. \A r \in live : avail[r.block] <= avail'[r.block]
    BY <1>1, <1>2, <1>3, <1>5, <2>1 DEF TypeOK, Nodes
  <2>4. avail'[blk] = hi
    BY <1>1, <1>5 DEF TypeOK
  <2>5. \A r \in live' : r.lo < r.hi /\ r.hi <= avail'[r.block] /\ r.hi <= cap'[r.block]
    <3>1. \A r \in live : avail'[r.block] \in Nat
      BY <1>7, <2>1 DEF TypeOK, Nodes
    <3>2. \A r \in live : r.hi <= avail'[r.block]
      BY <2>1, <2>2, <2>3, <3>1
    <3>3. QED
      BY <1>2, <1>3, <1>5, <2>2, <2>4, <3>2
  <2>6. \A r \in live : r.block = blk => r.hi <= new.lo
    BY <2>2
  <2>7. ASSUME NEW r \in live', NEW s \in live', r.block = s.block, r # s
        PROVE  r.hi <= s.lo \/ s.hi <= r.lo
    <3>1. CASE r \in live /\ s \in live
      BY <2>7, <3>1 DEF IInv, LiveDisjoint
    <3>2. CASE r = new
      BY <1>5, <2>6, <2>7, <3>2
    <3>3. CASE s = new
      BY <1>5, <2>6, <2>7, <3>3
    <3>4. QED
      BY <1>5, <3>1, <3>2, <3>3
  <2>8. QED
    BY <2>5, <2>7 DEF LiveDisjoint
<1>11. QED
  BY <1>7, <1>8, <1>9, <1>10 DEF IInv

LEMMA ResetInv ==
  ASSUME IInv, NEW a \in Arenas, Reset(a)
  PROVE  IInv'
<1> DEFINE spare == next[last[a]]
           nxt   == IF spare = Null THEN next
                    ELSE [next EXCEPT ![spare] = freeBlocks, ![last[a]] = Null]
           first == nxt[a]
<1>1. /\ TypeOK /\ last[a] \in Nodes /\ spare \in Pointers /\ a \in Nodes
      /\ a # FreeList /\ a # Null /\ a \notin Blocks
      /\ HomeOf(last[a]) = a
  BY BlockAssumption DEF IInv, TypeOK, HeadInv, Nodes
<1>2. /\ next' = nxt
      /\ freeBlocks' = IF spare = Null THEN freeBlocks ELSE spare
      /\ home' = IF spare = Null THEN home ELSE [home EXCEPT ![spare] = FreeList]
      /\ last' = [last EXCEPT ![a] = IF first = Null THEN a ELSE first]
      /\ avail' = IF first = Null THEN avail ELSE [avail EXCEPT ![first] = 0]
      /\ live' = {r \in live : r.arena # a}
      /\ UNCHANGED <<cap, heap, call>>
  BY DEF Reset, DropLive
<1>3. spare # Null => /\ spare \in Blocks /\ spare \in heap /\ home[spare] = a
                      /\ spare # freeBlocks /\ spare \notin Arenas
                      /\ \A n \in Nodes : next[n] = spare => n = last[a]
  <2>1. spare # Null => /\ spare \in Blocks /\ spare \in heap /\ home[spare] = a
    BY <1>1 DEF IInv, Pointers, HeapInv, HomeInv
  <2>2. spare # Null => spare # freeBlocks
    BY <1>1 DEF IInv, UniqueReference
  <2>3. spare # Null => \A n \in Nodes : next[n] = spare => n = last[a]
    BY <1>1 DEF IInv, UniqueReference
  <2>4. QED
    BY <2>1, <2>2, <2>3, BlockAssumption
<1>4. \A n \in Nodes : nxt[n] = IF spare = Null THEN next[n]
                                ELSE IF n = last[a] THEN Null
                                ELSE IF n = spare THEN freeBlocks ELSE next[n]
  BY <1>1, <1>3 DEF TypeOK, Nodes
<1>5. nxt \in [Nodes -> Pointers]
  BY <1>1 DEF TypeOK, Pointers
<1>6. first # Null => /\ first \in Blocks /\ home[first] = a /\ first # spare
                      /\ first \notin Arenas
  <2>1. first \in Pointers
    BY <1>1, <1>5
  <2>2. first # Null => first = next[a]
    BY <1>1, <1>3, <1>4
  <2>3. first # Null => first # spare
    BY <1>1, <1>3, <1>4, <2>2
  <2>4. first # Null => home[first] = a
    BY <1>1, <2>2 DEF IInv, HomeInv, HomeOf
  <2>5. QED
    BY <2>1, <2>3, <2>4, BlockAssumption DEF Pointers
<1>7. \A c \in Blocks : home'[c] = IF spare # Null /\ c = spare THEN FreeList ELSE home[c]
  BY <1>1, <1>2, <1>3 DEF TypeOK
<1>8. \A n \in Nodes : avail'[n] = IF first # Null /\ n = first THEN 0 ELSE avail[n]
  BY <1>1, <1>2, <1>6 DEF TypeOK, Nodes
<1>9. \A b \in Arenas : last'[b] = IF b # a THEN last[b]
                                   ELSE IF first = Null THEN a ELSE first
  BY <1>1, <1>2 DEF TypeOK
<1> HIDE DEF spare, nxt, first
<1>10. TypeOK'
  BY <1>1, <1>2, <1>3, <1>5, <1>6 DEF TypeOK, Nodes, Pointers
<1>11. HeadInv'
  <2>1. \A b \in Arenas : avail'[b] = 0 /\ cap'[b] = 0
    BY <1>2, <1>6, <1>8 DEF IInv, HeadInv, Nodes
  <2>2. \A b \in Arenas : last'[b] \in Arenas => last'[b] = b
    BY <1>6, <1>9 DEF IInv, HeadInv
  <2>3. \A b \in Arenas : HomeOf(last[b])' = b
    <3> SUFFICES ASSUME NEW b \in Arenas PROVE HomeOf(last[b])' = b
      OBVIOUS
    <3>1. CASE b = a
      BY <1>6, <1>7, <1>9, <3>1 DEF HomeOf
    <3>2. CASE b # a
      BY <1>3, <1>7, <1>9, <3>2 DEF IInv, HeadInv, HomeOf, TypeOK, Nodes
    <3>3. QED
      BY <3>1, <3>2
  <2>4. QED
    BY <2>1, <2>2, <2>3 DEF HeadInv, HomeOf
<1>12. HeapInv'
  BY <1>2, <1>3, <1>4, <1>7 DEF IInv, HeapInv
<1>13. UniqueReference'
  <2>1. ASSUME NEW m \in Nodes, NEW n \in Nodes, nxt[m] = nxt[n], nxt[m] # Null
        PROVE  m = n
    BY <1>4, <2>1 DEF IInv, UniqueReference
  <2>2. ASSUME NEW n \in Nodes, nxt[n] = freeBlocks' PROVE freeBlocks' = Null
    BY <1>1, <1>2, <1>3, <1>4, <2>2 DEF IInv, UniqueReference
  <2>3. QED
    BY <1>2, <2>1, <2>2 DEF UniqueReference
<1>14. HomeInv'
  <2>1. ASSUME NEW n \in Nodes, nxt[n] # Null PROVE home'[nxt[n]] = HomeOf(n)'
    <3>1. CASE spare = Null
      <4>1. nxt[n] = next[n] /\ next[n] \in Blocks
        BY <1>1, <1>4, <2>1, <3>1 DEF TypeOK, Pointers
      <4>2. home[next[n]] = HomeOf(n)
        BY <2>1, <4>1 DEF IInv, HomeInv
      <4>3. QED
        BY <1>7, <3>1, <4>1, <4>2 DEF HomeOf, Nodes
    <3>2. CASE spare # Null /\ n = spare
      <4>1. nxt[n] = freeBlocks /\ freeBlocks \in Blocks /\ freeBlocks # spare
        BY <1>1, <1>3, <1>4, <2>1, <3>2 DEF TypeOK, Pointers
      <4>2. home[freeBlocks] = FreeList
        BY <2>1, <4>1 DEF IInv, HomeInv
      <4>3. QED
        BY <1>3, <1>7, <3>2, <4>1, <4>2 DEF HomeOf
    <3>3. CASE spare # Null /\ n # spare
      <4>1. nxt[n] = next[n] /\ next[n] \in Blocks /\ next[n] # spare
        BY <1>1, <1>3, <1>4, <2>1, <3>3 DEF TypeOK, Pointers
      <4>2. home[next[n]] = HomeOf(n)
        BY <2>1, <4>1 DEF IInv, HomeInv
      <4>3. QED
        BY <1>7, <3>3, <4>1, <4>2 DEF HomeOf, Nodes
    <3>4. QED
      BY <3>1, <3>2, <3>3
  <2>2. freeBlocks' # Null => home'[freeBlocks'] = FreeList
    BY <1>1, <1>2, <1>3, <1>7 DEF IInv, HomeInv, TypeOK, Pointers
  <2>3. \A r \in live' : home'[r.block] = r.arena
    <3>1. \A r \in live : r.block \in Blocks /\ home[r.block] = r.arena
      BY DEF IInv, HomeInv, TypeOK, Allocations
    <3>2. QED
      BY <1>2, <1>3, <1>7, <3>1
  <2>4. QED
    BY <1>2, <2>1, <2>2, <2>3 DEF HomeInv
<1>15. LiveDisjoint'
  <2>1. \A r \in live' : r \in live /\ r.block \in Nodes /\ home[r.block] # a
    BY <1>2 DEF IInv, HomeInv, TypeOK, Allocations, Nodes
  <2>2. \A r \in live' : avail'[r.block] = avail[r.block]
    BY <1>6, <1>8, <2>1
  <2>3. QED
    BY <1>2, <2>1, <2>2 DEF IInv, LiveDisjoint
<1>16. QED
  BY <1>10, <1>11, <1>12, <1>13, <1>14, <1>15 DEF IInv

LEMMA ClearInv ==
  ASSUME IInv, NEW a \in Arenas, Clear(a)
  PROVE  IInv'
<1>1. /\ TypeOK /\ last[a] \in Nodes /\ a \in Nodes
      /\ a # FreeList /\ a # Null /\ a \notin Blocks
      /\ HomeOf(last[a]) = a
  BY BlockAssumption DEF IInv, TypeOK, HeadInv, Nodes
<1>2. /\ next' = [[next EXCEPT ![last[a]] = freeBlocks] EXCEPT ![a] = Null]
      /\ freeBlocks' = [next EXCEPT ![last[a]] = freeBlocks][a]
      /\ last' = [last EXCEPT ![a] = a]
      /\ home' = [c \in Blocks |-> IF home[c] = a THEN FreeList ELSE home[c]]
      /\ live' = {r \in live : r.arena # a}
      /\ UNCHANGED <<avail, cap, heap, call>>
  BY DEF Clear, DropLive
<1>3. freeBlocks' = IF last[a] = a THEN freeBlocks ELSE next[a]
  BY <1>1, <1>2 DEF TypeOK
<1>4. \A n \in Nodes : next'[n] = IF n = a THEN Null
                                  ELSE IF n = last[a] THEN freeBlocks ELSE next[n]
  BY <1>1, <1>2 DEF TypeOK
<1>5. \A c \in Blocks : home'[c] = IF home[c] = a THEN FreeList ELSE home[c]
  BY <1>2
<1>6. \A b \in Arenas : last'[b] = IF b = a THEN a ELSE last[b]
  BY <1>1, <1>2 DEF TypeOK
<1>7. TypeOK'
  BY <1>1, <1>2, <1>3 DEF TypeOK, Nodes, Pointers
<1>8. HeadInv'
  <2>1. \A b \in Arenas : HomeOf(last[b])' = b
    BY <1>1, <1>5, <1>6 DEF IInv, HeadInv, HomeOf, TypeOK, Nodes
  <2>2. QED
    BY <1>2, <1>6, <2>1 DEF IInv, HeadInv
<1>9. HeapInv'
  <2>1. heap' = heap
    BY <1>2
  <2>2. \A n \in Nodes : next'[n] # Null => next'[n] \in heap
    BY <1>4 DEF IInv, HeapInv
  <2>3. freeBlocks' # Null => freeBlocks' \in heap
    BY <1>1, <1>3 DEF IInv, HeapInv
  <2>4. \A c \in Blocks : c \notin heap => home'[c] = FreeList
    BY <1>5 DEF IInv, HeapInv
  <2>5. QED
    BY <2>1, <2>2, <2>3, <2>4 DEF HeapInv
<1>10. UniqueReference'
  <2>1. /\ \A m, n \in Nodes : next[m] = next[n] /\ next[m] # Null => m = n
        /\ \A n \in Nodes : next[n] = freeBlocks => freeBlocks = Null
    BY DEF IInv, UniqueReference
  <2>2. ASSUME NEW m \in Nodes, NEW n \in Nodes, next'[m] = next'[n], next'[m] # Null
        PROVE  m = n
    BY <1>4, <2>1, <2>2
  <2>3. ASSUME NEW n \in Nodes, next'[n] = freeBlocks' PROVE freeBlocks' = Null
    BY <1>1, <1>3, <1>4, <2>1, <2>3
  <2>4. QED
    BY <2>2, <2>3 DEF UniqueReference
<1>11. HomeInv'
  <2>1. ASSUME NEW n \in Nodes, next'[n] # Null PROVE home'[next'[n]] = HomeOf(n)'
    <3>1. CASE n = last[a]
      <4>1. next'[n] = freeBlocks /\ freeBlocks \in Blocks /\ n \in Blocks
        BY <1>1, <1>4, <2>1, <3>1 DEF IInv, HeadInv, TypeOK, Pointers, Nodes
      <4>2. home[freeBlocks] = FreeList /\ home[n] = a /\ n \notin Arenas
        BY <1>1, <2>1, <3>1, <4>1, BlockAssumption DEF IInv, HomeInv, HomeOf
      <4>3. QED
        BY <1>1, <1>5, <4>1, <4>2 DEF HomeOf
    <3>2. CASE n # last[a]
      <4>1. n # a /\ next'[n] = next[n] /\ next[n] \in Blocks
        BY <1>1, <1>4, <2>1, <3>2 DEF TypeOK, Pointers
      <4>2. home[next[n]] = HomeOf(n)
        BY <2>1, <4>1 DEF IInv, HomeInv
      <4>3. QED
        BY <1>5, <4>1, <4>2 DEF HomeOf, Nodes
    <3>3. QED
      BY <3>1, <3>2
  <2>2. freeBlocks' # Null => home'[freeBlocks'] = FreeList
    BY <1>1, <1>3, <1>5 DEF IInv, HomeInv, HomeOf, TypeOK, Pointers
  <2>3. \A r \in live' : home'[r.block] = r.arena
    <3>1. \A r \in live : r.block \in Blocks /\ home[r.block] = r.arena
      BY DEF IInv, HomeInv, TypeOK, Allocations
    <3>2. QED
      BY <1>2, <1>5, <3>1
  <2>4. QED
    BY <2>1, <2>2, <2>3 DEF HomeInv
<1>12. LiveDisjoint'
  BY <1>2 DEF IInv, LiveDisjoint
<1>13. QED
  BY <1>7, <1>8, <1>9, <1>10, <1>11, <1>12 DEF IInv

-----------------------------------------------------------------------------

LEMMA StepInv == IInv /\ [Next]_vars => IInv'
<1> SUFFICES ASSUME IInv, [Next]_vars PROVE IInv'
  OBVIOUS
<1>1. CASE UNCHANGED vars
  BY <1>1 DEF vars, IInv, TypeOK, HeadInv, HeapInv, UniqueReference, HomeInv,
              LiveDisjoint, HomeOf
<1>2. CASE Next
  <2>1. \A a \in Allocating \cup Resetting \cup Clearing : a \in Arenas
    BY CallerAssumption
  <2>2. ASSUME NEW a \in Allocating, NEW size \in Sizes, Allocate(a, size)
        PROVE  IInv'
    BY <2>1, <2>2, AllocateInv
  <2>3. CASE TakeFreeBlock
    BY <2>3, TakeFreeBlockInv
  <2>4. ASSUME NEW blk \in Blocks, MallocBlock(blk) PROVE IInv'
    BY <2>4, MallocBlockInv
  <2>5. CASE MallocFails
    BY <2>5, MallocFailsInv
  <2>6. CASE Bump
    BY <2>6, BumpInv
  <2>7. ASSUME NEW a \in Resetting, Reset(a) PROVE IInv'
    BY <2>1, <2>7, ResetInv
  <2>8. ASSUME NEW a \in Clearing, Clear(a) PROVE IInv'
    BY <2>1, <2>8, ClearInv
  <2>9. QED
    BY <1>2, <2>2, <2>3, <2>4, <2>5, <2>6, <2>7, <2>8 DEF Next, Grow
<1>3. QED
  BY <1>1, <1>2

-----------------------------------------------------------------------------
(* Reachability.                                                           *)

\* A set of nodes that a walk from a does not leave before it has met last_.
Walk(S, a) == a \in S /\ \A n \in S : n # last[a] /\ next[n] # Null => next[n] \in S

\* Such a walk meets last_ and the block of every live allocation of the arena.
KeptInv ==
  /\ \A a \in Arenas : \A S \in SUBSET Nodes : Walk(S, a) => last[a] \in S
  /\ \A r \in live : \A S \in SUBSET Nodes : Walk(S, r.arena) => r.block \in S

LEMMA InitKept == Init => KeptInv
BY BlockAssumption DEF Init, KeptInv, Walk, Nodes

\* To follow the walk it is enough to follow the links of the arena's own nodes.
LEMMA OwnWalk ==
  ASSUME TypeOK, HomeInv, KeptInv, NEW b \in Arenas, NEW S \in SUBSET Nodes, b \in S,
         \A n \in S : HomeOf(n) = b /\ n # last[b] /\ next[n] # Null => next[n] \in S
  PROVE  last[b] \in S /\ \A r \in live : r.arena = b => r.block \in S
<1> DEFINE own == {n \in S : HomeOf(n) = b}
<1>1. ASSUME NEW n \in own, n # last[b], next[n] # Null PROVE next[n] \in own
  <2>1. next[n] \in S /\ next[n] \in Blocks /\ home[next[n]] = b
    BY <1>1 DEF TypeOK, Pointers, Nodes, HomeInv
  <2>2. HomeOf(next[n]) = b
    BY <2>1, BlockAssumption DEF HomeOf
  <2>3. QED
    BY <2>1, <2>2
<1>2. b \in own
  BY DEF HomeOf
<1>3. Walk(own, b) /\ own \in SUBSET Nodes
  BY <1>1, <1>2 DEF Walk
<1>4. last[b] \in own /\ \A r \in live : r.arena = b => r.block \in own
  BY <1>3 DEF KeptInv
<1>5. QED
  BY <1>4

\* A block that no node refers to is put behind last_, with no block behind it.
LEMMA LinkKept ==
  ASSUME IInv, KeptInv, NEW a \in Arenas, NEW blk \in Blocks,
         \A n \in Nodes : next[n] # blk, last[a] # blk,
         LinkBehind(a, blk), live' = live
  PROVE  KeptInv'
<1>1. /\ last[a] \in Nodes /\ blk \in Nodes /\ blk \notin Arenas /\ blk # Null
      /\ \A b \in Arenas : b # blk
      /\ HomeOf(last[a]) = a
      /\ TypeOK /\ HomeInv
  BY BlockAssumption DEF IInv, HeadInv, TypeOK, Nodes
<1>2. /\ \A n \in Nodes : next'[n] = IF n = blk THEN Null
                                     ELSE IF n = last[a] THEN blk ELSE next[n]
      /\ \A b \in Arenas : last'[b] = IF b = a THEN blk ELSE last[b]
  BY <1>1 DEF LinkBehind, TypeOK
<1>3. ASSUME NEW b \in Arenas, NEW S \in SUBSET Nodes, Walk(S, b)'
      PROVE  last'[b] \in S /\ \A r \in live : r.arena = b => r.block \in S
  <2> DEFINE T == S \ {blk}
  <2>1. b \in T /\ T \in SUBSET Nodes
    BY <1>1, <1>3 DEF Walk
  <2>2. ASSUME NEW n \in T, HomeOf(n) = b, n # last[b], next[n] # Null
        PROVE  next[n] \in T
    BY <1>1, <1>2, <1>3, <2>2 DEF Walk
  <2>3. last[b] \in T /\ \A r \in live : r.arena = b => r.block \in T
    <3> HIDE DEF T
    <3> QED BY <1>1, <2>1, <2>2, OwnWalk
  <2>4. last'[b] \in S
    BY <1>1, <1>2, <1>3, <2>3 DEF Walk
  <2>5. QED
    BY <2>3, <2>4
<1>4. \A r \in live : r.arena \in Arenas
  BY <1>1 DEF TypeOK, Allocations
<1>5. QED
  BY <1>3, <1>4 DEF KeptInv

LEMMA GrowKept ==
  ASSUME IInv, KeptInv, Grow
  PROVE  KeptInv'
<1>1. CASE TakeFreeBlock
  <2>1. /\ call.arena \in Arenas /\ freeBlocks \in Blocks
        /\ LinkBehind(call.arena, freeBlocks) /\ live' = live
    BY <1>1, PendingCall DEF TakeFreeBlock, IInv, TypeOK, Pointers
  <2>2. \A n \in Nodes : next[n] # freeBlocks
    BY <1>1 DEF TakeFreeBlock, IInv, UniqueReference
  <2>3. last[call.arena] # freeBlocks
    BY <1>1, <2>1, BlockAssumption DEF TakeFreeBlock, IInv, HomeInv, HeadInv, HomeOf
  <2>4. QED
    BY <2>1, <2>2, <2>3, LinkKept
<1>2. ASSUME NEW blk \in Blocks, MallocBlock(blk) PROVE KeptInv'
  <2>1. call.arena \in Arenas /\ LinkBehind(call.arena, blk) /\ live' = live
    BY <1>2, PendingCall DEF MallocBlock, IInv
  <2>2. \A n \in Nodes : next[n] # blk
    BY <1>2, BlockAssumption DEF MallocBlock, IInv, HeapInv
  <2>3. last[call.arena] # blk
    BY <1>2, <2>1, BlockAssumption DEF MallocBlock, IInv, HeapInv, HeadInv, HomeOf
  <2>4. QED
    BY <2>1, <2>2, <2>3, LinkKept
<1>3. CASE MallocFails
  <2>1. /\ call.arena \in Arenas /\ last[call.arena] \in Nodes
        /\ HomeOf(last[call.arena]) = call.arena /\ TypeOK /\ HomeInv
    BY <1>3, PendingCall DEF MallocFails, IInv, HeadInv
  <2>2. /\ \A n \in Nodes : next'[n] = IF n = last[call.arena] THEN Null ELSE next[n]
        /\ last' = last /\ live' = live
    BY <1>3, <2>1 DEF MallocFails, TypeOK
  <2>3. ASSUME NEW b \in Arenas, NEW S \in SUBSET Nodes, Walk(S, b)'
        PROVE  last[b] \in S /\ \A r \in live : r.arena = b => r.block \in S
    <3>1. b \in S /\ \A n \in S : HomeOf(n) = b /\ n # last[b] /\ next[n] # Null => next[n] \in S
      BY <2>1, <2>2, <2>3 DEF Walk
    <3>2. QED
      BY <2>1, <3>1, OwnWalk
  <2>4. \A r \in live : r.arena \in Arenas
    BY <2>1 DEF TypeOK, Allocations
  <2>5. QED
    BY <2>2, <2>3, <2>4 DEF KeptInv
<1>4. QED
  BY <1>1, <1>2, <1>3 DEF Grow

LEMMA BumpKept ==
  ASSUME IInv, KeptInv, Bump
  PROVE  KeptInv'
<1>1. /\ next' = next /\ last' = last
      /\ \A r \in live' : r \in live \/ r.block = last[r.arena]
  BY DEF Bump
<1>2. \A r \in live' : r.arena \in Arenas
  BY BumpInv DEF IInv, TypeOK, Allocations
<1>3. QED
  BY <1>1, <1>2 DEF KeptInv, Walk

LEMMA ResetKept ==
  ASSUME IInv, KeptInv, NEW a \in Arenas, Reset(a)
  PROVE  KeptInv'
<1> DEFINE spare == next[last[a]]
<1>1. /\ last[a] \in Nodes /\ spare \in Pointers /\ a \in Nodes
      /\ HomeOf(last[a]) = a /\ TypeOK /\ HomeInv
      /\ spare # Null => HomeOf(spare) = a
  BY BlockAssumption DEF IInv, TypeOK, HeadInv, HomeInv, HomeOf, Nodes, Pointers
<1>2. /\ \A n \in Nodes : n # last[a] /\ n # spare => next'[n] = next[n]
      /\ \A b \in Arenas : b # a => last'[b] = last[b]
      /\ last'[a] = IF next'[a] = Null THEN a ELSE next'[a]
      /\ live' = {r \in live : r.arena # a}
  BY <1>1 DEF Reset, DropLive, TypeOK
<1> HIDE DEF spare
<1>3. ASSUME NEW S \in SUBSET Nodes, Walk(S, a)'
      PROVE  last'[a] \in S
  BY <1>2, <1>3 DEF Walk
<1>4. ASSUME NEW b \in Arenas, b # a, NEW S \in SUBSET Nodes, Walk(S, b)'
      PROVE  last'[b] \in S /\ \A r \in live : r.arena = b => r.block \in S
  <2>1. \A n \in S : HomeOf(n) = b => next'[n] = next[n]
    BY <1>1, <1>2, <1>4, BlockAssumption DEF Nodes
  <2>2. b \in S /\ \A n \in S : HomeOf(n) = b /\ n # last[b] /\ next[n] # Null => next[n] \in S
    BY <1>2, <1>4, <2>1 DEF Walk
  <2>3. last[b] \in S /\ \A r \in live : r.arena = b => r.block \in S
    BY <1>1, <2>2, OwnWalk
  <2>4. QED
    BY <1>2, <1>4, <2>3
<1>5. \A r \in live : r.arena \in Arenas
  BY <1>1 DEF TypeOK, Allocations
<1>6. QED
  BY <1>2, <1>3, <1>4, <1>5 DEF KeptInv

LEMMA ClearKept ==
  ASSUME IInv, KeptInv, NEW a \in Arenas, Clear(a)
  PROVE  KeptInv'
<1>1. last[a] \in Nodes /\ a \in Nodes /\ HomeOf(last[a]) = a /\ TypeOK /\ HomeInv
  BY DEF IInv, TypeOK, HeadInv, Nodes
<1>2. /\ \A n \in Nodes : n # last[a] /\ n # a => next'[n] = next[n]
      /\ \A b \in Arenas : last'[b] = IF b = a THEN a ELSE last[b]
      /\ live' = {r \in live : r.arena # a}
  BY <1>1 DEF Clear, DropLive, TypeOK
<1>3. ASSUME NEW b \in Arenas, b # a, NEW S \in SUBSET Nodes, Walk(S, b)'
      PROVE  last'[b] \in S /\ \A r \in live : r.arena = b => r.block \in S
  <2>1. \A n \in S : HomeOf(n) = b => next'[n] = next[n]
    BY <1>1, <1>2, <1>3 DEF HomeOf
  <2>2. b \in S /\ \A n \in S : HomeOf(n) = b /\ n # last[b] /\ next[n] # Null => next[n] \in S
    BY <1>2, <1>3, <2>1 DEF Walk
  <2>3. last[b] \in S /\ \A r \in live : r.arena = b => r.block \in S
    BY <1>1, <2>2, OwnWalk
  <2>4. QED
    BY <1>2, <1>3, <2>3
<1>4. \A r \in live : r.arena \in Arenas
  BY <1>1 DEF TypeOK, Allocations
<1>5. QED
  BY <1>2, <1>3, <1>4 DEF KeptInv, Walk

LEMMA StepKept == IInv /\ KeptInv /\ [Next]_vars => KeptInv'
<1> SUFFICES ASSUME IInv, KeptInv, [Next]_vars PROVE KeptInv'
  OBVIOUS
<1>1. CASE UNCHANGED vars
  BY <1>1 DEF vars, KeptInv, Walk
<1>2. CASE Next
  <2>1. \A a \in Resetting \cup Clearing : a \in Arenas
    BY CallerAssumption
  <2>2. ASSUME NEW a \in Allocating, NEW size \in Sizes, Allocate(a, size)
        PROVE  KeptInv'
    BY <2>2 DEF Allocate, KeptInv, Walk
  <2>3. ASSUME NEW a \in Resetting, Reset(a) PROVE KeptInv'
    BY <2>1, <2>3, ResetKept
  <2>4. ASSUME NEW a \in Clearing, Clear(a) PROVE KeptInv'
    BY <2>1, <2>4, ClearKept
  <2>5. QED
    BY <1>2, <2>2, <2>3, <2>4, GrowKept, BumpKept DEF Next
<1>3. QED
  BY <1>1, <1>2

\* From is closed, and the least such set.
LEMMA FromLeast ==
  ASSUME NEW p, NEW S \in SUBSET Blocks, {p} \ {Null} \subseteq S, Closed(S)
  PROVE  From(p) \subseteq S
BY DEF From

\* What the lists refer to has been allocated, and so has all that a walk meets.
LEMMA WalkInHeap ==
  ASSUME TypeOK, HeapInv, NEW p \in Pointers, p # Null => p \in heap
  PROVE  From(p) \subseteq heap
<1>1. heap \in SUBSET Blocks /\ {p} \ {Null} \subseteq heap /\ Closed(heap)
  BY DEF TypeOK, HeapInv, Closed, Nodes
<1>2. QED
  BY <1>1, FromLeast

LEMMA KeptReachable ==
  ASSUME TypeOK, KeptInv
  PROVE  LiveReachable
<1> SUFFICES ASSUME NEW r \in live, NEW S \in SUBSET Blocks,
                    {next[r.arena]} \ {Null} \subseteq S, Closed(S)
             PROVE  r.block \in S
  BY DEF LiveReachable, ChainOf, From, TypeOK, Allocations
<1> DEFINE T == S \cup {r.arena}
<1>1. r.arena \in Arenas /\ r.block \in Blocks
  BY DEF TypeOK, Allocations
<1>2. T \in SUBSET Nodes /\ Walk(T, r.arena)
  BY <1>1 DEF Walk, Closed, Nodes
<1>3. r.block \in T
  BY <1>2 DEF KeptInv
<1>4. QED
  BY <1>1, <1>3, BlockAssumption

-----------------------------------------------------------------------------

LEMMA Invariance == Spec => [](IInv /\ KeptInv)
BY InitInv, InitKept, StepInv, StepKept, PTL DEF Spec

\* Every variable keeps its type: reset never leaves last_ null, and Bump
\* never cuts memory from the head_ block.
THEOREM TypeCorrect == Spec => []TypeOK
<1>1. IInv => TypeOK
  BY DEF IInv
<1>2. QED
  BY <1>1, Invariance, PTL

\* No block is ever on two lists, or twice on one.
THEOREM NoSharedBlock == Spec => []UniqueReference
<1>1. IInv => UniqueReference
  BY DEF IInv
<1>2. QED
  BY <1>1, Invariance, PTL

\* Memory handed out stays the caller's until its arena is reset or cleared.
THEOREM LiveMemorySafe == Spec => []LiveDisjoint
<1>1. IInv => LiveDisjoint
  BY DEF IInv
<1>2. QED
  BY <1>1, Invariance, PTL

\* The chain of an arena never loses a block that holds live memory of it,
\* whatever reset, clear and a failing malloc leave in the links.
THEOREM LiveMemoryReachable == Spec => []LiveReachable
<1>1. IInv /\ KeptInv => LiveReachable
  BY KeptReachable DEF IInv
<1>2. QED
  BY <1>1, Invariance, PTL

-----------------------------------------------------------------------------
(***************************************************************************)
(* Module ArenaLifetime: what has been shown of the calls of an arena      *)
(* survives the moves of arenas, up to the first destructor.               *)
(*                                                                         *)
(* A destructor leaves freeBlocks_ pointing at blocks it has freed, so the *)
(* links hold while none has run (destroyed = 0), and what does not speak  *)
(* of malloc holds in the state it leaves as well.                         *)
(***************************************************************************)

\* Moving a chain keeps the links in order: the embedded head changes, and
\* everything that was at home in one arena is at home in the other.
LEMMA TransferLinks ==
  ASSUME IInv, KeptInv, NEW from \in Arenas, NEW to \in Arenas, from # to,
         Transfer(from, to), UNCHANGED <<avail, cap, freeBlocks, call>>,
         heap' \subseteq Blocks
  PROVE  TypeOK' /\ HeadInv' /\ UniqueReference' /\ HomeInv' /\ LiveDisjoint' /\ KeptInv'
<1>1. /\ TypeOK /\ HeadInv /\ UniqueReference /\ HomeInv /\ LiveDisjoint
      /\ from \in Nodes /\ to \in Nodes /\ from \notin Blocks /\ to \notin Blocks
      /\ from # FreeList /\ from # Null /\ to # Null
  BY BlockAssumption DEF IInv, Nodes
<1>2. /\ \A n \in Nodes : next'[n] = IF n = from THEN Null
                                     ELSE IF n = to THEN next[from] ELSE next[n]
      /\ \A b \in Arenas : last'[b] = IF b = from THEN from
                                      ELSE IF b # to THEN last[b]
                                      ELSE IF last[from] = from THEN to ELSE last[from]
      /\ \A b \in Blocks : home'[b] = IF home[b] = from THEN to ELSE home[b]
  BY <1>1 DEF Transfer, TypeOK
<1> DEFINE moved(r) == [r EXCEPT !.arena = to]
<1>3. live' = {r \in live : r.arena \notin {from, to}} \cup {moved(r) : r \in {s \in live : s.arena = from}}
  BY DEF Transfer
<1>4. \A r \in live : /\ moved(r) \in Allocations /\ moved(r).arena = to
                      /\ moved(r).block = r.block /\ moved(r).lo = r.lo /\ moved(r).hi = r.hi
  BY <1>1 DEF TypeOK, Allocations
<1> HIDE DEF moved
<1>5. TypeOK'
  <2>1. next' \in [Nodes -> Pointers] /\ last' \in [Arenas -> Nodes] /\ home' \in [Blocks -> Arenas \cup {FreeList}]
    BY <1>1 DEF Transfer, TypeOK, Nodes, Pointers
  <2>2. live' \subseteq Allocations
    BY <1>1, <1>3, <1>4 DEF TypeOK
  <2>3. QED
    BY <1>1, <2>1, <2>2 DEF TypeOK
<1>6. HeadInv'
  <2>1. \A b \in Arenas : last'[b] \in Arenas => last'[b] = b
    BY <1>1, <1>2 DEF HeadInv
  <2>2. ASSUME NEW b \in Arenas PROVE HomeOf(last[b])' = b
    <3>1. CASE last'[b] \in Arenas
      BY <2>1, <3>1 DEF HomeOf
    <3>2. CASE last'[b] \notin Arenas /\ b = to
      <4>1. last'[b] = last[from] /\ last[from] \in Blocks /\ home[last[from]] = from
        BY <1>1, <1>2, <3>2 DEF HeadInv, HomeOf, TypeOK, Nodes
      <4>2. QED
        BY <1>2, <3>2, <4>1 DEF HomeOf
    <3>3. CASE last'[b] \notin Arenas /\ b # to
      <4>1. last'[b] = last[b] /\ last[b] \in Blocks /\ home[last[b]] = b /\ b # from
        BY <1>1, <1>2, <3>3 DEF HeadInv, HomeOf, TypeOK, Nodes
      <4>2. QED
        BY <1>2, <3>3, <4>1 DEF HomeOf
    <3>4. QED
      BY <3>1, <3>2, <3>3
  <2>3. QED
    BY <1>1, <2>1, <2>2 DEF HeadInv, HomeOf
<1>7. UniqueReference'
  <2>1. ASSUME NEW m \in Nodes, NEW n \in Nodes, next'[m] = next'[n], next'[m] # Null PROVE m = n
    BY <1>1, <1>2, <2>1 DEF UniqueReference
  <2>2. ASSUME NEW n \in Nodes, next'[n] = freeBlocks PROVE freeBlocks = Null
    BY <1>1, <1>2, <2>2 DEF UniqueReference
  <2>3. QED
    BY <2>1, <2>2 DEF UniqueReference
<1>8. HomeInv'
  <2>1. ASSUME NEW n \in Nodes, next'[n] # Null PROVE home'[next'[n]] = HomeOf(n)'
    <3>1. CASE n = to
      <4>1. next'[n] = next[from] /\ next[from] \in Blocks /\ home[next[from]] = from
        BY <1>1, <1>2, <2>1, <3>1 DEF HomeInv, HomeOf, TypeOK, Pointers
      <4>2. QED
        BY <1>2, <3>1, <4>1 DEF HomeOf
    <3>2. CASE n # to
      <4>1. n # from /\ next'[n] = next[n] /\ next[n] \in Blocks /\ home[next[n]] = HomeOf(n)
        BY <1>1, <1>2, <2>1, <3>2 DEF HomeInv, TypeOK, Pointers
      <4>2. QED
        BY <1>2, <4>1 DEF HomeOf, Nodes
    <3>3. QED
      BY <3>1, <3>2
  <2>2. freeBlocks # Null => home'[freeBlocks] = FreeList
    BY <1>1, <1>2 DEF HomeInv, TypeOK, Pointers
  <2>3. ASSUME NEW r \in live' PROVE home'[r.block] = r.arena
    <3>1. \A s \in live : s.block \in Blocks /\ home[s.block] = s.arena
      BY <1>1 DEF TypeOK, Allocations, HomeInv
    <3>2. QED
      BY <1>2, <1>3, <1>4, <2>3, <3>1
  <2>4. QED
    BY <2>1, <2>2, <2>3 DEF HomeInv
<1>9. LiveDisjoint'
  <2>1. \A r \in live' : \E s \in live : /\ r.block = s.block /\ r.lo = s.lo /\ r.hi = s.hi
                                         /\ \/ r = s /\ s.arena # from
                                            \/ r = moved(s) /\ s.arena = from
    <3> SUFFICES ASSUME NEW r \in live'
                 PROVE  \E s \in live : /\ r.block = s.block /\ r.lo = s.lo /\ r.hi = s.hi
                                        /\ \/ r = s /\ s.arena # from
                                           \/ r = moved(s) /\ s.arena = from
      OBVIOUS
    <3>1. CASE r \in live /\ r.arena \notin {from, to}
      BY <3>1
    <3>2. ASSUME NEW s \in live, s.arena = from, r = moved(s)
          PROVE  \E q \in live : /\ r.block = q.block /\ r.lo = q.lo /\ r.hi = q.hi
                                 /\ \/ r = q /\ q.arena # from
                                    \/ r = moved(q) /\ q.arena = from
      BY <1>4, <3>2
    <3>3. QED
      BY <1>3, <3>1, <3>2
  <2>2. ASSUME NEW r \in live', NEW s \in live', r.block = s.block, r # s
        PROVE  r.hi <= s.lo \/ s.hi <= r.lo
    <3>1. PICK q \in live : /\ r.block = q.block /\ r.lo = q.lo /\ r.hi = q.hi
                            /\ \/ r = q /\ q.arena # from
                               \/ r = moved(q) /\ q.arena = from
      BY <2>1
    <3>2. PICK t \in live : /\ s.block = t.block /\ s.lo = t.lo /\ s.hi = t.hi
                            /\ \/ s = t /\ t.arena # from
                               \/ s = moved(t) /\ t.arena = from
      BY <2>1
    <3>3. q # t
      BY <2>2, <3>1, <3>2
    <3>4. q.hi <= t.lo \/ t.hi <= q.lo
      BY <1>1, <2>2, <3>1, <3>2, <3>3 DEF LiveDisjoint
    <3>5. QED
      BY <3>1, <3>2, <3>4
  <2>3. \A r \in live' : r.lo < r.hi /\ r.hi <= avail[r.block] /\ r.hi <= cap[r.block]
    <3>1. \A s \in live : s.lo < s.hi /\ s.hi <= avail[s.block] /\ s.hi <= cap[s.block]
      BY <1>1 DEF LiveDisjoint
    <3>2. QED
      BY <2>1, <3>1
  <2>4. QED
    BY <2>2, <2>3 DEF LiveDisjoint
<1>10. KeptInv'
  <2>1. \A r \in live' : r.arena \in Arenas /\ r.arena # from
    BY <1>1, <1>3, <1>4 DEF TypeOK, Allocations
  <2>2. ASSUME NEW S \in SUBSET Nodes, Walk(S, to)'
        PROVE  last'[to] \in S /\ \A r \in live' : r.arena = to => r.block \in S
    <3> DEFINE T == (S \ {to}) \cup {from}
    <3>1. T \in SUBSET Nodes /\ from \in T
      BY <1>1
    <3>2. ASSUME NEW n \in T, HomeOf(n) = from, n # last[from], next[n] # Null PROVE next[n] \in T
      <4>1. next[n] \in Blocks /\ next[n] # to
        BY <1>1, <3>2 DEF TypeOK, Pointers
      <4>2. last[from] # to
        BY <1>1 DEF HeadInv
      <4>3. CASE n = from
        BY <1>1, <1>2, <2>2, <3>2, <4>1, <4>2, <4>3 DEF Walk
      <4>4. CASE n # from
        BY <1>1, <1>2, <2>2, <3>2, <4>1, <4>4 DEF Walk
      <4>5. QED
        BY <4>3, <4>4
    <3>3. last[from] \in T /\ \A r \in live : r.arena = from => r.block \in T
      <4> HIDE DEF T
      <4> QED BY <1>1, <3>1, <3>2, OwnWalk
    <3>4. \A r \in live : r.block \in Blocks
      BY <1>1 DEF TypeOK, Allocations
    <3>5. QED
      BY <1>1, <1>2, <1>3, <1>4, <2>2, <3>3, <3>4 DEF Walk
  <2>3. ASSUME NEW b \in Arenas, b \notin {from, to}, NEW S \in SUBSET Nodes, Walk(S, b)'
        PROVE  last'[b] \in S /\ \A r \in live' : r.arena = b => r.block \in S
    <3>1. b \in S /\ \A n \in S : HomeOf(n) = b /\ n # last[b] /\ next[n] # Null => next[n] \in S
      BY <1>1, <1>2, <2>3 DEF Walk, HomeOf
    <3>2. last[b] \in S /\ \A r \in live : r.arena = b => r.block \in S
      BY <1>1, <3>1, OwnWalk
    <3>3. QED
      BY <1>2, <1>3, <1>4, <2>3, <3>2
  <2>4. \A S \in SUBSET Nodes : Walk(S, from)' => last'[from] \in S
    BY <1>2 DEF Walk
  <2>5. QED
    BY <2>1, <2>2, <2>3, <2>4 DEF KeptInv
<1>11. QED
  BY <1>5, <1>6, <1>7, <1>8, <1>9, <1>10

-----------------------------------------------------------------------------
(* What holds however many destructors have run: the types, for which a    *)
(* head_ block must have no room.                                          *)

HeadsEmpty == \A a \in Arenas : cap[a] = 0

LEMMA CallTypes ==
  ASSUME TypeOK, HeadsEmpty, Next
  PROVE  TypeOK' /\ HeadsEmpty'
<1> USE DEF HeadsEmpty
<1>1. /\ Allocating \cup Resetting \cup Clearing \subseteq Arenas
      /\ \A a \in Arenas : a \notin Blocks /\ a # Null
  BY CallerAssumption, BlockAssumption
<1>2. \A a \in Arenas, blk \in Blocks : LinkBehind(a, blk) =>
         /\ next' \in [Nodes -> Pointers] /\ avail' \in [Nodes -> Nat]
         /\ last' \in [Arenas -> Nodes] /\ home' \in [Blocks -> Arenas \cup {FreeList}]
  BY DEF LinkBehind, TypeOK, Nodes, Pointers
<1>3. ASSUME NEW a \in Arenas, NEW size \in Sizes, Allocate(a, size)
      PROVE  TypeOK' /\ HeadsEmpty'
  BY <1>3 DEF Allocate, TypeOK, Calls
<1>4. ASSUME TakeFreeBlock PROVE TypeOK' /\ HeadsEmpty'
  <2>1. call.arena \in Arenas /\ freeBlocks \in Blocks
    BY <1>4, PendingCall DEF TakeFreeBlock, TypeOK, Pointers
  <2>2. QED
    BY <1>2, <1>4, <2>1 DEF TakeFreeBlock, TypeOK, Nodes
<1>5. ASSUME NEW blk \in Blocks, MallocBlock(blk) PROVE TypeOK' /\ HeadsEmpty'
  <2>1. call.arena \in Arenas /\ call.size + BlockSize \in Nat
    BY <1>5, PendingCall, SizeAssumption DEF MallocBlock
  <2>2. QED
    BY <1>1, <1>2, <1>5, <2>1 DEF MallocBlock, TypeOK, Nodes
<1>6. ASSUME MallocFails PROVE TypeOK' /\ HeadsEmpty'
  BY <1>6, PendingCall DEF MallocFails, TypeOK, Nodes, Pointers
<1>7. ASSUME Bump PROVE TypeOK' /\ HeadsEmpty'
  <2> DEFINE blk == last[call.arena]
             hi  == avail[blk] + call.size
  <2>1. /\ call.arena \in Arenas /\ call.size \in Nat /\ call.size > 0
        /\ blk \in Nodes /\ cap[blk] - avail[blk] >= call.size
    BY <1>7, PendingCall DEF Bump, HasRoom
  <2>2. blk \in Blocks /\ avail[blk] \in Nat /\ hi \in Nat
    BY <2>1 DEF TypeOK, Nodes
  <2>3. /\ avail' = [avail EXCEPT ![blk] = hi] /\ call' = NoCall
        /\ live' = live \cup {[arena |-> call.arena, block |-> blk, lo |-> avail[blk], hi |-> hi]}
        /\ UNCHANGED <<next, last, cap, freeBlocks, heap, home>>
    BY <1>7 DEF Bump
  <2>4. [arena |-> call.arena, block |-> blk, lo |-> avail[blk], hi |-> hi] \in Allocations
    BY <2>1, <2>2 DEF Allocations
  <2> HIDE DEF blk, hi
  <2>5. QED
    BY <2>1, <2>2, <2>3, <2>4 DEF TypeOK
<1>8. ASSUME NEW a \in Arenas, Reset(a) PROVE TypeOK' /\ HeadsEmpty'
  BY <1>1, <1>8 DEF Reset, DropLive, TypeOK, Nodes, Pointers
<1>9. ASSUME NEW a \in Arenas, Clear(a) PROVE TypeOK' /\ HeadsEmpty'
  BY <1>1, <1>9 DEF Clear, DropLive, TypeOK, Nodes, Pointers
<1>10. QED
  BY <1>1, <1>3, <1>4, <1>5, <1>6, <1>7, <1>8, <1>9 DEF Next, Grow

LEMMA TransferTypes ==
  ASSUME TypeOK, NEW from \in Arenas, NEW to \in Arenas, Transfer(from, to),
         UNCHANGED <<avail, cap, freeBlocks, call>>, heap' \subseteq Blocks
  PROVE  TypeOK'
<1>1. next' \in [Nodes -> Pointers] /\ last' \in [Arenas -> Nodes] /\ home' \in [Blocks -> Arenas \cup {FreeList}]
  BY DEF Transfer, TypeOK, Nodes, Pointers
<1>2. \A r \in live : [r EXCEPT !.arena = to] \in Allocations
  BY DEF TypeOK, Allocations
<1>3. live' \subseteq Allocations
  BY <1>2 DEF Transfer, TypeOK
<1>4. QED
  BY <1>1, <1>3 DEF TypeOK

-----------------------------------------------------------------------------
(* The inductive invariant of LifeSpec.                                    *)

\* What the links owe to each other, heap aside.
Linked == UniqueReference /\ LiveDisjoint /\ KeptInv

LifeInv ==
  /\ TypeOK /\ HeadsEmpty /\ alive \subseteq Arenas /\ destroyed \in Nat
  /\ destroyed = 0 => IInv /\ KeptInv
  /\ MaxDestroy <= 1 => Linked

LEMMA LifeInitInv == LifeInit => LifeInv
BY InitInv, InitKept, LifetimeAssumption DEF LifeInit, LifeInv, IInv, HeadInv, HeadsEmpty, Linked

\* Giving up the allocations of an arena, and its blocks, harms no link.
LEMMA DestroyInv ==
  ASSUME LifeInv, NEW a \in Arenas, Destroy(a)
  PROVE  LifeInv'
<1>1. /\ TypeOK /\ HeadsEmpty /\ alive \subseteq Arenas /\ destroyed \in Nat
      /\ MaxDestroy <= 1 => Linked
  BY DEF LifeInv
<1>2. /\ UNCHANGED <<next, last, avail, cap, freeBlocks, call, home>>
      /\ live' \subseteq live /\ heap' \subseteq heap
      /\ destroyed' = destroyed + 1 /\ alive' \subseteq alive
  BY DEF Destroy, FreeBoth, DropLive
<1>3. TypeOK' /\ HeadsEmpty'
  BY <1>1, <1>2 DEF TypeOK, HeadsEmpty
<1>4. (MaxDestroy <= 1 => Linked)'
  BY <1>1, <1>2 DEF Linked, UniqueReference, LiveDisjoint, KeptInv, Walk
<1>5. QED
  BY <1>1, <1>2, <1>3, <1>4 DEF LifeInv

LEMMA MoveConstructInv ==
  ASSUME LifeInv, NEW to \in Arenas, NEW from \in Arenas, MoveConstruct(to, from)
  PROVE  LifeInv'
<1>1. /\ TypeOK /\ HeadsEmpty /\ alive \subseteq Arenas /\ destroyed \in Nat
      /\ destroyed = 0 => IInv /\ KeptInv
  BY DEF LifeInv
<1>2. /\ destroyed < MaxDestroy /\ to # from /\ Transfer(from, to)
      /\ UNCHANGED <<avail, cap, freeBlocks, heap, call, destroyed>>
      /\ alive' = alive \cup {to}
  BY DEF MoveConstruct
<1>3. TypeOK' /\ HeadsEmpty' /\ heap \subseteq Blocks
  BY <1>1, <1>2, TransferTypes DEF HeadsEmpty, TypeOK
<1>4. CASE destroyed = 0
  <2>1. IInv /\ KeptInv
    BY <1>1, <1>4
  <2>2. HeadInv' /\ UniqueReference' /\ HomeInv' /\ LiveDisjoint' /\ KeptInv'
    BY <1>2, <1>3, <2>1, TransferLinks
  <2>3. HeapInv'
    <3>1. \A n \in Nodes : next'[n] \in {Null, next[n], next[from]}
      BY <1>1, <1>2 DEF Transfer, TypeOK
    <3>2. \A b \in Blocks : home[b] = FreeList => home'[b] = FreeList
      BY <1>1, <1>2, BlockAssumption DEF Transfer, TypeOK
    <3>3. QED
      BY <1>2, <2>1, <3>1, <3>2 DEF IInv, HeapInv, Nodes
  <2>4. QED
    BY <1>1, <1>2, <1>3, <2>2, <2>3 DEF LifeInv, IInv, Linked
<1>5. CASE destroyed # 0
  <2>1. ~(MaxDestroy <= 1) /\ destroyed' # 0
    BY <1>1, <1>2, <1>5, LifetimeAssumption
  <2>2. QED
    BY <1>1, <1>2, <1>3, <2>1 DEF LifeInv
<1>6. QED
  BY <1>4, <1>5

LEMMA MoveAssignInv ==
  ASSUME LifeInv, NEW to \in Arenas, NEW from \in Arenas, MoveAssign(to, from)
  PROVE  LifeInv'
<1>1. /\ TypeOK /\ HeadsEmpty /\ alive \subseteq Arenas /\ destroyed \in Nat
      /\ destroyed = 0 => IInv /\ KeptInv
  BY DEF LifeInv
<1>2. /\ destroyed < MaxDestroy /\ to # from /\ Transfer(from, to)
      /\ UNCHANGED <<avail, cap, freeBlocks, call, alive>>
      /\ heap' \subseteq heap /\ destroyed' = destroyed + 1
  BY DEF MoveAssign, FreeBoth
<1>3. TypeOK' /\ HeadsEmpty' /\ heap' \subseteq Blocks
  BY <1>1, <1>2, TransferTypes DEF HeadsEmpty, TypeOK
<1>4. CASE destroyed = 0
  <2>1. UniqueReference' /\ LiveDisjoint' /\ KeptInv'
    BY <1>1, <1>2, <1>3, <1>4, TransferLinks
  <2>2. QED
    BY <1>1, <1>2, <1>3, <2>1 DEF LifeInv, Linked
<1>5. CASE destroyed # 0
  <2>1. ~(MaxDestroy <= 1)
    BY <1>1, <1>2, <1>5, LifetimeAssumption
  <2>2. QED
    BY <1>1, <1>2, <1>3, <2>1 DEF LifeInv
<1>6. QED
  BY <1>4, <1>5

LEMMA UseInv ==
  ASSUME LifeInv, Use
  PROVE  LifeInv'
<1>1. /\ TypeOK /\ HeadsEmpty /\ alive \subseteq Arenas /\ destroyed \in Nat
      /\ destroyed = 0 => IInv /\ KeptInv
  BY DEF LifeInv
<1>2. Next /\ destroyed < MaxDestroy /\ UNCHANGED <<alive, destroyed>>
  BY DEF Use, Next, lifeVars
<1>3. TypeOK' /\ HeadsEmpty'
  BY <1>1, <1>2, CallTypes
<1>4. destroyed = 0 => IInv' /\ KeptInv'
  BY <1>1, <1>2, StepInv, StepKept
<1>5. MaxDestroy <= 1 => destroyed = 0
  BY <1>1, <1>2, LifetimeAssumption
<1>6. QED
  BY <1>1, <1>2, <1>3, <1>4, <1>5 DEF LifeInv, Linked, IInv

LEMMA LifeStepInv == LifeInv /\ [LifeNext]_<<vars, lifeVars>> => LifeInv'
<1> SUFFICES ASSUME LifeInv, [LifeNext]_<<vars, lifeVars>> PROVE LifeInv'
  OBVIOUS
<1>1. CASE UNCHANGED <<vars, lifeVars>>
  BY <1>1 DEF vars, lifeVars, LifeInv, TypeOK, HeadsEmpty, Linked, IInv, HeadInv, HeapInv,
              UniqueReference, HomeInv, HomeOf, LiveDisjoint, KeptInv, Walk
<1>2. CASE LifeNext
  BY <1>2, UseInv, DestroyInv, MoveConstructInv, MoveAssignInv, LifetimeAssumption DEF LifeNext
<1>3. QED
  BY <1>1, <1>2

LEMMA LifeInvariance == LifeSpec => []LifeInv
BY LifeInitInv, LifeStepInv, PTL DEF LifeSpec

\* No constructor, destructor or move leaves a pointer of a wrong kind: last_ is
\* never null, and nothing is cut from a head_ block, also after a destructor.
THEOREM LifeTypeCorrect == LifeSpec => []TypeOK
<1>1. LifeInv => TypeOK
  BY DEF LifeInv
<1>2. QED
  BY <1>1, LifeInvariance, PTL

\* Until a destructor has run, moves included: no block is on two lists, no live
\* memory is handed out again or lost from its arena's chain, and nothing an
\* arena or the free list can reach has been freed.
THEOREM SafeUntilDestroyed ==
  LifeSpec => [](destroyed = 0 => UniqueReference /\ LiveDisjoint /\ LiveReachable /\ NoDangling)
<1>1. IInv /\ KeptInv => UniqueReference /\ LiveDisjoint /\ LiveReachable
  BY KeptReachable DEF IInv
<1>2. LifeInv /\ destroyed = 0 => NoDangling
  <2> SUFFICES ASSUME LifeInv, destroyed = 0 PROVE NoDangling
    OBVIOUS
  <2>1. TypeOK /\ HeapInv /\ alive \subseteq Arenas
    BY DEF LifeInv, IInv
  <2>2. From(freeBlocks) \subseteq heap
    BY <2>1, WalkInHeap DEF TypeOK, HeapInv
  <2>3. \A a \in alive : ChainOf(a) \subseteq heap
    BY <2>1, WalkInHeap DEF TypeOK, HeapInv, ChainOf, Nodes
  <2>4. QED
    BY <2>2, <2>3 DEF NoDangling
<1>3. LifeInv => (destroyed = 0 => UniqueReference /\ LiveDisjoint /\ LiveReachable /\ NoDangling)
  BY <1>1, <1>2 DEF LifeInv
<1>4. QED
  BY <1>3, LifeInvariance, PTL

\* The first destructor, or the first move assignment, takes nothing from the
\* arenas that are left: up to and including the state it leaves no block is on
\* two lists, and live memory is neither handed out again nor cut off.
THEOREM SafeInFirstDestruction ==
  ASSUME MaxDestroy <= 1
  PROVE  LifeSpec => [](UniqueReference /\ LiveDisjoint /\ LiveReachable)
<1>1. LifeInv => UniqueReference /\ LiveDisjoint /\ LiveReachable
  BY KeptReachable DEF LifeInv, Linked
<1>2. QED
  BY <1>1, LifeInvariance, PTL
=============================================================================
