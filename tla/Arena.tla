------------------------------- MODULE Arena -------------------------------
(***************************************************************************)
(* The bump allocator of src/src/common/arena.cpp.                         *)
(*                                                                         *)
(* An arena is a chain of blocks hanging off an embedded head_ block that  *)
(* has no room of its own; last_ is the block allocations are cut from.    *)
(* All arenas share ONE static list of returned blocks, freeBlocks_.       *)
(*                                                                         *)
(* An arena name also denotes its head_ block, so that a node of a chain   *)
(* is an arena or a heap block.  Addresses are (block, offset) pairs and   *)
(* sizes count alignment units, which is what alignUp leaves of them.      *)
(***************************************************************************)
EXTENDS Integers

CONSTANTS
  Arenas,     \* the Arena objects (programArena_, fileArena_)
  Allocating, \* the arenas allocate() is called on
  Resetting,  \* ... reset()
  Clearing,   \* ... clear()
  Blocks,     \* the blocks malloc can return
  Null,       \* the null pointer
  BlockSize,  \* blockSize_, in alignment units
  Sizes,      \* the request sizes, rounded up
  FreeList    \* the home of a block that belongs to no arena

ASSUME BlockAssumption == /\ Arenas \cap Blocks = {}
                          /\ Null \notin Arenas \cup Blocks
                          /\ FreeList \notin Arenas
ASSUME CallerAssumption == Allocating \cup Resetting \cup Clearing \subseteq Arenas
ASSUME SizeAssumption == BlockSize \in Nat /\ Sizes \subseteq Nat \ {0}

Nodes == Arenas \cup Blocks
Pointers == Blocks \cup {Null}

VARIABLES
  next,        \* Block::next of every node
  last,        \* last_ of every arena
  avail,       \* Block::avail - Block::begin
  cap,         \* Block::end - Block::begin
  freeBlocks,  \* the static Arena::freeBlocks_
  heap,        \* the blocks malloc has returned and nobody has freed
  call,        \* the allocate() in progress, or NoCall
  live,        \* history: the allocations not yet given up by reset or clear
  home         \* history: the arena a block was last chained into, or FreeList

chainVars == <<next, last, freeBlocks, home>>
vars == <<next, last, avail, cap, freeBlocks, heap, call, live, home>>

NoCall == [arena |-> Null, size |-> 0]
Calls == [arena : Arenas, size : Sizes]
Allocations == [arena : Arenas, block : Blocks, lo : Nat, hi : Nat]

TypeOK ==
  /\ next \in [Nodes -> Pointers]
  /\ last \in [Arenas -> Nodes]
  /\ avail \in [Nodes -> Nat]
  /\ cap \in [Nodes -> Nat]
  /\ freeBlocks \in Pointers
  /\ heap \subseteq Blocks
  /\ call \in {NoCall} \cup Calls
  /\ live \subseteq Allocations
  /\ home \in [Blocks -> Arenas \cup {FreeList}]

Init ==
  /\ next = [n \in Nodes |-> Null]
  /\ last = [a \in Arenas |-> a]
  /\ avail = [n \in Nodes |-> 0]
  /\ cap = [n \in Nodes |-> 0]
  /\ freeBlocks = Null
  /\ heap = {}
  /\ call = NoCall
  /\ live = {}
  /\ home = [b \in Blocks |-> FreeList]

-----------------------------------------------------------------------------
(* allocate(): the loop runs until last_ has room, one block an iteration. *)

Allocate(a, size) ==
  /\ call = NoCall
  /\ call' = [arena |-> a, size |-> size]
  /\ UNCHANGED <<next, last, avail, cap, freeBlocks, heap, live, home>>

HasRoom(a, size) == cap[last[a]] - avail[last[a]] >= size

\* The tail of an iteration: blk becomes the last block of a, empty.
LinkBehind(a, blk) ==
  /\ next' = [next EXCEPT ![last[a]] = blk, ![blk] = Null]
  /\ avail' = [avail EXCEPT ![blk] = 0]
  /\ last' = [last EXCEPT ![a] = blk]
  /\ home' = [home EXCEPT ![blk] = a]

\* Mutant: the block taken stays at the head of the free list.
TakeFreeBlockKept ==
  /\ call # NoCall /\ ~HasRoom(call.arena, call.size)
  /\ freeBlocks # Null
  /\ LinkBehind(call.arena, freeBlocks)
  /\ UNCHANGED <<freeBlocks, cap, heap, call, live>>

\* The first block of the free list is taken, whatever its size.
TakeFreeBlock ==
  /\ call # NoCall /\ ~HasRoom(call.arena, call.size)
  /\ freeBlocks # Null
  /\ freeBlocks' = next[freeBlocks]
  /\ LinkBehind(call.arena, freeBlocks)
  /\ UNCHANGED <<cap, heap, call, live>>

\* Mutant: the fresh block is entered in the free list as well.
MallocBlockListed(blk) ==
  /\ call # NoCall /\ ~HasRoom(call.arena, call.size)
  /\ freeBlocks = Null
  /\ blk \notin heap
  /\ heap' = heap \cup {blk}
  /\ cap' = [cap EXCEPT ![blk] = call.size + BlockSize]
  /\ LinkBehind(call.arena, blk)
  /\ freeBlocks' = blk
  /\ UNCHANGED <<call, live>>

MallocBlock(blk) ==
  /\ call # NoCall /\ ~HasRoom(call.arena, call.size)
  /\ freeBlocks = Null
  /\ blk \notin heap
  /\ heap' = heap \cup {blk}
  /\ cap' = [cap EXCEPT ![blk] = call.size + BlockSize]
  /\ LinkBehind(call.arena, blk)
  /\ UNCHANGED <<freeBlocks, call, live>>

\* bad_alloc leaves the arena as it was, but for the null just stored in next.
MallocFails ==
  /\ call # NoCall /\ ~HasRoom(call.arena, call.size)
  /\ freeBlocks = Null
  /\ next' = [next EXCEPT ![last[call.arena]] = Null]
  /\ call' = NoCall
  /\ UNCHANGED <<last, avail, cap, freeBlocks, heap, live, home>>

Bump ==
  /\ call # NoCall /\ HasRoom(call.arena, call.size)
  /\ LET blk == last[call.arena]
         hi  == avail[blk] + call.size
     IN  /\ avail' = [avail EXCEPT ![blk] = hi]
         /\ live' = live \cup {[arena |-> call.arena, block |-> blk,
                                lo |-> avail[blk], hi |-> hi]}
  /\ call' = NoCall
  /\ UNCHANGED <<next, last, cap, freeBlocks, heap, home>>

-----------------------------------------------------------------------------
(* reset() and clear() give up every allocation of the arena.              *)

DropLive(a) == live' = {r \in live : r.arena # a}

\* Mutant: the spare block is not cut off the chain.
ResetUncut(a) ==
  /\ call = NoCall
  /\ LET spare == next[last[a]]
         nxt   == IF spare = Null THEN next ELSE [next EXCEPT ![spare] = freeBlocks]
         first == nxt[a]
     IN  /\ next' = nxt
         /\ freeBlocks' = IF spare = Null THEN freeBlocks ELSE spare
         /\ home' = IF spare = Null THEN home
                    ELSE [home EXCEPT ![spare] = FreeList]
         /\ last' = [last EXCEPT ![a] = IF first = Null THEN a ELSE first]
         /\ avail' = IF first = Null THEN avail ELSE [avail EXCEPT ![first] = 0]
  /\ DropLive(a)
  /\ UNCHANGED <<cap, heap, call>>

\* Mutant: last_ is set to the first block without asking whether there is one.
ResetToFirst(a) ==
  /\ call = NoCall
  /\ last' = [last EXCEPT ![a] = next[a]]
  /\ avail' = [n \in Nodes |-> IF n = next[a] THEN 0 ELSE avail[n]]
  /\ DropLive(a)
  /\ UNCHANGED <<next, cap, freeBlocks, heap, call, home>>

\* Only the block after last_ goes to the free list; its own successors are
\* cut off by the assignment to its next.  The chain behind the first block
\* stays linked although last_ goes back to the first block.
Reset(a) ==
  /\ call = NoCall
  /\ LET spare == next[last[a]]
         nxt   == IF spare = Null THEN next
                  ELSE [next EXCEPT ![spare] = freeBlocks, ![last[a]] = Null]
         first == nxt[a]
     IN  /\ next' = nxt
         /\ freeBlocks' = IF spare = Null THEN freeBlocks ELSE spare
         /\ home' = IF spare = Null THEN home
                    ELSE [home EXCEPT ![spare] = FreeList]
         /\ last' = [last EXCEPT ![a] = IF first = Null THEN a ELSE first]
         /\ avail' = IF first = Null THEN avail ELSE [avail EXCEPT ![first] = 0]
  /\ DropLive(a)
  /\ UNCHANGED <<cap, heap, call>>

Clear(a) ==
  /\ call = NoCall
  /\ LET nxt == [next EXCEPT ![last[a]] = freeBlocks]
     IN  /\ freeBlocks' = nxt[a]
         /\ next' = [nxt EXCEPT ![a] = Null]
  /\ last' = [last EXCEPT ![a] = a]
  /\ home' = [b \in Blocks |-> IF home[b] = a THEN FreeList ELSE home[b]]
  /\ DropLive(a)
  /\ UNCHANGED <<avail, cap, heap, call>>

Grow ==
  \/ TakeFreeBlock
  \/ \E blk \in Blocks : MallocBlock(blk)
  \/ MallocFails

Next ==
  \/ \E a \in Allocating, size \in Sizes : Allocate(a, size)
  \/ Grow
  \/ Bump
  \/ \E a \in Resetting : Reset(a)
  \/ \E a \in Clearing : Clear(a)

Spec == Init /\ [][Next]_vars

-----------------------------------------------------------------------------
(* Properties *)

\* No link leads out of the set.
Closed(S) == \A b \in S : next[b] \in S \cup {Null}

\* The blocks a walk along next meets, starting at pointer p: the least set of
\* blocks that holds the first of them and every other's successor.
From(p) ==
  {b \in Blocks : \A S \in SUBSET Blocks : {p} \ {Null} \subseteq S /\ Closed(S) => b \in S}

ChainOf(a) == From(next[a])

\* Every block is pointed to at most once: by one node's next, or by
\* freeBlocks_.  Hence no block is on two chains, or on a chain and on the
\* free list, and no list has a cycle, whatever reset, clear and a failing
\* malloc do to the links of several arenas.
UniqueReference ==
  /\ \A m, n \in Nodes : next[m] = next[n] /\ next[m] # Null => m = n
  /\ \A n \in Nodes : next[n] = freeBlocks => freeBlocks = Null

\* The memory of an allocation is not handed out again before its arena is
\* reset or cleared: two live allocations of the same block do not overlap,
\* across arenas too, and each lies inside its block below avail.
LiveDisjoint ==
  /\ \A r \in live : r.lo < r.hi /\ r.hi <= avail[r.block] /\ r.hi <= cap[r.block]
  /\ \A r, s \in live : r.block = s.block /\ r # s => r.hi <= s.lo \/ s.hi <= r.lo

\* An arena can still walk to every block that holds one of its live
\* allocations: growing the chain never cuts off live memory.
LiveReachable == \A r \in live : r.block \in ChainOf(r.arena)

\* Every block malloc returned is on some chain or on the free list, so that
\* clear and the destructor can find it.
NoLeak == heap \subseteq From(freeBlocks) \cup UNION {ChainOf(a) : a \in Arenas}
=============================================================================
