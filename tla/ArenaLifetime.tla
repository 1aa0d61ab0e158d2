--------------------------- MODULE ArenaLifetime ---------------------------
(***************************************************************************)
(* The end of an arena's life: the destructor and the move operations of   *)
(* src/src/common/arena.cpp, on top of the operations of module Arena.     *)
(* Every destructor walks its own chain AND the shared free list, and      *)
(* leaves freeBlocks_ as it is.                                            *)
(***************************************************************************)
EXTENDS Arena

CONSTANTS
  Constructed,  \* the arenas that exist at the start
  Moving,       \* the arenas that take part in moves
  MaxDestroy    \* bound: destructor calls, those of move assignments included;
                \* after the last of them nothing is explored any more

ASSUME LifetimeAssumption == /\ Constructed \cup Moving \subseteq Arenas
                             /\ MaxDestroy \in Nat

VARIABLES
  alive,       \* the constructed arenas not yet destroyed
  destroyed,   \* how many destructors have run
  doubleFree   \* has free() been called on a block that was not allocated?

lifeVars == <<alive, destroyed, doubleFree>>

LifeInit ==
  /\ Init
  /\ alive = Constructed
  /\ destroyed = 0
  /\ doubleFree = FALSE

\* Mutant: only the shared list is freed.
FreeSpareOnly(a) ==
  LET spare == From(freeBlocks)
  IN  /\ destroyed < MaxDestroy
      /\ destroyed' = destroyed + 1
      /\ heap' = heap \ spare
      /\ doubleFree' = (doubleFree \/ ~(spare \subseteq heap))

\* ~Arena(): both loops.  freeBlocks_ keeps pointing at what was freed.
FreeBoth(a) ==
  LET mine == ChainOf(a)
      spare == From(freeBlocks)
  IN  /\ destroyed < MaxDestroy
      /\ destroyed' = destroyed + 1
      /\ heap' = heap \ (mine \cup spare)
      /\ doubleFree' = (doubleFree \/ ~(mine \cup spare \subseteq heap)
                                   \/ mine \cap spare # {})

Destroy(a) ==
  /\ call = NoCall /\ a \in alive
  /\ FreeBoth(a)
  /\ alive' = alive \ {a}
  /\ DropLive(a)
  /\ UNCHANGED <<next, last, avail, cap, freeBlocks, call, home>>

\* Mutant: last_ is copied as it is, also when it points at other.head_.
TransferLast(from, to) ==
  /\ next' = [next EXCEPT ![to] = next[from], ![from] = Null]
  /\ last' = [last EXCEPT ![to] = last[from], ![from] = from]
  /\ home' = [b \in Blocks |-> IF home[b] = from THEN to ELSE home[b]]
  /\ live' = {r \in live : r.arena \notin {from, to}}
             \cup {[r EXCEPT !.arena = to] : r \in {s \in live : s.arena = from}}

\* The chain changes hands: head_ is copied, and last_ unless it is a head_.
Transfer(from, to) ==
  /\ next' = [next EXCEPT ![to] = next[from], ![from] = Null]
  /\ last' = [last EXCEPT ![to] = IF last[from] = from THEN to ELSE last[from],
                          ![from] = from]
  /\ home' = [b \in Blocks |-> IF home[b] = from THEN to ELSE home[b]]
  /\ live' = {r \in live : r.arena \notin {from, to}}
             \cup {[r EXCEPT !.arena = to] : r \in {s \in live : s.arena = from}}

MoveConstruct(to, from) ==
  /\ destroyed < MaxDestroy
  /\ call = NoCall /\ to \notin alive /\ from \in alive
  /\ to \notin Constructed
  /\ Transfer(from, to)
  /\ alive' = alive \cup {to}
  /\ UNCHANGED <<avail, cap, freeBlocks, heap, call, destroyed, doubleFree>>

MoveAssign(to, from) ==
  /\ call = NoCall /\ {to, from} \subseteq alive /\ to # from
  /\ FreeBoth(to)
  /\ Transfer(from, to)
  /\ UNCHANGED <<avail, cap, freeBlocks, call, alive>>

Use ==
  /\ destroyed < MaxDestroy
  /\ \/ \E a \in Allocating \cap alive, size \in Sizes : Allocate(a, size)
     \/ Grow
     \/ Bump
     \/ \E a \in Resetting \cap alive : Reset(a)
     \/ \E a \in Clearing \cap alive : Clear(a)
  /\ UNCHANGED lifeVars

LifeNext ==
  \/ Use
  \/ \E a \in Arenas : Destroy(a)
  \/ \E to, from \in Moving : MoveConstruct(to, from)
  \/ \E to, from \in Moving : MoveAssign(to, from)

LifeSpec == LifeInit /\ [][LifeNext]_<<vars, lifeVars>>

-----------------------------------------------------------------------------
(* Properties *)

\* What a live arena, or the free list a live arena allocates from, can reach
\* is allocated memory.
NoDangling ==
  alive # {} => From(freeBlocks) \cup UNION {ChainOf(a) : a \in alive} \subseteq heap

\* When the last arena is gone, every block has been given back, and none twice.
AllFreed == ~doubleFree /\ (alive = {} => heap = {})
=============================================================================
