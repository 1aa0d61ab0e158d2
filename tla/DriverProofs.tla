---------------------------- MODULE DriverProofs ----------------------------
(***************************************************************************)
(* Proofs about module Driver, for any number of files, texts, literals,   *)
(* functions, blocks and sizes, and any hash: names are pointers that are  *)
(* equal exactly when the texts are, nothing interned is ever given up,    *)
(* main() gives back all the memory, none of it twice; and compileFile     *)
(* gives up on exactly the files with an error, and writes of a file       *)
(* exactly what it lowered.                                                *)
(*                                                                         *)
(* Of the memory: only programArena_ allocates and it is never reset, so   *)
(* last_ is the end of its chain, every block is on that chain, the shared *)
(* list stays empty and fileArena_ stays without a block: its destructor,  *)
(* which runs first, frees nothing of the other's.  What a request has got *)
(* from the arena is new memory, hence no earlier name.                    *)
(***************************************************************************)
EXTENDS Driver, ArenaProofs, FiniteSetTheorems

\* The two arenas, the second destroyed first and only between two files.
ContextInv ==
  /\ alive \in {{Program, File}, {Program}, {}}
  /\ alive # {Program, File} => phase = "idle" /\ Between
  /\ ~doubleFree
  /\ alive = {} => heap = {}

\* fileArena_ never gets a block, and nobody else does but programArena_.
ChainsInv ==
  /\ freeBlocks = Null
  /\ next[File] = Null /\ last[File] = File
  /\ next[last[Program]] = Null
  /\ \A r \in live : r.arena = Program
  /\ \A b \in heap : \A S \in SUBSET Nodes : Walk(S, Program) => b \in S

ArenasInv == alive # {} => IInv /\ KeptInv /\ ChainsInv

Requests == [of : {"nobody", "intern", "string"}, text : Texts \cup {Null},
             sizes : Seq(Sizes), got : Seq(Allocations)]

AllEntries == UNION {{buckets[h][i] : i \in DOMAIN buckets[h]} : h \in DOMAIN buckets}

\* What a client has got of the arena is live, and it is no name yet; a text is
\* asked memory for only if it has no entry.
RequestInv ==
  /\ request \in Requests
  /\ call # NoCall => call.arena = Program /\ Waiting
  /\ \A k \in DOMAIN request.got : /\ request.got[k] \in live
                                   /\ \A e \in AllEntries : request.got[k] # e.name
  /\ request.of = "intern" => /\ request.text \in Texts
                              /\ request.sizes = <<BucketSize, TextSize>>
                              /\ \A e \in AllEntries : e.text # request.text

EntryType == [text : Texts, node : Allocations, name : Allocations]

\* Every entry is in the chain of its text, there is one for a text, with a name
\* of its own, and every name handed out is that of an entry.
EntryInv ==
  /\ DOMAIN buckets = {Hash[t] : t \in Texts}
  /\ \A h \in DOMAIN buckets : /\ buckets[h] \in Seq(EntryType)
                               /\ \A i \in DOMAIN buckets[h] : Hash[buckets[h][i].text] = h
  /\ \A d, e \in AllEntries : d.text = e.text \/ d.name = e.name => d = e
  /\ \A n \in names : \E e \in AllEntries : e.text = n.text /\ e.name = n.at
  /\ alive # {} => \A e \in AllEntries : e.node \in live /\ e.name \in live

MemoryInv == ContextInv /\ ArenasInv /\ RequestInv /\ EntryInv

-----------------------------------------------------------------------------
(* The steps of the arenas.                                                *)

\* Growing programArena_ hangs the fresh block behind the end of its chain.
LEMMA GrowChains ==
  ASSUME IInv, KeptInv, ChainsInv, call # NoCall => call.arena = Program, Grow
  PROVE  IInv' /\ KeptInv' /\ ChainsInv' /\ live' = live /\ call' \in {call, NoCall}
<1>1. /\ Program \in Arenas /\ File \in Arenas /\ File # Program
      /\ Program \notin Blocks /\ File \notin Blocks /\ Program # Null /\ File # Null
  BY InternerAssumption, DriverAssumption, BlockAssumption
<1>2. TypeOK /\ HeadInv /\ HeapInv /\ UniqueReference /\ last[Program] \in Nodes
  BY <1>1 DEF IInv, TypeOK
<1>3. ~TakeFreeBlock
  BY DEF ChainsInv, TakeFreeBlock
<1>4. CASE MallocFails
  <2>1. next' = next /\ UNCHANGED <<last, freeBlocks, heap, live, home>> /\ call' = NoCall
    BY <1>2, <1>4 DEF MallocFails, ChainsInv, TypeOK
  <2>2. QED
    BY <1>4, <2>1, MallocFailsInv, GrowKept DEF ChainsInv, Walk
<1>5. ASSUME NEW blk \in Blocks, MallocBlock(blk)
      PROVE  IInv' /\ KeptInv' /\ ChainsInv' /\ live' = live /\ call' \in {call, NoCall}
  <2>1. /\ next' = [next EXCEPT ![last[Program]] = blk, ![blk] = Null]
        /\ last' = [last EXCEPT ![Program] = blk]
        /\ heap' = heap \cup {blk} /\ blk \notin heap
        /\ UNCHANGED <<freeBlocks, live, call>>
    BY <1>5 DEF MallocBlock, LinkBehind
  <2>2. blk \in Nodes /\ blk # Null /\ \A n \in Nodes : next[n] # blk
    BY <1>2, <2>1, BlockAssumption DEF HeapInv, Nodes
  <2>3. last[Program] # blk /\ last[Program] # File
    <3>1. last[Program] \in Blocks => home[last[Program]] = Program
      BY <1>1, <1>2, BlockAssumption DEF HeadInv, HomeOf
    <3>2. home[blk] = FreeList
      BY <1>2, <2>1 DEF HeapInv
    <3>3. QED
      BY <1>1, <1>2, <3>1, <3>2, BlockAssumption DEF HeadInv, HomeOf
  <2>4. \A n \in Nodes : next'[n] = IF n = blk THEN Null
                                    ELSE IF n = last[Program] THEN blk ELSE next[n]
    BY <1>2, <2>1 DEF TypeOK
  <2>5. last'[Program] = blk /\ last'[File] = last[File]
    BY <1>1, <1>2, <2>1 DEF TypeOK
  <2>6. ASSUME NEW b \in heap', NEW S \in SUBSET Nodes, Walk(S, Program)' PROVE b \in S
    <3> DEFINE T == S \ {blk}
    <3>1. T \in SUBSET Nodes /\ Walk(T, Program)
      BY <1>1, <2>2, <2>4, <2>5, <2>6 DEF Walk
    <3>2. last[Program] \in T /\ heap \subseteq T
      BY <1>1, <3>1 DEF KeptInv, ChainsInv
    <3>3. blk \in S
      BY <1>2, <2>2, <2>3, <2>4, <2>5, <2>6, <3>2 DEF Walk
    <3>4. QED
      BY <2>1, <3>2, <3>3
  <2>7. ChainsInv'
    BY <1>1, <2>1, <2>2, <2>3, <2>4, <2>5, <2>6 DEF ChainsInv, Nodes
  <2>8. Grow
    BY <1>5 DEF Grow
  <2>9. QED
    BY <1>5, <2>1, <2>7, <2>8, MallocBlockInv, GrowKept
<1>6. QED
  BY <1>3, <1>4, <1>5 DEF Grow

\* Memory an arena hands out is not live yet.
LEMMA HandedNew ==
  ASSUME IInv, ChainsInv, call.arena = Program, Bump
  PROVE  Handed \in Allocations /\ Handed \notin live /\ live' = live \cup {Handed}
<1>1. /\ call.arena \in Arenas /\ call.size \in Nat /\ call.size > 0
      /\ last[call.arena] \in Nodes /\ TypeOK /\ HasRoom(call.arena, call.size)
  BY PendingCall DEF IInv, Bump
<1> DEFINE blk == last[call.arena]
<1>2. blk \in Blocks
  BY <1>1 DEF IInv, HeadInv, HasRoom, Nodes, TypeOK
<1>3. avail[blk] \in Nat
  BY <1>1 DEF TypeOK
<1>4. Handed = [arena |-> call.arena, block |-> blk, lo |-> avail[blk], hi |-> avail[blk] + call.size]
  BY DEF Handed
<1>5. Handed \in Allocations
  BY <1>1, <1>2, <1>3, <1>4 DEF Allocations
<1>6. live' = live \cup {Handed}
  BY <1>4 DEF Bump
<1>7. Handed \notin live
  <2> SUFFICES ASSUME Handed \in live PROVE FALSE
    OBVIOUS
  <2>1. Handed.hi <= avail[Handed.block] /\ Handed.lo < Handed.hi
    BY DEF IInv, LiveDisjoint
  <2>2. Handed.hi = avail[blk] + call.size /\ Handed.block = blk
    BY <1>4
  <2>3. QED
    BY <1>1, <1>3, <2>1, <2>2
<1>8. QED
  BY <1>5, <1>6, <1>7

LEMMA BumpChains ==
  ASSUME IInv, KeptInv, ChainsInv, call.arena = Program, Bump
  PROVE  IInv' /\ KeptInv' /\ ChainsInv'
<1>1. UNCHANGED <<next, last, cap, freeBlocks, heap, home>>
  BY DEF Bump
<1>2. live' = live \cup {Handed} /\ Handed.arena = Program
  BY HandedNew DEF Handed
<1>3. ChainsInv'
  BY <1>1, <1>2 DEF ChainsInv, Walk
<1>4. QED
  BY <1>3, BumpInv, BumpKept

\* Resetting fileArena_ changes nothing but its own avail: it has no block.
LEMMA ResetChains ==
  ASSUME IInv, KeptInv, ChainsInv, Reset(File)
  PROVE  IInv' /\ KeptInv' /\ ChainsInv' /\ live' = live /\ UNCHANGED <<heap, call>>
<1>1. File \in Arenas /\ File # Program /\ TypeOK
  BY DriverAssumption DEF IInv
<1>2. next' = next /\ freeBlocks' = freeBlocks /\ home' = home /\ last' = last
      /\ UNCHANGED <<heap, call>>
  BY <1>1 DEF Reset, ChainsInv, TypeOK
<1>3. live' = live
  BY <1>1 DEF Reset, DropLive, ChainsInv
<1>4. ChainsInv'
  BY <1>2, <1>3 DEF ChainsInv, Walk
<1>5. QED
  BY <1>1, <1>2, <1>3, <1>4, ResetInv, ResetKept

\* The walk of the destructor along programArena_'s chain meets every block
\* that is allocated, and nothing else.
LEMMA ChainIsHeap ==
  ASSUME IInv, ChainsInv
  PROVE  /\ ChainOf(Program) = heap
         /\ ChainOf(File) = {} /\ From(freeBlocks) = {}
<1>1. Program \in Arenas /\ TypeOK /\ HeapInv /\ Program \notin Blocks /\ Program \in Nodes
  BY InternerAssumption, BlockAssumption DEF IInv, Nodes
<1>2. ChainOf(Program) \subseteq heap
  BY <1>1, WalkInHeap DEF ChainOf, TypeOK, HeapInv
<1>3. heap \subseteq ChainOf(Program)
  <2> SUFFICES ASSUME NEW b \in heap, NEW S \in SUBSET Blocks,
                      {next[Program]} \ {Null} \subseteq S, Closed(S)
               PROVE  b \in S
    BY <1>1 DEF ChainOf, From, TypeOK
  <2> DEFINE T == S \cup {Program}
  <2>1. T \in SUBSET Nodes /\ Walk(T, Program)
    BY <1>1 DEF Walk, Closed, Nodes
  <2>2. b \in T
    BY <2>1 DEF ChainsInv
  <2>3. QED
    BY <1>1, <2>2 DEF TypeOK
<1>4. From(Null) = {}
  <2>1. {} \in SUBSET Blocks /\ {Null} \ {Null} \subseteq {} /\ Closed({})
    BY DEF Closed
  <2>2. QED
    BY <2>1 DEF From
<1>5. QED
  BY <1>2, <1>3, <1>4 DEF ChainOf, ChainsInv

-----------------------------------------------------------------------------
(* The steps of the interner.                                              *)

LEMMA InitMemory == DriverInit => MemoryInv
<1> SUFFICES ASSUME DriverInit PROVE MemoryInv
  OBVIOUS
<1>1. /\ Init /\ alive = {Program, File} /\ ~doubleFree
      /\ request = NoRequest /\ names = {} /\ buckets = [h \in {Hash[t] : t \in Texts} |-> << >>]
  BY DriverAssumption DEF DriverInit, LifeInit, InternerInit
<1>2. ContextInv
  BY <1>1 DEF ContextInv
<1>3. Program \in Arenas /\ File \in Arenas /\ Program \in Nodes /\ File \in Nodes
  BY InternerAssumption, DriverAssumption DEF Nodes
<1>4. ChainsInv
  BY <1>1, <1>3 DEF Init, ChainsInv
<1>5. ArenasInv
  BY <1>1, <1>4, InitInv, InitKept DEF ArenasInv
<1>6. AllEntries = {}
  BY <1>1 DEF AllEntries
<1>7. NoRequest \in Requests /\ NoRequest.got = << >> /\ NoRequest.of = "nobody" /\ call = NoCall
  BY <1>1 DEF NoRequest, Requests, Init
<1>8. RequestInv
  BY <1>1, <1>6, <1>7 DEF RequestInv
<1>9. EntryInv
  BY <1>1, <1>6 DEF EntryInv
<1>10. QED
  BY <1>2, <1>5, <1>8, <1>9 DEF MemoryInv

\* A step that has nothing to do with the arenas.
LEMMA SameArenas ==
  ASSUME ContextInv, ArenasInv, UNCHANGED <<vars, lifeVars>>,
         alive = {Program, File} \/ UNCHANGED <<phase, request>>
  PROVE  ContextInv' /\ ArenasInv'
<1>1. IInv' <=> IInv
  BY DEF vars, IInv, TypeOK, HeadInv, HeapInv, UniqueReference, HomeInv, HomeOf, LiveDisjoint
<1>2. (KeptInv' <=> KeptInv) /\ (ChainsInv' <=> ChainsInv)
  BY DEF vars, KeptInv, ChainsInv, Walk
<1>3. QED
  BY <1>1, <1>2 DEF ContextInv, ArenasInv, vars, lifeVars, Between

\* A step of the driver alone.
LEMMA SameMemory ==
  ASSUME MemoryInv, UNCHANGED <<vars, lifeVars, internVars>>,
         phase # "idle" \/ phase' = phase
  PROVE  MemoryInv'
<1>3. ContextInv' /\ ArenasInv'
  BY SameArenas DEF MemoryInv, ContextInv, internVars
<1>4. AllEntries' = AllEntries
  BY DEF AllEntries, internVars
<1>5. RequestInv' /\ EntryInv'
  BY <1>4 DEF MemoryInv, RequestInv, EntryInv, Waiting, vars, lifeVars, internVars
<1>6. QED
  BY <1>3, <1>5 DEF MemoryInv

\* A step of the arenas, by a call of programArena_ or a reset of fileArena_,
\* that keeps what is live.
LEMMA ArenaStep ==
  ASSUME MemoryInv, IInv', KeptInv', ChainsInv', live' = live, UNCHANGED <<lifeVars, internVars>>,
         alive = {Program, File}, call' # NoCall => call'.arena = Program /\ Waiting
  PROVE  MemoryInv'
<1>1. ContextInv' /\ ArenasInv'
  BY DEF MemoryInv, ContextInv, ArenasInv, lifeVars
<1>2. AllEntries' = AllEntries
  BY DEF AllEntries, internVars
<1>3. RequestInv' /\ EntryInv'
  BY <1>2 DEF MemoryInv, RequestInv, EntryInv, Waiting, lifeVars, internVars
<1>4. QED
  BY <1>1, <1>3 DEF MemoryInv

LEMMA BeginningMemory ==
  ASSUME MemoryInv, BeginFile \/ EndFile
  PROVE  MemoryInv'
<1>1. Reset(File) /\ UNCHANGED <<lifeVars, internVars>> /\ call = NoCall
  BY DEF BeginFile, EndFile, In, Between
<1>2. alive = {Program, File}
  BY DriverAssumption DEF BeginFile, EndFile, In, MemoryInv, ContextInv
<1>3. IInv /\ KeptInv /\ ChainsInv
  BY <1>2 DEF MemoryInv, ArenasInv
<1>4. QED
  BY <1>1, <1>2, <1>3, ResetChains, ArenaStep

\* Outside a file nothing is asked for; hence a pending request has both arenas.
LEMMA Pending ==
  ASSUME MemoryInv, phase # "idle" \/ request # NoRequest \/ call # NoCall
  PROVE  alive = {Program, File} /\ IInv /\ KeptInv /\ ChainsInv
BY DEF MemoryInv, ContextInv, ArenasInv, Between

LEMMA GrowMemory ==
  ASSUME MemoryInv, GrowArena
  PROVE  MemoryInv'
<1>1. call # NoCall /\ Grow /\ UNCHANGED <<lifeVars, internVars>>
  BY DEF GrowArena, Grow, TakeFreeBlock, MallocBlock, MallocFails
<1>2. alive = {Program, File} /\ IInv /\ KeptInv /\ ChainsInv
  BY <1>1, Pending
<1>3. call.arena = Program /\ Waiting
  BY <1>1 DEF MemoryInv, RequestInv
<1>4. QED
  BY <1>1, <1>2, <1>3, GrowChains, ArenaStep

LEMMA AskMemory ==
  ASSUME MemoryInv, Ask
  PROVE  MemoryInv'
<1>1. Waiting /\ request \in Requests
  BY DEF Ask, MemoryInv, RequestInv
<1>2. request # NoRequest
  BY <1>1 DEF Waiting, NoRequest
<1>3. alive = {Program, File} /\ IInv /\ KeptInv /\ ChainsInv
  BY <1>2, Pending
<1> DEFINE size == request.sizes[Len(request.got) + 1]
<1>4. size \in Sizes
  BY <1>1 DEF Waiting, Requests
<1>5. Allocate(Program, size) /\ UNCHANGED <<internVars, lifeVars>>
  BY DEF Ask
<1> HIDE DEF size
<1>6. IInv' /\ Program \in Arenas
  BY <1>3, <1>4, <1>5, AllocateInv, InternerAssumption
<1>7. KeptInv' /\ ChainsInv' /\ live' = live /\ call'.arena = Program
  BY <1>3, <1>5 DEF Allocate, KeptInv, ChainsInv, Walk
<1>8. QED
  BY <1>1, <1>3, <1>5, <1>6, <1>7, ArenaStep

LEMMA TakeMemory ==
  ASSUME MemoryInv, Take
  PROVE  MemoryInv'
<1>1. Bump /\ call # NoCall /\ call' = NoCall /\ UNCHANGED <<buckets, names, lifeVars>>
      /\ request' = [request EXCEPT !.got = Append(@, Handed)]
  BY DEF Take, Bump
<1>2. alive = {Program, File} /\ IInv /\ KeptInv /\ ChainsInv
  BY <1>1, Pending
<1>3. request \in Requests /\ call.arena = Program
  BY <1>1 DEF MemoryInv, RequestInv
<1>4. Handed \in Allocations /\ Handed \notin live /\ live' = live \cup {Handed}
  BY <1>1, <1>2, <1>3, HandedNew
<1>5. ContextInv' /\ ArenasInv'
  BY <1>1, <1>2, <1>3, BumpChains DEF MemoryInv, ContextInv, ArenasInv, lifeVars
<1>6. AllEntries' = AllEntries
  BY <1>1 DEF AllEntries
<1>7. EntryInv'
  BY <1>1, <1>4, <1>6 DEF MemoryInv, EntryInv, lifeVars
<1>8. \A e \in AllEntries : e.name \in live
  BY <1>2, DriverAssumption DEF MemoryInv, EntryInv
<1> DEFINE got == request.got
<1>9. /\ got \in Seq(Allocations) /\ Append(got, Handed) \in Seq(Allocations)
      /\ DOMAIN got = 1..Len(got) /\ Len(got) \in Nat
      /\ DOMAIN Append(got, Handed) = 1..(Len(got) + 1)
      /\ \A k \in 1..Len(got) : Append(got, Handed)[k] = got[k]
      /\ Append(got, Handed)[Len(got) + 1] = Handed
  <2>1. got \in Seq(Allocations)
    BY <1>3 DEF Requests
  <2> HIDE DEF got
  <2>2. QED
    BY <1>4, <2>1
<1>10. /\ request' \in Requests
       /\ request'.of = request.of /\ request'.text = request.text /\ request'.sizes = request.sizes
       /\ \A k \in DOMAIN request'.got : request'.got[k] = Handed
                                          \/ (k \in DOMAIN got /\ request'.got[k] = got[k])
  <2> DEFINE more == Append(got, Handed)
  <2> HIDE DEF more
  <2>1. request' = [request EXCEPT !.got = more]
    BY <1>1 DEF more
  <2>2. more \in Seq(Allocations)
    BY <1>9 DEF more
  <2>3. /\ request' \in Requests /\ request'.got = more
        /\ request'.of = request.of /\ request'.text = request.text /\ request'.sizes = request.sizes
    BY <1>3, <2>1, <2>2 DEF Requests
  <2> HIDE DEF got
  <2>4. \A k \in DOMAIN more : more[k] = Handed \/ (k \in DOMAIN got /\ more[k] = got[k])
    BY <1>9 DEF more
  <2>5. QED
    BY <2>3, <2>4
<1>11. RequestInv'
  BY <1>1, <1>4, <1>6, <1>8, <1>9, <1>10 DEF MemoryInv, RequestInv
<1>12. QED
  BY <1>5, <1>7, <1>11 DEF MemoryInv

\* intern() finds the one entry of the text, or there is none in any chain.
LEMMA InternMemory ==
  ASSUME MemoryInv, phase # "idle", NEW t \in Texts, Intern(t)
  PROVE  MemoryInv'
<1>1. UNCHANGED <<buckets, vars, lifeVars>> /\ request = NoRequest /\ call = NoCall
  BY DEF Intern
<1>2. alive = {Program, File}
  BY Pending
<1>3. ContextInv' /\ ArenasInv'
  BY <1>1, <1>2, SameArenas DEF MemoryInv
<1>4. AllEntries' = AllEntries
  BY <1>1 DEF AllEntries
<1>5. DOMAIN buckets = {Hash[u] : u \in Texts}
  BY DEF MemoryInv, EntryInv
<1>6. Entries(t) = {e \in AllEntries : e.text = t}
  <2>1. \A h \in DOMAIN buckets : \A i \in DOMAIN buckets[h] : Hash[buckets[h][i].text] = h
    BY DEF MemoryInv, EntryInv
  <2>2. QED
    BY <1>5, <2>1 DEF Entries, AllEntries
<1>7. CASE Entries(t) # {}
  <2>1. PICK e \in Entries(t) : names' = names \cup {[text |-> t, at |-> e.name]} /\ request' = request
    BY <1>7 DEF Intern
  <2>2. EntryInv'
    BY <1>1, <1>2, <1>4, <1>6, <2>1 DEF MemoryInv, EntryInv, vars, lifeVars
  <2>3. RequestInv'
    BY <1>1, <1>4, <2>1 DEF MemoryInv, RequestInv, Waiting, vars
  <2>4. QED
    BY <1>3, <2>2, <2>3 DEF MemoryInv
<1>8. CASE Entries(t) = {}
  <2>1. names' = names
        /\ request' = [of |-> "intern", text |-> t, sizes |-> <<BucketSize, TextSize>>, got |-> << >>]
    BY <1>8 DEF Intern, Request
  <2>2. EntryInv'
    BY <1>1, <1>4, <2>1 DEF MemoryInv, EntryInv, vars, lifeVars
  <2>3. request' \in Requests
    BY <2>1, InternerAssumption DEF Requests
  <2>4. RequestInv'
    BY <1>1, <1>4, <1>6, <1>8, <2>1, <2>3 DEF RequestInv, vars
  <2>5. QED
    BY <1>3, <2>2, <2>4 DEF MemoryInv
<1>9. QED
  BY <1>7, <1>8

LEMMA LiteralMemory ==
  ASSUME MemoryInv, phase # "idle", NEW pieces \in 1..2, StringLiteral(pieces)
  PROVE  MemoryInv'
<1>1. /\ UNCHANGED <<buckets, names, vars, lifeVars>> /\ call = NoCall
      /\ request' = [of |-> "string", text |-> Null,
                     sizes |-> <<BucketSize>> \o [i \in 1..pieces |-> TextSize], got |-> << >>]
  BY DEF StringLiteral, Request
<1>2. alive = {Program, File}
  BY Pending
<1>3. ContextInv' /\ ArenasInv'
  BY <1>1, <1>2, SameArenas DEF MemoryInv
<1>4. AllEntries' = AllEntries
  BY <1>1 DEF AllEntries
<1>5. request' \in Requests
  <2>1. <<BucketSize>> \in Seq(Sizes) /\ [i \in 1..pieces |-> TextSize] \in Seq(Sizes)
    BY InternerAssumption
  <2>2. <<BucketSize>> \o [i \in 1..pieces |-> TextSize] \in Seq(Sizes)
    BY <2>1
  <2>3. QED
    BY <1>1, <2>2 DEF Requests
<1>6. EntryInv'
  BY <1>1, <1>4 DEF MemoryInv, EntryInv, vars, lifeVars
<1>7. RequestInv'
  BY <1>1, <1>5 DEF RequestInv, vars
<1>8. QED
  BY <1>3, <1>6, <1>7 DEF MemoryInv

LEMMA FinishLiteralMemory ==
  ASSUME MemoryInv, FinishLiteral
  PROVE  MemoryInv'
<1>1. /\ request.of = "string" /\ ~Waiting /\ request' = NoRequest /\ phase' = phase
      /\ UNCHANGED <<vars, lifeVars, buckets, names>>
  BY DEF FinishLiteral
<1>2. alive = {Program, File} /\ call = NoCall
  BY <1>1, Pending DEF NoRequest, MemoryInv, RequestInv
<1>3. ContextInv' /\ ArenasInv'
  BY <1>1, <1>2, SameArenas DEF MemoryInv
<1>4. AllEntries' = AllEntries
  BY <1>1 DEF AllEntries
<1>5. NoRequest \in Requests /\ NoRequest.got = << >> /\ NoRequest.of = "nobody"
  BY DEF NoRequest, Requests
<1>6. EntryInv' /\ RequestInv'
  BY <1>1, <1>2, <1>4, <1>5 DEF MemoryInv, EntryInv, RequestInv, vars, lifeVars
<1>7. QED
  BY <1>3, <1>6 DEF MemoryInv

\* The new entry is for a text without one, and its name is new memory.
LEMMA LinkMemory ==
  ASSUME MemoryInv, Link
  PROVE  MemoryInv'
<1> DEFINE t == request.text
           got == request.got
           entry == [text |-> t, node |-> got[1], name |-> got[2]]
<1>1. /\ request.of = "intern" /\ ~Waiting /\ request' = NoRequest
      /\ UNCHANGED <<vars, lifeVars>>
      /\ buckets' = [buckets EXCEPT ![Hash[t]] = <<entry>> \o @]
      /\ names' = names \cup {[text |-> t, at |-> entry.name]}
  BY DEF Link
<1>2. alive = {Program, File} /\ call = NoCall
  BY <1>1, Pending DEF NoRequest, MemoryInv, RequestInv
<1>3. ContextInv' /\ ArenasInv'
  BY <1>1, <1>2, SameArenas DEF MemoryInv
<1>4. /\ t \in Texts /\ \A e \in AllEntries : e.text # t
      /\ got \in Seq(Allocations) /\ Len(got) \in Nat /\ Len(got) >= 2
      /\ \A k \in DOMAIN got : got[k] \in live /\ \A e \in AllEntries : got[k] # e.name
  <2>1. RequestInv /\ Len(request.sizes) = 2
    BY <1>1 DEF MemoryInv, RequestInv
  <2>2. request.got \in Seq(Allocations) /\ Len(got) \in Nat
    BY <2>1 DEF RequestInv, Requests
  <2>3. Len(got) >= 2
    BY <1>1, <2>1, <2>2 DEF Waiting
  <2>4. QED
    BY <1>1, <2>1, <2>2, <2>3 DEF RequestInv
<1>5. /\ got[1] \in live /\ got[2] \in live /\ \A e \in AllEntries : got[2] # e.name
      /\ entry \in EntryType /\ entry.text = t /\ entry.node = got[1] /\ entry.name = got[2]
  <2>1. 1 \in DOMAIN got /\ 2 \in DOMAIN got
    BY <1>4
  <2>2. got[1] \in Allocations /\ got[2] \in Allocations
    BY <1>4, <2>1
  <2>3. QED
    BY <1>4, <2>1, <2>2 DEF EntryType
<1> HIDE DEF entry, got, t
<1>6. /\ DOMAIN buckets = {Hash[u] : u \in Texts} /\ DOMAIN buckets' = DOMAIN buckets
      /\ Hash[t] \in DOMAIN buckets
      /\ \A h \in DOMAIN buckets : buckets[h] \in Seq(EntryType)
      /\ \A h \in DOMAIN buckets : buckets'[h] = IF h = Hash[t] THEN <<entry>> \o buckets[h] ELSE buckets[h]
  BY <1>1, <1>4 DEF MemoryInv, EntryInv
<1> DEFINE old == buckets[Hash[t]]
           new == <<entry>> \o old
<1>7. /\ new \in Seq(EntryType) /\ Len(old) \in Nat
      /\ DOMAIN old = 1..Len(old) /\ DOMAIN new = 1..(Len(old) + 1)
      /\ new[1] = entry /\ \A i \in 1..Len(old) : new[i + 1] = old[i]
  <2>1. old \in Seq(EntryType) /\ <<entry>> \in Seq(EntryType) /\ Len(<<entry>>) = 1 /\ <<entry>>[1] = entry
    BY <1>5, <1>6
  <2> HIDE DEF old
  <2>2. QED
    BY <2>1
<1>8. {new[i] : i \in DOMAIN new} = {old[i] : i \in DOMAIN old} \cup {entry}
  <2> HIDE DEF old, new
  <2>1. \A i \in DOMAIN new : i = 1 \/ (i - 1 \in DOMAIN old /\ new[i] = old[i - 1])
    <3>1. \A i \in DOMAIN new : i = 1 \/ (i - 1 \in 1..Len(old) /\ (i - 1) + 1 = i)
      BY <1>7
    <3>2. QED
      BY <1>7, <3>1
  <2>2. \A i \in DOMAIN old : i + 1 \in DOMAIN new /\ new[i + 1] = old[i]
    BY <1>7
  <2>3. 1 \in DOMAIN new
    BY <1>7
  <2>4. QED
    BY <1>7, <2>1, <2>2, <2>3
<1>9. AllEntries' = AllEntries \cup {entry}
  <2>1. buckets'[Hash[t]] = new
    BY <1>6
  <2>2. \A i \in DOMAIN new : new[i] \in {old[k] : k \in DOMAIN old} \cup {entry}
    BY <1>8
  <2>3. \A i \in DOMAIN old : \E k \in DOMAIN new : new[k] = old[i]
    BY <1>8
  <2>4. \E k \in DOMAIN new : new[k] = entry
    BY <1>8
  <2>5. \A i \in DOMAIN old : old[i] \in AllEntries
    BY <1>6 DEF AllEntries
  <2> HIDE DEF new
  <2>6. ASSUME NEW e \in AllEntries' PROVE e \in AllEntries \cup {entry}
    <3>1. PICK h \in DOMAIN buckets : \E i \in DOMAIN buckets'[h] : e = buckets'[h][i]
      BY <1>6, <2>6 DEF AllEntries
    <3>2. CASE h = Hash[t]
      BY <2>1, <2>2, <2>5, <3>1, <3>2
    <3>3. CASE h # Hash[t]
      BY <1>6, <3>1, <3>3 DEF AllEntries
    <3>4. QED
      BY <3>2, <3>3
  <2>7. entry \in AllEntries'
    BY <1>6, <2>1, <2>4 DEF AllEntries
  <2>8. ASSUME NEW e \in AllEntries PROVE e \in AllEntries'
    <3>1. PICK h \in DOMAIN buckets : \E i \in DOMAIN buckets[h] : e = buckets[h][i]
      BY <2>8 DEF AllEntries
    <3>2. CASE h = Hash[t]
      BY <1>6, <2>1, <2>3, <3>1, <3>2 DEF AllEntries
    <3>3. CASE h # Hash[t]
      BY <1>6, <3>1, <3>3 DEF AllEntries
    <3>4. QED
      BY <3>2, <3>3
  <2>9. QED
    BY <2>6, <2>7, <2>8
<1>10. \A h \in DOMAIN buckets' : /\ buckets'[h] \in Seq(EntryType)
                                  /\ \A i \in DOMAIN buckets'[h] : Hash[buckets'[h][i].text] = h
  <2>1. \A h \in DOMAIN buckets : \A i \in DOMAIN buckets[h] : Hash[buckets[h][i].text] = h
    BY DEF MemoryInv, EntryInv
  <2>2. \A i \in DOMAIN new : new[i] \in {old[j] : j \in DOMAIN old} \cup {entry}
    BY <1>8
  <2>3. \A i \in DOMAIN new : Hash[new[i].text] = Hash[t]
    BY <1>5, <1>6, <2>1, <2>2
  <2>4. buckets'[Hash[t]] = new
    BY <1>6
  <2> HIDE DEF old, new
  <2>5. \A h \in DOMAIN buckets' : buckets'[h] = IF h = Hash[t] THEN new ELSE buckets[h]
    BY <1>6, <2>4
  <2>6. QED
    BY <1>6, <1>7, <2>1, <2>3, <2>5
<1>11. EntryInv'
  <2>1. EntryInv
    BY DEF MemoryInv
  <2>2. \A d, e \in AllEntries' : d.text = e.text \/ d.name = e.name => d = e
    BY <1>4, <1>5, <1>9, <2>1 DEF EntryInv
  <2>3. \A n \in names' : \E e \in AllEntries' : e.text = n.text /\ e.name = n.at
    BY <1>1, <1>5, <1>9, <2>1 DEF EntryInv
  <2>4. (alive # {} => \A e \in AllEntries : e.node \in live /\ e.name \in live)'
    BY <1>1, <1>2, <1>5, <1>9, <2>1 DEF EntryInv, vars, lifeVars
  <2>5. QED
    BY <1>6, <1>10, <2>2, <2>3, <2>4 DEF EntryInv
<1>12. NoRequest \in Requests /\ NoRequest.got = << >> /\ NoRequest.of = "nobody"
  BY DEF NoRequest, Requests
<1>13. RequestInv'
  BY <1>1, <1>2, <1>12 DEF RequestInv, vars
<1>14. QED
  BY <1>3, <1>11, <1>13 DEF MemoryInv

-----------------------------------------------------------------------------
(* The end of main().                                                      *)

\* fileArena_'s destructor finds nothing to free, programArena_'s all of it.
LEMMA ReturnMemory ==
  ASSUME MemoryInv, Return
  PROVE  MemoryInv'
<1>1. /\ phase = "idle" /\ Between /\ UNCHANGED <<phase, request, buckets, names>>
      /\ IF File \in alive THEN Destroy(File) ELSE Destroy(Program)
  BY DEF Return, In, internVars, driverVars
<1>2. /\ File # Program /\ ContextInv /\ RequestInv /\ EntryInv /\ request = NoRequest /\ call = NoCall
      /\ NoRequest.got = << >> /\ NoRequest.of = "nobody"
  BY <1>1, DriverAssumption DEF MemoryInv, Between, NoRequest
<1>3. AllEntries' = AllEntries
  BY <1>1 DEF AllEntries
<1>4. ASSUME NEW a \in Arenas, Destroy(a)
      PROVE  /\ UNCHANGED <<next, last, avail, cap, freeBlocks, call, home>>
             /\ alive' = alive \ {a} /\ a \in alive /\ live' = {r \in live : r.arena # a}
             /\ IInv /\ KeptInv /\ ChainsInv
             /\ ChainOf(Program) = heap /\ ChainOf(File) = {} /\ From(freeBlocks) = {}
             /\ heap' = heap \ ChainOf(a)
             /\ doubleFree' = (doubleFree \/ ~(ChainOf(a) \subseteq heap))
  <2>1. /\ UNCHANGED <<next, last, avail, cap, freeBlocks, call, home>>
        /\ alive' = alive \ {a} /\ a \in alive /\ live' = {r \in live : r.arena # a}
    BY <1>4 DEF Destroy, DropLive
  <2>2. IInv /\ KeptInv /\ ChainsInv
    BY <2>1 DEF MemoryInv, ArenasInv
  <2>3. ChainOf(Program) = heap /\ ChainOf(File) = {} /\ From(freeBlocks) = {}
    BY <2>2, ChainIsHeap
  <2>4. /\ heap' = heap \ (ChainOf(a) \cup From(freeBlocks))
        /\ doubleFree' = (doubleFree \/ ~(ChainOf(a) \cup From(freeBlocks) \subseteq heap)
                                     \/ ChainOf(a) \cap From(freeBlocks) # {})
    BY <1>4 DEF Destroy, FreeBoth
  <2>5. QED
    BY <2>1, <2>2, <2>3, <2>4
<1>5. CASE File \in alive
  <2>1. Destroy(File) /\ File \in Arenas
    BY <1>1, <1>5, DriverAssumption
  <2>2. /\ UNCHANGED <<next, last, avail, cap, freeBlocks, call, home>>
        /\ alive' = {Program} /\ live' = live /\ heap' = heap /\ ~doubleFree'
        /\ IInv /\ KeptInv /\ ChainsInv
    <3>1. alive = {Program, File} /\ ~doubleFree
      BY <1>2, <1>5 DEF ContextInv
    <3>2. /\ UNCHANGED <<next, last, avail, cap, freeBlocks, call, home>>
          /\ alive' = alive \ {File} /\ live' = {r \in live : r.arena # File}
          /\ IInv /\ KeptInv /\ ChainsInv
          /\ ChainOf(File) = {} /\ heap' = heap \ ChainOf(File)
          /\ doubleFree' = (doubleFree \/ ~(ChainOf(File) \subseteq heap))
      BY <1>4, <2>1
    <3>3. \A r \in live : r.arena # File
      BY <1>2, <3>2 DEF ChainsInv
    <3>4. QED
      BY <1>2, <3>1, <3>2, <3>3
  <2>3. IInv' /\ KeptInv' /\ ChainsInv'
    BY <2>2 DEF IInv, TypeOK, HeadInv, HeapInv, UniqueReference, HomeInv, HomeOf, LiveDisjoint,
                KeptInv, ChainsInv, Walk
  <2>4. ContextInv' /\ ArenasInv'
    BY <1>1, <1>2, <2>2, <2>3 DEF ContextInv, ArenasInv, Between
  <2>5. RequestInv'
    BY <1>1, <1>2, <2>2 DEF RequestInv, Waiting
  <2>6. EntryInv'
    BY <1>1, <1>2, <1>3, <1>5, <2>2 DEF EntryInv
  <2>7. QED
    BY <2>4, <2>5, <2>6 DEF MemoryInv
<1>6. CASE File \notin alive
  <2>1. Destroy(Program) /\ Program \in Arenas
    BY <1>1, <1>6, InternerAssumption
  <2>2. alive' = {} /\ heap' = {} /\ ~doubleFree' /\ call' = NoCall
    BY <1>2, <1>4, <1>6, <2>1 DEF ContextInv
  <2>3. ContextInv' /\ ArenasInv'
    BY <1>1, <1>2, <2>2 DEF ContextInv, ArenasInv, Between
  <2>4. RequestInv'
    BY <1>1, <1>2, <2>2 DEF RequestInv, Waiting
  <2>5. EntryInv'
    BY <1>1, <1>2, <1>3, <2>2 DEF EntryInv
  <2>6. QED
    BY <2>3, <2>4, <2>5 DEF MemoryInv
<1>7. QED
  BY <1>5, <1>6

LEMMA MemoryStep == MemoryInv /\ [DriverNext]_allVars => MemoryInv'
<1> SUFFICES ASSUME MemoryInv, [DriverNext]_allVars PROVE MemoryInv'
  OBVIOUS
<1>1. CASE UNCHANGED allVars
  BY <1>1, SameMemory DEF allVars, driverVars
<1>2. CASE Compile
  <2>1. ASSUME Exit \/ ReportError \/ Parsed \/ Checked \/ Generate \/ Emit \/ Assemble
        PROVE  MemoryInv'
    <3>1. phase # "idle" /\ UNCHANGED <<vars, lifeVars, internVars>>
      BY <2>1 DEF Exit, ReportError, Parsed, Checked, Generate, Emit, Assemble, In, Unchanged
    <3>2. QED
      BY <3>1, SameMemory
  <2>2. ASSUME Open \/ Name PROVE MemoryInv'
    <3>1. phase # "idle" /\ \E t \in Texts : Intern(t)
      BY <2>2 DEF Open, Name, In
    <3>2. QED
      BY <3>1, InternMemory
  <2>3. ASSUME Literal PROVE MemoryInv'
    <3>1. phase # "idle" /\ \E pieces \in 1..2 : StringLiteral(pieces)
      BY <2>3 DEF Literal, In
    <3>2. QED
      BY <3>1, LiteralMemory
  <2>4. QED
    BY <1>2, <2>1, <2>2, <2>3, BeginningMemory, FinishLiteralMemory DEF Compile
<1>3. CASE Memory
  BY <1>3, AskMemory, TakeMemory, LinkMemory, GrowMemory DEF Memory
<1>4. CASE Return
  BY <1>4, ReturnMemory
<1>5. QED
  BY <1>1, <1>2, <1>3, <1>4 DEF DriverNext

LEMMA MemoryInvariance == DriverSpec => []MemoryInv
BY InitMemory, MemoryStep, PTL DEF DriverSpec

\* Whatever was interned in whichever file: two names are one pointer exactly
\* when they spell the same text, so that comparing pointers is comparing texts.
THEOREM NamesAreTexts == DriverSpec => []InternExact
<1>1. MemoryInv => InternExact
  BY DEF MemoryInv, EntryInv, InternExact
<1>2. QED
  BY <1>1, MemoryInvariance, PTL

\* The memory of a name, and of the entry a search reads, stays allocated to it
\* until main() is over, through every resetting of fileArena_.
THEOREM NamesStay == DriverSpec => []NamesIntact
<1>1. ASSUME MemoryInv PROVE NamesIntact
  <2> SUFFICES ASSUME alive # {}
               PROVE  /\ \A n \in names : n.at \in live
                      /\ \A h \in DOMAIN buckets : \A i \in DOMAIN buckets[h] : buckets[h][i].node \in live
    BY DEF NamesIntact
  <2>1. \A e \in AllEntries : e.node \in live /\ e.name \in live
    BY <1>1 DEF MemoryInv, EntryInv
  <2>2. \A n \in names : \E e \in AllEntries : e.name = n.at
    BY <1>1 DEF MemoryInv, EntryInv
  <2>3. \A h \in DOMAIN buckets : \A i \in DOMAIN buckets[h] : buckets[h][i] \in AllEntries
    BY DEF AllEntries
  <2>4. QED
    BY <2>1, <2>2, <2>3
<1>2. QED
  BY <1>1, MemoryInvariance, PTL

\* While an arena is left, nothing it or the shared list refers to has been
\* freed: the destructor that runs first takes nothing from the other arena.
THEOREM NothingDangles == DriverSpec => []NoDangling
<1>1. ASSUME MemoryInv PROVE NoDangling
  <2> SUFFICES ASSUME alive # {}
               PROVE  From(freeBlocks) \cup UNION {ChainOf(a) : a \in alive} \subseteq heap
    BY DEF NoDangling
  <2>1. ChainOf(Program) = heap /\ ChainOf(File) = {} /\ From(freeBlocks) = {}
    BY <1>1, ChainIsHeap DEF MemoryInv, ArenasInv
  <2>2. \A a \in alive : a = Program \/ a = File
    BY <1>1 DEF MemoryInv, ContextInv
  <2>3. QED
    BY <2>1, <2>2
<1>2. QED
  BY <1>1, MemoryInvariance, PTL

\* When main() has returned all memory has been given back, and none twice.
THEOREM GivesAllBack == DriverSpec => []AllFreed
<1>1. MemoryInv => AllFreed
  BY DEF MemoryInv, ContextInv, AllFreed
<1>2. QED
  BY <1>1, MemoryInvariance, PTL

-----------------------------------------------------------------------------
(***************************************************************************)
(* What compileFile gives up on and what it writes.                        *)
(*                                                                         *)
(* The argument: the error count is zero exactly while nothing has been    *)
(* reported for this file, so the two tests are taken for the files in     *)
(* faulty and for no other; and what the output and the list of strings    *)
(* hold before a file is generated is of earlier files.                    *)
(***************************************************************************)

Phases == {"idle", "open", "parse", "check", "generate", "emit", "assemble", "close", "exited"}

\* What the driver knows of the file, phase by phase.
PhaseInv ==
  /\ phase \in Phases /\ file \in Nat /\ errors \in Nat /\ literals \in Nat /\ functions \in Nat
  /\ faulty \subseteq 1..file /\ refused \subseteq faulty
  /\ phase \notin {"idle", "exited"} => file > 0
  /\ phase \in {"open", "parse", "check"} => /\ errors = 0 <=> file \notin faulty
                                             /\ refused = faulty \ {file}
  /\ phase = "open" => errors = 0
  /\ phase \in {"generate", "emit", "assemble"} => file \notin faulty
  /\ phase \in {"idle", "generate", "emit", "assemble", "close"} => refused = faulty

Items == [kind : {"string", "function"}, file : Nat, nth : Nat]

\* The list of strings has no repetition, and it and the output hold nothing of
\* a file with an error, nor anything of this file before it is generated.
ItemInv ==
  /\ strings \in Seq(Items) /\ out \in Seq(Items)
  /\ \A i \in DOMAIN strings : /\ strings[i].kind = "string" /\ strings[i].file \in 1..file
                               /\ strings[i].file \notin faulty
  /\ \A i, j \in DOMAIN strings : strings[i] = strings[j] => i = j
  /\ \A i \in DOMAIN out : out[i].file \in 1..file /\ out[i].file \notin faulty
  /\ phase \in {"open", "parse", "check", "generate"} => \A i \in DOMAIN strings : strings[i].file # file
  /\ phase \in {"open", "parse", "check", "generate", "emit"} => \A i \in DOMAIN out : out[i].file # file

Own == {s \in Range(strings) : s.file = file} \cup {Item("function", i) : i \in 1..functions}

\* Behind Emit the file's items are in the output, each at one place.
WrittenInv ==
  phase = "assemble" =>
    /\ \A item \in Own : \E i \in DOMAIN out : \A j \in DOMAIN out : out[j] = item <=> j = i
    /\ \A i \in DOMAIN out : out[i].file = file => out[i] \in Own

FileInv == PhaseInv /\ ItemInv /\ WrittenInv

-----------------------------------------------------------------------------

\* Appending a sequence: where its elements are found.
LEMMA Appended ==
  ASSUME NEW S, NEW s \in Seq(S), NEW t \in Seq(S)
  PROVE  /\ s \o t \in Seq(S) /\ Len(s) \in Nat /\ Len(t) \in Nat
         /\ DOMAIN s = 1..Len(s) /\ DOMAIN t = 1..Len(t)
         /\ DOMAIN (s \o t) = 1..(Len(s) + Len(t)) /\ Len(s \o t) = Len(s) + Len(t)
         /\ \A i \in 1..Len(s) : (s \o t)[i] = s[i]
         /\ \A i \in 1..Len(t) : (s \o t)[Len(s) + i] = t[i]
OBVIOUS

LEMMA InitFileInv == DriverInit => FileInv
<1> SUFFICES ASSUME DriverInit PROVE FileInv
  OBVIOUS
<1>1. PhaseInv
  BY DEF DriverInit, PhaseInv, Phases
<1>2. strings = << >> /\ out = << >> /\ phase = "idle"
  BY DEF DriverInit
<1>3. ItemInv
  BY <1>2 DEF ItemInv
<1>4. QED
  BY <1>1, <1>2, <1>3 DEF FileInv, WrittenInv

\* A step that leaves the file's variables alone, or only moves on.
LEMMA SameItems ==
  ASSUME FileInv, PhaseInv', UNCHANGED <<file, functions, strings, out>>,
         faulty' = faulty,
         \/ phase' \in {"idle", "exited", "close", phase}
         \/ phase' = "parse" /\ phase = "open"
  PROVE  FileInv'
<1>1. Own' = Own
  BY DEF Own, Item, Range
<1>2. ItemInv'
  BY DEF FileInv, ItemInv
<1>3. (phase = "assemble")' => phase = "assemble"
  OBVIOUS
<1>4. WrittenInv'
  BY <1>1, <1>3 DEF FileInv, WrittenInv
<1>5. QED
  BY <1>2, <1>4 DEF FileInv

LEMMA BeginFileInv ==
  ASSUME FileInv, BeginFile
  PROVE  FileInv'
<1>1. /\ phase = "idle" /\ phase' = "open" /\ file' = file + 1 /\ errors' = 0
      /\ literals' = 0 /\ functions' = 0
      /\ UNCHANGED <<strings, out, faulty, refused>>
  BY DEF BeginFile, In
<1>2. PhaseInv'
  BY <1>1 DEF FileInv, PhaseInv, Phases
<1>3. ItemInv'
  BY <1>1 DEF FileInv, PhaseInv, ItemInv
<1>4. QED
  BY <1>1, <1>2, <1>3 DEF FileInv, WrittenInv

LEMMA ReportErrorInv ==
  ASSUME FileInv, ReportError
  PROVE  FileInv'
<1>1. /\ phase \in {"parse", "check"} /\ errors = 0 /\ errors' = errors + 1
      /\ faulty' = faulty \cup {file}
      /\ UNCHANGED <<phase, file, literals, functions, strings, out, refused>>
  BY DEF ReportError, In, unitVars
<1>2. PhaseInv'
  BY <1>1 DEF FileInv, PhaseInv, Phases
<1>3. ItemInv'
  BY <1>1 DEF FileInv, PhaseInv, ItemInv
<1>4. QED
  BY <1>1, <1>2, <1>3 DEF FileInv, WrittenInv

\* The tests behind the parser and behind the checker.
LEMMA ProceedInv ==
  ASSUME FileInv, NEW p \in {"check", "generate"}, NEW q \in {"parse", "check"},
         phase = q, (q = "parse" /\ p = "check") \/ (q = "check" /\ p = "generate"),
         ProceedUnlessErrors(p), functions' \in Nat,
         UNCHANGED <<file, errors, literals, strings, out, faulty>>
  PROVE  FileInv'
<1>1. PhaseInv'
  BY DEF FileInv, PhaseInv, Phases, ProceedUnlessErrors
<1>2. phase' \in {"close", "check", "generate"} /\ (phase' = "check" => p = "check")
  BY DEF ProceedUnlessErrors
<1>3. ItemInv'
  BY <1>2 DEF FileInv, ItemInv
<1>4. QED
  BY <1>1, <1>2, <1>3 DEF FileInv, WrittenInv

LEMMA GenerateInv ==
  ASSUME FileInv, Generate
  PROVE  FileInv'
<1>1. /\ phase = "generate" /\ phase' = "emit"
      /\ UNCHANGED <<file, errors, literals, functions, out, faulty, refused>>
  BY DEF Generate, In, unitVars
<1>2. PhaseInv'
  BY <1>1 DEF FileInv, PhaseInv, Phases
<1>3. PICK n \in 0..literals : \E lowered \in [1..n -> 1..literals] :
         /\ \A i, j \in 1..n : i < j => lowered[i] < lowered[j]
         /\ strings' = strings \o [i \in 1..n |-> Item("string", lowered[i])]
  BY DEF Generate
<1>4. PICK lowered \in [1..n -> 1..literals] :
         /\ \A i, j \in 1..n : i < j => lowered[i] < lowered[j]
         /\ strings' = strings \o [i \in 1..n |-> Item("string", lowered[i])]
  BY <1>3
<1> DEFINE new == [i \in 1..n |-> Item("string", lowered[i])]
<1>5. n \in Nat /\ literals \in Nat /\ file \in Nat /\ file \notin faulty /\ file > 0 /\ file \in 1..file
  BY <1>1 DEF FileInv, PhaseInv
<1>6. /\ new \in Seq(Items) /\ Len(new) = n
      /\ \A i \in 1..n : new[i].kind = "string" /\ new[i].file = file /\ new[i].nth = lowered[i]
  BY <1>5 DEF Items, Item
<1>7. \A i, j \in 1..n : new[i] = new[j] => i = j
  <2>1. \A i, j \in 1..n : i # j => lowered[i] # lowered[j]
    BY <1>4, <1>5
  <2>2. QED
    BY <1>6, <2>1
<1> HIDE DEF new
<1>8. /\ strings \in Seq(Items) /\ strings' = strings \o new
      /\ \A i \in DOMAIN strings : strings[i].file # file
  BY <1>1, <1>4 DEF FileInv, ItemInv, new
<1>9. /\ strings' \in Seq(Items) /\ DOMAIN strings' = 1..(Len(strings) + n)
      /\ DOMAIN strings = 1..Len(strings) /\ Len(strings) \in Nat
      /\ \A i \in DOMAIN strings : strings'[i] = strings[i]
      /\ \A i \in 1..n : strings'[Len(strings) + i] = new[i]
  BY <1>5, <1>6, <1>8
<1>10. \A i \in DOMAIN strings' :
         i \in DOMAIN strings \/ (i - Len(strings) \in 1..n /\ strings'[i] = new[i - Len(strings)])
  BY <1>5, <1>9
<1>11. \A i \in DOMAIN strings' : /\ strings'[i].kind = "string" /\ strings'[i].file \in 1..file
                                  /\ strings'[i].file \notin faulty
  <2> SUFFICES ASSUME NEW i \in DOMAIN strings'
               PROVE  /\ strings'[i].kind = "string" /\ strings'[i].file \in 1..file
                      /\ strings'[i].file \notin faulty
    OBVIOUS
  <2>1. CASE i \in DOMAIN strings
    BY <1>9, <2>1 DEF FileInv, ItemInv
  <2>2. CASE i - Len(strings) \in 1..n /\ strings'[i] = new[i - Len(strings)]
    BY <1>5, <1>6, <2>2
  <2>3. QED
    BY <1>10, <2>1, <2>2
<1>12. ASSUME NEW i \in DOMAIN strings', NEW j \in DOMAIN strings', strings'[i] = strings'[j]
       PROVE  i = j
  <2>1. CASE i \in DOMAIN strings /\ j \in DOMAIN strings
    BY <1>9, <1>12, <2>1 DEF FileInv, ItemInv
  <2>2. CASE i \notin DOMAIN strings /\ j \notin DOMAIN strings
    <3>1. i - Len(strings) = j - Len(strings)
      BY <1>7, <1>10, <1>12, <2>2
    <3>2. QED
      BY <1>9, <3>1
  <2>3. \A k \in DOMAIN strings' : strings'[k].file = file <=> k \notin DOMAIN strings
    BY <1>6, <1>8, <1>9, <1>10
  <2>4. QED
    BY <1>12, <2>1, <2>2, <2>3
<1>13. ItemInv'
  BY <1>1, <1>9, <1>11, <1>12 DEF FileInv, ItemInv
<1>14. QED
  BY <1>1, <1>2, <1>13 DEF FileInv, WrittenInv

\* The strings and the functions are appended: this file's are new in the
\* output, a string is no function, and neither list repeats an item.
LEMMA EmitInv ==
  ASSUME FileInv, Emit
  PROVE  FileInv'
<1> DEFINE defs == [i \in 1..functions |-> Item("function", i)]
           a == Len(out)
           b == Len(strings)
<1>1. /\ phase = "emit" /\ phase' = "assemble" /\ out' = (out \o strings) \o defs
      /\ UNCHANGED <<file, errors, literals, functions, strings, faulty, refused>>
  BY DEF Emit, In, unitVars
<1>2. PhaseInv'
  BY <1>1 DEF FileInv, PhaseInv, Phases
<1>3. /\ functions \in Nat /\ file \in Nat /\ file \notin faulty /\ file \in 1..file
      /\ strings \in Seq(Items) /\ out \in Seq(Items)
  BY <1>1 DEF FileInv, PhaseInv, ItemInv
<1>4. /\ defs \in Seq(Items) /\ Len(defs) = functions
      /\ \A i \in 1..functions : /\ defs[i].kind = "function" /\ defs[i].file = file
                                 /\ defs[i].nth = i /\ defs[i] = Item("function", i)
  BY <1>3 DEF Items, Item
<1> HIDE DEF defs
<1>5. /\ out' \in Seq(Items) /\ a \in Nat /\ b \in Nat
      /\ DOMAIN out = 1..a /\ DOMAIN strings = 1..b /\ DOMAIN out' = 1..(a + b + functions)
      /\ \A i \in 1..a : out'[i] = out[i]
      /\ \A i \in 1..b : out'[a + i] = strings[i]
      /\ \A i \in 1..functions : out'[a + b + i] = defs[i]
  <2> DEFINE both == out \o strings
  <2>1. /\ both \in Seq(Items) /\ a \in Nat /\ b \in Nat
        /\ DOMAIN out = 1..a /\ DOMAIN strings = 1..b /\ Len(both) = a + b
        /\ \A i \in 1..a : both[i] = out[i]
        /\ \A i \in 1..b : both[a + i] = strings[i]
    BY <1>3, Appended
  <2> HIDE DEF both, a, b
  <2>2. out' = both \o defs
    BY <1>1 DEF both
  <2>3. /\ out' \in Seq(Items) /\ DOMAIN out' = 1..(a + b + functions)
        /\ \A i \in 1..(a + b) : out'[i] = both[i]
        /\ \A i \in 1..functions : out'[a + b + i] = defs[i]
    BY <1>4, <2>1, <2>2, Appended
  <2>4. \A i \in 1..a : i \in 1..(a + b)
    BY <2>1
  <2>5. \A i \in 1..b : a + i \in 1..(a + b)
    BY <2>1
  <2>6. QED
    BY <2>1, <2>3, <2>4, <2>5
<1> HIDE DEF a, b
<1>6. \A i \in 1..(a + b + functions) :
         \/ i \in 1..a
         \/ i - a \in 1..b /\ out'[i] = strings[i - a]
         \/ i - a - b \in 1..functions /\ out'[i] = defs[i - a - b]
  <2> SUFFICES ASSUME NEW i \in 1..(a + b + functions)
               PROVE  \/ i \in 1..a
                      \/ i - a \in 1..b /\ out'[i] = strings[i - a]
                      \/ i - a - b \in 1..functions /\ out'[i] = defs[i - a - b]
    OBVIOUS
  <2>1. CASE i - a \in 1..b
    <3>1. i = a + (i - a)
      BY <1>3, <1>5
    <3>2. QED
      BY <1>5, <2>1, <3>1
  <2>2. CASE i - a - b \in 1..functions
    <3>1. i = a + b + (i - a - b)
      BY <1>3, <1>5
    <3>2. QED
      BY <1>5, <2>2, <3>1
  <2>3. QED
    BY <1>3, <1>5, <2>1, <2>2
<1>7. ItemInv'
  <2>1. \A i \in DOMAIN out' : out'[i].file \in 1..file /\ out'[i].file \notin faulty
    <3>1. /\ \A i \in 1..a : out[i].file \in 1..file /\ out[i].file \notin faulty
          /\ \A i \in 1..b : strings[i].file \in 1..file /\ strings[i].file \notin faulty
      BY <1>5 DEF FileInv, ItemInv
    <3>2. \A i \in 1..functions : defs[i].file = file
      BY <1>4 DEF Item
    <3>3. file \in 1..file /\ file \notin faulty
      BY <1>1 DEF FileInv, PhaseInv
    <3> SUFFICES ASSUME NEW i \in DOMAIN out'
                 PROVE  out'[i].file \in 1..file /\ out'[i].file \notin faulty
      OBVIOUS
    <3>4. CASE i \in 1..a
      BY <1>5, <3>1, <3>4
    <3>5. CASE i - a \in 1..b /\ out'[i] = strings[i - a]
      BY <3>1, <3>5
    <3>6. CASE i - a - b \in 1..functions /\ out'[i] = defs[i - a - b]
      BY <3>2, <3>3, <3>6
    <3>7. QED
      BY <1>5, <1>6, <3>4, <3>5, <3>6
  <2>2. QED
    BY <1>1, <1>5, <2>1 DEF FileInv, ItemInv
<1>8. /\ \A i \in 1..a : out'[i].file # file
      /\ \A i \in 1..b : strings[i].kind = "string"
      /\ \A i, j \in 1..b : strings[i] = strings[j] => i = j
  BY <1>1, <1>5 DEF FileInv, ItemInv
<1>9. Own' = Own /\ Own = {s \in {strings[i] : i \in 1..b} : s.file = file} \cup {defs[i] : i \in 1..functions}
  <2>1. Range(strings) = {strings[i] : i \in 1..b}
    BY <1>5 DEF Range
  <2>2. {Item("function", i) : i \in 1..functions} = {defs[i] : i \in 1..functions}
    BY <1>4
  <2>3. Own' = Own
    BY <1>1 DEF Own, Range, Item
  <2>4. QED
    BY <2>1, <2>2, <2>3 DEF Own
<1>10. ASSUME NEW item \in Own
       PROVE  \E i \in DOMAIN out' : \A j \in DOMAIN out' : out'[j] = item <=> j = i
  <2>1. CASE item \in {s \in {strings[i] : i \in 1..b} : s.file = file}
    <3>1. PICK k \in 1..b : strings[k] = item /\ item.file = file
      BY <2>1
    <3>2. a + k \in DOMAIN out' /\ out'[a + k] = item
      BY <1>3, <1>5, <3>1
    <3>3. \A j \in DOMAIN out' : out'[j] = item => j = a + k
      <4> SUFFICES ASSUME NEW j \in DOMAIN out', out'[j] = item PROVE j = a + k
        OBVIOUS
      <4>1. j \notin 1..a
        BY <1>5, <1>8, <3>1
      <4>2. ~(j - a - b \in 1..functions /\ out'[j] = defs[j - a - b])
        BY <1>4, <1>8, <3>1
      <4>3. j - a \in 1..b /\ strings[j - a] = strings[k]
        BY <1>5, <1>6, <3>1, <4>1, <4>2
      <4>4. j - a = k /\ j \in Int /\ a \in Int
        BY <1>3, <1>5, <1>8, <3>1, <4>3
      <4>5. QED
        BY <4>4
    <3>4. QED
      BY <3>2, <3>3
  <2>2. CASE item \in {defs[i] : i \in 1..functions}
    <3>1. PICK k \in 1..functions : defs[k] = item
      BY <2>2
    <3>2. a + b + k \in DOMAIN out' /\ out'[a + b + k] = item
      BY <1>3, <1>5, <3>1
    <3>3. \A j \in DOMAIN out' : out'[j] = item => j = a + b + k
      <4> SUFFICES ASSUME NEW j \in DOMAIN out', out'[j] = item PROVE j = a + b + k
        OBVIOUS
      <4>1. j \notin 1..a
        BY <1>4, <1>5, <1>8, <3>1
      <4>2. ~(j - a \in 1..b /\ out'[j] = strings[j - a])
        BY <1>4, <1>8, <3>1
      <4>3. j - a - b \in 1..functions /\ defs[j - a - b] = defs[k]
        BY <1>5, <1>6, <3>1, <4>1, <4>2
      <4>4. j - a - b = k
        BY <1>4, <4>3
      <4>5. j \in Int /\ a \in Int /\ b \in Int /\ k \in Int
        BY <1>3, <1>5
      <4>6. QED
        BY <4>4, <4>5
    <3>4. QED
      BY <3>2, <3>3
  <2>3. QED
    BY <1>9, <2>1, <2>2
<1>11. \A i \in DOMAIN out' : out'[i].file = file => out'[i] \in Own
  BY <1>5, <1>6, <1>8, <1>9
<1>12. WrittenInv'
  BY <1>1, <1>9, <1>10, <1>11 DEF WrittenInv
<1>13. QED
  BY <1>2, <1>7, <1>12 DEF FileInv

\* The steps of the arenas and the interner leave the driver's variables, or
\* end the process.
LEMMA MemoryFileInv ==
  ASSUME FileInv, UNCHANGED <<file, errors, literals, functions, strings, out, faulty, refused>>,
         phase' \in {phase, "exited"}
  PROVE  FileInv'
<1>1. PhaseInv'
  BY DEF FileInv, PhaseInv, Phases
<1>2. QED
  BY <1>1, SameItems

LEMMA FileStep == FileInv /\ [DriverNext]_allVars => FileInv'
<1> SUFFICES ASSUME FileInv, [DriverNext]_allVars PROVE FileInv'
  OBVIOUS
<1>1. CASE UNCHANGED allVars
  BY <1>1, MemoryFileInv DEF allVars, driverVars, unitVars
<1>2. CASE Compile
  <2>1. ASSUME Exit PROVE FileInv'
    BY <2>1, MemoryFileInv DEF Exit, unitVars
  <2>2. ASSUME Open PROVE FileInv'
    <3>1. /\ phase = "open" /\ phase' = "parse"
          /\ UNCHANGED <<file, errors, literals, functions, strings, out, faulty, refused>>
      BY <2>2 DEF Open, In, unitVars
    <3>2. PhaseInv'
      BY <3>1 DEF FileInv, PhaseInv, Phases
    <3>3. QED
      BY <3>1, <3>2, SameItems
  <2>3. ASSUME Name \/ Literal PROVE FileInv'
    BY <2>3, MemoryFileInv DEF Name, Literal, driverVars, unitVars
  <2>4. ASSUME FinishLiteral PROVE FileInv'
    <3>1. PhaseInv'
      BY <2>4 DEF FinishLiteral, FileInv, PhaseInv, Phases
    <3>2. QED
      BY <2>4, <3>1, SameItems DEF FinishLiteral
  <2>5. ASSUME Parsed PROVE FileInv'
    <3>1. functions' \in Nat
      BY <2>5, DriverAssumption DEF Parsed
    <3>2. QED
      BY <2>5, <3>1, ProceedInv DEF Parsed, In
  <2>6. ASSUME Checked PROVE FileInv'
    <3>1. functions' \in Nat
      BY <2>6 DEF Checked, unitVars, FileInv, PhaseInv
    <3>2. QED
      BY <2>6, <3>1, ProceedInv DEF Checked, In, unitVars
  <2>7. ASSUME Assemble \/ EndFile PROVE FileInv'
    <3>1. /\ \/ phase = "assemble" /\ phase' = "close"
             \/ phase = "close" /\ phase' = "idle"
          /\ UNCHANGED <<file, errors, literals, functions, strings, out, faulty, refused>>
      BY <2>7 DEF Assemble, EndFile, In, unitVars
    <3>2. PhaseInv'
      BY <3>1 DEF FileInv, PhaseInv, Phases
    <3>3. QED
      BY <3>1, <3>2, SameItems
  <2>8. QED
    BY <1>2, <2>1, <2>2, <2>3, <2>4, <2>5, <2>6, <2>7, BeginFileInv, ReportErrorInv,
       GenerateInv, EmitInv DEF Compile
<1>3. CASE Memory
  BY <1>3, MemoryFileInv DEF Memory, GrowArena, driverVars, unitVars
<1>4. CASE Return
  BY <1>4, MemoryFileInv DEF Return, driverVars, unitVars
<1>5. QED
  BY <1>1, <1>2, <1>3, <1>4 DEF DriverNext

LEMMA FileInvariance == DriverSpec => []FileInv
BY InitFileInv, FileStep, PTL DEF DriverSpec

\* However many files, and wherever their errors are reported: compileFile gives
\* up on a file exactly when an error was reported for it.
THEOREM RefusesExactly == DriverSpec => []RefusedExactly
<1>1. FileInv => RefusedExactly
  BY DEF FileInv, PhaseInv, RefusedExactly
<1>2. QED
  BY <1>1, FileInvariance, PTL

\* The output written for a file holds each of its functions and each of its
\* lowered literals once, and nothing of a file with an error; that of the first
\* file that gets so far is exactly its own.
THEOREM WritesExactly == DriverSpec => []OutputExact
<1>1. ASSUME FileInv PROVE OutputExact
  <2> SUFFICES ASSUME phase = "assemble"
               PROVE  /\ \A item \in Own : Cardinality({i \in DOMAIN out : out[i] = item}) = 1
                      /\ \A item \in Range(out) : item.file \notin faulty
                      /\ refused \cup {file} = 1..file => Range(out) = Own
    BY DEF OutputExact, Own
  <2>1. ASSUME NEW item \in Own
        PROVE  Cardinality({i \in DOMAIN out : out[i] = item}) = 1
    <3>1. PICK k \in DOMAIN out : \A j \in DOMAIN out : out[j] = item <=> j = k
      BY <1>1 DEF FileInv, WrittenInv
    <3>2. {i \in DOMAIN out : out[i] = item} = {k}
      BY <3>1
    <3>3. QED
      BY <3>2, FS_Singleton
  <2>2. \A i \in DOMAIN out : out[i].file \in 1..file /\ out[i].file \notin faulty
    BY <1>1 DEF FileInv, ItemInv
  <2>3. ASSUME refused \cup {file} = 1..file PROVE Range(out) = Own
    <3>1. refused \subseteq faulty
      BY <1>1 DEF FileInv, PhaseInv
    <3>2. \A i \in DOMAIN out : out[i].file = file
      BY <2>2, <2>3, <3>1
    <3>3. \A i \in DOMAIN out : out[i] \in Own
      BY <1>1, <3>2 DEF FileInv, WrittenInv
    <3>4. \A item \in Own : \E i \in DOMAIN out : out[i] = item
      BY <1>1 DEF FileInv, WrittenInv
    <3>5. QED
      BY <3>3, <3>4 DEF Range
  <2>4. QED
    BY <2>1, <2>2, <2>3 DEF Range
<1>2. QED
  BY <1>1, FileInvariance, PTL
=============================================================================
