------------------------------ MODULE Interner ------------------------------
(***************************************************************************)
(* The string interner of src/src/common/string_interner.cpp and the other *)
(* client of programArena_, the lexer's string literals, on top of the     *)
(* arenas they allocate from.                                              *)
(*                                                                         *)
(* A text is a constant, and a name, the pointer intern() returns, is the  *)
(* memory it points to.  A client makes several requests of the arena one  *)
(* after the other, each of which may have to grow the arena first.        *)
(***************************************************************************)
EXTENDS ArenaLifetime, Sequences

CONSTANTS
  Texts,       \* the texts that are interned
  Hash,        \* Hash[t]: elfHash of a text, masked
  Program,     \* programArena_
  BucketSize,  \* sizes of a Bucket and a StrBuf, in alignment units,
  TextSize     \* and of the characters of a text

ASSUME InternerAssumption == /\ Program \in Arenas
                             /\ {BucketSize, TextSize} \subseteq Sizes
                             /\ DOMAIN Hash = Texts

VARIABLES
  buckets,  \* buckets_: every chain of entries, newest first
  request,  \* the client that is allocating, or NoRequest
  names     \* history: every result of intern(), with the text it was for

internVars == <<buckets, request, names>>

NoRequest == [of |-> "nobody", text |-> Null, sizes |-> << >>, got |-> << >>]

InternerInit ==
  /\ buckets = [h \in {Hash[t] : t \in Texts} |-> << >>]
  /\ request = NoRequest
  /\ names = {}

Request(of, text, sizes) ==
  request' = [of |-> of, text |-> text, sizes |-> sizes, got |-> << >>]

\* Mutant: the chain is not followed.
EntriesFirst(t) ==
  LET chain == buckets[Hash[t]]
  IN {chain[i] : i \in {j \in DOMAIN chain : j = 1 /\ chain[j].text = t}}

\* The entries for t in its chain; the search stops at the first.
Entries(t) ==
  LET chain == buckets[Hash[t]]
  IN {chain[i] : i \in {j \in DOMAIN chain : chain[j].text = t}}

\* intern(): the name there is, or a Bucket and its characters are allocated.
Intern(t) ==
  /\ request = NoRequest /\ call = NoCall
  /\ IF Entries(t) # {}
     THEN \E e \in Entries(t) : names' = names \cup {[text |-> t, at |-> e.name]}
                                /\ UNCHANGED request
     ELSE Request("intern", t, <<BucketSize, TextSize>>) /\ UNCHANGED names
  /\ UNCHANGED <<buckets, vars, lifeVars>>

\* scanStringLiteral(): a StrBuf, then its characters, again for each 512 more.
StringLiteral(pieces) ==
  /\ request = NoRequest /\ call = NoCall
  /\ Request("string", Null, <<BucketSize>> \o [i \in 1..pieces |-> TextSize])
  /\ UNCHANGED <<buckets, names, vars, lifeVars>>

Waiting == Len(request.got) < Len(request.sizes)

Ask ==
  /\ Waiting
  /\ Allocate(Program, request.sizes[Len(request.got) + 1])
  /\ UNCHANGED <<internVars, lifeVars>>

\* The memory the call in progress is about to return.
Handed ==
  LET blk == last[call.arena]
  IN [arena |-> call.arena, block |-> blk, lo |-> avail[blk], hi |-> avail[blk] + call.size]

Take ==
  /\ Bump
  /\ request' = [request EXCEPT !.got = Append(@, Handed)]
  /\ UNCHANGED <<buckets, names, lifeVars>>

\* The end of intern(): the entry goes to the front of its chain.
Link ==
  /\ request.of = "intern" /\ ~Waiting
  /\ LET t == request.text
         entry == [text |-> t, node |-> request.got[1], name |-> request.got[2]]
     IN /\ buckets' = [buckets EXCEPT ![Hash[t]] = <<entry>> \o @]
        /\ names' = names \cup {[text |-> t, at |-> entry.name]}
  /\ request' = NoRequest
  /\ UNCHANGED <<vars, lifeVars>>

-----------------------------------------------------------------------------
(* Properties.                                                             *)

\* Names are compared as pointers, by symbols that outlive the file they are
\* from: whatever was interned when, two names are one pointer exactly when
\* they spell the same text.
InternExact == \A m, n \in names : m.text = n.text <=> m.at = n.at

\* The characters of a name, and the entry a later search will read, are never
\* given up while the compiler runs: nothing else is put there.
NamesIntact ==
  alive # {} => /\ \A n \in names : n.at \in live
                /\ \A h \in DOMAIN buckets : \A i \in DOMAIN buckets[h] :
                     buckets[h][i].node \in live
=============================================================================
