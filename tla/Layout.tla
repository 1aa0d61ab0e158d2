------------------------------- MODULE Layout -------------------------------
(***************************************************************************)
(* The types a TypeContext makes and the layout of records:                *)
(* src/src/type/type.cpp and type.hpp.                                     *)
(*                                                                         *)
(* types is the heap of Type objects, and a Type* an index into it, so     *)
(* that types are compared by identity as in the code.  endRecord runs one *)
(* member per step; nothing else happens in between.                       *)
(*                                                                         *)
(* A client is what calls the context: the types it starts from and how    *)
(* much it builds.  What C does not let a client ask for is left out where *)
(* the operations are called (Derive, Record), and not in them.  A failed  *)
(* assertion ends the process.                                             *)
(***************************************************************************)
EXTENDS Integers, Sequences, FiniteSets

CONSTANT Clients

VARIABLES
  client,    \* the client of this context
  types,     \* every Type object, in order of creation
  ending,    \* the endRecord() in progress, NotEnding, or Ended
  complete   \* history: the records endRecord() has returned from

layoutVars == <<client, types, ending, complete>>

\* The TypeCateg values the code compares with; odd ones below T_ENUM are unsigned.
T_CHAR == 0
T_INT == 4
T_ENUM == 10
T_FLOAT == 11
T_DOUBLE == 12
T_LONGDOUBLE == 13
T_POINTER == 14
T_VOID == 15
T_UNION == 16
T_STRUCT == 17
T_ARRAY == 18
T_FUNCTION == 19

Null == 0
NoSignature == [id |-> 0, proto |-> FALSE, ellipse |-> FALSE, params |-> << >>]

\* The Type objects there can be.  Function types whose signatures have the
\* same id hold the same Signature object.
Quals == {"const", "volatile"}
Signatures == [id : Nat, proto : BOOLEAN, ellipse : BOOLEAN, params : Seq(Nat)]
Fields == [id : Nat, ty : Nat, bits : Nat, offset : Nat, pos : Nat]
Objects == [categ : Nat, qual : SUBSET Quals, align : Nat, size : Nat, bty : Nat,
            sig : Signatures, flds : Seq(Fields)]

NewType(categ) ==
  [categ |-> categ, qual |-> {}, align |-> 0, size |-> 0, bty |-> Null,
   sig |-> NoSignature, flds |-> << >>]

Sized(categ, size, bty) ==
  [NewType(categ) EXCEPT !.size = size, !.align = size, !.bty = bty]

IntSize == 4
IntBits == 8 * IntSize

\* setupBuiltins: an enum has no size, whatever its constants need.
Builtins ==
  LET size == << 1, 1, 2, 2, 4, 4, 4, 4, 8, 8, 0, 4, 8, 12, 4, 0 >>
  IN [i \in 1..16 |-> Sized(i - 1, size[i], Null)]

type(categ) == categ + 1

IsRecord(ty) == ty.categ \in {T_STRUCT, T_UNION}

\* (x + a - 1) & ~(a - 1), for the alignments 0, 1, 2, 4, 8 and 12.
AlignUp(x, a) ==
  LET y == x + a - 1
      cut(w) == IF (y \div w) % 2 = 1 /\ ((a - 1) \div w) % 2 = 1 THEN w ELSE 0
  IN IF a = 0 THEN 0 ELSE y - cut(1) - cut(2) - cut(4) - cut(8)

\* What a client may start from and ask for: types built as the context builds
\* them, no records, and bit-fields no wider than an int.  The builtin pointer
\* points nowhere and only lends its size.
Aligns == {0, 1, 2, 4, 8, 12}
Proper(heap) == DOMAIN heap \ {type(T_POINTER)}

WellBuilt(heap, t) ==
  /\ heap[t].align \in Aligns
  /\ heap[t].size # 0 \/ heap[t].categ = T_ARRAY => heap[t].align # 0
  /\ heap[t].categ \in 0..T_LONGDOUBLE \ {T_ENUM} =>
       heap[t].size = Builtins[type(heap[t].categ)].size /\ heap[t].align = heap[t].size
  /\ heap[t].qual # {} =>
       /\ heap[t].bty \in Proper(heap)
       /\ heap[heap[t].bty].qual = {}
       /\ heap[heap[t].bty].categ = heap[t].categ
       /\ heap[t].categ # T_FUNCTION
  /\ heap[t].categ \in {T_POINTER, T_ARRAY, T_FUNCTION} =>
       heap[t].bty \in Proper(heap) \/ t = type(T_POINTER)
  /\ \A i \in DOMAIN heap[t].sig.params : heap[t].sig.params[i] \in Proper(heap)

ASSUME ClientAssumption ==
  \A c \in Clients :
    /\ c.heap \in Seq(Objects)
    /\ \A t \in DOMAIN Builtins : t \in DOMAIN c.heap /\ c.heap[t] = Builtins[t]
    /\ \A t \in DOMAIN c.heap :
         WellBuilt(c.heap, t) /\ ~IsRecord(c.heap[t]) /\ c.heap[t].flds = << >>
    /\ c.pool \subseteq Proper(c.heap)
    /\ c.derived \in Nat /\ c.records \in Nat /\ c.fields \in Nat
    /\ c.quals \subseteq SUBSET Quals
    /\ c.lens \subseteq Nat
    /\ \A sig \in c.sigs :
         /\ sig \in Signatures
         /\ \A i \in DOMAIN sig.params : sig.params[i] \in Proper(c.heap)
    /\ \A m \in c.members : m.ty \in DOMAIN c.heap /\ m.bits \in 0..IntBits

NotEnding == [rec |-> Null, at |-> 0, bits |-> 0]
Ended == [rec |-> Null, at |-> 1, bits |-> 0]

LayoutInit ==
  /\ client \in Clients
  /\ types = client.heap
  /\ ending = NotEnding
  /\ complete = {}

-----------------------------------------------------------------------------
(* Derived types.  pool: the types the client hands to the context.        *)

Made == Len(types) - Len(client.heap)
pool == client.pool \cup (Len(client.heap) + 1 .. Len(types))
MayDerive == ending = NotEnding /\ Made < client.derived

New(ty) == types' = Append(types, ty) /\ UNCHANGED <<client, ending, complete>>

\* A qualified type is a copy that refers to the unqualified type.  Copying
\* into a plain Type drops the members of a record.
QualifiedCopy(q, t) ==
  [types[t] EXCEPT !.qual = @ \cup q,
                   !.bty = IF types[t].qual # {} THEN @ ELSE t,
                   !.flds = << >>]

Qualify(q, t) ==
  /\ MayDerive
  /\ q # {} /\ q # types[t].qual
  /\ New(QualifiedCopy(q, t))

unqual(t) == IF types[t].qual # {} THEN types[t].bty ELSE t

PointerType(t) == Sized(T_POINTER, IntSize, t)
PointerTo(t) == MayDerive /\ New(PointerType(t))

ArrayType(len, t) ==
  [NewType(T_ARRAY) EXCEPT !.size = len * types[t].size, !.align = types[t].align, !.bty = t]

ArrayOf(len, t) == MayDerive /\ New(ArrayType(len, t))

\* The pointer an array or function parameter becomes.
AdjustParameter(t) ==
  /\ MayDerive
  /\ LET u == unqual(t) IN
       CASE types[u].categ = T_ARRAY -> New(PointerType(types[u].bty))
         [] types[u].categ = T_FUNCTION -> New(PointerType(u))
         [] OTHER -> FALSE

\* C has no qualified function types and no arrays of functions or of types
\* without a size.
Derive ==
  \/ \E q \in client.quals, t \in pool : types[t].categ # T_FUNCTION /\ Qualify(q, t)
  \/ \E t \in pool : PointerTo(t)
  \/ \E len \in client.lens, t \in pool :
       types[t].size # 0 /\ types[t].categ # T_FUNCTION /\ ArrayOf(len, t)
  \/ \E t \in pool : AdjustParameter(t)

-----------------------------------------------------------------------------
(* Records.                                                                *)

Records == {t \in DOMAIN types : IsRecord(types[t]) /\ types[t].qual = {}}

StartRecord(categ) ==
  /\ ending = NotEnding
  /\ Records = complete /\ Cardinality(Records) < client.records
  /\ New(NewType(categ))

\* A member without a name is a record defined in place: no other record has
\* it.  Its own members are found by lookupField as members of the outer one.
Anonymous(fld) == fld.id = Null /\ IsRecord(types[fld.ty])
Holders(t) == {h \in Records \X (1..client.fields) :
                 h[2] \in DOMAIN types[h[1]].flds /\ types[h[1]].flds[h[2]].ty = t}
InPlace(t) == \E h \in Holders(t) : Anonymous(types[h[1]].flds[h[2]])

\* The members C has: bit-fields are ints and may lack a name, any other member
\* without one is a record defined there.
MemberOfC(named, t, bits) ==
  /\ bits # 0 => types[t].categ = T_INT
  /\ ~named /\ bits = 0 => t \in complete /\ Holders(t) = {}
  /\ ~InPlace(t)

WithMember(r, named, t, bits) ==
  LET fld == [id |-> IF named THEN Len(types[r].flds) + 1 ELSE Null,
              ty |-> t, bits |-> bits, offset |-> 0, pos |-> 0]
  IN [types EXCEPT ![r].flds = Append(@, fld)]

\* addField asserts that only an array has no size.
AddField(r, named, t, bits) ==
  /\ ending = NotEnding
  /\ r \in Records \ complete
  /\ Len(types[r].flds) < client.fields
  /\ \/ /\ types[t].size = 0 => types[t].categ = T_ARRAY
        /\ types' = WithMember(r, named, t, bits)
        /\ UNCHANGED ending
     \/ /\ types[t].size = 0 /\ types[t].categ # T_ARRAY
        /\ ending' = Ended
        /\ UNCHANGED types
  /\ UNCHANGED <<client, complete>>

EndRecord(r) ==
  /\ ending = NotEnding
  /\ r \in Records \ complete
  /\ ending' = [rec |-> r, at |-> 1, bits |-> 0]
  /\ UNCHANGED <<client, types, complete>>

Ending == ending.rec # Null
Rec == types[ending.rec]
Placing(categ) == Ending /\ Rec.categ = categ /\ ending.at <= Len(Rec.flds)
Fld == Rec.flds[ending.at]
FldType == types[Fld.ty]
Widest == IF FldType.align > Rec.align THEN FldType.align ELSE Rec.align

\* The records defined in place in k, and those r reaches through such members.
Nameless(k) ==
  {types[k].flds[i].ty : i \in {j \in DOMAIN types[k].flds : Anonymous(types[k].flds[j])}}

Inside(r) ==
  LET reach[n \in 0..client.records] ==
        IF n = 0 THEN {r} ELSE reach[n - 1] \cup UNION {Nameless(k) : k \in reach[n - 1]}
  IN reach[client.records]

Shifted(flds, distance) == [i \in DOMAIN flds |-> [flds[i] EXCEPT !.offset = @ + distance]]

\* addOffset(): the members of r move by offset, and those of a record inside r
\* by the new offset of the member that holds it.
AddOffset(r, offset) ==
  LET added[n \in 0..client.records] ==
        IF n = 0 THEN [k \in {r} |-> offset]
        ELSE LET above == added[n - 1]
                 Holder(k) == CHOOSE h \in Holders(k) : h[1] \in DOMAIN above
             IN [k \in DOMAIN above \cup UNION {Nameless(j) : j \in DOMAIN above} |->
                  IF k \in DOMAIN above THEN above[k]
                  ELSE types[Holder(k)[1]].flds[Holder(k)[2]].offset + above[Holder(k)[1]]]
      moved == added[client.records]
  IN [k \in DOMAIN types |->
       IF k \in DOMAIN moved
       THEN [types[k] EXCEPT !.flds = Shifted(@, moved[k])]
       ELSE types[k]]

\* The member at ending.at is given its place, the record its new extent.  The
\* members inside a nameless one move by the offset known at the loop's start.
Place(offset, pos, size, bits) ==
  LET first  == AlignUp(Rec.size, FldType.align)
      nested == IF Anonymous(Fld) THEN AddOffset(Fld.ty, first) ELSE types
      placed == [Fld EXCEPT !.offset = offset, !.pos = pos]
  IN /\ types' = [nested EXCEPT ![ending.rec] =
                    [Rec EXCEPT !.flds[ending.at] = placed, !.size = size, !.align = Widest]]
     /\ ending' = [ending EXCEPT !.at = @ + 1, !.bits = bits]
     /\ UNCHANGED <<client, complete>>

\* Mutant: the open unit is not closed.
PlaceOrdinaryInUnit ==
  /\ Placing(T_STRUCT) /\ Fld.bits = 0
  /\ LET first == AlignUp(Rec.size, FldType.align)
     IN Place(first, 0, first + FldType.size, 0)

\* An ordinary member closes the unit of the bit-fields before it.
PlaceOrdinary ==
  /\ Placing(T_STRUCT) /\ Fld.bits = 0
  /\ LET first  == AlignUp(Rec.size, FldType.align)
         offset == IF ending.bits = 0 THEN first
                   ELSE AlignUp(first + IntSize, FldType.align)
     IN Place(offset, 0, offset + FldType.size, 0)

\* A bit-field that fits goes into the open unit, which closes when it is full.
PlaceBits ==
  /\ Placing(T_STRUCT) /\ Fld.bits # 0 /\ ending.bits + Fld.bits <= IntBits
  /\ LET first == AlignUp(Rec.size, FldType.align)
         used  == ending.bits + Fld.bits
     IN Place(first, ending.bits,
              IF used = IntBits THEN first + IntSize ELSE first,
              IF used = IntBits THEN 0 ELSE used)

\* One that does not fit opens the next unit.
PlaceInNewUnit ==
  /\ Placing(T_STRUCT) /\ Fld.bits # 0 /\ ending.bits + Fld.bits > IntBits
  /\ LET next == AlignUp(Rec.size, FldType.align) + IntSize
     IN Place(next, 0, next, Fld.bits)

\* The members of a union stay at offset 0.
PlaceInUnion ==
  /\ Placing(T_UNION)
  /\ types' = [types EXCEPT ![ending.rec].size = IF FldType.size > @ THEN FldType.size ELSE @,
                            ![ending.rec].align = Widest]
  /\ ending' = [ending EXCEPT !.at = @ + 1]
  /\ UNCHANGED <<client, complete>>

\* Mutant of FullSize: the size is not rounded.
FullSizeUnrounded == IF ending.bits # 0 THEN Rec.size + IntSize ELSE Rec.size

\* A struct's size counts the open unit and is rounded; a union's is not.
FullSize ==
  IF Rec.categ = T_UNION THEN Rec.size
  ELSE AlignUp(IF ending.bits # 0 THEN Rec.size + IntSize ELSE Rec.size, Rec.align)

EndDone ==
  /\ Ending /\ ending.at > Len(Rec.flds)
  /\ types' = [types EXCEPT ![ending.rec].size = FullSize]
  /\ ending' = NotEnding
  /\ complete' = complete \cup {ending.rec}
  /\ UNCHANGED client

Record ==
  \/ \E categ \in {T_STRUCT, T_UNION} : StartRecord(categ)
  \/ \E r \in Records, m \in client.members, named \in BOOLEAN :
       MemberOfC(named, m.ty, m.bits) /\ AddField(r, named, m.ty, m.bits)
  \/ \E r \in Records, t \in complete, named \in BOOLEAN :
       MemberOfC(named, t, 0) /\ AddField(r, named, t, 0)
  \/ \E r \in Records : EndRecord(r)
  \/ PlaceOrdinary \/ PlaceBits \/ PlaceInNewUnit \/ PlaceInUnion \/ EndDone

LayoutNext == Derive \/ Record
LayoutSpec == LayoutInit /\ [][LayoutNext]_layoutVars

-----------------------------------------------------------------------------
(* Properties.                                                             *)

\* The members of r, and those of the nameless records inside, which lookupField
\* finds as members of r.
Members(r) ==
  UNION {{<<k, i>> : i \in {j \in DOMAIN types[k].flds : ~Anonymous(types[k].flds[j])}}
         : k \in Inside(r)}

FirstBit(m) == LET f == types[m[1]].flds[m[2]] IN 8 * f.offset + f.pos
EndBit(m) ==
  LET f == types[m[1]].flds[m[2]]
  IN FirstBit(m) + (IF f.bits = 0 THEN 8 * types[f.ty].size ELSE f.bits)

\* Two record shapes the loop does not lay out: a nameless record right behind
\* a bit-field is moved by the offset it had before the unit was closed, and
\* the members of one nested in a nameless record are moved twice.
Plain(r) ==
  \A k \in Inside(r) : \A i \in DOMAIN types[k].flds :
    Anonymous(types[k].flds[i]) =>
      /\ k = r
      /\ i > 1 => types[k].flds[i - 1].bits = 0

LaidOut == {r \in complete : Plain(r) /\ ~InPlace(r)}

\* In a struct whose nameless members are structs, hold no nameless ones and do
\* not follow a bit-field (Plain), and that is no nameless member itself, no two
\* members share a bit, those of its nameless members included, and all of them
\* end inside the struct: through bit-fields that share a unit, a unit closed by
\* the next member, and members that addOffset has moved once.
FieldsDisjoint ==
  \A r \in LaidOut :
    (\A k \in Inside(r) : types[k].categ = T_STRUCT) =>
      /\ \A m, n \in Members(r) : m # n => EndBit(m) <= FirstBit(n) \/ EndBit(n) <= FirstBit(m)
      /\ \A m \in Members(r) : EndBit(m) <= 8 * types[r].size

\* The alignments the mask of AlignUp is right for; long double has 12.
MaskExact(r) == \A m \in Members(r) : types[types[m[1]].flds[m[2]].ty].align \in {1, 2, 4, 8}

\* Every member of such a struct, unions among its nameless members too, lies at
\* a multiple of its alignment, in every element of an array of the struct: the
\* struct's own alignment and size are multiples too.  (Long doubles excepted.)
FieldsAligned ==
  \A r \in LaidOut : types[r].categ = T_STRUCT /\ MaskExact(r) =>
    \A m \in Members(r) :
      LET f == types[m[1]].flds[m[2]]
          a == types[f.ty].align
      IN f.offset % a = 0 /\ types[r].align % a = 0 /\ types[r].size % a = 0
=============================================================================
