------------------------------- MODULE Scoping -------------------------------
(***************************************************************************)
(* One symbol table, two passes: how the walk of src/src/sema/sema.cpp and *)
(* then that of src/src/ir/ir_gen.cpp open scopes, declare and look up,    *)
(* under the driver's rule that a unit with errors is not lowered.         *)
(*                                                                         *)
(* The tree is any tree: the checker's walk makes it up as it goes and     *)
(* records the events in the order of the text, and the generator walks    *)
(* the same record.  The checker opens a scope for the function and one    *)
(* for every compound statement, the generator only the function's.  The   *)
(* checker does not look into a call, a unary or postfix expression, an    *)
(* initialiser, a label or a switch: the names there are not seen by it,   *)
(* but the generator meets them.  The checker's functions stay in the      *)
(* table, and so do its locals' symbols on the functions' lists.           *)
(*                                                                         *)
(* One order differs: of a for statement the checker visits the increment  *)
(* before the body (sema.cpp:97-100), the generator behind it              *)
(* (ir_gen.cpp:581-585).  The record is in the generator's order.  For the *)
(* checker that changes nothing: an increment declares nothing, and a body *)
(* leaves the scopes as it found them, since a statement is no declaration *)
(* (parseStatement) and a compound one closes its scope.                   *)
(***************************************************************************)
EXTENDS SymbolTable

CONSTANTS
  NoName,      \* the name of an event that has none
  MaxEvents,   \* bound: declarations and uses of a unit
  MaxBlocks,   \* bound: nested compound statements of a unit
  MaxFunctions \* bound: functions of a unit

ASSUME ScopingAssumption == NoName \notin Names /\ {MaxEvents, MaxBlocks, MaxFunctions} \subseteq Nat

VARIABLES
  phase,    \* the pass that runs: "sema", "ir", "done", or "failed"
  unit,     \* the events of the unit, in the order of its text
  depth,    \* compound statements open in the checker's walk
  found,    \* for each event, the event whose symbol the checker found
  pos,      \* the generator's position in unit
  irFound,  \* what the generator found
  errors,   \* diag_.hasErrors()
  shadows   \* history: a declaration has hidden a visible one

walkVars == <<phase, unit, depth, found, pos, irFound, errors, shadows>>
allVars == <<symbols, identifiers, level, currentFunc, functions, globals, params,
             phase, unit, depth, found, pos, irFound, errors, shadows>>

Event(kind, n, seen) == [kind |-> kind, name |-> n, seen |-> seen]
Here == Len(unit) + 1
Nowhere == 0
PlaceOf(s) == IF s = NoSymbol THEN Nowhere ELSE symbols[s].by

ScopingInit ==
  /\ TableInit
  /\ phase = "sema" /\ unit = << >> /\ depth = 0 /\ found = << >>
  /\ pos = 0 /\ irFound = << >>
  /\ errors = FALSE /\ shadows = FALSE

-----------------------------------------------------------------------------
(* The checker.                                                            *)

Record(event, place) ==
  /\ unit' = Append(unit, event)
  /\ found' = Append(found, place)
  /\ UNCHANGED <<phase, pos, irFound>>

InFunction == phase = "sema" /\ level > 0
Opened == InFunction /\ depth > 0
Events(kinds) == {i \in DOMAIN unit : unit[i].kind \in kinds}
\* After its first error, which decides its fate, a unit is only finished.
Budget == ~errors /\ Cardinality(Events({"declare", "use"})) < MaxEvents

SemaFunction(n) ==
  /\ phase = "sema" /\ level = 0 /\ currentFunc = NoSymbol
  /\ ~errors /\ Len(functions) < MaxFunctions
  /\ AddFunction(n, Here)
  /\ currentFunc' = NewSymbol
  /\ Record(Event("function", n, TRUE), Nowhere)
  /\ shadows' = (shadows \/ LookupID(n) # NoSymbol)
  /\ UNCHANGED <<depth, errors>>

SemaEnterFunction ==
  /\ phase = "sema" /\ level = 0 /\ currentFunc # NoSymbol
  /\ EnterScope
  /\ UNCHANGED currentFunc /\ UNCHANGED walkVars

\* The body of the function is a compound statement too.
SemaCompound ==
  /\ InFunction
  /\ depth = 0 => unit[Len(unit)].kind = "function"
  /\ depth > 0 => ~errors /\ Cardinality(Events({"open"})) < MaxBlocks
  /\ EnterScope
  /\ depth' = depth + 1
  /\ Record(Event(IF depth = 0 THEN "body" ELSE "open", NoName, TRUE), Nowhere)
  /\ UNCHANGED <<currentFunc, errors, shadows>>

SemaEndCompound ==
  /\ Opened
  /\ ExitScope
  /\ depth' = depth - 1
  /\ Record(Event("close", NoName, TRUE), Nowhere)
  /\ UNCHANGED <<currentFunc, errors, shadows>>

\* Mutant of SemaEndFunction: the scope of the function stays open.
SemaEndFunctionOpen ==
  /\ InFunction /\ depth = 0 /\ unit[Len(unit)].kind = "close"
  /\ currentFunc' = NoSymbol
  /\ Record(Event("end", NoName, TRUE), Nowhere)
  /\ UNCHANGED <<symbols, identifiers, level, functions, globals, params, depth, errors, shadows>>

SemaEndFunction ==
  /\ InFunction /\ depth = 0 /\ unit[Len(unit)].kind = "close"
  /\ ExitScope
  /\ currentFunc' = NoSymbol
  /\ Record(Event("end", NoName, TRUE), Nowhere)
  /\ UNCHANGED <<depth, errors, shadows>>

\* The declarator is declared; its initialiser is not seen.
SemaDeclare(n) ==
  /\ Opened /\ Budget
  /\ AddVariable(n, "none", Here)
  /\ Record(Event("declare", n, TRUE), Nowhere)
  /\ shadows' = (shadows \/ LookupID(n) # NoSymbol)
  /\ UNCHANGED <<depth, errors>>

SemaUse(n) ==
  /\ Opened /\ Budget
  /\ Record(Event("use", n, TRUE), PlaceOf(LookupID(n)))
  /\ errors' = (errors \/ LookupID(n) = NoSymbol)
  /\ UNCHANGED <<depth, shadows>> /\ UNCHANGED tableVars

\* A declaration in the body of a switch, or a use in a call, an initialiser, ...
SemaUnseen(kind, n) ==
  /\ Opened /\ Budget
  /\ Record(Event(kind, n, FALSE), Nowhere)
  /\ shadows' = (shadows \/ (kind = "declare" /\ LookupID(n) # NoSymbol))
  /\ UNCHANGED <<depth, errors>> /\ UNCHANGED tableVars

\* Driver::compileFile: a unit with errors is not lowered.
EndSema ==
  /\ phase = "sema" /\ unit # << >> /\ unit[Len(unit)].kind = "end"
  /\ phase' = IF errors THEN "failed" ELSE "ir"
  /\ pos' = 1
  /\ UNCHANGED <<unit, depth, found, irFound, errors, shadows>> /\ UNCHANGED tableVars

-----------------------------------------------------------------------------
(* The generator.                                                          *)

Lowering(kinds) == phase = "ir" /\ pos <= Len(unit) /\ unit[pos].kind \in kinds
Found(place) ==
  /\ irFound' = Append(irFound, place)
  /\ pos' = pos + 1
  /\ UNCHANGED <<phase, unit, depth, found, errors, shadows>>

\* The node keeps the symbol the checker made.
FunctionAt(i) == CHOOSE s \in DOMAIN symbols : symbols[s].by = i /\ symbols[s].kind = "SK_Function"

IRFunction ==
  /\ Lowering({"function"})
  /\ currentFunc' = FunctionAt(pos)
  /\ EnterScope
  /\ Found(Nowhere)

IRCompound ==
  /\ Lowering({"body", "open", "close"})
  /\ Found(Nowhere)
  /\ UNCHANGED tableVars

\* The initialiser is translated after the name is declared.
IRDeclare ==
  /\ Lowering({"declare"})
  /\ AddVariable(unit[pos].name, "none", pos)
  /\ Found(Nowhere)

\* Mutant of IRIdentifier: every identifier is declared again.
IRIdentifierAnew ==
  /\ Lowering({"use"})
  /\ AddVariable(unit[pos].name, "TK_EXTERN", pos)
  /\ Found(pos)

\* A name nobody declared becomes an extern variable of the current scope.
IRIdentifier ==
  /\ Lowering({"use"})
  /\ LET sym == LookupID(unit[pos].name)
     IN IF sym # NoSymbol THEN Found(PlaceOf(sym)) /\ UNCHANGED tableVars
        ELSE AddVariable(unit[pos].name, "TK_EXTERN", pos) /\ Found(pos)

IREndFunction ==
  /\ Lowering({"end"})
  /\ ExitScope
  /\ currentFunc' = NoSymbol
  /\ Found(Nowhere)

EndIR ==
  /\ phase = "ir" /\ pos > Len(unit)
  /\ phase' = "done"
  /\ UNCHANGED <<unit, depth, found, pos, irFound, errors, shadows>> /\ UNCHANGED tableVars

Finished == phase \in {"done", "failed"} /\ UNCHANGED allVars

Sema ==
  \/ \E n \in Names : SemaFunction(n) \/ SemaDeclare(n) \/ SemaUse(n)
  \/ \E n \in Names, kind \in {"declare", "use"} : SemaUnseen(kind, n)
  \/ SemaEnterFunction \/ SemaCompound \/ SemaEndCompound \/ SemaEndFunction \/ EndSema
IR == IRFunction \/ IRCompound \/ IRDeclare \/ IRIdentifier \/ IREndFunction \/ EndIR

ScopingNext == Sema \/ IR \/ Finished
ScopingSpec == ScopingInit /\ [][ScopingNext]_allVars

-----------------------------------------------------------------------------
(* Properties.                                                             *)

\* The table is a stack of scopes: hash chains, levels and the two passes'
\* comings and goings never show.
ImplementsScopes == Abstract!Spec

\* The compound statements of the text that are open behind event k.
Nesting(k) ==
  Cardinality({j \in 1..k : unit[j].kind \in {"body", "open"}})
    - Cardinality({j \in 1..k : unit[j].kind = "close"})

\* C's scope rules, on the text alone: a function's name is known from there on, a
\* variable's until its block is closed, and the latest that is known is meant.
KnownAt(i, n) ==
  {j \in 1..i - 1 : /\ unit[j].seen /\ unit[j].name = n
                    /\ \/ unit[j].kind = "function"
                       \/ unit[j].kind = "declare" /\ \A k \in j..i - 1 : Nesting(k) >= Nesting(j)}
Meant(i, n) == IF KnownAt(i, n) = {} THEN Nowhere ELSE Max(KnownAt(i, n))

\* The checker finds for a use what the text means by the name: declarations that
\* hide others, are made again in one block, or went with a block that is closed,
\* and functions that share a bucket with them.
UsesMeant ==
  \A i \in DOMAIN unit :
    unit[i].kind = "use" /\ unit[i].seen => found[i] = Meant(i, unit[i].name)

\* Inside a scope there is always a function to take the variables: the null
\* currentFunc that addVariable and createTemp would write through never
\* meets them, in neither pass.
FunctionInScope == level > 0 => currentFunc # NoSymbol

\* When no declaration hides another, the generator, with its one scope for a
\* whole function and with declarations the checker never saw in it, finds for
\* every use the checker saw the declaration the checker found.
PassesAgree ==
  ~shadows => \A i \in DOMAIN irFound :
    unit[i].kind = "use" /\ unit[i].seen => irFound[i] = found[i]

Declared(f) ==
  LET after == {i \in DOMAIN unit : i > f /\ unit[i].kind = "end"}
  IN {i \in DOMAIN unit : f < i /\ i < Min(after) /\ unit[i].kind = "declare"}

\* In a lowered unit the list of a function holds each of its own variables
\* once for each pass that saw its declaration, and nobody else's.
ListedTwice ==
  phase = "done" => \A s \in DOMAIN symbols : symbols[s].kind = "SK_Function" =>
    LET listed == params[s]
        times(i) == Cardinality({k \in DOMAIN listed : symbols[listed[k]].by = i})
    IN /\ \A i \in Declared(symbols[s].by) : times(i) = IF unit[i].seen THEN 2 ELSE 1
       /\ \A k \in DOMAIN listed : symbols[listed[k]].by \in Declared(symbols[s].by)
=============================================================================
