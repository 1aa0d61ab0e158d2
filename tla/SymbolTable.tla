----------------------------- MODULE SymbolTable -----------------------------
(***************************************************************************)
(* Scopes and the table of symbols: src/src/symbol/symbol.cpp.             *)
(*                                                                         *)
(* A symbol is the position at which it was created.  A scope is an array  *)
(* of hash chains, newest symbol first (Symbol::link).  The identifiers_   *)
(* chain of scopes is a sequence, outermost first, so enterScope pushes    *)
(* and exitScope pops; the tag scopes move in step with it and hold        *)
(* nothing, since no pass calls addTag.  A list with a tail pointer is a   *)
(* sequence.                                                               *)
(*                                                                         *)
(* Names are interned pointers: equal names are the same pointer, and the  *)
(* hash is some function of the pointer.                                   *)
(***************************************************************************)
EXTENDS Integers, Sequences, FiniteSetsExt

CONSTANTS
  Names,       \* interned identifiers
  Buckets,     \* 0 .. HASH_MASK
  Hash,        \* Scope::hashName
  MaxSymbols   \* bound: symbols created

ASSUME HashAssumption == Hash \in [Names -> Buckets]
ASSUME SymbolBound == MaxSymbols \in Nat

VARIABLES
  symbols,      \* every symbol, in order of creation
  identifiers,  \* the scopes from globalIDs_ to identifiers_
  level,        \* level_
  currentFunc,  \* the function whose list takes new variables
  functions,    \* SymbolTable::functions
  globals,      \* SymbolTable::globals
  params        \* FunctionSymbol::params of every function, extended at lastv

tableVars == <<symbols, identifiers, level, currentFunc, functions, globals, params>>

NoSymbol == 0
SymbolIds == 1..MaxSymbols
\* The classes addVariable tells apart by their numbers: 8, which a comment there
\* calls TK_STATIC (the token's number is 3), and 1, TK_EXTERN.
StorageClasses == {"none", "TK_EXTERN", "TK_STATIC"}

EmptyScope == [b \in Buckets |-> << >>]

TableInit ==
  /\ symbols = << >>
  /\ identifiers = <<EmptyScope>>
  /\ level = 0
  /\ currentFunc = NoSymbol
  /\ functions = << >>
  /\ globals = << >>
  /\ params = [s \in SymbolIds |-> << >>]

-----------------------------------------------------------------------------
(* Scope::lookup: the innermost scope with the name, the newest in its     *)
(* chain.                                                                  *)

InChain(scope, n) == {i \in DOMAIN scope[Hash[n]] : symbols[scope[Hash[n]][i]].name = n}

InScope(scope, n) ==
  IF InChain(scope, n) = {} THEN NoSymbol ELSE scope[Hash[n]][Min(InChain(scope, n))]

\* Mutant of LookupID: the chain of scopes is walked from the outside.
LookupOutermost(n) ==
  LET levels == {l \in DOMAIN identifiers : InScope(identifiers[l], n) # NoSymbol}
  IN IF levels = {} THEN NoSymbol ELSE InScope(identifiers[Min(levels)], n)

LookupID(n) ==
  LET levels == {l \in DOMAIN identifiers : InScope(identifiers[l], n) # NoSymbol}
  IN IF levels = {} THEN NoSymbol ELSE InScope(identifiers[Max(levels)], n)

-----------------------------------------------------------------------------
(* The operations.  currentFunc is a public field: the passes assign it.   *)

EnterScope ==
  /\ level' = level + 1
  /\ identifiers' = Append(identifiers, EmptyScope)
  /\ UNCHANGED <<symbols, functions, globals, params>>

\* Mutant of ExitScope: the names of the scope stay behind in the outer one.
ExitScopeMerging ==
  /\ level' = level - 1
  /\ LET inner == Len(identifiers)
     IN identifiers' = [SubSeq(identifiers, 1, inner - 1) EXCEPT
                          ![inner - 1] = [b \in Buckets |-> identifiers[inner][b] \o @[b]]]
  /\ UNCHANGED <<symbols, functions, globals, params>>

ExitScope ==
  /\ level' = level - 1
  /\ identifiers' = SubSeq(identifiers, 1, Len(identifiers) - 1)
  /\ UNCHANGED <<symbols, functions, globals, params>>

NewSymbol == Len(symbols) + 1

\* Symbol() and Scope::add, to the scope at position scope; by is the place in
\* the source the symbol is created for.
Create(scope, kind, n, sclass, by) ==
  /\ NewSymbol <= MaxSymbols
  /\ symbols' = Append(symbols, [kind |-> kind, name |-> n, sclass |-> sclass,
                                 level |-> scope - 1, by |-> by])
  /\ identifiers' = [identifiers EXCEPT ![scope][Hash[n]] = <<NewSymbol>> \o @]

\* Mutant of AddVariable: extern variables are listed like the others.
AddVariableExternToo(n, sclass, by) ==
  /\ Create(Len(identifiers), "SK_Variable", n, sclass, by)
  /\ IF level = 0 \/ sclass = "TK_STATIC"
     THEN globals' = Append(globals, NewSymbol) /\ UNCHANGED params
     ELSE /\ UNCHANGED globals
          /\ currentFunc # NoSymbol
          /\ params' = [params EXCEPT ![currentFunc] = Append(@, NewSymbol)]
  /\ UNCHANGED <<level, currentFunc, functions>>

\* Without a current function, the list a local goes to is a null pointer.
AddVariable(n, sclass, by) ==
  /\ Create(Len(identifiers), "SK_Variable", n, sclass, by)
  /\ IF level = 0 \/ sclass = "TK_STATIC"
     THEN globals' = Append(globals, NewSymbol) /\ UNCHANGED params
     ELSE /\ UNCHANGED globals
          /\ IF sclass = "TK_EXTERN" THEN UNCHANGED params
             ELSE /\ currentFunc # NoSymbol
                  /\ params' = [params EXCEPT ![currentFunc] = Append(@, NewSymbol)]
  /\ UNCHANGED <<level, currentFunc, functions>>

AddFunction(n, by) ==
  /\ Create(1, "SK_Function", n, "none", by)
  /\ functions' = Append(functions, NewSymbol)
  /\ UNCHANGED <<level, globals, params>>

-----------------------------------------------------------------------------
(* The table as an abstract stack of scopes.                               *)

Abstract == INSTANCE ScopeStack WITH
  scopes <- [l \in DOMAIN identifiers |-> [n \in Names |-> InScope(identifiers[l], n)]]
=============================================================================
