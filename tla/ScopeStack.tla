----------------------------- MODULE ScopeStack -----------------------------
(***************************************************************************)
(* What a table with nested scopes promises: a stack of scopes, each       *)
(* giving some names a symbol; a declaration replaces what its own scope   *)
(* says of the name and nothing else; leaving a scope brings back exactly  *)
(* what was visible before it was entered.                                 *)
(***************************************************************************)
EXTENDS Integers, Sequences, FiniteSetsExt

CONSTANTS Names, SymbolIds, NoSymbol

VARIABLE scopes   \* outermost first

NewScope == [n \in Names |-> NoSymbol]

Init == scopes = <<NewScope>>

Enter == scopes' = Append(scopes, NewScope)

Exit ==
  /\ Len(scopes) > 1
  /\ scopes' = SubSeq(scopes, 1, Len(scopes) - 1)

\* A declaration is made in the innermost scope or, for a function, outermost.
Declare(level, n, s) ==
  /\ level \in {1, Len(scopes)}
  /\ scopes' = [scopes EXCEPT ![level][n] = s]

Next ==
  \/ Enter
  \/ Exit
  \/ \E level \in DOMAIN scopes, n \in Names, s \in SymbolIds : Declare(level, n, s)

Spec == Init /\ [][Next]_scopes

\* The symbol a use of n means.
Visible(n) ==
  LET levels == {l \in DOMAIN scopes : scopes[l][n] # NoSymbol}
  IN IF levels = {} THEN NoSymbol ELSE scopes[Max(levels)][n]
=============================================================================
