-------------------------- MODULE MCCheckoutHistory --------------------------
(***************************************************************************)
(* Model-checking instances of CheckoutHistory.                            *)
(***************************************************************************)
EXTENDS CheckoutHistory, CheckoutEvents, TLC

\* Ids of one kind are interchangeable.
Symmetry == Permutations(Sales) \cup Permutations(Sessions)
              \cup Permutations(Registers) \cup Permutations(Operators)
              \cup Permutations(Products)
=============================================================================
