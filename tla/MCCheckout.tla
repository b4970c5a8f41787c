----------------------------- MODULE MCCheckout -----------------------------
(***************************************************************************)
(* Model-checking instances of Checkout.                                   *)
(***************************************************************************)
EXTENDS CheckoutEvents, TLC

\* Ids of one kind are interchangeable.
Symmetry == Permutations(Sales) \cup Permutations(Sessions)
              \cup Permutations(Registers) \cup Permutations(Operators)
              \cup Permutations(Products)
=============================================================================
