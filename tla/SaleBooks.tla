----------------------------- MODULE SaleBooks ------------------------------
(***************************************************************************)
(* What every consumer of the sale events promises: the effect of a sale   *)
(* on its books (stock issued, revenue booked) happens once, after the     *)
(* sale was completed, and is undone at most once, after the sale was      *)
(* canceled as a completed one; a sale that was undone is not booked       *)
(* again.  How the consumer gets there, what it looks up and which of the  *)
(* events reach it first, is not said.                                     *)
(***************************************************************************)
EXTENDS SaleEvents

VARIABLE effect  \* of each sale on the books of the consumer

booksVars == <<checkoutVars, effect>>

BooksInit == CheckoutInit /\ effect = [x \in Sales |-> "none"]

Book(x) ==
  /\ effect[x] = "none"
  /\ EventsOn("SaleCompleted", x) # {}
  /\ effect' = [effect EXCEPT ![x] = "booked"]
  /\ UNCHANGED checkoutVars

Undo(x) ==
  /\ effect[x] = "booked"
  /\ \E e \in EventsOn("SaleCanceled", x) : e.previous = "COMPLETED"
  /\ effect' = [effect EXCEPT ![x] = "undone"]
  /\ UNCHANGED checkoutVars

BooksNext ==
  \/ CheckoutNext /\ UNCHANGED effect
  \/ \E x \in Sales : Book(x) \/ Undo(x)

BooksSpec == BooksInit /\ [][BooksNext]_booksVars
=============================================================================
