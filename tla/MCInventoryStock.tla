-------------------------- MODULE MCInventoryStock --------------------------
(***************************************************************************)
(* Model-checking instances of InventoryStock.                             *)
(***************************************************************************)
EXTENDS InventoryStock, TLC

CONSTANTS s1, p1, p2

\* One sale of one product; the same with a second line.
OneLine  == [x \in Sales |-> <<LineOf(p1, 2)>>]
TwoLines == [x \in Sales |-> <<LineOf(p2, 1), LineOf(p1, 2)>>]

OneProduct  == <<p1>>
TwoProducts == <<p1, p2>>

\* A receipt that leaves the item above its threshold, one on top of it at
\* another cost, a loss, a count with a threshold and one without.
Papers == {Invoice("A", <<Receipt(p1, 3, 5)>>), Invoice("B", <<Receipt(p1, 1, 2)>>),
           Loss(p1, 1), Count(p1, 1, 1), Count(p1, 2, Unset)}

\* The lines of the two invoices lock the products in opposite orders.
CrossedPapers ==
  {Invoice("A", <<Receipt(p1, 3, 5), Receipt(p2, 1, 2)>>),
   Invoice("B", <<Receipt(p2, 1, 4), Receipt(p1, 1, 2)>>),
   Count(p1, 1, 1), Count(p2, 1, 1), Loss(p1, 3)}

\* The closing of a register means nothing to the stock.
NoClosures == EventsOn("RegisterClosed", s1) = {}

Symmetry == Permutations(Clerks)
=============================================================================
