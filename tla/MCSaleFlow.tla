----------------------------- MODULE MCSaleFlow -----------------------------
(***************************************************************************)
(* Model-checking instances of SaleFlow.                                   *)
(***************************************************************************)
EXTENDS SaleFlow, TLC

CONSTANTS x1, p1

Item == INSTANCE StockItem

\* Of two sales the second is larger, on another day and not in cash.
First(a, b)  == [x \in Sales |-> IF x = x1 THEN a ELSE b]
Lines        == [x \in Sales |-> <<Item!LineOf(p1, 1)>>]
Amounts      == First(2, 3)
Methods      == First(TRUE, FALSE)
Dates        == First(1, 2)
Floats       == [s \in Sessions |-> 1]
Barcodes     == <<p1>>
OneLoss      == {Item!Loss(p1, 1)}
=============================================================================
