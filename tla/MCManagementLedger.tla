------------------------- MODULE MCManagementLedger -------------------------
(***************************************************************************)
(* Model-checking instances of ManagementLedger.                           *)
(***************************************************************************)
EXTENDS ManagementLedger, TLC

CONSTANT x1

\* The other sale is larger, on another day and not in cash.
Amounts == [x \in Sales |-> IF x = x1 THEN 2 ELSE 3]
Methods == [x \in Sales |-> x = x1]
Dates   == [x \in Sales |-> IF x = x1 THEN 1 ELSE 2]
Floats  == [s \in Sessions |-> 1]

\* The instances of the consumer are interchangeable.
Symmetry == Permutations(Accountants)
=============================================================================
