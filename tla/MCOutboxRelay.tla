--------------------------- MODULE MCOutboxRelay ---------------------------
(***************************************************************************)
(* Model-checking instances of OutboxRelay: up to three events, e1 and e2  *)
(* of the same instant.                                                    *)
(***************************************************************************)
EXTENDS OutboxRelay, TLC

CONSTANTS e1, e2, e3

Instants == [e \in Events |-> IF e = e3 THEN 2 ELSE 1]

\* Two instances of the service are interchangeable.
Symmetry == Permutations(Workers)
=============================================================================
