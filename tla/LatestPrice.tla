---------------------------- MODULE LatestPrice ----------------------------
(***************************************************************************)
(* What the local catalog of the checkout service promises: of each        *)
(* product it shows the price of an event it was told, and never goes back *)
(* to an event that is older than one it has shown.                        *)
(***************************************************************************)
EXTENDS Naturals

CONSTANTS
  Products,
  Facts,  \* what may be told: product, price and time
  Blank   \* shown of a product before the first event

VARIABLES
  told,   \* the events stored for the catalog
  shown   \* the event each product shows

vars == <<told, shown>>

Init ==
  /\ told = {}
  /\ shown = [p \in Products |-> Blank]

Tell == \E e \in Facts : told' = told \cup {e} /\ UNCHANGED shown

Show(p) ==
  \E e \in told :
    /\ e.product = p
    /\ shown[p] # Blank => shown[p].at <= e.at
    /\ shown' = [shown EXCEPT ![p] = e]
    /\ UNCHANGED told

Next == Tell \/ \E p \in Products : Show(p)

Spec == Init /\ [][Next]_vars
=============================================================================
