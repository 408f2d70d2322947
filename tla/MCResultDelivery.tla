--------------------------- MODULE MCResultDelivery ---------------------------
(* Values for the model checker.                                           *)
EXTENDS ResultDelivery

CONSTANTS j1, j2

Jobs == {j1, j2}
=============================================================================
