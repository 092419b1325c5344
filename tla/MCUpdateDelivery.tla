--------------------------- MODULE MCUpdateDelivery ---------------------------
(* An instance of UpdateDelivery small enough for TLC. *)
EXTENDS UpdateDelivery
=============================================================================
