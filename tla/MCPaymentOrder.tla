--------------------------- MODULE MCPaymentOrder ---------------------------
(* Instances of PaymentOrder for TLC. *)
EXTENDS PaymentOrder

CONSTANTS o1, h1, h2, n1
=============================================================================
