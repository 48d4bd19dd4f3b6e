---------------------------- MODULE MCQuotaStore ----------------------------
EXTENDS QuotaStore, TLC

CONSTANTS w1, w2, n1, n2

TwoNodes == (w1 :> n1) @@ (w2 :> n2)

ChargeOrRefund == {-1, 1}
=============================================================================
