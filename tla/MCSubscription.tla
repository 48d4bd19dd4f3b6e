--------------------------- MODULE MCSubscription ---------------------------
(* Instances of Subscription for TLC.                                       *)
EXTENDS Subscription

CONSTANTS r1, r2

P(g, total, limit, duration, period, aligned) ==
  [group |-> g, total |-> total, limit |-> limit, duration |-> duration, period |-> period,
   aligned |-> aligned]

\* a calendar period and a custom one, shorter than the subscriptions; both upgrade to the
\* same group, so that the second one bought has no group to go back to
UpgradePlan == [daily |-> P("vip", 4, 1, 2, 2, TRUE), custom |-> P("vip", 1, 1, 2, 1, FALSE)]
\* one upgrade, to be renewed
RenewPlan == [vip |-> P("vip", 0, 0, 2, 0, FALSE)]
=============================================================================
