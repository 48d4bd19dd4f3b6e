-------------------------- MODULE MCBillingSession --------------------------
(* Instances of BillingSession for TLC.                                     *)
EXTENDS BillingSession, TLC

CONSTANTS r1, r2

Of(prefs, plays, unlims, kinds) ==
  [pref : prefs, playground : plays, unlimited : unlims, kind : kinds]

\* two ordinary API requests racing on a limited token
RacingProfiles == Of({"wallet_first", "subscription_first"}, {FALSE}, {FALSE}, {"text"})
\* every preference, kind and flag
AllProfiles == Profile
\* a realtime connection
RealtimeProfiles == Of({"wallet_only"}, {FALSE}, {FALSE}, {"realtime"})

\* requests of one user are interchangeable
Symmetry == Permutations(Requests)
=============================================================================
