-------------------------- MODULE MCQuotaFreshness --------------------------
(* QuotaFreshness on a small instance: refreshes of the two threads that   *)
(* overlap each other and the monitor's collecting, with failed writes and *)
(* exits between any two steps.                                            *)
EXTENDS QuotaFreshness
=============================================================================
