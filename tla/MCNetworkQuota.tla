--------------------------- MODULE MCNetworkQuota ---------------------------
(* NetworkQuota with more requests than the limit of a key allows. *)
EXTENDS NetworkQuota

CONSTANTS k1, k2, r1, r2, r3, r4

MCKeys == {k1, k2}
MCRequests == {r1, r2, r3, r4}
=============================================================================
