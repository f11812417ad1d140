--------------------------- MODULE MCTokenManager ---------------------------
(***************************************************************************)
(* Instance of TokenManager for TLC: two request threads and one bot; the  *)
(* margin is two seconds, exactly what one second of latency and one of    *)
(* lookup need, and tokens live three seconds (served from the cache for   *)
(* one) or one (never served from the cache).                              *)
(***************************************************************************)
EXTENDS TokenManager, TLC

CONSTANTS b1, r1, r2

MCBot == {b1}
MCRequest == {r1, r2}
MCLifetimes == {1, 3}
MCSymmetry == Permutations(MCRequest)
=============================================================================
