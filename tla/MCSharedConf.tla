---------------------------- MODULE MCSharedConf ----------------------------
(* Two request threads and three loads: a copy can be overtaken by two     *)
(* reloads, and one request can hold an old map while another copies.      *)
EXTENDS SharedConf, TLC

CONSTANTS r1, r2

MCRequest == {r1, r2}
MCSymmetry == Permutations(MCRequest)
=============================================================================
