------------------------- MODULE MCPolicySelection --------------------------
(***************************************************************************)
(* Instance of PolicySelection for TLC: every pair of vectors of up to     *)
(* three candidates, so that a third candidate meets a best one that has   *)
(* itself replaced another, drawn from triggers without a state or with    *)
(* one, which is the session's or not, and with no slot, one, one twice or *)
(* two.                                                                    *)
(***************************************************************************)
EXTENDS PolicySelection

CONSTANTS a, b, s1, s2, none

MCState == {s1, s2}
MCSlot == {a, b}

MCTriggers ==
    [state : {none}, slots : {<<>>, <<a, b>>}]
        \union [state : {s1}, slots : {<<a>>, <<a, a>>}]

MCVectors == UNION {[1..n -> MCTriggers] : n \in 0..3}

MCQuKeyLists == {<<a>>, <<a, b>>, <<a, b, a>>}
=============================================================================
