-------------------------- MODULE MCPolicyResolve ---------------------------
(***************************************************************************)
(* Instance of PolicyResolve for TLC: up to three domains, each with one   *)
(* of four configurations: two scores, so that three domains tie and do     *)
(* not, with policies of the intent, of the empty intent or of the         *)
(* fallback intent, with or without a state.                               *)
(***************************************************************************)
EXTENDS PolicyResolve, TLC

CONSTANTS d1, d2, d3, noDomain, s1, s2, noState, a

MCDomain == {d1, d2, d3}
MCState == {s1, s2}
MCSlot == {a}

MCConfig(score, asked, blank, fallback) ==
    [score |-> score,
     vector |-> [v \in {"asked", "blank", "fallback"} |->
                   CASE v = "asked" -> asked
                     [] v = "blank" -> blank
                     [] v = "fallback" -> fallback]]

Plain == [state |-> noState, slots |-> <<>>]
WithSlot == [state |-> noState, slots |-> <<a>>]
InState == [state |-> s1, slots |-> <<>>]

MCDomainConfigs ==
    {MCConfig(1, <<WithSlot>>, <<>>, <<Plain>>),
     MCConfig(2, <<>>, <<>>, <<Plain, InState>>),
     MCConfig(1, <<Plain, InState>>, <<>>, <<>>),
     MCConfig(2, <<Plain>>, <<Plain>>, <<>>)}

MCQuSlotLists == {<<>>, <<a>>}

MCSymmetry == Permutations(MCDomain)
=============================================================================
