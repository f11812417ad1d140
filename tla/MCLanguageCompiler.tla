------------------------- MODULE MCLanguageCompiler -------------------------
(***************************************************************************)
(* Instance of LanguageCompiler for TLC: a chart with a rhombus whose      *)
(* conditions use && and || and may both be true or both be false, and in  *)
(* which a value is kept; one in which an ellipse with a slot competes     *)
(* with one without, from a bot cell with a STATE line; and two with what  *)
(* conf/app/demo/cellular_data.xml does with STATE lines that are          *)
(* templates: to repeat the last text and stay where the dialog is, here   *)
(* beside a fallback, and to wait and then go on from there.               *)
(***************************************************************************)
EXTENDS LanguageCompiler

CONSTANTS order_data, yes, other, confirm, amount, cellular, left

Kept1 == "dmkit_param_context_state"
MCContextNames == {Kept1}
MCTemplate == ("{%state%}" :> "state") @@ ("{%dmkit_param_context_state%}" :> Kept1)
MCSource == {cellular, left}
MCState == {confirm, "001", "002", "003", "004", "005", "006"} \union DOMAIN MCTemplate
MCText == MCState \union {NoState, Spoken, "1", "2"}
MCNumbered == <<"001", "002", "003", "004", "005", "006">>
MCSlot == {amount}

User(intent, slots) ==
    [kind |-> Customer, intent |-> intent, slots |-> slots, state |-> NoState,
     params |-> <<>>, shows |-> {}]
Bot(state, params, shows) ==
    [kind |-> Server, intent |-> yes, slots |-> <<>>, state |-> state,
     params |-> params, shows |-> shows]
Rhombus(params) ==
    [kind |-> Judge, intent |-> yes, slots |-> <<>>, state |-> NoState,
     params |-> params, shows |-> {}]

Param(n, source) == [name |-> n, source |-> source]
NoCondition == [op |-> "none", atoms |-> <<>>]
If(op, atoms) == [op |-> op, atoms |-> atoms]
Is(n, v) == [name |-> n, value |-> v]
Arrow(s, t) == [source |-> s, target |-> t, condition |-> NoCondition]

X == Param("x", cellular)
Y == Param("y", left)
K == Param(Kept1, SessionState)

Judged ==
    [cells |-> <<User(order_data, <<>>), Bot(NoState, <<X>>, {"x"}), User(yes, <<>>),
                 Rhombus(<<X, K, Y>>), Bot(NoState, <<X>>, {"x", "y"}),
                 Bot(NoState, <<>>, {Kept1})>>,
     arrows |-> {Arrow(Nowhere, 1), Arrow(1, 2), Arrow(2, 3), Arrow(3, 4),
                 [Arrow(4, 5) EXCEPT !.condition = If("and", <<Is("x", "1"), Is("y", "1")>>)],
                 [Arrow(4, 6) EXCEPT !.condition = If("or", <<Is("x", "2"), Is("y", "1")>>)]}]

Competing ==
    [cells |-> <<User(order_data, <<>>), Bot(confirm, <<>>, {}), User(yes, <<>>),
                 User(yes, <<amount>>), Bot(NoState, <<Y>>, {"y"})>>,
     arrows |-> {Arrow(Nowhere, 1), Arrow(1, 2), Arrow(2, 3), Arrow(2, 4),
                 Arrow(3, 2), Arrow(4, 5)}]

Repeating ==
    [cells |-> <<User(order_data, <<>>), Bot(NoState, <<X>>, {"x"}), User(yes, <<>>),
                 Bot("{%state%}", <<Param("state", SessionState)>>, {LastTts}),
                 User(Fallback, <<>>), Bot(NoState, <<>>, {})>>,
     arrows |-> {Arrow(Nowhere, 1), Arrow(1, 2), Arrow(Nowhere, 3), Arrow(3, 4),
                 Arrow(2, 5), Arrow(5, 6)}]

Waiting ==
    [cells |-> <<User(order_data, <<>>), Bot(NoState, <<>>, {}), User(other, <<>>),
                 Bot(NoState, <<K>>, {}), User(yes, <<>>),
                 Bot("{%dmkit_param_context_state%}", <<>>, {Kept1})>>,
     arrows |-> {Arrow(Nowhere, 1), Arrow(1, 2), Arrow(2, 3), Arrow(3, 4),
                 Arrow(4, 5), Arrow(5, 6)}]

MCCharts == {Judged, Competing, Repeating, Waiting}

MCTurns ==
    {t \in [intent : {order_data, yes, other}, slots : {<<>>, <<amount>>},
            world : [MCSource -> {"1", "2"}]] : t.slots = <<>> \/ t.intent = yes}
=============================================================================
