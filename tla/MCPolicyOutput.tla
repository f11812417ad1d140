--------------------------- MODULE MCPolicyOutput ---------------------------
(***************************************************************************)
(* Instance of PolicyOutput for TLC: policies with every text of up to     *)
(* three tokens, or four if it begins with {%, as a parameter, policies    *)
(* with each type of assertion, of parameter and of failure, and requests  *)
(* whose values are empty, numbers, words, lists and texts that look like  *)
(* a parameter.                                                            *)
(***************************************************************************)
EXTENDS PolicyOutput

Value == {<<>>, <<"9">>, <<"10">>, <<"9", ",", "x">>, <<"{%", "b", "%}">>}

\* The request's parameter a has one of the values, its slots of the same key
\* are unfilled, replaced, filled and without a normalized value.
Slot(key, state, value, normalized) ==
    [key |-> key, state |-> state, value |-> value, normalized |-> normalized]

MCRequests ==
    { [intents |-> <<<<"x">>, <<"i">>>>,
       slots |-> <<Slot("city", 0, <<"x">>, <<"x">>), Slot("city", 2, value, normal),
                   Slot("city", 1, <<"9">>, <<>>), Slot("date", 4, <<"x">>, <<"x">>)>>,
       state |-> <<"s">>,
       context |-> <<[key |-> "k", value |-> <<"old">>], [key |-> "k", value |-> <<"9">>]>>,
       params |-> [a |-> value, b |-> <<"9">>]] :
        value \in Value, normal \in {<<>>, <<"10">>} }

MCContextParam == [k |-> "context_k"]
MCSlotParam == [city |-> "slot_city", date |-> "slot_date"]
MCNumber == [n \in {"9", "10"} |-> IF n = "9" THEN 9 ELSE 10]
MCServiceTexts == {<<"9">>, <<"{%", "a">>}

Param(name, type, key, index, text, required) ==
    [name |-> name, type |-> type, key |-> key, index |-> index, text |-> text,
     required |-> required, default |-> <<"default">>]

FromRequest(name) == Param(name, "request_param", name, 0, <<>>, FALSE)

\* {%name%}, and a list of texts
P(name) == <<Open, name, Close>>
Two(s, t) == s \o <<Comma>> \o t
Three(s, t, u) == Two(s, Two(t, u))

\* A call of a function, and arguments for choose_if_equal.
Call(name, args) == <<name, Colon>> \o args
Choice == Two(Two(P("a"), P("b")), Two(<<"x">>, P("a")))

Always(fields, results) ==
    [assertions |-> <<>>, fields |-> fields, results |-> results]
If(type, text, fields) ==
    [assertions |-> <<[type |-> type, text |-> text]>>, fields |-> fields,
     results |-> <<>>]
Result(values) == [type |-> "tts", values |-> values]

Token == {Open, Close, OpenClose, Comma, "a", "x"}

\* A string parameter of any text; an output that shows it, by one of
\* two texts of which one may be wrong; another output that is always right.
TextPolicies ==
    { [params |-> <<FromRequest("a"), Param("s", "string", "", 0, text, FALSE)>>,
       outputs |-> <<Always(<<P("s")>>, <<Result(<<<<"x">> \o P("s"), text>>)>>),
                     Always(<<<<"x">>>>, <<>>)>>] :
        text \in UNION {[1..n -> Token] : n \in 0..3}
                    \union {<<Open>> \o t : t \in [1..3 -> Token]} }

\* Two assertions in a row, of each type, on lists of two and three.
AssertionType == {"empty", "not_empty", "in", "not_in", "eq", "gt", "ge", "like"}
Lists == {P("a"), Two(P("a"), P("b")), Two(P("b"), P("a")),
          Three(P("b"), <<"x">>, P("a")), Two(P("a"), P("unknown"))}

AssertionPolicies ==
    { [params |-> <<FromRequest("a"), FromRequest("b")>>,
       outputs |-> <<If(type, list, <<<<"x">>>>), If("not_empty", P("a"), <<P("b")>>),
                     [If("ge", Two(P("a"), P("b")), <<P("a")>>)
                         EXCEPT !.results = <<Result(<<>>)>>]>>] :
        type \in AssertionType, list \in Lists }

\* Parameters of every type, each required or not.
ParamsFor(required) ==
    { Param("v", "slot_val", "city", i, <<>>, required) : i \in -1..2 } \union
    { Param("v", "slot_val_ori", "city", 0, <<>>, required),
      Param("v", "qu_intent", "", 0, <<>>, required),
      Param("v", "session_state", "", 0, <<>>, required),
      Param("v", "session_context", "k", 0, <<>>, required),
      Param("v", "session_context", "l", 0, <<>>, required),
      Param("v", "const", "", 0, P("a"), required),
      Param("v", "request_param", "c", 0, <<>>, required),
      Param("v", "no_type", "", 0, <<>>, required),
      Param("v", "func_val", "", 0, Call("service_http_get", Two(P("a"), <<"x">>)),
            required),
      Param("v", "func_val", "", 0, Call("replace", Three(P("a"), <<"9">>, P("b"))),
            required),
      Param("v", "func_val", "", 0, Call("no_function", P("a")), required),
      Param("v", "func_val", "", 0, P("b") \o <<Colon, "x">>, required),
      Param("v", "func_val", "", 0, Call("choose_if_equal", Choice), required),
      Param("v", "func_val", "", 0, Call("choose_if_equal", P("a")), required),
      Param("v", "func_val", "", 0, Call("choose_if_equal", <<>>), required),
      Param("v", "func_val", "", 0, Two(<<"choose_if_equal">>, Choice), required) }

ParamPolicies ==
    { [params |-> <<FromRequest("a"), FromRequest("b"), param,
                    Param("w", "string", "", 0, P("v") \o <<"x">>, FALSE)>>,
       outputs |-> <<Always(<<P("w"), P("context_k")>>, <<>>)>>] :
        param \in ParamsFor(TRUE) \union ParamsFor(FALSE) }

MCPolicies == TextPolicies \union AssertionPolicies \union ParamPolicies
=============================================================================
