---------------------------- MODULE PolicyOutput ----------------------------
(***************************************************************************)
(* PolicyManager::resolve_policy_output: what the output of a policy is    *)
(* for one request (policy_manager.cpp 546-883).  The parameters are set   *)
(* one after the other, each from the QU result, the session, the request, *)
(* a user function or a text with earlier parameters in it; then the first *)
(* output whose assertions hold is selected; then every text of it is      *)
(* resolved.  Any step may end without an answer.                          *)
(*                                                                         *)
(* The texts of an output other than its results (meta, session, qu) are   *)
(* its fields, in the order in which they are resolved; what becomes of    *)
(* the session is the subject of DialogSession.                            *)
(***************************************************************************)
EXTENDS PolicyTemplates, Integers, FiniteSets, SequencesExt

CONSTANTS
    Policies,      \* policies, for their params and outputs
    Requests,      \* what a request brings: QU result, session, parameters
    ContextParam,  \* dmkit_param_context_<key> or dmkit_param_last_tts, by key
    SlotParam,     \* dmkit_param_slot_<key>, by key
    Number,        \* the numbers that words are
    ServiceTexts   \* what a remote service may answer

\* The policies, with the list that a value may be read as a text and, for the
\* slot types, as a key and an index.
PolicyParam ==
    [name : STRING, type : STRING, key : STRING, index : Int, text : Text,
     required : BOOLEAN, default : Text]
PolicyOutputAssertion == [type : STRING, text : Text]
PolicyOutputResult == [type : STRING, values : Seq(Text)]
OutputOfPolicy ==
    [assertions : Seq(PolicyOutputAssertion), fields : Seq(Text),
     results : Seq(PolicyOutputResult)]

\* The names that DefaultParams makes of the keys begin with prefixes of their
\* own.
ASSUME OutputAssumption ==
    /\ Policies \subseteq [params : Seq(PolicyParam), outputs : Seq(OutputOfPolicy)]
    /\ \A r \in Requests :
        /\ DOMAIN r = {"intents", "slots", "state", "context", "params"}
        /\ r.intents \in Seq(Text) \ {<<>>} /\ r.state \in Text
        /\ r.slots \in Seq([key : DOMAIN SlotParam, state : Nat, value : Text,
                            normalized : Text])
        /\ r.context \in Seq([key : DOMAIN ContextParam, value : Text])
        /\ r.params \in [DOMAIN r.params -> Text]
    /\ ServiceTexts \subseteq Text
    /\ \A k, l \in DOMAIN ContextParam : ContextParam[k] = ContextParam[l] => k = l
    /\ \A k, l \in DOMAIN SlotParam : SlotParam[k] = SlotParam[l] => k = l
    /\ \A k \in DOMAIN ContextParam, l \in DOMAIN SlotParam :
            ContextParam[k] # SlotParam[l]

VARIABLES
    policy,    \* the policy, and the request it is resolved for
    request,
    pc,        \* "params", "outputs", "fill" or "done"
    at,        \* the parameter or the output the loop is at
    params,    \* param_map
    selected,  \* selected_output_index, counted from 1; 0 for -1
    answer,    \* the texts of the output returned, or NoAnswer for nullptr
    history    \* history: param_map before each parameter

vars == <<policy, request, pc, at, params, selected, answer, history>>

NoAnswer == <<>>

Put(map, name, value) ==
    [n \in DOMAIN map \union {name} |-> IF n = name THEN value ELSE map[n]]
-----------------------------------------------------------------------------
(* The QU result, and the parameters every policy has.                     *)

\* A slot that is not filled (0), or whose value was replaced (4), does not
\* count.  The intent is the last one.
Slots == {i \in DOMAIN request.slots : request.slots[i].state \notin {0, 4}}
Intent == Last(request.intents)

Normalized(slot) == IF slot.normalized = <<>> THEN slot.value ELSE slot.normalized

\* Where the values of a default parameter are.
ContextOf(name) ==
    {i \in DOMAIN request.context : ContextParam[request.context[i].key] = name}
SlotsOf(name) == {i \in Slots : SlotParam[request.slots[i].key] = name}

\* The context of the session, where the last value of a key wins, and the
\* slots, where the first does.
DefaultParams ==
    [name \in {ContextParam[request.context[i].key] : i \in DOMAIN request.context}
                \union {SlotParam[request.slots[i].key] : i \in Slots} |->
        IF ContextOf(name) # {} THEN request.context[Max(ContextOf(name))].value
        ELSE Normalized(request.slots[Min(SlotsOf(name))])]

Init ==
    /\ policy \in Policies /\ request \in Requests
    /\ pc = "params" /\ at = 1
    /\ params = DefaultParams
    /\ selected = 0 /\ answer = NoAnswer
    /\ history = <<>>
-----------------------------------------------------------------------------
(* User functions (user_function/shared.cpp): the outcomes of a call.      *)

ChooseIfEqual(args) ==
    IF Len(args) < 4 THEN Unresolved
    ELSE Resolved(IF args[1] = args[2] THEN args[3] ELSE args[4])

\* std::string::find and replace: the first occurrence, if there is one.
Replace(args) ==
    LET Occurs(i) == SubSeq(args[1], i, i + Len(args[2]) - 1) = args[2]
        starts == {i \in 1..(Len(args[1]) + 1 - Len(args[2])) : Occurs(i)}
        first == Min(starts)
    IN  IF Len(args) # 3 THEN Unresolved
        ELSE IF starts = {} THEN Resolved(args[1])
        ELSE Resolved(SubSeq(args[1], 1, first - 1) \o args[3]
                \o SubSeq(args[1], first + Len(args[2]), Len(args[1])))

\* An HTTP call to a service fails or answers with some text.
CallService(args) ==
    {Unresolved} \union
        (IF Len(args) < 2 THEN {} ELSE {Resolved(t) : t \in ServiceTexts})

\* call_user_function: a function that is not registered fails.
CallFunction(name, args) ==
    CASE name = <<"choose_if_equal">> -> {ChooseIfEqual(args)}
      [] name = <<"replace">> -> {Replace(args)}
      [] name = <<"service_http_get">> -> CallService(args)
      [] OTHER -> {Unresolved}
-----------------------------------------------------------------------------
(* Parameters.                                                             *)

\* The slots of a key are numbered from 0; an index that is no number is -1.
SlotOutcome(param) ==
    LET slots == {i \in Slots : request.slots[i].key = param.key}
        found == {i \in slots : Cardinality({j \in slots : j < i}) = param.index}
        slot == request.slots[Min(found)]
    IN  IF found = {} THEN Unresolved
        ELSE IF param.type = "slot_val_ori" THEN Resolved(slot.value)
             ELSE Resolved(Normalized(slot))

ContextOutcome(param) ==
    LET found == {i \in DOMAIN request.context : request.context[i].key = param.key}
    IN  IF found = {} THEN Unresolved
        ELSE Resolved(request.context[Min(found)].value)

RequestOutcome(param) ==
    IF param.key \in DOMAIN request.params
    THEN Resolved(request.params[param.key]) ELSE Unresolved

\* The name of the function ends at the first colon, the arguments follow it;
\* without a colon, or with nothing after it, all of the text is the name.
Colons(text) == {i \in DOMAIN text : text[i] = Colon}
IsNameOnly(text) == Colons(text) = {} \/ Min(Colons(text)) = Len(text)

FunctionName(text) ==
    IF IsNameOnly(text) THEN text ELSE SubSeq(text, 1, Min(Colons(text)) - 1)
FunctionArgs(text) ==
    IF IsNameOnly(text) THEN <<>>
    ELSE SubSeq(text, Min(Colons(text)) + 1, Len(text))

\* The name of the function is a text, and so is each of its arguments.
FunctionOutcomes(param) ==
    LET name == Resolve(FunctionName(param.text), params)
        args == ResolveList(FunctionArgs(param.text), params)
    IN  IF name.ok /\ args.ok THEN CallFunction(name.text, args.list)
        ELSE {Unresolved}

\* What a parameter may get, or Unresolved.
Outcomes(param) ==
    CASE param.type \in {"slot_val", "slot_val_ori"} -> {SlotOutcome(param)}
      [] param.type = "qu_intent" -> {Resolved(Intent)}
      [] param.type = "session_state" -> {Resolved(request.state)}
      [] param.type = "session_context" -> {ContextOutcome(param)}
      [] param.type = "const" -> {Resolved(param.text)}
      [] param.type = "string" -> {Resolve(param.text, params)}
      [] param.type = "request_param" -> {RequestOutcome(param)}
      [] param.type = "func_val" -> FunctionOutcomes(param)
      [] OTHER -> {Unresolved}

\* The next parameter is set, to its default if it could not be resolved.
SetParam(outcome) ==
    /\ pc = "params" /\ at \in DOMAIN policy.params
    /\ LET param == policy.params[at]
       IN  /\ outcome \in Outcomes(param)
           /\ outcome.ok \/ ~ param.required
           /\ params' = Put(params, param.name,
                            IF outcome.ok THEN outcome.text ELSE param.default)
    /\ history' = Append(history, params)
    /\ at' = at + 1
    /\ UNCHANGED <<policy, request, pc, selected, answer>>

\* Mutant: a required parameter is passed over
RequiredParamPassed ==
    /\ pc = "params" /\ at \in DOMAIN policy.params
    /\ policy.params[at].required
    /\ Unresolved \in Outcomes(policy.params[at])
    /\ history' = Append(history, params)
    /\ at' = at + 1
    /\ UNCHANGED <<policy, request, pc, params, selected, answer>>

\* The next parameter is required and could not be resolved.
RequiredParamFails ==
    /\ pc = "params" /\ at \in DOMAIN policy.params
    /\ policy.params[at].required
    /\ Unresolved \in Outcomes(policy.params[at])
    /\ pc' = "done"
    /\ UNCHANGED <<policy, request, at, params, selected, answer, history>>

EndParams ==
    /\ pc = "params" /\ at \notin DOMAIN policy.params
    /\ pc' = "outputs" /\ at' = 1
    /\ UNCHANGED <<policy, request, params, selected, answer, history>>
-----------------------------------------------------------------------------
(* Assertions.                                                             *)

\* try_atof: what begins with a number is one.
IsNumber(text) == text # <<>> /\ text[1] \in DOMAIN Number

\* Mutant: the search begins at the first element itself
AssertionHoldsFromFirst(assertion) ==
    LET value == Resolve(assertion.text, params)
        list == ResolveList(value.text, params).list
    IN  value.ok /\ \E k \in 1..Len(list) : list[1] = list[k]

\* The value of an assertion is resolved, then split, and the parts resolved
\* once more.  "not_in" holds of a list that cannot be resolved.
AssertionHolds(assertion) ==
    LET value == Resolve(assertion.text, params)
        parts == ResolveList(value.text, params)
        list == parts.list
        FirstIsIn == parts.ok /\ \E k \in 2..Len(list) : list[1] = list[k]
        AreNumbers == parts.ok /\ Len(list) >= 2
                         /\ IsNumber(list[1]) /\ IsNumber(list[2])
    IN  /\ value.ok
        /\ CASE assertion.type = "not_empty" -> value.text # <<>>
             [] assertion.type = "empty" -> value.text = <<>>
             [] assertion.type = "in" -> FirstIsIn
             [] assertion.type = "not_in" -> ~ FirstIsIn
             [] assertion.type = "eq" ->
                    parts.ok /\ Len(list) >= 2 /\ list[1] = list[2]
             [] assertion.type = "gt" ->
                    AreNumbers /\ Number[list[1][1]] > Number[list[2][1]]
             [] assertion.type = "ge" ->
                    AreNumbers /\ Number[list[1][1]] >= Number[list[2][1]]
             [] OTHER -> FALSE

OutputHolds(output) ==
    \A i \in DOMAIN output.assertions : AssertionHolds(output.assertions[i])

SelectOutput ==
    /\ pc = "outputs" /\ at \in DOMAIN policy.outputs
    /\ OutputHolds(policy.outputs[at])
    /\ selected' = at
    /\ pc' = "fill"
    /\ UNCHANGED <<policy, request, at, params, answer, history>>

SkipOutput ==
    /\ pc = "outputs" /\ at \in DOMAIN policy.outputs
    /\ ~ OutputHolds(policy.outputs[at])
    /\ at' = at + 1
    /\ UNCHANGED <<policy, request, pc, params, selected, answer, history>>

NoOutput ==
    /\ pc = "outputs" /\ at \notin DOMAIN policy.outputs
    /\ pc' = "done"
    /\ UNCHANGED <<policy, request, at, params, selected, answer, history>>
-----------------------------------------------------------------------------
(* The selected output.  Of several values of a result the clock chooses   *)
(* one: choice has the index of the value for each result.                 *)
Output == policy.outputs[selected]

ValueChoices ==
    {choice \in [DOMAIN Output.results ->
                    UNION {DOMAIN Output.results[i].values : i \in DOMAIN Output.results}] :
        \A i \in DOMAIN choice : choice[i] \in DOMAIN Output.results[i].values}

Texts(choice) ==
    Output.fields \o [i \in DOMAIN choice |-> Output.results[i].values[choice[i]]]

CanFill(choice) ==
    \A i \in DOMAIN Texts(choice) : Resolve(Texts(choice)[i], params).ok

FillOutput(choice) ==
    /\ pc = "fill" /\ choice \in ValueChoices
    /\ CanFill(choice)
    /\ answer' = [i \in DOMAIN Texts(choice) |->
                    Resolve(Texts(choice)[i], params).text]
    /\ pc' = "done"
    /\ UNCHANGED <<policy, request, at, params, selected, history>>

\* A text of the output cannot be resolved, or a result has no value.
FillFails ==
    /\ pc = "fill"
    /\ ValueChoices = {} \/ \E choice \in ValueChoices : ~ CanFill(choice)
    /\ pc' = "done"
    /\ UNCHANGED <<policy, request, at, params, selected, answer, history>>

Next ==
    \/ pc = "params" /\ at \in DOMAIN policy.params
       /\ \E outcome \in Outcomes(policy.params[at]) : SetParam(outcome)
    \/ RequiredParamFails \/ EndParams
    \/ SelectOutput \/ SkipOutput \/ NoOutput
    \/ pc = "fill" /\ \E choice \in ValueChoices : FillOutput(choice)
    \/ FillFails

Spec == Init /\ [][Next]_vars
-----------------------------------------------------------------------------
AllParamsSet == Len(history) = Len(policy.params)

\* Types; a parameter that was passed has a value, an output is looked at only
\* when all of them have, and there is an answer only at the end.
TypeOK ==
    /\ policy \in Policies /\ request \in Requests
    /\ pc \in {"params", "outputs", "fill", "done"}
    /\ Len(history) <= Len(policy.params)
    /\ pc = "params" => at = Len(history) + 1
    /\ pc \in {"outputs", "fill"} => AllParamsSet
    /\ \A i \in DOMAIN history : policy.params[i].name \in DOMAIN params
    /\ selected \in {0} \union DOMAIN policy.outputs
    /\ pc = "fill" => selected = at
    /\ answer # NoAnswer => pc = "done" /\ selected # 0

\* The value that the i-th parameter was given.
ValueGiven(i) ==
    (IF i < Len(history) THEN history[i + 1] ELSE params)[policy.params[i].name]

\* A text that calls choose_if_equal the way the code and conf/app/demo have it,
\* name:argument,argument, and one written as a comma-joined list.
CallsChoice(text) ==
    Len(text) > 2 /\ text[1] = "choose_if_equal" /\ text[2] = Colon
IsCommaCall(text) ==
    Len(text) >= 2 /\ text[1] \notin Delimiter /\ text[2] = Comma /\ ~ Has(text, {Colon})

\* What policy_manager.cpp 569-690 sets each parameter to, at the end of all of
\* them: a string parameter is its text with the parameters defined before it
\* filled in, or its default if that cannot be done (tutorial.md 63); a function
\* gets the arguments that are written after the colon, whatever their values
\* hold, commas and delimiters included; what is written with a comma after the
\* function's name, as tutorial.md 85 has it, calls no function and is the
\* default; a slot_val parameter is the same as the default parameter of the
\* slot, which other code sets.
ParamsReadAsWritten ==
    \A i \in DOMAIN history :
        LET param == policy.params[i]
            before == history[i]
            parts == SplitList(SubSeq(param.text, 3, Len(param.text)))
            ArgumentsResolve == \A k \in DOMAIN parts : IsResolvable(parts[k], before)
            Argument(k) == Filled(parts[k], before)
        IN  /\ param.type = "string" =>
                ValueGiven(i) = IF IsResolvable(param.text, before)
                                THEN Filled(param.text, before) ELSE param.default
            /\ param.type = "func_val" /\ CallsChoice(param.text) =>
                ValueGiven(i) =
                    IF ~ ArgumentsResolve \/ Len(parts) < 4 THEN param.default
                    ELSE IF Argument(1) = Argument(2) THEN Argument(3)
                    ELSE Argument(4)
            /\ param.type = "func_val" /\ IsCommaCall(param.text) =>
                ValueGiven(i) = param.default
            /\ param.type = "slot_val" /\ param.index = 0
                 /\ param.key \in DOMAIN SlotParam
                 /\ SlotParam[param.key] \in DOMAIN history[1] =>
                ValueGiven(i) = history[1][SlotParam[param.key]]

\* A list can be read as it is written if no value brings in a comma or a
\* delimiter, and its last element is not empty: a comma in a value adds an
\* element, and an empty last element is dropped.
IsPlain(assertion) ==
    LET parts == SplitList(assertion.text)
    IN  IF assertion.type \in {"empty", "not_empty"}
        THEN IsResolvable(assertion.text, params)
        ELSE /\ \A n \in DOMAIN params : ~ Has(params[n], Delimiter \union {Comma})
             /\ parts # <<>>
             /\ \A k \in DOMAIN parts : IsResolvable(parts[k], params)
             /\ Filled(Last(parts), params) # <<>>

\* docs/tutorial.md 109-117, of the text or the list that is written.
Documented(assertion) ==
    LET parts == SplitList(assertion.text)
        list == [k \in DOMAIN parts |-> Filled(parts[k], params)]
        Others == {list[k] : k \in DOMAIN list \ {1}}
        Two == Len(list) >= 2
        Numbers == Two /\ IsNumber(list[1]) /\ IsNumber(list[2])
    IN  CASE assertion.type = "empty" -> Filled(assertion.text, params) = <<>>
          [] assertion.type = "not_empty" -> Filled(assertion.text, params) # <<>>
          [] assertion.type = "in" -> list[1] \in Others
          [] assertion.type = "not_in" -> list[1] \notin Others
          [] assertion.type = "eq" -> Two /\ list[1] = list[2]
          [] assertion.type = "gt" -> Numbers /\ Number[list[1][1]] > Number[list[2][1]]
          [] assertion.type = "ge" -> Numbers /\ Number[list[1][1]] >= Number[list[2][1]]
          [] OTHER -> FALSE

\* docs/tutorial.md 67: the output is the first one, in order, whose assertions
\* hold, and there is none only if they hold of none; each assertion means
\* what the table says of the values in it, although they pass through two
\* resolutions and a split.
AssertionsReadAsWritten ==
    AllParamsSet /\ pc # "params" =>
        \A i \in DOMAIN policy.outputs :
            LET assertions == policy.outputs[i].assertions
                plain == \A k \in DOMAIN assertions : IsPlain(assertions[k])
                holds == \A k \in DOMAIN assertions : Documented(assertions[k])
            IN  plain => /\ i = selected => holds
                         /\ (i < selected \/ (pc = "done" /\ selected = 0)) => ~ holds

\* The parameter the policy stopped at is required, and could not be resolved.
StoppedAtRequired ==
    LET param == policy.params[Len(history) + 1]
    IN  param.required /\ Unresolved \in Outcomes(param)

\* A request is answered with the selected output, every text of it filled in
\* (policy_manager.cpp 699-883), and goes unanswered only because a required
\* parameter could not be had, no output holds, a result has no value or a text
\* cannot be resolved: then no other output is tried.  A required parameter
\* that resolves to an empty value is not a reason (607-612 and the like), as
\* tutorial.md 66 would have it.
AnswerReadsAsWritten ==
    pc = "done" =>
        \/ ~ AllParamsSet /\ answer = NoAnswer /\ StoppedAtRequired
        \/ selected = 0 /\ answer = NoAnswer
        \/ selected # 0 /\ \E choice \in ValueChoices :
             LET texts == Texts(choice)
                 fits == \A i \in DOMAIN texts : IsResolvable(texts[i], params)
             IN  answer = IF fits THEN [i \in DOMAIN texts |-> Filled(texts[i], params)]
                          ELSE NoAnswer
        \/ selected # 0 /\ ValueChoices = {} /\ answer = NoAnswer
=============================================================================
