--------------------------- MODULE DialogSession ----------------------------
(***************************************************************************)
(* The DMKit session over the turns of a dialog.  The server keeps nothing *)
(* between requests: DialogManager::run takes the session out of the       *)
(* bot_session that the client sends, and the bot_session of the reply     *)
(* carries the next one (dialog_manager.cpp).  The client is that of       *)
(* tools/bot_emulator.py: it sends back what the last reply without an     *)
(* error gave it, here possibly to another bot.                            *)
(*                                                                         *)
(* A session is a domain, a state and a context, a list of key-value pairs *)
(* that is serialised as the members of a JSON object and read back in the *)
(* same order, repeated keys included (policy.cpp 183-225).  Which policy  *)
(* answers is the subject of PolicyResolve; here any policy may whose      *)
(* trigger state agrees with the session.                                  *)
(***************************************************************************)
EXTENDS Naturals, Sequences, FiniteSets, SequencesExt

CONSTANTS
    Bot,        \* bot ids a client may talk to
    NoBot,      \* the client has no bot_session
    Key,        \* context keys, none of them the empty text
    LastTts,    \* the context key dmkit_param_last_tts
    Value,      \* context values and texts, after template resolution
    NoValue,    \* the empty text
    NoName,     \* the empty domain and the empty state
    Policies    \* what the policies of the product may do in a turn

\* A policy: where it belongs, the state that triggers it (or NoName), what the
\* text of the state it sets may resolve to, the keys of its parameters
\* dmkit_param_context_<key>, and for each entry of its output.session.context
\* what the text of the key may resolve to.  Two entries may have the same key,
\* and any key may be LastTts.
ASSUME PoliciesAssumption ==
    /\ LastTts \in Key
    /\ NoBot \notin Bot
    /\ \A p \in Policies :
        /\ DOMAIN p = {"domain", "trigger", "states", "params", "context"}
        /\ p.params \subseteq Key /\ IsFiniteSet(p.params)
        /\ p.context \in Seq(SUBSET Key)

VARIABLES
    client,     \* the bot_session the client holds: its bot and its session
    request,    \* the request being served: its bot and rewrite_query
    dmSession,  \* dm_session: the session taken from the request
    pc,         \* "idle", "query", "rewrite" or "reply"
    response,   \* the response to be sent
    memory      \* history: what the policies that answered have written into
                \* the dialog whose session the client holds

vars == <<client, request, dmSession, pc, response, memory>>

NoSession == [domain |-> NoName, state |-> NoName, context |-> <<>>]

\* No turn answered yet.  Of a key, memory has the value written last, which
\* kinds of writer it has had, and whether the last answer wrote it; written has
\* the entries and the parameters of the last answer itself.
NoMemory ==
    [domain |-> NoName, state |-> NoName, tts |-> NoValue, written |-> <<>>,
     keys |-> [k \in Key |-> [value |-> NoValue, by |-> {}, fresh |-> FALSE]]]

ErrorResponse == [error |-> TRUE, session |-> NoSession, memory |-> NoMemory]

Init ==
    /\ client = [bot |-> NoBot, session |-> NoSession]
    /\ request = [bot |-> NoBot, rewrite |-> FALSE]
    /\ dmSession = NoSession
    /\ pc = "idle"
    /\ response = ErrorResponse
    /\ memory = NoMemory
-----------------------------------------------------------------------------
(* resolve_policy_output, as far as it concerns the session.               *)

Keys(list) == {list[i].key : i \in DOMAIN list}

EntriesOf(list, key) == {i \in DOMAIN list : list[i].key = key}

\* What a parameter of type session_context reads: the first entry of the key.
FirstValue(list, key) == list[Min(EntriesOf(list, key))].value

\* What the templates {%dmkit_param_context_<key>%} and {%dmkit_param_last_tts%}
\* read: the loop over the session's context overwrites, so the last entry.
LastValue(list, key) == list[Max(EntriesOf(list, key))].value

\* Mutant: the texts of the answers become entries of a parameter
ContextParamsAndText(policy, session, values) ==
    [key \in Keys(session.context) \union policy.params |->
        IF key \in policy.params THEN values[key] ELSE LastValue(session.context, key)]

\* Mutant: a parameter that the session brings is not assigned again
ContextParamsInherited(policy, session, values) ==
    [key \in (Keys(session.context) \ {LastTts}) \union policy.params |->
        IF key \in Keys(session.context) \ {LastTts}
        THEN LastValue(session.context, key) ELSE values[key]]

\* The parameters dmkit_param_context_<key> once the policy's own, of the given
\* values, are set: an assignment to the same name overwrites.
ContextParams(policy, session, values) ==
    [key \in (Keys(session.context) \ {LastTts}) \union policy.params |->
        IF key \in policy.params THEN values[key] ELSE LastValue(session.context, key)]

\* The entries of the map of parameters, in some order.
Pairs(map) == SetToSeq({[key |-> k, value |-> map[k]] : k \in DOMAIN map})

Entry(keys) == [key : keys, value : Value]

\* What the output.session.context of a policy may resolve to.
Written(policy) ==
    {entries \in [DOMAIN policy.context -> Entry(Key)] :
        \A i \in DOMAIN entries : entries[i] \in Entry(policy.context[i])}

\* Mutant: the context parameters go before the output's own context
NextSessionParamsFirst(policy, session, state, values, entries, tts) ==
    [domain  |-> policy.domain,
     state   |-> state,
     context |-> Pairs(ContextParams(policy, session, values)) \o entries
                    \o <<[key |-> LastTts, value |-> tts]>>]

\* The session of the output: its own entries first, then every context
\* parameter, then the first text.
NextSession(policy, session, state, values, entries, tts) ==
    [domain  |-> policy.domain,
     state   |-> state,
     context |-> entries \o Pairs(ContextParams(policy, session, values))
                    \o <<[key |-> LastTts, value |-> tts]>>]

NextMemory(policy, before, state, values, entries, tts) ==
    [domain  |-> policy.domain,
     state   |-> state,
     tts     |-> tts,
     written |-> entries \o Pairs(values),
     keys    |-> [k \in Key |->
        CASE k \in Keys(entries) ->
                [value |-> FirstValue(entries, k),
                 by |-> before.keys[k].by \union {"output"}, fresh |-> TRUE]
          [] k \in policy.params \ Keys(entries) ->
                [value |-> values[k], by |-> before.keys[k].by \union {"param"},
                 fresh |-> TRUE]
          [] OTHER -> [before.keys[k] EXCEPT !.fresh = FALSE]]]
-----------------------------------------------------------------------------
\* The session of a request to bot: only a bot_session of that bot counts.
SessionOf(bot) == IF client.bot = bot THEN client.session ELSE NoSession

MemoryOf(bot) == IF client.bot = bot THEN memory ELSE NoMemory

\* The client sends a request, with a rewritten query or without.
Send(bot, rewrite) ==
    /\ pc = "idle"
    /\ request' = [bot |-> bot, rewrite |-> rewrite]
    /\ dmSession' = SessionOf(bot)
    /\ pc' = "query"
    /\ response' = ErrorResponse
    /\ UNCHANGED <<client, memory>>

\* No access token: the request ends before UNIT is called.
TokenFails ==
    /\ pc = "query"
    /\ pc' = "reply"
    /\ response' = ErrorResponse
    /\ UNCHANGED <<client, request, dmSession, memory>>

\* Mutant: a second attempt whether or not there is a rewritten query
AfterUnansweredTryAgain == IF pc = "query" THEN "rewrite" ELSE "reply"

\* What follows an attempt whose response r is not a DMKit response.  The
\* response to the rewritten query is then dropped, and the first one sent.
AfterUnanswered ==
    IF pc = "query" /\ request.rewrite THEN "rewrite" ELSE "reply"

Unanswered(r) ==
    /\ pc \in {"query", "rewrite"}
    /\ pc' = AfterUnanswered
    /\ response' = IF pc = "query" THEN r ELSE response
    /\ UNCHANGED <<client, request, dmSession, memory>>

\* The call of UNIT fails or its answer is unusable, its action type is
\* satisfy, or no policy has an output.
Fails == Unanswered(ErrorResponse)

\* Mutant: UNIT's answer is passed on as it is
ClarifyWithoutSession ==
    Unanswered([error |-> FALSE, session |-> NoSession,
                memory |-> MemoryOf(request.bot)])

\* UNIT has not understood the query and asks back, or gives up.  Its answer
\* is passed on with the session of the request put into it.
Clarify ==
    Unanswered([error |-> FALSE, session |-> dmSession,
                memory |-> MemoryOf(request.bot)])

\* The state trigger of a policy sees the state only in the session's domain.
Triggers(policy) ==
    \/ policy.trigger = NoName
    \/ policy.domain = dmSession.domain /\ policy.trigger = dmSession.state

\* A policy answers: a DMKit response, sent whichever attempt it came from.
Answer(policy, state, values, entries, tts) ==
    /\ pc \in {"query", "rewrite"}
    /\ Triggers(policy)
    /\ state \in policy.states /\ entries \in Written(policy)
    /\ values \in [policy.params -> Value]
    /\ pc' = "reply"
    /\ response' =
         [error   |-> FALSE,
          session |-> NextSession(policy, dmSession, state, values, entries, tts),
          memory  |-> NextMemory(policy, MemoryOf(request.bot), state, values,
                                 entries, tts)]
    /\ UNCHANGED <<client, request, dmSession, memory>>

\* The client keeps the bot_session of a reply without an error.
Deliver ==
    /\ pc = "reply"
    /\ pc' = "idle"
    /\ IF response.error
       THEN UNCHANGED <<client, memory>>
       ELSE /\ client' = [bot |-> request.bot, session |-> response.session]
            /\ memory' = response.memory
    /\ UNCHANGED <<request, dmSession, response>>

Next ==
    \/ \E bot \in Bot, rewrite \in BOOLEAN : Send(bot, rewrite)
    \/ TokenFails
    \/ Fails
    \/ Clarify
    \/ \E p \in Policies, t \in Value \union {NoValue} :
         \E state \in p.states, values \in [p.params -> Value], entries \in Written(p) :
            Answer(p, state, values, entries, t)
    \/ Deliver

Spec == Init /\ [][Next]_vars
-----------------------------------------------------------------------------
IsSession(s) ==
    /\ DOMAIN s = {"domain", "state", "context"}
    /\ Keys(s.context) \subseteq Key

\* The variables have their types, and there is a second attempt only where
\* the request has a rewritten query.
TypeOK ==
    /\ client.bot \in Bot \union {NoBot} /\ IsSession(client.session)
    /\ request.bot \in Bot \union {NoBot} /\ request.rewrite \in BOOLEAN
    /\ IsSession(dmSession)
    /\ pc \in {"idle", "query", "rewrite", "reply"}
    /\ pc = "rewrite" => request.rewrite
    /\ response.error \in BOOLEAN /\ IsSession(response.session)

\* Failed turns, clarifications, second attempts and turns of another bot that
\* fail do not disturb the dialog: the client always holds the domain, the
\* state and the text of the last policy that answered it, and holds none of
\* them for a bot that has not answered.  A policy with a state trigger can
\* therefore fire only in the domain and state that the last answer set, and
\* {%dmkit_param_last_tts%} is the text last answered, even if a policy has
\* written a key of that name.
HoldsLastAnswer ==
    /\ client.session.domain = memory.domain
    /\ client.session.state = memory.state
    /\ memory # NoMemory =>
        /\ LastTts \in Keys(client.session.context)
        /\ LastValue(client.session.context, LastTts) = memory.tts

\* A key that only parameters dmkit_param_context_<key> have written keeps
\* the value last written however many turns ago that was, and is read the
\* same as a session_context parameter and as a template.
ParamWritesPersist ==
    \A k \in Key \ {LastTts} : memory.keys[k].by = {"param"} =>
        /\ k \in Keys(client.session.context)
        /\ FirstValue(client.session.context, k) = memory.keys[k].value
        /\ LastValue(client.session.context, k) = memory.keys[k].value

\* A session_context parameter reads what the last answer wrote to the key, by
\* a parameter or by its output.session.context, which has precedence and of
\* which the first entry counts, with any number of unanswered turns in between.
SessionContextReadsLastAnswer ==
    \A k \in Key : memory.keys[k].fresh =>
        /\ k \in Keys(client.session.context)
        /\ FirstValue(client.session.context, k) = memory.keys[k].value

\* The session does not grow with the dialog, although every turn copies the
\* context of the one before: beside what the last answer itself has written
\* there is at most one entry of a key, copied from the turn before or the text.
ContextIsBounded ==
    \A k \in Key :
        Cardinality(EntriesOf(client.session.context, k))
            <= Cardinality(EntriesOf(memory.written, k)) + 1

\* docs/tutorial.md, lines 73 and 104: what output.session.context holds is
\* stored in the session for the next turn, where dmkit_param_context_<key>
\* is the value of the key in the context of the last turn.  The code appends
\* the parameter of the turn before after it, and the template reads that.
TemplateReadsLastAnswer ==
    \A k \in Key \ {LastTts} : memory.keys[k].fresh =>
        LastValue(client.session.context, k) = memory.keys[k].value
=============================================================================
