--------------------------- MODULE PolicyResolve ----------------------------
(***************************************************************************)
(* PolicyManager::resolve (policy_manager.cpp 164-244) for one request:    *)
(* ask every domain (skill) of the product for its best policy, rank what  *)
(* they answer, and return the output of the first ranked policy that can  *)
(* be resolved.                                                            *)
(*                                                                         *)
(* The domains are visited in the order of a hash map, which is any order. *)
(* Which policy a domain answers is PolicyChoice's answer, which           *)
(* PolicySelection is proved to compute.  Whether the output of a policy   *)
(* can be resolved (resolve_policy_output) depends on parameters, user     *)
(* functions and assertions and is left open here: any attempt may fail.   *)
(***************************************************************************)
EXTENDS PolicyMatching, Integers, SequencesExt

CONSTANTS
    Domain,        \* domain names: the bots registered for the product
    NoDomain,      \* the empty domain name
    DomainConfigs, \* what a domain may have loaded
    QuSlotLists    \* slot keys the QU result may carry

ASSUME DomainAssumption == IsFiniteSet(Domain) /\ NoDomain \notin Domain

\* A loaded domain: its static score and the candidate vectors of the intent
\* the QU service returned, of the empty intent, and of dmkit_intent_fallback.
ASSUME ConfigsAssumption ==
    \A c \in DomainConfigs :
        /\ c.score \in Int
        /\ c.vector \in [{"asked", "blank", "fallback"} -> Seq(Policy)]

DomainOrNone == Domain \union {NoDomain}

VARIABLES
    loaded,     \* the product's domains, and what each has loaded
    botId,      \* the bot of the request: the only domain with a QU result
    quSlots,    \* slot keys of that QU result
    session,    \* domain and state of the DMKit session
    requested,  \* request parameter "domain", or NoDomain
    visited,    \* domains the first loop has visited, in order
    top,        \* <<>>, or the policy of the session's domain and state
    ranked,     \* ranked_policies
    ranking,    \* TRUE until ranked_policies is complete
    tried,      \* how many ranked policies have been resolved in vain
    answer      \* <<>>, or the entry whose output is returned

inputs == <<loaded, botId, quSlots, session, requested>>
vars == <<inputs, visited, top, ranked, ranking, tried, answer>>

Init ==
    /\ loaded \in UNION {[D -> DomainConfigs] : D \in SUBSET Domain}
    /\ botId \in Domain
    /\ quSlots \in QuSlotLists
    /\ session \in [domain : DomainOrNone, state : StateOrNone]
    /\ requested \in DomainOrNone
    /\ visited = <<>>
    /\ top = <<>>
    /\ ranked = <<>>
    /\ ranking = TRUE
    /\ tried = 0
    /\ answer = <<>>
-----------------------------------------------------------------------------
\* The session state a domain is matched against (lines 434-437).
StateFor(d) == IF d = session.domain THEN session.state ELSE NoState

\* The QU result of a domain: its own, or the empty one.
SlotsFor(d) == IF d = botId THEN quSlots ELSE <<>>

VectorsFor(d) == <<IF d = botId THEN "asked" ELSE "blank", "fallback">>

\* The policies find_best_policy may return for a domain: one, or none.
Found(d) ==
    LET vector(n) == loaded[d].vector[VectorsFor(d)[n]]
        bestOf(n) == {k \in DOMAIN vector(n) :
                         IsBestAt(vector(n), k, StateFor(d), SlotsFor(d))}
        entry(n, k) == [domain |-> d, vector |-> VectorsFor(d)[n],
                        policy |-> vector(n)[k]]
    IN  {entry(1, k) : k \in bestOf(1)} \union
        {entry(2, k) : k \in IF bestOf(1) = {} THEN bestOf(2) ELSE {}}

ScoreOf(entry) == loaded[entry.domain].score

\* Mutant: '>=' for '>', so a later domain overtakes one of the same score.
InsertBeforeEquals(entry) ==
    InsertAt(ranked,
             Min({i \in DOMAIN ranked : ScoreOf(entry) >= ScoreOf(ranked[i])}
                    \union {Len(ranked) + 1}),
             entry)

\* ranked_policies with an entry inserted before the first lower score.
InsertByScore(entry) ==
    InsertAt(ranked,
             Min({i \in DOMAIN ranked : ScoreOf(entry) > ScoreOf(ranked[i])}
                    \union {Len(ranked) + 1}),
             entry)

\* Mutant: the state alone decides, whatever domain the session is in; in any
\* other domain only policies without a state fit, and "" equals "".
ContinuesAnyDomain(entry) ==
    /\ session.domain # NoDomain
    /\ entry.policy.state = StateFor(entry.domain)

\* The policy continues the session: same domain, and its trigger names the
\* session's state.
ContinuesSession(entry) ==
    /\ session.domain # NoDomain /\ entry.domain = session.domain
    /\ session.state # NoState /\ entry.policy.state = session.state

Excluded(d) == requested # NoDomain /\ d # requested

ToVisit == DOMAIN loaded \ Range(visited)

\* The domain is not the requested one, or has no policy for the query.
PassOver(d) ==
    /\ Excluded(d) \/ Found(d) = {}
    /\ UNCHANGED <<top, ranked>>

\* The domain's policy continues the session: keep it for the top.
KeepForTop(d) ==
    /\ ~ Excluded(d)
    /\ \E entry \in Found(d) : ContinuesSession(entry) /\ top' = <<entry>>
    /\ UNCHANGED ranked

\* Any other policy is ranked by the score of its domain.
RankByScore(d) ==
    /\ ~ Excluded(d)
    /\ \E entry \in Found(d) :
          ~ ContinuesSession(entry) /\ ranked' = InsertByScore(entry)
    /\ UNCHANGED top

VisitDomain(d) ==
    /\ ranking
    /\ visited' = Append(visited, d)
    /\ PassOver(d) \/ KeepForTop(d) \/ RankByScore(d)
    /\ UNCHANGED <<inputs, ranking, tried, answer>>

\* Mutant: the policy that continues the session is put last.
RankTopLast ==
    /\ ranking /\ ToVisit = {}
    /\ ranked' = ranked \o top
    /\ ranking' = FALSE
    /\ UNCHANGED <<inputs, visited, top, tried, answer>>

\* All domains are visited: the policy that continues the session goes first.
RankTop ==
    /\ ranking /\ ToVisit = {}
    /\ ranked' = top \o ranked
    /\ ranking' = FALSE
    /\ UNCHANGED <<inputs, visited, top, tried, answer>>

Resolving == ~ ranking /\ answer = <<>> /\ tried < Len(ranked)

\* resolve_policy_output returns an output, which is the answer.
ResolveOutput ==
    /\ Resolving
    /\ answer' = <<ranked[tried + 1]>>
    /\ UNCHANGED <<inputs, visited, top, ranked, ranking, tried>>

\* Mutant: the loop over ranked_policies runs one past the end.
ResolveFailsPastEnd ==
    /\ ~ ranking /\ answer = <<>> /\ tried <= Len(ranked)
    /\ tried' = tried + 1
    /\ UNCHANGED <<inputs, visited, top, ranked, ranking, answer>>

\* resolve_policy_output returns nullptr, and the next policy is tried.
ResolveFails ==
    /\ Resolving
    /\ tried' = tried + 1
    /\ UNCHANGED <<inputs, visited, top, ranked, ranking, answer>>

Next ==
    \/ \E d \in ToVisit : VisitDomain(d)
    \/ RankTop
    \/ ResolveOutput
    \/ ResolveFails

Spec == Init /\ [][Next]_vars
-----------------------------------------------------------------------------
Entries == UNION {Found(d) : d \in DOMAIN loaded}

\* Type invariant.
TypeOK ==
    /\ DOMAIN loaded \subseteq Domain /\ Range(loaded) \subseteq DomainConfigs
    /\ visited \in Seq(DOMAIN loaded) /\ Len(visited) <= Cardinality(Domain)
    /\ \A e \in Range(top) \union Range(ranked) \union Range(answer) : e \in Entries
    /\ Len(top) <= 1 /\ Len(answer) <= 1
    /\ tried \in 0..Len(ranked)
    /\ ranking \in BOOLEAN

Position(d) == CHOOSE i \in DOMAIN visited : visited[i] = d

\* Where the entries ranked by score begin.
Unranked == IF ranking THEN 0 ELSE Len(top)

\* The insertion of lines 213-221 keeps the list sorted by descending score,
\* and leaves domains of the same score in the order they were met.
RankedByScore ==
    \A i, j \in (Unranked + 1)..Len(ranked) :
        i < j =>
           \/ ScoreOf(ranked[i]) > ScoreOf(ranked[j])
           \/ /\ ScoreOf(ranked[i]) = ScoreOf(ranked[j])
              /\ Position(ranked[i].domain) < Position(ranked[j].domain)

\* Every domain that is asked for and has a policy is ranked exactly once, and
\* no other: a policy overwritten in state_policy, or lost by the insertion,
\* would leave the request unanswered although a policy matches (166-227).
RankedAreTheFound ==
    ~ ranking =>
        /\ Range(ranked) = UNION {Found(d) : d \in {x \in DOMAIN loaded : ~ Excluded(x)}}
        /\ Cardinality(Range(ranked)) = Len(ranked)

\* A dialog in progress is continued: if the domain of the session has a
\* policy for the session's state, no other domain is answered from before
\* it has been tried, whatever the scores (comment at line 204).
SessionGoesFirst ==
    \A e \in Entries :
        answer # <<>> /\ ContinuesSession(e) /\ ~ Excluded(e.domain) =>
            \/ answer[1] = e
            \/ tried > 0 /\ ranked[1] = e
=============================================================================
