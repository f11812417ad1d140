---------------------------- MODULE PolicyChoice ----------------------------
(***************************************************************************)
(* What PolicyManager::find_best_policy promises (policy_manager.cpp,      *)
(* the comments at lines 375-378 and 455): given the candidates registered *)
(* for the understood intent and those registered for                      *)
(* dmkit_intent_fallback, the answer is the best fitting candidate of the  *)
(* intent; only when none of these fits, the best fitting fallback         *)
(* candidate; and nothing when there is none either.  The answer is given  *)
(* in one step.                                                            *)
(***************************************************************************)
EXTENDS PolicyMatching

CONSTANTS
    CandidateVectors,  \* the vectors a policy configuration may hold
    QuKeyLists        \* the lists of slot keys a QU result may carry

VARIABLES
    candidates,   \* the vector of the intent and the fallback vector
    state,        \* the session state that applies to this domain, or NoState
    quKeys,      \* slot keys of the QU result
    answer        \* <<>>, or the record of what was selected

inputs == <<candidates, state, quKeys>>

NoPolicy == [from |-> "none", at |-> 0]

\* The selections that are right for the inputs.
RightAnswers ==
    {[from |-> "intent", at |-> k] :
        k \in {i \in DOMAIN candidates["intent"] :
                  IsBestAt(candidates["intent"], i, state, quKeys)}}
    \union
    {[from |-> "fallback", at |-> k] :
        k \in {i \in DOMAIN candidates["fallback"] :
                  /\ NoneFits(candidates["intent"], state, quKeys)
                  /\ IsBestAt(candidates["fallback"], i, state, quKeys)}}
    \union
    {a \in {NoPolicy} :
        /\ NoneFits(candidates["intent"], state, quKeys)
        /\ NoneFits(candidates["fallback"], state, quKeys)}

Init ==
    /\ candidates \in [{"intent", "fallback"} -> CandidateVectors]
    /\ state \in StateOrNone
    /\ quKeys \in QuKeyLists
    /\ answer = <<>>

Answer ==
    /\ answer = <<>>
    /\ \E a \in RightAnswers : answer' = <<a>>
    /\ UNCHANGED inputs

Spec == Init /\ [][Answer]_<<inputs, answer>>
=============================================================================
