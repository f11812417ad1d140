-------------------------- MODULE PolicySelection ---------------------------
(***************************************************************************)
(* PolicyManager::find_best_policy and find_best_policy_from_candidates    *)
(* (policy_manager.cpp 375-466) as they run: a scan of the vector of the   *)
(* understood intent that keeps the best fitting candidate so far, and,    *)
(* when it ends without one, a second scan of the fallback vector.  A      *)
(* vector the intent map does not have is the empty vector.                *)
(***************************************************************************)
EXTENDS PolicyMatching, Functions

CONSTANTS
    CandidateVectors,  \* the vectors a policy configuration may hold
    QuKeyLists        \* the lists of slot keys a QU result may carry

ASSUME VectorsAssumption == CandidateVectors \subseteq Seq(Policy)
ASSUME QuKeysAssumption == QuKeyLists \subseteq Seq(Slot)

VARIABLES
    candidates,   \* the two vectors the intent map is asked for
    state,        \* session.state if the domain is the session's, else NoState
    quKeys,      \* keys of the slots in the QU result
    scanning,     \* the vector being scanned
    next,         \* the position the range-for loop visits next
    best,         \* position of policy_result in that vector, 0 for nullptr
    returned      \* find_best_policy has returned

scanInputs == <<candidates, state, quKeys>>
scanVars == <<scanInputs, scanning, next, best, returned>>

Vectors == {"intent", "fallback"}

Scanned == candidates[scanning]

ScanInit ==
    /\ candidates \in [Vectors -> CandidateVectors]
    /\ state \in StateOrNone
    /\ quKeys \in QuKeyLists
    /\ scanning = "intent"
    /\ next = 1
    /\ best = 0
    /\ returned = FALSE

Visiting == ~ returned /\ next <= Len(Scanned)

ScanEnded == ~ returned /\ next > Len(Scanned)

\* Mutant: '<=' for '<' where slot counts are compared, so the last of equal
\* candidates wins.
ReplacesEqual(policy) ==
    /\ Fits(policy, state, quKeys)
    /\ best = 0 \/ ~ Outranks(Scanned[best], policy)

\* Mutant: the test of line 411 is missing, so a candidate with more slots
\* beats one that names the session's state.
ReplacesBySlotsOnly(policy) ==
    /\ Fits(policy, state, quKeys)
    /\ \/ best = 0
       \/ Outranks(policy, Scanned[best])
       \/ Len(policy.slots) > Len(Scanned[best].slots)

\* The candidate becomes policy_result.
Replaces(policy) ==
    /\ Fits(policy, state, quKeys)
    /\ best = 0 \/ Outranks(policy, Scanned[best])

\* One turn of the loop over policy_vector.
VisitCandidate ==
    /\ Visiting
    /\ best' = IF Replaces(Scanned[next]) THEN next ELSE best
    /\ next' = next + 1
    /\ UNCHANGED <<scanInputs, scanning, returned>>

\* Mutant: the loop position is not reset for the second scan.
FallBackWithoutRewind ==
    /\ ScanEnded /\ scanning = "intent" /\ best = 0
    /\ scanning' = "fallback"
    /\ UNCHANGED <<scanInputs, next, best, returned>>

\* The intent scan found nothing: scan the fallback vector.
FallBack ==
    /\ ScanEnded /\ scanning = "intent" /\ best = 0
    /\ scanning' = "fallback"
    /\ next' = 1
    /\ UNCHANGED <<scanInputs, best, returned>>

\* A scan found a policy, or the fallback scan found none either.
Return ==
    /\ ScanEnded
    /\ best # 0 \/ scanning = "fallback"
    /\ returned' = TRUE
    /\ UNCHANGED <<scanInputs, scanning, next, best>>

ScanNext == VisitCandidate \/ FallBack \/ Return

ScanSpec == ScanInit /\ [][ScanNext]_scanVars
-----------------------------------------------------------------------------
\* Type invariant: a position kept in best lies behind the loop's position in
\* the vector that is scanned now (never one of the other vector).
ScanTypeOK ==
    /\ candidates \in [Vectors -> CandidateVectors]
    /\ state \in StateOrNone
    /\ quKeys \in QuKeyLists
    /\ scanning \in Vectors
    /\ next \in 1..(Len(Scanned) + 1)
    /\ best \in 0..(next - 1)
    /\ returned \in BOOLEAN

\* Among the candidates visited so far, best is the right one.
BestSoFar ==
    IF best = 0
    THEN \A j \in 1..(next - 1) : ~ Fits(Scanned[j], state, quKeys)
    ELSE /\ Fits(Scanned[best], state, quKeys)
         /\ \A j \in 1..(next - 1) :
              Fits(Scanned[j], state, quKeys) =>
                 /\ ~ Outranks(Scanned[j], Scanned[best])
                 /\ j < best => Outranks(Scanned[best], Scanned[j])

\* The inductive invariant of the two scans (policy_manager.cpp 383-423 and
\* 449-463): the best so far is right, the fallback vector is only looked at
\* when no candidate of the intent fits, and nothing is returned early.
ScanInv ==
    /\ ScanTypeOK
    /\ BestSoFar
    /\ scanning = "fallback" =>
          NoneFits(candidates["intent"], state, quKeys)
    /\ returned => /\ next = Len(Scanned) + 1
                   /\ best # 0 \/ scanning = "fallback"

\* The comparison of counts in lines 388-401 decides what it is there for: a
\* trigger is supplied exactly when every one of its slots can be given a slot
\* of the QU result of its own, with the same key.
SlotsMatchOneToOne ==
    Visiting =>
        LET wanted == Scanned[next].slots
        IN  SlotsSupplied(wanted, quKeys) <=>
              \E give \in Injection(DOMAIN wanted, DOMAIN quKeys) :
                  \A k \in DOMAIN wanted : quKeys[give[k]] = wanted[k]

NoPolicy == [from |-> "none", at |-> 0]

Result == IF best = 0 THEN NoPolicy ELSE [from |-> scanning, at |-> best]

Choice == INSTANCE PolicyChoice WITH
            answer <- IF returned THEN <<Result>> ELSE <<>>

\* The two scans implement the one-step choice: what find_best_policy returns
\* is the best fitting candidate of the intent, the best fallback candidate
\* only when the intent has none that fits, and nothing only when there is
\* none at all (comments at policy_manager.cpp 375-378 and 455).
ImplementsChoice == Choice!Spec
=============================================================================
