--------------------------- MODULE PolicyMatching ---------------------------
(***************************************************************************)
(* The vocabulary in which src/src/policy_manager.cpp compares dialog      *)
(* policies: when a policy's trigger is satisfied by what the QU (query    *)
(* understanding) service returned and by the session state, and which of  *)
(* two satisfied policies is preferred.                                    *)
(*                                                                         *)
(* A policy is reduced to its trigger: the trigger state ("" is NoState)   *)
(* and the list of trigger slots, in which a slot may be repeated.         *)
(***************************************************************************)
EXTENDS Naturals, Sequences, FiniteSets

CONSTANTS
    State,     \* the dialog states a policy or a session may name
    NoState,   \* the empty state string
    Slot       \* the slot keys

ASSUME NoStateAssumption == NoState \notin State

StateOrNone == State \union {NoState}

Policy == [state : StateOrNone, slots : Seq(Slot)]

\* How often key s occurs in a list of slot keys (unordered_multiset::count).
Occurrences(s, list) == Cardinality({k \in DOMAIN list : list[k] = s})

\* Mutant: presence is tested, multiplicity is not.
SlotsPresent(slots, supplied) ==
    \A k \in DOMAIN slots : Occurrences(slots[k], supplied) > 0

\* Every trigger slot is in the QU result, and as many times as in the trigger.
SlotsSupplied(slots, supplied) ==
    \A k \in DOMAIN slots :
        Occurrences(slots[k], supplied) >= Occurrences(slots[k], slots)

\* The policy may be selected: it names no state or the current one, and the
\* QU result supplies its slots.
Fits(policy, current, supplied) ==
    /\ policy.state \in {NoState, current}
    /\ SlotsSupplied(policy.slots, supplied)

\* A fitting policy p that is met after q replaces q: a policy with a state
\* beats one without, and among the same kind the longer slot list wins.
Outranks(p, q) ==
    \/ q.state = NoState /\ p.state # NoState
    \/ /\ (q.state = NoState) <=> (p.state = NoState)
       /\ Len(q.slots) < Len(p.slots)

\* Position k of the candidate vector is the one the selection owes its
\* caller: it fits, no fitting candidate outranks it, and it outranks every
\* fitting candidate that stands before it (so the first of equals is taken).
IsBestAt(vec, k, current, supplied) ==
    /\ k \in DOMAIN vec
    /\ Fits(vec[k], current, supplied)
    /\ \A j \in DOMAIN vec :
         Fits(vec[j], current, supplied) =>
            /\ ~ Outranks(vec[j], vec[k])
            /\ j < k => Outranks(vec[k], vec[j])

\* No candidate of the vector fits.
NoneFits(vec, current, supplied) ==
    \A j \in DOMAIN vec : ~ Fits(vec[j], current, supplied)
=============================================================================
