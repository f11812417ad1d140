----------------------- MODULE PolicySelectionProofs ------------------------
(***************************************************************************)
(* Proofs about how a policy is selected, in a domain and among domains.   *)
(* PolicySelection, for all candidate vectors and QU results: the type     *)
(* invariant, the inductive invariant of the two scans, that they          *)
(* implement PolicyChoice, and what the comparison of slot counts decides. *)
(* PolicyResolve, for any domains, configurations and QU results, and any  *)
(* order in which the hash map yields the domains: the ranking is sorted,  *)
(* it holds what was found and nothing else, and a dialog in progress is   *)
(* continued before another domain is tried.                               *)
(***************************************************************************)
EXTENDS PolicySelection, PolicyResolve, FiniteSetTheorems, FunctionTheorems,
        SequenceTheorems, WellFoundedInduction, TLAPS

\* Outranks is the strict part of a total preorder, and the scan relies on no
\* more than this: nothing outranks itself, and what r outranks (q) being no
\* worse than p, r outranks p and p does not outrank r.
LEMMA OutranksOrder ==
    ASSUME NEW p \in Policy, NEW q \in Policy, NEW r \in Policy
    PROVE  /\ ~ Outranks(p, p)
           /\ ~ Outranks(p, q) /\ Outranks(r, q) =>
                 Outranks(r, p) /\ ~ Outranks(p, r)
  BY DEF Outranks, Policy

\* Every element of a scanned vector is a policy, and its length is natural.
LEMMA ScannedIsVector ==
    ASSUME ScanTypeOK
    PROVE  /\ Scanned \in Seq(Policy)
           /\ Len(Scanned) \in Nat
           /\ \A j \in 1..Len(Scanned) : Scanned[j] \in Policy
  <1>1. Scanned \in CandidateVectors
    BY DEF ScanTypeOK, Scanned
  <1> QED BY <1>1, VectorsAssumption

\* Type correctness: positions stay inside the vector being scanned, across
\* the switch from the intent's vector to the fallback vector.
THEOREM ScanTypeCorrect == ScanSpec => []ScanTypeOK
  <1>1. ScanInit => ScanTypeOK
    <2> SUFFICES ASSUME ScanInit PROVE ScanTypeOK
      OBVIOUS
    <2>1. Scanned \in Seq(Policy)
      BY VectorsAssumption DEF ScanInit, Scanned, Vectors
    <2>2. 1 \in 1..(Len(Scanned) + 1) /\ 0 \in 0..(1 - 1)
      BY <2>1
    <2> QED
      BY <2>2 DEF ScanInit, ScanTypeOK, Vectors
  <1>2. ScanTypeOK /\ [ScanNext]_scanVars => ScanTypeOK'
    <2> SUFFICES ASSUME ScanTypeOK, [ScanNext]_scanVars PROVE ScanTypeOK'
      OBVIOUS
    <2>0. Len(Scanned) \in Nat
      BY ScannedIsVector
    <2>1. CASE VisitCandidate
      BY <2>0, <2>1 DEF VisitCandidate, Visiting, ScanTypeOK, Scanned, scanInputs
    <2>2. CASE FallBack
      <3>1. candidates["fallback"] \in Seq(Policy)
        BY VectorsAssumption DEF ScanTypeOK, Vectors
      <3> QED
        BY <2>2, <3>1 DEF FallBack, ScanTypeOK, Scanned, Vectors, scanInputs
    <2>3. CASE Return
      BY <2>3 DEF Return, ScanTypeOK, Scanned, scanInputs
    <2>4. CASE UNCHANGED scanVars
      BY <2>4 DEF scanVars, ScanTypeOK, Scanned, scanInputs
    <2> QED BY <2>1, <2>2, <2>3, <2>4 DEF ScanNext
  <1> QED BY <1>1, <1>2, PTL DEF ScanSpec

\* The best candidate so far stays the best so far when one more is visited.
LEMMA VisitKeepsBest ==
    ASSUME ScanTypeOK, BestSoFar, VisitCandidate, ScanTypeOK'
    PROVE  BestSoFar'
  <1> DEFINE V == Scanned
             F(j) == Fits(V[j], state, quKeys)
  <1>1. /\ V \in Seq(Policy) /\ Len(V) \in Nat
        /\ \A j \in 1..Len(V) : V[j] \in Policy
    BY ScannedIsVector
  <1>2. next \in 1..Len(V) /\ best \in 0..(next - 1)
    BY <1>1 DEF ScanTypeOK, VisitCandidate, Visiting
  <1>3. /\ Scanned' = V /\ state' = state /\ quKeys' = quKeys
        /\ next' = next + 1
        /\ best' = IF Replaces(V[next]) THEN next ELSE best
    BY DEF VisitCandidate, scanInputs, Scanned
  <1>4. 1..(next' - 1) = (1..(next - 1)) \union {next}
    BY <1>2, <1>3
  <1>5. CASE Replaces(V[next]) /\ best = 0
    <2>1. \A j \in 1..(next - 1) : ~ F(j)
      BY <1>5 DEF BestSoFar
    <2>2. F(next) /\ ~ Outranks(V[next], V[next])
      BY <1>1, <1>2, <1>5, OutranksOrder DEF Replaces
    <2> QED
      BY <1>2, <1>3, <1>4, <1>5, <2>1, <2>2 DEF BestSoFar
  <1>6. CASE Replaces(V[next]) /\ best # 0
    <2>1. F(next) /\ Outranks(V[next], V[best])
      BY <1>6 DEF Replaces
    <2>2. \A j \in 1..(next - 1) :
             F(j) => Outranks(V[next], V[j]) /\ ~ Outranks(V[j], V[next])
      <3>1. \A j \in 1..(next - 1) : F(j) => ~ Outranks(V[j], V[best])
        BY <1>6 DEF BestSoFar
      <3> QED
        BY <1>1, <1>2, <1>6, <2>1, <3>1, OutranksOrder
    <2>3. ~ Outranks(V[next], V[next])
      BY <1>1, <1>2, OutranksOrder
    <2> QED
      BY <1>2, <1>3, <1>4, <1>6, <2>1, <2>2, <2>3 DEF BestSoFar
  <1>7. CASE ~ Replaces(V[next])
    <2>1. F(next) => best # 0 /\ ~ Outranks(V[next], V[best])
      BY <1>7 DEF Replaces
    <2> QED
      BY <1>2, <1>3, <1>4, <1>7, <2>1 DEF BestSoFar
  <1> QED BY <1>5, <1>6, <1>7

\* The invariant of the two scans holds of every reachable state.
THEOREM ScanCorrect == ScanSpec => []ScanInv
  <1>1. ScanInit /\ ScanTypeOK => ScanInv
    BY DEF ScanInit, ScanInv, BestSoFar
  <1>2. ScanInv /\ ScanTypeOK' /\ [ScanNext]_scanVars => ScanInv'
    <2> SUFFICES ASSUME ScanInv, ScanTypeOK', [ScanNext]_scanVars PROVE ScanInv'
      OBVIOUS
    <2>0. ScanTypeOK /\ Len(Scanned) \in Nat /\ next \in Nat
      BY ScannedIsVector DEF ScanInv, ScanTypeOK
    <2>1. CASE VisitCandidate
      <3>1. BestSoFar'
        BY <2>0, <2>1, VisitKeepsBest DEF ScanInv
      <3>2. UNCHANGED <<candidates, state, quKeys, scanning, returned>>
        BY <2>1 DEF VisitCandidate, scanInputs
      <3>3. returned = FALSE
        BY <2>0, <2>1 DEF VisitCandidate, Visiting, ScanTypeOK
      <3> QED
        BY <3>1, <3>2, <3>3 DEF ScanInv, NoneFits
    <2>2. CASE FallBack
      <3>1. next = Len(Scanned) + 1 /\ scanning = "intent" /\ best = 0
        BY <2>0, <2>2 DEF FallBack, ScanEnded, ScanTypeOK
      <3>2. NoneFits(candidates["intent"], state, quKeys)
        <4>1. \A j \in 1..(next - 1) : ~ Fits(Scanned[j], state, quKeys)
          BY <3>1 DEF ScanInv, BestSoFar
        <4>2. DOMAIN Scanned = 1..Len(Scanned)
          BY <2>0, ScannedIsVector
        <4> QED
          BY <2>0, <3>1, <4>1, <4>2 DEF NoneFits, Scanned
      <3>3. next' = 1 /\ best' = 0 /\ returned' = FALSE
        BY <2>0, <2>2, <3>1 DEF FallBack, ScanEnded, ScanTypeOK
      <3>4. BestSoFar'
        BY <3>3 DEF BestSoFar
      <3>5. UNCHANGED scanInputs
        BY <2>2 DEF FallBack
      <3> QED
        BY <3>2, <3>3, <3>4, <3>5 DEF ScanInv, NoneFits, scanInputs
    <2>3. CASE Return
      <3>1. next = Len(Scanned) + 1 /\ (best # 0 \/ scanning = "fallback")
        BY <2>0, <2>3 DEF Return, ScanEnded, ScanTypeOK
      <3>2. UNCHANGED <<candidates, state, quKeys, scanning, next, best>>
        BY <2>3 DEF Return, scanInputs
      <3> QED
        BY <3>1, <3>2 DEF ScanInv, NoneFits, BestSoFar, Scanned
    <2>4. CASE UNCHANGED scanVars
      BY <2>4 DEF scanVars, scanInputs, ScanInv, NoneFits, BestSoFar, Scanned
    <2> QED BY <2>1, <2>2, <2>3, <2>4 DEF ScanNext
  <1> QED BY <1>1, <1>2, ScanTypeCorrect, PTL DEF ScanSpec

\* PolicyChoice reads PolicyMatching with the same constants, so its operators
\* are this module's.
LEMMA SameMatching ==
    ASSUME NEW vec, NEW k, NEW st, NEW qu
    PROVE  /\ Choice!IsBestAt(vec, k, st, qu) <=> IsBestAt(vec, k, st, qu)
           /\ Choice!NoneFits(vec, st, qu) <=> NoneFits(vec, st, qu)
  <1>1. ASSUME NEW p
        PROVE  Choice!Fits(p, st, qu) <=> Fits(p, st, qu)
    <2>1. ASSUME NEW s, NEW list
          PROVE  Choice!Occurrences(s, list) = Occurrences(s, list)
      BY DEF Choice!Occurrences, Occurrences, Choice!Cardinality, Cardinality
    <2> QED
      BY <2>1 DEF Choice!Fits, Fits, Choice!SlotsSupplied, SlotsSupplied
  <1>2. ASSUME NEW p, NEW q
        PROVE  Choice!Outranks(p, q) <=> Outranks(p, q)
    BY DEF Choice!Outranks, Outranks
  <1> QED
    BY <1>1, <1>2
    DEF Choice!IsBestAt, IsBestAt, Choice!NoneFits, NoneFits

\* When find_best_policy returns, its result is one of the right answers of
\* PolicyChoice for the same inputs.
LEMMA ReturnIsRight ==
    ASSUME ScanInv, Return
    PROVE  Result \in Choice!RightAnswers
  <1>1. /\ Scanned \in Seq(Policy) /\ Len(Scanned) \in Nat
        /\ next = Len(Scanned) + 1
        /\ DOMAIN Scanned = 1..Len(Scanned)
    BY ScannedIsVector DEF ScanInv, ScanTypeOK, Return, ScanEnded
  <1>2. next - 1 = Len(Scanned)
    BY <1>1
  <1>3. CASE best # 0
    <2>1. IsBestAt(Scanned, best, state, quKeys)
      <3>1. best \in DOMAIN Scanned
        BY <1>1, <1>3 DEF ScanInv, ScanTypeOK
      <3> QED
        BY <1>1, <1>2, <1>3, <3>1 DEF ScanInv, BestSoFar, IsBestAt
    <2>2. CASE scanning = "intent"
      BY <1>3, <2>1, <2>2, SameMatching
      DEF Result, Scanned, Choice!RightAnswers, IsBestAt
    <2>3. CASE scanning = "fallback"
      <3>1. NoneFits(candidates["intent"], state, quKeys)
        BY <2>3 DEF ScanInv
      <3> QED
        BY <1>3, <2>1, <2>3, <3>1, SameMatching
        DEF Result, Scanned, Choice!RightAnswers, IsBestAt
    <2> QED BY <2>2, <2>3 DEF ScanInv, ScanTypeOK, Vectors
  <1>4. CASE best = 0
    <2>1. scanning = "fallback"
      BY <1>4 DEF Return
    <2>2. NoneFits(candidates["intent"], state, quKeys)
      BY <2>1 DEF ScanInv
    <2>3. NoneFits(candidates["fallback"], state, quKeys)
      BY <1>1, <1>2, <1>4, <2>1 DEF ScanInv, BestSoFar, NoneFits, Scanned
    <2> QED
      BY <1>4, <2>2, <2>3, SameMatching
      DEF Result, NoPolicy, Choice!NoPolicy, Choice!RightAnswers
  <1> QED BY <1>3, <1>4

\* The two scans implement the one-step choice.
THEOREM SelectionImplementsChoice == ScanSpec => ImplementsChoice
  <1>1. ScanInit => Choice!Init
    BY DEF ScanInit, Choice!Init, Vectors, StateOrNone, Choice!StateOrNone
  <1>2. ScanInv /\ [ScanNext]_scanVars =>
           [Choice!Answer]_<<Choice!inputs,
                             IF returned THEN <<Result>> ELSE <<>> >>
    <2> SUFFICES ASSUME ScanInv, [ScanNext]_scanVars
                 PROVE  [Choice!Answer]_<<Choice!inputs,
                             IF returned THEN <<Result>> ELSE <<>> >>
      OBVIOUS
    <2>1. CASE VisitCandidate
      BY <2>1 DEF VisitCandidate, Visiting, scanInputs, Choice!inputs, ScanInv, ScanTypeOK
    <2>2. CASE FallBack
      BY <2>2 DEF FallBack, ScanEnded, scanInputs, Choice!inputs, ScanInv, ScanTypeOK
    <2>3. CASE Return
      <3>1. Result \in Choice!RightAnswers
        BY <2>3, ReturnIsRight
      <3>2. Result' = Result /\ returned = FALSE /\ returned' = TRUE
        BY <2>3 DEF Return, ScanEnded, Result, ScanInv, ScanTypeOK
      <3> QED
        BY <2>3, <3>1, <3>2 DEF Return, Choice!Answer, scanInputs, Choice!inputs
    <2>4. CASE UNCHANGED scanVars
      BY <2>4 DEF scanVars, scanInputs, Choice!inputs, Result
    <2> QED BY <2>1, <2>2, <2>3, <2>4 DEF ScanNext
  <1> QED BY <1>1, <1>2, ScanCorrect, PTL DEF ScanSpec, ImplementsChoice, Choice!Spec
-----------------------------------------------------------------------------
(* The comparison of counts decides whether the slots of a trigger can be  *)
(* given slots of the QU result, one to one and key by key.                *)

\* Finite sets of the sizes A and B: the larger takes in the smaller.
LEMMA SmallerFitsIn ==
    ASSUME NEW A, NEW B, IsFiniteSet(A), IsFiniteSet(B),
           Cardinality(A) <= Cardinality(B)
    PROVE  \E g : g \in Injection(A, B)
  <1>1. PICK b \in Bijection(1..Cardinality(A), A) : TRUE
    BY FS_CardinalityType DEF ExistsBijection
  <1>2. PICK c \in Bijection(1..Cardinality(B), B) : TRUE
    BY FS_CardinalityType DEF ExistsBijection
  <1>3. PICK a \in Bijection(A, 1..Cardinality(A)) : TRUE
    BY <1>1, Fun_BijInverse, Zenon
  <1>4. 1..Cardinality(A) \subseteq 1..Cardinality(B)
    BY FS_CardinalityType
  <1>5. a \in Injection(A, 1..Cardinality(B))
    <2> DEFINE N == 1..Cardinality(A) M == 1..Cardinality(B)
    <2>1. a \in Injection(A, N)
      BY <1>3 DEF Bijection
    <2>2. N \subseteq M
      BY <1>4
    <2> HIDE DEF N, M
    <2>3. a \in [A -> M]
      BY <2>1, <2>2 DEF Injection
    <2>4. a \in Injection(A, M)
      BY <2>1, <2>3 DEF Injection
    <2> QED BY <2>4 DEF M
  <1>6. c \in Injection(1..Cardinality(B), B)
    BY <1>2 DEF Bijection
  <1> QED BY <1>5, <1>6, Fun_InjTransitive

\* Where a key stands in a list.
Places(s, list) == {k \in DOMAIN list : list[k] = s}

LEMMA PlacesFinite ==
    ASSUME NEW list \in Seq(Slot), NEW s
    PROVE  /\ IsFiniteSet(Places(s, list))
           /\ Occurrences(s, list) = Cardinality(Places(s, list))
           /\ Occurrences(s, list) \in Nat
  <1>1. DOMAIN list = 1..Len(list) /\ Len(list) \in Nat
    OBVIOUS
  <1>2. IsFiniteSet(DOMAIN list)
    BY <1>1, FS_Interval
  <1>3. IsFiniteSet(Places(s, list))
    BY <1>2, FS_Subset DEF Places
  <1>4. Occurrences(s, list) = Cardinality(Places(s, list))
    BY Zenon DEF Occurrences, Places
  <1> QED BY <1>3, <1>4, FS_CardinalityType

\* Enough slots of each key can be given one to one: where a key is wanted is
\* taken into where it is supplied, and no two keys meet in one place.
LEMMA SuppliedAreGiven ==
    ASSUME NEW wanted \in Seq(Slot), NEW supplied \in Seq(Slot),
           SlotsSupplied(wanted, supplied)
    PROVE  \E give \in Injection(DOMAIN wanted, DOMAIN supplied) :
               \A k \in DOMAIN wanted : supplied[give[k]] = wanted[k]
  <1> DEFINE Into(s) == CHOOSE g : g \in Injection(Places(s, wanted),
                                                   Places(s, supplied))
             give == [k \in DOMAIN wanted |-> Into(wanted[k])[k]]
  <1>1. ASSUME NEW k \in DOMAIN wanted
        PROVE  Into(wanted[k]) \in Injection(Places(wanted[k], wanted),
                                             Places(wanted[k], supplied))
    <2>1. Occurrences(wanted[k], wanted) <= Occurrences(wanted[k], supplied)
      <3>1. Occurrences(wanted[k], supplied) >= Occurrences(wanted[k], wanted)
        BY DEF SlotsSupplied
      <3> QED BY <3>1, PlacesFinite
    <2>2. \E g : g \in Injection(Places(wanted[k], wanted),
                                 Places(wanted[k], supplied))
      BY <2>1, PlacesFinite, SmallerFitsIn
    <2> QED BY <2>2, Zenon
  <1> HIDE DEF Into
  <1>2. ASSUME NEW k \in DOMAIN wanted
        PROVE  give[k] \in DOMAIN supplied /\ supplied[give[k]] = wanted[k]
    <2>1. k \in Places(wanted[k], wanted)
      BY DEF Places
    <2>2. Into(wanted[k])[k] \in Places(wanted[k], supplied)
      BY <1>1, <2>1 DEF Injection
    <2> QED BY <2>2 DEF Places
  <1>3. ASSUME NEW k \in DOMAIN wanted, NEW l \in DOMAIN wanted, give[k] = give[l]
        PROVE  k = l
    <2>1. wanted[k] = wanted[l]
      BY <1>2, <1>3
    <2>2. k \in Places(wanted[k], wanted) /\ l \in Places(wanted[k], wanted)
      BY <2>1 DEF Places
    <2>3. Into(wanted[k])[k] = Into(wanted[k])[l]
      BY <1>3, <2>1
    <2>4. IsInjective(Into(wanted[k]))
          /\ DOMAIN Into(wanted[k]) = Places(wanted[k], wanted)
      BY <1>1 DEF Injection
    <2> QED BY <2>2, <2>3, <2>4, Zenon DEF IsInjective
  <1>4. give \in [DOMAIN wanted -> DOMAIN supplied]
    BY <1>2
  <1>5. give \in Injection(DOMAIN wanted, DOMAIN supplied)
    BY <1>3, <1>4 DEF Injection, IsInjective
  <1> QED BY <1>2, <1>5

\* What is given one to one is there as often as it is wanted.
LEMMA GivenAreSupplied ==
    ASSUME NEW wanted \in Seq(Slot), NEW supplied \in Seq(Slot),
           NEW give \in Injection(DOMAIN wanted, DOMAIN supplied),
           \A k \in DOMAIN wanted : supplied[give[k]] = wanted[k]
    PROVE  SlotsSupplied(wanted, supplied)
  <1> SUFFICES ASSUME NEW k \in DOMAIN wanted
               PROVE  Occurrences(wanted[k], supplied)
                        >= Occurrences(wanted[k], wanted)
    BY DEF SlotsSupplied
  <1> DEFINE part == [l \in Places(wanted[k], wanted) |-> give[l]]
  <1>1. give \in [DOMAIN wanted -> DOMAIN supplied] /\ IsInjective(give)
    BY DEF Injection
  <1>2. part \in [Places(wanted[k], wanted) -> Places(wanted[k], supplied)]
    BY <1>1 DEF Places
  <1>3. part \in Injection(Places(wanted[k], wanted), Places(wanted[k], supplied))
    BY <1>1, <1>2 DEF Injection, IsInjective, Places
  <1>4. Cardinality(Places(wanted[k], wanted))
          <= Cardinality(Places(wanted[k], supplied))
    BY <1>3, FS_Injection, PlacesFinite
  <1> QED BY <1>4, PlacesFinite

\* SlotsMatchOneToOne: for every list of slots in a trigger and in a QU
\* result, the counts of find_best_policy_from_candidates (lines 388-401) say
\* whether the one can be given the other.
THEOREM SlotsOneToOne == ScanSpec => []SlotsMatchOneToOne
  <1>1. ScanTypeOK => SlotsMatchOneToOne
    <2> SUFFICES ASSUME ScanTypeOK, Visiting
                 PROVE  SlotsSupplied(Scanned[next].slots, quKeys) <=>
                          \E give \in Injection(DOMAIN Scanned[next].slots,
                                                DOMAIN quKeys) :
                             \A k \in DOMAIN Scanned[next].slots :
                                quKeys[give[k]] = Scanned[next].slots[k]
      BY DEF SlotsMatchOneToOne
    <2>1. next \in 1..Len(Scanned)
      BY ScannedIsVector DEF ScanTypeOK, Visiting
    <2>2. Scanned[next] \in Policy
      BY <2>1, ScannedIsVector
    <2>3. Scanned[next].slots \in Seq(Slot)
      BY <2>2 DEF Policy
    <2>4. quKeys \in Seq(Slot)
      BY QuKeysAssumption DEF ScanTypeOK
    <2> QED BY <2>3, <2>4, SuppliedAreGiven, GivenAreSupplied
  <1> QED BY <1>1, ScanTypeCorrect, PTL
-----------------------------------------------------------------------------
(* The ranking of what the domains answer.                                 *)

\* A set of natural numbers has a least one.
LEMMA HasMin ==
    ASSUME NEW S \in SUBSET Nat, S # {}
    PROVE  Min(S) \in S /\ \A y \in S : Min(S) <= y
  <1> DEFINE R == {p \in Nat \X Nat : p[1] < p[2]}
  <1>1. IsWellFoundedOn(R, Nat)
    BY NatLessThanWellFounded DEF OpToRel
  <1> HIDE DEF R
  <1>2. PICK x \in S : \A y \in S : ~ (<<y, x>> \in R)
    BY <1>1, WFMin
  <1>3. \A y \in S : <<y, x>> \in R <=> y < x
    BY DEF R
  <1>4. ASSUME NEW y \in S PROVE x <= y
    <2>1. ~ (y < x)
      BY <1>2, <1>3
    <2>2. x \in Nat /\ y \in Nat
      OBVIOUS
    <2> QED BY <2>1, <2>2
  <1> QED BY <1>4 DEF Min

\* What InsertAt puts where.
LEMMA InsertAtIs ==
    ASSUME NEW S, NEW s \in Seq(S), NEW e \in S, NEW m \in 1..(Len(s) + 1)
    PROVE  /\ InsertAt(s, m, e) \in Seq(S)
           /\ Len(InsertAt(s, m, e)) = Len(s) + 1
           /\ \A i \in 1..(Len(s) + 1) :
                InsertAt(s, m, e)[i] =
                    IF i < m THEN s[i] ELSE IF i = m THEN e ELSE s[i - 1]
  <1> DEFINE before == SubSeq(s, 1, m - 1)
             after == SubSeq(s, m, Len(s))
             n == Len(s)
  <1>1. n \in Nat /\ m \in Nat /\ \A i \in 1..n : s[i] \in S
    BY LenProperties, ElementOfSeq
  <1>2. /\ before \in Seq(S) /\ Len(before) = m - 1
        /\ \A i \in 1..(m - 1) : before[i] = s[i]
    <2>1. /\ m - 1 \in Int /\ 1 \in Int /\ \A i \in 1..(m - 1) : s[i] \in S
          /\ (IF 1 <= m - 1 THEN m - 1 - 1 + 1 ELSE 0) = m - 1
      BY <1>1
    <2>2. /\ before \in Seq(S)
          /\ Len(before) = IF 1 <= m - 1 THEN m - 1 - 1 + 1 ELSE 0
          /\ \A i \in 1..(m - 1 - 1 + 1) : before[i] = s[1 + i - 1]
      BY <2>1, SubSeqProperties
    <2>3. \A i \in 1..(m - 1) : before[i] = s[i]
      BY <1>1, <2>2
    <2> QED BY <2>1, <2>2, <2>3
  <1>3. /\ after \in Seq(S) /\ Len(after) = n - m + 1
        /\ \A i \in 1..(n - m + 1) : after[i] = s[m + i - 1]
    <2>1. m \in Int /\ n \in Int /\ \A i \in m..n : s[i] \in S
      BY <1>1
    <2>2. /\ after \in Seq(S)
          /\ Len(after) = IF m <= n THEN n - m + 1 ELSE 0
          /\ \A i \in 1..(n - m + 1) : after[i] = s[m + i - 1]
      BY <2>1, SubSeqProperties
    <2> QED BY <1>1, <2>2
  <1> HIDE DEF before, after
  <1>4. /\ before \o <<e>> \in Seq(S) /\ Len(before \o <<e>>) = m
        /\ \A i \in 1..m : (before \o <<e>>)[i] = IF i < m THEN s[i] ELSE e
    <2>1. <<e>> \in Seq(S) /\ Len(<<e>>) = 1 /\ <<e>>[1] = e
      OBVIOUS
    <2>2. /\ before \o <<e>> \in Seq(S)
          /\ Len(before \o <<e>>) = Len(before) + Len(<<e>>)
          /\ \A i \in 1..(Len(before) + Len(<<e>>)) : (before \o <<e>>)[i] =
                IF i <= Len(before) THEN before[i] ELSE <<e>>[i - Len(before)]
      BY <1>2, <2>1, ConcatProperties
    <2> QED BY <1>1, <1>2, <2>1, <2>2
  <1> DEFINE upto == before \o <<e>>
  <1> HIDE DEF upto
  <1>5. /\ upto \in Seq(S) /\ Len(upto) = m
        /\ \A i \in 1..m : upto[i] = IF i < m THEN s[i] ELSE e
    BY <1>4 DEF upto
  <1>6. /\ upto \o after \in Seq(S)
        /\ Len(upto \o after) = Len(upto) + Len(after)
        /\ \A i \in 1..(Len(upto) + Len(after)) : (upto \o after)[i] =
              IF i <= Len(upto) THEN upto[i] ELSE after[i - Len(upto)]
    BY <1>3, <1>5, ConcatProperties
  <1>7. InsertAt(s, m, e) = upto \o after
    BY DEF InsertAt, upto, before, after
  <1>8. Len(upto) + Len(after) = n + 1
    BY <1>1, <1>3, <1>5
  <1>9. ASSUME NEW i \in 1..(n + 1)
        PROVE  (upto \o after)[i] = IF i < m THEN s[i] ELSE IF i = m THEN e ELSE s[i - 1]
    <2>1. CASE i <= m
      BY <1>1, <1>5, <1>6, <1>8, <2>1
    <2>2. CASE i > m
      <3>1. i - m \in 1..(n - m + 1) /\ m + (i - m) - 1 = i - 1
        BY <1>1, <2>2
      <3>2. (upto \o after)[i] = after[i - m]
        BY <1>1, <1>5, <1>6, <1>8, <2>2
      <3>3. after[i - m] = s[m + (i - m) - 1]
        BY <1>3, <3>1
      <3> QED BY <1>1, <2>2, <3>1, <3>2, <3>3
    <2>3. i <= m \/ i > m
      BY <1>1
    <2> QED BY <2>1, <2>2, <2>3
  <1> QED BY <1>6, <1>7, <1>8, <1>9

Once(v) == \A i, j \in 1..Len(v) : v[i] = v[j] => i = j

LEMMA ChosenPosition ==
    ASSUME NEW S, NEW v \in Seq(S), Once(v), NEW i \in 1..Len(v)
    PROVE  (CHOOSE k \in DOMAIN v : v[k] = v[i]) = i
  <1>1. DOMAIN v = 1..Len(v)
    OBVIOUS
  <1> QED BY <1>1 DEF Once

\* A sequence without duplicates has as many members as it is long.
LEMMA OnceCounts ==
    ASSUME NEW v, NEW S, v \in Seq(S), Once(v)
    PROVE  Cardinality(Range(v)) = Len(v)
  <1> DEFINE n == Len(v)
  <1>1. n \in Nat /\ DOMAIN v = 1..n /\ v \in [1..n -> S]
    BY LenProperties
  <1>2. v \in [1..n -> Range(v)] /\ \A y \in Range(v) : \E i \in 1..n : v[i] = y
    BY <1>1 DEF Range
  <1>3. v \in Bijection(1..n, Range(v))
    BY <1>1, <1>2 DEF Bijection, Injection, Surjection, IsInjective, Once
  <1>4. ExistsBijection(1..n, Range(v))
    BY <1>3 DEF ExistsBijection
  <1> QED BY <1>1, <1>4, FS_CountingElements
-----------------------------------------------------------------------------
\* The inputs of a request: what the domains have loaded.
Inputs ==
    /\ DOMAIN loaded \subseteq Domain
    /\ loaded \in [DOMAIN loaded -> DomainConfigs]

LEMMA ConfigOf ==
    ASSUME Inputs, NEW d \in DOMAIN loaded
    PROVE  /\ loaded[d].score \in Int
           /\ \A v \in {"asked", "blank", "fallback"} :
                loaded[d].vector[v] \in Seq(Policy)
  BY ConfigsAssumption DEF Inputs

\* At most one position is best.
LEMMA OneBest ==
    ASSUME NEW vec \in Seq(Policy), NEW st, NEW qu, NEW j, NEW k,
           IsBestAt(vec, j, st, qu), IsBestAt(vec, k, st, qu)
    PROVE  j = k
  <1>1. j \in 1..Len(vec) /\ k \in 1..Len(vec) /\ DOMAIN vec = 1..Len(vec)
    BY DEF IsBestAt
  <1>2. ~ (j < k) /\ ~ (k < j)
    BY <1>1 DEF IsBestAt
  <1> QED BY <1>1, <1>2

\* A domain answers with one of its own policies, and with one only.
LEMMA FoundIs ==
    ASSUME Inputs, NEW d \in DOMAIN loaded, NEW e \in Found(d), NEW f \in Found(d)
    PROVE  e.domain = d /\ e = f
  <1> DEFINE V(n) == loaded[d].vector[VectorsFor(d)[n]]
             B(n) == {k \in DOMAIN V(n) : IsBestAt(V(n), k, StateFor(d), SlotsFor(d))}
             E(n, k) == [domain |-> d, vector |-> VectorsFor(d)[n], policy |-> V(n)[k]]
  <1>1. V(1) \in Seq(Policy) /\ V(2) \in Seq(Policy)
    BY ConfigOf DEF VectorsFor
  <1>2. \A n \in {1, 2} : \A j, k \in B(n) : j = k
    BY <1>1, OneBest
  <1>3. Found(d) = {E(1, k) : k \in B(1)} \union
                   {E(2, k) : k \in IF B(1) = {} THEN B(2) ELSE {}}
    BY DEF Found
  <1> HIDE DEF B, V
  <1>4. CASE B(1) # {}
    <2>1. Found(d) = {E(1, k) : k \in B(1)}
      BY <1>3, <1>4
    <2> QED BY <1>2, <2>1
  <1>5. CASE B(1) = {}
    <2>1. Found(d) = {E(2, k) : k \in B(2)}
      BY <1>3, <1>5
    <2> QED BY <1>2, <2>1
  <1> QED BY <1>4, <1>5
-----------------------------------------------------------------------------
(* The ranking.                                                            *)

\* An entry of a domain that has been visited and is asked for.
Asked(e) == e.domain \in Range(visited) /\ ~ Excluded(e.domain)

ByScore == (Unranked + 1)..Len(ranked)

OnTop(e) == Len(top) = 1 /\ top[1] = e

Types ==
    /\ Inputs
    /\ visited \in Seq(DOMAIN loaded) /\ Once(visited)
    /\ ranked \in Seq(Entries)
    /\ top \in Seq(Entries) /\ Len(top) <= 1
    /\ ranking \in BOOLEAN

\* What the ranking holds: nothing twice, nothing lost, in order.
Ranking ==
    /\ Len(top) = 1 => Asked(top[1]) /\ ContinuesSession(top[1])
    /\ \A i \in ByScore : Asked(ranked[i]) /\ ~ ContinuesSession(ranked[i])
    /\ \A i, j \in ByScore : ranked[i].domain = ranked[j].domain => i = j
    /\ \A d \in Range(visited) : ~ Excluded(d) =>
          \A e \in Found(d) : OnTop(e) \/ \E i \in ByScore : ranked[i] = e
    /\ RankedByScore

\* The ranking is complete.
Complete ==
    ~ ranking =>
        /\ DOMAIN loaded \subseteq Range(visited)
        /\ Len(top) <= Len(ranked)
        /\ Len(top) = 1 => ranked[1] = top[1]

\* The answer is the entry tried last.
Answers ==
    /\ tried \in 0..Len(ranked)
    /\ ranking => answer = <<>> /\ tried = 0
    /\ answer # <<>> => tried < Len(ranked) /\ answer = <<ranked[tried + 1]>>

ResolveInv == Types /\ Ranking /\ Complete /\ Answers

\* The inputs of the request do not change, nor what they determine.
LEMMA SameInputs ==
    ASSUME UNCHANGED inputs
    PROVE  /\ Inputs' = Inputs /\ UNCHANGED loaded
           /\ \A d : Found(d)' = Found(d) /\ Excluded(d)' = Excluded(d)
           /\ \A e : ContinuesSession(e)' = ContinuesSession(e) /\ ScoreOf(e)' = ScoreOf(e)
           /\ Entries' = Entries
  <1>1. UNCHANGED <<loaded, botId, quSlots, session, requested>>
    BY DEF inputs
  <1>2. ASSUME NEW d PROVE Found(d)' = Found(d)
    BY <1>1 DEF Found, VectorsFor, StateFor, SlotsFor
  <1>3. Entries' = Entries
    BY <1>1, <1>2 DEF Entries
  <1> QED
    BY <1>1, <1>2, <1>3 DEF Inputs, Excluded, ContinuesSession, ScoreOf

\* The domain that is visited comes behind all others.
LEMMA VisitPositions ==
    ASSUME visited \in Seq(DOMAIN loaded), Once(visited),
           NEW d \in DOMAIN loaded \ Range(visited), visited' = Append(visited, d)
    PROVE  /\ visited' \in Seq(DOMAIN loaded) /\ Once(visited')
           /\ Range(visited') = Range(visited) \union {d}
           /\ \A x \in Range(visited) :
                Position(x)' = Position(x) /\ Position(x) \in 1..Len(visited)
           /\ Position(d)' = Len(visited) + 1 /\ Len(visited) \in Nat
  <1> DEFINE n == Len(visited)
  <1>1. /\ n \in Nat /\ DOMAIN visited = 1..n /\ \A i \in 1..n : visited[i] \in DOMAIN loaded
    OBVIOUS
  <1>2. /\ visited' \in Seq(DOMAIN loaded) /\ Len(visited') = n + 1
        /\ DOMAIN visited' = 1..(n + 1)
        /\ \A i \in 1..n : visited'[i] = visited[i]
        /\ visited'[n + 1] = d
    BY <1>1
  <1>3. \A i \in 1..n : visited[i] # d
    BY <1>1 DEF Range
  <1>4. Once(visited')
    BY <1>1, <1>2, <1>3 DEF Once
  <1>5. Range(visited') = Range(visited) \union {d}
    BY <1>1, <1>2 DEF Range
  <1>6. ASSUME NEW x \in Range(visited)
        PROVE  Position(x)' = Position(x) /\ Position(x) \in 1..n
    <2>1. PICK i \in 1..n : visited[i] = x
      BY <1>1 DEF Range
    <2>2. Position(x) = i
      BY <2>1, ChosenPosition DEF Position
    <2>3. (CHOOSE k \in DOMAIN visited' : visited'[k] = visited'[i]) = i
      BY <1>1, <1>2, <1>4, ChosenPosition
    <2>4. Position(x)' = i
      BY <1>2, <2>1, <2>3 DEF Position
    <2> QED BY <2>2, <2>4
  <1>7. Position(d)' = n + 1
    <2>1. (CHOOSE k \in DOMAIN visited' : visited'[k] = visited'[n + 1]) = n + 1
      BY <1>1, <1>2, <1>4, ChosenPosition
    <2> QED BY <1>2, <2>1 DEF Position
  <1> QED BY <1>1, <1>2, <1>4, <1>5, <1>6, <1>7

LEMMA InsertionIs ==
    ASSUME NEW e, ranked \in Seq(Entries)
    PROVE  \E m \in 1..(Len(ranked) + 1) :
              /\ InsertByScore(e) = InsertAt(ranked, m, e)
              /\ \A i \in 1..(m - 1) : ~ (ScoreOf(e) > ScoreOf(ranked[i]))
              /\ m <= Len(ranked) => ScoreOf(e) > ScoreOf(ranked[m])
  <1> DEFINE n == Len(ranked)
             Lower == {i \in DOMAIN ranked : ScoreOf(e) > ScoreOf(ranked[i])}
             m == Min(Lower \union {n + 1})
  <1>1. n \in Nat /\ DOMAIN ranked = 1..n
    OBVIOUS
  <1>2. Lower \union {n + 1} \in SUBSET Nat /\ Lower \union {n + 1} # {}
    BY <1>1
  <1>3. m \in Lower \union {n + 1} /\ \A y \in Lower \union {n + 1} : m <= y
    BY <1>2, HasMin
  <1> HIDE DEF m
  <1>4. m \in 1..(n + 1) /\ (m <= n => m \in Lower) /\ \A i \in 1..(m - 1) : i \notin Lower
    BY <1>1, <1>3
  <1>5. InsertByScore(e) = InsertAt(ranked, m, e)
    BY DEF InsertByScore, m
  <1> QED BY <1>1, <1>4, <1>5

LEMMA ResolveInit == Init => ResolveInv
  <1> SUFFICES ASSUME Init PROVE ResolveInv
    OBVIOUS
  <1>1. Inputs
    BY DEF Init, Inputs
  <1>2. /\ visited = <<>> /\ ranked = <<>> /\ top = <<>> /\ answer = <<>>
        /\ Range(visited) = {} /\ Len(top) = 0 /\ Len(ranked) = 0 /\ ranking /\ tried = 0
    BY DEF Init, Range
  <1>3. Types
    BY <1>1, <1>2 DEF Types, Once
  <1>4. Ranking
    BY <1>2 DEF Ranking, ByScore, Unranked, RankedByScore
  <1> QED BY <1>2, <1>3, <1>4 DEF ResolveInv, Complete, Answers

\* What every visit does, whatever becomes of the domain.
LEMMA VisitFacts ==
    ASSUME ResolveInv, NEW d \in ToVisit, VisitDomain(d)
    PROVE  /\ d \in DOMAIN loaded \ Range(visited) /\ d \in Range(visited)'
           /\ ranking /\ ranking' /\ Unranked = 0 /\ Unranked' = 0
           /\ UNCHANGED <<inputs, tried, answer>>
           /\ visited' \in Seq(DOMAIN loaded) /\ Once(visited')
           /\ \A e : Asked(e) => Asked(e)' /\ e.domain # d
           /\ \A e : Asked(e) => /\ Position(e.domain)' = Position(e.domain)
                                 /\ Position(e.domain) < Position(d)'
           /\ \A x \in Range(visited)' : x = d \/ x \in Range(visited)
  <1>1. /\ d \in DOMAIN loaded \ Range(visited) /\ ranking /\ ranking' = ranking
        /\ UNCHANGED <<inputs, tried, answer>> /\ visited' = Append(visited, d)
    BY DEF VisitDomain, ToVisit
  <1>2. /\ visited' \in Seq(DOMAIN loaded) /\ Once(visited')
        /\ Range(visited') = Range(visited) \union {d}
        /\ \A x \in Range(visited) :
             Position(x)' = Position(x) /\ Position(x) \in 1..Len(visited)
        /\ Position(d)' = Len(visited) + 1 /\ Len(visited) \in Nat
    BY <1>1, VisitPositions DEF ResolveInv, Types
  <1>3. ASSUME NEW e, Asked(e)
        PROVE  /\ Asked(e)' /\ e.domain # d
               /\ Position(e.domain)' = Position(e.domain)
               /\ Position(e.domain) < Position(d)'
    <2>1. e.domain \in Range(visited) /\ ~ Excluded(e.domain)
      BY <1>3 DEF Asked
    <2>2. Asked(e)'
      BY <1>1, <1>2, <2>1, SameInputs DEF Asked
    <2> QED BY <1>1, <1>2, <2>1, <2>2
  <1>4. Unranked = 0 /\ Unranked' = 0
    BY <1>1 DEF Unranked
  <1> QED BY <1>1, <1>2, <1>3, <1>4

LEMMA VisitPassesOver ==
    ASSUME ResolveInv, NEW d \in ToVisit, VisitDomain(d), PassOver(d)
    PROVE  ResolveInv'
  <1> USE VisitFacts, SameInputs
  <1>1. UNCHANGED <<top, ranked>> /\ (Excluded(d) \/ Found(d) = {})
    BY DEF PassOver
  <1>2. Types'
    <2>1. top' \in Seq(Entries') /\ Len(top') <= 1 /\ ranked' \in Seq(Entries')
      BY <1>1 DEF ResolveInv, Types
    <2>2. Inputs' /\ visited' \in Seq(DOMAIN loaded') /\ Once(visited') /\ ranking'
      <3>1. Inputs
        BY DEF ResolveInv, Types
      <3> QED BY <3>1
    <2> QED BY ONLY <2>1, <2>2 DEF Types, Once
  <1>3. ByScore' = ByScore
    BY <1>1 DEF ByScore
  <1>4. \A x \in Range(visited)' : ~ Excluded(x)' =>
           \A e \in Found(x)' : OnTop(e)' \/ \E i \in ByScore' : ranked'[i] = e
    BY <1>1, <1>3 DEF ResolveInv, Ranking, OnTop
  <1>5. RankedByScore'
    BY <1>1, <1>3 DEF ResolveInv, Ranking, RankedByScore, ByScore
  <1>6. Ranking'
    BY <1>1, <1>3, <1>4, <1>5 DEF ResolveInv, Ranking
  <1> QED BY <1>1, <1>2, <1>6 DEF ResolveInv, Complete, Answers

LEMMA VisitKeepsForTop ==
    ASSUME ResolveInv, NEW d \in ToVisit, VisitDomain(d), KeepForTop(d)
    PROVE  ResolveInv'
  <1> USE VisitFacts, SameInputs
  <1>1. PICK entry \in Found(d) : ContinuesSession(entry) /\ top' = <<entry>>
    BY DEF KeepForTop
  <1>2. ranked' = ranked /\ ~ Excluded(d) /\ entry.domain = d /\ entry \in Entries
    BY <1>1, FoundIs DEF KeepForTop, ResolveInv, Types, Entries
  <1>3. Len(top') = 1 /\ top'[1] = entry /\ top' \in Seq(Entries)
    BY <1>1, <1>2
  \* There is one session domain, so nothing was on top before.
  <1>4. Len(top) # 1
    BY <1>1, <1>2 DEF ResolveInv, Ranking, ContinuesSession
  <1>5. Types'
    <2>1. Inputs' /\ visited' \in Seq(DOMAIN loaded') /\ Once(visited') /\ ranking'
      <3>1. Inputs
        BY DEF ResolveInv, Types
      <3> QED BY <3>1
    <2>2. ranked' \in Seq(Entries') /\ top' \in Seq(Entries')
      BY <1>2, <1>3 DEF ResolveInv, Types
    <2> QED BY ONLY <1>3, <2>1, <2>2 DEF Types, Once
  <1>6. ByScore' = ByScore
    BY <1>2 DEF ByScore
  <1>7. Asked(entry)' /\ ContinuesSession(entry)'
    BY <1>1, <1>2 DEF Asked
  <1>8. ASSUME NEW x \in Range(visited)', ~ Excluded(x)', NEW e \in Found(x)'
        PROVE  OnTop(e)' \/ \E i \in ByScore' : ranked'[i] = e
    <2>1. CASE x = d
      <3>1. e = entry
        BY <1>1, <2>1, FoundIs DEF ResolveInv, Types
      <3> QED BY <1>3, <3>1 DEF OnTop
    <2>2. CASE x # d
      BY <1>2, <1>4, <1>6, <1>8, <2>2 DEF ResolveInv, Ranking, OnTop
    <2> QED BY <2>1, <2>2
  <1>9. RankedByScore'
    BY <1>2, <1>6 DEF ResolveInv, Ranking, RankedByScore, ByScore
  <1>10. Ranking'
    BY <1>2, <1>3, <1>6, <1>7, <1>8, <1>9 DEF ResolveInv, Ranking
  <1> QED BY <1>2, <1>5, <1>10 DEF ResolveInv, Complete, Answers

\* The insertion keeps the order, and every entry that was there.
LEMMA VisitRanks ==
    ASSUME ResolveInv, NEW d \in ToVisit, VisitDomain(d), RankByScore(d)
    PROVE  ResolveInv'
  <1> USE VisitFacts, SameInputs
  <1> DEFINE n == Len(ranked)
  <1>1. PICK entry \in Found(d) :
            ~ ContinuesSession(entry) /\ ranked' = InsertByScore(entry)
    BY DEF RankByScore
  <1>2. /\ top' = top /\ ~ Excluded(d) /\ entry.domain = d /\ entry \in Entries
        /\ ranked \in Seq(Entries) /\ n \in Nat
    BY <1>1, FoundIs DEF RankByScore, ResolveInv, Types, Entries
  <1>3. PICK m \in 1..(n + 1) :
            /\ ranked' = InsertAt(ranked, m, entry)
            /\ \A i \in 1..(m - 1) : ~ (ScoreOf(entry) > ScoreOf(ranked[i]))
            /\ m <= n => ScoreOf(entry) > ScoreOf(ranked[m])
    BY <1>1, <1>2, InsertionIs
  <1>4. /\ ranked' \in Seq(Entries) /\ Len(ranked') = n + 1
        /\ \A i \in 1..(n + 1) :
             ranked'[i] = IF i < m THEN ranked[i] ELSE IF i = m THEN entry ELSE ranked[i - 1]
    BY <1>2, <1>3, InsertAtIs
  <1>5. ByScore = 1..n /\ ByScore' = 1..(n + 1)
    BY <1>2, <1>4 DEF ByScore
  <1>6. Types'
    BY <1>2, <1>4 DEF ResolveInv, Types
  <1>7. Asked(entry)' /\ ~ ContinuesSession(entry)'
    BY <1>1, <1>2 DEF Asked
  \* Where the entries have come from.
  <1>8. ASSUME NEW i \in 1..(n + 1), i # m
        PROVE  LET j == IF i < m THEN i ELSE i - 1
               IN  j \in 1..n /\ ranked'[i] = ranked[j]
    BY <1>2, <1>4, <1>8
  <1>9. \A i \in 1..(n + 1) : Asked(ranked[i])' /\ ~ ContinuesSession(ranked[i])'
    <2> SUFFICES ASSUME NEW i \in 1..(n + 1)
                 PROVE  Asked(ranked[i])' /\ ~ ContinuesSession(ranked[i])'
      OBVIOUS
    <2>1. CASE i = m
      <3>1. ranked'[i] = entry
        BY <1>2, <1>4, <2>1
      <3> QED BY ONLY <1>7, <3>1 DEF Asked, ContinuesSession, Excluded
    <2>2. CASE i # m
      <3>1. PICK j \in 1..n : ranked'[i] = ranked[j]
        BY <1>2, <1>8, <2>2
      <3>2. Asked(ranked[j]) /\ ~ ContinuesSession(ranked[j])
        BY <1>5 DEF ResolveInv, Ranking
      <3>3. Range(visited) \subseteq Range(visited)' /\ UNCHANGED <<session, requested>>
        BY VisitPositions DEF ResolveInv, Types, inputs, VisitDomain
      <3> QED BY ONLY <3>1, <3>2, <3>3 DEF Asked, ContinuesSession, Excluded
    <2> QED BY <2>1, <2>2
  <1>10. \A i, j \in 1..(n + 1) : ranked'[i].domain = ranked'[j].domain => i = j
    <2> SUFFICES ASSUME NEW i \in 1..(n + 1), NEW j \in 1..(n + 1), i < j
                 PROVE  ranked'[i].domain # ranked'[j].domain
      OBVIOUS
    <2>1. \A k \in 1..n : ranked[k].domain # d
      BY <1>5 DEF ResolveInv, Ranking
    <2>2. ranked'[m] = entry
      BY <1>2, <1>4
    <2>3. CASE i = m
      BY <1>2, <1>8, <2>1, <2>2, <2>3
    <2>4. CASE j = m
      BY <1>2, <1>8, <2>1, <2>2, <2>4
    <2>5. CASE i # m /\ j # m
      <3>1. PICK k \in 1..n, l \in 1..n :
                k # l /\ ranked'[i] = ranked[k] /\ ranked'[j] = ranked[l]
        BY <1>2, <1>8, <2>5
      <3> QED BY <1>5, <3>1 DEF ResolveInv, Ranking
    <2> QED BY <2>3, <2>4, <2>5
  <1>11. ASSUME NEW x \in Range(visited)', ~ Excluded(x)', NEW e \in Found(x)'
         PROVE  OnTop(e)' \/ \E i \in ByScore' : ranked'[i] = e
    <2>1. CASE x = d
      <3>1. e = entry
        BY <1>1, <2>1, <1>11, FoundIs DEF ResolveInv, Types
      <3>2. m \in ByScore' /\ ranked'[m] = entry
        BY <1>2, <1>4, <1>5
      <3> QED BY <3>1, <3>2
    <2>2. CASE x # d
      <3>1. OnTop(e) \/ \E i \in 1..n : ranked[i] = e
        BY <1>5, <1>11, <2>2 DEF ResolveInv, Ranking
      <3>2. ASSUME NEW i \in 1..n, ranked[i] = e
            PROVE  \E j \in 1..(n + 1) : ranked'[j] = e
        <4>1. CASE i < m
          BY <1>2, <1>4, <3>2, <4>1
        <4>2. CASE ~ (i < m)
          <5>1. i + 1 \in 1..(n + 1) /\ ~ (i + 1 < m) /\ i + 1 # m /\ i + 1 - 1 = i
            BY <1>2, <4>2
          <5>2. ranked'[i + 1] = ranked[i]
            BY <1>4, <5>1
          <5> QED BY <3>2, <5>1, <5>2
        <4> QED BY <4>1, <4>2
      <3> QED BY <1>2, <1>5, <3>1, <3>2 DEF OnTop
    <2> QED BY <2>1, <2>2
  <1>12. Len(top') = 1 => Asked(top[1])' /\ ContinuesSession(top[1])'
    <2> SUFFICES ASSUME Len(top) = 1 PROVE Asked(top[1])' /\ ContinuesSession(top[1])'
      BY <1>2
    <2>1. Asked(top[1]) /\ ContinuesSession(top[1])
      BY DEF ResolveInv, Ranking
    <2>2. Range(visited) \subseteq Range(visited)' /\ UNCHANGED <<session, requested>>
      BY VisitPositions DEF ResolveInv, Types, inputs, VisitDomain
    <2> QED BY ONLY <1>2, <2>1, <2>2 DEF Asked, ContinuesSession, Excluded
  \* The score and the position of what has been ranked before.
  <1>13. /\ \A x : ScoreOf(x)' = ScoreOf(x)
         /\ ScoreOf(entry) \in Int
    <2>1. d \in DOMAIN loaded
      BY DEF ToVisit
    <2> QED BY <1>2, <2>1, ConfigOf DEF ResolveInv, Types, ScoreOf
  <1>14. \A k \in 1..n : /\ ScoreOf(ranked[k]) \in Int
                         /\ Asked(ranked[k])
    <2> SUFFICES ASSUME NEW k \in 1..n
                 PROVE  ScoreOf(ranked[k]) \in Int /\ Asked(ranked[k])
      OBVIOUS
    <2>1. Asked(ranked[k])
      BY <1>5 DEF ResolveInv, Ranking
    <2>2. ranked[k].domain \in DOMAIN loaded
      <3>1. \A i \in DOMAIN visited : visited[i] \in DOMAIN loaded
        BY DEF ResolveInv, Types
      <3> QED BY <2>1, <3>1 DEF Asked, Range
    <2> QED BY <2>1, <2>2, ConfigOf DEF ResolveInv, Types, ScoreOf
  <1>15. \A k, l \in 1..n : k < l =>
            \/ ScoreOf(ranked[k]) > ScoreOf(ranked[l])
            \/ /\ ScoreOf(ranked[k]) = ScoreOf(ranked[l])
               /\ Position(ranked[k].domain) < Position(ranked[l].domain)
    BY <1>5 DEF ResolveInv, Ranking, RankedByScore, ByScore
  <1>16. ASSUME NEW i \in 1..(n + 1), NEW j \in 1..(n + 1), i < j,
                NEW x, NEW y, x = ranked'[i], y = ranked'[j]
         PROVE  \/ ScoreOf(x) > ScoreOf(y)
                \/ ScoreOf(x) = ScoreOf(y) /\ Position(x.domain)' < Position(y.domain)'
    <2>1. CASE j = m
      <3>1. i < m /\ i \in 1..n /\ i \in 1..(m - 1)
        BY <1>2, <1>16, <2>1
      <3>2. x = ranked[i] /\ y = entry
        BY <1>4, <1>16, <2>1, <3>1
      <3>3. ScoreOf(x) \in Int /\ Asked(x) /\ ~ (ScoreOf(entry) > ScoreOf(x))
        BY <1>3, <1>14, <3>1, <3>2
      <3>4. Position(x.domain)' < Position(entry.domain)'
        BY <1>2, <3>3
      <3> QED BY ONLY <1>13, <3>2, <3>3, <3>4
    <2>2. CASE i = m
      <3>1. m <= n /\ j - 1 \in 1..n /\ m \in 1..n /\ ~ (j < m) /\ j # m
        BY <1>2, <1>16, <2>2
      <3>2. x = entry /\ y = ranked[j - 1]
        BY <1>4, <1>16, <2>2, <3>1
      <3>3. m = j - 1 \/ m < j - 1
        BY <1>16, <2>2
      <3>4. /\ ScoreOf(entry) > ScoreOf(ranked[m])
            /\ ScoreOf(ranked[m]) \in Int /\ ScoreOf(ranked[j - 1]) \in Int
        BY ONLY <1>3, <1>14, <3>1
      <3>5. ScoreOf(ranked[m]) > ScoreOf(ranked[j - 1])
            \/ ScoreOf(ranked[m]) = ScoreOf(ranked[j - 1])
        BY ONLY <1>15, <3>1, <3>3
      <3> QED BY ONLY <1>13, <3>2, <3>4, <3>5
    <2>3. CASE i # m /\ j # m
      <3>1. PICK k \in 1..n, l \in 1..n : k < l /\ x = ranked[k] /\ y = ranked[l]
        BY <1>2, <1>8, <1>16, <2>3
      <3>2. \/ ScoreOf(x) > ScoreOf(y)
            \/ ScoreOf(x) = ScoreOf(y) /\ Position(x.domain) < Position(y.domain)
        BY ONLY <1>15, <3>1
      <3>3. Asked(x) /\ Asked(y)
        BY <1>14, <3>1
      <3>4. /\ Position(x.domain)' = Position(x.domain)
            /\ Position(y.domain)' = Position(y.domain)
        BY <3>3
      <3> QED BY ONLY <3>2, <3>4
    <2> QED BY <2>1, <2>2, <2>3
  <1>17. RankedByScore'
    <2>1. ASSUME NEW i \in 1..(n + 1), NEW j \in 1..(n + 1), i < j
          PROVE  (\/ ScoreOf(ranked[i]) > ScoreOf(ranked[j])
                  \/ /\ ScoreOf(ranked[i]) = ScoreOf(ranked[j])
                     /\ Position(ranked[i].domain) < Position(ranked[j].domain))'
      <3>1. PICK x, y : x = ranked'[i] /\ y = ranked'[j]
        OBVIOUS
      <3>2. \/ ScoreOf(x) > ScoreOf(y)
            \/ ScoreOf(x) = ScoreOf(y) /\ Position(x.domain)' < Position(y.domain)'
        BY <1>16, <2>1, <3>1
      <3>3. UNCHANGED loaded
        OBVIOUS
      <3> QED BY ONLY <3>1, <3>2, <3>3 DEF ScoreOf, Position
    <2>2. Unranked' = 0 /\ Len(ranked') = n + 1 /\ n \in Nat
      BY <1>2, <1>4
    <2> QED BY ONLY <2>1, <2>2 DEF RankedByScore
  <1>18. Ranking'
    <2>1. \A i \in ByScore' : Asked(ranked[i])' /\ ~ ContinuesSession(ranked[i])'
      BY <1>5, <1>9
    <2>2. \A i, j \in ByScore' : ranked'[i].domain = ranked'[j].domain => i = j
      BY <1>5, <1>10
    <2> QED BY ONLY <1>11, <1>12, <1>17, <2>1, <2>2 DEF Ranking
  <1> QED BY <1>2, <1>4, <1>6, <1>18 DEF ResolveInv, Complete, Answers

\* The entry that continues the session goes before the others.
LEMMA TopIsRanked ==
    ASSUME ResolveInv, RankTop
    PROVE  ResolveInv'
  <1> DEFINE n == Len(ranked)
             k == Len(top)
  <1>1. /\ ranking /\ ~ ranking' /\ ranked' = top \o ranked
        /\ UNCHANGED <<inputs, visited, top, tried, answer>>
        /\ DOMAIN loaded \subseteq Range(visited)
    BY DEF RankTop, ToVisit
  <1>2. /\ n \in Nat /\ k \in {0, 1} /\ top \in Seq(Entries) /\ ranked \in Seq(Entries)
        /\ UNCHANGED <<loaded, session, requested>> /\ Entries' = Entries
    <2>1. n \in Nat /\ k \in {0, 1} /\ top \in Seq(Entries) /\ ranked \in Seq(Entries)
      <3>1. /\ top \in Seq(Entries) /\ ranked \in Seq(Entries) /\ k <= 1
        BY DEF ResolveInv, Types
      <3>2. k \in Nat /\ n \in Nat
        BY <3>1, LenProperties
      <3> HIDE DEF k, n
      <3>3. k \in {0, 1}
        BY ONLY <3>1, <3>2
      <3> QED BY <3>1, <3>2, <3>3
    <2>2. UNCHANGED <<loaded, session, requested>>
      BY <1>1 DEF inputs
    <2> QED BY <1>1, <2>1, <2>2, SameInputs
  <1>3. /\ ranked' \in Seq(Entries) /\ Len(ranked') = k + n
        /\ \A i \in 1..(k + n) : ranked'[i] = IF i <= k THEN top[i] ELSE ranked[i - k]
    <2>1. /\ top \o ranked \in Seq(Entries) /\ Len(top \o ranked) = k + n
          /\ \A i \in 1..(k + n) :
               (top \o ranked)[i] = IF i <= k THEN top[i] ELSE ranked[i - k]
      BY <1>2, ConcatProperties
    <2> QED BY <1>1, <2>1
  <1>4. ByScore = 1..n /\ Unranked' = k /\ ByScore' = (k + 1)..(k + n)
    BY <1>1, <1>2, <1>3 DEF ByScore, Unranked
  <1>5. \A i \in (k + 1)..(k + n) : i - k \in 1..n /\ ranked'[i] = ranked[i - k]
    BY <1>2, <1>3
  <1>6. \A i \in 1..n : i + k \in (k + 1)..(k + n) /\ ranked'[i + k] = ranked[i]
    <2> SUFFICES ASSUME NEW i \in 1..n
                 PROVE  i + k \in (k + 1)..(k + n) /\ ranked'[i + k] = ranked[i]
      OBVIOUS
    <2>1. i + k \in (k + 1)..(k + n) /\ (i + k) - k = i
      BY <1>2
    <2> QED BY <1>5, <2>1
  <1>7. Types'
    <2>1. Inputs'
      BY <1>1, SameInputs DEF ResolveInv, Types
    <2>2. visited' \in Seq(DOMAIN loaded') /\ Once(visited') /\ ranking' \in BOOLEAN
      BY <1>1, <1>2 DEF ResolveInv, Types, RankTop
    <2>3. ranked' \in Seq(Entries') /\ top' \in Seq(Entries') /\ Len(top') <= 1
      BY <1>1, <1>2, <1>3
    <2> QED BY ONLY <2>1, <2>2, <2>3 DEF Types, Once
  <1>8. /\ \A e : Asked(e)' = Asked(e) /\ ContinuesSession(e)' = ContinuesSession(e)
        /\ \A e : OnTop(e)' = OnTop(e)
        /\ \A x : Found(x)' = Found(x) /\ Excluded(x)' = Excluded(x)
        /\ \A e : ScoreOf(e)' = ScoreOf(e) /\ Position(e)' = Position(e)
        /\ Range(visited)' = Range(visited)
    BY <1>1, <1>2, SameInputs DEF Asked, OnTop, Position, ContinuesSession, Excluded
  <1>9. Len(top') = 1 => Asked(top[1])' /\ ContinuesSession(top[1])'
    <2>1. Len(top) = 1 => Asked(top[1]) /\ ContinuesSession(top[1])
      BY DEF ResolveInv, Ranking
    <2> QED BY ONLY <1>1, <1>2, <2>1 DEF Asked, ContinuesSession, Excluded
  <1>10. \A i \in ByScore' : Asked(ranked[i])' /\ ~ ContinuesSession(ranked[i])'
    <2> SUFFICES ASSUME NEW i \in (k + 1)..(k + n)
                 PROVE  Asked(ranked[i])' /\ ~ ContinuesSession(ranked[i])'
      BY <1>4
    <2>1. Asked(ranked[i - k]) /\ ~ ContinuesSession(ranked[i - k])
      BY <1>4, <1>5 DEF ResolveInv, Ranking
    <2>2. ranked'[i] = ranked[i - k]
      BY <1>5
    <2> QED BY ONLY <1>1, <1>2, <2>1, <2>2 DEF Asked, ContinuesSession, Excluded
  <1>11. \A i, j \in ByScore' : ranked'[i].domain = ranked'[j].domain => i = j
    <2> SUFFICES ASSUME NEW i \in (k + 1)..(k + n), NEW j \in (k + 1)..(k + n),
                        ranked'[i].domain = ranked'[j].domain
                 PROVE  i = j
      BY <1>4
    <2>1. i - k \in 1..n /\ j - k \in 1..n /\ ranked[i - k].domain = ranked[j - k].domain
      BY <1>5
    <2>2. i - k = j - k
      BY <1>4, <2>1 DEF ResolveInv, Ranking
    <2> QED BY <1>2, <2>2
  <1>12. \A x \in Range(visited)' : ~ Excluded(x)' =>
            \A e \in Found(x)' : OnTop(e)' \/ \E i \in ByScore' : ranked'[i] = e
    <2> SUFFICES ASSUME NEW x \in Range(visited), ~ Excluded(x), NEW e \in Found(x), ~ OnTop(e)
                 PROVE  \E i \in (k + 1)..(k + n) : ranked'[i] = e
      BY <1>4, <1>8
    <2>1. PICK i \in 1..n : ranked[i] = e
      BY <1>4 DEF ResolveInv, Ranking
    <2> QED BY <1>6, <2>1
  <1>13. RankedByScore'
    <2>1. ASSUME NEW i \in (k + 1)..(k + n), NEW j \in (k + 1)..(k + n), i < j
          PROVE  (\/ ScoreOf(ranked[i]) > ScoreOf(ranked[j])
                  \/ /\ ScoreOf(ranked[i]) = ScoreOf(ranked[j])
                     /\ Position(ranked[i].domain) < Position(ranked[j].domain))'
      <3>1. PICK p \in 1..n, q \in 1..n :
                p < q /\ ranked'[i] = ranked[p] /\ ranked'[j] = ranked[q]
        <4>1. i - k \in 1..n /\ j - k \in 1..n
          BY <1>5
        <4>2. ranked'[i] = ranked[i - k] /\ ranked'[j] = ranked[j - k]
          BY <1>5
        <4>3. i - k < j - k
          BY <1>2, <2>1
        <4> QED BY <4>1, <4>2, <4>3
      <3>2. \/ ScoreOf(ranked[p]) > ScoreOf(ranked[q])
            \/ /\ ScoreOf(ranked[p]) = ScoreOf(ranked[q])
               /\ Position(ranked[p].domain) < Position(ranked[q].domain)
        BY <1>4, <3>1 DEF ResolveInv, Ranking, RankedByScore, ByScore
      <3> QED BY ONLY <1>1, <1>2, <3>1, <3>2 DEF ScoreOf, Position
    <2> QED BY ONLY <1>2, <1>3, <1>4, <2>1 DEF RankedByScore
  <1>14. Ranking'
    BY ONLY <1>9, <1>10, <1>11, <1>12, <1>13 DEF Ranking
  <1>15. Complete'
    <2>1. k = 1 => ranked'[1] = top[1]
      BY <1>2, <1>3
    <2> QED BY <1>1, <1>2, <1>3, <2>1 DEF Complete
  <1>16. Answers'
    BY <1>1, <1>2, <1>3 DEF ResolveInv, Answers
  <1> QED BY <1>7, <1>14, <1>15, <1>16 DEF ResolveInv

\* Trying to resolve the ranked entries leaves the ranking alone.
LEMMA SameRanking ==
    ASSUME ResolveInv, UNCHANGED <<inputs, visited, top, ranked, ranking>>
    PROVE  Types' /\ Ranking' /\ Complete'
  <1>1. UNCHANGED <<loaded, botId, quSlots, session, requested, visited, top, ranked, ranking>>
    BY DEF inputs
  <1>2. /\ \A d : Found(d)' = Found(d)
        /\ Inputs' = Inputs /\ Entries' = Entries
    BY SameInputs
  <1>3. Types'
    BY ONLY ResolveInv, <1>1, <1>2 DEF ResolveInv, Types, Once
  <1>4. ByScore' = ByScore /\ RankedByScore' = RankedByScore
    BY ONLY <1>1 DEF ByScore, RankedByScore, Unranked, ScoreOf, Position
  <1>5. Ranking'
    BY ONLY ResolveInv, <1>1, <1>2, <1>4
       DEF ResolveInv, Ranking, Asked, ContinuesSession, Excluded, OnTop
  <1>6. Complete'
    BY ONLY ResolveInv, <1>1 DEF ResolveInv, Complete
  <1> QED BY <1>3, <1>5, <1>6

LEMMA ResolveStep == ResolveInv /\ [Next]_vars => ResolveInv'
  <1> SUFFICES ASSUME ResolveInv, [Next]_vars PROVE ResolveInv'
    OBVIOUS
  <1>1. ASSUME NEW d \in ToVisit, VisitDomain(d) PROVE ResolveInv'
    BY <1>1, VisitPassesOver, VisitKeepsForTop, VisitRanks DEF VisitDomain
  <1>2. CASE RankTop
    BY <1>2, TopIsRanked
  <1>3. CASE ResolveOutput
    <2>1. Types' /\ Ranking' /\ Complete'
      BY <1>3, SameRanking DEF ResolveOutput
    <2>2. Answers'
      BY <1>3 DEF ResolveOutput, Resolving, ResolveInv, Answers
    <2> QED BY <2>1, <2>2 DEF ResolveInv
  <1>4. CASE ResolveFails
    <2>1. Types' /\ Ranking' /\ Complete'
      BY <1>4, SameRanking DEF ResolveFails
    <2>2. Len(ranked) \in Nat
      BY DEF ResolveInv, Types
    <2>3. Answers'
      BY <1>4, <2>2 DEF ResolveFails, Resolving, ResolveInv, Answers
    <2> QED BY <2>1, <2>3 DEF ResolveInv
  <1>5. CASE UNCHANGED vars
    <2>1. Types' /\ Ranking' /\ Complete'
      BY <1>5, SameRanking DEF vars
    <2>2. Answers'
      BY <1>5 DEF vars, ResolveInv, Answers
    <2> QED BY <2>1, <2>2 DEF ResolveInv
  <1> QED BY <1>1, <1>2, <1>3, <1>4, <1>5 DEF Next

\* The ranking is sorted, complete and without duplicates in every state.
THEOREM ResolveInvariance == Spec => []ResolveInv
  <1> QED BY ResolveInit, ResolveStep, PTL DEF Spec
-----------------------------------------------------------------------------
\* Domains are ranked by descending score; of two with the same score the one
\* the hash map yielded first goes first (policy_manager.cpp 213-221).
THEOREM SortedByScore == Spec => []RankedByScore
  <1>1. ResolveInv => RankedByScore
    BY DEF ResolveInv, Ranking
  <1> QED BY <1>1, ResolveInvariance, PTL
\* Where an entry of the complete ranking is, and that it is there once.
LEMMA Ranked ==
    ASSUME ResolveInv, ~ ranking
    PROVE  /\ ranked \in Seq(Entries) /\ Once(ranked)
           /\ \A d \in DOMAIN loaded : ~ Excluded(d) =>
                \A e \in Found(d) : \E i \in 1..Len(ranked) : ranked[i] = e
           /\ \A i \in 1..Len(ranked) : Asked(ranked[i])
           /\ \A e : OnTop(e) => Len(ranked) > 0 /\ ranked[1] = e
  <1> DEFINE n == Len(ranked)
             k == Len(top)
  <1>1. /\ ranked \in Seq(Entries) /\ top \in Seq(Entries) /\ k <= 1
        /\ DOMAIN loaded \subseteq Range(visited) /\ k <= n
        /\ k = 1 => ranked[1] = top[1]
    BY DEF ResolveInv, Types, Complete
  <1>2. n \in Nat /\ k \in Nat
    BY <1>1, LenProperties
  <1>3. ByScore = (k + 1)..n
    BY DEF ByScore, Unranked
  <1>4. \A i \in ByScore : Asked(ranked[i]) /\ ~ ContinuesSession(ranked[i])
    BY DEF ResolveInv, Ranking
  <1>5. k = 1 => Asked(ranked[1]) /\ ContinuesSession(ranked[1])
    BY <1>1 DEF ResolveInv, Ranking
  <1> HIDE DEF n, k
  <1>6. \A i \in 1..n : i \in ByScore \/ (i = 1 /\ k = 1)
    BY <1>1, <1>2, <1>3
  <1>7. Once(ranked)
    <2> SUFFICES ASSUME NEW i \in 1..n, NEW j \in 1..n, ranked[i] = ranked[j]
                 PROVE  i = j
      BY DEF Once, n
    <2>1. CASE i \in ByScore /\ j \in ByScore
      BY <2>1 DEF ResolveInv, Ranking
    <2>2. CASE i \in ByScore /\ j = 1 /\ k = 1
      BY <1>4, <1>5, <2>2
    <2>3. CASE j \in ByScore /\ i = 1 /\ k = 1
      BY <1>4, <1>5, <2>3
    <2> QED BY <1>6, <2>1, <2>2, <2>3
  <1>8. \A e : OnTop(e) => n > 0 /\ ranked[1] = e
    BY <1>1, <1>2 DEF OnTop, k
  <1>9. ByScore \subseteq 1..n
    BY <1>2, <1>3
  <1>10. ASSUME NEW d \in DOMAIN loaded, ~ Excluded(d), NEW e \in Found(d)
         PROVE  \E i \in 1..n : ranked[i] = e
    <2>1. OnTop(e) \/ \E i \in ByScore : ranked[i] = e
      BY <1>1, <1>10 DEF ResolveInv, Ranking
    <2>2. CASE OnTop(e)
      BY <1>2, <1>8, <2>2
    <2> QED BY <1>9, <2>1, <2>2
  <1>11. \A i \in 1..n : Asked(ranked[i])
    BY <1>4, <1>5, <1>6
  <1> QED BY <1>1, <1>7, <1>8, <1>10, <1>11 DEF n

\* The ranking holds each domain's policy, of the domains asked for, once.
THEOREM FoundAreRanked == Spec => []RankedAreTheFound
  <1> DEFINE Wanted == {x \in DOMAIN loaded : ~ Excluded(x)}
  <1>1. ASSUME ResolveInv, ~ ranking
        PROVE  Range(ranked) = UNION {Found(d) : d \in Wanted}
    <2>1. ranked \in Seq(Entries) /\ Range(ranked) = {ranked[i] : i \in 1..Len(ranked)}
      BY <1>1, Ranked DEF Range
    <2>2. ASSUME NEW i \in 1..Len(ranked)
          PROVE  \E d \in Wanted : ranked[i] \in Found(d)
      <3>1. ranked[i] \in Entries
        BY <2>1
      <3>2. PICK d \in DOMAIN loaded : ranked[i] \in Found(d)
        BY <3>1 DEF Entries
      <3>3. ranked[i].domain = d
        BY <1>1, <3>2, FoundIs DEF ResolveInv, Types
      <3>4. ~ Excluded(d)
        BY <1>1, <3>3, Ranked DEF Asked
      <3> QED BY <3>2, <3>4
    <2>3. \A d \in Wanted : Found(d) \subseteq Range(ranked)
      BY <1>1, <2>1, Ranked
    <2> QED BY <2>1, <2>2, <2>3
  <1>2. ASSUME ResolveInv, ~ ranking
        PROVE  Cardinality(Range(ranked)) = Len(ranked)
    BY <1>2, Ranked, OnceCounts
  <1>3. ResolveInv => RankedAreTheFound
    BY <1>1, <1>2 DEF RankedAreTheFound
  <1> QED BY <1>3, ResolveInvariance, PTL

\* A policy that continues the session is answered, or has been tried before
\* the policy of any other domain is (policy_manager.cpp 204-227).
THEOREM SessionFirst == Spec => []SessionGoesFirst
  <1>1. ASSUME ResolveInv, NEW e \in Entries,
               answer # <<>>, ContinuesSession(e), ~ Excluded(e.domain)
        PROVE  answer[1] = e \/ (tried > 0 /\ ranked[1] = e)
    <2>1. ~ ranking /\ tried \in Nat /\ answer = <<ranked[tried + 1]>>
      BY <1>1 DEF ResolveInv, Answers, Types
    <2>2. PICK d \in DOMAIN loaded : e \in Found(d)
      BY DEF Entries
    <2>3. e.domain = d
      BY <1>1, <2>2, FoundIs DEF ResolveInv, Types
    <2>4. d \in Range(visited)
      BY <1>1, <2>1 DEF ResolveInv, Complete
    <2>5. OnTop(e)
      BY <1>1, <2>2, <2>3, <2>4 DEF ResolveInv, Ranking
    <2>6. ranked[1] = e
      BY <1>1, <2>1, <2>5, Ranked
    <2>7. CASE tried = 0
      BY <2>1, <2>6, <2>7
    <2> QED BY <2>1, <2>6, <2>7
  <1>2. ResolveInv => SessionGoesFirst
    BY <1>1 DEF SessionGoesFirst
  <1> QED BY <1>2, ResolveInvariance, PTL

\* Type correctness: no domain is visited twice, and the attempts never run
\* past the ranking.
THEOREM TypeCorrect == Spec => []TypeOK
  <1>1. ASSUME ResolveInv
        PROVE  TypeOK
    <2>1. /\ DOMAIN loaded \subseteq Domain /\ loaded \in [DOMAIN loaded -> DomainConfigs]
          /\ visited \in Seq(DOMAIN loaded) /\ Once(visited)
          /\ ranked \in Seq(Entries) /\ top \in Seq(Entries) /\ Len(top) <= 1
          /\ ranking \in BOOLEAN
      BY <1>1 DEF ResolveInv, Types, Inputs
    <2>2. Range(loaded) \subseteq DomainConfigs
      BY <2>1 DEF Range
    <2>3. Len(visited) <= Cardinality(Domain)
      <3>1. Range(visited) \in SUBSET Domain
        BY <2>1 DEF Range
      <3> QED BY <2>1, <3>1, OnceCounts, FS_Subset, DomainAssumption
    <2>4. /\ tried \in 0..Len(ranked)
          /\ answer = <<>> \/ (tried < Len(ranked) /\ answer = <<ranked[tried + 1]>>)
      BY <1>1 DEF ResolveInv, Answers
    <2>5. Len(answer) <= 1 /\ \A e \in Range(answer) : e \in Entries
      <3>1. CASE answer = <<>>
        BY <3>1 DEF Range
      <3>2. CASE tried < Len(ranked) /\ answer = <<ranked[tried + 1]>>
        <4>1. tried + 1 \in 1..Len(ranked)
          BY <2>1, <2>4, <3>2
        <4> QED BY <2>1, <3>2, <4>1 DEF Range
      <3> QED BY <2>4, <3>1, <3>2
    <2>6. \A e \in Range(top) \union Range(ranked) : e \in Entries
      BY <2>1 DEF Range
    <2> QED BY <2>1, <2>2, <2>3, <2>4, <2>5, <2>6 DEF TypeOK
  <1> QED BY <1>1, ResolveInvariance, PTL
=============================================================================
