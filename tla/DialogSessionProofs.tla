------------------------ MODULE DialogSessionProofs -------------------------
(***************************************************************************)
(* The theorems about DialogSession.  The invariant says how a session and *)
(* the memory of its dialog agree; it holds of the session that the client *)
(* has and of the one that a response carries, and the session of the      *)
(* request is the client's as long as the request is served.  All that is  *)
(* hard is the step of an answer, for one session: AnswerAgrees.           *)
(***************************************************************************)
EXTENDS DialogSession, FiniteSetTheorems, SequenceTheorems, WellFoundedInduction,
        NaturalsInduction, TLAPS

Names ==
    {NoName} \union {p.domain : p \in Policies} \union (UNION {p.states : p \in Policies})

Texts == Value \union {NoValue}

Pair == [key : Key, value : Texts]

Session == [domain : Names, state : Names, context : Seq(Pair)]

KeyMemory == [value : Texts, by : SUBSET {"output", "param"}, fresh : BOOLEAN]

Memory ==
    [domain : Names, state : Names, tts : Texts, written : Seq(Pair),
     keys : [Key -> KeyMemory]]

Types ==
    /\ client \in [bot : Bot \union {NoBot}, session : Session]
    /\ request \in [bot : Bot \union {NoBot}, rewrite : BOOLEAN]
    /\ dmSession \in Session
    /\ pc \in {"idle", "query", "rewrite", "reply"}
    /\ pc = "rewrite" => request.rewrite
    /\ response \in [error : BOOLEAN, session : Session, memory : Memory]
    /\ memory \in Memory

\* What the four properties say, of any session and the memory of its dialog.
HoldsLast(s, m) ==
    /\ s.domain = m.domain
    /\ s.state = m.state
    /\ m # NoMemory => /\ LastTts \in Keys(s.context)
                       /\ LastValue(s.context, LastTts) = m.tts

Persists(s, m) ==
    \A k \in Key \ {LastTts} : m.keys[k].by = {"param"} =>
        /\ k \in Keys(s.context)
        /\ FirstValue(s.context, k) = m.keys[k].value
        /\ LastValue(s.context, k) = m.keys[k].value

ReadsLast(s, m) ==
    \A k \in Key : m.keys[k].fresh =>
        /\ k \in Keys(s.context)
        /\ FirstValue(s.context, k) = m.keys[k].value

Bounded(s, m) ==
    \A k \in Key : Cardinality(EntriesOf(s.context, k))
                    <= Cardinality(EntriesOf(m.written, k)) + 1

Agrees(s, m) == HoldsLast(s, m) /\ Persists(s, m) /\ ReadsLast(s, m) /\ Bounded(s, m)

SessionInv ==
    /\ Types
    /\ Agrees(client.session, memory)
    /\ pc # "idle" => dmSession = SessionOf(request.bot)
    /\ Agrees(response.session, response.memory)
-----------------------------------------------------------------------------
(* The first and the last entry of a key.                                  *)

\* A set of natural numbers has a least element.
LEMMA HasMin ==
    ASSUME NEW S \in SUBSET Nat, S # {}
    PROVE  Min(S) \in S /\ \A y \in S : Min(S) <= y
  <1> DEFINE R == {p \in Nat \X Nat : p[1] < p[2]}
  <1>1. IsWellFoundedOn(R, Nat)
    BY NatLessThanWellFounded DEF OpToRel
  <1> HIDE DEF R
  <1>2. PICK x \in S : \A y \in S : ~ (<<y, x>> \in R)
    BY <1>1, WFMin
  <1>3. \A y \in S : <<y, x>> \in R <=> y < x
    BY DEF R
  <1>4. ASSUME NEW y \in S PROVE x <= y
    <2>1. ~ (y < x)
      BY <1>2, <1>3
    <2>2. x \in Nat /\ y \in Nat
      OBVIOUS
    <2> QED BY <2>1, <2>2
  <1> QED BY <1>4 DEF Min

\* A bounded one has a greatest.
LEMMA HasMax ==
    ASSUME NEW n \in Nat, NEW S \in SUBSET (1..n), S # {}
    PROVE  Max(S) \in S /\ \A y \in S : y <= Max(S)
  <1> DEFINE T == {n - x : x \in S}
  <1>1. T \in SUBSET Nat /\ T # {}
    <2>1. \A x \in S : n - x \in Nat
      OBVIOUS
    <2> QED BY <2>1
  <1>2. Min(T) \in T /\ \A y \in T : Min(T) <= y
    BY <1>1, HasMin
  <1>3. PICK x \in S : Min(T) = n - x
    BY <1>2
  <1>4. \A y \in S : n - x <= n - y
    BY <1>2, <1>3
  <1>5. \A y \in S : x >= y
    BY <1>4
  <1>6. PICK m : m = Max(S)
    OBVIOUS
  <1>7. m \in S /\ \A y \in S : m >= y
    BY <1>5, <1>6 DEF Max
  <1>8. \A y \in S : y <= m
    BY <1>7
  <1> QED BY <1>6, <1>7, <1>8

LEMMA EntriesInDomain ==
    ASSUME NEW S, NEW list \in Seq(S), NEW k
    PROVE  /\ EntriesOf(list, k) \in SUBSET (1..Len(list))
           /\ EntriesOf(list, k) \in SUBSET Nat
           /\ k \in Keys(list) <=> EntriesOf(list, k) # {}
  BY LenProperties DEF EntriesOf, Keys

\* If every entry of a key has the same value, the first and the last have it.
LEMMA OneValue ==
    ASSUME NEW S, NEW list \in Seq(S), NEW k \in Keys(list), NEW x,
           \A i \in EntriesOf(list, k) : list[i].value = x
    PROVE  FirstValue(list, k) = x /\ LastValue(list, k) = x
  <1>1. /\ EntriesOf(list, k) \in SUBSET (1..Len(list)) /\ EntriesOf(list, k) # {}
        /\ EntriesOf(list, k) \in SUBSET Nat /\ Len(list) \in Nat
    BY EntriesInDomain, LenProperties
  <1>2. Min(EntriesOf(list, k)) \in EntriesOf(list, k)
    BY <1>1, HasMin
  <1>3. Max(EntriesOf(list, k)) \in EntriesOf(list, k)
    BY <1>1, HasMax
  <1> QED BY <1>2, <1>3 DEF FirstValue, LastValue

\* Both are among the entries of a session's context, so they are texts.
LEMMA LastIsText ==
    ASSUME NEW list \in Seq(Pair), NEW k \in Keys(list)
    PROVE  LastValue(list, k) \in Texts
  <1>1. EntriesOf(list, k) \in SUBSET (1..Len(list)) /\ EntriesOf(list, k) # {}
    BY EntriesInDomain
  <1>2. Max(EntriesOf(list, k)) \in 1..Len(list)
    BY <1>1, HasMax, LenProperties
  <1>3. list[Max(EntriesOf(list, k))] \in Pair
    BY <1>2, ElementOfSeq
  <1> QED BY <1>3 DEF LastValue, Pair
LEMMA FirstIsText ==
    ASSUME NEW list \in Seq(Pair), NEW k \in Keys(list)
    PROVE  FirstValue(list, k) \in Texts
  <1>1. /\ EntriesOf(list, k) \in SUBSET (1..Len(list)) /\ EntriesOf(list, k) # {}
        /\ EntriesOf(list, k) \in SUBSET Nat
    BY EntriesInDomain
  <1>2. Min(EntriesOf(list, k)) \in 1..Len(list)
    BY <1>1, HasMin
  <1>3. list[Min(EntriesOf(list, k))] \in Pair
    BY <1>2, ElementOfSeq
  <1> QED BY <1>3 DEF FirstValue, Pair
-----------------------------------------------------------------------------
(* The context that an answer puts together.                               *)

\* The elements of a finite set, each of them once.
LEMMA SetToSeqIs ==
    ASSUME NEW S, IsFiniteSet(S)
    PROVE  /\ SetToSeq(S) \in Seq(S)
           /\ \A i, j \in 1..Len(SetToSeq(S)) : SetToSeq(S)[i] = SetToSeq(S)[j] => i = j
           /\ \A x \in S : \E i \in 1..Len(SetToSeq(S)) : SetToSeq(S)[i] = x
  <1> DEFINE n == Cardinality(S)
  <1>1. n \in Nat /\ \E g \in [1..n -> S] : IsInjective(g)
    <2>1. n \in Nat /\ ExistsBijection(1..n, S)
      BY FS_CardinalityType
    <2> QED BY <2>1 DEF ExistsBijection, Bijection, Injection, IsInjective
  <1>2. PICK q : q = SetToSeq(S)
    OBVIOUS
  <1>3. q \in [1..n -> S] /\ IsInjective(q)
    BY <1>1, <1>2 DEF SetToSeq
  <1>4. q \in Surjection(1..n, S)
    <2>1. q \in Injection(1..n, S)
      BY <1>3 DEF Injection, IsInjective
    <2>2. IsFiniteSet(1..n) /\ Cardinality(1..n) = n
      BY <1>1, FS_Interval
    <2> QED BY <2>1, <2>2, FS_Injection
  <1> HIDE DEF n
  <1>5. q \in Seq(S) /\ Len(q) = n
    BY <1>1, <1>3
  <1>6. \A i, j \in 1..n : q[i] = q[j] => i = j
    BY <1>3 DEF IsInjective
  <1>7. \A x \in S : \E i \in 1..n : q[i] = x
    BY <1>4 DEF Surjection
  <1> QED BY <1>2, <1>5, <1>6, <1>7

\* list is the entries of a map from keys to texts, each of them once.
IsPairs(list, map) ==
    /\ list \in Seq(Pair)
    /\ \A i \in 1..Len(list) :
         list[i].key \in DOMAIN map /\ list[i].value = map[list[i].key]
    /\ \A i, j \in 1..Len(list) : list[i].key = list[j].key => i = j
    /\ \A k \in DOMAIN map : \E i \in 1..Len(list) : list[i].key = k

LEMMA PairsAre ==
    ASSUME NEW map, IsFiniteSet(DOMAIN map), DOMAIN map \subseteq Key,
           \A k \in DOMAIN map : map[k] \in Texts
    PROVE  IsPairs(Pairs(map), map)
  <1> DEFINE S == {[key |-> k, value |-> map[k]] : k \in DOMAIN map}
             f == [k \in DOMAIN map |-> [key |-> k, value |-> map[k]]]
  <1>1. IsFiniteSet(S)
    <2>1. f \in Surjection(DOMAIN map, S)
      BY DEF Surjection
    <2> QED BY <2>1, FS_Surjection
  <1>2. PICK q : q = Pairs(map)
    OBVIOUS
  <1>3. /\ q \in Seq(S)
        /\ \A i, j \in 1..Len(q) : q[i] = q[j] => i = j
        /\ \A x \in S : \E i \in 1..Len(q) : q[i] = x
    BY <1>1, <1>2, SetToSeqIs DEF Pairs
  <1>4. q \in Seq(Pair)
    <2>1. S \subseteq Pair
      BY DEF Pair
    <2> QED BY <1>3, <2>1, SeqMonotonic
  <1>5. ASSUME NEW i \in 1..Len(q)
        PROVE  /\ q[i].key \in DOMAIN map /\ q[i].value = map[q[i].key]
               /\ q[i] = [key |-> q[i].key, value |-> map[q[i].key]]
    <2>1. q[i] \in S
      BY <1>3, ElementOfSeq
    <2> QED BY <2>1
  <1>6. \A i, j \in 1..Len(q) : q[i].key = q[j].key => i = j
    BY <1>3, <1>5
  <1>7. \A k \in DOMAIN map : \E i \in 1..Len(q) : q[i].key = k
    <2> SUFFICES ASSUME NEW k \in DOMAIN map
                 PROVE  \E i \in 1..Len(q) : q[i].key = k
      OBVIOUS
    <2>1. PICK i \in 1..Len(q) : q[i] = [key |-> k, value |-> map[k]]
      BY <1>3
    <2> QED BY <2>1
  <1> QED BY <1>2, <1>4, <1>5, <1>6, <1>7 DEF IsPairs

\* A session has finitely many keys.
LEMMA KeysFinite ==
    ASSUME NEW S, NEW list \in Seq(S)
    PROVE  IsFiniteSet(Keys(list))
  <1> DEFINE f == [i \in 1..Len(list) |-> list[i].key]
  <1>1. f \in Surjection(1..Len(list), Keys(list))
    BY LenProperties DEF Surjection, Keys
  <1>2. IsFiniteSet(1..Len(list))
    BY LenProperties, FS_Interval
  <1> QED BY <1>1, <1>2, FS_Surjection

\* The parameters of the context: keys and texts, finitely many.
LEMMA ContextParamsAre ==
    ASSUME NEW p \in Policies, NEW s \in Session, NEW v \in [p.params -> Value]
    PROVE  LET f == ContextParams(p, s, v)
           IN  /\ DOMAIN f = (Keys(s.context) \ {LastTts}) \union p.params
               /\ DOMAIN f \subseteq Key /\ IsFiniteSet(DOMAIN f)
               /\ \A k \in DOMAIN f : f[k] \in Texts
               /\ \A k \in p.params : f[k] = v[k]
               /\ \A k \in (Keys(s.context) \ {LastTts}) \ p.params :
                    f[k] = LastValue(s.context, k)
  <1> DEFINE f == ContextParams(p, s, v)
  <1>1. s.context \in Seq(Pair)
    BY DEF Session
  <1>2. DOMAIN f = (Keys(s.context) \ {LastTts}) \union p.params
    BY DEF ContextParams
  <1>3. Keys(s.context) \subseteq Key
    <2>1. DOMAIN s.context = 1..Len(s.context)
      BY <1>1, LenProperties
    <2>2. \A i \in 1..Len(s.context) : s.context[i] \in Pair
      BY <1>1, ElementOfSeq
    <2> QED BY <2>1, <2>2 DEF Keys, Pair
  <1>4. p.params \subseteq Key /\ IsFiniteSet(p.params)
    BY PoliciesAssumption
  <1>5. IsFiniteSet(DOMAIN f)
    <2>1. IsFiniteSet(Keys(s.context) \ {LastTts})
      BY <1>1, KeysFinite, FS_Subset
    <2> QED BY <1>2, <1>4, <2>1, FS_Union
  <1>6. \A k \in p.params : f[k] = v[k] /\ f[k] \in Value
    BY DEF ContextParams
  <1>7. \A k \in (Keys(s.context) \ {LastTts}) \ p.params : f[k] = LastValue(s.context, k)
    BY DEF ContextParams
  <1>8. \A k \in DOMAIN f : f[k] \in Texts
    BY <1>1, <1>2, <1>6, <1>7, LastIsText DEF Texts
  <1> QED BY <1>2, <1>3, <1>4, <1>5, <1>6, <1>7, <1>8

\* list is the entries of a, then those of b, then e.
IsJoin(list, a, b, e) ==
    /\ a \in Seq(Pair) /\ b \in Seq(Pair) /\ e \in Pair /\ list \in Seq(Pair)
    /\ DOMAIN list = 1..(Len(a) + Len(b) + 1)
    /\ \A i \in 1..Len(a) : list[i] = a[i]
    /\ \A i \in 1..Len(b) : list[Len(a) + i] = b[i]
    /\ list[Len(a) + Len(b) + 1] = e

LEMMA JoinIs ==
    ASSUME NEW a \in Seq(Pair), NEW b \in Seq(Pair), NEW e \in Pair
    PROVE  IsJoin(a \o b \o <<e>>, a, b, e)
  <1> DEFINE list == a \o b \o <<e>>
  <1>1. /\ a \o b \in Seq(Pair) /\ Len(a \o b) = Len(a) + Len(b)
        /\ Len(a) \in Nat /\ Len(b) \in Nat
        /\ \A i \in 1..(Len(a) + Len(b)) :
             (a \o b)[i] = IF i <= Len(a) THEN a[i] ELSE b[i - Len(a)]
    BY ConcatProperties, LenProperties
  <1>2. <<e>> \in Seq(Pair) /\ Len(<<e>>) = 1 /\ <<e>>[1] = e
    OBVIOUS
  <1>3. /\ list \in Seq(Pair) /\ Len(list) = Len(a) + Len(b) + 1
        /\ \A i \in 1..(Len(a) + Len(b) + 1) :
             list[i] = IF i <= Len(a) + Len(b) THEN (a \o b)[i]
                       ELSE <<e>>[i - (Len(a) + Len(b))]
    BY <1>1, <1>2, ConcatProperties
  <1> HIDE DEF list
  <1>4. DOMAIN list = 1..(Len(a) + Len(b) + 1)
    BY <1>3, LenProperties
  <1>5. \A i \in 1..Len(a) : list[i] = a[i]
    BY <1>1, <1>3
  <1>6. ASSUME NEW i \in 1..Len(b) PROVE list[Len(a) + i] = b[i]
    <2>1. /\ Len(a) + i \in 1..(Len(a) + Len(b) + 1) /\ Len(a) + i <= Len(a) + Len(b)
          /\ Len(a) + i \in 1..(Len(a) + Len(b))
          /\ ~ (Len(a) + i <= Len(a)) /\ Len(a) + i - Len(a) = i
      BY <1>1
    <2> QED BY <1>1, <1>3, <2>1
  <1>7. list[Len(a) + Len(b) + 1] = e
    BY <1>1, <1>2, <1>3
  <1>8. IsJoin(list, a, b, e)
    BY <1>3, <1>4, <1>5, <1>6, <1>7 DEF IsJoin
  <1> QED BY <1>8 DEF list

\* An entry of the whole is one of a part.
LEMMA EntryOfPart ==
    ASSUME NEW a, NEW b, NEW e, NEW list, IsJoin(list, a, b, e),
           NEW k, NEW i \in EntriesOf(list, k)
    PROVE  \/ i \in 1..Len(a) /\ a[i].key = k /\ list[i] = a[i]
           \/ \E j \in 1..Len(b) : i = Len(a) + j /\ b[j].key = k /\ list[i] = b[j]
           \/ i = Len(a) + Len(b) + 1 /\ e.key = k /\ list[i] = e
  <1>1. Len(a) \in Nat /\ Len(b) \in Nat
    BY LenProperties DEF IsJoin
  <1>2. i \in 1..(Len(a) + Len(b) + 1) /\ list[i].key = k
    BY DEF IsJoin, EntriesOf
  <1>3. CASE i <= Len(a)
    BY <1>1, <1>2, <1>3 DEF IsJoin
  <1>4. CASE i > Len(a) /\ i <= Len(a) + Len(b)
    <2>1. i - Len(a) \in 1..Len(b) /\ i = Len(a) + (i - Len(a))
      BY <1>1, <1>2, <1>4
    <2>2. PICK j \in 1..Len(b) : i = Len(a) + j
      BY <2>1
    <2>3. list[i] = b[j]
      BY <2>2 DEF IsJoin
    <2>4. \E l \in 1..Len(b) : i = Len(a) + l /\ b[l].key = k /\ list[i] = b[l]
      <3> WITNESS j \in 1..Len(b)
      <3> QED BY <1>2, <2>2, <2>3
    <2> QED BY <2>4
  <1>5. CASE i > Len(a) + Len(b)
    <2>1. i = Len(a) + Len(b) + 1
      BY <1>1, <1>2, <1>5
    <2> QED BY <1>2, <2>1 DEF IsJoin
  <1> QED BY <1>1, <1>2, <1>3, <1>4, <1>5

\* What is read in a context that joins the entries a, those of a map f and a
\* text t.
ReadsJoin(list, a, f, t) ==
    /\ \A k \in Keys(a) : /\ k \in Keys(list)
                          /\ FirstValue(list, k) = FirstValue(a, k)
    /\ \A k \in DOMAIN f \ Keys(a) :
         /\ k \in Keys(list) /\ FirstValue(list, k) = f[k]
         /\ k # LastTts => LastValue(list, k) = f[k]
    /\ LastTts \in Keys(list) /\ LastValue(list, LastTts) = t

LEMMA ContextOf ==
    ASSUME NEW a, NEW f, NEW t, NEW b, IsPairs(b, f),
           NEW e, e.key = LastTts, e.value = t, NEW list, IsJoin(list, a, b, e)
    PROVE  ReadsJoin(list, a, f, t)
  <1>1. /\ \A i \in 1..Len(b) : b[i].key \in DOMAIN f /\ b[i].value = f[b[i].key]
        /\ \A k \in DOMAIN f : \E i \in 1..Len(b) : b[i].key = k
    BY DEF IsPairs
  <1>2. Len(a) \in Nat /\ Len(b) \in Nat /\ DOMAIN a = 1..Len(a)
    BY LenProperties DEF IsJoin
  <1>3. /\ a \in Seq(Pair) /\ list \in Seq(Pair)
        /\ DOMAIN list = 1..(Len(a) + Len(b) + 1)
        /\ \A i \in 1..Len(a) : list[i] = a[i]
        /\ \A i \in 1..Len(b) : list[Len(a) + i] = b[i]
        /\ list[Len(a) + Len(b) + 1] = e
    BY DEF IsJoin
  <1>4. ASSUME NEW k, NEW i \in EntriesOf(list, k)
        PROVE  \/ i \in 1..Len(a) /\ a[i].key = k /\ list[i] = a[i]
               \/ \E j \in 1..Len(b) : i = Len(a) + j /\ b[j].key = k /\ list[i] = b[j]
               \/ i = Len(a) + Len(b) + 1 /\ e.key = k /\ list[i] = e
    BY EntryOfPart
  <1>5. ASSUME NEW k \in Keys(a)
        PROVE  k \in Keys(list) /\ FirstValue(list, k) = FirstValue(a, k)
    <2>1. EntriesOf(a, k) \in SUBSET Nat /\ EntriesOf(a, k) # {}
      BY <1>3, EntriesInDomain
    <2>2. PICK i : i = Min(EntriesOf(a, k))
      OBVIOUS
    <2>3. i \in EntriesOf(a, k) /\ \A j \in EntriesOf(a, k) : i <= j
      BY <2>1, <2>2, HasMin
    <2>4. i \in 1..Len(a) /\ a[i].key = k
      BY <1>2, <2>3 DEF EntriesOf
    <2>5. i \in EntriesOf(list, k)
      BY <1>2, <1>3, <2>4 DEF EntriesOf
    <2>6. /\ EntriesOf(list, k) \in SUBSET Nat /\ EntriesOf(list, k) # {}
          /\ k \in Keys(list)
      BY <1>3, <2>5, EntriesInDomain
    <2>7. PICK m : m = Min(EntriesOf(list, k))
      OBVIOUS
    <2>8. m \in EntriesOf(list, k) /\ m <= i /\ m \in Nat
      BY <2>5, <2>6, <2>7, HasMin
    <2>9. m \in 1..Len(a) /\ a[m].key = k /\ list[m] = a[m]
      <3>1. m <= Len(a)
        BY <1>2, <2>4, <2>8
      <3> QED BY <1>2, <1>4, <2>8, <3>1
    <2>10. m = i
      <3>1. m \in EntriesOf(a, k)
        BY <1>2, <2>9 DEF EntriesOf
      <3> QED BY <2>1, <2>3, <2>8, <3>1
    <2> QED BY <2>2, <2>6, <2>7, <2>9, <2>10 DEF FirstValue
  <1>6. ASSUME NEW k \in DOMAIN f \ Keys(a)
        PROVE  /\ k \in Keys(list) /\ FirstValue(list, k) = f[k]
               /\ k # LastTts => LastValue(list, k) = f[k]
    <2>1. PICK i \in 1..Len(b) : b[i].key = k
      BY <1>1
    <2>2. Len(a) + i \in EntriesOf(list, k)
      <3>1. Len(a) + i \in 1..(Len(a) + Len(b) + 1) /\ list[Len(a) + i].key = k
        BY <1>2, <1>3, <2>1
      <3> QED BY <1>3, <3>1 DEF EntriesOf
    <2>3. /\ EntriesOf(list, k) \in SUBSET Nat /\ EntriesOf(list, k) # {}
          /\ k \in Keys(list)
      BY <1>3, <2>2, EntriesInDomain
    <2>4. ASSUME NEW j \in EntriesOf(list, k), j <= Len(a) + Len(b) \/ k # LastTts
          PROVE  list[j].value = f[k]
      <3>1. ~ (j \in 1..Len(a) /\ a[j].key = k)
        BY <1>2 DEF Keys
      <3>2. j # Len(a) + Len(b) + 1 \/ e.key # k
        BY <1>2, <2>4
      <3>3. \E l \in 1..Len(b) : b[l].key = k /\ list[j] = b[l]
        BY <1>4, <3>1, <3>2
      <3> QED BY <1>1, <3>3
    <2>5. FirstValue(list, k) = f[k]
      <3>1. PICK m : m = Min(EntriesOf(list, k))
        OBVIOUS
      <3>2. m \in EntriesOf(list, k) /\ m <= Len(a) + i /\ m \in Nat
        BY <2>2, <2>3, <3>1, HasMin
      <3>3. m <= Len(a) + Len(b)
        BY <1>2, <3>2
      <3> QED BY <2>4, <3>1, <3>2, <3>3 DEF FirstValue
    <2>6. ASSUME k # LastTts PROVE LastValue(list, k) = f[k]
      <3>1. PICK x : x = f[k]
        OBVIOUS
      <3>2. \A j \in EntriesOf(list, k) : list[j].value = x
        BY <2>4, <2>6, <3>1
      <3>3. LastValue(list, k) = x
        <4>1. list \in Seq(Pair) /\ k \in Keys(list)
          BY <1>3, <2>3
        <4> QED BY ONLY <3>2, <4>1, OneValue
      <3> QED BY <3>1, <3>3
    <2> QED BY <2>3, <2>5, <2>6
  <1>7. LastTts \in Keys(list) /\ LastValue(list, LastTts) = t
    <2>1. PICK n : n = Len(a) + Len(b) + 1
      OBVIOUS
    <2>2. n \in Nat /\ n \in 1..n /\ DOMAIN list = 1..n /\ list[n] = e
      BY <1>2, <1>3, <2>1
    <2>3. n \in EntriesOf(list, LastTts) /\ EntriesOf(list, LastTts) \in SUBSET (1..n)
      BY <2>2 DEF EntriesOf
    <2>4. PICK m : m = Max(EntriesOf(list, LastTts))
      OBVIOUS
    <2>5. m \in 1..n /\ n <= m
      BY <2>2, <2>3, <2>4, HasMax
    <2>6. m = n
      BY <2>2, <2>5
    <2> QED BY <2>2, <2>4, <2>6 DEF LastValue, Keys
  <1> QED BY <1>5, <1>6, <1>7 DEF ReadsJoin

\* Entries of a key are finitely many.
LEMMA EntriesFinite ==
    ASSUME NEW list \in Seq(Pair), NEW k
    PROVE  IsFiniteSet(EntriesOf(list, k)) /\ Cardinality(EntriesOf(list, k)) \in Nat
  <1>1. EntriesOf(list, k) \in SUBSET (1..Len(list)) /\ IsFiniteSet(1..Len(list))
    BY EntriesInDomain, LenProperties, FS_Interval
  <1> QED BY <1>1, FS_Subset, FS_CardinalityType

\* One element more.
LEMMA OneMore ==
    ASSUME NEW S, NEW T, IsFiniteSet(T), NEW x, S \subseteq T \union {x}
    PROVE  /\ IsFiniteSet(S) /\ Cardinality(S) \in Nat /\ Cardinality(T) \in Nat
           /\ Cardinality(S) <= Cardinality(T) + 1
  <1>1. /\ IsFiniteSet(T \union {x})
        /\ Cardinality(T \union {x}) = IF x \in T THEN Cardinality(T) ELSE Cardinality(T) + 1
    BY FS_AddElement
  <1>2. /\ IsFiniteSet(S) /\ Cardinality(S) <= Cardinality(T \union {x})
        /\ Cardinality(S) \in Nat /\ Cardinality(T) \in Nat
    BY <1>1, FS_Subset, FS_CardinalityType
  <1> QED BY <1>1, <1>2

\* written joins a and the entries of a map g that f extends, but not by the
\* text's key.
LEMMA ContextBound ==
    ASSUME NEW a \in Seq(Pair), NEW f, NEW g, NEW b, IsPairs(b, f), NEW c, IsPairs(c, g),
           DOMAIN f \subseteq Key, LastTts \in DOMAIN f => LastTts \in DOMAIN g,
           NEW e, e.key = LastTts, NEW list, IsJoin(list, a, b, e),
           NEW written, written = a \o c, NEW k
    PROVE  Cardinality(EntriesOf(list, k)) <= Cardinality(EntriesOf(written, k)) + 1
  <1>1. Len(a) \in Nat /\ Len(b) \in Nat /\ Len(c) \in Nat /\ DOMAIN a = 1..Len(a)
    BY LenProperties DEF IsPairs
  <1>2. /\ written \in Seq(Pair) /\ Len(written) = Len(a) + Len(c)
        /\ \A i \in 1..(Len(a) + Len(c)) :
             written[i] = IF i <= Len(a) THEN a[i] ELSE c[i - Len(a)]
        /\ DOMAIN written = 1..(Len(a) + Len(c))
    <2>1. c \in Seq(Pair)
      BY DEF IsPairs
    <2>2. /\ a \o c \in Seq(Pair) /\ Len(a \o c) = Len(a) + Len(c)
          /\ \A i \in 1..(Len(a) + Len(c)) :
               (a \o c)[i] = IF i <= Len(a) THEN a[i] ELSE c[i - Len(a)]
      BY <2>1, ConcatProperties
    <2>3. DOMAIN written = 1..Len(written)
      BY <2>2, LenProperties
    <2> QED BY <2>2, <2>3
  <1>3. PICK A : A = EntriesOf(a, k)
    OBVIOUS
  <1>4. PICK W : W = EntriesOf(written, k)
    OBVIOUS
  <1>5. PICK L : L = EntriesOf(list, k)
    OBVIOUS
  <1>6. A \subseteq W /\ A \subseteq 1..Len(a) /\ IsFiniteSet(A) /\ IsFiniteSet(W)
    <2>1. A \subseteq 1..Len(a)
      BY <1>3, EntriesInDomain
    <2>2. A \subseteq W
      BY <1>1, <1>2, <1>3, <1>4 DEF EntriesOf
    <2> QED BY <1>2, <1>3, <1>4, <2>1, <2>2, EntriesFinite
  <1>7. PICK y : \A i \in 1..Len(b) : b[i].key = k => i = y
    <2>1. CASE \E i \in 1..Len(b) : b[i].key = k
      <3>1. PICK x \in 1..Len(b) : b[x].key = k
        BY <2>1
      <3>2. \A i \in 1..Len(b) : b[i].key = k => i = x
        BY <3>1 DEF IsPairs
      <3> QED BY <3>2
    <2> QED BY <2>1
  <1>8. PICK last : last = Len(a) + Len(b) + 1
    OBVIOUS
  <1>9. PICK own : own = Len(a) + y
    OBVIOUS
  <1>10. /\ L \subseteq (A \union {own}) \union {last}
        /\ (k # LastTts => L \subseteq A \union {own})
        /\ (k \notin DOMAIN f => L \subseteq A \union {last})
    <2> SUFFICES ASSUME NEW i \in L
                 PROVE  /\ i \in A \/ i = own \/ i = last
                        /\ k # LastTts => i \in A \/ i = own
                        /\ k \notin DOMAIN f => i \in A \/ i = last
      OBVIOUS
    <2>1. \/ i \in 1..Len(a) /\ a[i].key = k /\ list[i] = a[i]
          \/ \E j \in 1..Len(b) : i = Len(a) + j /\ b[j].key = k /\ list[i] = b[j]
          \/ i = Len(a) + Len(b) + 1 /\ e.key = k /\ list[i] = e
      BY <1>5, EntryOfPart
    <2>2. CASE i \in 1..Len(a) /\ a[i].key = k
      BY <1>1, <1>3, <2>2 DEF EntriesOf
    <2>3. CASE \E j \in 1..Len(b) : i = Len(a) + j /\ b[j].key = k
      <3>1. PICK j \in 1..Len(b) : i = Len(a) + j /\ b[j].key = k
        BY <2>3
      <3>2. j = y /\ k \in DOMAIN f
        BY <1>7, <3>1 DEF IsPairs
      <3> QED BY <1>9, <3>1, <3>2
    <2>4. CASE i = Len(a) + Len(b) + 1 /\ e.key = k
      BY <1>8, <2>4
    <2> QED BY <2>1, <2>2, <2>3, <2>4
  <1>11. Cardinality(A) \in Nat /\ Cardinality(W) \in Nat /\ Cardinality(A) <= Cardinality(W)
    BY <1>6, FS_Subset, FS_CardinalityType
  <1>12. CASE k # LastTts
    <2>1. Cardinality(L) \in Nat /\ Cardinality(L) <= Cardinality(A) + 1
      <3>1. IsFiniteSet(A) /\ L \subseteq A \union {own}
        BY <1>6, <1>10, <1>12
      <3> QED BY ONLY <3>1, OneMore
    <2> QED BY <1>4, <1>5, <1>11, <2>1
  <1>13. CASE k \notin DOMAIN f
    <2>1. Cardinality(L) \in Nat /\ Cardinality(L) <= Cardinality(A) + 1
      <3>1. IsFiniteSet(A) /\ L \subseteq A \union {last}
        BY <1>6, <1>10, <1>13
      <3> QED BY ONLY <3>1, OneMore
    <2> QED BY <1>4, <1>5, <1>11, <2>1
  <1>14. CASE k = LastTts /\ k \in DOMAIN f
    <2>1. PICK z \in 1..Len(c) : c[z].key = k
      BY <1>14 DEF IsPairs
    <2>2. Len(a) + z \in W
      <3>1. /\ Len(a) + z \in 1..(Len(a) + Len(c)) /\ ~ (Len(a) + z <= Len(a))
            /\ (Len(a) + z) - Len(a) = z
        BY <1>1, <2>1
      <3>2. written[Len(a) + z] = c[z]
        BY <1>2, <3>1
      <3> QED BY <1>2, <1>4, <2>1, <3>1, <3>2 DEF EntriesOf
    <2>3. Len(a) + z \notin A
      BY <1>1, <1>6, <2>1
    <2>4. PICK T : T = A \union {Len(a) + z}
      OBVIOUS
    <2>5. IsFiniteSet(T) /\ Cardinality(T) = Cardinality(A) + 1
      BY <1>6, <2>3, <2>4, FS_AddElement
    <2>6. Cardinality(T) <= Cardinality(W)
      <3>1. T \subseteq W
        BY <1>6, <2>2, <2>4
      <3> QED BY <1>6, <3>1, FS_Subset
    <2>7. PICK U : U = A \union {own}
      OBVIOUS
    <2>8. /\ IsFiniteSet(U) /\ Cardinality(U) \in Nat
          /\ Cardinality(U) <= Cardinality(A) + 1
      <3>1. IsFiniteSet(A) /\ U \subseteq A \union {own}
        BY <1>6, <2>7
      <3> QED BY ONLY <3>1, OneMore
    <2>9. Cardinality(L) \in Nat /\ Cardinality(L) <= Cardinality(U) + 1
      <3>1. IsFiniteSet(U) /\ L \subseteq U \union {last}
        BY <1>10, <2>7, <2>8
      <3> QED BY ONLY <3>1, OneMore
    <2> QED BY <1>4, <1>5, <1>11, <2>5, <2>6, <2>8, <2>9
  <1> QED BY <1>12, <1>13, <1>14
-----------------------------------------------------------------------------
(* The step of an answer.                                                  *)

\* The entries that a policy writes are pairs.
LEMMA WrittenIs ==
    ASSUME NEW p \in Policies, NEW entries \in Written(p)
    PROVE  entries \in Seq(Pair)
  <1>1. p.context \in Seq(SUBSET Key)
    BY PoliciesAssumption
  <1>2. DOMAIN p.context = 1..Len(p.context) /\ Len(p.context) \in Nat
    BY <1>1, LenProperties
  <1>3. DOMAIN entries = 1..Len(p.context) /\ entries \in [1..Len(p.context) -> Entry(Key)]
    BY <1>2 DEF Written
  <1>4. Entry(Key) \subseteq Pair
    BY DEF Entry, Pair, Texts
  <1>5. entries \in [1..Len(p.context) -> Pair]
    BY <1>3, <1>4
  <1> QED BY <1>2, <1>5

\* The values of a policy's parameters as a map.
LEMMA ValuesArePairs ==
    ASSUME NEW p \in Policies, NEW v \in [p.params -> Value]
    PROVE  IsPairs(Pairs(v), v)
  <1>1. p.params \subseteq Key /\ IsFiniteSet(p.params) /\ DOMAIN v = p.params
    BY PoliciesAssumption
  <1>2. \A k \in DOMAIN v : v[k] \in Texts
    BY DEF Texts
  <1> QED BY <1>1, <1>2, PairsAre

\* What is said of an answer, of the parts of its context.
AnswerParts(p, s, v, entries, t, list) ==
    LET f == ContextParams(p, s, v)
    IN  /\ IsPairs(Pairs(f), f)
        /\ IsJoin(list, entries, Pairs(f), [key |-> LastTts, value |-> t])

\* What is remembered of a key.
NextKey(p, before, values, entries, k) ==
    CASE k \in Keys(entries) ->
            [value |-> FirstValue(entries, k),
             by |-> before.keys[k].by \union {"output"}, fresh |-> TRUE]
      [] k \in p.params \ Keys(entries) ->
            [value |-> values[k], by |-> before.keys[k].by \union {"param"}, fresh |-> TRUE]
      [] OTHER -> [before.keys[k] EXCEPT !.fresh = FALSE]

LEMMA AnswerTypes ==
    ASSUME NEW p \in Policies, NEW s \in Session, NEW m \in Memory, NEW state \in p.states,
           NEW v \in [p.params -> Value], NEW entries \in Written(p), NEW t \in Texts
    PROVE  /\ NextSession(p, s, state, v, entries, t) \in Session
           /\ NextMemory(p, m, state, v, entries, t) \in Memory
           /\ AnswerParts(p, s, v, entries, t,
                          NextSession(p, s, state, v, entries, t).context)
  <1> DEFINE f == ContextParams(p, s, v)
             e == [key |-> LastTts, value |-> t]
             list == entries \o Pairs(f) \o <<e>>
  <1>1. entries \in Seq(Pair)
    BY WrittenIs
  <1>2. IsPairs(Pairs(f), f)
    <2>1. /\ DOMAIN f \subseteq Key /\ IsFiniteSet(DOMAIN f)
          /\ \A k \in DOMAIN f : f[k] \in Texts
      BY ContextParamsAre
    <2> HIDE DEF f
    <2> QED BY <2>1, PairsAre
  <1>3. e \in Pair
    BY PoliciesAssumption DEF Pair
  <1>4. IsJoin(list, entries, Pairs(f), e)
    <2>1. Pairs(f) \in Seq(Pair)
      BY <1>2 DEF IsPairs
    <2> HIDE DEF f, e
    <2> QED BY <1>1, <1>3, <2>1, JoinIs
  <1>5. NextSession(p, s, state, v, entries, t) =
            [domain |-> p.domain, state |-> state, context |-> list]
    BY DEF NextSession
  <1>6. p.domain \in Names /\ state \in Names
    BY DEF Names
  <1>7. list \in Seq(Pair)
    BY <1>4 DEF IsJoin
  <1> HIDE DEF list
  <1>8. /\ NextSession(p, s, state, v, entries, t) \in Session
        /\ NextSession(p, s, state, v, entries, t).context = list
    BY <1>5, <1>6, <1>7 DEF Session
  <1>9. NextMemory(p, m, state, v, entries, t) \in Memory
    <2>1. entries \o Pairs(v) \in Seq(Pair)
      <3>1. Pairs(v) \in Seq(Pair)
        BY ValuesArePairs DEF IsPairs
      <3> QED BY <1>1, <3>1, ConcatProperties
    <2>2. PICK keys : keys = NextMemory(p, m, state, v, entries, t).keys
      OBVIOUS
    <2>3. keys = [k \in Key |-> NextKey(p, m, v, entries, k)]
      BY <2>2 DEF NextMemory, NextKey
    <2>4. ASSUME NEW k \in Key PROVE NextKey(p, m, v, entries, k) \in KeyMemory
      <3>1. m.keys[k] \in KeyMemory
        BY DEF Memory
      <3>2. CASE k \in Keys(entries)
        <4>1. FirstValue(entries, k) \in Texts
          BY <1>1, <3>2, FirstIsText
        <4>2. NextKey(p, m, v, entries, k) =
                [value |-> FirstValue(entries, k),
                 by |-> m.keys[k].by \union {"output"}, fresh |-> TRUE]
          BY <3>2 DEF NextKey
        <4> QED BY <3>1, <4>1, <4>2 DEF KeyMemory
      <3>3. CASE k \in p.params \ Keys(entries)
        <4>1. v[k] \in Texts
          BY <3>3 DEF Texts
        <4>2. NextKey(p, m, v, entries, k) =
                [value |-> v[k], by |-> m.keys[k].by \union {"param"}, fresh |-> TRUE]
          BY <3>3 DEF NextKey
        <4> QED BY <3>1, <4>1, <4>2 DEF KeyMemory
      <3>4. CASE k \notin p.params \union Keys(entries)
        <4>1. NextKey(p, m, v, entries, k) = [m.keys[k] EXCEPT !.fresh = FALSE]
          BY <3>4 DEF NextKey
        <4> QED BY <3>1, <4>1 DEF KeyMemory
      <3> QED BY <3>2, <3>3, <3>4
    <2>5. keys \in [Key -> KeyMemory]
      BY <2>3, <2>4
    <2>6. NextMemory(p, m, state, v, entries, t) =
            [domain |-> p.domain, state |-> state, tts |-> t,
             written |-> entries \o Pairs(v), keys |-> keys]
      BY <2>2 DEF NextMemory
    <2> QED BY <1>6, <2>1, <2>5, <2>6 DEF Memory
  <1> QED BY <1>2, <1>4, <1>8, <1>9 DEF AnswerParts

\* An answer to a session that agrees with its memory makes both agree again.
LEMMA AnswerAgrees ==
    ASSUME NEW p \in Policies, NEW s \in Session, NEW m \in Memory, NEW state \in p.states,
           NEW v \in [p.params -> Value], NEW entries \in Written(p), NEW t \in Texts,
           Agrees(s, m)
    PROVE  Agrees(NextSession(p, s, state, v, entries, t),
                  NextMemory(p, m, state, v, entries, t))
  <1>1. PICK ns : ns = NextSession(p, s, state, v, entries, t)
    OBVIOUS
  <1>2. PICK nm : nm = NextMemory(p, m, state, v, entries, t)
    OBVIOUS
  <1>3. PICK f : f = ContextParams(p, s, v)
    OBVIOUS
  <1>4. /\ DOMAIN f = (Keys(s.context) \ {LastTts}) \union p.params
        /\ DOMAIN f \subseteq Key
        /\ \A k \in p.params : f[k] = v[k]
        /\ \A k \in (Keys(s.context) \ {LastTts}) \ p.params :
             f[k] = LastValue(s.context, k)
    BY <1>3, ContextParamsAre
  <1>5. PICK list : list = ns.context
    OBVIOUS
  <1>6. PICK b : b = Pairs(f)
    OBVIOUS
  <1>7. PICK e : e = [key |-> LastTts, value |-> t]
    OBVIOUS
  <1>8. e.key = LastTts /\ e.value = t /\ entries \in Seq(Pair)
    BY <1>7, WrittenIs
  <1>9. IsPairs(b, f) /\ IsJoin(list, entries, b, e)
    BY <1>1, <1>3, <1>5, <1>6, <1>7, AnswerTypes DEF AnswerParts
  <1>10. /\ \A k \in Keys(entries) : /\ k \in Keys(list)
                                     /\ FirstValue(list, k) = FirstValue(entries, k)
         /\ \A k \in DOMAIN f \ Keys(entries) :
              /\ k \in Keys(list) /\ FirstValue(list, k) = f[k]
              /\ k # LastTts => LastValue(list, k) = f[k]
         /\ LastTts \in Keys(list) /\ LastValue(list, LastTts) = t
    <2>1. ReadsJoin(list, entries, f, t)
      BY ONLY <1>8, <1>9, ContextOf
    <2> QED BY <2>1 DEF ReadsJoin
  <1>11. /\ ns.domain = nm.domain /\ ns.state = nm.state /\ nm.tts = t
         /\ nm.written = entries \o Pairs(v)
         /\ \A k \in Key : nm.keys[k] = NextKey(p, m, v, entries, k)
    BY <1>1, <1>2 DEF NextSession, NextMemory, NextKey
  <1>12. ASSUME NEW k \in Key
         PROVE  /\ k \in Keys(entries) =>
                     /\ nm.keys[k].value = FirstValue(entries, k)
                     /\ nm.keys[k].by = m.keys[k].by \union {"output"}
                /\ k \in p.params \ Keys(entries) => nm.keys[k].value = v[k]
                /\ k \notin p.params \union Keys(entries) =>
                     /\ nm.keys[k].value = m.keys[k].value
                     /\ nm.keys[k].by = m.keys[k].by
                     /\ nm.keys[k].fresh = FALSE
    <2>1. m.keys[k] \in KeyMemory
      BY DEF Memory
    <2>2. nm.keys[k] = NextKey(p, m, v, entries, k)
      BY <1>11
    <2>3. CASE k \in Keys(entries)
      BY <2>2, <2>3 DEF NextKey
    <2>4. CASE k \in p.params \ Keys(entries)
      BY <2>2, <2>4 DEF NextKey
    <2>5. CASE k \notin p.params \union Keys(entries)
      BY <2>1, <2>2, <2>5 DEF KeyMemory, NextKey
    <2> QED BY <2>3, <2>4, <2>5
  <1>13. HoldsLast(ns, nm)
    BY <1>5, <1>10, <1>11 DEF HoldsLast
  <1>14. Persists(ns, nm)
    <2> SUFFICES ASSUME NEW k \in Key \ {LastTts}, nm.keys[k].by = {"param"}
                 PROVE  /\ k \in Keys(list)
                        /\ FirstValue(list, k) = nm.keys[k].value
                        /\ LastValue(list, k) = nm.keys[k].value
      BY <1>5 DEF Persists
    <2>1. k \notin Keys(entries)
      <3>1. "output" \notin {"param"}
        OBVIOUS
      <3> QED BY <1>12, <3>1
    <2>2. CASE k \in p.params
      <3>1. k \in DOMAIN f \ Keys(entries) /\ f[k] = v[k]
        BY <1>4, <2>1, <2>2
      <3>2. nm.keys[k].value = v[k]
        BY <1>12, <2>1, <2>2
      <3> QED BY <1>10, <3>1, <3>2
    <2>3. CASE k \notin p.params
      <3>1. m.keys[k].by = {"param"} /\ nm.keys[k].value = m.keys[k].value
        BY <1>12, <2>1, <2>3
      <3>2. k \in Keys(s.context) /\ LastValue(s.context, k) = m.keys[k].value
        BY <3>1 DEF Agrees, Persists
      <3>3. k \in DOMAIN f \ Keys(entries) /\ f[k] = LastValue(s.context, k)
        BY <1>4, <2>1, <2>3, <3>2
      <3> QED BY <1>10, <3>1, <3>2, <3>3
    <2> QED BY <2>2, <2>3
  <1>15. ReadsLast(ns, nm)
    <2> SUFFICES ASSUME NEW k \in Key, nm.keys[k].fresh
                 PROVE  k \in Keys(list) /\ FirstValue(list, k) = nm.keys[k].value
      BY <1>5 DEF ReadsLast
    <2>1. k \in p.params \union Keys(entries)
      BY <1>12
    <2> QED BY <1>4, <1>10, <1>12, <2>1
  <1>16. Bounded(ns, nm)
    <2> SUFFICES ASSUME NEW k \in Key
                 PROVE  Cardinality(EntriesOf(list, k))
                            <= Cardinality(EntriesOf(nm.written, k)) + 1
      BY <1>5 DEF Bounded
    <2>1. PICK c : c = Pairs(v)
      OBVIOUS
    <2>2. IsPairs(c, v) /\ DOMAIN v = p.params
      BY <2>1, ValuesArePairs
    <2>3. LastTts \in DOMAIN f => LastTts \in DOMAIN v
      BY <1>4, <2>2
    <2>4. PICK written : written = nm.written
      OBVIOUS
    <2>5. written = entries \o c
      BY <1>11, <2>1, <2>4
    <2>6. Cardinality(EntriesOf(list, k)) <= Cardinality(EntriesOf(written, k)) + 1
      BY <1>4, <1>8, <1>9, <2>2, <2>3, <2>5, ContextBound
    <2> QED BY <2>4, <2>6
  <1> QED BY <1>1, <1>2, <1>13, <1>14, <1>15, <1>16 DEF Agrees
-----------------------------------------------------------------------------
(* The invariant.                                                          *)

LEMMA NothingYet ==
    NoSession \in Session /\ NoMemory \in Memory /\ Agrees(NoSession, NoMemory)
  <1>1. NoSession \in Session
    BY DEF NoSession, Session, Names
  <1>2. NoMemory \in Memory
    BY DEF NoMemory, Memory, Names, KeyMemory, Texts
  <1>3. \A k \in Key : EntriesOf(NoSession.context, k) = {}
                        /\ EntriesOf(NoMemory.written, k) = {}
    BY DEF EntriesOf, NoSession, NoMemory
  <1>4. Bounded(NoSession, NoMemory)
    BY <1>3, FS_EmptySet DEF Bounded
  <1>5. \A k \in Key : NoMemory.keys[k].by = {} /\ NoMemory.keys[k].fresh = FALSE
    BY DEF NoMemory
  <1>6. HoldsLast(NoSession, NoMemory)
    BY DEF HoldsLast, NoSession, NoMemory
  <1>7. Persists(NoSession, NoMemory) /\ ReadsLast(NoSession, NoMemory)
    BY <1>5 DEF Persists, ReadsLast
  <1> QED BY <1>1, <1>2, <1>4, <1>6, <1>7 DEF Agrees

LEMMA SessionInit == Init => SessionInv
  BY NothingYet DEF Init, SessionInv, Types, ErrorResponse

\* What the server takes from a request agrees with what it has answered.
LEMMA TakenAgrees ==
    ASSUME SessionInv, NEW bot
    PROVE  /\ SessionOf(bot) \in Session /\ MemoryOf(bot) \in Memory
           /\ Agrees(SessionOf(bot), MemoryOf(bot))
  BY NothingYet DEF SessionInv, Types, SessionOf, MemoryOf

LEMMA SendKeeps ==
    ASSUME SessionInv, NEW bot \in Bot, NEW rewrite \in BOOLEAN, Send(bot, rewrite)
    PROVE  SessionInv'
  <1>1. Types'
    BY TakenAgrees, NothingYet DEF SessionInv, Types, Send, ErrorResponse
  <1>2. Agrees(response.session, response.memory)'
    BY NothingYet DEF Send, ErrorResponse
  <1>3. dmSession' = SessionOf(request.bot)'
    BY DEF Send, SessionOf, SessionInv, Types
  <1>4. Agrees(client.session, memory)'
    BY DEF Send, SessionInv
  <1> QED BY <1>1, <1>2, <1>3, <1>4 DEF SessionInv

\* What is sent in the end is the response it was or one that agrees.
LEMMA RespondKeeps ==
    ASSUME SessionInv, UNCHANGED <<client, request, dmSession, memory>>,
           pc # "idle", pc' \in {"rewrite", "reply"}, pc' = "rewrite" => request.rewrite,
           \/ response' = response
           \/ /\ response' \in [error : BOOLEAN, session : Session, memory : Memory]
              /\ Agrees(response'.session, response'.memory)
    PROVE  SessionInv'
  <1>1. Types'
    BY DEF SessionInv, Types
  <1>2. Agrees(response.session, response.memory)'
    BY DEF SessionInv
  <1>3. dmSession' = SessionOf(request.bot)' /\ Agrees(client.session, memory)'
    BY DEF SessionInv, SessionOf
  <1> QED BY <1>1, <1>2, <1>3 DEF SessionInv

LEMMA UnansweredKeeps ==
    ASSUME SessionInv, TokenFails \/ Fails \/ Clarify
    PROVE  SessionInv'
  <1>1. /\ ErrorResponse \in [error : BOOLEAN, session : Session, memory : Memory]
        /\ Agrees(ErrorResponse.session, ErrorResponse.memory)
    BY NothingYet DEF ErrorResponse
  <1>2. CASE TokenFails
    BY <1>1, <1>2, RespondKeeps DEF TokenFails
  <1>3. CASE Fails
    BY <1>1, <1>3, RespondKeeps DEF Fails, Unanswered, AfterUnanswered
  <1>4. CASE Clarify
    <2>1. PICK r : r = [error |-> FALSE, session |-> dmSession,
                        memory |-> MemoryOf(request.bot)]
      OBVIOUS
    <2>2. pc # "idle" /\ Unanswered(r)
      BY <1>4, <2>1 DEF Clarify, Unanswered
    <2>3. /\ r \in [error : BOOLEAN, session : Session, memory : Memory]
          /\ Agrees(r.session, r.memory)
      BY <2>1, <2>2, TakenAgrees DEF SessionInv
    <2> QED BY <2>2, <2>3, RespondKeeps DEF Unanswered, AfterUnanswered
  <1> QED BY <1>2, <1>3, <1>4

LEMMA AnswerKeeps ==
    ASSUME SessionInv, NEW p \in Policies, NEW state, NEW v, NEW entries,
           NEW t \in Texts, Answer(p, state, v, entries, t)
    PROVE  SessionInv'
  <1>1. PICK s : s = NextSession(p, dmSession, state, v, entries, t)
    OBVIOUS
  <1>2. PICK m : m = NextMemory(p, MemoryOf(request.bot), state, v, entries, t)
    OBVIOUS
  <1>3. s \in Session /\ m \in Memory /\ Agrees(s, m)
    <2>1. /\ dmSession \in Session /\ MemoryOf(request.bot) \in Memory
          /\ Agrees(dmSession, MemoryOf(request.bot))
      BY TakenAgrees DEF Answer, SessionInv
    <2>2. state \in p.states /\ v \in [p.params -> Value] /\ entries \in Written(p)
      BY DEF Answer
    <2> QED BY <1>1, <1>2, <2>1, <2>2, AnswerTypes, AnswerAgrees
  <1>4. response' = [error |-> FALSE, session |-> s, memory |-> m]
    BY <1>1, <1>2 DEF Answer
  <1>5. /\ response' \in [error : BOOLEAN, session : Session, memory : Memory]
        /\ Agrees(response'.session, response'.memory)
    BY <1>3, <1>4
  <1> QED BY <1>5, RespondKeeps DEF Answer

LEMMA DeliverKeeps ==
    ASSUME SessionInv, Deliver
    PROVE  SessionInv'
  <1>1. Types'
    BY DEF SessionInv, Types, Deliver
  <1>2. Agrees(client.session, memory)'
    BY DEF SessionInv, Deliver
  <1>3. pc' = "idle" /\ Agrees(response.session, response.memory)'
    BY DEF SessionInv, Deliver
  <1> QED BY <1>1, <1>2, <1>3 DEF SessionInv

\* A session and the memory of its dialog agree, with the client, in the server
\* and in a response.
THEOREM SessionInvariance == Spec => []SessionInv
  <1>1. ASSUME SessionInv, [Next]_vars PROVE SessionInv'
    <2>1. CASE UNCHANGED vars
      BY <1>1, <2>1 DEF vars, SessionInv, Types, SessionOf
    <2> QED
      BY <1>1, <2>1, SendKeeps, UnansweredKeeps, AnswerKeeps, DeliverKeeps
      DEF Next, Texts
  <1> QED BY SessionInit, <1>1, PTL DEF Spec

LEMMA SessionKeys ==
    ASSUME NEW s \in Session
    PROVE  IsSession(s)
  <1>1. s.context \in Seq(Pair)
    BY DEF Session
  <1>2. DOMAIN s.context = 1..Len(s.context)
    BY <1>1, LenProperties
  <1>3. \A i \in 1..Len(s.context) : s.context[i] \in Pair
    BY <1>1, ElementOfSeq
  <1> QED BY <1>2, <1>3 DEF IsSession, Keys, Pair, Session

\* Type correctness.
THEOREM TypeCorrect == Spec => []TypeOK
  <1>1. SessionInv => TypeOK
    BY SessionKeys DEF SessionInv, Types, TypeOK
  <1> QED BY <1>1, SessionInvariance, PTL

\* Turns that go unanswered do not disturb the dialog: the client holds the
\* domain, the state and the text of the last answer of its bot.
THEOREM LastAnswerHeld == Spec => []HoldsLastAnswer
  <1>1. SessionInv => HoldsLastAnswer
    BY DEF SessionInv, Agrees, HoldsLast, HoldsLastAnswer
  <1> QED BY <1>1, SessionInvariance, PTL

\* A key that only parameters have written keeps its value through any number
\* of turns.
THEOREM ParamWritesStay == Spec => []ParamWritesPersist
  <1>1. SessionInv => ParamWritesPersist
    BY DEF SessionInv, Agrees, Persists, ParamWritesPersist
  <1> QED BY <1>1, SessionInvariance, PTL

\* A session_context parameter reads what the last answer wrote to the key.
THEOREM LastAnswerRead == Spec => []SessionContextReadsLastAnswer
  <1>1. SessionInv => SessionContextReadsLastAnswer
    BY DEF SessionInv, Agrees, ReadsLast, SessionContextReadsLastAnswer
  <1> QED BY <1>1, SessionInvariance, PTL

\* The context does not grow with the dialog, whatever its length: beside what
\* the last answer has written there is at most one entry of a key.
THEOREM ContextBounded == Spec => []ContextIsBounded
  <1>1. SessionInv => ContextIsBounded
    BY DEF SessionInv, Agrees, Bounded, ContextIsBounded
  <1> QED BY <1>1, SessionInvariance, PTL
=============================================================================
