----------------------- MODULE LanguageCompilerProofs -----------------------
(***************************************************************************)
(* Proofs about LanguageCompiler, for any drawings that keep the rules of  *)
(* DrawnCharts, any order in which the compiler meets the arrows and       *)
(* anything that users say: the type invariant, and that the dialog by the *)
(* compiled policies implements the walk over the chart.                   *)
(***************************************************************************)
EXTENDS LanguageCompiler, FiniteSetTheorems, SequenceTheorems,
        WellFoundedInduction, NaturalsInduction, TLAPS

-----------------------------------------------------------------------------
(* Lists.                                                                  *)

\* What holds at the start and passes on to the next position holds at the end.
LEMMA UpTo ==
    ASSUME NEW n \in Nat, NEW S \in SUBSET (0..n), 0 \in S,
           \A i \in 1..n : i - 1 \in S => i \in S
    PROVE  n \in S
  <1> SUFFICES ASSUME n \notin S PROVE FALSE
    OBVIOUS
  <1> DEFINE R == {p \in Nat \X Nat : p[1] < p[2]} T == (0..n) \ S
  <1>1. IsWellFoundedOn(R, Nat)
    BY NatLessThanWellFounded DEF OpToRel
  <1>2. T \subseteq Nat /\ T # {}
    OBVIOUS
  <1> HIDE DEF R
  <1>3. PICK m \in T : \A y \in T : ~ (<<y, m>> \in R)
    BY <1>1, <1>2, WFMin
  <1>4. m \in 1..n /\ m - 1 \in 0..n /\ m - 1 < m
    OBVIOUS
  <1>5. <<m - 1, m>> \in R
    BY <1>4 DEF R
  <1>6. m - 1 \in S
    BY <1>3, <1>4, <1>5
  <1> QED BY <1>4, <1>6

\* Positions that are so have a first and a last one.
LEMMA FirstAndLast ==
    ASSUME NEW n \in Nat, NEW S \in SUBSET (1..n), S # {}
    PROVE  /\ \E k \in S : \A j \in S : k <= j
           /\ Max(S) \in S
  <1>1. ASSUME NEW P \in SUBSET (1..n), P # {}
        PROVE  \E k \in P : \A j \in P : k <= j
    <2> DEFINE U == {i \in 0..n : \A j \in 1..i : j \notin P}
               G == {i \in 0..n : i \in U \/ \E k \in P : \A j \in P : k <= j}
    <2>1. 0 \in G
      OBVIOUS
    <2>2. ASSUME NEW i \in 1..n, i - 1 \in G
          PROVE  i \in G
      <3>1. CASE i - 1 \in U /\ i \in P
        <4>1. \A j \in P : i <= j
          BY <3>1, <1>1
        <4> QED BY <3>1, <4>1
      <3>2. CASE i - 1 \in U /\ i \notin P
        <4>1. \A j \in 1..i : j \in 1..(i - 1) \/ j = i
          OBVIOUS
        <4> QED BY <3>2, <4>1
      <3>3. CASE i - 1 \notin U
        BY <2>2, <3>3
      <3> QED BY <3>1, <3>2, <3>3
    <2>3. n \in G
      <3> HIDE DEF G
      <3>1. G \in SUBSET (0..n)
        BY DEF G
      <3> QED BY <2>1, <2>2, <3>1, UpTo
    <2> QED BY <1>1, <2>3
  <1>2. \E k \in S : \A j \in S : k >= j
    <2> DEFINE P == {n + 1 - i : i \in S}
    <2>1. P \in SUBSET (1..n) /\ P # {}
      <3>1. \A i \in S : n + 1 - i \in 1..n
        OBVIOUS
      <3> QED BY <3>1
    <2> HIDE DEF P
    <2>2. PICK k \in P : \A j \in P : k <= j
      BY <1>1, <2>1
    <2>3. PICK m \in S : k = n + 1 - m
      BY DEF P
    <2>4. ASSUME NEW j \in S PROVE m >= j
      <3>1. n + 1 - j \in P
        BY DEF P
      <3>2. k <= n + 1 - j /\ j \in 1..n /\ m \in 1..n
        BY <2>2, <3>1
      <3> QED BY <2>3, <3>2
    <2> QED BY <2>4
  <1>3. \E k \in S : \A j \in S : k <= j
    BY <1>1
  <1> QED BY <1>2, <1>3 DEF Max

\* The elements of two lists, one after the other.
LEMMA ConcatSet ==
    ASSUME NEW T, NEW s \in Seq(T), NEW t \in Seq(T)
    PROVE  s \o t \in Seq(T) /\ ToSet(s \o t) = ToSet(s) \union ToSet(t)
  <1>1. /\ s \o t \in Seq(T) /\ Len(s \o t) = Len(s) + Len(t)
        /\ \A i \in 1..(Len(s) + Len(t)) :
             (s \o t)[i] = IF i <= Len(s) THEN s[i] ELSE t[i - Len(s)]
    BY ConcatProperties
  <1>2. PICK u : u = s \o t
    OBVIOUS
  <1>3. PICK m \in Nat, n \in Nat : m = Len(s) /\ n = Len(t)
    BY LenProperties
  <1>4. DOMAIN s = 1..m /\ DOMAIN t = 1..n /\ DOMAIN u = 1..(m + n)
    BY <1>1, <1>2, <1>3, LenProperties
  <1>5. \A i \in 1..(m + n) : u[i] = IF i <= m THEN s[i] ELSE t[i - m]
    BY <1>1, <1>2, <1>3
  <1>6. ASSUME NEW x \in ToSet(u) PROVE x \in ToSet(s) \union ToSet(t)
    <2>1. PICK i \in 1..(m + n) : x = u[i]
      BY <1>4 DEF ToSet
    <2>2. CASE i <= m
      BY <1>4, <1>5, <2>1, <2>2 DEF ToSet
    <2>3. CASE ~ (i <= m)
      <3>1. i - m \in 1..n
        BY <2>3
      <3> QED BY <1>4, <1>5, <2>1, <2>3, <3>1 DEF ToSet
    <2> QED BY <2>2, <2>3
  <1>7. ASSUME NEW x \in ToSet(s) PROVE x \in ToSet(u)
    <2>1. PICK i \in 1..m : x = s[i]
      BY <1>4 DEF ToSet
    <2>2. i \in 1..(m + n) /\ i <= m
      OBVIOUS
    <2> QED BY <1>4, <1>5, <2>1, <2>2 DEF ToSet
  <1>8. ASSUME NEW x \in ToSet(t) PROVE x \in ToSet(u)
    <2>1. PICK i \in 1..n : x = t[i]
      BY <1>4 DEF ToSet
    <2>2. i + m \in 1..(m + n) /\ ~ (i + m <= m) /\ (i + m) - m = i
      OBVIOUS
    <2>3. u[i + m] = t[i]
      BY <1>5, <2>2
    <2> QED BY <1>4, <2>1, <2>2, <2>3 DEF ToSet
  <1> QED BY <1>1, <1>2, <1>6, <1>7, <1>8

\* Opaque in the proof that only unfolds the recursion of FlattenSeq.
Join(s, t) == s \o t

FlatUpTo(flat, n, ss) ==
    flat = [i \in 1..n |-> IF i = 1 THEN ss[i] ELSE Join(flat[i - 1], ss[i])]

LEMMA FlatExists ==
    ASSUME NEW ss, Len(ss) \in Nat
    PROVE  \E flat : FlatUpTo(flat, Len(ss), ss)
  <1> DEFINE S == {n \in 0..Len(ss) : \E flat : FlatUpTo(flat, n, ss)}
  <1>1. FlatUpTo([i \in 1..0 |-> {}], 0, ss)
    BY DEF FlatUpTo
  <1>2. ASSUME NEW n \in 1..Len(ss), n - 1 \in S
        PROVE  n \in S
    <2>1. PICK f : FlatUpTo(f, n - 1, ss)
      BY <1>2
    <2>2. PICK g : g = [i \in 1..n |->
                IF i = n THEN IF n = 1 THEN ss[n] ELSE Join(f[n - 1], ss[n]) ELSE f[i]]
      OBVIOUS
    <2>3. \A i \in 1..(n - 1) : g[i] = f[i]
      BY <2>2
    <2>4. \A i \in 1..n : g[i] = IF i = 1 THEN ss[i] ELSE Join(g[i - 1], ss[i])
      <3> SUFFICES ASSUME NEW i \in 1..n
                   PROVE  g[i] = IF i = 1 THEN ss[i] ELSE Join(g[i - 1], ss[i])
        OBVIOUS
      <3>1. CASE i = n
        <4>1. n # 1 => n - 1 \in 1..(n - 1)
          OBVIOUS
        <4> QED BY <2>2, <2>3, <3>1, <4>1
      <3>2. CASE i # n
        <4>1. i \in 1..(n - 1) /\ (i # 1 => i - 1 \in 1..(n - 1))
          BY <3>2
        <4> QED BY <2>1, <2>3, <4>1 DEF FlatUpTo
      <3> QED BY <3>1, <3>2
    <2>5. FlatUpTo(g, n, ss)
      BY <2>2, <2>4 DEF FlatUpTo
    <2> QED BY <2>5
  <1>3. 0 \in S
    BY <1>1
  <1> HIDE DEF S
  <1>4. S \in SUBSET (0..Len(ss))
    BY DEF S
  <1>5. Len(ss) \in S
    BY <1>2, <1>3, <1>4, UpTo
  <1> QED BY <1>5 DEF S

\* FlattenSeq has the elements of the lists it joins, and no others.
LEMMA FlattenIs ==
    ASSUME NEW T, NEW ss \in Seq(Seq(T))
    PROVE  /\ FlattenSeq(ss) \in Seq(T)
           /\ \A x : x \in ToSet(FlattenSeq(ss)) <=>
                       \E i \in DOMAIN ss : x \in ToSet(ss[i])
  <1>1. Len(ss) \in Nat /\ DOMAIN ss = 1..Len(ss) /\ \A i \in 1..Len(ss) : ss[i] \in Seq(T)
    BY LenProperties, ElementOfSeq
  <1>2. CASE Len(ss) = 0
    <2>1. FlattenSeq(ss) = <<>> /\ DOMAIN ss = {}
      BY <1>1, <1>2, EmptySeq DEF FlattenSeq
    <2>2. ToSet(<<>>) = {}
      BY DEF ToSet
    <2> QED BY <2>1, <2>2
  <1>3. CASE Len(ss) # 0
    <2> DEFINE flatten[i \in 1..Len(ss)] ==
                  IF i = 1 THEN ss[i] ELSE flatten[i - 1] \o ss[i]
    <2>1. FlatUpTo(flatten, Len(ss), ss)
      BY <1>1, FlatExists DEF FlatUpTo, Join
    <2>2. FlattenSeq(ss) = flatten[Len(ss)]
      BY <1>3 DEF FlattenSeq
    <2>3. PICK f : f = flatten
      OBVIOUS
    <2>4. FlatUpTo(f, Len(ss), ss) /\ FlattenSeq(ss) = f[Len(ss)]
      BY <2>1, <2>2, <2>3
    <2> HIDE DEF flatten
    <2>5. \A i \in 1..Len(ss) : f[i] = IF i = 1 THEN ss[i] ELSE Join(f[i - 1], ss[i])
      BY <2>4 DEF FlatUpTo
    <2> DEFINE Right(i) == /\ f[i] \in Seq(T)
                           /\ \A x : x \in ToSet(f[i]) <=>
                                       \E j \in 1..i : x \in ToSet(ss[j])
               S == {i \in 0..Len(ss) : i # 0 => Right(i)}
    <2>6. 0 \in S
      BY <1>1
    <2>7. ASSUME NEW i \in 1..Len(ss), i - 1 \in S
          PROVE  i \in S
      <3>1. CASE i = 1
        <4>1. f[i] = ss[1] /\ 1..i = {1}
          BY <2>5, <3>1
        <4>2. Right(i)
          BY <1>1, <1>3, <3>1, <4>1
        <4> QED BY <4>2
      <3>2. CASE i # 1
        <4>1. i - 1 \in 1..Len(ss) /\ i - 1 # 0
          BY <3>2
        <4>2. Right(i - 1)
          BY <2>7, <4>1
        <4>3. f[i] = f[i - 1] \o ss[i]
          BY <2>5, <3>2 DEF Join
        <4>4. f[i - 1] \in Seq(T) /\ ss[i] \in Seq(T)
          BY <1>1, <4>2
        <4>5. f[i] \in Seq(T) /\ ToSet(f[i]) = ToSet(f[i - 1]) \union ToSet(ss[i])
          BY <4>3, <4>4, ConcatSet
        <4>6. \A x : x \in ToSet(f[i - 1]) <=> \E j \in 1..(i - 1) : x \in ToSet(ss[j])
          BY <4>2
        <4>7. 1..i = 1..(i - 1) \union {i}
          BY <4>1
        <4>8. ASSUME NEW x
              PROVE  x \in ToSet(f[i]) <=> \E j \in 1..i : x \in ToSet(ss[j])
          BY <4>5, <4>6, <4>7, Zenon
        <4>9. Right(i)
          BY <4>5, <4>8
        <4> QED BY <4>9
      <3> QED BY <3>1, <3>2
    <2>8. Len(ss) \in S
      <3> HIDE DEF S
      <3>1. S \in SUBSET (0..Len(ss))
        BY DEF S
      <3> QED BY <1>1, <2>6, <2>7, <3>1, UpTo
    <2>9. Right(Len(ss))
      BY <1>3, <2>8
    <2> QED BY <1>1, <2>4, <2>9
  <1> QED BY <1>2, <1>3

\* A function on the positions of a list is a list.
LEMMA ListOf ==
    ASSUME NEW T, NEW S, NEW s \in Seq(S), NEW f \in [DOMAIN s -> T]
    PROVE  f \in Seq(T) /\ DOMAIN f = DOMAIN s /\ Len(f) = Len(s)
  <1>1. Len(s) \in Nat /\ DOMAIN s = 1..Len(s)
    BY LenProperties
  <1> QED BY <1>1

\* Kept has exactly the elements that are asked for.
LEMMA KeptIs ==
    ASSUME NEW T, NEW s \in Seq(T), NEW S
    PROVE  Kept(s, S) \in Seq(T) /\ ToSet(Kept(s, S)) = ToSet(s) \intersect S
  <1>1. PICK ss : ss = [i \in DOMAIN s |-> IF s[i] \in S THEN <<s[i]>> ELSE <<>>]
    OBVIOUS
  <1>2. DOMAIN ss = DOMAIN s /\ \A i \in DOMAIN s : ss[i] \in Seq(T)
    BY <1>1, ElementOfSeq
  <1>3. ss \in Seq(Seq(T))
    BY <1>1, <1>2, ListOf
  <1>4. FlattenSeq(ss) \in Seq(T)
        /\ \A x : x \in ToSet(FlattenSeq(ss)) <=> \E i \in DOMAIN ss : x \in ToSet(ss[i])
    BY <1>3, FlattenIs
  <1>5. Kept(s, S) = FlattenSeq(ss)
    BY <1>1 DEF Kept
  <1>6. ASSUME NEW i \in DOMAIN s, NEW x
        PROVE  x \in ToSet(ss[i]) <=> s[i] \in S /\ x = s[i]
    <2>1. CASE s[i] \in S
      <3>1. ss[i] = <<s[i]>> /\ ToSet(<<s[i]>>) = {s[i]}
        BY <1>1, <2>1 DEF ToSet
      <3> QED BY <2>1, <3>1
    <2>2. CASE s[i] \notin S
      <3>1. ss[i] = <<>> /\ ToSet(<<>>) = {}
        BY <1>1, <2>2 DEF ToSet
      <3> QED BY <2>2, <3>1
    <2> QED BY <2>1, <2>2
  <1>7. ASSUME NEW x
        PROVE  x \in ToSet(FlattenSeq(ss)) <=> x \in ToSet(s) \intersect S
    <2>1. x \in ToSet(s) <=> \E i \in DOMAIN s : x = s[i]
      BY DEF ToSet
    <2> QED BY <1>2, <1>4, <1>6, <2>1
  <1> QED BY <1>4, <1>5, <1>7

\* The elements of a list are the elements of the set that it orders.
LEMMA OrderIs ==
    ASSUME NEW S, IsFiniteSet(S), NEW s \in SetToSeqs(S)
    PROVE  s \in Seq(S) /\ ToSet(s) = S
  <1>1. PICK n \in Nat : n = Cardinality(S)
    BY FS_CardinalityType
  <1>2. s \in [1..n -> S] /\ \A i, j \in 1..n : i # j => s[i] # s[j]
    BY <1>1 DEF SetToSeqs
  <1>3. ASSUME NEW x \in S, x \notin ToSet(s)
        PROVE  FALSE
    <2> DEFINE R == S \ {x}
    <2>1. IsFiniteSet(R) /\ Cardinality(R) = n - 1
      BY <1>1, FS_RemoveElement
    <2>2. s \in [1..n -> R]
      BY <1>2, <1>3 DEF ToSet
    <2>3. s \in Injection(1..n, R)
      BY <1>2, <2>2 DEF Injection, IsInjective
    <2>4. IsFiniteSet(1..n) /\ Cardinality(1..n) = n
      BY FS_Interval
    <2> HIDE DEF R
    <2>5. Cardinality(1..n) <= Cardinality(R)
      BY <2>1, <2>3, FS_Injection
    <2> QED BY <2>1, <2>4, <2>5
  <1> QED BY <1>2, <1>3 DEF ToSet

\* MergeParams drops nothing but repetitions.
LEMMA MergeIs ==
    ASSUME NEW T, NEW params \in Seq(T), NEW others \in Seq(T)
    PROVE  /\ MergeParams(params, others) \in Seq(T)
           /\ ToSet(MergeParams(params, others)) = ToSet(params) \union ToSet(others)
  <1> DEFINE Repeated == {j \in DOMAIN others :
                             \/ others[j] \in ToSet(params)
                             \/ \E i \in 1..(j - 1) : others[i] = others[j]}
  <1>1. PICK ss : ss = [j \in DOMAIN others |-> IF j \in Repeated THEN <<>> ELSE <<others[j]>>]
    OBVIOUS
  <1>2. MergeParams(params, others) = params \o FlattenSeq(ss)
    BY <1>1 DEF MergeParams
  <1> HIDE DEF Repeated
  <1>3. ASSUME NEW j \in DOMAIN others
        PROVE  /\ j \in Repeated => ss[j] = <<>>
               /\ j \notin Repeated => ss[j] = <<others[j]>>
    <2>1. ss[j] = IF j \in Repeated THEN <<>> ELSE <<others[j]>>
      BY <1>1, Zenon
    <2>2. j \in Repeated => ss[j] = <<>>
      BY <2>1, Zenon
    <2> QED BY <2>1, <2>2, Zenon
  <1>4. Len(others) \in Nat /\ DOMAIN others = 1..Len(others) /\ DOMAIN ss = DOMAIN others
        /\ \A j \in 1..Len(others) : others[j] \in T
    BY <1>1, LenProperties, ElementOfSeq
  <1>5. ASSUME NEW j \in DOMAIN others PROVE ss[j] \in Seq(T)
    <2>1. <<>> \in Seq(T) /\ <<others[j]>> \in Seq(T)
      BY <1>4
    <2> QED BY <1>3, <2>1, Zenon
  <1>6. ss \in Seq(Seq(T))
    BY <1>1, <1>5, ListOf
  <1>7. FlattenSeq(ss) \in Seq(T)
        /\ \A x : x \in ToSet(FlattenSeq(ss)) <=> \E i \in DOMAIN ss : x \in ToSet(ss[i])
    BY <1>6, FlattenIs
  <1>8. ASSUME NEW j \in DOMAIN others, NEW x
        PROVE  x \in ToSet(ss[j]) <=> j \notin Repeated /\ x = others[j]
    <2>1. CASE j \in Repeated
      <3>1. ss[j] = <<>> /\ ToSet(<<>>) = {}
        BY <1>3, <2>1 DEF ToSet
      <3> QED BY <2>1, <3>1
    <2>2. CASE j \notin Repeated
      <3>1. ss[j] = <<others[j]>> /\ ToSet(<<others[j]>>) = {others[j]}
        BY <1>3, <2>2 DEF ToSet
      <3> QED BY <2>2, <3>1
    <2> QED BY <2>1, <2>2
  <1>9. ASSUME NEW x \in ToSet(FlattenSeq(ss))
        PROVE  x \in ToSet(others)
    <2>1. PICK j \in DOMAIN others : x \in ToSet(ss[j])
      BY <1>4, <1>7
    <2>2. x = others[j]
      BY <1>8, <2>1
    <2> QED BY <2>2 DEF ToSet
  <1>10. ASSUME NEW x \in ToSet(others)
         PROVE  x \in ToSet(params) \union ToSet(FlattenSeq(ss))
    <2> DEFINE at == {j \in 1..Len(others) : others[j] = x}
    <2>1. at # {} /\ at \in SUBSET (1..Len(others))
      BY <1>4 DEF ToSet
    <2>2. PICK k \in at : \A j \in at : k <= j
      BY <1>4, <2>1, FirstAndLast
    <2>3. k \in DOMAIN others /\ others[k] = x
      BY <1>4
    <2>4. ASSUME NEW i \in 1..(k - 1) PROVE others[i] # others[k]
      <3>1. i \in 1..Len(others) /\ ~ (k <= i)
        BY <1>4
      <3> QED BY <2>2, <2>3, <3>1
    <2>5. CASE x \in ToSet(params)
      BY <2>5
    <2>6. CASE x \notin ToSet(params)
      <3>1. k \notin Repeated
        BY <2>3, <2>4, <2>6 DEF Repeated
      <3> QED BY <1>4, <1>7, <1>8, <2>3, <3>1
    <2> QED BY <2>5, <2>6
  <1>11. /\ params \o FlattenSeq(ss) \in Seq(T)
         /\ ToSet(params \o FlattenSeq(ss)) = ToSet(params) \union ToSet(FlattenSeq(ss))
    BY <1>7, ConcatSet
  <1> QED BY <1>2, <1>9, <1>10, <1>11
-----------------------------------------------------------------------------
(* Values of parameters and the choice of an output.                       *)

\* One name has one source.
Consistent(params) ==
    \A p, q \in ToSet(params) : p.name = q.name => p = q

\* Where names have one source, the first and the last parameter of a name are
\* the same, and DMKit's map has the values that the chart has.
LEMMA ValuesAre ==
    ASSUME NEW T, NEW params \in Seq(T), Consistent(params)
    PROVE  /\ DOMAIN Values(params) = Names(params) \union DOMAIN context
           /\ DOMAIN Chart!Values(params) = Names(params) \union DOMAIN context
           /\ \A n : n \in Names(params) <=> \E p \in ToSet(params) : p.name = n
           /\ \A p \in ToSet(params) :
                /\ Values(params)[p.name] = ValueOf(p)
                /\ Chart!Values(params)[p.name] = ValueOf(p)
           /\ \A n \in DOMAIN context \ Names(params) :
                /\ Values(params)[n] = context[n]
                /\ Chart!Values(params)[n] = context[n]
  <1>1. Len(params) \in Nat /\ DOMAIN params = 1..Len(params)
    BY LenProperties
  <1>2. /\ DOMAIN Values(params) = Names(params) \union DOMAIN context
        /\ DOMAIN Chart!Values(params) = Names(params) \union DOMAIN context
    BY DEF Values, Chart!Values, Chart!Names, Names
  <1>3. \A n : n \in Names(params) <=> \E p \in ToSet(params) : p.name = n
    BY DEF Names, ToSet
  <1>4. \A p : Chart!ValueOf(p) = ValueOf(p)
    BY DEF Chart!ValueOf, ValueOf
  <1>5. ASSUME NEW p \in ToSet(params)
        PROVE  /\ Values(params)[p.name] = ValueOf(p)
               /\ Chart!Values(params)[p.name] = ValueOf(p)
    <2> DEFINE at == {i \in DOMAIN params : params[i].name = p.name}
    <2>1. at # {} /\ at \in SUBSET (1..Len(params))
      BY <1>1 DEF ToSet
    <2>2. Max(at) \in at
      BY <1>1, <2>1, FirstAndLast
    <2>3. (CHOOSE i \in DOMAIN params : params[i].name = p.name) \in at
      BY <2>1
    <2>4. \A i \in at : params[i] = p
      BY DEF Consistent, ToSet
    <2>5. p.name \in Names(params)
      BY <1>3
    <2>6. Values(params)[p.name] = ValueOf(params[Max(at)])
      BY <2>5 DEF Values
    <2>7. Chart!Values(params)[p.name]
            = Chart!ValueOf(params[CHOOSE i \in DOMAIN params : params[i].name = p.name])
      BY <2>5 DEF Chart!Values, Chart!Names, Names
    <2>8. params[Max(at)] = p
      BY <2>2, <2>4
    <2>9. params[CHOOSE i \in DOMAIN params : params[i].name = p.name] = p
      BY <2>3, <2>4
    <2> QED BY <1>4, <2>6, <2>7, <2>8, <2>9
  <1>6. ASSUME NEW n \in DOMAIN context \ Names(params)
        PROVE  Values(params)[n] = context[n] /\ Chart!Values(params)[n] = context[n]
    BY DEF Values, Chart!Values, Chart!Names, Names
  <1> QED BY <1>2, <1>3, <1>5, <1>6

\* If one of the outputs holds, one of them is the first.
LEMMA FirstOutputExists ==
    ASSUME NEW policy, NEW T, policy.outputs \in Seq(T),
           NEW k \in DOMAIN policy.outputs,
           Holds(policy.outputs[k], Values(policy.params))
    PROVE  \E m \in DOMAIN policy.outputs : FirstOutput(policy, m)
  <1>1. PICK outputs \in Seq(T) : outputs = policy.outputs
    OBVIOUS
  <1>2. Len(outputs) \in Nat /\ DOMAIN outputs = 1..Len(outputs)
    BY LenProperties
  <1> DEFINE S == {i \in 1..Len(outputs) : Holds(outputs[i], Values(policy.params))}
  <1>3. k \in S /\ S \in SUBSET (1..Len(outputs))
    BY <1>1, <1>2
  <1>4. PICK m \in S : \A j \in S : m <= j
    BY <1>2, <1>3, FirstAndLast
  <1>5. \A j \in 1..(m - 1) : j \in 1..Len(outputs) /\ ~ (m <= j)
    BY <1>2
  <1>6. FirstOutput(policy, m)
    BY <1>1, <1>2, <1>4, <1>5 DEF FirstOutput
  <1> QED BY <1>1, <1>2, <1>6
-----------------------------------------------------------------------------
(* The choice of a policy.                                                 *)

\* What the choice looks at: a state or none, and a number of slots.
IsTrigger(p) == Len(p.slots) \in Nat

\* Nothing outranks itself, and what r outranks (q) being no worse than p, r
\* outranks p and p does not outrank r.
LEMMA OutranksOrder ==
    ASSUME NEW p, NEW q, NEW r, IsTrigger(p), IsTrigger(q), IsTrigger(r)
    PROVE  /\ ~ Outranks(p, p)
           /\ ~ Outranks(p, q) /\ Outranks(r, q) => Outranks(r, p) /\ ~ Outranks(p, r)
  BY DEF Outranks, IsTrigger

\* Where a candidate fits, one is the best.
LEMMA BestExists ==
    ASSUME NEW T, NEW vec \in Seq(T), \A i \in DOMAIN vec : IsTrigger(vec[i]),
           NEW st, NEW supplied,
           NEW f \in DOMAIN vec, Fits(vec[f], st, supplied)
    PROVE  \E k : IsBestAt(vec, k, st, supplied)
  <1>1. Len(vec) \in Nat /\ DOMAIN vec = 1..Len(vec)
    BY LenProperties
  <1> DEFINE F(j) == Fits(vec[j], st, supplied)
             Best(k, n) == /\ k \in 1..n /\ F(k)
                           /\ \A j \in 1..n : F(j) =>
                                /\ ~ Outranks(vec[j], vec[k])
                                /\ j < k => Outranks(vec[k], vec[j])
             S == {n \in 0..Len(vec) : \/ \A j \in 1..n : ~ F(j)
                                       \/ \E k \in 1..n : Best(k, n)}
  <1>2. 0 \in S
    BY <1>1
  <1>3. ASSUME NEW n \in 1..Len(vec), n - 1 \in S
        PROVE  n \in S
    <2> HIDE DEF F
    <2>1. 1..n = 1..(n - 1) \union {n} /\ n \notin 1..(n - 1) /\ n \in DOMAIN vec
          /\ 1..n \subseteq DOMAIN vec /\ \A j \in 1..(n - 1) : j < n /\ ~ (n < j)
      BY <1>1
    <2>2. CASE \A j \in 1..(n - 1) : ~ F(j)
      <3>1. CASE F(n)
        <4>1. ~ Outranks(vec[n], vec[n])
          BY <2>1, OutranksOrder
        <4>2. Best(n, n)
          BY <2>1, <2>2, <3>1, <4>1
        <4> QED BY <4>2
      <3>2. CASE ~ F(n)
        BY <2>1, <2>2, <3>2
      <3> QED BY <3>1, <3>2
    <2>3. ASSUME NEW k \in 1..(n - 1), Best(k, n - 1)
          PROVE  n \in S
      <3>1. CASE F(n) /\ Outranks(vec[n], vec[k])
        <4>1. ASSUME NEW j \in 1..(n - 1), F(j)
              PROVE  Outranks(vec[n], vec[j]) /\ ~ Outranks(vec[j], vec[n])
          <5>1. ~ Outranks(vec[j], vec[k])
            BY <2>3, <4>1
          <5>2. j \in DOMAIN vec /\ k \in DOMAIN vec
            BY <2>1
          <5> QED BY <2>1, <3>1, <5>1, <5>2, OutranksOrder
        <4>2. ~ Outranks(vec[n], vec[n])
          BY <2>1, OutranksOrder
        <4>3. Best(n, n)
          BY <2>1, <3>1, <4>1, <4>2
        <4> QED BY <4>3
      <3>2. CASE ~ (F(n) /\ Outranks(vec[n], vec[k]))
        <4>1. k \in 1..n /\ ~ (n < k)
          BY <2>1
        <4>2. Best(k, n)
          BY <2>1, <2>3, <3>2, <4>1
        <4> QED BY <4>1, <4>2
      <3> QED BY <3>1, <3>2
    <2>4. (\A j \in 1..(n - 1) : ~ F(j)) \/ \E k \in 1..(n - 1) : Best(k, n - 1)
      BY <1>3
    <2> QED BY <2>2, <2>3, <2>4
  <1>4. Len(vec) \in S
    <2> HIDE DEF S
    <2>1. S \in SUBSET (0..Len(vec))
      BY DEF S
    <2> QED BY <1>1, <1>2, <1>3, <2>1, UpTo
  <1>5. PICK k \in 1..Len(vec) : Best(k, Len(vec))
    BY <1>1, <1>4
  <1> QED BY <1>1, <1>5 DEF IsBestAt
-----------------------------------------------------------------------------
(* The drawing.                                                            *)

Cells == DOMAIN chart.cells

Kind(c) == Cell(c).kind

\* What IsDrawing says of the chart.
LEMMA Drawn ==
    ASSUME chart \in Charts
    PROVE  /\ Len(chart.cells) \in Nat /\ Cells = 1..Len(chart.cells)
           /\ Nowhere \notin Cells /\ IsFiniteSet(chart.arrows)
           /\ \A c \in Cells :
                /\ Kind(c) \in {Server, Customer, Judge} /\ Cell(c).state \in StateOrNone
                /\ Cell(c).slots \in Seq(Slot) /\ Cell(c).params \in Seq(ToSet(Cell(c).params))
                /\ \A p \in ToSet(Cell(c).params) : p.source \in Source \union {SessionState}
           /\ \A a \in chart.arrows :
                /\ a.source \in Cells \union {Nowhere} /\ a.target \in Cells
                /\ a.condition.atoms \in Seq(ToSet(a.condition.atoms))
  <1>1. IsDrawing(chart)
    BY ChartsAssumption
  <1>2. chart.cells \in Seq(ToSet(chart.cells))
    BY <1>1 DEF IsDrawing, IsList
  <1>3. Len(chart.cells) \in Nat /\ Cells = 1..Len(chart.cells)
    BY <1>2, LenProperties DEF Cells
  <1> QED BY <1>1, <1>3, Zenon DEF IsDrawing, IsList, Cells, Cell, Kind

\* Where arrows lead: from nowhere and from bot cells to ellipses, from
\* ellipses to bot cells and rhombi, from rhombi to bot cells.
LEMMA Ways ==
    ASSUME chart \in Charts, NEW a \in chart.arrows
    PROVE  /\ a.source = Nowhere => Kind(a.target) = Customer
           /\ a.source \in Cells /\ Kind(a.source) = Customer => Kind(a.target) # Customer
           /\ a.source \in Cells /\ Kind(a.source) = Server => Kind(a.target) = Customer
           /\ a.source \in Cells /\ Kind(a.source) = Judge =>
                /\ Kind(a.target) = Server /\ a.condition.atoms # <<>>
                /\ Names(a.condition.atoms) \subseteq Names(Cell(a.source).params)
  <1>1. WellDrawn(chart)
    BY ChartsAssumption
  <1>2. a \in ArrowsFrom(chart, a.source)
    BY DEF ArrowsFrom
  <1>3. a.source = Nowhere => Kind(a.target) = Customer
    BY <1>1, <1>2 DEF WellDrawn, Kind, Cell
  <1>4. ASSUME a.source \in Cells
        PROVE  /\ Kind(a.source) = Customer => Kind(a.target) # Customer
               /\ Kind(a.source) = Server => Kind(a.target) = Customer
               /\ Kind(a.source) = Judge =>
                    /\ Kind(a.target) = Server /\ a.condition.atoms # <<>>
                    /\ Names(a.condition.atoms) \subseteq Names(Cell(a.source).params)
    <2>1. PICK c \in DOMAIN chart.cells : c = a.source
      BY <1>4 DEF Cells
    <2>2. a \in ArrowsFrom(chart, c)
      BY <1>2, <2>1
    <2>3. a.target \in {b.target : b \in ArrowsFrom(chart, c)}
      BY <2>2
    <2>4. Kind(c) = Customer => Kind(a.target) # Customer
      BY <1>1, <2>3 DEF WellDrawn, Kind, Cell
    <2>5. Kind(c) = Server => Kind(a.target) = Customer
      BY <1>1, <2>3 DEF WellDrawn, Kind, Cell
    <2>6. Kind(c) = Judge =>
            /\ Kind(a.target) = Server /\ a.condition.atoms # <<>>
            /\ Names(a.condition.atoms) \subseteq Names(Cell(c).params)
      BY <1>1, <2>2 DEF WellDrawn, Kind, Cell
    <2> QED BY <2>1, <2>4, <2>5, <2>6
  <1> QED BY <1>3, <1>4

\* An ellipse has one arrow.
LEMMA OneWay ==
    ASSUME chart \in Charts, NEW e \in Cells, Kind(e) = Customer
    PROVE  \E w \in chart.arrows : ArrowsFrom(chart, e) = {w} /\ w.source = e
  <1>1. WellDrawn(chart)
    BY ChartsAssumption
  <1>2. Cardinality(ArrowsFrom(chart, e)) = 1
    BY <1>1 DEF WellDrawn, Kind, Cell, Cells
  <1>3. IsFiniteSet(ArrowsFrom(chart, e))
    <2>1. ArrowsFrom(chart, e) \subseteq chart.arrows
      BY DEF ArrowsFrom
    <2> QED BY <2>1, Drawn, FS_Subset
  <1>4. PICK w : ArrowsFrom(chart, e) = {w}
    BY <1>2, <1>3, FS_Singleton
  <1> QED BY <1>4 DEF ArrowsFrom

\* An arrow into an ellipse comes from a bot cell or from nowhere.
LEMMA IntoEllipse ==
    ASSUME chart \in Charts, NEW a \in chart.arrows, Kind(a.target) = Customer
    PROVE  a.source = Nowhere \/ (a.source \in Cells /\ Kind(a.source) = Server)
  <1>1. a.source \in Cells => Kind(a.source) \in {Server, Customer, Judge}
    BY Drawn
  <1>2. Kind(a.source) = Judge /\ a.source \in Cells => FALSE
    BY Ways DEF Server, Customer
  <1> QED BY <1>1, <1>2, Ways, Drawn

\* The parameters of any cells.
AnyParam == UNION {ToSet(Cell(c).params) : c \in Cells}

LEMMA ParamsOfCell ==
    ASSUME chart \in Charts, NEW c \in Cells
    PROVE  Cell(c).params \in Seq(AnyParam)
  <1>1. Cell(c).params \in Seq(ToSet(Cell(c).params))
    BY Drawn
  <1>2. ToSet(Cell(c).params) \subseteq AnyParam
    BY DEF AnyParam
  <1> QED BY <1>1, <1>2, SeqMonotonic

\* Cells whose parameters come together do not use a name for two sources: a
\* cell itself, and what follows an ellipse by way of a rhombus.
LEMMA CellConsistent ==
    ASSUME chart \in Charts, NEW c \in Cells
    PROVE  Consistent(Cell(c).params)
  <1>1. WellDrawn(chart)
    BY ChartsAssumption
  <1>2. \A i, j \in DOMAIN chart.cells[c].params :
            chart.cells[c].params[i].name = chart.cells[c].params[j].name =>
                chart.cells[c].params[i] = chart.cells[c].params[j]
    BY <1>1 DEF WellDrawn, Cells
  <1> QED BY <1>2 DEF Consistent, ToSet, Cell

\* The cells that an ellipse leads to through rhombus d.
Through(d) == {d} \union {a.target : a \in ArrowsFrom(chart, d)}

LEMMA ThroughConsistent ==
    ASSUME chart \in Charts, NEW w \in chart.arrows, w.source \in Cells,
           Kind(w.target) = Judge,
           NEW c \in Through(w.target), NEW d \in Through(w.target),
           NEW p \in ToSet(Cell(c).params), NEW q \in ToSet(Cell(d).params),
           p.name = q.name
    PROVE  p = q
  <1> DEFINE Targets(x) == {a.target : a \in ArrowsFrom(chart, x)}
             Together(x) == {x} \union
                 UNION {Targets(y) \union {y} :
                          y \in {t \in Targets(x) : chart.cells[t].kind = Judge}}
  <1>1. WellDrawn(chart)
    BY ChartsAssumption
  <1>2. \A x \in DOMAIN chart.cells : \A y, z \in Together(x) :
            \A i \in DOMAIN chart.cells[y].params, j \in DOMAIN chart.cells[z].params :
                chart.cells[y].params[i].name = chart.cells[z].params[j].name =>
                    chart.cells[y].params[i] = chart.cells[z].params[j]
    BY <1>1, Zenon DEF WellDrawn
  <1>3. w.target \in {t \in Targets(w.source) : chart.cells[t].kind = Judge}
    BY DEF ArrowsFrom, Kind, Cell
  <1>4. Through(w.target) \subseteq Together(w.source)
    BY <1>3 DEF Through
  <1> HIDE DEF Together
  <1>5. PICK i \in DOMAIN chart.cells[c].params : p = chart.cells[c].params[i]
    BY DEF ToSet, Cell
  <1>6. PICK j \in DOMAIN chart.cells[d].params : q = chart.cells[d].params[j]
    BY DEF ToSet, Cell
  <1> QED BY <1>2, <1>4, <1>5, <1>6 DEF Cells
-----------------------------------------------------------------------------
(* The states of bot cells.                                                *)

\* Bot cells are numbered within the supply of numbers, and no number twice.
LEMMA NumbersDiffer ==
    ASSUME chart \in Charts, NEW b \in Cells, b \in Unnamed(b)
    PROVE  /\ Cardinality(Unnamed(b)) \in DOMAIN Numbered
           /\ \A d \in Cells : d \in Unnamed(d) /\ d < b =>
                 Cardinality(Unnamed(d)) # Cardinality(Unnamed(b))
  <1>1. Len(chart.cells) \in Nat /\ Cells = 1..Len(chart.cells)
    BY Drawn
  <1>2. \A c \in Cells : IsFiniteSet(Unnamed(c)) /\ Cardinality(Unnamed(c)) \in 0..c
    <2> TAKE c \in Cells
    <2>1. c \in Nat /\ IsFiniteSet(1..c) /\ Cardinality(1..c) = c
      BY <1>1, FS_Interval
    <2>2. Unnamed(c) \in SUBSET (1..c)
      BY DEF Unnamed
    <2>3. IsFiniteSet(Unnamed(c)) /\ Cardinality(Unnamed(c)) <= Cardinality(1..c)
      BY <2>1, <2>2, FS_Subset
    <2>4. Cardinality(Unnamed(c)) \in Nat
      BY <2>3, FS_CardinalityType
    <2> QED BY <2>1, <2>3, <2>4
  <1>3. Cardinality(Unnamed(b)) # 0
    BY <1>2, FS_EmptySet
  <1>4. /\ Numbered \in Seq(State) /\ Len(chart.cells) <= Len(Numbered)
        /\ Len(Numbered) \in Nat /\ DOMAIN Numbered = 1..Len(Numbered)
    BY NumbersAssumption, LenProperties
  <1>5. Cardinality(Unnamed(b)) \in DOMAIN Numbered
    BY <1>1, <1>2, <1>3, <1>4
  <1>6. ASSUME NEW d \in Cells, d \in Unnamed(d), d < b
        PROVE  Cardinality(Unnamed(d)) # Cardinality(Unnamed(b))
    <2>1. Unnamed(d) \in SUBSET Unnamed(b)
      BY <1>1, <1>6 DEF Unnamed
    <2>2. b \notin Unnamed(d)
      BY <1>1, <1>6 DEF Unnamed
    <2> QED BY <1>2, <2>1, <2>2, FS_Subset
  <1> QED BY <1>5, <1>6

\* A bot cell has a state, and no other cell has one.
LEMMA StateIs ==
    ASSUME chart \in Charts, NEW c \in Cells \union {Nowhere}
    PROVE  IF c \in Cells /\ Kind(c) = Server THEN StateOf(c) \in State
           ELSE StateOf(c) = NoState
  <1>1. CASE ~ (c \in Cells /\ Kind(c) = Server)
    BY <1>1 DEF StateOf, Kind
  <1>2. CASE c \in Cells /\ Kind(c) = Server
    <2>1. c # Nowhere
      BY <1>2, Drawn
    <2>2. CASE Cell(c).state # NoState
      BY <1>2, <2>1, <2>2, Drawn DEF StateOf, Kind, StateOrNone
    <2>3. CASE Cell(c).state = NoState
      <3>1. c \in Unnamed(c)
        BY <1>2, <2>3, Drawn DEF Unnamed, Kind
      <3>2. Cardinality(Unnamed(c)) \in DOMAIN Numbered
        BY <1>2, <3>1, NumbersDiffer
      <3>3. Numbered[Cardinality(Unnamed(c))] \in State
        BY <3>2, NumbersAssumption, LenProperties, ElementOfSeq
      <3> QED BY <1>2, <2>1, <2>3, <3>3 DEF StateOf, Kind
    <2> QED BY <2>2, <2>3
  <1> QED BY <1>1, <1>2

\* The state of a bot cell without a STATE line is that of no other cell, and no
\* template.
LEMMA OwnState ==
    ASSUME chart \in Charts, NEW x \in Cells, Kind(x) = Server, Cell(x).state = NoState
    PROVE  /\ StateOf(x) \notin DOMAIN Template
           /\ \A y \in Cells : Kind(y) = Server /\ StateOf(y) = StateOf(x) => y = x
  <1>1. \A c \in Cells : c # Nowhere /\ c \in Nat
    BY Drawn
  <1>2. \A c \in Cells : Cell(c).state \notin ToSet(Numbered)
    BY NumbersAssumption DEF Cell, Cells
  <1>3. ASSUME NEW c \in Cells, Kind(c) = Server, Cell(c).state = NoState
        PROVE  /\ c \in Unnamed(c) /\ Cardinality(Unnamed(c)) \in DOMAIN Numbered
               /\ StateOf(c) = Numbered[Cardinality(Unnamed(c))]
               /\ StateOf(c) \in ToSet(Numbered)
    <2>1. c \in Unnamed(c)
      BY <1>3, Drawn DEF Unnamed, Kind
    <2>2. Cardinality(Unnamed(c)) \in DOMAIN Numbered
      BY <2>1, NumbersDiffer
    <2>3. StateOf(c) = Numbered[Cardinality(Unnamed(c))]
      BY <1>1, <1>3 DEF StateOf, Kind
    <2> QED BY <2>1, <2>2, <2>3 DEF ToSet
  <1>4. StateOf(x) \notin DOMAIN Template
    BY <1>3, NumbersAssumption
  <1>5. ASSUME NEW y \in Cells, Kind(y) = Server, StateOf(y) = StateOf(x)
        PROVE  y = x
    <2>1. CASE Cell(y).state # NoState
      <3>1. StateOf(y) = Cell(y).state
        BY <1>1, <1>5, <2>1 DEF StateOf, Kind
      <3> QED BY <1>2, <1>3, <1>5, <3>1
    <2>2. CASE Cell(y).state = NoState
      <3>1. Numbered[Cardinality(Unnamed(y))] = Numbered[Cardinality(Unnamed(x))]
        BY <1>3, <1>5, <2>2
      <3>2. Cardinality(Unnamed(y)) = Cardinality(Unnamed(x))
        BY <1>3, <1>5, <2>2, <3>1, NumbersAssumption, Zenon DEF IsInjective
      <3>3. ~ (y < x) /\ ~ (x < y)
        BY <1>3, <1>5, <2>2, <3>2, NumbersDiffer
      <3> QED BY <1>1, <3>3
    <2> QED BY <2>1, <2>2
  <1> QED BY <1>4, <1>5

\* The names in the state of a bot cell are those in its STATE line.
LEMMA NamesInState ==
    ASSUME chart \in Charts, NEW b \in Cells, Kind(b) = Server
    PROVE  NamesIn(StateOf(b)) = NamesIn(Cell(b).state)
  <1>1. CASE Cell(b).state = NoState
    <2>1. StateOf(b) \notin DOMAIN Template /\ NoState \notin DOMAIN Template
      BY <1>1, OwnState, TextsAssumption, NoStateAssumption
    <2> QED BY <1>1, <2>1 DEF NamesIn
  <1>2. CASE Cell(b).state # NoState
    <2>1. StateOf(b) = Cell(b).state
      BY <1>2, Drawn DEF StateOf, Kind
    <2> QED BY <2>1
  <1> QED BY <1>1, <1>2
-----------------------------------------------------------------------------
(* The policies.                                                           *)

\* A chart that is drawn by the rules, and an order of its arrows.
Connected == chart \in Charts /\ order \in SetToSeqs(chart.arrows)

LEMMA NodesAre ==
    ASSUME Connected, NEW c
    PROVE  /\ ToNodes(c) \in Seq(chart.arrows) /\ ToSet(ToNodes(c)) = ArrowsFrom(chart, c)
           /\ FromNodes(c) \in Seq(chart.arrows)
           /\ ToSet(FromNodes(c)) = {a \in chart.arrows : a.target = c}
  <1>1. order \in Seq(chart.arrows) /\ ToSet(order) = chart.arrows
    BY Drawn, OrderIs DEF Connected
  <1>2. /\ ToNodes(c) \in Seq(chart.arrows)
        /\ ToSet(ToNodes(c)) = chart.arrows \intersect ArrowsFrom(chart, c)
    BY <1>1, KeptIs DEF ToNodes
  <1>3. /\ FromNodes(c) \in Seq(chart.arrows)
        /\ ToSet(FromNodes(c)) = chart.arrows \intersect {a \in chart.arrows : a.target = c}
    BY <1>1, KeptIs DEF FromNodes
  <1>4. ArrowsFrom(chart, c) \subseteq chart.arrows
    BY DEF ArrowsFrom
  <1> QED BY <1>2, <1>3, <1>4

LEMMA FirstNode ==
    ASSUME Connected, NEW e, NEW w, ArrowsFrom(chart, e) = {w}
    PROVE  ToNodes(e) # <<>> /\ ToNodes(e)[1] = w
  <1>1. PICK s \in Seq(chart.arrows) : s = ToNodes(e)
    BY NodesAre
  <1>2. ToSet(s) = {w}
    BY <1>1, NodesAre
  <1>3. Len(s) \in Nat /\ DOMAIN s = 1..Len(s)
    BY LenProperties
  <1>4. PICK i \in 1..Len(s) : s[i] = w
    BY <1>2, <1>3 DEF ToSet
  <1>5. 1 \in DOMAIN s
    BY <1>3
  <1>6. s[1] = w
    BY <1>2, <1>5 DEF ToSet
  <1>7. s # <<>>
    BY <1>3, <1>4, EmptySeq
  <1> QED BY <1>1, <1>6, <1>7

\* The outputs of an arrow out of a rhombus: one for each alternative.
LEMMA ArrowOutputsAre ==
    ASSUME chart \in Charts, NEW a \in chart.arrows
    PROVE  /\ OutputsOfArrow(a) \in Seq(ToSet(OutputsOfArrow(a)))
           /\ a.condition.op = "or" =>
                \A x : x \in ToSet(OutputsOfArrow(a)) <=>
                    \E i \in DOMAIN a.condition.atoms :
                        x = OutputTo(a.target, <<a.condition.atoms[i]>>)
           /\ a.condition.op # "or" =>
                ToSet(OutputsOfArrow(a)) = {OutputTo(a.target, a.condition.atoms)}
  <1>1. PICK atoms : atoms = a.condition.atoms
    OBVIOUS
  <1>2. atoms \in Seq(ToSet(atoms))
    BY <1>1, Drawn
  <1>3. CASE a.condition.op = "or"
    <2>1. PICK s : s = [i \in DOMAIN atoms |-> OutputTo(a.target, <<atoms[i]>>)]
      OBVIOUS
    <2>2. s \in [DOMAIN atoms -> ToSet(s)]
      BY <2>1 DEF ToSet
    <2>3. s \in Seq(ToSet(s)) /\ DOMAIN s = DOMAIN atoms
      BY <1>2, <2>2, ListOf
    <2>4. OutputsOfArrow(a) = s
      BY <1>1, <1>3, <2>1 DEF OutputsOfArrow
    <2>5. \A x : x \in ToSet(s) <=>
              \E i \in DOMAIN atoms : x = OutputTo(a.target, <<atoms[i]>>)
      BY <2>1, <2>3 DEF ToSet
    <2> QED BY <1>1, <1>3, <2>3, <2>4, <2>5
  <1>4. CASE a.condition.op # "or"
    <2>1. PICK x : x = OutputTo(a.target, atoms)
      OBVIOUS
    <2>2. OutputsOfArrow(a) = <<x>>
      BY <1>1, <1>4, <2>1 DEF OutputsOfArrow
    <2>3. ToSet(<<x>>) = {x} /\ <<x>> \in Seq({x})
      BY DEF ToSet
    <2> QED BY <1>1, <1>4, <2>1, <2>2, <2>3
  <1> QED BY <1>3, <1>4

\* The parameters after an ellipse: those of the bot cell, or those of the
\* rhombus and of all cells behind it; a name has one source.
LEMMA ParamsAre ==
    ASSUME Connected, NEW e \in Cells, Kind(e) = Customer,
           NEW w \in chart.arrows, ArrowsFrom(chart, e) = {w}, w.source = e
    PROVE  /\ ParamsAfter(e) \in Seq(AnyParam) /\ Consistent(ParamsAfter(e))
           /\ Kind(w.target) = Server => ParamsAfter(e) = Cell(w.target).params
           /\ Kind(w.target) = Judge =>
                \A p : p \in ToSet(ParamsAfter(e)) <=>
                         \E c \in Through(w.target) : p \in ToSet(Cell(c).params)
  <1>1. ToNodes(e) # <<>> /\ ToNodes(e)[1].target = w.target
    BY FirstNode
  <1>2. chart \in Charts /\ w.target \in Cells
    BY Drawn DEF Connected
  <1>3. Kind(w.target) \in {Server, Judge}
    BY <1>2, Ways, Drawn
  <1>4. CASE Kind(w.target) = Server
    <2>1. ParamsAfter(e) = Cell(w.target).params
      BY <1>1, <1>4 DEF ParamsAfter, Kind, Server, Customer
    <2> QED BY <1>2, <1>4, <2>1, ParamsOfCell, CellConsistent DEF Server, Judge
  <1>5. CASE Kind(w.target) = Judge
    <2>1. PICK branches \in Seq(chart.arrows) : branches = ToNodes(w.target)
      BY NodesAre
    <2>2. ToSet(branches) = ArrowsFrom(chart, w.target)
      BY <2>1, NodesAre
    <2>3. PICK lists : lists = [k \in DOMAIN branches |-> Cell(branches[k].target).params]
      OBVIOUS
    <2>4. \A k \in DOMAIN branches : branches[k] \in chart.arrows
      BY <2>1, LenProperties, ElementOfSeq
    <2>5. \A k \in DOMAIN branches : Cell(branches[k].target).params \in Seq(AnyParam)
      BY <1>2, <2>4, Drawn, ParamsOfCell
    <2>6. lists \in Seq(Seq(AnyParam)) /\ DOMAIN lists = DOMAIN branches
      <3>1. lists \in [DOMAIN branches -> Seq(AnyParam)]
        BY <2>3, <2>5
      <3> QED BY <2>1, <3>1, ListOf
    <2>7. /\ FlattenSeq(lists) \in Seq(AnyParam)
          /\ \A p : p \in ToSet(FlattenSeq(lists)) <=>
                      \E k \in DOMAIN lists : p \in ToSet(lists[k])
      BY <2>6, FlattenIs
    <2>8. ParamsAfter(e) = MergeParams(Cell(w.target).params, FlattenSeq(lists))
      BY <1>1, <1>5, <2>1, <2>3 DEF ParamsAfter, Kind, Server, Customer, Judge
    <2>9. /\ ParamsAfter(e) \in Seq(AnyParam)
          /\ ToSet(ParamsAfter(e)) = ToSet(Cell(w.target).params) \union ToSet(FlattenSeq(lists))
      BY <1>2, <2>7, <2>8, ParamsOfCell, MergeIs
    <2>10. \A p : p \in ToSet(FlattenSeq(lists)) <=>
                    \E a \in ArrowsFrom(chart, w.target) : p \in ToSet(Cell(a.target).params)
      <3> SUFFICES ASSUME NEW p
                   PROVE  p \in ToSet(FlattenSeq(lists)) <=>
                            \E a \in ArrowsFrom(chart, w.target) :
                                p \in ToSet(Cell(a.target).params)
        OBVIOUS
      <3>1. p \in ToSet(FlattenSeq(lists)) <=>
                \E k \in DOMAIN branches : p \in ToSet(Cell(branches[k].target).params)
        BY <2>3, <2>6, <2>7
      <3>2. \A a : a \in ArrowsFrom(chart, w.target) <=>
                     \E k \in DOMAIN branches : a = branches[k]
        BY <2>2 DEF ToSet
      <3> QED BY <3>1, <3>2
    <2>11. \A p : p \in ToSet(ParamsAfter(e)) <=>
                    \E c \in Through(w.target) : p \in ToSet(Cell(c).params)
      <3>1. \A c : c \in Through(w.target) <=>
                \/ c = w.target
                \/ \E a \in ArrowsFrom(chart, w.target) : c = a.target
        BY DEF Through
      <3> QED BY <2>9, <2>10, <3>1
    <2>12. Consistent(ParamsAfter(e))
      <3> SUFFICES ASSUME NEW p \in ToSet(ParamsAfter(e)), NEW q \in ToSet(ParamsAfter(e)),
                          p.name = q.name
                   PROVE  p = q
        BY DEF Consistent
      <3>1. PICK c \in Through(w.target) : p \in ToSet(Cell(c).params)
        BY <2>11
      <3>2. PICK d \in Through(w.target) : q \in ToSet(Cell(d).params)
        BY <2>11
      <3> QED BY <1>2, <1>5, <3>1, <3>2, ThroughConsistent
    <2> QED BY <1>5, <2>9, <2>11, <2>12 DEF Server, Judge
  <1> QED BY <1>3, <1>4, <1>5

\* The outputs of any policies.
AnyOutput ==
    (UNION {ToSet(OutputsOfArrow(a)) : a \in chart.arrows})
        \union {OutputTo(a.target, <<>>) : a \in chart.arrows}

\* The outputs after an ellipse: one to the bot cell, or those of the arrows
\* out of the rhombus.
LEMMA OutputsAre ==
    ASSUME Connected, NEW e \in Cells, Kind(e) = Customer,
           NEW w \in chart.arrows, ArrowsFrom(chart, e) = {w}, w.source = e
    PROVE  /\ OutputsAfter(e) \in Seq(AnyOutput)
           /\ Kind(w.target) = Server => OutputsAfter(e) = <<OutputTo(w.target, <<>>)>>
           /\ Kind(w.target) = Judge =>
                \A x : x \in ToSet(OutputsAfter(e)) <=>
                         \E a \in ArrowsFrom(chart, w.target) : x \in ToSet(OutputsOfArrow(a))
  <1>1. ToNodes(e) # <<>> /\ ToNodes(e)[1].target = w.target
    BY FirstNode
  <1>2. chart \in Charts /\ w.target \in Cells
    BY Drawn DEF Connected
  <1>3. Kind(w.target) \in {Server, Judge}
    BY <1>2, Ways, Drawn
  <1>4. CASE Kind(w.target) = Server
    <2>1. OutputsAfter(e) = <<OutputTo(w.target, <<>>)>>
      BY <1>1, <1>4 DEF OutputsAfter, Kind, Server, Customer
    <2>2. OutputTo(w.target, <<>>) \in AnyOutput
      BY DEF AnyOutput
    <2> HIDE DEF AnyOutput
    <2>3. <<OutputTo(w.target, <<>>)>> \in Seq(AnyOutput)
      BY <2>2
    <2> QED BY <1>4, <2>1, <2>3 DEF Server, Judge
  <1>5. CASE Kind(w.target) = Judge
    <2>1. PICK branches \in Seq(chart.arrows) : branches = ToNodes(w.target)
      BY NodesAre
    <2>2. ToSet(branches) = ArrowsFrom(chart, w.target)
      BY <2>1, NodesAre
    <2>3. PICK lists : lists = [k \in DOMAIN branches |-> OutputsOfArrow(branches[k])]
      OBVIOUS
    <2>4. \A k \in DOMAIN branches : branches[k] \in chart.arrows
      BY <2>1, LenProperties, ElementOfSeq
    <2>5. ASSUME NEW a \in chart.arrows PROVE OutputsOfArrow(a) \in Seq(AnyOutput)
      <3>1. OutputsOfArrow(a) \in Seq(ToSet(OutputsOfArrow(a)))
        BY <1>2, ArrowOutputsAre
      <3>2. ToSet(OutputsOfArrow(a)) \subseteq AnyOutput
        BY DEF AnyOutput
      <3> QED BY <3>1, <3>2, SeqMonotonic
    <2>6. lists \in Seq(Seq(AnyOutput)) /\ DOMAIN lists = DOMAIN branches
      <3>1. lists \in [DOMAIN branches -> Seq(AnyOutput)]
        BY <2>3, <2>4, <2>5
      <3> QED BY <2>1, <3>1, ListOf
    <2>7. /\ FlattenSeq(lists) \in Seq(AnyOutput)
          /\ \A x : x \in ToSet(FlattenSeq(lists)) <=>
                      \E k \in DOMAIN lists : x \in ToSet(lists[k])
      BY <2>6, FlattenIs
    <2>8. OutputsAfter(e) = FlattenSeq(lists)
      BY <1>1, <1>5, <2>1, <2>3 DEF OutputsAfter, Kind, Server, Customer, Judge
    <2>9. ASSUME NEW x
          PROVE  x \in ToSet(FlattenSeq(lists)) <=>
                    \E a \in ArrowsFrom(chart, w.target) : x \in ToSet(OutputsOfArrow(a))
      <3>1. x \in ToSet(FlattenSeq(lists)) <=>
                \E k \in DOMAIN branches : x \in ToSet(OutputsOfArrow(branches[k]))
        BY <2>3, <2>6, <2>7
      <3>2. \A a : a \in ArrowsFrom(chart, w.target) <=>
                     \E k \in DOMAIN branches : a = branches[k]
        BY <2>2 DEF ToSet
      <3> QED BY <3>1, <3>2
    <2> QED BY <1>5, <2>7, <2>8, <2>9 DEF Server, Judge
  <1> QED BY <1>3, <1>4, <1>5

\* The arrows into ellipses, and the policy that is written for one.
Into == {a \in chart.arrows : Kind(a.target) = Customer}

PolicyOf(a) ==
    [intent |-> Cell(a.target).intent, slots |-> Cell(a.target).slots,
     state |-> StateOf(a.source),
     params |-> ParamsAfter(a.target), outputs |-> OutputsAfter(a.target)]

AnyPolicy == {PolicyOf(a) : a \in Into}

\* The policies are those of the arrows into ellipses, and no others.
LEMMA PoliciesAre ==
    ASSUME Connected
    PROVE  /\ Policies \in Seq(AnyPolicy)
           /\ \A p : p \in ToSet(Policies) <=> \E a \in Into : p = PolicyOf(a)
  <1>1. PICK n \in Nat : Cells = 1..n
    BY Drawn DEF Connected
  <1>2. CellSeq \in Seq(Cells) /\ ToSet(CellSeq) = Cells
    <2>1. CellSeq = [c \in 1..n |-> c]
      BY <1>1 DEF CellSeq, Cells
    <2> QED BY <1>1, <2>1 DEF ToSet
  <1> DEFINE Ellipses == {c \in Cells : Kind(c) = Customer}
  <1>3. PICK ellipses : ellipses = Kept(CellSeq, Ellipses)
    OBVIOUS
  <1>4. ellipses \in Seq(Cells) /\ ToSet(ellipses) = Ellipses
    BY <1>2, <1>3, KeptIs
  <1>5. PICK lists : lists = [k \in DOMAIN ellipses |-> PoliciesOf(ellipses[k])]
    OBVIOUS
  <1>6. Policies = FlattenSeq(lists)
    BY <1>3, <1>5 DEF Policies, Cells, Kind
  <1>7. ASSUME NEW e \in Ellipses
        PROVE  /\ PoliciesOf(e) \in Seq(AnyPolicy)
               /\ \A p : p \in ToSet(PoliciesOf(e)) <=>
                           \E a \in Into : a.target = e /\ p = PolicyOf(a)
    <2>1. PICK arrows \in Seq(chart.arrows) : arrows = FromNodes(e)
      BY NodesAre
    <2>2. \A a : (\E k \in DOMAIN arrows : a = arrows[k]) <=> a \in Into /\ a.target = e
      <3>1. ToSet(arrows) = {a \in chart.arrows : a.target = e}
        BY <2>1, NodesAre
      <3> QED BY <3>1 DEF ToSet, Into
    <2>3. PICK list : list = [k \in DOMAIN arrows |-> PolicyOf(arrows[k])]
      OBVIOUS
    <2>4. ASSUME NEW k \in DOMAIN arrows
          PROVE  PolicyOf(arrows[k]) =
                    [intent |-> Cell(e).intent, slots |-> Cell(e).slots,
                     state |-> StateOf(arrows[k].source),
                     params |-> ParamsAfter(e), outputs |-> OutputsAfter(e)]
      <3>1. arrows[k].target = e
        BY <2>2
      <3> QED BY <3>1, Zenon DEF PolicyOf
    <2>5. PoliciesOf(e) = [k \in DOMAIN arrows |->
                    [intent |-> Cell(e).intent, slots |-> Cell(e).slots,
                     state |-> StateOf(arrows[k].source),
                     params |-> ParamsAfter(e), outputs |-> OutputsAfter(e)]]
      BY <2>1, Zenon DEF PoliciesOf
    <2>6. PoliciesOf(e) = list
      BY <2>3, <2>4, <2>5, Zenon
    <2>7. list \in [DOMAIN arrows -> AnyPolicy]
      BY <2>2, <2>3 DEF AnyPolicy
    <2>8. list \in Seq(AnyPolicy) /\ DOMAIN list = DOMAIN arrows
      BY <2>1, <2>7, ListOf
    <2>9. ASSUME NEW p
          PROVE  p \in ToSet(list) <=> \E a \in Into : a.target = e /\ p = PolicyOf(a)
      <3>1. p \in ToSet(list) <=> \E k \in DOMAIN arrows : p = PolicyOf(arrows[k])
        BY <2>3, <2>8, Zenon DEF ToSet
      <3> QED BY <2>2, <3>1, Zenon
    <2> QED BY <2>6, <2>8, <2>9
  <1>8. \A k \in DOMAIN ellipses : ellipses[k] \in Ellipses
    BY <1>4 DEF ToSet
  <1>9. lists \in Seq(Seq(AnyPolicy)) /\ DOMAIN lists = DOMAIN ellipses
    <2>1. lists \in [DOMAIN ellipses -> Seq(AnyPolicy)]
      BY <1>5, <1>7, <1>8
    <2> QED BY <1>4, <2>1, ListOf
  <1>10. /\ FlattenSeq(lists) \in Seq(AnyPolicy)
         /\ \A p : p \in ToSet(FlattenSeq(lists)) <=> \E k \in DOMAIN lists : p \in ToSet(lists[k])
    BY <1>9, FlattenIs
  <1>11. ASSUME NEW p
         PROVE  p \in ToSet(FlattenSeq(lists)) <=> \E a \in Into : p = PolicyOf(a)
    <2>1. p \in ToSet(FlattenSeq(lists)) <=>
              \E k \in DOMAIN ellipses : p \in ToSet(PoliciesOf(ellipses[k]))
      BY <1>5, <1>9, <1>10
    <2>2. \A e : e \in Ellipses <=> \E k \in DOMAIN ellipses : e = ellipses[k]
      BY <1>4 DEF ToSet
    <2>3. \A a \in Into : a.target \in Ellipses
      BY Drawn DEF Into, Connected
    <2> HIDE DEF Ellipses
    <2>4. p \in ToSet(FlattenSeq(lists)) <=> \E e \in Ellipses : p \in ToSet(PoliciesOf(e))
      BY <2>1, <2>2
    <2>5. (\E e \in Ellipses : p \in ToSet(PoliciesOf(e))) <=> \E a \in Into : p = PolicyOf(a)
      BY <1>7, <2>3, Zenon
    <2> QED BY <2>4, <2>5
  <1> QED BY <1>6, <1>10, <1>11

\* The candidates are the policies of the arrows into ellipses of the intent.
LEMMA CandidatesAre ==
    ASSUME Connected, NEW intent
    PROVE  /\ Candidates(intent) \in Seq(AnyPolicy)
           /\ \A p : p \in ToSet(Candidates(intent)) <=>
                       \E a \in Into : Cell(a.target).intent = intent /\ p = PolicyOf(a)
  <1>1. Policies \in Seq(AnyPolicy)
        /\ \A p : p \in ToSet(Policies) <=> \E a \in Into : p = PolicyOf(a)
    BY PoliciesAre
  <1>2. PICK S : S = {p \in ToSet(Policies) : p.intent = intent}
    OBVIOUS
  <1>3. Candidates(intent) = Kept(Policies, S)
    BY <1>2 DEF Candidates
  <1>4. Candidates(intent) \in Seq(AnyPolicy)
        /\ ToSet(Candidates(intent)) = ToSet(Policies) \intersect S
    BY <1>1, <1>3, KeptIs
  <1>5. \A a : PolicyOf(a).intent = Cell(a.target).intent
    BY DEF PolicyOf
  <1>6. ASSUME NEW p
        PROVE  p \in ToSet(Candidates(intent)) <=>
                  \E a \in Into : Cell(a.target).intent = intent /\ p = PolicyOf(a)
    <2>1. p \in ToSet(Candidates(intent)) <=> p \in ToSet(Policies) /\ p.intent = intent
      BY <1>2, <1>4
    <2> QED BY <1>1, <1>5, <2>1, Zenon
  <1> QED BY <1>4, <1>6
-----------------------------------------------------------------------------
(* Types.                                                                  *)

\* An output after an ellipse goes to the bot cell that the ellipse leads to,
\* or to the one that an arrow out of the rhombus leads to.
LEMMA OutputIs ==
    ASSUME Connected, NEW e \in Cells, Kind(e) = Customer,
           NEW w \in chart.arrows, ArrowsFrom(chart, e) = {w}, w.source = e,
           NEW x \in ToSet(OutputsAfter(e))
    PROVE  /\ x.cell \in Cells /\ Kind(x.cell) = Server /\ x.state = StateOf(x.cell)
           /\ \/ Kind(w.target) = Server /\ x = OutputTo(w.target, <<>>)
              \/ /\ Kind(w.target) = Judge
                 /\ \E a \in ArrowsFrom(chart, w.target) :
                      /\ x \in ToSet(OutputsOfArrow(a))
                      /\ x.cell = a.target
  <1>1. chart \in Charts /\ w.target \in Cells
    BY Drawn DEF Connected
  <1>2. Kind(w.target) \in {Server, Judge}
    BY <1>1, Ways, Drawn
  <1>3. \A b, assertions : /\ OutputTo(b, assertions).cell = b
                           /\ OutputTo(b, assertions).state = StateOf(b)
    BY DEF OutputTo
  <1>4. CASE Kind(w.target) = Server
    <2>1. OutputsAfter(e) = <<OutputTo(w.target, <<>>)>>
      BY <1>4, OutputsAre
    <2>2. PICK y : y = OutputTo(w.target, <<>>)
      OBVIOUS
    <2>3. x = y
      BY <2>1, <2>2 DEF ToSet
    <2> QED BY <1>1, <1>3, <1>4, <2>2, <2>3
  <1>5. CASE Kind(w.target) = Judge
    <2>1. PICK a \in ArrowsFrom(chart, w.target) : x \in ToSet(OutputsOfArrow(a))
      BY <1>5, OutputsAre
    <2>2. a \in chart.arrows /\ a.source = w.target
      BY <2>1 DEF ArrowsFrom
    <2>3. Kind(a.target) = Server /\ a.target \in Cells
      BY <1>1, <1>5, <2>2, Ways, Drawn
    <2>4. \E assertions : x = OutputTo(a.target, assertions)
      <3>1. CASE a.condition.op = "or"
        <4>1. PICK i \in DOMAIN a.condition.atoms :
                    x = OutputTo(a.target, <<a.condition.atoms[i]>>)
          BY <1>1, <2>1, <2>2, <3>1, ArrowOutputsAre
        <4> QED BY <4>1, Zenon
      <3>2. CASE a.condition.op # "or"
        BY <1>1, <2>1, <2>2, <3>2, ArrowOutputsAre
      <3> QED BY <3>1, <3>2
    <2>5. x.cell = a.target /\ x.state = StateOf(a.target)
      BY <1>3, <2>4
    <2> QED BY <1>5, <2>1, <2>3, <2>5
  <1> QED BY <1>2, <1>4, <1>5

\* The policy that is selected for an intent is that of an arrow into an ellipse.
LEMMA SelectedIs ==
    ASSUME Connected, NEW intent, NEW policy \in SelectedFor(intent)
    PROVE  /\ \E a \in Into : Cell(a.target).intent = intent /\ policy = PolicyOf(a)
           /\ Fits(policy, session, turn.slots)
           /\ \A q \in ToSet(Candidates(intent)) :
                Fits(q, session, turn.slots) => ~ Outranks(q, policy)
  <1>1. PICK vec \in Seq(AnyPolicy) : vec = Candidates(intent)
    BY CandidatesAre
  <1>2. PICK k \in DOMAIN vec : policy = vec[k] /\ IsBestAt(vec, k, session, turn.slots)
    BY <1>1 DEF SelectedFor
  <1>3. policy \in ToSet(Candidates(intent))
    BY <1>1, <1>2 DEF ToSet
  <1>4. ASSUME NEW q \in ToSet(Candidates(intent)), Fits(q, session, turn.slots)
        PROVE  ~ Outranks(q, policy)
    <2>1. PICK j \in DOMAIN vec : q = vec[j]
      BY <1>1 DEF ToSet
    <2> QED BY <1>2, <1>4, <2>1 DEF IsBestAt
  <1> QED BY <1>2, <1>3, <1>4, CandidatesAre DEF IsBestAt

\* The policy that is selected is one of an ellipse.
LEMMA SelectedOfEllipse ==
    ASSUME Connected, NEW policy \in Selected
    PROVE  \E a \in Into : policy = PolicyOf(a)
  <1>1. policy \in SelectedFor(turn.intent) \/ policy \in SelectedFor(Fallback)
    BY DEF Selected
  <1> QED BY <1>1, SelectedIs

\* The states of the policies are those of bot cells, or none.
LEMMA PoliciesTyped ==
    Connected => \A policy \in ToSet(Policies) : policy.state \in BotStates \union {NoState}
  <1> SUFFICES ASSUME Connected, NEW policy \in ToSet(Policies)
               PROVE  policy.state \in BotStates \union {NoState}
    OBVIOUS
  <1>1. PICK a \in Into : policy = PolicyOf(a)
    BY PoliciesAre
  <1>2. policy.state = StateOf(a.source)
    BY <1>1 DEF PolicyOf
  <1>3. a.source = Nowhere \/ (a.source \in Cells /\ Kind(a.source) = Server)
    BY IntoEllipse DEF Into, Connected
  <1>4. CASE a.source = Nowhere
    BY <1>2, <1>4 DEF StateOf
  <1>5. CASE a.source \in Cells /\ Kind(a.source) = Server
    BY <1>2, <1>5 DEF BotStates, BotCells, Cells, Kind
  <1> QED BY <1>3, <1>4, <1>5

\* The values are texts.
LEMMA ValuesAreTexts ==
    ASSUME chart \in Charts, session \in Text, turn \in Turns,
           \A n \in DOMAIN context : context[n] \in Text,
           NEW params \in Seq(AnyParam), Consistent(params), NEW n \in DOMAIN Values(params)
    PROVE  Values(params)[n] \in Text
  <1>1. CASE n \in Names(params)
    <2>1. PICK p \in ToSet(params) : p.name = n
      BY <1>1, ValuesAre
    <2>2. Values(params)[n] = ValueOf(p)
      BY <2>1, ValuesAre
    <2>3. p \in AnyParam
      <3>1. PICK i \in DOMAIN params : p = params[i]
        BY DEF ToSet
      <3> QED BY <3>1, LenProperties, ElementOfSeq
    <2>4. p.source \in Source \union {SessionState}
      BY <2>3, Drawn DEF AnyParam
    <2>5. turn.world \in [Source -> Text]
      BY TurnsAssumption
    <2> QED BY <2>2, <2>4, <2>5 DEF ValueOf
  <1>2. CASE n \notin Names(params)
    BY <1>2, ValuesAre
  <1> QED BY <1>1, <1>2

\* The state and the context of a session that are made of texts.
LEMMA TextsAfter ==
    ASSUME NEW values, \A n \in DOMAIN values : values[n] \in Text,
           NEW state \in StateOrNone, NamesIn(state) \subseteq DOMAIN values
    PROVE  /\ Resolved(state, values) \in Text
           /\ DOMAIN ContextAfter(values) \subseteq SessionNames
           /\ \A n \in DOMAIN ContextAfter(values) : ContextAfter(values)[n] \in Text
           /\ NamesIn(state) = {} => Resolved(state, values) = state
  <1>1. Resolved(state, values) \in Text
    <2>1. CASE state \in DOMAIN Template
      BY <2>1 DEF NamesIn, Resolved
    <2>2. CASE state \notin DOMAIN Template
      BY <2>2, TextsAssumption DEF Resolved
    <2> QED BY <2>1, <2>2
  <1>2. DOMAIN ContextAfter(values) \subseteq SessionNames
    BY DEF ContextAfter, SessionNames
  <1>3. \A n \in DOMAIN ContextAfter(values) : ContextAfter(values)[n] \in Text
    BY TextsAssumption DEF ContextAfter
  <1>4. NamesIn(state) = {} => Resolved(state, values) = state
    BY DEF NamesIn, Resolved
  <1> QED BY <1>1, <1>2, <1>3, <1>4

\* An answer puts the session in the state of the bot cell that gives it, with
\* the values of the policy's parameters in it.
LEMMA AnswerIs ==
    ASSUME TypeOK, Answer
    PROVE  /\ reply'.cell \in BotCells
           /\ NamesIn(StateOf(reply'.cell)) = {} => session' = StateOf(reply'.cell)
           /\ session' \in Text /\ DOMAIN context' \subseteq SessionNames
           /\ \A n \in DOMAIN context' : context'[n] \in Text
  <1>1. PICK policy \in Selected : \E k \in DOMAIN policy.outputs :
            /\ CanBeFilled(policy.outputs[k], Values(policy.params))
            /\ session' = Resolved(policy.outputs[k].state, Values(policy.params))
            /\ context' = ContextAfter(Values(policy.params))
            /\ reply' = [cell |-> policy.outputs[k].cell,
                         values |-> [n \in Cell(policy.outputs[k].cell).shows |->
                                        Values(policy.params)[n]]]
    BY DEF Answer
  <1>2. PICK k \in DOMAIN policy.outputs :
            /\ CanBeFilled(policy.outputs[k], Values(policy.params))
            /\ session' = Resolved(policy.outputs[k].state, Values(policy.params))
            /\ context' = ContextAfter(Values(policy.params))
            /\ reply'.cell = policy.outputs[k].cell
    BY <1>1
  <1>3. Connected
    BY DEF TypeOK, Connected
  <1>4. PICK a \in Into : policy = PolicyOf(a)
    BY <1>3, SelectedOfEllipse
  <1>5. PICK e : e = a.target
    OBVIOUS
  <1>6. e \in Cells /\ Kind(e) = Customer
    BY <1>3, <1>5, Drawn DEF Into, Connected
  <1>7. PICK w \in chart.arrows : ArrowsFrom(chart, e) = {w} /\ w.source = e
    BY <1>3, <1>6, OneWay DEF Connected
  <1>8. policy.outputs = OutputsAfter(e) /\ policy.params = ParamsAfter(e)
    BY <1>4, <1>5 DEF PolicyOf
  <1>9. policy.outputs[k] \in ToSet(OutputsAfter(e))
    BY <1>8 DEF ToSet
  <1>10. PICK x : x = policy.outputs[k]
    OBVIOUS
  <1>11. x.cell \in Cells /\ Kind(x.cell) = Server /\ x.state = StateOf(x.cell)
    BY <1>3, <1>6, <1>7, <1>9, <1>10, OutputIs
  <1>12. PICK values : values = Values(policy.params)
    OBVIOUS
  <1>13. \A n \in DOMAIN values : values[n] \in Text
    <2>1. ParamsAfter(e) \in Seq(AnyParam) /\ Consistent(ParamsAfter(e))
      BY <1>3, <1>6, <1>7, ParamsAre
    <2> QED BY <1>8, <1>12, <2>1, ValuesAreTexts DEF TypeOK
  <1>14. StateOf(x.cell) \in StateOrNone
    BY <1>3, <1>11, StateIs DEF Connected, StateOrNone
  <1>15. /\ CanBeFilled(x, values) /\ session' = Resolved(x.state, values)
         /\ context' = ContextAfter(values) /\ reply'.cell = x.cell
    BY <1>2, <1>10, <1>12
  <1>16. NamesIn(x.state) \subseteq DOMAIN values
    BY <1>15 DEF CanBeFilled
  <1>17. /\ Resolved(x.state, values) \in Text
         /\ DOMAIN ContextAfter(values) \subseteq SessionNames
         /\ \A n \in DOMAIN ContextAfter(values) : ContextAfter(values)[n] \in Text
         /\ NamesIn(x.state) = {} => Resolved(x.state, values) = x.state
    BY <1>11, <1>13, <1>14, <1>16, TextsAfter
  <1>18. x.cell \in BotCells
    BY <1>11 DEF BotCells, Cells, Kind
  <1> QED BY <1>11, <1>15, <1>17, <1>18

\* The state of a cell is that of the drawing, which does not change.
LEMMA SameStates ==
    ASSUME chart' = chart
    PROVE  /\ \A c : StateOf(c)' = StateOf(c)
           /\ BotCells' = BotCells /\ BotStates' = BotStates
  <1>1. \A c : Cell(c)' = Cell(c)
    BY DEF Cell
  <1>2. \A c : Unnamed(c)' = Unnamed(c)
    BY <1>1 DEF Unnamed
  <1>3. \A c : StateOf(c)' = StateOf(c)
    BY <1>1, <1>2 DEF StateOf
  <1>4. BotCells' = BotCells
    BY <1>1 DEF BotCells
  <1> QED BY <1>3, <1>4 DEF BotStates

\* compiler_xml.py, policy_manager.cpp: whatever the drawing and the order in
\* which the compiler has met its arrows, the session holds texts only, its
\* state is that of the bot cell that answered last unless the STATE line of
\* that cell is a template, and every policy is for the state of a bot cell or
\* for any.
THEOREM TypeCorrect == Spec => []TypeOK
  <1>1. Init => TypeOK
    <2> SUFFICES ASSUME Init
                 PROVE  TypeOK
      OBVIOUS
    <2>1. Connected
      BY DEF Init, Connected
    <2>2. turn \in Turns
      BY TurnsAssumption DEF Init
    <2>3. \A policy \in ToSet(Policies) : policy.state \in BotStates \union {NoState}
      BY <2>1, PoliciesTyped
    <2>4. session \in Text
      BY TextsAssumption DEF Init, StateOrNone
    <2>5. DOMAIN context = {}
      BY DEF Init
    <2> QED BY <2>2, <2>3, <2>4, <2>5 DEF Init, TypeOK
  <1>2. TypeOK /\ [Next]_vars => TypeOK'
    <2> SUFFICES ASSUME TypeOK, [Next]_vars
                 PROVE  TypeOK'
      OBVIOUS
    <2>1. chart' = chart /\ order' = order
      BY DEF Next, Answer, NoAnswer, Say, vars
    <2>2. Connected /\ Connected'
      BY <2>1 DEF TypeOK, Connected
    <2>3. (Connected => \A policy \in ToSet(Policies) :
                            policy.state \in BotStates \union {NoState})'
      BY PoliciesTyped, PTL
    <2>4. /\ \A c : StateOf(c)' = StateOf(c)
          /\ BotCells' = BotCells /\ BotStates' = BotStates
      BY <2>1, SameStates
    <2>5. /\ turn' \in Turns /\ pc' \in {"user", "bot"}
          /\ session' \in Text /\ DOMAIN context' \subseteq SessionNames
          /\ \A n \in DOMAIN context' : context'[n] \in Text
          /\ reply' # NoReply =>
               /\ reply'.cell \in BotCells
               /\ NamesIn(StateOf(reply'.cell)) = {} => session' = StateOf(reply'.cell)
      <3>1. CASE Answer
        <4>1. turn' = turn /\ pc' = "user"
          BY <3>1 DEF Answer
        <4> QED BY <3>1, <4>1, AnswerIs DEF TypeOK
      <3>2. CASE NoAnswer
        BY <3>2 DEF NoAnswer, TypeOK
      <3>3. CASE \E t \in Turns : Say(t)
        BY <3>3 DEF Say, TypeOK
      <3>4. CASE UNCHANGED vars
        BY <3>4 DEF vars, TypeOK
      <3> QED BY <3>1, <3>2, <3>3, <3>4 DEF Next
    <2>6. reply' # NoReply =>
            /\ reply'.cell \in BotCells'
            /\ NamesIn(StateOf(reply.cell))' = {} => session' = StateOf(reply.cell)'
      <3>1. StateOf(reply.cell)' = StateOf(reply'.cell)
        BY <2>1 DEF StateOf, Unnamed, Cell
      <3>2. NamesIn(StateOf(reply.cell))' = NamesIn(StateOf(reply'.cell))
        BY <3>1 DEF NamesIn
      <3> QED BY <2>4, <2>5, <3>1, <3>2
    <2>7. chart' \in Charts /\ order' \in SetToSeqs(chart'.arrows)
      BY <2>1 DEF TypeOK
    <2>8. \A policy \in ToSet(Policies)' : policy.state \in BotStates' \union {NoState}
      BY <2>2, <2>3
    <2> QED BY <2>5, <2>6, <2>7, <2>8 DEF TypeOK
  <1> QED BY <1>1, <1>2, PTL DEF Spec
-----------------------------------------------------------------------------
(* The dialog follows the chart: the ellipse.                              *)

\* The chart's words are the compiler's.
LEMMA Vocabulary ==
    /\ Chart!Server = Server /\ Chart!Judge = Judge
    /\ \A c : Chart!Cell(c) = Cell(c)
    /\ \A c : Chart!ArrowsFrom(chart, c) = ArrowsFrom(chart, c)
    /\ \A params : Chart!Names(params) = Names(params)
    /\ \A slots, supplied :
         Chart!SlotsSupplied(slots, supplied) <=> SlotsSupplied(slots, supplied)
  <1>1. Chart!Server = Server /\ Chart!Judge = Judge
    BY DEF Chart!Server, Chart!Judge, Server, Judge
  <1>2. \A c : Chart!Cell(c) = Cell(c)
    BY DEF Chart!Cell, Cell
  <1>3. \A c : Chart!ArrowsFrom(chart, c) = ArrowsFrom(chart, c)
    BY DEF Chart!ArrowsFrom, ArrowsFrom
  <1>4. \A params : Chart!Names(params) = Names(params)
    BY DEF Chart!Names, Names
  <1>5. \A s, list : Chart!Occurrences(s, list) = Occurrences(s, list)
    BY Zenon DEF Chart!Occurrences, Occurrences, Chart!Cardinality, Cardinality
  <1>6. ASSUME NEW slots, NEW supplied
        PROVE  Chart!SlotsSupplied(slots, supplied) <=> SlotsSupplied(slots, supplied)
    BY <1>5, Zenon DEF Chart!SlotsSupplied, SlotsSupplied
  <1> QED BY <1>1, <1>2, <1>3, <1>4, <1>6

\* So are the chart's templates.
LEMMA TemplateWords ==
    /\ \A state : Chart!NamesIn(state) = NamesIn(state)
    /\ \A state, values : Chart!Resolved(state, values) = Resolved(state, values)
    /\ \A values : Chart!ContextAfter(values) = ContextAfter(values)
  BY DEF Chart!NamesIn, NamesIn, Chart!Resolved, Resolved, Chart!ContextAfter, ContextAfter

\* Where the dialog is: the bot cells whose state the session has.
LEMMA PlacesAre ==
    ASSUME chart \in Charts, NEW c
    PROVE  c \in Chart!Places(session) <=>
             c \in Cells /\ Kind(c) = Server /\ session = StateOf(c)
  <1>1. PICK l : l = [b \in BotCells |-> StateOf(b)]
    OBVIOUS
  <1>2. DOMAIN l = BotCells /\ \A b \in BotCells : l[b] = StateOf(b)
    BY <1>1
  <1>3. Chart!Places(session) =
            IF session = NoState THEN {} ELSE {b \in DOMAIN l : l[b] = session}
    BY <1>1 DEF Chart!Places
  <1>4. \A b : b \in BotCells <=> b \in Cells /\ Kind(b) = Server
    BY DEF BotCells, Cells, Kind
  <1>5. \A b \in BotCells : StateOf(b) # NoState
    BY <1>4, StateIs, NoStateAssumption
  <1> QED BY <1>2, <1>3, <1>4, <1>5

\* The policy of an arrow into an ellipse fits where the arrow begins at a cell
\* the dialog is at, or at none, and it has a state in the first case only.
LEMMA PolicyFits ==
    ASSUME TypeOK, NEW a \in Into
    PROVE  /\ Fits(PolicyOf(a), session, turn.slots) <=>
                 /\ a.source = Nowhere \/ a.source \in Chart!Places(session)
                 /\ SlotsSupplied(Cell(a.target).slots, turn.slots)
           /\ PolicyOf(a).state = NoState <=> a.source = Nowhere
           /\ PolicyOf(a).slots = Cell(a.target).slots
           /\ Len(PolicyOf(a).slots) \in Nat
  <1>1. /\ PolicyOf(a).state = StateOf(a.source)
        /\ PolicyOf(a).slots = Cell(a.target).slots
    BY DEF PolicyOf
  <1>2. chart \in Charts /\ a \in chart.arrows
    BY DEF TypeOK, Into
  <1>3. a.source = Nowhere \/ (a.source \in Cells /\ Kind(a.source) = Server)
    BY <1>2, IntoEllipse DEF Into
  <1>4. StateOf(a.source) = NoState <=> a.source = Nowhere
    <2>1. Nowhere \notin Cells
      BY <1>2, Drawn
    <2>2. IF a.source \in Cells /\ Kind(a.source) = Server THEN StateOf(a.source) \in State
          ELSE StateOf(a.source) = NoState
      BY <1>2, <1>3, StateIs
    <2> QED BY <1>3, <2>1, <2>2, NoStateAssumption
  <1>5. StateOf(a.source) \in {NoState, session} <=>
            a.source = Nowhere \/ a.source \in Chart!Places(session)
    <2>1. a.source \in Chart!Places(session) <=>
            a.source \in Cells /\ Kind(a.source) = Server /\ session = StateOf(a.source)
      BY <1>2, PlacesAre
    <2> QED BY <1>3, <1>4, <2>1
  <1>6. Cell(a.target).slots \in Seq(Slot)
    BY <1>2, Drawn
  <1>7. Len(Cell(a.target).slots) \in Nat
    BY <1>6, LenProperties
  <1> QED BY <1>1, <1>4, <1>5, <1>7 DEF Fits

\* The chart's fitting ellipses, by arrows.
LEMMA FittingIs ==
    ASSUME chart \in Charts, NEW cells,
           \A c \in cells : c = Nowhere \/ c \in Chart!Places(session),
           NEW intent, NEW e
    PROVE  e \in Chart!Fitting(cells, intent) <=>
             \E a \in Into :
                /\ a.source \in cells /\ a.target = e /\ Cell(e).intent = intent
                /\ SlotsSupplied(Cell(e).slots, turn.slots)
  <1>1. ASSUME NEW a \in chart.arrows, a.source \in cells
        PROVE  a \in Into
    <2>1. a.source = Nowhere \/ (a.source \in Cells /\ Kind(a.source) = Server)
      BY <1>1, PlacesAre
    <2> QED BY <1>1, <2>1, Ways DEF Into
  <1>2. e \in Chart!Fitting(cells, intent) <=>
            \E a \in chart.arrows :
                /\ a.source \in cells
                /\ Cell(a.target).intent = intent
                /\ SlotsSupplied(Cell(a.target).slots, turn.slots)
                /\ e = a.target
    BY Vocabulary, Zenon DEF Chart!Fitting
  <1> QED BY <1>1, <1>2 DEF Into

\* The two sets of ellipses among which the chart chooses for an intent.
LEMMA NearestIs ==
    ASSUME chart \in Charts, NEW intent, NEW e
    PROVE  /\ e \in Chart!Fitting(Chart!Places(session), intent) <=>
                \E a \in Into :
                    /\ a.source \in Chart!Places(session) /\ a.target = e
                    /\ Cell(e).intent = intent
                    /\ SlotsSupplied(Cell(e).slots, turn.slots)
           /\ e \in Chart!Fitting({Nowhere}, intent) <=>
                \E a \in Into :
                    /\ a.source = Nowhere /\ a.target = e
                    /\ Cell(e).intent = intent
                    /\ SlotsSupplied(Cell(e).slots, turn.slots)
  <1>1. PICK here : here = Chart!Places(session)
    OBVIOUS
  <1>2. e \in Chart!Fitting(here, intent) <=>
                \E a \in Into :
                    /\ a.source \in here /\ a.target = e
                    /\ Cell(e).intent = intent
                    /\ SlotsSupplied(Cell(e).slots, turn.slots)
    BY <1>1, FittingIs
  <1>3. PICK none : none = {Nowhere}
    OBVIOUS
  <1>4. e \in Chart!Fitting(none, intent) <=>
                \E a \in Into :
                    /\ a.source \in none /\ a.target = e
                    /\ Cell(e).intent = intent
                    /\ SlotsSupplied(Cell(e).slots, turn.slots)
    BY <1>3, FittingIs
  <1> QED BY <1>1, <1>2, <1>3, <1>4

\* The policy that is selected for an intent is that of a nearest ellipse of
\* this intent, and one with the most slots.
LEMMA SelectedIsNearest ==
    ASSUME TypeOK, NEW intent, NEW policy \in SelectedFor(intent)
    PROVE  \E a \in Into :
             /\ policy = PolicyOf(a) /\ a.target \in Chart!NearestFitting(intent)
             /\ \A f \in Chart!NearestFitting(intent) :
                  Len(Cell(f).slots) <= Len(Cell(a.target).slots)
  <1>1. Connected
    BY DEF TypeOK, Connected
  <1>2. /\ \E a \in Into : Cell(a.target).intent = intent /\ policy = PolicyOf(a)
        /\ Fits(policy, session, turn.slots)
        /\ \A q \in ToSet(Candidates(intent)) :
             Fits(q, session, turn.slots) => ~ Outranks(q, policy)
    BY <1>1, SelectedIs
  <1>3. PICK a \in Into : Cell(a.target).intent = intent /\ policy = PolicyOf(a)
    BY <1>2
  <1>4. PICK here : here = Chart!Fitting(Chart!Places(session), intent)
    OBVIOUS
  <1>5. PICK anew : anew = Chart!Fitting({Nowhere}, intent)
    OBVIOUS
  <1>6. Chart!NearestFitting(intent) = IF here # {} THEN here ELSE anew
    BY <1>4, <1>5 DEF Chart!NearestFitting, Chart!Places
  <1>7. ASSUME NEW b \in Into, Cell(b.target).intent = intent,
               b.source = Nowhere \/ b.source \in Chart!Places(session),
               SlotsSupplied(Cell(b.target).slots, turn.slots)
        PROVE  /\ b.source # Nowhere => a.source # Nowhere
               /\ (b.source = Nowhere <=> a.source = Nowhere) =>
                      Len(Cell(b.target).slots) <= Len(Cell(a.target).slots)
    <2>1. PolicyOf(b) \in ToSet(Candidates(intent))
      BY <1>1, <1>7, CandidatesAre
    <2>2. Fits(PolicyOf(b), session, turn.slots)
      BY <1>7, PolicyFits
    <2>3. ~ Outranks(PolicyOf(b), PolicyOf(a))
      BY <1>2, <1>3, <2>1, <2>2
    <2>4. /\ PolicyOf(b).state = NoState <=> b.source = Nowhere
          /\ PolicyOf(b).slots = Cell(b.target).slots /\ Len(Cell(b.target).slots) \in Nat
      BY PolicyFits
    <2>5. /\ PolicyOf(a).state = NoState <=> a.source = Nowhere
          /\ PolicyOf(a).slots = Cell(a.target).slots /\ Len(Cell(a.target).slots) \in Nat
      BY PolicyFits
    <2> QED BY <2>3, <2>4, <2>5 DEF Outranks
  <1>8. /\ a.source = Nowhere \/ a.source \in Chart!Places(session)
        /\ SlotsSupplied(Cell(a.target).slots, turn.slots)
    BY <1>2, <1>3, PolicyFits
  <1>9. chart \in Charts /\ Nowhere \notin Cells
    BY Drawn DEF TypeOK
  <1>10. ASSUME NEW f
         PROVE  /\ f \in here <=> \E b \in Into :
                        /\ b.source \in Chart!Places(session) /\ b.target = f
                        /\ Cell(f).intent = intent
                        /\ SlotsSupplied(Cell(f).slots, turn.slots)
                /\ f \in anew <=> \E b \in Into :
                        /\ b.source = Nowhere /\ b.target = f
                        /\ Cell(f).intent = intent
                        /\ SlotsSupplied(Cell(f).slots, turn.slots)
    BY <1>4, <1>5, <1>9, NearestIs
  <1>11. Nowhere \notin Chart!Places(session)
    BY <1>9, PlacesAre
  <1>12. CASE here # {}
    <2>1. a.source \in Chart!Places(session)
      BY <1>7, <1>8, <1>10, <1>11, <1>12
    <2>2. a.target \in here
      BY <1>3, <1>8, <1>10, <2>1
    <2>3. \A f \in here : Len(Cell(f).slots) <= Len(Cell(a.target).slots)
      BY <1>7, <1>10, <1>11, <2>1
    <2> QED BY <1>3, <1>6, <1>12, <2>2, <2>3
  <1>13. CASE here = {}
    <2>1. a.source = Nowhere
      BY <1>3, <1>8, <1>10, <1>13
    <2>2. a.target \in anew
      BY <1>3, <1>8, <1>10, <2>1
    <2>3. \A f \in anew : Len(Cell(f).slots) <= Len(Cell(a.target).slots)
      BY <1>7, <1>10, <2>1
    <2> QED BY <1>3, <1>6, <1>13, <2>2, <2>3
  <1> QED BY <1>12, <1>13

\* Where there is an ellipse of an intent, a policy is selected for it.
LEMMA NearestIsSelected ==
    ASSUME TypeOK, NEW intent, Chart!NearestFitting(intent) # {}
    PROVE  SelectedFor(intent) # {}
  <1>1. Connected
    BY DEF TypeOK, Connected
  <1>2. PICK a \in Into : /\ a.source = Nowhere \/ a.source \in Chart!Places(session)
                          /\ Cell(a.target).intent = intent
                          /\ SlotsSupplied(Cell(a.target).slots, turn.slots)
    <2>1. PICK here : here = Chart!Fitting(Chart!Places(session), intent)
      OBVIOUS
    <2>2. PICK anew : anew = Chart!Fitting({Nowhere}, intent)
      OBVIOUS
    <2>3. Chart!NearestFitting(intent) = IF here # {} THEN here ELSE anew
      BY <2>1, <2>2 DEF Chart!NearestFitting, Chart!Places
    <2>4. PICK e : e \in here \/ e \in anew
      BY <2>3
    <2>5. /\ e \in here <=> \E a \in Into :
                /\ a.source \in Chart!Places(session) /\ a.target = e
                /\ Cell(e).intent = intent /\ SlotsSupplied(Cell(e).slots, turn.slots)
          /\ e \in anew <=> \E a \in Into :
                /\ a.source = Nowhere /\ a.target = e
                /\ Cell(e).intent = intent /\ SlotsSupplied(Cell(e).slots, turn.slots)
      BY <1>1, <2>1, <2>2, NearestIs DEF Connected
    <2> QED BY <2>4, <2>5
  <1>3. Fits(PolicyOf(a), session, turn.slots) /\ PolicyOf(a) \in ToSet(Candidates(intent))
    BY <1>1, <1>2, PolicyFits, CandidatesAre
  <1>4. PICK vec \in Seq(AnyPolicy) : vec = Candidates(intent)
    BY <1>1, CandidatesAre
  <1>5. \A i \in DOMAIN vec : IsTrigger(vec[i])
    <2> SUFFICES ASSUME NEW i \in DOMAIN vec
                 PROVE  IsTrigger(vec[i])
      OBVIOUS
    <2>1. vec[i] \in AnyPolicy
      BY <1>4, LenProperties, ElementOfSeq
    <2>2. PICK b \in Into : vec[i] = PolicyOf(b)
      BY <2>1 DEF AnyPolicy
    <2> QED BY <2>2, PolicyFits DEF IsTrigger
  <1>6. PICK f \in DOMAIN vec : Fits(vec[f], session, turn.slots)
    BY <1>3, <1>4 DEF ToSet
  <1>7. PICK k : IsBestAt(vec, k, session, turn.slots)
    BY <1>4, <1>5, <1>6, BestExists
  <1>8. k \in DOMAIN vec
    BY <1>7 DEF IsBestAt
  <1> QED BY <1>4, <1>7, <1>8 DEF SelectedFor

\* The policy that DMKit selects is that of an ellipse the dialog may take, and
\* where there is such an ellipse, DMKit selects one.
LEMMA SelectedIsHeard ==
    ASSUME TypeOK
    PROVE  /\ \A policy \in Selected :
                \E a \in Into : policy = PolicyOf(a) /\ a.target \in Chart!Heard
           /\ Selected = {} => Chart!Heard = {}
  <1>1. ASSUME NEW intent
        PROVE  SelectedFor(intent) = {} <=> Chart!NearestFitting(intent) = {}
    BY SelectedIsNearest, NearestIsSelected
  <1>2. PICK fitting : fitting =
            IF Chart!NearestFitting(turn.intent) # {} THEN Chart!NearestFitting(turn.intent)
            ELSE Chart!NearestFitting(Fallback)
    OBVIOUS
  <1>3. Chart!Heard =
            {e \in fitting : \A f \in fitting : Len(Cell(f).slots) <= Len(Cell(e).slots)}
    BY <1>2, Vocabulary DEF Chart!Heard
  <1>4. PICK intent : /\ Selected = SelectedFor(intent)
                      /\ fitting = Chart!NearestFitting(intent)
    <2>1. CASE SelectedFor(turn.intent) # {}
      BY <1>1, <1>2, <2>1 DEF Selected
    <2>2. CASE SelectedFor(turn.intent) = {}
      BY <1>1, <1>2, <2>2 DEF Selected
    <2> QED BY <2>1, <2>2
  <1>5. \A policy \in Selected :
            \E a \in Into : policy = PolicyOf(a) /\ a.target \in Chart!Heard
    BY <1>3, <1>4, SelectedIsNearest
  <1>6. Selected = {} => Chart!Heard = {}
    BY <1>1, <1>3, <1>4
  <1> QED BY <1>5, <1>6
-----------------------------------------------------------------------------
(* The dialog follows the chart: the bot cell.                             *)

\* The values of one list of parameters and those of a part of it are the same
\* for every name but those that only the rest gives.
LEMMA SameValue ==
    ASSUME NEW params \in Seq(AnyParam), Consistent(params),
           NEW given \in Seq(AnyParam), Consistent(given),
           ToSet(given) \subseteq ToSet(params),
           NEW n, n \in Names(params) => n \in Names(given)
    PROVE  /\ n \in DOMAIN Values(params) <=> n \in DOMAIN Chart!Values(given)
           /\ n \in DOMAIN Values(params) => Values(params)[n] = Chart!Values(given)[n]
  <1>1. /\ DOMAIN Values(params) = Names(params) \union DOMAIN context
        /\ DOMAIN Chart!Values(given) = Names(given) \union DOMAIN context
    BY ValuesAre
  <1>2. CASE n \in Names(given)
    <2>1. PICK p \in ToSet(given) : p.name = n
      BY <1>2, ValuesAre
    <2>2. p \in ToSet(params)
      OBVIOUS
    <2>3. n \in Names(params)
      BY <2>1, <2>2, ValuesAre
    <2>4. Values(params)[n] = ValueOf(p)
      BY <2>1, <2>2, ValuesAre
    <2>5. Chart!Values(given)[n] = ValueOf(p)
      BY <2>1, ValuesAre
    <2> QED BY <1>1, <1>2, <2>3, <2>4, <2>5
  <1>3. CASE n \notin Names(given)
    <2>1. n \notin Names(params)
      BY <1>3
    <2>2. n \in DOMAIN context =>
            Values(params)[n] = context[n] /\ Chart!Values(given)[n] = context[n]
      BY <1>3, <2>1, ValuesAre
    <2> QED BY <1>1, <1>3, <2>1, <2>2
  <1> QED BY <1>2, <1>3

\* The names that a bot cell uses, and values that are the same for it and for
\* the session.
Used(b) == Cell(b).shows \union NamesIn(StateOf(b))

SameUse(b, u, v) ==
    \A n \in Used(b) \union SessionNames :
        /\ n \in DOMAIN u <=> n \in DOMAIN v
        /\ n \in DOMAIN u => u[n] = v[n]

\* The parameters of a policy and those of the cells on the way to a bot cell
\* are the same for that cell.
LEMMA DirectWay ==
    ASSUME Connected, NEW e \in Cells, Kind(e) = Customer,
           NEW w \in chart.arrows, ArrowsFrom(chart, e) = {w}, w.source = e,
           Kind(w.target) = Server
    PROVE  SameUse(w.target, Values(ParamsAfter(e)), Chart!Values(Cell(w.target).params))
  <1>1. PICK params \in Seq(AnyParam) :
            /\ params = ParamsAfter(e) /\ Consistent(params)
            /\ params = Cell(w.target).params
    BY ParamsAre
  <1>2. \A n : /\ n \in DOMAIN Values(params) <=> n \in DOMAIN Chart!Values(params)
               /\ n \in DOMAIN Values(params) => Values(params)[n] = Chart!Values(params)[n]
    BY <1>1, SameValue
  <1> QED BY <1>1, <1>2 DEF SameUse

LEMMA BranchWay ==
    ASSUME Connected, NEW e \in Cells, Kind(e) = Customer,
           NEW w \in chart.arrows, ArrowsFrom(chart, e) = {w}, w.source = e,
           Kind(w.target) = Judge, NEW a \in ArrowsFrom(chart, w.target)
    PROVE  SameUse(a.target, Values(ParamsAfter(e)),
                   Chart!Values(Cell(w.target).params \o Cell(a.target).params))
  <1>1. chart \in Charts /\ w.target \in Cells /\ Nowhere \notin Cells
    BY Drawn DEF Connected
  <1>2. PICK params \in Seq(AnyParam) : params = ParamsAfter(e) /\ Consistent(params)
    BY ParamsAre
  <1>3. a \in chart.arrows /\ a.source = w.target
    BY DEF ArrowsFrom
  <1>4. a.target \in Cells /\ Kind(a.target) = Server
    BY <1>1, <1>3, Drawn, Ways
  <1>5. PICK joined : joined = Cell(w.target).params \o Cell(a.target).params
    OBVIOUS
  <1>6. /\ joined \in Seq(AnyParam)
        /\ ToSet(joined) = ToSet(Cell(w.target).params) \union ToSet(Cell(a.target).params)
    BY <1>1, <1>4, <1>5, ConcatSet, ParamsOfCell
  <1>7. \A p : p \in ToSet(params) <=>
                  \E c \in Through(w.target) : p \in ToSet(Cell(c).params)
    BY <1>2, ParamsAre
  <1>8. ToSet(joined) \subseteq ToSet(params)
    <2>1. w.target \in Through(w.target) /\ a.target \in Through(w.target)
      BY DEF Through
    <2> QED BY <1>6, <1>7, <2>1
  <1>9. Consistent(joined)
    BY <1>2, <1>8 DEF Consistent
  <1>10. ASSUME NEW d \in ArrowsFrom(chart, w.target)
         PROVE  /\ Used(d.target) \subseteq SessionNames \union Names(Cell(w.target).params)
                                           \union Names(Cell(d.target).params)
                /\ Names(Cell(d.target).params) \intersect SessionNames = {}
    <2>1. d \in chart.arrows /\ d.source = w.target
      BY DEF ArrowsFrom
    <2>2. d.target \in Cells /\ Kind(d.target) = Server
      BY <1>1, <2>1, Drawn, Ways
    <2>3. BranchesApart(chart)
      BY <1>1, ChartsAssumption
    <2>4. LET source == chart.cells[d.source]
              bot == chart.cells[d.target]
          IN  d.source # Nowhere /\ source.kind = Judge =>
                /\ bot.shows \union NamesIn(bot.state)
                     \subseteq SessionNames \union Names(source.params) \union Names(bot.params)
                /\ Names(bot.params) \intersect SessionNames = {}
      BY <2>1, <2>3, Zenon DEF BranchesApart
    <2>5. /\ Cell(d.target).shows \union NamesIn(Cell(d.target).state)
               \subseteq SessionNames \union Names(Cell(w.target).params)
                         \union Names(Cell(d.target).params)
          /\ Names(Cell(d.target).params) \intersect SessionNames = {}
      BY <1>1, <2>1, <2>4 DEF Cell, Kind
    <2>6. Used(d.target) = Cell(d.target).shows \union NamesIn(Cell(d.target).state)
      BY <1>1, <2>2, NamesInState DEF Used
    <2> QED BY <2>5, <2>6
  <1>11. ASSUME NEW c \in Cells, NEW n
         PROVE  n \in Names(Cell(c).params) <=> \E p \in ToSet(Cell(c).params) : p.name = n
    BY DEF Names, ToSet
  <1>12. ASSUME NEW n \in Used(a.target) \union SessionNames, n \in Names(params)
         PROVE  n \in Names(joined)
    <2>1. PICK p \in ToSet(params) : p.name = n
      BY <1>2, <1>12, ValuesAre
    <2>2. PICK c \in Through(w.target) : p \in ToSet(Cell(c).params)
      BY <1>7
    <2>3. c = w.target \/ \E d \in ArrowsFrom(chart, w.target) : c = d.target
      BY DEF Through
    <2>4. n \in Names(Cell(w.target).params) \/ n \in Names(Cell(a.target).params)
      <3>1. CASE c = w.target
        BY <1>1, <1>11, <2>1, <2>2, <3>1
      <3>2. CASE \E d \in ArrowsFrom(chart, w.target) : c = d.target
        <4>1. PICK d \in ArrowsFrom(chart, w.target) : c = d.target
          BY <3>2
        <4>2. c \in Cells
          BY <1>1, <4>1, Drawn DEF ArrowsFrom
        <4>3. n \in Names(Cell(d.target).params)
          BY <1>11, <2>1, <2>2, <4>1, <4>2
        <4>4. n \notin SessionNames
          BY <1>10, <4>3
        <4> QED BY <1>10, <1>12, <4>4
      <3> QED BY <2>3, <3>1, <3>2
    <2>5. \E q \in ToSet(joined) : q.name = n
      BY <1>1, <1>4, <1>6, <1>11, <2>4
    <2> QED BY <1>6, <1>9, <2>5, ValuesAre
  <1>13. \A n \in Used(a.target) \union SessionNames :
            /\ n \in DOMAIN Values(params) <=> n \in DOMAIN Chart!Values(joined)
            /\ n \in DOMAIN Values(params) => Values(params)[n] = Chart!Values(joined)[n]
    BY <1>2, <1>6, <1>8, <1>9, <1>12, SameValue
  <1>14. SameUse(a.target, Values(params), Chart!Values(joined))
    BY <1>13 DEF SameUse
  <1> QED BY <1>2, <1>5, <1>14

\* An output of an arrow out of a rhombus holds where the arrow's condition is
\* true: of ||, one for each way to make it true, of &&, one.
LEMMA HoldsIfTrue ==
    ASSUME Connected, NEW e \in Cells, Kind(e) = Customer,
           NEW w \in chart.arrows, ArrowsFrom(chart, e) = {w}, w.source = e,
           Kind(w.target) = Judge, NEW a \in ArrowsFrom(chart, w.target)
    PROVE  Chart!IsTrue(a.condition, Cell(w.target).params) <=>
             \E x \in ToSet(OutputsOfArrow(a)) : Holds(x, Values(ParamsAfter(e)))
  <1>1. chart \in Charts /\ w.target \in Cells /\ a \in chart.arrows /\ a.source = w.target
    BY Drawn DEF Connected, ArrowsFrom
  <1>2. PICK given : given = Cell(w.target).params
    OBVIOUS
  <1>3. PICK params : params = ParamsAfter(e)
    OBVIOUS
  <1>4. PICK atoms \in Seq(ToSet(a.condition.atoms)) : atoms = a.condition.atoms
    BY <1>1, Drawn
  <1>5. ASSUME NEW i \in DOMAIN atoms
        PROVE  /\ atoms[i].name \in DOMAIN Values(params)
               /\ Values(params)[atoms[i].name] = Chart!Values(given)[atoms[i].name]
    <2>1. atoms[i].name \in Names(given)
      BY <1>1, <1>2, <1>4, Ways DEF Names
    <2>2. given \in Seq(AnyParam) /\ Consistent(given)
      BY <1>1, <1>2, ParamsOfCell, CellConsistent
    <2>3. PICK p \in ToSet(given) : p.name = atoms[i].name
      BY <2>1, <2>2, ValuesAre
    <2>4. p \in ToSet(params)
      <3>1. w.target \in Through(w.target)
        BY DEF Through
      <3> QED BY <1>2, <1>3, <3>1, ParamsAre
    <2>5. params \in Seq(AnyParam) /\ Consistent(params)
      BY <1>3, ParamsAre
    <2>6. Values(params)[p.name] = ValueOf(p) /\ p.name \in DOMAIN Values(params)
      BY <2>4, <2>5, ValuesAre
    <2>7. Chart!Values(given)[p.name] = ValueOf(p)
      BY <2>2, ValuesAre
    <2> QED BY <2>3, <2>6, <2>7
  <1>6. PICK T : T = {i \in DOMAIN atoms : Chart!Values(given)[atoms[i].name] = atoms[i].value}
    OBVIOUS
  <1>7. \A assertions : OutputTo(a.target, assertions).assertions = assertions
    BY DEF OutputTo
  <1>8. CASE a.condition.op = "or"
    <2>1. Chart!IsTrue(a.condition, given) <=> \E i \in DOMAIN atoms : i \in T
      BY <1>4, <1>6, <1>8 DEF Chart!IsTrue
    <2>2. ASSUME NEW i \in DOMAIN atoms, NEW x, x = OutputTo(a.target, <<atoms[i]>>)
          PROVE  Holds(x, Values(params)) <=> i \in T
      <3>1. x.assertions = <<atoms[i]>>
        BY <1>7, <2>2
      <3>2. Holds(x, Values(params)) <=>
                /\ atoms[i].name \in DOMAIN Values(params)
                /\ Values(params)[atoms[i].name] = atoms[i].value
        BY <3>1 DEF Holds
      <3> QED BY <1>5, <1>6, <3>2
    <2>3. \A x : x \in ToSet(OutputsOfArrow(a)) <=>
                   \E i \in DOMAIN atoms : x = OutputTo(a.target, <<atoms[i]>>)
      BY <1>1, <1>4, <1>8, ArrowOutputsAre
    <2> QED BY <1>2, <1>3, <2>1, <2>2, <2>3
  <1>9. CASE a.condition.op # "or"
    <2>1. Chart!IsTrue(a.condition, given) <=> \A i \in DOMAIN atoms : i \in T
      BY <1>4, <1>6, <1>9 DEF Chart!IsTrue
    <2>2. PICK x : x = OutputTo(a.target, atoms)
      OBVIOUS
    <2>3. x.assertions = atoms
      BY <1>7, <2>2
    <2>4. Holds(x, Values(params)) <=> \A i \in DOMAIN atoms : i \in T
      BY <1>5, <1>6, <2>3 DEF Holds
    <2>5. ToSet(OutputsOfArrow(a)) = {x}
      BY <1>1, <1>4, <1>9, <2>2, ArrowOutputsAre
    <2> QED BY <1>2, <1>3, <2>1, <2>4, <2>5
  <1> QED BY <1>8, <1>9

\* The chart's ways on from an ellipse, by arrows.
LEMMA WaysAre ==
    ASSUME NEW e \in Cells, NEW w \in chart.arrows, ArrowsFrom(chart, e) = {w}
    PROVE  /\ Kind(w.target) = Server =>
                Chart!WaysFrom(e) = {[cell |-> w.target, params |-> Cell(w.target).params]}
           /\ Kind(w.target) # Server =>
                Chart!WaysFrom(e) =
                  {[cell |-> a.target,
                    params |-> Cell(w.target).params \o Cell(a.target).params] :
                     a \in {b \in ArrowsFrom(chart, w.target) :
                              Chart!IsTrue(b.condition, Cell(w.target).params)}}
  <1>1. (CHOOSE a \in Chart!ArrowsFrom(chart, e) : TRUE) = w
    BY Vocabulary
  <1>2. PICK params : params = Cell(w.target).params
    OBVIOUS
  <1>3. Chart!WaysFrom(e) =
            IF Chart!Cell(w.target).kind = Chart!Server
            THEN {[cell |-> w.target, params |-> Chart!Cell(w.target).params]}
            ELSE {[cell |-> a.target,
                   params |-> Chart!Cell(w.target).params \o Chart!Cell(a.target).params] :
                    a \in {b \in Chart!ArrowsFrom(chart, w.target) :
                             Chart!IsTrue(b.condition, Chart!Cell(w.target).params)}}
    BY <1>1, Zenon DEF Chart!WaysFrom
  <1>4. Chart!WaysFrom(e) =
            IF Kind(w.target) = Server THEN {[cell |-> w.target, params |-> params]}
            ELSE {[cell |-> a.target, params |-> params \o Cell(a.target).params] :
                    a \in {b \in ArrowsFrom(chart, w.target) :
                             Chart!IsTrue(b.condition, params)}}
    BY <1>2, <1>3, Vocabulary DEF Kind
  <1>5. ASSUME Kind(w.target) = Server
        PROVE  Chart!WaysFrom(e) = {[cell |-> w.target, params |-> params]}
    BY <1>4, <1>5, Zenon
  <1>6. ASSUME Kind(w.target) # Server
        PROVE  Chart!WaysFrom(e) =
                  {[cell |-> a.target, params |-> params \o Cell(a.target).params] :
                    a \in {b \in ArrowsFrom(chart, w.target) :
                             Chart!IsTrue(b.condition, params)}}
    BY <1>4, <1>6, Zenon
  <1> QED BY <1>2, <1>5, <1>6, Zenon

\* An output x for values u that goes where the chart has a way.
Matches(x, u, way) ==
    /\ way.cell = x.cell /\ x.cell \in BotCells /\ x.state = StateOf(x.cell)
    /\ SameUse(x.cell, u, Chart!Values(way.params))

\* An output that holds matches a way of the chart.
LEMMA OutputIsWay ==
    ASSUME Connected, NEW e \in Cells, Kind(e) = Customer,
           NEW x \in ToSet(OutputsAfter(e)), Holds(x, Values(ParamsAfter(e)))
    PROVE  \E way \in Chart!WaysFrom(e) : Matches(x, Values(ParamsAfter(e)), way)
  <1>1. PICK w \in chart.arrows : ArrowsFrom(chart, e) = {w} /\ w.source = e
    BY OneWay DEF Connected
  <1>2. PICK values : values = Values(ParamsAfter(e))
    OBVIOUS
  <1>3. x.cell \in BotCells /\ x.state = StateOf(x.cell)
    BY <1>1, OutputIs DEF BotCells, Cells, Kind
  <1>4. CASE Kind(w.target) = Server
    <2>1. x.cell = w.target
      <3>1. x = OutputTo(w.target, <<>>)
        BY <1>1, <1>4, OutputIs DEF Server, Judge
      <3> QED BY <3>1 DEF OutputTo
    <2>2. PICK way : way = [cell |-> w.target, params |-> Cell(w.target).params]
      OBVIOUS
    <2>3. way.cell = w.target /\ way.params = Cell(w.target).params
      BY <2>2
    <2>4. SameUse(w.target, values, Chart!Values(Cell(w.target).params))
      BY <1>1, <1>2, <1>4, DirectWay
    <2>5. Matches(x, values, way)
      BY <1>3, <2>1, <2>3, <2>4 DEF Matches
    <2>6. way \in Chart!WaysFrom(e)
      <3>1. Chart!WaysFrom(e) = {[cell |-> w.target, params |-> Cell(w.target).params]}
        BY <1>1, <1>4, WaysAre, Zenon
      <3> QED BY <2>2, <3>1, Zenon
    <2> QED BY <1>2, <2>5, <2>6
  <1>5. CASE Kind(w.target) = Judge
    <2>1. PICK a \in ArrowsFrom(chart, w.target) :
                x \in ToSet(OutputsOfArrow(a)) /\ x.cell = a.target
      BY <1>1, <1>5, OutputIs DEF Server, Judge
    <2>2. Chart!IsTrue(a.condition, Cell(w.target).params)
      BY <1>1, <1>5, <2>1, HoldsIfTrue
    <2>3. PICK params : params = Cell(w.target).params \o Cell(a.target).params
      OBVIOUS
    <2>4. PICK way : way = [cell |-> a.target, params |-> params]
      OBVIOUS
    <2>5. way.cell = a.target /\ way.params = params
      BY <2>4
    <2>6. SameUse(a.target, values, Chart!Values(params))
      BY <1>1, <1>2, <1>5, <2>3, BranchWay
    <2>7. Matches(x, values, way)
      BY <1>3, <2>1, <2>5, <2>6 DEF Matches
    <2>8. way \in Chart!WaysFrom(e)
      <3>1. Kind(w.target) # Server
        BY <1>5 DEF Server, Judge
      <3>2. Chart!WaysFrom(e) =
                {[cell |-> b.target,
                  params |-> Cell(w.target).params \o Cell(b.target).params] :
                   b \in {d \in ArrowsFrom(chart, w.target) :
                            Chart!IsTrue(d.condition, Cell(w.target).params)}}
        BY <1>1, <3>1, WaysAre, Zenon
      <3> QED BY <2>2, <2>3, <2>4, <3>2, Zenon
    <2> QED BY <1>2, <2>7, <2>8
  <1>6. Kind(w.target) \in {Server, Judge}
    BY <1>1, Ways, Drawn DEF Connected
  <1> QED BY <1>4, <1>5, <1>6

\* Where the chart has a way, an output holds.
LEMMA WayHasOutput ==
    ASSUME Connected, NEW e \in Cells, Kind(e) = Customer, Chart!WaysFrom(e) # {}
    PROVE  \E x \in ToSet(OutputsAfter(e)) : Holds(x, Values(ParamsAfter(e)))
  <1>1. PICK w \in chart.arrows : ArrowsFrom(chart, e) = {w} /\ w.source = e
    BY OneWay DEF Connected
  <1>2. CASE Kind(w.target) = Server
    <2>1. PICK x : x = OutputTo(w.target, <<>>)
      OBVIOUS
    <2>2. OutputsAfter(e) = <<x>>
      BY <1>1, <1>2, <2>1, OutputsAre
    <2>3. x.assertions = <<>>
      BY <2>1 DEF OutputTo
    <2>4. Holds(x, Values(ParamsAfter(e)))
      BY <2>3 DEF Holds
    <2> QED BY <2>2, <2>4 DEF ToSet
  <1>3. CASE Kind(w.target) = Judge
    <2>1. PICK a \in ArrowsFrom(chart, w.target) :
                Chart!IsTrue(a.condition, Cell(w.target).params)
      <3>1. Kind(w.target) # Server
        BY <1>3 DEF Server, Judge
      <3>2. Chart!WaysFrom(e) =
                {[cell |-> b.target,
                  params |-> Cell(w.target).params \o Cell(b.target).params] :
                   b \in {d \in ArrowsFrom(chart, w.target) :
                            Chart!IsTrue(d.condition, Cell(w.target).params)}}
        BY <1>1, <3>1, WaysAre, Zenon
      <3>3. PICK way : way \in Chart!WaysFrom(e)
        OBVIOUS
      <3> QED BY <3>2, <3>3, Zenon
    <2>2. PICK x \in ToSet(OutputsOfArrow(a)) : Holds(x, Values(ParamsAfter(e)))
      BY <1>1, <1>3, <2>1, HoldsIfTrue
    <2> QED BY <1>1, <1>3, <2>2, OutputsAre
  <1>4. Kind(w.target) \in {Server, Judge}
    BY <1>1, Ways, Drawn DEF Connected
  <1> QED BY <1>2, <1>3, <1>4

\* What an output and a way that match make of the session and of the reply.
LEMMA MatchIs ==
    ASSUME NEW x, NEW u, NEW way, Matches(x, u, way)
    PROVE  /\ CanBeFilled(x, u) <=> Chart!IsFilled(way)
           /\ /\ CanBeFilled(x, u)
              /\ session' = Resolved(x.state, u) /\ context' = ContextAfter(u)
              /\ reply' = [cell |-> x.cell, values |-> [n \in Cell(x.cell).shows |-> u[n]]]
              => Chart!Answer(way)
  <1>1. PICK v : v = Chart!Values(way.params)
    OBVIOUS
  <1>2. PICK b : b = x.cell
    OBVIOUS
  <1>3. /\ way.cell = b /\ b \in BotCells /\ x.state = StateOf(b) /\ SameUse(b, u, v)
    BY <1>1, <1>2 DEF Matches
  <1>4. PICK l : l = [c \in BotCells |-> StateOf(c)]
    OBVIOUS
  <1>5. l[way.cell] = StateOf(b)
    BY <1>3, <1>4
  <1>6. PICK state : state = StateOf(b)
    OBVIOUS
  <1>7. PICK shows : shows = Cell(b).shows
    OBVIOUS
  <1>8. Used(b) = shows \union NamesIn(state)
    BY <1>6, <1>7 DEF Used
  <1>9. CanBeFilled(x, u) <=> shows \union NamesIn(state) \subseteq DOMAIN u
    BY <1>2, <1>3, <1>6, <1>7 DEF CanBeFilled
  <1>10. Chart!IsFilled(way) <=> shows \union NamesIn(state) \subseteq DOMAIN v
    <2>1. Chart!IsFilled(way) <=>
            Chart!Cell(way.cell).shows \union Chart!NamesIn(l[way.cell])
                \subseteq DOMAIN Chart!Values(way.params)
      BY <1>4 DEF Chart!IsFilled
    <2> QED BY <1>1, <1>3, <1>5, <1>6, <1>7, <2>1, Vocabulary, TemplateWords
  <1>11. CanBeFilled(x, u) <=> Chart!IsFilled(way)
    BY <1>3, <1>8, <1>9, <1>10 DEF SameUse
  <1>12. ASSUME CanBeFilled(x, u), session' = Resolved(x.state, u), context' = ContextAfter(u),
                reply' = [cell |-> x.cell, values |-> [n \in Cell(x.cell).shows |-> u[n]]]
         PROVE  Chart!Answer(way)
    <2>1. [n \in shows |-> u[n]] = [n \in shows |-> v[n]]
      <3>1. \A n \in shows : u[n] = v[n]
        BY <1>3, <1>8, <1>9, <1>12 DEF SameUse
      <3> QED BY <3>1
    <2>2. Resolved(state, u) = Resolved(state, v)
      <3>1. \A n \in NamesIn(state) : u[n] = v[n]
        BY <1>3, <1>8, <1>9, <1>12 DEF SameUse
      <3> QED BY <3>1 DEF NamesIn, Resolved
    <2>3. ContextAfter(u) = ContextAfter(v)
      <3>1. DOMAIN u \intersect ContextNames = DOMAIN v \intersect ContextNames
        BY <1>3 DEF SameUse, SessionNames
      <3>2. \A n \in DOMAIN u \intersect ContextNames : u[n] = v[n]
        BY <1>3 DEF SameUse, SessionNames
      <3>3. PICK S : S = (DOMAIN u \intersect ContextNames) \union {LastTts}
        OBVIOUS
      <3>4. \A n \in S : (IF n = LastTts THEN Spoken ELSE u[n])
                          = (IF n = LastTts THEN Spoken ELSE v[n])
        BY <3>2, <3>3
      <3>5. [n \in S |-> IF n = LastTts THEN Spoken ELSE u[n]]
              = [n \in S |-> IF n = LastTts THEN Spoken ELSE v[n]]
        BY <3>4
      <3> QED BY <3>1, <3>3, <3>5, Zenon DEF ContextAfter
    <2>4. reply' = [cell |-> way.cell, values |-> [n \in shows |-> v[n]]]
      BY <1>2, <1>3, <1>7, <1>12, <2>1
    <2>5. session' = Chart!Resolved(l[way.cell], v)
      BY <1>3, <1>5, <1>6, <1>12, <2>2, TemplateWords
    <2>6. context' = Chart!ContextAfter(v)
      BY <1>12, <2>3, TemplateWords
    <2>7. Chart!IsFilled(way)
      BY <1>11, <1>12
    <2>8. shows = Chart!Cell(way.cell).shows
      BY <1>3, <1>7, Vocabulary
    <2> QED BY <1>1, <1>4, <2>4, <2>5, <2>6, <2>7, <2>8 DEF Chart!Answer
  <1> QED BY <1>11, <1>12

\* An answer of DMKit is one of the chart, in an ellipse that the dialog may
\* take.
LEMMA AnswerFollows ==
    ASSUME TypeOK, Answer
    PROVE  \E e \in Chart!Heard : \E way \in Chart!WaysFrom(e) : Chart!Answer(way)
  <1>1. Connected
    BY DEF TypeOK, Connected
  <1>2. PICK policy \in Selected : \E k \in DOMAIN policy.outputs :
            /\ FirstOutput(policy, k)
            /\ CanBeFilled(policy.outputs[k], Values(policy.params))
            /\ session' = Resolved(policy.outputs[k].state, Values(policy.params))
            /\ context' = ContextAfter(Values(policy.params))
            /\ reply' = [cell |-> policy.outputs[k].cell,
                         values |-> [n \in Cell(policy.outputs[k].cell).shows |->
                                        Values(policy.params)[n]]]
    BY DEF Answer
  <1>3. PICK k \in DOMAIN policy.outputs :
            /\ FirstOutput(policy, k)
            /\ CanBeFilled(policy.outputs[k], Values(policy.params))
            /\ session' = Resolved(policy.outputs[k].state, Values(policy.params))
            /\ context' = ContextAfter(Values(policy.params))
            /\ reply' = [cell |-> policy.outputs[k].cell,
                         values |-> [n \in Cell(policy.outputs[k].cell).shows |->
                                        Values(policy.params)[n]]]
    BY <1>2
  <1>4. PICK a \in Into : policy = PolicyOf(a) /\ a.target \in Chart!Heard
    BY SelectedIsHeard
  <1>5. PICK e : e = a.target
    OBVIOUS
  <1>6. e \in Cells /\ Kind(e) = Customer
    BY <1>1, <1>5, Drawn DEF Into, Connected
  <1>7. policy.outputs = OutputsAfter(e) /\ policy.params = ParamsAfter(e)
    BY <1>4, <1>5 DEF PolicyOf
  <1>8. PICK x : x = policy.outputs[k]
    OBVIOUS
  <1>9. PICK u : u = Values(policy.params)
    OBVIOUS
  <1>10. x \in ToSet(OutputsAfter(e)) /\ Holds(x, Values(ParamsAfter(e)))
    BY <1>3, <1>7, <1>8 DEF FirstOutput, ToSet
  <1>11. PICK way \in Chart!WaysFrom(e) : Matches(x, u, way)
    BY <1>1, <1>6, <1>7, <1>9, <1>10, OutputIsWay
  <1>12. /\ CanBeFilled(x, u) /\ session' = Resolved(x.state, u)
         /\ context' = ContextAfter(u)
         /\ reply' = [cell |-> x.cell, values |-> [n \in Cell(x.cell).shows |-> u[n]]]
    BY <1>3, <1>8, <1>9
  <1>13. Chart!Answer(way)
    BY <1>11, <1>12, MatchIs
  <1> QED BY <1>4, <1>5, <1>11, <1>13

\* No answer of DMKit: the chart has no way for what the user said, or one that
\* uses a value not yet kept.
LEMMA NoAnswerFollows ==
    ASSUME TypeOK, NoAnswer
    PROVE  \/ Chart!Heard = {}
           \/ \E e \in Chart!Heard : Chart!WaysFrom(e) = {}
           \/ \E e \in Chart!Heard : \E way \in Chart!WaysFrom(e) : ~ Chart!IsFilled(way)
  <1> SUFFICES ASSUME Chart!Heard # {}
               PROVE  \E e \in Chart!Heard :
                        \/ Chart!WaysFrom(e) = {}
                        \/ \E way \in Chart!WaysFrom(e) : ~ Chart!IsFilled(way)
    OBVIOUS
  <1>1. Connected
    BY DEF TypeOK, Connected
  <1>2. PICK policy \in Selected : \E a \in Into : policy = PolicyOf(a) /\ a.target \in Chart!Heard
    BY SelectedIsHeard
  <1>3. PICK a \in Into : policy = PolicyOf(a) /\ a.target \in Chart!Heard
    BY <1>2
  <1>4. PICK e : e = a.target
    OBVIOUS
  <1>5. e \in Cells /\ Kind(e) = Customer
    BY <1>1, <1>4, Drawn DEF Into, Connected
  <1>6. policy.outputs = OutputsAfter(e) /\ policy.params = ParamsAfter(e)
    BY <1>3, <1>4 DEF PolicyOf
  <1>7. ASSUME Chart!WaysFrom(e) # {}
        PROVE  \E way \in Chart!WaysFrom(e) : ~ Chart!IsFilled(way)
    <2>1. PICK x \in ToSet(OutputsAfter(e)) : Holds(x, Values(ParamsAfter(e)))
      BY <1>1, <1>5, <1>7, WayHasOutput
    <2>2. PICK m \in DOMAIN policy.outputs : FirstOutput(policy, m)
      <3>1. PICK i \in DOMAIN policy.outputs : Holds(policy.outputs[i], Values(policy.params))
        BY <1>6, <2>1 DEF ToSet
      <3>2. PICK w \in chart.arrows : ArrowsFrom(chart, e) = {w} /\ w.source = e
        BY <1>1, <1>5, OneWay DEF Connected
      <3>3. policy.outputs \in Seq(AnyOutput)
        BY <1>1, <1>5, <1>6, <3>2, OutputsAre
      <3> QED BY <3>1, <3>3, FirstOutputExists
    <2>3. PICK y : y = policy.outputs[m]
      OBVIOUS
    <2>4. y \in ToSet(OutputsAfter(e)) /\ Holds(y, Values(ParamsAfter(e)))
      BY <1>6, <2>2, <2>3 DEF FirstOutput, ToSet
    <2>5. PICK u : u = Values(policy.params)
      OBVIOUS
    <2>6. PICK way \in Chart!WaysFrom(e) : Matches(y, u, way)
      BY <1>1, <1>5, <1>6, <2>4, <2>5, OutputIsWay
    <2>7. ~ CanBeFilled(y, u)
      BY <1>2, <2>2, <2>3, <2>5 DEF NoAnswer
    <2>8. ~ Chart!IsFilled(way)
      BY <2>6, <2>7, MatchIs
    <2> QED BY <2>6, <2>8
  <1> QED BY <1>3, <1>4, <1>7

\* The compiler's states label the cells as the chart has it.
LEMMA LabelsAre ==
    ASSUME Connected
    PROVE  [c \in BotCells |-> StateOf(c)] \in Chart!Labellings
  <1>1. PICK l : l = [c \in BotCells |-> StateOf(c)]
    OBVIOUS
  <1>2. chart \in Charts
    BY DEF Connected
  <1>3. \A c : c \in BotCells <=> c \in Cells /\ Kind(c) = Server
    BY DEF BotCells, Cells, Kind
  <1>4. BotCells = {c \in DOMAIN chart.cells : chart.cells[c].kind = Chart!Server}
    BY Vocabulary DEF BotCells, Cell
  <1>5. l \in [BotCells -> State]
    BY <1>1, <1>2, <1>3, StateIs
  <1>6. ASSUME NEW c \in BotCells
        PROVE  IF chart.cells[c].state # NoState THEN l[c] = chart.cells[c].state
               ELSE /\ l[c] \notin DOMAIN Template
                    /\ \A d \in BotCells \ {c} : l[d] # l[c]
    <2>1. CASE chart.cells[c].state # NoState
      BY <1>1, <1>2, <1>3, <1>6, <2>1, Drawn DEF StateOf, Cell, Kind
    <2>2. CASE chart.cells[c].state = NoState
      <3>1. /\ StateOf(c) \notin DOMAIN Template
            /\ \A y \in Cells : Kind(y) = Server /\ StateOf(y) = StateOf(c) => y = c
        BY <1>2, <1>3, <1>6, <2>2, OwnState DEF Cell
      <3> QED BY <1>1, <1>3, <1>6, <2>2, <3>1
    <2> QED BY <2>1, <2>2
  <1>7. l \in Chart!Labellings
    BY <1>4, <1>5, <1>6, Zenon DEF Chart!Labellings
  <1> QED BY <1>1, <1>7

\* docs/visual_tool.md, compiler_xml.py, policy_manager.cpp: the dialog that
\* DMKit has by the compiled policies is one that the chart allows, whatever
\* the drawing, the order in which the compiler has met its arrows, and what
\* the user says: with the states that STATE lines name by a template, with
\* the values that the context keeps, and with the fallback intent.
THEOREM CompilerFollowsChart == Spec => FollowsChart
  <1>1. Init => Chart!Init
    <2> SUFFICES ASSUME Init
                 PROVE  Chart!Init
      OBVIOUS
    <2>1. turn \in Turns
      BY TurnsAssumption DEF Init
    <2>2. [c \in BotCells |-> StateOf(c)] \in Chart!Labellings
      BY LabelsAre DEF Init, Connected
    <2> QED BY <2>1, <2>2 DEF Init, Chart!Init
  <1>2. TypeOK /\ [Next]_vars => [Chart!Next]_(Chart!chartVars)
    <2> SUFFICES ASSUME TypeOK, [Next]_vars
                 PROVE  [Chart!Next]_(Chart!chartVars)
      OBVIOUS
    <2>1. chart' = chart
      BY DEF Next, Answer, NoAnswer, Say, vars
    <2>2. [c \in BotCells |-> StateOf(c)]' = [c \in BotCells |-> StateOf(c)]
      BY <2>1, SameStates
    <2>3. CASE Answer
      <3>1. PICK e \in Chart!Heard : \E way \in Chart!WaysFrom(e) : Chart!Answer(way)
        BY <2>3, AnswerFollows
      <3>2. pc = "bot" /\ pc' = "user" /\ turn' = turn
        BY <2>3 DEF Answer
      <3>3. Chart!Reply
        BY <2>1, <2>2, <3>1, <3>2 DEF Chart!Reply
      <3> QED BY <3>3 DEF Chart!Next
    <2>4. CASE NoAnswer
      <3>1. /\ pc = "bot" /\ pc' = "user" /\ turn' = turn /\ reply' = NoReply
            /\ session' = session /\ context' = context
        BY <2>4 DEF NoAnswer
      <3>2. \/ Chart!Heard = {}
            \/ \E e \in Chart!Heard : Chart!WaysFrom(e) = {}
            \/ \E e \in Chart!Heard : \E way \in Chart!WaysFrom(e) : ~ Chart!IsFilled(way)
        BY <2>4, NoAnswerFollows
      <3>3. Chart!Reply
        BY <2>1, <2>2, <3>1, <3>2 DEF Chart!Reply
      <3> QED BY <3>3 DEF Chart!Next
    <2>5. CASE \E t \in Turns : Say(t)
      <3>1. PICK t \in Turns : Say(t)
        BY <2>5
      <3>2. Chart!Say(t)
        BY <2>2, <3>1 DEF Say, Chart!Say
      <3> QED BY <3>1, <3>2 DEF Chart!Next
    <2>6. CASE UNCHANGED vars
      BY <2>2, <2>6 DEF vars, Chart!chartVars
    <2> QED BY <2>3, <2>4, <2>5, <2>6 DEF Next
  <1>3. Spec => []TypeOK
    BY TypeCorrect
  <1> QED BY <1>1, <1>2, <1>3, PTL DEF Spec, FollowsChart, Chart!Spec
=============================================================================
