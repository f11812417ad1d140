------------------------- MODULE PolicyOutputProofs -------------------------
(***************************************************************************)
(* The theorems about PolicyOutput.                                        *)
(*                                                                         *)
(* What the loop of try_resolve_params keeps is compared, token by token,  *)
(* with what is written position by position: what it has resolved is the  *)
(* text up to the last delimiter, filled in (ScanAgrees).  This gives      *)
(* ResolveReadsAsWritten, for every text and every map of parameters, on   *)
(* which all else rests: the string parameters and the arguments of        *)
(* functions, and the texts of the answer.                                 *)
(*                                                                         *)
(* The list of an assertion is resolved as a whole, split, and resolved    *)
(* part by part.  Token by token, the scan of the whole list is compared   *)
(* with the scan of the part it is in (Mirrors): they differ by a prefix   *)
(* that is cut into the parts before, filled in.  This gives               *)
(* ListReadsAsWritten, and with it what the assertions mean.               *)
(*                                                                         *)
(* Induction over texts is induction over the set of the prefixes for      *)
(* which the claim holds: UpTo, and TextInduction, which rests on it.      *)
(***************************************************************************)
EXTENDS PolicyOutput, FiniteSetTheorems, SequenceTheorems, WellFoundedInduction,
        NaturalsInduction, TLAPS

-----------------------------------------------------------------------------
(* Numbers.                                                                *)

LEMMA HasMin ==
    ASSUME NEW S \in SUBSET Nat, S # {}
    PROVE  Min(S) \in S /\ \A y \in S : Min(S) <= y
  <1> DEFINE R == {p \in Nat \X Nat : p[1] < p[2]}
  <1>1. IsWellFoundedOn(R, Nat)
    BY NatLessThanWellFounded DEF OpToRel
  <1> HIDE DEF R
  <1>2. PICK x \in S : \A y \in S : ~ (<<y, x>> \in R)
    BY <1>1, WFMin
  <1>3. \A y \in S : <<y, x>> \in R <=> y < x
    BY DEF R
  <1>4. ASSUME NEW y \in S PROVE x <= y
    <2>1. ~ (y < x)
      BY <1>2, <1>3
    <2>2. x \in Nat /\ y \in Nat
      OBVIOUS
    <2> QED BY <2>1, <2>2
  <1> QED BY <1>4 DEF Min

LEMMA HasMax ==
    ASSUME NEW n \in Nat, NEW S \in SUBSET (1..n), S # {}
    PROVE  Max(S) \in S /\ \A y \in S : y <= Max(S)
  <1> DEFINE T == {n - x : x \in S}
  <1>1. T \in SUBSET Nat /\ T # {}
    <2>1. \A x \in S : n - x \in Nat
      OBVIOUS
    <2> QED BY <2>1
  <1>2. Min(T) \in T /\ \A y \in T : Min(T) <= y
    BY <1>1, HasMin
  <1>3. PICK x \in S : Min(T) = n - x
    BY <1>2
  <1>4. \A y \in S : n - x <= n - y
    BY <1>2, <1>3
  <1>5. \A y \in S : x >= y
    BY <1>4
  <1> QED BY <1>5 DEF Max

\* Induction up to n, with a set for the predicate.
LEMMA UpTo ==
    ASSUME NEW n \in Nat, NEW S \in SUBSET (0..n), 0 \in S,
           \A i \in 1..n : i - 1 \in S => i \in S
    PROVE  S = 0..n
  <1> SUFFICES ASSUME (0..n) \ S # {} PROVE FALSE
    OBVIOUS
  <1>1. PICK m : m = Min((0..n) \ S)
    OBVIOUS
  <1>2. (0..n) \ S \in SUBSET Nat
    OBVIOUS
  <1>3. m \in (0..n) \ S /\ \A y \in (0..n) \ S : m <= y
    BY <1>1, <1>2, HasMin
  <1>4. m \in 1..n /\ m - 1 \in 0..n /\ ~ (m <= m - 1)
    BY <1>3
  <1>5. m - 1 \in S
    BY <1>3, <1>4
  <1> QED BY <1>3, <1>4, <1>5
-----------------------------------------------------------------------------
(* The loop of try_resolve_params, token by token.                         *)

Unscanned == [resolved |-> <<>>, rest |-> <<>>, isParam |-> FALSE, failed |-> FALSE]

IsScan(scan, text, params_) ==
    /\ scan[0] = Unscanned
    /\ \A i \in 1..Len(text) : scan[i] = ScanToken(scan[i - 1], text[i], params_)

ScanUpTo(scan, n, text, params_) ==
    scan = [i \in 0..n |-> IF i = 0 THEN Unscanned
                           ELSE ScanToken(scan[i - 1], text[i], params_)]

LEMMA ScanExists ==
    ASSUME NEW text \in Text, NEW map
    PROVE  \E scan : ScanUpTo(scan, Len(text), text, map)
  <1> DEFINE S == {n \in 0..Len(text) : \E scan : ScanUpTo(scan, n, text, map)}
  <1>1. Len(text) \in Nat
    BY DEF Text
  <1>2. ScanUpTo([i \in 0..0 |-> Unscanned], 0, text, map)
    BY DEF ScanUpTo
  <1>3. ASSUME NEW n \in 1..Len(text), n - 1 \in S
        PROVE  n \in S
    <2>1. PICK f : ScanUpTo(f, n - 1, text, map)
      BY <1>3
    <2>2. PICK g : g = [i \in 0..n |-> IF i = n THEN ScanToken(f[n - 1], text[n], map)
                                      ELSE f[i]]
      OBVIOUS
    <2>3. \A i \in 0..(n - 1) : g[i] = f[i]
      BY <1>1, <2>2
    <2>4. \A i \in 0..n : g[i] = IF i = 0 THEN Unscanned
                                  ELSE ScanToken(g[i - 1], text[i], map)
      <3> SUFFICES ASSUME NEW i \in 0..n
                   PROVE  g[i] = IF i = 0 THEN Unscanned
                                 ELSE ScanToken(g[i - 1], text[i], map)
        OBVIOUS
      <3>1. CASE i = n
        BY <1>1, <2>2, <2>3, <3>1
      <3>2. CASE i # n
        <4>1. i \in 0..(n - 1) /\ (i # 0 => i - 1 \in 0..(n - 1))
          BY <1>1, <3>2
        <4> QED BY <2>1, <2>3, <4>1 DEF ScanUpTo
      <3> QED BY <3>1, <3>2
    <2>5. ScanUpTo(g, n, text, map)
      BY <2>2, <2>4 DEF ScanUpTo
    <2> QED BY <2>5
  <1>4. 0 \in S
    BY <1>1, <1>2
  <1> HIDE DEF S
  <1>5. S \in SUBSET (0..Len(text))
    BY DEF S
  <1>6. Len(text) \in S
    BY <1>1, <1>3, <1>4, <1>5, UpTo
  <1> QED BY <1>6 DEF S

LEMMA ScanIs ==
    ASSUME NEW text \in Text, NEW map
    PROVE  \E scan : /\ IsScan(scan, text, map)
                     /\ ScanText(text, map) = scan[Len(text)]
  <1> DEFINE scan[i \in 0..Len(text)] ==
                IF i = 0 THEN Unscanned ELSE ScanToken(scan[i - 1], text[i], map)
  <1>1. Len(text) \in Nat
    BY DEF Text
  <1>2. ScanUpTo(scan, Len(text), text, map)
    BY ScanExists DEF ScanUpTo
  <1>3. ScanText(text, map) = scan[Len(text)]
    BY DEF ScanText, Unscanned
  <1>4. PICK f : f = scan
    OBVIOUS
  <1>5. ScanUpTo(f, Len(text), text, map) /\ ScanText(text, map) = f[Len(text)]
    BY <1>2, <1>3, <1>4
  <1> HIDE DEF scan
  <1>6. IsScan(f, text, map)
    BY <1>1, <1>5 DEF IsScan, ScanUpTo
  <1> QED BY <1>5, <1>6
-----------------------------------------------------------------------------
(* The text with the values filled in, position by position.               *)

\* Opaque in the proofs that only unfold the recursion.
AddPiece(out, text, i, params_) == out \o Piece(text, i, params_)

IsFilled(filled, text, params_) ==
    /\ filled[0] = <<>>
    /\ \A i \in 1..Len(text) : filled[i] = AddPiece(filled[i - 1], text, i, params_)

FilledUpTo(filled, n, text, params_) ==
    filled = [i \in 0..n |-> IF i = 0 THEN <<>>
                             ELSE AddPiece(filled[i - 1], text, i, params_)]

LEMMA FilledExists ==
    ASSUME NEW text \in Text, NEW map
    PROVE  \E filled : FilledUpTo(filled, Len(text), text, map)
  <1> DEFINE S == {n \in 0..Len(text) : \E filled : FilledUpTo(filled, n, text, map)}
  <1>1. Len(text) \in Nat
    BY DEF Text
  <1>2. FilledUpTo([i \in 0..0 |-> <<>>], 0, text, map)
    BY DEF FilledUpTo
  <1>3. ASSUME NEW n \in 1..Len(text), n - 1 \in S
        PROVE  n \in S
    <2>1. PICK f : FilledUpTo(f, n - 1, text, map)
      BY <1>3
    <2>2. PICK g : g = [i \in 0..n |-> IF i = n THEN AddPiece(f[n - 1], text, n, map)
                                      ELSE f[i]]
      OBVIOUS
    <2>3. \A i \in 0..(n - 1) : g[i] = f[i]
      BY <1>1, <2>2
    <2>4. \A i \in 0..n : g[i] = IF i = 0 THEN <<>>
                                  ELSE AddPiece(g[i - 1], text, i, map)
      <3> SUFFICES ASSUME NEW i \in 0..n
                   PROVE  g[i] = IF i = 0 THEN <<>>
                                 ELSE AddPiece(g[i - 1], text, i, map)
        OBVIOUS
      <3>1. CASE i = n
        BY <1>1, <2>2, <2>3, <3>1
      <3>2. CASE i # n
        <4>1. i \in 0..(n - 1) /\ (i # 0 => i - 1 \in 0..(n - 1))
          BY <1>1, <3>2
        <4> QED BY <2>1, <2>3, <4>1 DEF FilledUpTo
      <3> QED BY <3>1, <3>2
    <2>5. FilledUpTo(g, n, text, map)
      BY <2>2, <2>4 DEF FilledUpTo
    <2> QED BY <2>5
  <1>4. 0 \in S
    BY <1>1, <1>2
  <1> HIDE DEF S
  <1>5. S \in SUBSET (0..Len(text))
    BY DEF S
  <1>6. Len(text) \in S
    BY <1>1, <1>3, <1>4, <1>5, UpTo
  <1> QED BY <1>6 DEF S

LEMMA FilledIs ==
    ASSUME NEW text \in Text, NEW map
    PROVE  \E filled : /\ IsFilled(filled, text, map)
                       /\ Filled(text, map) = filled[Len(text)]
  <1> DEFINE filled[i \in 0..Len(text)] ==
                IF i = 0 THEN <<>> ELSE AddPiece(filled[i - 1], text, i, map)
  <1>1. Len(text) \in Nat
    BY DEF Text
  <1>2. FilledUpTo(filled, Len(text), text, map)
    BY FilledExists DEF FilledUpTo
  <1>3. Filled(text, map) = filled[Len(text)]
    BY DEF Filled, AddPiece
  <1>4. PICK f : f = filled
    OBVIOUS
  <1>5. FilledUpTo(f, Len(text), text, map) /\ Filled(text, map) = f[Len(text)]
    BY <1>2, <1>3, <1>4
  <1> HIDE DEF filled
  <1>6. IsFilled(f, text, map)
    BY <1>1, <1>5 DEF IsFilled, FilledUpTo
  <1> QED BY <1>5, <1>6

\* A run of positions that stand for themselves adds what is written there.
LEMMA RunAdds ==
    ASSUME NEW W, NEW text \in Seq(W), NEW out,
           NEW b \in 0..Len(text), NEW m \in b..Len(text),
           \A i \in b..m : out[i] \in Seq(W),
           \A i \in (b + 1)..m : out[i] = out[i - 1] \o <<text[i]>>
    PROVE  out[m] = out[b] \o SubSeq(text, b + 1, m)
  <1> DEFINE S == {j \in 0..(m - b) : out[b + j] = out[b] \o SubSeq(text, b + 1, b + j)}
  <1>1. Len(text) \in Nat /\ b \in Nat /\ m \in Nat /\ b <= m /\ m <= Len(text)
    OBVIOUS
  <1>2. 0 \in S
    <2>1. SubSeq(text, b + 1, b) = <<>>
      BY <1>1, SubSeqEmpty
    <2>2. out[b] \o <<>> = out[b]
      BY <1>1, ConcatEmptySeq
    <2>3. b + 0 = b /\ 0 \in 0..(m - b)
      BY <1>1
    <2>4. out[b] = out[b] \o SubSeq(text, b + 1, b)
      BY <2>1, <2>2
    <2> QED BY <2>3, <2>4
  <1>3. ASSUME NEW j \in 1..(m - b), j - 1 \in S
        PROVE  j \in S
    <2>1. PICK k : k = b + j
      OBVIOUS
    <2>2. /\ k \in (b + 1)..m /\ k - 1 \in b..m /\ k - 1 = b + (j - 1)
          /\ b + 1 \in 1..Len(text) /\ k \in (b + 1)..Len(text) /\ k - 1 \in Int
      BY <1>1, <2>1
    <2>3. out[k - 1] = out[b] \o SubSeq(text, b + 1, k - 1)
      BY <1>3, <2>2
    <2>4. SubSeq(text, b + 1, k) = SubSeq(text, b + 1, k - 1) \o <<text[k]>>
      BY <2>2, SubSeqRecursiveSecond
    <2>5. SubSeq(text, b + 1, k - 1) \in Seq(W) /\ <<text[k]>> \in Seq(W)
          /\ out[b] \in Seq(W)
      <3>1. \A i \in (b + 1)..(k - 1) : text[i] \in W
        BY <1>1, <2>2
      <3>2. text[k] \in W
        BY <1>1, <2>2
      <3> QED BY <1>1, <2>2, <3>1, <3>2, SubSeqProperties
    <2>6. (out[b] \o SubSeq(text, b + 1, k - 1)) \o <<text[k]>>
            = out[b] \o (SubSeq(text, b + 1, k - 1) \o <<text[k]>>)
      <3>1. PICK x : x = SubSeq(text, b + 1, k - 1)
        OBVIOUS
      <3>2. PICK y : y = out[b]
        OBVIOUS
      <3>3. PICK z : z = <<text[k]>>
        OBVIOUS
      <3>4. x \in Seq(W) /\ y \in Seq(W) /\ z \in Seq(W)
        BY <2>5, <3>1, <3>2, <3>3
      <3>5. (y \o x) \o z = y \o (x \o z)
        BY ONLY <3>4, ConcatAssociative
      <3> QED BY <3>1, <3>2, <3>3, <3>5
    <2>7. out[k] = out[b] \o SubSeq(text, b + 1, k)
      BY <2>2, <2>3, <2>4, <2>6
    <2>8. out[b + j] = out[b] \o SubSeq(text, b + 1, b + j) /\ j \in 0..(m - b)
      BY <2>1, <2>7
    <2> QED BY <2>8
  <1> HIDE DEF S
  <1>4. S \in SUBSET (0..(m - b)) /\ m - b \in Nat
    <2>1. m - b \in Nat
      BY <1>1
    <2>2. S \in SUBSET (0..(m - b))
      BY DEF S
    <2> QED BY <2>1, <2>2
  <1>5. m - b \in S
    BY <1>2, <1>3, <1>4, UpTo
  <1>6. b + (m - b) = m
    BY <1>1
  <1> QED BY <1>5, <1>6 DEF S
-----------------------------------------------------------------------------
(* The last delimiter before a position.                                   *)

LEMMA BeforeIs ==
    ASSUME NEW text \in Text, NEW i \in 1..(Len(text) + 1)
    PROVE  /\ Before(text, i) \in 0..(i - 1)
           /\ Before(text, i) # 0 => text[Before(text, i)] \in Delimiter
           /\ \A k \in (Before(text, i) + 1)..(i - 1) : text[k] \notin Delimiter
  <1> DEFINE found == {j \in 1..(i - 1) : text[j] \in Delimiter}
  <1>1. Len(text) \in Nat /\ i \in Nat /\ i - 1 \in Nat
    BY DEF Text
  <1>2. Before(text, i) = IF found = {} THEN 0 ELSE Max(found)
    BY DEF Before
  <1> HIDE DEF found
  <1>3. \A j : j \in found <=> j \in 1..(i - 1) /\ text[j] \in Delimiter
    BY DEF found
  <1>4. CASE found = {}
    <2>1. Before(text, i) = 0
      BY <1>2, <1>4
    <2> QED BY <1>1, <1>4, <1>3, <2>1
  <1>5. CASE found # {}
    <2>1. Max(found) \in found /\ \A y \in found : y <= Max(found)
      <3>1. found \in SUBSET (1..(i - 1))
        BY <1>3
      <3> QED BY <1>1, <1>5, <3>1, HasMax
    <2>2. PICK b : b = Before(text, i)
      OBVIOUS
    <2>3. b \in found /\ \A y \in found : y <= b
      BY <1>2, <1>5, <2>1, <2>2
    <2>4. b \in 1..(i - 1) /\ text[b] \in Delimiter
      BY <1>3, <2>3
    <2>5. ASSUME NEW k \in (b + 1)..(i - 1) PROVE text[k] \notin Delimiter
      <3>1. k \in 1..(i - 1) /\ ~ (k <= b)
        BY <1>1, <2>4
      <3> QED BY <1>3, <2>3, <3>1
    <2> QED BY <1>1, <2>2, <2>4, <2>5
  <1> QED BY <1>4, <1>5

LEMMA BeforeStep ==
    ASSUME NEW text \in Text
    PROVE  /\ Before(text, 1) = 0
           /\ \A i \in 1..Len(text) :
                Before(text, i + 1) = IF text[i] \in Delimiter THEN i
                                      ELSE Before(text, i)
  <1>1. Len(text) \in Nat
    BY DEF Text
  <1>2. Before(text, 1) = 0
    BY <1>1 DEF Before
  <1>3. ASSUME NEW i \in 1..Len(text)
        PROVE  Before(text, i + 1) = IF text[i] \in Delimiter THEN i
                                     ELSE Before(text, i)
    <2>1. PICK b : b = Before(text, i)
      OBVIOUS
    <2>2. PICK c : c = Before(text, i + 1)
      OBVIOUS
    <2>3. /\ b \in 0..(i - 1) /\ (b # 0 => text[b] \in Delimiter)
          /\ \A k \in (b + 1)..(i - 1) : text[k] \notin Delimiter
      BY <1>1, <2>1, BeforeIs
    <2>4. /\ c \in 0..i /\ (c # 0 => text[c] \in Delimiter)
          /\ \A k \in (c + 1)..i : text[k] \notin Delimiter
      <3>1. i + 1 \in 1..(Len(text) + 1) /\ (i + 1) - 1 = i
        BY <1>1
      <3> QED BY <2>2, <3>1, BeforeIs
    <2>5. c = IF text[i] \in Delimiter THEN i ELSE b
      BY <1>1, <2>3, <2>4
    <2> QED BY <2>1, <2>2, <2>5
  <1> QED BY <1>2, <1>3
-----------------------------------------------------------------------------
(* What the loop has resolved is what is written up to the last delimiter. *)

IsMap(params_) == \A n \in DOMAIN params_ : params_[n] \in Text

\* Nothing up to position i makes the loop fail.
Good(text, i, params_) ==
    \A j \in 1..i : /\ text[j] # OpenClose
                    /\ text[j] = Close => IsParamEnd(text, j, params_)

ScanAgrees(s, filled, text, i, b, params_) ==
    /\ s = [resolved |-> s.resolved, rest |-> s.rest, isParam |-> s.isParam,
            failed |-> s.failed]
    /\ s.failed \in BOOLEAN
    /\ s.failed <=> ~ Good(text, i, params_)
    /\ ~ s.failed => /\ s.isParam = (b # 0 /\ text[b] = Open)
                     /\ s.rest = SubSeq(text, b + 1, i)
                     /\ s.resolved = filled[b]

LEMMA GoodStep ==
    ASSUME NEW text \in Text, NEW i \in 1..Len(text), NEW map
    PROVE  Good(text, i, map) <=>
             /\ Good(text, i - 1, map)
             /\ text[i] # OpenClose /\ (text[i] = Close => IsParamEnd(text, i, map))
  <1>1. Len(text) \in Nat
    BY DEF Text
  <1>2. 1..i = 1..(i - 1) \union {i}
    BY <1>1
  <1> QED BY <1>2 DEF Good

LEMMA PieceType ==
    ASSUME NEW text \in Text, NEW i \in 1..Len(text), NEW map, IsMap(map),
           text[i] = Close => IsParamEnd(text, i, map)
    PROVE  Piece(text, i, map) \in Text
  <1>1. text[i] \in STRING
    BY DEF Text
  <1>2. <<text[i]>> \in Text /\ <<>> \in Text
    BY <1>1 DEF Text
  <1>3. text[i] = Close => map[text[i - 1]] \in Text
    BY DEF IsMap, IsParamEnd
  <1>4. CASE text[i] = Close
    <2>1. Piece(text, i, map) = map[text[i - 1]]
      BY <1>4 DEF Piece, Delimiter, InParam, Open, Close
    <2> QED BY <1>3, <1>4, <2>1
  <1>5. CASE text[i] # Close
    <2>1. Piece(text, i, map) \in {<<text[i]>>, <<>>}
      BY <1>5 DEF Piece
    <2> QED BY <1>2, <2>1
  <1> QED BY <1>4, <1>5

LEMMA FilledType ==
    ASSUME NEW text \in Text, NEW map, IsMap(map), NEW filled, IsFilled(filled, text, map),
           NEW n \in 0..Len(text), Good(text, n, map)
    PROVE  \A i \in 0..n : filled[i] \in Text
  <1> DEFINE S == {i \in 0..n : filled[i] \in Text}
  <1>1. Len(text) \in Nat /\ n \in Nat
    BY DEF Text
  <1>2. 0 \in S
    <2>1. filled[0] = <<>> /\ 0 \in 0..n
      BY <1>1 DEF IsFilled
    <2>2. <<>> \in Text
      BY DEF Text
    <2> QED BY <2>1, <2>2
  <1>3. ASSUME NEW i \in 1..n, i - 1 \in S
        PROVE  i \in S
    <2>1. i \in 1..Len(text) /\ filled[i - 1] \in Text
      BY <1>1, <1>3
    <2>2. Piece(text, i, map) \in Text
      <3>1. text[i] = Close => IsParamEnd(text, i, map)
        BY <1>1, <1>3 DEF Good
      <3> QED BY <2>1, <3>1, PieceType
    <2>3. filled[i - 1] \o Piece(text, i, map) \in Text
      BY <2>1, <2>2, ConcatProperties DEF Text
    <2>4. filled[i] = filled[i - 1] \o Piece(text, i, map)
      BY <2>1 DEF IsFilled, AddPiece
    <2>5. i \in 0..n
      BY <1>1
    <2>6. filled[i] \in Text
      BY <2>3, <2>4
    <2> QED BY <2>5, <2>6
  <1> HIDE DEF S
  <1>4. S \in SUBSET (0..n)
    BY DEF S
  <1>5. S = 0..n
    BY <1>1, <1>2, <1>3, <1>4, UpTo
  <1> QED BY <1>5 DEF S

\* Position i is a {% or ends the text, and the last delimiter before it is b.
IsRun(text, i, b, filled) ==
    /\ i \in 1..(Len(text) + 1) /\ b = Before(text, i)
    /\ \A k \in b..(i - 1) : filled[k] \in Text
    /\ \/ i \in 1..Len(text) /\ text[i] = Open
       \/ i = Len(text) + 1 /\ ~ (b # 0 /\ text[b] = Open)

\* Up to the next {%, or to the end, the text after a delimiter stands for
\* itself, if no %} takes it for a name.
LEMMA RunIsText ==
    ASSUME NEW text \in Text, NEW map, NEW filled, IsFilled(filled, text, map),
           NEW i, NEW b, IsRun(text, i, b, filled)
    PROVE  filled[i - 1] = filled[b] \o SubSeq(text, b + 1, i - 1)
  <1>0. /\ i \in 1..(Len(text) + 1) /\ b = Before(text, i)
        /\ \A k \in b..(i - 1) : filled[k] \in Text
        /\ \/ i \in 1..Len(text) /\ text[i] = Open
           \/ i = Len(text) + 1 /\ ~ (b # 0 /\ text[b] = Open)
    BY DEF IsRun
  <1>1. Len(text) \in Nat /\ i \in Nat
    BY <1>0 DEF Text
  <1>2. /\ b \in 0..(i - 1) /\ (b # 0 => text[b] \in Delimiter)
        /\ \A k \in (b + 1)..(i - 1) : text[k] \notin Delimiter
    BY <1>0, BeforeIs
  <1>3. ASSUME NEW k \in (b + 1)..(i - 1)
        PROVE  filled[k] = filled[k - 1] \o <<text[k]>>
    <2>1. k \in 1..Len(text) /\ text[k] \notin Delimiter
      BY <1>0, <1>1, <1>2
    <2>2. Before(text, k) = b
      <3>1. PICK c : c = Before(text, k)
        OBVIOUS
      <3>2. /\ c \in 0..(k - 1) /\ (c # 0 => text[c] \in Delimiter)
            /\ \A l \in (c + 1)..(k - 1) : text[l] \notin Delimiter
        <4>1. k \in 1..(Len(text) + 1)
          BY <1>1, <2>1
        <4> QED BY <3>1, <4>1, BeforeIs
      <3>3. ~ (c < b)
        BY <1>1, <1>2, <3>2
      <3>4. ~ (b < c)
        BY <1>1, <1>2, <3>2
      <3> QED BY <1>1, <1>2, <3>1, <3>2, <3>3, <3>4
    <2>3. ~ InParam(text, k)
      <3> SUFFICES ASSUME InParam(text, k) PROVE FALSE
        OBVIOUS
      <3>1. PICK j \in DOMAIN text : j > k /\ text[j] = Close /\ Before(text, j) = b
        BY <2>2 DEF InParam
      <3>2. b # 0 /\ text[b] = Open
        BY <2>2 DEF InParam
      <3>3. i \in 1..Len(text) /\ text[i] = Open
        BY <1>0, <3>2
      <3>4. j \in 1..Len(text)
        BY <1>1, <3>1 DEF Text
      <3>5. \A l \in (b + 1)..(j - 1) : text[l] \notin Delimiter
        <4>1. j \in 1..(Len(text) + 1)
          BY <1>1, <3>4
        <4> QED BY <3>1, <4>1, BeforeIs
      <3>6. ~ (j < i)
        BY <1>1, <1>2, <3>1, <3>4 DEF Delimiter
      <3>7. ~ (i < j)
        BY <1>1, <1>2, <3>3, <3>4, <3>5 DEF Delimiter
      <3>8. i = j
        BY <1>1, <3>4, <3>6, <3>7
      <3> QED BY <3>1, <3>3, <3>8 DEF Open, Close
    <2>4. Piece(text, k, map) = <<text[k]>>
      BY <2>1, <2>3 DEF Piece, Delimiter
    <2> QED BY <2>1, <2>4 DEF IsFilled, AddPiece
  <1>4. b \in 0..Len(text) /\ i - 1 \in b..Len(text)
    BY <1>0, <1>1, <1>2
  <1> QED BY <1>0, <1>3, <1>4, RunAdds DEF Text

IsScanned(s) ==
    s = [resolved |-> s.resolved, rest |-> s.rest, isParam |-> s.isParam,
         failed |-> s.failed]

LEMMA ScanTokenIs ==
    ASSUME NEW s, ~ s.failed, IsScanned(s), NEW map, NEW t
    PROVE  /\ t = ScanToken(s, Open, map) =>
                /\ IsScanned(t) /\ t.resolved = s.resolved \o s.rest
                /\ t.rest = <<>> /\ t.isParam = TRUE /\ t.failed = s.failed
           /\ t = ScanToken(s, Close, map) => t = CloseParam(s, map)
  <1>1. ScanToken(s, Open, map) = [s EXCEPT !.resolved = s.resolved \o s.rest,
                                           !.rest = <<>>, !.isParam = TRUE]
    BY Zenon DEF ScanToken, Open, Close, OpenClose
  <1>2. ScanToken(s, Close, map) = CloseParam(s, map)
    BY Zenon DEF ScanToken, Open, Close, OpenClose
  <1>3. PICK x : x = s.resolved \o s.rest
    OBVIOUS
  <1>4. ASSUME t = [s EXCEPT !.resolved = x, !.rest = <<>>, !.isParam = TRUE]
        PROVE  /\ IsScanned(t) /\ t.resolved = x
               /\ t.rest = <<>> /\ t.isParam = TRUE /\ t.failed = s.failed
    BY <1>4 DEF IsScanned
  <1> QED BY <1>1, <1>2, <1>3, <1>4

\* One token further.
LEMMA ScanStep ==
    ASSUME NEW text \in Text, NEW map, IsMap(map), NEW filled, IsFilled(filled, text, map),
           NEW i \in 1..Len(text), NEW b, b = Before(text, i),
           NEW c, c = Before(text, i + 1),
           NEW s, ScanAgrees(s, filled, text, i - 1, b, map),
           NEW t, t = ScanToken(s, text[i], map)
    PROVE  ScanAgrees(t, filled, text, i, c, map)
  <1>1. Len(text) \in Nat /\ i \in Nat /\ i - 1 \in Nat
    BY DEF Text
  <1>2. /\ b \in 0..(i - 1) /\ (b # 0 => text[b] \in Delimiter)
        /\ \A k \in (b + 1)..(i - 1) : text[k] \notin Delimiter
    <2>1. i \in 1..(Len(text) + 1)
      BY <1>1
    <2> QED BY <2>1, BeforeIs
  <1>3. c = IF text[i] \in Delimiter THEN i ELSE b
    BY BeforeStep
  <1>4. Good(text, i, map) <=>
             /\ Good(text, i - 1, map)
             /\ text[i] # OpenClose /\ (text[i] = Close => IsParamEnd(text, i, map))
    BY GoodStep
  <1>5. /\ s = [resolved |-> s.resolved, rest |-> s.rest, isParam |-> s.isParam,
                failed |-> s.failed]
        /\ s.failed \in BOOLEAN
        /\ s.failed <=> ~ Good(text, i - 1, map)
        /\ ~ s.failed => /\ s.isParam = (b # 0 /\ text[b] = Open)
                         /\ s.rest = SubSeq(text, b + 1, i - 1)
                         /\ s.resolved = filled[b]
    BY DEF ScanAgrees
  <1>6. CASE s.failed
    <2>1. t = s
      BY <1>6 DEF ScanToken
    <2> QED BY <1>4, <1>5, <1>6, <2>1 DEF ScanAgrees
  <1>7. ASSUME ~ s.failed PROVE \A k \in 0..(i - 1) : filled[k] \in Text
    <2>1. i - 1 \in 0..Len(text)
      BY <1>1
    <2> QED BY <1>5, <1>7, <2>1, FilledType
  <1>8. CASE ~ s.failed /\ text[i] = Open
    <2>0. PICK x : x = s.resolved \o s.rest
      OBVIOUS
    <2>1. /\ IsScanned(t) /\ t.resolved = x
          /\ t.rest = <<>> /\ t.isParam = TRUE /\ t.failed = s.failed
      <3>1. IsScanned(s)
        BY <1>5 DEF IsScanned
      <3> QED BY <1>8, <2>0, <3>1, ScanTokenIs
    <2>2. c = i /\ Good(text, i, map)
      BY <1>3, <1>4, <1>5, <1>8 DEF Delimiter, Open, Close, OpenClose
    <2>3. SubSeq(text, i + 1, i) = <<>>
      BY <1>1, SubSeqEmpty
    <2>4. filled[i - 1] = s.resolved \o s.rest
      <3>1. \A k \in b..(i - 1) : filled[k] \in Text
        BY <1>1, <1>2, <1>7, <1>8
      <3>2. i \in 1..(Len(text) + 1)
        BY <1>1
      <3>3. filled[i - 1] = filled[b] \o SubSeq(text, b + 1, i - 1)
        BY <1>8, <3>1, <3>2, RunIsText DEF IsRun
      <3> QED BY <1>5, <1>8, <3>3
    <2>5. filled[i] = filled[i - 1]
      <3>1. Piece(text, i, map) = <<>>
        BY <1>8 DEF Piece, Open, Close
      <3>2. filled[i - 1] \in Seq(STRING)
        BY <1>1, <1>7, <1>8 DEF Text
      <3>3. filled[i - 1] \o <<>> = filled[i - 1]
        BY <3>2, ConcatEmptySeq
      <3> QED BY <3>1, <3>3 DEF IsFilled, AddPiece
    <2>6. /\ t.resolved = filled[i] /\ t.rest = <<>> /\ t.isParam = TRUE /\ t.failed = FALSE
          /\ t = [resolved |-> t.resolved, rest |-> t.rest, isParam |-> t.isParam,
                  failed |-> t.failed]
      <3>1. filled[i] = x
        BY <2>0, <2>4, <2>5
      <3>2. s.failed = FALSE
        BY <1>5, <1>8
      <3> QED BY <2>1, <3>1, <3>2 DEF IsScanned
    <2>7. c # 0 /\ text[c] = Open
      BY <1>8, <2>2
    <2> QED BY <2>2, <2>3, <2>6, <2>7 DEF ScanAgrees
  <1>9. CASE ~ s.failed /\ text[i] = Close
    <2>1. t = CloseParam(s, map)
      <3>1. IsScanned(s)
        BY <1>5 DEF IsScanned
      <3> QED BY <1>9, <3>1, ScanTokenIs
    <2>2. c = i
      BY <1>3, <1>9 DEF Delimiter
    <2>3. Len(s.rest) = (i - 1) - b /\ (b + 1 = i - 1 => s.rest[1] = text[i - 1])
      <3>1. \A k \in (b + 1)..(i - 1) : text[k] \in STRING
        BY <1>1, <1>2 DEF Text
      <3>2. b + 1 \in Int /\ i - 1 \in Int
        BY <1>1, <1>2
      <3>3. PICK r : r = SubSeq(text, b + 1, i - 1)
        OBVIOUS
      <3>4. /\ Len(r) = IF b + 1 <= i - 1 THEN (i - 1) - (b + 1) + 1 ELSE 0
            /\ \A k \in 1..((i - 1) - (b + 1) + 1) : r[k] = text[b + 1 + k - 1]
        BY <3>1, <3>2, <3>3, SubSeqProperties
      <3>5. s.rest = r
        BY <1>5, <1>9, <3>3
      <3> QED BY <1>1, <1>2, <3>4, <3>5
    <2>4. IsParamEnd(text, i, map) <=>
            s.isParam /\ Len(s.rest) = 1 /\ s.rest[1] \in DOMAIN map
      <3>1. IsParamEnd(text, i, map) <=>
                b # 0 /\ text[b] = Open /\ i = b + 2 /\ text[i - 1] \in DOMAIN map
        BY <1>9 DEF IsParamEnd
      <3>2. i = b + 2 <=> Len(s.rest) = 1
        BY <1>1, <1>2, <2>3
      <3>3. i = b + 2 => s.rest[1] = text[i - 1]
        BY <1>1, <1>2, <2>3
      <3> QED BY <1>5, <1>9, <3>1, <3>2, <3>3
    <2>5. Good(text, i, map) <=> IsParamEnd(text, i, map)
      BY <1>4, <1>5, <1>9 DEF Close, OpenClose
    <2>6. CASE ~ IsParamEnd(text, i, map)
      <3>1. t = [s EXCEPT !.failed = TRUE]
        BY <2>1, <2>4, <2>6 DEF CloseParam
      <3> QED BY <1>5, <2>5, <2>6, <3>1 DEF ScanAgrees
    <2>7. CASE IsParamEnd(text, i, map)
      <3>0. PICK x : x = s.resolved \o map[s.rest[1]]
        OBVIOUS
      <3>1. t = [s EXCEPT !.resolved = x, !.rest = <<>>, !.isParam = FALSE]
        BY Zenon, <2>1, <2>4, <2>7, <3>0 DEF CloseParam
      <3>2. /\ i = b + 2 /\ b # 0 /\ text[b] = Open /\ text[i - 1] \in DOMAIN map
            /\ s.rest[1] = text[i - 1]
        <4>1. i = b + 2 /\ b # 0 /\ text[b] = Open /\ text[i - 1] \in DOMAIN map
          BY <2>7 DEF IsParamEnd
        <4> QED BY <1>1, <1>2, <2>3, <4>1
      <3>3. i - 1 \in 1..Len(text) /\ i - 1 = b + 1 /\ (i - 1) - 1 = b /\ b \in 1..Len(text)
            /\ b \in 0..(i - 1)
        BY <1>1, <1>2, <3>2
      <3>4. Before(text, i - 1) = b
        BY <1>2, <3>2, <3>3, BeforeStep
      <3>5. InParam(text, i - 1)
        <4>1. text[i - 1] \notin Delimiter
          BY <1>2, <3>3
        <4>2. i \in DOMAIN text /\ i > i - 1 /\ text[i] = Close /\ Before(text, i) = b
          BY <1>1, <1>9 DEF Text
        <4> QED BY <3>2, <3>4, <4>1, <4>2 DEF InParam
      <3>6. filled[i - 1] = filled[b]
        <4>1. Piece(text, i - 1, map) = <<>>
          BY <3>5 DEF Piece, InParam, Delimiter
        <4>2. filled[b] \in Seq(STRING)
          BY <1>7, <1>9, <3>3 DEF Text
        <4>3. filled[b] \o <<>> = filled[b]
          BY <4>2, ConcatEmptySeq
        <4>4. filled[i - 1] = filled[b] \o <<>>
          BY <3>3, <4>1 DEF IsFilled, AddPiece
        <4> QED BY <4>3, <4>4
      <3>7. filled[i] = filled[i - 1] \o map[text[i - 1]]
        <4>1. Piece(text, i, map) = map[text[i - 1]]
          BY <1>9 DEF Piece, InParam, Delimiter, Open, Close
        <4> QED BY <4>1 DEF IsFilled, AddPiece
      <3>8. /\ t.resolved = filled[i] /\ t.rest = <<>> /\ t.isParam = FALSE
            /\ t.failed = FALSE
            /\ t = [resolved |-> t.resolved, rest |-> t.rest, isParam |-> t.isParam,
                    failed |-> t.failed]
        <4>1. filled[i] = x
          BY <1>5, <1>9, <3>0, <3>2, <3>6, <3>7
        <4>2. s.failed = FALSE
          BY <1>5, <1>9
        <4> QED BY <1>5, <3>1, <4>1, <4>2
      <3>9. SubSeq(text, i + 1, i) = <<>>
        BY <1>1, SubSeqEmpty
      <3>10. text[c] # Open
        BY <1>9, <2>2 DEF Open, Close
      <3> QED BY <2>2, <2>5, <2>7, <3>8, <3>9, <3>10 DEF ScanAgrees
    <2> QED BY <2>6, <2>7
  <1>10. CASE ~ s.failed /\ text[i] = OpenClose
    <2>1. t = [s EXCEPT !.failed = TRUE]
      BY <1>10 DEF ScanToken, Open, Close, OpenClose
    <2> QED BY <1>4, <1>5, <1>10, <2>1 DEF ScanAgrees
  <1>11. CASE ~ s.failed /\ text[i] \notin Delimiter
    <2>1. t = [s EXCEPT !.rest = Append(@, text[i])]
      BY <1>11 DEF ScanToken, Delimiter
    <2>2. c = b /\ Good(text, i, map)
      BY <1>3, <1>4, <1>5, <1>11 DEF Delimiter
    <2>3. Append(s.rest, text[i]) = SubSeq(text, b + 1, i)
      <3>1. b + 1 \in 1..Len(text) /\ i \in (b + 1)..Len(text)
        BY <1>1, <1>2
      <3>2. SubSeq(text, b + 1, i) = SubSeq(text, b + 1, i - 1) \o <<text[i]>>
        BY <3>1, SubSeqRecursiveSecond DEF Text
      <3>3. PICK r : r = SubSeq(text, b + 1, i - 1)
        OBVIOUS
      <3>4. r \in Seq(STRING) /\ text[i] \in STRING
        <4>1. \A k \in (b + 1)..(i - 1) : text[k] \in STRING
          BY <1>1, <1>2 DEF Text
        <4>2. text[i] \in STRING
          BY DEF Text
        <4>3. b + 1 \in Int /\ i - 1 \in Int
          BY <1>1, <1>2
        <4> QED BY <3>3, <4>1, <4>2, <4>3, SubSeqProperties
      <3>5. Append(r, text[i]) = r \o <<text[i]>>
        BY <3>4, AppendIsConcat
      <3> QED BY <1>5, <1>11, <3>2, <3>3, <3>5
    <2>4. /\ t.resolved = s.resolved /\ t.isParam = s.isParam /\ t.failed = FALSE
          /\ t.rest = SubSeq(text, b + 1, i)
          /\ t = [resolved |-> t.resolved, rest |-> t.rest, isParam |-> t.isParam,
                  failed |-> t.failed]
      BY <1>5, <1>11, <2>1, <2>3
    <2> QED BY <1>5, <1>11, <2>2, <2>4 DEF ScanAgrees
  <1> QED BY <1>5, <1>6, <1>8, <1>9, <1>10, <1>11 DEF Delimiter

LEMMA ScanInv ==
    ASSUME NEW text \in Text, NEW map, IsMap(map), NEW filled, IsFilled(filled, text, map),
           NEW scan, IsScan(scan, text, map)
    PROVE  \A i \in 0..Len(text) :
                ScanAgrees(scan[i], filled, text, i, Before(text, i + 1), map)
  <1> DEFINE S == {i \in 0..Len(text) :
                    ScanAgrees(scan[i], filled, text, i, Before(text, i + 1), map)}
  <1>1. Len(text) \in Nat
    BY DEF Text
  <1>2. 0 \in S
    <2>1. Before(text, 0 + 1) = 0
      BY BeforeStep
    <2>2. Good(text, 0, map)
      BY DEF Good
    <2>3. SubSeq(text, 0 + 1, 0) = <<>>
      BY SubSeqEmpty
    <2>4. scan[0] = Unscanned /\ filled[0] = <<>>
      BY DEF IsScan, IsFilled
    <2>5. ScanAgrees(scan[0], filled, text, 0, 0, map)
      <3>1. PICK s : s = scan[0]
        OBVIOUS
      <3>2. /\ s = [resolved |-> s.resolved, rest |-> s.rest, isParam |-> s.isParam,
                    failed |-> s.failed]
            /\ s.resolved = <<>> /\ s.rest = <<>> /\ s.isParam = FALSE /\ s.failed = FALSE
        BY <2>4, <3>1 DEF Unscanned
      <3>3. ScanAgrees(s, filled, text, 0, 0, map)
        BY <2>2, <2>3, <2>4, <3>2 DEF ScanAgrees
      <3> QED BY <3>1, <3>3
    <2> QED BY <1>1, <2>1, <2>5
  <1>3. ASSUME NEW i \in 1..Len(text), i - 1 \in S
        PROVE  i \in S
    <2>1. (i - 1) + 1 = i /\ i \in 0..Len(text)
      BY <1>1
    <2>2. ScanAgrees(scan[i - 1], filled, text, i - 1, Before(text, i), map)
      BY <1>3, <2>1
    <2>3. scan[i] = ScanToken(scan[i - 1], text[i], map)
      BY DEF IsScan
    <2>4. ScanAgrees(scan[i], filled, text, i, Before(text, i + 1), map)
      BY <2>2, <2>3, ScanStep
    <2> QED BY <2>1, <2>4
  <1> HIDE DEF S
  <1>4. S \in SUBSET (0..Len(text))
    BY DEF S
  <1>5. S = 0..Len(text)
    BY <1>1, <1>2, <1>3, <1>4, UpTo
  <1> QED BY <1>5 DEF S

\* try_resolve_params does, for every text and every map of parameters, what
\* is written position by position: it succeeds exactly if every parameter is
\* known, every %} ends one and the last {% is closed, and then the text is
\* the one with the values filled in.
THEOREM ResolveReadsAsWritten ==
    ASSUME NEW text \in Text, NEW map, IsMap(map)
    PROVE  /\ Resolve(text, map) = IF IsResolvable(text, map)
                                   THEN Resolved(Filled(text, map)) ELSE Unresolved
           /\ IsResolvable(text, map) => Filled(text, map) \in Text
  <1> DEFINE n == Len(text)
             last == Before(text, n + 1)
  <1>1. n \in Nat /\ DOMAIN text = 1..n
    BY DEF Text
  <1>2. PICK scan : IsScan(scan, text, map) /\ ScanText(text, map) = scan[n]
    BY ScanIs
  <1>3. PICK filled : IsFilled(filled, text, map) /\ Filled(text, map) = filled[n]
    BY FilledIs
  <1>4. PICK end : end = scan[n]
    OBVIOUS
  <1>5. ScanAgrees(end, filled, text, n, last, map)
    BY <1>1, <1>2, <1>3, <1>4, ScanInv
  <1>6. IsResolvable(text, map) <=>
            Good(text, n, map) /\ ~ (last # 0 /\ text[last] = Open)
    BY <1>1 DEF IsResolvable, Has, Good
  <1>7. Resolve(text, map) = IF end.failed \/ end.isParam THEN Unresolved
                             ELSE Resolved(end.resolved \o end.rest)
    BY <1>2, <1>4 DEF Resolve
  <1>8. end.failed \/ end.isParam <=> ~ IsResolvable(text, map)
    BY <1>5, <1>6 DEF ScanAgrees
  <1>9. ASSUME IsResolvable(text, map)
        PROVE  end.resolved \o end.rest = Filled(text, map) /\ Filled(text, map) \in Text
    <2>1. Good(text, n, map) /\ ~ (last # 0 /\ text[last] = Open) /\ ~ end.failed
      BY <1>6, <1>8, <1>9
    <2>2. \A i \in 0..n : filled[i] \in Text
      BY <1>1, <1>3, <2>1, FilledType
    <2>3. last \in 0..n /\ (n + 1) - 1 = n /\ n + 1 \in 1..(n + 1)
      <3>1. n + 1 \in 1..(n + 1) /\ (n + 1) - 1 = n
        BY <1>1
      <3> QED BY <3>1, BeforeIs
    <2>4. \A k \in last..n : filled[k] \in Text
      BY <1>1, <2>2, <2>3
    <2>5. filled[n] = filled[last] \o SubSeq(text, last + 1, n)
      <3>1. PICK i : i = n + 1
        OBVIOUS
      <3>2. PICK b : b = last
        OBVIOUS
      <3>3. IsRun(text, i, b, filled)
        BY <2>1, <2>3, <2>4, <3>1, <3>2 DEF IsRun
      <3>4. filled[i - 1] = filled[b] \o SubSeq(text, b + 1, i - 1)
        BY ONLY <1>3, <3>3, RunIsText, text \in Text
      <3>5. i - 1 = n
        BY <2>3, <3>1
      <3> QED BY Zenon, <3>2, <3>4, <3>5
    <2>6. end.resolved = filled[last] /\ end.rest = SubSeq(text, last + 1, n)
      BY <1>5, <2>1 DEF ScanAgrees
    <2>7. end.resolved \o end.rest = filled[n]
      BY Zenon, <2>5, <2>6
    <2>8. n \in 0..n
      BY <1>1
    <2> QED BY Zenon, <1>3, <2>2, <2>7, <2>8
  <1> QED BY <1>7, <1>8, <1>9
-----------------------------------------------------------------------------
(* The parts of a list.                                                    *)

Uncut == [parts |-> <<>>, part |-> <<>>]

IsSplit(split, text) ==
    /\ split[0] = Uncut
    /\ \A i \in 1..Len(text) : split[i] = Cut(split[i - 1], text[i])

SplitUpTo(split, n, text) ==
    split = [i \in 0..n |-> IF i = 0 THEN Uncut ELSE Cut(split[i - 1], text[i])]

LEMMA SplitExists ==
    ASSUME NEW text \in Text
    PROVE  \E split : SplitUpTo(split, Len(text), text)
  <1> DEFINE S == {n \in 0..Len(text) : \E split : SplitUpTo(split, n, text)}
  <1>1. Len(text) \in Nat
    BY DEF Text
  <1>2. SplitUpTo([i \in 0..0 |-> Uncut], 0, text)
    BY DEF SplitUpTo
  <1>3. ASSUME NEW n \in 1..Len(text), n - 1 \in S
        PROVE  n \in S
    <2>1. PICK f : SplitUpTo(f, n - 1, text)
      BY <1>3
    <2>2. PICK g : g = [i \in 0..n |-> IF i = n THEN Cut(f[n - 1], text[n]) ELSE f[i]]
      OBVIOUS
    <2>3. \A i \in 0..(n - 1) : g[i] = f[i]
      BY <1>1, <2>2
    <2>4. \A i \in 0..n : g[i] = IF i = 0 THEN Uncut ELSE Cut(g[i - 1], text[i])
      <3> SUFFICES ASSUME NEW i \in 0..n
                   PROVE  g[i] = IF i = 0 THEN Uncut ELSE Cut(g[i - 1], text[i])
        OBVIOUS
      <3>1. CASE i = n
        BY <1>1, <2>2, <2>3, <3>1
      <3>2. CASE i # n
        <4>1. i \in 0..(n - 1) /\ (i # 0 => i - 1 \in 0..(n - 1))
          BY <1>1, <3>2
        <4> QED BY <2>1, <2>3, <4>1 DEF SplitUpTo
      <3> QED BY <3>1, <3>2
    <2>5. SplitUpTo(g, n, text)
      BY <2>2, <2>4 DEF SplitUpTo
    <2> QED BY <2>5
  <1>4. 0 \in S
    BY <1>1, <1>2
  <1> HIDE DEF S
  <1>5. S \in SUBSET (0..Len(text))
    BY DEF S
  <1>6. Len(text) \in S
    BY <1>1, <1>3, <1>4, <1>5, UpTo
  <1> QED BY <1>6 DEF S

LEMMA SplitIs ==
    ASSUME NEW text \in Text
    PROVE  \E split : IsSplit(split, text) /\ CutText(text) = split[Len(text)]
  <1> DEFINE split[i \in 0..Len(text)] ==
                IF i = 0 THEN Uncut ELSE Cut(split[i - 1], text[i])
  <1>1. Len(text) \in Nat
    BY DEF Text
  <1>2. SplitUpTo(split, Len(text), text)
    BY SplitExists DEF SplitUpTo
  <1>3. CutText(text) = split[Len(text)]
    BY DEF CutText, Uncut
  <1>4. PICK f : f = split
    OBVIOUS
  <1>5. SplitUpTo(f, Len(text), text) /\ CutText(text) = f[Len(text)]
    BY <1>2, <1>3, <1>4
  <1> HIDE DEF split
  <1>6. IsSplit(f, text)
    BY <1>1, <1>5 DEF IsSplit, SplitUpTo
  <1> QED BY <1>5, <1>6

Split == [parts : Seq(Text), part : Text]

LEMMA CutType ==
    ASSUME NEW s \in Split, NEW token \in STRING
    PROVE  Cut(s, token) \in Split
  <1>1. Append(s.part, token) \in Text /\ Append(s.parts, s.part) \in Seq(Text)
    BY AppendProperties DEF Split, Text
  <1>2. <<>> \in Text
    BY DEF Text
  <1> QED BY <1>1, <1>2 DEF Cut, Split

LEMMA SplitType ==
    ASSUME NEW text \in Text, NEW split, IsSplit(split, text)
    PROVE  \A i \in 0..Len(text) : split[i] \in Split
  <1> DEFINE S == {i \in 0..Len(text) : split[i] \in Split}
  <1>1. Len(text) \in Nat
    BY DEF Text
  <1>2. 0 \in S
    <2>1. Uncut \in Split
      BY DEF Uncut, Split, Text
    <2> QED BY <1>1, <2>1 DEF IsSplit
  <1>3. ASSUME NEW i \in 1..Len(text), i - 1 \in S
        PROVE  i \in S
    <2>1. text[i] \in STRING
      BY DEF Text
    <2>2. split[i] = Cut(split[i - 1], text[i]) /\ i \in 0..Len(text)
      BY <1>1 DEF IsSplit
    <2> QED BY <1>3, <2>1, <2>2, CutType
  <1> HIDE DEF S
  <1>4. S \in SUBSET (0..Len(text))
    BY DEF S
  <1>5. S = 0..Len(text)
    BY <1>1, <1>2, <1>3, <1>4, UpTo
  <1> QED BY <1>5 DEF S

LEMMA CutTextType ==
    ASSUME NEW text \in Text
    PROVE  CutText(text) \in Split
  <1>1. PICK split : IsSplit(split, text) /\ CutText(text) = split[Len(text)]
    BY SplitIs
  <1>2. Len(text) \in 0..Len(text)
    BY DEF Text
  <1> QED BY <1>1, <1>2, SplitType

LEMMA SplitListType ==
    ASSUME NEW text \in Text
    PROVE  SplitList(text) \in Seq(Text)
  <1>1. PICK end : end = CutText(text)
    OBVIOUS
  <1>2. end.parts \in Seq(Text) /\ end.part \in Text
    BY <1>1, CutTextType DEF Split
  <1>3. Append(end.parts, end.part) \in Seq(Text)
    BY <1>2, AppendProperties
  <1> QED BY <1>1, <1>2, <1>3 DEF SplitList

\* try_resolve_param_list succeeds exactly if every part can be resolved, and
\* then gives the parts with the values filled in.
LEMMA ResolveListIs ==
    ASSUME NEW text \in Text, NEW map, IsMap(map),
           NEW parts, parts = SplitList(text),
           NEW r, r = ResolveList(text, map)
    PROVE  /\ parts \in Seq(Text)
           /\ r.ok <=> \A k \in DOMAIN parts : IsResolvable(parts[k], map)
           /\ r.ok => /\ r.list = [k \in DOMAIN parts |-> Filled(parts[k], map)]
                      /\ r.list \in Seq(Text) /\ Len(r.list) = Len(parts)
           /\ ~ r.ok => r.list = <<>>
           /\ r.ok \in BOOLEAN
  <1>1. parts \in Seq(Text)
    BY SplitListType
  <1>2. \A k \in DOMAIN parts :
            /\ Resolve(parts[k], map) = IF IsResolvable(parts[k], map)
                                        THEN Resolved(Filled(parts[k], map)) ELSE Unresolved
            /\ IsResolvable(parts[k], map) => Filled(parts[k], map) \in Text
    <2> SUFFICES ASSUME NEW k \in DOMAIN parts
                 PROVE  /\ Resolve(parts[k], map) =
                                IF IsResolvable(parts[k], map)
                                THEN Resolved(Filled(parts[k], map)) ELSE Unresolved
                        /\ IsResolvable(parts[k], map) => Filled(parts[k], map) \in Text
      OBVIOUS
    <2>1. PICK part : part = parts[k]
      OBVIOUS
    <2>2. part \in Text
      BY <1>1, <2>1
    <2>3. /\ Resolve(part, map) = IF IsResolvable(part, map)
                                  THEN Resolved(Filled(part, map)) ELSE Unresolved
          /\ IsResolvable(part, map) => Filled(part, map) \in Text
      BY <2>2, ResolveReadsAsWritten
    <2> QED BY <2>1, <2>3
  <1>3. \A k \in DOMAIN parts :
            /\ Resolve(parts[k], map).ok <=> IsResolvable(parts[k], map)
            /\ IsResolvable(parts[k], map) =>
                    Resolve(parts[k], map).text = Filled(parts[k], map)
    BY <1>2 DEF Resolved, Unresolved
  <1>4. PICK ok : ok = \A k \in DOMAIN parts : Resolve(parts[k], map).ok
    OBVIOUS
  <1>5. r = [ok |-> ok, list |-> IF ok THEN [k \in DOMAIN parts |-> Resolve(parts[k], map).text]
                                 ELSE <<>>]
    BY <1>4 DEF ResolveList
  <1>6. r.ok = ok /\ (~ ok => r.list = <<>>)
        /\ (ok => r.list = [k \in DOMAIN parts |-> Resolve(parts[k], map).text])
    BY <1>5
  <1>7. ok <=> \A k \in DOMAIN parts : IsResolvable(parts[k], map)
    BY <1>3, <1>4
  <1>8. ASSUME ok
        PROVE  /\ r.list = [k \in DOMAIN parts |-> Filled(parts[k], map)]
               /\ r.list \in Seq(Text) /\ Len(r.list) = Len(parts)
    <2>1. r.list = [k \in DOMAIN parts |-> Filled(parts[k], map)]
      BY <1>3, <1>6, <1>7, <1>8
    <2>2. \A k \in DOMAIN parts : Filled(parts[k], map) \in Text
      BY <1>2, <1>7, <1>8
    <2>3. DOMAIN parts = 1..Len(parts) /\ Len(parts) \in Nat
      BY <1>1
    <2> QED BY <2>1, <2>2, <2>3
  <1> QED BY <1>1, <1>4, <1>6, <1>7, <1>8
-----------------------------------------------------------------------------
(* What a request brings.                                                  *)

RequestSlot == [key : DOMAIN SlotParam, state : Nat, value : Text, normalized : Text]
RequestPair == [key : DOMAIN ContextParam, value : Text]

LEMMA RequestIs ==
    ASSUME request \in Requests
    PROVE  /\ request.intents \in Seq(Text) /\ request.intents # <<>>
           /\ request.state \in Text
           /\ request.slots \in Seq(RequestSlot) /\ request.context \in Seq(RequestPair)
           /\ IsMap(request.params)
           /\ Slots \in SUBSET (1..Len(request.slots))
           /\ Intent \in Text
  <1>1. /\ request.intents \in Seq(Text) /\ request.intents # <<>>
        /\ request.state \in Text
        /\ request.slots \in Seq(RequestSlot) /\ request.context \in Seq(RequestPair)
        /\ request.params \in [DOMAIN request.params -> Text]
    BY OutputAssumption DEF RequestSlot, RequestPair
  <1>2. IsMap(request.params)
    BY <1>1 DEF IsMap
  <1>3. Slots \in SUBSET (1..Len(request.slots))
    BY <1>1 DEF Slots
  <1>4. Intent \in Text
    BY <1>1 DEF Intent, Last
  <1> QED BY <1>1, <1>2, <1>3, <1>4

LEMMA NormalizedType ==
    ASSUME NEW slot \in RequestSlot
    PROVE  Normalized(slot) \in Text /\ slot.value \in Text
  BY DEF Normalized, RequestSlot

\* The slot or the pair found first or last in a set of positions is one.
LEMMA FoundIs ==
    ASSUME NEW n \in Nat, NEW found \in SUBSET (1..n), found # {}
    PROVE  /\ Min(found) \in found /\ \A k \in found : Min(found) <= k
           /\ Max(found) \in found /\ \A k \in found : k <= Max(found)
  <1>1. found \in SUBSET Nat
    OBVIOUS
  <1> QED BY <1>1, HasMin, HasMax

LEMMA DefaultParamsType ==
    ASSUME request \in Requests
    PROVE  IsMap(DefaultParams)
  <1> USE RequestIs
  <1>1. ASSUME NEW name \in DOMAIN DefaultParams
        PROVE  DefaultParams[name] \in Text
    <2>1. DefaultParams[name] =
            IF ContextOf(name) # {} THEN request.context[Max(ContextOf(name))].value
            ELSE Normalized(request.slots[Min(SlotsOf(name))])
      BY <1>1 DEF DefaultParams
    <2>2. CASE ContextOf(name) # {}
      <3>1. ContextOf(name) \in SUBSET (1..Len(request.context)) /\ Len(request.context) \in Nat
        BY DEF ContextOf
      <3>2. Max(ContextOf(name)) \in 1..Len(request.context)
        BY <2>2, <3>1, FoundIs
      <3>3. request.context[Max(ContextOf(name))] \in RequestPair
        BY <3>2
      <3> QED BY <2>1, <2>2, <3>3 DEF RequestPair
    <2>3. CASE ContextOf(name) = {}
      <3>1. SlotsOf(name) # {}
        BY <1>1, <2>3 DEF DefaultParams, ContextOf, SlotsOf
      <3>2. SlotsOf(name) \in SUBSET (1..Len(request.slots)) /\ Len(request.slots) \in Nat
        BY DEF SlotsOf
      <3>3. Min(SlotsOf(name)) \in 1..Len(request.slots)
        BY <3>1, <3>2, FoundIs
      <3>4. request.slots[Min(SlotsOf(name))] \in RequestSlot
        BY <3>3
      <3> QED BY <2>1, <2>3, <3>4, NormalizedType
    <2> QED BY <2>2, <2>3
  <1> QED BY <1>1 DEF IsMap
-----------------------------------------------------------------------------
(* What a parameter may get is a text.                                     *)

IsOutcome(o) == o.ok \in BOOLEAN /\ (o.ok => o.text \in Text)

LEMMA ResolvedIs ==
    /\ IsOutcome(Unresolved)
    /\ \A text \in Text : IsOutcome(Resolved(text))
  BY DEF IsOutcome, Unresolved, Resolved

LEMMA ReplaceType ==
    ASSUME NEW args \in Seq(Text)
    PROVE  IsOutcome(Replace(args))
  <1> DEFINE Occurs(i) == SubSeq(args[1], i, i + Len(args[2]) - 1) = args[2]
             starts == {i \in 1..(Len(args[1]) + 1 - Len(args[2])) : Occurs(i)}
             first == Min(starts)
             result == SubSeq(args[1], 1, first - 1) \o args[3]
                         \o SubSeq(args[1], first + Len(args[2]), Len(args[1]))
  <1>1. Replace(args) = IF Len(args) # 3 THEN Unresolved
                        ELSE IF starts = {} THEN Resolved(args[1])
                        ELSE Resolved(result)
    BY ONLY Zenon DEF Replace
  <1> HIDE DEF Occurs
  <1>2. ASSUME Len(args) = 3 PROVE args[1] \in Text /\ args[2] \in Text /\ args[3] \in Text
    <2>1. 1 \in 1..Len(args) /\ 2 \in 1..Len(args) /\ 3 \in 1..Len(args)
      BY <1>2
    <2> QED BY <2>1, ElementOfSeq
  <1>3. ASSUME Len(args) = 3, starts # {} PROVE result \in Text
    <2>1. Len(args[1]) \in Nat /\ Len(args[2]) \in Nat
      BY <1>2, <1>3 DEF Text
    <2>2. starts \in SUBSET Nat
      <3>1. PICK n : n = Len(args[1]) + 1 - Len(args[2])
        OBVIOUS
      <3>2. n \in Int
        BY <2>1, <3>1
      <3>3. \A i \in starts : i \in 1..n
        BY <3>1
      <3> HIDE DEF starts
      <3> QED BY <3>2, <3>3
    <2>3. first \in starts
      <3> HIDE DEF starts
      <3> QED BY <1>3, <2>2, HasMin
    <2>4. first \in Nat /\ 1 <= first /\ first <= Len(args[1]) + 1 - Len(args[2])
      <3>1. first \in 1..(Len(args[1]) + 1 - Len(args[2]))
        BY <2>3
      <3> HIDE DEF first
      <3> QED BY <2>1, <3>1
    <2> HIDE DEF first
    <2>5. SubSeq(args[1], 1, first - 1) \in Seq(STRING)
      <3>1. \A i \in 1..(first - 1) : args[1][i] \in STRING
        <4>1. \A i \in 1..(first - 1) : i \in 1..Len(args[1])
          BY <2>1, <2>4
        <4> QED BY <1>2, <1>3, <4>1 DEF Text
      <3>2. 1 \in Int /\ first - 1 \in Int
        BY <2>4
      <3> QED BY <3>1, <3>2, SubSeqProperties
    <2>6. SubSeq(args[1], first + Len(args[2]), Len(args[1])) \in Seq(STRING)
      <3>1. \A i \in (first + Len(args[2]))..Len(args[1]) : args[1][i] \in STRING
        <4>1. \A i \in (first + Len(args[2]))..Len(args[1]) : i \in 1..Len(args[1])
          BY <2>1, <2>4
        <4> QED BY <1>2, <1>3, <4>1 DEF Text
      <3>2. first + Len(args[2]) \in Int /\ Len(args[1]) \in Int
        BY <2>1, <2>4
      <3> QED BY <3>1, <3>2, SubSeqProperties
    <2>7. args[3] \in Seq(STRING)
      BY <1>2, <1>3 DEF Text
    <2> QED BY <2>5, <2>6, <2>7, ConcatProperties DEF Text
  <1> HIDE DEF result, starts
  <1> QED BY <1>1, <1>2, <1>3, ResolvedIs

LEMMA FunctionType ==
    ASSUME NEW name, NEW args \in Seq(Text), NEW o \in CallFunction(name, args)
    PROVE  IsOutcome(o)
  <1>1. IsOutcome(ChooseIfEqual(args))
    <2>1. ASSUME ~ (Len(args) < 4) PROVE args[3] \in Text /\ args[4] \in Text
      BY <2>1
    <2> QED BY <2>1, ResolvedIs DEF ChooseIfEqual
  <1>2. \A c \in CallService(args) : IsOutcome(c)
    BY ResolvedIs, OutputAssumption DEF CallService
  <1>3. \/ o = ChooseIfEqual(args) \/ o = Replace(args)
        \/ o \in CallService(args) \/ o = Unresolved
    BY DEF CallFunction
  <1> QED BY <1>1, <1>2, <1>3, ReplaceType, ResolvedIs

\* The name of the function and its arguments are texts.
LEMMA FunctionTexts ==
    ASSUME NEW text \in Text
    PROVE  FunctionName(text) \in Text /\ FunctionArgs(text) \in Text
  <1>1. Len(text) \in Nat /\ DOMAIN text = 1..Len(text) /\ <<>> \in Text
    BY DEF Text
  <1>2. CASE IsNameOnly(text)
    BY <1>1, <1>2 DEF FunctionName, FunctionArgs
  <1>3. CASE ~ IsNameOnly(text)
    <2>1. PICK colons : colons = Colons(text)
      OBVIOUS
    <2>2. PICK m : m = Min(colons)
      OBVIOUS
    <2>3. colons \in SUBSET (1..Len(text)) /\ colons # {}
      BY <1>1, <1>3, <2>1 DEF Colons, IsNameOnly
    <2>4. m \in 1..Len(text)
      BY <1>1, <2>2, <2>3, FoundIs
    <2>5. \A i \in 1..Len(text) : text[i] \in STRING
      BY DEF Text
    <2>6. SubSeq(text, 1, m - 1) \in Seq(STRING)
      BY <1>1, <2>4, <2>5, SubSeqProperties
    <2>7. SubSeq(text, m + 1, Len(text)) \in Seq(STRING)
      BY <1>1, <2>4, <2>5, SubSeqProperties
    <2>8. /\ FunctionName(text) = SubSeq(text, 1, m - 1)
          /\ FunctionArgs(text) = SubSeq(text, m + 1, Len(text))
      BY <1>3, <2>1, <2>2 DEF FunctionName, FunctionArgs
    <2> QED BY <2>6, <2>7, <2>8 DEF Text
  <1> QED BY <1>2, <1>3

LEMMA OutcomesType ==
    ASSUME request \in Requests, IsMap(params), NEW param \in PolicyParam,
           NEW o \in Outcomes(param)
    PROVE  IsOutcome(o)
  <1> USE RequestIs
  <1>1. IsOutcome(SlotOutcome(param))
    <2> DEFINE slots == {i \in Slots : request.slots[i].key = param.key}
               found == {i \in slots : Cardinality({j \in slots : j < i}) = param.index}
    <2>1. CASE found = {}
      BY <2>1, ResolvedIs DEF SlotOutcome
    <2>2. CASE found # {}
      <3>0. slots \in SUBSET (1..Len(request.slots))
        OBVIOUS
      <3>1. found \in SUBSET (1..Len(request.slots)) /\ Len(request.slots) \in Nat
        <4>1. found \in SUBSET slots
          <5> HIDE DEF slots
          <5> QED OBVIOUS
        <4> HIDE DEF found, slots
        <4> QED BY <3>0, <4>1
      <3>2. Min(found) \in 1..Len(request.slots)
        <4> HIDE DEF found
        <4> QED BY <2>2, <3>1, FoundIs
      <3>3. PICK slot : slot = request.slots[Min(found)]
        OBVIOUS
      <3>4. slot.value \in Text /\ Normalized(slot) \in Text
        <4>1. slot \in RequestSlot
          <5> HIDE DEF found
          <5> QED BY <3>2, <3>3, ElementOfSeq
        <4> QED BY <4>1, NormalizedType
      <3>5. SlotOutcome(param) \in {Resolved(slot.value), Resolved(Normalized(slot))}
        BY <2>2, <3>3 DEF SlotOutcome
      <3> QED BY <3>4, <3>5, ResolvedIs
    <2> QED BY <2>1, <2>2
  <1>2. IsOutcome(ContextOutcome(param))
    <2> DEFINE found == {i \in DOMAIN request.context : request.context[i].key = param.key}
    <2>1. CASE found = {}
      BY <2>1, ResolvedIs DEF ContextOutcome
    <2>2. CASE found # {}
      <3>1. found \in SUBSET (1..Len(request.context)) /\ Len(request.context) \in Nat
        OBVIOUS
      <3>2. Min(found) \in 1..Len(request.context)
        <4> HIDE DEF found
        <4> QED BY <2>2, <3>1, FoundIs
      <3>3. PICK pair : pair = request.context[Min(found)]
        OBVIOUS
      <3>4. pair.value \in Text
        <4>1. pair \in RequestPair
          <5> HIDE DEF found
          <5> QED BY <3>2, <3>3, ElementOfSeq
        <4> QED BY <4>1 DEF RequestPair
      <3>5. ContextOutcome(param) = Resolved(pair.value)
        BY <2>2, <3>3 DEF ContextOutcome
      <3> QED BY <3>4, <3>5, ResolvedIs
    <2> QED BY <2>1, <2>2
  <1>3. IsOutcome(RequestOutcome(param))
    BY ResolvedIs DEF RequestOutcome, IsMap
  <1>4. \A f \in FunctionOutcomes(param) : IsOutcome(f)
    <2> SUFFICES ASSUME NEW f \in FunctionOutcomes(param) PROVE IsOutcome(f)
      OBVIOUS
    <2>0. PICK text : text = FunctionArgs(param.text)
      OBVIOUS
    <2>1. PICK args : args = ResolveList(text, params)
      OBVIOUS
    <2>2. PICK name : name = Resolve(FunctionName(param.text), params)
      OBVIOUS
    <2>3. text \in Text
      BY <2>0, FunctionTexts DEF PolicyParam
    <2>4. args.ok => args.list \in Seq(Text)
      BY <2>1, <2>3, ResolveListIs
    <2>5. f = Unresolved \/ (args.ok /\ f \in CallFunction(name.text, args.list))
      BY <2>0, <2>1, <2>2 DEF FunctionOutcomes
    <2> QED BY <2>4, <2>5, FunctionType, ResolvedIs
  <1>5. IsOutcome(Resolve(param.text, params))
    <2>1. param.text \in Text
      BY DEF PolicyParam
    <2> QED BY <2>1, ResolveReadsAsWritten, ResolvedIs
  <1>6. IsOutcome(Resolved(Intent)) /\ IsOutcome(Resolved(request.state))
        /\ IsOutcome(Resolved(param.text))
    BY ResolvedIs DEF PolicyParam
  <1> QED BY <1>1, <1>2, <1>3, <1>4, <1>5, <1>6, ResolvedIs DEF Outcomes
-----------------------------------------------------------------------------
(* Types.                                                                  *)

OutputInv ==
    /\ policy \in Policies /\ request \in Requests
    /\ pc \in {"params", "outputs", "fill", "done"}
    /\ IsMap(params)
    /\ \E S : history \in Seq(S)
    /\ \A i \in DOMAIN history : IsMap(history[i])
    /\ Len(history) <= Len(policy.params)
    /\ pc = "params" => at = Len(history) + 1
    /\ pc \in {"outputs", "fill"} => AllParamsSet
    /\ \A i \in DOMAIN history : policy.params[i].name \in DOMAIN params
    /\ selected \in {0} \union DOMAIN policy.outputs
    /\ pc \in {"params", "outputs"} => selected = 0
    /\ pc = "fill" => selected = at /\ at \in DOMAIN policy.outputs
    /\ pc # "done" => answer = NoAnswer
    /\ answer # NoAnswer => selected # 0

LEMMA PolicyIs ==
    ASSUME policy \in Policies
    PROVE  /\ policy.params \in Seq(PolicyParam)
           /\ policy.outputs \in Seq(OutputOfPolicy)
  BY OutputAssumption

LEMMA OutputInit == Init => OutputInv
  <1> SUFFICES ASSUME Init PROVE OutputInv
    OBVIOUS
  <1>1. policy \in Policies /\ request \in Requests /\ IsMap(params)
    BY DefaultParamsType DEF Init
  <1>2. history = <<>> /\ history \in Seq({}) /\ DOMAIN history = {} /\ Len(history) = 0
    BY DEF Init
  <1>3. Len(policy.params) \in Nat
    BY <1>1, PolicyIs
  <1>4. pc = "params" /\ at = 1 /\ selected = 0 /\ answer = NoAnswer
    BY DEF Init
  <1>5. \A i \in DOMAIN history : IsMap(history[i]) /\ policy.params[i].name \in DOMAIN params
    BY <1>2
  <1> QED BY <1>1, <1>2, <1>3, <1>4, <1>5 DEF OutputInv

\* Setting a parameter, seen from outside.
LEMMA SetParamIs ==
    ASSUME OutputInv, NEW o, SetParam(o), NEW param, param = policy.params[at]
    PROVE  /\ at = Len(history) + 1 /\ at \in DOMAIN policy.params /\ param \in PolicyParam
           /\ o \in Outcomes(param) /\ IsOutcome(o)
           /\ params' = Put(params, param.name, IF o.ok THEN o.text ELSE param.default)
           /\ Len(history) \in Nat
           /\ history' = Append(history, params) /\ Len(history') = Len(history) + 1
           /\ \E S : history' \in Seq(S)
           /\ \A i \in DOMAIN history : history'[i] = history[i]
           /\ history'[at] = params
           /\ DOMAIN history = 1..Len(history) /\ DOMAIN history' = 1..at
           /\ UNCHANGED <<policy, request, pc, selected, answer>> /\ at' = at + 1
           /\ pc = "params"
  <1>1. /\ pc = "params" /\ at = Len(history) + 1 /\ at \in DOMAIN policy.params
        /\ o \in Outcomes(param)
        /\ params' = Put(params, param.name, IF o.ok THEN o.text ELSE param.default)
        /\ history' = Append(history, params) /\ at' = at + 1
        /\ UNCHANGED <<policy, request, pc, selected, answer>>
    BY DEF OutputInv, SetParam
  <1>2. param \in PolicyParam
    <2>1. policy.params \in Seq(PolicyParam)
      BY PolicyIs DEF OutputInv
    <2> QED BY <1>1, <2>1
  <1>3. IsOutcome(o)
    BY <1>1, <1>2, OutcomesType DEF OutputInv
  <1>4. PICK S : history \in Seq(S)
    BY DEF OutputInv
  <1>5. PICK T : T = S \union {params}
    OBVIOUS
  <1>6. history \in Seq(T) /\ params \in T
    BY <1>4, <1>5, SeqMonotonic
  <1>7. PICK longer : longer = history'
    OBVIOUS
  <1>8. /\ longer \in Seq(T) /\ Len(longer) = Len(history) + 1
        /\ \A i \in 1..Len(history) : longer[i] = history[i]
        /\ longer[Len(history) + 1] = params
    BY <1>1, <1>6, <1>7, AppendProperties
  <1>9. /\ Len(history) \in Nat /\ DOMAIN history = 1..Len(history)
        /\ DOMAIN longer = 1..Len(longer)
    BY <1>6, <1>8, LenProperties
  <1> QED BY <1>1, <1>2, <1>3, <1>7, <1>8, <1>9

LEMMA OutputSetParam ==
    ASSUME OutputInv, NEW o, SetParam(o)
    PROVE  OutputInv'
  <1>1. PICK param : param = policy.params[at]
    OBVIOUS
  <1>2. /\ at = Len(history) + 1 /\ at \in DOMAIN policy.params /\ param \in PolicyParam
        /\ o \in Outcomes(param) /\ IsOutcome(o)
        /\ params' = Put(params, param.name, IF o.ok THEN o.text ELSE param.default)
        /\ Len(history) \in Nat
        /\ Len(history') = Len(history) + 1
        /\ \E S : history' \in Seq(S)
        /\ \A i \in DOMAIN history : history'[i] = history[i]
        /\ history'[at] = params
        /\ DOMAIN history = 1..Len(history) /\ DOMAIN history' = 1..at
        /\ UNCHANGED <<policy, request, pc, selected, answer>> /\ at' = at + 1
        /\ pc = "params"
    BY <1>1, SetParamIs
  <1>3. PICK value : value = IF o.ok THEN o.text ELSE param.default
    OBVIOUS
  <1>4. value \in Text
    BY <1>2, <1>3 DEF IsOutcome, PolicyParam
  <1>5. /\ DOMAIN params' = DOMAIN params \union {param.name}
        /\ \A n \in DOMAIN params' : params'[n] = IF n = param.name THEN value ELSE params[n]
    BY <1>2, <1>3 DEF Put
  <1>6. IsMap(params')
    BY <1>4, <1>5 DEF IsMap, OutputInv
  <1>7. ASSUME NEW i \in DOMAIN history'
        PROVE  IsMap(history'[i]) /\ policy.params[i].name \in DOMAIN params'
    <2>1. CASE i = at
      BY <1>1, <1>2, <1>5, <2>1 DEF OutputInv
    <2>2. CASE i # at
      <3>1. i \in DOMAIN history
        BY <1>2, <1>7, <2>2
      <3> QED BY <1>2, <1>5, <3>1 DEF OutputInv
    <2> QED BY <2>1, <2>2
  <1>8. Len(history') <= Len(policy.params)
    <2>1. DOMAIN policy.params = 1..Len(policy.params) /\ Len(policy.params) \in Nat
      BY PolicyIs DEF OutputInv
    <2> QED BY <1>2, <2>1
  <1>9. /\ policy' = policy /\ request' = request /\ pc' = pc /\ selected' = selected
        /\ answer' = answer /\ at' = Len(history') + 1
    BY <1>2
  <1> QED BY <1>2, <1>6, <1>7, <1>8, <1>9 DEF OutputInv

LEMMA OutputNext == OutputInv /\ [Next]_vars => OutputInv'
  <1> SUFFICES ASSUME OutputInv, [Next]_vars PROVE OutputInv'
    OBVIOUS
  <1>1. ASSUME NEW o, SetParam(o) PROVE OutputInv'
    BY <1>1, OutputSetParam
  <1>2. CASE RequiredParamFails
    BY <1>2 DEF OutputInv, RequiredParamFails
  <1>3. CASE EndParams
    <2>1. AllParamsSet
      <3>1. DOMAIN policy.params = 1..Len(policy.params) /\ Len(policy.params) \in Nat
        BY PolicyIs DEF OutputInv
      <3>2. Len(history) \in Nat
        BY DEF OutputInv
      <3> QED BY <1>3, <3>1, <3>2 DEF OutputInv, EndParams, AllParamsSet
    <2> QED BY <1>3, <2>1 DEF OutputInv, EndParams, AllParamsSet
  <1>4. CASE SelectOutput
    BY <1>4 DEF OutputInv, SelectOutput, AllParamsSet
  <1>5. CASE SkipOutput
    BY <1>5 DEF OutputInv, SkipOutput, AllParamsSet
  <1>6. CASE NoOutput
    BY <1>6 DEF OutputInv, NoOutput
  <1>7. ASSUME NEW choice, FillOutput(choice) PROVE OutputInv'
    <2>1. selected # 0
      <3>1. DOMAIN policy.outputs = 1..Len(policy.outputs) /\ Len(policy.outputs) \in Nat
        BY PolicyIs DEF OutputInv
      <3> QED BY <1>7, <3>1 DEF OutputInv, FillOutput
    <2> QED BY <1>7, <2>1 DEF OutputInv, FillOutput
  <1>8. CASE FillFails
    BY <1>8 DEF OutputInv, FillFails
  <1>9. CASE UNCHANGED vars
    BY <1>9 DEF OutputInv, vars, AllParamsSet
  <1> QED BY <1>1, <1>2, <1>3, <1>4, <1>5, <1>6, <1>7, <1>8, <1>9 DEF Next

THEOREM OutputInvariance == Spec => []OutputInv
  BY OutputInit, OutputNext, PTL DEF Spec

\* TypeOK of PolicyOutput: a parameter that was passed has a value, an output
\* is looked at only when all of them have, and there is an answer only at
\* the end and from the selected output.
THEOREM TypeCorrect == Spec => []TypeOK
  <1>1. OutputInv => TypeOK
    <2> SUFFICES ASSUME OutputInv PROVE TypeOK
      OBVIOUS
    <2>1. answer # NoAnswer => pc = "done" /\ selected # 0
      BY DEF OutputInv
    <2> QED BY <2>1 DEF OutputInv, TypeOK
  <1> QED BY <1>1, OutputInvariance, PTL
-----------------------------------------------------------------------------
(* The parameters.                                                         *)

LEMMA OneElement ==
    ASSUME NEW S, NEW k \in S
    PROVE  <<k>> \in Seq(S)
  OBVIOUS

\* A name by itself is a text that stands for itself.
LEMMA NameIsText ==
    ASSUME NEW k \in STRING \ Delimiter, NEW map, IsMap(map)
    PROVE  Resolve(<<k>>, map) = Resolved(<<k>>)
  <1>1. PICK text : text = <<k>>
    OBVIOUS
  <1>2. text \in Text /\ Len(text) = 1 /\ text[1] = k /\ DOMAIN text = {1}
    <2>1. k \in STRING
      OBVIOUS
    <2>2. text \in Seq(STRING)
      BY <1>1, <2>1, OneElement
    <2>3. Len(text) = 1 /\ text[1] = k
      BY <1>1
    <2>4. DOMAIN text = 1..1
      BY <2>2, <2>3
    <2> QED BY <2>2, <2>3, <2>4 DEF Text
  <1>3. Before(text, 1) = 0 /\ Before(text, 2) = 0
    <2>1. Before(text, 1) = 0
      BY <1>2, BeforeStep
    <2>2. 1 \in 1..Len(text) /\ 1 + 1 = 2
      BY <1>2
    <2> QED BY <1>2, <2>1, <2>2, BeforeStep
  <1>4. IsResolvable(text, map)
    <2>1. Len(text) + 1 = 2
      BY <1>2
    <2>2. k # Close /\ k # OpenClose
      BY DEF Delimiter
    <2>3. \A i \in DOMAIN text : text[i] = k
      BY <1>2
    <2> QED BY <1>3, <2>1, <2>2, <2>3 DEF IsResolvable, Has
  <1>5. Piece(text, 1, map) = <<k>>
    BY <1>2, <1>3 DEF Piece, InParam, Delimiter
  <1>6. Filled(text, map) = text
    <2>1. PICK filled : IsFilled(filled, text, map) /\ Filled(text, map) = filled[Len(text)]
      BY <1>2, FilledIs
    <2>2. filled[0] = <<>> /\ filled[1] = filled[0] \o <<k>>
      <3>1. 1 \in 1..Len(text) /\ 1 - 1 = 0
        BY <1>2
      <3> QED BY <1>5, <2>1, <3>1 DEF IsFilled, AddPiece
    <2>3. <<>> \o text = text
      BY <1>2, ConcatEmptySeq DEF Text
    <2> QED BY <1>1, <1>2, <2>1, <2>2, <2>3
  <1> QED BY <1>1, <1>2, <1>4, <1>6, ResolveReadsAsWritten

ChoiceAsWritten(param, value, map) ==
    LET parts == SplitList(SubSeq(param.text, 3, Len(param.text)))
        ArgumentsResolve == \A k \in DOMAIN parts : IsResolvable(parts[k], map)
        Argument(k) == Filled(parts[k], map)
    IN  value = IF ~ ArgumentsResolve \/ Len(parts) < 4 THEN param.default
                ELSE IF Argument(1) = Argument(2) THEN Argument(3)
                ELSE Argument(4)

\* In name:arguments the name is the first word, and the arguments follow.
LEMMA ChoiceParts ==
    ASSUME NEW text \in Text, CallsChoice(text)
    PROVE  /\ FunctionName(text) = <<"choose_if_equal">>
           /\ FunctionArgs(text) = SubSeq(text, 3, Len(text))
  <1>1. Len(text) \in Nat /\ DOMAIN text = 1..Len(text) /\ Len(text) > 2
    BY DEF Text, CallsChoice
  <1>2. text[1] = "choose_if_equal" /\ text[2] = Colon /\ text[1] # Colon
    BY DEF CallsChoice, Colon
  <1>3. PICK colons : colons = Colons(text)
    OBVIOUS
  <1>4. colons \in SUBSET (1..Len(text)) /\ 2 \in colons /\ 1 \notin colons
    BY <1>1, <1>2, <1>3 DEF Colons
  <1>5. PICK m : m = Min(colons)
    OBVIOUS
  <1>6. m \in colons /\ \A k \in colons : m <= k
    BY <1>1, <1>4, <1>5, FoundIs
  <1>7. m = 2
    BY <1>1, <1>4, <1>6
  <1>8. ~ IsNameOnly(text)
    BY <1>1, <1>3, <1>4, <1>5, <1>7 DEF IsNameOnly
  <1>9. PICK name : name = SubSeq(text, 1, 1)
    OBVIOUS
  <1>10. name = <<"choose_if_equal">>
    <2>1. \A i \in 1..1 : text[i] \in STRING
      BY <1>1 DEF Text
    <2>2. name \in Seq(STRING) /\ Len(name) = 1 /\ name[1] = text[1]
      BY <1>9, <2>1, SubSeqProperties
    <2> QED BY <1>2, <2>2
  <1>11. m - 1 = 1 /\ m + 1 = 3
    BY <1>7
  <1> QED BY <1>3, <1>5, <1>8, <1>9, <1>10, <1>11 DEF FunctionName, FunctionArgs

LEMMA ChoiceReadsAsWritten ==
    ASSUME IsMap(params), NEW param \in PolicyParam, CallsChoice(param.text),
           NEW o \in FunctionOutcomes(param)
    PROVE  ChoiceAsWritten(param, IF o.ok THEN o.text ELSE param.default, params)
  <1>0. PICK text : text = FunctionArgs(param.text)
    OBVIOUS
  <1>1. PICK name : name = Resolve(FunctionName(param.text), params)
    OBVIOUS
  <1>2. name = Resolved(<<"choose_if_equal">>) /\ text \in Text
        /\ text = SubSeq(param.text, 3, Len(param.text))
    <2>1. param.text \in Text
      BY DEF PolicyParam
    <2>2. PICK first : first = param.text[1]
      OBVIOUS
    <2>3. first = "choose_if_equal"
      BY <2>2 DEF CallsChoice
    <2>4. first \in STRING
      BY <2>1, <2>2 DEF Text, CallsChoice
    <2>5. first \notin Delimiter
      BY <2>3 DEF Delimiter, Open, Close, OpenClose
    <2>6. Resolve(<<first>>, params) = Resolved(<<first>>)
      BY <2>4, <2>5, NameIsText
    <2> QED BY <1>0, <1>1, <2>1, <2>3, <2>6, ChoiceParts, FunctionTexts
  <1>3. name.ok = TRUE /\ name.text = <<"choose_if_equal">>
    BY <1>2 DEF Resolved
  <1>4. PICK parts : parts = SplitList(text)
    OBVIOUS
  <1>5. PICK args : args = ResolveList(text, params)
    OBVIOUS
  <1>6. /\ parts \in Seq(Text)
        /\ args.ok <=> \A k \in DOMAIN parts : IsResolvable(parts[k], params)
        /\ args.ok => /\ args.list = [k \in DOMAIN parts |-> Filled(parts[k], params)]
                      /\ args.list \in Seq(Text) /\ Len(args.list) = Len(parts)
    BY <1>2, <1>4, <1>5, ResolveListIs
  <1>7. o = IF args.ok THEN ChooseIfEqual(args.list) ELSE Unresolved
    <2>1. CallFunction(name.text, args.list) = {ChooseIfEqual(args.list)}
      <3>1. name.text[1] = "choose_if_equal"
        BY <1>3
      <3>2. name.text # <<"replace">> /\ name.text # <<"service_http_get">>
        BY <1>3
      <3> QED BY <1>3, <3>2 DEF CallFunction
    <2>2. FunctionOutcomes(param) = IF args.ok THEN CallFunction(name.text, args.list)
                                    ELSE {Unresolved}
      BY <1>0, <1>1, <1>3, <1>5 DEF FunctionOutcomes
    <2> QED BY <2>1, <2>2
  <1>8. Len(parts) \in Nat /\ DOMAIN parts = 1..Len(parts)
    BY <1>6
  <1>9. CASE ~ args.ok \/ Len(parts) < 4
    <2>1. o.ok = FALSE
      BY <1>6, <1>7, <1>9 DEF ChooseIfEqual, Unresolved
    <2> QED BY <1>2, <1>4, <1>6, <1>9, <2>1 DEF ChoiceAsWritten
  <1>10. CASE args.ok /\ ~ (Len(parts) < 4)
    <2>1. \A k \in 1..4 : args.list[k] = Filled(parts[k], params)
      BY <1>6, <1>8, <1>10
    <2>2. o = Resolved(IF args.list[1] = args.list[2] THEN args.list[3] ELSE args.list[4])
      BY <1>6, <1>7, <1>10 DEF ChooseIfEqual
    <2>3. o.ok = TRUE /\ o.text = IF Filled(parts[1], params) = Filled(parts[2], params)
                                  THEN Filled(parts[3], params) ELSE Filled(parts[4], params)
      BY <2>1, <2>2 DEF Resolved
    <2> QED BY <1>2, <1>4, <1>6, <1>10, <2>3 DEF ChoiceAsWritten
  <1> QED BY <1>9, <1>10

\* A text that begins with a word and a comma fills in to more than one word.
LEMMA CommaStays ==
    ASSUME NEW text \in Text, NEW map, IsMap(map), IsResolvable(text, map),
           Len(text) >= 2, text[1] \notin Delimiter, text[2] = Comma
    PROVE  Filled(text, map) \in Text /\ Len(Filled(text, map)) >= 2
  <1>1. PICK n : n = Len(text)
    OBVIOUS
  <1>2. n \in Nat /\ n >= 2 /\ DOMAIN text = 1..n
    BY <1>1 DEF Text
  <1>3. PICK filled : IsFilled(filled, text, map) /\ Filled(text, map) = filled[n]
    BY <1>1, FilledIs
  <1>4. Good(text, n, map)
    BY <1>1, <1>2 DEF IsResolvable, Has, Good
  <1>5. \A i \in 0..n : filled[i] \in Text
    BY <1>1, <1>2, <1>3, <1>4, FilledType
  <1>6. \A i \in 1..n : Piece(text, i, map) \in Text
                        /\ filled[i] = filled[i - 1] \o Piece(text, i, map)
    <2>1. \A i \in 1..n : text[i] = Close => IsParamEnd(text, i, map)
      BY <1>4 DEF Good
    <2> QED BY <1>1, <1>3, <2>1, PieceType DEF IsFilled, AddPiece
  <1>7. \A i \in 1..n : Len(filled[i]) >= Len(filled[i - 1])
                        /\ (Len(Piece(text, i, map)) = 1 =>
                                Len(filled[i]) = Len(filled[i - 1]) + 1)
    <2> SUFFICES ASSUME NEW i \in 1..n
                 PROVE  Len(filled[i]) >= Len(filled[i - 1])
                        /\ (Len(Piece(text, i, map)) = 1 =>
                                Len(filled[i]) = Len(filled[i - 1]) + 1)
      OBVIOUS
    <2>1. PICK before : before = filled[i - 1]
      OBVIOUS
    <2>2. PICK piece : piece = Piece(text, i, map)
      OBVIOUS
    <2>3. PICK out : out = filled[i]
      OBVIOUS
    <2>4. before \in Seq(STRING) /\ piece \in Seq(STRING) /\ out = before \o piece
      <3>1. i - 1 \in 0..n
        BY <1>2
      <3> QED BY <1>5, <1>6, <2>1, <2>2, <2>3, <3>1 DEF Text
    <2>5. Len(out) = Len(before) + Len(piece)
          /\ Len(before) \in Nat /\ Len(piece) \in Nat
      BY <2>4, ConcatProperties, LenProperties
    <2>6. Len(out) >= Len(before) /\ (Len(piece) = 1 => Len(out) = Len(before) + 1)
      <3>1. PICK a : a = Len(before)
        OBVIOUS
      <3>2. PICK b : b = Len(piece)
        OBVIOUS
      <3>3. a \in Nat /\ b \in Nat /\ Len(out) = a + b
        BY <2>5, <3>1, <3>2
      <3>4. a + b >= a /\ (b = 1 => a + b = a + 1)
        BY <3>3
      <3> QED BY Zenon, <3>1, <3>2, <3>3, <3>4
    <2> QED BY Zenon, <2>1, <2>2, <2>3, <2>6
  <1>8. Piece(text, 1, map) = <<text[1]>> /\ Piece(text, 2, map) = <<text[2]>>
    <2>1. Before(text, 1) = 0 /\ Before(text, 2) = 0
      <3>1. 1 \in 1..Len(text) /\ 1 + 1 = 2
        BY <1>1, <1>2
      <3> QED BY <3>1, BeforeStep
    <2>2. text[2] \notin Delimiter
      BY DEF Delimiter, Open, Close, OpenClose, Comma
    <2> QED BY <2>1, <2>2 DEF Piece, InParam, Delimiter
  <1>9. Len(filled[2]) >= 2
    <2>1. Len(<<text[1]>>) = 1 /\ Len(<<text[2]>>) = 1
      OBVIOUS
    <2>2. 1 \in 1..n /\ 2 \in 1..n /\ 1 - 1 = 0 /\ 2 - 1 = 1
      BY <1>2
    <2>3. Len(filled[0]) = 0
      BY <1>3 DEF IsFilled
    <2>4. Len(filled[1]) = Len(filled[0]) + 1
      BY <1>7, <1>8, <2>1, <2>2
    <2>5. Len(filled[2]) = Len(filled[1]) + 1
      BY <1>7, <1>8, <2>1, <2>2
    <2> QED BY ONLY <2>3, <2>4, <2>5
  <1>10. PICK S : S = {i \in 0..n : i < 2 \/ Len(filled[i]) >= 2}
    OBVIOUS
  <1>11. \A i \in 1..n : i - 1 \in S => i \in S
    <2> SUFFICES ASSUME NEW i \in 1..n, i - 1 \in S, ~ (i < 2)
                 PROVE  Len(filled[i]) >= 2
      BY <1>2, <1>10
    <2>1. CASE i = 2
      BY <1>9, <2>1
    <2>2. CASE i # 2
      <3>1. i - 1 \in 0..n /\ ~ (i - 1 < 2)
        BY <1>2, <2>2
      <3>2. Len(filled[i - 1]) >= 2
        BY <1>10, <3>1
      <3>3. Len(filled[i]) \in Nat /\ Len(filled[i - 1]) \in Nat
        BY <1>2, <1>5, <3>1, LenProperties DEF Text
      <3> QED BY <1>7, <3>2, <3>3
    <2> QED BY <2>1, <2>2
  <1>12. S = 0..n
    <2>1. S \in SUBSET (0..n) /\ 0 \in S
      BY <1>2, <1>10
    <2> QED BY <1>2, <1>11, <2>1, UpTo
  <1> QED BY <1>2, <1>3, <1>5, <1>10, <1>12

\* A text that begins with a name and a comma calls no function.
LEMMA CommaCallsNothing ==
    ASSUME IsMap(params), NEW param \in PolicyParam, IsCommaCall(param.text),
           NEW o \in FunctionOutcomes(param)
    PROVE  o = Unresolved
  <1>1. PICK text : text = param.text
    OBVIOUS
  <1>2. text \in Text /\ IsCommaCall(text)
    BY <1>1 DEF PolicyParam
  <1>3. FunctionName(text) = text
    BY <1>2 DEF FunctionName, IsNameOnly, Colons, IsCommaCall, Has
  <1>4. PICK name : name = Resolve(text, params)
    OBVIOUS
  <1>5. PICK args : args = ResolveList(FunctionArgs(text), params)
    OBVIOUS
  <1>6. o = Unresolved \/ (name.ok /\ o \in CallFunction(name.text, args.list))
    BY <1>1, <1>3, <1>4, <1>5 DEF FunctionOutcomes
  <1>7. name.ok => name.text \in Text /\ Len(name.text) >= 2
    <2>1. name = IF IsResolvable(text, params) THEN Resolved(Filled(text, params))
                 ELSE Unresolved
      BY <1>2, <1>4, ResolveReadsAsWritten
    <2>2. IsResolvable(text, params) =>
            Filled(text, params) \in Text /\ Len(Filled(text, params)) >= 2
      BY <1>2, CommaStays DEF IsCommaCall
    <2> QED BY <2>1, <2>2 DEF Resolved, Unresolved
  <1>8. \A t : Len(t) >= 2 =>
            t # <<"choose_if_equal">> /\ t # <<"replace">> /\ t # <<"service_http_get">>
    <2> SUFFICES ASSUME NEW t, Len(t) >= 2, NEW x, t = <<x>> PROVE FALSE
      BY Zenon
    <2>1. Len(t) = 1
      OBVIOUS
    <2> QED BY <2>1
  <1>9. name.ok => CallFunction(name.text, args.list) = {Unresolved}
    BY <1>7, <1>8 DEF CallFunction
  <1> QED BY <1>6, <1>9

\* The first slot of a key is the one of its default parameter.
LEMMA SlotReadsAsWritten ==
    ASSUME request \in Requests, NEW param \in PolicyParam,
           param.type = "slot_val", param.index = 0, param.key \in DOMAIN SlotParam,
           NEW name, name = SlotParam[param.key], name \in DOMAIN DefaultParams
    PROVE  SlotOutcome(param) = Resolved(DefaultParams[name])
  <1> USE RequestIs
  <1>1. ContextOf(name) = {}
    <2>1. \A i \in DOMAIN request.context : request.context[i].key \in DOMAIN ContextParam
      <3>1. \A i \in DOMAIN request.context : request.context[i] \in RequestPair
        OBVIOUS
      <3> QED BY <3>1 DEF RequestPair
    <2> QED BY <2>1, OutputAssumption DEF ContextOf
  <1>2. PICK slots : slots = {i \in Slots : request.slots[i].key = param.key}
    OBVIOUS
  <1>3. SlotsOf(name) = slots
    <2>1. \A i \in Slots : request.slots[i].key \in DOMAIN SlotParam
      <3>1. \A i \in Slots : request.slots[i] \in RequestSlot
        OBVIOUS
      <3> QED BY <3>1 DEF RequestSlot
    <2>2. \A k \in DOMAIN SlotParam : SlotParam[k] = name <=> k = param.key
      BY OutputAssumption
    <2> QED BY <1>2, <2>1, <2>2 DEF SlotsOf
  <1>4. slots # {}
    BY <1>1, <1>3 DEF DefaultParams, ContextOf, SlotsOf
  <1>5. slots \in SUBSET (1..Len(request.slots)) /\ Len(request.slots) \in Nat
    BY <1>2
  <1>6. PICK m : m = Min(slots)
    OBVIOUS
  <1>7. m \in slots /\ \A k \in slots : m <= k
    BY <1>4, <1>5, <1>6, FoundIs
  <1>8. DefaultParams[name] = Normalized(request.slots[m])
    BY <1>1, <1>3, <1>6 DEF DefaultParams
  <1>9. PICK found : found = {i \in slots : Cardinality({j \in slots : j < i}) = param.index}
    OBVIOUS
  <1>10. found = {m}
    <2>1. ASSUME NEW i \in slots
          PROVE  Cardinality({j \in slots : j < i}) = 0 <=> i = m
      <3>1. {j \in slots : j < i} = {} <=> i = m
        <4>1. \A j \in slots : j \in Nat
          BY <1>5
        <4>2. i = m => \A j \in slots : ~ (j < i)
          BY <1>7, <4>1
        <4>3. i # m => m < i
          BY <1>7, <4>1
        <4> QED BY <1>7, <4>2, <4>3
      <3>2. IsFiniteSet({j \in slots : j < i})
        <4>1. IsFiniteSet(1..Len(request.slots))
          BY <1>5, FS_Interval
        <4>2. {j \in slots : j < i} \subseteq 1..Len(request.slots)
          BY <1>5
        <4> QED BY <4>1, <4>2, FS_Subset
      <3> QED BY <3>1, <3>2, FS_EmptySet
    <2> QED BY <1>7, <1>9, <2>1
  <1>11. Min(found) = m
    <2>1. found \in SUBSET Nat /\ found # {}
      BY <1>5, <1>7, <1>10
    <2> QED BY <1>10, <2>1, HasMin
  <1>12. SlotOutcome(param) = Resolved(Normalized(request.slots[m]))
    BY <1>2, <1>9, <1>10, <1>11 DEF SlotOutcome
  <1> QED BY <1>8, <1>12

\* What ParamsReadAsWritten says of one parameter.
AsWritten(param, value, map, first) ==
    /\ param.type = "string" =>
        value = IF IsResolvable(param.text, map)
                THEN Filled(param.text, map) ELSE param.default
    /\ param.type = "func_val" /\ CallsChoice(param.text) =>
        ChoiceAsWritten(param, value, map)
    /\ param.type = "func_val" /\ IsCommaCall(param.text) => value = param.default
    /\ param.type = "slot_val" /\ param.index = 0 /\ param.key \in DOMAIN SlotParam
         /\ SlotParam[param.key] \in DOMAIN first =>
        value = first[SlotParam[param.key]]

LEMMA ParamAsWritten ==
    ASSUME request \in Requests, IsMap(params), NEW param \in PolicyParam,
           NEW o \in Outcomes(param), NEW value,
           value = IF o.ok THEN o.text ELSE param.default
    PROVE  AsWritten(param, value, params, DefaultParams)
  <1>1. ASSUME param.type = "string"
        PROVE  value = IF IsResolvable(param.text, params)
                       THEN Filled(param.text, params) ELSE param.default
    <2>1. o = Resolve(param.text, params)
      BY <1>1 DEF Outcomes
    <2>2. param.text \in Text
      BY DEF PolicyParam
    <2>3. Resolve(param.text, params) =
            IF IsResolvable(param.text, params)
            THEN Resolved(Filled(param.text, params)) ELSE Unresolved
      BY <2>2, ResolveReadsAsWritten
    <2>4. IF IsResolvable(param.text, params)
          THEN o.ok = TRUE /\ o.text = Filled(param.text, params) ELSE o.ok = FALSE
      BY <2>1, <2>3 DEF Resolved, Unresolved
    <2> QED BY <2>4
  <1>2. ASSUME param.type = "func_val", CallsChoice(param.text)
        PROVE  ChoiceAsWritten(param, value, params)
    <2>1. o \in FunctionOutcomes(param)
      BY <1>2 DEF Outcomes
    <2> QED BY <1>2, <2>1, ChoiceReadsAsWritten
  <1>4. ASSUME param.type = "func_val", IsCommaCall(param.text)
        PROVE  value = param.default
    <2>1. o \in FunctionOutcomes(param)
      BY <1>4 DEF Outcomes
    <2>2. o.ok = FALSE
      BY <1>4, <2>1, CommaCallsNothing DEF Unresolved
    <2> QED BY <2>2
  <1>3. ASSUME param.type = "slot_val", param.index = 0, param.key \in DOMAIN SlotParam,
               SlotParam[param.key] \in DOMAIN DefaultParams
        PROVE  value = DefaultParams[SlotParam[param.key]]
    <2>1. o = SlotOutcome(param)
      BY <1>3 DEF Outcomes
    <2>2. o = Resolved(DefaultParams[SlotParam[param.key]])
      BY <1>3, <2>1, SlotReadsAsWritten
    <2> QED BY <2>2 DEF Resolved
  <1> QED BY <1>1, <1>2, <1>3, <1>4 DEF AsWritten

\* Every parameter is as written, and the map before the first one is the
\* default map.
ParamsInv ==
    /\ history = <<>> => params = DefaultParams
    /\ history # <<>> => history[1] = DefaultParams
    /\ \A i \in DOMAIN history :
         AsWritten(policy.params[i], ValueGiven(i), history[i], DefaultParams)

LEMMA ParamsStep == OutputInv /\ ParamsInv /\ [Next]_vars => ParamsInv'
  <1> SUFFICES ASSUME OutputInv, ParamsInv, [Next]_vars PROVE ParamsInv'
    OBVIOUS
  <1>1. ASSUME UNCHANGED <<policy, request, params, history>> PROVE ParamsInv'
    <2>1. DefaultParams' = DefaultParams
      BY <1>1 DEF DefaultParams, ContextOf, SlotsOf, Slots
    <2>2. \A i \in DOMAIN history : ValueGiven(i)' = ValueGiven(i)
      BY <1>1 DEF ValueGiven
    <2> QED BY <1>1, <2>1, <2>2 DEF ParamsInv
  <1>2. ASSUME NEW o, SetParam(o) PROVE ParamsInv'
    <2>1. PICK param : param = policy.params[at]
      OBVIOUS
    <2>2. /\ at = Len(history) + 1 /\ at \in DOMAIN policy.params /\ param \in PolicyParam
          /\ o \in Outcomes(param) /\ IsOutcome(o)
          /\ params' = Put(params, param.name, IF o.ok THEN o.text ELSE param.default)
          /\ Len(history) \in Nat /\ Len(history') = Len(history) + 1
          /\ \A i \in DOMAIN history : history'[i] = history[i]
          /\ history'[at] = params
          /\ DOMAIN history = 1..Len(history) /\ DOMAIN history' = 1..at
          /\ UNCHANGED <<policy, request, pc, selected, answer>>
      BY <1>2, <2>1, SetParamIs
    <2>3. DefaultParams' = DefaultParams
      BY <2>2 DEF DefaultParams, ContextOf, SlotsOf, Slots
    <2>4. PICK value : value = IF o.ok THEN o.text ELSE param.default
      OBVIOUS
    <2>5. history # <<>> => history[1] = DefaultParams
      BY DEF ParamsInv
    <2>6. history' # <<>> /\ history'[1] = DefaultParams
      <3>1. CASE history = <<>>
        <4>1. at = 1 /\ params = DefaultParams
          BY <2>2, <3>1 DEF ParamsInv
        <4> QED BY <2>2, <4>1
      <3>2. CASE history # <<>>
        <4>1. 1 \in DOMAIN history
          <5>1. PICK S : history \in Seq(S)
            BY DEF OutputInv
          <5>2. Len(history) \in Nat \ {0}
            BY <3>2, <5>1, EmptySeq
          <5> QED BY <2>2, <5>2
        <4> QED BY <2>2, <2>5, <4>1
      <3> QED BY <3>1, <3>2
    <2>7. ASSUME NEW i \in DOMAIN history'
          PROVE  AsWritten(policy.params[i], ValueGiven(i)', history'[i], DefaultParams)
      <3>1. CASE i = at
        <4>1. ValueGiven(i)' = value
          BY <2>1, <2>2, <2>4, <3>1 DEF ValueGiven, Put
        <4>2. AsWritten(param, value, params, DefaultParams)
          BY <2>2, <2>4, ParamAsWritten DEF OutputInv
        <4> QED BY <2>1, <2>2, <3>1, <4>1, <4>2
      <3>2. CASE i # at
        <4>1. i \in DOMAIN history /\ i < Len(history') /\ history'[i] = history[i]
          BY <2>2, <2>7, <3>2
        <4>2. ValueGiven(i)' = ValueGiven(i)
          <5>1. CASE i < Len(history)
            <6>1. i + 1 \in DOMAIN history
              BY <2>2, <4>1, <5>1
            <6> QED BY <2>2, <4>1, <5>1, <6>1 DEF ValueGiven
          <5>2. CASE ~ (i < Len(history))
            <6>1. i + 1 = at
              BY <2>2, <4>1, <5>2
            <6> QED BY <2>2, <4>1, <5>2, <6>1 DEF ValueGiven
          <5> QED BY <5>1, <5>2
        <4> QED BY <4>1, <4>2 DEF ParamsInv
      <3> QED BY <3>1, <3>2
    <2> QED BY <2>2, <2>3, <2>6, <2>7 DEF ParamsInv
  <1>3. \/ UNCHANGED <<policy, request, params, history>> \/ \E o : SetParam(o)
    BY DEF Next, vars, RequiredParamFails, EndParams, SelectOutput, SkipOutput,
           NoOutput, FillOutput, FillFails
  <1> QED BY <1>1, <1>2, <1>3

\* ParamsReadAsWritten of PolicyOutput: every string parameter is its text
\* with the parameters before it filled in or its default, choose_if_equal
\* gets the arguments that are written after its colon, a name followed by a
\* comma calls nothing, and a slot_val parameter is the default parameter of
\* the slot.
THEOREM ParamsAsWritten == Spec => []ParamsReadAsWritten
  <1>1. Init => ParamsInv
    BY DEF Init, ParamsInv
  <1>2. OutputInv /\ ParamsInv => ParamsReadAsWritten
    <2> SUFFICES ASSUME OutputInv, ParamsInv, NEW i \in DOMAIN history
                 PROVE  AsWritten(policy.params[i], ValueGiven(i), history[i], history[1])
      BY DEF ParamsReadAsWritten, AsWritten, ChoiceAsWritten
    <2>1. history # <<>>
      OBVIOUS
    <2> QED BY <2>1 DEF ParamsInv
  <1> QED BY <1>1, <1>2, ParamsStep, OutputInvariance, PTL DEF Spec
-----------------------------------------------------------------------------
(* The answer.                                                             *)

LEMMA TextsAre ==
    ASSUME OutputInv, pc = "fill", NEW choice \in ValueChoices,
           NEW texts, texts = Texts(choice)
    PROVE  \A i \in DOMAIN texts :
             /\ Resolve(texts[i], params).ok <=> IsResolvable(texts[i], params)
             /\ IsResolvable(texts[i], params) =>
                    Resolve(texts[i], params).text = Filled(texts[i], params)
  <1>1. Output \in OutputOfPolicy
    <2>1. selected \in DOMAIN policy.outputs /\ policy.outputs \in Seq(OutputOfPolicy)
      BY PolicyIs DEF OutputInv
    <2>2. policy.outputs[selected] \in OutputOfPolicy
      BY <2>1
    <2> QED BY <2>2 DEF Output
  <1>2. PICK results : results = Output.results
    OBVIOUS
  <1>3. results \in Seq(PolicyOutputResult) /\ Output.fields \in Seq(Text)
    BY <1>1, <1>2 DEF OutputOfPolicy
  <1>4. PICK values : values = [i \in DOMAIN choice |-> results[i].values[choice[i]]]
    OBVIOUS
  <1>5. values \in Seq(Text)
    <2>1. /\ DOMAIN choice = 1..Len(results) /\ Len(results) \in Nat
          /\ \A i \in DOMAIN choice : choice[i] \in DOMAIN results[i].values
      BY <1>2, <1>3 DEF ValueChoices
    <2>2. ASSUME NEW i \in 1..Len(results) PROVE values[i] \in Text
      <3>1. results[i] \in PolicyOutputResult
        BY <1>3
      <3>2. PICK list : list = results[i].values
        OBVIOUS
      <3>3. list \in Seq(Text) /\ choice[i] \in DOMAIN list
        BY <2>1, <3>1, <3>2 DEF PolicyOutputResult
      <3>4. list[choice[i]] \in Text
        BY <3>3
      <3> QED BY <1>4, <2>1, <3>2, <3>4
    <2>3. values \in [1..Len(results) -> Text]
      BY <1>4, <2>1, <2>2
    <2> QED BY <2>1, <2>3
  <1>6. texts = Output.fields \o values
    BY <1>2, <1>4 DEF Texts
  <1>7. texts \in Seq(Text)
    <2>1. PICK fields : fields = Output.fields
      OBVIOUS
    <2>2. fields \o values \in Seq(Text)
      BY <1>3, <1>5, <2>1, ConcatProperties
    <2> QED BY <1>6, <2>1, <2>2
  <1>8. ASSUME NEW i \in DOMAIN texts
        PROVE  /\ Resolve(texts[i], params).ok <=> IsResolvable(texts[i], params)
               /\ IsResolvable(texts[i], params) =>
                    Resolve(texts[i], params).text = Filled(texts[i], params)
    <2>1. PICK text : text = texts[i]
      OBVIOUS
    <2>2. text \in Text
      BY <1>7, <2>1
    <2>3. Resolve(text, params) = IF IsResolvable(text, params)
                                  THEN Resolved(Filled(text, params)) ELSE Unresolved
      BY <2>2, ResolveReadsAsWritten DEF OutputInv
    <2> QED BY <2>1, <2>3 DEF Resolved, Unresolved
  <1> QED BY <1>8

\* What AnswerReadsAsWritten says of the choice of values.
ChoiceAnswers(choice, answer_, params_) ==
    LET texts == Texts(choice)
        fits == \A i \in DOMAIN texts : IsResolvable(texts[i], params_)
    IN  answer_ = IF fits THEN [i \in DOMAIN texts |-> Filled(texts[i], params_)]
                  ELSE NoAnswer

\* Why a policy stopped does not change.
LEMMA StoppedStays ==
    ASSUME StoppedAtRequired, UNCHANGED <<policy, request, params, history>>
    PROVE  StoppedAtRequired'
  <1>1. \A param : Outcomes(param)' = Outcomes(param)
    BY DEF Outcomes, SlotOutcome, ContextOutcome, RequestOutcome, FunctionOutcomes,
           Slots, Intent
  <1> QED BY <1>1 DEF StoppedAtRequired

LEMMA AnswerStep == OutputInv /\ AnswerReadsAsWritten /\ [Next]_vars => AnswerReadsAsWritten'
  <1> SUFFICES ASSUME OutputInv, AnswerReadsAsWritten, [Next]_vars, pc' = "done"
               PROVE  \/ ~ AllParamsSet' /\ answer' = NoAnswer /\ StoppedAtRequired'
                      \/ selected' = 0 /\ answer' = NoAnswer
                      \/ selected' # 0 /\ \E choice \in ValueChoices' :
                            ChoiceAnswers(choice, answer, params)'
                      \/ selected' # 0 /\ ValueChoices' = {} /\ answer' = NoAnswer
    BY DEF AnswerReadsAsWritten, ChoiceAnswers
  <1>1. CASE RequiredParamFails
    <2>1. /\ pc = "params" /\ at = Len(history) + 1 /\ at \in DOMAIN policy.params
          /\ policy.params[at].required /\ Unresolved \in Outcomes(policy.params[at])
          /\ UNCHANGED <<policy, request, params, history, answer>> /\ answer = NoAnswer
      BY <1>1 DEF RequiredParamFails, OutputInv
    <2>2. Len(history) # Len(policy.params)
      <3>1. DOMAIN policy.params = 1..Len(policy.params) /\ Len(policy.params) \in Nat
        BY PolicyIs DEF OutputInv
      <3>2. Len(history) \in Nat
        BY DEF OutputInv
      <3> QED BY <2>1, <3>1, <3>2
    <2>3. StoppedAtRequired
      BY <2>1 DEF StoppedAtRequired
    <2>4. StoppedAtRequired'
      BY <2>1, <2>3, StoppedStays
    <2> QED BY <2>1, <2>2, <2>4 DEF AllParamsSet
  <1>2. CASE NoOutput
    BY <1>2 DEF NoOutput, OutputInv
  <1>3. ASSUME pc = "fill", selected' = selected, policy' = policy, params' = params
        PROVE  /\ ValueChoices' = ValueChoices /\ selected' # 0
               /\ \A choice : Texts(choice)' = Texts(choice)
    <2>1. selected \in 1..Len(policy.outputs) /\ Len(policy.outputs) \in Nat
      BY <1>3, PolicyIs DEF OutputInv
    <2>2. selected # 0
      BY <2>1
    <2> QED BY <1>3, <2>2 DEF ValueChoices, Texts, Output
  <1>4. ASSUME NEW choice, FillOutput(choice)
        PROVE  selected' # 0 /\ \E c \in ValueChoices' : ChoiceAnswers(c, answer, params)'
    <2>1. PICK texts : texts = Texts(choice)
      OBVIOUS
    <2>2. /\ pc = "fill" /\ choice \in ValueChoices /\ UNCHANGED <<policy, params, selected>>
          /\ \A i \in DOMAIN texts : Resolve(texts[i], params).ok
          /\ answer' = [i \in DOMAIN texts |-> Resolve(texts[i], params).text]
      BY <1>4, <2>1 DEF FillOutput, CanFill
    <2>3. \A i \in DOMAIN texts : IsResolvable(texts[i], params)
                /\ Resolve(texts[i], params).text = Filled(texts[i], params)
      BY <2>1, <2>2, TextsAre
    <2>4. answer' = [i \in DOMAIN texts |-> Filled(texts[i], params)]
      BY <2>2, <2>3
    <2>5. selected' # 0 /\ choice \in ValueChoices' /\ Texts(choice)' = texts
      BY <1>3, <2>1, <2>2
    <2>6. ChoiceAnswers(choice, answer, params)'
      BY <2>2, <2>3, <2>4, <2>5 DEF ChoiceAnswers
    <2> QED BY <2>5, <2>6
  <1>5. CASE FillFails
    <2>1. /\ pc = "fill" /\ UNCHANGED <<policy, params, selected, answer>>
          /\ ValueChoices = {} \/ \E choice \in ValueChoices : ~ CanFill(choice)
          /\ answer' = NoAnswer
      BY <1>5 DEF FillFails, OutputInv
    <2>2. CASE ValueChoices = {}
      BY <1>3, <2>1, <2>2
    <2>3. ASSUME NEW choice \in ValueChoices, ~ CanFill(choice)
          PROVE  selected' # 0 /\ \E c \in ValueChoices' : ChoiceAnswers(c, answer, params)'
      <3>1. PICK texts : texts = Texts(choice)
        OBVIOUS
      <3>2. ~ \A i \in DOMAIN texts : IsResolvable(texts[i], params)
        BY <2>1, <2>3, <3>1, TextsAre DEF CanFill
      <3>3. selected' # 0 /\ choice \in ValueChoices' /\ Texts(choice)' = texts
        BY <1>3, <2>1, <3>1
      <3>4. ChoiceAnswers(choice, answer, params)'
        BY <2>1, <3>2, <3>3 DEF ChoiceAnswers
      <3> QED BY <3>3, <3>4
    <2> QED BY <2>1, <2>2, <2>3
  <1>6. CASE UNCHANGED vars
    <2>1. pc = "done" /\ UNCHANGED <<policy, request, params, selected, answer, history>>
      BY <1>6 DEF vars
    <2>2. /\ ValueChoices' = ValueChoices /\ AllParamsSet' = AllParamsSet
          /\ \A choice : ChoiceAnswers(choice, answer, params)'
                            = ChoiceAnswers(choice, answer, params)
      BY <2>1 DEF ValueChoices, Texts, Output, AllParamsSet, ChoiceAnswers
    <2>3. \/ ~ AllParamsSet /\ answer = NoAnswer /\ StoppedAtRequired
          \/ selected = 0 /\ answer = NoAnswer
          \/ selected # 0 /\ \E choice \in ValueChoices :
                ChoiceAnswers(choice, answer, params)
          \/ selected # 0 /\ ValueChoices = {} /\ answer = NoAnswer
      BY <2>1 DEF AnswerReadsAsWritten, ChoiceAnswers
    <2>4. StoppedAtRequired => StoppedAtRequired'
      BY <2>1, StoppedStays
    <2> QED BY <2>1, <2>2, <2>3, <2>4
  <1>7. ASSUME NEW o, SetParam(o) PROVE FALSE
    BY <1>7 DEF SetParam
  <1>8. CASE EndParams \/ SelectOutput \/ SkipOutput
    BY <1>8 DEF EndParams, SelectOutput, SkipOutput
  <1> QED BY <1>1, <1>2, <1>4, <1>5, <1>6, <1>7, <1>8 DEF Next

\* AnswerReadsAsWritten of PolicyOutput: the answer is the selected output,
\* every text of it with its parameters filled in, and a request goes
\* unanswered only for one of the four reasons.
THEOREM AnswerAsWritten == Spec => []AnswerReadsAsWritten
  <1>1. Init => AnswerReadsAsWritten
    BY DEF Init, AnswerReadsAsWritten
  <1> QED BY <1>1, AnswerStep, OutputInvariance, PTL DEF Spec
-----------------------------------------------------------------------------
(* Texts, token by token: the scan and the split of a text that one more   *)
(* token ends.                                                             *)

LEMMA PrefixIs ==
    ASSUME NEW text \in Text
    PROVE  /\ SubSeq(text, 1, 0) = <<>> /\ SubSeq(text, 1, Len(text)) = text
           /\ \A i \in 0..Len(text) : SubSeq(text, 1, i) \in Text
           /\ \A i \in 1..Len(text) :
                SubSeq(text, 1, i) = Append(SubSeq(text, 1, i - 1), text[i])
  <1>1. Len(text) \in Nat /\ text \in Seq(STRING)
    BY DEF Text
  <1>2. ASSUME NEW i \in 0..Len(text) PROVE SubSeq(text, 1, i) \in Text
    <2>1. \A k \in 1..i : text[k] \in STRING
      BY <1>1, ElementOfSeq
    <2>2. i \in Int /\ 1 \in Int
      BY <1>1
    <2> QED BY <2>1, <2>2, SubSeqProperties DEF Text
  <1>3. ASSUME NEW i \in 1..Len(text)
        PROVE  SubSeq(text, 1, i) = Append(SubSeq(text, 1, i - 1), text[i])
    <2>1. PICK u : u = SubSeq(text, 1, i - 1)
      OBVIOUS
    <2>2. u \in Seq(STRING)
      <3>1. i - 1 \in 0..Len(text)
        BY <1>1
      <3> QED BY <1>2, <2>1, <3>1 DEF Text
    <2>3. text[i] \in STRING
      BY <1>1, ElementOfSeq
    <2>4. Append(u, text[i]) = u \o <<text[i]>>
      BY <2>2, <2>3, AppendIsConcat
    <2>5. SubSeq(text, 1, i) = SubSeq(text, 1, i - 1) \o <<text[i]>>
      <3>1. 1 \in 1..Len(text) /\ i \in 1..Len(text)
        BY <1>1
      <3> QED BY <1>1, <3>1, SubSeqRecursiveSecond
    <2> QED BY <2>1, <2>4, <2>5
  <1>4. SubSeq(text, 1, 0) = <<>>
    BY SubSeqEmpty
  <1>5. SubSeq(text, 1, Len(text)) = text
    BY <1>1, SubSeqFull
  <1> QED BY <1>2, <1>3, <1>4, <1>5

LEMMA AppendText ==
    ASSUME NEW u \in Text, NEW t \in STRING
    PROVE  \E w : /\ w = Append(u, t) /\ w \in Text
                  /\ Len(u) \in Nat /\ Len(w) = Len(u) + 1 /\ w[Len(w)] = t
                  /\ \A i \in 1..Len(u) : w[i] = u[i]
  <1>1. PICK w : w = Append(u, t)
    OBVIOUS
  <1>2. u \in Seq(STRING) /\ Len(u) \in Nat
    BY DEF Text
  <1>3. /\ w \in Seq(STRING) /\ Len(w) = Len(u) + 1 /\ w[Len(u) + 1] = t
        /\ \A i \in 1..Len(u) : w[i] = u[i]
    BY <1>1, <1>2, AppendProperties
  <1> QED BY <1>1, <1>2, <1>3 DEF Text

LEMMA ScanAppend ==
    ASSUME NEW map
    PROVE  /\ ScanText(<<>>, map) = Unscanned
           /\ \A u \in Text, t \in STRING :
                ScanText(Append(u, t), map) = ScanToken(ScanText(u, map), t, map)
  <1>1. ScanText(<<>>, map) = Unscanned
    <2>1. <<>> \in Text /\ Len(<<>>) = 0
      BY DEF Text
    <2>2. PICK f : IsScan(f, <<>>, map) /\ ScanText(<<>>, map) = f[Len(<<>>)]
      BY <2>1, ScanIs
    <2> QED BY <2>1, <2>2 DEF IsScan
  <1>2. ASSUME NEW u \in Text, NEW t \in STRING
        PROVE  ScanText(Append(u, t), map) = ScanToken(ScanText(u, map), t, map)
    <2>1. PICK w : /\ w = Append(u, t) /\ w \in Text
                   /\ Len(u) \in Nat /\ Len(w) = Len(u) + 1 /\ w[Len(w)] = t
                   /\ \A i \in 1..Len(u) : w[i] = u[i]
      BY AppendText
    <2>2. /\ w \in Text /\ Len(u) \in Nat /\ Len(w) = Len(u) + 1 /\ w[Len(w)] = t
          /\ \A i \in 1..Len(u) : w[i] = u[i]
      BY <2>1
    <2>3. PICK f : IsScan(f, u, map) /\ ScanText(u, map) = f[Len(u)]
      BY ScanIs
    <2>4. PICK g : IsScan(g, w, map) /\ ScanText(w, map) = g[Len(w)]
      BY <2>2, ScanIs
    <2>5. PICK S : S = {i \in 0..Len(u) : f[i] = g[i]}
      OBVIOUS
    <2>6. S = 0..Len(u)
      <3>1. 0 \in S
        BY <2>2, <2>3, <2>4, <2>5 DEF IsScan
      <3>2. ASSUME NEW i \in 1..Len(u), i - 1 \in S PROVE i \in S
        <4>1. i \in 1..Len(w) /\ w[i] = u[i] /\ f[i - 1] = g[i - 1] /\ i \in 0..Len(u)
          BY <2>2, <2>5, <3>2
        <4>2. f[i] = ScanToken(f[i - 1], u[i], map) /\ g[i] = ScanToken(g[i - 1], w[i], map)
          BY <2>3, <2>4, <4>1 DEF IsScan
        <4>3. f[i] = g[i]
          BY Zenon, <4>1, <4>2
        <4> QED BY <2>5, <4>1, <4>3
      <3>3. S \in SUBSET (0..Len(u))
        BY <2>5
      <3> QED BY <2>2, <3>1, <3>2, <3>3, UpTo
    <2>7. Len(w) \in 1..Len(w) /\ Len(w) - 1 = Len(u) /\ Len(u) \in S
      BY <2>2, <2>6
    <2>8. g[Len(w)] = ScanToken(g[Len(u)], t, map)
      BY <2>2, <2>4, <2>7 DEF IsScan
    <2>9. f[Len(u)] = g[Len(u)]
      BY <2>5, <2>7
    <2> QED BY Zenon, <2>1, <2>3, <2>4, <2>8, <2>9
  <1> QED BY <1>1, <1>2

LEMMA CutAppend ==
    /\ CutText(<<>>) = Uncut
    /\ \A u \in Text, t \in STRING : CutText(Append(u, t)) = Cut(CutText(u), t)
  <1>1. CutText(<<>>) = Uncut
    <2>1. <<>> \in Text /\ Len(<<>>) = 0
      BY DEF Text
    <2>2. PICK f : IsSplit(f, <<>>) /\ CutText(<<>>) = f[Len(<<>>)]
      BY <2>1, SplitIs
    <2> QED BY <2>1, <2>2 DEF IsSplit
  <1>2. ASSUME NEW u \in Text, NEW t \in STRING
        PROVE  CutText(Append(u, t)) = Cut(CutText(u), t)
    <2>1. PICK w : /\ w = Append(u, t) /\ w \in Text
                   /\ Len(u) \in Nat /\ Len(w) = Len(u) + 1 /\ w[Len(w)] = t
                   /\ \A i \in 1..Len(u) : w[i] = u[i]
      BY AppendText
    <2>2. /\ w \in Text /\ Len(u) \in Nat /\ Len(w) = Len(u) + 1 /\ w[Len(w)] = t
          /\ \A i \in 1..Len(u) : w[i] = u[i]
      BY <2>1
    <2>3. PICK f : IsSplit(f, u) /\ CutText(u) = f[Len(u)]
      BY SplitIs
    <2>4. PICK g : IsSplit(g, w) /\ CutText(w) = g[Len(w)]
      BY <2>2, SplitIs
    <2>5. PICK S : S = {i \in 0..Len(u) : f[i] = g[i]}
      OBVIOUS
    <2>6. S = 0..Len(u)
      <3>1. 0 \in S
        BY <2>2, <2>3, <2>4, <2>5 DEF IsSplit
      <3>2. ASSUME NEW i \in 1..Len(u), i - 1 \in S PROVE i \in S
        <4>1. i \in 1..Len(w) /\ w[i] = u[i] /\ f[i - 1] = g[i - 1] /\ i \in 0..Len(u)
          BY <2>2, <2>5, <3>2
        <4>2. f[i] = Cut(f[i - 1], u[i]) /\ g[i] = Cut(g[i - 1], w[i])
          BY <2>3, <2>4, <4>1 DEF IsSplit
        <4>3. f[i] = g[i]
          BY Zenon, <4>1, <4>2
        <4> QED BY <2>5, <4>1, <4>3
      <3>3. S \in SUBSET (0..Len(u))
        BY <2>5
      <3> QED BY <2>2, <3>1, <3>2, <3>3, UpTo
    <2>7. Len(w) \in 1..Len(w) /\ Len(w) - 1 = Len(u) /\ Len(u) \in S
      BY <2>2, <2>6
    <2>8. g[Len(w)] = Cut(g[Len(u)], t)
      BY <2>2, <2>4, <2>7 DEF IsSplit
    <2>9. f[Len(u)] = g[Len(u)]
      BY <2>5, <2>7
    <2> QED BY Zenon, <2>1, <2>3, <2>4, <2>8, <2>9
  <1> QED BY <1>1, <1>2
-----------------------------------------------------------------------------
(* Lists.  A list whose values bring in no comma and no delimiter: the     *)
(* scan of the whole list goes along with the scan of the part it is in,   *)
(* behind a prefix J that holds the parts before, filled in.               *)

Scans == [resolved : Text, rest : Text, isParam : BOOLEAN, failed : BOOLEAN]

Clean(text) == text \in Text /\ ~ Has(text, Delimiter \union {Comma})

CleanMap(params_) == \A n \in DOMAIN params_ : Clean(params_[n])

\* The token closes a parameter that is known.
Closes(s, t, params_) ==
    t = Close /\ s.isParam /\ Len(s.rest) = 1 /\ s.rest[1] \in DOMAIN params_

\* Opaque in the proofs that only rearrange texts.
Joint(a, b) == a \o b
Extend(a, t) == Append(a, t)

\* What the loop does at one token.
IsTokenStep(s, t, x, params_) ==
    /\ s.failed => x = s
    /\ ~ s.failed /\ t = Open =>
         x.resolved = Joint(s.resolved, s.rest) /\ x.rest = <<>> /\ x.isParam /\ ~ x.failed
    /\ ~ s.failed /\ Closes(s, t, params_) =>
         /\ x.resolved = Joint(s.resolved, params_[s.rest[1]]) /\ x.rest = <<>>
         /\ ~ x.isParam /\ ~ x.failed
    /\ ~ s.failed /\ t \in {Close, OpenClose} /\ ~ Closes(s, t, params_) =>
         /\ x.resolved = s.resolved /\ x.rest = s.rest
         /\ x.isParam = s.isParam /\ x.failed
    /\ ~ s.failed /\ t \notin Delimiter =>
         /\ x.resolved = s.resolved /\ x.rest = Extend(s.rest, t)
         /\ x.isParam = s.isParam /\ ~ x.failed

LEMMA ScanTokenCases ==
    ASSUME NEW s \in Scans, NEW t \in STRING, NEW map, IsMap(map)
    PROVE  /\ ScanToken(s, t, map) \in Scans
           /\ IsTokenStep(s, t, ScanToken(s, t, map), map)
  <1>a. PICK x : x = ScanToken(s, t, map)
    OBVIOUS
  <1>b. SUFFICES x \in Scans /\ IsTokenStep(s, t, x, map)
    BY Zenon, <1>a
  <1>0. /\ s.resolved \in Text /\ s.rest \in Text /\ s.isParam \in BOOLEAN
        /\ s.failed \in BOOLEAN /\ <<>> \in Text
        /\ s = [resolved |-> s.resolved, rest |-> s.rest, isParam |-> s.isParam,
                failed |-> s.failed]
    BY DEF Scans, Text
  <1>1. CASE s.failed
    <2>1. x = s
      BY Zenon, <1>a, <1>1 DEF ScanToken
    <2> QED BY <1>0, <1>1, <2>1 DEF IsTokenStep, Joint, Extend, Scans
  <1>2. CASE ~ s.failed /\ t = Open
    <2>1. PICK y : y = s.resolved \o s.rest
      OBVIOUS
    <2>2. y \in Text
      BY <1>0, <2>1, ConcatProperties DEF Text
    <2>3. x = [s EXCEPT !.resolved = s.resolved \o s.rest, !.rest = <<>>, !.isParam = TRUE]
      BY Zenon, <1>a, <1>2 DEF ScanToken, Open, Close, OpenClose
    <2>4. x = [s EXCEPT !.resolved = y, !.rest = <<>>, !.isParam = TRUE]
      BY Zenon, <2>1, <2>3
    <2>5. x \in Scans /\ x.resolved = y /\ x.rest = <<>> /\ x.isParam /\ ~ x.failed
      BY <1>0, <1>2, <2>2, <2>4 DEF Scans
    <2> QED BY <1>2, <2>1, <2>5 DEF IsTokenStep, Joint, Extend, Closes, Delimiter, Open, Close, OpenClose
  <1>3. CASE ~ s.failed /\ Closes(s, t, map)
    <2>1. PICK y : y = s.resolved \o map[s.rest[1]]
      OBVIOUS
    <2>2. y \in Text
      <3>1. PICK v : v = map[s.rest[1]]
        OBVIOUS
      <3>2. v \in Text
        BY <1>3, <3>1 DEF IsMap, Closes
      <3>3. s.resolved \o v \in Text
        BY <1>0, <3>2, ConcatProperties DEF Text
      <3> QED BY <2>1, <3>1, <3>3
    <2>3. x = CloseParam(s, map)
      BY Zenon, <1>a, <1>3 DEF ScanToken, Closes, Open, Close, OpenClose
    <2>4. CloseParam(s, map) = [s EXCEPT !.resolved = s.resolved \o map[s.rest[1]],
                                        !.rest = <<>>, !.isParam = FALSE]
      BY Zenon, <1>3 DEF CloseParam, Closes
    <2>5. x = [s EXCEPT !.resolved = y, !.rest = <<>>, !.isParam = FALSE]
      BY Zenon, <2>1, <2>3, <2>4
    <2>6. x \in Scans /\ x.resolved = y /\ x.rest = <<>> /\ ~ x.isParam /\ ~ x.failed
      BY <1>0, <1>3, <2>2, <2>5 DEF Scans
    <2> QED BY <1>3, <2>1, <2>6 DEF IsTokenStep, Joint, Extend, Closes, Delimiter, Open, Close, OpenClose
  <1>4. CASE ~ s.failed /\ t \in {Close, OpenClose} /\ ~ Closes(s, t, map)
    <2>1. x = [s EXCEPT !.failed = TRUE]
      <3>1. CASE t = Close
        <4>1. x = CloseParam(s, map)
          BY Zenon, <1>a, <1>4, <3>1 DEF ScanToken, Open, Close, OpenClose
        <4>2. CloseParam(s, map) = [s EXCEPT !.failed = TRUE]
          BY Zenon, <1>4, <3>1 DEF CloseParam, Closes
        <4> QED BY Zenon, <4>1, <4>2
      <3>2. CASE t = OpenClose
        BY Zenon, <1>a, <1>4, <3>2 DEF ScanToken, Open, Close, OpenClose
      <3> QED BY <1>4, <3>1, <3>2
    <2>2. /\ x \in Scans /\ x.resolved = s.resolved /\ x.rest = s.rest
          /\ x.isParam = s.isParam /\ x.failed
      BY <1>0, <2>1 DEF Scans
    <2> QED BY <1>4, <2>2 DEF IsTokenStep, Joint, Extend, Delimiter, Open, Close, OpenClose
  <1>5. CASE ~ s.failed /\ t \notin Delimiter
    <2>1. PICK y : y = Append(s.rest, t)
      OBVIOUS
    <2>2. y \in Text
      BY <1>0, <2>1, AppendProperties DEF Text
    <2>3. t # Open /\ t # Close /\ t # OpenClose
      BY <1>5 DEF Delimiter
    <2>4. x = [s EXCEPT !.rest = Append(s.rest, t)]
      BY Zenon, <1>a, <1>5, <2>3 DEF ScanToken
    <2>5. x = [s EXCEPT !.rest = y]
      BY Zenon, <2>1, <2>4
    <2>6. /\ x \in Scans /\ x.resolved = s.resolved /\ x.rest = y
          /\ x.isParam = s.isParam /\ ~ x.failed
      BY <1>0, <1>5, <2>2, <2>5 DEF Scans
    <2> QED BY <1>5, <2>1, <2>3, <2>6 DEF IsTokenStep, Joint, Extend, Closes
  <1> QED BY <1>0, <1>1, <1>2, <1>3, <1>4, <1>5 DEF Delimiter

LEMMA TextInduction ==
    ASSUME NEW S, <<>> \in S,
           \A u \in Text, t \in STRING : u \in S => Append(u, t) \in S
    PROVE  \A text \in Text : text \in S
  <1> SUFFICES ASSUME NEW text \in Text PROVE text \in S
    OBVIOUS
  <1>1. Len(text) \in Nat
    BY DEF Text
  <1>2. PICK I : I = {i \in 0..Len(text) : SubSeq(text, 1, i) \in S}
    OBVIOUS
  <1>3. 0 \in I
    <2>1. SubSeq(text, 1, 0) = <<>>
      BY PrefixIs
    <2>2. SubSeq(text, 1, 0) \in S
      BY Zenon, <2>1
    <2> QED BY <1>1, <1>2, <2>2
  <1>4. ASSUME NEW i \in 1..Len(text), i - 1 \in I PROVE i \in I
    <2>1. PICK u : u = SubSeq(text, 1, i - 1)
      OBVIOUS
    <2>2. u \in S /\ i - 1 \in 0..Len(text) /\ i \in 0..Len(text)
      BY <1>1, <1>2, <1>4, <2>1
    <2>3. u \in Text /\ text[i] \in STRING
      BY <2>1, <2>2, PrefixIs, ElementOfSeq DEF Text
    <2>4. Append(u, text[i]) \in S
      BY <2>2, <2>3
    <2>5. SubSeq(text, 1, i) = Append(u, text[i])
      BY <2>1, PrefixIs
    <2>6. SubSeq(text, 1, i) \in S
      BY Zenon, <2>4, <2>5
    <2> QED BY <1>2, <2>2, <2>6
  <1>5. I \in SUBSET (0..Len(text))
    BY <1>2
  <1>6. I = 0..Len(text)
    BY <1>1, <1>3, <1>4, <1>5, UpTo
  <1>7. Len(text) \in I
    BY <1>1, <1>6
  <1> QED BY <1>2, <1>7, PrefixIs

\* The scan of a text, and what it says of the text.
LEMMA ScanResolves ==
    ASSUME NEW map, IsMap(map), NEW text \in Text, NEW r, r = ScanText(text, map)
    PROVE  /\ r \in Scans
           /\ IsResolvable(text, map) <=> ~ r.failed /\ ~ r.isParam
           /\ IsResolvable(text, map) => /\ Filled(text, map) = r.resolved \o r.rest
                                         /\ Filled(text, map) \in Text
  <1>1. r \in Scans
    <2>1. PICK S : S = {u \in Text : ScanText(u, map) \in Scans}
      OBVIOUS
    <2>2. <<>> \in S
      <3>1. ScanText(<<>>, map) = Unscanned
        BY ScanAppend
      <3>2. Unscanned \in Scans /\ <<>> \in Text
        BY DEF Unscanned, Scans, Text
      <3> QED BY <2>1, <3>1, <3>2
    <2>3. ASSUME NEW u \in Text, NEW t \in STRING, u \in S PROVE Append(u, t) \in S
      <3>1. ScanText(u, map) \in Scans
        BY <2>1, <2>3
      <3>2. ScanToken(ScanText(u, map), t, map) \in Scans
        BY <3>1, ScanTokenCases
      <3>3. ScanText(Append(u, t), map) \in Scans
        BY <3>2, ScanAppend
      <3>4. Append(u, t) \in Text
        BY AppendText
      <3> QED BY <2>1, <3>3, <3>4
    <2>4. text \in S
      BY <2>2, <2>3, TextInduction
    <2> QED BY <2>1, <2>4
  <1>2. Resolve(text, map) = IF r.failed \/ r.isParam THEN Unresolved
                             ELSE Resolved(r.resolved \o r.rest)
    BY DEF Resolve
  <1>3. Resolve(text, map).ok <=> ~ r.failed /\ ~ r.isParam
    BY <1>1, <1>2 DEF Resolved, Unresolved, Scans
  <1>4. /\ Resolve(text, map) = IF IsResolvable(text, map)
                                THEN Resolved(Filled(text, map)) ELSE Unresolved
        /\ IsResolvable(text, map) => Filled(text, map) \in Text
    BY ResolveReadsAsWritten
  <1>5. IsResolvable(text, map) <=> ~ r.failed /\ ~ r.isParam
    BY <1>3, <1>4 DEF Resolved, Unresolved
  <1>6. ASSUME IsResolvable(text, map) PROVE Filled(text, map) = r.resolved \o r.rest
    <2>1. Resolved(Filled(text, map)) = Resolved(r.resolved \o r.rest)
      BY <1>2, <1>4, <1>5, <1>6
    <2> QED BY <2>1 DEF Resolved
  <1> QED BY <1>1, <1>4, <1>5, <1>6

\* A text without delimiters stands for itself.
LEMMA PlainText ==
    ASSUME NEW map, IsMap(map), NEW text \in Text, ~ Has(text, Delimiter)
    PROVE  IsResolvable(text, map) /\ Filled(text, map) = text
  <1>1. PICK S : S = {u \in Text : Has(u, Delimiter) \/
                        \E r \in Scans : /\ r = ScanText(u, map) /\ r.resolved = <<>>
                                         /\ r.rest = u /\ ~ r.isParam /\ ~ r.failed}
    OBVIOUS
  <1>2. <<>> \in S
    <2>1. PICK r : r = Unscanned
      OBVIOUS
    <2>2. /\ r \in Scans /\ r.resolved = <<>> /\ r.rest = <<>> /\ ~ r.isParam
          /\ ~ r.failed /\ <<>> \in Text
      BY <2>1 DEF Unscanned, Scans, Text
    <2>3. r = ScanText(<<>>, map)
      BY <2>1, ScanAppend
    <2> QED BY <1>1, <2>2, <2>3
  <1>3. ASSUME NEW u \in Text, NEW t \in STRING, u \in S PROVE Append(u, t) \in S
    <2>1. PICK w : /\ w = Append(u, t) /\ w \in Text
                   /\ Len(u) \in Nat /\ Len(w) = Len(u) + 1 /\ w[Len(w)] = t
                   /\ \A i \in 1..Len(u) : w[i] = u[i]
      BY AppendText
    <2>2. DOMAIN u = 1..Len(u) /\ DOMAIN w = 1..Len(w)
      BY <2>1 DEF Text
    <2>3. Has(w, Delimiter) <=> Has(u, Delimiter) \/ t \in Delimiter
      <3>1. 1..Len(w) = 1..Len(u) \union {Len(w)}
        BY <2>1
      <3> QED BY <2>1, <2>2, <3>1 DEF Has
    <2>4. CASE Has(w, Delimiter)
      BY <1>1, <2>1, <2>4
    <2>5. CASE ~ Has(w, Delimiter)
      <3>1. PICK r \in Scans : /\ r = ScanText(u, map) /\ r.resolved = <<>>
                               /\ r.rest = u /\ ~ r.isParam /\ ~ r.failed
        BY <1>1, <1>3, <2>3, <2>5
      <3>2. PICK x : x = ScanToken(r, t, map)
        OBVIOUS
      <3>3. /\ x \in Scans /\ x.resolved = r.resolved /\ x.rest = Append(r.rest, t)
            /\ x.isParam = r.isParam /\ ~ x.failed
        <4>1. x \in Scans /\ IsTokenStep(r, t, x, map)
          BY Zenon, <3>2, ScanTokenCases
        <4> QED BY <2>3, <2>5, <3>1, <4>1 DEF IsTokenStep, Extend
      <3>4. x = ScanText(w, map)
        BY <2>1, <3>1, <3>2, ScanAppend
      <3>5. x.rest = w
        BY <2>1, <3>1, <3>3
      <3> QED BY <1>1, <2>1, <3>1, <3>3, <3>4, <3>5
    <2> QED BY <2>1, <2>4, <2>5
  <1>4. text \in S
    BY <1>2, <1>3, TextInduction
  <1>5. PICK r \in Scans : /\ r = ScanText(text, map) /\ r.resolved = <<>>
                           /\ r.rest = text /\ ~ r.isParam /\ ~ r.failed
    BY <1>1, <1>4
  <1>6. IsResolvable(text, map) /\ Filled(text, map) = r.resolved \o r.rest
    BY <1>5, ScanResolves
  <1>7. <<>> \o text = text
    BY ConcatEmptySeq DEF Text
  <1> QED BY <1>5, <1>6, <1>7

\* Tokens that are no commas go on with the last part.
LEMMA CutRun ==
    ASSUME NEW u \in Text, NEW c \in Split, c = CutText(u), c.part = <<>>,
           NEW w \in Text, ~ Has(w, {Comma})
    PROVE  CutText(u \o w) = [parts |-> c.parts, part |-> w]
  <1>1. PICK S : S = {v \in Text : \/ Has(v, {Comma})
                                   \/ CutText(u \o v) = [parts |-> c.parts, part |-> v]}
    OBVIOUS
  <1>2. <<>> \in S
    <2>1. u \o <<>> = u /\ <<>> \in Text
      BY ConcatEmptySeq DEF Text
    <2>2. c = [parts |-> c.parts, part |-> <<>>]
      BY DEF Split
    <2> QED BY <1>1, <2>1, <2>2
  <1>3. ASSUME NEW v \in Text, NEW t \in STRING, v \in S PROVE Append(v, t) \in S
    <2>1. PICK x : /\ x = Append(v, t) /\ x \in Text
                   /\ Len(v) \in Nat /\ Len(x) = Len(v) + 1 /\ x[Len(x)] = t
                   /\ \A i \in 1..Len(v) : x[i] = v[i]
      BY AppendText
    <2>2. DOMAIN v = 1..Len(v) /\ DOMAIN x = 1..Len(x)
      BY <2>1 DEF Text
    <2>3. Has(x, {Comma}) <=> Has(v, {Comma}) \/ t = Comma
      <3>1. 1..Len(x) = 1..Len(v) \union {Len(x)}
        BY <2>1
      <3> QED BY <2>1, <2>2, <3>1 DEF Has
    <2>4. CASE Has(x, {Comma})
      BY <1>1, <2>1, <2>4
    <2>5. CASE ~ Has(x, {Comma})
      <3>1. CutText(u \o v) = [parts |-> c.parts, part |-> v]
        BY <1>1, <1>3, <2>3, <2>5
      <3>2. u \o x = Append(u \o v, t)
        <4>1. x = v \o <<t>> /\ <<t>> \in Seq(STRING)
          BY <2>1, AppendIsConcat DEF Text
        <4>2. u \o (v \o <<t>>) = (u \o v) \o <<t>>
          BY <4>1, ConcatAssociative DEF Text
        <4>3. u \o v \in Seq(STRING)
          BY ConcatProperties DEF Text
        <4>4. Append(u \o v, t) = (u \o v) \o <<t>>
          BY <4>3, AppendIsConcat
        <4> QED BY <4>1, <4>2, <4>4
      <3>3. CutText(u \o x) = Cut(CutText(u \o v), t)
        <4>1. u \o v \in Text
          BY ConcatProperties DEF Text
        <4> QED BY <3>2, <4>1, CutAppend
      <3>4. CutText(u \o x) = [parts |-> c.parts, part |-> Append(v, t)]
        BY <2>3, <2>5, <3>1, <3>3 DEF Cut
      <3> QED BY <1>1, <2>1, <3>4
    <2> QED BY <2>1, <2>4, <2>5
  <1>4. w \in S
    BY <1>2, <1>3, TextInduction
  <1> QED BY <1>1, <1>4

LEMMA JointIs ==
    /\ \A a, b \in Text : Joint(a, b) \in Text
    /\ \A a \in Text : Joint(a, <<>>) = a /\ Joint(<<>>, a) = a
    /\ \A a, b, c \in Text : Joint(Joint(a, b), c) = Joint(a, Joint(b, c))
    /\ \A a, b \in Text, t \in STRING : Extend(Joint(a, b), t) = Joint(a, Extend(b, t))
  <1>1. \A a, b \in Text : Joint(a, b) \in Text
    BY ConcatProperties DEF Text, Joint
  <1>2. \A a \in Text : Joint(a, <<>>) = a /\ Joint(<<>>, a) = a
    BY ConcatEmptySeq DEF Text, Joint
  <1>3. \A a, b, c \in Text : Joint(Joint(a, b), c) = Joint(a, Joint(b, c))
    BY ConcatAssociative DEF Text, Joint
  <1>4. ASSUME NEW a \in Text, NEW t \in STRING
        PROVE  <<t>> \in Text /\ Extend(a, t) = Joint(a, <<t>>)
    <2>1. Append(a, t) = a \o <<t>>
      BY AppendIsConcat DEF Text
    <2> QED BY <2>1, OneElement DEF Text, Extend, Joint
  <1>5. ASSUME NEW a \in Text, NEW b \in Text, NEW t \in STRING
        PROVE  Extend(Joint(a, b), t) = Joint(a, Extend(b, t))
    <2>1. Extend(Joint(a, b), t) = Joint(Joint(a, b), <<t>>)
      BY <1>1, <1>4
    <2>2. Extend(b, t) = Joint(b, <<t>>) /\ <<t>> \in Text
      BY <1>4
    <2>3. Joint(Joint(a, b), <<t>>) = Joint(a, Joint(b, <<t>>))
      BY <1>3, <2>2
    <2> QED BY Zenon, <2>1, <2>2, <2>3
  <1> QED BY <1>1, <1>2, <1>3, <1>5

LEMMA CleanJoint ==
    ASSUME NEW a, NEW b, Clean(a), Clean(b)
    PROVE  Clean(Joint(a, b))
  <1>1. PICK c : c = a \o b
    OBVIOUS
  <1>2. /\ c \in Text /\ Len(c) = Len(a) + Len(b)
        /\ \A i \in 1..Len(c) : c[i] = IF i <= Len(a) THEN a[i] ELSE b[i - Len(a)]
    BY <1>1, ConcatProperties DEF Text, Clean
  <1>3. /\ DOMAIN a = 1..Len(a) /\ DOMAIN b = 1..Len(b) /\ DOMAIN c = 1..Len(c)
        /\ Len(a) \in Nat /\ Len(b) \in Nat
    BY <1>2 DEF Text, Clean
  <1>4. ASSUME NEW i \in DOMAIN c PROVE c[i] \notin Delimiter \union {Comma}
    <2>1. CASE i <= Len(a)
      BY <1>2, <1>3, <2>1 DEF Clean, Has
    <2>2. CASE ~ (i <= Len(a))
      <3>1. i - Len(a) \in DOMAIN b /\ c[i] = b[i - Len(a)]
        BY <1>2, <1>3, <2>2
      <3> QED BY <3>1 DEF Clean, Has
    <2> QED BY <2>1, <2>2
  <1>5. Clean(c)
    BY <1>2, <1>4 DEF Clean, Has
  <1> QED BY Zenon, <1>1, <1>5 DEF Joint

LEMMA CleanOne ==
    ASSUME NEW t \in STRING, t \notin Delimiter \union {Comma}, NEW a, Clean(a)
    PROVE  Clean(Extend(a, t)) /\ Clean(<<>>)
  <1>1. PICK w : /\ w = Append(a, t) /\ w \in Text
                 /\ Len(a) \in Nat /\ Len(w) = Len(a) + 1 /\ w[Len(w)] = t
                 /\ \A i \in 1..Len(a) : w[i] = a[i]
    BY AppendText DEF Clean
  <1>2. DOMAIN a = 1..Len(a) /\ DOMAIN w = 1..Len(w)
    BY <1>1 DEF Clean, Text
  <1>3. 1..Len(w) = 1..Len(a) \union {Len(w)}
    BY <1>1
  <1>4. Clean(w)
    BY <1>1, <1>2, <1>3 DEF Clean, Has
  <1>5. <<>> \in Text /\ DOMAIN <<>> = {}
    BY DEF Text
  <1>6. Clean(Extend(a, t))
    BY Zenon, <1>1, <1>4 DEF Extend
  <1> QED BY <1>5, <1>6 DEF Clean, Has

CleanScan(q) == Clean(q.resolved) /\ Clean(q.rest)

LEMMA CleanStep ==
    ASSUME NEW map, IsMap(map), CleanMap(map), NEW t \in STRING, t # Comma,
           NEW q \in Scans, CleanScan(q), NEW y \in Scans, IsTokenStep(q, t, y, map)
    PROVE  CleanScan(y)
  <1>0. /\ q.resolved \in Text /\ q.rest \in Text /\ Clean(q.resolved) /\ Clean(q.rest)
        /\ y.resolved \in Text /\ y.rest \in Text
    BY DEF Scans, CleanScan
  <1>1. Clean(<<>>)
    BY DEF Clean, Has, Text
  <1>2. CASE q.failed
    BY <1>0, <1>2 DEF IsTokenStep, CleanScan
  <1>3. CASE ~ q.failed /\ t = Open
    <2>1. Clean(Joint(q.resolved, q.rest))
      BY <1>0, CleanJoint
    <2>2. y.resolved = Joint(q.resolved, q.rest) /\ y.rest = <<>>
      BY <1>3 DEF IsTokenStep
    <2> QED BY Zenon, <1>1, <2>1, <2>2 DEF CleanScan
  <1>4. CASE ~ q.failed /\ Closes(q, t, map)
    <2>1. PICK v : v = map[q.rest[1]]
      OBVIOUS
    <2>2. Clean(v) /\ v \in Text
      BY <1>4, <2>1 DEF Closes, CleanMap, Clean
    <2>3. Clean(Joint(q.resolved, v))
      BY <1>0, <2>2, CleanJoint
    <2>4. y.resolved = Joint(q.resolved, v) /\ y.rest = <<>>
      BY <1>4, <2>1 DEF IsTokenStep
    <2> QED BY Zenon, <1>1, <2>3, <2>4 DEF CleanScan
  <1>5. CASE ~ q.failed /\ t \in {Close, OpenClose} /\ ~ Closes(q, t, map)
    BY <1>0, <1>5 DEF IsTokenStep, CleanScan
  <1>6. CASE ~ q.failed /\ t \notin Delimiter
    <2>1. Clean(Extend(q.rest, t))
      BY <1>0, <1>6, CleanOne
    <2>2. y.resolved = q.resolved /\ y.rest = Extend(q.rest, t)
      BY <1>6 DEF IsTokenStep
    <2> QED BY Zenon, <1>0, <2>1, <2>2 DEF CleanScan
  <1> QED BY <1>2, <1>3, <1>4, <1>5, <1>6 DEF Delimiter

\* The scan s of a list and the scan q of its last part, J before it.
Follows(s, q, J) ==
    /\ s.failed = q.failed
    /\ ~ q.failed =>
        /\ s.isParam = q.isParam
        /\ q.isParam => s.rest = q.rest /\ s.resolved = Joint(J, q.resolved)
        /\ ~ q.isParam =>
            Joint(s.resolved, s.rest) = Joint(J, Joint(q.resolved, q.rest))

LEMMA FollowsStep ==
    ASSUME NEW map, IsMap(map), NEW t \in STRING, NEW J \in Text,
           NEW s \in Scans, NEW q \in Scans, Follows(s, q, J),
           NEW x \in Scans, IsTokenStep(s, t, x, map),
           NEW y \in Scans, IsTokenStep(q, t, y, map)
    PROVE  Follows(x, y, J)
  <1>1. /\ q.resolved \in Text /\ q.rest \in Text /\ s.resolved \in Text /\ s.rest \in Text
        /\ y.resolved \in Text /\ x.resolved \in Text /\ s.failed = q.failed
        /\ {s.failed, s.isParam, q.failed, q.isParam, x.failed, x.isParam,
            y.failed, y.isParam} \subseteq BOOLEAN
    BY DEF Scans, Follows
  <1>a. PICK a : a = q.resolved
    OBVIOUS
  <1>b. PICK b : b = q.rest
    OBVIOUS
  <1>c. PICK c : c = s.resolved
    OBVIOUS
  <1>d. PICK d : d = s.rest
    OBVIOUS
  <1>e. a \in Text /\ b \in Text /\ c \in Text /\ d \in Text
    BY <1>1, <1>a, <1>b, <1>c, <1>d
  <1>2. CASE q.failed
    <2>1. x = s /\ y = q
      BY <1>1, <1>2 DEF IsTokenStep
    <2> QED BY <2>1
  <1>3. CASE ~ q.failed /\ t = Open
    <2>1. /\ x.resolved = Joint(s.resolved, s.rest) /\ y.resolved = Joint(q.resolved, q.rest)
          /\ x.rest = <<>> /\ y.rest = <<>> /\ x.isParam /\ y.isParam
          /\ ~ x.failed /\ ~ y.failed
      BY <1>1, <1>3 DEF IsTokenStep
    <2>2. Joint(s.resolved, s.rest) = Joint(J, Joint(q.resolved, q.rest))
      <3>1. Joint(Joint(J, a), b) = Joint(J, Joint(a, b))
        BY <1>e, JointIs
      <3>2. CASE q.isParam
        <4>1. s.rest = q.rest /\ s.resolved = Joint(J, q.resolved)
          BY <1>3, <3>2 DEF Follows
        <4> QED BY Zenon, <1>a, <1>b, <3>1, <4>1
      <3>3. CASE ~ q.isParam
        BY <1>3, <3>3 DEF Follows
      <3> QED BY <3>2, <3>3
    <2> QED BY <1>1, <2>1, <2>2 DEF Follows
  <1>4. CASE ~ q.failed /\ Closes(q, t, map)
    <2>1. q.isParam /\ s.rest = q.rest /\ s.resolved = Joint(J, q.resolved) /\ s.isParam
      BY <1>1, <1>4 DEF Follows, Closes
    <2>2. Closes(s, t, map)
      BY <1>4, <2>1 DEF Closes
    <2>3. PICK v : v = map[q.rest[1]]
      OBVIOUS
    <2>4. v \in Text
      BY <1>4, <2>3 DEF Closes, IsMap
    <2>5. /\ x.resolved = Joint(s.resolved, v) /\ y.resolved = Joint(q.resolved, v)
          /\ x.rest = <<>> /\ y.rest = <<>> /\ ~ x.isParam /\ ~ y.isParam
          /\ ~ x.failed /\ ~ y.failed
      BY <1>1, <1>4, <2>1, <2>2, <2>3 DEF IsTokenStep
    <2>6. Joint(x.resolved, x.rest) = Joint(J, Joint(y.resolved, y.rest))
      <3>1. Joint(Joint(J, a), v) = Joint(J, Joint(a, v))
        BY <1>e, <2>4, JointIs
      <3>2. PICK e : e = Joint(c, v)
        OBVIOUS
      <3>3. PICK f : f = Joint(a, v)
        OBVIOUS
      <3>4. Joint(e, <<>>) = e /\ Joint(f, <<>>) = f
        BY <1>e, <2>4, <3>2, <3>3, JointIs
      <3>5. x.resolved = e /\ y.resolved = f
        BY Zenon, <1>a, <1>c, <2>5, <3>2, <3>3
      <3>6. e = Joint(J, f)
        BY Zenon, <1>a, <1>c, <2>1, <3>1, <3>2, <3>3
      <3> QED BY Zenon, <2>5, <3>4, <3>5, <3>6
    <2> QED BY <1>1, <2>5, <2>6 DEF Follows
  <1>5. CASE ~ q.failed /\ t \in {Close, OpenClose} /\ ~ Closes(q, t, map)
    <2>1. ~ Closes(s, t, map)
      BY <1>1, <1>5 DEF Closes, Follows
    <2>2. x.failed /\ y.failed
      BY <1>1, <1>5, <2>1 DEF IsTokenStep
    <2> QED BY <1>1, <2>2 DEF Follows
  <1>6. CASE ~ q.failed /\ t \notin Delimiter
    <2>1. /\ x.resolved = s.resolved /\ y.resolved = q.resolved
          /\ x.rest = Extend(s.rest, t) /\ y.rest = Extend(q.rest, t)
          /\ x.isParam = s.isParam /\ y.isParam = q.isParam /\ ~ x.failed /\ ~ y.failed
          /\ s.isParam = q.isParam
      BY <1>1, <1>6 DEF IsTokenStep, Follows
    <2>2. CASE q.isParam
      BY <1>1, <1>6, <2>1, <2>2 DEF Follows
    <2>3. CASE ~ q.isParam
      <3>1. Joint(s.resolved, s.rest) = Joint(J, Joint(q.resolved, q.rest))
        BY <1>6, <2>3 DEF Follows
      <3>2. Joint(x.resolved, x.rest) = Joint(J, Joint(y.resolved, y.rest))
        <4>1. PICK z : z = Joint(a, b)
          OBVIOUS
        <4>2. z \in Text
          BY <1>e, <4>1, JointIs
        <4>3. /\ Extend(Joint(c, d), t) = Joint(c, Extend(d, t))
              /\ Extend(z, t) = Joint(a, Extend(b, t))
              /\ Extend(Joint(J, z), t) = Joint(J, Extend(z, t))
          BY <1>e, <4>1, <4>2, JointIs
        <4>4. Joint(c, d) = Joint(J, z)
          BY Zenon, <1>a, <1>b, <1>c, <1>d, <3>1, <4>1
        <4>5. Joint(c, Extend(d, t)) = Joint(J, Joint(a, Extend(b, t)))
          BY Zenon, <4>3, <4>4
        <4> QED BY Zenon, <1>a, <1>b, <1>c, <1>d, <2>1, <4>5
      <3> QED BY <1>1, <2>1, <2>3, <3>2 DEF Follows
    <2> QED BY <2>2, <2>3
  <1> QED BY <1>2, <1>3, <1>4, <1>5, <1>6 DEF Delimiter

\* The parts with the values filled in.
FilledParts(parts, params_) == [k \in DOMAIN parts |-> Filled(parts[k], params_)]

AllResolvable(parts, params_) ==
    \A k \in DOMAIN parts : IsResolvable(parts[k], params_)

OneMore(more, parts, part) == more = Append(parts, part)

LEMMA FilledPartsAppend ==
    ASSUME NEW map, IsMap(map), NEW parts \in Seq(Text), NEW part \in Text,
           NEW more, OneMore(more, parts, part), AllResolvable(more, map)
    PROVE  /\ AllResolvable(parts, map) /\ IsResolvable(part, map)
           /\ FilledParts(parts, map) \in Seq(Text) /\ Filled(part, map) \in Text
           /\ OneMore(FilledParts(more, map), FilledParts(parts, map), Filled(part, map))
  <1>1. /\ more \in Seq(Text) /\ Len(parts) \in Nat /\ Len(more) = Len(parts) + 1
        /\ more[Len(more)] = part /\ \A k \in 1..Len(parts) : more[k] = parts[k]
        /\ DOMAIN parts = 1..Len(parts) /\ DOMAIN more = 1..Len(more)
    BY AppendProperties DEF OneMore
  <1>2. DOMAIN more = DOMAIN parts \union {Len(more)}
    BY <1>1
  <1>3. \A k \in DOMAIN parts : more[k] = parts[k]
    BY <1>1
  <1>4. AllResolvable(parts, map) /\ IsResolvable(part, map)
    <2>1. \A k \in DOMAIN parts : IsResolvable(more[k], map)
      BY <1>2 DEF AllResolvable
    <2>2. IsResolvable(more[Len(more)], map)
      BY <1>2 DEF AllResolvable
    <2> QED BY <1>1, <1>3, <2>1, <2>2 DEF AllResolvable
  <1>5. Filled(part, map) \in Text
    BY <1>4, ResolveReadsAsWritten
  <1>6. \A k \in DOMAIN parts : Filled(parts[k], map) \in Text
    <2> SUFFICES ASSUME NEW k \in DOMAIN parts PROVE Filled(parts[k], map) \in Text
      OBVIOUS
    <2>1. PICK p : p = parts[k]
      OBVIOUS
    <2>2. p \in Text /\ IsResolvable(p, map)
      BY <1>1, <1>4, <2>1, ElementOfSeq DEF AllResolvable
    <2>3. Filled(p, map) \in Text
      BY <2>2, ResolveReadsAsWritten
    <2> QED BY <2>1, <2>3
  <1>7. PICK f : f = FilledParts(parts, map)
    OBVIOUS
  <1>8. f \in Seq(Text) /\ Len(f) = Len(parts) /\ \A k \in 1..Len(parts) : f[k] = Filled(parts[k], map)
    BY <1>1, <1>6, <1>7 DEF FilledParts
  <1>9. PICK v : v = Filled(part, map)
    OBVIOUS
  <1>10. PICK g : g = FilledParts(more, map)
    OBVIOUS
  <1>11. /\ DOMAIN g = 1..(Len(parts) + 1)
         /\ \A k \in 1..Len(parts) : g[k] = f[k]
         /\ g[Len(parts) + 1] = v
         /\ g = [k \in DOMAIN g |-> g[k]]
    <2>1. g = [k \in DOMAIN g |-> g[k]] /\ DOMAIN g = 1..(Len(parts) + 1)
      BY <1>1, <1>10 DEF FilledParts
    <2>2. \A k \in DOMAIN more : g[k] = Filled(more[k], map)
      BY <1>10 DEF FilledParts
    <2>3. \A k \in 1..Len(parts) : g[k] = f[k]
      BY <1>1, <1>2, <1>8, <2>2
    <2>4. g[Len(more)] = v
      BY <1>1, <1>2, <1>9, <2>2
    <2> QED BY <1>1, <2>1, <2>3, <2>4
  <1>12. g = Append(f, v)
    <2>1. v \in Text
      BY <1>5, <1>9
    <2>2. PICK h : h = Append(f, v)
      OBVIOUS
    <2>3. /\ h \in Seq(Text) /\ Len(h) = Len(parts) + 1
          /\ \A k \in 1..Len(parts) : h[k] = f[k]
          /\ h[Len(parts) + 1] = v
      BY <1>8, <2>1, <2>2, AppendProperties
    <2>4. DOMAIN h = 1..(Len(parts) + 1) /\ h = [k \in DOMAIN h |-> h[k]]
      BY <2>3
    <2>5. \A k \in DOMAIN h : h[k] = g[k]
      BY <1>1, <1>11, <2>3, <2>4
    <2>6. g = h
      BY <1>11, <2>4, <2>5
    <2> QED BY <2>2, <2>6
  <1>13. OneMore(FilledParts(more, map), FilledParts(parts, map), Filled(part, map))
    BY Zenon, <1>7, <1>9, <1>10, <1>12 DEF OneMore
  <1> QED BY <1>4, <1>5, <1>7, <1>8, <1>13

\* J is cut into the parts, filled in, with nothing after the last comma.
Joined(J, parts, params_) ==
    /\ CutText(J) = [parts |-> FilledParts(parts, params_), part |-> <<>>]
    /\ \A k \in DOMAIN parts : Clean(Filled(parts[k], params_))

LEMMA CutJoint ==
    ASSUME NEW J \in Text, NEW parts \in Seq(Text), CutText(J) = [parts |-> parts, part |-> <<>>],
           NEW w, Clean(w)
    PROVE  CutText(Joint(J, w)) = [parts |-> parts, part |-> w]
  <1>1. PICK c : c = CutText(J)
    OBVIOUS
  <1>2. c \in Split /\ c.parts = parts /\ c.part = <<>>
    <2>1. c \in Split
      BY Zenon, <1>1, CutTextType
    <2>2. c = [parts |-> parts, part |-> <<>>]
      BY Zenon, <1>1
    <2> QED BY <2>1, <2>2
  <1>3. w \in Text /\ ~ Has(w, {Comma})
    BY DEF Clean, Has
  <1>4. CutText(J \o w) = [parts |-> c.parts, part |-> w]
    BY <1>1, <1>2, <1>3, CutRun
  <1> QED BY <1>2, <1>4 DEF Joint

LEMMA JoinNext ==
    ASSUME NEW map, IsMap(map), NEW parts \in Seq(Text), NEW part \in Text,
           NEW more, OneMore(more, parts, part), AllResolvable(more, map),
           Clean(Filled(part, map)), NEW J \in Text, Joined(J, parts, map),
           NEW t \in STRING, t = Comma,
           NEW K, K = Extend(Joint(J, Filled(part, map)), t)
    PROVE  K \in Text /\ Joined(K, more, map)
  <1>1. /\ FilledParts(parts, map) \in Seq(Text) /\ Filled(part, map) \in Text
        /\ OneMore(FilledParts(more, map), FilledParts(parts, map), Filled(part, map))
        /\ DOMAIN more = DOMAIN parts \union {Len(more)} /\ more[Len(more)] = part
        /\ \A k \in DOMAIN parts : more[k] = parts[k]
    <2>1. FilledParts(parts, map) \in Seq(Text)
      BY FilledPartsAppend
    <2>2. Filled(part, map) \in Text
      BY FilledPartsAppend
    <2>3. OneMore(FilledParts(more, map), FilledParts(parts, map), Filled(part, map))
      BY FilledPartsAppend
    <2>4. /\ more \in Seq(Text) /\ Len(parts) \in Nat /\ Len(more) = Len(parts) + 1
          /\ more[Len(more)] = part /\ \A k \in 1..Len(parts) : more[k] = parts[k]
          /\ DOMAIN parts = 1..Len(parts) /\ DOMAIN more = 1..Len(more)
      BY AppendProperties DEF OneMore
    <2>5. DOMAIN more = DOMAIN parts \union {Len(more)}
      BY <2>4
    <2> QED BY <2>1, <2>2, <2>3, <2>4, <2>5
  <1>2. PICK f : f = FilledParts(parts, map)
    OBVIOUS
  <1>3. PICK v : v = Filled(part, map)
    OBVIOUS
  <1>4. PICK u : u = Joint(J, v)
    OBVIOUS
  <1>5. CutText(u) = [parts |-> f, part |-> v]
    <2>1. CutText(J) = [parts |-> f, part |-> <<>>] /\ f \in Seq(Text) /\ Clean(v)
      BY <1>1, <1>2, <1>3 DEF Joined
    <2> QED BY <1>4, <2>1, CutJoint
  <1>6. u \in Text
    BY <1>1, <1>3, <1>4, JointIs
  <1>7. PICK w : w = Append(u, t) /\ w \in Text
    BY <1>6, AppendText
  <1>9. K = w /\ K \in Text
    <2>1. K = w
      BY Zenon, <1>3, <1>4, <1>7 DEF Extend
    <2> QED BY <1>7, <2>1
  <1>8. CutText(K) = [parts |-> Append(f, v), part |-> <<>>]
    <2>1. CutText(Append(u, t)) = Cut(CutText(u), t)
      BY <1>6, CutAppend
    <2>2. Cut(CutText(u), t) = [parts |-> Append(f, v), part |-> <<>>]
      BY <1>5 DEF Cut
    <2> QED BY Zenon, <1>7, <1>9, <2>1, <2>2
  <1>10. \A k \in DOMAIN more : Clean(Filled(more[k], map))
    <2>1. \A k \in DOMAIN parts : Clean(Filled(parts[k], map))
      BY DEF Joined
    <2> QED BY <1>1, <2>1
  <1>11. FilledParts(more, map) = Append(f, v)
    BY Zenon, <1>1, <1>2, <1>3 DEF OneMore
  <1> QED BY <1>8, <1>9, <1>10, <1>11 DEF Joined

\* c is the cut of a list, s its scan and q the scan of its last part.
Mirrors(c, s, q, params_) ==
    /\ CleanScan(q)
    /\ AllResolvable(c.parts, params_) =>
        \E J \in Text : Joined(J, c.parts, params_) /\ Follows(s, q, J)

LEMMA MirrorsEmpty ==
    ASSUME NEW map
    PROVE  Mirrors(Uncut, Unscanned, Unscanned, map)
  <1>1. PICK e : e = <<>>
    OBVIOUS
  <1>2. e \in Text /\ DOMAIN e = {} /\ Joint(e, e) = e /\ Clean(e)
    <2>1. e \in Text /\ DOMAIN e = {}
      BY <1>1 DEF Text
    <2>2. Joint(e, <<>>) = e
      BY <2>1, JointIs
    <2> QED BY <1>1, <2>1, <2>2 DEF Clean, Has
  <1>3. PICK r : r = Unscanned
    OBVIOUS
  <1>4. r.resolved = e /\ r.rest = e /\ ~ r.isParam /\ ~ r.failed
    BY <1>1, <1>3 DEF Unscanned
  <1>5. CleanScan(r)
    BY <1>2, <1>4 DEF CleanScan
  <1>6. Follows(r, r, e)
    <2>1. Joint(r.resolved, r.rest) = Joint(e, Joint(r.resolved, r.rest))
      BY Zenon, <1>2, <1>4
    <2> QED BY <1>4, <2>1 DEF Follows
  <1>7. Joined(e, e, map)
    <2>1. FilledParts(e, map) = e
      <3>1. FilledParts(e, map) = [k \in {} |-> Filled(e[k], map)]
        BY <1>2 DEF FilledParts
      <3> QED BY <1>1, <3>1
    <2>2. CutText(e) = Uncut
      BY Zenon, <1>1, CutAppend
    <2>3. CutText(e) = [parts |-> e, part |-> <<>>]
      BY Zenon, <1>1, <2>2 DEF Uncut
    <2> QED BY <1>2, <2>1, <2>3 DEF Joined
  <1>8. Uncut.parts = e
    BY <1>1 DEF Uncut
  <1> QED BY <1>2, <1>3, <1>5, <1>6, <1>7, <1>8 DEF Mirrors

\* A comma ends a part: J is extended by the part, filled in.
LEMMA MirrorsComma ==
    ASSUME NEW map, IsMap(map), NEW t \in STRING, t = Comma,
           NEW c \in Split, NEW s \in Scans,
           NEW q \in Scans, q = ScanText(c.part, map), Mirrors(c, s, q, map),
           NEW x \in Scans, IsTokenStep(s, t, x, map),
           NEW d \in Split, OneMore(d.parts, c.parts, c.part),
           NEW r, r = Unscanned
    PROVE  Mirrors(d, x, r, map)
  <1>1. c.parts \in Seq(Text) /\ c.part \in Text
    BY DEF Split
  <1>2. <<>> \in Text /\ Clean(<<>>)
    BY DEF Clean, Has, Text
  <1>3. r.resolved = <<>> /\ r.rest = <<>> /\ ~ r.isParam /\ ~ r.failed
    BY DEF Unscanned
  <1>4. CleanScan(r)
    BY <1>2, <1>3 DEF CleanScan
  <1>5. ASSUME AllResolvable(d.parts, map)
        PROVE  \E K \in Text : Joined(K, d.parts, map) /\ Follows(x, r, K)
    <2>1. PICK parts : parts = c.parts
      OBVIOUS
    <2>2. PICK part : part = c.part
      OBVIOUS
    <2>3. PICK more : more = d.parts
      OBVIOUS
    <2>4. /\ parts \in Seq(Text) /\ part \in Text /\ OneMore(more, parts, part)
          /\ AllResolvable(more, map) /\ q = ScanText(part, map)
      BY Zenon, <1>1, <1>5, <2>1, <2>2, <2>3
    <2>5. AllResolvable(parts, map) /\ IsResolvable(part, map)
      BY <2>4, FilledPartsAppend
    <2>6. PICK J \in Text : Joined(J, parts, map) /\ Follows(s, q, J)
      BY <2>1, <2>5 DEF Mirrors
    <2>7. PICK v : v = Filled(part, map)
      OBVIOUS
    <2>8. ~ q.failed /\ ~ q.isParam /\ v = Joint(q.resolved, q.rest) /\ v \in Text
      <3>1. ~ q.failed /\ ~ q.isParam
        BY <2>4, <2>5, ScanResolves
      <3>2. Filled(part, map) = q.resolved \o q.rest /\ Filled(part, map) \in Text
        BY <2>4, <2>5, ScanResolves
      <3> QED BY Zenon, <2>7, <3>1, <3>2 DEF Joint
    <2>9. Clean(v)
      <3>1. CleanScan(q)
        BY DEF Mirrors
      <3>2. Clean(Joint(q.resolved, q.rest))
        BY <3>1, CleanJoint DEF CleanScan
      <3> QED BY Zenon, <2>8, <3>2
    <2>10. PICK u : u = Joint(J, v)
      OBVIOUS
    <2>11. PICK K : K = Extend(u, t)
      OBVIOUS
    <2>12. K \in Text /\ Joined(K, more, map)
      <3>1. K = Extend(Joint(J, Filled(part, map)), t) /\ Clean(Filled(part, map))
        BY Zenon, <2>7, <2>9, <2>10, <2>11
      <3> QED BY <2>4, <2>6, <3>1, JoinNext
    <2>13. Follows(x, r, K)
      <3>1. ~ s.failed /\ ~ s.isParam /\ Joint(s.resolved, s.rest) = u
        <4>1. Joint(s.resolved, s.rest) = Joint(J, Joint(q.resolved, q.rest))
          BY <2>6, <2>8 DEF Follows
        <4>2. ~ s.failed /\ ~ s.isParam
          BY <2>6, <2>8 DEF Follows, Scans
        <4> QED BY Zenon, <2>8, <2>10, <4>1, <4>2
      <3>2. t \notin Delimiter
        BY DEF Delimiter, Comma, Open, Close, OpenClose
      <3>3. /\ x.resolved = s.resolved /\ x.rest = Extend(s.rest, t)
            /\ x.isParam = s.isParam /\ ~ x.failed
        BY <3>1, <3>2 DEF IsTokenStep
      <3>4. PICK a : a = s.resolved
        OBVIOUS
      <3>5. PICK b : b = s.rest
        OBVIOUS
      <3>6. a \in Text /\ b \in Text
        BY <3>4, <3>5 DEF Scans
      <3>7. Extend(Joint(a, b), t) = Joint(a, Extend(b, t))
        BY <3>6, JointIs
      <3>8. Joint(x.resolved, x.rest) = K
        BY Zenon, <2>11, <3>1, <3>3, <3>4, <3>5, <3>7
      <3>9. Joint(K, <<>>) = K /\ Joint(<<>>, <<>>) = <<>>
        BY <1>2, <2>12, JointIs
      <3>10. Joint(x.resolved, x.rest) = Joint(K, Joint(r.resolved, r.rest))
        BY Zenon, <1>3, <3>8, <3>9
      <3>11. x.failed = r.failed /\ x.isParam = r.isParam
        BY <1>3, <3>1, <3>3 DEF Scans, Unscanned
      <3> QED BY <1>3, <3>10, <3>11 DEF Follows
    <2> QED BY <2>3, <2>12, <2>13
  <1> QED BY <1>4, <1>5 DEF Mirrors

LEMMA MirrorsAll ==
    ASSUME NEW map, IsMap(map), CleanMap(map), NEW text \in Text
    PROVE  Mirrors(CutText(text), ScanText(text, map),
                   ScanText(CutText(text).part, map), map)
  <1>1. PICK S : S = {u \in Text : Mirrors(CutText(u), ScanText(u, map),
                                           ScanText(CutText(u).part, map), map)}
    OBVIOUS
  <1>2. <<>> \in S
    <2>1. /\ CutText(<<>>) = Uncut /\ ScanText(<<>>, map) = Unscanned
          /\ ScanText(Uncut.part, map) = Unscanned /\ <<>> \in Text
      <3>1. Uncut.part = <<>> /\ <<>> \in Text
        BY DEF Uncut, Text
      <3>2. CutText(<<>>) = Uncut /\ ScanText(<<>>, map) = Unscanned
        BY CutAppend, ScanAppend
      <3> QED BY Zenon, <3>1, <3>2
    <2>2. Mirrors(CutText(<<>>), ScanText(<<>>, map),
                  ScanText(CutText(<<>>).part, map), map)
      BY Zenon, <2>1, MirrorsEmpty
    <2> QED BY Zenon, <1>1, <2>1, <2>2
  <1>3. ASSUME NEW u \in Text, NEW t \in STRING, u \in S PROVE Append(u, t) \in S
    <2>1. PICK c : c = CutText(u)
      OBVIOUS
    <2>2. PICK s : s = ScanText(u, map)
      OBVIOUS
    <2>3. PICK q : q = ScanText(c.part, map)
      OBVIOUS
    <2>4. Mirrors(c, s, q, map)
      BY Zenon, <1>1, <1>3, <2>1, <2>2, <2>3
    <2>5. c \in Split /\ c.part \in Text
      <3>1. c \in Split
        BY Zenon, <2>1, CutTextType
      <3> QED BY <3>1 DEF Split
    <2>6. s \in Scans /\ q \in Scans
      <3>1. s \in Scans
        BY <2>2, ScanResolves
      <3>2. PICK part : part = c.part
        OBVIOUS
      <3>3. q \in Scans
        BY <2>3, <2>5, <3>2, ScanResolves
      <3> QED BY <3>1, <3>3
    <2>7. PICK w : w = Append(u, t) /\ w \in Text
      BY AppendText
    <2>8. PICK d : d = Cut(c, t)
      OBVIOUS
    <2>9. CutText(w) = d /\ d \in Split
      <3>1. CutText(Append(u, t)) = Cut(CutText(u), t)
        BY CutAppend
      <3>2. d \in Split
        BY <2>5, <2>8, CutType
      <3> QED BY Zenon, <2>1, <2>7, <2>8, <3>1, <3>2
    <2>10. PICK x : x = ScanToken(s, t, map)
      OBVIOUS
    <2>11. ScanText(w, map) = x /\ x \in Scans /\ IsTokenStep(s, t, x, map)
      <3>1. ScanText(Append(u, t), map) = ScanToken(ScanText(u, map), t, map)
        BY ScanAppend
      <3>2. ScanToken(s, t, map) \in Scans /\ IsTokenStep(s, t, ScanToken(s, t, map), map)
        BY <2>6, ScanTokenCases
      <3> QED BY Zenon, <2>2, <2>7, <2>10, <3>1, <3>2
    <2>12. PICK y : y = ScanText(d.part, map)
      OBVIOUS
    <2>13. Mirrors(d, x, y, map)
      <3>1. CASE t = Comma
        <4>1. d = [parts |-> Append(c.parts, c.part), part |-> <<>>]
          BY Zenon, <2>8, <3>1 DEF Cut
        <4>2. d.parts = Append(c.parts, c.part) /\ d.part = <<>>
          BY <4>1
        <4>3. OneMore(d.parts, c.parts, c.part)
          BY Zenon, <4>2 DEF OneMore
        <4>4. y = Unscanned
          <5>1. ScanText(<<>>, map) = Unscanned
            BY ScanAppend
          <5> QED BY Zenon, <2>12, <4>2, <5>1
        <4> QED BY <2>3, <2>4, <2>5, <2>6, <2>9, <2>11, <3>1, <4>3, <4>4, MirrorsComma
      <3>2. CASE t # Comma
        <4>1. d = [parts |-> c.parts, part |-> Append(c.part, t)]
          BY Zenon, <2>8, <3>2 DEF Cut
        <4>2. d.parts = c.parts /\ d.part = Append(c.part, t)
          BY <4>1
        <4>3. y = ScanToken(q, t, map)
          <5>1. PICK part : part = c.part
            OBVIOUS
          <5>2. ScanText(Append(part, t), map) = ScanToken(ScanText(part, map), t, map)
            BY <2>5, <5>1, ScanAppend
          <5> QED BY Zenon, <2>3, <2>12, <4>2, <5>1, <5>2
        <4>4. y \in Scans /\ IsTokenStep(q, t, y, map)
          <5>1. ScanToken(q, t, map) \in Scans /\ IsTokenStep(q, t, ScanToken(q, t, map), map)
            BY <2>6, ScanTokenCases
          <5> QED BY Zenon, <4>3, <5>1
        <4>5. CleanScan(y)
          BY <2>4, <2>6, <3>2, <4>4, CleanStep DEF Mirrors
        <4>6. ASSUME AllResolvable(d.parts, map)
              PROVE  \E J \in Text : Joined(J, d.parts, map) /\ Follows(x, y, J)
          <5>1. PICK J \in Text : Joined(J, c.parts, map) /\ Follows(s, q, J)
            BY <2>4, <4>2, <4>6 DEF Mirrors
          <5>2. Follows(x, y, J)
            BY <2>6, <2>11, <4>4, <5>1, FollowsStep
          <5> QED BY <4>2, <5>1, <5>2
        <4> QED BY <4>5, <4>6 DEF Mirrors
      <3> QED BY <3>1, <3>2
    <2>14. Mirrors(CutText(w), ScanText(w, map), ScanText(CutText(w).part, map), map)
      BY Zenon, <2>9, <2>11, <2>12, <2>13
    <2> QED BY Zenon, <1>1, <2>7, <2>14
  <1>4. text \in S
    BY <1>2, <1>3, TextInduction
  <1> QED BY Zenon, <1>1, <1>4

\* To resolve the parts once more changes nothing in them.
LEMMA CleanListResolves ==
    ASSUME NEW map, IsMap(map), NEW value \in Text, NEW f, f = SplitList(value),
           \A k \in DOMAIN f : Clean(f[k]), NEW r, r = ResolveList(value, map)
    PROVE  r.ok /\ r.list = f
  <1>1. /\ f \in Seq(Text)
        /\ r.ok <=> \A k \in DOMAIN f : IsResolvable(f[k], map)
        /\ r.ok => r.list = [k \in DOMAIN f |-> Filled(f[k], map)]
    BY ResolveListIs
  <1>2. ASSUME NEW k \in DOMAIN f
        PROVE  IsResolvable(f[k], map) /\ Filled(f[k], map) = f[k]
    <2>1. PICK p : p = f[k]
      OBVIOUS
    <2>2. Clean(p)
      BY Zenon, <2>1
    <2>3. p \in Text /\ ~ Has(p, Delimiter)
      BY <2>2 DEF Clean, Has
    <2>4. IsResolvable(p, map) /\ Filled(p, map) = p
      BY <2>3, PlainText
    <2> QED BY Zenon, <2>1, <2>4
  <1>3. r.ok /\ r.list = [k \in DOMAIN f |-> f[k]]
    BY <1>1, <1>2
  <1>4. f = [k \in DOMAIN f |-> f[k]]
    BY <1>1
  <1> QED BY <1>3, <1>4

\* The value of a list, as an assertion sees it.
ListValue(value, text, list, params_) ==
    /\ value \in Text /\ Resolve(text, params_) = Resolved(value)
    /\ ResolveList(value, params_).ok /\ ResolveList(value, params_).list = list

LEMMA ListValueIs ==
    ASSUME NEW map, IsMap(map), NEW text \in Text, NEW value \in Text,
           NEW s \in Scans, s = ScanText(text, map), ~ s.failed, ~ s.isParam,
           Joint(s.resolved, s.rest) = value,
           NEW list, SplitList(value) = list, \A k \in DOMAIN list : Clean(list[k])
    PROVE  ListValue(value, text, list, map)
  <1>1. Resolve(text, map) = Resolved(value)
    <2>1. Resolve(text, map) = Resolved(s.resolved \o s.rest)
      BY Zenon DEF Resolve
    <2> QED BY Zenon, <2>1 DEF Joint
  <1>2. PICK r : r = ResolveList(value, map)
    OBVIOUS
  <1>3. PICK f : f = SplitList(value)
    OBVIOUS
  <1>4. \A k \in DOMAIN f : Clean(f[k])
    BY Zenon, <1>3
  <1>5. r.ok /\ r.list = f
    BY <1>2, <1>3, <1>4, CleanListResolves
  <1> QED BY Zenon, <1>1, <1>2, <1>3, <1>5 DEF ListValue

\* A list whose values bring in no comma and no delimiter, and whose last
\* element is not empty, passes through the resolution of the whole text, the
\* split and the resolution of the parts as the list that is written, with
\* the values filled in.
THEOREM ListReadsAsWritten ==
    ASSUME NEW map, IsMap(map), CleanMap(map), NEW text \in Text,
           NEW parts, parts = SplitList(text), AllResolvable(parts, map),
           parts # <<>> => Filled(Last(parts), map) # <<>>
    PROVE  \E value : ListValue(value, text, FilledParts(parts, map), map)
  <1>1. PICK c : c = CutText(text)
    OBVIOUS
  <1>2. PICK s : s = ScanText(text, map)
    OBVIOUS
  <1>3. PICK part : part = c.part
    OBVIOUS
  <1>4. PICK q : q = ScanText(part, map)
    OBVIOUS
  <1>5. Mirrors(c, s, q, map)
    BY Zenon, <1>1, <1>2, <1>3, <1>4, MirrorsAll
  <1>6. PICK first : first = c.parts
    OBVIOUS
  <1>7. first \in Seq(Text) /\ part \in Text
    <2>1. c \in Split
      BY Zenon, <1>1, CutTextType
    <2> QED BY <1>3, <1>6, <2>1 DEF Split
  <1>8. s \in Scans /\ q \in Scans
    BY <1>2, <1>4, <1>7, ScanResolves
  <1>9. parts = IF part = <<>> THEN first ELSE Append(first, part)
    BY Zenon, <1>1, <1>3, <1>6 DEF SplitList
  <1>10. CASE part = <<>>
    <2>1. parts = first
      BY Zenon, <1>9, <1>10
    <2>2. PICK J \in Text : Joined(J, first, map) /\ Follows(s, q, J)
      BY <1>5, <1>6, <2>1 DEF Mirrors
    <2>3. q = Unscanned
      BY Zenon, <1>4, <1>10, ScanAppend
    <2>4. q.resolved = <<>> /\ q.rest = <<>> /\ ~ q.isParam /\ ~ q.failed
      BY <2>3 DEF Unscanned
    <2>5. ~ s.failed /\ ~ s.isParam
      BY <1>8, <2>2, <2>4 DEF Follows, Scans
    <2>6. Joint(s.resolved, s.rest) = J
      <3>1. Joint(s.resolved, s.rest) = Joint(J, Joint(q.resolved, q.rest))
        BY <2>2, <2>4 DEF Follows
      <3>2. <<>> \in Text
        BY DEF Text
      <3>3. Joint(<<>>, <<>>) = <<>> /\ Joint(J, <<>>) = J
        BY <3>2, JointIs
      <3> QED BY Zenon, <2>4, <3>1, <3>3
    <2>7. PICK f : f = FilledParts(first, map)
      OBVIOUS
    <2>8. SplitList(J) = f
      <3>1. CutText(J) = [parts |-> f, part |-> <<>>]
        BY Zenon, <2>2, <2>7 DEF Joined
      <3> QED BY <3>1 DEF SplitList
    <2>9. \A k \in DOMAIN f : Clean(f[k])
      BY <2>2, <2>7 DEF FilledParts, Joined
    <2>10. ListValue(J, text, f, map)
      BY <1>2, <1>8, <2>5, <2>6, <2>8, <2>9, ListValueIs
    <2> QED BY Zenon, <2>1, <2>7, <2>10
  <1>11. CASE part # <<>>
    <2>1. OneMore(parts, first, part)
      BY Zenon, <1>9, <1>11 DEF OneMore
    <2>2. /\ AllResolvable(first, map) /\ IsResolvable(part, map)
          /\ FilledParts(first, map) \in Seq(Text)
          /\ OneMore(FilledParts(parts, map), FilledParts(first, map), Filled(part, map))
      BY <1>7, <2>1, FilledPartsAppend
    <2>3. PICK J \in Text : Joined(J, first, map) /\ Follows(s, q, J)
      BY <1>5, <1>6, <2>2 DEF Mirrors
    <2>4. PICK v : v = Filled(part, map)
      OBVIOUS
    <2>5. PICK g : g = FilledParts(first, map)
      OBVIOUS
    <2>6. PICK f : f = FilledParts(parts, map)
      OBVIOUS
    <2>7. ~ q.failed /\ ~ q.isParam /\ v = Joint(q.resolved, q.rest) /\ v \in Text
      <3>1. ~ q.failed /\ ~ q.isParam
        BY <1>4, <1>7, <2>2, ScanResolves
      <3>2. Filled(part, map) = q.resolved \o q.rest /\ Filled(part, map) \in Text
        BY <1>4, <1>7, <2>2, ScanResolves
      <3> QED BY Zenon, <2>4, <3>1, <3>2 DEF Joint
    <2>8. Clean(v)
      <3>1. CleanScan(q)
        BY <1>5 DEF Mirrors
      <3>2. Clean(Joint(q.resolved, q.rest))
        BY <3>1, CleanJoint DEF CleanScan
      <3> QED BY Zenon, <2>7, <3>2
    <2>9. v # <<>>
      <3>1. /\ parts \in Seq(Text) /\ Len(parts) = Len(first) + 1 /\ Len(first) \in Nat
            /\ parts[Len(parts)] = part
        BY <1>7, <2>1, AppendProperties DEF OneMore
      <3>2. parts # <<>>
        BY <3>1
      <3>3. Last(parts) = part
        BY <3>1 DEF Last
      <3> QED BY Zenon, <2>4, <3>2, <3>3
    <2>10. PICK u : u = Joint(J, v)
      OBVIOUS
    <2>11. u \in Text
      BY <2>7, <2>10, JointIs
    <2>12. SplitList(u) = f
      <3>1. CutText(J) = [parts |-> g, part |-> <<>>]
        BY Zenon, <2>3, <2>5 DEF Joined
      <3>2. g \in Seq(Text)
        BY Zenon, <2>2, <2>5
      <3>3. CutText(u) = [parts |-> g, part |-> v]
        BY <2>8, <2>10, <3>1, <3>2, CutJoint
      <3>4. SplitList(u) = Append(g, v)
        BY <2>9, <3>3 DEF SplitList
      <3>5. f = Append(g, v)
        BY Zenon, <2>2, <2>4, <2>5, <2>6 DEF OneMore
      <3> QED BY Zenon, <3>4, <3>5
    <2>13. ~ s.failed /\ ~ s.isParam
      BY <1>8, <2>3, <2>7 DEF Follows, Scans
    <2>14. Joint(s.resolved, s.rest) = u
      <3>1. Joint(s.resolved, s.rest) = Joint(J, Joint(q.resolved, q.rest))
        BY <2>3, <2>7 DEF Follows
      <3> QED BY Zenon, <2>7, <2>10, <3>1
    <2>15. \A k \in DOMAIN f : Clean(f[k])
      <3>1. /\ Len(parts) = Len(first) + 1 /\ Len(first) \in Nat
            /\ parts[Len(parts)] = part /\ \A k \in 1..Len(first) : parts[k] = first[k]
            /\ DOMAIN first = 1..Len(first) /\ DOMAIN parts = 1..Len(parts)
        BY <1>7, <2>1, AppendProperties DEF OneMore
      <3>2. DOMAIN f = DOMAIN parts /\ \A k \in DOMAIN f : f[k] = Filled(parts[k], map)
        BY <2>6 DEF FilledParts
      <3>3. \A k \in DOMAIN first : Clean(Filled(first[k], map))
        BY <2>3 DEF Joined
      <3>4. ASSUME NEW k \in DOMAIN f PROVE Clean(f[k])
        <4>1. CASE k \in 1..Len(first)
          BY <3>1, <3>2, <3>3, <4>1
        <4>2. CASE k \notin 1..Len(first)
          <5>1. k = Len(parts)
            BY <3>1, <3>2, <4>2
          <5>2. f[k] = v
            BY <2>4, <3>1, <3>2, <5>1
          <5> QED BY Zenon, <2>8, <5>2
        <4> QED BY <4>1, <4>2
      <3> QED BY <3>4
    <2>16. ListValue(u, text, f, map)
      BY <1>2, <1>8, <2>11, <2>12, <2>13, <2>14, <2>15, ListValueIs
    <2> QED BY Zenon, <2>6, <2>16
  <1> QED BY <1>10, <1>11

-----------------------------------------------------------------------------
(* The assertions.                                                         *)

\* The table of docs/tutorial.md, of the values of a list.
MeansOfList(type, list) ==
    LET First == \E k \in 2..Len(list) : list[1] = list[k]
        Two == Len(list) >= 2
        Numbers == Two /\ IsNumber(list[1]) /\ IsNumber(list[2])
    IN  CASE type = "in" -> First
          [] type = "not_in" -> ~ First
          [] type = "eq" -> Two /\ list[1] = list[2]
          [] type = "gt" -> Numbers /\ Number[list[1][1]] > Number[list[2][1]]
          [] type = "ge" -> Numbers /\ Number[list[1][1]] >= Number[list[2][1]]
          [] OTHER -> FALSE

LEMMA ListAssertion ==
    ASSUME NEW assertion, assertion.type \notin {"empty", "not_empty"},
           NEW list, NEW value, ListValue(value, assertion.text, list, params)
    PROVE  AssertionHolds(assertion) <=> MeansOfList(assertion.type, list)
  <1>1. PICK text : text = assertion.text
    OBVIOUS
  <1>2. PICK type : type = assertion.type
    OBVIOUS
  <1>3. PICK v : v = Resolve(text, params)
    OBVIOUS
  <1>4. v.ok /\ v.text = value
    BY <1>1, <1>3 DEF ListValue, Resolved
  <1>5. PICK r : r = ResolveList(v.text, params)
    OBVIOUS
  <1>6. r.ok /\ r.list = list
    BY <1>4, <1>5 DEF ListValue
  <1>7. type # "empty" /\ type # "not_empty"
    BY <1>2
  <1>8. AssertionHolds(assertion) <=>
            CASE type = "in" -> \E k \in 2..Len(list) : list[1] = list[k]
              [] type = "not_in" -> ~ \E k \in 2..Len(list) : list[1] = list[k]
              [] type = "eq" -> Len(list) >= 2 /\ list[1] = list[2]
              [] type = "gt" -> (Len(list) >= 2 /\ IsNumber(list[1]) /\ IsNumber(list[2]))
                                  /\ Number[list[1][1]] > Number[list[2][1]]
              [] type = "ge" -> (Len(list) >= 2 /\ IsNumber(list[1]) /\ IsNumber(list[2]))
                                  /\ Number[list[1][1]] >= Number[list[2][1]]
              [] OTHER -> FALSE
    BY <1>1, <1>2, <1>3, <1>4, <1>5, <1>6, <1>7 DEF AssertionHolds
  <1> QED BY <1>2, <1>8 DEF MeansOfList

LEMMA ListDocumented ==
    ASSUME NEW assertion, assertion.type \notin {"empty", "not_empty"},
           NEW list, list = FilledParts(SplitList(assertion.text), params),
           Len(list) \in Nat, DOMAIN list = 1..Len(list)
    PROVE  Documented(assertion) <=> MeansOfList(assertion.type, list)
  <1>1. PICK type : type = assertion.type
    OBVIOUS
  <1>2. type # "empty" /\ type # "not_empty"
    BY <1>1
  <1>3. PICK Others : Others = {list[k] : k \in DOMAIN list \ {1}}
    OBVIOUS
  <1>4. list[1] \in Others <=> \E k \in 2..Len(list) : list[1] = list[k]
    <2>1. DOMAIN list \ {1} = 2..Len(list)
      OBVIOUS
    <2> QED BY <1>3, <2>1
  <1>5. Documented(assertion) <=>
            CASE type = "in" -> list[1] \in Others
              [] type = "not_in" -> list[1] \notin Others
              [] type = "eq" -> Len(list) >= 2 /\ list[1] = list[2]
              [] type = "gt" -> (Len(list) >= 2 /\ IsNumber(list[1]) /\ IsNumber(list[2]))
                                  /\ Number[list[1][1]] > Number[list[2][1]]
              [] type = "ge" -> (Len(list) >= 2 /\ IsNumber(list[1]) /\ IsNumber(list[2]))
                                  /\ Number[list[1][1]] >= Number[list[2][1]]
              [] OTHER -> FALSE
    BY <1>1, <1>2, <1>3 DEF Documented, FilledParts
  <1> QED BY <1>1, <1>4, <1>5 DEF MeansOfList

\* An assertion that can be read as it is written holds exactly if the table
\* says so of the values in it.
LEMMA AssertionReads ==
    ASSUME IsMap(params), NEW assertion \in PolicyOutputAssertion, IsPlain(assertion)
    PROVE  AssertionHolds(assertion) <=> Documented(assertion)
  <1>1. PICK text : text = assertion.text
    OBVIOUS
  <1>2. text \in Text
    BY <1>1 DEF PolicyOutputAssertion
  <1>3. CASE assertion.type \in {"empty", "not_empty"}
    <2>1. IsResolvable(text, params)
      BY <1>1, <1>3 DEF IsPlain
    <2>2. Resolve(text, params) = Resolved(Filled(text, params))
      BY <1>2, <2>1, ResolveReadsAsWritten
    <2>3. PICK v : v = Resolve(text, params)
      OBVIOUS
    <2>4. v.ok /\ v.text = Filled(text, params)
      BY <2>2, <2>3 DEF Resolved
    <2> QED BY <1>1, <1>3, <2>3, <2>4 DEF AssertionHolds, Documented
  <1>4. CASE assertion.type \notin {"empty", "not_empty"}
    <2>1. PICK parts : parts = SplitList(text)
      OBVIOUS
    <2>2. /\ \A n \in DOMAIN params : ~ Has(params[n], Delimiter \union {Comma})
          /\ parts # <<>> /\ \A k \in DOMAIN parts : IsResolvable(parts[k], params)
          /\ Filled(Last(parts), params) # <<>>
      BY <1>1, <1>4, <2>1 DEF IsPlain
    <2>3. CleanMap(params) /\ AllResolvable(parts, params)
      BY <2>2 DEF CleanMap, Clean, IsMap, AllResolvable
    <2>4. PICK list : list = FilledParts(parts, params)
      OBVIOUS
    <2>5. PICK value : ListValue(value, text, list, params)
      BY <1>2, <2>1, <2>2, <2>3, <2>4, ListReadsAsWritten
    <2>6. Len(list) \in Nat /\ DOMAIN list = 1..Len(list)
      <3>1. PICK r : r = ResolveList(text, params)
        OBVIOUS
      <3>2. r.ok /\ r.list \in Seq(Text) /\ r.list = [k \in DOMAIN parts |-> Filled(parts[k], params)]
        BY <1>2, <2>1, <2>2, <3>1, ResolveListIs
      <3>3. list \in Seq(Text)
        BY <2>4, <3>2 DEF FilledParts
      <3> QED BY <3>3
    <2>7. AssertionHolds(assertion) <=> MeansOfList(assertion.type, list)
      BY <1>1, <1>4, <2>5, ListAssertion
    <2>8. Documented(assertion) <=> MeansOfList(assertion.type, list)
      BY <1>1, <1>4, <2>1, <2>4, <2>6, ListDocumented
    <2> QED BY <2>7, <2>8
  <1> QED BY <1>3, <1>4

\* The outputs that were passed do not hold, the selected one does.
SelectionInv ==
    /\ pc = "outputs" =>
         /\ at \in 1..(Len(policy.outputs) + 1)
         /\ \A i \in DOMAIN policy.outputs : i < at => ~ OutputHolds(policy.outputs[i])
    /\ selected # 0 =>
         /\ OutputHolds(policy.outputs[selected])
         /\ \A i \in DOMAIN policy.outputs : i < selected => ~ OutputHolds(policy.outputs[i])
    /\ pc = "done" /\ AllParamsSet /\ selected = 0 =>
         \A i \in DOMAIN policy.outputs : ~ OutputHolds(policy.outputs[i])

LEMMA SelectionStep == OutputInv /\ SelectionInv /\ [Next]_vars => SelectionInv'
  <1> SUFFICES ASSUME OutputInv, SelectionInv, [Next]_vars PROVE SelectionInv'
    OBVIOUS
  <1>1. DOMAIN policy.outputs = 1..Len(policy.outputs) /\ Len(policy.outputs) \in Nat
    BY PolicyIs DEF OutputInv
  <1>2. ASSUME policy' = policy, params' = params
        PROVE  \A output : OutputHolds(output)' = OutputHolds(output)
    BY <1>2 DEF OutputHolds, AssertionHolds
  <1>3. ASSUME NEW o, SetParam(o) PROVE SelectionInv'
    BY <1>3 DEF SetParam, OutputInv, SelectionInv
  <1>4. CASE RequiredParamFails
    <2>1. /\ at = Len(history) + 1 /\ at \in DOMAIN policy.params /\ selected = 0
          /\ UNCHANGED <<policy, params, history, selected>> /\ pc' = "done"
      BY <1>4 DEF RequiredParamFails, OutputInv
    <2>2. ~ AllParamsSet'
      <3>1. DOMAIN policy.params = 1..Len(policy.params) /\ Len(policy.params) \in Nat
        BY PolicyIs DEF OutputInv
      <3>2. Len(history) \in Nat
        BY DEF OutputInv
      <3> QED BY <2>1, <3>1, <3>2 DEF AllParamsSet
    <2> QED BY <2>1, <2>2 DEF SelectionInv
  <1>5. CASE EndParams
    <2>1. pc' = "outputs" /\ at' = 1 /\ selected' = 0 /\ policy' = policy
      BY <1>5 DEF EndParams, OutputInv
    <2> QED BY <1>1, <2>1 DEF SelectionInv
  <1>6. CASE SelectOutput
    <2>1. /\ pc = "outputs" /\ at \in DOMAIN policy.outputs
          /\ OutputHolds(policy.outputs[at]) /\ selected' = at /\ pc' = "fill"
          /\ policy' = policy /\ params' = params
      BY <1>6 DEF SelectOutput
    <2>2. \A i \in DOMAIN policy.outputs : i < at => ~ OutputHolds(policy.outputs[i])
      BY <2>1 DEF SelectionInv
    <2>3. at # 0
      BY <1>1, <2>1
    <2> QED BY <1>2, <2>1, <2>2, <2>3 DEF SelectionInv
  <1>7. CASE SkipOutput
    <2>1. /\ pc = "outputs" /\ at \in DOMAIN policy.outputs
          /\ ~ OutputHolds(policy.outputs[at]) /\ at' = at + 1
          /\ UNCHANGED <<policy, params, pc, selected>> /\ selected = 0
      BY <1>7 DEF SkipOutput, OutputInv
    <2>2. \A i \in DOMAIN policy.outputs : i < at + 1 => ~ OutputHolds(policy.outputs[i])
      <3>1. \A i \in DOMAIN policy.outputs : i < at + 1 => i < at \/ i = at
        BY <1>1, <2>1
      <3> QED BY <2>1, <3>1 DEF SelectionInv
    <2>3. at + 1 \in 1..(Len(policy.outputs) + 1)
      BY <1>1, <2>1
    <2> QED BY <1>2, <2>1, <2>2, <2>3 DEF SelectionInv
  <1>8. CASE NoOutput
    <2>1. /\ pc = "outputs" /\ at \notin DOMAIN policy.outputs /\ pc' = "done"
          /\ UNCHANGED <<policy, params, selected>> /\ selected = 0
      BY <1>8 DEF NoOutput, OutputInv
    <2>2. \A i \in DOMAIN policy.outputs : i < at
      BY <1>1, <2>1 DEF SelectionInv
    <2> QED BY <1>2, <2>1, <2>2 DEF SelectionInv
  <1>9. ASSUME \/ \E choice : FillOutput(choice)
               \/ FillFails
        PROVE  SelectionInv'
    <2>1. pc = "fill" /\ pc' = "done" /\ UNCHANGED <<policy, params, selected>>
      BY <1>9 DEF FillOutput, FillFails
    <2>2. selected # 0
      BY <1>1, <2>1 DEF OutputInv
    <2> QED BY <1>2, <2>1, <2>2 DEF SelectionInv
  <1>10. CASE UNCHANGED vars
    BY <1>2, <1>10 DEF vars, SelectionInv, AllParamsSet
  <1> QED BY <1>3, <1>4, <1>5, <1>6, <1>7, <1>8, <1>9, <1>10 DEF Next

\* AssertionsReadAsWritten of PolicyOutput: the selected output is the first
\* whose assertions hold as they are written, and none is selected only if
\* none holds.
THEOREM AssertionsAsWritten == Spec => []AssertionsReadAsWritten
  <1>1. Init => SelectionInv
    BY DEF Init, SelectionInv
  <1>2. OutputInv /\ SelectionInv => AssertionsReadAsWritten
    <2> SUFFICES ASSUME OutputInv, SelectionInv, AllParamsSet, pc # "params",
                        NEW i \in DOMAIN policy.outputs,
                        NEW assertions, assertions = policy.outputs[i].assertions,
                        \A k \in DOMAIN assertions : IsPlain(assertions[k])
                 PROVE  /\ i = selected =>
                                \A k \in DOMAIN assertions : Documented(assertions[k])
                        /\ (i < selected \/ (pc = "done" /\ selected = 0)) =>
                                ~ \A k \in DOMAIN assertions : Documented(assertions[k])
      BY DEF AssertionsReadAsWritten
    <2>1. assertions \in Seq(PolicyOutputAssertion)
      <3>1. policy.outputs \in Seq(OutputOfPolicy)
        BY PolicyIs DEF OutputInv
      <3>2. policy.outputs[i] \in OutputOfPolicy
        BY <3>1
      <3> QED BY <3>2 DEF OutputOfPolicy
    <2>2. ASSUME NEW k \in DOMAIN assertions
          PROVE  AssertionHolds(assertions[k]) <=> Documented(assertions[k])
      <3>1. PICK a : a = assertions[k]
        OBVIOUS
      <3>2. a \in PolicyOutputAssertion
        BY <2>1, <3>1
      <3>3. IsPlain(a)
        BY Zenon, <3>1
      <3>4. AssertionHolds(a) <=> Documented(a)
        BY <3>2, <3>3, AssertionReads DEF OutputInv
      <3> QED BY Zenon, <3>1, <3>4
    <2>3. OutputHolds(policy.outputs[i]) <=>
                \A k \in DOMAIN assertions : Documented(assertions[k])
      BY <2>2 DEF OutputHolds
    <2>4. i = selected => OutputHolds(policy.outputs[i])
      <3>1. i # 0
        <4>1. DOMAIN policy.outputs = 1..Len(policy.outputs) /\ Len(policy.outputs) \in Nat
          BY PolicyIs DEF OutputInv
        <4> QED BY <4>1
      <3> QED BY <3>1 DEF SelectionInv
    <2>5. i < selected => ~ OutputHolds(policy.outputs[i])
      <3>1. i < selected => selected # 0
        <4>1. DOMAIN policy.outputs = 1..Len(policy.outputs) /\ Len(policy.outputs) \in Nat
          BY PolicyIs DEF OutputInv
        <4> QED BY <4>1
      <3> QED BY <3>1 DEF SelectionInv
    <2>6. pc = "done" /\ selected = 0 => ~ OutputHolds(policy.outputs[i])
      BY DEF SelectionInv
    <2> QED BY <2>3, <2>4, <2>5, <2>6
  <1> QED BY <1>1, <1>2, SelectionStep, OutputInvariance, PTL DEF Spec
=============================================================================
