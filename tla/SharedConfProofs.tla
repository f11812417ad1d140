-------------------------- MODULE SharedConfProofs --------------------------
(***************************************************************************)
(* Proofs about SharedConf, for any number of requests and loads, and any  *)
(* interleaving of copies and resets word by word: as long as no freed     *)
(* memory has been touched, a map is freed exactly with its last           *)
(* reference, and a copy that no reset has overlapped outlives every later *)
(* reload.                                                                 *)
(***************************************************************************)
EXTENDS SharedConf, FiniteSetTheorems, TLAPS

\* Where the reset is, and which load each word of the member is of.
Resets ==
    /\ loads \in Load
    /\ member \in [Word -> Load]
    /\ reloadPc \in {"idle", "swap", "release"}
    /\ swapped \subseteq Word
    /\ reloadPc = "idle" => swapped = {} /\ \A w \in Word : member[w] = loads
    /\ reloadPc = "swap" =>
          /\ swapped # Word
          /\ \A w \in Word : member[w] = IF w \in swapped THEN loads ELSE loads - 1
    /\ reloadPc = "release" => swapped = Word /\ \A w \in Word : member[w] = loads
    /\ reloadPc # "idle" => loads - 1 \in Load

\* What the requests have read.
Copies ==
    /\ pc \in [Request -> {"idle", "copy", "use"}]
    /\ copy \in [Request -> [Word -> Load \union {Unread}]]
    /\ overlapped \in [Request -> BOOLEAN]
    /\ \A r \in Request : \A w \in Word : copy[r][w] <= loads
    /\ \A r \in Request : pc[r] = "use" => copy[r]["block"] # Unread
    /\ \A r \in Request : pc[r] = "idle" => copy[r] = NoCopy

\* A request whose copying no reset has overlapped.
Consistent ==
    \A r \in Request : ~ overlapped[r] =>
        /\ pc[r] = "copy" =>
             reloadPc = "idle" /\ \A w \in Word : copy[r][w] \in {Unread, loads}
        /\ pc[r] = "use" => copy[r]["map"] = copy[r]["block"]

Shape == Resets /\ Copies /\ Consistent /\ fault \in BOOLEAN

LEMMA LoadIsNat == Load \subseteq Nat /\ Unread \notin Load /\ 1 \in Load
  BY LoadsAssumption DEF Load, Unread

LEMMA ShapeInit == Init => Shape
  <1> SUFFICES ASSUME Init PROVE Shape
    OBVIOUS
  <1>1. Resets
    BY LoadIsNat DEF Init, Resets
  <1>2. Copies
    BY LoadIsNat DEF Init, Copies, NoCopy, Unread
  <1>3. Consistent
    BY DEF Init, Consistent
  <1> QED BY <1>1, <1>2, <1>3 DEF Init, Shape

LEMMA ShapeReset ==
    ASSUME Shape, Reload \/ (\E w \in Word : SwapWord(w)) \/ ReleaseOld
    PROVE  Shape'
  <1> USE LoadsAssumption DEF Load, Unread
  <1>1. CASE Reload
    <2>1. Resets'
      BY <1>1 DEF Reload, Shape, Resets, Word
    <2>2. Copies'
      BY <1>1 DEF Reload, Shape, Resets, Copies, NoCopy
    <2>3. Consistent'
      BY <1>1 DEF Reload, Shape, Copies, Consistent
    <2> QED BY <1>1, <2>1, <2>2, <2>3 DEF Reload, Shape
  <1>2. ASSUME NEW w \in Word, SwapWord(w) PROVE Shape'
    <2>1. Resets'
      BY <1>2 DEF SwapWord, Shape, Resets
    <2>2. Copies' /\ Consistent'
      BY <1>2 DEF SwapWord, requests, Shape, Copies, Consistent, NoCopy
    <2> QED BY <1>2, <2>1, <2>2 DEF SwapWord, Shape
  <1>3. CASE ReleaseOld
    BY <1>3 DEF ReleaseOld, requests, Shape, Resets, Copies, Consistent, NoCopy
  <1> QED BY <1>1, <1>2, <1>3

LEMMA ShapeServe ==
    ASSUME Shape, NEW r \in Request, Serve(r)
    PROVE  Shape'
  <1> USE LoadsAssumption DEF Load, Unread
  <1>1. Resets'
    BY DEF Serve, BeginCopy, ReadWord, AddReference, Use, EndUse, reloader,
           Shape, Resets
  <1>2. CASE BeginCopy(r)
    <2>1. /\ pc[r] = "idle" /\ pc' = [pc EXCEPT ![r] = "copy"]
          /\ overlapped' = [overlapped EXCEPT ![r] = reloadPc # "idle"]
          /\ UNCHANGED <<member, loads, reloadPc, swapped, copy, fault>>
      BY <1>2 DEF BeginCopy, reloader
    <2>2. \A w \in Word : copy[r][w] = Unread
      BY <2>1 DEF Shape, Copies, NoCopy
    <2>3. Copies'
      BY <2>1 DEF Shape, Copies, NoCopy
    <2>4. Consistent'
      BY <2>1, <2>2 DEF Shape, Copies, Consistent
    <2> QED BY <1>1, <2>1, <2>3, <2>4 DEF Shape
  <1>3. ASSUME NEW w \in Word, ReadWord(r, w) PROVE Shape'
    <2>1. /\ copy' = [copy EXCEPT ![r][w] = member[w]] /\ pc[r] = "copy"
          /\ UNCHANGED <<member, loads, reloadPc, swapped, pc, overlapped, fault>>
      BY <1>3 DEF ReadWord, reloader
    <2>2. member[w] \in Load /\ member[w] <= loads
      BY DEF Shape, Resets
    <2>3. Copies'
      BY <2>1, <2>2 DEF Shape, Copies, NoCopy
    <2>4. Consistent'
      BY <2>1 DEF Shape, Resets, Copies, Consistent
    <2> QED BY <1>1, <2>1, <2>3, <2>4 DEF Shape
  <1>4. CASE AddReference(r)
    <2>1. /\ copy[r]["map"] # Unread /\ copy[r]["block"] # Unread
          /\ pc' = [pc EXCEPT ![r] = "use"] /\ pc[r] = "copy" /\ fault' \in BOOLEAN
          /\ UNCHANGED <<member, loads, reloadPc, swapped, copy, overlapped>>
      BY <1>4 DEF AddReference, reloader, Word
    <2>2. Copies'
      BY <2>1 DEF Shape, Copies, NoCopy
    <2>3. Consistent'
      BY <2>1 DEF Shape, Copies, Consistent, Word
    <2> QED BY <1>1, <2>1, <2>2, <2>3 DEF Shape
  <1>5. CASE Use(r)
    BY <1>1, <1>5 DEF Use, requests, reloader, Shape, Copies, Consistent, NoCopy
  <1>6. CASE EndUse(r)
    <2>1. Copies' /\ Consistent'
      BY <1>6 DEF EndUse, reloader, Shape, Resets, Copies, Consistent, NoCopy
    <2> QED BY <1>1, <1>6, <2>1 DEF EndUse, Shape
  <1> QED BY <1>2, <1>3, <1>4, <1>5, <1>6 DEF Serve

\* Every word of the pointer and of the copies is of the load it should be.
THEOREM ShapeInvariance == Spec => []Shape
  <1>1. ASSUME Shape, [Next]_vars PROVE Shape'
    <2>1. CASE UNCHANGED vars
      BY <1>1, <2>1 DEF vars, reloader, requests, Shape, Resets, Copies,
                        Consistent, NoCopy
    <2> QED BY <1>1, <2>1, ShapeReset, ShapeServe DEF Next
  <1> QED BY ShapeInit, <1>1, PTL DEF Spec
-----------------------------------------------------------------------------
(* The counts.                                                             *)

Counted(g) ==
    /\ count[g] = Cardinality(Holders(g))
    /\ g \in freed <=> Holders(g) = {}

Counts ==
    /\ DOMAIN count = Load
    /\ freed \subseteq 1..loads
    /\ ~ fault => \A g \in 1..loads : Counted(g)

Everyone == Request \union {"member", "temporary"}

LEMMA HoldersAreFinite ==
    ASSUME NEW g
    PROVE  Holders(g) \subseteq Everyone /\ IsFiniteSet(Holders(g))
  <1>1. Holders(g) \subseteq Everyone
    BY DEF Holders, Everyone
  <1>2. IsFiniteSet(Request \union {"member"} \union {"temporary"})
    BY RequestAssumption, FS_AddElement
  <1>3. Everyone = Request \union {"member"} \union {"temporary"}
    BY DEF Everyone
  <1> QED BY <1>1, <1>2, <1>3, FS_Subset

\* Nothing about load g has changed.
LEMMA SameHolders ==
    ASSUME NEW g \in 1..loads, Counted(g), Holders(g)' = Holders(g),
           count'[g] = count[g], g \in freed' <=> g \in freed
    PROVE  Counted(g)'
  BY DEF Counted

\* A reference is dropped: one holder less, and the map freed with the last.
LEMMA DropCounts ==
    ASSUME NEW g \in Load, Counted(g), Drop(g), DOMAIN count = Load,
           NEW x \in Holders(g), Holders(g)' = Holders(g) \ {x}
    PROVE  Counted(g)'
  <1>1. IsFiniteSet(Holders(g)) /\ Cardinality(Holders(g)) \in Nat
    BY HoldersAreFinite, FS_CardinalityType
  <1>2. IsFiniteSet(Holders(g) \ {x})
        /\ Cardinality(Holders(g) \ {x}) = Cardinality(Holders(g)) - 1
    BY <1>1, FS_RemoveElement
  <1>3. count'[g] = count[g] - 1
    BY DEF Drop
  <1>4. Holders(g) \ {x} = {} <=> Cardinality(Holders(g)) = 1
    BY <1>1, <1>2, FS_EmptySet
  <1>5. g \notin freed
    BY DEF Counted
  <1>6. g \in freed' <=> count[g] = 1
    BY <1>5 DEF Drop
  <1> QED BY <1>2, <1>3, <1>4, <1>6 DEF Counted

LEMMA CountsInit == Init => Counts
  <1> SUFFICES ASSUME Init PROVE Counts
    OBVIOUS
  <1>1. Holders(1) = {"member"}
    BY DEF Init, Holders, Word
  <1>2. Cardinality({"member"}) = 1
    BY FS_Singleton
  <1>3. DOMAIN count = Load /\ count[1] = 1 /\ freed = {} /\ 1..loads = {1}
    BY LoadIsNat DEF Init, Load
  <1>4. Counted(1)
    BY <1>1, <1>2, <1>3 DEF Counted
  <1> QED BY <1>3, <1>4 DEF Counts

LEMMA CountsReload ==
    ASSUME Shape, Counts, Reload
    PROVE  Counts'
  <1> USE LoadsAssumption DEF Load
  <1>1. /\ loads \in 1..MaxLoads /\ loads < MaxLoads /\ loads' = loads + 1
        /\ reloadPc = "idle" /\ reloadPc' = "swap" /\ swapped = {} /\ swapped' = {}
        /\ count' = [count EXCEPT ![loads + 1] = 1] /\ ~ fault
        /\ UNCHANGED <<member, freed, pc, copy, fault>>
    BY DEF Reload, Shape, Resets
  <1>2. ASSUME NEW g \in 1..loads PROVE Counted(g)'
    <2>1. Holders(g)' = Holders(g)
      BY <1>1 DEF Holders
    <2> QED BY <1>1, <2>1, SameHolders DEF Counts
  <1>3. PICK new \in Load : new = loads + 1
    BY <1>1
  <1>4. Counted(new)'
    <2>1. member["block"] = loads
      BY <1>1 DEF Shape, Resets, Word
    <2>2. \A r \in Request : copy[r]["block"] # new
      BY <1>1, <1>3 DEF Shape, Copies, Word, Unread
    <2>3. Holders(new)' = {"temporary"}
      BY <1>1, <1>3, <2>1, <2>2 DEF Holders
    <2>4. Cardinality({"temporary"}) = 1
      BY FS_Singleton
    <2>5. new \notin freed'
      BY <1>1, <1>3 DEF Counts
    <2>6. count'[new] = 1
      BY <1>1, <1>3 DEF Counts
    <2> QED BY <2>3, <2>4, <2>5, <2>6 DEF Counted
  <1>5. \A g \in 1..loads' : g \in 1..loads \/ g = new
    BY <1>1, <1>3
  <1>6. DOMAIN count' = Load /\ freed' \subseteq 1..loads'
    BY <1>1 DEF Counts
  <1> QED BY <1>2, <1>4, <1>5, <1>6 DEF Counts

\* Swapping the blocks, the member and the temporary change roles.
LEMMA CountsSwap ==
    ASSUME Shape, Counts, NEW w \in Word, SwapWord(w)
    PROVE  Counts'
  <1>1. /\ reloadPc = "swap" /\ w \notin swapped /\ swapped' = swapped \union {w}
        /\ member' = [member EXCEPT ![w] = loads] /\ ~ fault
        /\ reloadPc' = IF swapped' = Word THEN "release" ELSE "swap"
        /\ UNCHANGED <<loads, count, freed, pc, copy, fault>>
    BY DEF SwapWord, requests
  <1>2. /\ loads \in Nat /\ loads - 1 # loads
        /\ "block" \in swapped => member["block"] = loads
        /\ "block" \notin swapped => member["block"] = loads - 1
        /\ member \in [Word -> Load]
    BY <1>1, LoadIsNat DEF Shape, Resets, Word
  <1>3. ASSUME NEW g \in 1..loads PROVE Counted(g)'
    <2>1. CASE w = "map"
      <3>1. /\ member'["block"] = member["block"]
            /\ "block" \in swapped' <=> "block" \in swapped
            /\ "block" \notin swapped => reloadPc' = "swap"
            /\ reloadPc' # "idle"
        BY <1>1, <1>2, <2>1 DEF Word
      <3>2. Holders(g)' = Holders(g)
        BY <1>1, <3>1 DEF Holders
      <3> QED BY <1>1, <3>2, SameHolders DEF Counts
    <2>2. CASE w = "block"
      <3>1. /\ member'["block"] = loads /\ member["block"] = loads - 1
            /\ "block" \in swapped' /\ "block" \notin swapped /\ reloadPc' # "idle"
        BY <1>1, <1>2, <2>2
      <3> DEFINE U == {r \in Request : pc[r] = "use" /\ copy[r]["block"] = g}
      <3>2. "member" \notin U /\ "temporary" \notin U /\ IsFiniteSet(U)
        BY RequestAssumption, FS_Subset
      <3>3. Cardinality(U \union {"member"}) = Cardinality(U \union {"temporary"})
        BY <3>2, FS_AddElement
      <3>4. /\ g = loads => /\ Holders(g) = U \union {"temporary"}
                            /\ Holders(g)' = U \union {"member"}
            /\ g = loads - 1 => /\ Holders(g) = U \union {"member"}
                                /\ Holders(g)' = U \union {"temporary"}
            /\ g \notin {loads, loads - 1} => Holders(g)' = Holders(g)
        BY <1>1, <1>2, <3>1 DEF Holders
      <3>5. Cardinality(Holders(g)') = Cardinality(Holders(g))
            /\ (Holders(g)' = {} <=> Holders(g) = {})
        BY <3>3, <3>4
      <3> QED BY <1>1, <3>5 DEF Counts, Counted
    <2> QED BY <2>1, <2>2 DEF Word
  <1> QED BY <1>1, <1>3 DEF Counts

LEMMA CountsRelease ==
    ASSUME Shape, Counts, ReleaseOld
    PROVE  Counts'
  <1> DEFINE old == loads - 1
  <1>1. /\ reloadPc = "release" /\ reloadPc' = "idle" /\ swapped = Word /\ swapped' = {}
        /\ member["block"] = loads /\ old \in Load /\ loads \in Nat /\ ~ fault
        /\ old \in 1..loads /\ old # loads
        /\ Drop(old) /\ UNCHANGED <<member, loads, pc, copy, fault>>
    BY LoadsAssumption DEF ReleaseOld, requests, Shape, Resets, Word, Load
  <1>2. "temporary" \in Holders(old) /\ Holders(old)' = Holders(old) \ {"temporary"}
    BY <1>1, RequestAssumption DEF Holders, Word
  <1>3. Counted(old)'
    BY <1>1, <1>2, DropCounts DEF Counts
  <1>4. ASSUME NEW g \in 1..loads, g # old PROVE Counted(g)'
    <2>1. Holders(g)' = Holders(g)
      BY <1>1, <1>4 DEF Holders
    <2>2. count'[g] = count[g] /\ (g \in freed' <=> g \in freed)
      BY <1>1, <1>4 DEF Drop, Counts, Load
    <2> QED BY <1>1, <2>1, <2>2, SameHolders DEF Counts
  <1>5. DOMAIN count' = Load /\ freed' \subseteq 1..loads
    BY <1>1 DEF Drop, Counts
  <1> QED BY <1>1, <1>3, <1>4, <1>5 DEF Counts

LEMMA CountsServe ==
    ASSUME Shape, Counts, NEW r \in Request, Serve(r)
    PROVE  Counts'
  <1>1. CASE BeginCopy(r) \/ (\E w \in Word : ReadWord(r, w)) \/ Use(r)
    <2>1. UNCHANGED <<member, loads, reloadPc, swapped, count, freed>>
          /\ (fault \/ fault' \/ fault' = fault)
      BY <1>1 DEF BeginCopy, ReadWord, Use, reloader
    <2>2. CASE ~ fault'
      <3>1. ASSUME NEW q \in Request
            PROVE  (pc'[q] = "use" <=> pc[q] = "use") /\ (pc[q] = "use" => copy'[q] = copy[q])
        BY <1>1, <2>2 DEF BeginCopy, ReadWord, Use, Shape, Copies
      <3>2. ASSUME NEW g PROVE Holders(g)' = Holders(g)
        BY <2>1, <3>1 DEF Holders
      <3>3. ~ fault
        BY <1>1 DEF BeginCopy, ReadWord, Use
      <3> QED BY <2>1, <3>2, <3>3, SameHolders DEF Counts
    <2> QED BY <2>1, <2>2 DEF Counts
  <1>2. CASE AddReference(r)
    <2>1. PICK b : b = copy[r]["block"]
      OBVIOUS
    <2>2. /\ b \in 1..loads /\ b \in Load /\ pc[r] = "copy" /\ ~ fault
          /\ pc' = [pc EXCEPT ![r] = "use"] /\ count' = [count EXCEPT ![b] = @ + 1]
          /\ fault' = (b \in freed)
          /\ UNCHANGED <<member, loads, reloadPc, swapped, freed, copy>>
      BY <1>2, <2>1 DEF AddReference, reloader, Shape, Resets, Copies, Word, Load, Unread
    <2>3. r \notin Holders(b) /\ Holders(b)' = Holders(b) \union {r}
      BY <2>1, <2>2, RequestAssumption DEF Holders, Shape, Copies
    <2>4. ASSUME ~ fault' PROVE Counted(b)'
      <3>1. Cardinality(Holders(b) \union {r}) = Cardinality(Holders(b)) + 1
        BY <2>3, HoldersAreFinite, FS_AddElement
      <3>2. b \notin freed' /\ count'[b] = count[b] + 1
        BY <2>2, <2>4 DEF Counts
      <3> QED BY <2>2, <2>3, <3>1, <3>2 DEF Counts, Counted
    <2>5. ASSUME NEW g \in 1..loads, g # b PROVE Counted(g)'
      <3>1. Holders(g)' = Holders(g)
        BY <2>1, <2>2, <2>5 DEF Holders, Shape, Copies
      <3>2. count'[g] = count[g] /\ freed' = freed
        BY <2>2, <2>5 DEF Counts, Load
      <3> QED BY <2>2, <3>1, <3>2, SameHolders DEF Counts
    <2> QED BY <2>2, <2>4, <2>5 DEF Counts
  <1>3. CASE EndUse(r)
    <2>1. PICK b : b = copy[r]["block"]
      OBVIOUS
    <2>2. /\ b \in 1..loads /\ b \in Load /\ pc[r] = "use" /\ ~ fault
          /\ pc' = [pc EXCEPT ![r] = "idle"] /\ copy' = [copy EXCEPT ![r] = NoCopy]
          /\ Drop(b) /\ UNCHANGED <<member, loads, reloadPc, swapped, fault>>
      BY <1>3, <2>1 DEF EndUse, reloader, Shape, Resets, Copies, Word, Load, Unread
    <2>3. r \in Holders(b) /\ Holders(b)' = Holders(b) \ {r}
      BY <2>1, <2>2, RequestAssumption DEF Holders, Shape, Copies
    <2>4. Counted(b)'
      BY <2>2, <2>3, DropCounts DEF Counts
    <2>5. ASSUME NEW g \in 1..loads, g # b PROVE Counted(g)'
      <3>1. Holders(g)' = Holders(g)
        BY <2>1, <2>2, <2>5 DEF Holders, Shape, Copies
      <3>2. count'[g] = count[g] /\ (g \in freed' <=> g \in freed)
        BY <2>2, <2>5 DEF Drop, Counts, Load
      <3> QED BY <2>2, <3>1, <3>2, SameHolders DEF Counts
    <2>6. DOMAIN count' = Load /\ freed' \subseteq 1..loads
      BY <2>2 DEF Drop, Counts
    <2> QED BY <2>2, <2>4, <2>5, <2>6 DEF Counts
  <1> QED BY <1>1, <1>2, <1>3 DEF Serve

\* While no freed memory has been touched, every count is that of the holders.
THEOREM CountsInvariance == Spec => [](Shape /\ Counts)
  <1>1. ASSUME Shape, Counts, [Next]_vars PROVE Counts'
    <2>1. CASE UNCHANGED vars
      <3>1. ASSUME NEW g PROVE Holders(g)' = Holders(g)
        BY <2>1 DEF vars, reloader, requests, Holders
      <3>2. UNCHANGED <<count, freed, loads, fault>>
        BY <2>1 DEF vars, reloader
      <3> QED BY <1>1, <3>1, <3>2, SameHolders DEF Counts
    <2> QED
      BY <1>1, <2>1, CountsReload, CountsSwap, CountsRelease, CountsServe DEF Next
  <1> QED BY CountsInit, ShapeInvariance, <1>1, PTL DEF Spec

\* However copies and resets interleave, as long as no freed memory has been
\* touched, the counts are right and a map is freed with its last reference.
THEOREM FreedWithLast == Spec => []FreedWithLastReference
  <1>1. Counts => FreedWithLastReference
    BY DEF Counts, Counted, FreedWithLastReference
  <1> QED BY <1>1, CountsInvariance, PTL

\* A copy that no reset has overlapped keeps one map, which no reload frees
\* while the copy is in use.
THEOREM CopyOutlives == Spec => []CopyOutlivesReload
  <1>1. Shape /\ Counts => CopyOutlivesReload
    <2> SUFFICES ASSUME Shape, Counts, NEW r \in Request,
                        ~ fault, pc[r] = "use", ~ overlapped[r]
                 PROVE  /\ copy[r]["map"] = copy[r]["block"]
                        /\ copy[r]["map"] \notin freed
      BY DEF CopyOutlivesReload
    <2>1. copy[r]["map"] = copy[r]["block"]
      BY DEF Shape, Consistent
    <2>2. copy[r]["block"] \in 1..loads
      BY DEF Shape, Resets, Copies, Word, Load, Unread
    <2>3. r \in Holders(copy[r]["block"])
      BY DEF Holders
    <2> QED BY <2>1, <2>2, <2>3 DEF Counts, Counted
  <1> QED BY <1>1, CountsInvariance, PTL
-----------------------------------------------------------------------------
(* No more references than holders there can be.                           *)
Most == Cardinality(Request) + 2

LEMMA AtMost ==
    ASSUME NEW S \in SUBSET Everyone
    PROVE  IsFiniteSet(S) /\ Cardinality(S) \in 0..Most /\ Most \in Nat
  <1>1. /\ IsFiniteSet(Request \union {"member"})
        /\ Cardinality(Request \union {"member"}) = Cardinality(Request) + 1
    BY RequestAssumption, FS_AddElement
  <1>2. /\ IsFiniteSet((Request \union {"member"}) \union {"temporary"})
        /\ Cardinality((Request \union {"member"}) \union {"temporary"})
             = Cardinality(Request \union {"member"}) + 1
    BY <1>1, RequestAssumption, FS_AddElement
  <1>3. Everyone = (Request \union {"member"}) \union {"temporary"}
    BY DEF Everyone
  <1>4. IsFiniteSet(S) /\ Cardinality(S) <= Cardinality(Everyone)
    BY <1>2, <1>3, FS_Subset
  <1>5. Cardinality(S) \in Nat /\ Cardinality(Request) \in Nat
    BY <1>4, RequestAssumption, FS_CardinalityType
  <1>6. Cardinality(Everyone) = Cardinality(Request) + 1 + 1
    BY <1>1, <1>2, <1>3
  <1> QED BY <1>4, <1>5, <1>6 DEF Most

LEMMA DropInRange ==
    ASSUME NEW g \in Load, Counted(g), Drop(g), count \in [Load -> 0..Most],
           NEW x \in Holders(g)
    PROVE  count' \in [Load -> 0..Most]
  <1>1. /\ IsFiniteSet(Holders(g)) /\ Cardinality(Holders(g)) \in 0..Most
        /\ Cardinality(Holders(g)) # 0 /\ Most \in Nat
    BY HoldersAreFinite, AtMost, FS_EmptySet
  <1>2. count' = [count EXCEPT ![g] = @ - 1] /\ count[g] \in 1..Most
    BY <1>1 DEF Drop, Counted
  <1> QED BY <1>1, <1>2

LEMMA CountTypes ==
    ASSUME Shape, Counts, count \in [Load -> 0..Most], [Next]_vars
    PROVE  count' \in [Load -> 0..Most]
  <1>1. Most \in Nat /\ 1 \in 0..Most
    <2>1. {} \in SUBSET Everyone
      OBVIOUS
    <2>2. Cardinality(Request) \in Nat
      BY RequestAssumption, FS_CardinalityType
    <2> QED BY <2>2 DEF Most
  <1>2. CASE Reload
    BY <1>1, <1>2, LoadsAssumption DEF Reload, Shape, Resets, Load
  <1>3. CASE ReleaseOld
    <2>1. PICK old : old = loads - 1
      OBVIOUS
    <2>2. /\ old \in 1..loads /\ old \in Load /\ Drop(old) /\ ~ fault
          /\ "temporary" \in Holders(old)
      BY <1>3, <2>1, LoadsAssumption
      DEF ReleaseOld, Shape, Resets, Holders, Load, Word
    <2> QED BY <2>2, DropInRange DEF Counts
  <1>4. ASSUME NEW r \in Request, AddReference(r) PROVE count' \in [Load -> 0..Most]
    <2>1. PICK b : b = copy[r]["block"]
      OBVIOUS
    <2>2. /\ b \in 1..loads /\ b \in Load /\ ~ fault /\ r \notin Holders(b)
          /\ count' = [count EXCEPT ![b] = @ + 1]
      BY <1>4, <2>1, RequestAssumption
      DEF AddReference, Shape, Resets, Copies, Word, Load, Unread, Holders
    <2>3. Cardinality(Holders(b) \union {r}) = Cardinality(Holders(b)) + 1
      BY <2>2, HoldersAreFinite, FS_AddElement
    <2>4. Cardinality(Holders(b) \union {r}) \in 0..Most
      BY HoldersAreFinite, AtMost DEF Everyone
    <2>5. count[b] + 1 \in 0..Most
      BY <2>2, <2>3, <2>4 DEF Counts, Counted
    <2> QED BY <2>2, <2>5
  <1>5. ASSUME NEW r \in Request, EndUse(r) PROVE count' \in [Load -> 0..Most]
    <2>1. PICK b : b = copy[r]["block"]
      OBVIOUS
    <2>2. /\ b \in 1..loads /\ b \in Load /\ ~ fault /\ r \in Holders(b) /\ Drop(b)
      BY <1>5, <2>1
      DEF EndUse, Shape, Resets, Copies, Word, Load, Unread, Holders
    <2> QED BY <2>2, DropInRange DEF Counts
  <1>6. CASE UNCHANGED count
    BY <1>6
  <1> QED
    BY <1>2, <1>3, <1>4, <1>5, <1>6
    DEF Next, Serve, SwapWord, BeginCopy, ReadWord, Use, vars, reloader

\* Type correctness.
THEOREM TypeCorrect == Spec => []TypeOK
  <1>1. Init => count \in [Load -> 0..Most]
    <2>1. Cardinality(Request) \in Nat
      BY RequestAssumption, FS_CardinalityType
    <2> QED BY <2>1 DEF Init, Load, Most
  <1>2. Shape /\ Counts /\ count \in [Load -> 0..Most] => TypeOK
    <2> SUFFICES ASSUME Shape, Counts, count \in [Load -> 0..Most] PROVE TypeOK
      OBVIOUS
    <2>1. freed \subseteq Load
      BY LoadsAssumption DEF Shape, Resets, Counts, Load
    <2> QED BY <2>1 DEF Shape, Resets, Copies, Most, TypeOK
  <1>3. /\ Shape /\ Counts /\ count \in [Load -> 0..Most] /\ [Next]_vars
        => (count \in [Load -> 0..Most])'
    BY CountTypes DEF Load, Most
  <1> QED BY <1>1, <1>2, <1>3, CountsInvariance, PTL DEF Spec
=============================================================================
