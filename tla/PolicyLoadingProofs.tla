------------------------ MODULE PolicyLoadingProofs -------------------------
(***************************************************************************)
(* Proofs about PolicyLoading, for any documents, any number of edits and  *)
(* any set of addresses, whatever loads fail or skip domains.              *)
(*                                                                         *)
(*   LoadInv   a load has read the edit polled or a later one, and when it *)
(*             has read the last, the domain files as they were then or    *)
(*             later                                                       *)
(*   HeapInv   what the dict in use and the one being built reach is       *)
(*             allocated, and they share nothing                           *)
(*   OwnerInv  nothing else is allocated, while no document has repeated a *)
(*             name                                                        *)
(*   RightInv  the loops of a load have built what the files hold, for     *)
(*             every name whose files nobody has edited since it began     *)
(*                                                                         *)
(* The vectors that the innermost loop builds are the subject of           *)
(* IntentMapPromised, an induction over the policies of a file.            *)
(***************************************************************************)
EXTENDS PolicyLoading, SequenceTheorems, WellFoundedInduction, NaturalsInduction, TLAPS

Numbers ==
    /\ products = [edit |-> products.edit, sec |-> products.sec,
                   conf |-> products.conf]
    /\ products.sec \in 1..products.edit
    /\ products.edit \in 1..MaxProductsEdits /\ products.conf \in ProductsConfs
    /\ \A f \in File :
         files[f].edit \in 1..MaxFileEdits /\ files[f].conf \in DomainConfs
    /\ seen \in 0..products.sec /\ polled \in 0..products.sec

\* A beginning was at the last edit of products.json, or at an earlier one;
\* the domain files are as they were at that last edit, or later.
BeganBy(b, conf) ==
    /\ b.edit \in Nat /\ b.edit <= products.edit
    /\ b.sec \in Nat /\ b.sec <= products.sec
    /\ b.edit = products.edit =>
         conf = products.conf /\ \A f \in File : b.files[f] >= atEdit[f]

\* A load past its first step has read the edit polled or a later one; so has
\* a load that is complete.
Fresher ==
    /\ files = [f \in File |-> files[f]]
    /\ \A f \in File : atEdit[f] \in Nat /\ atEdit[f] <= files[f].edit
    /\ pc \in {"product", "domain"} => BeganBy(began, doc) /\ polled <= began.sec
    /\ Started => BeganBy(served.began, served.doc) /\ seen <= served.began.sec

\* Where the load is.
Position ==
    /\ DOMAIN heap \subseteq Address
    /\ pc \in {"idle", "read", "product", "domain", "down"}
    /\ pc = "down" => ~ Started
    /\ pc \in {"read", "product", "domain"} => polled # seen
    /\ pc = "domain" => member \in DOMAIN doc.products
    /\ clash \in BOOLEAN

LoadInv == Numbers /\ Fresher /\ Position

LEMMA LoadInit == Init => LoadInv
  <1> SUFFICES ASSUME Init PROVE LoadInv
    OBVIOUS
  <1> USE LoadingAssumption
  <1>1. Numbers
    BY DEF Init, Numbers
  <1>2. Fresher
    BY DEF Init, Fresher, Started, EditsOf
  <1>3. Position
    BY DEF Init, Position, Started, Empty
  <1> QED BY <1>1, <1>2, <1>3 DEF LoadInv

\* Edits make what the load and the watcher have seen older, never newer.
LEMMA LoadEdits ==
    ASSUME LoadInv,
           \/ \E conf \in ProductsConfs : EditProducts(conf)
           \/ \E f \in File, conf \in DomainConfs : EditFile(f, conf)
    PROVE  LoadInv'
  <1> USE LoadingAssumption
  <1>1. ASSUME NEW conf \in ProductsConfs, EditProducts(conf) PROVE LoadInv'
    <2>1. /\ products'.edit = products.edit + 1 /\ products'.conf = conf
          /\ products'.sec \in {products.sec, products.sec + 1}
          /\ products' = [edit |-> products'.edit, sec |-> products'.sec,
                          conf |-> products'.conf]
          /\ products.edit < MaxProductsEdits
          /\ atEdit' = [f \in File |-> files[f].edit]
          /\ UNCHANGED <<files, loader, inUse, heap, pc>>
      BY <1>1 DEF EditProducts, EditsOf
    <2>2. Numbers'
      BY <2>1 DEF LoadInv, Numbers, loader, inUse
    <2>3. Fresher'
      <3>1. /\ products.edit \in Nat /\ products.sec \in Nat
            /\ products'.edit > products.edit /\ products'.sec >= products.sec
            /\ products'.edit \in Nat /\ products'.sec \in Nat
        BY <2>1 DEF LoadInv, Numbers
      <3>2. \A b, d : BeganBy(b, d) => BeganBy(b, d)'
        BY <3>1 DEF BeganBy
      <3>3. \A f \in File : atEdit'[f] \in Nat /\ atEdit'[f] <= files'[f].edit
        BY <2>1 DEF LoadInv, Numbers
      <3> QED BY <2>1, <3>2, <3>3 DEF LoadInv, Fresher, loader, inUse, Started
    <2>4. Position'
      BY <2>1 DEF LoadInv, Position, loader, inUse, Started
    <2> QED BY <2>2, <2>3, <2>4 DEF LoadInv
  <1>2. ASSUME NEW f \in File, NEW conf \in DomainConfs, EditFile(f, conf)
        PROVE  LoadInv'
    <2>1. /\ files[f].edit < MaxFileEdits
          /\ UNCHANGED <<products, atEdit, loader, inUse, heap, pc>>
      BY <1>2 DEF EditFile
    <2>2. /\ files' = [g \in File |-> files'[g]]
          /\ \A g \in File :
               IF g = f THEN files'[g].edit = files[g].edit + 1 /\ files'[g].conf = conf
                        ELSE files'[g] = files[g]
      BY <1>2 DEF EditFile, LoadInv, Fresher
    <2>3. Numbers'
      BY <2>1, <2>2 DEF LoadInv, Numbers, loader, inUse
    <2>4. Fresher'
      BY <2>1, <2>2 DEF LoadInv, Numbers, Fresher, BeganBy, loader, inUse, Started
    <2>5. Position'
      BY <2>1 DEF LoadInv, Position, loader, inUse, Started
    <2> QED BY <2>3, <2>4, <2>5 DEF LoadInv
  <1> QED BY <1>1, <1>2

\* Steps of a load that leave the recorded times and the documents alone.
LEMMA LoadSteps ==
    ASSUME LoadInv,
           \/ StatProducts \/ ReadFails \/ ProductFails \/ SkipDomain \/ EndProduct
           \/ \E a \in Address : BeginProduct(a) \/ LoadDomain(a)
    PROVE  LoadInv'
  <1>1. UNCHANGED <<disk, inUse, doc, began, clash>>
    BY DEF StatProducts, ReadFails, ProductFails, LoadFails, SkipDomain,
           EndProduct, BeginProduct, LoadDomain
  <1>2. \/ UNCHANGED polled
        \/ pc = "idle" /\ pc' = "read" /\ polled' = products.sec /\ products.sec # seen
    BY DEF StatProducts, ReadFails, ProductFails, LoadFails, SkipDomain,
           EndProduct, BeginProduct, LoadDomain
  <1>3. pc' \in {"product", "domain"} => pc \in {"product", "domain"} /\ polled' = polled
    BY DEF StatProducts, ReadFails, ProductFails, LoadFails, SkipDomain,
           EndProduct, BeginProduct, LoadDomain, Started
  <1>4. Numbers'
    BY <1>1, <1>2 DEF LoadInv, Numbers, disk, inUse
  <1>5. Fresher'
    BY <1>1, <1>3 DEF LoadInv, Fresher, BeganBy, disk, inUse, Started
  <1>6. DOMAIN heap' \subseteq Address
    <2>1. ASSUME NEW a \in Address, BeginProduct(a) \/ LoadDomain(a)
          PROVE  DOMAIN heap' \subseteq Address
      <3>1. DOMAIN heap' = DOMAIN heap \union {a}
        BY <2>1 DEF BeginProduct, LoadDomain, Put
      <3> QED BY <3>1 DEF LoadInv, Position
    <2>2. CASE ProductFails
      BY <2>2 DEF LoadInv, Position, ProductFails, LoadFails, Free
    <2>3. CASE heap' = heap
      BY <2>3 DEF LoadInv, Position
    <2> QED
      BY <2>1, <2>2, <2>3 DEF StatProducts, ReadFails, LoadFails, SkipDomain, EndProduct
  <1>7. Position'
    BY <1>1, <1>2, <1>6
    DEF LoadInv, Position, StatProducts, ReadFails, ProductFails, LoadFails,
        SkipDomain, EndProduct, BeginProduct, LoadDomain, inUse, Started
  <1> QED BY <1>4, <1>5, <1>7 DEF LoadInv

LEMMA LoadRead ==
    ASSUME LoadInv, ReadProducts
    PROVE  LoadInv'
  <1>1. /\ UNCHANGED <<disk, inUse, heap, polled>> /\ pc = "read" /\ pc' = "product"
        /\ doc' = products.conf /\ began'.edit = products.edit /\ began'.sec = products.sec
        /\ began'.files = [f \in File |-> files[f].edit]
    BY DEF ReadProducts, Beginning, EditsOf
  <1>2. clash' \in BOOLEAN
    <2>1. Repeats(products.conf) \in BOOLEAN
      BY DEF Repeats
    <2> QED BY <2>1 DEF ReadProducts, LoadInv, Position
  <1>3. Numbers'
    BY <1>1 DEF LoadInv, Numbers, disk, inUse
  <1>4. Fresher'
    BY <1>1 DEF LoadInv, Numbers, Fresher, BeganBy, disk, inUse, Started
  <1>5. Position'
    BY <1>1, <1>2 DEF LoadInv, Position, inUse, Started
  <1> QED BY <1>3, <1>4, <1>5 DEF LoadInv

\* The swap records the edit that was polled before the documents were read.
LEMMA LoadSwap ==
    ASSUME LoadInv, Swap
    PROVE  LoadInv'
  <1>1. /\ UNCHANGED <<disk, polled, doc, member, began, clash>>
        /\ pc = "product" /\ pc' = "idle" /\ seen' = polled
        /\ served'.doc = doc /\ served'.began = began
        /\ heap' = Free(Reachable(dict))
    BY DEF Swap
  <1>2. Numbers'
    BY <1>1 DEF LoadInv, Numbers, disk
  <1>3. Fresher'
    BY <1>1 DEF LoadInv, Fresher, BeganBy, disk
  <1>4. Position'
    BY <1>1 DEF LoadInv, Position, Free
  <1> QED BY <1>2, <1>3, <1>4 DEF LoadInv

\* Every step of a load, and every edit, keeps numbers, freshness and place.
THEOREM LoadInvariance == Spec => []LoadInv
  <1>1. ASSUME LoadInv, [Next]_vars PROVE LoadInv'
    <2>1. CASE UNCHANGED vars
      BY <1>1, <2>1
      DEF vars, disk, loader, inUse, LoadInv, Numbers, Fresher, BeganBy, Position, Started
    <2>2. CASE Reload
      BY <1>1, <2>2, LoadSteps, LoadRead, LoadSwap DEF Reload
    <2> QED BY <1>1, <2>1, <2>2, LoadEdits DEF Next
  <1> QED BY LoadInit, <1>1, PTL DEF Spec

\* Type correctness.
THEOREM TypeCorrect == Spec => []TypeOK
  <1>1. LoadInv => TypeOK
    BY DEF LoadInv, Numbers, Position, TypeOK
  <1> QED BY <1>1, LoadInvariance, PTL

\* When no reload is due, the products.json in use was written in the second
\* of its last edit, and if it is that edit, the domain files were read as
\* they were at that edit or later.
THEOREM QuietLoaded == Spec => []QuietMeansLoaded
  <1>1. LoadInv => QuietMeansLoaded
    BY DEF LoadInv, Numbers, Fresher, BeganBy, QuietMeansLoaded
  <1> QED BY <1>1, LoadInvariance, PTL
-----------------------------------------------------------------------------
(* Objects: the policies in use and those being built are allocated, and   *)
(* have nothing in common, so that what frees the ones leaves the others.  *)

IsMap(map) == map = [address |-> map.address, domains |-> map.domains]

\* What a dict refers to is allocated, its maps being maps.
Allocated(d) ==
    /\ Reachable(d) \subseteq DOMAIN heap
    /\ \A p \in DOMAIN d : heap[d[p].address] = MapObject

CurrentAllocated ==
    /\ OfMap(current) \subseteq DOMAIN heap
    /\ heap[current.address] = MapObject
    /\ OfMap(current) \intersect Reachable(dict) = {}

HeapInv ==
    /\ IsMap(current)
    /\ Allocated(dict) /\ Allocated(building)
    /\ Reachable(dict) \intersect Reachable(building) = {}
    /\ pc = "domain" => CurrentAllocated

LEMMA ReachableEmpty == Reachable(Empty) = {}
  BY DEF Reachable, Empty

LEMMA AddressReachable ==
    ASSUME NEW d, NEW p \in DOMAIN d
    PROVE  d[p].address \in Reachable(d) /\ OfMap(d[p]) \subseteq Reachable(d)
  BY DEF Reachable, OfMap

\* Inserting under a name adds what the map refers to, at most.
LEMMA ReachablePut ==
    ASSUME NEW d, NEW p, NEW map
    PROVE  Reachable(Put(d, p, map)) \subseteq Reachable(d) \union OfMap(map)
  <1> SUFFICES ASSUME NEW q \in DOMAIN d \union {p}, NEW x \in OfMap(Put(d, p, map)[q])
               PROVE  x \in Reachable(d) \union OfMap(map)
    BY DEF Reachable, Put
  <1>1. CASE q = p
    BY <1>1 DEF Put
  <1>2. CASE q # p
    BY <1>2, AddressReachable DEF Put
  <1> QED BY <1>1, <1>2

LEMMA OfMapPut ==
    ASSUME NEW map, NEW name, NEW a, IsMap(map)
    PROVE  LET next == [map EXCEPT !.domains = Put(@, name, a)]
           IN  IsMap(next) /\ next.address = map.address
               /\ OfMap(next) \subseteq OfMap(map) \union {a}
  <1> DEFINE next == [map EXCEPT !.domains = Put(@, name, a)]
  <1>1. next = [address |-> map.address, domains |-> Put(map.domains, name, a)]
    BY DEF IsMap
  <1>2. next.address = map.address /\ next.domains = Put(map.domains, name, a) /\ IsMap(next)
    BY <1>1 DEF IsMap
  <1>3. OfMap(next) \subseteq OfMap(map) \union {a}
    BY <1>2 DEF OfMap, Put
  <1> QED BY <1>2, <1>3

\* Allocating at a fresh address disturbs no object.
LEMMA PutKeeps ==
    ASSUME NEW a, Fresh(a), NEW object, heap' = Put(heap, a, object)
    PROVE  /\ DOMAIN heap' = DOMAIN heap \union {a} /\ heap'[a] = object
           /\ \A b \in DOMAIN heap : heap'[b] = heap[b]
           /\ a \notin DOMAIN heap
  BY DEF Fresh, Put

LEMMA HeapInit == Init => HeapInv
  BY ReachableEmpty
  DEF Init, HeapInv, Allocated, IsMap, NoMap, Empty

\* Steps that change neither objects nor what refers to them.
LEMMA HeapUntouched ==
    ASSUME HeapInv, UNCHANGED <<heap, dict, building, current>>,
           pc' = "domain" => pc = "domain"
    PROVE  HeapInv'
  <1>1. Allocated(dict)' /\ Allocated(building)'
    BY DEF HeapInv, Allocated
  <1>2. pc' = "domain" => CurrentAllocated'
    BY DEF HeapInv, CurrentAllocated
  <1> QED BY <1>1, <1>2 DEF HeapInv, IsMap

\* A load that fails frees what was built, and nothing of the dict.
LEMMA HeapFails ==
    ASSUME HeapInv, ReadFails \/ ProductFails
    PROVE  HeapInv'
  <1>1. /\ building' = Empty /\ current' = NoMap /\ dict' = dict /\ pc' # "domain"
        /\ heap' = heap \/ heap' = Free(Reachable(building))
    BY DEF ReadFails, ProductFails, LoadFails, inUse, Started
  <1>2. \A b \in Reachable(dict) : b \in DOMAIN heap' /\ heap'[b] = heap[b]
    BY <1>1 DEF HeapInv, Allocated, Free
  <1>3. Allocated(dict)'
    BY <1>1, <1>2, AddressReachable DEF HeapInv, Allocated
  <1>4. Allocated(building)' /\ Reachable(building)' = {}
    BY <1>1, ReachableEmpty DEF Allocated, Empty
  <1> QED BY <1>1, <1>3, <1>4 DEF HeapInv, IsMap, NoMap

LEMMA HeapBeginProduct ==
    ASSUME HeapInv, NEW a \in Address, BeginProduct(a)
    PROVE  HeapInv'
  <1>1. /\ DOMAIN heap' = DOMAIN heap \union {a} /\ heap'[a] = MapObject
        /\ \A b \in DOMAIN heap : heap'[b] = heap[b]
        /\ a \notin DOMAIN heap
    BY PutKeeps DEF BeginProduct
  <1>2. /\ UNCHANGED <<dict, building>>
        /\ current' = [address |-> a, domains |-> Empty]
    BY DEF BeginProduct, inUse
  <1>3. Allocated(dict)' /\ Allocated(building)'
    BY <1>1, <1>2, AddressReachable DEF HeapInv, Allocated
  <1>4. OfMap(current)' = {a} /\ IsMap(current)' /\ (current.address)' = a
    BY <1>2 DEF OfMap, Empty, IsMap
  <1>5. CurrentAllocated'
    BY <1>1, <1>2, <1>4 DEF CurrentAllocated, HeapInv, Allocated
  <1> QED BY <1>2, <1>3, <1>4, <1>5 DEF HeapInv

LEMMA HeapLoadDomain ==
    ASSUME HeapInv, NEW a \in Address, LoadDomain(a)
    PROVE  HeapInv'
  <1>1. /\ DOMAIN heap' = DOMAIN heap \union {a}
        /\ \A b \in DOMAIN heap : heap'[b] = heap[b]
        /\ a \notin DOMAIN heap
    BY PutKeeps DEF LoadDomain
  <1>2. /\ UNCHANGED <<dict, building>> /\ pc = "domain"
        /\ current' = [current EXCEPT !.domains = Put(@, DomainEntry.name, a)]
    BY DEF LoadDomain, inUse
  <1>3. Allocated(dict)' /\ Allocated(building)'
    BY <1>1, <1>2, AddressReachable DEF HeapInv, Allocated
  <1>4. /\ IsMap(current') /\ current'.address = current.address
        /\ OfMap(current') \subseteq OfMap(current) \union {a}
    BY <1>2, OfMapPut DEF HeapInv
  <1>5. current.address \in OfMap(current)
    BY DEF OfMap
  <1>6. CurrentAllocated'
    BY <1>1, <1>2, <1>4, <1>5 DEF CurrentAllocated, HeapInv, Allocated
  <1> QED BY <1>2, <1>3, <1>4, <1>6 DEF HeapInv

LEMMA HeapEndProduct ==
    ASSUME HeapInv, EndProduct
    PROVE  HeapInv'
  <1> DEFINE name == doc.products[member].name
  <1>1. /\ UNCHANGED <<heap, dict>> /\ pc = "domain" /\ pc' = "product"
        /\ building' = Put(building, name, current) /\ current' = NoMap
    BY DEF EndProduct, inUse
  <1>2. Reachable(building') \subseteq Reachable(building) \union OfMap(current)
    BY <1>1, ReachablePut
  <1>3. \A p \in DOMAIN building' : heap[building'[p].address] = MapObject
    BY <1>1 DEF Put, HeapInv, Allocated, CurrentAllocated
  <1>4. Allocated(building)'
    BY <1>1, <1>2, <1>3 DEF HeapInv, Allocated, CurrentAllocated
  <1> QED BY <1>1, <1>2, <1>4 DEF HeapInv, Allocated, CurrentAllocated, IsMap, NoMap

\* The swap frees the old dict, and nothing of the new one.
LEMMA HeapSwap ==
    ASSUME HeapInv, Swap
    PROVE  HeapInv'
  <1>1. /\ dict' = building /\ building' = Empty /\ current' = current
        /\ pc' = "idle" /\ heap' = Free(Reachable(dict))
    BY DEF Swap
  <1>2. \A b \in Reachable(building) : b \in DOMAIN heap' /\ heap'[b] = heap[b]
    BY <1>1 DEF HeapInv, Allocated, Free
  <1>3. Allocated(dict)'
    BY <1>1, <1>2, AddressReachable DEF HeapInv, Allocated
  <1>4. Allocated(building)' /\ Reachable(building)' = {}
    BY <1>1, ReachableEmpty DEF Allocated, Empty
  <1> QED BY <1>1, <1>3, <1>4 DEF HeapInv, IsMap

\* The dict in use and the one being built are allocated and share nothing.
THEOREM HeapInvariance == Spec => []HeapInv
  <1>1. ASSUME HeapInv, [Next]_vars PROVE HeapInv'
    <2>1. CASE \/ UNCHANGED vars
               \/ \E conf \in ProductsConfs : EditProducts(conf)
               \/ \E f \in File, conf \in DomainConfs : EditFile(f, conf)
               \/ StatProducts \/ ReadProducts \/ SkipDomain
      <3>1. CASE ReadProducts
        <4>1. building' = Empty /\ pc' # "domain" /\ UNCHANGED <<heap, dict, current>>
          BY <3>1 DEF ReadProducts, inUse
        <4>2. Allocated(building)' /\ Reachable(building)' = {}
          BY <4>1, ReachableEmpty DEF Allocated, Empty
        <4> QED BY <1>1, <4>1, <4>2 DEF HeapInv, Allocated, IsMap
      <3>2. CASE ~ ReadProducts
        <4>1. UNCHANGED <<heap, dict, building, current>> /\ (pc' = "domain" => pc = "domain")
          BY <2>1, <3>2 DEF vars, disk, loader, inUse, EditProducts, EditFile,
                            StatProducts, SkipDomain
        <4> QED BY <1>1, <4>1, HeapUntouched
      <3> QED BY <3>1, <3>2
    <2> QED
      BY <1>1, <2>1, HeapFails, HeapBeginProduct, HeapLoadDomain, HeapEndProduct,
         HeapSwap DEF Next, Reload
  <1> QED BY HeapInit, <1>1, PTL DEF Spec

\* What resolve follows is allocated, whatever loads have failed: no load
\* frees an object of the dict in use or of the one that is being built.
THEOREM ServedAlive == Spec => []ServedIsAlive
  <1>1. HeapInv => ServedIsAlive
    BY DEF HeapInv, Allocated, CurrentAllocated, Unfinished, ServedIsAlive
  <1> QED BY <1>1, HeapInvariance, PTL
-----------------------------------------------------------------------------
(* Ownership: every object is reached from the dict or from what is being  *)
(* built.  A pointer is lost only where a name is inserted that is there;  *)
(* as long as no document repeats a name, a name to be inserted belongs to *)
(* no earlier member.                                                      *)

\* The names in the maps are names of members that have been passed.
NamesPassed ==
    /\ pc \in {"product", "domain"} =>
        \A p \in DOMAIN building : \E i \in 1..(member - 1) :
            i \in DOMAIN doc.products /\ doc.products[i].name = p
    /\ pc = "domain" =>
        \A d \in DOMAIN current.domains : \E j \in 1..(entry - 1) :
            /\ j \in DOMAIN doc.products[member].domains
            /\ doc.products[member].domains[j].name = d

OwnerInv ==
    /\ member \in Nat /\ entry \in Nat
    /\ pc \in {"product", "domain"} => member # 0
    /\ pc = "domain" => entry # 0
    /\ pc \notin {"product", "domain"} => building = Empty
    /\ ~ clash => /\ ~ Repeats(doc)
                  /\ NamesPassed
                  /\ DOMAIN heap = Reachable(dict) \union Unfinished

\* Inserting under a name that is not there loses nothing.
LEMMA ReachablePutNew ==
    ASSUME NEW d, NEW p, p \notin DOMAIN d, NEW map
    PROVE  Reachable(Put(d, p, map)) = Reachable(d) \union OfMap(map)
  <1> DEFINE next == Put(d, p, map)
  <1>1. DOMAIN next = DOMAIN d \union {p} /\ next[p] = map
    BY DEF Put
  <1>2. \A q \in DOMAIN d : next[q] = d[q]
    BY DEF Put
  <1> HIDE DEF next
  <1>3. \A x : x \in Reachable(next) <=> \E q \in DOMAIN next : x \in OfMap(next[q])
    BY DEF Reachable
  <1>4. \A x : x \in Reachable(d) <=> \E q \in DOMAIN d : x \in OfMap(d[q])
    BY DEF Reachable
  <1>5. \A x : x \in Reachable(next) <=> x \in Reachable(d) \/ x \in OfMap(map)
    BY <1>1, <1>2, <1>3, <1>4
  <1> QED BY <1>5 DEF next

IsMapWith(next, map, name, a) ==
    next = [map EXCEPT !.domains = Put(map.domains, name, a)]

LEMMA OfMapPutNew ==
    ASSUME NEW map, NEW name, NEW a, IsMap(map), name \notin DOMAIN map.domains,
           NEW next, IsMapWith(next, map, name, a)
    PROVE  /\ OfMap(next) = OfMap(map) \union {a}
           /\ DOMAIN next.domains = DOMAIN map.domains \union {name}
  <1>1. next.address = map.address /\ next.domains = Put(map.domains, name, a)
    BY DEF IsMap, IsMapWith
  <1>2. /\ DOMAIN next.domains = DOMAIN map.domains \union {name}
        /\ next.domains[name] = a
        /\ \A d \in DOMAIN map.domains : next.domains[d] = map.domains[d]
    BY <1>1 DEF Put
  <1>3. \A x : x \in OfMap(next) <=>
            x = next.address \/ \E d \in DOMAIN next.domains : x = next.domains[d]
    BY DEF OfMap
  <1>4. \A x : x \in OfMap(map) <=>
            x = map.address \/ \E d \in DOMAIN map.domains : x = map.domains[d]
    BY DEF OfMap
  <1>5. \A x : x \in OfMap(next) <=> x \in OfMap(map) \/ x = a
    BY <1>1, <1>2, <1>3, <1>4
  <1> QED BY <1>2, <1>5

LEMMA OwnerInit == Init => OwnerInv
  <1> SUFFICES ASSUME Init PROVE OwnerInv
    OBVIOUS
  <1>1. Reachable(dict) = {} /\ Reachable(building) = {} /\ DOMAIN heap = {}
    BY ReachableEmpty DEF Init, Empty
  <1>2. ~ Repeats(doc)
    BY DEF Init, Repeats, NoDocument
  <1> QED BY <1>1, <1>2 DEF Init, OwnerInv, NamesPassed, Unfinished

\* Steps that change neither objects nor what refers to them, nor the member
\* that is being loaded.
LEMMA OwnerUntouched ==
    ASSUME OwnerInv, UNCHANGED <<heap, dict, building, current, doc, member, clash>>,
           UNCHANGED pc \/ (pc = "idle" /\ pc' = "read"),
           entry' = entry \/ (entry' = entry + 1)
    PROVE  OwnerInv'
  <1>1. ~ clash => Unfinished' = Unfinished
    BY DEF Unfinished, OwnerInv
  <1>2. entry' \in Nat /\ (pc' = "domain" => entry' # 0)
    BY DEF OwnerInv
  <1>3. NamesPassed => NamesPassed'
    BY DEF NamesPassed, OwnerInv
  <1> QED BY <1>1, <1>2, <1>3 DEF OwnerInv

LEMMA OwnerRead ==
    ASSUME OwnerInv, ReadProducts
    PROVE  OwnerInv'
  <1>1. /\ building = Empty /\ building' = Empty /\ member' = 1 /\ entry' = entry
        /\ pc = "read" /\ pc' = "product" /\ UNCHANGED <<heap, dict>>
        /\ doc' = products.conf /\ clash' = (clash \/ Repeats(products.conf))
    BY DEF ReadProducts, OwnerInv, inUse
  <1>2. Unfinished' = Unfinished
    BY <1>1 DEF Unfinished
  <1>3. NamesPassed'
    BY <1>1 DEF NamesPassed, Empty
  <1>4. ~ clash' => ~ clash /\ ~ Repeats(doc')
    BY <1>1
  <1> QED BY <1>1, <1>2, <1>3, <1>4 DEF OwnerInv

LEMMA OwnerFails ==
    ASSUME OwnerInv, HeapInv, ReadFails \/ ProductFails
    PROVE  OwnerInv'
  <1>1. /\ building' = Empty /\ pc' \in {"idle", "down"}
        /\ UNCHANGED <<dict, doc, member, entry, clash>>
    BY DEF ReadFails, ProductFails, LoadFails, inUse, Started
  <1>2. Unfinished' = {} /\ NamesPassed'
    BY <1>1, ReachableEmpty DEF Unfinished, NamesPassed
  <1>3. CASE ReadFails
    <2>1. heap' = heap /\ (~ clash => Unfinished = {})
      BY <1>3, ReachableEmpty DEF ReadFails, LoadFails, OwnerInv, Unfinished
    <2> QED BY <1>1, <1>2, <2>1 DEF OwnerInv
  <1>4. CASE ProductFails
    <2>1. /\ DOMAIN heap' = DOMAIN heap \ Reachable(building)
          /\ Unfinished = Reachable(building)
      BY <1>4 DEF ProductFails, LoadFails, Free, Unfinished
    <2>2. ~ clash => DOMAIN heap' = Reachable(dict)
      BY <2>1 DEF OwnerInv, HeapInv
    <2> QED BY <1>1, <1>2, <2>2 DEF OwnerInv
  <1> QED BY <1>3, <1>4

LEMMA OwnerBeginProduct ==
    ASSUME OwnerInv, NEW a \in Address, BeginProduct(a)
    PROVE  OwnerInv'
  <1>1. /\ UNCHANGED <<dict, building, doc, member, clash>>
        /\ current' = [address |-> a, domains |-> Empty] /\ entry' = 1
        /\ pc = "product" /\ pc' = "domain"
    BY DEF BeginProduct, inUse
  <1>2. DOMAIN heap' = DOMAIN heap \union {a}
    BY PutKeeps DEF BeginProduct
  <1>3. OfMap(current') = {a}
    BY <1>1 DEF OfMap, Empty
  <1>4. Unfinished = Reachable(building) /\ Unfinished' = Reachable(building) \union {a}
    BY <1>1, <1>3 DEF Unfinished
  <1>5. NamesPassed => NamesPassed'
    BY <1>1 DEF NamesPassed, Empty
  <1> QED BY <1>1, <1>2, <1>4, <1>5 DEF OwnerInv

LEMMA OwnerLoadDomain ==
    ASSUME OwnerInv, HeapInv, Position, NEW a \in Address, LoadDomain(a)
    PROVE  OwnerInv'
  <1>1. /\ UNCHANGED <<dict, building, doc, member, clash>> /\ entry' = entry + 1
        /\ pc = "domain" /\ pc' = "domain"
        /\ current' = [current EXCEPT !.domains = Put(@, DomainEntry.name, a)]
        /\ entry \in DOMAIN doc.products[member].domains
    BY DEF LoadDomain, inUse
  <1>2. DOMAIN heap' = DOMAIN heap \union {a}
    BY PutKeeps DEF LoadDomain
  <1>3. entry \in Nat \ {0} /\ entry' \in Nat \ {0} /\ member \in DOMAIN doc.products
    BY <1>1 DEF OwnerInv, Position
  <1>4. ASSUME ~ clash
        PROVE  NamesPassed' /\ DOMAIN heap' = Reachable(dict) \union Unfinished'
    <2>1. ~ Repeats(doc) /\ NamesPassed
      BY <1>4 DEF OwnerInv
    <2>2. DomainEntry.name \notin DOMAIN current.domains
      <3> SUFFICES ASSUME DomainEntry.name \in DOMAIN current.domains PROVE FALSE
        OBVIOUS
      <3>1. PICK j \in 1..(entry - 1) :
                /\ j \in DOMAIN doc.products[member].domains
                /\ doc.products[member].domains[j].name = DomainEntry.name
        BY <1>1, <2>1 DEF NamesPassed
      <3>2. j # entry
        BY <1>3
      <3> QED BY <1>1, <1>3, <2>1, <3>1, <3>2 DEF Repeats, DomainEntry
    <2>3. /\ OfMap(current') = OfMap(current) \union {a}
          /\ DOMAIN current'.domains = DOMAIN current.domains \union {DomainEntry.name}
      <3>1. PICK name : name = DomainEntry.name
        OBVIOUS
      <3>2. IsMap(current) /\ name \notin DOMAIN current.domains
        BY <2>2, <3>1 DEF HeapInv
      <3>3. IsMapWith(current', current, name, a)
        BY <1>1, <3>1 DEF IsMapWith
      <3>4. /\ OfMap(current') = OfMap(current) \union {a}
            /\ DOMAIN current'.domains = DOMAIN current.domains \union {name}
        <4>1. PICK old : old = current
          OBVIOUS
        <4>2. PICK next : next = current'
          OBVIOUS
        <4>3. IsMap(old) /\ name \notin DOMAIN old.domains /\ IsMapWith(next, old, name, a)
          BY <3>2, <3>3, <4>1, <4>2
        <4>4. /\ OfMap(next) = OfMap(old) \union {a}
              /\ DOMAIN next.domains = DOMAIN old.domains \union {name}
          BY ONLY <4>3, OfMapPutNew
        <4> QED BY <4>1, <4>2, <4>4
      <3> QED BY <3>1, <3>4
    <2>4. DOMAIN heap' = Reachable(dict) \union Unfinished'
      BY <1>1, <1>2, <1>4, <2>3 DEF OwnerInv, Unfinished
    <2>5. \A d \in DOMAIN current'.domains : \E j \in 1..(entry' - 1) :
              /\ j \in DOMAIN doc.products[member].domains
              /\ doc.products[member].domains[j].name = d
      <3> SUFFICES ASSUME NEW d \in DOMAIN current.domains \union {DomainEntry.name}
                   PROVE  \E j \in 1..entry :
                            /\ j \in DOMAIN doc.products[member].domains
                            /\ doc.products[member].domains[j].name = d
        BY <1>1, <1>3, <2>3
      <3>1. CASE d \in DOMAIN current.domains
        BY <1>1, <1>3, <2>1, <3>1 DEF NamesPassed
      <3>2. CASE d = DomainEntry.name
        BY <1>1, <1>3, <3>2 DEF DomainEntry
      <3> QED BY <3>1, <3>2
    <2>6. NamesPassed'
      BY <1>1, <2>1, <2>5 DEF NamesPassed
    <2> QED BY <2>4, <2>6
  <1> QED BY <1>1, <1>3, <1>4 DEF OwnerInv

LEMMA OwnerEndProduct ==
    ASSUME OwnerInv, Position, EndProduct
    PROVE  OwnerInv'
  <1> DEFINE name == doc.products[member].name
  <1>1. /\ UNCHANGED <<heap, dict, doc, entry, clash>> /\ member' = member + 1
        /\ pc = "domain" /\ pc' = "product"
        /\ building' = Put(building, name, current)
    BY DEF EndProduct, inUse
  <1>2. member \in Nat \ {0} /\ member' \in Nat \ {0} /\ member \in DOMAIN doc.products
    BY <1>1 DEF OwnerInv, Position
  <1>3. ASSUME ~ clash
        PROVE  NamesPassed' /\ DOMAIN heap' = Reachable(dict) \union Unfinished'
    <2>1. ~ Repeats(doc) /\ NamesPassed
      BY <1>3 DEF OwnerInv
    <2>2. name \notin DOMAIN building
      <3> SUFFICES ASSUME name \in DOMAIN building PROVE FALSE
        OBVIOUS
      <3>1. PICK i \in 1..(member - 1) :
                i \in DOMAIN doc.products /\ doc.products[i].name = name
        BY <1>1, <2>1 DEF NamesPassed
      <3>2. i # member
        BY <1>2
      <3> QED BY <1>2, <2>1, <3>1, <3>2 DEF Repeats
    <2>3. Reachable(building') = Reachable(building) \union OfMap(current)
      BY <1>1, <2>2, ReachablePutNew
    <2>4. DOMAIN heap' = Reachable(dict) \union Unfinished'
      BY <1>1, <1>3, <2>3 DEF OwnerInv, Unfinished
    <2>5. DOMAIN building' = DOMAIN building \union {name}
      BY <1>1 DEF Put
    <2>6. ASSUME NEW p \in DOMAIN building'
          PROVE  \E i \in 1..(member' - 1) :
                    i \in DOMAIN doc.products /\ doc.products[i].name = p
      <3>1. CASE p \in DOMAIN building
        <4>1. PICK i \in 1..(member - 1) :
                i \in DOMAIN doc.products /\ doc.products[i].name = p
          BY <1>1, <2>1, <3>1 DEF NamesPassed
        <4>2. i \in 1..(member' - 1)
          BY <1>1, <1>2
        <4> QED BY <4>1, <4>2
      <3>2. CASE p = name
        <4>1. member \in 1..(member' - 1)
          BY <1>1, <1>2
        <4> QED BY <1>2, <3>2, <4>1
      <3> QED BY <2>5, <3>1, <3>2
    <2>7. NamesPassed'
      BY <1>1, <2>6 DEF NamesPassed
    <2> QED BY <2>4, <2>7
  <1> QED BY <1>1, <1>2, <1>3 DEF OwnerInv

LEMMA OwnerSwap ==
    ASSUME OwnerInv, HeapInv, Swap
    PROVE  OwnerInv'
  <1>1. /\ dict' = building /\ building' = Empty /\ pc = "product" /\ pc' = "idle"
        /\ UNCHANGED <<doc, member, entry, clash>>
        /\ DOMAIN heap' = DOMAIN heap \ Reachable(dict)
    BY DEF Swap, Free
  <1>2. Unfinished = Reachable(building) /\ Unfinished' = {}
    BY <1>1, ReachableEmpty DEF Unfinished
  <1>3. ~ clash => DOMAIN heap' = Reachable(building)
    BY <1>1, <1>2 DEF OwnerInv, HeapInv
  <1> QED BY <1>1, <1>2, <1>3 DEF OwnerInv, NamesPassed

\* While no document has repeated a name, every object has an owner.
THEOREM OwnerInvariance == Spec => []OwnerInv
  <1>1. ASSUME OwnerInv, HeapInv, LoadInv, [Next]_vars PROVE OwnerInv'
    <2>1. CASE \/ UNCHANGED vars
               \/ \E conf \in ProductsConfs : EditProducts(conf)
               \/ \E f \in File, conf \in DomainConfs : EditFile(f, conf)
               \/ StatProducts \/ SkipDomain
      <3>1. /\ UNCHANGED <<heap, dict, building, current, doc, member, clash>>
            /\ UNCHANGED pc \/ (pc = "idle" /\ pc' = "read")
            /\ entry' = entry \/ entry' = entry + 1
        BY <2>1 DEF vars, disk, loader, inUse, EditProducts, EditFile,
                    StatProducts, SkipDomain
      <3> QED BY <1>1, <3>1, OwnerUntouched
    <2> QED
      BY <1>1, <2>1, OwnerRead, OwnerFails, OwnerBeginProduct, OwnerLoadDomain,
         OwnerEndProduct, OwnerSwap DEF Next, Reload, LoadInv
  <1> QED BY OwnerInit, <1>1, HeapInvariance, LoadInvariance, PTL DEF Spec

\* No object is lost by any sequence of loads, failed, partly skipped or
\* complete, and none is owned twice.
THEOREM NothingLost == Spec => []NothingLeaks
  <1>1. OwnerInv /\ HeapInv => NothingLeaks
    <2>1. HeapInv => Reachable(dict) \intersect Unfinished = {}
      BY DEF HeapInv, CurrentAllocated, Unfinished
    <2> QED BY <2>1 DEF OwnerInv, NothingLeaks
  <1> QED BY <1>1, OwnerInvariance, HeapInvariance, PTL
-----------------------------------------------------------------------------
(* What is in use against what the files hold.  The loops of a load have   *)
(* been through the first n members of a list; what they have built is     *)
(* right for every name whose files nobody has edited since the load began *)
(* (fs and b are the files and the edits of then, h the objects).          *)

LoadableTo(fs, item, n, d) ==
    {j \in 1..n :
        /\ item.domains[j].name = d
        /\ item.domains[j].settings /\ fs[item.domains[j].file].conf.array}

UneditedTo(fs, b, item, n, d) ==
    \A j \in 1..n : item.domains[j].name = d =>
        fs[item.domains[j].file].edit = b[item.domains[j].file]

VectorsOf(fs, item, j) == IntentMap(fs[item.domains[j].file].conf.policies)

RightDomain(h, fs, map, item, n, d) ==
    /\ d \in DOMAIN map <=> LoadableTo(fs, item, n, d) # {}
    /\ \A j \in LoadableTo(fs, item, n, d) :
        (\A k \in LoadableTo(fs, item, n, d) : k <= j) =>
            h[map[d]] = VectorsOf(fs, item, j)

RightDomains(h, fs, b, map, item, n) ==
    \A d : UneditedTo(fs, b, item, n, d) => RightDomain(h, fs, map, item, n, d)

RightProducts(h, fs, b, built, conf, n) ==
    /\ \A p : p \in DOMAIN built <=> \E i \in 1..n : conf.products[i].name = p
    /\ \A i \in 1..n :
        (\A k \in 1..n : k > i => conf.products[k].name # conf.products[i].name) =>
            RightDomains(h, fs, b, built[conf.products[i].name].domains,
                         conf.products[i], Len(conf.products[i].domains))

\* Files of which some have been edited, after the load began.
Later(fs, fs2, b) ==
    \A f \in File : fs2[f] = fs[f] \/ fs2[f].edit # b[f]

FilesOf(item, n) == \A j \in 1..n : item.domains[j].file \in File

LEMMA RightDomainsStay ==
    ASSUME NEW h, NEW h2, NEW fs, NEW fs2, NEW b, NEW map, NEW item, NEW n \in Nat,
           RightDomains(h, fs, b, map, item, n), FilesOf(item, n),
           Later(fs, fs2, b), \A d \in DOMAIN map : h2[map[d]] = h[map[d]]
    PROVE  RightDomains(h2, fs2, b, map, item, n)
  <1> SUFFICES ASSUME NEW d, UneditedTo(fs2, b, item, n, d)
               PROVE  RightDomain(h2, fs2, map, item, n, d)
    BY DEF RightDomains
  <1>1. ASSUME NEW j \in 1..n, item.domains[j].name = d
        PROVE  fs2[item.domains[j].file] = fs[item.domains[j].file]
    <2>1. PICK f \in File : f = item.domains[j].file
      BY DEF FilesOf
    <2>2. fs2[f].edit = b[f]
      BY <1>1, <2>1 DEF UneditedTo
    <2> QED BY <2>1, <2>2 DEF Later
  <1>2. UneditedTo(fs, b, item, n, d)
    BY <1>1 DEF UneditedTo
  <1>3. RightDomain(h, fs, map, item, n, d)
    BY <1>2 DEF RightDomains
  <1>4. LoadableTo(fs2, item, n, d) = LoadableTo(fs, item, n, d)
    BY <1>1 DEF LoadableTo
  <1>5. \A j \in LoadableTo(fs, item, n, d) : VectorsOf(fs2, item, j) = VectorsOf(fs, item, j)
    BY <1>1 DEF LoadableTo, VectorsOf
  <1> QED BY <1>3, <1>4, <1>5 DEF RightDomain

LEMMA RightDomainsEmpty ==
    ASSUME NEW h, NEW fs, NEW b, NEW item
    PROVE  RightDomains(h, fs, b, Empty, item, 0)
  BY DEF RightDomains, RightDomain, LoadableTo, Empty

\* An entry that cannot be loaded makes no difference.
LEMMA RightDomainsSkip ==
    ASSUME NEW h, NEW fs, NEW b, NEW map, NEW item, NEW n \in Nat \ {0},
           RightDomains(h, fs, b, map, item, n - 1),
           ~ (item.domains[n].settings /\ fs[item.domains[n].file].conf.array)
    PROVE  RightDomains(h, fs, b, map, item, n)
  <1> SUFFICES ASSUME NEW d, UneditedTo(fs, b, item, n, d)
               PROVE  RightDomain(h, fs, map, item, n, d)
    BY DEF RightDomains
  <1>1. 1..(n - 1) \subseteq 1..n /\ \A j \in 1..n : j = n \/ j \in 1..(n - 1)
    OBVIOUS
  <1>2. UneditedTo(fs, b, item, n - 1, d)
    BY <1>1 DEF UneditedTo
  <1>3. LoadableTo(fs, item, n - 1, d) = LoadableTo(fs, item, n, d)
    BY <1>1 DEF LoadableTo
  <1> QED BY <1>2, <1>3 DEF RightDomains, RightDomain

\* An entry that can be loaded takes the place of those before it with its
\* name.
LEMMA RightDomainsLoad ==
    ASSUME NEW h, NEW h2, NEW fs, NEW b, NEW map, NEW item, NEW n \in Nat \ {0},
           NEW map2, NEW a,
           RightDomains(h, fs, b, map, item, n - 1),
           item.domains[n].settings /\ fs[item.domains[n].file].conf.array,
           map2 = Put(map, item.domains[n].name, a),
           h2[a] = VectorsOf(fs, item, n),
           \A d \in DOMAIN map : h2[map[d]] = h[map[d]]
    PROVE  RightDomains(h2, fs, b, map2, item, n)
  <1> SUFFICES ASSUME NEW d, UneditedTo(fs, b, item, n, d)
               PROVE  RightDomain(h2, fs, map2, item, n, d)
    BY DEF RightDomains
  <1>1. 1..(n - 1) \subseteq 1..n /\ n \in 1..n
        /\ \A j \in 1..n : j = n \/ j \in 1..(n - 1)
    OBVIOUS
  <1>2. UneditedTo(fs, b, item, n - 1, d)
    BY <1>1 DEF UneditedTo
  <1>3. RightDomain(h, fs, map, item, n - 1, d)
    BY <1>2 DEF RightDomains
  <1>4. /\ DOMAIN map2 = DOMAIN map \union {item.domains[n].name}
        /\ map2[item.domains[n].name] = a
        /\ \A e \in DOMAIN map : e # item.domains[n].name => map2[e] = map[e]
    BY DEF Put
  <1>5. CASE d # item.domains[n].name
    <2>1. LoadableTo(fs, item, n - 1, d) = LoadableTo(fs, item, n, d)
      BY <1>1, <1>5 DEF LoadableTo
    <2>2. d \in DOMAIN map2 <=> d \in DOMAIN map
      BY <1>4, <1>5
    <2>3. d \in DOMAIN map => h2[map2[d]] = h[map[d]]
      BY <1>4, <1>5
    <2> QED BY <1>3, <2>1, <2>2, <2>3 DEF RightDomain
  <1>6. CASE d = item.domains[n].name
    <2>1. n \in LoadableTo(fs, item, n, d)
      BY <1>1, <1>6 DEF LoadableTo
    <2>2. ASSUME NEW j \in LoadableTo(fs, item, n, d), n <= j PROVE j = n
      BY <2>2 DEF LoadableTo
    <2>3. d \in DOMAIN map2 /\ h2[map2[d]] = VectorsOf(fs, item, n)
      BY <1>4, <1>6
    <2> QED BY <2>1, <2>2, <2>3 DEF RightDomain
  <1> QED BY <1>5, <1>6

\* A document that can be loaded, as far as the loops look at it.
ListsOf(conf) ==
    /\ Len(conf.products) \in Nat /\ DOMAIN conf.products = 1..Len(conf.products)
    /\ \A i \in DOMAIN conf.products :
        /\ Len(conf.products[i].domains) \in Nat
        /\ DOMAIN conf.products[i].domains = 1..Len(conf.products[i].domains)
        /\ FilesOf(conf.products[i], Len(conf.products[i].domains))

LEMMA ListDomain ==
    ASSUME NEW list, IsList(list)
    PROVE  Len(list) \in Nat /\ DOMAIN list = 1..Len(list)
  BY DEF IsList

LEMMA DocumentLists ==
    ASSUME NEW conf \in ProductsConfs \union {NoDocument}
    PROVE  ListsOf(conf)
  <1>1. CASE conf \in ProductsConfs
    <2>1. /\ Len(conf.products) \in Nat
          /\ DOMAIN conf.products = 1..Len(conf.products)
      BY <1>1, LoadingAssumption, ListDomain
    <2>2. ASSUME NEW i \in DOMAIN conf.products
          PROVE  /\ Len(conf.products[i].domains) \in Nat
                 /\ DOMAIN conf.products[i].domains = 1..Len(conf.products[i].domains)
                 /\ \A j \in DOMAIN conf.products[i].domains :
                        conf.products[i].domains[j].file \in File
      BY <1>1, LoadingAssumption, ListDomain
    <2> QED BY <2>1, <2>2 DEF ListsOf, FilesOf
  <1>2. CASE conf = NoDocument
    <2>1. conf.products = <<>>
      BY <1>2 DEF NoDocument
    <2>2. Len(conf.products) = 0 /\ DOMAIN conf.products = 1..0
      BY <2>1
    <2> QED BY <2>2 DEF ListsOf
  <1> QED BY <1>1, <1>2

\* What the maps of built refer to stays as it is.
SameObjects(h, h2, built) ==
    \A p \in DOMAIN built : \A d \in DOMAIN built[p].domains :
        h2[built[p].domains[d]] = h[built[p].domains[d]]

LEMMA RightProductsStay ==
    ASSUME NEW h, NEW h2, NEW fs, NEW fs2, NEW b, NEW built, NEW conf, NEW n \in Nat,
           RightProducts(h, fs, b, built, conf, n), ListsOf(conf),
           n <= Len(conf.products), Later(fs, fs2, b), SameObjects(h, h2, built)
    PROVE  RightProducts(h2, fs2, b, built, conf, n)
  <1> SUFFICES ASSUME NEW i \in 1..n,
                      \A k \in 1..n : k > i => conf.products[k].name # conf.products[i].name
               PROVE  RightDomains(h2, fs2, b, built[conf.products[i].name].domains,
                                   conf.products[i], Len(conf.products[i].domains))
    BY DEF RightProducts
  <1>1. PICK item : item = conf.products[i]
    OBVIOUS
  <1>2. PICK m : m = Len(item.domains)
    OBVIOUS
  <1>3. PICK p : p = item.name
    OBVIOUS
  <1>4. PICK map : map = built[p].domains
    OBVIOUS
  <1>5. p \in DOMAIN built
    BY <1>1, <1>3 DEF RightProducts
  <1>6. m \in Nat /\ FilesOf(item, m)
    BY <1>1, <1>2 DEF ListsOf
  <1>7. RightDomains(h, fs, b, map, item, m)
    BY <1>1, <1>2, <1>3, <1>4 DEF RightProducts
  <1>8. \A d \in DOMAIN map : h2[map[d]] = h[map[d]]
    BY <1>4, <1>5 DEF SameObjects
  <1>9. RightDomains(h2, fs2, b, map, item, m)
    BY <1>6, <1>7, <1>8, RightDomainsStay
  <1> QED BY <1>1, <1>2, <1>3, <1>4, <1>9

\* A product that is inserted takes the place of one of its name.
LEMMA RightProductsPut ==
    ASSUME NEW h, NEW fs, NEW b, NEW built, NEW conf, NEW n \in Nat \ {0}, NEW map,
           NEW built2,
           RightProducts(h, fs, b, built, conf, n - 1),
           RightDomains(h, fs, b, map.domains, conf.products[n],
                        Len(conf.products[n].domains)),
           built2 = Put(built, conf.products[n].name, map)
    PROVE  RightProducts(h, fs, b, built2, conf, n)
  <1>1. 1..(n - 1) \subseteq 1..n /\ n \in 1..n
        /\ \A j \in 1..n : j = n \/ (j \in 1..(n - 1) /\ n > j)
    OBVIOUS
  <1>2. /\ DOMAIN built2 = DOMAIN built \union {conf.products[n].name}
        /\ built2[conf.products[n].name] = map
        /\ \A q \in DOMAIN built : q # conf.products[n].name => built2[q] = built[q]
    BY DEF Put
  <1>3. \A p : p \in DOMAIN built2 <=> \E i \in 1..n : conf.products[i].name = p
    BY <1>1, <1>2 DEF RightProducts
  <1>4. ASSUME NEW i \in 1..n,
               \A k \in 1..n : k > i => conf.products[k].name # conf.products[i].name
        PROVE  RightDomains(h, fs, b, built2[conf.products[i].name].domains,
                            conf.products[i], Len(conf.products[i].domains))
    <2>1. CASE i = n
      BY <1>2, <2>1
    <2>2. CASE i # n
      <3>1. i \in 1..(n - 1) /\ conf.products[i].name # conf.products[n].name
        BY <1>1, <1>4, <2>2
      <3>2. conf.products[i].name \in DOMAIN built
        BY <3>1 DEF RightProducts
      <3>3. built2[conf.products[i].name] = built[conf.products[i].name]
        BY <1>2, <3>1, <3>2
      <3>4. RightDomains(h, fs, b, built[conf.products[i].name].domains,
                         conf.products[i], Len(conf.products[i].domains))
        BY <1>1, <1>4, <3>1 DEF RightProducts
      <3> QED BY <3>3, <3>4
    <2> QED BY <2>1, <2>2
  <1> QED BY <1>3, <1>4 DEF RightProducts
-----------------------------------------------------------------------------
\* The dict in use is right, and so is what a load has built so far.
ServedRight ==
    RightProducts(heap, files, served.began.files, dict, served.doc, Len(served.doc.products))

BuildingRight ==
    /\ member \in 1..(Len(doc.products) + 1)
    /\ RightProducts(heap, files, began.files, building, doc, member - 1)

CurrentRight ==
    /\ member \in DOMAIN doc.products
    /\ entry \in 1..(Len(doc.products[member].domains) + 1)
    /\ RightDomains(heap, files, began.files, current.domains, doc.products[member], entry - 1)

Beginnings ==
    /\ doc \in ProductsConfs \union {NoDocument}
    /\ served.doc \in ProductsConfs \union {NoDocument}
    /\ \A f \in File : /\ began.files[f] \in Nat /\ began.files[f] <= files[f].edit
                       /\ served.began.files[f] \in Nat /\ served.began.files[f] <= files[f].edit

RightInv ==
    /\ Beginnings
    /\ ServedRight
    /\ pc \in {"product", "domain"} => BuildingRight
    /\ pc = "domain" => CurrentRight

LEMMA RightInit == Init => RightInv
  <1> SUFFICES ASSUME Init PROVE RightInv
    OBVIOUS
  <1>1. Beginnings
    BY DEF Init, Beginnings, Beginning, EditsOf
  <1>2. ServedRight
    <2>1. served.doc.products = <<>> /\ Len(served.doc.products) = 0
      BY DEF Init, NoDocument
    <2>2. DOMAIN dict = {}
      BY DEF Init, Empty
    <2> QED BY <2>1, <2>2 DEF ServedRight, RightProducts
  <1> QED BY <1>1, <1>2 DEF Init, RightInv

LEMMA ServedStays ==
    ASSUME Beginnings, ServedRight, UNCHANGED <<dict, served>>,
           Later(files, files', served.began.files),
           \A x \in Reachable(dict) : heap'[x] = heap[x]
    PROVE  ServedRight'
  <1>1. PICK d : d = dict
    OBVIOUS
  <1>2. PICK s : s = served
    OBVIOUS
  <1>3. PICK conf : conf = s.doc
    OBVIOUS
  <1>4. PICK b : b = s.began.files
    OBVIOUS
  <1>5. PICK n : n = Len(conf.products)
    OBVIOUS
  <1>6. ListsOf(conf) /\ n \in Nat
    BY <1>2, <1>3, <1>5, DocumentLists DEF Beginnings, ListsOf
  <1>7. RightProducts(heap, files, b, d, conf, n)
    BY <1>1, <1>2, <1>3, <1>4, <1>5 DEF ServedRight
  <1>8. SameObjects(heap, heap', d)
    BY <1>1, AddressReachable DEF SameObjects, OfMap
  <1>9. Later(files, files', b)
    BY <1>2, <1>4
  <1>10. n <= Len(conf.products)
    BY <1>5, <1>6
  <1>11. RightProducts(heap', files', b, d, conf, n)
    BY <1>6, <1>7, <1>8, <1>9, <1>10, RightProductsStay
  <1>12. d = dict' /\ s = served' /\ conf = served'.doc /\ b = served'.began.files
         /\ n = Len(served'.doc.products)
    BY <1>1, <1>2, <1>3, <1>4, <1>5
  <1> QED BY <1>11, <1>12 DEF ServedRight

LEMMA BuildingStays ==
    ASSUME Beginnings, BuildingRight, UNCHANGED <<building, doc, member, began>>,
           Later(files, files', began.files),
           \A x \in Reachable(building) : heap'[x] = heap[x]
    PROVE  BuildingRight'
  <1>1. PICK d : d = building
    OBVIOUS
  <1>2. PICK conf : conf = doc
    OBVIOUS
  <1>3. PICK b : b = began.files
    OBVIOUS
  <1>4. PICK n : n = member - 1
    OBVIOUS
  <1>5. ListsOf(conf)
    BY <1>2, DocumentLists DEF Beginnings
  <1>6. n \in Nat /\ n <= Len(conf.products)
    BY <1>2, <1>4, <1>5 DEF BuildingRight, ListsOf
  <1>7. RightProducts(heap, files, b, d, conf, n)
    BY <1>1, <1>2, <1>3, <1>4 DEF BuildingRight
  <1>8. SameObjects(heap, heap', d)
    BY <1>1, AddressReachable DEF SameObjects, OfMap
  <1>9. Later(files, files', b)
    BY <1>3
  <1>10. RightProducts(heap', files', b, d, conf, n)
    BY <1>5, <1>6, <1>7, <1>8, <1>9, RightProductsStay
  <1>11. d = building' /\ conf = doc' /\ b = began'.files /\ n = member' - 1
    BY <1>1, <1>2, <1>3, <1>4
  <1> QED BY <1>10, <1>11 DEF BuildingRight

\* The entries of the product that the loop is at.
LEMMA CurrentEntries ==
    ASSUME Beginnings, member \in DOMAIN doc.products,
           entry \in 1..(Len(doc.products[member].domains) + 1)
    PROVE  /\ Len(doc.products[member].domains) \in Nat
           /\ DOMAIN doc.products[member].domains = 1..Len(doc.products[member].domains)
           /\ entry \in Nat \ {0} /\ entry - 1 \in Nat
           /\ FilesOf(doc.products[member], entry - 1)
  <1>1. ListsOf(doc)
    BY DocumentLists DEF Beginnings
  <1>2. PICK item : item = doc.products[member]
    OBVIOUS
  <1>3. PICK m : m = Len(item.domains)
    OBVIOUS
  <1>4. m \in Nat /\ DOMAIN item.domains = 1..m /\ FilesOf(item, m)
    BY <1>1, <1>2, <1>3 DEF ListsOf
  <1>5. entry \in 1..(m + 1)
    BY <1>2, <1>3
  <1>6. entry \in Nat \ {0} /\ entry - 1 \in Nat /\ 1..(entry - 1) \subseteq 1..m
    BY <1>4, <1>5
  <1>7. FilesOf(item, entry - 1)
    BY <1>4, <1>6 DEF FilesOf
  <1> QED BY <1>2, <1>3, <1>4, <1>6, <1>7

LEMMA CurrentStays ==
    ASSUME Beginnings, CurrentRight, UNCHANGED <<current, doc, member, entry, began>>,
           Later(files, files', began.files),
           \A x \in OfMap(current) : heap'[x] = heap[x]
    PROVE  CurrentRight'
  <1>1. PICK map : map = current.domains
    OBVIOUS
  <1>2. PICK item : item = doc.products[member]
    OBVIOUS
  <1>3. PICK b : b = began.files
    OBVIOUS
  <1>4. PICK n : n = entry - 1
    OBVIOUS
  <1>5. n \in Nat /\ FilesOf(item, n)
    BY <1>2, <1>4, CurrentEntries DEF CurrentRight
  <1>6. RightDomains(heap, files, b, map, item, n)
    BY <1>1, <1>2, <1>3, <1>4 DEF CurrentRight
  <1>7. \A d \in DOMAIN map : heap'[map[d]] = heap[map[d]]
    BY <1>1 DEF OfMap
  <1>8. RightDomains(heap', files', b, map, item, n)
    BY <1>3, <1>5, <1>6, <1>7, RightDomainsStay
  <1>9. map = current'.domains /\ item = doc'.products[member'] /\ b = began'.files
        /\ n = entry' - 1
    BY <1>1, <1>2, <1>3, <1>4
  <1> QED BY <1>8, <1>9 DEF CurrentRight

\* The files as they are; an edit makes a file later than any load.
LEMMA FilesLater ==
    ASSUME LoadInv, Beginnings,
           files' = files \/ \E f \in File, conf \in DomainConfs : EditFile(f, conf)
    PROVE  /\ Later(files, files', began.files) /\ Later(files, files', served.began.files)
           /\ \A f \in File : files'[f].edit >= files[f].edit /\ files[f].edit \in Nat
  <1>1. \A f \in File : files[f].edit \in Nat
    BY LoadingAssumption DEF LoadInv, Numbers
  <1>2. CASE files' = files
    BY <1>1, <1>2 DEF Later
  <1>3. ASSUME NEW f \in File, NEW conf \in DomainConfs, EditFile(f, conf)
        PROVE  /\ Later(files, files', began.files) /\ Later(files, files', served.began.files)
               /\ \A g \in File : files'[g].edit >= files[g].edit
    <2>1. \A g \in File :
            IF g = f THEN files'[g].edit = files[g].edit + 1 ELSE files'[g] = files[g]
      BY <1>3 DEF EditFile, LoadInv, Fresher
    <2>2. /\ files'[f].edit = files[f].edit + 1
          /\ began.files[f] <= files[f].edit /\ served.began.files[f] <= files[f].edit
          /\ began.files[f] \in Nat /\ served.began.files[f] \in Nat /\ files[f].edit \in Nat
      BY <1>1, <2>1 DEF Beginnings
    <2>3. files'[f].edit # began.files[f] /\ files'[f].edit # served.began.files[f]
      BY <2>2
    <2>4. Later(files, files', began.files) /\ Later(files, files', served.began.files)
      BY <2>1, <2>3 DEF Later
    <2> QED BY <1>1, <2>1, <2>4
  <1> QED BY <1>1, <1>2, <1>3

LEMMA BeginningsStay ==
    ASSUME LoadInv, Beginnings, UNCHANGED <<doc, served, began>>,
           files' = files \/ \E f \in File, conf \in DomainConfs : EditFile(f, conf)
    PROVE  Beginnings'
  <1>1. \A f \in File : files'[f].edit >= files[f].edit /\ files[f].edit \in Nat
    BY FilesLater
  <1>2. \A f \in File : files'[f].edit \in Nat
    <2>1. CASE files' = files
      BY <1>1, <2>1
    <2>2. ASSUME NEW f \in File, NEW conf \in DomainConfs, EditFile(f, conf)
          PROVE  \A g \in File : files'[g].edit \in Nat
      <3>1. \A g \in File :
              IF g = f THEN files'[g].edit = files[g].edit + 1 ELSE files'[g] = files[g]
        BY <2>2 DEF EditFile, LoadInv, Fresher
      <3> QED BY <1>1, <3>1
    <2> QED BY <2>1, <2>2
  <1>3. \A f \in File : began.files[f] <= files'[f].edit /\ served.began.files[f] <= files'[f].edit
    BY <1>1, <1>2 DEF Beginnings
  <1> QED BY <1>3 DEF Beginnings

\* Edits, and the steps that only look at products.json.
LEMMA RightUntouched ==
    ASSUME LoadInv, RightInv,
           UNCHANGED <<heap, dict, served, building, current, doc, member, entry, began>>,
           pc' \in {"product", "domain"} => pc' = pc,
           files' = files \/ \E f \in File, conf \in DomainConfs : EditFile(f, conf)
    PROVE  RightInv'
  <1>1. Beginnings /\ Beginnings'
    BY BeginningsStay DEF RightInv
  <1>2. Later(files, files', began.files) /\ Later(files, files', served.began.files)
    BY <1>1, FilesLater
  <1>3. ServedRight'
    BY <1>1, <1>2, ServedStays DEF RightInv
  <1>4. pc' \in {"product", "domain"} => BuildingRight'
    BY <1>1, <1>2, BuildingStays DEF RightInv
  <1>5. pc' = "domain" => CurrentRight'
    BY <1>1, <1>2, CurrentStays DEF RightInv
  <1> QED BY <1>1, <1>3, <1>4, <1>5 DEF RightInv

LEMMA RightRead ==
    ASSUME LoadInv, RightInv, ReadProducts
    PROVE  RightInv'
  <1>1. /\ UNCHANGED <<files, heap, dict, served>> /\ pc' = "product"
        /\ doc' = products.conf /\ member' = 1 /\ building' = Empty
        /\ began'.files = [f \in File |-> files[f].edit]
    BY DEF ReadProducts, Beginning, EditsOf, disk, inUse
  <1>2. Beginnings /\ Beginnings'
    <2>1. products.conf \in ProductsConfs /\ \A f \in File : files[f].edit \in Nat
      BY LoadingAssumption DEF LoadInv, Numbers
    <2> QED BY <1>1, <2>1 DEF RightInv, Beginnings
  <1>3. ServedRight'
    <2>1. Later(files, files', served.began.files)
      BY <1>1 DEF Later
    <2> QED BY <1>1, <1>2, <2>1, ServedStays DEF RightInv
  <1>4. BuildingRight'
    <2>1. ListsOf(doc')
      BY <1>2, DocumentLists DEF Beginnings
    <2>2. member' \in 1..(Len(doc'.products) + 1)
      BY <1>1, <2>1 DEF ListsOf
    <2>3. RightProducts(heap', files', began'.files, building', doc', 0)
      BY <1>1 DEF RightProducts, Empty
    <2>4. member' - 1 = 0
      BY <1>1
    <2> QED BY <2>2, <2>3, <2>4 DEF BuildingRight
  <1> QED BY <1>1, <1>2, <1>3, <1>4 DEF RightInv

LEMMA RightFails ==
    ASSUME LoadInv, HeapInv, RightInv, ReadFails \/ ProductFails
    PROVE  RightInv'
  <1>1. /\ UNCHANGED <<files, dict, served, doc, began>>
        /\ pc' \notin {"product", "domain"}
        /\ heap' = heap \/ heap' = Free(Reachable(building))
    BY DEF ReadFails, ProductFails, LoadFails, disk, inUse, Started
  <1>2. \A x \in Reachable(dict) : heap'[x] = heap[x]
    BY <1>1 DEF HeapInv, Allocated, Free
  <1>3. Beginnings /\ Beginnings'
    BY <1>1, BeginningsStay DEF RightInv
  <1>4. ServedRight'
    <2>1. Later(files, files', served.began.files)
      BY <1>1 DEF Later
    <2> QED BY <1>1, <1>2, <1>3, <2>1, ServedStays DEF RightInv
  <1> QED BY <1>1, <1>3, <1>4 DEF RightInv

\* Allocating disturbs nothing that is in use or being built.
LEMMA RightAllocates ==
    ASSUME LoadInv, HeapInv, RightInv, NEW a, Fresh(a), NEW object,
           heap' = Put(heap, a, object), pc \in {"product", "domain"},
           UNCHANGED <<files, dict, served, doc, building, member, began>>
    PROVE  Beginnings' /\ ServedRight' /\ BuildingRight'
  <1>1. \A x \in Reachable(dict) \union Reachable(building) : heap'[x] = heap[x]
    BY PutKeeps DEF HeapInv, Allocated
  <1>2. Beginnings /\ Beginnings'
    BY BeginningsStay DEF RightInv
  <1>3. Later(files, files', began.files) /\ Later(files, files', served.began.files)
    BY DEF Later
  <1> QED BY <1>1, <1>2, <1>3, ServedStays, BuildingStays DEF RightInv

LEMMA RightBeginProduct ==
    ASSUME LoadInv, HeapInv, RightInv, NEW a \in Address, BeginProduct(a)
    PROVE  RightInv'
  <1>1. /\ UNCHANGED <<files, dict, served, doc, building, member, began>>
        /\ pc = "product" /\ pc' = "domain" /\ member \in DOMAIN doc.products
        /\ Fresh(a) /\ heap' = Put(heap, a, MapObject)
        /\ current'.domains = Empty /\ entry' = 1
    BY DEF BeginProduct, disk, inUse
  <1>2. Beginnings' /\ ServedRight' /\ BuildingRight'
    BY <1>1, RightAllocates
  <1>3. Len(doc.products[member].domains) \in Nat
    <2>1. ListsOf(doc)
      BY DocumentLists DEF RightInv, Beginnings
    <2> QED BY <1>1, <2>1 DEF ListsOf
  <1>4. entry' - 1 = 0 /\ entry' \in 1..(Len(doc.products[member].domains) + 1)
    BY <1>1, <1>3
  <1>5. CurrentRight'
    BY <1>1, <1>4, RightDomainsEmpty DEF CurrentRight
  <1> QED BY <1>1, <1>2, <1>5 DEF RightInv

LEMMA RightLoadDomain ==
    ASSUME LoadInv, HeapInv, RightInv, NEW a \in Address, LoadDomain(a)
    PROVE  RightInv'
  <1>1. PICK item : item = doc.products[member]
    OBVIOUS
  <1>2. PICK n : n = entry
    OBVIOUS
  <1>3. PICK map : map = current.domains
    OBVIOUS
  <1>4. /\ UNCHANGED <<files, dict, served, doc, building, member, began>>
        /\ pc = "domain" /\ pc' = "domain" /\ n \in DOMAIN item.domains
        /\ item.domains[n].settings /\ files[item.domains[n].file].conf.array
        /\ Fresh(a) /\ heap' = Put(heap, a, VectorsOf(files, item, n))
        /\ current' = [current EXCEPT !.domains = Put(@, item.domains[n].name, a)]
        /\ entry' = n + 1
    BY <1>1, <1>2 DEF LoadDomain, DomainEntry, DomainFile, VectorsOf, disk, inUse
  <1>5. Beginnings' /\ ServedRight' /\ BuildingRight'
    BY <1>4, RightAllocates
  <1>6. /\ n \in Nat \ {0} /\ RightDomains(heap, files, began.files, map, item, n - 1)
        /\ member \in DOMAIN doc.products
    BY <1>1, <1>2, <1>3, <1>4, CurrentEntries DEF RightInv, CurrentRight
  <1>7. heap'[a] = VectorsOf(files, item, n)
        /\ \A d \in DOMAIN map : heap'[map[d]] = heap[map[d]]
    <2>1. \A d \in DOMAIN map : map[d] \in DOMAIN heap
      BY <1>3, <1>4 DEF HeapInv, CurrentAllocated, OfMap
    <2> QED BY <1>4, <2>1, PutKeeps
  <1>8. PICK map2 : map2 = Put(map, item.domains[n].name, a)
    OBVIOUS
  <1>9. RightDomains(heap', files, began.files, map2, item, n)
    BY <1>4, <1>6, <1>7, <1>8, RightDomainsLoad
  <1>10. current'.domains = map2
    BY <1>3, <1>4, <1>8 DEF HeapInv, IsMap
  <1>11. n + 1 \in 1..(Len(item.domains) + 1) /\ n + 1 - 1 = n
    <2>1. Len(item.domains) \in Nat /\ n \in 1..Len(item.domains)
      BY <1>1, <1>4, <1>6, CurrentEntries DEF RightInv, CurrentRight
    <2> QED BY <2>1
  <1>12. CurrentRight'
    BY <1>1, <1>4, <1>6, <1>9, <1>10, <1>11 DEF CurrentRight
  <1> QED BY <1>4, <1>5, <1>12 DEF RightInv

LEMMA RightSkipDomain ==
    ASSUME LoadInv, HeapInv, RightInv, SkipDomain
    PROVE  RightInv'
  <1>1. PICK item : item = doc.products[member]
    OBVIOUS
  <1>2. PICK n : n = entry
    OBVIOUS
  <1>3. /\ UNCHANGED <<heap, files, dict, served, doc, building, current, member, began>>
        /\ pc = "domain" /\ pc' = "domain" /\ n \in DOMAIN item.domains
        /\ ~ (item.domains[n].settings /\ files[item.domains[n].file].conf.array)
        /\ entry' = n + 1
    BY <1>1, <1>2 DEF SkipDomain, DomainEntry, DomainFile, disk, inUse
  <1>4. Beginnings /\ Beginnings'
    BY <1>3, BeginningsStay DEF RightInv
  <1>5. Later(files, files', began.files) /\ Later(files, files', served.began.files)
    BY <1>3 DEF Later
  <1>6. ServedRight' /\ BuildingRight'
    BY <1>3, <1>4, <1>5, ServedStays, BuildingStays DEF RightInv
  <1>7. /\ n \in Nat \ {0} /\ RightDomains(heap, files, began.files, current.domains, item, n - 1)
        /\ member \in DOMAIN doc.products
    BY <1>1, <1>2, <1>3, CurrentEntries DEF RightInv, CurrentRight
  <1>8. RightDomains(heap, files, began.files, current.domains, item, n)
    BY <1>3, <1>7, RightDomainsSkip
  <1>9. n + 1 \in 1..(Len(item.domains) + 1) /\ n + 1 - 1 = n
    <2>1. Len(item.domains) \in Nat /\ n \in 1..Len(item.domains)
      BY <1>1, <1>3, <1>7, CurrentEntries DEF RightInv, CurrentRight
    <2> QED BY <2>1
  <1>10. CurrentRight'
    BY <1>1, <1>3, <1>7, <1>8, <1>9 DEF CurrentRight
  <1> QED BY <1>3, <1>4, <1>6, <1>10 DEF RightInv

LEMMA RightEndProduct ==
    ASSUME LoadInv, RightInv, EndProduct
    PROVE  RightInv'
  <1>1. PICK n : n = member
    OBVIOUS
  <1>2. PICK item : item = doc.products[n]
    OBVIOUS
  <1>3. /\ UNCHANGED <<heap, files, dict, served, doc, began>>
        /\ pc = "domain" /\ pc' = "product" /\ member' = n + 1
        /\ entry \notin DOMAIN item.domains
        /\ building' = Put(building, item.name, current)
    BY <1>1, <1>2 DEF EndProduct, disk, inUse
  <1>4. Beginnings /\ Beginnings'
    BY <1>3, BeginningsStay DEF RightInv
  <1>5. Later(files, files', served.began.files)
    BY <1>3 DEF Later
  <1>6. ServedRight'
    BY <1>3, <1>4, <1>5, ServedStays DEF RightInv
  <1>7. Len(doc.products) \in Nat /\ n \in 1..Len(doc.products)
    <2>1. ListsOf(doc)
      BY <1>4, DocumentLists DEF Beginnings
    <2> QED BY <1>1, <1>3, <2>1 DEF RightInv, CurrentRight, ListsOf
  <1>8. entry - 1 = Len(item.domains)
    <2>1. /\ Len(item.domains) \in Nat /\ DOMAIN item.domains = 1..Len(item.domains)
          /\ entry \in 1..(Len(item.domains) + 1)
      BY <1>1, <1>2, <1>3, <1>4, CurrentEntries DEF RightInv, CurrentRight
    <2> QED BY <1>3, <2>1
  <1>9. RightDomains(heap, files, began.files, current.domains, doc.products[n],
                     Len(doc.products[n].domains))
    BY <1>1, <1>2, <1>3, <1>8 DEF RightInv, CurrentRight
  <1>10. RightProducts(heap, files, began.files, building, doc, n - 1) /\ n \in Nat \ {0}
    BY <1>1, <1>3, <1>7 DEF RightInv, BuildingRight
  <1>11. RightProducts(heap, files, began.files, building', doc, n)
    BY <1>2, <1>3, <1>9, <1>10, RightProductsPut
  <1>12. n + 1 \in 1..(Len(doc.products) + 1) /\ n + 1 - 1 = n
    BY <1>7
  <1>13. BuildingRight'
    <2>1. /\ heap' = heap /\ files' = files /\ began' = began /\ doc' = doc
          /\ member' = n + 1
      BY <1>3
    <2>2. member' - 1 = n
      <3>1. member' = n + 1 /\ n \in Nat
        BY <1>10, <2>1
      <3> QED BY ONLY <3>1
    <2>3. member' \in 1..(Len(doc'.products) + 1)
      BY <1>12, <2>1, Zenon
    <2>4. RightProducts(heap', files', began'.files, building', doc', member' - 1)
      BY <1>11, <2>1, <2>2, Zenon
    <2> QED BY <2>3, <2>4, Zenon DEF BuildingRight
  <1> QED BY <1>3, <1>4, <1>6, <1>13 DEF RightInv

LEMMA RightSwap ==
    ASSUME LoadInv, HeapInv, RightInv, Swap
    PROVE  RightInv'
  <1>1. /\ UNCHANGED <<files, doc, began>> /\ pc = "product" /\ pc' = "idle"
        /\ dict' = building /\ served'.doc = doc /\ served'.began = began
        /\ heap' = Free(Reachable(dict)) /\ member \notin DOMAIN doc.products
    BY DEF Swap, disk
  <1>2. Beginnings /\ Beginnings'
    BY <1>1 DEF RightInv, Beginnings
  <1>3. \A x \in Reachable(building) : heap'[x] = heap[x]
    BY <1>1 DEF HeapInv, Allocated, Free
  <1>4. PICK d : d = building
    OBVIOUS
  <1>5. PICK n : n = Len(doc.products)
    OBVIOUS
  <1>6. ListsOf(doc) /\ n \in Nat /\ n <= Len(doc.products)
    BY <1>2, <1>5, DocumentLists DEF Beginnings, ListsOf
  <1>7. member - 1 = n
    BY <1>1, <1>5, <1>6 DEF RightInv, BuildingRight, ListsOf
  <1>8. RightProducts(heap, files, began.files, d, doc, n)
    BY <1>1, <1>4, <1>7 DEF RightInv, BuildingRight
  <1>9. SameObjects(heap, heap', d)
    BY <1>3, <1>4, AddressReachable DEF SameObjects, OfMap
  <1>10. Later(files, files, began.files)
    BY DEF Later
  <1>11. RightProducts(heap', files, began.files, d, doc, n)
    BY <1>6, <1>8, <1>9, <1>10, RightProductsStay
  <1>12. ServedRight'
    BY <1>1, <1>4, <1>5, <1>11 DEF ServedRight
  <1> QED BY <1>1, <1>2, <1>12 DEF RightInv

\* What is in use, and what a load has built so far, is what the files hold,
\* for every name whose files have not been edited since.
THEOREM RightInvariance == Spec => []RightInv
  <1>1. ASSUME LoadInv, HeapInv, RightInv, [Next]_vars PROVE RightInv'
    <2>1. CASE \/ UNCHANGED vars
               \/ \E conf \in ProductsConfs : EditProducts(conf)
               \/ \E f \in File, conf \in DomainConfs : EditFile(f, conf)
               \/ StatProducts
      <3>1. /\ UNCHANGED <<heap, dict, served, building, current, doc, member, entry,
                           began>>
            /\ pc' \in {"product", "domain"} => pc' = pc
            /\ files' = files \/ \E f \in File, conf \in DomainConfs : EditFile(f, conf)
        BY <2>1 DEF vars, disk, loader, inUse, EditProducts, EditFile, StatProducts
      <3> QED BY <1>1, <3>1, RightUntouched
    <2> QED
      BY <1>1, <2>1, RightRead, RightFails, RightBeginProduct, RightLoadDomain,
         RightSkipDomain, RightEndProduct, RightSwap DEF Next, Reload
  <1> QED BY RightInit, <1>1, LoadInvariance, HeapInvariance, PTL DEF Spec
-----------------------------------------------------------------------------
(* The vectors that the loop over the policies of a file builds.           *)

\* Induction up to n, with a set for the predicate.
LEMMA UpTo ==
    ASSUME NEW n \in Nat, NEW S \in SUBSET (0..n), 0 \in S,
           \A i \in 1..n : i - 1 \in S => i \in S
    PROVE  n \in S
  <1> SUFFICES ASSUME n \notin S PROVE FALSE
    OBVIOUS
  <1> DEFINE R == {p \in Nat \X Nat : p[1] < p[2]} T == (0..n) \ S
  <1>1. IsWellFoundedOn(R, Nat)
    BY NatLessThanWellFounded DEF OpToRel
  <1>2. T \subseteq Nat /\ T # {}
    OBVIOUS
  <1> HIDE DEF R
  <1>3. PICK m \in T : \A y \in T : ~ (<<y, m>> \in R)
    BY <1>1, <1>2, WFMin
  <1>4. m \in 1..n /\ m - 1 \in 0..n /\ m - 1 < m
    OBVIOUS
  <1>5. <<m - 1, m>> \in R
    BY <1>4 DEF R
  <1>6. m - 1 \in S
    BY <1>3, <1>4, <1>5
  <1> QED BY <1>4, <1>6

PushedUpTo(pushed, n, list) ==
    pushed = [i \in 0..n |-> IF i = 0 THEN Empty ELSE Push(pushed[i - 1], list[i])]

LEMMA PushedExists ==
    ASSUME NEW list, Len(list) \in Nat
    PROVE  \E pushed : PushedUpTo(pushed, Len(list), list)
  <1> DEFINE S == {n \in 0..Len(list) : \E pushed : PushedUpTo(pushed, n, list)}
  <1>1. PushedUpTo([i \in 0..0 |-> Empty], 0, list)
    BY DEF PushedUpTo
  <1>2. ASSUME NEW n \in 1..Len(list), n - 1 \in S
        PROVE  n \in S
    <2>1. PICK f : PushedUpTo(f, n - 1, list)
      BY <1>2
    <2>2. PICK g : g = [i \in 0..n |-> IF i = n THEN Push(f[n - 1], list[n]) ELSE f[i]]
      OBVIOUS
    <2>3. \A i \in 0..(n - 1) : g[i] = f[i]
      BY <2>2
    <2>4. \A i \in 0..n : g[i] = IF i = 0 THEN Empty ELSE Push(g[i - 1], list[i])
      <3> SUFFICES ASSUME NEW i \in 0..n
                   PROVE  g[i] = IF i = 0 THEN Empty ELSE Push(g[i - 1], list[i])
        OBVIOUS
      <3>1. CASE i = n
        BY <2>2, <2>3, <3>1
      <3>2. CASE i # n
        <4>1. i \in 0..(n - 1) /\ (i # 0 => i - 1 \in 0..(n - 1))
          BY <3>2
        <4> QED BY <2>1, <2>3, <4>1 DEF PushedUpTo
      <3> QED BY <3>1, <3>2
    <2>5. PushedUpTo(g, n, list)
      BY <2>2, <2>4 DEF PushedUpTo
    <2> QED BY <2>5
  <1>3. 0 \in S
    BY <1>1
  <1> HIDE DEF S
  <1>4. S \in SUBSET (0..Len(list))
    BY DEF S
  <1>5. Len(list) \in S
    BY <1>2, <1>3, <1>4, UpTo
  <1> QED BY <1>5 DEF S

LEMMA IntentMapIs ==
    ASSUME NEW list, Len(list) \in Nat
    PROVE  \E pushed : /\ pushed[0] = Empty
                       /\ \A i \in 1..Len(list) : pushed[i] = Push(pushed[i - 1], list[i])
                       /\ IntentMap(list) = pushed[Len(list)]
  <1> DEFINE pushed[i \in 0..Len(list)] ==
                IF i = 0 THEN Empty ELSE Push(pushed[i - 1], list[i])
  <1>1. PushedUpTo(pushed, Len(list), list)
    BY PushedExists DEF PushedUpTo
  <1>2. IntentMap(list) = pushed[Len(list)]
    BY DEF IntentMap
  <1>3. PICK f : f = pushed
    OBVIOUS
  <1>4. PushedUpTo(f, Len(list), list) /\ IntentMap(list) = f[Len(list)]
    BY <1>1, <1>2, <1>3
  <1> HIDE DEF pushed
  <1>5. f[0] = Empty
    BY <1>4 DEF PushedUpTo
  <1>6. \A i \in 1..Len(list) : f[i] = Push(f[i - 1], list[i])
    BY <1>4 DEF PushedUpTo
  <1> QED BY <1>4, <1>5, <1>6

LEMMA HoldsOne ==
    ASSUME NEW list, NEW n \in Nat
    PROVE  HoldsInOrder(<<list[n]>>, list, {n})
  <1>1. PICK v : v = <<list[n]>>
    OBVIOUS
  <1>2. DOMAIN v = {1} /\ v[1] = list[n]
    BY <1>1
  <1>3. IsList(v)
    BY <1>1 DEF IsList
  <1>4. PICK at : at = [k \in DOMAIN v |-> n]
    OBVIOUS
  <1>5. /\ at \in [DOMAIN v -> {n}] /\ {at[k] : k \in DOMAIN at} = {n}
        /\ \A k, l \in DOMAIN at : ~ (k < l)
        /\ \A k \in DOMAIN at : v[k] = list[at[k]]
    BY <1>2, <1>4
  <1>6. HoldsInOrder(v, list, {n})
    BY <1>3, <1>5 DEF HoldsInOrder
  <1> QED BY <1>1, <1>6

LEMMA ListAppend ==
    ASSUME NEW v, IsList(v), NEW e
    PROVE  /\ IsList(Append(v, e)) /\ Len(v) \in Nat /\ DOMAIN v = 1..Len(v)
           /\ DOMAIN Append(v, e) = 1..(Len(v) + 1)
           /\ Append(v, e)[Len(v) + 1] = e
           /\ \A k \in DOMAIN v : Append(v, e)[k] = v[k]
  <1>1. PICK S : S = {v[i] : i \in DOMAIN v}
    OBVIOUS
  <1>2. v \in Seq(S)
    BY <1>1 DEF IsList
  <1>3. Len(v) \in Nat /\ DOMAIN v = 1..Len(v)
    BY <1>2
  <1>4. v \in Seq(S \union {e})
    BY <1>2, SeqMonotonic
  <1>5. PICK w : w = Append(v, e)
    OBVIOUS
  <1>6. /\ w \in Seq(S \union {e}) /\ Len(w) = Len(v) + 1 /\ DOMAIN w = 1..(Len(v) + 1)
        /\ w[Len(v) + 1] = e /\ \A k \in 1..Len(v) : w[k] = v[k]
    BY <1>3, <1>4, <1>5, AppendProperties
  <1>7. \A x \in S \union {e} : \E k \in DOMAIN w : w[k] = x
    BY <1>1, <1>3, <1>6
  <1>8. S \union {e} \subseteq {w[k] : k \in DOMAIN w}
    BY <1>7
  <1>9. w \in Seq({w[k] : k \in DOMAIN w})
    BY <1>6, <1>8, SeqMonotonic
  <1> QED BY <1>3, <1>5, <1>6, <1>9 DEF IsList

LEMMA HoldsAppend ==
    ASSUME NEW list, NEW n \in Nat \ {0}, NEW places \in SUBSET (1..(n - 1)),
           NEW v, HoldsInOrder(v, list, places)
    PROVE  HoldsInOrder(Append(v, list[n]), list, places \union {n})
  <1>1. IsList(v)
    BY DEF HoldsInOrder
  <1>2. PICK at \in [DOMAIN v -> places] :
            /\ {at[k] : k \in DOMAIN at} = places
            /\ \A k, l \in DOMAIN at : k < l => at[k] < at[l]
            /\ \A k \in DOMAIN at : v[k] = list[at[k]]
    BY DEF HoldsInOrder
  <1>3. PICK w : w = Append(v, list[n])
    OBVIOUS
  <1>4. PICK m : m = Len(v)
    OBVIOUS
  <1>5. /\ IsList(w) /\ m \in Nat /\ DOMAIN v = 1..m /\ DOMAIN w = 1..(m + 1)
        /\ w[m + 1] = list[n] /\ \A k \in 1..m : w[k] = v[k]
    BY <1>1, <1>3, <1>4, ListAppend
  <1>6. PICK to : to = [k \in 1..(m + 1) |-> IF k = m + 1 THEN n ELSE at[k]]
    OBVIOUS
  <1>7. /\ DOMAIN to = 1..(m + 1) /\ to[m + 1] = n
        /\ \A k \in 1..m : to[k] = at[k] /\ at[k] \in places /\ at[k] < n
    <2>1. \A k \in 1..m : k \in 1..(m + 1) /\ k # m + 1
      BY <1>5
    <2>2. \A x \in places : x < n
      OBVIOUS
    <2>3. \A k \in 1..m : at[k] \in places
      BY <1>5
    <2>4. m + 1 \in 1..(m + 1)
      BY <1>5
    <2> QED BY <1>6, <2>1, <2>2, <2>3, <2>4
  <1>8. \A k \in 1..(m + 1) : k = m + 1 \/ k \in 1..m
    BY <1>5
  <1>9. m + 1 \in 1..(m + 1) /\ 1..m \subseteq 1..(m + 1)
    BY <1>5
  <1>10. to \in [DOMAIN w -> places \union {n}]
    <2>1. \A k \in 1..(m + 1) : to[k] \in places \union {n}
      BY <1>7, <1>8
    <2>2. to \in [1..(m + 1) -> places \union {n}]
      BY <1>6, <2>1
    <2> QED BY <1>5, <2>2
  <1>11. {to[k] : k \in DOMAIN to} = places \union {n}
    <2>1. ASSUME NEW x \in places PROVE \E k \in DOMAIN to : to[k] = x
      BY <1>2, <1>5, <1>7, <1>9
    <2>2. ASSUME NEW k \in DOMAIN to PROVE to[k] \in places \union {n}
      BY <1>7, <1>8
    <2>3. \A x \in places \union {n} : \E k \in DOMAIN to : to[k] = x
      BY <1>7, <1>9, <2>1
    <2> QED BY <2>2, <2>3, Zenon
  <1>12. \A k, l \in DOMAIN to : k < l => to[k] < to[l]
    <2> SUFFICES ASSUME NEW k \in 1..(m + 1), NEW l \in 1..(m + 1), k < l
                 PROVE  to[k] < to[l]
      BY <1>7
    <2>1. k \in 1..m
      BY <1>5
    <2> QED BY <1>2, <1>5, <1>7, <1>8, <2>1
  <1>13. \A k \in DOMAIN to : w[k] = list[to[k]]
    BY <1>2, <1>5, <1>7, <1>8
  <1>14. HoldsInOrder(w, list, places \union {n})
    BY <1>5, <1>10, <1>11, <1>12, <1>13 DEF HoldsInOrder
  <1> QED BY <1>3, <1>14

\* What the loop has built of the first n policies.
ValidTo(list, n) == {k \in 1..n : list[k].valid}

PlacesTo(list, n, i) == {k \in ValidTo(list, n) : list[k].intent = i}

IsPromisedTo(map, list, n) ==
    /\ \A i : i \in DOMAIN map <=> PlacesTo(list, n, i) # {}
    /\ \A i \in DOMAIN map : HoldsInOrder(map[i], list, PlacesTo(list, n, i))

LEMMA PushPromised ==
    ASSUME NEW list, NEW n \in Nat \ {0}, NEW map, IsPromisedTo(map, list, n - 1)
    PROVE  IsPromisedTo(Push(map, list[n]), list, n)
  <1>1. PICK policy : policy = list[n]
    OBVIOUS
  <1>2. PICK next : next = Push(map, policy)
    OBVIOUS
  <1>3. 1..(n - 1) \subseteq 1..n /\ n \in 1..n /\ n \notin 1..(n - 1)
        /\ \A k \in 1..n : k = n \/ k \in 1..(n - 1)
    OBVIOUS
  <1>4. CASE ~ policy.valid
    <2>1. next = map
      BY <1>2, <1>4 DEF Push
    <2>2. \A i : PlacesTo(list, n, i) = PlacesTo(list, n - 1, i)
      BY <1>1, <1>3, <1>4 DEF PlacesTo, ValidTo
    <2>3. IsPromisedTo(next, list, n)
      BY <2>1, <2>2 DEF IsPromisedTo
    <2> QED BY <1>1, <1>2, <2>3
  <1>5. CASE policy.valid
    <2>1. PICK i : i = policy.intent
      OBVIOUS
    <2>2. PlacesTo(list, n, i) = PlacesTo(list, n - 1, i) \union {n}
      BY <1>1, <1>3, <1>5, <2>1 DEF PlacesTo, ValidTo
    <2>3. \A j : j # i => PlacesTo(list, n, j) = PlacesTo(list, n - 1, j)
      BY <1>1, <1>3, <2>1 DEF PlacesTo, ValidTo
    <2>4. PlacesTo(list, n - 1, i) \in SUBSET (1..(n - 1))
      BY DEF PlacesTo, ValidTo
    <2>5. /\ DOMAIN next = DOMAIN map \union {i}
          /\ \A j \in DOMAIN map : j # i => next[j] = map[j]
          /\ HoldsInOrder(next[i], list, PlacesTo(list, n, i))
      <3>1. CASE i \in DOMAIN map
        <4>1. next = [map EXCEPT ![i] = Append(map[i], policy)]
          BY <1>2, <1>5, <2>1, <3>1 DEF Push
        <4>2. /\ DOMAIN next = DOMAIN map /\ next[i] = Append(map[i], policy)
              /\ \A j \in DOMAIN map : j # i => next[j] = map[j]
          BY <3>1, <4>1
        <4>3. HoldsInOrder(map[i], list, PlacesTo(list, n - 1, i))
          BY <3>1 DEF IsPromisedTo
        <4>4. HoldsInOrder(Append(map[i], list[n]), list, PlacesTo(list, n - 1, i) \union {n})
          BY <2>4, <4>3, HoldsAppend
        <4>5. HoldsInOrder(next[i], list, PlacesTo(list, n, i))
          BY <1>1, <2>2, <4>2, <4>4
        <4> QED BY <3>1, <4>2, <4>5
      <3>2. CASE i \notin DOMAIN map
        <4>1. next = Put(map, i, <<policy>>)
          BY <1>2, <1>5, <2>1, <3>2 DEF Push
        <4>2. /\ DOMAIN next = DOMAIN map \union {i} /\ next[i] = <<policy>>
              /\ \A j \in DOMAIN map : j # i => next[j] = map[j]
          BY <4>1 DEF Put
        <4>3. PlacesTo(list, n, i) = {n}
          BY <2>2, <3>2 DEF IsPromisedTo
        <4>4. HoldsInOrder(<<list[n]>>, list, {n})
          BY HoldsOne
        <4> QED BY <1>1, <4>2, <4>3, <4>4
      <3> QED BY <3>1, <3>2
    <2>6. \A j : j \in DOMAIN next <=> PlacesTo(list, n, j) # {}
      BY <2>2, <2>3, <2>5 DEF IsPromisedTo
    <2>7. \A j \in DOMAIN next : HoldsInOrder(next[j], list, PlacesTo(list, n, j))
      BY <2>3, <2>5 DEF IsPromisedTo
    <2>8. IsPromisedTo(next, list, n)
      BY <2>6, <2>7 DEF IsPromisedTo
    <2> QED BY <1>1, <1>2, <2>8
  <1> QED BY <1>4, <1>5

\* For every list of policies, load_domain_policy (lines 351-372) builds the
\* vectors that the file promises: of each intent that a valid policy has,
\* exactly its valid policies, in file order.
THEOREM IntentMapPromised ==
    ASSUME NEW list, IsList(list)
    PROVE  IsPromisedBy(IntentMap(list), list)
  <1>1. Len(list) \in Nat /\ DOMAIN list = 1..Len(list)
    BY ListDomain
  <1>2. PICK f : /\ f[0] = Empty
                 /\ \A i \in 1..Len(list) : f[i] = Push(f[i - 1], list[i])
                 /\ IntentMap(list) = f[Len(list)]
    BY <1>1, IntentMapIs
  <1> DEFINE S == {n \in 0..Len(list) : IsPromisedTo(f[n], list, n)}
  <1>3. 0 \in S
    <2>1. \A i : PlacesTo(list, 0, i) = {}
      BY DEF PlacesTo, ValidTo
    <2>2. IsPromisedTo(f[0], list, 0)
      BY <1>2, <2>1 DEF IsPromisedTo, Empty
    <2> QED BY <1>1, <2>2
  <1>4. ASSUME NEW n \in 1..Len(list), n - 1 \in S PROVE n \in S
    <2>1. n \in Nat \ {0}
      BY <1>1
    <2>2. IsPromisedTo(Push(f[n - 1], list[n]), list, n)
      BY <1>4, <2>1, PushPromised
    <2>3. IsPromisedTo(f[n], list, n)
      BY <1>2, <2>2
    <2> QED BY <1>1, <2>3
  <1> HIDE DEF S
  <1>5. S \in SUBSET (0..Len(list))
    BY DEF S
  <1>6. Len(list) \in S
    BY <1>1, <1>3, <1>4, <1>5, UpTo
  <1>7. PICK map : map = IntentMap(list)
    OBVIOUS
  <1>8. IsPromisedTo(map, list, Len(list))
    BY <1>2, <1>6, <1>7 DEF S
  <1>9. IsPromisedBy(map, list)
    BY <1>1, <1>8 DEF IsPromisedBy, IsPromisedTo, PlacesTo, ValidTo
  <1> QED BY <1>7, <1>9

\* InUseUnlessEditedSince: for any documents, edits and failed loads, the
\* policies in use are those that the files promise, for every domain whose
\* files have not been edited since the load began.
THEOREM InUseAsPromised == Spec => []InUseUnlessEditedSince
  <1>1. RightInv /\ LoadInv => InUseUnlessEditedSince
    <2> SUFFICES ASSUME RightInv, LoadInv PROVE InUseUnlessEditedSince
      OBVIOUS
    <2>1. PICK list : list = served.doc.products
      OBVIOUS
    <2>2. PICK n : n = Len(list)
      OBVIOUS
    <2>3. ListsOf(served.doc)
      BY DocumentLists DEF RightInv, Beginnings
    <2>4. n \in Nat /\ DOMAIN list = 1..n
      BY <2>1, <2>2, <2>3 DEF ListsOf
    <2>5. RightProducts(heap, files, served.began.files, dict, served.doc, n)
      BY <2>1, <2>2 DEF RightInv, ServedRight
    <2>6. DOMAIN dict = NamesOf(list)
      BY <2>1, <2>4, <2>5 DEF RightProducts, NamesOf
    <2>7. ASSUME NEW i \in DOMAIN list,
                 list[i].name \notin {list[k].name : k \in {k \in DOMAIN list : k > i}},
                 NEW d, Unedited(list[i], d)
          PROVE  /\ d \in DOMAIN dict[list[i].name].domains <=> Good(list[i], d) # {}
                 /\ \A j \in Good(list[i], d) :
                     (\A k \in Good(list[i], d) : k <= j) =>
                       IsPromisedBy(heap[dict[list[i].name].domains[d]],
                                    files[list[i].domains[j].file].conf.policies)
      <3>1. PICK item : item = list[i]
        OBVIOUS
      <3>2. PICK m : m = Len(item.domains)
        OBVIOUS
      <3>3. PICK map : map = dict[item.name].domains
        OBVIOUS
      <3>4. m \in Nat /\ DOMAIN item.domains = 1..m /\ FilesOf(item, m)
        BY <2>1, <3>1, <3>2, <2>3 DEF ListsOf
      <3>5. RightDomains(heap, files, served.began.files, map, item, m)
        BY <2>1, <2>4, <2>5, <2>7, <3>1, <3>2, <3>3 DEF RightProducts
      <3>6. UneditedTo(files, served.began.files, item, m, d)
        BY <2>7, <3>1, <3>4 DEF Unedited, UneditedTo
      <3>7. Good(item, d) = LoadableTo(files, item, m, d)
        BY <3>4 DEF Good, LoadableTo
      <3>8. RightDomain(heap, files, map, item, m, d)
        BY <3>5, <3>6 DEF RightDomains
      <3>9. d \in DOMAIN map <=> Good(item, d) # {}
        BY <3>7, <3>8 DEF RightDomain
      <3>10. ASSUME NEW j \in Good(item, d), \A k \in Good(item, d) : k <= j
             PROVE  IsPromisedBy(heap[map[d]], files[item.domains[j].file].conf.policies)
        <4>1. heap[map[d]] = IntentMap(files[item.domains[j].file].conf.policies)
          BY <3>7, <3>8, <3>10 DEF RightDomain, VectorsOf
        <4>2. item.domains[j].file \in File
          BY <3>4 DEF FilesOf, Good
        <4>3. IsList(files[item.domains[j].file].conf.policies)
          BY <4>2, LoadingAssumption DEF LoadInv, Numbers
        <4> QED BY <4>1, <4>3, IntentMapPromised
      <3> QED BY <3>1, <3>3, <3>9, <3>10
    <2> QED BY <2>1, <2>6, <2>7 DEF InUseUnlessEditedSince
  <1> QED BY <1>1, RightInvariance, LoadInvariance, PTL
=============================================================================
