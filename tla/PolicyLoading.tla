--------------------------- MODULE PolicyLoading ----------------------------
(***************************************************************************)
(* How PolicyManager loads its policies: products.json names the products, *)
(* their domains and the file of each domain; load_policy_dict reads it    *)
(* and then one domain file after the other, while operators go on editing *)
(* them.  An entry of products.json that is not an object fails the load,  *)
(* and the policies in use stay; a domain whose settings or file are bad   *)
(* is skipped, and the load succeeds without it (policy_manager.cpp        *)
(* 246-373).  Only products.json is watched (lines 134-135): the watcher   *)
(* calls reload when its time differs from the one recorded, and records   *)
(* the time it has seen before the reload only if that returns 0           *)
(* (file_watcher.cpp 90-101).  These times are ctime() strings, which tell *)
(* seconds apart and nothing less: an edit in the second of the one before *)
(* has the same time.  A later edit never has an earlier time.             *)
(*                                                                         *)
(* The dict, the domain maps and the domain policies are bare pointers, so *)
(* heap says which of them are allocated.  A DomainPolicy and the policies *)
(* it owns count as one object.  The old dict is freed at the swap;        *)
(* SharedConf looks at the requests that may still hold it.  The load of   *)
(* PolicyManager::init is the same one: until it has succeeded, seen is 0. *)
(***************************************************************************)
EXTENDS Naturals, Sequences, FiniteSets

CONSTANTS
    File,             \* the files of domains
    ProductsConfs,    \* contents of products.json
    DomainConfs,      \* contents of a domain file
    Address,          \* where objects are allocated
    MapObject,        \* the content of an address that holds a DomainPolicyMap
    MaxProductsEdits, \* bound: edits of products.json, the first included
    MaxFileEdits      \* bound: edits of each domain file, the first included

\* products.json is an object or cannot be parsed; its members are products,
\* which are objects or not, of domains, whose settings (score and conf_path)
\* are right or not.  A domain file is an array of policies or cannot be
\* loaded; a policy is valid when it has a trigger with an intent.
IsList(list) == list \in Seq({list[i] : i \in DOMAIN list})

ASSUME LoadingAssumption ==
    /\ \A conf \in ProductsConfs :
        /\ DOMAIN conf = {"object", "products"} /\ conf.object \in BOOLEAN
        /\ IsList(conf.products)
        /\ \A i \in DOMAIN conf.products :
            /\ DOMAIN conf.products[i] = {"name", "object", "domains"}
            /\ IsList(conf.products[i].domains)
            /\ \A j \in DOMAIN conf.products[i].domains :
                conf.products[i].domains[j].file \in File
    /\ \A conf \in DomainConfs :
        /\ DOMAIN conf = {"array", "policies"} /\ conf.array \in BOOLEAN
        /\ IsList(conf.policies)
    /\ MaxProductsEdits \in Nat \ {0} /\ MaxFileEdits \in Nat \ {0}

VARIABLES
    products,  \* products.json on disk, the number of its edit, its second
    files,     \* the domain files on disk, and the numbers of their edits
    heap,      \* what each allocated address holds
    dict,      \* _p_policy_dict
    seen,      \* the second that the watcher has recorded; 0 before that
    polled,    \* the second that it saw when it called reload
    pc,        \* "idle", "read", "product", "domain", "down"
    doc,       \* the content of products.json being loaded
    member,    \* the member of doc the loop is at
    entry,     \* the member of that product the inner loop is at
    building,  \* product_policy_map
    current,   \* domain_policy_map
    began,     \* history: the edit of products.json that the load has read,
               \* its second, and the edit of each domain file at that time
    served,    \* history: the load that built dict
    clash,     \* history: a document loaded named something twice
    atEdit     \* history: the edit of each file at the last edit of products.json

disk == <<products, files, atEdit>>
loader == <<polled, doc, member, entry, building, current, began, clash>>
inUse == <<dict, seen, served>>
vars == <<disk, loader, inUse, heap, pc>>

Empty == [x \in {} |-> x]
NoDocument == [object |-> FALSE, products |-> <<>>]
NoMap == [address |-> 0, domains |-> Empty]

EditsOf == [f \in File |-> files[f].edit]
Beginning == [edit |-> products.edit, sec |-> products.sec, files |-> EditsOf]

\* The server starts: nothing is loaded yet.
Init ==
    /\ \E conf \in ProductsConfs : products = [edit |-> 1, sec |-> 1, conf |-> conf]
    /\ files \in [File -> [edit : {1}, conf : DomainConfs]]
    /\ atEdit = EditsOf
    /\ heap = Empty /\ dict = Empty
    /\ seen = 0 /\ polled = 0
    /\ pc = "idle"
    /\ doc = NoDocument /\ member = 0 /\ entry = 0
    /\ building = Empty /\ current = NoMap
    /\ began = Beginning /\ clash = FALSE
    /\ served = [doc |-> NoDocument, began |-> Beginning]
-----------------------------------------------------------------------------
\* Operators.  Edits during the first load are the subject of FileWatcher.
Started == seen > 0

\* products.json is edited in the second of its last edit or in a later one;
\* times are only compared for equality, so one later second stands for all.
EditProducts(conf) ==
    /\ Started /\ products.edit < MaxProductsEdits
    /\ \E sec \in {products.sec, products.sec + 1} :
        products' = [edit |-> products.edit + 1, sec |-> sec, conf |-> conf]
    /\ atEdit' = EditsOf
    /\ UNCHANGED <<files, loader, inUse, heap, pc>>

EditFile(f, conf) ==
    /\ Started /\ files[f].edit < MaxFileEdits
    /\ files' = [files EXCEPT ![f] = [edit |-> @.edit + 1, conf |-> conf]]
    /\ UNCHANGED <<products, atEdit, loader, inUse, heap, pc>>
-----------------------------------------------------------------------------
(* Objects.  Maps are functions; inserting under a name that is there      *)
(* replaces the pointer and frees nothing (FlatMap::insert).               *)
Put(map, key, value) ==
    [k \in DOMAIN map \union {key} |-> IF k = key THEN value ELSE map[k]]

OfMap(map) == {map.address} \union {map.domains[d] : d \in DOMAIN map.domains}

\* Every object that destroy_policy_dict finds.
Reachable(d) == UNION {OfMap(d[p]) : p \in DOMAIN d}

Free(addresses) == [a \in DOMAIN heap \ addresses |-> heap[a]]

\* An address that is not in use, as new returns it; bounded by Address.
Fresh(a) == a \notin DOMAIN heap /\ \A b \in Address \ DOMAIN heap : a <= b

Repeats(conf) ==
    LET Twice(list) ==
            \E i, j \in DOMAIN list : i # j /\ list[i].name = list[j].name
    IN  Twice(conf.products) \/ \E i \in DOMAIN conf.products :
            Twice(conf.products[i].domains)

\* Mutant: the vector is inserted whether or not the intent has one
PushReplaces(map, policy) ==
    IF ~ policy.valid THEN map ELSE Put(map, policy.intent, <<policy>>)

\* A valid policy is appended to the vector of its intent, which is created by
\* the first of them.
Push(map, policy) ==
    IF ~ policy.valid THEN map
    ELSE IF policy.intent \in DOMAIN map
         THEN [map EXCEPT ![policy.intent] = Append(@, policy)]
         ELSE Put(map, policy.intent, <<policy>>)

\* The vectors of policies by intent that a domain file yields.
IntentMap(policies) ==
    LET pushed[n \in 0..Len(policies)] ==
            IF n = 0 THEN Empty ELSE Push(pushed[n - 1], policies[n])
    IN  pushed[Len(policies)]
-----------------------------------------------------------------------------
\* Mutant: the times are not compared
StatProductsAlways ==
    /\ pc = "idle"
    /\ polled' = products.sec
    /\ pc' = "read"
    /\ UNCHANGED <<disk, inUse, heap, doc, member, entry, building, current,
                   began, clash>>

\* The watcher sees another time of products.json than the one recorded, and
\* calls reload; before the first load, init calls it.
StatProducts ==
    /\ pc = "idle" /\ products.sec # seen
    /\ polled' = products.sec
    /\ pc' = "read"
    /\ UNCHANGED <<disk, inUse, heap, doc, member, entry, building, current,
                   began, clash>>

\* A load that fails frees what it has built and changes nothing else; the
\* first load fails the start of the server.
LoadFails(ownHeap) ==
    /\ heap' = ownHeap
    /\ pc' = IF Started THEN "idle" ELSE "down"
    /\ building' = Empty /\ current' = NoMap
    /\ UNCHANGED <<disk, inUse, polled, doc, member, entry>>

\* products.json is opened and parsed.
ReadProducts ==
    /\ pc = "read"
    /\ products.conf.object
    /\ doc' = products.conf
    /\ member' = 1 /\ building' = Empty
    /\ began' = Beginning
    /\ clash' = (clash \/ Repeats(products.conf))
    /\ pc' = "product"
    /\ UNCHANGED <<disk, inUse, heap, polled, entry, current>>

ReadFails ==
    /\ pc = "read"
    /\ ~ products.conf.object
    /\ LoadFails(heap)
    /\ UNCHANGED <<began, clash>>

\* The next product: its map is allocated.
BeginProduct(a) ==
    /\ pc = "product" /\ member \in DOMAIN doc.products
    /\ doc.products[member].object
    /\ Fresh(a)
    /\ heap' = Put(heap, a, MapObject)
    /\ current' = [address |-> a, domains |-> Empty]
    /\ entry' = 1
    /\ pc' = "domain"
    /\ UNCHANGED <<disk, inUse, polled, doc, member, building, began, clash>>

\* Mutant: what is built is not destroyed when a product is not an object
ProductFailsUndestroyed ==
    /\ pc = "product" /\ member \in DOMAIN doc.products
    /\ ~ doc.products[member].object
    /\ LoadFails(heap)
    /\ UNCHANGED <<began, clash>>

\* Mutant: the time is recorded although the load has failed
ProductFailsStampedNow ==
    /\ pc = "product" /\ member \in DOMAIN doc.products
    /\ ~ doc.products[member].object
    /\ heap' = Free(Reachable(building))
    /\ pc' = IF Started THEN "idle" ELSE "down"
    /\ seen' = products.sec
    /\ building' = Empty /\ current' = NoMap
    /\ UNCHANGED <<disk, dict, served, polled, doc, member, entry, began, clash>>

\* The next product is not an object.
ProductFails ==
    /\ pc = "product" /\ member \in DOMAIN doc.products
    /\ ~ doc.products[member].object
    /\ LoadFails(Free(Reachable(building)))
    /\ UNCHANGED <<began, clash>>

DomainEntry == doc.products[member].domains[entry]

DomainFile(e) == files[e.file].conf

\* The next domain is loaded, its policies taken from the file as it is now.
LoadDomain(a) ==
    /\ pc = "domain" /\ entry \in DOMAIN doc.products[member].domains
    /\ DomainEntry.settings /\ DomainFile(DomainEntry).array
    /\ Fresh(a)
    /\ heap' = Put(heap, a, IntentMap(DomainFile(DomainEntry).policies))
    /\ current' = [current EXCEPT !.domains = Put(@, DomainEntry.name, a)]
    /\ entry' = entry + 1
    /\ UNCHANGED <<disk, inUse, pc, polled, doc, member, building, began, clash>>

\* Mutant: the domain keeps the policies it has
SkipDomainKeepsOld ==
    /\ pc = "domain" /\ entry \in DOMAIN doc.products[member].domains
    /\ ~ (DomainEntry.settings /\ DomainFile(DomainEntry).array)
    /\ entry' = entry + 1
    /\ LET p == doc.products[member].name
           d == DomainEntry.name
       IN  current' =
            IF p \in DOMAIN dict /\ d \in DOMAIN dict[p].domains
            THEN [current EXCEPT !.domains = Put(@, d, dict[p].domains[d])]
            ELSE current
    /\ UNCHANGED <<disk, inUse, heap, pc, polled, doc, member, building,
                   began, clash>>

\* The next domain is skipped: bad settings, or a file that cannot be loaded.
SkipDomain ==
    /\ pc = "domain" /\ entry \in DOMAIN doc.products[member].domains
    /\ ~ (DomainEntry.settings /\ DomainFile(DomainEntry).array)
    /\ entry' = entry + 1
    /\ UNCHANGED <<disk, inUse, heap, pc, polled, doc, member, building,
                   current, began, clash>>

EndProduct ==
    /\ pc = "domain" /\ entry \notin DOMAIN doc.products[member].domains
    /\ building' = Put(building, doc.products[member].name, current)
    /\ current' = NoMap
    /\ member' = member + 1
    /\ pc' = "product"
    /\ UNCHANGED <<disk, inUse, heap, polled, doc, entry, began, clash>>

\* Mutant: the time is recorded when the reload returns
SwapStampedNow ==
    /\ pc = "product" /\ member \notin DOMAIN doc.products
    /\ dict' = building
    /\ heap' = Free(Reachable(dict))
    /\ served' = [doc |-> doc, began |-> began]
    /\ seen' = products.sec
    /\ building' = Empty
    /\ pc' = "idle"
    /\ UNCHANGED <<disk, polled, doc, member, entry, current, began, clash>>

\* The load is complete: the dict is replaced, the old one is freed, reload
\* returns 0, and the watcher records the time it has polled.
Swap ==
    /\ pc = "product" /\ member \notin DOMAIN doc.products
    /\ dict' = building
    /\ heap' = Free(Reachable(dict))
    /\ served' = [doc |-> doc, began |-> began]
    /\ seen' = polled
    /\ building' = Empty
    /\ pc' = "idle"
    /\ UNCHANGED <<disk, polled, doc, member, entry, current, began, clash>>

Reload ==
    \/ StatProducts \/ ReadProducts \/ ReadFails
    \/ ProductFails \/ SkipDomain \/ EndProduct \/ Swap
    \/ \E a \in Address : BeginProduct(a) \/ LoadDomain(a)

Next ==
    \/ Reload
    \/ \E conf \in ProductsConfs : EditProducts(conf)
    \/ \E f \in File, conf \in DomainConfs : EditFile(f, conf)

Spec == Init /\ [][Next]_vars

\* The watcher thread keeps polling and a load is a loop without waits.
FairSpec == Spec /\ WF_vars(Reload)
-----------------------------------------------------------------------------
\* Types; a load is past its first step only while there is something to load.
TypeOK ==
    /\ products.edit \in 1..MaxProductsEdits /\ products.conf \in ProductsConfs
    /\ \A f \in File :
         files[f].edit \in 1..MaxFileEdits /\ files[f].conf \in DomainConfs
    /\ DOMAIN heap \subseteq Address
    /\ products.sec \in 1..products.edit
    /\ seen \in 0..products.sec /\ polled \in 0..products.sec
    /\ pc \in {"idle", "read", "product", "domain", "down"}
    /\ pc = "down" => ~ Started
    /\ pc \in {"read", "product", "domain"} => polled # seen
    /\ pc = "domain" => member \in DOMAIN doc.products
    /\ clash \in BOOLEAN

\* What the loader has built so far and still has to hand over.
Unfinished ==
    Reachable(building) \union (IF pc = "domain" THEN OfMap(current) ELSE {})

\* Loads that fail after any number of domains, skipped domains and swaps lose
\* no object, and none is owned twice, as long as no document named a product
\* or a domain twice: then the pointer that insert overwrites is lost.
NothingLeaks ==
    /\ ~ clash => DOMAIN heap = Reachable(dict) \union Unfinished
    /\ Reachable(dict) \intersect Unfinished = {}

\* What resolve follows is allocated: the maps and policies in use are freed
\* by no load, failed or not.
ServedIsAlive ==
    /\ Reachable(dict) \union Unfinished \subseteq DOMAIN heap
    /\ \A p \in DOMAIN dict : heap[dict[p].address] = MapObject

\* A vector that holds what stands at these places of a list, in its order.
HoldsInOrder(vector, list, places) ==
    /\ IsList(vector)
    /\ \E at \in [DOMAIN vector -> places] :
        /\ {at[k] : k \in DOMAIN at} = places
        /\ \A k, l \in DOMAIN at : k < l => at[k] < at[l]
        /\ \A k \in DOMAIN at : vector[k] = list[at[k]]

\* What the policies of a file promise: a vector for each intent that a valid
\* one has, of all the valid ones of that intent, in file order.
IsPromisedBy(map, policies) ==
    LET valid == {k \in DOMAIN policies : policies[k].valid}
    IN  /\ DOMAIN map = {policies[k].intent : k \in valid}
        /\ \A i \in DOMAIN map :
            HoldsInOrder(map[i], policies, {k \in valid : policies[k].intent = i})

\* The entries of a product that can be loaded under the name d.
Good(item, d) ==
    {j \in DOMAIN item.domains :
        /\ item.domains[j].name = d
        /\ item.domains[j].settings /\ files[item.domains[j].file].conf.array}

Unedited(item, d) ==
    \A j \in DOMAIN item.domains : item.domains[j].name = d =>
        files[item.domains[j].file].edit = served.began.files[item.domains[j].file]

NamesOf(list) == {list[i].name : i \in DOMAIN list}

\* The products in use are those of the document loaded, of several with one
\* name the last.  A domain of it whose files nobody has edited since the load
\* began is in use if one of them can be loaded, with exactly the policies of
\* the last that can, and is not in use otherwise; what has become of the
\* other domains, or of loads that failed since, makes no difference.
InUseUnlessEditedSince ==
    LET list == served.doc.products
    IN  /\ DOMAIN dict = NamesOf(list)
        /\ \A i \in DOMAIN list :
            list[i].name \notin {list[k].name : k \in {k \in DOMAIN list : k > i}} =>
                LET domains == dict[list[i].name].domains
                IN  \A d \in DOMAIN domains \union NamesOf(list[i].domains) :
                     Unedited(list[i], d) =>
                        /\ d \in DOMAIN domains <=> Good(list[i], d) # {}
                        /\ \A j \in Good(list[i], d) :
                            (\A k \in Good(list[i], d) : k <= j) =>
                                IsPromisedBy(heap[domains[d]],
                                    files[list[i].domains[j].file].conf.policies)

\* When no reload is due, the products.json in use was written in the second
\* of its last edit; if it is that edit, and not one before it in the same
\* second, the domain files were read as they were at that edit or later:
\* whoever edits domain files and then products.json gets both, also when the
\* edits fall into a load.  An edit of a domain file alone has no such effect,
\* and neither has an edit of products.json in the second of the one loaded.
QuietMeansLoaded ==
    pc = "idle" /\ Started /\ seen = products.sec =>
        /\ served.began.sec = products.sec
        /\ served.began.edit = products.edit =>
             /\ served.doc = products.conf
             /\ \A f \in File : served.began.files[f] >= atEdit[f]

Loadable(conf) ==
    conf.object /\ \A i \in DOMAIN conf.products : conf.products[i].object

\* A products.json that can be loaded is loaded in the end, through failed
\* loads of earlier edits, unless it is edited again to one that cannot, or is
\* a further edit in the second of the one in use, which the watcher cannot
\* tell from it.  If the objects lost by repeated names have filled the
\* memory, nothing can be loaded.
LoadableIsLoaded ==
    Loadable(products.conf) ~>
        \/ served.began.edit = products.edit /\ served.doc = products.conf
        \/ served.began.edit < products.edit /\ served.began.sec = products.sec
        \/ ~ Loadable(products.conf)
        \/ pc = "down" \/ DOMAIN heap = Address
=============================================================================
