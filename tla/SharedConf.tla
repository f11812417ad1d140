----------------------------- MODULE SharedConf -----------------------------
(***************************************************************************)
(* A configuration shared between the request threads and the reload:      *)
(* RemoteServiceManager's _p_channel_map, PolicyManager's _p_policy_dict   *)
(* and TokenManager's _p_client_key_map are plain std::shared_ptr members. *)
(* A request copies the pointer and works with the copy; the callback in   *)
(* the watcher thread resets it to a new map; no lock orders the two.      *)
(*                                                                         *)
(* A shared_ptr is two words, the pointer to the map and the pointer to    *)
(* the control block with the count.  A copy reads the two words and then  *)
(* increments the count, a reset swaps the two words with those of a       *)
(* temporary, whose destructor decrements the count of the old block and   *)
(* frees block and map when it reaches zero.  The counts are atomic; the   *)
(* two words are read and swapped in either order, with other threads in   *)
(* between: the copy and the reset are a data race, and these are outcomes *)
(* a build can produce.  Maps are known by the load that made them.        *)
(***************************************************************************)
EXTENDS Naturals, FiniteSets

CONSTANTS
    Request,    \* request threads
    MaxLoads    \* bound: loads of the configuration file

ASSUME LoadsAssumption == MaxLoads \in Nat \ {0}
ASSUME RequestAssumption ==
    IsFiniteSet(Request) /\ Request \intersect {"member", "temporary"} = {}

\* The words of a shared_ptr: which load its map and its block are of.
Word == {"map", "block"}

Unread == 0

VARIABLES
    member,      \* the two words of the manager's shared_ptr
    loads,       \* how many maps have been loaded; the last is the newest
    count,       \* use count in the control block of each load
    freed,       \* loads whose map and control block are freed
    reloadPc,    \* "idle", "swap" or "release": the reset under way
    swapped,     \* words the reset has already swapped
    pc,          \* each request thread: "idle", "copy", "use"
    copy,        \* the words of its copy, Unread before they are read
    overlapped,  \* history: a reset has run during its copying
    fault        \* memory that was freed has been accessed

reloader == <<loads, reloadPc, swapped>>
requests == <<pc, copy, overlapped>>
vars == <<member, reloader, count, freed, requests, fault>>

NoCopy == [w \in Word |-> Unread]

Init ==
    /\ member = [w \in Word |-> 1]
    /\ loads = 1
    /\ count = [g \in 1..MaxLoads |-> IF g = 1 THEN 1 ELSE 0]
    /\ freed = {}
    /\ reloadPc = "idle"
    /\ swapped = {}
    /\ pc = [r \in Request |-> "idle"]
    /\ copy = [r \in Request |-> NoCopy]
    /\ overlapped = [r \in Request |-> FALSE]
    /\ fault = FALSE
-----------------------------------------------------------------------------
\* Mutant: the temporary keeps its reference.
DropNothing(g) == UNCHANGED <<count, freed>>

\* One reference to the map of load g is dropped; the last one frees it.
Drop(g) ==
    /\ count' = [count EXCEPT ![g] = @ - 1]
    /\ freed' = IF count[g] = 1 THEN freed \union {g} ELSE freed

(* reload(), in the watcher thread: one at a time, under its mutex.        *)

\* A new map is loaded, and a temporary shared_ptr made of it.
Reload ==
    /\ ~ fault
    /\ reloadPc = "idle"
    /\ loads < MaxLoads
    /\ loads' = loads + 1
    /\ count' = [count EXCEPT ![loads + 1] = 1]
    /\ reloadPc' = "swap"
    /\ overlapped' = [r \in Request |-> pc[r] = "copy" \/ overlapped[r]]
    /\ UNCHANGED <<member, swapped, freed, pc, copy, fault>>

\* One word of the member is swapped with the temporary's.
SwapWord(w) ==
    /\ ~ fault
    /\ reloadPc = "swap"
    /\ w \notin swapped
    /\ member' = [member EXCEPT ![w] = loads]
    /\ swapped' = swapped \union {w}
    /\ reloadPc' = IF swapped' = Word THEN "release" ELSE "swap"
    /\ UNCHANGED <<loads, count, freed, requests, fault>>

\* The temporary is destroyed with the old words, those of the load before.
ReleaseOld ==
    /\ ~ fault
    /\ reloadPc = "release"
    /\ Drop(loads - 1)
    /\ reloadPc' = "idle"
    /\ swapped' = {}
    /\ UNCHANGED <<member, loads, requests, fault>>
-----------------------------------------------------------------------------
(* A request thread.                                                       *)

\* The copy constructor of shared_ptr begins.
BeginCopy(r) ==
    /\ ~ fault
    /\ pc[r] = "idle"
    /\ pc' = [pc EXCEPT ![r] = "copy"]
    /\ overlapped' = [overlapped EXCEPT ![r] = reloadPc # "idle"]
    /\ UNCHANGED <<member, reloader, count, freed, copy, fault>>

ReadWord(r, w) ==
    /\ ~ fault
    /\ pc[r] = "copy"
    /\ copy[r][w] = Unread
    /\ copy' = [copy EXCEPT ![r][w] = member[w]]
    /\ UNCHANGED <<member, reloader, count, freed, pc, overlapped, fault>>

\* Mutant: the pointer is taken without a reference, as by get().
AddNoReference(r) ==
    LET g == copy[r]["block"]
    IN  /\ ~ fault
        /\ pc[r] = "copy"
        /\ Unread \notin {copy[r][w] : w \in Word}
        /\ fault' = (g \in freed)
        /\ pc' = [pc EXCEPT ![r] = "use"]
        /\ UNCHANGED <<member, reloader, count, freed, copy, overlapped>>

\* The words are read: increment the count of the block.  If the block is
\* freed by now, this is the fault.
AddReference(r) ==
    LET g == copy[r]["block"]
    IN  /\ ~ fault
        /\ pc[r] = "copy"
        /\ Unread \notin {copy[r][w] : w \in Word}
        /\ count' = [count EXCEPT ![g] = @ + 1]
        /\ fault' = (g \in freed)
        /\ pc' = [pc EXCEPT ![r] = "use"]
        /\ UNCHANGED <<member, reloader, freed, copy, overlapped>>

\* The request looks something up in its map.
Use(r) ==
    /\ ~ fault
    /\ pc[r] = "use"
    /\ copy[r]["map"] \in freed
    /\ fault' = TRUE
    /\ UNCHANGED <<member, reloader, count, freed, requests>>

\* The request is done, and its shared_ptr is destroyed.
EndUse(r) ==
    /\ ~ fault
    /\ pc[r] = "use"
    /\ Drop(copy[r]["block"])
    /\ pc' = [pc EXCEPT ![r] = "idle"]
    /\ copy' = [copy EXCEPT ![r] = NoCopy]
    /\ overlapped' = [overlapped EXCEPT ![r] = FALSE]
    /\ UNCHANGED <<member, reloader, fault>>

Serve(r) ==
    \/ BeginCopy(r)
    \/ \E w \in Word : ReadWord(r, w)
    \/ AddReference(r) \/ Use(r) \/ EndUse(r)

Next ==
    \/ Reload
    \/ \E w \in Word : SwapWord(w)
    \/ ReleaseOld
    \/ \E r \in Request : Serve(r)

Spec == Init /\ [][Next]_vars
-----------------------------------------------------------------------------
Load == 1..MaxLoads

\* Type invariant.
TypeOK ==
    /\ member \in [Word -> Load]
    /\ loads \in Load
    /\ count \in [Load -> 0..(Cardinality(Request) + 2)]
    /\ freed \subseteq Load
    /\ reloadPc \in {"idle", "swap", "release"}
    /\ swapped \subseteq Word
    /\ pc \in [Request -> {"idle", "copy", "use"}]
    /\ copy \in [Request -> [Word -> Load \union {Unread}]]
    /\ overlapped \in [Request -> BOOLEAN]
    /\ fault \in BOOLEAN

\* Who holds a reference to load g: the member or the reset's temporary, and
\* the copies in use.  Unswapped, the temporary has the newest load, and once
\* the block is swapped the load before it.
Holders(g) ==
    {r \in Request : pc[r] = "use" /\ copy[r]["block"] = g}
        \union {x \in {"member"} : member["block"] = g}
        \union {x \in {"temporary"} :
                  \/ reloadPc = "swap" /\ "block" \notin swapped /\ g = loads
                  \/ reloadPc # "idle" /\ "block" \in swapped /\ g = loads - 1}

\* However copies and resets interleave, as long as no freed memory has been
\* touched, a map is freed exactly when the last reference to it is gone: no
\* map is freed twice, none that was replaced is kept for ever.
FreedWithLastReference ==
    ~ fault =>
        /\ \A g \in 1..loads : count[g] = Cardinality(Holders(g))
        /\ freed = {g \in 1..loads : Holders(g) = {}}

\* What the copy of the pointer is for: a request whose copying no reset has
\* overlapped keeps one consistent map until it is done, through any number
\* of later reloads.
CopyOutlivesReload ==
    \A r \in Request : ~ fault /\ pc[r] = "use" /\ ~ overlapped[r] =>
        /\ copy[r]["map"] = copy[r]["block"]
        /\ copy[r]["map"] \notin freed

\* application_base.h lines 24-25: the same application instance is used for
\* all request threads, and the call is thread safe.  A copy that a reset does
\* overlap may count on a block, or look into a map, that is freed.
RunIsThreadSafe == ~ fault
=============================================================================
