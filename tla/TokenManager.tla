---------------------------- MODULE TokenManager ----------------------------
(***************************************************************************)
(* TokenManager (token_manager.cpp): request threads ask for the access    *)
(* token of a bot, and get it from a cache or, with the bot's client key,  *)
(* from the authorization service; the watcher thread meanwhile reloads    *)
(* the client keys and clears the cache.                                   *)
(*                                                                         *)
(* A client key is known by the version of the key file it was read from,  *)
(* a token by that version and by when it was issued and really expires.   *)
(* The authorization service is external: it issues a token for the key    *)
(* it is given at some moment of the call, or the call fails.  Time is     *)
(* time(nullptr), in seconds.                                              *)
(***************************************************************************)
EXTENDS Integers, FiniteSets

CONSTANTS
    Bot,            \* bot ids
    Request,        \* request threads
    Margin,         \* 60 in the code
    Lifetimes,      \* the expires_in values the service answers
    MaxLatency,     \* bound: seconds from the issue of a token to its receipt
    MaxLookup,      \* bound: seconds from reading the clock for a lookup to
                    \* the use of the token it found
    MaxTime,        \* bound: seconds
    MaxVersion      \* bound: edits of the key file

ASSUME TimingAssumption ==
    /\ Margin \in Nat /\ MaxLatency \in Nat /\ MaxLookup \in Nat
    /\ MaxTime \in Nat /\ MaxVersion \in Nat
    /\ Lifetimes \subseteq Nat

\* The margin covers the delays it is there for.
ASSUME MarginAssumption == MaxLatency + MaxLookup <= Margin

VARIABLES
    now,         \* the clock
    keyFile,     \* conf/app/bot_tokens.json: version, bots, can it be loaded
    keyMap,      \* *_p_client_key_map: version and bots
    cache,       \* *_token_cache: a function on the bots that have an entry
    reloadPc,    \* the watcher thread: "idle", "loaded", "swapped"
    newMap,      \* the client key map it has loaded
    pc,          \* where each request thread is
    bot,         \* the bot it asks for
    start,       \* when it read the clock for the cache lookup
    token,       \* its token_value, from the cache, in flight or received
    late         \* history: bots whose entry was stored with a key that was
                 \* no longer in the map

reloader == <<reloadPc, newMap>>
requests == <<pc, bot, start, token>>
vars == <<now, keyFile, keyMap, cache, reloader, requests, late>>

KeyMap == [version : 0..MaxVersion, bots : SUBSET Bot]

\* A token of a key version: when it was issued, when it really expires, and
\* what expire_time says once it is received.
Token == [version : 0..MaxVersion, issued : Nat, until : Nat, expire : Int]

NoToken == [version |-> 0, issued |-> 0, until |-> 0, expire |-> 0]

MapOf(file) == [version |-> file.version, bots |-> file.bots]

Init ==
    /\ now = 0
    /\ keyFile = [version |-> 0, bots |-> Bot, valid |-> TRUE]
    /\ keyMap = MapOf(keyFile)
    /\ cache = [b \in {} |-> NoToken]
    /\ reloadPc = "idle"
    /\ newMap = keyMap
    /\ pc = [r \in Request |-> "idle"]
    /\ bot \in [Request -> Bot]
    /\ start = [r \in Request |-> 0]
    /\ token = [r \in Request |-> NoToken]
    /\ late = {}
-----------------------------------------------------------------------------
\* A second passes.  The bounds on delays are here: a token in flight and a
\* lookup under way have arrived and ended before they take longer.
Tick ==
    /\ now < MaxTime
    /\ \A r \in Request :
         /\ pc[r] = "inflight" => now < token[r].issued + MaxLatency
         /\ pc[r] \in {"lookup", "hit"} => now < start[r] + MaxLookup
    /\ now' = now + 1
    /\ UNCHANGED <<keyFile, keyMap, cache, reloader, requests, late>>

\* The key file is edited.
EditKeys ==
    /\ keyFile.version < MaxVersion
    /\ \E valid \in BOOLEAN, bots \in SUBSET Bot :
          keyFile' = [version |-> keyFile.version + 1, bots |-> bots, valid |-> valid]
    /\ UNCHANGED <<now, keyMap, cache, reloader, requests, late>>
-----------------------------------------------------------------------------
(* reload(), in the watcher thread.                                        *)

\* The file is loaded; if it cannot be, reload fails and changes nothing.
ReloadLoad ==
    /\ reloadPc = "idle"
    /\ keyFile.valid
    /\ keyFile.version # keyMap.version
    /\ newMap' = MapOf(keyFile)
    /\ reloadPc' = "loaded"
    /\ UNCHANGED <<now, keyFile, keyMap, cache, requests, late>>

ReloadSwap ==
    /\ reloadPc = "loaded"
    /\ keyMap' = newMap
    /\ reloadPc' = "swapped"
    /\ UNCHANGED <<now, keyFile, cache, newMap, requests, late>>

\* Mutant: the cache is not cleared.
ReloadKeepsCache ==
    /\ reloadPc = "swapped"
    /\ reloadPc' = "idle"
    /\ UNCHANGED <<now, keyFile, keyMap, cache, newMap, requests, late>>

\* Under the cache mutex.
ReloadClear ==
    /\ reloadPc = "swapped"
    /\ cache' = [b \in {} |-> NoToken]
    /\ late' = {}
    /\ reloadPc' = "idle"
    /\ UNCHANGED <<now, keyFile, keyMap, newMap, requests>>
-----------------------------------------------------------------------------
(* get_access_token, in a request thread.                                  *)

Goto(r, at) == pc' = [pc EXCEPT ![r] = at]

\* get_access_token returns, and its locals are gone.
Return(r) ==
    /\ Goto(r, "idle")
    /\ start' = [start EXCEPT ![r] = 0]
    /\ token' = [token EXCEPT ![r] = NoToken]

\* The request comes in, and expire_guard is computed.
Begin(r) ==
    /\ pc[r] = "idle"
    /\ \E b \in Bot : bot' = [bot EXCEPT ![r] = b]
    /\ start' = [start EXCEPT ![r] = now]
    /\ Goto(r, "lookup")
    /\ UNCHANGED <<now, keyFile, keyMap, cache, reloader, token, late>>

\* Mutant: the expiry is compared with the clock, without the margin.
CacheHitsToTheEnd(r) ==
    /\ bot[r] \in DOMAIN cache
    /\ cache[bot[r]].expire >= start[r]

\* The cache has a token that is good for at least Margin seconds more.
CacheHits(r) ==
    /\ bot[r] \in DOMAIN cache
    /\ cache[bot[r]].expire >= start[r] + Margin

LookupHit(r) ==
    /\ pc[r] = "lookup"
    /\ CacheHits(r)
    /\ token' = [token EXCEPT ![r] = cache[bot[r]]]
    /\ Goto(r, "hit")
    /\ UNCHANGED <<now, keyFile, keyMap, cache, reloader, bot, start, late>>

LookupMiss(r) ==
    /\ pc[r] = "lookup"
    /\ ~ CacheHits(r)
    /\ Goto(r, "miss")
    /\ UNCHANGED <<now, keyFile, keyMap, cache, reloader, bot, start, token, late>>

\* The bot's client key is copied from the current map, if it is there.
\* The copy of the shared pointer is one step here; SharedConf takes it apart.
CopyKey(r) ==
    /\ pc[r] = "miss"
    /\ IF bot[r] \in keyMap.bots
       THEN /\ token' = [token EXCEPT ![r].version = keyMap.version]
            /\ Goto(r, "call")
            /\ UNCHANGED start
       ELSE Return(r)
    /\ UNCHANGED <<now, keyFile, keyMap, cache, reloader, bot, late>>

\* External: the service issues a token for the key.
Issue(r) ==
    /\ pc[r] = "call"
    /\ \E life \in Lifetimes :
          token' = [token EXCEPT ![r].issued = now, ![r].until = now + life]
    /\ Goto(r, "inflight")
    /\ UNCHANGED <<now, keyFile, keyMap, cache, reloader, bot, start, late>>

\* The answer is parsed: expires_in counts from the receipt.
Receive(r) ==
    /\ pc[r] = "inflight"
    /\ token' = [token EXCEPT ![r].expire =
                    now + (token[r].until - token[r].issued)]
    /\ Goto(r, "store")
    /\ UNCHANGED <<now, keyFile, keyMap, cache, reloader, bot, start, late>>

\* Mutant: the failure is logged, and the answer stored all the same.
CallFailsUnnoticed(r) ==
    /\ pc[r] \in {"call", "inflight"}
    /\ Goto(r, "store")
    /\ UNCHANGED <<now, keyFile, keyMap, cache, reloader, bot, start, token, late>>

\* Mutant: the thread's token_value outlives the failed call.
CallFailsKeepsToken(r) ==
    /\ pc[r] \in {"call", "inflight"}
    /\ Goto(r, "idle")
    /\ UNCHANGED <<now, keyFile, keyMap, cache, reloader, bot, start, token, late>>

\* The call fails, or its answer cannot be parsed.
CallFails(r) ==
    /\ pc[r] \in {"call", "inflight"}
    /\ Return(r)
    /\ UNCHANGED <<now, keyFile, keyMap, cache, reloader, bot, late>>

\* update_token_cache, under the cache mutex.
Store(r) ==
    /\ pc[r] = "store"
    /\ cache' = [b \in DOMAIN cache \union {bot[r]} |->
                   IF b = bot[r] THEN token[r] ELSE cache[b]]
    /\ late' = IF token[r].version = keyMap.version
               THEN late \ {bot[r]} ELSE late \union {bot[r]}
    /\ Return(r)
    /\ UNCHANGED <<now, keyFile, keyMap, reloader, bot>>

\* The caller has used a token from the cache.
UseHit(r) ==
    /\ pc[r] = "hit"
    /\ Return(r)
    /\ UNCHANGED <<now, keyFile, keyMap, cache, reloader, bot, late>>

GetAccessToken(r) ==
    \/ Begin(r) \/ LookupHit(r) \/ LookupMiss(r) \/ CopyKey(r) \/ Issue(r)
    \/ Receive(r) \/ CallFails(r) \/ Store(r) \/ UseHit(r)

Next ==
    \/ Tick
    \/ EditKeys
    \/ ReloadLoad \/ ReloadSwap \/ ReloadClear
    \/ \E r \in Request : GetAccessToken(r)

Spec == Init /\ [][Next]_vars
-----------------------------------------------------------------------------
Places == {"idle", "lookup", "hit", "miss", "call", "inflight", "store"}

\* Type invariant; a thread outside get_access_token holds no token.
TypeOK ==
    /\ now \in 0..MaxTime
    /\ MapOf(keyFile) \in KeyMap /\ keyFile.valid \in BOOLEAN
    /\ keyMap \in KeyMap /\ newMap \in KeyMap
    /\ DOMAIN cache \subseteq Bot /\ \A b \in DOMAIN cache : cache[b] \in Token
    /\ reloadPc \in {"idle", "loaded", "swapped"}
    /\ pc \in [Request -> Places]
    /\ bot \in [Request -> Bot]
    /\ start \in [Request -> Nat]
    /\ token \in [Request -> Token]
    /\ \A r \in Request : pc[r] \in {"idle", "lookup", "miss"} => token[r] = NoToken
    /\ late \subseteq Bot

\* A token served from the cache is accepted by the bot service: it has not
\* expired when the caller uses it, although expire_time counts from the
\* receipt of the token (line 188) and the clock is read before the cache
\* mutex is taken (lines 148-149).  The margin of 60 seconds makes up for
\* both delays.
HitIsAlive == \A r \in Request : pc[r] = "hit" => now <= token[r].until

\* expire_time is late by the time the token took to arrive, and no more.
ExpiryWithinLatency(t) == t.until <= t.expire /\ t.expire <= t.until + MaxLatency

\* The inductive invariant behind HitIsAlive.
TimeInv ==
    /\ \A b \in DOMAIN cache : ExpiryWithinLatency(cache[b])
    /\ \A r \in Request :
         /\ pc[r] = "inflight" =>
               /\ token[r].issued <= now /\ now <= token[r].issued + MaxLatency
               /\ token[r].issued <= token[r].until
         /\ pc[r] = "store" => ExpiryWithinLatency(token[r])
         /\ pc[r] \in {"lookup", "hit"} =>
               start[r] <= now /\ now <= start[r] + MaxLookup
         /\ pc[r] = "hit" =>
               /\ ExpiryWithinLatency(token[r])
               /\ token[r].expire >= start[r] + Margin

Stale(b) == cache[b].version # keyMap.version

\* After a reload, the cache holds a token of an old client key only if a
\* request that had copied the old key stored it late, after the reload: the
\* map is replaced before the cache is cleared (lines 67-69), so no request
\* that copies its key later can bring an old token back.
StaleOnlyByLateStore ==
    reloadPc # "swapped" => \A b \in DOMAIN cache : Stale(b) => b \in late
=============================================================================
