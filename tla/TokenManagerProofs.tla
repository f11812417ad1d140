------------------------- MODULE TokenManagerProofs -------------------------
(***************************************************************************)
(* Proofs about TokenManager, for any number of bots, requests, seconds    *)
(* and edits, any lifetimes, and any delays that together do not exceed    *)
(* the margin: types, that a token served from the cache has not expired,  *)
(* and that an old token outlives a reload only by a late store.           *)
(***************************************************************************)
EXTENDS TokenManager, TLAPS

LEMMA NoTokenType == NoToken \in Token
  BY TimingAssumption DEF NoToken, Token

THEOREM TypeCorrect == Spec => []TypeOK
  <1> USE TimingAssumption, NoTokenType DEF Places
  <1>1. Init => TypeOK
    <2> SUFFICES ASSUME Init PROVE TypeOK
      OBVIOUS
    <2>1. keyMap \in KeyMap /\ MapOf(keyFile) \in KeyMap /\ keyFile.valid \in BOOLEAN
      BY DEF Init, KeyMap, MapOf
    <2>2. DOMAIN cache = {}
      BY DEF Init
    <2> QED
      BY <2>1, <2>2 DEF Init, TypeOK
  <1>2. TypeOK /\ [Next]_vars => TypeOK'
    <2> SUFFICES ASSUME TypeOK, [Next]_vars PROVE TypeOK'
      OBVIOUS
    <2>1. CASE Tick
      BY <2>1 DEF Tick, TypeOK, reloader, requests
    <2>2. CASE EditKeys
      <3>1. MapOf(keyFile') \in KeyMap /\ keyFile'.valid \in BOOLEAN
        BY <2>2 DEF EditKeys, TypeOK, MapOf, KeyMap
      <3> QED
        BY <2>2, <3>1 DEF EditKeys, TypeOK, reloader, requests
    <2>3. CASE ReloadLoad
      BY <2>3 DEF ReloadLoad, TypeOK, requests
    <2>4. CASE ReloadSwap
      BY <2>4 DEF ReloadSwap, TypeOK, requests
    <2>5. CASE ReloadClear
      <3>1. DOMAIN cache' = {}
        BY <2>5 DEF ReloadClear
      <3> QED
        BY <2>5, <3>1 DEF ReloadClear, TypeOK, requests
    <2>6. ASSUME NEW r \in Request, GetAccessToken(r) PROVE TypeOK'
      <3>1. CASE Begin(r)
        BY <3>1 DEF Begin, Goto, TypeOK, reloader
      <3>2. CASE LookupHit(r)
        BY <3>2 DEF LookupHit, CacheHits, Goto, TypeOK, reloader
      <3>3. CASE LookupMiss(r)
        BY <3>3 DEF LookupMiss, Goto, TypeOK, reloader
      <3>4. CASE CopyKey(r)
        <4>1. [token[r] EXCEPT !.version = keyMap.version] \in Token
          BY DEF TypeOK, Token, KeyMap
        <4> QED
          BY <3>4, <4>1 DEF CopyKey, Goto, Return, TypeOK, reloader
      <3>5. CASE Issue(r)
        <4>1. PICK life \in Lifetimes :
                 token' = [token EXCEPT ![r].issued = now, ![r].until = now + life]
          BY <3>5 DEF Issue
        <4>2. now \in Nat /\ now + life \in Nat
          BY DEF TypeOK
        <4>3. token[r] \in Token
          BY DEF TypeOK
        <4>4. [token[r] EXCEPT !.issued = now, !.until = now + life] \in Token
          BY <4>2, <4>3 DEF Token
        <4>5. token' \in [Request -> Token]
          BY <4>1, <4>4 DEF TypeOK
        <4>6. \A q \in Request \ {r} : token'[q] = token[q]
          BY <4>1 DEF TypeOK
        <4> QED
          BY <3>5, <4>5, <4>6 DEF Issue, Goto, TypeOK, reloader
      <3>6. CASE Receive(r)
        <4>1. now + (token[r].until - token[r].issued) \in Int
          BY DEF TypeOK, Token
        <4>2. [token[r] EXCEPT !.expire = now + (token[r].until - token[r].issued)]
                 \in Token
          BY <4>1 DEF TypeOK, Token
        <4> QED
          BY <3>6, <4>2 DEF Receive, Goto, TypeOK, reloader
      <3>7. CASE CallFails(r)
        BY <3>7 DEF CallFails, Return, Goto, TypeOK, reloader
      <3>8. CASE Store(r)
        <4>1. DOMAIN cache' \subseteq Bot /\ \A b \in DOMAIN cache' : cache'[b] \in Token
          BY <3>8 DEF Store, TypeOK
        <4>2. late' \subseteq Bot
          BY <3>8 DEF Store, TypeOK
        <4> QED
          BY <3>8, <4>1, <4>2 DEF Store, Return, Goto, TypeOK, reloader
      <3>9. CASE UseHit(r)
        BY <3>9 DEF UseHit, Return, Goto, TypeOK, reloader
      <3> QED
        BY <2>6, <3>1, <3>2, <3>3, <3>4, <3>5, <3>6, <3>7, <3>8, <3>9
        DEF GetAccessToken
    <2>7. CASE UNCHANGED vars
      BY <2>7 DEF vars, TypeOK, reloader, requests
    <2> QED
      BY <2>1, <2>2, <2>3, <2>4, <2>5, <2>6, <2>7 DEF Next
  <1> QED BY <1>1, <1>2, PTL DEF Spec

\* What TimeInv says of the entry of one request thread.
RequestTimes(r) ==
    /\ pc[r] = "inflight" =>
          /\ token[r].issued <= now /\ now <= token[r].issued + MaxLatency
          /\ token[r].issued <= token[r].until
    /\ pc[r] = "store" => ExpiryWithinLatency(token[r])
    /\ pc[r] \in {"lookup", "hit"} =>
          start[r] <= now /\ now <= start[r] + MaxLookup
    /\ pc[r] = "hit" =>
          /\ ExpiryWithinLatency(token[r])
          /\ token[r].expire >= start[r] + Margin

CacheTimes == \A b \in DOMAIN cache : ExpiryWithinLatency(cache[b])

LEMMA TimeInvParts == TimeInv <=> CacheTimes /\ \A r \in Request : RequestTimes(r)
  BY DEF TimeInv, CacheTimes, RequestTimes

\* A step of another thread leaves a request's part alone.
LEMMA RequestFrame ==
    ASSUME NEW r \in Request, RequestTimes(r),
           now' = now, pc'[r] = pc[r], start'[r] = start[r], token'[r] = token[r]
    PROVE  RequestTimes(r)'
  BY DEF RequestTimes, ExpiryWithinLatency

\* A step of a request thread keeps its own times in order.
LEMMA OwnStep ==
    ASSUME TypeOK, TypeOK', TimeInv, NEW r \in Request, GetAccessToken(r)
    PROVE  RequestTimes(r)' /\ CacheTimes'
  <1> USE TimingAssumption
  <1>0. /\ CacheTimes /\ RequestTimes(r)
        /\ now \in Nat /\ start[r] \in Nat /\ token[r] \in Token
        /\ pc \in [Request -> Places] /\ start \in [Request -> Nat]
        /\ token \in [Request -> Token]
    BY TimeInvParts DEF TypeOK
  <1>1. CASE Begin(r)
    BY <1>0, <1>1
    DEF Begin, Goto, RequestTimes, CacheTimes, ExpiryWithinLatency
  <1>2. CASE LookupHit(r)
    <2>1. /\ bot[r] \in DOMAIN cache /\ token'[r] = cache[bot[r]]
          /\ cache[bot[r]].expire >= start[r] + Margin
          /\ pc[r] = "lookup" /\ pc'[r] = "hit"
          /\ UNCHANGED <<now, start, cache>>
      BY <1>0, <1>2 DEF LookupHit, CacheHits, Goto
    <2>2. ExpiryWithinLatency(token'[r])
      BY <1>0, <2>1 DEF CacheTimes
    <2> QED
      BY <1>0, <2>1, <2>2 DEF RequestTimes, CacheTimes, ExpiryWithinLatency
  <1>3. CASE LookupMiss(r)
    BY <1>0, <1>3 DEF LookupMiss, Goto, RequestTimes, CacheTimes, ExpiryWithinLatency
  <1>4. CASE CopyKey(r)
    <2>1. pc'[r] \in {"call", "idle"} /\ UNCHANGED <<now, cache>>
      BY <1>0, <1>4 DEF CopyKey, Goto, Return
    <2> QED
      BY <1>0, <2>1 DEF RequestTimes, CacheTimes, ExpiryWithinLatency
  <1>5. CASE Issue(r)
    <2>1. PICK life \in Lifetimes :
             token' = [token EXCEPT ![r].issued = now, ![r].until = now + life]
      BY <1>5 DEF Issue
    <2>2. pc'[r] = "inflight" /\ UNCHANGED <<now, cache>>
      BY <1>0, <1>5 DEF Issue, Goto
    <2>3. token'[r].issued = now /\ token'[r].until = now + life
      BY <1>0, <2>1 DEF Token
    <2> QED
      BY <1>0, <2>2, <2>3 DEF RequestTimes, CacheTimes, ExpiryWithinLatency
  <1>6. CASE Receive(r)
    <2>1. /\ pc[r] = "inflight" /\ pc'[r] = "store" /\ UNCHANGED <<now, cache>>
          /\ token'[r].expire = now + (token[r].until - token[r].issued)
          /\ token'[r].until = token[r].until
      BY <1>0, <1>6 DEF Receive, Goto, Token
    <2>2. /\ token[r].issued <= now /\ now <= token[r].issued + MaxLatency
          /\ token[r].issued \in Nat /\ token[r].until \in Nat
      BY <1>0, <2>1 DEF RequestTimes, Token
    <2>3. ExpiryWithinLatency(token'[r])
      BY <1>0, <2>1, <2>2 DEF ExpiryWithinLatency
    <2> QED
      BY <1>0, <2>1, <2>3 DEF RequestTimes, CacheTimes, ExpiryWithinLatency
  <1>7. CASE CallFails(r)
    BY <1>0, <1>7
    DEF CallFails, Return, Goto, RequestTimes, CacheTimes, ExpiryWithinLatency
  <1>8. CASE Store(r)
    <2>1. ExpiryWithinLatency(token[r])
      BY <1>0, <1>8 DEF Store, RequestTimes
    <2>2. CacheTimes'
      BY <1>0, <1>8, <2>1 DEF Store, CacheTimes, ExpiryWithinLatency
    <2>3. pc'[r] = "idle"
      BY <1>0, <1>8 DEF Store, Return, Goto
    <2> QED
      BY <2>2, <2>3 DEF RequestTimes
  <1>9. CASE UseHit(r)
    BY <1>0, <1>9
    DEF UseHit, Return, Goto, RequestTimes, CacheTimes, ExpiryWithinLatency
  <1> QED
    BY <1>1, <1>2, <1>3, <1>4, <1>5, <1>6, <1>7, <1>8, <1>9 DEF GetAccessToken

\* A step of one request thread leaves what the others hold alone.
LEMMA OthersStep ==
    ASSUME TypeOK, NEW r \in Request, GetAccessToken(r), NEW q \in Request, q # r
    PROVE  /\ now' = now /\ pc'[q] = pc[q] /\ start'[q] = start[q]
           /\ token'[q] = token[q]
  <1>1. /\ pc \in [Request -> Places] /\ start \in [Request -> Nat]
        /\ token \in [Request -> Token]
    BY DEF TypeOK
  <1> QED
    BY <1>1
    DEF GetAccessToken, Begin, LookupHit, LookupMiss, CopyKey, Issue, Receive,
        CallFails, Store, UseHit, Return, Goto

\* The delays stay within their bounds, and so does the error of expire_time.
THEOREM TimesBounded == Spec => []TimeInv
  <1> USE TimingAssumption
  <1>1. Init => TimeInv
    <2> SUFFICES ASSUME Init PROVE TimeInv
      OBVIOUS
    <2>1. DOMAIN cache = {} /\ \A r \in Request : pc[r] = "idle"
      BY DEF Init
    <2> QED
      BY <2>1 DEF TimeInv
  <1>2. TypeOK /\ TypeOK' /\ TimeInv /\ [Next]_vars => TimeInv'
    <2> SUFFICES ASSUME TypeOK, TypeOK', TimeInv, [Next]_vars PROVE TimeInv'
      OBVIOUS
    <2>0. CacheTimes /\ \A r \in Request : RequestTimes(r)
      BY TimeInvParts
    <2>1. CASE Tick
      <3>1. /\ now' = now + 1 /\ now \in Nat
            /\ UNCHANGED <<cache, pc, start, token>>
        BY <2>1 DEF Tick, requests, TypeOK
      <3>2. ASSUME NEW r \in Request PROVE RequestTimes(r)'
        <4>1. /\ pc[r] = "inflight" => now < token[r].issued + MaxLatency
              /\ pc[r] \in {"lookup", "hit"} => now < start[r] + MaxLookup
          BY <2>1 DEF Tick
        <4>2. token[r] \in Token /\ start[r] \in Nat
          BY DEF TypeOK
        <4> QED
          BY <2>0, <3>1, <4>1, <4>2 DEF RequestTimes, ExpiryWithinLatency, Token
      <3>3. CacheTimes'
        BY <2>0, <3>1 DEF CacheTimes, ExpiryWithinLatency
      <3> QED
        BY <3>1, <3>2, <3>3 DEF TimeInv, RequestTimes, CacheTimes, ExpiryWithinLatency
    <2>2. CASE EditKeys \/ ReloadLoad \/ ReloadSwap \/ UNCHANGED vars
      <3>1. UNCHANGED <<now, cache, pc, start, token>>
        BY <2>2 DEF EditKeys, ReloadLoad, ReloadSwap, vars, requests
      <3> QED
        BY <3>1 DEF TimeInv, ExpiryWithinLatency
    <2>3. CASE ReloadClear
      <3>1. DOMAIN cache' = {} /\ UNCHANGED <<now, pc, start, token>>
        BY <2>3 DEF ReloadClear, requests
      <3> QED
        BY <3>1 DEF TimeInv, ExpiryWithinLatency
    <2>4. ASSUME NEW r \in Request, GetAccessToken(r) PROVE TimeInv'
      <3>1. RequestTimes(r)' /\ CacheTimes'
        BY <2>4, OwnStep
      <3>2. ASSUME NEW q \in Request, q # r PROVE RequestTimes(q)'
        BY <2>0, <2>4, <3>2, OthersStep, RequestFrame
      <3>3. \A q \in Request : RequestTimes(q)'
        BY <3>1, <3>2
      <3> QED
        BY <3>1, <3>3 DEF TimeInv, RequestTimes, CacheTimes, ExpiryWithinLatency
    <2> QED
      BY <2>1, <2>2, <2>3, <2>4 DEF Next
  <1> QED BY <1>1, <1>2, TypeCorrect, PTL DEF Spec

\* A token served from the cache has not expired when it is used.
THEOREM HitsAreAlive == Spec => []HitIsAlive
  <1>1. TypeOK /\ TimeInv => HitIsAlive
    <2> SUFFICES ASSUME TypeOK, TimeInv, NEW r \in Request, pc[r] = "hit"
                 PROVE  now <= token[r].until
      BY DEF HitIsAlive
    <2>1. /\ now \in Nat /\ start[r] \in Nat
          /\ token[r].until \in Nat /\ token[r].expire \in Int
      BY DEF TypeOK, Token
    <2>2. /\ now <= start[r] + MaxLookup
          /\ token[r].expire <= token[r].until + MaxLatency
          /\ token[r].expire >= start[r] + Margin
      BY DEF TimeInv, ExpiryWithinLatency
    <2> QED
      BY <2>1, <2>2, TimingAssumption, MarginAssumption
  <1> QED BY <1>1, TypeCorrect, TimesBounded, PTL

\* An old token is in the cache after a reload only by a late store.
THEOREM StaleOnlyByLate == Spec => []StaleOnlyByLateStore
  <1>1. Init => StaleOnlyByLateStore
    <2>1. Init => DOMAIN cache = {}
      BY DEF Init
    <2> QED
      BY <2>1 DEF StaleOnlyByLateStore
  <1>2. TypeOK /\ StaleOnlyByLateStore /\ [Next]_vars => StaleOnlyByLateStore'
    <2> SUFFICES ASSUME TypeOK, StaleOnlyByLateStore, [Next]_vars
                 PROVE  StaleOnlyByLateStore'
      OBVIOUS
    <2>1. CASE ReloadClear
      <3>1. DOMAIN cache' = {}
        BY <2>1 DEF ReloadClear
      <3> QED
        BY <3>1 DEF StaleOnlyByLateStore
    <2>2. CASE ReloadSwap
      BY <2>2 DEF ReloadSwap, StaleOnlyByLateStore
    <2>3. CASE ReloadLoad
      BY <2>3 DEF ReloadLoad, StaleOnlyByLateStore, Stale
    <2>4. CASE Tick \/ EditKeys \/ UNCHANGED vars
      BY <2>4 DEF Tick, EditKeys, vars, reloader, StaleOnlyByLateStore, Stale
    <2>5. ASSUME NEW r \in Request, Store(r) PROVE StaleOnlyByLateStore'
      <3>1. /\ DOMAIN cache' = DOMAIN cache \union {bot[r]}
            /\ \A b \in DOMAIN cache' :
                 cache'[b] = IF b = bot[r] THEN token[r] ELSE cache[b]
            /\ late' = IF token[r].version = keyMap.version
                       THEN late \ {bot[r]} ELSE late \union {bot[r]}
            /\ UNCHANGED <<keyMap, reloadPc>>
        BY <2>5 DEF Store, reloader
      <3> QED
        BY <3>1 DEF StaleOnlyByLateStore, Stale
    <2>6. ASSUME NEW r \in Request, GetAccessToken(r), ~ Store(r)
          PROVE  StaleOnlyByLateStore'
      <3>1. UNCHANGED <<keyMap, cache, reloadPc, late>>
        BY <2>6
        DEF GetAccessToken, Begin, LookupHit, LookupMiss, CopyKey, Issue,
            Receive, CallFails, UseHit, reloader
      <3> QED
        BY <3>1 DEF StaleOnlyByLateStore, Stale
    <2> QED
      BY <2>1, <2>2, <2>3, <2>4, <2>5, <2>6 DEF Next
  <1> QED BY <1>1, <1>2, TypeCorrect, PTL DEF Spec
=============================================================================
