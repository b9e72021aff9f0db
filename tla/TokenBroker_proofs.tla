------------------------- MODULE TokenBroker_proofs -------------------------
(***************************************************************************)
(* For any number of requests and replicas of auth-service, if no exchange *)
(* outlives the lock's TTL: at most one request at a time exchanges and    *)
(* stores, so the cached token only gets newer and nobody is answered with *)
(* a token older than one that was in the cache when its request arrived.  *)
(*                                                                         *)
(* The argument: whoever is in the section owns the lock (LockInv); the    *)
(* token it is about to store was issued while it was there, and degraded  *)
(* requests, the only other ones that get new tokens, store none, so it is *)
(* newer than all that was ever cached (TokenInv).                         *)
(***************************************************************************)
EXTENDS TokenBroker, TLAPS

-----------------------------------------------------------------------------
(* Types *)

\* Goes and TryAcquire put a request at a stage that exists.
LEMMA TypeStep == TypeOK /\ [Next]_vars => TypeOK'
<1>. SUFFICES ASSUME TypeOK, [Next]_vars PROVE TypeOK'
  OBVIOUS
<1>. USE TokenBrokerAssumption
<1>r. ASSUME NEW r \in Requests, Request(r) PROVE TypeOK'
  <2>. USE DEF TypeOK, Running, Section, Settled, redisVars, clientVars,
               historyVars, requestVars, Goes
  <2>1. CASE Arrive(r)
    <3>. DEFINE p == ReplicaOf[r]
    <3>1. stage' \in [Requests -> {"new"} \cup Running \cup Settled]
      BY <2>1 DEF Arrive
    <3>2. recent' \in [Replicas -> 0..DegradedLimit]
      <4>1. CASE UNCHANGED recent
        BY <4>1
      <4>2. CASE recent[p] < DegradedLimit /\ recent' = [recent EXCEPT ![p] = @ + 1]
        <5>1. recent[p] + 1 \in 0..DegradedLimit
          BY <4>2
        <5>. QED  BY <4>2, <5>1
      <4>. QED  BY <2>1, <4>1, <4>2 DEF Arrive
    <3>3. floor' \in [Requests -> Nat]
      BY <2>1 DEF Arrive
    <3>. QED  BY <2>1, <3>1, <3>2, <3>3 DEF Arrive
  <2>2. CASE ReadCache(r)
    BY <2>2 DEF ReadCache, Hit
  <2>3. CASE AcquireLock(r)
    BY <2>3 DEF AcquireLock, TryAcquire
  <2>4. CASE WaitForCache(r)
    BY <2>4 DEF WaitForCache, Hit
  <2>5. CASE RetryAcquire(r)
    BY <2>5 DEF RetryAcquire, TryAcquire
  <2>6. CASE Exchange(r)
    BY <2>6 DEF Exchange
  <2>7. CASE StoreToken(r)
    BY <2>7 DEF StoreToken, Cached
  <2>8. CASE ReleaseLock(r)
    BY <2>8 DEF ReleaseLock
  <2>9. CASE ExchangeDirectly(r) \/ AnswerDirectly(r)
    BY <2>9 DEF ExchangeDirectly, AnswerDirectly
  <2>10. CASE ExchangeFails(r) \/ DirectFails(r)
    BY <2>10 DEF ExchangeFails, DirectFails, Fault
  <2>. QED  BY <1>r, <2>1, <2>2, <2>3, <2>4, <2>5, <2>6, <2>7, <2>8, <2>9,
               <2>10 DEF Request, Step
<1>p. ASSUME NEW p \in Replicas, Replica(p) PROVE TypeOK'
  <2>. USE DEF TypeOK, redisVars, historyVars, requestVars
  <2>1. CASE Reconnect(p) \/ GiveUp(p)
    BY <2>1 DEF Reconnect, GiveUp
  <2>2. CASE CheckHealth(p)
    <3>1. healthy' \in [Replicas -> BOOLEAN]
      BY <2>2 DEF CheckHealth
    <3>. QED  BY <2>2, <3>1 DEF CheckHealth
  <2>3. CASE WindowSlides(p)
    <3>1. recent[p] - 1 \in 0..DegradedLimit
      BY <2>3 DEF WindowSlides
    <3>. QED  BY <2>3, <3>1 DEF WindowSlides
  <2>4. CASE Crash(p)
    <3>1. stage' \in [Requests -> {"new"} \cup Running \cup Settled]
      BY <2>4 DEF Crash, Settled
    <3>2. conn' \in [Replicas -> {"ready", "reconnecting", "closed"}]
      BY <2>4 DEF Crash
    <3>3. healthy' \in [Replicas -> BOOLEAN] /\ recent' \in [Replicas -> 0..DegradedLimit]
      BY <2>4 DEF Crash
    <3>4. faults' \in Nat
      BY <2>4 DEF Crash, Fault
    <3>. QED  BY <2>4, <3>1, <3>2, <3>3, <3>4 DEF Crash
  <2>. QED  BY <1>p, <2>1, <2>2, <2>3, <2>4 DEF Replica
<1>k. ASSUME CacheExpires \/ LockExpires PROVE TypeOK'
  BY <1>k DEF CacheExpires, LockExpires, TypeOK, requestVars, clientVars,
              historyVars
<1>d. ASSUME RedisDown PROVE TypeOK'
  <2>1. conn' \in [Replicas -> {"ready", "reconnecting", "closed"}]
    BY <1>d DEF RedisDown, TypeOK
  <2>2. faults' \in Nat
    BY <1>d DEF RedisDown, Fault, TypeOK
  <2>3. redisUp' \in BOOLEAN
    BY <1>d DEF RedisDown
  <2>. QED  BY <1>d, <2>1, <2>2, <2>3
            DEF RedisDown, TypeOK, requestVars, redisVars, historyVars
<1>u. ASSUME RedisUp PROVE TypeOK'
  BY <1>u DEF RedisUp, TypeOK, requestVars, redisVars, historyVars
<1>s. CASE UNCHANGED vars
  BY <1>s DEF vars, requestVars, redisVars, clientVars, historyVars, TypeOK
<1>. QED  BY <1>r, <1>p, <1>k, <1>d, <1>u, <1>s DEF Next

\* The types hold at the start.
LEMMA InitType == Init => TypeOK
BY TokenBrokerAssumption DEF Init, TypeOK

\* All variables keep their types; in particular the limiter of the degraded
\* mode never counts past its limit.
THEOREM BrokerTypeCorrect == Spec => []TypeOK
<1>. QED  BY InitType, TypeStep, PTL DEF Spec

-----------------------------------------------------------------------------
(* The lock *)

\* Whoever is in the section owns the lock.
LockInv == \A r \in Requests : stage[r] \in Section => lock = r

\* A step of r that leaves the lock alone, and enters no section.
LEMMA LockKept ==
    ASSUME TypeOK, LockInv, NEW r \in Requests, NEW t,
           stage' = [stage EXCEPT ![r] = t],
           t \in Section => stage[r] \in Section,
           UNCHANGED lock
    PROVE  LockInv'
BY DEF TypeOK, LockInv

\* Acquiring the lock, or failing to.
LEMMA LockTried ==
    ASSUME TypeOK, LockInv, NEW r \in Requests, NEW s, NEW t,
           s \notin Section, t \notin Section,
           TryAcquire(r, s, "exchange", t)
    PROVE  LockInv'
<1>. USE TokenBrokerAssumption
<1>1. CASE lock = Free
  <2>1. \A q \in Requests : stage[q] \notin Section
    BY <1>1 DEF LockInv
  <2>2. CASE lock' = r /\ stage' = [stage EXCEPT ![r] = "exchange"]
    BY <2>1, <2>2 DEF TypeOK, LockInv
  <2>3. CASE stage' = [stage EXCEPT ![r] = t]
    BY <2>1, <2>3 DEF TypeOK, LockInv
  <2>. QED  BY <1>1, <2>2, <2>3 DEF TryAcquire, Goes
<1>2. CASE lock # Free
  <2>1. stage' = [stage EXCEPT ![r] = t] /\ UNCHANGED lock
    BY <1>2 DEF TryAcquire, Goes
  <2>. QED  BY <2>1, LockKept
<1>. QED  BY <1>1, <1>2

\* The owner of the lock is the only one in the section.
LEMMA LockStep ==
    ASSUME LockOverrun = FALSE, TypeOK, LockInv, [Next]_vars
    PROVE  LockInv'
<1>. USE TokenBrokerAssumption
<1>r. ASSUME NEW r \in Requests, Request(r) PROVE LockInv'
  <2>1. CASE AcquireLock(r) \/ RetryAcquire(r)
    BY <2>1, LockTried DEF AcquireLock, RetryAcquire, Section
  <2>2. CASE ReleaseLock(r)
    <3>1. /\ stage[r] = "release"
          /\ lock = r
      BY <2>2 DEF ReleaseLock, Goes, LockInv, Section
    <3>2. \A q \in Requests : q # r => stage[q] \notin Section
      BY <3>1 DEF LockInv
    <3>3. \A q \in Requests : stage'[q] \notin Section
      BY <2>2, <3>2 DEF ReleaseLock, Goes, Section, TypeOK
    <3>. QED  BY <3>3 DEF LockInv
  <2>3. CASE \/ Arrive(r) \/ ReadCache(r) \/ WaitForCache(r) \/ Exchange(r)
             \/ StoreToken(r) \/ ExchangeDirectly(r) \/ AnswerDirectly(r)
             \/ ExchangeFails(r) \/ DirectFails(r)
    <3>1. UNCHANGED lock
      BY <2>3 DEF Arrive, ReadCache, WaitForCache, Exchange, StoreToken,
           ExchangeDirectly, AnswerDirectly, ExchangeFails, DirectFails, redisVars
    <3>2. \E t : /\ stage' = [stage EXCEPT ![r] = t]
                 /\ t \in Section => stage[r] \in Section
      <4>1. CASE \/ Arrive(r) \/ Exchange(r) \/ StoreToken(r)
                 \/ ExchangeDirectly(r) \/ AnswerDirectly(r)
                 \/ ExchangeFails(r) \/ DirectFails(r)
        BY <4>1 DEF Arrive, Exchange, StoreToken, ExchangeDirectly,
             AnswerDirectly, ExchangeFails, DirectFails, Goes, Section
      <4>2. CASE ReadCache(r)
        BY <4>2 DEF ReadCache, Hit, Goes, Section
      <4>3. CASE WaitForCache(r)
        BY <4>3 DEF WaitForCache, Hit, Goes, Section
      <4>. QED  BY <2>3, <4>1, <4>2, <4>3
    <3>. QED  BY <3>1, <3>2, LockKept
  <2>. QED  BY <1>r, <2>1, <2>2, <2>3 DEF Request, Step
<1>c. ASSUME NEW p \in Replicas, Crash(p) PROVE LockInv'
  <2>1. \A q \in Requests : stage'[q] \in Section => stage[q] \in Section
    BY <1>c DEF Crash, Section, TypeOK
  <2>. QED  BY <1>c, <2>1 DEF Crash, LockInv, redisVars
<1>l. ASSUME LockExpires PROVE LockInv'
  <2>1. \A r \in Requests : stage[r] \notin Section
    BY <1>l DEF LockExpires, LockInv
  <2>. QED  BY <1>l, <2>1 DEF LockExpires, LockInv, requestVars
<1>o. ASSUME UNCHANGED <<stage, lock>> PROVE LockInv'
  BY <1>o DEF LockInv
<1>e. CASE \/ CacheExpires \/ RedisDown \/ RedisUp \/ UNCHANGED vars
           \/ \E p \in Replicas : \/ Reconnect(p) \/ GiveUp(p)
                                  \/ CheckHealth(p) \/ WindowSlides(p)
  BY <1>e, <1>o DEF CacheExpires, RedisDown, RedisUp, vars, Reconnect, GiveUp,
       CheckHealth, WindowSlides, requestVars, redisVars
<1>. QED  BY <1>r, <1>c, <1>l, <1>e DEF Next, Replica

\* Nobody is in the section at the start.
LEMMA InitLock == Init => LockInv
BY DEF Init, LockInv, Section

\* The lock's invariant, while no holder outlives its lock.
LEMMA LockAlways ==
    ASSUME LockOverrun = FALSE
    PROVE  Spec => [](TypeOK /\ LockInv)
<1>1. Init => TypeOK /\ LockInv
  BY InitType, InitLock
<1>2. TypeOK /\ LockInv /\ [Next]_vars => (TypeOK /\ LockInv)'
  BY TypeStep, LockStep
<1>. QED  BY <1>1, <1>2, PTL DEF Spec

\* Requests collapse across replicas: at most one is between acquiring and
\* releasing the lock, also when commands and their answers get lost.
THEOREM ExchangesExcludeEachOther ==
    ASSUME LockOverrun = FALSE
    PROVE  Spec => []ExchangesAreExclusive
<1>1. TypeOK /\ LockInv => ExchangesAreExclusive
  BY DEF LockInv, ExchangesAreExclusive
<1>. QED  BY <1>1, LockAlways, PTL

-----------------------------------------------------------------------------
(* The tokens *)

Early == {"new", "read", "acquire", "wait", "reacquire", "exchange", "direct"}

\* The cache holds the newest token it ever held, or none.
CacheIsTop == cache \in {0, top} /\ top <= newest

\* What is about to be stored is newer.
StoresNewer ==
    \A r \in Requests : stage[r] = "store" => top < token[r] /\ token[r] <= newest

\* What a request has got, it may be answered with.
AnswersAreCurrent ==
    \A r \in Requests :
        /\ floor[r] <= top
        /\ stage[r] \in Early => token[r] = 0
        /\ stage[r] = "release" /\ token[r] # 0 => top <= token[r]
        /\ stage[r] \in {"issued", "done"} => floor[r] <= token[r]

\* Genesys has issued a token to a degraded request that waits for its answer.
IssuedHasToken == \A r \in Requests : stage[r] = "issued" => token[r] # 0

TokenInv == CacheIsTop /\ StoresNewer /\ AnswersAreCurrent /\ IssuedHasToken

\* A step that moves requests only within Early, or to failed.
LEMMA TokenKept ==
    ASSUME TypeOK, TokenInv,
           UNCHANGED <<token, newest, floor, top>>,
           cache' \in {0, cache},
           \A q \in Requests :
               \/ stage'[q] = stage[q]
               \/ stage[q] \in Early /\ stage'[q] \in Early
               \/ stage[q] \in Early /\ stage'[q] = "release"
               \/ stage'[q] = "failed"
    PROVE  TokenInv'
<1>1. CacheIsTop'
  BY DEF TokenInv, CacheIsTop
<1>2. StoresNewer'
  BY DEF TokenInv, StoresNewer, Early
<1>3. AnswersAreCurrent'
  BY DEF TokenInv, AnswersAreCurrent, Early
<1>4. IssuedHasToken'
  BY DEF TokenInv, IssuedHasToken, Early
<1>. QED  BY <1>1, <1>2, <1>3, <1>4 DEF TokenInv

\* The cache answers.
LEMMA TokenHit ==
    ASSUME TypeOK, TokenInv, NEW r \in Requests, Hit(r),
           UNCHANGED <<cache, newest, floor, top>>
    PROVE  TokenInv'
<1>1. /\ stage' = [stage EXCEPT ![r] = "done"]
      /\ token' = [token EXCEPT ![r] = top]
  BY DEF Hit, TokenInv, CacheIsTop
<1>2. CacheIsTop'
  BY DEF TokenInv, CacheIsTop
<1>3. StoresNewer'
  BY <1>1 DEF TokenInv, StoresNewer, TypeOK
<1>4. AnswersAreCurrent'
  BY <1>1 DEF TokenInv, AnswersAreCurrent, Early, TypeOK
<1>5. IssuedHasToken'
  BY <1>1 DEF TokenInv, IssuedHasToken, TypeOK
<1>. QED  BY <1>2, <1>3, <1>4, <1>5 DEF TokenInv

\* Every step keeps TokenInv, as long as the lock excludes.
LEMMA TokenStep ==
    ASSUME TypeOK, LockInv, TokenInv, [Next]_vars
    PROVE  TokenInv'
<1>. USE TokenBrokerAssumption
<1>1. ASSUME NEW r \in Requests, Arrive(r) PROVE TokenInv'
  <2>1. \E t \in {"acquire", "read", "direct", "failed"} :
          stage' = [stage EXCEPT ![r] = t]
    BY <1>1 DEF Arrive, Goes
  <2>2. PICK t \in {"acquire", "read", "direct", "failed"} :
          stage' = [stage EXCEPT ![r] = t]
    BY <2>1
  <2>3. /\ floor' = [floor EXCEPT ![r] = top]
        /\ UNCHANGED <<token, cache, newest, top>>
        /\ stage[r] = "new"
    BY <1>1 DEF Arrive, Goes, redisVars
  <2>4. CacheIsTop'
    BY <2>3 DEF TokenInv, CacheIsTop
  <2>5. StoresNewer'
    BY <2>2, <2>3 DEF TokenInv, StoresNewer, TypeOK
  <2>6. AnswersAreCurrent'
    BY <2>2, <2>3 DEF TokenInv, AnswersAreCurrent, Early, TypeOK
  <2>i. IssuedHasToken'
    BY <2>2, <2>3 DEF TokenInv, IssuedHasToken, TypeOK
  <2>. QED  BY <2>4, <2>5, <2>6, <2>i DEF TokenInv
<1>2. ASSUME NEW r \in Requests, ReadCache(r) \/ WaitForCache(r) PROVE TokenInv'
  <2>1. UNCHANGED <<cache, newest, floor, top>>
    BY <1>2 DEF ReadCache, WaitForCache, redisVars, historyVars
  <2>2. CASE Hit(r)
    BY <2>1, <2>2, TokenHit
  <2>3. CASE ~Hit(r)
    <3>1. \E s, t \in Early : Goes(r, s, t) /\ UNCHANGED token
      <4>1. CASE ReadCache(r)
        BY <2>3, <4>1 DEF ReadCache, Early
      <4>2. CASE WaitForCache(r)
        <5>1. Goes(r, "wait", IF waits'[r] = MaxWaits THEN "reacquire" ELSE "wait")
          BY <2>3, <4>2 DEF WaitForCache
        <5>2. UNCHANGED token
          BY <2>3, <4>2 DEF WaitForCache
        <5>3. Goes(r, "wait", "reacquire") \/ Goes(r, "wait", "wait")
          BY <5>1
        <5>. QED  BY <5>2, <5>3 DEF Early
      <4>. QED  BY <1>2, <4>1, <4>2
    <3>2. \A q \in Requests : \/ stage'[q] = stage[q]
                              \/ stage[q] \in Early /\ stage'[q] \in Early
      BY <3>1 DEF Goes, TypeOK
    <3>. QED  BY <2>1, <3>1, <3>2, TokenKept
  <2>. QED  BY <2>2, <2>3
<1>3. ASSUME NEW r \in Requests, AcquireLock(r) \/ RetryAcquire(r)
             \/ ExchangeFails(r) \/ DirectFails(r)
      PROVE  TokenInv'
  <2>1. UNCHANGED <<token, cache, newest, floor, top>>
    BY <1>3 DEF AcquireLock, RetryAcquire, ExchangeFails, DirectFails,
         redisVars, historyVars
  <2>2. \/ \E s \in Early, t \in Early \cup {"release", "failed"} : Goes(r, s, t)
        \/ Goes(r, "issued", "failed")
    BY <1>3 DEF AcquireLock, RetryAcquire, ExchangeFails, DirectFails,
         TryAcquire, Early
  <2>3. \A q \in Requests :
          \/ stage'[q] = stage[q]
          \/ stage[q] \in Early /\ stage'[q] \in Early
          \/ stage[q] \in Early /\ stage'[q] = "release"
          \/ stage'[q] = "failed"
    BY <2>2 DEF Goes, TypeOK
  <2>. QED  BY <2>1, <2>3, TokenKept
<1>4. ASSUME NEW r \in Requests, Exchange(r) PROVE TokenInv'
  <2>1. /\ stage[r] = "exchange"
        /\ stage' = [stage EXCEPT ![r] = "store"]
        /\ newest' = newest + 1
        /\ token' = [token EXCEPT ![r] = newest + 1]
        /\ UNCHANGED <<cache, floor, top>>
    BY <1>4 DEF Exchange, Goes, redisVars, historyVars
  <2>2. newest \in Nat /\ top \in Nat /\ top <= newest
    BY DEF TypeOK, TokenInv, CacheIsTop
  <2>3. CacheIsTop'
    BY <2>1, <2>2 DEF TokenInv, CacheIsTop
  <2>4. StoresNewer'
    BY <2>1, <2>2 DEF TokenInv, StoresNewer, TypeOK
  <2>5. AnswersAreCurrent'
    BY <2>1 DEF TokenInv, AnswersAreCurrent, Early, TypeOK
  <2>i. IssuedHasToken'
    BY <2>1 DEF TokenInv, IssuedHasToken, TypeOK
  <2>. QED  BY <2>3, <2>4, <2>5, <2>i DEF TokenInv
<1>5. ASSUME NEW r \in Requests, StoreToken(r) PROVE TokenInv'
  <2>1. /\ stage[r] = "store"
        /\ stage' = [stage EXCEPT ![r] = "release"]
        /\ UNCHANGED <<token, newest, floor>>
    BY <1>5 DEF StoreToken, Goes
  <2>2. top < token[r] /\ token[r] <= newest /\ top \in Nat /\ token[r] \in Nat
    BY <2>1 DEF TokenInv, StoresNewer, TypeOK
  <2>3. \/ cache' = token[r] /\ top' = token[r]
        \/ UNCHANGED <<cache, top>>
    BY <1>5, <2>2 DEF StoreToken, Cached
  <2>4. \A q \in Requests : q # r => stage[q] \notin {"store", "release"}
    BY <2>1 DEF LockInv, Section
  <2>5. CacheIsTop'
    BY <2>1, <2>2, <2>3 DEF TokenInv, CacheIsTop
  <2>6. StoresNewer'
    BY <2>1, <2>4 DEF StoresNewer, TypeOK
  <2>7. \A q \in Requests : floor'[q] \in Nat /\ floor'[q] <= top
    BY <2>1 DEF TokenInv, AnswersAreCurrent, TypeOK
  <2>8. top <= top' /\ top' \in Nat
    BY <2>2, <2>3
  <2>9. \A q \in Requests : floor'[q] <= top'
    BY <2>2, <2>7, <2>8
  <2>10. floor'[r] <= token'[r]
    BY <2>1, <2>2, <2>7
  <2>11. AnswersAreCurrent'
    BY <2>1, <2>2, <2>3, <2>4, <2>9, <2>10
       DEF TokenInv, AnswersAreCurrent, Early, TypeOK
  <2>i. IssuedHasToken'
    BY <2>1 DEF TokenInv, IssuedHasToken, TypeOK
  <2>. QED  BY <2>5, <2>6, <2>11, <2>i DEF TokenInv
<1>6. ASSUME NEW r \in Requests, ReleaseLock(r) PROVE TokenInv'
  <2>1. /\ stage[r] = "release"
        /\ stage' = [stage EXCEPT ![r] = IF token[r] # 0 THEN "done" ELSE "failed"]
        /\ UNCHANGED <<token, cache, newest, floor, top>>
    BY <1>6 DEF ReleaseLock, Goes, historyVars
  <2>0. /\ floor[r] \in Nat /\ token[r] \in Nat /\ top \in Nat
        /\ floor[r] <= top
        /\ token[r] # 0 => top <= token[r]
    BY <2>1 DEF TokenInv, AnswersAreCurrent, TypeOK
  <2>7. token[r] # 0 => floor[r] <= token[r]
    BY <2>0
  <2>2. CacheIsTop'
    BY <2>1 DEF TokenInv, CacheIsTop
  <2>3. StoresNewer'
    BY <2>1 DEF TokenInv, StoresNewer, TypeOK
  <2>4. AnswersAreCurrent'
    BY <2>1, <2>7 DEF TokenInv, AnswersAreCurrent, Early, TypeOK
  <2>i. IssuedHasToken'
    BY <2>1 DEF TokenInv, IssuedHasToken, TypeOK
  <2>. QED  BY <2>2, <2>3, <2>4, <2>i DEF TokenInv
<1>7. ASSUME NEW r \in Requests, ExchangeDirectly(r) PROVE TokenInv'
  <2>1. /\ stage[r] = "direct"
        /\ stage' = [stage EXCEPT ![r] = "issued"]
        /\ newest' = newest + 1
        /\ token' = [token EXCEPT ![r] = newest + 1]
        /\ UNCHANGED <<cache, floor, top>>
    BY <1>7 DEF ExchangeDirectly, Goes, redisVars, historyVars
  <2>2. newest \in Nat /\ top \in Nat /\ top <= newest
    BY DEF TypeOK, TokenInv, CacheIsTop
  <2>3. CacheIsTop'
    BY <2>1, <2>2 DEF TokenInv, CacheIsTop
  <2>4. StoresNewer'
    BY <2>1, <2>2 DEF TokenInv, StoresNewer, TypeOK
  <2>5. floor[r] \in Nat /\ floor[r] <= top
    BY DEF TokenInv, AnswersAreCurrent, TypeOK
  <2>6. floor'[r] <= token'[r]
    BY <2>1, <2>2, <2>5 DEF TypeOK
  <2>7. AnswersAreCurrent'
    BY <2>1, <2>6 DEF TokenInv, AnswersAreCurrent, Early, TypeOK
  <2>i. IssuedHasToken'
    BY <2>1, <2>2 DEF TokenInv, IssuedHasToken, TypeOK
  <2>. QED  BY <2>3, <2>4, <2>7, <2>i DEF TokenInv
<1>10. ASSUME NEW r \in Requests, AnswerDirectly(r) PROVE TokenInv'
  <2>1. /\ stage[r] = "issued"
        /\ stage' = [stage EXCEPT ![r] = "done"]
        /\ UNCHANGED <<token, cache, newest, floor, top>>
    BY <1>10 DEF AnswerDirectly, Goes, redisVars, historyVars
  <2>2. floor[r] <= token[r]
    BY <2>1 DEF TokenInv, AnswersAreCurrent
  <2>3. CacheIsTop'
    BY <2>1 DEF TokenInv, CacheIsTop
  <2>4. StoresNewer'
    BY <2>1 DEF TokenInv, StoresNewer, TypeOK
  <2>5. AnswersAreCurrent'
    BY <2>1, <2>2 DEF TokenInv, AnswersAreCurrent, Early, TypeOK
  <2>i. IssuedHasToken'
    BY <2>1 DEF TokenInv, IssuedHasToken, TypeOK
  <2>. QED  BY <2>3, <2>4, <2>5, <2>i DEF TokenInv
<1>8. ASSUME NEW p \in Replicas, Crash(p) PROVE TokenInv'
  <2>1. /\ UNCHANGED <<token, cache, newest, floor, top>>
        /\ \A q \in Requests : stage'[q] = stage[q] \/ stage'[q] = "failed"
    BY <1>8 DEF Crash, redisVars, historyVars
  <2>. QED  BY <2>1, TokenKept
<1>9. ASSUME UNCHANGED <<stage, token, newest, floor, top>>, cache' \in {0, cache}
      PROVE  TokenInv'
  BY <1>9, TokenKept
<1>e. CASE \/ CacheExpires \/ LockExpires \/ RedisDown \/ RedisUp
           \/ UNCHANGED vars
           \/ \E p \in Replicas : \/ Reconnect(p) \/ GiveUp(p)
                                  \/ CheckHealth(p) \/ WindowSlides(p)
  BY <1>e, <1>9 DEF CacheExpires, LockExpires, RedisDown, RedisUp, vars,
       Reconnect, GiveUp, CheckHealth, WindowSlides, requestVars, redisVars,
       historyVars
<1>. QED  BY <1>1, <1>2, <1>3, <1>4, <1>5, <1>6, <1>7, <1>8, <1>10, <1>e
          DEF Next, Request, Step, Replica

\* The invariant of the tokens holds at the start.
LEMMA InitToken == Init => TokenInv
BY TokenBrokerAssumption
   DEF Init, TokenInv, CacheIsTop, StoresNewer, AnswersAreCurrent, IssuedHasToken

\* The invariant of the tokens, while no holder outlives its lock.
LEMMA TokenAlways ==
    ASSUME LockOverrun = FALSE
    PROVE  Spec => [](TypeOK /\ LockInv /\ TokenInv)
<1>1. Init => TypeOK /\ LockInv /\ TokenInv
  BY InitType, InitLock, InitToken
<1>2. TypeOK /\ LockInv /\ TokenInv /\ [Next]_vars => (TypeOK /\ LockInv /\ TokenInv)'
  BY TypeStep, LockStep, TokenStep
<1>. QED  BY <1>1, <1>2, PTL DEF Spec

\* No request is answered with a token older than one that was cached before
\* it arrived, on whichever replica.
THEOREM AnswersNeverGoBack ==
    ASSUME LockOverrun = FALSE
    PROVE  Spec => []NeverOlderThanSeen
<1>1. TypeOK /\ LockInv /\ TokenInv => NeverOlderThanSeen
  BY DEF TokenInv, AnswersAreCurrent, NeverOlderThanSeen, TypeOK
<1>. QED  BY <1>1, TokenAlways, PTL

\* Only StoreToken writes a token to the cache, and it writes a newer one.
LEMMA AdvanceStep ==
    ASSUME TypeOK, TokenInv, [Next]_vars
    PROVE  cache' \in {0, cache} \/ cache' > top
<1>1. ASSUME NEW r \in Requests, StoreToken(r)
      PROVE  cache' \in {0, cache} \/ cache' > top
  <2>1. stage[r] = "store"
    BY <1>1 DEF StoreToken, Goes
  <2>2. top < token[r] /\ top \in Nat /\ token[r] \in Nat
    BY <2>1 DEF TokenInv, StoresNewer, TypeOK
  <2>. QED  BY <1>1, <2>2 DEF StoreToken, Cached
<1>2. ASSUME NEW r \in Requests, Request(r), ~StoreToken(r) PROVE cache' = cache
  BY <1>2 DEF Request, Step, Arrive, ReadCache, AcquireLock, WaitForCache,
       RetryAcquire, Exchange, ReleaseLock, ExchangeDirectly, AnswerDirectly,
       ExchangeFails, DirectFails, redisVars
<1>3. ASSUME NEW p \in Replicas, Replica(p) PROVE cache' = cache
  BY <1>3 DEF Replica, Reconnect, GiveUp, CheckHealth, WindowSlides, Crash,
       redisVars
<1>4. CASE CacheExpires \/ LockExpires \/ RedisDown \/ RedisUp \/ UNCHANGED vars
  BY <1>4 DEF CacheExpires, LockExpires, RedisDown, RedisUp, vars, redisVars
<1>. QED  BY <1>1, <1>2, <1>3, <1>4 DEF Next

\* The cached token only ever gets newer, until it expires.
THEOREM CacheNeverGoesBack ==
    ASSUME LockOverrun = FALSE
    PROVE  Spec => CacheOnlyAdvances
<1>1. TypeOK /\ LockInv /\ TokenInv /\ [Next]_vars
        => [cache' \in {0, cache} \/ cache' > top]_vars
  BY AdvanceStep
<1>. QED  BY <1>1, TokenAlways, PTL DEF Spec, CacheOnlyAdvances

-----------------------------------------------------------------------------
(* The promise *)

\* What TokenIssuer sees of the requests.
Phases == [r \in Requests |-> PhaseOf(stage[r])]
Given == [r \in Requests |-> IF stage[r] = "done" THEN token[r] ELSE 0]
Own == [r \in Requests |-> IF stage[r] \in {"store", "release"} THEN token[r] ELSE 0]
Alone == [r \in Requests |-> IF stage[r] = "issued" THEN token[r] ELSE 0]
Seen == <<Phases, Given, newest, Own, Alone, top>>

\* What is seen after a step of r.
LEMMA SeenAfter ==
    ASSUME TypeOK, NEW r \in Requests, NEW s, NEW t,
           stage' = [stage EXCEPT ![r] = s], token' = [token EXCEPT ![r] = t]
    PROVE  /\ Phases' = [Phases EXCEPT ![r] = PhaseOf(s)]
           /\ Given' = [Given EXCEPT ![r] = IF s = "done" THEN t ELSE 0]
           /\ Own' = [Own EXCEPT ![r] = IF s \in {"store", "release"} THEN t ELSE 0]
           /\ Alone' = [Alone EXCEPT ![r] = IF s = "issued" THEN t ELSE 0]
<1>1. /\ stage'[r] = s /\ token'[r] = t
      /\ \A q \in Requests \ {r} : stage'[q] = stage[q] /\ token'[q] = token[q]
  BY DEF TypeOK
<1>2. Phases' = [Phases EXCEPT ![r] = PhaseOf(s)]
  <2>1. \A q \in Requests \ {r} : PhaseOf(stage'[q]) = PhaseOf(stage[q])
    BY <1>1
  <2>2. PhaseOf(stage'[r]) = PhaseOf(s)
    BY <1>1
  <2>3. Phases' = [q \in Requests |-> PhaseOf(stage'[q])]
    BY DEF Phases, PhaseOf
  <2> HIDE DEF PhaseOf
  <2>. QED  BY <2>1, <2>2, <2>3 DEF Phases
<1>3. Given' = [Given EXCEPT ![r] = IF s = "done" THEN t ELSE 0]
  BY <1>1 DEF Given
<1>4. Own' = [Own EXCEPT ![r] = IF s \in {"store", "release"} THEN t ELSE 0]
  BY <1>1 DEF Own
<1>5. Alone' = [Alone EXCEPT ![r] = IF s = "issued" THEN t ELSE 0]
  BY <1>1 DEF Alone
<1>. QED  BY <1>2, <1>3, <1>4, <1>5

\* The same when the step leaves the tokens alone.
LEMMA SeenAfterMove ==
    ASSUME TypeOK, NEW r \in Requests, NEW s,
           stage' = [stage EXCEPT ![r] = s], token' = token
    PROVE  /\ Phases' = [Phases EXCEPT ![r] = PhaseOf(s)]
           /\ Given' = [Given EXCEPT ![r] = IF s = "done" THEN token[r] ELSE 0]
           /\ Own' = [Own EXCEPT ![r] = IF s \in {"store", "release"}
                                        THEN token[r] ELSE 0]
           /\ Alone' = [Alone EXCEPT ![r] = IF s = "issued" THEN token[r] ELSE 0]
<1>. DEFINE t == token[r]
<1>1. token' = [token EXCEPT ![r] = t]
  BY DEF TypeOK
<1>. HIDE DEF t
<1>2. /\ Phases' = [Phases EXCEPT ![r] = PhaseOf(s)]
      /\ Given' = [Given EXCEPT ![r] = IF s = "done" THEN t ELSE 0]
      /\ Own' = [Own EXCEPT ![r] = IF s \in {"store", "release"} THEN t ELSE 0]
      /\ Alone' = [Alone EXCEPT ![r] = IF s = "issued" THEN t ELSE 0]
  BY <1>1, SeenAfter
<1>. QED  BY <1>2 DEF t

\* A step that only counts or waits is not seen.
LEMMA NothingSeen ==
    ASSUME UNCHANGED <<stage, token, newest, top>>
    PROVE  UNCHANGED Seen
BY DEF Seen, Phases, Given, Own, Alone, PhaseOf

\* A request goes on without a token.
LEMMA GoesOn ==
    ASSUME TypeOK, TokenInv, NEW r \in Requests,
           NEW s \in Early \ {"new"}, NEW t \in (Early \ {"new"}) \cup {"release"},
           Goes(r, s, t), UNCHANGED <<token, newest, top>>
    PROVE  UNCHANGED Seen
<1>1. /\ stage[r] = s /\ stage' = [stage EXCEPT ![r] = t]
      /\ token[r] = 0
  BY DEF Goes, TokenInv, AnswersAreCurrent, TypeOK
<1>2. PhaseOf(s) = "pending" /\ PhaseOf(t) = "pending"
  BY DEF PhaseOf, Early, Running, Section
<1>3. /\ Phases' = [Phases EXCEPT ![r] = "pending"]
      /\ Given' = [Given EXCEPT ![r] = 0]
      /\ Own' = [Own EXCEPT ![r] = 0]
      /\ Alone' = [Alone EXCEPT ![r] = 0]
  <2>1. /\ Phases' = [Phases EXCEPT ![r] = PhaseOf(t)]
        /\ Given' = [Given EXCEPT ![r] = IF t = "done" THEN token[r] ELSE 0]
        /\ Own' = [Own EXCEPT ![r] = IF t \in {"store", "release"}
                                     THEN token[r] ELSE 0]
        /\ Alone' = [Alone EXCEPT ![r] = IF t = "issued" THEN token[r] ELSE 0]
    BY <1>1, SeenAfterMove
  <2>. QED  BY <1>1, <1>2, <2>1
<1>4. Phases[r] = "pending" /\ Given[r] = 0 /\ Own[r] = 0 /\ Alone[r] = 0
  BY <1>1, <1>2 DEF Phases, Given, Own, Alone, Early
<1>5. Phases' = Phases /\ Given' = Given /\ Own' = Own /\ Alone' = Alone
  BY <1>3, <1>4 DEF Phases, Given, Own, Alone
<1>. QED  BY <1>5 DEF Seen

\* Requests that run are refused when they fail, one or all of a replica.
LEMMA FailureRefuses ==
    ASSUME TypeOK, NEW S \in SUBSET Requests,
           \A r \in S : stage[r] \in Running,
           stage' = [r \in Requests |-> IF r \in S THEN "failed" ELSE stage[r]],
           UNCHANGED <<token, newest, top>>
    PROVE  Issuer!Refuses(S)
<1>1. /\ PhaseOf("failed") = "refused"
      /\ \A s \in Running : PhaseOf(s) = "pending" /\ s # "done"
  BY DEF PhaseOf, Running, Section
<1>2. \A r \in S : Phases[r] = "pending"
  BY <1>1 DEF Phases
<1>3. Phases' = [r \in Requests |-> IF r \in S THEN "refused" ELSE Phases[r]]
  <2>1. Phases' = [q \in Requests |-> PhaseOf(stage'[q])]
    BY DEF Phases, PhaseOf
  <2> HIDE DEF PhaseOf
  <2>. QED  BY <1>1, <2>1 DEF Phases
<1>4. Own' = [r \in Requests |-> IF r \in S THEN 0 ELSE Own[r]]
  BY DEF Own
<1>5. Given' = Given
  BY <1>1 DEF Given
<1>6. Alone' = [r \in Requests |-> IF r \in S THEN 0 ELSE Alone[r]]
  BY DEF Alone
<1>. QED  BY <1>2, <1>3, <1>4, <1>5, <1>6 DEF Issuer!Refuses, Phases, Given, Own, Alone

\* One request fails.
LEMMA RefusesOne ==
    ASSUME TypeOK, NEW r \in Requests, NEW s \in Running, Goes(r, s, "failed"),
           UNCHANGED <<token, newest, top>>
    PROVE  Issuer!Refuses({r})
<1>1. /\ stage[r] \in Running
      /\ stage' = [q \in Requests |-> IF q \in {r} THEN "failed" ELSE stage[q]]
  BY DEF Goes, TypeOK
<1>. QED  BY <1>1, FailureRefuses

\* The cache answers with what all share.
LEMMA HitAnswers ==
    ASSUME TypeOK, TokenInv, NEW r \in Requests, Hit(r), stage[r] \in Running,
           UNCHANGED <<newest, top>>
    PROVE  Issuer!AnswersShared(r)
<1>1. /\ stage' = [stage EXCEPT ![r] = "done"]
      /\ token' = [token EXCEPT ![r] = top]
      /\ top # 0
  BY DEF Hit, TokenInv, CacheIsTop
<1>2. PhaseOf("done") = "answered" /\ PhaseOf(stage[r]) = "pending"
  BY DEF PhaseOf, Running, Section
<1>3. /\ Phases' = [Phases EXCEPT ![r] = "answered"]
      /\ Given' = [Given EXCEPT ![r] = top]
      /\ Own' = [Own EXCEPT ![r] = 0]
      /\ Alone' = [Alone EXCEPT ![r] = 0]
      /\ Phases[r] = "pending"
  <2>1. /\ Phases' = [Phases EXCEPT ![r] = PhaseOf("done")]
        /\ Given' = [Given EXCEPT ![r] = IF "done" = "done" THEN top ELSE 0]
        /\ Own' = [Own EXCEPT ![r] = IF "done" \in {"store", "release"} THEN top ELSE 0]
        /\ Alone' = [Alone EXCEPT ![r] = IF "done" = "issued" THEN top ELSE 0]
    BY <1>1, SeenAfter
  <2>2. Phases[r] = PhaseOf(stage[r])
    BY DEF Phases
  <2>. QED  BY <1>2, <2>1, <2>2
<1>. QED  BY <1>1, <1>3 DEF Issuer!AnswersShared, Issuer!Answers, Phases, Given, Own, Alone

\* Every step is one of the issuer or is not seen.
LEMMA IssuerStep ==
    ASSUME TypeOK, LockInv, TokenInv, [Next]_vars
    PROVE  Issuer!Next \/ UNCHANGED Seen
<1>. USE TokenBrokerAssumption
<1>1. ASSUME NEW r \in Requests, Arrive(r) PROVE Issuer!Asks(r)
  <2>1. PICK t \in {"acquire", "read", "direct", "failed"} :
            stage[r] = "new" /\ stage' = [stage EXCEPT ![r] = t]
    BY <1>1 DEF Arrive, Goes
  <2>2. UNCHANGED <<token, newest, top>> /\ token[r] = 0
    BY <1>1, <2>1 DEF Arrive, TokenInv, AnswersAreCurrent, Early, TypeOK
  <2>3. PhaseOf("new") = "new" /\ PhaseOf(t) \in {"pending", "refused"}
    BY DEF PhaseOf, Running, Section
  <2>4. /\ Phases' = [Phases EXCEPT ![r] = PhaseOf(t)]
        /\ Given' = [Given EXCEPT ![r] = 0]
        /\ Own' = [Own EXCEPT ![r] = 0]
        /\ Alone' = [Alone EXCEPT ![r] = 0]
    <3>1. /\ Phases' = [Phases EXCEPT ![r] = PhaseOf(t)]
          /\ Given' = [Given EXCEPT ![r] = IF t = "done" THEN token[r] ELSE 0]
          /\ Own' = [Own EXCEPT ![r] = IF t \in {"store", "release"}
                                       THEN token[r] ELSE 0]
          /\ Alone' = [Alone EXCEPT ![r] = IF t = "issued" THEN token[r] ELSE 0]
      BY <2>1, <2>2, SeenAfterMove
    <3>. QED  BY <2>2, <3>1
  <2>5. Phases[r] = "new" /\ Given[r] = 0 /\ Own[r] = 0 /\ Alone[r] = 0
    BY <2>1, <2>3 DEF Phases, Given, Own, Alone
  <2>6. Given' = Given /\ Own' = Own /\ Alone' = Alone
    <3>1. /\ Given' = [Given EXCEPT ![r] = Given[r]]
          /\ Own' = [Own EXCEPT ![r] = Own[r]]
          /\ Alone' = [Alone EXCEPT ![r] = Alone[r]]
      BY <2>4, <2>5
    <3>. QED  BY <3>1 DEF Given, Own, Alone
  <2>. QED  BY <2>2, <2>3, <2>4, <2>5, <2>6 DEF Issuer!Asks, Phases, Given, Own, Alone
<1>2. ASSUME NEW r \in Requests, ReadCache(r) \/ WaitForCache(r)
      PROVE  Issuer!AnswersShared(r) \/ UNCHANGED Seen
  <2>1. /\ UNCHANGED <<newest, top>>
        /\ stage[r] \in {"read", "wait"}
    BY <1>2 DEF ReadCache, WaitForCache, historyVars
  <2>2. CASE Hit(r)
    BY <2>1, <2>2, HitAnswers DEF Running
  <2>3. CASE ~Hit(r)
    <3>1. /\ \E s \in {"read", "wait"}, t \in {"acquire", "wait", "reacquire"} : Goes(r, s, t)
          /\ UNCHANGED token
      <4>1. CASE ReadCache(r)
        BY <2>3, <4>1 DEF ReadCache
      <4>2. CASE WaitForCache(r)
        <5>1. Goes(r, "wait", IF waits'[r] = MaxWaits THEN "reacquire" ELSE "wait")
          BY <2>3, <4>2 DEF WaitForCache
        <5>. QED  BY <2>3, <4>2, <5>1 DEF WaitForCache
      <4>. QED  BY <1>2, <4>1, <4>2
    <3>. QED  BY <2>1, <3>1, GoesOn DEF Early
  <2>. QED  BY <2>2, <2>3
<1>3. ASSUME NEW r \in Requests, AcquireLock(r) \/ RetryAcquire(r)
      PROVE  Issuer!Refuses({r}) \/ UNCHANGED Seen
  <2>1. UNCHANGED <<token, newest, top>>
    BY <1>3 DEF AcquireLock, RetryAcquire, historyVars
  <2>2. \/ \E s \in {"acquire", "reacquire"}, t \in {"exchange", "wait"} : Goes(r, s, t)
        \/ Goes(r, "reacquire", "failed")
    BY <1>3 DEF AcquireLock, RetryAcquire, TryAcquire
  <2>. QED  BY <2>1, <2>2, GoesOn, RefusesOne DEF Early, Running
<1>4. ASSUME NEW r \in Requests, Exchange(r) PROVE Issuer!Obtains(r)
  <2>1. /\ stage[r] = "exchange"
        /\ stage' = [stage EXCEPT ![r] = "store"]
        /\ newest' = newest + 1
        /\ token' = [token EXCEPT ![r] = newest + 1]
        /\ UNCHANGED top
    BY <1>4 DEF Exchange, Goes, historyVars
  <2>2. PhaseOf("exchange") = "pending" /\ PhaseOf("store") = "pending"
    BY DEF PhaseOf, Running, Section
  <2>3. \A q \in Requests : Own[q] = 0
    BY <2>1 DEF LockInv, Section, Own
  <2>4. /\ Phases' = [Phases EXCEPT ![r] = PhaseOf("store")]
        /\ Given' = [Given EXCEPT ![r] = 0]
        /\ Own' = [Own EXCEPT ![r] = newest + 1]
        /\ Alone' = [Alone EXCEPT ![r] = 0]
    <3>. DEFINE t == newest + 1
    <3>. HIDE DEF t
    <3>1. /\ stage' = [stage EXCEPT ![r] = "store"]
          /\ token' = [token EXCEPT ![r] = t]
      BY <2>1 DEF t
    <3>2. /\ Phases' = [Phases EXCEPT ![r] = PhaseOf("store")]
          /\ Given' = [Given EXCEPT ![r] = IF "store" = "done" THEN t ELSE 0]
          /\ Own' = [Own EXCEPT ![r] = IF "store" \in {"store", "release"}
                                       THEN t ELSE 0]
          /\ Alone' = [Alone EXCEPT ![r] = IF "store" = "issued" THEN t ELSE 0]
      BY <3>1, SeenAfter
    <3>. QED  BY <3>2 DEF t
  <2>5. Phases[r] = "pending" /\ Given[r] = 0 /\ Alone[r] = 0
    BY <2>1, <2>2 DEF Phases, Given, Alone
  <2>6. Phases' = Phases /\ Given' = Given /\ Alone' = Alone
    <3>1. Phases' = Phases
      <4>1. Phases' = [Phases EXCEPT ![r] = Phases[r]]
        BY <2>2, <2>4, <2>5
      <4>. QED  BY <4>1 DEF Phases
    <3>2. Given' = Given
      BY <2>4, <2>5 DEF Given
    <3>3. Alone' = Alone
      BY <2>4, <2>5 DEF Alone
    <3>. QED  BY <3>1, <3>2, <3>3
  <2>. QED  BY <2>1, <2>3, <2>4, <2>5, <2>6 DEF Issuer!Obtains, Phases, Given, Own, Alone
<1>5. ASSUME NEW r \in Requests, ExchangeFails(r) PROVE UNCHANGED Seen
  BY <1>5, GoesOn DEF ExchangeFails, Early, historyVars
<1>6. ASSUME NEW r \in Requests, DirectFails(r) PROVE Issuer!Refuses({r})
  <2>1. Goes(r, "direct", "failed") \/ Goes(r, "issued", "failed")
    BY <1>6 DEF DirectFails
  <2>2. UNCHANGED <<token, newest, top>>
    BY <1>6 DEF DirectFails, historyVars
  <2>. QED  BY <2>1, <2>2, RefusesOne DEF Running
<1>7. ASSUME NEW r \in Requests, StoreToken(r) PROVE Issuer!Shares(r) \/ UNCHANGED Seen
  <2>1. /\ stage[r] = "store"
        /\ stage' = [stage EXCEPT ![r] = "release"]
        /\ UNCHANGED <<token, newest>>
    BY <1>7 DEF StoreToken, Goes
  <2>2. top < token[r] /\ top \in Nat /\ token[r] \in Nat
    BY <2>1 DEF TokenInv, StoresNewer, TypeOK
  <2>3. top' = token[r] \/ UNCHANGED top
    BY <1>7, <2>2 DEF StoreToken, Cached
  <2>4. PhaseOf("store") = "pending" /\ PhaseOf("release") = "pending"
    BY DEF PhaseOf, Running, Section
  <2>5. /\ Phases' = [Phases EXCEPT ![r] = PhaseOf("release")]
        /\ Given' = [Given EXCEPT ![r] = 0]
        /\ Own' = [Own EXCEPT ![r] = token[r]]
        /\ Alone' = [Alone EXCEPT ![r] = 0]
    BY <2>1, SeenAfterMove
  <2>6. /\ Phases[r] = "pending" /\ Given[r] = 0
        /\ Own[r] = token[r] /\ Alone[r] = 0
    BY <2>1, <2>4 DEF Phases, Given, Own, Alone
  <2>7. Phases' = Phases /\ Given' = Given /\ Own' = Own /\ Alone' = Alone
    <3>1. Phases' = Phases
      <4>1. Phases' = [Phases EXCEPT ![r] = Phases[r]]
        BY <2>4, <2>5, <2>6
      <4>. QED  BY <4>1 DEF Phases
    <3>2. Given' = Given
      BY <2>5, <2>6 DEF Given
    <3>3. Own' = Own
      <4>1. Own' = [Own EXCEPT ![r] = Own[r]]
        BY <2>5, <2>6
      <4>. QED  BY <4>1 DEF Own
    <3>4. Alone' = Alone
      BY <2>5, <2>6 DEF Alone
    <3>. QED  BY <3>1, <3>2, <3>3, <3>4
  <2>8. CASE top' = token[r]
    BY <2>1, <2>2, <2>6, <2>7, <2>8 DEF Issuer!Shares, Phases, Given, Own, Alone
  <2>. QED  BY <2>1, <2>3, <2>7, <2>8 DEF Seen
<1>8. ASSUME NEW r \in Requests, ReleaseLock(r)
      PROVE  Issuer!AnswersOwn(r) \/ Issuer!Refuses({r})
  <2>1. /\ stage[r] = "release"
        /\ stage' = [stage EXCEPT ![r] = IF token[r] # 0 THEN "done" ELSE "failed"]
        /\ UNCHANGED <<token, newest, top>>
    BY <1>8 DEF ReleaseLock, Goes, historyVars
  <2>2. CASE token[r] = 0
    BY <2>1, <2>2, RefusesOne DEF Goes, Running, Section
  <2>3. CASE token[r] # 0
    <3>1. top <= token[r] /\ token' = [token EXCEPT ![r] = token[r]]
      BY <2>1, <2>3 DEF TokenInv, AnswersAreCurrent, TypeOK
    <3>2. PhaseOf("release") = "pending" /\ PhaseOf("done") = "answered"
      BY DEF PhaseOf, Running, Section
    <3>3. /\ Phases' = [Phases EXCEPT ![r] = PhaseOf("done")]
          /\ Given' = [Given EXCEPT ![r] = token[r]]
          /\ Own' = [Own EXCEPT ![r] = 0]
          /\ Alone' = [Alone EXCEPT ![r] = 0]
      BY <2>1, <2>3, <3>1, SeenAfter
    <3>4. Phases[r] = "pending" /\ Own[r] = token[r]
      BY <2>1, <3>2 DEF Phases, Own
    <3>5. token[r] \in Nat /\ top \in Nat
      BY DEF TypeOK
    <3>. QED  BY <2>1, <2>3, <3>1, <3>2, <3>3, <3>4, <3>5
              DEF Issuer!AnswersOwn, Issuer!Answers, Phases, Given, Own, Alone
  <2>. QED  BY <2>2, <2>3
<1>9. ASSUME NEW r \in Requests, ExchangeDirectly(r) PROVE Issuer!ObtainsAlone(r)
  <2>1. /\ stage[r] = "direct"
        /\ stage' = [stage EXCEPT ![r] = "issued"]
        /\ newest' = newest + 1
        /\ token' = [token EXCEPT ![r] = newest + 1]
        /\ UNCHANGED top
    BY <1>9 DEF ExchangeDirectly, Goes, historyVars
  <2>2. PhaseOf("direct") = "pending" /\ PhaseOf("issued") = "pending"
    BY DEF PhaseOf, Running, Section
  <2>3. /\ Phases' = [Phases EXCEPT ![r] = PhaseOf("issued")]
        /\ Given' = [Given EXCEPT ![r] = 0]
        /\ Own' = [Own EXCEPT ![r] = 0]
        /\ Alone' = [Alone EXCEPT ![r] = newest + 1]
    <3>. DEFINE t == newest + 1
                u == "issued"
    <3>. HIDE DEF t, u
    <3>1. /\ stage' = [stage EXCEPT ![r] = u]
          /\ token' = [token EXCEPT ![r] = t]
      BY <2>1 DEF t, u
    <3>2. /\ Phases' = [Phases EXCEPT ![r] = PhaseOf(u)]
          /\ Given' = [Given EXCEPT ![r] = IF u = "done" THEN t ELSE 0]
          /\ Own' = [Own EXCEPT ![r] = IF u \in {"store", "release"}
                                       THEN t ELSE 0]
          /\ Alone' = [Alone EXCEPT ![r] = IF u = "issued" THEN t ELSE 0]
      BY <3>1, SeenAfter
    <3>. QED  BY <3>2 DEF t, u
  <2>4. Phases[r] = "pending" /\ Given[r] = 0 /\ Own[r] = 0 /\ Alone[r] = 0
    BY <2>1, <2>2 DEF Phases, Given, Own, Alone
  <2>5. Phases' = Phases /\ Given' = Given /\ Own' = Own
    <3>1. Phases' = Phases
      <4>1. Phases' = [Phases EXCEPT ![r] = Phases[r]]
        BY <2>2, <2>3, <2>4
      <4>. QED  BY <4>1 DEF Phases
    <3>2. Given' = Given
      BY <2>3, <2>4 DEF Given
    <3>3. Own' = Own
      BY <2>3, <2>4 DEF Own
    <3>. QED  BY <3>1, <3>2, <3>3
  <2>. QED  BY <2>1, <2>3, <2>4, <2>5
            DEF Issuer!ObtainsAlone, Phases, Given, Own, Alone
<1>13. ASSUME NEW r \in Requests, AnswerDirectly(r) PROVE Issuer!AnswersAlone(r)
  <2>1. /\ stage[r] = "issued"
        /\ stage' = [stage EXCEPT ![r] = "done"]
        /\ UNCHANGED <<token, newest, top>>
    BY <1>13 DEF AnswerDirectly, Goes, historyVars
  <2>2. PhaseOf("issued") = "pending" /\ PhaseOf("done") = "answered"
    BY DEF PhaseOf, Running, Section
  <2>3. /\ Phases' = [Phases EXCEPT ![r] = PhaseOf("done")]
        /\ Given' = [Given EXCEPT ![r] = token[r]]
        /\ Own' = [Own EXCEPT ![r] = 0]
        /\ Alone' = [Alone EXCEPT ![r] = 0]
    <3>1. /\ Phases' = [Phases EXCEPT ![r] = PhaseOf("done")]
          /\ Given' = [Given EXCEPT ![r] = IF "done" = "done" THEN token[r] ELSE 0]
          /\ Own' = [Own EXCEPT ![r] = IF "done" \in {"store", "release"}
                                       THEN token[r] ELSE 0]
          /\ Alone' = [Alone EXCEPT ![r] = IF "done" = "issued" THEN token[r] ELSE 0]
      BY <2>1, SeenAfterMove
    <3>. QED  BY <3>1
  <2>4. Phases[r] = "pending" /\ Alone[r] = token[r]
    BY <2>1, <2>2 DEF Phases, Alone
  <2>5. token[r] # 0
    BY <2>1 DEF TokenInv, IssuedHasToken
  <2>. QED  BY <2>1, <2>2, <2>3, <2>4, <2>5
            DEF Issuer!AnswersAlone, Issuer!Answers, Phases, Given, Own, Alone
<1>10. ASSUME NEW p \in Replicas, Crash(p)
       PROVE  \E S \in SUBSET Requests : Issuer!Refuses(S)
  <2>. DEFINE S == {r \in Requests : ReplicaOf[r] = p /\ stage[r] \in Running}
  <2>1. /\ stage' = [r \in Requests |-> IF r \in S THEN "failed" ELSE stage[r]]
        /\ UNCHANGED <<token, newest, top>>
    BY <1>10 DEF Crash, historyVars
  <2>2. S \in SUBSET Requests /\ \A r \in S : stage[r] \in Running
    OBVIOUS
  <2>. HIDE DEF S
  <2>. QED  BY <2>1, <2>2, FailureRefuses
<1>11. CASE \/ CacheExpires \/ LockExpires \/ RedisDown \/ RedisUp \/ UNCHANGED vars
            \/ \E p \in Replicas : \/ Reconnect(p) \/ GiveUp(p)
                                   \/ CheckHealth(p) \/ WindowSlides(p)
  <2>1. UNCHANGED <<stage, token, newest, top>>
    BY <1>11 DEF CacheExpires, LockExpires, RedisDown, RedisUp, vars, Reconnect, GiveUp,
         CheckHealth, WindowSlides, requestVars, historyVars
  <2>. QED  BY <2>1, NothingSeen
<1>12. \A r \in Requests : {r} \in SUBSET Requests
  OBVIOUS
<1>. QED  BY <1>1, <1>2, <1>3, <1>4, <1>5, <1>6, <1>7, <1>8, <1>9, <1>10, <1>11, <1>12,
             <1>13
          DEF Next, Request, Step, Replica, Issuer!Next

\* Whatever becomes of Redis, of the lock and of replicas, those who ask for a
\* token see the issuer that TokenIssuer describes: one exchange at a time for
\* all, a shared token that only gets newer, and answers at least as new; the
\* answer of a degraded request is a token of its own, issued after it asked.
THEOREM ImplementsTheIssuer ==
    ASSUME LockOverrun = FALSE
    PROVE  Spec => ImplementsIssuer
<1>1. Init => Issuer!Init
  <2>1. PhaseOf("new") = "new"
    BY DEF PhaseOf, Running, Section
  <2>. QED  BY <2>1 DEF Init, Issuer!Init
<1>2. TypeOK /\ LockInv /\ TokenInv /\ [Next]_vars => [Issuer!Next]_Seen
  BY IssuerStep
<1>. QED
  BY <1>1, <1>2, TokenAlways, PTL
     DEF Spec, ImplementsIssuer, Issuer!Spec, Issuer!issuerVars, Seen, Phases, Given, Own,
         Alone
=============================================================================
