----------------------------- MODULE TokenBroker -----------------------------
(***************************************************************************)
(* The Genesys tokens of one tenant in auth-service: a cache in Redis in   *)
(* front of an OAuth exchange, with a lock so that concurrent requests     *)
(* collapse into one exchange.                                             *)
(*                                                                         *)
(* Modelled: getToken with its waiting loop, forced refreshes, the         *)
(* degraded path and its rate limiter, the health monitor, and the Redis   *)
(* client of each replica.  That client queues commands while it           *)
(* reconnects, rejects those that were in flight when the connection was   *)
(* lost (they may have been executed), and after its last retry is closed  *)
(* for good.                                                               *)
(*                                                                         *)
(* Every await ends a step.  Tokens are numbered in the order Genesys      *)
(* issues them; 0 is no token.                                             *)
(***************************************************************************)
EXTENDS Naturals

CONSTANTS
    Requests,      \* calls of POST /api/v1/token for the tenant
    Forced,        \* those with forceRefresh
    Replicas,      \* processes of auth-service
    ReplicaOf,     \* the process that handles a request
    Free, Orphan,  \* the lock: no key; a key nobody knows the value of
    MaxWaits,      \* MAX_WAIT_RETRIES
    DegradedLimit, \* maxRequestsPerMinute of the degraded mode
    MaxFaults,     \* crashes and outages (bound)
    LockOverrun    \* TRUE: an exchange may outlive the lock's 30 second TTL

ASSUME TokenBrokerAssumption ==
    /\ Forced \subseteq Requests
    /\ ReplicaOf \in [Requests -> Replicas]
    /\ Free \notin Requests
    /\ Orphan \notin Requests
    /\ Free # Orphan
    /\ MaxWaits \in Nat \ {0}
    /\ DegradedLimit \in Nat
    /\ MaxFaults \in Nat
    /\ LockOverrun \in BOOLEAN

\* A request waits for: the cached token, the lock, the cached token of the
\* lock's holder, the lock again, Genesys, the SETEX, the DEL of the lock; or,
\* in degraded mode, for Genesys to issue a token and for its answer.
Section == {"exchange", "store", "release"}
Running == {"read", "acquire", "wait", "reacquire", "direct", "issued"}
           \cup Section
Settled == {"done", "failed"}

VARIABLES
    stage,     \* where each request is: new, Running or Settled
    waits,     \* how often it looked for the token of the lock's holder
    token,     \* the token it got
    cache,     \* auth:token:genesys:<tenant>
    lock,      \* auth:lock:genesys:<tenant>
    newest,    \* the last token Genesys issued
    redisUp,   \* whether Redis can be reached
    conn,      \* the Redis client of each replica
    healthy,   \* isHealthy of its health monitor
    recent,    \* its degraded requests of the last minute
    faults,    \* crashes and outages so far
    top,       \* the newest token that ever was in the cache
    floor      \* top when the request arrived

requestVars == <<stage, waits, token>>
redisVars == <<cache, lock>>
clientVars == <<redisUp, conn, healthy, recent>>
historyVars == <<top, floor>>
vars == <<requestVars, redisVars, newest, clientVars, faults, historyVars>>

TypeOK ==
    /\ stage \in [Requests -> {"new"} \cup Running \cup Settled]
    /\ waits \in [Requests -> Nat]
    /\ token \in [Requests -> Nat]
    /\ cache \in Nat
    /\ lock \in Requests \cup {Free, Orphan}
    /\ newest \in Nat
    /\ redisUp \in BOOLEAN
    /\ conn \in [Replicas -> {"ready", "reconnecting", "closed"}]
    /\ healthy \in [Replicas -> BOOLEAN]
    /\ recent \in [Replicas -> 0..DegradedLimit]
    /\ faults \in Nat
    /\ top \in Nat
    /\ floor \in [Requests -> Nat]

Init ==
    /\ stage = [r \in Requests |-> "new"]
    /\ waits = [r \in Requests |-> 0]
    /\ token = [r \in Requests |-> 0]
    /\ cache = 0
    /\ lock = Free
    /\ newest = 0
    /\ redisUp = TRUE
    /\ conn = [p \in Replicas |-> "ready"]
    /\ healthy = [p \in Replicas |-> TRUE]
    /\ recent = [p \in Replicas |-> 0]
    /\ faults = 0
    /\ top = 0
    /\ floor = [r \in Requests |-> 0]

-----------------------------------------------------------------------------
(* Redis *)

Conn(r) == conn[ReplicaOf[r]]

\* A command of r is executed and answered.
Answered(r) == Conn(r) = "ready"

\* A command of r is rejected.  (A command that is queued while the client
\* reconnects takes no step.)
Rejected(r) == Conn(r) # "ready"

\* A rejected command that was in flight may have been executed.
MaybeExecuted(r) == Conn(r) = "reconnecting"

Goes(r, s, t) ==
    /\ stage[r] = s
    /\ stage' = [stage EXCEPT ![r] = t]

Fault ==
    /\ faults < MaxFaults
    /\ faults' = faults + 1

\* SET NX EX 30 with a fresh value; a rejected one counts as not acquired.
TryAcquire(r, s, won, lost) ==
    \/ /\ Answered(r) /\ lock = Free
       /\ lock' = r
       /\ Goes(r, s, won)
    \/ /\ Answered(r) /\ lock # Free
       /\ UNCHANGED lock
       /\ Goes(r, s, lost)
    \/ /\ Rejected(r)
       /\ \/ UNCHANGED lock
          \/ MaybeExecuted(r) /\ lock = Free /\ lock' = Orphan
       /\ Goes(r, s, lost)

-----------------------------------------------------------------------------
(* getToken *)

\* In degraded mode a request goes to Genesys at once, if the limiter of the
\* replica lets it; a forced one skips the cache.
Arrive(r) ==
    LET p == ReplicaOf[r] IN
    /\ \/ /\ healthy[p]
          /\ Goes(r, "new", IF r \in Forced THEN "acquire" ELSE "read")
          /\ UNCHANGED recent
       \/ /\ ~healthy[p] /\ recent[p] < DegradedLimit
          /\ Goes(r, "new", "direct")
          /\ recent' = [recent EXCEPT ![p] = @ + 1]
       \/ /\ ~healthy[p] /\ recent[p] >= DegradedLimit
          /\ Goes(r, "new", "failed")
          /\ UNCHANGED recent
    /\ floor' = [floor EXCEPT ![r] = top]
    /\ UNCHANGED <<waits, token, redisVars, newest, redisUp, conn, healthy,
                   faults, top>>

\* The cache answers the request; a rejected GET counts as a miss.
Hit(r) ==
    /\ Answered(r)
    /\ cache # 0
    /\ token' = [token EXCEPT ![r] = cache]
    /\ stage' = [stage EXCEPT ![r] = "done"]

Miss(r) == Rejected(r) \/ cache = 0

ReadCache(r) ==
    /\ stage[r] = "read"
    /\ \/ Hit(r)
       \/ Miss(r) /\ Goes(r, "read", "acquire") /\ UNCHANGED token
    /\ UNCHANGED <<waits, redisVars, newest, clientVars, faults, historyVars>>

AcquireLock(r) ==
    /\ TryAcquire(r, "acquire", "exchange", "wait")
    /\ UNCHANGED <<waits, token, cache, newest, clientVars, faults, historyVars>>

\* Mutant: the waiting loop does not count.
WaitForCacheForever(r) ==
    /\ stage[r] = "wait"
    /\ \/ Hit(r)
       \/ Miss(r) /\ UNCHANGED <<stage, token>>
    /\ UNCHANGED <<waits, redisVars, newest, clientVars, faults, historyVars>>

\* One turn of _waitForCache: 50 milliseconds, then a look into the cache.
WaitForCache(r) ==
    /\ stage[r] = "wait"
    /\ \/ Hit(r) /\ UNCHANGED waits
       \/ /\ Miss(r)
          /\ waits' = [waits EXCEPT ![r] = @ + 1]
          /\ Goes(r, "wait", IF waits'[r] = MaxWaits THEN "reacquire" ELSE "wait")
          /\ UNCHANGED token
    /\ UNCHANGED <<redisVars, newest, clientVars, faults, historyVars>>

\* Mutant: the result of the second acquire is not looked at.
RetryAcquireUnchecked(r) ==
    /\ TryAcquire(r, "reacquire", "exchange", "exchange")
    /\ UNCHANGED <<waits, token, cache, newest, clientVars, faults, historyVars>>

\* The second and last attempt: LOCK_ACQUISITION_FAILED if it fails.
RetryAcquire(r) ==
    /\ TryAcquire(r, "reacquire", "exchange", "failed")
    /\ UNCHANGED <<waits, token, cache, newest, clientVars, faults, historyVars>>

\* Credentials of the tenant-service, then a new token of Genesys.
Exchange(r) ==
    /\ Goes(r, "exchange", "store")
    /\ newest' = newest + 1
    /\ token' = [token EXCEPT ![r] = newest']
    /\ UNCHANGED <<waits, redisVars, clientVars, faults, historyVars>>

ExchangeFails(r) ==
    /\ Goes(r, "exchange", "release")
    /\ UNCHANGED <<waits, token, redisVars, newest, clientVars, faults, historyVars>>

\* The cache holds t now.
Cached(t) ==
    /\ cache' = t
    /\ top' = IF t > top THEN t ELSE top

\* SETEX of the token, skipped if it lives for less than the safety buffer of
\* a minute, and swallowed if it is rejected.
StoreToken(r) ==
    /\ Goes(r, "store", "release")
    /\ \/ Conn(r) # "closed" /\ Cached(token[r])
       \/ UNCHANGED <<cache, top>>
    /\ UNCHANGED <<waits, token, lock, newest, clientVars, faults, floor>>

\* The finally block: the script deletes the lock if it still has the value of
\* this request.  Then the request is answered, or its error thrown.
ReleaseLock(r) ==
    /\ Goes(r, "release", IF token[r] # 0 THEN "done" ELSE "failed")
    /\ \/ Conn(r) # "closed" /\ lock = r /\ lock' = Free
       \/ (Rejected(r) \/ lock # r) /\ UNCHANGED lock
    /\ UNCHANGED <<waits, token, cache, newest, clientVars, faults, historyVars>>

\* _getTokenDegraded, no cache and no lock: Genesys issues a token, ...
ExchangeDirectly(r) ==
    /\ Goes(r, "direct", "issued")
    /\ newest' = newest + 1
    /\ token' = [token EXCEPT ![r] = newest']
    /\ UNCHANGED <<waits, redisVars, clientVars, faults, historyVars>>

\* Mutant: the degraded path caches too, as the one for WhatsApp tokens does.
AnswerDirectlyAndCache(r) ==
    /\ Goes(r, "issued", "done")
    /\ IF Conn(r) # "closed" THEN Cached(token[r]) ELSE UNCHANGED <<cache, top>>
    /\ UNCHANGED <<waits, token, lock, newest, clientVars, faults, floor>>

\* ... and its answer arrives, by when a newer one may be cached.
AnswerDirectly(r) ==
    /\ Goes(r, "issued", "done")
    /\ UNCHANGED <<waits, token, redisVars, newest, clientVars, faults, historyVars>>

\* The credentials or the token are refused, or an answer does not arrive.
DirectFails(r) ==
    /\ Goes(r, "direct", "failed") \/ Goes(r, "issued", "failed")
    /\ UNCHANGED <<waits, token, redisVars, newest, clientVars, faults, historyVars>>

-----------------------------------------------------------------------------
(* Keys, clients and processes *)

CacheExpires ==
    /\ cache # 0
    /\ cache' = 0
    /\ UNCHANGED <<requestVars, lock, newest, clientVars, faults, historyVars>>

\* The TTL of the lock, 30 seconds, is over: it was orphaned, its holder is
\* gone, or, with LockOverrun, still at work.
LockExpires ==
    /\ lock # Free
    /\ LockOverrun \/ \A r \in Requests : lock = r => stage[r] \notin Section
    /\ lock' = Free
    /\ UNCHANGED <<requestVars, cache, newest, clientVars, faults, historyVars>>

\* Redis cannot be reached any more: every client that had a connection
\* starts to reconnect.
RedisDown ==
    /\ redisUp
    /\ redisUp' = FALSE
    /\ conn' = [p \in Replicas |->
                   IF conn[p] = "ready" THEN "reconnecting" ELSE conn[p]]
    /\ Fault
    /\ UNCHANGED <<requestVars, redisVars, newest, healthy, recent, historyVars>>

RedisUp ==
    /\ ~redisUp
    /\ redisUp' = TRUE
    /\ UNCHANGED <<requestVars, redisVars, newest, conn, healthy, recent,
                   faults, historyVars>>

Reconnect(p) ==
    /\ redisUp
    /\ conn[p] = "reconnecting"
    /\ conn' = [conn EXCEPT ![p] = "ready"]
    /\ UNCHANGED <<requestVars, redisVars, newest, redisUp, healthy, recent,
                   faults, historyVars>>

\* reconnectStrategy returns an Error after ten retries, about six seconds:
\* the client is closed, rejects what it had queued, and connects no more.
GiveUp(p) ==
    /\ ~redisUp
    /\ conn[p] = "reconnecting"
    /\ conn' = [conn EXCEPT ![p] = "closed"]
    /\ UNCHANGED <<requestVars, redisVars, newest, redisUp, healthy, recent,
                   faults, historyVars>>

\* checkHealth: PING every five seconds.
CheckHealth(p) ==
    /\ healthy' = [healthy EXCEPT ![p] = (conn[p] = "ready")]
    /\ UNCHANGED <<requestVars, redisVars, newest, redisUp, conn, recent,
                   faults, historyVars>>

\* A degraded request is older than a minute.
WindowSlides(p) ==
    /\ recent[p] > 0
    /\ recent' = [recent EXCEPT ![p] = @ - 1]
    /\ UNCHANGED <<requestVars, redisVars, newest, redisUp, conn, healthy,
                   faults, historyVars>>

\* A replica dies, its requests with it, and is started again.
Crash(p) ==
    /\ Fault
    /\ stage' = [r \in Requests |->
                    IF ReplicaOf[r] = p /\ stage[r] \in Running
                    THEN "failed" ELSE stage[r]]
    /\ conn' = [conn EXCEPT ![p] = IF redisUp THEN "ready" ELSE "reconnecting"]
    /\ healthy' = [healthy EXCEPT ![p] = TRUE]
    /\ recent' = [recent EXCEPT ![p] = 0]
    /\ UNCHANGED <<waits, token, redisVars, newest, redisUp, historyVars>>

-----------------------------------------------------------------------------

Step(r) ==
    \/ ReadCache(r)
    \/ AcquireLock(r)
    \/ WaitForCache(r)
    \/ RetryAcquire(r)
    \/ Exchange(r)
    \/ StoreToken(r)
    \/ ReleaseLock(r)
    \/ ExchangeDirectly(r)
    \/ AnswerDirectly(r)

Request(r) ==
    \/ Arrive(r)
    \/ Step(r)
    \/ ExchangeFails(r)
    \/ DirectFails(r)

Replica(p) ==
    \/ Reconnect(p)
    \/ GiveUp(p)
    \/ CheckHealth(p)
    \/ WindowSlides(p)
    \/ Crash(p)

Next ==
    \/ \E r \in Requests : Request(r)
    \/ \E p \in Replicas : Replica(p)
    \/ CacheExpires
    \/ LockExpires
    \/ RedisDown
    \/ RedisUp

Spec == Init /\ [][Next]_vars

\* Requests run, clients reconnect or give up, and the health monitor's timer
\* fires.  Neither Redis nor a lock need come back.
FairSpec ==
    /\ Spec
    /\ \A r \in Requests : WF_vars(Step(r))
    /\ \A p \in Replicas : WF_vars(Reconnect(p) \/ GiveUp(p))
    /\ \A p \in Replicas : WF_vars(CheckHealth(p))

-----------------------------------------------------------------------------
(* Properties *)

\* Requests collapse: of those that use the lock, one at a time is exchanging
\* credentials and storing the token, whichever replicas they are on, also
\* when commands are lost with the connection, unless one overruns the TTL.
ExchangesAreExclusive ==
    \A r, s \in Requests :
        stage[r] \in Section /\ stage[s] \in Section => r = s

\* A token in the cache is never replaced by an older one: what is stored is
\* newer than all that ever was in the cache.
CacheOnlyAdvances == [][cache' \in {0, cache} \/ cache' > top]_vars

\* No request is answered with a token older than one that was in the cache
\* before the request arrived, whichever replica stored it.
NeverOlderThanSeen ==
    \A r \in Requests : stage[r] = "done" => token[r] >= floor[r]

\* What the one who asks sees of a request.
PhaseOf(s) ==
    CASE s = "new" -> "new"
      [] s \in Running -> "pending"
      [] s = "done" -> "answered"
      [] s = "failed" -> "refused"

\* The promise this module implements.  A request in the section has a token of
\* its own once Genesys has issued one, a degraded one has a token for itself
\* alone; what was cached last is what all share.
Issuer == INSTANCE TokenIssuer
    WITH phase <- [r \in Requests |-> PhaseOf(stage[r])],
         given <- [r \in Requests |-> IF stage[r] = "done" THEN token[r] ELSE 0],
         issued <- newest,
         own <- [r \in Requests |-> IF stage[r] \in {"store", "release"}
                                    THEN token[r] ELSE 0],
         alone <- [r \in Requests |-> IF stage[r] = "issued" THEN token[r] ELSE 0],
         shared <- top

\* Requests collapse and answers never go back: whoever is answered from the
\* cache, or after his own exchange, gets a token at least as new as any that was
\* cached when it was decided; a degraded request, whose answer may be overtaken by
\* a newer cached token, gets one that was issued after it asked and that nobody
\* else gets; and no other exchange that uses the lock comes between one and
\* its end, whatever becomes of Redis, unless one overruns the lock's TTL.
ImplementsIssuer == Issuer!Spec

\* Every request is answered, with a token or an error, whatever becomes of
\* Redis and of the lock.
RequestsSettle ==
    \A r \in Requests : []<>(stage[r] \notin Running)
=============================================================================
