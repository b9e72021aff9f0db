--------------------------- MODULE GenesysDelivery ---------------------------
(***************************************************************************)
(* The inbound consumer of genesys-api-service: a WhatsApp message becomes *)
(* a POST to Genesys Cloud and a correlation event for the state manager.  *)
(*                                                                         *)
(* Modelled: the whole consumer, from validation to the ack, the           *)
(* deduplication key and the token cache in Redis, the answer of the       *)
(* auth-service (which keeps a cached token of its own, see TokenBroker),  *)
(* the 401, 4xx and 5xx branches of its catch block, crashes, and losing   *)
(* Redis.  Every await ends a step; the prefetch is 10, so handlers of     *)
(* several copies interleave there.                                        *)
(*                                                                         *)
(* All messages are of one tenant: tenants share no key and no token.      *)
(* Tokens are told apart by whether Genesys still accepts them.            *)
(***************************************************************************)
EXTENDS Naturals, FiniteSets

CONSTANTS
    Wamids,         \* WhatsApp messages
    Deliveries,     \* copies of them in outbound-processed
    WamidOf,        \* the message of a copy
    Malformed,      \* the copies that are no JSON or fail the schema
    MaxFaults,      \* crashes and failing calls in a behavior (bound)
    MaxRevocations, \* how often Genesys revokes the tokens (bound)
    RedisMayFail    \* TRUE: the connection to Redis may be lost

ASSUME GenesysDeliveryAssumption ==
    /\ IsFiniteSet(Deliveries)
    /\ WamidOf \in [Deliveries -> Wamids]
    /\ Malformed \subseteq Deliveries
    /\ MaxFaults \in Nat
    /\ MaxRevocations \in Nat
    /\ RedisMayFail \in BOOLEAN

Tokens == {"none", "valid", "revoked"}

\* A handler waits for: the tenant's credentials, the cached token, a token
\* of the auth-service, the SET of that token, the answer of Genesys, the DEL
\* of a refused token, the SET of the deduplication key, the publishing.
Working == {"credentials", "token", "fetch", "store", "post", "invalidate",
            "mark", "correlate"}
Settled == {"acked", "dlq"}

\* Genesys took the message and the handler has not told anyone yet.
Posted == {"mark", "correlate"}

VARIABLES
    stage,       \* where each copy is: queued, Working or Settled
    held,        \* the token its handler holds
    accepted,    \* how many POSTs of each message Genesys accepted
    deduped,     \* the messages whose key genesys:dedupe: is set
    correlated,  \* the messages whose correlation event was published
    interrupted, \* how many handlers failed after Genesys accepted theirs
    cached,      \* genesys:token: in Redis
    issued,      \* the token the auth-service has cached
    redisUp,     \* the connection to Redis
    revocations, \* revocations so far
    faults       \* crashes and failing calls so far

handlerVars == <<stage, held>>
messageVars == <<accepted, deduped, correlated, interrupted>>
tokenVars == <<cached, issued>>
boundVars == <<redisUp, revocations, faults>>
vars == <<handlerVars, messageVars, tokenVars, boundVars>>

TypeOK ==
    /\ stage \in [Deliveries -> {"queued"} \cup Working \cup Settled]
    /\ held \in [Deliveries -> Tokens]
    /\ accepted \in [Wamids -> Nat]
    /\ deduped \subseteq Wamids
    /\ correlated \subseteq Wamids
    /\ interrupted \in [Wamids -> Nat]
    /\ cached \in Tokens
    /\ issued \in Tokens
    /\ redisUp \in BOOLEAN
    /\ revocations \in Nat
    /\ faults \in Nat

Init ==
    /\ stage = [d \in Deliveries |-> "queued"]
    /\ held = [d \in Deliveries |-> "none"]
    /\ accepted = [w \in Wamids |-> 0]
    /\ deduped = {}
    /\ correlated = {}
    /\ interrupted = [w \in Wamids |-> 0]
    /\ cached = "none"
    /\ issued = "none"
    /\ redisUp = TRUE
    /\ revocations = 0
    /\ faults = 0

-----------------------------------------------------------------------------
(* The handler *)

\* The handler of d, waiting for s, goes on to t.
Goes(d, s, t) ==
    /\ stage[d] = s
    /\ stage' = [stage EXCEPT ![d] = t]

\* The handler of d leaves for t and forgets what it held.
Ends(d, t) ==
    /\ stage' = [stage EXCEPT ![d] = t]
    /\ held' = [held EXCEPT ![d] = "none"]

Fault ==
    /\ faults < MaxFaults
    /\ faults' = faults + 1
    /\ UNCHANGED <<redisUp, revocations>>

\* Mutant: the key is set by the check, with NX, as the pseudo-code of the FRD has it.
BeginClaiming(d) ==
    /\ stage[d] = "queued"
    /\ stage' = [stage EXCEPT ![d] =
           CASE d \in Malformed -> "dlq"
             [] d \notin Malformed /\ redisUp /\ WamidOf[d] \in deduped -> "acked"
             [] OTHER -> "credentials"]
    /\ deduped' = IF redisUp /\ d \notin Malformed
                    THEN deduped \cup {WamidOf[d]}
                    ELSE deduped
    /\ UNCHANGED <<held, accepted, correlated, interrupted, tokenVars, boundVars>>

\* Parse, validate, and look the deduplication key up.  A malformed copy goes
\* to the DLQ, a delivered one is acked; without Redis every copy looks new.
Begin(d) ==
    /\ stage[d] = "queued"
    /\ stage' = [stage EXCEPT ![d] =
           CASE d \in Malformed -> "dlq"
             [] d \notin Malformed /\ redisUp /\ WamidOf[d] \in deduped -> "acked"
             [] OTHER -> "credentials"]
    /\ UNCHANGED <<held, messageVars, tokenVars, boundVars>>

\* The tenant-service answers, with an integrationId.
LoadCredentials(d) ==
    /\ Goes(d, "credentials", "token")
    /\ UNCHANGED <<held, messageVars, tokenVars, boundVars>>

\* getAuthToken finds a token in Redis, or has to ask the auth-service.
ReadToken(d) ==
    /\ stage[d] = "token"
    /\ IF redisUp /\ cached # "none"
         THEN /\ stage' = [stage EXCEPT ![d] = "post"]
              /\ held' = [held EXCEPT ![d] = cached]
         ELSE /\ stage' = [stage EXCEPT ![d] = "fetch"]
              /\ UNCHANGED held
    /\ UNCHANGED <<messageVars, tokenVars, boundVars>>

\* The auth-service answers with the token it has cached, whether or not
\* Genesys still accepts it; or with a new one, which it caches unless its own
\* connection to Redis is gone.
FetchToken(d) ==
    /\ Goes(d, "fetch", "store")
    /\ \/ /\ issued # "none"
          /\ held' = [held EXCEPT ![d] = issued]
          /\ UNCHANGED issued
       \/ /\ held' = [held EXCEPT ![d] = "valid"]
          /\ issued' \in {issued, "valid"}
    /\ UNCHANGED <<messageVars, cached, boundVars>>

\* getAuthToken caches it, also if Genesys revoked it in the meantime.
StoreToken(d) ==
    /\ Goes(d, "store", "post")
    /\ cached' = IF redisUp THEN held[d] ELSE cached
    /\ UNCHANGED <<held, messageVars, issued, boundVars>>

\* Genesys accepts the message: there is a conversation for it now.
Post(d) ==
    /\ held[d] = "valid"
    /\ Goes(d, "post", "mark")
    /\ accepted' = [accepted EXCEPT ![WamidOf[d]] = @ + 1]
    /\ UNCHANGED <<held, deduped, correlated, interrupted, tokenVars, boundVars>>

\* Genesys answers 401.
PostUnauthorized(d) ==
    /\ held[d] = "revoked"
    /\ Goes(d, "post", "invalidate")
    /\ UNCHANGED <<held, messageVars, tokenVars, boundVars>>

\* Mutant: a 401 requeues and leaves the token in the cache.
InvalidateNothing(d) ==
    /\ stage[d] = "invalidate"
    /\ Ends(d, "queued")
    /\ UNCHANGED <<messageVars, tokenVars, boundVars>>

\* The catch block of a 401: DEL of this service's token, whichever it is by
\* now, and a nack with requeue.  The auth-service is not told.
Invalidate(d) ==
    /\ stage[d] = "invalidate"
    /\ Ends(d, "queued")
    /\ cached' = IF redisUp THEN "none" ELSE cached
    /\ UNCHANGED <<messageVars, issued, boundVars>>

\* Mutant: a failing SET of the key ends the handler instead of being swallowed.
MarkOrDeadLetter(d) ==
    /\ stage[d] = "mark"
    /\ IF redisUp
         THEN Goes(d, "mark", "correlate") /\ UNCHANGED held
         ELSE Ends(d, "dlq")
    /\ deduped' = IF redisUp THEN deduped \cup {WamidOf[d]} ELSE deduped
    /\ UNCHANGED <<accepted, correlated, interrupted, tokenVars, boundVars>>

\* SET of the deduplication key.
Mark(d) ==
    /\ Goes(d, "mark", "correlate")
    /\ deduped' = IF redisUp THEN deduped \cup {WamidOf[d]} ELSE deduped
    /\ UNCHANGED <<held, accepted, correlated, interrupted, tokenVars, boundVars>>

\* Mutant: the ack after the publishing is forgotten: the copy comes back.
PublishWithoutAck(d) ==
    /\ stage[d] = "correlate"
    /\ Ends(d, "queued")
    /\ correlated' = correlated \cup {WamidOf[d]}
    /\ UNCHANGED <<accepted, deduped, interrupted, tokenVars, boundVars>>

\* Publish the correlation event and ack.
PublishCorrelation(d) ==
    /\ stage[d] = "correlate"
    /\ Ends(d, "acked")
    /\ correlated' = correlated \cup {WamidOf[d]}
    /\ UNCHANGED <<accepted, deduped, interrupted, tokenVars, boundVars>>

-----------------------------------------------------------------------------
(* Failing calls and crashes *)

\* No credentials, or none with an integrationId: DLQ and ack.
CredentialsFail(d) ==
    /\ Goes(d, "credentials", "dlq")
    /\ Fault
    /\ UNCHANGED <<held, messageVars, tokenVars>>

\* The auth-service refuses.  The catch block takes its status for one of
\* Genesys: 401 (also for a failed exchange) invalidates and requeues, another
\* 4xx goes to the DLQ, 5xx and timeouts are requeued.
FetchFails(d) ==
    /\ \E t \in {"invalidate", "dlq", "queued"} : Goes(d, "fetch", t)
    /\ Fault
    /\ UNCHANGED <<held, messageVars, tokenVars>>

\* Genesys answers another 4xx.
PostRejected(d) ==
    /\ stage[d] = "post"
    /\ Ends(d, "dlq")
    /\ Fault
    /\ UNCHANGED <<messageVars, tokenVars>>

\* 5xx or no answer within the timeout: requeued.  A message whose answer got
\* lost was accepted all the same.
PostFails(d) ==
    /\ stage[d] = "post"
    /\ Ends(d, "queued")
    /\ \/ UNCHANGED <<accepted, interrupted>>
       \/ /\ held[d] = "valid"
          /\ accepted' = [accepted EXCEPT ![WamidOf[d]] = @ + 1]
          /\ interrupted' = [interrupted EXCEPT ![WamidOf[d]] = @ + 1]
    /\ Fault
    /\ UNCHANGED <<deduped, correlated, tokenVars>>

\* The process dies, or loses its channel (publishing and acking then throw):
\* the broker delivers the copy again.
Crash(d) ==
    /\ stage[d] \in Working
    /\ Ends(d, "queued")
    /\ interrupted' = IF stage[d] \in Posted
                        THEN [interrupted EXCEPT ![WamidOf[d]] = @ + 1]
                        ELSE interrupted
    /\ Fault
    /\ UNCHANGED <<accepted, deduped, correlated, tokenVars>>

-----------------------------------------------------------------------------
(* The environment *)

\* Every token of the client is revoked, in whosever hands it is.
Revoke ==
    /\ revocations < MaxRevocations
    /\ revocations' = revocations + 1
    /\ LET Revoked(t) == IF t = "valid" THEN "revoked" ELSE t
       IN  /\ held' = [d \in Deliveries |-> Revoked(held[d])]
           /\ cached' = Revoked(cached)
           /\ issued' = Revoked(issued)
    /\ UNCHANGED <<stage, messageVars, redisUp, faults>>

\* The TTL of genesys:token:, or its own 5 minute margin, is over.
CachedTokenExpires ==
    /\ cached # "none"
    /\ cached' = "none"
    /\ UNCHANGED <<handlerVars, messageVars, issued, boundVars>>

\* The TTL of the token in the auth-service's cache is over.
IssuedTokenExpires ==
    /\ issued # "none"
    /\ issued' = "none"
    /\ UNCHANGED <<handlerVars, messageVars, cached, boundVars>>

\* A deduplication key is evicted, or 24 hours old.
DedupeExpires(w) ==
    /\ w \in deduped
    /\ deduped' = deduped \ {w}
    /\ UNCHANGED <<handlerVars, accepted, correlated, interrupted, tokenVars,
                   boundVars>>

RedisDown ==
    /\ RedisMayFail
    /\ redisUp
    /\ redisUp' = FALSE
    /\ faults < MaxFaults
    /\ faults' = faults + 1
    /\ UNCHANGED <<handlerVars, messageVars, tokenVars, revocations>>

RedisUp ==
    /\ ~redisUp
    /\ redisUp' = TRUE
    /\ UNCHANGED <<handlerVars, messageVars, tokenVars, revocations, faults>>

-----------------------------------------------------------------------------

Handle(d) ==
    \/ Begin(d)
    \/ LoadCredentials(d)
    \/ ReadToken(d)
    \/ FetchToken(d)
    \/ StoreToken(d)
    \/ Post(d)
    \/ PostUnauthorized(d)
    \/ Invalidate(d)
    \/ Mark(d)
    \/ PublishCorrelation(d)

Fail(d) ==
    \/ CredentialsFail(d)
    \/ FetchFails(d)
    \/ PostRejected(d)
    \/ PostFails(d)
    \/ Crash(d)

Environment ==
    \/ Revoke
    \/ CachedTokenExpires
    \/ IssuedTokenExpires
    \/ \E w \in Wamids : DedupeExpires(w)
    \/ RedisDown
    \/ RedisUp

Next ==
    \/ \E d \in Deliveries : Handle(d) \/ Fail(d)
    \/ Environment

Spec == Init /\ [][Next]_vars

\* Handlers run, the broker redelivers, and a token in the auth-service's
\* cache has a TTL.  Redis need not come back.
FairSpec ==
    /\ Spec
    /\ \A d \in Deliveries : WF_vars(Handle(d))
    /\ WF_vars(IssuedTokenExpires)

-----------------------------------------------------------------------------
(* Properties *)

\* At-least-once: the consumer acks a message only if Genesys accepted it, be
\* it from the copy at hand or, by the deduplication key, from another one.
AckedMeansDelivered ==
    \A d \in Deliveries : stage[d] = "acked" => accepted[WamidOf[d]] > 0

\* A message that Genesys accepted and that no copy will touch again was
\* correlated, unless a handler failed between the POST and the event: a retry
\* that finds the deduplication key skips the event its predecessor owed.
UncorrelatedOnlyIfInterrupted ==
    \A w \in Wamids :
        (/\ accepted[w] > 0
         /\ \A d \in Deliveries : WamidOf[d] = w => stage[d] \in Settled)
        => w \in correlated \/ interrupted[w] > 0

\* Genesys gets a message at most once per copy, and once more for every
\* handler that failed after its POST was accepted: no branch of the consumer
\* posts again by itself.
DuplicatesAreExplained ==
    \A w \in Wamids :
        accepted[w] <= Cardinality({d \in Deliveries : WamidOf[d] = w})
                         + interrupted[w]

\* Every copy is in the end acked or dead-lettered, also when Genesys revoked
\* the token that both caches hold.
DeliveriesSettle ==
    \A d \in Deliveries : stage[d] = "queued" ~> stage[d] \in Settled
=============================================================================
