---------------------------- MODULE StateManager ----------------------------
(***************************************************************************)
(* The identity resolution of the state manager: which Genesys             *)
(* conversation belongs to which WhatsApp customer.                        *)
(*                                                                         *)
(* Modelled: the inbound operation under its Redis lock, the correlation   *)
(* of a mapping with the conversation Genesys created, the outbound        *)
(* operation, the HTTP lookups, the two Redis caches and the expiry job,   *)
(* over the tables conversation_mappings and message_tracking, with        *)
(* redelivery, crashes, database errors and Redis outages.                 *)
(*                                                                         *)
(* Every await on the database or on Redis ends a step, so all handlers    *)
(* interleave there, as they do under a prefetch of 100.  Every copy of a  *)
(* message in an input queue (Meta retries its webhooks) is handled by an  *)
(* invocation of its own, named by the copy.                               *)
(*                                                                         *)
(* The tenant of a message does not select any state in this code (every   *)
(* tenant gets a pool on the same database, and no Redis key holds it), so *)
(* it is left out.                                                         *)
(***************************************************************************)
EXTENDS Naturals

CONSTANTS
    WaIds,          \* WhatsApp customers
    Wamids,         \* inbound WhatsApp messages
    Deliveries,     \* copies of them put in inbound-whatsapp-messages
    Malformed,      \* the copies and replies that fail validation
    Conversations,  \* Genesys conversations
    Replies,        \* agents' messages in outbound-genesys-messages
    Readers,        \* HTTP lookups by wa_id
    MappingIds,     \* primary keys of conversation_mappings (bound)
    WaOf,           \* the customer of an inbound message
    WamidOf,        \* the message of a delivery
    ConvWa,         \* the customer of a conversation
    ConvOf,         \* the conversation of a reply
    None,           \* SQL NULL, a cache miss, no row
    MaxRetries,     \* LOCK_RETRY_COUNT
    MaxFaults,      \* crashes and errors in a behavior (bound)
    LockOverrun,    \* TRUE: a handler may outlive the lock's 5 second TTL
    DayPasses,      \* FALSE: the behavior ends before a 24 hour TTL does
    RedisMayFail,   \* TRUE: the connection to Redis may be lost
    WamidNullable   \* message_tracking.wamid accepts NULL (migrations/004);
                    \* FALSE: the table dbInit.ts creates

ASSUME StateManagerAssumption ==
    /\ Malformed \subseteq Deliveries \cup Replies
    /\ WaOf \in [Wamids -> WaIds]
    /\ WamidOf \in [Deliveries -> Wamids]
    /\ ConvWa \in [Conversations -> WaIds]
    /\ ConvOf \in [Replies -> Conversations]
    /\ MaxRetries \in Nat \ {0}
    /\ MaxFaults \in Nat
    /\ LockOverrun \in BOOLEAN
    /\ DayPasses \in BOOLEAN
    /\ RedisMayFail \in BOOLEAN
    /\ WamidNullable \in BOOLEAN
    /\ Wamids \cap Replies = {}

\* A row of conversation_mappings.  "stale" says that last_activity_at is
\* more than CONVERSATION_TTL_HOURS ago.
Mapping == [wa : WaIds, conv : Conversations \cup {None},
            last : Wamids \cup Replies,
            status : {"active", "expired"}, stale : BOOLEAN]

\* What a query returns and a cache holds of a row.
Snapshot == [id : MappingIds, wa : WaIds, conv : Conversations \cup {None},
             status : {"active", "expired"}]

\* What the expiry job keeps of a row it selected.
Victim == [id : MappingIds, wa : WaIds, conv : Conversations \cup {None}]

ASSUME NoneAssumption ==
    /\ None \notin Mapping
    /\ None \notin Snapshot
    /\ None \notin MappingIds
    /\ None \notin Conversations

InboundStages == {"unsent", "queued", "lock", "upsert", "cache", "track",
                  "publish", "release", "ack", "acked", "dlq"}
Critical == {"upsert", "cache", "track", "publish", "release"}
ReplyStages == {"unsent", "queued", "select", "fill", "track", "activity",
                "publish", "acked", "dlq"}
CorrelationStages == {"none", "enriched", "event", "cache", "done"}

VARIABLES
    mapping,      \* conversation_mappings
    tracked,      \* the mapping_id of the tracking row of each wamid
    replyTracked, \* the replies that have a tracking row
    lock,         \* whether the key lock:mapping:<wa_id> exists
    overrun,      \* the customers whose lock expired under a handler at work,
                  \* until the last of their handlers has left
    cacheWa,      \* mapping:wa:<wa_id>
    cacheConv,    \* mapping:conv:<conversation_id>
    redisUp,      \* the connection to Redis
    inbound,      \* the stage of each delivery
    tries,        \* lock attempts its handler made
    found,        \* the row its upsert returned
    correlation,  \* how far the correlation of each wamid got
    created,      \* the conversation Genesys answered it with
    corrFound,    \* the row its UPDATE returned
    repeated,     \* the wamids stored again after their correlation
    reply,        \* the stage of each reply
    replyFound,   \* the mapping its lookup returned
    sent,         \* what was published to outbound-processed
    reading,      \* the row an HTTP lookup is about to cache
    expiry,       \* the expiry job: idle, update or clear
    victims,      \* the rows it selected and has not cleared yet
    hurried,      \* the rows used while the job held them, or once expired
    faults        \* crashes and errors so far

dbVars == <<mapping, tracked, replyTracked>>
redisVars == <<lock, overrun, cacheWa, cacheConv, redisUp>>
inboundVars == <<inbound, tries, found>>
corrVars == <<correlation, created, corrFound, repeated>>
replyVars == <<reply, replyFound, sent>>
expiryVars == <<expiry, victims, hurried>>
notInbound == <<corrVars, replyVars, reading, expiryVars>>
notCorrelation == <<inboundVars, replyVars, reading, expiryVars>>
notReply == <<inboundVars, corrVars, reading, expiryVars>>
notReading == <<inboundVars, corrVars, replyVars, expiryVars>>
notExpiry == <<inboundVars, corrVars, replyVars, reading>>
allHandlers == <<notExpiry, expiryVars>>
vars == <<dbVars, redisVars, allHandlers, faults>>

DbTypeOK ==
    /\ mapping \in [MappingIds -> Mapping \cup {None}]
    /\ tracked \in [Wamids -> MappingIds \cup {None}]
    /\ replyTracked \subseteq Replies

RedisTypeOK ==
    /\ lock \in [WaIds -> BOOLEAN]
    /\ cacheWa \in [WaIds -> Snapshot \cup {None}]
    /\ cacheConv \in [Conversations -> Snapshot \cup {None}]
    /\ redisUp \in BOOLEAN

InboundTypeOK ==
    /\ inbound \in [Deliveries -> InboundStages]
    /\ tries \in [Deliveries -> Nat]
    /\ found \in [Deliveries -> Snapshot \cup {None}]

CorrelationTypeOK ==
    /\ correlation \in [Wamids -> CorrelationStages]
    /\ created \in [Wamids -> Conversations \cup {None}]
    /\ corrFound \in [Wamids -> Snapshot \cup {None}]

ReplyTypeOK ==
    /\ reply \in [Replies -> ReplyStages]
    /\ replyFound \in [Replies -> Snapshot \cup {None}]
    /\ sent \subseteq [reply : Replies, wa : WaIds, id : MappingIds]

OtherTypeOK ==
    /\ reading \in [Readers -> Snapshot \cup {None}]
    /\ expiry \in {"idle", "update", "clear"}
    /\ victims \subseteq Victim
    /\ faults \in Nat

HistoryTypeOK ==
    /\ overrun \subseteq WaIds
    /\ repeated \subseteq Wamids
    /\ hurried \subseteq MappingIds

TypeOK ==
    /\ DbTypeOK
    /\ RedisTypeOK
    /\ InboundTypeOK
    /\ CorrelationTypeOK
    /\ ReplyTypeOK
    /\ OtherTypeOK
    /\ HistoryTypeOK

\* A fresh deployment: empty tables, an empty Redis, nothing in a queue.
Init ==
    /\ mapping = [i \in MappingIds |-> None]
    /\ tracked = [w \in Wamids |-> None]
    /\ replyTracked = {}
    /\ lock = [a \in WaIds |-> FALSE]
    /\ overrun = {}
    /\ cacheWa = [a \in WaIds |-> None]
    /\ cacheConv = [c \in Conversations |-> None]
    /\ redisUp = TRUE
    /\ inbound = [d \in Deliveries |-> "unsent"]
    /\ tries = [d \in Deliveries |-> 0]
    /\ found = [d \in Deliveries |-> None]
    /\ correlation = [w \in Wamids |-> "none"]
    /\ created = [w \in Wamids |-> None]
    /\ corrFound = [w \in Wamids |-> None]
    /\ repeated = {}
    /\ reply = [r \in Replies |-> "unsent"]
    /\ replyFound = [r \in Replies |-> None]
    /\ sent = {}
    /\ reading = [q \in Readers |-> None]
    /\ expiry = "idle"
    /\ victims = {}
    /\ hurried = {}
    /\ faults = 0

-----------------------------------------------------------------------------
(* Rows and caches *)

Customer(d) == WaOf[WamidOf[d]]

IsActive(i) == mapping[i] # None /\ mapping[i].status = "active"

ActiveFor(a) == {i \in MappingIds : IsActive(i) /\ mapping[i].wa = a}

RowSnapshot(i, row) ==
    [id |-> i, wa |-> row.wa, conv |-> row.conv, status |-> row.status]

\* cacheMapping: SETEX under the wa_id and, once there is one, under the
\* conversation_id.  With Redis away both writes are skipped.
CacheMapping(s) ==
    /\ cacheWa' = IF redisUp THEN [cacheWa EXCEPT ![s.wa] = s] ELSE cacheWa
    /\ cacheConv' = IF redisUp /\ s.conv # None
                    THEN [cacheConv EXCEPT ![s.conv] = s] ELSE cacheConv
    /\ UNCHANGED <<lock, overrun, redisUp>>

\* DEL of both keys of a row; skipped while Redis is away.
DropKeys(s) ==
    /\ cacheWa' = IF redisUp THEN [cacheWa EXCEPT ![s.wa] = None] ELSE cacheWa
    /\ cacheConv' = IF redisUp /\ s.conv # None
                    THEN [cacheConv EXCEPT ![s.conv] = None] ELSE cacheConv
    /\ UNCHANGED <<lock, overrun, redisUp>>

\* An error or a crash; every behavior has at most MaxFaults of them.
Fault == faults < MaxFaults /\ faults' = faults + 1

-----------------------------------------------------------------------------
(* Inbound messages *)

Goto(d, stage) == inbound' = [inbound EXCEPT ![d] = stage]

\* The transformer upstream puts a copy of a message in the queue.
Receive(d) ==
    /\ inbound[d] = "unsent"
    /\ Goto(d, "queued")
    /\ UNCHANGED <<dbVars, redisVars, tries, found, notInbound, faults>>

\* validateE164 and validateMediaUrl; a copy that fails goes to the DLQ and
\* is acked.
Start(d) ==
    /\ inbound[d] = "queued"
    /\ Goto(d, IF d \in Malformed THEN "dlq" ELSE "lock")
    /\ tries' = [tries EXCEPT ![d] = 0]
    /\ UNCHANGED <<dbVars, redisVars, found, notInbound, faults>>

\* Mutant: with Redis away the lock counts as taken.
TryLockFailingOpen(d) ==
    /\ inbound[d] = "lock"
    /\ \/ /\ ~redisUp \/ ~lock[Customer(d)]
          /\ lock' = [lock EXCEPT ![Customer(d)] = TRUE]
          /\ Goto(d, "upsert")
          /\ UNCHANGED tries
       \/ /\ redisUp /\ lock[Customer(d)]
          /\ tries' = [tries EXCEPT ![d] = @ + 1]
          /\ Goto(d, IF tries'[d] = MaxRetries THEN "dlq" ELSE "lock")
          /\ UNCHANGED lock
    /\ UNCHANGED <<dbVars, overrun, cacheWa, cacheConv, redisUp, found,
                   notInbound, faults>>

\* Mutant: the rounds are not counted.
TryLockForever(d) ==
    /\ inbound[d] = "lock"
    /\ \/ /\ redisUp /\ ~lock[Customer(d)]
          /\ lock' = [lock EXCEPT ![Customer(d)] = TRUE]
          /\ Goto(d, "upsert")
       \/ /\ ~redisUp \/ lock[Customer(d)]
          /\ UNCHANGED <<lock, inbound>>
    /\ UNCHANGED <<dbVars, overrun, cacheWa, cacheConv, redisUp, tries, found,
                   notInbound, faults>>

\* One round of withLockRetry: SET lock:mapping:<wa_id> NX EX 5, which also
\* fails while Redis is away.  After the last round the copy goes to the DLQ
\* (LOCK_TIMEOUT) and is acked.
TryLock(d) ==
    /\ inbound[d] = "lock"
    /\ \/ /\ redisUp /\ ~lock[Customer(d)]
          /\ lock' = [lock EXCEPT ![Customer(d)] = TRUE]
          /\ Goto(d, "upsert")
          /\ UNCHANGED tries
       \/ /\ ~redisUp \/ lock[Customer(d)]
          /\ tries' = [tries EXCEPT ![d] = @ + 1]
          /\ Goto(d, IF tries'[d] = MaxRetries THEN "dlq" ELSE "lock")
          /\ UNCHANGED lock
    /\ UNCHANGED <<dbVars, overrun, cacheWa, cacheConv, redisUp, found,
                   notInbound, faults>>

\* INSERT ... ON CONFLICT (wa_id) WHERE status = 'active' DO UPDATE: one
\* statement, whoever holds the lock.
UpsertTargets(a) == IF ActiveFor(a) # {} THEN ActiveFor(a)
                    ELSE {i \in MappingIds : mapping[i] = None}

UpsertedRow(i, d) ==
    IF mapping[i] = None
    THEN [wa |-> Customer(d), conv |-> None, last |-> WamidOf[d],
          status |-> "active", stale |-> FALSE]
    ELSE [mapping[i] EXCEPT !.last = WamidOf[d], !.stale = FALSE]

\* A row is used: the expiry job may hold it, or have expired it.
Uses(i) ==
    hurried' = IF \/ mapping[i] # None /\ mapping[i].status = "expired"
                  \/ expiry = "update" /\ \E v \in victims : v.id = i
               THEN hurried \cup {i} ELSE hurried

Upsert(d) ==
    /\ inbound[d] = "upsert"
    /\ \E i \in UpsertTargets(Customer(d)) :
         /\ mapping' = [mapping EXCEPT ![i] = UpsertedRow(i, d)]
         /\ found' = [found EXCEPT ![d] = RowSnapshot(i, UpsertedRow(i, d))]
         /\ Uses(i)
    /\ repeated' = IF correlation[WamidOf[d]] \in {"cache", "done"}
                   THEN repeated \cup {WamidOf[d]} ELSE repeated
    /\ Goto(d, "cache")
    /\ UNCHANGED <<tracked, replyTracked, redisVars, tries, correlation, created,
                   corrFound, replyVars, reading, expiry, victims, faults>>

CacheInbound(d) ==
    /\ inbound[d] = "cache"
    /\ CacheMapping(found[d])
    /\ Goto(d, "track")
    /\ UNCHANGED <<dbVars, tries, found, notInbound, faults>>

\* Mutant: a message that is already tracked is not published again.
TrackSkippingDuplicates(d) ==
    /\ inbound[d] = "track"
    /\ tracked' = [tracked EXCEPT ![WamidOf[d]] =
                      IF @ = None THEN found[d].id ELSE @]
    /\ Goto(d, IF tracked[WamidOf[d]] = None THEN "publish" ELSE "release")
    /\ UNCHANGED <<mapping, replyTracked, redisVars, tries, found, notInbound,
                   faults>>

\* INSERT ... ON CONFLICT (wamid) DO NOTHING.
Track(d) ==
    /\ inbound[d] = "track"
    /\ tracked' = [tracked EXCEPT ![WamidOf[d]] =
                      IF @ = None THEN found[d].id ELSE @]
    /\ Goto(d, "publish")
    /\ UNCHANGED <<mapping, replyTracked, redisVars, tries, found, notInbound,
                   faults>>

\* sendToQueue(inbound-processed).  The Genesys API service forwards a wamid
\* once (its dedupe key), so further copies change nothing there.
Publish(d) ==
    /\ inbound[d] = "publish"
    /\ correlation' = [correlation EXCEPT ![WamidOf[d]] =
                          IF @ = "none" THEN "enriched" ELSE @]
    /\ found' = [found EXCEPT ![d] = None]
    /\ Goto(d, "release")
    /\ UNCHANGED <<dbVars, redisVars, tries, created, corrFound, repeated,
                   replyVars, reading, expiryVars, faults>>

\* DEL lock:mapping:<wa_id>, whoever owns the key by now.
Unlock(a) == lock' = IF redisUp THEN [lock EXCEPT ![a] = FALSE] ELSE lock

\* The handler of d is through, and the overrun is over if it was the last one.
Leaves(d) ==
    overrun' = IF \E e \in Deliveries \ {d} : /\ Customer(e) = Customer(d)
                                             /\ inbound[e] \in Critical
               THEN overrun ELSE overrun \ {Customer(d)}

Release(d) ==
    /\ inbound[d] = "release"
    /\ Unlock(Customer(d))
    /\ Leaves(d)
    /\ Goto(d, "ack")
    /\ UNCHANGED <<dbVars, cacheWa, cacheConv, redisUp, tries, found,
                   notInbound, faults>>

Ack(d) ==
    /\ inbound[d] = "ack"
    /\ Goto(d, "acked")
    /\ UNCHANGED <<dbVars, redisVars, tries, found, notInbound, faults>>

\* The database or the channel throws: the finally clause deletes the lock and
\* the copy goes back to the queue (nack with requeue).
HandlerFails(d) ==
    /\ inbound[d] \in {"upsert", "track", "publish"}
    /\ Fault
    /\ Unlock(Customer(d))
    /\ Leaves(d)
    /\ found' = [found EXCEPT ![d] = None]
    /\ Goto(d, "queued")
    /\ UNCHANGED <<dbVars, cacheWa, cacheConv, redisUp, tries, notInbound>>

\* The replica dies, or loses its channel: the broker redelivers the copy and
\* nobody deletes the lock.
CrashInbound(d) ==
    /\ inbound[d] \in Critical \cup {"lock", "ack"}
    /\ Fault
    /\ found' = [found EXCEPT ![d] = None]
    /\ Leaves(d)
    /\ Goto(d, "queued")
    /\ UNCHANGED <<dbVars, lock, cacheWa, cacheConv, redisUp, tries, notInbound>>

AtWork(a) == \E d \in Deliveries : Customer(d) = a /\ inbound[d] \in Critical

\* The lock's 5 second TTL.  Unless LockOverrun, no handler takes that long.
LockExpires(a) ==
    /\ lock[a]
    /\ AtWork(a) => LockOverrun
    /\ lock' = [lock EXCEPT ![a] = FALSE]
    /\ overrun' = IF AtWork(a) THEN overrun \cup {a} ELSE overrun
    /\ UNCHANGED <<dbVars, cacheWa, cacheConv, redisUp, allHandlers, faults>>

-----------------------------------------------------------------------------
(* Correlation *)

\* The Genesys API service delivers w; Genesys answers with a conversation of
\* that customer, and the service publishes the correlation event.
GenesysAccepts(w) ==
    /\ correlation[w] = "enriched"
    /\ \E c \in Conversations :
         /\ ConvWa[c] = WaOf[w]
         /\ created' = [created EXCEPT ![w] = c]
    /\ correlation' = [correlation EXCEPT ![w] = "event"]
    /\ UNCHANGED <<dbVars, redisVars, corrFound, repeated, notCorrelation,
                   faults>>

\* Mutant: AND conversation_id IS NULL is dropped.
AwaitingOrCorrelated(w) ==
    {i \in MappingIds : mapping[i] # None /\ mapping[i].last = w}

\* Mutant: WHERE last_message_id = $3 is dropped.
AwaitingAnyMessage(w) ==
    {i \in MappingIds : mapping[i] # None /\ mapping[i].conv = None}

Awaiting(w) == {i \in MappingIds : /\ mapping[i] # None
                                   /\ mapping[i].last = w
                                   /\ mapping[i].conv = None}

\* UPDATE ... WHERE last_message_id = $3 AND conversation_id IS NULL, whatever
\* the status of the row; rows[0] is cached.  An event that matches no row is
\* acked and forgotten.
Correlate(w) ==
    /\ correlation[w] = "event"
    /\ mapping' = [i \in MappingIds |->
                      IF i \in Awaiting(w)
                      THEN [mapping[i] EXCEPT !.conv = created[w]]
                      ELSE mapping[i]]
    /\ \/ /\ Awaiting(w) = {}
          /\ correlation' = [correlation EXCEPT ![w] = "done"]
          /\ UNCHANGED corrFound
       \/ /\ \E i \in Awaiting(w) :
               corrFound' = [corrFound EXCEPT ![w] =
                                RowSnapshot(i, mapping'[i])]
          /\ correlation' = [correlation EXCEPT ![w] = "cache"]
    /\ UNCHANGED <<tracked, replyTracked, redisVars, created, repeated,
                   notCorrelation, faults>>

CacheCorrelation(w) ==
    /\ correlation[w] = "cache"
    /\ CacheMapping(corrFound[w])
    /\ corrFound' = [corrFound EXCEPT ![w] = None]
    /\ correlation' = [correlation EXCEPT ![w] = "done"]
    /\ UNCHANGED <<dbVars, created, repeated, notCorrelation, faults>>

CrashCorrelation(w) ==
    /\ correlation[w] = "cache"
    /\ Fault
    /\ corrFound' = [corrFound EXCEPT ![w] = None]
    /\ correlation' = [correlation EXCEPT ![w] = "event"]
    /\ UNCHANGED <<dbVars, redisVars, created, repeated, notCorrelation>>

-----------------------------------------------------------------------------
(* Agents' replies *)

ReplyGoto(r, stage) == reply' = [reply EXCEPT ![r] = stage]

\* An agent answers in a conversation Genesys has created.
Send(r) ==
    /\ reply[r] = "unsent"
    /\ \E w \in Wamids : created[w] = ConvOf[r]
    /\ ReplyGoto(r, "queued")
    /\ UNCHANGED <<dbVars, redisVars, replyFound, sent, notReply, faults>>

ActiveIn(c) == {i \in MappingIds : IsActive(i) /\ mapping[i].conv = c}

\* Mutant: a reply without a mapping waits in the queue for the correlation.
SelectOrRequeue(r) ==
    /\ reply[r] = "select"
    /\ \/ /\ ActiveIn(ConvOf[r]) = {}
          /\ ReplyGoto(r, "queued")
          /\ UNCHANGED replyFound
       \/ /\ \E i \in ActiveIn(ConvOf[r]) :
               replyFound' = [replyFound EXCEPT ![r] =
                                 RowSnapshot(i, mapping[i])]
          /\ ReplyGoto(r, "fill")
    /\ UNCHANGED <<dbVars, redisVars, sent, notReply, faults>>

\* validateMediaUrl, then getMappingByConversationId: GET mapping:conv:<id>.
\* A cached mapping that is not active sends the reply to the DLQ.
Lookup(r) ==
    /\ reply[r] = "queued"
    /\ LET hit == cacheConv[ConvOf[r]]
       IN  \/ /\ r \in Malformed
              /\ ReplyGoto(r, "dlq")
              /\ UNCHANGED replyFound
           \/ /\ r \notin Malformed
              /\ ~redisUp \/ hit = None
              /\ ReplyGoto(r, "select")
              /\ UNCHANGED replyFound
           \/ /\ r \notin Malformed
              /\ redisUp /\ hit # None
              /\ ReplyGoto(r, IF hit.status = "active" THEN "track" ELSE "dlq")
              /\ replyFound' = [replyFound EXCEPT ![r] =
                                   IF hit.status = "active" THEN hit ELSE None]
    /\ UNCHANGED <<dbVars, redisVars, sent, notReply, faults>>

\* SELECT ... WHERE conversation_id = $1 AND status = 'active'; without a row
\* the reply goes to the DLQ (MAPPING_NOT_FOUND).
Select(r) ==
    /\ reply[r] = "select"
    /\ \/ /\ ActiveIn(ConvOf[r]) = {}
          /\ ReplyGoto(r, "dlq")
          /\ UNCHANGED replyFound
       \/ /\ \E i \in ActiveIn(ConvOf[r]) :
               replyFound' = [replyFound EXCEPT ![r] =
                                 RowSnapshot(i, mapping[i])]
          /\ ReplyGoto(r, "fill")
    /\ UNCHANGED <<dbVars, redisVars, sent, notReply, faults>>

Fill(r) ==
    /\ reply[r] = "fill"
    /\ CacheMapping(replyFound[r])
    /\ ReplyGoto(r, "track")
    /\ UNCHANGED <<dbVars, replyFound, sent, notReply, faults>>

\* The plain INSERT of a message without a wamid, a row per attempt.  Where
\* wamid is NOT NULL it throws and the reply goes back to the queue.
TrackReply(r) ==
    /\ reply[r] = "track"
    /\ \/ /\ WamidNullable
          /\ replyTracked' = replyTracked \cup {r}
          /\ ReplyGoto(r, "activity")
          /\ UNCHANGED replyFound
       \/ /\ ~WamidNullable
          /\ ReplyGoto(r, "queued")
          /\ replyFound' = [replyFound EXCEPT ![r] = None]
          /\ UNCHANGED replyTracked
    /\ UNCHANGED <<mapping, tracked, redisVars, sent, notReply, faults>>

\* UPDATE ... WHERE id = $2, whatever the status of the row.
UpdateActivity(r) ==
    /\ reply[r] = "activity"
    /\ mapping' = [mapping EXCEPT ![replyFound[r].id].last = r,
                                  ![replyFound[r].id].stale = FALSE]
    /\ Uses(replyFound[r].id)
    /\ ReplyGoto(r, "publish")
    /\ UNCHANGED <<tracked, replyTracked, redisVars, replyFound, sent,
                   inboundVars, corrVars, reading, expiry, victims, faults>>

\* sendToQueue(outbound-processed) and the ack.
PublishReply(r) ==
    /\ reply[r] = "publish"
    /\ sent' = sent \cup {[reply |-> r, wa |-> replyFound[r].wa,
                           id |-> replyFound[r].id]}
    /\ replyFound' = [replyFound EXCEPT ![r] = None]
    /\ ReplyGoto(r, "acked")
    /\ UNCHANGED <<dbVars, redisVars, notReply, faults>>

\* A crash or a database error: the broker delivers the reply again.
ReplyFails(r) ==
    /\ reply[r] \in {"select", "fill", "track", "activity", "publish"}
    /\ Fault
    /\ replyFound' = [replyFound EXCEPT ![r] = None]
    /\ ReplyGoto(r, "queued")
    /\ UNCHANGED <<dbVars, redisVars, sent, notReply>>

-----------------------------------------------------------------------------
(* Lookups over HTTP, Redis, time and the expiry job *)

\* GET /state/mapping/:wa_id or /state/conversation/:id finds no key and reads
\* the row; a hit changes nothing.
ReadMapping(q) ==
    /\ reading[q] = None
    /\ \E i \in MappingIds :
         /\ IsActive(i)
         /\ \/ ~redisUp
            \/ cacheWa[mapping[i].wa] = None
            \/ mapping[i].conv # None /\ cacheConv[mapping[i].conv] = None
         /\ reading' = [reading EXCEPT ![q] = RowSnapshot(i, mapping[i])]
    /\ UNCHANGED <<dbVars, redisVars, notReading, faults>>

FillFromRead(q) ==
    /\ reading[q] # None
    /\ CacheMapping(reading[q])
    /\ reading' = [reading EXCEPT ![q] = None]
    /\ UNCHANGED <<dbVars, notReading, faults>>

\* The caches' TTL of 24 hours, or an eviction.
CacheExpires ==
    /\ DayPasses
    /\ \/ /\ \E a \in WaIds : cacheWa[a] # None
                               /\ cacheWa' = [cacheWa EXCEPT ![a] = None]
          /\ UNCHANGED cacheConv
       \/ /\ \E c \in Conversations : cacheConv[c] # None
                               /\ cacheConv' = [cacheConv EXCEPT ![c] = None]
          /\ UNCHANGED cacheWa
    /\ UNCHANGED <<dbVars, lock, overrun, redisUp, allHandlers, faults>>

RedisDown ==
    /\ RedisMayFail /\ redisUp
    /\ Fault
    /\ redisUp' = FALSE
    /\ UNCHANGED <<dbVars, lock, overrun, cacheWa, cacheConv, allHandlers>>

RedisUp ==
    /\ ~redisUp
    /\ redisUp' = TRUE
    /\ UNCHANGED <<dbVars, lock, overrun, cacheWa, cacheConv, allHandlers,
                   faults>>

\* Nothing is between two awaits.
Quiet ==
    /\ \A d \in Deliveries : inbound[d] \notin Critical
    /\ \A w \in Wamids : correlation[w] # "cache"
    /\ \A r \in Replies :
         reply[r] \notin {"select", "fill", "track", "activity", "publish"}
    /\ \A q \in Readers : reading[q] = None
    /\ expiry = "idle"

\* 24 hours without activity on a row; no handler takes that long.
GoStale(i) ==
    /\ DayPasses /\ Quiet
    /\ IsActive(i) /\ ~mapping[i].stale
    /\ mapping' = [mapping EXCEPT ![i].stale = TRUE]
    /\ hurried' = hurried \ {i}
    /\ UNCHANGED <<tracked, replyTracked, redisVars, notExpiry, expiry, victims,
                   faults>>

\* runExpiryJob: SELECT the stale active rows (with a few rows its LIMIT 1000
\* takes all of them), ...
StaleRows == {i \in MappingIds : IsActive(i) /\ mapping[i].stale}

\* Mutant: WHERE last_activity_at < NOW() - INTERVAL is dropped.
SelectAnyActive ==
    /\ expiry = "idle"
    /\ victims' = {[id |-> i, wa |-> mapping[i].wa, conv |-> mapping[i].conv] :
                      i \in {j \in MappingIds : IsActive(j)}}
    /\ victims' # {}
    /\ expiry' = "update"
    /\ UNCHANGED <<dbVars, redisVars, notExpiry, hurried, faults>>

SelectVictims ==
    /\ expiry = "idle"
    /\ StaleRows # {}
    /\ victims' = {[id |-> i, wa |-> mapping[i].wa, conv |-> mapping[i].conv] :
                      i \in StaleRows}
    /\ expiry' = "update"
    /\ UNCHANGED <<dbVars, redisVars, notExpiry, hurried, faults>>

\* ... UPDATE ... WHERE id = ANY(ids), with no other condition, ...
ExpireVictims ==
    /\ expiry = "update"
    /\ mapping' = [i \in MappingIds |->
                      IF \E v \in victims : v.id = i
                      THEN [mapping[i] EXCEPT !.status = "expired"]
                      ELSE mapping[i]]
    /\ expiry' = "clear"
    /\ UNCHANGED <<tracked, replyTracked, redisVars, victims, hurried, notExpiry,
                   faults>>

\* ... then DEL the keys of each row as it was selected.
ClearVictim ==
    /\ expiry = "clear"
    /\ \E v \in victims :
         /\ DropKeys(v)
         /\ victims' = victims \ {v}
    /\ expiry' = IF victims' = {} THEN "idle" ELSE "clear"
    /\ UNCHANGED <<dbVars, hurried, notExpiry, faults>>

\* A database error or a crash; the next run of the job selects anew.
ExpiryAborts ==
    /\ expiry # "idle"
    /\ Fault
    /\ expiry' = "idle"
    /\ victims' = {}
    /\ UNCHANGED <<dbVars, redisVars, hurried, notExpiry>>

-----------------------------------------------------------------------------
InboundStep(d) ==
    \/ Start(d) \/ TryLock(d) \/ Upsert(d) \/ CacheInbound(d) \/ Track(d)
    \/ Publish(d) \/ Release(d) \/ Ack(d)

CorrelationStep(w) == GenesysAccepts(w) \/ Correlate(w) \/ CacheCorrelation(w)

ReplyStep(r) ==
    \/ Lookup(r) \/ Select(r) \/ Fill(r) \/ TrackReply(r) \/ UpdateActivity(r)
    \/ PublishReply(r)

ExpiryStep == SelectVictims \/ ExpireVictims \/ ClearVictim \/ ExpiryAborts

Next ==
    \/ \E d \in Deliveries :
         Receive(d) \/ InboundStep(d) \/ HandlerFails(d) \/ CrashInbound(d)
    \/ \E a \in WaIds : LockExpires(a)
    \/ \E w \in Wamids : CorrelationStep(w) \/ CrashCorrelation(w)
    \/ \E r \in Replies : Send(r) \/ ReplyStep(r) \/ ReplyFails(r)
    \/ \E q \in Readers : ReadMapping(q) \/ FillFromRead(q)
    \/ \E i \in MappingIds : GoStale(i)
    \/ CacheExpires \/ RedisDown \/ RedisUp \/ ExpiryStep

Spec == Init /\ [][Next]_vars

\* The broker hands every queued message to a live replica and a handler that
\* runs takes its next step.
FairSpec ==
    /\ Spec
    /\ \A d \in Deliveries : WF_vars(InboundStep(d))
    /\ \A r \in Replies : WF_vars(ReplyStep(r))

-----------------------------------------------------------------------------
(* What holds *)

\* A mapping that was used within the last 24 hours is only expired if it was
\* used while the job was between its SELECT and its UPDATE, or, through a cache,
\* once it had expired; none of the job's other steps, an aborted run or a late
\* handler ends a conversation that is going on.
ExpiryExplained ==
    \A i \in MappingIds :
        mapping[i] # None /\ mapping[i].status = "expired" /\ ~mapping[i].stale
          => i \in hurried

\* Once set, the conversation of a mapping is never replaced, whichever
\* correlation events arrive, and however often.
ConversationWriteOnce ==
    [][\A i \in MappingIds :
          mapping[i] # None /\ mapping[i].conv # None
            => mapping'[i].conv = mapping[i].conv]_vars

\* However late a handler writes the row it read, a conversation's key holds a
\* row of that conversation and a customer's key a row of that customer.
CacheKeysConsistent ==
    /\ \A c \in Conversations :
         cacheConv[c] # None =>
            /\ mapping[cacheConv[c].id] # None
            /\ mapping[cacheConv[c].id].conv = c
            /\ mapping[cacheConv[c].id].wa = cacheConv[c].wa
    /\ \A a \in WaIds :
         cacheWa[a] # None =>
            /\ mapping[cacheWa[a].id] # None
            /\ mapping[cacheWa[a].id].wa = a

\* A reply only ever leaves for the customer whose conversation it was written
\* in, through stale caches, expired mappings and racing correlations.
ReplyReachesOwner ==
    \A m \in sent : m.wa = ConvWa[ConvOf[m.reply]]

\* What is acked is not lost: an inbound message that was not dead-lettered is
\* tracked and was published, and so is a reply.
AckedMeansForwarded ==
    /\ \A d \in Deliveries :
         inbound[d] = "acked" =>
            /\ tracked[WamidOf[d]] # None
            /\ correlation[WamidOf[d]] # "none"
    /\ \A r \in Replies :
         reply[r] = "acked" =>
            r \in replyTracked /\ \E m \in sent : m.reply = r

\* Only one handler at a time works on a customer's mapping, whatever crashes,
\* fails or loses Redis, unless the lock expired under one that is, or just was,
\* at work: its holder's DEL then lets yet another one in.
LockExclusive ==
    \A d, e \in Deliveries :
        /\ inbound[d] \in Critical
        /\ inbound[e] \in Critical
        /\ Customer(d) = Customer(e)
        => d = e \/ Customer(d) \in overrun

\* An active mapping without a conversation is still awaited: its last message
\* is with Genesys, or a copy of it is yet to be published.  The exceptions: that
\* copy was dead-lettered when its handler was repeated, or a copy was stored
\* once more after the message's correlation, which took last_message_id back.
UncorrelatedIsAwaited ==
    \A i \in MappingIds :
        IsActive(i) /\ mapping[i].conv = None =>
            LET w == mapping[i].last IN
            \/ correlation[w] \in {"enriched", "event"}
            \/ /\ correlation[w] = "none"
               /\ \E d \in Deliveries :
                     /\ WamidOf[d] = w
                     /\ inbound[d] \in Critical \cup {"queued", "lock", "dlq"}
            \/ w \in repeated

\* Every copy that is queued is in the end acked or dead-lettered, with Redis
\* away for good as well.
InboundSettles ==
    \A d \in Deliveries :
        inbound[d] = "queued" ~> inbound[d] \in {"acked", "dlq"}

\* So is every reply.
RepliesSettle ==
    \A r \in Replies : reply[r] = "queued" ~> reply[r] \in {"acked", "dlq"}

\* No handler of the two queues goes on for ever.
HandlersSettle == InboundSettles /\ RepliesSettle
=============================================================================
