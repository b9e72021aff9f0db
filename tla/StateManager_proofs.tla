------------------------ MODULE StateManager_proofs ------------------------
(***************************************************************************)
(* Proofs about the two parts of the state manager.  First StateManager,   *)
(* whom a message belongs to: for every number of customers, messages,     *)
(* conversations, replies, lookups and mappings, any interleaving, and any *)
(* number of faults.  Then MessageStatus, how far a message got.           *)
(***************************************************************************)
EXTENDS StateManager, MessageStatus, TLAPS

USE NoneAssumption DEF Snapshot

-----------------------------------------------------------------------------
(* The inductive invariant *)

\* What a handler or a cache holds of a row is never contradicted by the row:
\* rows stay, keep their customer, and keep a conversation once they have it.
GroundedIn(rows, s) ==
    s # None =>
        /\ rows[s.id] # None
        /\ rows[s.id].wa = s.wa
        /\ s.conv # None => rows[s.id].conv = s.conv

Grounded(s) == GroundedIn(mapping, s)

\* The last message of a mapping and its conversation are of its customer.
RowsInv ==
    \A i \in MappingIds : mapping[i] # None =>
        /\ mapping[i].last \in Wamids => WaOf[mapping[i].last] = mapping[i].wa
        /\ mapping[i].conv # None => ConvWa[mapping[i].conv] = mapping[i].wa

CacheInv ==
    /\ \A a \in WaIds : /\ Grounded(cacheWa[a])
                        /\ cacheWa[a] # None => cacheWa[a].wa = a
    /\ \A c \in Conversations :
         /\ Grounded(cacheConv[c])
         /\ cacheConv[c] # None => cacheConv[c].conv = c

InboundInv ==
    \A d \in Deliveries :
        /\ Grounded(found[d])
        /\ inbound[d] \in {"cache", "track", "publish"} => found[d] # None

CorrelationInv ==
    \A w \in Wamids :
        /\ Grounded(corrFound[w])
        /\ correlation[w] = "cache" => corrFound[w] # None
        /\ correlation[w] \in {"event", "cache"} => created[w] # None
        /\ created[w] # None => ConvWa[created[w]] = WaOf[w]

ReplyInv ==
    /\ \A r \in Replies :
         /\ Grounded(replyFound[r])
         /\ replyFound[r] # None => replyFound[r].conv = ConvOf[r]
         /\ reply[r] \in {"fill", "track", "activity", "publish"}
              => replyFound[r] # None
    /\ ReplyReachesOwner

OtherInv ==
    /\ \A q \in Readers : Grounded(reading[q])
    /\ \A v \in victims : mapping[v.id] # None

Inv ==
    /\ TypeOK
    /\ RowsInv
    /\ CacheInv
    /\ InboundInv
    /\ CorrelationInv
    /\ ReplyInv
    /\ OtherInv

\* The empty tables, caches and queues of a fresh deployment satisfy Inv.
THEOREM InitInv == Init => Inv
<1> SUFFICES ASSUME Init
             PROVE  Inv
  OBVIOUS
<1>1. TypeOK
  BY DEF Init, TypeOK, DbTypeOK, RedisTypeOK, InboundTypeOK,
         CorrelationTypeOK, ReplyTypeOK, OtherTypeOK, HistoryTypeOK, InboundStages,
         CorrelationStages, ReplyStages
<1>2. /\ RowsInv /\ CacheInv /\ InboundInv
      /\ CorrelationInv /\ ReplyInv /\ OtherInv
  BY DEF Init, RowsInv, CacheInv, InboundInv, CorrelationInv, ReplyInv,
         OtherInv, Grounded, GroundedIn, ReplyReachesOwner
<1> QED
  BY <1>1, <1>2 DEF Inv

-----------------------------------------------------------------------------
(* Which actions write which part of the state *)

\* Only the upsert, the two tracking INSERTs, the correlation, the activity
\* update, the passing of a day and the expiry UPDATE write the tables.
LEMMA DbSteps ==
    ASSUME [Next]_vars
    PROVE  \/ UNCHANGED dbVars
           \/ \E d \in Deliveries : Upsert(d) \/ Track(d)
           \/ \E w \in Wamids : Correlate(w)
           \/ \E r \in Replies : TrackReply(r) \/ UpdateActivity(r)
           \/ \E i \in MappingIds : GoStale(i)
           \/ ExpireVictims
  BY ZenonT(40) DEF Next, vars, allHandlers, notExpiry, dbVars, InboundStep,
         CorrelationStep, ReplyStep, ExpiryStep, Receive, Start, TryLock,
         CacheInbound, Publish, Release, Ack, HandlerFails, CrashInbound,
         LockExpires, GenesysAccepts, CacheCorrelation, CrashCorrelation,
         Send, Lookup, Select, Fill, PublishReply, ReplyFails, ReadMapping,
         FillFromRead, CacheExpires, RedisDown, RedisUp, SelectVictims,
         ClearVictim, ExpiryAborts

\* Redis, the correlations and the expiry job without their histories.
redisCore == <<lock, cacheWa, cacheConv, redisUp>>
corrCore == <<correlation, created, corrFound>>
expiryCore == <<expiry, victims>>

\* Only the lock, the cache writes and DELs, their TTLs and the connection
\* change what Redis holds.
LEMMA RedisSteps ==
    ASSUME [Next]_vars
    PROVE  \/ UNCHANGED redisCore
           \/ \E d \in Deliveries :
                 \/ TryLock(d) \/ CacheInbound(d) \/ Release(d)
                 \/ HandlerFails(d)
           \/ \E a \in WaIds : LockExpires(a)
           \/ \E w \in Wamids : CacheCorrelation(w)
           \/ \E r \in Replies : Fill(r)
           \/ \E q \in Readers : FillFromRead(q)
           \/ CacheExpires \/ RedisDown \/ RedisUp \/ ClearVictim
  BY ZenonT(40) DEF Next, vars, allHandlers, notExpiry, redisVars, redisCore, InboundStep,
         CorrelationStep, ReplyStep, ExpiryStep, Receive, Start, Upsert,
         Track, Publish, Ack, CrashInbound, GenesysAccepts, Correlate,
         CrashCorrelation, Send, Lookup, Select, TrackReply, UpdateActivity,
         PublishReply, ReplyFails, ReadMapping, GoStale, SelectVictims,
         ExpireVictims, ExpiryAborts

\* Only an inbound handler's own steps change its stage and its row.
LEMMA InboundSteps ==
    ASSUME [Next]_vars
    PROVE  \/ UNCHANGED inboundVars
           \/ \E d \in Deliveries :
                 \/ Receive(d) \/ InboundStep(d)
                 \/ HandlerFails(d) \/ CrashInbound(d)
  BY ZenonT(40) DEF Next, vars, allHandlers, notExpiry, inboundVars, notCorrelation,
         notReply, notReading, CorrelationStep, ReplyStep,
         ExpiryStep, LockExpires, GenesysAccepts, Correlate, CacheCorrelation,
         CrashCorrelation, Send, Lookup, Select, Fill, TrackReply,
         UpdateActivity, PublishReply, ReplyFails, ReadMapping, FillFromRead,
         CacheExpires, RedisDown, RedisUp, GoStale, SelectVictims,
         ExpireVictims, ClearVictim, ExpiryAborts

\* Only publishing a message and its correlation handler move a correlation.
LEMMA CorrelationSteps ==
    ASSUME [Next]_vars
    PROVE  \/ UNCHANGED corrCore
           \/ \E d \in Deliveries : Publish(d)
           \/ \E w \in Wamids : CorrelationStep(w) \/ CrashCorrelation(w)
  BY ZenonT(40) DEF Next, vars, allHandlers, notExpiry, corrVars, corrCore, notInbound, notReply,
         notReading, InboundStep, CorrelationStep, ReplyStep, ExpiryStep,
         Receive, Start, TryLock, Upsert, CacheInbound, Track, Release, Ack,
         HandlerFails, CrashInbound, LockExpires, Send, Lookup, Select, Fill,
         TrackReply, UpdateActivity, PublishReply, ReplyFails, ReadMapping,
         FillFromRead, CacheExpires, RedisDown, RedisUp, GoStale,
         SelectVictims, ExpireVictims, ClearVictim, ExpiryAborts

\* Only a reply's own handler changes its stage, its mapping and what is sent.
LEMMA ReplySteps ==
    ASSUME [Next]_vars
    PROVE  \/ UNCHANGED replyVars
           \/ \E r \in Replies : Send(r) \/ ReplyStep(r) \/ ReplyFails(r)
  BY DEF Next, vars, allHandlers, notExpiry, replyVars, notInbound,
         notCorrelation, notReading, InboundStep, CorrelationStep, ReplyStep,
         ExpiryStep, Receive, Start, TryLock, Upsert, CacheInbound, Track,
         Publish, Release, Ack, HandlerFails, CrashInbound, LockExpires,
         GenesysAccepts, Correlate, CacheCorrelation, CrashCorrelation,
         ReadMapping, FillFromRead, CacheExpires, RedisDown, RedisUp, GoStale,
         SelectVictims, ExpireVictims, ClearVictim, ExpiryAborts

\* Only an HTTP lookup changes the row it is about to cache.
LEMMA ReadingSteps ==
    ASSUME [Next]_vars
    PROVE  \/ UNCHANGED reading
           \/ \E q \in Readers : ReadMapping(q) \/ FillFromRead(q)
  BY DEF Next, vars, allHandlers, notExpiry, notInbound,
         notCorrelation, notReply, notReading, expiryVars, InboundStep,
         CorrelationStep, ReplyStep, ExpiryStep, Receive, Start, TryLock,
         Upsert, CacheInbound, Track, Publish, Release, Ack, HandlerFails,
         CrashInbound, LockExpires, GenesysAccepts, Correlate,
         CacheCorrelation, CrashCorrelation, Send, Lookup, Select, Fill,
         TrackReply, UpdateActivity, PublishReply, ReplyFails, CacheExpires,
         RedisDown, RedisUp, GoStale, SelectVictims, ExpireVictims,
         ClearVictim, ExpiryAborts

\* Only the expiry job changes its stage and the rows it selected.
LEMMA ExpirySteps ==
    ASSUME [Next]_vars
    PROVE  \/ UNCHANGED expiryCore
           \/ SelectVictims \/ ExpireVictims \/ ClearVictim \/ ExpiryAborts
  BY DEF Next, vars, allHandlers, notExpiry, expiryVars, expiryCore, notInbound,
         notCorrelation, notReply, notReading, InboundStep, CorrelationStep,
         ReplyStep, ExpiryStep, Receive, Start, TryLock, Upsert, CacheInbound,
         Track, Publish, Release, Ack, HandlerFails, CrashInbound,
         LockExpires, GenesysAccepts, Correlate, CacheCorrelation,
         CrashCorrelation, Send, Lookup, Select, Fill, TrackReply,
         UpdateActivity, PublishReply, ReplyFails, ReadMapping, FillFromRead,
         CacheExpires, RedisDown, RedisUp, GoStale

\* A lock is overrun when it expires under a handler, until the last handler
\* of the customer leaves.
LEMMA OverrunSteps ==
    ASSUME [Next]_vars
    PROVE  \/ UNCHANGED overrun
           \/ \E d \in Deliveries :
                 Release(d) \/ HandlerFails(d) \/ CrashInbound(d)
           \/ \E a \in WaIds : LockExpires(a)
  BY DEF Next, vars, redisVars, InboundStep, CorrelationStep, ReplyStep,
         ExpiryStep, Receive, Start, TryLock, Upsert, CacheInbound, Track,
         Publish, Ack, GenesysAccepts, Correlate, CacheCorrelation,
         CrashCorrelation, Send, Lookup, Select, Fill, TrackReply,
         UpdateActivity, PublishReply, ReplyFails, ReadMapping, FillFromRead,
         CacheExpires, RedisDown, RedisUp, GoStale, SelectVictims,
         ExpireVictims, ClearVictim, ExpiryAborts, CacheMapping, DropKeys

\* Only the upsert stores a message again.
LEMMA RepeatedSteps ==
    ASSUME [Next]_vars
    PROVE  UNCHANGED repeated \/ \E d \in Deliveries : Upsert(d)
  BY DEF Next, vars, allHandlers, notExpiry, corrVars, notInbound, notReply,
         notReading, InboundStep, CorrelationStep, ReplyStep, ExpiryStep,
         Receive, Start, TryLock, CacheInbound, Track, Publish, Release, Ack,
         HandlerFails, CrashInbound, LockExpires, GenesysAccepts, Correlate,
         CacheCorrelation, CrashCorrelation, Send, Lookup, Select, Fill,
         TrackReply, UpdateActivity, PublishReply, ReplyFails, ReadMapping,
         FillFromRead, CacheExpires, RedisDown, RedisUp, GoStale,
         SelectVictims, ExpireVictims, ClearVictim, ExpiryAborts

\* Only the two statements that refresh a row hurry, and a day ends it.
LEMMA HurriedSteps ==
    ASSUME [Next]_vars
    PROVE  \/ UNCHANGED hurried
           \/ \E d \in Deliveries : Upsert(d)
           \/ \E r \in Replies : UpdateActivity(r)
           \/ \E i \in MappingIds : GoStale(i)
  BY DEF Next, vars, allHandlers, notExpiry, expiryVars, notInbound,
         notCorrelation, notReply, notReading, InboundStep, CorrelationStep,
         ReplyStep, ExpiryStep, Receive, Start, TryLock, CacheInbound, Track,
         Publish, Release, Ack, HandlerFails, CrashInbound, LockExpires,
         GenesysAccepts, Correlate, CacheCorrelation, CrashCorrelation, Send,
         Lookup, Select, Fill, TrackReply, PublishReply, ReplyFails,
         ReadMapping, FillFromRead, CacheExpires, RedisDown, RedisUp,
         SelectVictims, ExpireVictims, ClearVictim, ExpiryAborts

\* A step leaves the count of faults alone or is one.
LEMMA FaultSteps ==
    ASSUME [Next]_vars
    PROVE  UNCHANGED faults \/ Fault
  BY DEF Next, vars, InboundStep, CorrelationStep, ReplyStep, ExpiryStep,
         Receive, Start, TryLock, Upsert, CacheInbound, Track, Publish,
         Release, Ack, HandlerFails, CrashInbound, LockExpires,
         GenesysAccepts, Correlate, CacheCorrelation, CrashCorrelation, Send,
         Lookup, Select, Fill, TrackReply, UpdateActivity, PublishReply,
         ReplyFails, ReadMapping, FillFromRead, CacheExpires, RedisDown,
         RedisUp, GoStale, SelectVictims, ExpireVictims, ClearVictim,
         ExpiryAborts

-----------------------------------------------------------------------------
(* The tables *)

\* What no step takes back from a row.
Grows ==
    \A i \in MappingIds : mapping[i] # None =>
        /\ mapping'[i] # None
        /\ mapping'[i].wa = mapping[i].wa
        /\ mapping[i].conv # None => mapping'[i].conv = mapping[i].conv

\* The row the upsert returns is an active row of the message's customer, with
\* the conversation it had.
LEMMA UpsertedRowIsTheCustomers ==
    ASSUME Inv, NEW d \in Deliveries, NEW i \in UpsertTargets(Customer(d))
    PROVE  /\ i \in MappingIds
           /\ UpsertedRow(i, d) \in Mapping
           /\ UpsertedRow(i, d).wa = Customer(d)
           /\ UpsertedRow(i, d).last = WamidOf[d]
           /\ mapping[i] = None => UpsertedRow(i, d).conv = None
           /\ mapping[i] # None => /\ mapping[i].wa = Customer(d)
                                   /\ UpsertedRow(i, d).conv = mapping[i].conv
<1>1. i \in MappingIds
  BY DEF UpsertTargets, ActiveFor
<1>2. mapping[i] \in Mapping \cup {None}
  BY <1>1 DEF Inv, TypeOK, DbTypeOK
<1>3. WamidOf[d] \in Wamids /\ Customer(d) \in WaIds
  BY StateManagerAssumption DEF Customer
<1>4. CASE mapping[i] = None
  BY <1>1, <1>3, <1>4 DEF UpsertedRow, Mapping
<1>5. CASE mapping[i] # None
  <2>1. mapping[i] \in Mapping /\ mapping[i].wa = Customer(d)
    BY <1>1, <1>2, <1>5 DEF UpsertTargets, ActiveFor
  <2> QED
    BY <1>1, <1>3, <1>5, <2>1 DEF UpsertedRow, Mapping
<1> QED
  BY <1>4, <1>5

\* A step keeps the tables typed, keeps a row of its customer, and never
\* replaces a conversation: rows only grow.
LEMMA TablesStep ==
    ASSUME Inv, [Next]_vars
    PROVE  DbTypeOK' /\ Grows /\ RowsInv'
<1> USE DEF Inv, TypeOK, DbTypeOK, Grows, RowsInv
<1>1. CASE UNCHANGED dbVars
  BY <1>1 DEF dbVars
<1>2. ASSUME NEW d \in Deliveries, Upsert(d)
      PROVE  DbTypeOK' /\ Grows /\ RowsInv'
  <2>1. PICK i \in UpsertTargets(Customer(d)) :
          mapping' = [mapping EXCEPT ![i] = UpsertedRow(i, d)]
    BY <1>2 DEF Upsert
  <2>2. UNCHANGED <<tracked, replyTracked>>
    BY <1>2 DEF Upsert
  <2>3. Customer(d) = WaOf[WamidOf[d]]
    BY DEF Customer
  <2> QED
    BY <2>1, <2>2, <2>3, UpsertedRowIsTheCustomers
<1>3. ASSUME NEW d \in Deliveries, Track(d)
      PROVE  DbTypeOK' /\ Grows /\ RowsInv'
  <2>1. found[d] \in Snapshot /\ WamidOf[d] \in Wamids
    BY <1>3, StateManagerAssumption DEF Track, InboundInv, InboundTypeOK
  <2> QED
    BY <1>3, <2>1 DEF Track
<1>4. ASSUME NEW w \in Wamids, Correlate(w)
      PROVE  DbTypeOK' /\ Grows /\ RowsInv'
  <2>1. /\ created[w] \in Conversations
        /\ ConvWa[created[w]] = WaOf[w]
    BY <1>4 DEF Correlate, CorrelationInv, CorrelationTypeOK
  <2>2. \A i \in MappingIds :
          IF i \in Awaiting(w)
          THEN /\ mapping[i] \in Mapping
               /\ mapping[i].last = w /\ mapping[i].conv = None
               /\ mapping'[i] = [mapping[i] EXCEPT !.conv = created[w]]
          ELSE mapping'[i] = mapping[i]
    BY <1>4 DEF Correlate, Awaiting
  <2>3. /\ mapping' \in [MappingIds -> Mapping \cup {None}]
        /\ UNCHANGED <<tracked, replyTracked>>
    BY <1>4, <2>1, <2>2 DEF Correlate, Mapping
  <2> QED
    BY <2>1, <2>2, <2>3 DEF Mapping
<1>5. ASSUME NEW r \in Replies, TrackReply(r)
      PROVE  DbTypeOK' /\ Grows /\ RowsInv'
  BY <1>5 DEF TrackReply
<1>6. ASSUME NEW r \in Replies, UpdateActivity(r)
      PROVE  DbTypeOK' /\ Grows /\ RowsInv'
  <2> DEFINE i == replyFound[r].id
  <2>1. i \in MappingIds /\ mapping[i] \in Mapping
    BY <1>6 DEF UpdateActivity, ReplyInv, ReplyTypeOK, Grounded, GroundedIn
  <2>2. /\ mapping' = [mapping EXCEPT ![i] =
                         [mapping[i] EXCEPT !.last = r, !.stale = FALSE]]
        /\ UNCHANGED <<tracked, replyTracked>>
    BY <1>6, <2>1 DEF UpdateActivity
  <2>3. r \notin Wamids
    BY StateManagerAssumption
  <2>4. [mapping[i] EXCEPT !.last = r, !.stale = FALSE] \in Mapping
    BY <2>1 DEF Mapping
  <2> HIDE DEF i
  <2> QED
    BY <2>1, <2>2, <2>3, <2>4 DEF Mapping
<1>7. ASSUME NEW i \in MappingIds, GoStale(i)
      PROVE  DbTypeOK' /\ Grows /\ RowsInv'
  <2>1. mapping[i] \in Mapping
    BY <1>7 DEF GoStale, IsActive
  <2> QED
    BY <1>7, <2>1 DEF GoStale, Mapping
<1>8. CASE ExpireVictims
  <2>1. \A i \in MappingIds :
          IF \E v \in victims : v.id = i
          THEN /\ mapping[i] \in Mapping
               /\ mapping'[i] = [mapping[i] EXCEPT !.status = "expired"]
          ELSE mapping'[i] = mapping[i]
    BY <1>8 DEF ExpireVictims, OtherInv
  <2>2. /\ mapping' \in [MappingIds -> Mapping \cup {None}]
        /\ UNCHANGED <<tracked, replyTracked>>
    BY <1>8, <2>1 DEF ExpireVictims, Mapping
  <2> QED
    BY <2>1, <2>2 DEF Mapping
<1> QED
  BY <1>1, <1>2, <1>3, <1>4, <1>5, <1>6, <1>7, <1>8, DbSteps

-----------------------------------------------------------------------------
(* Redis *)

\* A snapshot that was true of its row stays true of it.
LEMMA GroundedStays ==
    ASSUME Grows, NEW s \in Snapshot \cup {None}, GroundedIn(mapping, s)
    PROVE  GroundedIn(mapping', s)
  BY DEF Grows, GroundedIn

\* A snapshot just taken of a row is true of it.
LEMMA FreshSnapshot ==
    ASSUME NEW rows, NEW i \in MappingIds, rows[i] \in Mapping
    PROVE  /\ RowSnapshot(i, rows[i]) \in Snapshot
           /\ RowSnapshot(i, rows[i]).conv = rows[i].conv
           /\ RowSnapshot(i, rows[i]).id = i
           /\ GroundedIn(rows, RowSnapshot(i, rows[i]))
  BY DEF RowSnapshot, Mapping, GroundedIn

\* Keys nobody writes still hold grounded rows after the tables grew.
LEMMA CachesUntouched ==
    ASSUME Inv, Grows, UNCHANGED <<cacheWa, cacheConv>>
    PROVE  CacheInv'
  BY GroundedStays DEF CacheInv, Grounded, Inv, TypeOK, RedisTypeOK

\* cacheMapping of a grounded row, however old, keeps every key consistent.
LEMMA CacheMappingKeeps ==
    ASSUME Inv, Grows, NEW s \in Snapshot, GroundedIn(mapping, s),
           CacheMapping(s)
    PROVE  RedisTypeOK' /\ CacheInv'
<1>1. RedisTypeOK'
  BY DEF CacheMapping, Inv, TypeOK, RedisTypeOK
<1>2. GroundedIn(mapping', s)
  BY GroundedStays
<1>3. ASSUME NEW a \in WaIds
      PROVE  /\ GroundedIn(mapping', cacheWa'[a])
             /\ cacheWa'[a] # None => cacheWa'[a].wa = a
  <2>1. cacheWa'[a] = cacheWa[a] \/ (a = s.wa /\ cacheWa'[a] = s)
    BY DEF CacheMapping, Inv, TypeOK, RedisTypeOK
  <2>2. cacheWa[a] \in Snapshot \cup {None} /\ GroundedIn(mapping, cacheWa[a])
    BY DEF Inv, TypeOK, RedisTypeOK, CacheInv, Grounded
  <2> QED
    BY <1>2, <2>1, <2>2, GroundedStays DEF Inv, CacheInv
<1>4. ASSUME NEW c \in Conversations
      PROVE  /\ GroundedIn(mapping', cacheConv'[c])
             /\ cacheConv'[c] # None => cacheConv'[c].conv = c
  <2>1. cacheConv'[c] = cacheConv[c] \/ (c = s.conv /\ cacheConv'[c] = s)
    BY DEF CacheMapping, Inv, TypeOK, RedisTypeOK
  <2>2. /\ cacheConv[c] \in Snapshot \cup {None}
        /\ GroundedIn(mapping, cacheConv[c])
    BY DEF Inv, TypeOK, RedisTypeOK, CacheInv, Grounded
  <2> QED
    BY <1>2, <2>1, <2>2, GroundedStays DEF Inv, CacheInv
<1> QED
  BY <1>1, <1>3, <1>4 DEF CacheInv, Grounded

\* Deleting or expiring keys keeps the others consistent.
LEMMA KeysDropped ==
    ASSUME Inv, Grows, RedisTypeOK',
           \A a \in WaIds : cacheWa'[a] \in {cacheWa[a], None},
           \A c \in Conversations : cacheConv'[c] \in {cacheConv[c], None}
    PROVE  CacheInv'
<1>1. /\ \A a \in WaIds : cacheWa[a] \in Snapshot \cup {None}
      /\ \A c \in Conversations : cacheConv[c] \in Snapshot \cup {None}
  BY DEF Inv, TypeOK, RedisTypeOK
<1>2. /\ \A a \in WaIds : GroundedIn(mapping', cacheWa[a])
      /\ \A c \in Conversations : GroundedIn(mapping', cacheConv[c])
  BY <1>1, GroundedStays DEF Inv, CacheInv, Grounded
<1>3. GroundedIn(mapping', None)
  BY DEF GroundedIn
<1> QED
  BY <1>2, <1>3 DEF Inv, CacheInv, Grounded

\* A step keeps what Redis holds typed and the cache keys consistent.
LEMMA RedisStep ==
    ASSUME Inv, [Next]_vars, Grows
    PROVE  RedisTypeOK' /\ CacheInv'
<1> USE DEF Inv, TypeOK
<1>1. CASE UNCHANGED redisCore
  BY <1>1, CachesUntouched DEF redisCore, RedisTypeOK
<1>2. ASSUME NEW d \in Deliveries,
             TryLock(d) \/ Release(d) \/ HandlerFails(d)
      PROVE  RedisTypeOK' /\ CacheInv'
  <2>1. Customer(d) \in WaIds
    BY StateManagerAssumption DEF Customer
  <2>2. UNCHANGED <<cacheWa, cacheConv>>
    BY <1>2 DEF TryLock, Release, HandlerFails
  <2> QED
    BY <1>2, <2>1, <2>2, CachesUntouched
    DEF TryLock, Release, HandlerFails, Unlock, RedisTypeOK
<1>3. ASSUME NEW d \in Deliveries, CacheInbound(d)
      PROVE  RedisTypeOK' /\ CacheInv'
  BY <1>3, CacheMappingKeeps
  DEF CacheInbound, InboundInv, InboundTypeOK, Grounded
<1>4. ASSUME NEW w \in Wamids, CacheCorrelation(w)
      PROVE  RedisTypeOK' /\ CacheInv'
  BY <1>4, CacheMappingKeeps
  DEF CacheCorrelation, CorrelationInv, CorrelationTypeOK, Grounded
<1>5. ASSUME NEW r \in Replies, Fill(r)
      PROVE  RedisTypeOK' /\ CacheInv'
  BY <1>5, CacheMappingKeeps DEF Fill, ReplyInv, ReplyTypeOK, Grounded
<1>6. ASSUME NEW q \in Readers, FillFromRead(q)
      PROVE  RedisTypeOK' /\ CacheInv'
  BY <1>6, CacheMappingKeeps DEF FillFromRead, OtherInv, OtherTypeOK, Grounded
<1>7. ASSUME NEW a \in WaIds, LockExpires(a)
      PROVE  RedisTypeOK' /\ CacheInv'
  BY <1>7, CachesUntouched DEF LockExpires, RedisTypeOK
<1>8. CASE RedisDown \/ RedisUp
  BY <1>8, CachesUntouched DEF RedisDown, RedisUp, RedisTypeOK
<1>9. CASE CacheExpires \/ ClearVictim
  <2>1. RedisTypeOK'
    BY <1>9 DEF CacheExpires, ClearVictim, DropKeys, RedisTypeOK
  <2>2. /\ \A a \in WaIds : cacheWa'[a] \in {cacheWa[a], None}
        /\ \A c \in Conversations : cacheConv'[c] \in {cacheConv[c], None}
    BY <1>9 DEF CacheExpires, ClearVictim, DropKeys, RedisTypeOK
  <2> QED
    BY <2>1, <2>2, KeysDropped
<1> QED
  BY <1>1, <1>2, <1>3, <1>4, <1>5, <1>6, <1>7, <1>8, <1>9, RedisSteps

-----------------------------------------------------------------------------
(* Inbound messages *)

\* A step keeps the inbound handlers typed: a handler past its upsert holds a
\* grounded row of its own customer.
LEMMA InboundStagesStep ==
    ASSUME Inv, [Next]_vars, DbTypeOK', Grows
    PROVE  InboundTypeOK' /\ InboundInv'
<1> USE DEF Inv, TypeOK, InboundTypeOK, InboundStages
<1>0. \A d \in Deliveries : GroundedIn(mapping', found[d])
  BY GroundedStays DEF InboundInv, Grounded
<1>1. CASE UNCHANGED inboundVars
  BY <1>0, <1>1 DEF inboundVars, InboundInv, Grounded
<1>2. ASSUME NEW d \in Deliveries,
             \/ Receive(d) \/ Start(d) \/ TryLock(d) \/ Release(d) \/ Ack(d)
             \/ HandlerFails(d) \/ CrashInbound(d) \/ Publish(d)
      PROVE  InboundTypeOK' /\ InboundInv'
  <2>1. InboundTypeOK'
    BY <1>2 DEF Receive, Start, TryLock, Release, Ack, HandlerFails,
                CrashInbound, Publish, Goto
  <2>2. \A e \in Deliveries : found'[e] \in {found[e], None}
    BY <1>2 DEF Receive, Start, TryLock, Release, Ack, HandlerFails,
                CrashInbound, Publish
  <2>3. \A e \in Deliveries :
          inbound'[e] \in {"cache", "track", "publish"}
            => inbound'[e] = inbound[e] /\ found'[e] = found[e]
    BY <1>2 DEF Receive, Start, TryLock, Release, Ack, HandlerFails,
                CrashInbound, Publish, Goto
  <2>4. GroundedIn(mapping', None)
    BY DEF GroundedIn
  <2> QED
    BY <1>0, <2>1, <2>2, <2>3, <2>4 DEF InboundInv, Grounded
<1>3. ASSUME NEW d \in Deliveries, Upsert(d)
      PROVE  InboundTypeOK' /\ InboundInv'
  <2>1. PICK i \in UpsertTargets(Customer(d)) :
          /\ mapping' = [mapping EXCEPT ![i] = UpsertedRow(i, d)]
          /\ found' = [found EXCEPT ![d] = RowSnapshot(i, UpsertedRow(i, d))]
    BY <1>3 DEF Upsert
  <2>2. i \in MappingIds /\ mapping'[i] = UpsertedRow(i, d)
        /\ UpsertedRow(i, d) \in Mapping
    BY <2>1, UpsertedRowIsTheCustomers DEF DbTypeOK
  <2>3. /\ RowSnapshot(i, UpsertedRow(i, d)) \in Snapshot
        /\ GroundedIn(mapping', RowSnapshot(i, UpsertedRow(i, d)))
    BY <2>2, FreshSnapshot
  <2>4. /\ inbound' = [inbound EXCEPT ![d] = "cache"]
        /\ tries' = tries
    BY <1>3 DEF Upsert, Goto
  <2> QED
    BY <1>0, <2>1, <2>3, <2>4 DEF InboundInv, Grounded
<1>4. ASSUME NEW d \in Deliveries, CacheInbound(d) \/ Track(d)
      PROVE  InboundTypeOK' /\ InboundInv'
  <2>1. /\ InboundTypeOK' /\ found' = found
        /\ \A e \in Deliveries :
             inbound'[e] \in {"cache", "track", "publish"}
               => inbound[e] \in {"cache", "track", "publish"}
    BY <1>4 DEF CacheInbound, Track, Goto
  <2> QED
    BY <1>0, <2>1 DEF InboundInv, Grounded
<1> QED
  BY <1>1, <1>2, <1>3, <1>4, InboundSteps DEF InboundStep

-----------------------------------------------------------------------------
(* Correlation *)

\* A step keeps the correlations typed: a conversation Genesys created is of
\* the message's customer, and the row to be cached is grounded.
LEMMA CorrelationStagesStep ==
    ASSUME Inv, [Next]_vars, DbTypeOK', Grows
    PROVE  CorrelationTypeOK' /\ CorrelationInv'
<1> USE DEF Inv, TypeOK, CorrelationTypeOK, CorrelationStages
<1>0. /\ \A w \in Wamids : GroundedIn(mapping', corrFound[w])
      /\ GroundedIn(mapping', None)
  BY GroundedStays DEF CorrelationInv, Grounded, GroundedIn
<1>1. CASE UNCHANGED corrCore
  BY <1>0, <1>1 DEF corrCore, CorrelationInv, Grounded
<1>2. ASSUME NEW d \in Deliveries, Publish(d)
      PROVE  CorrelationTypeOK' /\ CorrelationInv'
  <2>1. WamidOf[d] \in Wamids
    BY StateManagerAssumption
  <2> QED
    BY <1>0, <1>2, <2>1 DEF Publish, CorrelationInv, Grounded
<1>3. ASSUME NEW w \in Wamids, GenesysAccepts(w)
      PROVE  CorrelationTypeOK' /\ CorrelationInv'
  <2>1. PICK c \in Conversations :
          /\ ConvWa[c] = WaOf[w]
          /\ created' = [created EXCEPT ![w] = c]
    BY <1>3 DEF GenesysAccepts
  <2>2. /\ correlation' = [correlation EXCEPT ![w] = "event"]
        /\ corrFound' = corrFound
    BY <1>3 DEF GenesysAccepts
  <2> QED
    BY <1>0, <2>1, <2>2 DEF CorrelationInv, Grounded
<1>4. ASSUME NEW w \in Wamids, Correlate(w)
      PROVE  CorrelationTypeOK' /\ CorrelationInv'
  <2>1. created' = created /\ created[w] # None
    BY <1>4 DEF Correlate, CorrelationInv
  <2>2. CASE /\ correlation' = [correlation EXCEPT ![w] = "done"]
             /\ corrFound' = corrFound
    BY <1>0, <2>1, <2>2 DEF CorrelationInv, Grounded
  <2>3. CASE /\ \E i \in Awaiting(w) :
                  corrFound' = [corrFound EXCEPT ![w] =
                                   RowSnapshot(i, mapping'[i])]
             /\ correlation' = [correlation EXCEPT ![w] = "cache"]
    <3>1. PICK i \in Awaiting(w) :
            corrFound' = [corrFound EXCEPT ![w] = RowSnapshot(i, mapping'[i])]
      BY <2>3
    <3>2. i \in MappingIds /\ mapping'[i] \in Mapping
      BY DEF Awaiting, Grows, DbTypeOK
    <3>3. /\ RowSnapshot(i, mapping'[i]) \in Snapshot
          /\ GroundedIn(mapping', RowSnapshot(i, mapping'[i]))
      BY <3>2, FreshSnapshot
    <3> QED
      BY <1>0, <2>1, <2>3, <3>1, <3>3 DEF CorrelationInv, Grounded
  <2> QED
    BY <1>4, <2>2, <2>3 DEF Correlate
<1>5. ASSUME NEW w \in Wamids, CacheCorrelation(w) \/ CrashCorrelation(w)
      PROVE  CorrelationTypeOK' /\ CorrelationInv'
  BY <1>0, <1>5
  DEF CacheCorrelation, CrashCorrelation, CorrelationInv, Grounded
<1> QED
  BY <1>1, <1>2, <1>3, <1>4, <1>5, CorrelationSteps DEF CorrelationStep

-----------------------------------------------------------------------------
(* Replies *)

\* The mapping a reply holds is the one of its conversation, so its customer
\* is the conversation's.
LEMMA HeldMappingIsTheOwners ==
    ASSUME Inv, NEW r \in Replies, replyFound[r] # None
    PROVE  replyFound[r].wa = ConvWa[ConvOf[r]]
<1>1. replyFound[r] \in Snapshot
  BY DEF Inv, TypeOK, ReplyTypeOK
<1>2. ConvOf[r] \in Conversations
  BY StateManagerAssumption
<1> QED
  BY <1>1, <1>2 DEF Inv, ReplyInv, Grounded, GroundedIn, RowsInv

\* A step keeps the replies typed: a handler past its lookup holds a mapping of
\* its reply's conversation, and everything sent went to that customer.
LEMMA ReplyStagesStep ==
    ASSUME Inv, [Next]_vars, Grows
    PROVE  ReplyTypeOK' /\ ReplyInv'
<1> USE DEF Inv, TypeOK, ReplyTypeOK, ReplyStages
<1>0. /\ \A r \in Replies : GroundedIn(mapping', replyFound[r])
      /\ GroundedIn(mapping', None)
  BY GroundedStays DEF ReplyInv, Grounded, GroundedIn
<1>1. CASE UNCHANGED replyVars
  BY <1>0, <1>1 DEF replyVars, ReplyInv, ReplyReachesOwner, Grounded
<1>2. ASSUME NEW r \in Replies,
             Send(r) \/ Fill(r) \/ TrackReply(r) \/ UpdateActivity(r)
             \/ ReplyFails(r)
      PROVE  ReplyTypeOK' /\ ReplyInv'
  <2>1. ReplyTypeOK' /\ sent' = sent
    BY <1>2 DEF Send, Fill, TrackReply, UpdateActivity, ReplyFails, ReplyGoto
  <2>2. \A s \in Replies : replyFound'[s] \in {replyFound[s], None}
    BY <1>2 DEF Send, Fill, TrackReply, UpdateActivity, ReplyFails
  <2>3. \A s \in Replies :
          reply'[s] \in {"fill", "track", "activity", "publish"}
            => replyFound'[s] # None
    BY <1>2 DEF Send, Fill, TrackReply, UpdateActivity, ReplyFails, ReplyGoto,
                ReplyInv
  <2> QED
    BY <1>0, <2>1, <2>2, <2>3 DEF ReplyInv, ReplyReachesOwner, Grounded
<1>3. ASSUME NEW r \in Replies, Lookup(r)
      PROVE  ReplyTypeOK' /\ ReplyInv'
  <2> DEFINE hit == cacheConv[ConvOf[r]]
  <2>1. ConvOf[r] \in Conversations
    BY StateManagerAssumption
  <2>2. /\ hit \in Snapshot \cup {None}
        /\ GroundedIn(mapping', hit)
        /\ hit # None => hit.conv = ConvOf[r]
    BY <2>1, GroundedStays DEF RedisTypeOK, CacheInv, Grounded
  <2>3. /\ \E s \in {"select", "track", "dlq"} :
              /\ reply' = [reply EXCEPT ![r] = s]
              /\ s = "track" => replyFound' = [replyFound EXCEPT ![r] = hit]
                                /\ hit # None
        /\ \/ replyFound' = replyFound
           \/ \E s \in {hit, None} : replyFound' = [replyFound EXCEPT ![r] = s]
        /\ sent' = sent
    BY <1>3 DEF Lookup, ReplyGoto
  <2> HIDE DEF hit
  <2> QED
    BY <1>0, <2>2, <2>3 DEF ReplyInv, ReplyReachesOwner, Grounded
<1>4. ASSUME NEW r \in Replies, Select(r)
      PROVE  ReplyTypeOK' /\ ReplyInv'
  <2>1. sent' = sent
    BY <1>4 DEF Select
  <2>2. CASE reply' = [reply EXCEPT ![r] = "dlq"] /\ replyFound' = replyFound
    BY <1>0, <2>1, <2>2 DEF ReplyInv, ReplyReachesOwner, Grounded
  <2>3. CASE /\ \E i \in ActiveIn(ConvOf[r]) :
                  replyFound' = [replyFound EXCEPT ![r] =
                                    RowSnapshot(i, mapping[i])]
             /\ reply' = [reply EXCEPT ![r] = "fill"]
    <3>1. PICK i \in ActiveIn(ConvOf[r]) :
            replyFound' = [replyFound EXCEPT ![r] = RowSnapshot(i, mapping[i])]
      BY <2>3
    <3>2. /\ i \in MappingIds
          /\ mapping[i] \in Mapping
          /\ mapping[i].conv = ConvOf[r]
      BY DEF ActiveIn, IsActive, DbTypeOK
    <3>3. /\ RowSnapshot(i, mapping[i]) \in Snapshot
          /\ RowSnapshot(i, mapping[i]).conv = ConvOf[r]
          /\ GroundedIn(mapping', RowSnapshot(i, mapping[i]))
      BY <3>2, FreshSnapshot, GroundedStays
    <3> QED
      BY <1>0, <2>1, <2>3, <3>1, <3>3 DEF ReplyInv, ReplyReachesOwner, Grounded
  <2> QED
    BY <1>4, <2>2, <2>3 DEF Select, ReplyGoto
<1>5. ASSUME NEW r \in Replies, PublishReply(r)
      PROVE  ReplyTypeOK' /\ ReplyInv'
  <2>1. /\ replyFound[r] \in Snapshot
        /\ replyFound[r].wa = ConvWa[ConvOf[r]]
    BY <1>5, HeldMappingIsTheOwners DEF PublishReply, ReplyInv
  <2>2. /\ reply' = [reply EXCEPT ![r] = "acked"]
        /\ replyFound' = [replyFound EXCEPT ![r] = None]
        /\ sent' = sent \cup {[reply |-> r, wa |-> replyFound[r].wa,
                               id |-> replyFound[r].id]}
    BY <1>5 DEF PublishReply, ReplyGoto
  <2> QED
    BY <1>0, <2>1, <2>2 DEF ReplyInv, ReplyReachesOwner, Grounded
<1> QED
  BY <1>1, <1>2, <1>3, <1>4, <1>5, ReplySteps DEF ReplyStep

-----------------------------------------------------------------------------
(* Lookups, the expiry job and the count of faults *)

\* A step keeps the lookups and the expiry job typed and their rows grounded.
LEMMA OtherStep ==
    ASSUME Inv, [Next]_vars, Grows
    PROVE  OtherTypeOK' /\ OtherInv'
<1> USE DEF Inv, TypeOK, OtherTypeOK
<1>1. faults' \in Nat
  BY FaultSteps DEF Fault
<1>2. /\ reading' \in [Readers -> Snapshot \cup {None}]
      /\ \A q \in Readers : GroundedIn(mapping', reading'[q])
  <2>0. /\ \A q \in Readers : GroundedIn(mapping', reading[q])
        /\ GroundedIn(mapping', None)
    BY GroundedStays DEF OtherInv, Grounded, GroundedIn
  <2>1. CASE UNCHANGED reading
    BY <2>0, <2>1
  <2>2. ASSUME NEW q \in Readers, ReadMapping(q)
        PROVE  /\ reading' \in [Readers -> Snapshot \cup {None}]
               /\ \A p \in Readers : GroundedIn(mapping', reading'[p])
    <3>1. PICK i \in MappingIds :
            /\ IsActive(i)
            /\ reading' = [reading EXCEPT ![q] = RowSnapshot(i, mapping[i])]
      BY <2>2 DEF ReadMapping
    <3>2. mapping[i] \in Mapping
      BY <3>1 DEF IsActive, DbTypeOK
    <3>3. /\ RowSnapshot(i, mapping[i]) \in Snapshot
          /\ GroundedIn(mapping', RowSnapshot(i, mapping[i]))
      BY <3>2, FreshSnapshot, GroundedStays
    <3> QED
      BY <2>0, <3>1, <3>3
  <2>3. ASSUME NEW q \in Readers, FillFromRead(q)
        PROVE  /\ reading' \in [Readers -> Snapshot \cup {None}]
               /\ \A p \in Readers : GroundedIn(mapping', reading'[p])
    BY <2>0, <2>3 DEF FillFromRead
  <2> QED
    BY <2>1, <2>2, <2>3, ReadingSteps
<1>3. /\ expiry' \in {"idle", "update", "clear"}
      /\ victims' \subseteq Victim
      /\ \A v \in victims' : mapping'[v.id] # None
  <2>0. \A v \in victims : mapping'[v.id] # None
    BY DEF OtherInv, Grows, Victim
  <2>1. CASE UNCHANGED expiryCore
    BY <2>0, <2>1 DEF expiryCore
  <2>2. CASE SelectVictims
    <3>1. victims' = {[id |-> i, wa |-> mapping[i].wa,
                       conv |-> mapping[i].conv] : i \in StaleRows}
      BY <2>2 DEF SelectVictims
    <3>2. \A i \in StaleRows : i \in MappingIds /\ mapping[i] \in Mapping
      BY DEF StaleRows, IsActive, DbTypeOK
    <3>3. victims' \subseteq Victim
      BY <3>1, <3>2 DEF Victim, Mapping
    <3>4. \A v \in victims' : mapping'[v.id] # None
      BY <3>1, <3>2 DEF Grows
    <3> QED
      BY <2>2, <3>3, <3>4 DEF SelectVictims
  <2>3. CASE ExpireVictims \/ ClearVictim \/ ExpiryAborts
    BY <2>0, <2>3 DEF ExpireVictims, ClearVictim, ExpiryAborts
  <2> QED
    BY <2>1, <2>2, <2>3, ExpirySteps
<1> QED
  BY <1>1, <1>2, <1>3 DEF OtherInv, Grounded

\* A step keeps the histories typed.
LEMMA HistoryStep ==
    ASSUME Inv, [Next]_vars
    PROVE  HistoryTypeOK'
<1> USE DEF Inv, TypeOK, HistoryTypeOK
<1>1. overrun' \subseteq WaIds
  BY OverrunSteps DEF Release, HandlerFails, CrashInbound, Leaves, LockExpires
<1>2. repeated' \subseteq Wamids
  BY RepeatedSteps, StateManagerAssumption DEF Upsert
<1>3. hurried' \subseteq MappingIds
  <2>1. ASSUME NEW d \in Deliveries, Upsert(d)
        PROVE  hurried' \subseteq MappingIds
    BY <2>1 DEF Upsert, Uses, UpsertTargets, ActiveFor
  <2>2. ASSUME NEW r \in Replies, UpdateActivity(r)
        PROVE  hurried' \subseteq MappingIds
    BY <2>2 DEF UpdateActivity, Uses, ReplyInv, ReplyTypeOK
  <2> QED
    BY <2>1, <2>2, HurriedSteps DEF GoStale
<1> QED
  BY <1>1, <1>2, <1>3

-----------------------------------------------------------------------------
(* The theorems *)

\* Inv, the inductive invariant behind every theorem below, holds in every
\* reachable state.
THEOREM Inductive == Spec => []Inv
<1>1. Inv /\ [Next]_vars => Inv'
  <2> SUFFICES ASSUME Inv, [Next]_vars
               PROVE  Inv'
    OBVIOUS
  <2>1. DbTypeOK' /\ Grows /\ RowsInv'
    BY TablesStep
  <2>2. RedisTypeOK' /\ CacheInv'
    BY <2>1, RedisStep
  <2>3. InboundTypeOK' /\ InboundInv'
    BY <2>1, InboundStagesStep
  <2>4. CorrelationTypeOK' /\ CorrelationInv'
    BY <2>1, CorrelationStagesStep
  <2>5. ReplyTypeOK' /\ ReplyInv' /\ OtherTypeOK' /\ OtherInv'
    BY <2>1, ReplyStagesStep, OtherStep
  <2>6. HistoryTypeOK'
    BY HistoryStep
  <2> QED
    BY <2>1, <2>2, <2>3, <2>4, <2>5, <2>6 DEF Inv, TypeOK
<1> QED
  BY InitInv, <1>1, PTL DEF Spec

\* Every variable keeps its type; no handler ever dereferences a row it does
\* not have.
THEOREM StateTypeCorrect == Spec => []TypeOK
  BY Inductive, PTL DEF Inv

\* Replies only reach the customer of their conversation.
THEOREM RepliesReachTheirOwner == Spec => []ReplyReachesOwner
<1>1. Inv => ReplyReachesOwner
  BY DEF Inv, ReplyInv
<1> QED
  BY <1>1, Inductive, PTL

\* The keys of both caches hold rows of that conversation and that customer.
THEOREM CachesAreConsistent == Spec => []CacheKeysConsistent
<1>1. Inv => CacheKeysConsistent
  BY DEF Inv, TypeOK, RedisTypeOK, CacheInv, Grounded, GroundedIn,
         CacheKeysConsistent
<1> QED
  BY <1>1, Inductive, PTL

\* A mapping's conversation is written once.
THEOREM ConversationsAreWrittenOnce == Spec => ConversationWriteOnce
<1>1. Inv /\ [Next]_vars => Grows
  BY TablesStep
<1>2. Grows => \A i \in MappingIds :
                  mapping[i] # None /\ mapping[i].conv # None
                    => mapping'[i].conv = mapping[i].conv
  BY DEF Grows
<1> QED
  BY <1>1, <1>2, Inductive, PTL DEF Spec, ConversationWriteOnce

-----------------------------------------------------------------------------
(* What the expiry job ends *)

\* What the job is about to expire is stale, or was used since it was selected.
ExpiryInv ==
    /\ ExpiryExplained
    /\ expiry = "update" =>
          \A v \in victims : mapping[v.id].stale \/ v.id \in hurried

\* A row is new, or used, or goes stale, or expires, or keeps both its status
\* and its age.
LEMMA RowStep ==
    ASSUME Inv, [Next]_vars, NEW i \in MappingIds, mapping'[i] # None
    PROVE  \/ Uses(i)
           \/ GoStale(i) /\ mapping'[i].stale
           \/ ExpireVictims
           \/ /\ mapping[i] # None
              /\ mapping'[i].status = mapping[i].status
              /\ mapping'[i].stale = mapping[i].stale
<1> USE DEF Inv, TypeOK, DbTypeOK
<1>1. CASE mapping'[i] = mapping[i]
  BY <1>1
<1>2. ASSUME NEW d \in Deliveries, Upsert(d)
      PROVE  Uses(i) \/ mapping'[i] = mapping[i]
  BY <1>2 DEF Upsert
<1>3. ASSUME NEW w \in Wamids, Correlate(w)
      PROVE  \/ mapping'[i] = mapping[i]
             \/ /\ mapping[i] # None
                /\ mapping'[i].status = mapping[i].status
                /\ mapping'[i].stale = mapping[i].stale
  <2>1. CASE i \in Awaiting(w)
    <3>1. /\ mapping[i] \in Mapping
          /\ mapping'[i] = [mapping[i] EXCEPT !.conv = created[w]]
      BY <1>3, <2>1 DEF Correlate, Awaiting
    <3> QED
      BY <3>1 DEF Mapping
  <2>2. CASE i \notin Awaiting(w)
    BY <1>3, <2>2 DEF Correlate
  <2> QED
    BY <2>1, <2>2
<1>4. ASSUME NEW r \in Replies, UpdateActivity(r)
      PROVE  Uses(i) \/ mapping'[i] = mapping[i]
  BY <1>4 DEF UpdateActivity
<1>5. ASSUME NEW j \in MappingIds, GoStale(j)
      PROVE  (GoStale(i) /\ mapping'[i].stale) \/ mapping'[i] = mapping[i]
  BY <1>5 DEF GoStale, IsActive, Mapping
<1>6. CASE \/ UNCHANGED dbVars
           \/ \E d \in Deliveries : Track(d)
           \/ \E r \in Replies : TrackReply(r)
  BY <1>1, <1>6 DEF dbVars, Track, TrackReply
<1> QED
  BY <1>1, <1>2, <1>3, <1>4, <1>5, <1>6, DbSteps

\* Only the job's UPDATE expires a row.
LEMMA StatusChanges ==
    ASSUME Inv, [Next]_vars, ~ExpireVictims, NEW i \in MappingIds,
           mapping'[i] # None, mapping'[i].status = "expired"
    PROVE  mapping[i] # None /\ mapping[i].status = "expired"
<1> USE DEF Inv, TypeOK, DbTypeOK
<1>1. CASE mapping'[i] = mapping[i]
  BY <1>1
<1>2. ASSUME NEW d \in Deliveries, Upsert(d)
      PROVE  mapping'[i] = mapping[i]
  <2>1. PICK j \in UpsertTargets(Customer(d)) :
          mapping' = [mapping EXCEPT ![j] = UpsertedRow(j, d)]
    BY <1>2 DEF Upsert
  <2>2. j \in MappingIds /\ UpsertedRow(j, d).status = "active"
    BY DEF UpsertTargets, ActiveFor, IsActive, UpsertedRow, Mapping
  <2> QED
    BY <2>1, <2>2
<1>3. ASSUME NEW w \in Wamids, Correlate(w), i \in Awaiting(w)
      PROVE  mapping[i] # None /\ mapping[i].status = "expired"
  <2>1. /\ mapping[i] \in Mapping
        /\ mapping'[i] = [mapping[i] EXCEPT !.conv = created[w]]
    BY <1>3 DEF Correlate, Awaiting
  <2> QED
    BY <2>1 DEF Mapping
<1>4. ASSUME NEW w \in Wamids, Correlate(w), i \notin Awaiting(w)
      PROVE  mapping'[i] = mapping[i]
  BY <1>4 DEF Correlate
<1>5. ASSUME NEW r \in Replies, UpdateActivity(r), i = replyFound[r].id
      PROVE  mapping[i] # None /\ mapping[i].status = "expired"
  <2>1. mapping[i] \in Mapping
    BY <1>5 DEF UpdateActivity, ReplyInv, Grounded, GroundedIn
  <2>2. mapping'[i] = [mapping[i] EXCEPT !.last = r, !.stale = FALSE]
    BY <1>5 DEF UpdateActivity
  <2> QED
    BY <2>1, <2>2 DEF Mapping
<1>6. ASSUME NEW r \in Replies, UpdateActivity(r), i # replyFound[r].id
      PROVE  mapping'[i] = mapping[i]
  BY <1>6 DEF UpdateActivity
<1>7. ASSUME NEW j \in MappingIds, GoStale(j)
      PROVE  mapping[i] # None /\ mapping[i].status = "expired"
  BY <1>7 DEF GoStale, IsActive, Mapping
<1>8. CASE \/ UNCHANGED dbVars
           \/ \E d \in Deliveries : Track(d)
           \/ \E r \in Replies : TrackReply(r)
  BY <1>1, <1>8 DEF dbVars, Track, TrackReply
<1> QED
  BY <1>1, <1>2, <1>3, <1>4, <1>5, <1>6, <1>7, <1>8, DbSteps

\* A row only stops being hurried by going stale.
LEMMA HurriedStays ==
    ASSUME [Next]_vars, NEW i \in hurried
    PROVE  i \in hurried' \/ GoStale(i)
  BY HurriedSteps DEF Upsert, UpdateActivity, GoStale, Uses

\* No step expires a mapping that is in use, but for the job's UPDATE of one
\* that was used after its SELECT.
LEMMA ExpiryJobStep ==
    ASSUME Inv, ExpiryInv, [Next]_vars
    PROVE  ExpiryInv'
<1> USE DEF ExpiryInv, ExpiryExplained
<1>0. \A v \in victims : v.id \in MappingIds /\ mapping[v.id] # None
  BY DEF Inv, TypeOK, OtherTypeOK, OtherInv, Victim
<1>1. ASSUME NEW i \in MappingIds, mapping'[i] # None,
             mapping'[i].status = "expired", ~mapping'[i].stale
      PROVE  i \in hurried'
  <2>1. CASE GoStale(i) /\ mapping'[i].stale
    BY <1>1, <2>1
  <2>2. CASE Uses(i) /\ ~ExpireVictims
    <3>1. mapping[i] # None /\ mapping[i].status = "expired"
      BY <1>1, <2>2, StatusChanges
    <3> QED
      BY <2>2, <3>1 DEF Uses
  <2>3. CASE ExpireVictims
    <3>1. hurried' = hurried
      BY <2>3 DEF ExpireVictims
    <3>2. CASE \E v \in victims : v.id = i
      <4>1. mapping[i] \in Mapping
        BY <3>2, <1>0 DEF Inv, TypeOK, DbTypeOK
      <4>2. mapping'[i] = [mapping[i] EXCEPT !.status = "expired"]
        BY <2>3, <3>2 DEF ExpireVictims
      <4>3. ~mapping[i].stale
        BY <1>1, <4>1, <4>2 DEF Mapping
      <4> QED
        BY <2>3, <3>1, <3>2, <4>3 DEF ExpireVictims
    <3>3. CASE ~\E v \in victims : v.id = i
      <4>1. mapping'[i] = mapping[i]
        BY <2>3, <3>3 DEF ExpireVictims
      <4> QED
        BY <1>1, <3>1, <4>1
    <3> QED
      BY <3>2, <3>3
  <2>4. CASE /\ mapping[i] # None
             /\ mapping'[i].status = mapping[i].status
             /\ mapping'[i].stale = mapping[i].stale
    <3>1. i \in hurried
      BY <1>1, <2>4
    <3>2. ~GoStale(i)
      BY <1>1, <2>4 DEF GoStale, IsActive
    <3> QED
      BY <3>1, <3>2, HurriedStays
  <2> QED
    BY <1>1, <2>1, <2>2, <2>3, <2>4, RowStep
<1>2. ASSUME expiry' = "update", NEW v \in victims'
      PROVE  mapping'[v.id].stale \/ v.id \in hurried'
  <2>1. CASE UNCHANGED expiryCore
    <3>1. /\ v.id \in MappingIds /\ expiry = "update"
          /\ v \in victims /\ mapping[v.id] # None
          /\ mapping[v.id].stale \/ v.id \in hurried
      BY <1>0, <1>2, <2>1 DEF expiryCore
    <3>2. mapping'[v.id] # None
      BY <3>1, TablesStep DEF Grows
    <3>3. CASE Uses(v.id)
      BY <3>1, <3>3 DEF Uses
    <3>4. CASE GoStale(v.id) /\ mapping'[v.id].stale
      BY <3>4
    <3>5. ~ExpireVictims
      BY <2>1, <3>1 DEF ExpireVictims, expiryCore
    <3>6. CASE mapping'[v.id].stale = mapping[v.id].stale
      <4>1. CASE mapping[v.id].stale
        BY <3>6, <4>1
      <4>2. CASE v.id \in hurried
        <5>1. ~GoStale(v.id)
          BY <3>1 DEF GoStale, Quiet
        <5> QED
          BY <4>2, <5>1, HurriedStays
      <4> QED
        BY <3>1, <4>1, <4>2
    <3> QED
      BY <3>1, <3>2, <3>3, <3>4, <3>5, <3>6, RowStep
  <2>2. CASE SelectVictims
    <3>1. /\ mapping' = mapping
          /\ victims' = {[id |-> i, wa |-> mapping[i].wa,
                          conv |-> mapping[i].conv] : i \in StaleRows}
      BY <2>2 DEF SelectVictims, dbVars
    <3>2. PICK i \in StaleRows :
            v = [id |-> i, wa |-> mapping[i].wa, conv |-> mapping[i].conv]
      BY <1>2, <3>1
    <3>3. v.id = i /\ mapping[i].stale
      BY <3>2 DEF StaleRows
    <3> QED
      BY <3>1, <3>3
  <2>3. CASE ExpireVictims \/ ClearVictim \/ ExpiryAborts
    BY <1>2, <2>3 DEF ExpireVictims, ClearVictim, ExpiryAborts
  <2> QED
    BY <2>1, <2>2, <2>3, ExpirySteps
<1> QED
  BY <1>1, <1>2

\* For any number of mappings and handlers: a mapping that was used within the
\* last day only expires if it was used while the job held it, or when it had
\* expired already.
THEOREM ExpiriesAreExplained == Spec => []ExpiryExplained
<1>1. Init => ExpiryInv
  BY DEF Init, ExpiryInv, ExpiryExplained
<1>2. Inv /\ ExpiryInv /\ [Next]_vars => ExpiryInv'
  BY ExpiryJobStep
<1>3. ExpiryInv => ExpiryExplained
  BY DEF ExpiryInv
<1> QED
  BY <1>1, <1>2, <1>3, Inductive, PTL DEF Spec

-----------------------------------------------------------------------------
(* The lock *)

\* Whoever works on a customer's mapping has the customer's lock, alone, unless
\* the lock expired under him or under another one who is still at work.
LockHeld ==
    \A d \in Deliveries :
        inbound[d] \in Critical => lock[Customer(d)] \/ Customer(d) \in overrun

LockInv == LockHeld /\ LockExclusive

\* A handler leaves: the others of the customer stay, and the overrun with them.
LEMMA LeavingKeeps ==
    ASSUME Inv, LockInv, NEW d \in Deliveries, NEW s, s \notin Critical,
           inbound' = [inbound EXCEPT ![d] = s], Leaves(d),
           \A a \in WaIds : \/ lock'[a] = lock[a]
                            \/ a = Customer(d) /\ inbound[d] \in Critical
    PROVE  LockInv'
<1> USE DEF Inv, TypeOK, InboundTypeOK, LockInv
<1>1. \A e \in Deliveries : inbound'[e] \in Critical =>
          /\ inbound[e] \in Critical /\ e # d
          /\ Customer(e) \in overrun <=> Customer(e) \in overrun'
  BY DEF Leaves, Critical
<1>2. LockHeld'
  <2> SUFFICES ASSUME NEW e \in Deliveries, inbound'[e] \in Critical
               PROVE  lock'[Customer(e)] \/ Customer(e) \in overrun'
    BY DEF LockHeld, Customer
  <2>1. Customer(e) \in WaIds
    BY StateManagerAssumption DEF Customer
  <2>2. lock[Customer(e)] \/ Customer(e) \in overrun
    BY <1>1 DEF LockHeld
  <2>3. CASE Customer(e) = Customer(d) /\ inbound[d] \in Critical
    BY <1>1, <2>3 DEF LockExclusive
  <2> QED
    BY <1>1, <2>1, <2>2, <2>3
<1>3. LockExclusive'
  <2> SUFFICES ASSUME NEW e \in Deliveries, NEW f \in Deliveries,
                      inbound'[e] \in Critical, inbound'[f] \in Critical,
                      Customer(e) = Customer(f)
               PROVE  e = f \/ Customer(e) \in overrun'
    BY DEF LockExclusive, Customer
  <2> QED
    BY <1>1 DEF LockExclusive
<1> QED
  BY <1>2, <1>3

\* Every step keeps the lock of a customer with the one handler that works on
\* the customer's mapping, or notes that it was overrun.
LEMMA LockStep ==
    ASSUME Inv, LockInv, [Next]_vars
    PROVE  LockInv'
<1> USE DEF Inv, TypeOK, InboundTypeOK, RedisTypeOK, LockInv, LockHeld,
            LockExclusive, Critical, InboundStages
<1>0. \A d \in Deliveries : Customer(d) \in WaIds
  BY StateManagerAssumption DEF Customer
<1>1. CASE UNCHANGED <<lock, overrun, inbound>>
  BY <1>1 DEF Customer
<1>2. ASSUME NEW d \in Deliveries,
             Receive(d) \/ Start(d) \/ Upsert(d) \/ CacheInbound(d) \/ Track(d)
             \/ Publish(d) \/ Ack(d)
      PROVE  LockInv'
  <2>1. lock' = lock /\ overrun' = overrun
    BY <1>2 DEF Receive, Start, Upsert, CacheInbound, Track, Publish, Ack,
                CacheMapping, redisVars
  <2>2. \A e \in Deliveries :
          inbound'[e] \in Critical => inbound[e] \in Critical
    BY <1>2 DEF Receive, Start, Upsert, CacheInbound, Track, Publish, Ack, Goto
  <2> QED
    BY <2>1, <2>2 DEF Customer
<1>3. ASSUME NEW d \in Deliveries, TryLock(d)
      PROVE  LockInv'
  <2>0. overrun' = overrun
    BY <1>3 DEF TryLock
  <2>1. CASE /\ ~lock[Customer(d)]
             /\ lock' = [lock EXCEPT ![Customer(d)] = TRUE]
             /\ inbound' = [inbound EXCEPT ![d] = "upsert"]
    BY <1>0, <2>0, <2>1 DEF Customer
  <2>2. CASE /\ lock' = lock
             /\ \E s \in {"dlq", "lock"} : inbound' = [inbound EXCEPT ![d] = s]
    BY <2>0, <2>2 DEF Customer
  <2> QED
    BY <1>3, <2>1, <2>2 DEF TryLock, Goto
<1>4. ASSUME NEW d \in Deliveries, Release(d) \/ HandlerFails(d) \/ CrashInbound(d)
      PROVE  LockInv'
  <2>1. PICK s \in {"ack", "queued"} : inbound' = [inbound EXCEPT ![d] = s]
    BY <1>4 DEF Release, HandlerFails, CrashInbound, Goto
  <2>2. Leaves(d)
    BY <1>4 DEF Release, HandlerFails, CrashInbound
  <2>3. CASE Release(d) \/ HandlerFails(d)
    <3>1. inbound[d] \in Critical
      BY <2>3 DEF Release, HandlerFails
    <3>2. \A a \in WaIds : \/ lock'[a] = lock[a]
                           \/ a = Customer(d) /\ inbound[d] \in Critical
      BY <1>0, <2>3, <3>1 DEF Release, HandlerFails, Unlock
    <3>3. s \notin Critical
      OBVIOUS
    <3> HIDE DEF Inv, TypeOK, LockInv, Critical
    <3> QED
      BY <2>1, <2>2, <3>2, <3>3, LeavingKeeps
  <2>4. CASE CrashInbound(d)
    <3>1. lock' = lock
      BY <2>4 DEF CrashInbound
    <3>2. s \notin Critical
      OBVIOUS
    <3> HIDE DEF Inv, TypeOK, LockInv, Critical
    <3> QED
      BY <2>1, <2>2, <3>1, <3>2, LeavingKeeps
  <2> QED
    BY <1>4, <2>3, <2>4
<1>5. ASSUME NEW a \in WaIds, LockExpires(a)
      PROVE  LockInv'
  <2>1. inbound' = inbound
    BY <1>5 DEF LockExpires, allHandlers, notExpiry, inboundVars
  <2>2. \A d \in Deliveries :
          inbound[d] \in Critical /\ Customer(d) = a => a \in overrun'
    BY <1>5 DEF LockExpires, AtWork
  <2>3. /\ \A b \in WaIds : b # a => lock'[b] = lock[b]
        /\ overrun \subseteq overrun'
    BY <1>5 DEF LockExpires
  <2> QED
    BY <1>0, <2>1, <2>2, <2>3 DEF Customer
<1> QED
  <2>1. \/ UNCHANGED inboundVars
        \/ \E d \in Deliveries : \/ Receive(d) \/ InboundStep(d)
                                 \/ HandlerFails(d) \/ CrashInbound(d)
    BY InboundSteps
  <2>2. CASE UNCHANGED inboundVars
    <3>1. UNCHANGED lock \/ (\E a \in WaIds : LockExpires(a))
          \/ \E d \in Deliveries :
                TryLock(d) \/ Release(d) \/ HandlerFails(d)
      BY RedisSteps
      DEF redisCore, CacheInbound, CacheCorrelation, Fill, FillFromRead,
          CacheExpires, RedisDown, RedisUp, ClearVictim, CacheMapping, DropKeys
    <3> QED
      BY <1>1, <1>3, <1>4, <1>5, <2>2, <3>1, OverrunSteps DEF inboundVars
  <2> QED
    BY <1>2, <1>3, <1>4, <2>1, <2>2 DEF InboundStep

\* Neither a crash, nor Redis going away, nor a failed attempt frees a lock in
\* use: two handlers of a customer only meet after the lock's TTL ran out
\* under one of them.
THEOREM HandlersExcludeEachOther == Spec => []LockExclusive
<1>1. Init => LockInv
  BY DEF Init, LockInv, LockHeld, LockExclusive, Critical
<1>2. Inv /\ LockInv /\ [Next]_vars => LockInv'
  BY LockStep
<1>3. LockInv => LockExclusive
  BY DEF LockInv
<1> QED
  BY <1>1, <1>2, <1>3, Inductive, PTL DEF Spec

-----------------------------------------------------------------------------
(* Nothing acked is lost *)

\* How far the stages say the work has come.
ForwardInv ==
    /\ \A d \in Deliveries :
         /\ inbound[d] \in {"publish", "release", "ack", "acked"}
              => tracked[WamidOf[d]] # None
         /\ inbound[d] \in {"release", "ack", "acked"}
              => correlation[WamidOf[d]] # "none"
    /\ \A r \in Replies :
         /\ reply[r] \in {"activity", "publish", "acked"} => r \in replyTracked
         /\ reply[r] = "acked" => \E m \in sent : m.reply = r

\* Tracking rows, published messages and sent replies stay.
LEMMA ForwardedStays ==
    ASSUME Inv, [Next]_vars
    PROVE  /\ \A w \in Wamids : tracked[w] # None => tracked'[w] # None
           /\ \A w \in Wamids :
                correlation[w] # "none" => correlation'[w] # "none"
           /\ replyTracked \subseteq replyTracked'
           /\ sent \subseteq sent'
<1>1. \A w \in Wamids : tracked[w] # None => tracked'[w] # None
  BY DbSteps DEF dbVars, Upsert, Track, Correlate, TrackReply, UpdateActivity,
                 GoStale, ExpireVictims, Inv, TypeOK, DbTypeOK
<1>2. \A w \in Wamids : correlation[w] # "none" => correlation'[w] # "none"
  BY CorrelationSteps
  DEF corrCore, Publish, CorrelationStep, GenesysAccepts, Correlate,
      CacheCorrelation, CrashCorrelation, Inv, TypeOK, CorrelationTypeOK
<1>3. sent \subseteq sent'
  BY ReplySteps DEF replyVars, Send, ReplyStep, Lookup, Select, Fill,
                    TrackReply, UpdateActivity, PublishReply, ReplyFails
<1>4. replyTracked \subseteq replyTracked'
  BY DbSteps DEF dbVars, Upsert, Track, Correlate, TrackReply, UpdateActivity,
                 GoStale, ExpireVictims
<1> QED
  BY <1>1, <1>2, <1>3, <1>4

\* A handler past a stage has done what the stage does, and no step takes a
\* tracked or published message back.
LEMMA ForwardStep ==
    ASSUME Inv, ForwardInv, [Next]_vars
    PROVE  ForwardInv'
<1> USE DEF Inv, TypeOK
<1>1. ASSUME NEW d \in Deliveries
      PROVE  /\ inbound'[d] \in {"publish", "release", "ack", "acked"}
                  => tracked'[WamidOf[d]] # None
             /\ inbound'[d] \in {"release", "ack", "acked"}
                  => correlation'[WamidOf[d]] # "none"
  <2>0. WamidOf[d] \in Wamids
    BY StateManagerAssumption
  <2>1. \/ inbound'[d] = inbound[d]
        \/ inbound'[d] \in {"queued", "lock", "dlq", "upsert", "cache",
                             "track"}
        \/ Track(d) \/ Publish(d) \/ Release(d) \/ Ack(d)
    BY InboundSteps
    DEF inboundVars, InboundStep, Receive, Start, TryLock, Upsert,
        CacheInbound, Track, Publish, Release, Ack, HandlerFails,
        CrashInbound, Goto, InboundTypeOK
  <2>2. CASE inbound'[d] = inbound[d]
    BY <2>0, <2>2, ForwardedStays DEF ForwardInv
  <2>3. CASE Track(d)
    <3>1. found[d].id \in MappingIds
      BY <2>3 DEF Track, InboundInv, InboundTypeOK
    <3>2. tracked'[WamidOf[d]] # None
      BY <2>0, <2>3, <3>1 DEF Track, DbTypeOK
    <3>3. inbound'[d] = "publish"
      BY <2>3 DEF Track, Goto, InboundTypeOK
    <3> QED
      BY <3>2, <3>3
  <2>4. CASE Publish(d)
    BY <2>0, <2>4, ForwardedStays
    DEF Publish, Goto, InboundTypeOK, CorrelationTypeOK, ForwardInv
  <2>5. CASE Release(d) \/ Ack(d)
    BY <2>0, <2>5, ForwardedStays
    DEF Release, Ack, Goto, InboundTypeOK, ForwardInv
  <2> QED
    BY <2>1, <2>2, <2>3, <2>4, <2>5
<1>2. ASSUME NEW r \in Replies, reply'[r] = "acked"
      PROVE  \E m \in sent' : m.reply = r
  <2>1. reply[r] = "acked" \/ PublishReply(r)
    BY <1>2, ReplySteps, ZenonT(40)
    DEF replyVars, Send, ReplyStep, Lookup, Select, Fill, TrackReply,
        UpdateActivity, PublishReply, ReplyFails, ReplyGoto, ReplyTypeOK
  <2>2. CASE reply[r] = "acked"
    BY <2>2, ForwardedStays DEF ForwardInv
  <2>3. CASE PublishReply(r)
    <3>1. [reply |-> r, wa |-> replyFound[r].wa, id |-> replyFound[r].id]
            \in sent'
      BY <2>3 DEF PublishReply
    <3> QED
      BY <3>1
  <2> QED
    BY <2>1, <2>2, <2>3
<1>3. ASSUME NEW r \in Replies,
             reply'[r] \in {"activity", "publish", "acked"}
      PROVE  r \in replyTracked'
  <2>1. \/ reply[r] \in {"activity", "publish", "acked"}
        \/ TrackReply(r) \/ UpdateActivity(r) \/ PublishReply(r)
    <3>1. CASE UNCHANGED reply
      BY <1>3, <3>1
    <3>2. ASSUME NEW q \in Replies,
                 Send(q) \/ Lookup(q) \/ Select(q) \/ Fill(q) \/ ReplyFails(q)
          PROVE  reply[r] \in {"activity", "publish", "acked"}
      <4>1. \E g \in {"queued", "dlq", "select", "fill", "track"} :
               reply' = [reply EXCEPT ![q] = g]
        BY <3>2 DEF Send, Lookup, Select, Fill, ReplyFails, ReplyGoto
      <4> QED
        BY <1>3, <4>1 DEF ReplyTypeOK
    <3>3. ASSUME NEW q \in Replies, q # r,
                 TrackReply(q) \/ UpdateActivity(q) \/ PublishReply(q)
          PROVE  reply[r] \in {"activity", "publish", "acked"}
      <4>1. \E g \in ReplyStages : reply' = [reply EXCEPT ![q] = g]
        BY <3>3 DEF TrackReply, UpdateActivity, PublishReply, ReplyGoto,
                    ReplyStages
      <4> QED
        BY <1>3, <3>3, <4>1 DEF ReplyTypeOK
    <3> QED
      BY <3>1, <3>2, <3>3, ReplySteps DEF replyVars, ReplyStep
  <2>2. CASE TrackReply(r)
    BY <1>3, <2>2 DEF TrackReply, ReplyGoto, ReplyTypeOK
  <2>3. CASE UpdateActivity(r) \/ PublishReply(r)
    BY <2>3, ForwardedStays DEF UpdateActivity, PublishReply, ForwardInv
  <2> QED
    BY <2>1, <2>2, <2>3, ForwardedStays DEF ForwardInv
<1> QED
  BY <1>1, <1>2, <1>3 DEF ForwardInv

\* A message leaves its queue by an ack only after it was tracked and handed
\* on, or dead-lettered.
THEOREM NothingAckedIsLost == Spec => []AckedMeansForwarded
<1>1. Init => ForwardInv
  BY DEF Init, ForwardInv
<1>2. Inv /\ ForwardInv /\ [Next]_vars => ForwardInv'
  BY ForwardStep
<1>3. ForwardInv => AckedMeansForwarded
  BY DEF ForwardInv, AckedMeansForwarded
<1> QED
  BY <1>1, <1>2, <1>3, Inductive, PTL DEF Spec

-----------------------------------------------------------------------------
(* A mapping without a conversation gets one *)

\* The stages of a copy that is not published yet, or was given up.
Unpublished == {"queued", "lock", "upsert", "cache", "track", "publish", "dlq"}

\* The correlation of w is to come, or it will not.
Awaits(w) ==
    \/ correlation[w] \in {"enriched", "event"}
    \/ /\ correlation[w] = "none"
       /\ \E d \in Deliveries : WamidOf[d] = w /\ inbound[d] \in Unpublished
    \/ w \in repeated

\* Every row without a conversation awaits the correlation of its last message.
AwaitedInv ==
    \A i \in MappingIds :
        mapping[i] # None /\ mapping[i].conv = None =>
            \E w \in Wamids : mapping[i].last = w /\ Awaits(w)

\* A copy that is not published stays so, until it is.
LEMMA UnpublishedStays ==
    ASSUME Inv, ForwardInv, [Next]_vars, NEW d \in Deliveries,
           inbound[d] \in Unpublished
    PROVE  inbound'[d] \in Unpublished \/ Publish(d)
<1> USE DEF Inv, TypeOK, InboundTypeOK, Unpublished
<1>1. CASE UNCHANGED inboundVars
  BY <1>1 DEF inboundVars
<1>2. ASSUME NEW e \in Deliveries, e # d,
             \/ Receive(e) \/ InboundStep(e)
             \/ HandlerFails(e) \/ CrashInbound(e)
      PROVE  inbound'[d] = inbound[d]
  BY <1>2 DEF InboundStep, Receive, Start, TryLock, Upsert, CacheInbound,
              Track, Publish, Release, Ack, HandlerFails, CrashInbound, Goto
<1>3. CASE Receive(d) \/ HandlerFails(d) \/ CrashInbound(d)
  BY <1>3 DEF Receive, HandlerFails, CrashInbound, Goto
<1>4. CASE Start(d) \/ TryLock(d) \/ Upsert(d) \/ CacheInbound(d) \/ Track(d)
  BY <1>4 DEF Start, TryLock, Upsert, CacheInbound, Track, Goto
<1>5. CASE Release(d) \/ Ack(d)
  BY <1>5 DEF Release, Ack
<1> QED
  BY <1>1, <1>2, <1>3, <1>4, <1>5, InboundSteps DEF InboundStep

\* A message that is awaited stays so until its correlation is written.
LEMMA AwaitsStays ==
    ASSUME Inv, ForwardInv, [Next]_vars, NEW w \in Wamids, Awaits(w),
           ~Correlate(w)
    PROVE  Awaits(w)'
<1> USE DEF Inv, TypeOK, CorrelationTypeOK
<1>0. w \in repeated => w \in repeated'
  BY RepeatedSteps DEF Upsert
<1>1. CASE UNCHANGED corrCore
  <2>1. CASE w \in repeated \/ correlation[w] \in {"enriched", "event"}
    BY <1>0, <1>1, <2>1 DEF corrCore, Awaits
  <2>2. CASE /\ correlation[w] = "none"
             /\ \E d \in Deliveries : WamidOf[d] = w /\ inbound[d] \in Unpublished
    <3>1. PICK d \in Deliveries : WamidOf[d] = w /\ inbound[d] \in Unpublished
      BY <2>2
    <3>2. ~Publish(d)
      BY <1>1, <2>2, <3>1 DEF Publish, corrCore
    <3>3. inbound'[d] \in Unpublished
      BY <3>1, <3>2, UnpublishedStays
    <3>4. correlation'[w] = "none"
      BY <1>1, <2>2 DEF corrCore
    <3> QED
      BY <3>1, <3>3, <3>4 DEF Awaits
  <2> QED
    BY <2>1, <2>2 DEF Awaits
<1>2. ASSUME NEW e \in Deliveries, Publish(e)
      PROVE  Awaits(w)'
  <2>1. WamidOf[e] \in Wamids
    BY StateManagerAssumption
  <2>2. correlation' = [correlation EXCEPT ![WamidOf[e]] =
                           IF @ = "none" THEN "enriched" ELSE @]
    BY <1>2 DEF Publish
  <2>3. CASE w \in repeated
    BY <1>0, <2>3 DEF Awaits
  <2>4. CASE correlation[w] \in {"enriched", "event"}
    BY <2>1, <2>2, <2>4 DEF Awaits
  <2>5. CASE correlation[w] = "none" /\ WamidOf[e] = w
    BY <2>1, <2>2, <2>5 DEF Awaits
  <2>6. CASE /\ correlation[w] = "none" /\ WamidOf[e] # w
             /\ \E d \in Deliveries : WamidOf[d] = w /\ inbound[d] \in Unpublished
    <3>1. PICK d \in Deliveries : WamidOf[d] = w /\ inbound[d] \in Unpublished
      BY <2>6
    <3>2. inbound'[d] = inbound[d]
      BY <1>2, <2>6, <3>1 DEF Publish, Goto, InboundTypeOK
    <3>3. correlation'[w] = "none"
      BY <2>1, <2>2, <2>6
    <3> QED
      BY <3>1, <3>2, <3>3 DEF Awaits
  <2> QED
    BY <2>3, <2>4, <2>5, <2>6 DEF Awaits
<1>3. ASSUME NEW v \in Wamids, CorrelationStep(v) \/ CrashCorrelation(v)
      PROVE  Awaits(w)'
  <2>1. inbound' = inbound
    BY <1>3 DEF CorrelationStep, GenesysAccepts, Correlate, CacheCorrelation,
                CrashCorrelation, notCorrelation, inboundVars
  <2>2. CASE v # w
    <3>1. correlation'[w] = correlation[w]
      BY <1>3, <2>2 DEF CorrelationStep, GenesysAccepts, Correlate,
                        CacheCorrelation, CrashCorrelation
    <3> QED
      BY <1>0, <2>1, <3>1 DEF Awaits
  <2>3. CASE v = w
    <3>1. CASE GenesysAccepts(w) \/ CrashCorrelation(w)
      BY <3>1 DEF GenesysAccepts, CrashCorrelation, Awaits
    <3>2. CASE CacheCorrelation(w)
      <4>1. w \in repeated
        BY <3>2 DEF CacheCorrelation, Awaits
      <4> QED
        BY <1>0, <4>1 DEF Awaits
    <3> QED
      BY <1>3, <2>3, <3>1, <3>2 DEF CorrelationStep
  <2> QED
    BY <2>2, <2>3
<1> QED
  BY <1>1, <1>2, <1>3, CorrelationSteps

\* A row gets a new last message only from a handler that is to publish it, or
\* had it correlated before, or from a reply, which is written in a conversation;
\* and a correlation event leaves no row behind that waits for it.
LEMMA WaitingStep ==
    ASSUME Inv, ForwardInv, AwaitedInv, [Next]_vars,
           NEW i \in MappingIds, mapping'[i] # None, mapping'[i].conv = None
    PROVE  \E w \in Wamids : mapping'[i].last = w /\ Awaits(w)'
<1> USE DEF Inv, TypeOK, DbTypeOK, CorrelationTypeOK
<1>0. /\ \A d \in Deliveries : WamidOf[d] \in Wamids
      /\ Wamids \cap Replies = {}
  BY StateManagerAssumption
<1>2. ASSUME NEW d \in Deliveries, Upsert(d),
             mapping'[i] = UpsertedRow(i, d)
      PROVE  /\ mapping'[i].last = WamidOf[d]
             /\ Awaits(WamidOf[d])'
  <2>1. mapping'[i].last = WamidOf[d]
    <3>1. CASE mapping[i] = None
      BY <1>2, <3>1 DEF UpsertedRow
    <3>2. CASE mapping[i] \in Mapping
      BY <1>2, <3>2 DEF UpsertedRow, Mapping
    <3> QED
      BY <3>1, <3>2
  <2>2. UNCHANGED correlation /\ inbound'[d] = "cache"
    BY <1>2 DEF Upsert, Goto, InboundTypeOK
  <2>3. correlation[WamidOf[d]] \in {"cache", "done"} => WamidOf[d] \in repeated'
    BY <1>2 DEF Upsert
  <2>4. Awaits(WamidOf[d])'
    BY <1>0, <2>2, <2>3 DEF Awaits, Unpublished, CorrelationStages
  <2> QED
    BY <2>1, <2>4
<1>3. CASE /\ mapping[i] # None /\ mapping[i].conv = None
           /\ mapping'[i].last = mapping[i].last
  <2>1. PICK w \in Wamids : mapping[i].last = w /\ Awaits(w)
    BY <1>3 DEF AwaitedInv
  <2>2. ASSUME Correlate(w)
        PROVE  FALSE
    <3>1. i \in Awaiting(w)
      BY <1>3, <2>1 DEF Awaiting
    <3>2. mapping'[i] = [mapping[i] EXCEPT !.conv = created[w]]
      BY <2>2, <3>1 DEF Correlate
    <3>3. mapping[i] \in Mapping
      BY <1>3
    <3>4. mapping'[i].conv = created[w]
      BY <3>2, <3>3 DEF Mapping
    <3>5. created[w] # None
      BY <2>1, <2>2 DEF Correlate, CorrelationInv
    <3> QED
      BY <3>4, <3>5
  <2>3. Awaits(w)'
    BY <2>1, <2>2, AwaitsStays
  <2>4. mapping'[i].last = w
    BY <1>3, <2>1
  <2> QED
    BY <2>1, <2>3, <2>4
<1>4. \/ \E d \in Deliveries : Upsert(d) /\ mapping'[i] = UpsertedRow(i, d)
      \/ /\ mapping[i] # None /\ mapping[i].conv = None
         /\ mapping'[i].last = mapping[i].last
  <2>1. CASE mapping'[i] = mapping[i]
    BY <2>1
  <2>2. ASSUME NEW d \in Deliveries, Upsert(d)
        PROVE  mapping'[i] = mapping[i] \/ mapping'[i] = UpsertedRow(i, d)
    BY <2>2 DEF Upsert
  <2>3. ASSUME NEW w \in Wamids, Correlate(w)
        PROVE  mapping'[i] = mapping[i]
    <3>1. CASE i \in Awaiting(w)
      <4>1. mapping'[i] = [mapping[i] EXCEPT !.conv = created[w]]
        BY <2>3, <3>1 DEF Correlate
      <4>2. mapping[i] \in Mapping
        BY <3>1 DEF Awaiting
      <4>3. mapping'[i].conv = created[w]
        BY <4>1, <4>2 DEF Mapping
      <4>4. created[w] # None
        BY <2>3 DEF Correlate, CorrelationInv
      <4> QED
        BY <4>3, <4>4
    <3>2. CASE i \notin Awaiting(w)
      BY <2>3, <3>2 DEF Correlate
    <3> QED
      BY <3>1, <3>2
  <2>4. ASSUME NEW r \in Replies, UpdateActivity(r)
        PROVE  mapping'[i] = mapping[i]
    <3> DEFINE id == replyFound[r].id
    <3>1. /\ replyFound[r] # None /\ replyFound[r].conv = ConvOf[r]
          /\ Grounded(replyFound[r])
      BY <2>4 DEF UpdateActivity, ReplyInv
    <3>2. ConvOf[r] # None
      BY StateManagerAssumption
    <3>3. mapping[id].conv # None
      BY <3>1, <3>2 DEF Grounded, GroundedIn
    <3>4. CASE i = id
      <4>1. mapping[i] \in Mapping
        BY <3>1, <3>4 DEF Grounded, GroundedIn
      <4>2. mapping'[i].conv = mapping[i].conv
        BY <2>4, <3>4, <4>1 DEF UpdateActivity, Mapping
      <4> QED
        BY <3>3, <3>4, <4>2
    <3>5. CASE i # id
      BY <2>4, <3>5 DEF UpdateActivity
    <3> QED
      BY <3>4, <3>5
  <2>5. ASSUME ExpireVictims \/ \E j \in MappingIds : GoStale(j)
        PROVE  /\ mapping[i] # None /\ mapping[i].conv = None
               /\ mapping'[i].last = mapping[i].last
    <3>1. CASE mapping'[i] = mapping[i]
      BY <3>1
    <3>2. CASE mapping'[i] = [mapping[i] EXCEPT !.stale = TRUE]
               /\ mapping[i] # None
      <4>1. mapping[i] \in Mapping
        BY <3>2
      <4> QED
        BY <3>2, <4>1 DEF Mapping
    <3>3. CASE mapping'[i] = [mapping[i] EXCEPT !.status = "expired"]
               /\ mapping[i] # None
      <4>1. mapping[i] \in Mapping
        BY <3>3
      <4> QED
        BY <3>3, <4>1 DEF Mapping
    <3>4. ASSUME NEW j \in MappingIds, GoStale(j)
          PROVE  \/ mapping'[i] = mapping[i]
                 \/ /\ mapping'[i] = [mapping[i] EXCEPT !.stale = TRUE]
                    /\ mapping[i] # None
      BY <3>4 DEF GoStale, IsActive
    <3>5. ASSUME ExpireVictims
          PROVE  \/ mapping'[i] = mapping[i]
                 \/ /\ mapping'[i] = [mapping[i] EXCEPT !.status = "expired"]
                    /\ mapping[i] # None
      BY <3>5 DEF ExpireVictims, OtherInv
    <3> QED
      BY <2>5, <3>1, <3>2, <3>3, <3>4, <3>5
  <2>6. CASE \/ UNCHANGED dbVars
             \/ \E d \in Deliveries : Track(d)
             \/ \E r \in Replies : TrackReply(r)
    BY <2>1, <2>6 DEF dbVars, Track, TrackReply
  <2> QED
    BY <2>1, <2>2, <2>3, <2>4, <2>5, <2>6, DbSteps
<1> QED
  BY <1>0, <1>2, <1>3, <1>4

\* For any number of copies, redeliveries, crashes and expiries: an active mapping
\* without a conversation is awaited, unless its last message was dead-lettered
\* when its handler was repeated, or stored once more after its correlation.
THEOREM MappingsAreAwaited == Spec => []UncorrelatedIsAwaited
<1>1. Init => ForwardInv /\ AwaitedInv
  BY DEF Init, ForwardInv, AwaitedInv
<1>2. Inv /\ ForwardInv /\ AwaitedInv /\ [Next]_vars => (ForwardInv /\ AwaitedInv)'
  <2> SUFFICES ASSUME Inv, ForwardInv, AwaitedInv, [Next]_vars
               PROVE  ForwardInv' /\ AwaitedInv'
    OBVIOUS
  <2>1. AwaitedInv'
    <3> SUFFICES ASSUME NEW i \in MappingIds,
                        mapping'[i] # None, mapping'[i].conv = None
                 PROVE  \E w \in Wamids : mapping'[i].last = w /\ Awaits(w)'
      BY DEF AwaitedInv
    <3> QED
      BY WaitingStep
  <2> QED
    BY <2>1, ForwardStep
<1>3. AwaitedInv => UncorrelatedIsAwaited
  BY DEF AwaitedInv, Awaits, Unpublished, UncorrelatedIsAwaited, IsActive, Critical
<1> QED
  BY <1>1, <1>2, <1>3, Inductive, PTL DEF Spec

-----------------------------------------------------------------------------
(***************************************************************************)
(* For any number of messages, consumers, HTTP callers and instants:       *)
(* MessageStatus keeps its types; for the messages that the HTTP routes    *)
(* are not used on, it implements MessageLifecycle and its optimistic lock *)
(* is free of the ABA problem; for the others, only a route that was       *)
(* overtaken breaks the transition table.  The argument is that every      *)
(* transition of the table that changes a status raises its Rank, so a row *)
(* that moved since a handler read it has a rank above the one it saw.     *)
(***************************************************************************)

Rank == [s \in Statuses |->
    CASE s \in {"queued", "received"} -> 0
      [] s \in {"sent", "processed"}  -> 1
      [] s = "delivered"              -> 2
      [] s = "read"                   -> 3
      [] OTHER                        -> 4]

\* Rank is a number, and every move of the table raises it.
LEMMA RankIncreases ==
    /\ \A s \in Statuses : Rank[s] \in Nat
    /\ \A s, t \in Statuses :
         IsValidStateTransition(s, t) /\ s # t => Rank[s] < Rank[t]
<1>1. \A s \in Statuses : Rank[s] \in Nat
  BY DEF Rank, Statuses
<1>2. ASSUME NEW s \in Statuses, NEW t \in Statuses,
             t \in MessageStateTransitions[s]
      PROVE  Rank[s] < Rank[t]
  <2>1. CASE s = "queued"
    BY <1>2, <2>1 DEF Rank, Statuses, MessageStateTransitions
  <2>2. CASE s = "sent"
    BY <1>2, <2>2 DEF Rank, Statuses, MessageStateTransitions
  <2>3. CASE s = "delivered"
    BY <1>2, <2>3 DEF Rank, Statuses, MessageStateTransitions
  <2>4. CASE s = "received"
    BY <1>2, <2>4 DEF Rank, Statuses, MessageStateTransitions
  <2>5. CASE s \in {"read", "processed", "failed"}
    BY <1>2, <2>5 DEF Statuses, MessageStateTransitions
  <2>. QED  BY <2>1, <2>2, <2>3, <2>4, <2>5 DEF Statuses
<1>. QED  BY <1>1, <1>2 DEF IsValidStateTransition

-----------------------------------------------------------------------------
\* What a handler's job looks like after some handler h wrote status s to m.
LEMMA MarkMovedType ==
    ASSUME StatusTypeOK, NEW h \in Handlers, NEW m \in Messages, NEW s \in Stored
    PROVE  MarkMoved(h, m, s) \in [Handlers -> Job \cup {NoJob}]
<1>1. ASSUME NEW g \in Handlers, job[g] # NoJob
      PROVE  [job[g] EXCEPT !.moved = TRUE] \in Job
  BY <1>1 DEF StatusTypeOK, Job
<1>. QED  BY <1>1 DEF MarkMoved, StatusTypeOK

\* The types of the four variables hold in every reachable state, with or
\* without the HTTP route and the trigger.
LEMMA StatusTypeStep == StatusTypeOK /\ [StatusNext]_statusVars => StatusTypeOK'
<1>. SUFFICES ASSUME StatusTypeOK, [StatusNext]_statusVars PROVE StatusTypeOK'
  OBVIOUS
<1>. USE MessageStatusAssumption, UntrackedAssumption, NoJobAssumption
<1>1. CASE Tick
  BY <1>1 DEF Tick, StatusTypeOK, givenVars
<1>2. ASSUME NEW m \in Messages, TrackMessage(m) \/ LegacyTrack(m)
      PROVE  StatusTypeOK'
  BY <1>2 DEF TrackMessage, LegacyTrack, Insert, StatusTypeOK, Stored, Statuses, givenVars
<1>3. ASSUME NEW h \in Handlers, FetchCurrent(h) \/ LegacyFetch(h)
      PROVE  StatusTypeOK'
  <2>1. PICK m \in Messages, new \in Stored, ts \in Times \cup {InvalidDate} :
          /\ status[m] \in Stored
          /\ job' = [job EXCEPT ![h] = [msg |-> m, new |-> new, ts |-> ts,
                                       seen |-> status[m], moved |-> FALSE]]
    <3>1. CASE FetchCurrent(h)
      BY <3>1 DEF FetchCurrent, StatusTypeOK, EventStatuses, Stored, Statuses
    <3>2. CASE LegacyFetch(h)
      BY <3>2 DEF LegacyFetch, StatusTypeOK
    <3>. QED  BY <1>3, <3>1, <3>2
  <2>2. [msg |-> m, new |-> new, ts |-> ts,
         seen |-> status[m], moved |-> FALSE] \in Job
    BY <2>1 DEF Job
  <2>. QED  BY <1>3, <2>1, <2>2 DEF FetchCurrent, LegacyFetch, StatusTypeOK, givenVars
<1>4. ASSUME NEW h \in Handlers, OptimisticUpdate(h) \/ LegacyUpdate(h)
      PROVE  StatusTypeOK'
  <2>1. job[h] \in Job
    BY <1>4 DEF OptimisticUpdate, LegacyUpdate, StatusTypeOK
  <2>2. job[h].msg \in Messages /\ job[h].new \in Stored
    BY <2>1 DEF Job
  <2>3. job' \in [Handlers -> Job \cup {NoJob}]
    BY <1>4, <2>2, MarkMovedType DEF OptimisticUpdate, LegacyUpdate
  <2>. QED  BY <1>4, <2>2, <2>3 DEF OptimisticUpdate, LegacyUpdate, StatusTypeOK, givenVars
<1>5. ASSUME NEW h \in Handlers, LoseRace(h) \/ Requeue(h) PROVE StatusTypeOK'
  BY <1>5 DEF LoseRace, Requeue, StatusTypeOK, givenVars
<1>6. CASE UNCHANGED statusVars
  BY <1>6 DEF statusVars, givenVars, StatusTypeOK
<1>. QED
  BY <1>1, <1>2, <1>3, <1>4, <1>5, <1>6
     DEF StatusNext, ConsumerStep, LegacyStep, Handlers

\* An empty table and idle handlers are well typed.
LEMMA StatusTypeInit == StatusInit => StatusTypeOK
  BY MessageStatusAssumption DEF StatusInit, StatusTypeOK

\* Type correctness, for every value of the constants.
THEOREM StatusTypeCorrect == StatusSpec => []StatusTypeOK
  BY StatusTypeInit, StatusTypeStep, PTL DEF StatusSpec

-----------------------------------------------------------------------------
\* A request to the HTTP route is about a message that the routes are used on.
RouteInv == \A h \in LegacyCallers : job[h] # NoJob => job[h].msg \in routed

\* It stays so.
LEMMA RouteStep == StatusTypeOK /\ RouteInv /\ [StatusNext]_statusVars => RouteInv'
<1>. SUFFICES ASSUME StatusTypeOK, RouteInv, [StatusNext]_statusVars,
                     NEW g \in LegacyCallers, job'[g] # NoJob
              PROVE  job'[g].msg \in routed'
  BY DEF RouteInv
<1>. USE MessageStatusAssumption, NoJobAssumption
<1>0. routed' = routed
  BY DEF StatusNext, Tick, TrackMessage, LegacyTrack, Insert, ConsumerStep, LegacyStep,
         FetchCurrent, LegacyFetch, OptimisticUpdate, LegacyUpdate, LoseRace,
         Requeue, statusVars, givenVars
<1>1. ASSUME NEW h \in Consumers, FetchCurrent(h) PROVE job'[g] = job[g]
  BY <1>1 DEF FetchCurrent, StatusTypeOK, Handlers
<1>2. ASSUME NEW h \in LegacyCallers, LegacyFetch(h)
      PROVE  job'[g] = job[g] \/ job'[g].msg \in routed
  <2>1. PICK m \in routed, new \in Stored :
          job' = [job EXCEPT ![h] = [msg |-> m, new |-> new, ts |-> clock,
                                     seen |-> status[m], moved |-> FALSE]]
    BY <1>2 DEF LegacyFetch
  <2>. QED  BY <2>1 DEF StatusTypeOK, Handlers
<1>3. ASSUME NEW h \in Handlers, OptimisticUpdate(h) \/ LegacyUpdate(h)
      PROVE  job[g] # NoJob /\ job'[g].msg = job[g].msg
  <2>1. job' = MarkMoved(h, job[h].msg, job[h].new)
    BY <1>3 DEF OptimisticUpdate, LegacyUpdate
  <2>2. g \in Handlers /\ job[g] # NoJob
    BY <2>1 DEF MarkMoved, Handlers
  <2>3. job[g] \in Job
    BY <2>2 DEF StatusTypeOK
  <2>4. job'[g] = job[g] \/ job'[g] = [job[g] EXCEPT !.moved = TRUE]
    BY <2>1, <2>2 DEF MarkMoved
  <2>. QED  BY <2>2, <2>3, <2>4 DEF Job
<1>4. ASSUME NEW h \in Handlers, LoseRace(h) \/ Requeue(h) PROVE job'[g] = job[g]
  BY <1>4 DEF LoseRace, Requeue, StatusTypeOK, Handlers
<1>5. CASE Tick \/ (\E m \in Messages : TrackMessage(m) \/ LegacyTrack(m))
           \/ UNCHANGED statusVars
  BY <1>0, <1>5 DEF Tick, TrackMessage, LegacyTrack, Insert, statusVars, RouteInv
<1>. QED
  BY <1>0, <1>1, <1>2, <1>3, <1>4, <1>5
     DEF StatusNext, ConsumerStep, LegacyStep, Handlers, RouteInv

\* Only the routes write a status that is not listed.
ListedInv == \A m \in Messages \ routed : status[m] # Unlisted

\* The strengthening that makes NoABA inductive: a handler's job is about a
\* tracked message, its update is legal from the status it saw, and that
\* status ranks below the row's own as soon as the row has moved.
SeenBelow(h) ==
    LET m == job[h].msg IN
    /\ status[m] \in Statuses
    /\ job[h].seen \in Statuses /\ job[h].new \in Statuses
    /\ IsValidStateTransition(job[h].seen, job[h].new)
    /\ Rank[job[h].seen] <= Rank[status[m]]
    /\ job[h].moved => Rank[job[h].seen] < Rank[status[m]]

OptimisticInv ==
    /\ ListedInv
    /\ \A h \in Handlers :
         job[h] # NoJob /\ job[h].msg \notin routed => SeenBelow(h)

\* An optimistic update that succeeds is legal from the row's own status.
LEMMA UpdateIsLegal ==
    ASSUME StatusTypeOK, OptimisticInv, NEW h \in Handlers, OptimisticUpdate(h),
           job[h].msg \notin routed
    PROVE  /\ job[h].msg \in Messages
           /\ job[h].new \in Statuses
           /\ status[job[h].msg] \in Statuses
           /\ IsValidStateTransition(status[job[h].msg], job[h].new)
  BY UntrackedAssumption
     DEF StatusTypeOK, OptimisticInv, SeenBelow, OptimisticUpdate, Job

\* The rows that the routes are not used on keep a listed status.
LEMMA ListedStep ==
    StatusTypeOK /\ RouteInv /\ OptimisticInv /\ [StatusNext]_statusVars => ListedInv'
<1>. SUFFICES ASSUME StatusTypeOK, RouteInv, OptimisticInv, [StatusNext]_statusVars,
                     NEW m \in Messages, m \notin routed'
              PROVE  status'[m] # Unlisted
  BY DEF ListedInv
<1>. USE MessageStatusAssumption, UntrackedAssumption, NoJobAssumption
<1>0. routed' = routed
  BY DEF StatusNext, Tick, TrackMessage, LegacyTrack, Insert, ConsumerStep, LegacyStep,
         FetchCurrent, LegacyFetch, OptimisticUpdate, LegacyUpdate, LoseRace,
         Requeue, statusVars, givenVars
<1>1. CASE status' = status
  BY <1>0, <1>1 DEF OptimisticInv, ListedInv
<1>2. ASSUME NEW n \in Messages, TrackMessage(n) \/ LegacyTrack(n)
      PROVE  status'[m] # Unlisted
  <2>1. n # m \/ \E s \in {"queued", "received"} : status' = [status EXCEPT ![n] = s]
    BY <1>0, <1>2 DEF TrackMessage, LegacyTrack, Insert
  <2>2. PICK s : status' = [status EXCEPT ![n] = s]
    BY <1>2 DEF TrackMessage, LegacyTrack, Insert
  <2>. QED
    BY <1>0, <2>1, <2>2 DEF StatusTypeOK, OptimisticInv, ListedInv, Statuses, Stored
<1>3. ASSUME NEW h \in Handlers, OptimisticUpdate(h) \/ LegacyUpdate(h),
             job[h].msg \notin routed => OptimisticUpdate(h)
      PROVE  status'[m] # Unlisted
  <2>1. status' = [status EXCEPT ![job[h].msg] = job[h].new]
    BY <1>3 DEF OptimisticUpdate, LegacyUpdate
  <2>2. CASE job[h].msg = m
    BY <1>0, <1>3, <2>1, <2>2, UpdateIsLegal DEF StatusTypeOK, Stored
  <2>3. CASE job[h].msg # m
    BY <1>0, <2>1, <2>3 DEF StatusTypeOK, OptimisticInv, ListedInv
  <2>. QED  BY <2>2, <2>3
<1>4. ASSUME NEW h \in Handlers,
             FetchCurrent(h) \/ LegacyFetch(h) \/ LoseRace(h) \/ Requeue(h)
      PROVE  status' = status
  BY <1>4 DEF FetchCurrent, LegacyFetch, LoseRace, Requeue
<1>5. ASSUME NEW h \in LegacyCallers, LegacyUpdate(h) PROVE job[h].msg \in routed
  BY <1>5 DEF LegacyUpdate, RouteInv
<1>6. CASE Tick \/ UNCHANGED statusVars
  BY <1>1, <1>6 DEF Tick, statusVars
<1>. QED
  BY <1>1, <1>2, <1>3, <1>4, <1>5, <1>6
     DEF StatusNext, ConsumerStep, LegacyStep, Handlers

\* Jobs on messages that the routes are not used on keep the strengthening.
LEMMA OptimisticStep ==
    StatusTypeOK /\ StatusTypeOK' /\ RouteInv /\ OptimisticInv /\ [StatusNext]_statusVars => OptimisticInv'
<1>. SUFFICES ASSUME StatusTypeOK, StatusTypeOK', RouteInv, OptimisticInv, [StatusNext]_statusVars,
                     NEW g \in Handlers, job'[g] # NoJob, job'[g].msg \notin routed'
              PROVE  SeenBelow(g)'
  BY ListedStep DEF OptimisticInv
<1>. USE MessageStatusAssumption, UntrackedAssumption, NoJobAssumption
<1>0. job'[g] \in Job
  BY DEF StatusTypeOK
<1>00. routed' = routed
  BY DEF StatusNext, Tick, TrackMessage, LegacyTrack, Insert, ConsumerStep, LegacyStep,
         FetchCurrent, LegacyFetch, OptimisticUpdate, LegacyUpdate, LoseRace,
         Requeue, statusVars, givenVars
<1>1. CASE Tick
  BY <1>00, <1>1 DEF Tick, OptimisticInv, SeenBelow, IsValidStateTransition
<1>2. ASSUME NEW m \in Messages, TrackMessage(m) \/ LegacyTrack(m)
      PROVE  SeenBelow(g)'
  <2>1. job'[g] = job[g] /\ job[g].msg # m
    BY <1>00, <1>2 DEF TrackMessage, LegacyTrack, Insert, OptimisticInv, SeenBelow, Stored
  <2>2. status'[job[g].msg] = status[job[g].msg]
    BY <1>0, <1>2, <2>1 DEF TrackMessage, LegacyTrack, Insert, StatusTypeOK, Job
  <2>. QED
    BY <1>00, <2>1, <2>2 DEF OptimisticInv, SeenBelow, IsValidStateTransition
<1>3. ASSUME NEW h \in Handlers, FetchCurrent(h) PROVE SeenBelow(g)'
  <2>1. CASE g = h
    <3>1. PICK m \in Messages, new \in EventStatuses,
               ts \in Times \cup {InvalidDate} :
            /\ status[m] # Untracked
            /\ IsValidStateTransition(status[m], new)
            /\ job' = [job EXCEPT ![h] =
                         [msg |-> m, new |-> new, ts |-> ts,
                          seen |-> status[m], moved |-> FALSE]]
      BY <1>3 DEF FetchCurrent
    <3>2. status' = status /\ status[m] \in Statuses /\ new \in Statuses
      <4>1. m \notin routed
        BY <1>00, <2>1, <3>1 DEF StatusTypeOK
      <4>. QED
        BY <1>3, <3>1, <4>1
           DEF FetchCurrent, StatusTypeOK, OptimisticInv, ListedInv, Stored,
               EventStatuses, Statuses
    <3>3. /\ job'[g].msg = m
          /\ job'[g].new = new
          /\ job'[g].seen = status[m]
          /\ job'[g].moved = FALSE
      BY <2>1, <3>1 DEF StatusTypeOK
    <3>4. Rank[status[m]] <= Rank[status[m]]
      BY <3>2, RankIncreases
    <3>. QED
      BY <3>1, <3>2, <3>3, <3>4 DEF SeenBelow, IsValidStateTransition
  <2>2. CASE g # h
    <3>1. job'[g] = job[g] /\ status' = status
      BY <1>3, <2>2 DEF FetchCurrent, StatusTypeOK
    <3>. QED  BY <1>00, <3>1 DEF OptimisticInv, SeenBelow, IsValidStateTransition
  <2>. QED  BY <2>1, <2>2
<1>4. ASSUME NEW h \in LegacyCallers, LegacyFetch(h) PROVE SeenBelow(g)'
  <2>1. PICK m \in routed, new \in Stored :
          job' = [job EXCEPT ![h] = [msg |-> m, new |-> new, ts |-> clock,
                                     seen |-> status[m], moved |-> FALSE]]
    BY <1>4 DEF LegacyFetch
  <2>2. g # h
    BY <1>00, <2>1 DEF StatusTypeOK, Handlers
  <2>3. job'[g] = job[g] /\ status' = status
    BY <1>4, <2>1, <2>2 DEF LegacyFetch, StatusTypeOK
  <2>. QED  BY <1>00, <2>3 DEF OptimisticInv, SeenBelow, IsValidStateTransition
<1>5. ASSUME NEW h \in Handlers, OptimisticUpdate(h), job[h].msg \notin routed
      PROVE  SeenBelow(g)'
  <2>. DEFINE m == job[h].msg
              new == job[h].new
  <2>1. /\ m \in Messages /\ new \in Statuses /\ status[m] \in Statuses
        /\ IsValidStateTransition(status[m], new)
    BY <1>5, UpdateIsLegal
  <2>2. status' = [status EXCEPT ![m] = new] /\ job' = MarkMoved(h, m, new)
    BY <1>5 DEF OptimisticUpdate
  <2>3. g # h /\ job[g] # NoJob
    BY <2>2 DEF MarkMoved
  <2>4. job[g] \in Job /\ job'[g].msg = job[g].msg
    BY <2>2, <2>3 DEF StatusTypeOK, MarkMoved, Job
  <2>5. SeenBelow(g)
    BY <1>00, <2>3, <2>4 DEF OptimisticInv
  <2>6. CASE job[g].msg = m /\ status[m] # new
    <3>1. job'[g] = [job[g] EXCEPT !.moved = TRUE]
      BY <2>2, <2>3, <2>6 DEF MarkMoved
    <3>2. /\ job'[g].msg = m
          /\ job'[g].new = job[g].new
          /\ job'[g].seen = job[g].seen
      BY <2>4, <2>6, <3>1 DEF Job
    <3>3. status'[m] = new
      BY <2>1, <2>2 DEF StatusTypeOK
    <3>4. Rank[status[m]] < Rank[new]
      BY <2>1, <2>6, RankIncreases
    <3>5. /\ Rank[job[g].seen] \in Nat /\ Rank[status[m]] \in Nat
          /\ Rank[new] \in Nat /\ Rank[job[g].seen] <= Rank[status[m]]
      BY <2>1, <2>5, <2>6, RankIncreases DEF SeenBelow
    <3>6. Rank[job'[g].seen] < Rank[status'[job'[g].msg]]
      BY <3>2, <3>3, <3>4, <3>5
    <3>7. /\ status'[job'[g].msg] \in Statuses
          /\ job'[g].seen \in Statuses /\ job'[g].new \in Statuses
      BY <2>1, <2>5, <3>2, <3>3 DEF SeenBelow
    <3>8. IsValidStateTransition(job'[g].seen, job'[g].new)
      BY <2>5, <3>2 DEF SeenBelow
    <3>9. Rank[job'[g].seen] <= Rank[status'[job'[g].msg]]
      BY <3>2, <3>3, <3>5, <3>6
    <3>. QED
      BY <3>6, <3>7, <3>8, <3>9 DEF SeenBelow, IsValidStateTransition
  <2>7. CASE ~(job[g].msg = m /\ status[m] # new)
    <3>1. job'[g] = job[g]
      BY <2>2, <2>3, <2>7 DEF MarkMoved
    <3>2. status'[job[g].msg] = status[job[g].msg]
      BY <2>1, <2>2, <2>4, <2>7 DEF StatusTypeOK, Job
    <3>. QED  BY <2>5, <3>1, <3>2 DEF SeenBelow, IsValidStateTransition
  <2>. QED  BY <2>6, <2>7
<1>6. ASSUME NEW h \in Handlers, OptimisticUpdate(h) \/ LegacyUpdate(h),
             job[h].msg \in routed
      PROVE  SeenBelow(g)'
  <2>. DEFINE m == job[h].msg
              new == job[h].new
  <2>1. status' = [status EXCEPT ![m] = new] /\ job' = MarkMoved(h, m, new)
    BY <1>6 DEF OptimisticUpdate, LegacyUpdate
  <2>2. g # h /\ job[g] # NoJob
    BY <2>1 DEF MarkMoved
  <2>3. job[g] \in Job /\ job'[g].msg = job[g].msg
    BY <2>1, <2>2 DEF StatusTypeOK, MarkMoved, Job
  <2>4. job[g].msg # m /\ job'[g] = job[g]
    BY <1>00, <1>6, <2>1, <2>2, <2>3 DEF MarkMoved
  <2>5. status'[job[g].msg] = status[job[g].msg]
    BY <2>1, <2>3, <2>4 DEF StatusTypeOK, Job
  <2>. QED
    BY <1>00, <2>4, <2>5 DEF OptimisticInv, SeenBelow, IsValidStateTransition
<1>7. ASSUME NEW h \in Handlers, LoseRace(h) \/ Requeue(h)
      PROVE  SeenBelow(g)'
  <2>1. job'[g] = job[g] /\ status' = status
    BY <1>7 DEF LoseRace, Requeue, StatusTypeOK
  <2>. QED  BY <1>00, <2>1 DEF OptimisticInv, SeenBelow, IsValidStateTransition
<1>8. CASE UNCHANGED statusVars
  BY <1>8 DEF statusVars, givenVars, OptimisticInv, SeenBelow, IsValidStateTransition
<1>9. ASSUME NEW h \in LegacyCallers, LegacyUpdate(h) PROVE job[h].msg \in routed
  BY <1>9 DEF LegacyUpdate, RouteInv
<1>. QED
  BY <1>1, <1>2, <1>3, <1>4, <1>5, <1>6, <1>7, <1>8, <1>9
     DEF StatusNext, ConsumerStep, LegacyStep, Handlers

\* A handler whose row moved saw a status that the row has left for good.
LEMMA OptimisticImpliesNoABA == StatusTypeOK /\ OptimisticInv => NoABA
<1>. SUFFICES ASSUME StatusTypeOK, OptimisticInv, NEW h \in Consumers,
                     job[h] # NoJob, job[h].moved, job[h].msg \notin routed,
                     status[job[h].msg] = job[h].seen
              PROVE  FALSE
  BY DEF NoABA
<1>1. job[h] \in Job /\ SeenBelow(h)
  BY DEF StatusTypeOK, OptimisticInv, Handlers
<1>2. Rank[job[h].seen] \in Nat /\ Rank[job[h].seen] < Rank[job[h].seen]
  BY <1>1, RankIncreases DEF SeenBelow
<1>. QED  BY <1>2

\* No handler works on anything when the service starts.
LEMMA StartsIdle == StatusInit => RouteInv /\ OptimisticInv
  BY UntrackedAssumption DEF StatusInit, RouteInv, OptimisticInv, ListedInv, Stored, Handlers

\* For every number of messages, consumers and routes' callers, the optimistic
\* UPDATE never succeeds on a row whose status changed after the handler's
\* SELECT, unless the HTTP routes are used on that row.
THEOREM OptimisticLockHasNoABA == StatusSpec => []NoABA
<1>1. StatusTypeOK /\ RouteInv /\ OptimisticInv /\ [StatusNext]_statusVars
        => RouteInv' /\ OptimisticInv'
  BY StatusTypeStep, RouteStep, OptimisticStep
<1>. QED
  BY <1>1, StartsIdle, StatusTypeCorrect, OptimisticImpliesNoABA, PTL DEF StatusSpec

-----------------------------------------------------------------------------
\* A handler's update is legal from the status it saw, which the row still has
\* unless it moved; this holds of the HTTP routes' handlers too.
JobOK(h) ==
    /\ status[job[h].msg] # Untracked
    /\ IsValidStateTransition(job[h].seen, job[h].new)
    /\ ~job[h].moved => status[job[h].msg] = job[h].seen

JobInv == \A h \in Handlers : job[h] # NoJob => JobOK(h)

\* A handler that has just read a row knows its status.
LEMMA FetchKnows ==
    ASSUME StatusTypeOK, NEW h \in Handlers, FetchCurrent(h) \/ LegacyFetch(h),
           job'[h] # NoJob
    PROVE  JobOK(h)'
<1>1. PICK m \in Messages, new \in Stored, ts \in Times \cup {InvalidDate} :
        /\ status[m] # Untracked
        /\ IsValidStateTransition(status[m], new)
        /\ job' = [job EXCEPT ![h] = [msg |-> m, new |-> new, ts |-> ts,
                                     seen |-> status[m], moved |-> FALSE]]
        /\ status' = status
  <2>1. CASE FetchCurrent(h)
    BY <2>1 DEF FetchCurrent, EventStatuses, Statuses, Stored
  <2>2. CASE LegacyFetch(h)
    BY <2>2 DEF LegacyFetch, StatusTypeOK
  <2>. QED  BY <2>1, <2>2
<1>2. /\ job'[h].msg = m /\ job'[h].new = new
      /\ job'[h].seen = status[m]
  BY <1>1 DEF StatusTypeOK
<1>. QED  BY <1>1, <1>2 DEF JobOK, IsValidStateTransition

\* Whoever writes a status marks the other handlers of that row.
LEMMA WriteMarks ==
    ASSUME StatusTypeOK, JobInv, NEW h \in Handlers,
           OptimisticUpdate(h) \/ LegacyUpdate(h),
           NEW g \in Handlers, job'[g] # NoJob
    PROVE  JobOK(g)'
<1>. USE NoJobAssumption, UntrackedAssumption
<1>. DEFINE m == job[h].msg
            new == job[h].new
<1>1. /\ status' = [status EXCEPT ![m] = new] /\ job' = MarkMoved(h, m, new)
      /\ job[h] \in Job
  BY DEF OptimisticUpdate, LegacyUpdate, StatusTypeOK
<1>2. m \in Messages /\ new \in Stored
  BY <1>1 DEF Job
<1>3. g # h /\ job[g] # NoJob
  BY <1>1 DEF MarkMoved
<1>4. job[g] \in Job /\ JobOK(g)
  BY <1>3 DEF StatusTypeOK, JobInv
<1>. HIDE DEF m, new
<1>5. CASE job[g].msg = m /\ status[m] # new
  <2>1. job'[g] = [job[g] EXCEPT !.moved = TRUE]
    BY <1>1, <1>3, <1>5 DEF MarkMoved
  <2>2. /\ job'[g].msg = m /\ job'[g].new = job[g].new
        /\ job'[g].seen = job[g].seen /\ job'[g].moved
    BY <1>4, <1>5, <2>1 DEF Job
  <2>3. status'[m] = new /\ new # Untracked
    BY <1>1, <1>2 DEF StatusTypeOK
  <2>. QED  BY <1>4, <2>2, <2>3 DEF JobOK, IsValidStateTransition
<1>6. CASE ~(job[g].msg = m /\ status[m] # new)
  <2>1. job'[g] = job[g]
    BY <1>1, <1>3, <1>6 DEF MarkMoved
  <2>2. status'[job[g].msg] = status[job[g].msg]
    BY <1>1, <1>2, <1>4, <1>6 DEF StatusTypeOK, Job
  <2>. QED  BY <1>4, <2>1, <2>2 DEF JobOK, IsValidStateTransition
<1>. QED  BY <1>5, <1>6

\* Every step keeps what is said of the handlers.
LEMMA JobStep == StatusTypeOK /\ JobInv /\ [StatusNext]_statusVars => JobInv'
<1>. SUFFICES ASSUME StatusTypeOK, JobInv, [StatusNext]_statusVars,
                     NEW g \in Handlers, job'[g] # NoJob
              PROVE  JobOK(g)'
  BY DEF JobInv
<1>. USE NoJobAssumption, UntrackedAssumption
<1>1. CASE job'[g] = job[g] /\ status'[job[g].msg] = status[job[g].msg]
  BY <1>1 DEF JobInv, JobOK, IsValidStateTransition
<1>2. CASE Tick \/ UNCHANGED statusVars
  BY <1>1, <1>2 DEF Tick, statusVars
<1>3. ASSUME NEW m \in Messages, TrackMessage(m) \/ LegacyTrack(m)
      PROVE  JobOK(g)'
  <2>1. job'[g] = job[g] /\ job[g].msg # m
    BY <1>3 DEF TrackMessage, LegacyTrack, Insert, JobInv, JobOK
  <2>2. job[g] \in Job
    BY <2>1 DEF StatusTypeOK
  <2>3. status'[job[g].msg] = status[job[g].msg]
    BY <1>3, <2>1, <2>2 DEF TrackMessage, LegacyTrack, Insert, StatusTypeOK, Job
  <2>. QED  BY <1>1, <2>1, <2>3
<1>4. ASSUME NEW h \in Handlers, FetchCurrent(h) \/ LegacyFetch(h)
      PROVE  JobOK(g)'
  <2>1. CASE g = h
    BY <1>4, <2>1, FetchKnows
  <2>2. CASE g # h
    BY <1>1, <1>4, <2>2 DEF FetchCurrent, LegacyFetch, StatusTypeOK
  <2>. QED  BY <2>1, <2>2
<1>5. ASSUME NEW h \in Handlers, OptimisticUpdate(h) \/ LegacyUpdate(h)
      PROVE  JobOK(g)'
  BY <1>5, WriteMarks
<1>6. ASSUME NEW h \in Handlers, LoseRace(h) \/ Requeue(h)
      PROVE  JobOK(g)'
  BY <1>1, <1>6 DEF LoseRace, Requeue, StatusTypeOK
<1>. QED
  BY <1>2, <1>3, <1>4, <1>5, <1>6 DEF StatusNext, ConsumerStep, LegacyStep, Handlers

\* A write to a row that has not moved is legal.
LEMMA WriteIsLegal ==
    ASSUME StatusTypeOK, JobInv, NEW h \in Handlers,
           OptimisticUpdate(h) \/ LegacyUpdate(h),
           NEW m \in Messages, ~IsValidStateTransition(status[m], status'[m])
    PROVE  /\ LegacyUpdate(h) /\ job[h] # NoJob /\ job[h].msg = m
           /\ job[h].moved /\ job'[h] = NoJob
<1>1. /\ job[h] # NoJob /\ job[h] \in Job
      /\ status' = [status EXCEPT ![job[h].msg] = job[h].new]
      /\ job' = MarkMoved(h, job[h].msg, job[h].new)
  BY NoJobAssumption DEF OptimisticUpdate, LegacyUpdate, StatusTypeOK
<1>2. job[h].msg = m
  BY <1>1 DEF StatusTypeOK, IsValidStateTransition
<1>3. status'[m] = job[h].new
  BY <1>1, <1>2 DEF StatusTypeOK
<1>4. IsValidStateTransition(job[h].seen, job[h].new)
  BY <1>1 DEF JobInv, JobOK
<1>5. status[m] # job[h].seen
  BY <1>3, <1>4
<1>6. job[h].moved
  BY <1>1, <1>2, <1>5 DEF JobInv, JobOK
<1>7. ~OptimisticUpdate(h)
  BY <1>2, <1>5 DEF OptimisticUpdate
<1>. QED  BY <1>1, <1>2, <1>6, <1>7 DEF MarkMoved

\* The table is violated only by the HTTP route's UPDATE, which does not look at
\* the status, and only when somebody moved the row after the route's check:
\* updateStatusLegacy, whatever the consumers and the other routes do.
THEOREM IllegalMovesAreTheRoutes == StatusSpec => IllegalOnlyByRacingRoute
<1>. DEFINE Illegal(m) == /\ status[m] # Untracked
                          /\ ~IsValidStateTransition(status[m], status'[m])
            Races(h, m) == /\ job[h] # NoJob /\ job[h].msg = m
                           /\ job[h].moved /\ job'[h] = NoJob
<1>1. StatusInit => JobInv
  BY DEF StatusInit, JobInv, Handlers
<1>2. ASSUME StatusTypeOK, JobInv, StatusNext, NEW m \in Messages, Illegal(m)
      PROVE  \E h \in LegacyCallers : Races(h, m)
  <2>1. status'[m] # status[m]
    BY <1>2 DEF IsValidStateTransition
  <2>2. ASSUME NEW n \in Messages, TrackMessage(n) \/ LegacyTrack(n)
        PROVE  FALSE
    <3>1. m # n
      BY <1>2, <2>2 DEF TrackMessage, LegacyTrack, Insert
    <3>2. PICK s : status' = [status EXCEPT ![n] = s]
      BY <2>2 DEF TrackMessage, LegacyTrack, Insert
    <3>. QED
      BY <2>1, <3>1, <3>2 DEF StatusTypeOK
  <2>3. ASSUME NEW h \in Handlers
        PROVE  /\ ~FetchCurrent(h) /\ ~LegacyFetch(h) /\ ~LoseRace(h)
               /\ ~Requeue(h)
    BY <2>1 DEF FetchCurrent, LegacyFetch, LoseRace, Requeue
  <2>4. ~Tick
    BY <2>1 DEF Tick
  <2>5. ASSUME NEW h \in Handlers, OptimisticUpdate(h) \/ LegacyUpdate(h)
        PROVE  LegacyUpdate(h) /\ Races(h, m)
    BY <1>2, <2>5, WriteIsLegal
  <2>6. \A h \in Consumers : ~OptimisticUpdate(h)
    <3>. SUFFICES ASSUME NEW h \in Consumers, OptimisticUpdate(h)
                  PROVE  FALSE
      OBVIOUS
    <3>1. h \in Handlers
      BY DEF Handlers
    <3>2. job[h].moved /\ job[h].msg = m /\ LegacyUpdate(h)
      BY <2>5, <3>1
    <3>3. status[job[h].msg] = job[h].seen
      BY DEF OptimisticUpdate
    <3>4. status'[m] = job[h].new /\ IsValidStateTransition(job[h].seen, job[h].new)
      BY <1>2, <3>1, <3>2, NoJobAssumption
      DEF OptimisticUpdate, StatusTypeOK, JobInv, JobOK
    <3>. QED  BY <1>2, <3>2, <3>3, <3>4
  <2>. HIDE DEF Races
  <2>. QED
    BY <1>2, <2>2, <2>3, <2>4, <2>5, <2>6
       DEF StatusNext, ConsumerStep, LegacyStep, Handlers
<1>3. StatusTypeOK /\ JobInv /\ [StatusNext]_statusVars
        => [\A m \in Messages :
              (status[m] # Untracked
                 /\ ~IsValidStateTransition(status[m], status'[m]))
              => \E h \in LegacyCallers :
                    /\ job[h] # NoJob
                    /\ job[h].msg = m
                    /\ job[h].moved
                    /\ job'[h] = NoJob]_statusVars
  BY <1>2
<1>4. StatusTypeOK /\ JobInv /\ [StatusNext]_statusVars => JobInv'
  BY JobStep
<1>. QED
  BY <1>1, <1>3, <1>4, StatusTypeCorrect, PTL DEF StatusSpec, IllegalOnlyByRacingRoute

-----------------------------------------------------------------------------
\* What MessageLifecycle sees of the rows.
Shown == [m \in Messages |-> IF m \in routed THEN Untracked ELSE status[m]]

\* A legal change of status is a step of the promised lifecycle.
LEMMA LegalMoveAdvances ==
    ASSUME NEW m \in Messages, NEW new \in Statuses, status[m] \in Statuses,
           IsValidStateTransition(status[m], new), status[m] # new,
           m \notin routed, Shown' = [Shown EXCEPT ![m] = new]
    PROVE  Lifecycle!Advance(m)
<1>1. /\ status[m] \in DOMAIN Lifecycle!Successor
      /\ new \in {Lifecycle!Successor[status[m]], "failed"}
  BY DEF IsValidStateTransition, MessageStateTransitions, Statuses,
         Lifecycle!Successor
<1>2. Shown[m] = status[m]
  BY DEF Shown
<1>. QED  BY <1>1, <1>2 DEF Lifecycle!Advance, Shown

\* A status written to one row changes what is shown in that row, or nothing.
LEMMA ShownAfterWrite ==
    ASSUME StatusTypeOK, NEW m \in Messages, NEW s \in Stored, routed' = routed,
           status' = [status EXCEPT ![m] = s]
    PROVE  Shown' = IF m \in routed THEN Shown ELSE [Shown EXCEPT ![m] = s]
  BY DEF Shown, StatusTypeOK

\* Every step is one of the lifecycle or leaves what it sees alone.
LEMMA StepImplementsLifecycle ==
    StatusTypeOK /\ RouteInv /\ OptimisticInv /\ [StatusNext]_statusVars => [Lifecycle!Next]_Shown
<1>. SUFFICES ASSUME StatusTypeOK, RouteInv, OptimisticInv, [StatusNext]_statusVars
              PROVE  Lifecycle!Next \/ Shown' = Shown
  OBVIOUS
<1>0. routed' = routed
  BY DEF StatusNext, Tick, TrackMessage, LegacyTrack, Insert, ConsumerStep, LegacyStep,
         FetchCurrent, LegacyFetch, OptimisticUpdate, LegacyUpdate, LoseRace,
         Requeue, statusVars, givenVars
<1>1. ASSUME NEW m \in Messages, TrackMessage(m)
      PROVE  Lifecycle!Next \/ Shown' = Shown
  <2>1. PICK s \in {"queued", "received"} : status' = [status EXCEPT ![m] = s]
    BY <1>1 DEF TrackMessage, Insert
  <2>2. Shown' = IF m \in routed THEN Shown ELSE [Shown EXCEPT ![m] = s]
    BY <1>0, <2>1, ShownAfterWrite DEF Statuses, Stored
  <2>3. CASE m \notin routed
    <3>1. Shown[m] = Untracked
      BY <1>1, <2>3 DEF TrackMessage, Insert, Shown
    <3>. QED
      BY <2>1, <2>2, <2>3, <3>1 DEF Lifecycle!Next, Lifecycle!Track, Shown
  <2>. QED  BY <2>2, <2>3
<1>2. ASSUME NEW m \in Messages, LegacyTrack(m) PROVE Shown' = Shown
  <2>1. PICK s \in Stored : status' = [status EXCEPT ![m] = s] /\ m \in routed
    BY <1>2 DEF LegacyTrack, Insert
  <2>. QED  BY <1>0, <2>1, ShownAfterWrite
<1>3. ASSUME NEW h \in Handlers, OptimisticUpdate(h), job[h].msg \notin routed
      PROVE  Lifecycle!Next \/ Shown' = Shown
  <2>1. /\ job[h].msg \in Messages
        /\ job[h].new \in Statuses
        /\ status[job[h].msg] \in Statuses
        /\ IsValidStateTransition(status[job[h].msg], job[h].new)
    BY <1>3, UpdateIsLegal
  <2>2. Shown' = [Shown EXCEPT ![job[h].msg] = job[h].new]
    BY <1>0, <1>3, <2>1, ShownAfterWrite DEF OptimisticUpdate, Stored
  <2>3. CASE status[job[h].msg] = job[h].new
    BY <1>3, <2>1, <2>2, <2>3 DEF Shown
  <2>4. CASE status[job[h].msg] # job[h].new
    BY <1>3, <2>1, <2>2, <2>4, LegalMoveAdvances DEF Lifecycle!Next
  <2>. QED  BY <2>3, <2>4
<1>4. ASSUME NEW h \in Handlers, OptimisticUpdate(h) \/ LegacyUpdate(h),
             job[h].msg \in routed
      PROVE  Shown' = Shown
  <2>1. job[h].msg \in Messages /\ job[h].new \in Stored
    BY <1>4, NoJobAssumption DEF OptimisticUpdate, LegacyUpdate, StatusTypeOK, Job
  <2>2. status' = [status EXCEPT ![job[h].msg] = job[h].new]
    BY <1>4 DEF OptimisticUpdate, LegacyUpdate
  <2>. QED  BY <1>0, <1>4, <2>1, <2>2, ShownAfterWrite
<1>5. ASSUME NEW h \in Handlers,
             FetchCurrent(h) \/ LegacyFetch(h) \/ LoseRace(h) \/ Requeue(h)
      PROVE  Shown' = Shown
  BY <1>0, <1>5 DEF FetchCurrent, LegacyFetch, LoseRace, Requeue, Shown
<1>6. ASSUME NEW h \in LegacyCallers, LegacyUpdate(h) PROVE job[h].msg \in routed
  BY <1>6 DEF LegacyUpdate, RouteInv
<1>7. CASE Tick \/ UNCHANGED statusVars
  BY <1>0, <1>7 DEF Tick, statusVars, Shown
<1>. QED
  BY <1>1, <1>2, <1>3, <1>4, <1>5, <1>6, <1>7
     DEF StatusNext, ConsumerStep, LegacyStep, Handlers

\* For the messages that the HTTP routes are not used on, status tracking
\* implements the lifecycle, for every number of messages, handlers and instants.
THEOREM ImplementsTheLifecycle == StatusSpec => ImplementsLifecycle
<1>1. StatusInit => Lifecycle!Init
  BY DEF StatusInit, Lifecycle!Init
<1>2. StatusTypeOK /\ RouteInv /\ OptimisticInv /\ [StatusNext]_statusVars
        => RouteInv' /\ OptimisticInv'
  BY StatusTypeStep, RouteStep, OptimisticStep
<1>3. StatusTypeOK /\ RouteInv /\ OptimisticInv /\ [StatusNext]_statusVars => [Lifecycle!Next]_Shown
  BY StepImplementsLifecycle
<1>. QED
  BY <1>1, <1>2, <1>3, StartsIdle, StatusTypeCorrect, PTL
     DEF StatusSpec, ImplementsLifecycle, Lifecycle!Spec, Shown

=============================================================================
