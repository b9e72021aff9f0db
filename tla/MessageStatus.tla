--------------------------- MODULE MessageStatus ---------------------------
(***************************************************************************)
(* Status tracking in the state manager (messageService.ts): the rows of   *)
(* message_tracking, the consumers of the WhatsApp and Genesys status      *)
(* queues that update them with optimistic locking, and the HTTP routes    *)
(* POST /state/message and PATCH /state/message/:wamid/status, the latter  *)
(* without a lock.                                                         *)
(*                                                                         *)
(* A handler awaits the database twice, once to SELECT the row and once to *)
(* UPDATE it; other handlers run between the two.  The channel's prefetch  *)
(* is 100, so a replica runs many status handlers at a time.               *)
(*                                                                         *)
(* A status event the broker delivers again after a crash or a requeue is  *)
(* one more event in this model: events are chosen freely, any number of   *)
(* times, in any order.                                                    *)
(***************************************************************************)
EXTENDS Naturals

CONSTANTS
    Messages,        \* the rows of message_tracking, one per message
    Consumers,       \* handler invocations of the two status queues
    LegacyCallers,   \* requests to the HTTP status route
    Times,           \* instants, of the database clock and of the events
    InvalidDate,     \* new Date(s) for an s that is no date
    Untracked,       \* the status of a message that has no row
    Unlisted,        \* a status string that the code does not know
    NoJob            \* what an idle handler is working on

ASSUME MessageStatusAssumption ==
    /\ Times \subseteq Nat
    /\ Times # {}
    /\ InvalidDate \notin Times
    /\ Consumers \cap LegacyCallers = {}

Statuses ==
    {"queued", "sent", "delivered", "read", "received", "processed", "failed"}

\* What the column may hold: message_tracking.status is a VARCHAR without a
\* CHECK, and the HTTP routes write any string.
Stored == Statuses \cup {Unlisted}

ASSUME UntrackedAssumption == Unlisted \notin Statuses /\ Untracked \notin Stored

Handlers == Consumers \cup LegacyCallers

\* The statuses Meta and Genesys report.
EventStatuses == {"sent", "delivered", "read", "failed"}

\* Mutant: failed messages may be sent again.
MessageStateTransitionsWithRetry == [s \in Statuses |->
    IF s = "failed" THEN {"sent"} ELSE
    CASE s = "queued"    -> {"sent", "failed"}
      [] s = "sent"      -> {"delivered", "failed"}
      [] s = "delivered" -> {"read", "failed"}
      [] s = "received"  -> {"processed", "failed"}
      [] OTHER           -> {}]

MessageStateTransitions == [s \in Statuses |->
    CASE s = "queued"    -> {"sent", "failed"}
      [] s = "sent"      -> {"delivered", "failed"}
      [] s = "delivered" -> {"read", "failed"}
      [] s = "received"  -> {"processed", "failed"}
      [] OTHER           -> {}]

\* From a status that is not listed the code throws, unless the new one is the
\* same: the event goes back to its queue, the route answers 500, and nothing is
\* written, as after a refusal.
IsValidStateTransition(current, new) ==
    \/ current = new
    \/ current \in Statuses /\ new \in MessageStateTransitions[current]

\* What a handler holds between its SELECT and its UPDATE.  "moved" is a
\* history bit: the row's status has changed since the SELECT.
Job == [msg : Messages, new : Stored, ts : Times \cup {InvalidDate},
        seen : Stored, moved : BOOLEAN]

ASSUME NoJobAssumption == NoJob \notin Job

VARIABLES
    routed,     \* the messages that the HTTP routes are used on
    trigger,    \* TRUE: the BEFORE UPDATE trigger of database/migrations
                \* overwrites updated_at; FALSE: the tables of dbInit.ts
    status,     \* message_tracking.status, Untracked where there is no row
    updatedAt,  \* message_tracking.updated_at
    clock,      \* CURRENT_TIMESTAMP
    job         \* per handler, its Job, or NoJob when it is not between steps

givenVars == <<routed, trigger>>
statusVars == <<givenVars, status, updatedAt, clock, job>>

StatusTypeOK ==
    /\ routed \subseteq Messages
    /\ trigger \in BOOLEAN
    /\ status \in [Messages -> Stored \cup {Untracked}]
    /\ updatedAt \in [Messages -> Times]
    /\ clock \in Times
    /\ job \in [Handlers -> Job \cup {NoJob}]

StatusInit ==
    /\ routed \in SUBSET Messages
    /\ trigger \in BOOLEAN
    /\ clock \in {t \in Times : \A u \in Times : t <= u}
    /\ status = [m \in Messages |-> Untracked]
    /\ updatedAt = [m \in Messages |-> clock]
    /\ job = [h \in Handlers |-> NoJob]

-----------------------------------------------------------------------------
\* The history bit of every other job on message m, after m's status became s.
MarkMoved(h, m, s) ==
    [g \in Handlers |->
        IF g = h THEN NoJob
        ELSE IF job[g] # NoJob /\ job[g].msg = m /\ status[m] # s
             THEN [job[g] EXCEPT !.moved = TRUE]
             ELSE job[g]]

Tick ==
    /\ \E t \in Times : t > clock /\ clock' = t
    /\ UNCHANGED <<givenVars, status, updatedAt, job>>

\* INSERT ... ON CONFLICT (wamid) DO NOTHING.  A message that has a row is left
\* alone, so there is no step for it.
Insert(m, initial) ==
    /\ status[m] = Untracked
    /\ \E s \in initial : status' = [status EXCEPT ![m] = s]
    /\ updatedAt' = [updatedAt EXCEPT ![m] = clock]
    /\ UNCHANGED <<givenVars, clock, job>>

\* The outbound operation and the inbound one.
TrackMessage(m) == Insert(m, {"queued", "received"})

IsStale(m, ts) == ts \in Times /\ ts <= updatedAt[m]

\* Mutant: the status read is not checked against the transition table.
FetchWithoutValidation(h) ==
    /\ job[h] = NoJob
    /\ \E m \in Messages, new \in EventStatuses, ts \in Times :
         /\ status[m] # Untracked
         /\ ~IsStale(m, ts)
         /\ job' = [job EXCEPT ![h] = [msg |-> m, new |-> new, ts |-> ts,
                                       seen |-> status[m], moved |-> FALSE]]
    /\ UNCHANGED <<givenVars, status, updatedAt, clock>>

\* updateStatus up to its second await.  An unknown message, an illegal
\* transition or a stale timestamp returns (and the event is acked) with
\* nothing changed; comparing an invalid date is never "stale".
FetchCurrent(h) ==
    /\ job[h] = NoJob
    /\ \E m \in Messages, new \in EventStatuses,
          ts \in Times \cup {InvalidDate} :
         /\ status[m] # Untracked
         /\ IsValidStateTransition(status[m], new)
         /\ ~IsStale(m, ts)
         /\ job' = [job EXCEPT ![h] = [msg |-> m, new |-> new, ts |-> ts,
                                       seen |-> status[m], moved |-> FALSE]]
    /\ UNCHANGED <<givenVars, status, updatedAt, clock>>

\* Mutant: UPDATE ... WHERE id = $3, the optimistic condition dropped.
UpdateWithoutCondition(h) ==
    /\ job[h] # NoJob
    /\ job[h].ts \in Times
    /\ status' = [status EXCEPT ![job[h].msg] = job[h].new]
    /\ updatedAt' = [updatedAt EXCEPT ![job[h].msg] = job[h].ts]
    /\ job' = MarkMoved(h, job[h].msg, job[h].new)
    /\ UNCHANGED <<givenVars, clock>>

\* UPDATE ... WHERE id = $3 AND status = $4.
OptimisticUpdate(h) ==
    /\ job[h] # NoJob
    /\ job[h].ts \in Times
    /\ status[job[h].msg] = job[h].seen
    /\ status' = [status EXCEPT ![job[h].msg] = job[h].new]
    /\ updatedAt' = [updatedAt EXCEPT ![job[h].msg] =
                        IF trigger THEN clock ELSE job[h].ts]
    /\ job' = MarkMoved(h, job[h].msg, job[h].new)
    /\ UNCHANGED <<givenVars, clock>>

\* The UPDATE matched no row: "Status already updated (race condition)".
LoseRace(h) ==
    /\ job[h] # NoJob
    /\ job[h].ts \in Times
    /\ status[job[h].msg] # job[h].seen
    /\ job' = [job EXCEPT ![h] = NoJob]
    /\ UNCHANGED <<givenVars, status, updatedAt, clock>>

\* The process dies or the database refuses the statement (an invalid date is
\* always refused): nothing is written and the event goes back to its queue.
Requeue(h) ==
    /\ job[h] # NoJob
    /\ job' = [job EXCEPT ![h] = NoJob]
    /\ UNCHANGED <<givenVars, status, updatedAt, clock>>

-----------------------------------------------------------------------------
\* trackMessageLegacy: the body says which status the row starts with, and no one
\* looks whether it is one.
LegacyTrack(m) == m \in routed /\ Insert(m, Stored)

\* updateStatusLegacy: the check of the HTTP route.  The body's status is any
\* string; there is no event timestamp.
LegacyFetch(h) ==
    /\ job[h] = NoJob
    /\ \E m \in routed, new \in Stored :
         /\ status[m] # Untracked
         /\ IsValidStateTransition(status[m], new)
         /\ job' = [job EXCEPT ![h] = [msg |-> m, new |-> new, ts |-> clock,
                                       seen |-> status[m], moved |-> FALSE]]
    /\ UNCHANGED <<givenVars, status, updatedAt, clock>>

\* UPDATE ... WHERE wamid = $2: the status is not part of the condition.
LegacyUpdate(h) ==
    /\ job[h] # NoJob
    /\ status' = [status EXCEPT ![job[h].msg] = job[h].new]
    /\ updatedAt' = [updatedAt EXCEPT ![job[h].msg] = clock]
    /\ job' = MarkMoved(h, job[h].msg, job[h].new)
    /\ UNCHANGED <<givenVars, clock>>

ConsumerStep(h) ==
    FetchCurrent(h) \/ OptimisticUpdate(h) \/ LoseRace(h) \/ Requeue(h)

LegacyStep(h) ==
    \/ LegacyFetch(h) \/ LegacyUpdate(h)
    \/ \E m \in Messages : LegacyTrack(m)

StatusNext ==
    \/ Tick
    \/ \E m \in Messages : TrackMessage(m)
    \/ \E h \in Consumers : ConsumerStep(h)
    \/ \E h \in LegacyCallers : LegacyStep(h)

StatusSpec == StatusInit /\ [][StatusNext]_statusVars

-----------------------------------------------------------------------------
\* The promise this module implements for the messages that only the queues
\* update; those the routes are used on are not shown to MessageLifecycle.
Lifecycle == INSTANCE MessageLifecycle
    WITH Messages <- Messages, Untracked <- Untracked,
         status <- [m \in Messages |-> IF m \in routed THEN Untracked
                                                       ELSE status[m]]

\* The queue consumers move every message along the promised lifecycle,
\* whatever the interleaving, redelivery and order of the events, and whatever
\* the routes do to other messages.
ImplementsLifecycle == Lifecycle!Spec

\* Comparing the status is as good as comparing a version number: once the
\* status a handler read has changed, the row never shows that status again,
\* so the optimistic UPDATE cannot succeed on a row that moved in between.
NoABA ==
    \A h \in Consumers :
        job[h] # NoJob /\ job[h].moved /\ job[h].msg \notin routed
          => status[job[h].msg] # job[h].seen

\* Only the HTTP route can move a message against the transition table, and
\* only when another handler moved the row between its check and its UPDATE.
IllegalOnlyByRacingRoute ==
    [][\A m \in Messages :
          (status[m] # Untracked
             /\ ~IsValidStateTransition(status[m], status'[m]))
          => \E h \in LegacyCallers :
                /\ job[h] # NoJob
                /\ job[h].msg = m
                /\ job[h].moved
                /\ job'[h] = NoJob]_statusVars
=============================================================================
