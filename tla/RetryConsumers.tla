---------------------------- MODULE RetryConsumers ----------------------------
(***************************************************************************)
(* One process of a service that takes messages from a queue, passes them  *)
(* on, and retries: the inbound transformer, the outbound transformer or   *)
(* the WhatsApp API service.  They differ in how they retry, in what they  *)
(* do with a message they give up, and in which channel they settle on.    *)
(*                                                                         *)
(* Modelled: delivery and redelivery by the broker, the three callbacks    *)
(* with their error branches, retry timers, losing and renewing the        *)
(* connection under running callbacks, and crashes.  The HTTP pipeline     *)
(* mode of the outbound transformer, off by default, is left out.          *)
(*                                                                         *)
(* A delivery tag is a number on one channel, and a callback that outlives *)
(* its channel may use the number on the next one.  Numbers are only       *)
(* compared, so a delivery gets any tag that no other one of its channel   *)
(* has.  amqplib and RabbitMQ are external: settling on a closed channel   *)
(* throws, and settling a tag that is not outstanding makes the broker     *)
(* close the channel with an error nobody listens to.                      *)
(***************************************************************************)
EXTENDS Naturals, FiniteSets

CONSTANTS
    Messages,    \* messages in the service's input queue
    Services,    \* the services the process may be one of
    Mixes,       \* the assignments of kinds to messages considered
    Tags,        \* delivery tags (bound)
    MaxRetries,  \* maxRetries of the service's configuration (bound)
    MaxFaults    \* lost connections, crashes, failing calls (bound)

ASSUME RetryConsumersAssumption ==
    /\ Services \subseteq {"inbound", "outbound", "whatsapp"}
    /\ Mixes \subseteq [Messages -> {"fine", "pair", "notJson", "invalid",
                                     "rejected", "poison"}]
    /\ Tags # {}
    /\ MaxRetries \in Nat \ {0}
    /\ MaxFaults \in Nat

\* A callback's delivery: on its way to the process, in the callback's await,
\* or waiting for the outbound transformer's backoff timer.
Stages == {"sent", "working", "backoff"}

Jobs == [msg : Messages, tag : Tags, at : Stages, stale : BOOLEAN]

VARIABLES
    service,     \* which service this process is
    slow,        \* whether callbacks and timers may outlive the reconnect delay
    kind,        \* the kind of each message: see Passes
    status,      \* "ready", "unacked", "waiting" for a retry timer, or "gone"
    retries,     \* the header x-retry-count of the copy in the broker
    tag,         \* the tag under which an unacked message was delivered
    jobs,        \* callbacks; stale if their channel is closed
    connected,   \* whether there is a channel
    publisher,   \* the inbound transformer's other channel
    forwarded,   \* how many parts of each message were passed on at least once
    dead,        \* messages in the dead-letter queue
    dropped,     \* messages the inbound transformer gave up
    orphaned,    \* messages whose retry timer came to nothing
    misacked,    \* messages acked in place of another one
    faults       \* faults so far

brokerVars == <<status, retries, tag>>
processVars == <<jobs, connected, publisher>>
outVars == <<forwarded, dead>>
lossVars == <<dropped, orphaned, misacked>>
givenVars == <<service, slow, kind>>
vars == <<givenVars, brokerVars, processVars, outVars, lossVars, faults>>

TypeOK ==
    /\ service \in Services
    /\ slow \in BOOLEAN
    /\ kind \in Mixes
    /\ status \in [Messages -> {"ready", "unacked", "waiting", "gone"}]
    /\ retries \in [Messages -> 0..MaxRetries]
    /\ tag \in [Messages -> Tags]
    /\ jobs \subseteq Jobs
    /\ connected \in BOOLEAN
    /\ publisher \in {"none", "open", "dead"}
    /\ forwarded \in [Messages -> 0..2]
    /\ dead \subseteq Messages
    /\ dropped \subseteq Messages
    /\ orphaned \subseteq Messages
    /\ misacked \subseteq Messages
    /\ faults \in Nat

Init ==
    /\ service \in Services
    /\ slow \in BOOLEAN
    /\ kind \in Mixes
    /\ service = "outbound" => \A m \in Messages : kind[m] # "poison"
    /\ status = [m \in Messages |-> "ready"]
    /\ retries = [m \in Messages |-> 0]
    /\ tag = [m \in Messages |-> CHOOSE t \in Tags : TRUE]
    /\ jobs = {}
    /\ connected = FALSE
    /\ publisher = "none"
    /\ forwarded = [m \in Messages |-> 0]
    /\ dead = {}
    /\ dropped = {}
    /\ orphaned = {}
    /\ misacked = {}
    /\ faults = 0

-----------------------------------------------------------------------------
(* Messages and the broker *)

\* What the service can pass on: not what is no JSON, what fails validation or
\* is refused for good ("rejected": an unsupported type, a 4xx), and not what
\* fails each time with an error that looks transient ("poison": a tenant
\* without credentials, a customer Meta limits).  No error of the outbound
\* transformer is of the last sort.
Passes(m) == kind[m] \in {"fine", "pair"}

\* An audio message with a text leaves the outbound transformer as two.
Parts(m) == IF service = "outbound" /\ kind[m] = "pair" THEN 2 ELSE 1

Prefetch == IF service = "inbound" THEN 1 ELSE 10

Unacked == {m \in Messages : status[m] = "unacked"}

Fault ==
    /\ faults < MaxFaults
    /\ faults' = faults + 1

Deliver(m) ==
    /\ connected
    /\ status[m] = "ready"
    /\ Cardinality(Unacked) < Prefetch
    /\ \E t \in Tags :
           /\ \A j \in jobs : ~j.stale => j.tag # t
           /\ \A n \in Unacked : tag[n] # t
           /\ tag' = [tag EXCEPT ![m] = t]
           /\ jobs' = jobs \cup {[msg |-> m, tag |-> t, at |-> "sent", stale |-> FALSE]}
    /\ status' = [status EXCEPT ![m] = "unacked"]
    /\ UNCHANGED <<givenVars, retries, connected, publisher, outVars,
                   lossVars, faults>>

\* The messages that the tag of j stands for on the present channel.
Named(j) == {m \in Unacked : tag[m] = j.tag}

Requeued ==
    [m \in Messages |-> IF status[m] = "unacked" THEN "ready" ELSE status[m]]

\* The process dies.  The broker requeues what was not settled; messages that
\* only a retry timer had are gone.
Dies ==
    /\ status' = [m \in Messages |->
                     IF status[m] = "waiting" THEN "gone" ELSE Requeued[m]]
    /\ orphaned' = orphaned \cup {m \in Messages : status[m] = "waiting"}
    /\ jobs' = {}
    /\ connected' = FALSE
    /\ publisher' = "none"

\* The connection is closed: callbacks that are not running yet never will,
\* those that run go on.
Disconnects(js) ==
    /\ status' = Requeued
    /\ jobs' = {[j EXCEPT !.stale = TRUE] : j \in {i \in js : i.at # "sent"}}
    /\ connected' = FALSE
    /\ UNCHANGED <<orphaned, publisher>>

\* Callback j ends and settles its delivery by s: "gone" (ack, or nack without
\* requeue), "waiting" (ack with a retry timer) or "ready" (nack).
\*  - The inbound transformer kept its channel; a closed one throws in its
\*    catch block, which ends the process.
\*  - The outbound transformer takes the present channel; without one it goes on.
\*  - The WhatsApp API service does too; without one it throws in its catch block.
\* On the present channel the tag may be that of another message, or of none.
Settles(j, s) ==
    LET onOwn == service = "inbound" /\ j.stale
        target == IF j.stale THEN Named(j) ELSE Named(j) \cap {j.msg}
    IN
    \/ /\ connected /\ ~onOwn
       /\ \E m \in target :
              /\ status' = [status EXCEPT ![m] = s]
              /\ misacked' = IF m # j.msg /\ s # "ready"
                               THEN misacked \cup {m} ELSE misacked
       /\ jobs' = jobs \ {j}
       /\ UNCHANGED <<orphaned, connected, publisher>>
    \/ /\ connected /\ ~onOwn /\ target = {}
       /\ Disconnects(jobs \ {j}) \/ Dies
       /\ UNCHANGED misacked
    \/ /\ ~connected /\ service = "outbound"
       /\ jobs' = jobs \ {j}
       /\ UNCHANGED <<status, orphaned, connected, publisher, misacked>>
    \/ /\ onOwn \/ (service = "whatsapp" /\ ~connected)
       /\ Dies
       /\ UNCHANGED misacked

Acks(j) == Settles(j, "gone")

\* The first n parts of m are passed on.
Forwards(m, n) ==
    forwarded' = [forwarded EXCEPT ![m] = IF n > @ THEN n ELSE @]

\* routeToDlq, which skips a message when there is no channel.
DeadLetters(m) == dead' = IF connected THEN dead \cup {m} ELSE dead

-----------------------------------------------------------------------------
(* The inbound transformer *)

InboundJob(j, at) == j \in jobs /\ service = "inbound" /\ j.at = at

\* The catch block: what was retried MaxRetries times is nacked without
\* requeue, and the queue has no dead-letter exchange; the rest is acked and
\* left to a timer.
RetriesOrDrops(j) ==
    /\ IF retries[j.msg] >= MaxRetries
         THEN /\ Settles(j, "gone")
              /\ dropped' = IF status'[j.msg] = "gone" THEN dropped \cup {j.msg}
                                                       ELSE dropped
         ELSE Settles(j, "waiting") /\ UNCHANGED dropped
    /\ UNCHANGED <<retries, tag, outVars>>

\* The message is transformed and published on the publisher's channel, if
\* that is open; one that was closed stays so, and every publish on it throws.
Transform(j) ==
    /\ \/ /\ publisher = "open" /\ Passes(j.msg)
          /\ Forwards(j.msg, 1)
          /\ Acks(j)
          /\ UNCHANGED <<retries, tag, dead, dropped>>
       \/ /\ publisher = "dead" \/ ~Passes(j.msg)
          /\ RetriesOrDrops(j)

\* The callback, up to its await if the publisher has to connect first.
HandleInbound(j) ==
    /\ InboundJob(j, "sent")
    /\ IF publisher = "none" /\ Passes(j.msg)
         THEN /\ jobs' = (jobs \ {j}) \cup {[j EXCEPT !.at = "working"]}
              /\ UNCHANGED <<brokerVars, connected, publisher, outVars, lossVars>>
         ELSE Transform(j)
    /\ UNCHANGED <<givenVars, faults>>

\* initializePublisher succeeds.
OpenPublisher(j) ==
    /\ InboundJob(j, "working")
    /\ Forwards(j.msg, 1)
    /\ IF j.stale
         THEN Acks(j)
         ELSE /\ status' = [status EXCEPT ![j.msg] = "gone"]
              /\ jobs' = jobs \ {j}
              /\ publisher' = "open"
              /\ UNCHANGED <<connected, orphaned, misacked>>
    /\ UNCHANGED <<givenVars, retries, tag, dead, dropped, faults>>

\* Mutant: nobody looks whether there is a channel now.
PublisherFailsUnnoticed(j) ==
    /\ InboundJob(j, "working")
    /\ Acks(j)
    /\ Fault
    /\ UNCHANGED <<givenVars, retries, tag, outVars, dropped>>

\* It fails, and says so only by leaving no channel.
PublisherFails(j) ==
    /\ InboundJob(j, "working")
    /\ RetriesOrDrops(j)
    /\ Fault
    /\ UNCHANGED givenVars

\* The retry timer: the message is published again with its new count, if
\* there is a channel by now.
RetryTimer(m) ==
    /\ status[m] = "waiting"
    /\ IF connected
         THEN /\ status' = [status EXCEPT ![m] = "ready"]
              /\ retries' = [retries EXCEPT ![m] = @ + 1]
              /\ UNCHANGED orphaned
         ELSE /\ status' = [status EXCEPT ![m] = "gone"]
              /\ orphaned' = orphaned \cup {m}
              /\ UNCHANGED retries
    /\ UNCHANGED <<givenVars, tag, processVars, outVars, dropped, misacked, faults>>

\* The publisher's connection is closed; nothing watches it.
PublisherLost ==
    /\ publisher = "open"
    /\ publisher' = "dead"
    /\ Fault
    /\ UNCHANGED <<givenVars, brokerVars, jobs, connected, outVars, lossVars>>

-----------------------------------------------------------------------------
(* The outbound transformer *)

\* The catch block.  The count of the broker's copy never grows: the new one is
\* written to the callback's own headers.
FailsOutbound(j) ==
    IF retries[j.msg] >= MaxRetries - 1
      THEN DeadLetters(j.msg) /\ Acks(j)
      ELSE /\ jobs' = (jobs \ {j}) \cup {[j EXCEPT !.at = "backoff"]}
           /\ UNCHANGED <<status, connected, publisher, orphaned, misacked, dead>>

\* Without awaits, from the parsing to the ack or the backoff timer.  What is no JSON is
\* acked, what is invalid or refused goes to the dead-letter queue.
HandleOutbound(j) ==
    /\ j \in jobs /\ service = "outbound" /\ j.at = "sent"
    /\ \/ /\ kind[j.msg] = "notJson"
          /\ Acks(j)
          /\ UNCHANGED outVars
       \/ /\ kind[j.msg] \in {"invalid", "rejected"}
          /\ DeadLetters(j.msg)
          /\ Acks(j)
          /\ UNCHANGED forwarded
       \/ /\ Passes(j.msg)
          /\ Forwards(j.msg, Parts(j.msg))
          /\ Acks(j)
          /\ UNCHANGED dead
    /\ UNCHANGED <<givenVars, retries, tag, dropped, faults>>

\* publish returns FALSE because its buffer is full, which dispatch takes for
\* a failure: the part is sent all the same, later parts are not.
Backpressure(j) ==
    /\ j \in jobs /\ service = "outbound" /\ j.at = "sent"
    /\ Passes(j.msg)
    /\ \E n \in 1..Parts(j.msg) : Forwards(j.msg, n)
    /\ FailsOutbound(j)
    /\ Fault
    /\ UNCHANGED <<givenVars, retries, tag, dropped>>

\* The backoff is over: nack with requeue.
BackoffTimer(j) ==
    /\ j \in jobs /\ j.at = "backoff"
    /\ Settles(j, "ready")
    /\ UNCHANGED <<givenVars, retries, tag, outVars, dropped, faults>>

-----------------------------------------------------------------------------
(* The WhatsApp API service *)

\* What is no JSON or incomplete is dead-lettered; for the rest the tenant's
\* token and Meta's answer are awaited.
HandleWhatsApp(j) ==
    /\ j \in jobs /\ service = "whatsapp" /\ j.at = "sent"
    /\ IF kind[j.msg] \in {"notJson", "invalid"}
         THEN DeadLetters(j.msg) /\ Acks(j)
         ELSE /\ jobs' = (jobs \ {j}) \cup {[j EXCEPT !.at = "working"]}
              /\ UNCHANGED <<status, connected, publisher, orphaned, misacked, dead>>
    /\ UNCHANGED <<givenVars, retries, tag, forwarded, dropped, faults>>

WhatsAppJob(j) == j \in jobs /\ service = "whatsapp" /\ j.at = "working"

\* Meta accepts the message.
Sent(j) ==
    /\ WhatsAppJob(j)
    /\ Passes(j.msg)
    /\ Forwards(j.msg, 1)
    /\ Acks(j)
    /\ UNCHANGED <<givenVars, retries, tag, dead, dropped, faults>>

\* Mutant: a refusal is retried like an outage.
RejectedRetries(j) ==
    /\ WhatsAppJob(j)
    /\ kind[j.msg] = "rejected"
    /\ Settles(j, "ready")
    /\ UNCHANGED <<givenVars, retries, tag, outVars, dropped, faults>>

\* Meta answers 400, 403 or 404.
Rejected(j) ==
    /\ WhatsAppJob(j)
    /\ kind[j.msg] = "rejected"
    /\ DeadLetters(j.msg)
    /\ Acks(j)
    /\ UNCHANGED <<givenVars, retries, tag, forwarded, dropped, faults>>

\* 429, any other status, no answer, or no token of the tenant.  The count is
\* written to the callback's own headers, so the broker's copy keeps the old one.
FailsWhatsApp(j) ==
    IF retries[j.msg] >= MaxRetries - 1
      THEN DeadLetters(j.msg) /\ Acks(j)
      ELSE Settles(j, "ready") /\ UNCHANGED dead

SendFails(j) ==
    /\ WhatsAppJob(j)
    /\ \/ kind[j.msg] = "poison" /\ UNCHANGED <<forwarded, faults>>
       \/ /\ Passes(j.msg)
          /\ Forwards(j.msg, 1) \/ UNCHANGED forwarded
          /\ Fault
    /\ FailsWhatsApp(j)
    /\ UNCHANGED <<givenVars, retries, tag, dropped>>

-----------------------------------------------------------------------------
(* Connections and the process *)

\* startConsumer, after the reconnect delay.
Connect ==
    /\ ~connected
    /\ slow \/ jobs = {}
    /\ connected' = TRUE
    /\ UNCHANGED <<givenVars, brokerVars, jobs, publisher, outVars, lossVars, faults>>

ConnectionLost ==
    /\ connected
    /\ Disconnects(jobs)
    /\ Fault
    /\ UNCHANGED <<givenVars, retries, tag, outVars, dropped, misacked>>

Crash ==
    /\ Dies
    /\ Fault
    /\ UNCHANGED <<givenVars, retries, tag, outVars, dropped, misacked>>

-----------------------------------------------------------------------------

JobStep(j) ==
    \/ HandleInbound(j) \/ OpenPublisher(j)
    \/ HandleOutbound(j) \/ BackoffTimer(j)
    \/ HandleWhatsApp(j) \/ Sent(j) \/ Rejected(j) \/ SendFails(j)

Next ==
    \/ \E m \in Messages : Deliver(m) \/ RetryTimer(m)
    \/ \E j \in jobs : JobStep(j) \/ PublisherFails(j) \/ Backpressure(j)
    \/ PublisherLost
    \/ Connect
    \/ ConnectionLost
    \/ Crash

Spec == Init /\ [][Next]_vars

\* The broker is fair to waiting messages (the queue is in order), the callback
\* and the timers of each message run, and the broker can be reached again.
FairSpec ==
    /\ Spec
    /\ \A m \in Messages :
           /\ SF_vars(Deliver(m))
           /\ WF_vars(RetryTimer(m))
           /\ WF_vars(\E j \in jobs : j.msg = m /\ JobStep(j))
    /\ WF_vars(Connect)

-----------------------------------------------------------------------------
(* Properties *)

Kept(m) == forwarded[m] = Parts(m) \/ m \in dead

\* A message that left the queue was passed on in all its parts or is in the
\* dead-letter queue, with these exceptions and no others.  The inbound
\* transformer loses what it retried in vain, because of the message or after a
\* fault, and what a timer held when the process died or had no channel; the
\* outbound transformer discards what is no JSON; and a message may be settled
\* by the callback of another one whose channel was replaced after a fault.
LossIsExplained ==
    \A m \in Messages :
        status[m] = "gone" /\ ~Kept(m) =>
            \/ /\ service = "inbound"
               /\ \/ m \in dropped /\ (~Passes(m) \/ faults > 0)
                  \/ m \in orphaned /\ faults > 0
            \/ service = "outbound" /\ kind[m] = "notJson"
            \/ service # "inbound" /\ m \in misacked /\ slow /\ faults > 0

\* Every message leaves the queue.  Only the WhatsApp API service may keep one
\* for ever: a message that fails each time, as the count of the broker's copy
\* never grows, and, when callbacks outlive the reconnect delay, any message after
\* a lost connection: each late callback settles a tag that the next channel does
\* not know, which closes that channel under the next callback.
MessagesSettle ==
    \A m \in Messages :
        <>(\/ status[m] = "gone"
           \/ /\ service = "whatsapp"
              /\ kind[m] = "poison" \/ (slow /\ faults > 0))
=============================================================================
