---------------------------- MODULE MessagePipeline ----------------------------
(***************************************************************************)
(* The way of a message through all services: what each of them keeps of   *)
(* it, where it is turned away, and what the sender is told.               *)
(*                                                                         *)
(* A call is one HTTP request: a POST of Meta to the WhatsApp webhook, one *)
(* of Genesys to the Genesys webhook, or one to the outbound transformer's *)
(* route /transform/outbound.  Behind the webhooks the messages wait in    *)
(* the queues of shared/constants/queues.js; a handler takes one and puts  *)
(* the next form of it in the next queue.  Redelivery, retries and what    *)
(* the handlers keep in databases are in the modules of the services.      *)
(*                                                                         *)
(* Meta and Genesys are external: they send a call again until it is       *)
(* answered.  So is RabbitMQ: what is written to a connection that is      *)
(* broken, but not yet known to be, is lost without an error.              *)
(***************************************************************************)
EXTENDS Naturals, Sequences, FiniteSets

CONSTANTS
    Calls,      \* HTTP requests
    Setups,     \* what the calls carry, and the settings, considered
    MaxFaults   \* failing lookups and downloads, lost connections, crashes (bound)

Texts == {"none", "blank", "short", "long", "huge"}     \* long: over 1024, huge: over 4096
Media == {"none", "image", "audio", "document", "exotic"}

\* An event of a call.  "captioned" is media of Meta with a caption; a message
\* without text and media is a location, a contact card, a button, ...
Item == [kind : {"message", "captioned", "status", "typing", "ignored", "incomplete"},
         text : Texts, media : Media]

\* Who sends a call: Meta, Genesys, or a user of the transformer's route.
Body == [from : {"meta", "genesys", "route"}, items : Seq(Item)]

\* The outbound transformer's settings, whether the state manager's
\* ALLOWED_MEDIA_DOMAINS has the host of MinIO, whether the tenants' stored
\* credentials for Genesys name an integration, and whether the WhatsApp
\* webhook's NODE_ENV is development.
Setting == [mime : {"reject", "convert_to_document", "text_fallback"},
            audio : {"separate_message", "discard_text", "text_only"},
            trusted : BOOLEAN, integrated : BOOLEAN, development : BOOLEAN]

ASSUME MessagePipelineAssumption ==
    /\ Setups \subseteq [bodies : [Calls -> Body], setting : Setting]
    /\ \A s \in Setups : \A c \in Calls :
           LET items == s.bodies[c].items IN
           /\ Len(items) \in (IF s.bodies[c].from = "meta" THEN 1..2 ELSE {1})
           /\ \A n \in DOMAIN items : items[n].kind = "captioned" => items[n].media # "none"
    /\ MaxFaults \in Nat

Ids == Calls \X (1..2)

Queues == {"inbound-whatsapp-messages", "inbound.enriched", "genesys.outbound.ready",
           "whatsapp-status-updates", "outbound-genesys-messages",
           "genesys-status-updates", "genesys-status-processed", "outbound-ready"}

Ends == {"genesys", "meta", "status", "receipt", "dropped",
         "state-dlq", "genesys-dlq"}

VARIABLES
    setup,      \* what the calls carry and the settings
    pc,         \* where the handler of each call is
    index,      \* the item it is at
    answer,     \* what the sender was told: "none", "ok", "error"
    broker,     \* the webhooks' connection: "up", "broken" (unnoticed), "down"
    queued,     \* how often each item was put in its first queue
    messages,   \* [id, at, text, media]: what is in the queues, and where it ended
    faults      \* faults so far, by kind

body == setup.bodies

vars == <<setup, pc, index, answer, broker, queued, messages, faults>>

Faults == {"lookup", "media", "broker", "crash", "lock", "api"}

Message == [id : Ids, at : Queues \cup Ends, text : Texts, media : Media]

TypeOK ==
    /\ setup \in Setups
    /\ pc \in [Calls -> {"sent", "verify", "secret", "item", "media", "retry", "retryBare", "done"}]
    /\ index \in [Calls -> 1..2]
    /\ answer \in [Calls -> {"none", "ok", "error"}]
    /\ broker \in {"up", "broken", "down"}
    /\ queued \in [Ids -> 0..(MaxFaults + 1)]
    /\ messages \subseteq Message
    /\ faults \in [Faults -> 0..MaxFaults]

Init ==
    /\ setup \in Setups
    /\ pc = [c \in Calls |-> "sent"]
    /\ index = [c \in Calls |-> 1]
    /\ answer = [c \in Calls |-> "none"]
    /\ broker = "up"
    /\ queued = [i \in Ids |-> 0]
    /\ messages = {}
    /\ faults = [f \in Faults |-> 0]

-----------------------------------------------------------------------------
(* Helpers *)

Total == faults["lookup"] + faults["media"] + faults["broker"]
         + faults["crash"] + faults["lock"] + faults["api"]

Fault(f) ==
    /\ Total < MaxFaults
    /\ faults' = [faults EXCEPT ![f] = @ + 1]

From(c, who) == body[c].from = who
Current(c) == body[c].items[index[c]]
Id(c) == <<c, index[c]>>

\* sendToQueue on the webhooks' channel, when that is not known to be closed.
Put(id, queue, text, media) ==
    IF broker = "up"
      THEN /\ messages' = messages \cup {[id |-> id, at |-> queue,
                                          text |-> text, media |-> media]}
           /\ queued' = [queued EXCEPT ![id] = @ + 1]
      ELSE UNCHANGED <<messages, queued>>

\* A handler takes m from its queue and passes on the given form of it.
Moves(m, to, text, media) ==
    messages' = (messages \ {m}) \cup {[id |-> m.id, at |-> to,
                                        text |-> text, media |-> media]}

EndsAt(m, end) == Moves(m, end, m.text, m.media)

Handled == UNCHANGED <<setup, pc, index, answer, broker, queued>>

-----------------------------------------------------------------------------
(* The WhatsApp webhook: the call is answered when all its items were processed *)

Answers(c, a) ==
    /\ pc' = [pc EXCEPT ![c] = "done"]
    /\ answer' = [answer EXCEPT ![c] = a]

\* The tenant is looked up by the phone number, and outside development so are its
\* credentials.  processWebhook catches what fails in either, so the controller
\* answers 200 all the same.
LooksUpTenant(c) ==
    /\ pc[c] = "sent" /\ From(c, "meta")
    /\ \/ /\ pc' = [pc EXCEPT ![c] = "verify"]
          /\ UNCHANGED <<answer, faults>>
       \/ /\ Fault("lookup")
          /\ Answers(c, "ok")
    /\ UNCHANGED <<setup, index, broker, queued, messages>>

\* The tenant service's credentials for Meta are an access token alone: there is
\* no secret to compute the signature with, and createHmac throws.
SignatureAccepted == setup.setting.development

\* Development skips the signature; elsewhere no call passes, and none is told.
ResolveMeta(c) ==
    /\ pc[c] = "verify"
    /\ IF SignatureAccepted
         THEN pc' = [pc EXCEPT ![c] = "item"] /\ UNCHANGED answer
         ELSE Answers(c, "ok")
    /\ UNCHANGED <<setup, index, broker, queued, messages, faults>>

\* The loops over messages and statuses, each item after the one before it.
NextItem(c) ==
    IF index[c] < Len(body[c].items)
      THEN /\ index' = [index EXCEPT ![c] = @ + 1]
           /\ pc' = [pc EXCEPT ![c] = "item"]
           /\ UNCHANGED answer
      ELSE Answers(c, "ok") /\ UNCHANGED index

\* extractMessageContent: the text of a text message and the media of a media
\* message; a caption is extracted and not used, other types give neither.
Extracted(item) ==
    IF item.kind = "captioned" THEN [text |-> "none", media |-> item.media]
                               ELSE [text |-> item.text, media |-> item.media]

\* publishInboundMessage and publishStatusUpdate throw without a connection, and
\* the error is caught for each item.
PublishMeta(c, queue, text, media) ==
    /\ Put(Id(c), queue, text, media)
    /\ NextItem(c)

ProcessItem(c) ==
    /\ pc[c] = "item" /\ From(c, "meta")
    /\ LET item == Current(c)
           content == Extracted(item)
       IN
       IF item.kind = "status"
         THEN PublishMeta(c, "whatsapp-status-updates", "none", "none")
       ELSE IF content.media # "none"
         THEN /\ pc' = [pc EXCEPT ![c] = "media"]
              /\ UNCHANGED <<index, answer, queued, messages>>
       ELSE PublishMeta(c, "inbound-whatsapp-messages", content.text, "none")
    /\ UNCHANGED <<setup, broker, faults>>

\* Mutant: an item whose media fails is not published.
SaveMediaOrSkip(c) ==
    /\ pc[c] = "media" /\ From(c, "meta")
    /\ LET content == Extracted(Current(c)) IN
       \/ /\ PublishMeta(c, "inbound-whatsapp-messages", content.text, content.media)
          /\ UNCHANGED faults
       \/ /\ Fault("media")
          /\ NextItem(c)
          /\ UNCHANGED <<queued, messages>>
    /\ UNCHANGED <<setup, broker>>

\* saveMedia: from Meta to MinIO.  If that fails the message goes on without it.
SaveMedia(c) ==
    /\ pc[c] = "media" /\ From(c, "meta")
    /\ LET content == Extracted(Current(c)) IN
       \/ /\ PublishMeta(c, "inbound-whatsapp-messages", content.text, content.media)
          /\ UNCHANGED faults
       \/ /\ Fault("media")
          /\ PublishMeta(c, "inbound-whatsapp-messages", content.text, "none")
    /\ UNCHANGED <<setup, broker>>

-----------------------------------------------------------------------------
(* The Genesys webhook: the call is answered first *)

\* The tenant of the integration; a lookup that fails is a tenant not found.
LooksUpIntegration(c) ==
    /\ pc[c] = "sent" /\ From(c, "genesys")
    /\ \/ /\ Fault("lookup")
          /\ Answers(c, "error")
       \/ /\ pc' = [pc EXCEPT ![c] = "secret"]
          /\ UNCHANGED <<answer, faults>>
    /\ UNCHANGED <<setup, index, broker, queued, messages>>

\* The controller answers, and starts processing what is no health check, no
\* echo of an injected message and no event of the customer's side.
Accepts(c) ==
    /\ answer' = [answer EXCEPT ![c] = "ok"]
    /\ pc' = [pc EXCEPT ![c] = IF Current(c).kind = "ignored" THEN "done" ELSE "item"]

\* validateSignature, with the tenant's secret or, when that cannot be fetched,
\* the one in the environment, which may be another one or none.
ValidateGenesys(c) ==
    /\ pc[c] = "secret"
    /\ \/ Accepts(c) /\ UNCHANGED faults
       \/ Fault("lookup") /\ (Accepts(c) \/ Answers(c, "error"))
    /\ UNCHANGED <<setup, index, broker, queued, messages>>

\* classifyEvent knows messages; all else is a status event.
GenesysQueue(item) ==
    IF item.kind = "message" THEN "outbound-genesys-messages"
                             ELSE "genesys-status-updates"

\* Mutant: what was published is published once more.
PublishGenesysTwice(c, media) ==
    /\ pc' = [pc EXCEPT ![c] = IF pc[c] = "item" THEN "retry" ELSE "done"]
    /\ Put(Id(c), GenesysQueue(Current(c)), Current(c).text, media)
    /\ UNCHANGED <<setup, index, answer, broker>>

\* Mutant: it is tried until there is a connection.
PublishGenesysForever(c, media) ==
    /\ pc' = [pc EXCEPT ![c] = IF broker = "down" THEN "retry" ELSE "done"]
    /\ Put(Id(c), GenesysQueue(Current(c)), Current(c).text, media)
    /\ UNCHANGED <<setup, index, answer, broker>>

\* publishWithRetry: without a connection once more after 100 ms, then the
\* error is logged and the event gone.
PublishGenesys(c, media) ==
    /\ IF broker = "down" /\ pc[c] = "item"
         THEN /\ pc' = [pc EXCEPT ![c] = IF media = Current(c).media THEN "retry"
                                                                    ELSE "retryBare"]
              /\ UNCHANGED <<queued, messages>>
         ELSE /\ pc' = [pc EXCEPT ![c] = "done"]
              /\ Put(Id(c), GenesysQueue(Current(c)), Current(c).text, media)
    /\ UNCHANGED <<setup, index, answer, broker>>

ProcessEvent(c) ==
    /\ pc[c] = "item" /\ From(c, "genesys")
    /\ Current(c).media = "none"
    /\ PublishGenesys(c, "none")
    /\ UNCHANGED faults

\* uploadFromUrl; if it fails, or the file is too large or of a type that is
\* not allowed, the message goes on without it.
UploadMedia(c) ==
    /\ pc[c] = "item" /\ From(c, "genesys")
    /\ Current(c).media # "none"
    /\ \/ /\ Current(c).media # "exotic"
          /\ PublishGenesys(c, Current(c).media)
          /\ UNCHANGED faults
       \/ /\ Current(c).media = "exotic"
          /\ PublishGenesys(c, "none")
          /\ UNCHANGED faults
       \/ /\ Fault("media")
          /\ PublishGenesys(c, "none")

RetryPublish(c) ==
    /\ pc[c] \in {"retry", "retryBare"}
    /\ PublishGenesys(c, IF pc[c] = "retry" THEN Current(c).media ELSE "none")
    /\ UNCHANGED faults

-----------------------------------------------------------------------------
(* The state manager's handlers, as far as they route *)

In(m, queue) == m \in messages /\ m.at = queue

\* validateMediaUrl
MediaAccepted(m) == m.media = "none" \/ setup.setting.trusted

ResolveInbound(m) ==
    /\ In(m, "inbound-whatsapp-messages")
    /\ IF MediaAccepted(m) THEN EndsAt(m, "inbound.enriched")
                           ELSE EndsAt(m, "state-dlq")
    /\ Handled /\ UNCHANGED faults

\* LOCK_TIMEOUT: other messages of the customer held the lock in each of the
\* three attempts, or Redis was away.
LockTimesOut(m) ==
    /\ In(m, "inbound-whatsapp-messages")
    /\ MediaAccepted(m)
    /\ Fault("lock")
    /\ EndsAt(m, "state-dlq")
    /\ Handled

UpdateStatus(m) ==
    /\ In(m, "whatsapp-status-updates")
    /\ EndsAt(m, "status")
    /\ Handled /\ UNCHANGED faults

\* The webhook's events have no conversation_id, so no mapping is found.
ResolveOutbound(m) ==
    /\ In(m, "outbound-genesys-messages")
    /\ EndsAt(m, "state-dlq")
    /\ Handled /\ UNCHANGED faults

ForwardStatus(m) ==
    /\ In(m, "genesys-status-updates")
    /\ EndsAt(m, "genesys-status-processed")
    /\ Handled /\ UNCHANGED faults

-----------------------------------------------------------------------------
(* The inbound transformer and the Genesys API service *)

\* Mutant: what has media and no text is not structured either.
TypeByText(text, media) == IF text = "none" THEN "Text" ELSE "Structured"

\* transformToGenesysFormat
TypeOf(text, media) == IF media # "none" THEN "Structured" ELSE "Text"

Format(m) ==
    /\ In(m, "inbound.enriched")
    /\ EndsAt(m, "genesys.outbound.ready")
    /\ Handled /\ UNCHANGED faults

\* validateInboundPayload
Valid(m) == ~(TypeOf(m.text, m.media) = "Text" /\ m.text = "none")

\* A payload that is not valid, and one of a tenant whose credentials name no
\* integration, is dead-lettered; the others are posted.
SendToGenesys(m) ==
    /\ In(m, "genesys.outbound.ready")
    /\ EndsAt(m, IF Valid(m) /\ setup.setting.integrated THEN "genesys"
                                                        ELSE "genesys-dlq")
    /\ Handled /\ UNCHANGED faults

\* The credentials cannot be loaded, or Genesys answers with a 4xx: dead-lettered.
\* No token, a 401, a 5xx or no answer puts the message back in its queue.
SendFails(m) ==
    /\ In(m, "genesys.outbound.ready")
    /\ Valid(m)
    /\ Fault("api")
    /\ \/ EndsAt(m, "genesys-dlq")
       \/ setup.setting.integrated /\ UNCHANGED messages
    /\ Handled

\* Events of unknown conversations, and those that are no receipts, are dropped.
DropEvent(m) ==
    /\ In(m, "genesys-status-processed")
    /\ EndsAt(m, "dropped")
    /\ Handled /\ UNCHANGED faults

IsReceipt(m) == body[m.id[1]].items[m.id[2]].kind = "status"

SendReceipt(m) ==
    /\ In(m, "genesys-status-processed") /\ IsReceipt(m)
    /\ EndsAt(m, "receipt")
    /\ Handled /\ UNCHANGED faults

\* A receipt Genesys refuses is dead-lettered, a 401 and other errors requeue it.
\* What cannot be dead-lettered is acked all the same.
ReceiptFails(m) ==
    /\ In(m, "genesys-status-processed") /\ IsReceipt(m)
    /\ Fault("api")
    /\ EndsAt(m, "genesys-dlq") \/ EndsAt(m, "dropped") \/ UNCHANGED messages
    /\ Handled

-----------------------------------------------------------------------------
(* The outbound transformer and the WhatsApp API service *)

ValidInput(item) ==
    /\ item.kind = "message"
    /\ item.text \notin {"blank", "huge"}
    /\ item.text # "none" \/ item.media # "none"

Output(text, media) == <<[text |-> text, media |-> media]>>

\* truncateCaption
Caption(text) == IF text = "long" THEN "short" ELSE text

\* Mutant: audio with a text is sent like an image with a caption.
AudioWithCaption(text) == Output(Caption(text), "audio")

\* handleAudioWithText
AudioWithText(text) ==
    CASE setup.setting.audio = "separate_message" -> Output("none", "audio") \o Output(text, "none")
      [] setup.setting.audio = "discard_text"     -> Output("none", "audio")
      [] setup.setting.audio = "text_only"        -> Output(text, "none")

MediaOutput(text, type) ==
    IF type = "audio" /\ text # "none" THEN AudioWithText(text)
                                       ELSE Output(Caption(text), type)

\* handleUnsupportedMime; an empty sequence is an error.
UnsupportedMime(text) ==
    CASE setup.setting.mime = "convert_to_document" -> MediaOutput(text, "document")
      [] setup.setting.mime = "text_fallback" /\ text # "none" -> Output(text, "none")
      [] OTHER -> <<>>

TransformMessage(item) ==
    CASE item.media = "none"   -> Output(item.text, "none")
      [] item.media = "exotic" -> UnsupportedMime(item.text)
      [] OTHER                 -> MediaOutput(item.text, item.media)

\* transformOutbound, the route.  An output is published on the consumer's
\* channel; the parts of a message have the numbers 1 and 2.
TransformRoute(c) ==
    /\ pc[c] = "sent" /\ From(c, "route")
    /\ LET item == Current(c)
           outputs == TransformMessage(item)
           sent == {[id |-> <<c, n>>, at |-> "outbound-ready", text |-> outputs[n].text,
                     media |-> outputs[n].media] : n \in DOMAIN outputs}
       IN
       IF ~ValidInput(item) \/ outputs = <<>>
         THEN Answers(c, "error") /\ UNCHANGED <<messages, queued>>
         ELSE /\ Answers(c, "ok")
              /\ messages' = messages \cup sent
              /\ queued' = [i \in Ids |-> IF i[1] = c /\ i[2] \in DOMAIN outputs
                                            THEN 1 ELSE queued[i]]
    /\ UNCHANGED <<setup, index, broker, faults>>

\* sendMessage
SendToMeta(m) ==
    /\ In(m, "outbound-ready")
    /\ EndsAt(m, "meta")
    /\ Handled /\ UNCHANGED faults

-----------------------------------------------------------------------------
(* The connection to the broker and crashes of the webhooks *)

ConnectionBreaks ==
    /\ broker = "up"
    /\ broker' = "broken"
    /\ Fault("broker")
    /\ UNCHANGED <<setup, pc, index, answer, queued, messages>>

\* The close event, and initialize after the reconnect interval.
NoticeClose ==
    /\ broker = "broken"
    /\ broker' = "down"
    /\ UNCHANGED <<setup, pc, index, answer, queued, messages, faults>>

Reconnect ==
    /\ broker = "down"
    /\ broker' = "up"
    /\ UNCHANGED <<setup, pc, index, answer, queued, messages, faults>>

Waiting(c) == pc[c] # "done" /\ answer[c] = "none"

\* A webhook's process dies.  Calls that were not answered are sent again; what
\* was answered and not yet published is gone.
Crash(who) ==
    /\ Fault("crash")
    /\ pc' = [c \in Calls |-> IF ~From(c, who) THEN pc[c]
                              ELSE IF Waiting(c) THEN "sent" ELSE "done"]
    /\ index' = [c \in Calls |-> IF From(c, who) /\ Waiting(c) THEN 1 ELSE index[c]]
    /\ UNCHANGED <<setup, answer, broker, queued, messages>>

-----------------------------------------------------------------------------

CallStep(c) ==
    \/ LooksUpTenant(c) \/ ResolveMeta(c) \/ ProcessItem(c) \/ SaveMedia(c)
    \/ LooksUpIntegration(c) \/ ValidateGenesys(c)
    \/ ProcessEvent(c) \/ UploadMedia(c) \/ RetryPublish(c)
    \/ TransformRoute(c)

MessageStep(m) ==
    \/ ResolveInbound(m) \/ LockTimesOut(m)
    \/ UpdateStatus(m) \/ ResolveOutbound(m) \/ ForwardStatus(m)
    \/ Format(m) \/ SendToGenesys(m) \/ SendFails(m) \/ SendToMeta(m)
    \/ DropEvent(m) \/ SendReceipt(m) \/ ReceiptFails(m)

Next ==
    \/ \E c \in Calls : CallStep(c)
    \/ \E m \in messages : MessageStep(m)
    \/ ConnectionBreaks \/ NoticeClose \/ Reconnect
    \/ \E who \in {"meta", "genesys"} : Crash(who)

Spec == Init /\ [][Next]_vars

\* Handlers run, and each queue is consumed.
FairSpec ==
    /\ Spec
    /\ \A c \in Calls : WF_vars(CallStep(c))
    /\ WF_vars(\E m \in messages : MessageStep(m))

-----------------------------------------------------------------------------
(* Properties *)

\* The items of a call whose sender was told that all went well are queued,
\* unless a lookup failed, the connection to the broker was lost, or, for Meta,
\* the webhook does not run in development, where alone it accepts a signature;
\* for Genesys, which is answered first, also if the process died.  A failing
\* download loses no message, and a crash none of Meta's.
AnsweredMeansQueued ==
    \A c \in Calls :
        answer[c] = "ok" /\ pc[c] = "done" /\ ~From(c, "route") =>
            \A n \in DOMAIN body[c].items :
                \/ queued[<<c, n>>] > 0
                \/ body[c].items[n].kind = "ignored"
                \/ faults["broker"] > 0
                \/ From(c, "meta") /\ (faults["lookup"] > 0 \/ ~SignatureAccepted)
                \/ faults["crash"] > 0 /\ From(c, "genesys")

\* An item is queued more than once only because its call was sent again.
DuplicatesOnlyByCrash ==
    \A i \in Ids : queued[i] <= 1 + (IF From(i[1], "meta") THEN faults["crash"] ELSE 0)

\* What becomes of a customer's message.  The state manager dead-letters it only
\* for media on a host it does not trust, or when the customer's lock was not to
\* be had; the Genesys API service only when nothing of it is left (it came empty,
\* or as media whose download failed), when the tenant has no integration, or when
\* the credentials or Genesys itself failed it; and what Genesys is shown has the
\* text that came, and the media unless its download failed.
InboundEndsExplained ==
    \A m \in messages : From(m.id[1], "meta") =>
        LET item == body[m.id[1]].items[m.id[2]]
            came == Extracted(item)
            mediaLost == faults["media"] > 0
        IN
        /\ m.at = "state-dlq" =>
               \/ came.media # "none" /\ ~setup.setting.trusted
               \/ faults["lock"] > 0
        /\ m.at = "genesys-dlq" =>
               \/ came.text = "none" /\ (came.media = "none" \/ mediaLost)
               \/ ~setup.setting.integrated
               \/ faults["api"] > 0
        /\ m.at = "genesys" =>
               /\ setup.setting.integrated
               /\ m.text = came.text
               /\ m.media = came.media \/ mediaLost

\* Meta accepts every form that leaves the outbound transformer: an audio has no
\* caption, a caption at most 1024 characters, a text is neither blank nor too long.
MetaAcceptsWhatIsSent ==
    \A m \in messages :
        m.at = "meta" =>
            /\ m.media # "exotic" /\ m.text \notin {"blank", "huge"}
            /\ m.media = "audio" => m.text = "none"
            /\ m.media # "none" => m.text # "long"
            /\ m.media = "none" => m.text # "none"

\* Every call is answered and every message gets to an end.
PipelineSettles ==
    /\ \A c \in Calls : <>(pc[c] = "done" /\ answer[c] # "none")
    /\ <>[](\A m \in messages : m.at \in Ends)
=============================================================================
