------------------------ MODULE MessagePipeline_proofs ------------------------
(***************************************************************************)
(* Theorems about MessagePipeline, for any calls, settings and number of   *)
(* faults: the variables keep their types; what was answered is queued,    *)
(* and not twice; a customer's message is shown to Genesys as it came, or  *)
(* dead-lettered for a named cause; Meta accepts whatever it is sent.      *)
(*                                                                         *)
(* The invariant says of each call how far its items got (CallInv,         *)
(* QueueInv), and of each message where it can be and what it carries      *)
(* (MessageInv).  An action of a call changes that call and adds messages, *)
(* one of a queue replaces a message: CallFrame and MoveStep say so once,  *)
(* and each action only shows its own call or message.                     *)
(*                                                                         *)
(* The last section is about BrokerConnection: the connections on which    *)
(* the processes publish and consume.                                      *)
(***************************************************************************)
EXTENDS MessagePipeline, BrokerConnection, FiniteSetTheorems, TLAPS

\* Which statements a handler has depends on who called; Meta's calls are
\* answered when all is done, those of Genesys before.
CallInv(c) ==
    /\ index[c] \in DOMAIN body[c].items
    /\ From(c, "meta") =>
           /\ pc[c] \in {"sent", "verify", "item", "media", "done"}
           /\ answer[c] = IF pc[c] = "done" THEN "ok" ELSE "none"
           /\ pc[c] \in {"sent", "verify"} => index[c] = 1
           /\ pc[c] \in {"item", "media"} => SignatureAccepted
    /\ From(c, "genesys") =>
           /\ pc[c] \in {"sent", "secret", "item", "retry", "retryBare", "done"}
           /\ pc[c] \in {"sent", "secret"} => answer[c] = "none"
           /\ pc[c] \in {"item", "retry", "retryBare"} =>
                  answer[c] = "ok" /\ Current(c).kind # "ignored"
    /\ From(c, "route") => pc[c] \in {"sent", "done"}

\* The items before the current one are queued, and those from it on only as
\* often as the call was sent again.
QueueInv(c) ==
    /\ From(c, "meta") =>
           \A n \in 1..2 :
               /\ pc[c] # "done" /\ n < index[c] =>
                      queued[<<c, n>>] > 0 \/ faults["broker"] > 0
               /\ queued[<<c, n>>] <= faults["crash"]
                      + (IF pc[c] = "done" \/ n < index[c] THEN 1 ELSE 0)
    /\ From(c, "genesys") =>
           \A n \in 1..2 : queued[<<c, n>>] <= IF pc[c] = "done" THEN 1 ELSE 0
    /\ From(c, "route") => \A n \in 1..2 : queued[<<c, n>>] <= 1

\* AnsweredMeansQueued of one call.
Answered(c) ==
    answer[c] = "ok" /\ pc[c] = "done" /\ ~From(c, "route") =>
        \A n \in DOMAIN body[c].items :
            \/ queued[<<c, n>>] > 0
            \/ body[c].items[n].kind = "ignored"
            \/ faults["broker"] > 0
            \/ From(c, "meta") /\ (faults["lookup"] > 0 \/ ~SignatureAccepted)
            \/ faults["crash"] > 0 /\ From(c, "genesys")

BrokerInv == broker # "up" => faults["broker"] > 0

\* On the way of a customer's message, and that of Meta's receipts.
InboundPlaces == {"inbound-whatsapp-messages", "inbound.enriched",
                  "genesys.outbound.ready", "genesys", "genesys-dlq", "state-dlq"}
StatusPlaces == {"whatsapp-status-updates", "status"}

\* A customer's message keeps the text it came with, and its media unless a
\* download failed.
Carries(m) ==
    LET item == body[m.id[1]].items[m.id[2]] IN
    /\ m.text = Extracted(item).text
    /\ m.media = item.media \/ (m.media = "none" /\ faults["media"] > 0)

\* What Meta accepts.
Acceptable(m) ==
    /\ m.media # "exotic" /\ m.text \notin {"blank", "huge"}
    /\ m.media = "audio" => m.text = "none"
    /\ m.media # "none" => m.text # "long"
    /\ m.media = "none" => m.text # "none"

\* Why a customer's message is dead-lettered.
DeadAtState(m) ==
    \/ m.media # "none" /\ ~setup.setting.trusted
    \/ faults["lock"] > 0

DeadAtGenesys(m) ==
    \/ m.text = "none" /\ m.media = "none"
    \/ ~setup.setting.integrated
    \/ faults["api"] > 0

MessageInv(m) ==
    /\ From(m.id[1], "meta") =>
           /\ m.id[2] \in DOMAIN body[m.id[1]].items
           /\ m.at \in InboundPlaces \cup StatusPlaces
           /\ m.at \in InboundPlaces => Carries(m)
           /\ m.at = "genesys-dlq" => DeadAtGenesys(m)
           /\ m.at = "state-dlq" => DeadAtState(m)
           /\ m.at = "genesys" => setup.setting.integrated
    /\ m.at \in {"outbound-ready", "meta"} => Acceptable(m)

IInv ==
    /\ TypeOK
    /\ \A c \in Calls : CallInv(c) /\ QueueInv(c) /\ Answered(c)
    /\ BrokerInv
    /\ \A m \in messages : MessageInv(m)

-----------------------------------------------------------------------------
(* Facts about the setup *)

\* Bodies have the shape the assumption says.
LEMMA BodyFacts ==
    ASSUME TypeOK, NEW c \in Calls
    PROVE  /\ body[c].from \in {"meta", "genesys", "route"}
           /\ body[c].items \in Seq(Item)
           /\ Len(body[c].items) \in {1, 2}
           /\ body[c].from # "meta" => Len(body[c].items) = 1
           /\ DOMAIN body[c].items = 1..Len(body[c].items)
           /\ \A n \in DOMAIN body[c].items :
                  /\ body[c].items[n] \in Item
                  /\ body[c].items[n].kind = "captioned" => body[c].items[n].media # "none"
<1>1. setup \in [bodies : [Calls -> Body], setting : Setting]
  BY MessagePipelineAssumption DEF TypeOK
<1>2. body[c] \in Body
  BY <1>1 DEF body
<1>3. body[c].items \in Seq(Item) /\ body[c].from \in {"meta", "genesys", "route"}
  BY <1>2 DEF Body
<1>4. /\ Len(body[c].items) \in (IF body[c].from = "meta" THEN 1..2 ELSE {1})
      /\ \A n \in DOMAIN body[c].items :
             body[c].items[n].kind = "captioned" => body[c].items[n].media # "none"
  BY MessagePipelineAssumption DEF TypeOK, body
<1>5. /\ DOMAIN body[c].items = 1..Len(body[c].items)
      /\ \A n \in 1..Len(body[c].items) : body[c].items[n] \in Item
  BY <1>3
<1>6. body[c].from # "meta" => Len(body[c].items) = 1
  BY <1>4
<1>7. Len(body[c].items) \in {1, 2}
  <2>1. Len(body[c].items) \in 1..2 \/ Len(body[c].items) = 1
    BY <1>4
  <2>. QED  BY <2>1
<1>. QED  BY <1>3, <1>4, <1>5, <1>6, <1>7

\* The current item of a call, and what the WhatsApp webhook takes from it.
LEMMA CurrentFacts ==
    ASSUME TypeOK, NEW c \in Calls, CallInv(c)
    PROVE  /\ index[c] \in 1..2 /\ Id(c) \in Ids
           /\ Current(c) \in Item
           /\ Current(c).text \in Texts /\ Current(c).media \in Media
           /\ Extracted(Current(c)).text \in Texts
           /\ Extracted(Current(c)).media = Current(c).media
<1>1. index[c] \in DOMAIN body[c].items
  BY DEF CallInv
<1>2. index[c] \in 1..2 /\ Current(c) \in Item
  BY <1>1, BodyFacts DEF Current
<1>3. Current(c).text \in Texts /\ Current(c).media \in Media
  BY <1>2 DEF Item
<1>. QED  BY <1>2, <1>3 DEF Id, Ids, Extracted, Texts

\* A fault is counted, and there is room for it.
LEMMA FaultFacts ==
    ASSUME TypeOK, NEW f \in Faults, Fault(f)
    PROVE  /\ faults' \in [Faults -> 0..MaxFaults]
           /\ \A g \in Faults : faults'[g] = IF g = f THEN faults[g] + 1 ELSE faults[g]
<1>1. MaxFaults \in Nat
  BY MessagePipelineAssumption
<1>2. \A g \in Faults : faults[g] \in Nat /\ faults[g] < MaxFaults
  BY <1>1 DEF TypeOK, Faults, Fault, Total
<1>. QED  BY <1>1, <1>2 DEF TypeOK, Fault

\* Faults are not taken back.
Grows ==
    /\ faults' \in [Faults -> 0..MaxFaults]
    /\ \A f \in Faults : faults[f] <= faults'[f]

\* A fault is counted, and nothing else.
LEMMA FaultGrows ==
    ASSUME TypeOK, NEW f \in Faults, Fault(f)
    PROVE  Grows /\ faults'[f] > 0
BY FaultFacts DEF Grows, TypeOK

\* Without a fault nothing is counted.
LEMMA NoFaultGrows ==
    ASSUME TypeOK, UNCHANGED faults
    PROVE  Grows
<1>1. MaxFaults \in Nat /\ faults \in [Faults -> 0..MaxFaults]
  BY MessagePipelineAssumption DEF TypeOK
<1>2. ASSUME NEW f \in Faults
      PROVE  faults[f] <= faults'[f]
  <2>1. faults[f] \in Nat /\ faults'[f] = faults[f]
    BY <1>1
  <2>. QED  BY <2>1
<1>3. faults' \in [Faults -> 0..MaxFaults]
  BY <1>1
<1>. QED  BY <1>2, <1>3 DEF Grows

\* A message stays what it is while faults only grow.
LEMMA MessageKept ==
    ASSUME TypeOK, Grows, UNCHANGED setup, NEW m \in Message, MessageInv(m)
    PROVE  MessageInv(m)'
<1>1. setup' = setup /\ body' = body
  BY DEF body
<1>2. ASSUME NEW f \in Faults, faults[f] > 0
      PROVE  faults'[f] > 0
  <2>1. /\ faults[f] \in Nat /\ faults'[f] \in Nat
        /\ faults[f] <= faults'[f]
    BY DEF Grows, TypeOK
  <2>. QED  BY <1>2, <2>1
<1>3. Carries(m) => Carries(m)'
  BY <1>1, <1>2 DEF Carries, Extracted, Faults
<1>4. Acceptable(m) => Acceptable(m)'
  BY DEF Acceptable
<1>5. /\ DeadAtState(m) => DeadAtState(m)'
      /\ DeadAtGenesys(m) => DeadAtGenesys(m)'
  BY <1>1, <1>2 DEF DeadAtState, DeadAtGenesys, Faults
<1>. QED  BY <1>1, <1>3, <1>4, <1>5 DEF MessageInv, From

-----------------------------------------------------------------------------
(* An action of a call *)

\* A call that an action does not touch.
Untouched(d) ==
    /\ pc'[d] = pc[d] /\ index'[d] = index[d] /\ answer'[d] = answer[d]
    /\ \A n \in 1..2 : queued'[<<d, n>>] = queued[<<d, n>>]

\* Only call c changes, and what it puts in a queue is in order.
CallFrame(c) ==
    /\ UNCHANGED setup
    /\ pc' \in [Calls -> {"sent", "verify", "secret", "item", "media", "retry", "retryBare", "done"}]
    /\ index' \in [Calls -> 1..2]
    /\ answer' \in [Calls -> {"none", "ok", "error"}]
    /\ queued' \in [Ids -> Nat]
    /\ \A d \in Calls \ {c} : Untouched(d)
    /\ Grows
    /\ broker' \in {"up", "broken", "down"}
    /\ messages \subseteq messages'
    /\ \A m \in messages' \ messages : m \in Message /\ MessageInv(m)'

\* What a call was told and has in the queues.
CallOK(c) == CallInv(c) /\ QueueInv(c) /\ Answered(c)

\* A call that an action does not touch keeps what is said of it.
LEMMA OtherCall ==
    ASSUME IInv, UNCHANGED setup, Grows, NEW d \in Calls, Untouched(d)
    PROVE  CallOK(d)'
<1>1. CallInv(d) /\ QueueInv(d) /\ Answered(d)
  BY DEF IInv
<1>2. /\ pc'[d] = pc[d] /\ index'[d] = index[d] /\ answer'[d] = answer[d]
      /\ \A n \in 1..2 : queued'[<<d, n>>] = queued[<<d, n>>]
      /\ body' = body
      /\ setup' = setup
  BY DEF Untouched, body
<1>3. CallInv(d)'
  BY <1>1, <1>2 DEF CallInv, From, Current, SignatureAccepted
<1>4. \A f \in Faults : faults[f] \in Nat /\ faults'[f] \in Nat /\ faults[f] <= faults'[f]
  BY DEF IInv, TypeOK, Grows
<1>5. \A n \in 1..2 : queued[<<d, n>>] \in Nat
  BY DEF IInv, TypeOK, Ids
<1>6. QueueInv(d)'
  BY <1>1, <1>2, <1>4, <1>5 DEF QueueInv, From, Faults
<1>7. DOMAIN body[d].items \subseteq 1..2
  BY BodyFacts DEF IInv
<1>8. Answered(d)'
  BY <1>1, <1>2, <1>4, <1>5, <1>7 DEF Answered, From, Faults, SignatureAccepted
<1>. QED  BY <1>3, <1>6, <1>8 DEF CallOK

\* So an action of a call has to show only what it says of its own.
LEMMA CallStepKeeps ==
    ASSUME IInv, NEW c \in Calls, CallFrame(c), CallOK(c)', BrokerInv'
    PROVE  IInv'
<1>1. \A d \in Calls : CallOK(d)'
  BY OtherCall DEF CallFrame
<1>2. \A m \in messages' : m \in Message /\ MessageInv(m)'
  <2>1. \A m \in messages : m \in Message /\ MessageInv(m)'
    BY MessageKept DEF IInv, CallFrame, TypeOK
  <2>. QED  BY <2>1 DEF CallFrame
<1>3. queued' \in [Ids -> 0..(MaxFaults + 1)]
  <2>1. queued' \in [Ids -> Nat] /\ faults' \in [Faults -> 0..MaxFaults]
    BY DEF CallFrame, Grows
  <2>2. \A d \in Calls : (From(d, "meta") \/ From(d, "genesys") \/ From(d, "route"))'
    BY BodyFacts DEF From, IInv, CallFrame, body
  <2>3. \A d \in Calls, n \in 1..2 : queued'[<<d, n>>] \in 0..(MaxFaults + 1)
    <3>. SUFFICES ASSUME NEW d \in Calls, NEW n \in 1..2
                  PROVE  queued'[<<d, n>>] \in 0..(MaxFaults + 1)
      OBVIOUS
    <3>1. MaxFaults \in Nat /\ faults'["crash"] \in 0..MaxFaults /\ queued'[<<d, n>>] \in Nat
      BY <2>1, MessagePipelineAssumption DEF Faults, Ids
    <3>2. QueueInv(d)'
      BY <1>1 DEF CallOK
    <3>3. queued'[<<d, n>>] <= faults'["crash"] + 1 \/ queued'[<<d, n>>] <= 1
      BY <2>2, <3>1, <3>2 DEF QueueInv, From
    <3>. QED  BY <3>1, <3>3
  <2>4. ASSUME NEW i \in Ids PROVE queued'[i] \in 0..(MaxFaults + 1)
    <3>1. PICK d \in Calls, n \in 1..2 : i = <<d, n>>
      BY DEF Ids
    <3>. QED  BY <2>3, <3>1
  <2>. QED  BY <2>1, <2>4
<1>4. TypeOK'
  BY <1>2, <1>3 DEF TypeOK, IInv, CallFrame, Grows
<1>. QED  BY <1>1, <1>2, <1>4 DEF IInv, CallOK

\* An action that touches no call, and messages only in order.
LEMMA CallsKept ==
    ASSUME IInv, UNCHANGED <<setup, pc, index, answer, queued>>, Grows,
           broker' \in {"up", "broken", "down"}, BrokerInv',
           \A m \in messages' : m \in Message /\ MessageInv(m)'
    PROVE  IInv'
<1>1. \A d \in Calls : CallOK(d)'
  BY OtherCall DEF Untouched
<1>2. TypeOK'
  BY DEF TypeOK, IInv, Grows
<1>. QED  BY <1>1, <1>2 DEF IInv, CallOK

-----------------------------------------------------------------------------
(* Calls of Meta *)

\* Nothing is put in a queue.
Silent == UNCHANGED <<setup, broker, queued, messages>>

\* A call that queues nothing leaves the others and the queues alone.
LEMMA SilentFrame ==
    ASSUME IInv, NEW c \in Calls, Silent, Grows,
           pc' \in [Calls -> {"sent", "verify", "secret", "item", "media", "retry", "retryBare", "done"}],
           index' \in [Calls -> 1..2], answer' \in [Calls -> {"none", "ok", "error"}],
           \A d \in Calls \ {c} : Untouched(d)
    PROVE  CallFrame(c) /\ BrokerInv'
<1>. USE DEF Silent
<1>1. BrokerInv'
  BY DEF IInv, BrokerInv, TypeOK, Grows, Faults
<1>2. CallFrame(c)
  BY DEF CallFrame, IInv, TypeOK
<1>. QED  BY <1>1, <1>2

\* Where a call that queues nothing goes.
LEMMA SilentStep ==
    ASSUME IInv, NEW c \in Calls, Silent, Grows,
           NEW p \in {"sent", "verify", "secret", "item", "media", "retry", "retryBare", "done"},
           pc' = [pc EXCEPT ![c] = p],
           NEW i \in 1..2, index' = [index EXCEPT ![c] = i],
           NEW a \in {"none", "ok", "error"}, answer' = [answer EXCEPT ![c] = a]
    PROVE  /\ CallFrame(c) /\ BrokerInv'
           /\ pc'[c] = p /\ index'[c] = i /\ answer'[c] = a
<1>1. /\ pc' \in [Calls -> {"sent", "verify", "secret", "item", "media", "retry", "retryBare", "done"}]
      /\ index' \in [Calls -> 1..2] /\ answer' \in [Calls -> {"none", "ok", "error"}]
      /\ pc'[c] = p /\ index'[c] = i /\ answer'[c] = a
      /\ \A d \in Calls \ {c} : Untouched(d)
  BY DEF IInv, TypeOK, Untouched, Silent
<1>. QED  BY <1>1, SilentFrame

\* What putting a message in a queue does.
LEMMA PutFacts ==
    ASSUME IInv, NEW c \in Calls,
           NEW q \in Queues, NEW t \in Texts, NEW m \in Media,
           Put(Id(c), q, t, m)
    PROVE  /\ queued' \in [Ids -> Nat]
           /\ \A d \in Calls, n \in 1..2 :
                  d # c \/ n # index[c] => queued'[<<d, n>>] = queued[<<d, n>>]
           /\ queued'[<<c, index[c]>>] <= queued[<<c, index[c]>>] + 1
           /\ queued'[<<c, index[c]>>] > 0 \/ faults["broker"] > 0
           /\ messages \subseteq messages'
           /\ \A new \in messages' \ messages :
                  new = [id |-> Id(c), at |-> q, text |-> t, media |-> m] /\ new \in Message
<1>1. index[c] \in 1..2 /\ Id(c) \in Ids /\ Id(c) = <<c, index[c]>>
  BY CurrentFacts DEF IInv, Id
<1>2. MaxFaults \in Nat /\ queued \in [Ids -> Nat] /\ queued[Id(c)] \in Nat
  BY <1>1, MessagePipelineAssumption DEF IInv, TypeOK
<1>3. [id |-> Id(c), at |-> q, text |-> t, media |-> m] \in Message
  BY <1>1 DEF Message
<1>4. CASE broker = "up"
  <2>1. /\ queued' = [queued EXCEPT ![Id(c)] = @ + 1]
        /\ messages' = messages \cup {[id |-> Id(c), at |-> q, text |-> t, media |-> m]}
    BY <1>4 DEF Put
  <2>2. queued' \in [Ids -> Nat] /\ queued'[Id(c)] = queued[Id(c)] + 1
    BY <1>1, <1>2, <2>1
  <2>3. \A d \in Calls, n \in 1..2 :
            d # c \/ n # index[c] => queued'[<<d, n>>] = queued[<<d, n>>]
    BY <1>1, <1>2, <2>1 DEF Ids
  <2>. QED  BY <1>1, <1>2, <1>3, <2>1, <2>2, <2>3
<1>5. CASE broker # "up"
  <2>1. faults["broker"] > 0
    BY <1>5 DEF IInv, BrokerInv
  <2>. QED  BY <1>1, <1>2, <1>5, <2>1 DEF Put
<1>. QED  BY <1>4, <1>5

\* Looking up the tenant of a call of Meta keeps the invariant.
LEMMA LooksUpTenantKeeps ==
    ASSUME IInv, NEW c \in Calls, LooksUpTenant(c)
    PROVE  IInv'
<1>1. TypeOK /\ CallOK(c) /\ Silent /\ From(c, "meta") /\ pc[c] = "sent" /\ index[c] \in 1..2
  BY CurrentFacts DEF IInv, CallOK, LooksUpTenant, Silent
<1>2. index' = [index EXCEPT ![c] = index[c]] /\ UNCHANGED setup
  BY DEF LooksUpTenant, IInv, TypeOK
<1>3. CASE pc' = [pc EXCEPT ![c] = "verify"] /\ UNCHANGED <<answer, faults>>
  <2>1. /\ Grows
        /\ answer' = [answer EXCEPT ![c] = answer[c]] /\ answer[c] \in {"none", "ok", "error"}
    BY <1>1, <1>3, NoFaultGrows DEF TypeOK
  <2>2. /\ CallFrame(c) /\ BrokerInv'
        /\ pc'[c] = "verify" /\ index'[c] = index[c] /\ answer'[c] = answer[c]
    BY <1>1, <1>2, <1>3, <2>1, SilentStep
  <2>3. CallOK(c)'
    BY <1>1, <1>2, <1>3, <2>2
       DEF CallOK, CallInv, QueueInv, Answered, From, body, Silent
  <2>. QED  BY <2>2, <2>3, CallStepKeeps
<1>4. CASE Fault("lookup") /\ Answers(c, "ok")
  <2>1. Grows /\ faults'["lookup"] > 0
    BY <1>1, <1>4, FaultGrows DEF Faults
  <2>2. /\ CallFrame(c) /\ BrokerInv'
        /\ pc'[c] = "done" /\ index'[c] = index[c] /\ answer'[c] = "ok"
    BY <1>1, <1>2, <1>4, <2>1, SilentStep DEF Answers
  <2>3. CallInv(c)' /\ Answered(c)'
    BY <1>1, <1>2, <2>1, <2>2 DEF CallOK, CallInv, Answered, From, body
  <2>4. QueueInv(c)'
    <3>1. \A n \in 1..2 : queued[<<c, n>>] <= faults["crash"]
                             + (IF pc[c] = "done" \/ n < index[c] THEN 1 ELSE 0)
      BY <1>1 DEF CallOK, QueueInv
    <3>2. /\ faults["crash"] \in Nat /\ faults'["crash"] \in Nat /\ faults["crash"] <= faults'["crash"]
          /\ \A n \in 1..2 : queued[<<c, n>>] \in Nat
      BY <1>1, <2>1 DEF Grows, TypeOK, Faults, Ids
    <3>. QED  BY <1>1, <1>2, <2>2, <3>1, <3>2 DEF QueueInv, From, body, Silent
  <2>. QED  BY <2>2, <2>3, <2>4, CallStepKeeps DEF CallOK
<1>. QED  BY <1>3, <1>4 DEF LooksUpTenant

\* Verifying a call of Meta keeps the invariant.
LEMMA ResolveMetaKeeps ==
    ASSUME IInv, NEW c \in Calls, ResolveMeta(c)
    PROVE  IInv'
<1>1. TypeOK /\ CallOK(c) /\ Silent /\ pc[c] = "verify" /\ index[c] \in 1..2 /\ Grows
  BY CurrentFacts, NoFaultGrows DEF IInv, CallOK, ResolveMeta, Silent
<1>2. /\ index' = [index EXCEPT ![c] = index[c]] /\ UNCHANGED <<setup, faults, queued>>
      /\ answer[c] \in {"none", "ok", "error"}
  BY DEF ResolveMeta, IInv, TypeOK
<1>3. From(c, "meta")
  BY <1>1, BodyFacts DEF CallOK, CallInv, From
<1>4. CASE SignatureAccepted
  <2>1. pc' = [pc EXCEPT ![c] = "item"] /\ answer' = [answer EXCEPT ![c] = answer[c]]
    BY <1>1, <1>4 DEF ResolveMeta, TypeOK
  <2>2. /\ CallFrame(c) /\ BrokerInv'
        /\ pc'[c] = "item" /\ index'[c] = index[c] /\ answer'[c] = answer[c]
    BY <1>1, <1>2, <2>1, SilentStep
  <2>3. CallOK(c)'
    BY <1>1, <1>2, <1>3, <1>4, <2>2
       DEF CallOK, CallInv, QueueInv, Answered, From, body, SignatureAccepted
  <2>. QED  BY <2>2, <2>3, CallStepKeeps
<1>5. CASE ~SignatureAccepted
  <2>1. pc' = [pc EXCEPT ![c] = "done"] /\ answer' = [answer EXCEPT ![c] = "ok"]
    BY <1>1, <1>5 DEF ResolveMeta, Answers
  <2>2. /\ CallFrame(c) /\ BrokerInv'
        /\ pc'[c] = "done" /\ index'[c] = index[c] /\ answer'[c] = "ok"
    BY <1>1, <1>2, <2>1, SilentStep
  <2>3. CallInv(c)' /\ Answered(c)'
    BY <1>1, <1>2, <1>3, <1>5, <2>2
       DEF CallOK, CallInv, Answered, From, body, SignatureAccepted
  <2>4. \A n \in 1..2 : queued[<<c, n>>] \in Nat /\ faults["crash"] \in Nat
    BY <1>1 DEF TypeOK, Ids, Faults
  <2>5. QueueInv(c)'
    BY <1>1, <1>2, <1>3, <2>2, <2>4 DEF CallOK, QueueInv, From, body
  <2>. QED  BY <2>2, <2>3, <2>5, CallStepKeeps DEF CallOK
<1>. QED  BY <1>4, <1>5

\* Publishing an item and going on to the next: the item is queued, or a
\* connection was lost.
LEMMA PublishMetaKeeps ==
    ASSUME IInv, NEW c \in Calls, From(c, "meta"), pc[c] \in {"item", "media"},
           Grows, UNCHANGED <<setup, broker>>,
           NEW q \in {"inbound-whatsapp-messages", "whatsapp-status-updates"},
           NEW t \in Texts, NEW m \in Media, PublishMeta(c, q, t, m),
           q = "inbound-whatsapp-messages" =>
               /\ t = Extracted(Current(c)).text
               /\ m = Current(c).media \/ (m = "none" /\ faults'["media"] > 0)
    PROVE  IInv'
<1>1. /\ TypeOK /\ CallInv(c) /\ QueueInv(c) /\ index[c] \in 1..2
      /\ Put(Id(c), q, t, m) /\ NextItem(c)
      /\ Len(body[c].items) \in {1, 2} /\ DOMAIN body[c].items = 1..Len(body[c].items)
      /\ index[c] \in DOMAIN body[c].items
  BY CurrentFacts, BodyFacts DEF IInv, PublishMeta, CallInv
<1>2. q \in Queues
  BY DEF Queues
<1>3. /\ queued' \in [Ids -> Nat]
      /\ \A d \in Calls, n \in 1..2 :
             d # c \/ n # index[c] => queued'[<<d, n>>] = queued[<<d, n>>]
      /\ queued'[<<c, index[c]>>] <= queued[<<c, index[c]>>] + 1
      /\ queued'[<<c, index[c]>>] > 0 \/ faults["broker"] > 0
      /\ messages \subseteq messages'
      /\ \A new \in messages' \ messages :
             new = [id |-> Id(c), at |-> q, text |-> t, media |-> m] /\ new \in Message
  BY <1>1, <1>2, PutFacts
<1>4. \A new \in messages' \ messages : MessageInv(new)'
  <2>. SUFFICES ASSUME NEW new \in messages' \ messages
                PROVE  MessageInv(new)'
    OBVIOUS
  <2>1. /\ new.id = <<c, index[c]>> /\ new.id[1] = c /\ new.id[2] = index[c]
        /\ new.at = q /\ new.text = t /\ new.media = m
    BY <1>3 DEF Id
  <2>2. q = "inbound-whatsapp-messages" => Carries(new)'
    BY <2>1 DEF Carries, Current, Extracted, body
  <2>. QED  BY <1>1, <2>1, <2>2 DEF MessageInv, body, From, InboundPlaces, StatusPlaces
<1>5. BrokerInv'
  BY <1>1 DEF IInv, BrokerInv, TypeOK, Grows, Faults
<1>6. /\ \A n \in 1..2 : queued[<<c, n>>] \in Nat /\ queued'[<<c, n>>] \in Nat
      /\ \A f \in Faults : faults[f] \in Nat /\ faults'[f] \in Nat /\ faults[f] <= faults'[f]
  BY <1>1, <1>3 DEF TypeOK, Ids, Grows
<1>7. CASE index[c] < Len(body[c].items)
  <2>1. /\ index' = [index EXCEPT ![c] = @ + 1] /\ pc' = [pc EXCEPT ![c] = "item"]
        /\ UNCHANGED answer /\ index[c] = 1 /\ Len(body[c].items) = 2
    <3>. DEFINE l == Len(body[c].items)
    <3>0. l \in {1, 2} /\ index[c] \in 1..2 /\ index[c] < l
      BY <1>1, <1>7
    <3>. HIDE DEF l
    <3>1. index[c] = 1 /\ l = 2
      BY <3>0
    <3>. QED  BY <1>1, <1>7, <3>1 DEF NextItem, l
  <2>2. index'[c] = 2 /\ pc'[c] = "item" /\ answer'[c] = answer[c] /\ body' = body
    BY <1>1, <2>1 DEF TypeOK, body
  <2>3. \A d \in Calls \ {c} : Untouched(d)
    BY <1>1, <1>3, <2>1 DEF TypeOK, Untouched
  <2>4. CallFrame(c)
    BY <1>1, <1>3, <1>4, <2>1, <2>3 DEF CallFrame, TypeOK
  <2>5. CallInv(c)'
    BY <1>1, <2>1, <2>2 DEF CallInv, From, SignatureAccepted
  <2>6. QueueInv(c)'
    <3>1. queued[<<c, 1>>] <= faults["crash"] /\ queued[<<c, 2>>] <= faults["crash"]
      BY <1>1, <1>6, <2>1 DEF QueueInv, Faults
    <3>2. queued'[<<c, 1>>] <= faults'["crash"] + 1 /\ queued'[<<c, 2>>] <= faults'["crash"]
      BY <1>3, <1>6, <2>1, <3>1 DEF Faults
    <3>3. queued'[<<c, 1>>] > 0 \/ faults'["broker"] > 0
      BY <1>3, <1>6, <2>1 DEF Faults
    <3>4. From(c, "meta")' /\ ~From(c, "genesys")' /\ ~From(c, "route")'
      BY <2>2 DEF From
    <3>5. \A n \in 1..2 : n = 1 \/ n = 2
      OBVIOUS
    <3>. QED  BY <1>6, <2>2, <3>2, <3>3, <3>4, <3>5 DEF QueueInv, Faults
  <2>7. Answered(c)'
    BY <2>2 DEF Answered
  <2>. QED  BY <1>5, <2>4, <2>5, <2>6, <2>7, CallStepKeeps DEF CallOK
<1>8. CASE ~(index[c] < Len(body[c].items))
  <2>1. /\ pc' = [pc EXCEPT ![c] = "done"] /\ answer' = [answer EXCEPT ![c] = "ok"]
        /\ UNCHANGED index /\ index[c] = Len(body[c].items)
    BY <1>1, <1>8 DEF NextItem, Answers
  <2>2. pc'[c] = "done" /\ answer'[c] = "ok" /\ index'[c] = index[c] /\ body' = body
    BY <1>1, <2>1 DEF TypeOK, body
  <2>3. \A d \in Calls \ {c} : Untouched(d)
    BY <1>1, <1>3, <2>1 DEF TypeOK, Untouched
  <2>4. CallFrame(c)
    BY <1>1, <1>3, <1>4, <2>1, <2>3 DEF CallFrame, TypeOK
  <2>5. CallInv(c)'
    BY <1>1, <2>1, <2>2 DEF CallInv, From, SignatureAccepted
  <2>6. QueueInv(c)'
    <3>1. \A n \in 1..2 :
              queued[<<c, n>>] <= faults["crash"] + (IF n < index[c] THEN 1 ELSE 0)
      BY <1>1 DEF QueueInv
    <3>2. ASSUME NEW n \in 1..2 PROVE queued'[<<c, n>>] <= faults'["crash"] + 1
      <4>1. /\ faults["crash"] \in Nat /\ faults'["crash"] \in Nat
            /\ faults["crash"] <= faults'["crash"]
        BY <1>6 DEF Faults
      <4>2. CASE n = index[c]
        <5>1. queued[<<c, n>>] <= faults["crash"]
          <6>1. ~(n < index[c])
            BY <4>2
          <6>. QED  BY <1>6, <3>1, <4>1, <6>1
        <5>2. queued'[<<c, n>>] <= queued[<<c, n>>] + 1
          BY <1>3, <4>2
        <5>. QED  BY <1>6, <4>1, <5>1, <5>2
      <4>3. CASE n # index[c]
        <5>1. queued[<<c, n>>] <= faults["crash"] + 1
          <6>1. (IF n < index[c] THEN 1 ELSE 0) \in {0, 1}
            OBVIOUS
          <6>. QED  BY <1>6, <3>1, <4>1, <6>1
        <5>2. queued'[<<c, n>>] = queued[<<c, n>>]
          BY <1>3, <4>3
        <5>. QED  BY <1>6, <4>1, <5>1, <5>2
      <4>. QED  BY <4>2, <4>3
    <3>3. From(c, "meta")' /\ ~From(c, "genesys")' /\ ~From(c, "route")'
      BY <2>2 DEF From
    <3>. QED  BY <1>6, <2>2, <3>2, <3>3 DEF QueueInv, Faults
  <2>7. Answered(c)'
    <3>1. \A n \in 1..2 : n < index[c] => queued[<<c, n>>] > 0 \/ faults["broker"] > 0
      BY <1>1 DEF QueueInv
    <3>2. \A n \in 1..index[c] : queued'[<<c, n>>] > 0 \/ faults'["broker"] > 0
      <4>. SUFFICES ASSUME NEW n \in 1..index[c]
                    PROVE  queued'[<<c, n>>] > 0 \/ faults'["broker"] > 0
        OBVIOUS
      <4>1. CASE n = index[c]
        BY <1>3, <1>6, <4>1 DEF Faults
      <4>2. CASE n # index[c]
        <5>1. n \in 1..2 /\ n < index[c]
          BY <1>1, <4>2
        <5>. QED  BY <1>3, <1>6, <3>1, <4>2, <5>1 DEF Faults
      <4>. QED  BY <4>1, <4>2
    <3>. QED  BY <1>1, <2>1, <2>2, <3>2 DEF Answered
  <2>. QED  BY <1>5, <2>4, <2>5, <2>6, <2>7, CallStepKeeps DEF CallOK
<1>. QED  BY <1>7, <1>8

\* Queueing an item of Meta's call keeps the invariant.
LEMMA ProcessItemKeeps ==
    ASSUME IInv, NEW c \in Calls, ProcessItem(c)
    PROVE  IInv'
<1>1. /\ TypeOK /\ CallOK(c) /\ Current(c) \in Item /\ Grows
      /\ Extracted(Current(c)).text \in Texts
      /\ Extracted(Current(c)).media = Current(c).media
      /\ "none" \in Texts /\ "none" \in Media
      /\ From(c, "meta") /\ pc[c] = "item" /\ UNCHANGED <<setup, broker, faults>>
  BY CurrentFacts, NoFaultGrows DEF IInv, CallOK, ProcessItem, Texts, Media
<1>2. CASE Current(c).kind = "status"
  <2>1. PublishMeta(c, "whatsapp-status-updates", "none", "none")
    BY <1>2 DEF ProcessItem
  <2>. QED  BY <1>1, <2>1, PublishMetaKeeps
<1>3. CASE Current(c).kind # "status" /\ Current(c).media # "none"
  <2>1. /\ pc' = [pc EXCEPT ![c] = "media"]
        /\ UNCHANGED <<index, answer, queued, messages>>
    BY <1>1, <1>3 DEF ProcessItem
  <2>2. /\ Silent /\ index' = [index EXCEPT ![c] = index[c]] /\ index[c] \in 1..2
        /\ answer' = [answer EXCEPT ![c] = answer[c]] /\ answer[c] \in {"none", "ok", "error"}
    BY <1>1, <2>1 DEF Silent, TypeOK
  <2>3. /\ CallFrame(c) /\ BrokerInv'
        /\ pc'[c] = "media" /\ index'[c] = index[c] /\ answer'[c] = answer[c]
    BY <1>1, <2>1, <2>2, SilentStep
  <2>4. CallOK(c)'
    BY <1>1, <2>1, <2>3
       DEF CallOK, CallInv, QueueInv, Answered, From, body, SignatureAccepted
  <2>. QED  BY <2>3, <2>4, CallStepKeeps
<1>4. CASE Current(c).kind # "status" /\ Current(c).media = "none"
  <2>1. PublishMeta(c, "inbound-whatsapp-messages", Extracted(Current(c)).text, "none")
    BY <1>1, <1>4 DEF ProcessItem
  <2>. QED  BY <1>1, <1>4, <2>1, PublishMetaKeeps
<1>. QED  BY <1>2, <1>3, <1>4

\* Storing an item's media keeps the invariant.
LEMMA SaveMediaKeeps ==
    ASSUME IInv, NEW c \in Calls, SaveMedia(c)
    PROVE  IInv'
<1>1. /\ TypeOK /\ Extracted(Current(c)).text \in Texts
      /\ Extracted(Current(c)).media = Current(c).media /\ Current(c).media \in Media
      /\ "none" \in Media
      /\ From(c, "meta") /\ pc[c] = "media" /\ UNCHANGED <<setup, broker>>
  BY CurrentFacts DEF IInv, SaveMedia, Media
<1>2. CASE /\ PublishMeta(c, "inbound-whatsapp-messages",
                          Extracted(Current(c)).text, Extracted(Current(c)).media)
           /\ UNCHANGED faults
  <2>1. Grows
    BY <1>1, <1>2, NoFaultGrows
  <2>. QED  BY <1>1, <1>2, <2>1, PublishMetaKeeps
<1>3. CASE /\ Fault("media")
           /\ PublishMeta(c, "inbound-whatsapp-messages", Extracted(Current(c)).text, "none")
  <2>1. Grows /\ faults'["media"] > 0
    BY <1>1, <1>3, FaultGrows DEF Faults
  <2>. QED  BY <1>1, <1>3, <2>1, PublishMetaKeeps
<1>. QED  BY <1>2, <1>3 DEF SaveMedia

-----------------------------------------------------------------------------
(* Calls of Genesys *)

\* A step of such a call that puts nothing in a queue, and does not end it well
\* unless there is nothing to queue.
LEMMA GenesysSilentKeeps ==
    ASSUME IInv, NEW c \in Calls, From(c, "genesys"), pc[c] # "done",
           Silent, Grows, UNCHANGED index,
           NEW p \in {"sent", "verify", "secret", "item", "media", "retry", "retryBare", "done"},
           p \notin {"verify", "media"},
           pc' = [pc EXCEPT ![c] = p],
           NEW a \in {"none", "ok", "error"}, answer' = [answer EXCEPT ![c] = a],
           p \in {"sent", "secret"} => a = "none",
           p \in {"item", "retry", "retryBare"} =>
               a = "ok" /\ Current(c).kind # "ignored",
           p = "done" => a # "ok" \/ Current(c).kind = "ignored"
    PROVE  IInv'
<1>1. /\ TypeOK /\ CallInv(c) /\ QueueInv(c) /\ index[c] \in 1..2
      /\ Len(body[c].items) = 1 /\ DOMAIN body[c].items = 1..Len(body[c].items)
  BY CurrentFacts, BodyFacts DEF IInv, From
<1>3. /\ pc' \in [Calls -> {"sent", "verify", "secret", "item", "media", "retry", "retryBare", "done"}]
      /\ index' \in [Calls -> 1..2] /\ answer' \in [Calls -> {"none", "ok", "error"}]
      /\ pc'[c] = p /\ index'[c] = index[c] /\ answer'[c] = a
      /\ \A d \in Calls \ {c} : Untouched(d)
  BY <1>1 DEF Silent, TypeOK, Untouched
<1>4. /\ CallFrame(c) /\ BrokerInv'
      /\ pc'[c] = p /\ index'[c] = index[c] /\ answer'[c] = a
  BY <1>3, SilentFrame
<1>5. body' = body /\ From(c, "genesys")' /\ ~From(c, "meta")' /\ ~From(c, "route")'
  BY DEF Silent, body, From
<1>6. CallInv(c)'
  BY <1>1, <1>4, <1>5 DEF CallInv, Current
<1>7. \A n \in 1..2 : queued[<<c, n>>] \in Nat /\ queued[<<c, n>>] <= 0
                      /\ queued'[<<c, n>>] = queued[<<c, n>>]
  BY <1>1 DEF QueueInv, TypeOK, Ids, Silent
<1>8. QueueInv(c)'
  BY <1>4, <1>5, <1>7 DEF QueueInv
<1>9. Answered(c)'
  <2>1. index[c] = 1 /\ DOMAIN body[c].items = {1}
    BY <1>1 DEF CallInv
  <2>. QED  BY <1>4, <1>5, <2>1 DEF Answered, Current
<1>. QED  BY <1>4, <1>6, <1>8, <1>9, CallStepKeeps DEF CallOK

\* Looking up the tenant of a call of Genesys keeps the invariant.
LEMMA LooksUpIntegrationKeeps ==
    ASSUME IInv, NEW c \in Calls, LooksUpIntegration(c)
    PROVE  IInv'
<1>1. /\ TypeOK /\ From(c, "genesys") /\ pc[c] = "sent" /\ Silent /\ UNCHANGED index
      /\ answer[c] = "none"
  BY DEF IInv, LooksUpIntegration, Silent, CallInv
<1>2. CASE Fault("lookup") /\ Answers(c, "error")
  <2>1. Grows
    BY <1>1, <1>2, FaultGrows DEF Faults
  <2>. QED  BY <1>1, <1>2, <2>1, GenesysSilentKeeps DEF Answers
<1>3. CASE pc' = [pc EXCEPT ![c] = "secret"] /\ UNCHANGED <<answer, faults>>
  <2>1. Grows /\ answer' = [answer EXCEPT ![c] = "none"]
    BY <1>1, <1>3, NoFaultGrows DEF TypeOK
  <2>. QED  BY <1>1, <1>3, <2>1, GenesysSilentKeeps
<1>. QED  BY <1>2, <1>3 DEF LooksUpIntegration

\* Verifying a call of Genesys keeps the invariant.
LEMMA ValidateGenesysKeeps ==
    ASSUME IInv, NEW c \in Calls, ValidateGenesys(c)
    PROVE  IInv'
<1>1. TypeOK /\ CallInv(c) /\ pc[c] = "secret" /\ Silent /\ UNCHANGED index
  BY DEF IInv, ValidateGenesys, Silent
<1>2. From(c, "genesys")
  BY <1>1, BodyFacts DEF CallInv, From
<1>3. Grows
  BY <1>1, NoFaultGrows, FaultGrows DEF ValidateGenesys, Faults
<1>4. CASE Accepts(c)
  <2>. DEFINE p == IF Current(c).kind = "ignored" THEN "done" ELSE "item"
  <2>1. /\ pc' = [pc EXCEPT ![c] = p] /\ answer' = [answer EXCEPT ![c] = "ok"]
        /\ p \in {"item", "done"}
        /\ p = "item" => Current(c).kind # "ignored"
        /\ p = "done" => Current(c).kind = "ignored"
    BY <1>4 DEF Accepts
  <2>. HIDE DEF p
  <2>. QED  BY <1>1, <1>2, <1>3, <2>1, GenesysSilentKeeps
<1>5. CASE Answers(c, "error")
  BY <1>1, <1>2, <1>3, <1>5, GenesysSilentKeeps DEF Answers
<1>. QED  BY <1>4, <1>5 DEF ValidateGenesys

\* Publishing an event, or putting that off for 100 ms.
LEMMA PublishGenesysKeeps ==
    ASSUME IInv, NEW c \in Calls, From(c, "genesys"), pc[c] \in {"item", "retry", "retryBare"},
           Grows, NEW m \in Media, PublishGenesys(c, m)
    PROVE  IInv'
<1>1. /\ TypeOK /\ CallInv(c) /\ QueueInv(c) /\ index[c] \in 1..2
      /\ Current(c).text \in Texts
      /\ Len(body[c].items) = 1 /\ DOMAIN body[c].items = 1..Len(body[c].items)
      /\ UNCHANGED <<setup, index, answer, broker>>
      /\ answer[c] = "ok" /\ Current(c).kind # "ignored"
  BY CurrentFacts, BodyFacts DEF IInv, From, PublishGenesys, CallInv
<1>2. index[c] = 1
  BY <1>1 DEF CallInv
<1>3. CASE broker = "down" /\ pc[c] = "item"
  <2>. DEFINE p == IF m = Current(c).media THEN "retry" ELSE "retryBare"
  <2>1. /\ pc' = [pc EXCEPT ![c] = p] /\ p \in {"retry", "retryBare"}
        /\ answer' = [answer EXCEPT ![c] = "ok"] /\ Silent
    BY <1>1, <1>3 DEF PublishGenesys, Silent, TypeOK
  <2>. HIDE DEF p
  <2>. QED  BY <1>1, <1>3, <2>1, GenesysSilentKeeps
<1>4. CASE ~(broker = "down" /\ pc[c] = "item")
  <2>. DEFINE q == GenesysQueue(Current(c))
  <2>1. /\ pc' = [pc EXCEPT ![c] = "done"] /\ Put(Id(c), q, Current(c).text, m)
        /\ q \in {"outbound-genesys-messages", "genesys-status-updates"} /\ q \in Queues
    BY <1>4 DEF PublishGenesys, GenesysQueue, Queues
  <2>. HIDE DEF q
  <2>2. /\ queued' \in [Ids -> Nat]
        /\ \A d \in Calls, n \in 1..2 :
               d # c \/ n # index[c] => queued'[<<d, n>>] = queued[<<d, n>>]
        /\ queued'[<<c, index[c]>>] <= queued[<<c, index[c]>>] + 1
        /\ queued'[<<c, index[c]>>] > 0 \/ faults["broker"] > 0
        /\ messages \subseteq messages'
        /\ \A new \in messages' \ messages :
               /\ new = [id |-> Id(c), at |-> q, text |-> Current(c).text, media |-> m]
               /\ new \in Message
    BY <1>1, <2>1, PutFacts
  <2>3. body' = body /\ From(c, "genesys")' /\ ~From(c, "meta")' /\ ~From(c, "route")'
        /\ pc'[c] = "done" /\ index'[c] = 1 /\ answer'[c] = "ok"
    BY <1>1, <1>2, <2>1 DEF TypeOK, body, From
  <2>4. \A new \in messages' \ messages : MessageInv(new)'
    BY <2>1, <2>2, <2>3 DEF MessageInv, Id, From
  <2>5. \A d \in Calls \ {c} : Untouched(d)
    BY <1>1, <2>1, <2>2 DEF TypeOK, Untouched
  <2>6. CallFrame(c)
    BY <1>1, <2>1, <2>2, <2>4, <2>5 DEF CallFrame, TypeOK
  <2>7. /\ \A n \in 1..2 : /\ queued[<<c, n>>] \in Nat /\ queued'[<<c, n>>] \in Nat
                           /\ queued[<<c, n>>] <= 0
        /\ \A f \in Faults : faults[f] \in Nat /\ faults'[f] \in Nat /\ faults[f] <= faults'[f]
    BY <1>1, <2>2 DEF TypeOK, Ids, Grows, QueueInv
  <2>8. BrokerInv'
    BY <1>1, <2>7 DEF IInv, BrokerInv, Faults
  <2>9. CallInv(c)'
    BY <1>1, <1>2, <2>3 DEF CallInv
  <2>10. QueueInv(c)'
    <3>1. \A n \in 1..2 : queued'[<<c, n>>] <= 1
      BY <2>2, <2>7
    <3>. QED  BY <2>3, <3>1 DEF QueueInv
  <2>11. Answered(c)'
    <3>1. DOMAIN body[c].items = {1}
      BY <1>1
    <3>2. queued'[<<c, 1>>] > 0 \/ faults'["broker"] > 0
      BY <1>2, <2>2, <2>7 DEF Faults
    <3>. QED  BY <2>3, <3>1, <3>2 DEF Answered
  <2>. QED  BY <2>6, <2>8, <2>9, <2>10, <2>11, CallStepKeeps DEF CallOK
<1>. QED  BY <1>3, <1>4

\* Queueing an event of Genesys keeps the invariant.
LEMMA ProcessEventKeeps ==
    ASSUME IInv, NEW c \in Calls, ProcessEvent(c)
    PROVE  IInv'
<1>1. Grows /\ "none" \in Media
  BY NoFaultGrows DEF IInv, ProcessEvent, Media
<1>. QED  BY <1>1, PublishGenesysKeeps DEF ProcessEvent

\* Uploading an event's media keeps the invariant.
LEMMA UploadMediaKeeps ==
    ASSUME IInv, NEW c \in Calls, UploadMedia(c)
    PROVE  IInv'
<1>1. TypeOK /\ Current(c).media \in Media /\ "none" \in Media
  BY CurrentFacts DEF IInv, Media
<1>2. Grows
  BY <1>1, NoFaultGrows, FaultGrows DEF UploadMedia, Faults
<1>3. PublishGenesys(c, Current(c).media) \/ PublishGenesys(c, "none")
  BY DEF UploadMedia
<1>. QED  BY <1>1, <1>2, <1>3, PublishGenesysKeeps DEF UploadMedia

\* The retry of a publication keeps the invariant.
LEMMA RetryPublishKeeps ==
    ASSUME IInv, NEW c \in Calls, RetryPublish(c)
    PROVE  IInv'
<1>1. TypeOK /\ CallInv(c) /\ Current(c).media \in Media /\ "none" \in Media /\ Grows
  BY CurrentFacts, NoFaultGrows DEF IInv, Media, RetryPublish
<1>2. From(c, "genesys") /\ pc[c] \in {"item", "retry", "retryBare"}
  BY <1>1, BodyFacts DEF RetryPublish, CallInv, From
<1>3. PublishGenesys(c, Current(c).media) \/ PublishGenesys(c, "none")
  BY DEF RetryPublish
<1>. QED  BY <1>1, <1>2, <1>3, PublishGenesysKeeps

-----------------------------------------------------------------------------
(* The outbound transformer *)

\* Outputs that fit the queue and that Meta accepts.
Proper(outputs) ==
    /\ DOMAIN outputs \subseteq 1..2
    /\ \A n \in DOMAIN outputs :
           /\ outputs[n].text \in Texts /\ outputs[n].media \in Media
           /\ Acceptable(outputs[n])

\* What a transformer makes of an acceptable message is acceptable to Meta.
LEMMA OneOutput ==
    ASSUME NEW t \in Texts, NEW m \in Media, Acceptable([text |-> t, media |-> m])
    PROVE  Proper(Output(t, m))
<1>1. /\ DOMAIN Output(t, m) = {1}
      /\ Output(t, m)[1] = [text |-> t, media |-> m]
  BY DEF Output
<1>2. Output(t, m)[1].text = t /\ Output(t, m)[1].media = m
  BY <1>1
<1>. QED  BY <1>1, <1>2 DEF Proper

\* So is what it makes of two.
LEMMA TwoOutputs ==
    ASSUME NEW t \in Texts, NEW m \in Media, Acceptable([text |-> t, media |-> m]),
           NEW u \in Texts, NEW n \in Media, Acceptable([text |-> u, media |-> n])
    PROVE  Proper(Output(t, m) \o Output(u, n))
<1>. DEFINE o == Output(t, m) \o Output(u, n)
<1>1. DOMAIN o = {1, 2} /\ o[1] = [text |-> t, media |-> m] /\ o[2] = [text |-> u, media |-> n]
  BY DEF Output
<1>2. o[1].text = t /\ o[1].media = m /\ o[2].text = u /\ o[2].media = n
  BY <1>1
<1>. HIDE DEF o
<1>3. Proper(o)
  BY <1>1, <1>2 DEF Proper
<1>. QED  BY <1>3 DEF o

\* What the transformer makes of any input it takes for valid: captions are cut,
\* an audio goes without its text, and no text is blank or too long.
LEMMA TransformIsProper ==
    ASSUME TypeOK, NEW item \in Item, ValidInput(item)
    PROVE  Proper(TransformMessage(item))
<1>1. /\ item.text \in Texts /\ item.media \in Media
      /\ item.text \notin {"blank", "huge"}
      /\ item.text # "none" \/ item.media # "none"
  BY DEF Item, ValidInput
<1>2. Caption(item.text) \in {"none", "short"} /\ {"none", "short"} \subseteq Texts
  BY <1>1 DEF Caption, Texts
<1>3. setup.setting.audio \in {"separate_message", "discard_text", "text_only"}
  BY MessagePipelineAssumption DEF TypeOK, Setting
<1>4. item.text # "none" => Proper(Output(item.text, "none"))
  BY <1>1, OneOutput DEF Acceptable, Media
<1>5. ASSUME NEW type \in Media \ {"none", "exotic"}
      PROVE  Proper(MediaOutput(item.text, type))
  <2>1. CASE type = "audio" /\ item.text # "none"
    <3>1. "none" \in Texts /\ "audio" \in Media /\ "none" \in Media
      BY DEF Texts, Media
    <3>2. /\ Acceptable([text |-> "none", media |-> "audio"])
          /\ Acceptable([text |-> item.text, media |-> "none"])
      BY <1>1, <2>1 DEF Acceptable
    <3>3. Proper(Output("none", "audio"))
      BY <3>1, <3>2, OneOutput
    <3>4. Proper(Output("none", "audio") \o Output(item.text, "none"))
      BY <1>1, <3>1, <3>2, TwoOutputs
    <3>. QED  BY <1>3, <1>4, <2>1, <3>3, <3>4 DEF MediaOutput, AudioWithText
  <2>2. CASE ~(type = "audio" /\ item.text # "none")
    <3>1. type = "audio" => Caption(item.text) = "none"
      BY <2>2 DEF Caption
    <3>2. Acceptable([text |-> Caption(item.text), media |-> type])
      BY <1>2, <1>5, <3>1 DEF Acceptable
    <3>3. Proper(Output(Caption(item.text), type))
      BY <1>2, <1>5, <3>2, OneOutput
    <3>. QED  BY <2>2, <3>3 DEF MediaOutput
  <2>. QED  BY <2>1, <2>2
<1>6. Proper(<<>>)
  BY DEF Proper
<1>7. Proper(UnsupportedMime(item.text))
  <2>1. Proper(MediaOutput(item.text, "document"))
    BY <1>5 DEF Media
  <2>. QED  BY <1>4, <1>6, <2>1 DEF UnsupportedMime
<1>8. CASE item.media = "none"
  BY <1>1, <1>4, <1>8 DEF TransformMessage
<1>9. CASE item.media = "exotic"
  BY <1>7, <1>9 DEF TransformMessage
<1>10. CASE item.media \notin {"none", "exotic"}
  BY <1>1, <1>5, <1>10 DEF TransformMessage
<1>. QED  BY <1>8, <1>9, <1>10

\* A transformer's route keeps the invariant.
LEMMA TransformRouteKeeps ==
    ASSUME IInv, NEW c \in Calls, TransformRoute(c)
    PROVE  IInv'
<1>. DEFINE outputs == TransformMessage(Current(c))
            sent == {[id |-> <<c, n>>, at |-> "outbound-ready", text |-> outputs[n].text,
                      media |-> outputs[n].media] : n \in DOMAIN outputs}
<1>1. /\ TypeOK /\ CallInv(c) /\ QueueInv(c) /\ Current(c) \in Item
      /\ From(c, "route") /\ ~From(c, "meta") /\ ~From(c, "genesys")
      /\ UNCHANGED <<setup, index, broker, faults>> /\ Grows /\ body' = body
  BY CurrentFacts, NoFaultGrows DEF IInv, TransformRoute, From, body
<1>2. (From(c, "route") /\ ~From(c, "meta") /\ ~From(c, "genesys"))'
  BY <1>1 DEF From
<1>3. BrokerInv'
  BY <1>1 DEF IInv, BrokerInv
<1>4. \A n \in 1..2 : queued[<<c, n>>] \in Nat /\ queued[<<c, n>>] <= 1
  BY <1>1 DEF QueueInv, TypeOK, Ids
<1>5. CASE ~ValidInput(Current(c)) \/ outputs = <<>>
  <2>1. /\ pc' = [pc EXCEPT ![c] = "done"] /\ answer' = [answer EXCEPT ![c] = "error"]
        /\ UNCHANGED <<messages, queued>>
    BY <1>5 DEF TransformRoute, Answers
  <2>2. \A d \in Calls \ {c} : Untouched(d)
    BY <1>1, <2>1 DEF TypeOK, Untouched
  <2>3. CallFrame(c)
    BY <1>1, <2>1, <2>2, SilentFrame DEF Silent, TypeOK
  <2>4. pc'[c] = "done" /\ index'[c] = index[c]
    BY <1>1, <2>1 DEF TypeOK
  <2>5. CallOK(c)'
    BY <1>1, <1>2, <1>4, <2>1, <2>4 DEF CallOK, CallInv, QueueInv, Answered
  <2>. QED  BY <1>3, <2>3, <2>5, CallStepKeeps
<1>6. CASE ValidInput(Current(c)) /\ outputs # <<>>
  <2>1. /\ pc' = [pc EXCEPT ![c] = "done"] /\ answer' = [answer EXCEPT ![c] = "ok"]
        /\ messages' = messages \cup sent
        /\ queued' = [i \in Ids |-> IF i[1] = c /\ i[2] \in DOMAIN outputs
                                      THEN 1 ELSE queued[i]]
    BY <1>6 DEF TransformRoute, Answers
  <2>2. Proper(outputs)
    BY <1>1, <1>6, TransformIsProper
  <2>. HIDE DEF outputs
  <2>3. queued' \in [Ids -> Nat]
    <3>1. \A i \in Ids : queued[i] \in Nat
      BY <1>1 DEF TypeOK
    <3>. QED  BY <2>1, <3>1
  <2>4. \A d \in Calls \ {c} : Untouched(d)
    BY <1>1, <2>1 DEF TypeOK, Untouched, Ids
  <2>5. \A n \in 1..2 : queued'[<<c, n>>] <= 1
    BY <1>4, <2>1 DEF Ids
  <2>6. ASSUME NEW new \in messages' \ messages
        PROVE  new \in Message /\ MessageInv(new)'
    <3>1. PICK n \in DOMAIN outputs :
              new = [id |-> <<c, n>>, at |-> "outbound-ready", text |-> outputs[n].text,
                     media |-> outputs[n].media]
      BY <2>1
    <3>2. /\ n \in 1..2 /\ outputs[n].text \in Texts /\ outputs[n].media \in Media
          /\ Acceptable(outputs[n])
      BY <2>2 DEF Proper
    <3>3. new \in Message
      BY <3>1, <3>2 DEF Message, Ids, Queues
    <3>4. new.id[1] = c /\ new.text = outputs[n].text /\ new.media = outputs[n].media
      BY <3>1
    <3>5. Acceptable(new)
      BY <3>2, <3>4 DEF Acceptable
    <3>. QED  BY <1>2, <3>3, <3>4, <3>5 DEF MessageInv, Acceptable
  <2>7. CallFrame(c)
    BY <1>1, <2>1, <2>3, <2>4, <2>6 DEF CallFrame, TypeOK
  <2>8. pc'[c] = "done" /\ index'[c] = index[c]
    BY <1>1, <2>1 DEF TypeOK
  <2>9. CallOK(c)'
    BY <1>1, <1>2, <2>5, <2>8 DEF CallOK, CallInv, QueueInv, Answered
  <2>. QED  BY <1>3, <2>7, <2>9, CallStepKeeps
<1>. QED  BY <1>5, <1>6

-----------------------------------------------------------------------------
(* Handlers of the queues *)

\* A message that moves on in order.
LEMMA MoveKeeps ==
    ASSUME IInv, NEW m \in messages, Grows, Handled,
           NEW to \in Queues \cup Ends, EndsAt(m, to),
           MessageInv(m)' => MessageInv([m EXCEPT !.at = to])'
    PROVE  IInv'
<1>. DEFINE new == [m EXCEPT !.at = to]
<1>1. TypeOK /\ m \in Message /\ MessageInv(m) /\ UNCHANGED setup
  BY DEF IInv, TypeOK, Handled
<1>2. new = [id |-> m.id, at |-> to, text |-> m.text, media |-> m.media] /\ new \in Message
  BY <1>1 DEF Message
<1>3. MessageInv(new)'
  BY <1>1, MessageKept
<1>. HIDE DEF new
<1>4. messages' \subseteq messages \cup {new}
  BY <1>2 DEF EndsAt, Moves
<1>5. \A k \in messages' : k \in Message /\ MessageInv(k)'
  BY <1>1, <1>2, <1>3, <1>4, MessageKept DEF IInv, TypeOK
<1>6. /\ UNCHANGED <<setup, pc, index, answer, queued>>
      /\ broker' \in {"up", "broken", "down"} /\ BrokerInv'
  BY DEF Handled, IInv, TypeOK, BrokerInv, Grows, Faults
<1>. QED  BY <1>1, <1>5, <1>6, CallsKept

\* No message moves, and faults only grow.
LEMMA StaysKeeps ==
    ASSUME IInv, Grows, Handled, UNCHANGED messages
    PROVE  IInv'
<1>1. TypeOK
  BY DEF IInv
<1>2. \A k \in messages' : k \in Message /\ MessageInv(k)'
  BY <1>1, MessageKept DEF IInv, TypeOK, Handled
<1>3. /\ UNCHANGED <<setup, pc, index, answer, queued>>
      /\ broker' \in {"up", "broken", "down"} /\ BrokerInv'
  BY DEF Handled, IInv, TypeOK, BrokerInv, Grows, Faults
<1>. QED  BY <1>2, <1>3, CallsKept

\* The handlers of the inbound direction: a message of Meta keeps what it carries,
\* and is dead-lettered for one of the causes.
LEMMA InboundKeeps ==
    ASSUME IInv, NEW m \in messages,
           \/ ResolveInbound(m) \/ LockTimesOut(m) \/ Format(m)
           \/ SendToGenesys(m) \/ SendFails(m)
    PROVE  IInv'
<1>1. TypeOK /\ m \in Message /\ Handled
  BY DEF IInv, TypeOK, ResolveInbound, LockTimesOut, Format, SendToGenesys, SendFails
<1>2. Grows
  BY <1>1, NoFaultGrows, FaultGrows
     DEF ResolveInbound, LockTimesOut, Format, SendToGenesys, SendFails, Faults
<1>3. ASSUME NEW to \in {"inbound.enriched", "genesys.outbound.ready", "genesys",
                         "genesys-dlq", "state-dlq"},
             EndsAt(m, to), m.at \in InboundPlaces,
             to = "genesys-dlq" => DeadAtGenesys(m)',
             to = "state-dlq" => DeadAtState(m)',
             to = "genesys" => setup.setting.integrated
      PROVE  IInv'
  <2>. DEFINE new == [m EXCEPT !.at = to]
  <2>1. /\ new.id = m.id /\ new.text = m.text /\ new.media = m.media /\ new.at = to
        /\ to \in Queues \cup Ends
    BY <1>1 DEF Message, Queues, Ends
  <2>. HIDE DEF new
  <2>2. MessageInv(m)' => MessageInv(new)'
    BY <1>1, <1>3, <2>1
       DEF MessageInv, InboundPlaces, Carries, DeadAtGenesys, DeadAtState, Handled
  <2>. QED  BY <1>1, <1>2, <1>3, <2>1, <2>2, MoveKeeps DEF new
<1>4. CASE ResolveInbound(m)
  <2>1. ~MediaAccepted(m) => DeadAtState(m)'
    BY <1>1 DEF MediaAccepted, DeadAtState, Handled
  <2>. QED  BY <1>3, <1>4, <2>1 DEF ResolveInbound, In, InboundPlaces
<1>5. CASE LockTimesOut(m)
  <2>1. faults'["lock"] > 0
    BY <1>1, <1>5, FaultGrows DEF LockTimesOut, Faults
  <2>. QED  BY <1>3, <1>5, <2>1 DEF LockTimesOut, In, InboundPlaces, DeadAtState
<1>6. CASE Format(m)
  BY <1>3, <1>6 DEF Format, In, InboundPlaces
<1>7. CASE SendToGenesys(m)
  <2>1. ~(Valid(m) /\ setup.setting.integrated) => DeadAtGenesys(m)'
    BY <1>1 DEF Valid, TypeOf, DeadAtGenesys, Handled
  <2>. QED  BY <1>3, <1>7, <2>1 DEF SendToGenesys, In, InboundPlaces
<1>8. CASE SendFails(m)
  <2>1. faults'["api"] > 0
    BY <1>1, <1>8, FaultGrows DEF SendFails, Faults
  <2>2. CASE EndsAt(m, "genesys-dlq")
    BY <1>3, <1>8, <2>1, <2>2 DEF SendFails, In, InboundPlaces, DeadAtGenesys
  <2>3. CASE UNCHANGED messages
    BY <1>1, <1>2, <2>3, StaysKeeps
  <2>. QED  BY <1>8, <2>2, <2>3 DEF SendFails
<1>. QED  BY <1>4, <1>5, <1>6, <1>7, <1>8

\* The others: receipts of Meta end, and no message of a customer is where
\* those of agents are.
LEMMA OutboundKeeps ==
    ASSUME IInv, NEW m \in messages,
           \/ UpdateStatus(m) \/ ResolveOutbound(m) \/ ForwardStatus(m) \/ SendToMeta(m)
           \/ DropEvent(m) \/ SendReceipt(m) \/ ReceiptFails(m)
    PROVE  IInv'
<1>1. TypeOK /\ m \in Message /\ MessageInv(m) /\ Handled
  BY DEF IInv, TypeOK, UpdateStatus, ResolveOutbound, ForwardStatus, SendToMeta,
         DropEvent, SendReceipt, ReceiptFails
<1>2. Grows
  BY <1>1, NoFaultGrows, FaultGrows
     DEF UpdateStatus, ResolveOutbound, ForwardStatus, SendToMeta,
         DropEvent, SendReceipt, ReceiptFails, Faults
<1>3. ASSUME NEW to \in {"status", "state-dlq", "genesys-status-processed", "meta",
                         "dropped", "receipt", "genesys-dlq"},
             EndsAt(m, to),
             IF to = "meta" THEN m.at = "outbound-ready"
             ELSE IF to = "status" THEN m.at = "whatsapp-status-updates"
             ELSE m.at \in {"outbound-genesys-messages", "genesys-status-updates",
                            "genesys-status-processed"}
      PROVE  IInv'
  <2>. DEFINE new == [m EXCEPT !.at = to]
  <2>1. /\ new.id = m.id /\ new.text = m.text /\ new.media = m.media /\ new.at = to
        /\ to \in Queues \cup Ends
    BY <1>1 DEF Message, Queues, Ends
  <2>. HIDE DEF new
  <2>2. MessageInv(m)' => MessageInv(new)'
    BY <1>3, <2>1 DEF MessageInv, InboundPlaces, StatusPlaces, Acceptable
  <2>. QED  BY <1>1, <1>2, <1>3, <2>1, <2>2, MoveKeeps DEF new
<1>4. CASE UNCHANGED messages
  BY <1>1, <1>2, <1>4, StaysKeeps
<1>5. CASE UpdateStatus(m)
  BY <1>3, <1>5 DEF UpdateStatus, In
<1>6. CASE ResolveOutbound(m) \/ ForwardStatus(m)
  BY <1>3, <1>6 DEF ResolveOutbound, ForwardStatus, In
<1>7. CASE SendToMeta(m)
  BY <1>3, <1>7 DEF SendToMeta, In
<1>8. CASE DropEvent(m) \/ SendReceipt(m) \/ ReceiptFails(m)
  BY <1>3, <1>4, <1>8 DEF DropEvent, SendReceipt, ReceiptFails, In
<1>. QED  BY <1>5, <1>6, <1>7, <1>8

-----------------------------------------------------------------------------
(* The connection and crashes *)

\* A loss of the connection and its return keep the invariant.
LEMMA ConnectionKeeps ==
    ASSUME IInv, ConnectionBreaks \/ NoticeClose \/ Reconnect
    PROVE  IInv'
<1>1. TypeOK /\ BrokerInv /\ UNCHANGED <<setup, pc, index, answer, queued, messages>>
      /\ broker' \in {"up", "broken", "down"}
  BY DEF IInv, ConnectionBreaks, NoticeClose, Reconnect
<1>2. Grows /\ BrokerInv'
  <2>1. CASE ConnectionBreaks
    <3>1. Fault("broker") /\ "broker" \in Faults
      BY <2>1 DEF ConnectionBreaks, Faults
    <3>. QED  BY <1>1, <3>1, FaultGrows DEF BrokerInv
  <2>2. CASE NoticeClose \/ Reconnect
    BY <1>1, <2>2, NoFaultGrows DEF BrokerInv, NoticeClose, Reconnect
  <2>. QED  BY <2>1, <2>2
<1>3. \A k \in messages' : k \in Message /\ MessageInv(k)'
  BY <1>1, <1>2, MessageKept DEF IInv, TypeOK
<1>. QED  BY <1>1, <1>2, <1>3, CallsKept

\* A call of Meta that was under way starts over, and its items may be queued
\* once more; one of Genesys that was answered is over.
LEMMA CrashKeeps ==
    ASSUME IInv, NEW who \in {"meta", "genesys"}, Crash(who)
    PROVE  IInv'
<1>1. /\ TypeOK /\ UNCHANGED <<setup, answer, broker, queued, messages>>
      /\ body' = body /\ Fault("crash") /\ "crash" \in Faults
  BY DEF IInv, Crash, body, Faults
<1>2. /\ faults' \in [Faults -> 0..MaxFaults]
      /\ \A g \in Faults : faults'[g] = IF g = "crash" THEN faults[g] + 1 ELSE faults[g]
      /\ Grows
  BY <1>1, FaultFacts, FaultGrows
<1>3. \A g \in Faults : faults[g] \in Nat
  BY <1>1 DEF TypeOK
<1>4. ASSUME NEW c \in Calls
      PROVE  CallOK(c)' /\ pc'[c] \in {"sent", "verify", "secret", "item", "media", "retry", "retryBare", "done"}
             /\ index'[c] \in 1..2
  <2>1. /\ CallInv(c) /\ QueueInv(c) /\ Answered(c)
        /\ index[c] \in 1..2 /\ 1 \in DOMAIN body[c].items
        /\ DOMAIN body[c].items \subseteq 1..2
        /\ pc[c] \in {"sent", "verify", "secret", "item", "media", "retry", "retryBare", "done"}
        /\ \A n \in 1..2 : queued[<<c, n>>] \in Nat
    <3>1. CallInv(c) /\ QueueInv(c) /\ Answered(c)
      BY DEF IInv
    <3>2. 1 \in DOMAIN body[c].items /\ DOMAIN body[c].items \subseteq 1..2
      BY <1>1, BodyFacts
    <3>3. /\ index[c] \in 1..2
          /\ pc[c] \in {"sent", "verify", "secret", "item", "media", "retry", "retryBare", "done"}
      BY <1>1 DEF TypeOK
    <3>4. \A n \in 1..2 : queued[<<c, n>>] \in Nat
      BY <1>1 DEF TypeOK, Ids
    <3>. QED  BY <3>1, <3>2, <3>3, <3>4
  <2>2. /\ pc'[c] = IF ~From(c, who) THEN pc[c]
                    ELSE IF Waiting(c) THEN "sent" ELSE "done"
        /\ index'[c] = IF From(c, who) /\ Waiting(c) THEN 1 ELSE index[c]
        /\ answer'[c] = answer[c]
        /\ \A n \in 1..2 : queued'[<<c, n>>] = queued[<<c, n>>]
    BY <1>1 DEF Crash
  <2>3. CASE ~From(c, who)
    <3>1. Untouched(c)
      BY <2>2, <2>3 DEF Untouched
    <3>. QED  BY <1>1, <1>2, <2>1, <2>2, <2>3, <3>1, OtherCall
  <2>4. CASE From(c, who) /\ From(c, "meta")
    <3>1. (From(c, "meta") /\ ~From(c, "genesys") /\ ~From(c, "route"))'
      BY <1>1, <2>4 DEF From
    <3>2. Waiting(c) <=> pc[c] # "done"
      BY <2>1, <2>4 DEF Waiting, CallInv
    <3>3. CallInv(c)'
      BY <2>1, <2>2, <2>4, <3>1, <3>2, <1>1 DEF CallInv, SignatureAccepted
    <3>4. QueueInv(c)'
      <4>1. \A n \in 1..2 : queued[<<c, n>>] <= faults["crash"] + 1
        <5>. SUFFICES ASSUME NEW n \in 1..2
                      PROVE  queued[<<c, n>>] <= faults["crash"] + 1
          OBVIOUS
        <5>1. queued[<<c, n>>] <= faults["crash"]
                  + (IF pc[c] = "done" \/ n < index[c] THEN 1 ELSE 0)
          BY <2>1, <2>4 DEF QueueInv
        <5>2. queued[<<c, n>>] \in Nat /\ faults["crash"] \in Nat
          BY <1>1, <1>3, <2>1
        <5>. QED  BY <5>1, <5>2
      <4>2. faults'["crash"] = faults["crash"] + 1 /\ faults["crash"] \in Nat
        BY <1>1, <1>2, <1>3
      <4>3. ASSUME NEW n \in 1..2
            PROVE  /\ queued'[<<c, n>>] <= faults'["crash"]
                   /\ ~(pc'[c] # "done" /\ n < index'[c])
        BY <2>1, <2>2, <2>4, <3>2, <4>1, <4>2
      <4>. QED  BY <2>1, <2>2, <3>1, <4>2, <4>3 DEF QueueInv
    <3>5. Answered(c)'
      <4>1. CASE Waiting(c)
        BY <2>2, <2>4, <4>1 DEF Answered
      <4>2. CASE ~Waiting(c)
        <5>1. pc'[c] = pc[c]
          BY <2>2, <2>4, <3>2, <4>2
        <5>2. \A g \in Faults : faults[g] <= faults'[g] /\ faults'[g] \in Nat
          BY <1>2, <1>3 DEF Grows
        <5>3. /\ From(c, "meta") /\ ~From(c, "genesys") /\ ~From(c, "route")
              /\ DOMAIN body'[c].items = DOMAIN body[c].items
              /\ SignatureAccepted' = SignatureAccepted
          BY <1>1, <2>4, <3>1 DEF From, SignatureAccepted
        <5>4. ASSUME NEW n \in DOMAIN body[c].items, answer[c] = "ok", pc[c] = "done"
              PROVE  \/ queued'[<<c, n>>] > 0
                     \/ body[c].items[n].kind = "ignored"
                     \/ faults'["broker"] > 0
                     \/ faults'["lookup"] > 0 \/ ~SignatureAccepted
          <6>1. \/ queued[<<c, n>>] > 0
                \/ body[c].items[n].kind = "ignored"
                \/ faults["broker"] > 0
                \/ faults["lookup"] > 0 \/ ~SignatureAccepted
            BY <2>1, <5>3, <5>4 DEF Answered
          <6>2. n \in 1..2
            BY <2>1
          <6>3. \A g \in {"broker", "lookup"} : faults[g] \in Nat /\ faults'[g] \in Nat /\ faults[g] <= faults'[g]
            BY <1>3, <5>2 DEF Faults
          <6>. QED  BY <2>2, <6>1, <6>2, <6>3
        <5>. QED  BY <1>1, <2>2, <3>1, <5>1, <5>3, <5>4 DEF Answered
      <4>. QED  BY <4>1, <4>2
    <3>. QED  BY <2>1, <2>2, <3>3, <3>4, <3>5 DEF CallOK
  <2>5. CASE From(c, who) /\ From(c, "genesys")
    <3>1. (From(c, "genesys") /\ ~From(c, "meta") /\ ~From(c, "route"))'
      BY <1>1, <2>5 DEF From
    <3>2. CallInv(c)'
      BY <2>1, <2>2, <2>5, <3>1, <1>1 DEF CallInv, Waiting, Current
    <3>3. QueueInv(c)'
      <4>1. \A n \in 1..2 : queued[<<c, n>>] <= 1 /\ (pc[c] # "done" => queued[<<c, n>>] <= 0)
        BY <2>1, <2>5 DEF QueueInv
      <4>2. pc'[c] # "done" => pc[c] # "done"
        BY <2>2, <2>5 DEF Waiting
      <4>. QED  BY <2>2, <3>1, <4>1, <4>2 DEF QueueInv
    <3>4. faults'["crash"] > 0
      BY <1>1, <1>2, <1>3
    <3>5. Answered(c)'
      BY <3>1, <3>4 DEF Answered
    <3>. QED  BY <2>1, <2>2, <3>2, <3>3, <3>5 DEF CallOK
  <2>. QED  BY <2>3, <2>4, <2>5
<1>5. /\ pc' \in [Calls -> {"sent", "verify", "secret", "item", "media", "retry", "retryBare", "done"}]
      /\ index' \in [Calls -> 1..2]
  <2>1. /\ pc' = [c \in Calls |-> pc'[c]] /\ index' = [c \in Calls |-> index'[c]]
    BY DEF Crash
  <2>. QED  BY <1>4, <2>1
<1>6. \A m \in messages' : m \in Message /\ MessageInv(m)'
  BY <1>1, <1>2, MessageKept DEF IInv, TypeOK
<1>7. TypeOK' /\ BrokerInv'
  BY <1>1, <1>2, <1>3, <1>5 DEF IInv, TypeOK, BrokerInv, Faults
<1>. QED  BY <1>4, <1>6, <1>7 DEF IInv, CallOK

-----------------------------------------------------------------------------
(* The theorems *)

\* The invariant holds at the start.
LEMMA Initially == Init => IInv
<1>. SUFFICES ASSUME Init PROVE IInv
  OBVIOUS
<1>1. MaxFaults \in Nat
  BY MessagePipelineAssumption
<1>2. TypeOK
  BY <1>1 DEF Init, TypeOK
<1>3. ASSUME NEW c \in Calls PROVE CallInv(c) /\ QueueInv(c) /\ Answered(c)
  <2>1. 1 \in DOMAIN body[c].items
    BY <1>2, BodyFacts
  <2>2. /\ pc[c] = "sent" /\ index[c] = 1 /\ answer[c] = "none" /\ faults["crash"] = 0
        /\ \A n \in 1..2 : queued[<<c, n>>] = 0
    BY DEF Init, Ids, Faults
  <2>. QED  BY <2>1, <2>2 DEF CallInv, QueueInv, Answered
<1>4. BrokerInv /\ \A m \in messages : MessageInv(m)
  BY DEF Init, BrokerInv
<1>. QED  BY <1>2, <1>3, <1>4 DEF IInv

\* The invariant is kept by every step.
LEMMA Keeps == IInv /\ [Next]_vars => IInv'
<1>. SUFFICES ASSUME IInv, [Next]_vars PROVE IInv'
  OBVIOUS
<1>1. ASSUME NEW c \in Calls, CallStep(c) PROVE IInv'
  BY <1>1, LooksUpTenantKeeps, ResolveMetaKeeps, ProcessItemKeeps, SaveMediaKeeps,
     LooksUpIntegrationKeeps, ValidateGenesysKeeps, ProcessEventKeeps, UploadMediaKeeps,
     RetryPublishKeeps, TransformRouteKeeps DEF CallStep
<1>2. ASSUME NEW m \in messages, MessageStep(m) PROVE IInv'
  BY <1>2, InboundKeeps, OutboundKeeps DEF MessageStep
<1>3. CASE ConnectionBreaks \/ NoticeClose \/ Reconnect
  BY <1>3, ConnectionKeeps
<1>4. ASSUME NEW who \in {"meta", "genesys"}, Crash(who) PROVE IInv'
  BY <1>4, CrashKeeps
<1>5. CASE UNCHANGED vars
  <2>1. /\ TypeOK /\ Grows /\ UNCHANGED <<setup, pc, index, answer, queued>>
        /\ broker' \in {"up", "broken", "down"} /\ BrokerInv'
    BY <1>5, NoFaultGrows DEF vars, IInv, TypeOK, BrokerInv
  <2>2. \A m \in messages' : m \in Message /\ MessageInv(m)'
    BY <1>5, <2>1, MessageKept DEF vars, IInv, TypeOK
  <2>. QED  BY <2>1, <2>2, CallsKept
<1>. QED  BY <1>1, <1>2, <1>3, <1>4, <1>5 DEF Next

\* The invariant of the calls and the queues is inductive.
LEMMA Invariance == Spec => []IInv
BY Initially, Keeps, PTL DEF Spec

\* The variables keep their types; no item is queued more often than faults allow.
THEOREM PipelineTypeCorrect == Spec => []TypeOK
<1>1. IInv => TypeOK
  BY DEF IInv
<1>. QED  BY <1>1, Invariance, PTL

\* What Meta and Genesys are told was accepted is in the queues, unless a named
\* fault took it, whatever the calls carry and however they interleave.
THEOREM AnsweredIsQueued == Spec => []AnsweredMeansQueued
<1>1. IInv => AnsweredMeansQueued
  BY DEF IInv, Answered, AnsweredMeansQueued
<1>. QED  BY <1>1, Invariance, PTL

\* Only a crash makes Meta's items be queued again, once for each.
THEOREM CrashesAloneDuplicate == Spec => []DuplicatesOnlyByCrash
<1>1. ASSUME IInv PROVE DuplicatesOnlyByCrash
  <2>. SUFFICES ASSUME NEW i \in Ids
                PROVE  queued[i] <= 1 + (IF From(i[1], "meta") THEN faults["crash"] ELSE 0)
    BY DEF DuplicatesOnlyByCrash
  <2>0. PICK c \in Calls, n \in 1..2 : i = <<c, n>>
    BY DEF Ids
  <2>1. /\ QueueInv(c) /\ queued[<<c, n>>] \in Nat /\ faults["crash"] \in Nat
        /\ From(c, "meta") \/ From(c, "genesys") \/ From(c, "route")
    BY <1>1, BodyFacts DEF IInv, TypeOK, Ids, Faults, From
  <2>2. CASE From(c, "meta")
    <3>1. queued[<<c, n>>] <= faults["crash"]
              + (IF pc[c] = "done" \/ n < index[c] THEN 1 ELSE 0)
      BY <2>1, <2>2 DEF QueueInv
    <3>2. queued[<<c, n>>] <= faults["crash"] + 1
      BY <2>1, <3>1
    <3>3. queued[i] <= 1 + faults["crash"] /\ From(i[1], "meta")
      BY <2>0, <2>1, <2>2, <3>2
    <3>. QED  BY <3>3
  <2>3. CASE ~From(c, "meta")
    BY <2>0, <2>1, <2>3 DEF QueueInv
  <2>. QED  BY <2>0, <2>2, <2>3
<1>. QED  BY <1>1, Invariance, PTL

\* For any messages, tenants and faults: what Genesys is shown is what the customer
\* sent, but for a lost download, and a dead letter has one of the named causes.
THEOREM InboundEndsAreExplained == Spec => []InboundEndsExplained
<1>1. ASSUME IInv PROVE InboundEndsExplained
  <2>. SUFFICES ASSUME NEW m \in messages, From(m.id[1], "meta")
                PROVE  LET item == body[m.id[1]].items[m.id[2]]
                           came == Extracted(item)
                           mediaLost == faults["media"] > 0
                       IN
                       /\ m.at = "state-dlq" =>
                              \/ came.media # "none" /\ ~setup.setting.trusted
                              \/ faults["lock"] > 0
                       /\ m.at = "genesys-dlq" =>
                              \/ came.text = "none" /\ (came.media = "none" \/ mediaLost)
                              \/ ~setup.setting.integrated
                              \/ faults["api"] > 0
                       /\ m.at = "genesys" =>
                              /\ setup.setting.integrated
                              /\ m.text = came.text
                              /\ m.media = came.media \/ mediaLost
    BY DEF InboundEndsExplained
  <2>1. MessageInv(m)
    BY <1>1 DEF IInv
  <2>2. m.at \in {"state-dlq", "genesys-dlq", "genesys"} => Carries(m)
    BY <2>1 DEF MessageInv, InboundPlaces
  <2>. QED  BY <2>1, <2>2 DEF MessageInv, Carries, Extracted, DeadAtState, DeadAtGenesys
<1>. QED  BY <1>1, Invariance, PTL

\* Every form of every input that the outbound transformer lets through is one
\* that Meta accepts, under any of its settings.
THEOREM MetaAcceptsAll == Spec => []MetaAcceptsWhatIsSent
<1>1. IInv => MetaAcceptsWhatIsSent
  BY DEF IInv, MessageInv, Acceptable, MetaAcceptsWhatIsSent
<1>. QED  BY <1>1, Invariance, PTL

-----------------------------------------------------------------------------
(***************************************************************************)
(* For any number of connections, attempts and failures: what a process    *)
(* has open beyond one connection comes from the causes TwinsExplained     *)
(* names, and one that has booted and consumes nothing from those that     *)
(* DeafExplained names.                                                    *)
(*                                                                         *)
(* The argument: every step that adds a connection or a timer takes one    *)
(* away or counts as excess (LoadBounded).  Consumers are on a connection  *)
(* that is there (ConsumerReady), so a channel of another connection means *)
(* that there are two, hence excess.  The Genesys API service has timers   *)
(* only after a loss or a boot without connection (RetriesExplained), so   *)
(* that is also why it finds no channel when the pause ends.               *)
(***************************************************************************)

\* One connection, and one more for each reconnect in excess.
LoadBounded == Load <= 1 + excess

\* Only the state manager and the portal ask for more reconnects than needed.
ExcessOwned == excess > 0 => service \in {"state", "portal"}

\* The connection that is consumed from is there.
ConsumerReady == consuming # None => life[consuming] = "ready"

\* Acks go to the channel of the connection that is consumed from.
AckChannel == consuming \notin {None, channel} => excess > 0

\* Only the Genesys API service pauses before it consumes.
PauseOwned == boot = "pausing" => service = "genesys"

Excused == broken \/ bootless

\* Its timers, and what they dial, come from a loss or a failed boot.
RetriesExplained ==
    service = "genesys" /\ (timers > 0 \/ \E c \in Live : dialler[c] # "boot") =>
        Excused

\* So does a pause that will end without a channel.
PauseExplained == boot = "pausing" /\ channel = None => Excused

ConnectionInv ==
    /\ ConnectionTypeOK
    /\ LoadBounded /\ ExcessOwned /\ ConsumerReady /\ AckChannel
    /\ PauseOwned /\ RetriesExplained /\ PauseExplained /\ DeafExplained

-----------------------------------------------------------------------------
(* What a loss does *)

\* A lost connection asks for one to three reconnects, in the Genesys API
\* service for one or two, in the portal and the webhooks for one.
LEMMA CallsBounded ==
    ASSUME ConnectionTypeOK, NEW c \in Conns, NEW abrupt \in BOOLEAN
    PROVE  /\ CallsOnLoss(c, abrupt) \in 1..3
           /\ service \in {"portal", "webhook"} => CallsOnLoss(c, abrupt) = 1
           /\ service = "state" /\ life[c] = "setup" /\ dialler[c] = "timer" =>
                  CallsOnLoss(c, abrupt) \in 2..3
<1>1. service \in {"state", "genesys", "portal", "webhook"}
  BY BrokerConnectionAssumption DEF ConnectionTypeOK
<1>2. Events(abrupt) \in 1..2
  BY DEF Events
<1>3. CASE service = "state"
  BY <1>2, <1>3 DEF CallsOnLoss
<1>4. CASE service = "genesys"
  BY <1>2, <1>4 DEF CallsOnLoss
<1>5. CASE service \in {"portal", "webhook"}
  BY <1>5 DEF CallsOnLoss
<1>. QED  BY <1>1, <1>3, <1>4, <1>5

\* Reconnecting starts at most one timer per call, and but one in the Genesys
\* API service.
LEMMA TimersCounted ==
    ASSUME ConnectionTypeOK, NEW n \in Nat, Reconnects(n)
    PROVE  /\ timers' \in Nat /\ timers' <= timers + n
           /\ attempts' \in Nat /\ reconnecting' \in BOOLEAN
           /\ service = "genesys" => timers' <= timers + 1
<1>1. service \in {"state", "genesys", "portal", "webhook"}
  BY BrokerConnectionAssumption DEF ConnectionTypeOK
<1>2. CASE service = "state"
  BY <1>2 DEF Reconnects, CountsAttempts, ConnectionTypeOK
<1>3. CASE service = "genesys"
  BY <1>3 DEF Reconnects, SchedulesOnce, ConnectionTypeOK
<1>4. CASE service = "portal" \/ service = "webhook"
  <2>1. timers' = timers + n /\ UNCHANGED <<attempts, reconnecting>>
    BY <1>4 DEF Reconnects, SchedulesEach
  <2>. QED  BY <1>4, <2>1 DEF ConnectionTypeOK
<1>. QED  BY <1>1, <1>2, <1>3, <1>4

\* The boot sequence goes on to a stage that exists; only the state manager
\* dials again, and who stops without consumers counts as bootless.
LEMMA BootTyped ==
    ASSUME ConnectionTypeOK, NEW c \in Conns, BootGoesOn(c)
    PROVE  /\ boot' \in Stages /\ bootless' \in BOOLEAN
           /\ bootless => bootless'
           /\ \/ UNCHANGED boot
              \/ service = "state" /\ dialler[c] = "boot" /\ boot' = "waiting"
              \/ service = "genesys" /\ boot' = "pausing"
              \/ service \notin {"state", "genesys"} /\ boot' = "registering"
              \/ service # "state" /\ boot' = "done" /\ bootless'
           /\ service = "genesys" /\ dialler[c] = "boot" => bootless'
<1>1. service \in {"state", "genesys", "portal", "webhook"}
  BY BrokerConnectionAssumption DEF ConnectionTypeOK
<1>2. CASE dialler[c] # "boot"
  BY <1>2 DEF BootGoesOn, ConnectionTypeOK
<1>3. CASE dialler[c] = "boot"
  <2>1. CASE service = "state"
    BY <1>3, <2>1 DEF BootGoesOn, ConnectionTypeOK, Stages
  <2>2. CASE service = "genesys"
    BY <1>3, <2>2 DEF BootGoesOn, ConnectionTypeOK, Stages
  <2>3. CASE service = "portal" /\ Usable
    BY <1>3, <2>3 DEF BootGoesOn, ConnectionTypeOK, Stages
  <2>4. CASE (service = "portal" \/ service = "webhook") /\ ~(service = "portal" /\ Usable)
    <3>1. boot' = "done" /\ bootless' = TRUE
      BY <1>3, <2>4 DEF BootGoesOn, ConnectionTypeOK
    <3>. QED  BY <2>4, <3>1 DEF Stages
  <2>. QED  BY <1>1, <2>1, <2>2, <2>3, <2>4
<1>. QED  BY <1>2, <1>3

\* A process that has just been started satisfies everything.
LEMMA FreshInv ==
    ASSUME ConnectionTypeOK, Fresh, UNCHANGED service, boot' \in {"down", "starting"},
           failures' \in 0..MaxFailures
    PROVE  ConnectionInv'
<1>1. ConnectionTypeOK'
  BY DEF ConnectionTypeOK, Fresh, Stages, Maybe
<1>2. Live' = {}
  BY DEF Live, Fresh
<1>3. Load' <= 1
  BY <1>2, FS_EmptySet DEF Load, Fresh
<1>. QED
  BY <1>1, <1>2, <1>3 DEF ConnectionInv, Fresh, LoadBounded, ExcessOwned, ConsumerReady, AckChannel,
     PauseOwned, RetriesExplained, PauseExplained, DeafExplained, Excused

-----------------------------------------------------------------------------
(* The steps that take something away                                      *)

\* The process ends.
EndsProcess == Exits /\ UNCHANGED service /\ failures' \in 0..MaxFailures

\* A dial is given up, with n reconnects: none for the state manager's boot.
GivesUp(c, n) ==
    /\ life[c] = "dialling" /\ life' = [life EXCEPT ![c] = "free"]
    /\ Reconnects(n)
    /\ n = IF service = "state" /\ dialler[c] = "boot" THEN 0 ELSE 1
    /\ BootGoesOn(c)
    /\ channel' = IF service = "genesys" THEN None ELSE channel
    /\ UNCHANGED <<service, dialler, isConnected, consuming, tries, excess, broken>>
    /\ failures' \in 0..MaxFailures

\* A connection is lost, with n reconnects.
Loses(c, n) ==
    LET boots == life[c] = "setup" /\ dialler[c] = "boot" IN
    /\ life[c] \in {"setup", "ready"} /\ life' = [life EXCEPT ![c] = "free"]
    /\ consuming' = IF consuming = c THEN None ELSE consuming
    /\ WithoutChannel(c)
    /\ isConnected' \in BOOLEAN
    /\ Reconnects(n)
    /\ IF life[c] = "setup" THEN BootGoesOn(c)
       ELSE /\ boot' \in {boot, "done"}
            /\ UNCHANGED bootless
    /\ broken' = (broken \/ life[c] = "ready")
    /\ service = "state" => excess' = excess + n - (IF boots THEN 0 ELSE 1)
    /\ service # "state" => UNCHANGED excess
    /\ UNCHANGED <<service, dialler, tries>>
    /\ failures' \in 0..MaxFailures

\* A dial that fails ends the process or gives its connection up.
LEMMA DialFailsShape ==
    ASSUME ConnectionTypeOK, NEW c \in Conns, DialFails(c)
    PROVE  EndsProcess \/ \E n \in 0..1 : GivesUp(c, n)
<1>. DEFINE n == IF service = "state" /\ dialler[c] = "boot" THEN 0 ELSE 1
<1>1. failures' \in 0..MaxFailures
  BY BrokerConnectionAssumption DEF DialFails, ConnectionTypeOK
<1>2. CASE Patient(n) /\ ~(n = 0 /\ tries >= MaxAttempts)
  BY <1>1, <1>2 DEF DialFails, GivesUp
<1>3. CASE ~(Patient(n) /\ ~(n = 0 /\ tries >= MaxAttempts))
  BY <1>1, <1>3 DEF DialFails, EndsProcess
<1>. QED  BY <1>2, <1>3

\* A connection that breaks ends the process or is lost with its reconnects.
LEMMA BreaksShape ==
    ASSUME ConnectionTypeOK, NEW c \in Conns, NEW abrupt \in BOOLEAN, Breaks(c, abrupt)
    PROVE  \/ EndsProcess
           \/ /\ Loses(c, CallsOnLoss(c, abrupt))
              /\ life[c] = "ready" /\ service # "portal" => UNCHANGED boot
<1>. DEFINE n == CallsOnLoss(c, abrupt)
            pending == boot = "registering" /\ channel = c
            ends == \/ abrupt /\ c \notin Listening
                    \/ pending /\ service # "portal"
                    \/ ~Patient(n)
                    \/ /\ service = "state" /\ life[c] = "setup" /\ dialler[c] = "boot"
                       /\ tries >= MaxAttempts
<1>1. failures' \in 0..MaxFailures
  BY BrokerConnectionAssumption DEF Breaks, ConnectionTypeOK
<1>2. CASE ends
  BY <1>1, <1>2 DEF Breaks, EndsProcess
<1>3. CASE ~ends
  <2>. HIDE DEF n
  <2>1. /\ life[c] \in {"setup", "ready"} /\ life' = [life EXCEPT ![c] = "free"]
        /\ consuming' = IF consuming = c THEN None ELSE consuming
        /\ WithoutChannel(c) /\ Reconnects(n)
        /\ broken' = (broken \/ life[c] = "ready")
        /\ UNCHANGED <<service, dialler, tries>>
    BY <1>3 DEF Breaks, n
  <2>2. isConnected' \in BOOLEAN
    BY <1>3 DEF Breaks, LowersFlag, n
  <2>3. IF life[c] = "setup" THEN BootGoesOn(c)
        ELSE /\ boot' = IF pending THEN "done" ELSE boot
             /\ UNCHANGED bootless
    BY <1>3 DEF Breaks, n
  <2>4. excess' = IF service = "state"
                    THEN excess + n - (IF life[c] = "setup" /\ dialler[c] = "boot" THEN 0 ELSE 1)
                    ELSE excess
    BY <1>3 DEF Breaks, n
  <2>5. life[c] = "ready" /\ service # "portal" => UNCHANGED boot
    BY <1>3, <2>3
  <2>6. Loses(c, n)
    BY <1>1, <2>1, <2>2, <2>3, <2>4 DEF Loses
  <2>. QED  BY <2>5, <2>6 DEF n
<1>. QED  BY <1>2, <1>3

\* Ending satisfies everything.
LEMMA EndsProcessInv == ConnectionTypeOK /\ EndsProcess => ConnectionInv'
BY FreshInv DEF EndsProcess, Exits

-----------------------------------------------------------------------------
(* Types *)

\* Giving up keeps the types.
LEMMA GivesUpTyped ==
    ASSUME ConnectionTypeOK, NEW c \in Conns, NEW n \in 0..1, GivesUp(c, n)
    PROVE  ConnectionTypeOK'
<1>1. timers' \in Nat /\ attempts' \in Nat /\ reconnecting' \in BOOLEAN
  BY TimersCounted DEF GivesUp
<1>2. boot' \in Stages /\ bootless' \in BOOLEAN
  BY BootTyped DEF GivesUp
<1>3. channel' \in Maybe(Conns \cup {"closed"})
  BY DEF GivesUp, ConnectionTypeOK, Maybe
<1>. QED  BY <1>1, <1>2, <1>3 DEF ConnectionTypeOK, GivesUp

\* A loss keeps the types.
LEMMA LosesTyped ==
    ASSUME ConnectionTypeOK, NEW c \in Conns, NEW n \in 1..3, Loses(c, n)
    PROVE  ConnectionTypeOK'
<1>1. timers' \in Nat /\ attempts' \in Nat /\ reconnecting' \in BOOLEAN
  BY TimersCounted DEF Loses
<1>2. boot' \in Stages /\ bootless' \in BOOLEAN
  <2>1. CASE life[c] = "setup"
    BY <2>1, BootTyped DEF Loses
  <2>2. CASE life[c] # "setup"
    BY <2>2 DEF Loses, ConnectionTypeOK, Stages
  <2>. QED  BY <2>1, <2>2
<1>3. channel' \in Maybe(Conns \cup {"closed"}) /\ consuming' \in Maybe(Conns)
  BY DEF Loses, WithoutChannel, ConnectionTypeOK, Maybe
<1>4. excess' \in Nat
  <2>1. CASE service = "state"
    BY <2>1 DEF Loses, ConnectionTypeOK
  <2>2. CASE service # "state"
    BY <2>2 DEF Loses, ConnectionTypeOK
  <2>. QED  BY <2>1, <2>2
<1>5. broken' \in BOOLEAN
  BY DEF Loses, ConnectionTypeOK
<1>6. life' \in [Conns -> {"free", "dialling", "setup", "ready"}]
  BY DEF Loses, ConnectionTypeOK
<1>7. /\ service' \in Services /\ dialler' \in [Conns -> {"boot", "timer", "publish"}]
      /\ isConnected' \in BOOLEAN /\ tries' \in Nat /\ failures' \in 0..MaxFailures
  BY DEF Loses, ConnectionTypeOK
<1>. QED  BY <1>1, <1>2, <1>3, <1>4, <1>5, <1>6, <1>7 DEF ConnectionTypeOK

\* Getting ready keeps the types and takes the boot further.
LEMMA ReadyTyped ==
    ASSUME ConnectionTypeOK, NEW c \in Conns, Ready(c)
    PROVE  /\ ConnectionTypeOK'
           /\ boot' \in {boot, "registering", "pausing", "done"}
           /\ boot' = "pausing" => boot = "pausing" \/ service = "genesys"
           /\ boot' = "done" => boot = "done" \/ service = "webhook"
<1>1. service \in {"state", "genesys", "portal", "webhook"}
  BY BrokerConnectionAssumption DEF ConnectionTypeOK
<1>2. /\ boot' \in {boot, "registering", "pausing", "done"}
      /\ boot' = "pausing" => boot = "pausing" \/ service = "genesys"
      /\ boot' = "done" => boot = "done" \/ service = "webhook"
  BY <1>1 DEF Ready
<1>3. boot' \in Stages
  BY <1>2 DEF Stages, ConnectionTypeOK
<1>4. isConnected' \in BOOLEAN
  BY DEF Ready, RaisesFlag
<1>. QED  BY <1>2, <1>3, <1>4 DEF Ready, ConnectionTypeOK, Maybe

\* The types are kept by every step.
LEMMA ConnectionTypeStep == ConnectionTypeOK /\ [ConnectionNext]_connectionVars => ConnectionTypeOK'
<1>. SUFFICES ASSUME ConnectionTypeOK, [ConnectionNext]_connectionVars PROVE ConnectionTypeOK'
  OBVIOUS
<1>1. CASE Start
  BY <1>1 DEF Start, Dials, ConnectionTypeOK, Stages, Maybe
<1>2. CASE TimerFires
  <2>1. /\ life' \in [Conns -> {"free", "dialling", "setup", "ready"}]
        /\ dialler' \in [Conns -> {"boot", "timer", "publish"}]
    BY <1>2 DEF TimerFires, Dials, ConnectionTypeOK
  <2>2. timers' \in Nat
    BY <1>2 DEF TimerFires, ConnectionTypeOK
  <2>. QED  BY <1>2, <2>1, <2>2 DEF TimerFires, ConnectionTypeOK
<1>3. CASE PublishDials
  BY <1>3 DEF PublishDials, Dials, ConnectionTypeOK
<1>4. CASE FindsConnection \/ StartConsumers \/ Registered
  BY <1>4 DEF FindsConnection, StartConsumers, Registered, Usable, ConnectionTypeOK, Stages, Maybe
<1>5. CASE NoSockets
  BY <1>5, BrokerConnectionAssumption DEF NoSockets, ConnectionTypeOK, Stages
<1>6. CASE Restart
  BY <1>6, FreshInv DEF Restart, ConnectionTypeOK, ConnectionInv
<1>7. ASSUME NEW c \in Conns, Connected(c) PROVE ConnectionTypeOK'
  BY <1>7 DEF Connected, ConnectionTypeOK
<1>8. ASSUME NEW c \in Conns, Ready(c) PROVE ConnectionTypeOK'
  BY <1>8, ReadyTyped
<1>9. ASSUME NEW c \in Conns, DialFails(c) PROVE ConnectionTypeOK'
  BY <1>9, DialFailsShape, GivesUpTyped, EndsProcessInv DEF ConnectionInv
<1>10. ASSUME NEW c \in Conns, NEW abrupt \in BOOLEAN, Breaks(c, abrupt) PROVE ConnectionTypeOK'
  BY <1>10, BreaksShape, CallsBounded, LosesTyped, EndsProcessInv DEF ConnectionInv
<1>11. CASE UNCHANGED connectionVars
  BY <1>11 DEF connectionVars, localVars, ConnectionTypeOK
<1>. QED  BY <1>1, <1>2, <1>3, <1>4, <1>5, <1>6, <1>7, <1>8, <1>9, <1>10, <1>11 DEF ConnectionNext

\* The types hold at the start.
LEMMA ConnectionTypeInit == ConnectionInit => ConnectionTypeOK
<1>. SUFFICES ASSUME ConnectionInit PROVE ConnectionTypeOK
  OBVIOUS
<1>1. /\ life \in [Conns -> {"free", "dialling", "setup", "ready"}]
      /\ dialler \in [Conns -> {"boot", "timer", "publish"}]
  BY DEF ConnectionInit
<1>2. failures \in 0..MaxFailures
  BY BrokerConnectionAssumption DEF ConnectionInit
<1>. QED  BY <1>1, <1>2 DEF ConnectionInit, ConnectionTypeOK, Stages, Maybe

\* Every variable of a process keeps its type, with any number of connections.
THEOREM ConnectionTypeCorrect == ConnectionSpec => []ConnectionTypeOK
BY ConnectionTypeInit, ConnectionTypeStep, PTL DEF ConnectionSpec

-----------------------------------------------------------------------------
(* Counting *)

\* How the number of live connections follows a connection's life.
LEMMA LiveCounted ==
    ASSUME ConnectionTypeOK
    PROVE  /\ IsFiniteSet(Live) /\ Cardinality(Live) \in Nat
           /\ \A c \in Conns :
                 /\ life[c] = "free" /\ life' = [life EXCEPT ![c] = "dialling"] =>
                        Cardinality(Live') = Cardinality(Live) + 1
                 /\ life[c] # "free" /\ life' = [life EXCEPT ![c] = "free"] =>
                        Cardinality(Live') = Cardinality(Live) - 1
                 /\ \A next \in {"setup", "ready"} :
                        life[c] # "free" /\ life' = [life EXCEPT ![c] = next] =>
                            Live' = Live
<1>1. IsFiniteSet(Live) /\ Cardinality(Live) \in Nat
  <2>1. IsFiniteSet(Live)
    BY BrokerConnectionAssumption, FS_Subset DEF Live
  <2>. QED  BY <2>1, FS_CardinalityType
<1>2. ASSUME NEW c \in Conns, life[c] = "free", life' = [life EXCEPT ![c] = "dialling"]
      PROVE  Cardinality(Live') = Cardinality(Live) + 1
  <2>1. Live' = Live \cup {c} /\ c \notin Live
    BY <1>2 DEF Live, ConnectionTypeOK
  <2>. QED  BY <1>1, <2>1, FS_AddElement
<1>3. ASSUME NEW c \in Conns, life[c] # "free", life' = [life EXCEPT ![c] = "free"]
      PROVE  Cardinality(Live') = Cardinality(Live) - 1
  <2>1. Live' = Live \ {c} /\ c \in Live
    BY <1>3 DEF Live, ConnectionTypeOK
  <2>. QED  BY <1>1, <2>1, FS_RemoveElement
<1>4. ASSUME NEW c \in Conns, NEW next \in {"setup", "ready"}, life[c] # "free",
             life' = [life EXCEPT ![c] = next]
      PROVE  Live' = Live
  BY <1>4 DEF Live, ConnectionTypeOK
<1>. QED  BY <1>1, <1>2, <1>3, <1>4

\* Two connections at a time are one more than there should be.
LEMMA TwoAreExcess ==
    ASSUME ConnectionTypeOK, LoadBounded, NEW c \in Live, NEW d \in Live, c # d
    PROVE  excess > 0
<1>1. IsFiniteSet({c}) /\ Cardinality({c}) = 1
  BY FS_Singleton
<1>2. Cardinality({c} \cup {d}) = 2 /\ IsFiniteSet({c} \cup {d})
  BY <1>1, FS_AddElement
<1>3. IsFiniteSet(Live) /\ Cardinality(Live) \in Nat
  BY LiveCounted
<1>4. Cardinality({c} \cup {d}) <= Cardinality(Live)
  BY <1>3, FS_Subset
<1>5. Cardinality(Live) <= Load
  BY <1>3 DEF Load, ConnectionTypeOK
<1>6. Load <= 1 + excess /\ Load \in Nat /\ excess \in Nat
  BY <1>3 DEF LoadBounded, Load, ConnectionTypeOK
<1>. QED  BY <1>2, <1>3, <1>4, <1>5, <1>6

\* The bound on connections and timers is kept by every step.
LEMMA LoadStep ==
    ASSUME ConnectionTypeOK, LoadBounded, [ConnectionNext]_connectionVars
    PROVE  LoadBounded'
<1>. DEFINE Booting == IF boot \in {"starting", "waiting"} THEN 1 ELSE 0
<1>l. Cardinality(Live) \in Nat
  BY LiveCounted
<1>t. ConnectionTypeOK'
  BY ConnectionTypeStep
<1>u. ASSUME UNCHANGED life PROVE UNCHANGED Live
  BY <1>u DEF Live
<1>1. CASE Start
  <2>1. Cardinality(Live') = Cardinality(Live) + 1
    BY <1>1, LiveCounted DEF Start, Dials
  <2>. QED  BY <1>l, <1>1, <2>1 DEF Start, LoadBounded, Load, ConnectionTypeOK
<1>2. CASE TimerFires
  <2>1. Cardinality(Live') = Cardinality(Live) + 1
    BY <1>2, LiveCounted DEF TimerFires, Dials
  <2>. QED  BY <1>l, <1>2, <2>1 DEF TimerFires, LoadBounded, Load, ConnectionTypeOK
<1>3. CASE PublishDials
  <2>1. Cardinality(Live') = Cardinality(Live) + 1
    BY <1>3, LiveCounted DEF PublishDials, Dials
  <2>. QED  BY <1>l, <1>3, <2>1 DEF PublishDials, LoadBounded, Load, ConnectionTypeOK
<1>4. CASE FindsConnection \/ StartConsumers \/ Registered \/ NoSockets
  <2>1. /\ UNCHANGED <<life, timers, excess>>
        /\ boot' \notin {"starting", "waiting"}
    BY <1>4 DEF FindsConnection, StartConsumers, Registered, NoSockets
  <2>. QED  BY <1>l, <1>u, <2>1 DEF LoadBounded, Load, ConnectionTypeOK
<1>5. CASE Restart
  BY <1>5, FreshInv DEF Restart, ConnectionTypeOK, ConnectionInv
<1>6. ASSUME NEW c \in Conns, Connected(c) PROVE LoadBounded'
  <2>1. Live' = Live
    BY <1>6, LiveCounted DEF Connected
  <2>. QED  BY <1>6, <2>1 DEF Connected, LoadBounded, Load
<1>7. ASSUME NEW c \in Conns, Ready(c) PROVE LoadBounded'
  <2>1. Live' = Live
    BY <1>7, LiveCounted DEF Ready
  <2>2. boot' \in {boot, "registering", "pausing", "done"}
    BY <1>7, ReadyTyped
  <2>3. UNCHANGED <<timers, excess>>
    BY <1>7 DEF Ready
  <2>. QED  BY <1>l, <2>1, <2>2, <2>3 DEF LoadBounded, Load, ConnectionTypeOK
<1>8. ASSUME NEW c \in Conns, NEW n \in 0..1, GivesUp(c, n) PROVE LoadBounded'
  <2>1. Cardinality(Live') = Cardinality(Live) - 1
    BY <1>8, LiveCounted DEF GivesUp
  <2>2. Booting' <= Booting + (1 - n)
    BY <1>8, BootTyped DEF GivesUp
  <2>3. timers' <= timers + n /\ timers' \in Nat /\ UNCHANGED excess
    BY <1>8, TimersCounted DEF GivesUp
  <2>. QED  BY <1>l, <2>1, <2>2, <2>3 DEF LoadBounded, Load, ConnectionTypeOK
<1>9. ASSUME NEW c \in Conns, NEW n \in 1..3, Loses(c, n),
             service \in {"portal", "webhook"} => n = 1
      PROVE  LoadBounded'
  <2>1. Cardinality(Live') = Cardinality(Live) - 1
    BY <1>9, LiveCounted DEF Loses
  <2>2. timers' <= timers + n /\ timers' \in Nat
    BY <1>9, TimersCounted DEF Loses
  <2>3. CASE service = "state"
    <3>1. Booting' <= Booting + IF life[c] = "setup" /\ dialler[c] = "boot" THEN 1 ELSE 0
      <4>1. CASE life[c] = "setup"
        BY <1>9, <2>3, <4>1, BootTyped DEF Loses, BootGoesOn
      <4>2. CASE life[c] # "setup"
        BY <1>9, <4>2 DEF Loses
      <4>. QED  BY <4>1, <4>2
    <3>2. excess' = excess + n - (IF life[c] = "setup" /\ dialler[c] = "boot" THEN 0 ELSE 1)
      BY <1>9, <2>3 DEF Loses
    <3>. QED  BY <1>l, <1>t, <2>1, <2>2, <3>1, <3>2 DEF LoadBounded, Load, ConnectionTypeOK
  <2>4. CASE service # "state"
    <3>1. Booting' <= Booting
      <4>1. CASE life[c] = "setup"
        BY <1>9, <2>4, <4>1, BootTyped DEF Loses
      <4>2. CASE life[c] # "setup"
        BY <1>9, <4>2 DEF Loses
      <4>. QED  BY <4>1, <4>2
    <3>2. timers' <= timers + 1
      <4>1. service \in {"genesys", "portal", "webhook"}
        BY <2>4, BrokerConnectionAssumption DEF ConnectionTypeOK
      <4>. QED  BY <1>9, <2>2, <4>1, TimersCounted DEF Loses
    <3>3. UNCHANGED excess
      BY <1>9, <2>4 DEF Loses
    <3>. QED  BY <1>l, <2>1, <2>2, <3>1, <3>2, <3>3 DEF LoadBounded, Load, ConnectionTypeOK
  <2>. QED  BY <2>3, <2>4
<1>10. ASSUME NEW c \in Conns, DialFails(c) PROVE LoadBounded'
  BY <1>8, <1>10, DialFailsShape, EndsProcessInv DEF ConnectionInv
<1>11. ASSUME NEW c \in Conns, NEW abrupt \in BOOLEAN, Breaks(c, abrupt) PROVE LoadBounded'
  BY <1>9, <1>11, BreaksShape, CallsBounded, EndsProcessInv DEF ConnectionInv
<1>12. CASE UNCHANGED connectionVars
  BY <1>12, <1>u DEF connectionVars, localVars, LoadBounded, Load
<1>. QED  BY <1>1, <1>2, <1>3, <1>4, <1>5, <1>6, <1>7, <1>10, <1>11, <1>12 DEF ConnectionNext

-----------------------------------------------------------------------------
(* The connection of the consumers                                         *)

ConsumerInv == ExcessOwned /\ ConsumerReady /\ AckChannel

\* What is said of the consumers is kept by every step.
LEMMA ConsumerStep ==
    ASSUME ConnectionTypeOK, LoadBounded, ConsumerInv, [ConnectionNext]_connectionVars
    PROVE  ConsumerInv'
<1>. USE DEF ConsumerInv, ExcessOwned, ConsumerReady, AckChannel
<1>n. None \notin Conns
  BY BrokerConnectionAssumption
<1>c. consuming \in Conns \cup {None}
  BY DEF ConnectionTypeOK, Maybe
\* Another connection beside the consumers' one is excess.
<1>o. ASSUME NEW c \in Conns, life[c] # "free", consuming \notin {c, None}
      PROVE  excess > 0
  BY <1>c, <1>o, TwoAreExcess DEF Live
<1>1. ASSUME NEW c \in Conns, NEW who \in {"boot", "timer", "publish"}, Dials(c, who),
             UNCHANGED <<service, consuming, channel>>,
             excess' = excess \/ (service = "portal" /\ excess' = excess + 1)
      PROVE  ConsumerInv'
  BY <1>1, <1>c DEF Dials, ConnectionTypeOK
<1>2. CASE Start \/ TimerFires \/ PublishDials
  BY <1>1, <1>2 DEF Start, TimerFires, PublishDials
<1>3. CASE FindsConnection \/ StartConsumers \/ NoSockets
  BY <1>3 DEF FindsConnection, StartConsumers, NoSockets
<1>4. CASE Registered
  BY <1>4 DEF Registered, Usable
<1>5. CASE Restart
  BY <1>5, FreshInv DEF Restart, ConnectionTypeOK, ConnectionInv
<1>6. ASSUME NEW c \in Conns, Connected(c) PROVE ConsumerInv'
  BY <1>6, <1>c DEF Connected, ConnectionTypeOK
<1>7. ASSUME NEW c \in Conns, Ready(c) PROVE ConsumerInv'
  BY <1>7, <1>c, <1>o DEF Ready, ConnectionTypeOK
<1>8. ASSUME NEW c \in Conns, NEW n \in 0..1, GivesUp(c, n) PROVE ConsumerInv'
  BY <1>8, <1>c, <1>o DEF GivesUp, ConnectionTypeOK
<1>9. ASSUME NEW c \in Conns, NEW n \in 1..3, Loses(c, n) PROVE ConsumerInv'
  <2>1. service' = service /\ consuming' = IF consuming = c THEN None ELSE consuming
    BY <1>9 DEF Loses
  <2>2. ExcessOwned' /\ (excess > 0 => excess' > 0)
    <3>1. CASE service = "state"
      BY <1>9, <3>1 DEF Loses, ConnectionTypeOK
    <3>2. CASE service # "state"
      BY <1>9, <3>2 DEF Loses, ConnectionTypeOK
    <3>. QED  BY <3>1, <3>2
  <2>3. ConsumerReady'
    BY <1>9, <1>c, <2>1 DEF Loses, ConnectionTypeOK
  <2>4. AckChannel'
    BY <1>9, <1>n, <1>c, <1>o, <2>1, <2>2 DEF Loses
  <2>. QED  BY <2>2, <2>3, <2>4
<1>10. ASSUME NEW c \in Conns, DialFails(c) PROVE ConsumerInv'
  BY <1>8, <1>10, DialFailsShape, EndsProcessInv DEF ConnectionInv
<1>11. ASSUME NEW c \in Conns, NEW abrupt \in BOOLEAN, Breaks(c, abrupt) PROVE ConsumerInv'
  BY <1>9, <1>11, BreaksShape, CallsBounded, EndsProcessInv DEF ConnectionInv
<1>12. CASE UNCHANGED connectionVars
  BY <1>12 DEF connectionVars, localVars
<1>. QED  BY <1>2, <1>3, <1>4, <1>5, <1>6, <1>7, <1>10, <1>11, <1>12 DEF ConnectionNext

-----------------------------------------------------------------------------
(* Why nobody consumes                                                     *)

DeafInv == PauseOwned /\ RetriesExplained /\ PauseExplained /\ DeafExplained

\* What is said of a process that consumes nothing is kept by every step.
LEMMA DeafStep ==
    ASSUME ConnectionTypeOK, ConsumerReady, DeafInv, [ConnectionNext]_connectionVars
    PROVE  DeafInv'
<1>. USE DEF DeafInv, PauseOwned, RetriesExplained, PauseExplained, DeafExplained, Excused
<1>n. None \notin Conns
  BY BrokerConnectionAssumption
<1>1. ASSUME NEW c \in Conns, NEW who \in {"boot", "timer", "publish"}, Dials(c, who),
             who = "timer" => timers > 0, who = "publish" => service = "portal",
             timers' \in {timers, timers - 1},
             UNCHANGED <<service, consuming, channel, broken, bootless>>,
             boot' \in {boot, "dialling"}
      PROVE  DeafInv'
  <2>1. Live' \subseteq Live \cup {c}
    BY <1>1 DEF Dials, Live, ConnectionTypeOK
  <2>2. dialler' = [dialler EXCEPT ![c] = who]
    BY <1>1 DEF Dials
  <2>3. RetriesExplained'
    BY <1>1, <2>1, <2>2 DEF ConnectionTypeOK, Live
  <2>. QED  BY <1>1, <2>3
<1>2. CASE Start \/ TimerFires \/ PublishDials
  BY <1>1, <1>2 DEF Start, TimerFires, PublishDials, ConnectionTypeOK
<1>u. ASSUME UNCHANGED <<service, life, dialler, timers, broken>>, bootless => bootless'
      PROVE  RetriesExplained'
  BY <1>u DEF Live
<1>3. CASE FindsConnection \/ StartConsumers \/ NoSockets
  <2>1. RetriesExplained'
    BY <1>3, <1>u DEF FindsConnection, StartConsumers, NoSockets
  <2>. QED  BY <1>3, <2>1 DEF FindsConnection, StartConsumers, NoSockets
<1>4. CASE Registered
  BY <1>4, <1>n, <1>u DEF Registered, Usable
<1>5. CASE Restart
  BY <1>5, FreshInv DEF Restart, ConnectionTypeOK, ConnectionInv
<1>6. ASSUME NEW c \in Conns, Connected(c) PROVE DeafInv'
  <2>1. Live' = Live
    BY <1>6, LiveCounted DEF Connected
  <2>. QED  BY <1>6, <2>1 DEF Connected
<1>7. ASSUME NEW c \in Conns, Ready(c) PROVE DeafInv'
  <2>1. Live' = Live
    BY <1>7, LiveCounted DEF Ready
  <2>2. RetriesExplained'
    BY <1>7, <2>1 DEF Ready
  <2>3. /\ boot' = "pausing" => boot = "pausing" \/ service = "genesys"
        /\ boot' = "done" => boot = "done" \/ service = "webhook"
    BY <1>7, ReadyTyped
  <2>. QED  BY <1>7, <1>n, <2>2, <2>3 DEF Ready
<1>8. ASSUME NEW c \in Conns, NEW n \in 0..1, GivesUp(c, n) PROVE DeafInv'
  <2>1. Live' \subseteq Live /\ c \in Live
    BY <1>8 DEF GivesUp, Live, ConnectionTypeOK
  <2>2. Excused => Excused'
    BY <1>8, BootTyped DEF GivesUp
  <2>3. service = "genesys" => Excused'
    BY <1>8, <2>1, <2>2, BootTyped DEF GivesUp
  <2>. QED  BY <1>8, <2>2, <2>3, BootTyped DEF GivesUp
<1>9. ASSUME NEW c \in Conns, NEW n \in 1..3, Loses(c, n),
             life[c] = "ready" /\ service # "portal" => UNCHANGED boot
      PROVE  DeafInv'
  <2>0. UNCHANGED service /\ UNCHANGED dialler
    BY <1>9 DEF Loses
  <2>1. CASE life[c] = "ready"
    <3>1. broken' /\ boot' \in {boot, "done"}
      BY <1>9, <2>1 DEF Loses
    <3>. QED  BY <1>9, <2>0, <2>1, <3>1
  <2>2. CASE life[c] = "setup"
    <3>1. BootGoesOn(c) /\ broken' = broken
          /\ consuming' = IF consuming = c THEN None ELSE consuming
      BY <1>9, <2>2 DEF Loses, ConnectionTypeOK
    <3>2. consuming # c
      BY <1>n, <2>2 DEF ConsumerReady, ConnectionTypeOK
    <3>3. Excused => Excused'
      BY <3>1, BootTyped
    <3>4. c \in Live
      BY <2>2 DEF Live
    <3>5. service = "genesys" => Excused'
      BY <3>1, <3>3, <3>4, BootTyped
    <3>6. service # "genesys" => boot' # "pausing"
      BY <3>1, BootTyped
    <3>. QED  BY <2>0, <3>1, <3>2, <3>3, <3>5, <3>6, BootTyped
  <2>. QED  BY <1>9, <2>1, <2>2 DEF Loses
<1>10. ASSUME NEW c \in Conns, DialFails(c) PROVE DeafInv'
  BY <1>8, <1>10, DialFailsShape, EndsProcessInv DEF ConnectionInv
<1>11. ASSUME NEW c \in Conns, NEW abrupt \in BOOLEAN, Breaks(c, abrupt) PROVE DeafInv'
  BY <1>9, <1>11, BreaksShape, CallsBounded, EndsProcessInv DEF ConnectionInv
<1>12. CASE UNCHANGED connectionVars
  <2>1. UNCHANGED Live
    BY <1>12 DEF connectionVars, localVars, Live
  <2>. QED  BY <1>12, <2>1 DEF connectionVars, localVars
<1>. QED  BY <1>2, <1>3, <1>4, <1>5, <1>6, <1>7, <1>10, <1>11, <1>12 DEF ConnectionNext

-----------------------------------------------------------------------------
(* The theorems                                                            *)

\* The invariant of a process and its connections is inductive.
LEMMA Invariant == ConnectionSpec => []ConnectionInv
<1>1. ConnectionInit => ConnectionInv
  <2>. SUFFICES ASSUME ConnectionInit PROVE ConnectionInv
    OBVIOUS
  <2>1. ConnectionTypeOK
    BY ConnectionTypeInit
  <2>2. Live = {} /\ Load = 1
    <3>1. Live = {}
      BY DEF Live, ConnectionInit
    <3>. QED  BY <3>1, FS_EmptySet DEF Load, ConnectionInit
  <2>. QED
    BY <2>1, <2>2 DEF ConnectionInv, ConnectionInit, LoadBounded, ExcessOwned, ConsumerReady, AckChannel,
       PauseOwned, RetriesExplained, PauseExplained, DeafExplained, Excused
<1>2. ConnectionInv /\ [ConnectionNext]_connectionVars => ConnectionInv'
  BY ConnectionTypeStep, LoadStep, ConsumerStep, DeafStep DEF ConnectionInv, ConsumerInv, DeafInv
<1>. QED  BY <1>1, <1>2, PTL DEF ConnectionSpec

\* A second connection, and acks on another channel than the consumers', come
\* from reconnects in excess: none in the Genesys API service and the webhooks.
THEOREM TwinsAreExplained == ConnectionSpec => []TwinsExplained
<1>1. ConnectionInv => TwinsExplained
  BY DEF ConnectionInv, TwinsExplained, LoadBounded, ExcessOwned, AckChannel
<1>. QED  BY <1>1, Invariant, PTL

\* A process that has booted and consumes nothing has lost its connection since,
\* or, in the Genesys API service and the portal, has booted without one.
THEOREM DeafnessIsExplained == ConnectionSpec => []DeafExplained
<1>1. ConnectionInv => DeafExplained
  BY DEF ConnectionInv
<1>. QED  BY <1>1, Invariant, PTL

===============================================================================
