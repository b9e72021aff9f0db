--------------------------- MODULE BrokerConnection ---------------------------
(***************************************************************************)
(* How one process keeps its connection to RabbitMQ: the state manager,    *)
(* the Genesys API service, the agent portal or one of the two webhook     *)
(* services.  They differ in what counts as a lost connection, in whether  *)
(* a second loss is ignored while a retry is pending, and in when they     *)
(* start to consume.                                                       *)
(*                                                                         *)
(* Modelled: dialling, the queue set-up that follows, the error and close  *)
(* events, the retry timers, the boot sequence up to the registration of   *)
(* the consumers, giving up, and the container that restarts a process     *)
(* which exits.  The settling of messages on a renewed channel is in       *)
(* RetryConsumers; queues declared with other arguments are left out.      *)
(*                                                                         *)
(* amqplib is external: a broken connection emits error and then close in  *)
(* one tick, an orderly closed one close only, and every call pending on   *)
(* it is rejected.  An error event nobody listens to ends the process.     *)
(***************************************************************************)
EXTENDS Naturals, FiniteSets

CONSTANTS
    Services,     \* the services the process may be one of
    Conns,        \* connections open at a time (bound)
    MaxAttempts,  \* maxReconnectAttempts, 10 in the code
    MaxFailures,  \* broken connections, failed dials,
                  \* Redis down at boot (bound)
    None          \* no connection, or null

ASSUME BrokerConnectionAssumption ==
    /\ Services \subseteq {"state", "genesys", "portal", "webhook"}
    /\ IsFiniteSet(Conns) /\ None \notin Conns
    /\ MaxAttempts \in Nat \ {0}
    /\ MaxFailures \in Nat

VARIABLES
    service,       \* which service this process is
    boot,          \* see Stages
    life,          \* of each connection: "free", "dialling", "setup" or "ready"
    dialler,       \* who dialled it: "boot", "timer" or "publish"
    channel,       \* this.channel: a connection's, None, or "closed"
    isConnected,   \* the flag of the portal and the webhooks
    consuming,     \* the connection the consumers are registered on
    timers,        \* pending reconnect timers
    attempts,      \* reconnectAttempts of the state manager
    tries,         \* dials of its boot loop so far
    reconnecting,  \* the Genesys API service's guard
    excess,        \* history: reconnects asked for beyond one per lost connection
    broken,        \* history: whether a ready connection was lost since boot
    bootless,      \* history: whether boot went on without a connection
    failures

\* "waiting": between two dials of the boot loop; "pausing": the 500 ms
\* before the Genesys consumers start; "registering": channel.consume is
\* pending; "down": the process has exited.
Stages == {"starting", "dialling", "waiting", "pausing", "registering",
           "done", "down"}

localVars == <<boot, life, dialler, channel, isConnected, consuming, timers,
               attempts, tries, reconnecting, excess, broken, bootless>>
connectionVars == <<service, localVars, failures>>

Live == {c \in Conns : life[c] # "free"}
Free == Conns \ Live
Listening == {c \in Conns : life[c] = "ready" \/
                            (life[c] = "setup" /\ service \in {"state", "genesys"})}
Usable == channel \in Conns /\ life[channel] = "ready"

Fresh ==
    /\ life' = [c \in Conns |-> "free"]
    /\ dialler' = [c \in Conns |-> "boot"]
    /\ channel' = None /\ consuming' = None
    /\ isConnected' = FALSE /\ reconnecting' = FALSE
    /\ timers' = 0 /\ attempts' = 0 /\ tries' = 0 /\ excess' = 0
    /\ broken' = FALSE /\ bootless' = FALSE

ConnectionInit ==
    /\ service \in Services
    /\ boot = "starting"
    /\ life = [c \in Conns |-> "free"]
    /\ dialler = [c \in Conns |-> "boot"]
    /\ channel = None /\ consuming = None
    /\ isConnected = FALSE /\ reconnecting = FALSE
    /\ timers = 0 /\ attempts = 0 /\ tries = 0 /\ excess = 0
    /\ broken = FALSE /\ bootless = FALSE
    /\ failures = 0

\* The process ends, by process.exit or an exception nobody catches.
Exits == boot' = "down" /\ Fresh

-----------------------------------------------------------------------------
(* Reconnecting                                                            *)

\* n calls of the state manager's reconnect() in a row.
CountsAttempts(n) ==
    /\ attempts' = attempts + n
    /\ timers' = timers + n
    /\ UNCHANGED reconnecting

SchedulesRegardless(n) ==
    /\ timers' = timers + n
    /\ reconnecting' = (reconnecting \/ n > 0)
    /\ UNCHANGED attempts

\* The Genesys API service: a second call finds the flag set.
SchedulesOnce(n) ==
    /\ timers' = IF reconnecting \/ n = 0 THEN timers ELSE timers + 1
    /\ reconnecting' = (reconnecting \/ n > 0)
    /\ UNCHANGED attempts

\* The others start a timer every time.
SchedulesEach(n) ==
    /\ timers' = timers + n
    /\ UNCHANGED <<attempts, reconnecting>>

Patient(n) == service = "state" => attempts + n <= MaxAttempts

Reconnects(n) ==
    CASE service = "state"                 -> CountsAttempts(n)
      [] service = "genesys"               -> SchedulesOnce(n)
      [] service \in {"portal", "webhook"} -> SchedulesEach(n)

\* The flag of the portal and the webhooks is set when the queues are there, and
\* cleared by the close event of any connection that got so far.
RaisesFlag == isConnected' = (service \in {"portal", "webhook"})
LowersFlag(c) == isConnected' = (isConnected /\ c \notin Listening)

\* What becomes of this.channel when connection c is gone.
WithoutChannel(c) ==
    channel' = CASE service = "genesys" -> None
                 [] service # "genesys" /\ channel = c -> "closed"
                 [] OTHER -> channel

\* How many reconnects a lost connection asks for: one for each event that
\* has a listener calling reconnect, and one if a pending call of a dialling
\* that a timer or initialize() made is rejected.
Events(abrupt) == IF service = "state" /\ abrupt THEN 2 ELSE 1
CallsOnLoss(c, abrupt) ==
    CASE service = "state" ->
            Events(abrupt) + (IF life[c] = "setup" /\ dialler[c] = "timer" THEN 1 ELSE 0)
      [] service = "genesys" -> Events(abrupt) + (IF life[c] = "setup" THEN 1 ELSE 0)
      [] service \in {"portal", "webhook"} -> 1

SwallowsFailure(c) ==
    /\ boot' = IF dialler[c] = "boot" THEN "done" ELSE boot
    /\ bootless' = (bootless \/ dialler[c] = "boot")

\* What a rejected dial or set-up means to the boot sequence: the state
\* manager's loop waits and dials again; the Genesys consumers find no
\* channel; the portal's consume goes on with a channel an early publish
\* made, or gives up for good.
BootGoesOn(c) ==
    IF dialler[c] # "boot"
        THEN UNCHANGED <<boot, bootless>>
        ELSE LET other == service = "portal" /\ Usable IN
             /\ boot' = CASE service = "state"   -> "waiting"
                          [] service = "genesys" -> "pausing"
                          [] other               -> "registering"
                          [] service \in {"portal", "webhook"} /\ ~other -> "done"
             /\ bootless' = (bootless \/ (service # "state" /\ ~other))

-----------------------------------------------------------------------------
(* Dialling                                                                *)

Dials(c, who) ==
    /\ life[c] = "free"
    /\ life' = [life EXCEPT ![c] = "dialling"]
    /\ dialler' = [dialler EXCEPT ![c] = who]

Start ==
    /\ boot \in {"starting", "waiting"}
    /\ ~isConnected
    /\ \E c \in Conns : Dials(c, "boot")
    /\ boot' = "dialling" /\ tries' = tries + 1
    /\ UNCHANGED <<service, channel, isConnected, consuming, timers, attempts,
                   reconnecting, excess, broken, bootless, failures>>

\* The portal's consume finds the connection of an early publish.
FindsConnection ==
    /\ boot = "starting" /\ isConnected
    /\ boot' = "registering"
    /\ UNCHANGED <<service, life, dialler, channel, isConnected, consuming, timers,
                   attempts, tries, reconnecting, excess, broken, bootless, failures>>

\* amqp.connect resolved; createChannel and assertQueue are pending.
Connected(c) ==
    /\ life[c] = "dialling"
    /\ life' = [life EXCEPT ![c] = "setup"]
    /\ UNCHANGED <<service, boot, dialler, channel, isConnected, consuming, timers,
                   attempts, tries, reconnecting, excess, broken, bootless, failures>>

Ready(c) ==
    /\ life[c] = "setup"
    /\ life' = [life EXCEPT ![c] = "ready"]
    /\ channel' = c
    /\ attempts' = 0
    /\ RaisesFlag
    /\ boot' = IF dialler[c] # "boot" THEN boot
               ELSE CASE service \in {"state", "portal"} -> "registering"
                      [] service = "genesys" -> "pausing"
                      [] service = "webhook" -> "done"
    /\ UNCHANGED <<service, dialler, consuming, timers, tries, reconnecting,
                   excess, broken, bootless, failures>>

\* The broker refuses: connect() rejects before there is a connection.  The
\* boot loop of the state manager gives up after MaxAttempts dials.
DialFails(c) ==
    /\ life[c] = "dialling" /\ failures < MaxFailures
    /\ failures' = failures + 1
    /\ LET calls == IF service = "state" /\ dialler[c] = "boot" THEN 0 ELSE 1 IN
       IF Patient(calls) /\ ~(calls = 0 /\ tries >= MaxAttempts)
         THEN /\ life' = [life EXCEPT ![c] = "free"]
              /\ Reconnects(calls)
              /\ BootGoesOn(c)
              /\ channel' = IF service = "genesys" THEN None ELSE channel
              /\ UNCHANGED <<dialler, isConnected, consuming, tries, excess, broken>>
         ELSE Exits
    /\ UNCHANGED service

\* A connection is lost.  The webhooks and the portal listen to a connection
\* only once it is set up: an error before ends the process.  A boot whose
\* channel.consume is pending on it ends too, but for the portal, which logs.
Breaks(c, abrupt) ==
    /\ life[c] \in {"setup", "ready"} /\ failures < MaxFailures
    /\ failures' = failures + 1
    /\ LET calls == CallsOnLoss(c, abrupt)
           pending == boot = "registering" /\ channel = c
       IN
       IF \/ abrupt /\ c \notin Listening
          \/ pending /\ service # "portal"
          \/ ~Patient(calls)
          \/ /\ service = "state" /\ life[c] = "setup" /\ dialler[c] = "boot"
             /\ tries >= MaxAttempts
         THEN Exits
         ELSE /\ life' = [life EXCEPT ![c] = "free"]
              /\ consuming' = IF consuming = c THEN None ELSE consuming
              /\ WithoutChannel(c)
              /\ LowersFlag(c)
              /\ Reconnects(calls)
              /\ IF life[c] = "setup" THEN BootGoesOn(c)
                 ELSE /\ boot' = IF pending THEN "done" ELSE boot
                      /\ UNCHANGED bootless
              /\ broken' = (broken \/ life[c] = "ready")
              /\ excess' = IF service = "state"
                             THEN excess + calls -
                                  (IF life[c] = "setup" /\ dialler[c] = "boot" THEN 0 ELSE 1)
                             ELSE excess
              /\ UNCHANGED <<dialler, tries>>
    /\ UNCHANGED service

TimerLeavesFlag ==
    /\ timers > 0
    /\ timers' = timers - 1
    /\ \E c \in Conns : Dials(c, "timer")
    /\ UNCHANGED <<service, boot, channel, isConnected, consuming, attempts, tries,
                   reconnecting, excess, broken, bootless, failures>>

TimerFires ==
    /\ timers > 0
    /\ timers' = timers - 1
    /\ reconnecting' = FALSE
    /\ \E c \in Conns : Dials(c, "timer")
    /\ UNCHANGED <<service, boot, channel, isConnected, consuming, attempts, tries,
                   excess, broken, bootless, failures>>

\* publishInboundMessage calls initialize() when it finds no connection.
PublishDials ==
    /\ service = "portal" /\ boot # "down"
    /\ ~isConnected \/ channel = None
    /\ \E c \in Conns : Dials(c, "publish")
    /\ excess' = excess + 1
    /\ UNCHANGED <<service, boot, channel, isConnected, consuming, timers, attempts,
                   tries, reconnecting, broken, bootless, failures>>

-----------------------------------------------------------------------------
(* Boot                                                                    *)

\* The consumers of the Genesys API service start half a second later, or
\* never.
StartConsumers ==
    /\ boot = "pausing"
    /\ boot' = IF channel = None THEN "done" ELSE "registering"
    /\ UNCHANGED <<service, life, dialler, channel, isConnected, consuming, timers,
                   attempts, tries, reconnecting, excess, broken, bootless, failures>>

\* channel.consume is answered.
Registered ==
    /\ boot = "registering" /\ Usable
    /\ consuming' = channel
    /\ boot' = "done"
    /\ UNCHANGED <<service, life, dialler, channel, isConnected, timers, attempts,
                   tries, reconnecting, excess, broken, bootless, failures>>

\* The portal starts its listener only after the Redis adapter of its sockets.
NoSockets ==
    /\ service = "portal" /\ boot = "starting" /\ failures < MaxFailures
    /\ failures' = failures + 1
    /\ boot' = "done" /\ bootless' = TRUE
    /\ UNCHANGED <<service, life, dialler, channel, isConnected, consuming, timers,
                   attempts, tries, reconnecting, excess, broken>>

\* The container is restarted.
Restart ==
    /\ boot = "down"
    /\ boot' = "starting"
    /\ Fresh
    /\ UNCHANGED <<service, failures>>

ConnectionNext ==
    \/ Start \/ TimerFires \/ PublishDials
    \/ FindsConnection \/ StartConsumers \/ Registered \/ NoSockets \/ Restart
    \/ \E c \in Conns : Connected(c) \/ Ready(c) \/ DialFails(c)
    \/ \E c \in Conns, abrupt \in BOOLEAN : Breaks(c, abrupt)

ConnectionSpec == ConnectionInit /\ [][ConnectionNext]_connectionVars

\* Node.js runs timers and callbacks, the broker answers unless it fails, and
\* compose restarts a container.  Nobody has to publish.
FairConnectionSpec ==
    /\ ConnectionSpec
    /\ WF_connectionVars(Start) /\ WF_connectionVars(TimerFires)
    /\ WF_connectionVars(StartConsumers) /\ WF_connectionVars(Registered)
    /\ WF_connectionVars(FindsConnection) /\ WF_connectionVars(Restart)
    /\ \A c \in Conns :
         WF_connectionVars(Connected(c)) /\ WF_connectionVars(Ready(c))

-----------------------------------------------------------------------------
(* Properties                                                              *)

Maybe(S) == S \cup {None}

ConnectionTypeOK ==
    /\ service \in Services
    /\ boot \in Stages
    /\ life \in [Conns -> {"free", "dialling", "setup", "ready"}]
    /\ dialler \in [Conns -> {"boot", "timer", "publish"}]
    /\ channel \in Maybe(Conns \cup {"closed"})
    /\ consuming \in Maybe(Conns)
    /\ isConnected \in BOOLEAN /\ reconnecting \in BOOLEAN
    /\ timers \in Nat /\ attempts \in Nat /\ tries \in Nat /\ excess \in Nat
    /\ broken \in BOOLEAN /\ bootless \in BOOLEAN
    /\ failures \in 0..MaxFailures

\* What the process has or will have open.
Load == Cardinality(Live) + timers + (IF boot \in {"starting", "waiting"} THEN 1 ELSE 0)

\* A process keeps one connection, and acknowledges on the channel it
\* consumes from.  The Genesys API service and the webhooks always do.  The
\* state manager gets a second connection, for good, from every broken one,
\* because both events call reconnect; the portal from every publish that
\* finds no connection while a timer or a dial is already pending.
TwinsExplained ==
    /\ Load <= 1 + excess
    /\ excess > 0 => service \in {"state", "portal"}
    /\ consuming \notin {None, channel} => excess > 0

\* Consumers are registered once.  A process that has booted and consumes
\* nothing has lost its connection since, or, in the Genesys API service and
\* the portal, has booted without one.
DeafExplained ==
    boot = "done" /\ service # "webhook" /\ consuming = None =>
        broken \/ (bootless /\ service # "state")

\* When the failures stop, every process can publish again and goes on to: the
\* retries neither get lost nor block each other, also when the process gives
\* up and is restarted.  A portal that booted without Redis connects with its
\* first publish.
CanPublish ==
    \/ Usable /\ (service \in {"portal", "webhook"} => isConnected)
    \/ service = "portal" /\ bootless /\ Live = {} /\ timers = 0
PublisherRecovers == <>[]CanPublish

=============================================================================
