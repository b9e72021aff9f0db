# WhatsApp – Genesys message bridge: specifications and proofs

TLA+ models of the services that carry WhatsApp messages to Genesys Cloud and
agents' replies back, of the directory, the portal and the browser around them,
TLC configurations that check them on small instances, and TLAPS proofs of the
main invariants for every instance.
Paths below are relative to `src/services/` unless they start with `src/`.

## 1. The system

```
 Meta --webhook--> whatsapp-webhook-service --> inbound-whatsapp-messages --> state-manager
   state-manager --> inbound.enriched --> inbound-transformer --> genesys.outbound.ready
     --> genesys-api-service --> Genesys
   genesys-api-service --> correlation-events --> state-manager
 Genesys --webhook--> genesys-webhook-service --> outbound-genesys-messages --> state-manager
   state-manager --> outbound-processed --> outbound-transformer --> outbound-ready
     --> whatsapp-api-service --> Meta
 status events: both webhooks --> state-manager --> genesys-status-processed --> genesys-api-service
 tokens:  auth-service <-- every service that calls Genesys or Meta
 tenants: tenant-service <-- webhooks, transformers, portal
 agents:  browser (agent-portal) --> agent-portal-service --> tenant-service, state-manager, auth-service
```

The arrows between services are durable RabbitMQ queues, delivered at least
once, or HTTP calls; state is in PostgreSQL and Redis, and in the browser's
session storage.

| component | state | operations | what is hard | what makes it correct |
|---|---|---|---|---|
| state-manager, identity resolution | `conversation_mappings`, `message_tracking`; Redis `lock:mapping:*`, `mapping:wa:*`, `mapping:conv:*` | inbound, outbound and correlation handlers, HTTP lookups, expiry job | 100 handlers interleave at every await; a lock with a TTL and no owner; two caches written from rows read earlier; redelivery after any crash; Redis outages | a conversation that is going on is not expired; a mapping's conversation is never replaced; a reply reaches the customer of its conversation; acked means forwarded; a mapping without a conversation is still going to get one |
| state-manager, message status | rows of `message_tracking` | `trackMessage`, `updateStatus` for two status queues, the HTTP status route | read, validate and write are separate awaits; events out of order and duplicated | the status moves only along `MESSAGE_STATE_TRANSITIONS` |
| broker connections | connection, channel, flags, timers, counts of each process | connect, reconnect, set up queues, register consumers, give up | `error` and `close` both reconnect, or neither is heard; dials of timers and of publishers meet; consumers are registered once | one connection; a process that booted consumes; a publisher recovers |
| genesys-api-service, delivery | Redis dedupe key per wamid, token cache | deliver a message, publish the correlation event | crash between POST, SET and publish; 401, 4xx and 5xx each end differently | an acked message was accepted by Genesys; its correlation event follows unless a handler failed in between; every copy ends in an ack or the DLQ |
| auth-service, token broker | Redis token cache and lock, limiter per replica | get, refresh and validate tokens | single flight under a lock with an owner and a TTL; forced refresh; lost answers and queued commands of the Redis client; degraded mode | one exchange at a time under the lock; nobody gets a shared token older than one cached before; every request is answered |
| inbound-transformer, outbound-transformer, whatsapp-api-service: consumers | retry headers, retry timers, the channel | take, pass on, retry, give up | acked before the retry is published; a count that stays local; callbacks that outlive their channel and settle another message's tag | a message is passed on or dead-lettered, or lost for a named reason |
| the pipeline: both webhooks, the transformers, the queues | what is in each queue | verify, fetch media, classify, publish, transform, send | six services rewrite one message; the sender is answered before, or whatever becomes of, the publishing | answered means queued; what leaves at the end is what Meta and Genesys accept |
| tenant-service | tenant, credential and configuration rows; five kinds of Redis entries | create, provision, rotate, store, update, delete, sign up, lookups | handlers are series of single statements; a fill races a deletion; one row is cached under several keys; another service writes the same rows | rows of one tenant agree; a cache entry does not stay stale |
| agent-portal-service | users, sessions, token blacklist, assignees, onboarding state, dashboard entry | login, refresh, two logouts, sync, assign, transfer, send, onboarding, statistics | a login in the middle of a logout of all devices; overlapping syncs; a transfer against an assignment; tables that lack the columns the queries use | an ended session's token is on the blacklist (which no route reads); somebody has each conversation; sent means posted |
| agent-portal (browser) | session storage, React's user, refresh timer, refresh queue | login, logout, `initializeAuth`, intercepted calls | answers that arrive after the user left; an effect that runs again and again; three ways to sign out | who signed out stays out; the screen shows whose tokens are used; the refresh queue empties |
| api-gateway, admin-dashboard, agent-widget, tenant resolver | – | proxying, wizards | – | – |

`PROJECT.json` lists the components with what is modelled of each, and under
`hazards` the line of every behaviour that a test would hardly reach.

## 2. Modules

| module | what it is |
|---|---|
| `MessageLifecycle` | abstract specification: a message is tracked and then moves along the transition table |
| `MessageStatus` | state-manager: the status rows and their handlers |
| `StateManager` | state-manager, identity resolution: the handlers, the lock, the caches and the expiry job over the tables |
| `GenesysDelivery` | genesys-api-service: the consumer that posts messages to Genesys and publishes correlation events |
| `TokenIssuer` | abstract specification: who is answered with which token |
| `TokenBroker` | auth-service: the cached Genesys token of a tenant, its lock, and the degraded mode |
| `RetryConsumers` | the consumers of inbound-transformer, outbound-transformer and whatsapp-api-service: callbacks, retries, channels |
| `MessagePipeline` | the way of a message through all services: webhooks, queues, what each handler makes of it |
| `BrokerConnection` | one process and its connection to RabbitMQ, for four kinds of process |
| `TenantDirectory` | tenant-service: rows and Redis entries, statement by statement, with the agent portal's writes |
| `AgentPortal` | agent-portal-service: users, sessions, assignees, messages, onboarding, dashboard, statement by statement |
| `BrowserSession` | agent-portal: one browser tab, its tokens, timer, refresh queue and screen |
| `MC...` | a small instance of each for TLC: which message a copy is of, which calls are made, what they carry |
| `StateManager_proofs` | theorems about `StateManager` and `MessageStatus` |
| `MessagePipeline_proofs` | theorems about `MessagePipeline` and `BrokerConnection` |
| `GenesysDelivery_proofs`, `TokenBroker_proofs`, `RetryConsumers_proofs`, `TenantDirectory_proofs`, `AgentPortal_proofs`, `BrowserSession_proofs` | theorems about one module each |

`MessageStatus` and `BrokerConnection` name their specification after
themselves (`StatusSpec`, `ConnectionSpec`), because a module of theorems
extends them beside another component.

In all of them an action is what a handler does from one await to the next, so
that TLC interleaves handlers exactly where the event loop (or two
replicas, or two services) would.

### `MessageStatus`

`FetchCurrent` / `OptimisticUpdate` / `LoseRace` are the two awaits of
`updateStatus`, `LegacyFetch` / `LegacyUpdate` those of `updateStatusLegacy`,
`TrackMessage` and `LegacyTrack` the INSERTs, `Requeue` the nack. The route
that tracks stores whatever string it is given as a status, since the column has
no CHECK (`dbInit.ts:47`): `Unlisted` stands for one that is not in the table, and
makes the transition check of both `updateStatus` throw. `routed`
holds the messages an HTTP status route was used on: they are shown to
`MessageLifecycle` as untracked, so that the refinement speaks of all others
while the routes are in use.

### `StateManager`

| code | actions |
|---|---|
| `handleInboundMessage` | `Start` (validation), `TryLock` (one round of `withLockRetry`), `Upsert`, `CacheInbound` (`createMappingForInbound`), `Track`, `Publish`, `Release`, then `Ack` of `consume`; `HandlerFails` is the throw with its `finally` and nack, `CrashInbound` the death of the replica |
| `correlateConversation` | `Correlate`, `CacheCorrelation`, `CrashCorrelation` |
| `handleOutboundMessage` | `Lookup` (cache), `Select`, `Fill` (`getMappingByConversationId`), `TrackReply`, `UpdateActivity`, `PublishReply`, `ReplyFails` |
| HTTP lookups | `ReadMapping` (SELECT), `FillFromRead` (SETEX) |
| `runExpiryJob` | `SelectVictims`, `ExpireVictims`, `ClearVictim`, `ExpiryAborts` |
| environment | `Receive`, `Send`, `GenesysAccepts`, `LockExpires`, `CacheExpires`, `RedisDown`, `RedisUp`, `GoStale` |

The tables are `mapping` and `tracked`; what Redis holds is `lock`, `cacheWa`
and `cacheConv`; a handler's local variables are `found`, `corrFound`,
`replyFound`, `reading` and `victims`: rows read before an await and used after
it, which is where the stale-state hazards are. Three history variables name the
races the code leaves open: `overrun`, the customers whose lock expired under a
handler at work; `repeated`, the messages of which a copy was stored again after
their correlation; `hurried`, the mappings used between the expiry job's SELECT and its UPDATE, or
through a cache once they had expired.

Abstractions:

- the two SETEX of `cacheMapping`, and the two DELs of the expiry job, are one
  step; the invariants about a key do not relate the two keys of a row;
- a fault is taken by one handler at a time; the fault of a whole replica is
  several of them, because nothing else of a replica is state;
- the DLQ publish of a handler and the ack after it are one step; nothing is
  awaited between them that can fail on its own;
- the 24 hour TTLs and the 24 hours of inactivity do not elapse while a handler
  is between two awaits (`Quiet`), and `DayPasses = FALSE` leaves them out;
- `GenesysAccepts` is the genesys-api-service's consumer in one step: Genesys
  answers a wamid with one conversation, and its correlation event is published;
  `GenesysDelivery` shows when it is not;
- the tenant selects no state here (`tenantConnectionFactory` opens every pool
  on the same database, no Redis key holds a tenant), so there is none;
- one expiry job; each replica runs one, and two of them select the same rows.

Database facts come from `state-manager/src/utils/dbInit.ts` and, where
they differ, from the migrations: `WamidNullable` (migration 004) and
`UpdatedAtTrigger` are the two constants for the difference.

### `GenesysDelivery`

| code (`genesys-api-service/src/`) | state and actions |
|---|---|
| `consumers/inbound.consumer.ts`, one delivery | `stage[d]`: what its handler awaits; `held[d]`: the token it holds |
| validation, `redisGet` of `genesys:dedupe:<wamid>` | `Begin`; the keys are `deduped` |
| `getTenantGenesysCredentials` | `LoadCredentials`, `CredentialsFail` |
| `services/auth.service.ts`, `getAuthToken` | `ReadToken`, `FetchToken`, `StoreToken`, `FetchFails`; Redis holds `cached`, the auth-service's own cache `issued` |
| POST to Genesys | `Post`, `PostUnauthorized` (401), `PostRejected` (other 4xx), `PostFails` (5xx, timeout, answer lost); `accepted` counts what Genesys took |
| `redisSet` of the key, publishing, ack | `Mark`, `PublishCorrelation` |
| 401 branch of the catch block | `Invalidate` |
| environment | `Crash`, `Revoke`, `CachedTokenExpires`, `IssuedTokenExpires`, `DedupeExpires`, `RedisDown`, `RedisUp` |

`interrupted` is a history variable: the handlers that failed after their POST
was accepted. Abstractions: one tenant (tenants share neither key nor token);
a token is `valid` or `revoked`, and Genesys revokes all of them at once, which
is how revoking a client's credentials looks; a deduplication key may expire at
any time, so no property leans on its 24 hours; the auth-service is what
`TokenBroker` promises: the cached token, or a new one. A crash is
that of one handler, as above; a lost channel makes publish and ack throw and
the broker redeliver, which is the same step.

### `TokenBroker`

| code (`auth-service/src/`) | state and actions |
|---|---|
| `services/token/genesys-token.service.js`, one request | `stage[r]`, `waits[r]`, `token[r]` |
| `getToken`: degraded?, `forceRefresh`, cache, lock | `Arrive`, `ReadCache`, `AcquireLock` |
| `_waitForCache`, the second acquire | `WaitForCache`, `RetryAcquire` |
| `_fetchAndCache` with its `finally` | `Exchange`, `ExchangeFails`, `StoreToken`, `ReleaseLock` |
| `_getTokenDegraded`, `services/health/degraded-rate-limiter.js` | `ExchangeDirectly` (Genesys issues the token), `AnswerDirectly` (the answer arrives, by when a newer token may be cached), `DirectFails`; `recent` is the limiter's window, `WindowSlides` its passing |
| `repositories/lock.repository.js` | `lock`: the request whose value it has, `Free`, or `Orphan`; `LockExpires` |
| `repositories/token-cache.repository.js` | `cache`, `CacheExpires` |
| `repositories/redis.client.js`, `services/health/redis-health-monitor.js` | `conn`, `healthy`; `RedisDown`, `RedisUp`, `Reconnect`, `GiveUp`, `CheckHealth` |
| the process | `Crash` |

Tokens are numbered in the order Genesys issues them. `top` and `floor` are
history variables: the newest token that was ever cached, and `top` when the
request arrived. The Redis client is the external node-redis, modelled from the
options the code gives it: while it reconnects, commands are queued (no step),
those in flight are rejected although the server may have executed them
(`MaybeExecuted`), and a `reconnectStrategy` that returns an Error closes it for good.

### `RetryConsumers`

| code | state and actions |
|---|---|
| the queue and its prefetch | `status`, `retries` (the header of the broker's copy), `tag`; `Deliver` |
| a callback | a record of `jobs`; `stale` once its channel is closed |
| `inbound-transformer`: `inboundConsumer.ts`, `publisherService.ts` | `HandleInbound`, `Transform`, `OpenPublisher`, `PublisherFails`, `RetryTimer`, `PublisherLost` |
| `outbound-transformer`: `rabbitmq.service.ts`, `message-processor.service.ts`, `dispatcher.service.ts` | `HandleOutbound`, `Backpressure`, `BackoffTimer` |
| `whatsapp-api-service`: `rabbitmq.service.js` | `HandleWhatsApp`, `Sent`, `Rejected`, `SendFails` |
| connections and the process | `Connect`, `ConnectionLost`, `Crash`; what they do to callbacks is in `Disconnects`, `Dies`, `Settles` |

A message has a kind, which decides how far it gets: `fine`, `pair` (two parts),
`notJson`, `invalid`, `rejected` for good, or `poison`, failing each time as if
it were transient. `slow` says whether callbacks may outlive the reconnect
delay; only then can one settle a tag of the next channel, which is another
message's. In the whatsapp-api-service this may go on for ever after one lost
connection: a late callback settles a tag the new channel does not know, which
closes that channel and makes the next callback late. `MessagesSettle` excuses
exactly that, and the message that fails each time in the service that does not count.

### `MessagePipeline`

| code | actions |
|---|---|
| whatsapp-webhook-service: controller and processor | `LooksUpTenant`, `ResolveMeta` (signature, then the answer is 200 in any case), `ProcessItem` for each item, `SaveMedia` |
| genesys-webhook-service: controller, processing after the answer | `LooksUpIntegration`, `ValidateGenesys`, `ProcessEvent`, `UploadMedia`, `RetryPublish` |
| state-manager, as far as it routes | `ResolveInbound` with `MediaAccepted`, `LockTimesOut`, `UpdateStatus`, `ResolveOutbound`, `ForwardStatus` |
| inbound-transformer, genesys-api-service | `Format`, `SendToGenesys`, `SendFails`, `DropEvent`, `SendReceipt`, `ReceiptFails` |
| outbound-transformer, whatsapp-api-service | `TransformRoute` with `TransformMessage` and what it consists of, `SendToMeta` |
| the webhooks' connection and process | `ConnectionBreaks`, `NoticeClose`, `Reconnect`, `Crash` |

A text is `none`, `blank`, `short`, `long` or `huge`, by the limits the code
and Meta compare it with; media is one of the types the code tells apart. Of a
deployment (`setup.setting`), `trusted` says whether media is on a host the state
manager trusts, `integrated` whether the tenant has the integration a message to
Genesys is addressed to. Retries and what they cost are in `RetryConsumers`; here
only a webhook's call, a publication and a message Genesys did not take are tried again.

### `BrokerConnection`

`Start`, `Connected`, `Ready`, `DialFails` are `connect` and the set-up of
queues; `Breaks` the loss of a connection, orderly or abrupt, with what each
service's listeners do about it (`CallsOnLoss`); `TimerFires` the reconnect
timers, `PublishDials` a publish of the portal that finds no channel;
`FindsConnection`, `StartConsumers`, `Registered`, `NoSockets` the boot
sequence; `Restart` the container. Acks and messages are not in it.

### `TenantDirectory` and `AgentPortal`

A request is a call of a route; `at[r]` is the statement it executes next, and
a step is one statement. What a request writes is known by the request's name,
so that one sees who wrote a row last.

| code | actions |
|---|---|
| `tenantService.js`, `createTenant`, `provisionTenant` | `FindsTenant`, `InsertsTenant` (refused when `Taken` or `MayClash`), `InsertsKey`, `CachesNew`, `NamesNew` |
| `setGenesysCredentials`, `storeCredentials` | `ChecksTenant`, `Deactivates`, `InsertsCredentials`, `Denormalises`, `Invalidates` |
| `updateTenant`, `completeOnboarding` | `Updates`, `Completes`: `ChangesTenant`, `Invalidates`, `CachesRow` |
| `deleteTenant` | `DropsConfig`, `DropsCredentials`, `DropsKeys`, `DropsTenant`, `ClearsEntries` |
| `whatsappService.js` (signup, configure) | `ChecksSignup`, `FindsConfig`, `SavesConfig`, `FlagsTenant` |
| `Agent.js` of the agent portal | `CompletesSetup`, `SkipsSetup`, `UpsertsConfig` |
| lookups through the cache | `ReadsEntry`, `ReadsRow`, `FillsEntry`, `Expires` |
| `authController.js`: login, demo login, refresh, the two logouts | `ExchangesCode`, `Provisions`, `FindsUser`, `InsertsUser`, `InsertsSession`, `Refreshes`, `Authenticates`, `LogsOut`, `LogsOutEverywhere` |
| `organizationController.js` | `FetchesUsers`, `FindsNext`, `StoresUser`, `SkipsUser` |
| `conversationController.js`, `messageController.js` | `Assigns`, `ChecksTarget`, `Transfers`; `Tracks` (which may not know the conversation), `Posts`, `MarksSent` |
| `onboardingController.js`, `onboardingCache.js` | `TriesCredentials`, `LoadsState`, `SavesStep`, `ChecksSteps`, `SavesProfile`, `Activates`, `Resets`, `StateExpires` |
| `dashboardController.js`, `dashboardCache.js` | `ReadsStats`, `AsksStateManager`, `StatsFail`, `CachesStats`, `RefreshesStats`, `StatsExpire` |
| both | `Fails`, `Crash`; `Skips` and `CacheLost` where a failing call is swallowed |

`excused`, `overlapped`, `cutShort`, `known` and, in `AgentPortal`, `late`,
`before`, `uninvited`, `lost`, `overtaken` are history variables: they record which race
or fault happened, each where the code lets it happen, and the properties say
that nothing else explains what is left behind.

A `POST /api/tenants` may bring an organisation, a phone number, an integration or
several of them, an update a status, an integration or a phone number; an
integration that is another tenant's makes either fail (`Taken`), and so may a phone number or
a subdomain (`MayClash`), which the model does not tell apart. The entry of an integration
holds a whole row but is compared by the tenant's id only: nobody deletes it when
another column changes, and it is excused as soon as the tenant does. Updates that clear a column are left out. As a
rotation writes the integration too, and a deletion or a suspension takes the
tenant from it, the entry of an integration has five kinds of writers and none
that deletes it.

The portal's queries use columns that `docker/postgres/init.sql` does not
create, and its onboarding a route the tenant service does not have; `migrated`
is whether the deployment has them, and both are checked. A user belongs to one
organisation's tenant (`home`); a login names the tenant that the tenant service gave it
(`given`, `TenantOf`) and is refused when it is another one. The demo's login
has a user and a tenant of its own (`DemoUser`, `DemoTenant`); that tenant is in a
seed which the compose files do not run.

### `BrowserSession`

| code (`agent-portal/src/`) | state and actions |
|---|---|
| `contexts/AuthContext.jsx` | `shown`, `loading`, `refreshTimer`, `due`; `Initialize`, `InitializeOld`, `TimerFires`, `Refreshed`, `RefreshFails` |
| `services/axiosInterceptor.js` | `isRefreshing`, tasks at `queued` or `renewing`; `Refused`, `Queues`, `Renewing`, `Renewed`, `RenewFails`, `Expires` and what follows from them |
| `services/authService.js`, the popup | `store`; `StartsLogin`, `PopupAnswers`, `PopupFails`, `StartsLogout`, `StartsLogoutAll`, `LogsOut`, `LogsOutEverywhere` |
| the pages | `Asks`, `Arrives` |
| the rest | `Responds` (a pending call is answered or fails), `Ages`, `Reload`, `UserDeleted` |

A callback runs up to its next await in one step; rejected promises run their
handlers before anything else. Where `retryWithBackoff` is used, a call that failed
pauses (`BacksOff`) and then asks with the tokens of that moment (`RetriesProfile`);
an answer that is a 4xx ends it at once.

### How they compose

- `StateManager` and `GenesysDelivery` meet at two queues: the wamid published
  by the first is a delivery of the second, and a correlation event comes back.
  `StateManager` assumes the event comes in the end (`GenesysAccepts`), which
  `UncorrelatedOnlyIfInterrupted` narrows down: it comes unless a handler
  failed between the POST and the event.
- `GenesysDelivery` and `TokenBroker` meet at one HTTP call: `FetchToken` is
  what a request of `TokenBroker` may be answered with. A 401 deletes only the
  consumer's own cached token; the auth-service returns the same one until its
  TTL is over, and `DeliveriesSettle` therefore needs that TTL.
- `MessagePipeline` composes all services along a message's way, with each
  handler as one step; the modules above take such a step apart. What it leaves
  to them is redelivery (`RetryConsumers`, `StateManager`, `GenesysDelivery`)
  and what is kept in databases.
- `BrokerConnection` says when the consumers of the other modules run at all:
  their `WF` on a handler assumes a process that is not deaf, and
  `DeafExplained` names the histories after which one is.
- `TenantDirectory` has the agent portal's writes as actions of its own, since
  both services write the same rows. The credentials a webhook or the token
  broker gets are an entry of `TenantDirectory`, possibly stale (`StaleIsExcused`).
- `BrowserSession` is the caller of `AgentPortal`; its server answers
  what `AgentPortal` answers a known or unknown user.
- `MessageStatus` is what `AgentPortal` calls for `Tracks` and `MarksSent`.

## 3. Runs

| run | instance | shows |
|---|---|---|
| `status` | one row, two queue handlers, one HTTP request, four instants, either schema | `ImplementsLifecycle`: whatever the order and duplication of events, a row no route is used on follows the lifecycle; `NoABA`: comparing the status is as good as a version number; `IllegalOnlyByRacingRoute`: the only illegal moves are those of an HTTP request whose row moved between its SELECT and its UPDATE |
| `state_lifecycle` | two messages and a malformed one, two conversations, a reply, a lookup, expiry, handlers that outlive the lock | `ExpiryExplained`: a mapping in use is only expired by a use in the middle of the expiry job or through a stale cache; `ConversationWriteOnce`, `CacheKeysConsistent` |
| `state_customers` | two customers with a message and a conversation each, a reply, expiry, a fault | `ReplyReachesOwner` |
| `state_settles` | two messages, a reply, a fault, handlers that outlive the lock, Redis may go for good | `AckedMeansForwarded`; `LockExclusive`, but for a lock that expired under its holder; `UncorrelatedIsAwaited`: a mapping without a conversation is still going to get one, but for a copy that was repeated; `HandlersSettle`: every queued copy and reply is in the end acked or dead-lettered |
| `delivery` | two copies of a message and a malformed one, two faults, a revocation, Redis may go for good | `AckedMeansDelivered`, `UncorrelatedOnlyIfInterrupted`, `DuplicatesAreExplained`; `DeliveriesSettle`, also when both caches hold a revoked token |
| `token` | three requests on one replica, one forced, one fault, one degraded request a minute | `ExchangesAreExclusive`; `ImplementsIssuer`: `TokenIssuer` with what requests, exchange and cache show of it, where only a degraded request's own token may be older than the shared one; `RequestsSettle`: every request is answered |
| `retry` | each of the three services, a message of any kind beside an ordinary one, two faults | `LossIsExplained`: a message that is gone was passed on or dead-lettered, but for the losses the property names; `MessagesSettle`: each leaves the queue, but in the whatsapp-api-service, which does not count, not one whose callback fails each time, nor any once callbacks outlive the reconnect delay after a lost connection |
| `pipeline` | 96 set-ups of two calls (Meta's with one or two items, Genesys', the transform route's with every text and medium) and settings, two faults | `AnsweredMeansQueued`, `DuplicatesOnlyByCrash`, `InboundEndsExplained` (a customer's message reaches Genesys as it came, or is dead-lettered for a named reason), `MetaAcceptsWhatIsSent`; `PipelineSettles` |
| `broker` | four kinds of process, three connections, three faults, four attempts | `TwinsExplained`: which process gets a second connection, and from what; `DeafExplained`: which process consumes nothing after its boot, and since when; `PublisherRecovers` |
| `tenants` | 25 triples of requests on two tenants, two faults | `OnlyRacesLeaveTraces`: rows of a tenant disagree only where two writers met, one ended early or the creating request brought half of them; `StaleIsExcused`: an entry that is not what the database holds lost a named race; `CachesConverge`: none stays |
| `portal` | 16 triples of requests, the shipped schema and the one the queries want, one fault | `SessionsExplained`, `UsersExplained`, `AssignmentsExplained`, `SendsExplained`, `CachesExplained`: what requests leave behind when they meet is explained by a named race, a refusal or a fault |
| `browser` | two users who take turns, or one who uses every page and signs out everywhere, two calls at a time, one fault | `SignedOutStaysOut`, `ScreenShowsOwner`; `QueueEmpties`, `SignOutShows` |

The properties with "explained", "excused" or "only" in their names state
exactly which races the code leaves open, and that there are no others. Dropping a guard, a
reset or an await from the code makes them fail; `PROJECT.json` lists one such
change for every property under `mutants`, and the modules have it, marked
"Mutant", before the definition it changes.

### Bounds

- *Messages, copies, customers*: the races are between handlers of one
  customer; two messages give a newer and an older one, a second copy gives a
  duplicate. Two customers suffice to confuse them.
- *`MappingIds`*: two rows let a mapping expire and be replaced; with all rows
  used the model stops inserting, which hides no step of the rows it has.
- *`MaxFaults`*: one fault puts a handler back at its start after any of its
  effects. `delivery` and `retry` have two, so that the channel or Redis can be
  away while a handler dies, or a handler can die twice; `broker` has three: a
  connection that breaks, a dial that fails, and one of either while they are repaired. In `token` the
  one fault is an outage or a crash (failing exchanges need no bound). Where
  there are proofs, they are for any number.
- *`MaxRetries`* and *`MaxWaits`*: one round in `StateManager` and
  `TokenBroker`, two in `RetryConsumers`, so that a count can be kept or lost; a
  round that fails changes nothing but the count.
- *`MaxRevocations`*: after one, both caches and every handler hold the
  revoked token, which is the bad case; a second repeats it.
- *`DegradedLimit`*: 1 where the code has 10; three requests exceed it.
- *`MaxAttempts`*: 4 where the code has 10; three broken connections, each
  counted up to three times by the state manager, exhaust it.
- *One replica in `token`*: two requests on one replica interleave like two on
  two replicas; what differs, a client that is closed next to one that is not,
  is covered by the proofs, which are for any number of replicas.
- *`Plans`* of `tenants` and `portal`: triples, because some races need a
  writer, a second writer and a reader; of all triples those are taken whose
  requests share a row or a key. A request that shares none meets nobody.
- *`Setups`* of `pipeline`: every text with every medium on the route, where
  the transformation is decided; on the other ways those the handlers tell
  apart, and each alternative of every setting.
- *`Tasks`* of `browser`: two calls under way, the second of which is queued
  behind the refresh of the first.
- *`Times`*: four instants order two events and two writes in every way.
- *Symmetry*: mapping ids are interchangeable, and only there is it used, never
  with a liveness property.

`CHECK_DEADLOCK FALSE`: a behaviour ends when all messages, calls or requests are
handled and all rows and keys are expired; that is the end of the instance.

### Fairness

- `StateManager`: weakly fair to `InboundStep(d)` and `ReplyStep(r)` only: the
  broker hands a queued message to a live replica and the event loop runs its
  continuation. Nothing else is fair: Redis need not come back, a lock need not
  expire, Genesys need not answer, the expiry job need not run. That is why the
  bound of `withLockRetry` matters for `HandlersSettle`.
- `GenesysDelivery`: `Handle(d)` for the same reasons, and
  `IssuedTokenExpires`: the auth-service stores tokens with a TTL. Without it a
  revoked token bounces between the two services for ever.
- `TokenBroker`: `Step(r)`; `Reconnect(p) \/ GiveUp(p)`, the retry timer of
  the Redis client, which does one or the other; `CheckHealth(p)`, an interval timer. Neither Redis nor the lock
  need come back: a holder that dies makes the waiting requests fail, not hang.
- `RetryConsumers`: strongly fair to `Deliver(m)`, because a queue is in order
  and a message that is ready again and again is delivered, although the prefetch
  bound disables its delivery in between; weakly to each message's callback
  and timer, and to `Connect`.
- `MessagePipeline`: each call's handler goes on; some message is handled.
- `BrokerConnection`: Node runs timers and callbacks, the broker accepts
  connections (`Connected`, `Ready`) unless a fault intervenes, compose restarts
  a container. Nobody has to publish.
- `TenantDirectory`: handlers go on and Redis drops what has expired
  (`Expires(k)`); a lookup by API key or subdomain never expires, and
  `CachesConverge` says nothing of it.
- `BrowserSession`: a call is answered or times out, React runs an effect that
  is due and shows the page navigated to, and some timer fires. Nobody has to
  click or to close the popup.

Faults end (`MaxFaults`). A database that fails for ever makes the nack loop of
the state manager go on for ever, and so does an auth-service that answers 401
for ever in the genesys-api-service.

## 4. Proofs

`StateManager_proofs`, its part about `MessageStatus`, for all sets of messages
and handlers and any clock:

- `StatusTypeCorrect`;
- `OptimisticLockHasNoABA` and `ImplementsTheLifecycle`, for the messages no
  HTTP route was used on, from `OptimisticInv`: the status a handler has seen is
  one from which the row's present status can be reached. As the lifecycle
  has no cycle, a row that moved never shows that status again, so the
  UPDATE's condition only holds on a row that has not moved. `RouteInv` keeps
  the routes' handlers to their messages;
- `IllegalMovesAreTheRoutes`, an action property, for all messages, from `JobInv`: the row of
  a handler still has the status it saw, or the handler is marked as overtaken
  (`WriteMarks`), so that an illegal write is one of a route that was.

`StateManager_proofs`, its part about `StateManager`, for every instance and any number of faults, and with
handlers that may outlive the lock:

- `StateTypeCorrect`, `RepliesReachTheirOwner`, `CachesAreConsistent`,
  `ConversationsAreWrittenOnce`, `ExpiriesAreExplained`, `NothingAckedIsLost`;
- `HandlersExcludeEachOther`, whether or not handlers outlive the lock: the customers
  for whom it expired under a handler at work are in `overrun`, and nothing else, no crash, no
  lost connection and no DEL of another handler, lets two of them in;
- `MappingsAreAwaited`, for any number of copies, redeliveries and interruptions.
  What defeats it is a copy handled after the correlation, which
  takes `last_message_id` back so that no event will match the row any more
  (`repeated`, section 5), or one that is dead-lettered when its handler is
  repeated. `AwaitedInv` needs only the copies that are not published yet
  (`UnpublishedStays`) and says the same of expired rows, which a late handler may revive;

These properties are not inductive: what reaches a customer was read from a row
before some await. The strengthening `Inv` says of every copy of a row, in a
handler or in a cache, that the table does not contradict it (`Grounded`): the
row exists, has the same customer and, if the copy has a conversation, has that
one. It is preserved because rows only grow (`Grows`, lemma `TablesStep`): no
statement changes a row's customer or replaces a conversation. The other parts
tie a conversation to its customer from the moment Genesys creates it
(`CorrelationInv`), through the row (`RowsInv`) to the reply (`ReplyInv`). One
family of lemmas (`DbSteps`, `RedisSteps`, ...) says which actions write which
variables, one lemma per group of variables shows that every step preserves its
part. `LockInv`, `ForwardInv`, `AwaitedInv` and, for the rows the expiry job has
selected, `ExpiryInv` strengthen the others.

`GenesysDelivery_proofs`, for every finite set of copies and any number of
faults and revocations:

- `DeliveryTypeCorrect`;
- `AckedIsDelivered` and `CorrelatedUnlessInterrupted`, from `DeliveryInv`:
  a key means that its message was accepted (`KeysMeanDelivered`), so does a
  handler past its POST (`HandlersHaveDelivered`), and an accepted message
  without an event has a handler that is about to publish it, or one that was
  interrupted (`EventIsOwed`);
- `PostsAreAccountedFor`, from `AccountInv`: the posts of a message are at most
  the copies that are past theirs or settled (`Spent`) and the interruptions; a
  copy goes back to the queue after its POST only by an interruption.

`TokenBroker_proofs`, for any requests, replicas and faults:

- `BrokerTypeCorrect`;
- `ExchangesExcludeEachOther`, assuming `LockOverrun = FALSE`, from `LockInv`:
  whoever is in the section owns the lock. A lost answer orphans the key, but
  never lets its sender in;
- `AnswersNeverGoBack` (`NeverOlderThanSeen`) and `CacheNeverGoesBack`
  (`CacheOnlyAdvances`), with the same assumption and on no run of their own, from
  `TokenInv`: the cached token is the newest ever cached (`CacheIsTop`), what is
  about to be stored is newer (`StoresNewer`), so no answer is older than what
  was cached when its request arrived (`AnswersAreCurrent`). A degraded request's token
  is newer than that when Genesys issues it, but what is cached until its answer arrives may be
  newer still; that it is not stored is what the argument rests on;
- `ImplementsTheIssuer`, with the same assumption: `TokenBroker` implements
  `TokenIssuer`, where one request at a time obtains a token for all, the shared
  token is only replaced by a newer one, and an answer is the shared token, one
  at least as new that its request obtained for all, or one issued after it asked that
  nobody else gets (`ObtainsAlone`, `AnswersAlone`). `Phases`, `Given`, `Own` and the like
  are what is seen of the requests, `newest` and `top` what is issued and shared.
  `SeenAfter` says what a step of one request shows, `FailureRefuses` what a
  failure or a crash shows, and `IssuerStep` maps every action to one of the
  issuer or to nothing: waiting, losing the lock, Redis and its clients show
  nothing. `Obtains` needs `LockInv` (nobody else is in the section), `Shares`
  needs `StoresNewer`, and that the holder answers with a token no older than the
  shared one needs a conjunct of `AnswersAreCurrent` of its own: nobody stores
  between its store and its release.

`RetryConsumers_proofs`, for each of the three services, messages of any kinds
and any number of them, of retries and of faults:

- `TypeCorrect`;
- `LossesAreExplained`. Before the first fault every callback has a message of
  its own and the tag it was delivered with (`JobsTied`); afterwards a stale
  callback may settle the message another one works on, so the invariant does not
  follow messages but says what a callback may do to any of them: `Settling...`
  lists what becomes of each message when one settles, `SettleStep` and
  `MoveStep` carry the invariant over an action that ends or waits, and each action
  only shows that it accounts for its own message. `JobsInv` is what makes it work: a
  callback that has not started has its channel, hence what it dead-letters gets there.

`MessagePipeline_proofs`, its part about `MessagePipeline`, for any calls of Meta and Genesys, settings of the
deployment and numbers of faults:

- `PipelineTypeCorrect`;
- `AnsweredIsQueued` and `CrashesAloneDuplicate`. `CallInv` says which statements a
  handler can be at and when it answers: after the last item for Meta, before the
  first for Genesys. From it `QueueInv` counts: items before the current one are queued,
  unless the broker was lost, and each as often as the call was started. `Grows`
  (faults are not taken back) carries all of it over the steps of the other calls;
- `InboundEndsAreExplained` and `MetaAcceptsAll`, from `MessageInv`: where a
  message can be tells what it carries. A customer's message has the content of its
  item (`Carries`) up to Genesys, one that left the outbound transformer a form Meta takes
  (`Acceptable`); `OneOutput` and `TwoOutputs` show the latter of what the transformer
  makes of any text and media.

`MessagePipeline_proofs`, its part about `BrokerConnection`, for each kind of
process, any number of connections, attempts and failures:

- `ConnectionTypeCorrect`;
- `TwinsAreExplained`, from `LoadBounded` (what the process has or will have
  open is at most one more than the reconnects in excess), `ExcessOwned` (only
  the state manager and the portal ask for any) and `AckChannel`. A lost
  connection is one less and one to three reconnects more (`CallsBounded`); the
  flags of the other services make it one;
- `DeafnessIsExplained`, from `ConsumerReady`, `RetriesExplained` and
  `PauseExplained`: a retry timer of the genesys-api-service means that a
  connection was lost or the boot went on without one, and so does a boot that
  pauses without a channel.

`AgentPortal_proofs`, for any users, requests, old sessions and messages, any
plan of calls, any interleaving of their statements and any number of faults:

- `PortalTypeCorrect`; `StageInv` keeps every request with the handler of its call;
- `SessionsAreExplained`, from `SessionInv`; it is about the blacklist, which no
  route reads (section 5). What a logout of all devices does not list
  was either there and not active, or is inserted while it runs and hence in `late`
  (`LateSessions`); what it lists it blacklists before it ends the session, and
  tokens only leave the blacklist by expiring (`TokensKeep`);
- `UsersAreExplained`, from `UserInv`. A login at its INSERT with a row in the way has a
  rival (`LoginOK`), and one that is refused has a rival, or a user with a row of
  another tenant. A sync is followed user by user: those it has dealt with
  (`Synced`) have the role it fetched, or a request that had not ended when it
  fetched writes an older one (`Overwritten`), which stays so because requests do not
  start again;
- `AssignmentsAreExplained`, inductive with the types: each of the two writing
  statements leaves an assignee, and adds a second one only to somebody else's
  (`AssigneesChange`);
- `SendsAreExplained`, from `SendInv`, which counts the requests that are past their
  POST (`Senders`): it grows by one when a message is posted (`SenderAdded`);
- `CachesAreExplained`, from `OnboardingInv` (what is on record or was read of it was
  saved; `RecordStays`) and `StatsInv` (statistics about to be stored are of the last
  refresh or later, or of a request it overtook).

`TenantDirectory_proofs`, for any tenants, integrations and requests, any plan
of calls, any interleaving of their statements and any number of faults:

- `DirectoryTypeCorrect`; `StageFits` and `LocalFits` keep every request at the
  statements of its call, with the tenant or the status it needs there;
- `StalenessIsExcused`. That an entry is right or excused or about to be deleted is not
  inductive, because being about to delete it depends on the operation and on the statement.
  `EntriesAccounted` says it by statements: `Owes(r)` is what a request at its
  statement will delete if nothing stops it. Whatever changes a row leaves the
  entries of that row owed or excused (one lemma `...Accounted` per statement or
  group of them), what takes a debt away deletes the entry (`CachingAccounted`) or
  ends the request and excuses it (`LeavesAccounted`). Once a tenant is gone only a
  deletion owes its entries: a rotation that finds no tenant fails and
  deletes nothing, and `RowsFit` says that nothing of a tenant outlives its row;
- `LeftoversAreExplained`. `CredentialsAccounted`: between the deactivation and the INSERT of
  one writer nothing is active and no other writer is there, or the tenant is in `overlapped`, so
  the second of two sets of active credentials needs an overlap. `PhonesAccounted` says the
  same of a sign-up between saving the configuration and flagging the tenant, where
  `SignupsFindRows` rules out that its UPDATE misses the row; `TenantsAccounted` of two requests
  that create a tenant of the organisation, unless one of them did not look for one
  (`POST /api/tenants`), and a phone number without a configuration may be the creating request's own.

`BrowserSession_proofs`, for any number of users who take turns on the tab, of
calls under way, of attempts and of faults:

- `SessionTypeCorrect`;
- `SigningOutLasts` and `ScreenIsTheOwners`, from `TabInv`: until an answer from before the
  last change of hands is stored or shown (`revived`, `store.old`), every call under way
  that is not late was sent for the owner of the tokens (`CallsAreOwned`), and
  `agent_info` is that owner's (`AgentIsOwner`). Whatever clears the tokens makes all
  calls late (`LateOwned`), so a refresh that is not late renews what is there; the
  three ways to sign out, the interceptor's expiry and the timer's are one lemma each.

The assumptions are the named `ASSUME`s of the modules, which say that the
constants are functions of the right types, that message names are distinct, that
the sentinels are not values, that an item with a caption has media, and that a request
of the portal names what its route takes and carries a token of its own user; the runs evaluate them. The `TypeOK` of a
module with proofs is a theorem and no run repeats it; of the others, it
documents the variables.

Every safety invariant and action property of the runs is thus a theorem for
all values of the constants, and so are the refinements `ImplementsLifecycle` and `ImplementsIssuer`.

Only model-checked: the liveness properties (`HandlersSettle`,
`DeliveriesSettle`, `RequestsSettle`, `MessagesSettle`, `PipelineSettles`,
`PublisherRecovers`, `CachesConverge`, `QueueEmpties`, `SignOutShows`), which are
beyond the prover. That there is a tenant, a call or a race in an instance at all is
the runs' part: they reach every action.

## 5. Disagreements between code and documents

What reading the code for the models showed; the properties named in section 3
hold with all of it, since they say where it happens and nowhere else.

Of status, delivery and tokens:

- the HTTP status route takes a status backwards (`state-manager/src/services/messageService.ts:261`;
  `docs/state-manager-frd.md:170` promises that it only moves forward):
  `IllegalOnlyByRacingRoute` says when;
- a lookup puts an expired mapping back into the cache
  (`state-manager/src/cron/expiry.ts:39`, `state-manager-frd.md:241`);
- a retried inbound message takes `last_message_id` back
  (`state-manager/src/services/mappingService.ts:42`, `state-manager-frd.md:2114`), and the mapping is never
  correlated: the exception `repeated` of `UncorrelatedIsAwaited`;
- the route that tracks a message stores any string as its status
  (`messageController.ts:5`, `dbInit.ts:47`), and the row is then refused every
  later status, because the transition check throws (`types/index.ts:77`);
- the dedupe key is read before the POST and set after it
  (`genesys-api-service/src/consumers/inbound.consumer.ts:65`,
  `docs/genesys-api-frd.md:1932`): two copies are both posted. `DuplicatesAreExplained`
  bounds how often;
- degraded mode never ends once the Redis client has given up
  (`auth-service/src/repositories/redis.client.js:13`, `auth-frd.md:1560`).

Of brokers and consumers:

- the state manager reconnects on `error` and on `close`
  (`state-manager/src/services/rabbitmq.service.ts:67`): every abrupt loss leaves it
  with two connections for good, and no consumer is registered again, while the
  health check (`statsController.ts:83`) is satisfied
  (`state-manager-frd.md:1160`: "Reconnect with backoff | 30s (automatic)");
- the genesys-api-service registers its consumers at boot only, with or without
  a channel; the portal likewise stops consuming for good;
- the portal's and the webhooks' listeners are attached after the set-up of the
  queues, so that an error in between ends the process;
- the inbound transformer acks a message before the timer republishes it
  (`inboundConsumer.ts:95`) and its queue has no dead-letter exchange: what is retried
  in vain is lost;
- the retry counts of the outbound transformer and the whatsapp-api-service are
  written to the callback's own headers (`outbound-transformer/src/services/rabbitmq.service.ts:126`,
  `whatsapp-api-service/src/services/rabbitmq.service.js:111`); the latter therefore
  retries a poison message for ever, where its header (`:12`) says "requeue (up to
  maxRetries, then DLQ)";
- a status event that cannot be dead-lettered is acked all the same
  (`genesys-api-service/src/consumers/status.consumer.ts:109`).

Of the pipeline and the tenants:

- outside development the WhatsApp webhook answers every call with 200 and
  drops it: it verifies with `appSecret`, which the tenant-service's credentials
  do not contain (`docs/todo/02-tenant-integration.md:18`: "`getTenantMetaCredentials`
  returns both `appSecret` and `accessToken`"; also
  `whatsapp-webhook-service/docs/whatsapp-webhook-FRD.md:151`). `docker-compose.prod.yml` sets no `NODE_ENV`;
- agents' replies from the webhook have no `conversation_id`, no mapping is found and
  they are dead-lettered (`genesys-webhook-frd.md:108`); captions are extracted
  and lost (`inbound-transformer-frd.md:374`); with the shipped compose files the media
  host `minio` is not among the state manager's trusted domains;
- "Cache is invalidated on every write" (`tenant-service-FRD.md:345`):
  `setGenesysCredentials` leaves `credentials:genesys`, so that a rotated
  webhook secret is refused for up to an hour, and the agent portal writes
  `tenant_whatsapp_config` without touching any entry or `tenants.phone_number_id`;
- the portal's `getTenantWhatsAppConfig` reads `tenant_credentials` although its setup
  writes `tenant_whatsapp_config`;
- the portal's sessions lack `is_active` and `updated_at` in
  `docker/postgres/init.sql`: logout's UPDATE fails and is swallowed, the logout of
  all devices answers 500, a transfer rolls back; the onboarding's PUT of a tenant
  does not exist in the tenant-service, which has PATCH only;
- the portal's `authenticate` decodes a token and looks neither at the blacklist nor at
  signature or expiry (`agent-portal-service/src/middleware/authenticate.js:28-29`), where
  `TOKEN_BLACKLIST.md` (lines 44, 60 and 108) and its test promise a 401 after a
  logout. `SessionsExplained` therefore says what is on the blacklist, and nothing
  of requests that carry such a token;
- a logout of all devices that meets an expired token blacklists nothing of
  that one; a refreshed access token has no session and survives it;
- in the browser, `initializeAuth` is run again by its own effect
  (`AuthContext.jsx:73`), a late refresh or profile answer revives a session or
  puts one user's tokens under another's screen, the logout of all devices does
  not tell the context, and "If multiple requests fail simultaneously, only one
  refresh is triggered" (`TOKEN_REFRESH.md:105`) is true of the interceptor only.

Of the state manager and the rest:

- a handler that outlives the lock's 5 s shares the section with the next one,
  and its DEL, which does not look at the owner, frees that one's lock
  (`state-manager/src/services/lockService.ts:12` and `:33`); `LockOverrun` in the model, which
  `state_lifecycle` and `state_settles` have, and the exception `overrun` of `LockExclusive`;
- with the tables of `state-manager/src/utils/dbInit.ts:44`, `wamid` is NOT
  NULL and the INSERT of a reply is refused and requeued for ever; migration
  004 is needed (`WamidNullable = FALSE` is that case);
- with Redis away every inbound message is dead-lettered with LOCK_TIMEOUT
  (`lockService.ts:12`), where `docs/state-manager-frd.md:212` promises a
  database fallback;
- the expiry UPDATE is by id only (`expiry.ts:34`): a mapping that became
  active after the SELECT expires (`state-manager-frd.md:734`);
- a correlation event also matches no row when a newer message took
  `last_message_id` (`mappingService.ts:95`), not only when it is a duplicate
  (`state-manager-frd.md:687`);
- a redelivered reply is tracked again (`messageService.ts:86`,
  `state-manager-frd.md:2114`);
- a duplicate status with a later timestamp is written again
  (`types/index.ts:74`, `state-manager-frd.md:172`), and of two concurrent
  ones the older may be written last (`messageService.ts:181`);
- a 401 of Genesys is requeued without limit
  (`genesys-api-service/src/consumers/inbound.consumer.ts:120`), where
  `docs/genesys-api-frd.md:1690` has one retry;
- a failed exchange reaches the genesys-api-service as a 401
  (`auth-service/src/models/errors.js:33`) and is taken for one of Genesys;
- a forced refresh that finds the lock taken returns what the cache holds
  (`auth-service/src/services/token/genesys-token.service.js:35`), possibly the
  token it was to replace; and a request that missed the cache just before the
  holder stored its token exchanges once more (`:31`: the cache is not read
  again after acquiring).

## 6. What is not modelled, and why

- *Wording, validation rules, rendering*: pure functions of one message;
  "malformed" or a kind stands for whatever they refuse.
- *Conversation context, CRUD that reads only, pools of the state manager*:
  single statements of one actor; all pools lead to one database.
- *HTTP routes of the genesys-api-service*: one stateless call of Genesys
  each; nobody in the repository calls them.
- *WhatsApp tokens and JWTs of the auth-service*: static tokens nobody asks
  for, and signatures without state; the JWKS cache is a library's.
- *The outbound transformer's HTTP dispatcher and template routes*: the first
  is off unless `PIPELINE_MODE_ENABLED` is set, which no compose file does; the
  second is one stateless call of Meta.
- *The agent portal's media upload, templates and socket relay*: the first two
  use a model they do not import and always fail; nobody publishes to the queue the
  relay listens to, and every socket joins the room `tenant:undefined`, because the
  tokens carry `tenantId` and not `tenant_id`.
- *The workspace page of the browser*: it sends `{to, text}`, which the
  service's schema refuses for want of `conversationId`, and waits for an event nobody emits;
  `BrowserSession` has its requests, not what it shows.
- *React's StrictMode*, which installs the interceptor twice in development.
- *api-gateway*: stateless proxying; its failure count is never consulted
  and its rate limiter is a library's.
- *The shared tenant resolver*: no service mounts it, and the key it reads is
  one nobody writes.
- *admin-dashboard, agent-widget*: wizards that make one request after the
  other, and a page that passes messages through.
- *Unreachable code*: `setCredentials` and the lookup by phone number of the
  tenant-service, the deprecated `createOrUpdateMapping` (the route throws), and
  functions of the portal nobody calls (`isBlacklisted`, `updateSession`,
  `findSessionByRefreshToken`, `cleanupExpiredSessions`, `updateRole`).
- *Time*: TTLs and timers expire in any order the code does not exclude.

## 7. Plan

Done, in order of importance: `MessageStatus`, `StateManager`,
`GenesysDelivery`, `TokenBroker`, `RetryConsumers`, `MessagePipeline`,
`BrokerConnection`, `AgentPortal`, `TenantDirectory` and `BrowserSession`, all checked
and proved.

Left: an abstract queue (a message leaves once passed on) for
`RetryConsumers` and `GenesysDelivery`. Its content is proved as invariants and
action properties; the refinements would say it in one formula.
