---------------------------- MODULE TenantDirectory ----------------------------
(***************************************************************************)
(* The tenant service: tenants, their Genesys credentials and WhatsApp     *)
(* configuration in PostgreSQL, and in front of them entries in Redis.     *)
(* The agent portal's service writes the WhatsApp configuration of the     *)
(* same database on its own.                                               *)
(*                                                                         *)
(* A request handler is a series of statements, each one a transaction of  *)
(* its own or a call of Redis, with other requests in between: at[r] is    *)
(* the statement request r executes next.  What a request writes is known  *)
(* by the request's own name.                                              *)
(*                                                                         *)
(* Left out: the code no route reaches (setCredentials, and the lookup by  *)
(* phone number that the WhatsApp routes shadow), queries without a cache, *)
(* columns that no query here selects by, and updates that clear a column. *)
(***************************************************************************)
EXTENDS Naturals, FiniteSets, Sequences, FiniteSetsExt

CONSTANTS
    Tenants,       \* ids of tenants
    Integrations,  \* ids of Genesys integrations
    Requests,      \* calls of the service's routes
    None,
    Plans,         \* assignments of calls to requests considered
    MaxFaults      \* failing statements, crashes, lost connections (bound)

Statuses == {"active", "suspended", "deleted"}

Operations ==
    {"create", "provision", "rotate", "store", "update", "complete", "delete",
     "signup", "configure", "setup", "skip", "masked", "raw", "whatsapp", "lookup"}

\* A call, and whether it brings a phone number and the organisation's id; an
\* argument it does not have is None.
Calls == [op : Operations, tenant : Tenants \cup {None},
          status : Statuses \cup {None}, integration : Integrations \cup {None},
          phone : BOOLEAN, org : BOOLEAN]

\* A path holds a tenant's id unless the route has none, a rotation and a
\* lookup are refused without an integration's, and a provisioned tenant gets
\* of all this the organisation's id alone.
WellFormed(call) ==
    /\ call.op \in {"create", "provision", "lookup"} <=> call.tenant = None
    /\ call.op \in {"rotate", "lookup"} => call.integration # None
    /\ call.op = "provision" => call.org /\ ~call.phone /\ call.integration = None

\* "first" is what was stored before any request, "gone" no row.
Values == Requests \cup Tenants \cup Statuses \cup {"first", "gone"}

Rows == [status : Statuses, integration : Integrations \cup {None},
         phone : Requests \cup {None}, org : BOOLEAN, by : Requests \cup {None}]

ASSUME TenantDirectoryAssumption ==
    /\ Plans \subseteq {p \in [Requests -> Calls] : \A r \in Requests : WellFormed(p[r])}
    /\ None \notin Values \cup Rows \cup Integrations
    /\ MaxFaults \in Nat

VARIABLES
    plan,         \* the call each request makes
    tenants,      \* rows of the table tenants, None where there is none
    credentials,  \* each tenant's rows of tenant_credentials as inserted
    whatsapp,     \* who wrote the row of tenant_whatsapp_config, None without
    apiKeys,      \* tenants with a row in tenant_api_keys
    redis,        \* entries of Redis, None where there is none
    cacheReady,   \* whether the client of cache.service.js is connected
    at,           \* the next statement of each request
    local,        \* what a request has read and holds on to
    known,        \* the organisation's tenants when a request looked for one
    overlapped,   \* tenants two writers of the same rows changed at once
    cutShort,     \* tenants whose writer ended between two statements
    excused,      \* entries that may be stale, for a reason named below
    faults

rowVars == <<tenants, credentials, whatsapp, apiKeys>>
ghostVars == <<known, overlapped, cutShort>>
vars == <<plan, rowVars, redis, cacheReady, at, local, ghostVars, excused, faults>>

Ended == {"done", "failed"}

Statements ==
    Ended \cup
    {"find", "insertTenant", "insertKey", "cacheNew", "nameNew",
     "check", "deactivate", "insert", "denormalise",
     "change", "cacheRow",
     "dropConfig", "dropCredentials", "dropKeys", "dropTenant",
     "clearRow", "clearMasked", "clearConfig",
     "checkTenant", "findConfig", "updateConfig", "insertConfig", "flag", "unflag",
     "exchange", "demo", "upsert",
     "invalidate", "get", "select", "fill"}

Keys == ({"row", "masked", "raw", "config", "apikey"} \X Tenants)
        \cup ({"integration"} \X Integrations)

\* The entry of stored credentials is written without an expiry.
TimedButRaw == {k \in Keys : k[1] \notin {"apikey", "raw"}}

\* Entries written with an expiry of an hour.
TimedKeys == {k \in Keys : k[1] # "apikey"}

TypeOK ==
    /\ plan \in Plans
    /\ tenants \in [Tenants -> Rows \cup {None}]
    /\ credentials \in [Tenants -> Seq([value : Requests \cup {"first"}, active : BOOLEAN])]
    /\ whatsapp \in [Tenants -> Requests \cup {None}]
    /\ apiKeys \subseteq Tenants
    /\ redis \in [Keys -> Values \cup {None}]
    /\ cacheReady \in BOOLEAN
    /\ at \in [Requests -> Statements]
    /\ local \in [Requests -> Values \cup {None}]
    /\ known \in [Requests -> SUBSET Tenants]
    /\ overlapped \subseteq Tenants
    /\ cutShort \subseteq Tenants
    /\ excused \subseteq Keys
    /\ faults \in Nat

First(op) ==
    CASE op = "create" -> "insertTenant"
      [] op = "provision" -> "find"
      [] op = "rotate" -> "check"
      [] op = "store" -> "deactivate"
      [] op \in {"update", "complete"} -> "change"
      [] op = "delete" -> "dropConfig"
      [] op = "signup" -> "checkTenant"
      [] op = "configure" -> "findConfig"
      [] op = "setup" -> "exchange"
      [] op = "skip" -> "demo"
      [] OTHER -> "get"

\* The organisation's tenants exist unless the requests are to create them.
Init ==
    /\ plan \in Plans
    /\ tenants = [t \in Tenants |->
           IF \E r \in Requests : plan[r].op \in {"create", "provision"} THEN None
           ELSE [status |-> "active", integration |-> None, phone |-> None,
                 org |-> TRUE, by |-> None]]
    /\ credentials = [t \in Tenants |->
           IF tenants[t] = None THEN <<>> ELSE <<[value |-> "first", active |-> TRUE]>>]
    /\ whatsapp = [t \in Tenants |-> None]
    /\ apiKeys = {t \in Tenants : tenants[t] # None}
    /\ redis = [k \in Keys |-> None]
    /\ cacheReady = TRUE
    /\ at = [r \in Requests |-> First(plan[r].op)]
    /\ local = [r \in Requests |-> None]
    /\ known = [r \in Requests |-> {}]
    /\ overlapped = {}
    /\ cutShort = {}
    /\ excused = {}
    /\ faults = 0

-----------------------------------------------------------------------------
(* Rows, entries and what an entry should be *)

Present == {t \in Tenants : tenants[t] # None}

OfOrg == {t \in Present : tenants[t].org}

Is(r, ops) == plan[r].op \in ops

Of(r) == plan[r].tenant

Goto(r, statement) == at' = [at EXCEPT ![r] = statement]

Running == {r \in Requests : at[r] \notin Ended}

\* The rows that is_active marks among a tenant's credentials.
Active(rows) == {i \in DOMAIN rows : rows[i].active}

Deactivated(rows) == [i \in DOMAIN rows |-> [rows[i] EXCEPT !.active = FALSE]]

\* The integration r writes is another tenant's already.
Taken(r) ==
    plan[r].integration # None /\
        \E t \in Present \ {Of(r)} : tenants[t].integration = plan[r].integration

\* A subdomain or a phone number may be another tenant's, too.
MayClash(r) == Present \ {Of(r)} # {}

\* The newest active credentials.
Latest(rows) == IF Active(rows) = {} THEN "gone" ELSE rows[Max(Active(rows))].value

\* The active tenants of an integration, of which there is one at most.
Owners(i) == {t \in Present : tenants[t].integration = i /\ tenants[t].status = "active"}

Integrated(i) == IF Owners(i) = {} THEN "gone" ELSE CHOOSE t \in Owners(i) : TRUE

\* What the query behind an entry finds.
Current(k) ==
    CASE k[1] \in {"masked", "raw"} -> Latest(credentials[k[2]])
      [] k[1] = "config" -> IF whatsapp[k[2]] = None THEN "gone" ELSE whatsapp[k[2]]
      [] k[1] = "integration" -> Integrated(k[2])
      [] OTHER -> IF k[2] \in Present THEN tenants[k[2]].status ELSE "gone"

\* The entry a reader goes through.
KeyRead(r) ==
    CASE Is(r, {"masked", "raw"}) -> <<plan[r].op, Of(r)>>
      [] Is(r, {"whatsapp"}) -> <<"config", Of(r)>>
      [] OTHER -> <<"integration", plan[r].integration>>

\* The entry a writer deletes in the end.
Invalidated(r) ==
    CASE Is(r, {"rotate"}) -> <<"masked", Of(r)>>
      [] Is(r, {"store"}) -> <<"raw", Of(r)>>
      [] Is(r, {"signup", "configure"}) /\ at[r] # "unflag" -> <<"config", Of(r)>>
      [] OTHER -> <<"row", Of(r)>>

AllIntegrations == {"integration"} \X Integrations

\* Entries that the changes of r can make stale and that r does not delete:
\* credentials are cached by two services under two keys, the entries of
\* integrations are left to expire, and the agent portal knows no cache.
Uncovered(r) ==
    CASE Is(r, {"rotate"}) -> {<<"raw", Of(r)>>} \cup AllIntegrations
      [] Is(r, {"store"}) -> {<<"masked", Of(r)>>}
      [] Is(r, {"update", "complete"}) -> AllIntegrations
      [] Is(r, {"delete"}) -> {<<"raw", Of(r)>>} \cup AllIntegrations
      [] Is(r, {"setup", "skip"}) -> {<<"config", Of(r)>>}
      [] OTHER -> {}

\* SETEX, SET and DEL; an entry written with a value the database no longer
\* holds has lost a race.
Put(k, value) ==
    /\ redis' = [redis EXCEPT ![k] = value]
    /\ excused' = IF value = Current(k) THEN excused \ {k} ELSE excused \cup {k}

Del(k) ==
    /\ redis' = [redis EXCEPT ![k] = None]
    /\ excused' = excused \ {k}

\* Entries r is yet to delete for what it has already written.
Pending(r) ==
    CASE at[r] \in {"insert", "denormalise", "invalidate"} -> {Invalidated(r)}
      [] Is(r, {"delete"}) -> {"row", "masked", "config"} \X {Of(r)}
      [] OTHER -> {}

Changes(r) == excused' = excused \cup Uncovered(r)

-----------------------------------------------------------------------------
(* Creating tenants *)

\* ensureTenantByGenesysOrg answers with the tenant it finds.
FindsTenant(r) ==
    /\ at[r] = "find"
    /\ known' = [known EXCEPT ![r] = OfOrg]
    /\ IF OfOrg = {} THEN Goto(r, "insertTenant") ELSE Goto(r, "done")
    /\ UNCHANGED <<plan, rowVars, redis, cacheReady, local, overlapped, cutShort,
                   excused, faults>>

\* What the request of a new tenant brings is written with its row.
NewRow(r) ==
    [status |-> "active", integration |-> plan[r].integration,
     phone |-> IF plan[r].phone THEN r ELSE None, org |-> plan[r].org, by |-> r]

\* The id is made random.  A subdomain, a phone number and an integration belong
\* to one tenant at most, an organisation may have many.
InsertsTenant(r) ==
    /\ at[r] = "insertTenant"
    /\ \/ /\ ~Taken(r)
          /\ \E t \in Tenants \ Present :
                 /\ \A s \in Requests : local[s] # t
                 /\ tenants' = [tenants EXCEPT ![t] = NewRow(r)]
                 /\ local' = [local EXCEPT ![r] = t]
          /\ Goto(r, "insertKey")
       \/ /\ Taken(r) \/ MayClash(r)
          /\ UNCHANGED <<tenants, local>>
          /\ Goto(r, "failed")
    /\ UNCHANGED <<plan, credentials, whatsapp, apiKeys, redis, cacheReady,
                   ghostVars, excused, faults>>

\* The key's row refers to the tenant's.
InsertsKey(r) ==
    /\ at[r] = "insertKey"
    /\ IF local[r] \in Present
       THEN apiKeys' = apiKeys \cup {local[r]} /\ Goto(r, "cacheNew")
       ELSE UNCHANGED apiKeys /\ Goto(r, "failed")
    /\ UNCHANGED <<plan, tenants, credentials, whatsapp, redis, cacheReady, local,
                   ghostVars, excused, faults>>

CachesNew(r) ==
    /\ at[r] = "cacheNew"
    /\ Put(<<"row", local[r]>>, "active")
    /\ Goto(r, "nameNew")
    /\ UNCHANGED <<plan, rowVars, cacheReady, local, ghostVars, faults>>

\* The entries of the API key and the subdomain, neither of which expires.
NamesNew(r) ==
    /\ at[r] = "nameNew"
    /\ Put(<<"apikey", local[r]>>, "active")
    /\ Goto(r, "done")
    /\ UNCHANGED <<plan, rowVars, cacheReady, local, ghostVars, faults>>

-----------------------------------------------------------------------------
(* Credentials *)

ChecksTenant(r) ==
    /\ at[r] = "check"
    /\ Goto(r, IF Of(r) \in Present THEN "deactivate" ELSE "failed")
    /\ UNCHANGED <<plan, rowVars, redis, cacheReady, local, ghostVars, excused, faults>>

\* The old credentials stay active.
DeactivatesNone(r) ==
    /\ at[r] = "deactivate"
    /\ Changes(r)
    /\ Goto(r, "insert")
    /\ UNCHANGED <<plan, rowVars, redis, cacheReady, local, ghostVars, faults>>

Deactivates(r) ==
    /\ at[r] = "deactivate"
    /\ credentials' = [credentials EXCEPT ![Of(r)] = Deactivated(credentials[Of(r)])]
    /\ overlapped' = overlapped \cup
           {t \in {Of(r)} : \E s \in Requests \ {r} : at[s] = "insert" /\ Of(s) = t}
    /\ Changes(r)
    /\ Goto(r, "insert")
    /\ UNCHANGED <<plan, tenants, whatsapp, apiKeys, redis, cacheReady, local,
                   known, cutShort, faults>>

InsertsCredentials(r) ==
    /\ at[r] = "insert"
    /\ IF Of(r) \in Present
       THEN /\ credentials' = [credentials EXCEPT ![Of(r)] =
                   Append(credentials[Of(r)], [value |-> r, active |-> TRUE])]
            /\ Changes(r)
            /\ Goto(r, IF Is(r, {"rotate"}) THEN "denormalise" ELSE "invalidate")
       ELSE UNCHANGED <<credentials, excused>> /\ Goto(r, "failed")
    /\ UNCHANGED <<plan, tenants, whatsapp, apiKeys, redis, cacheReady, local,
                   ghostVars, faults>>

\* An integration belongs to one tenant at most; the credentials stay.
Denormalises(r) ==
    /\ at[r] = "denormalise"
    /\ IF Taken(r)
       THEN /\ UNCHANGED tenants
            /\ excused' = excused \cup Uncovered(r) \cup {Invalidated(r)}
            /\ Goto(r, "failed")
       ELSE /\ tenants' = IF Of(r) \in Present
                          THEN [tenants EXCEPT ![Of(r)].integration = plan[r].integration]
                          ELSE tenants
            /\ Changes(r)
            /\ Goto(r, "invalidate")
    /\ UNCHANGED <<plan, credentials, whatsapp, apiKeys, redis, cacheReady, local,
                   ghostVars, faults>>

\* The entry of stored credentials is kept.
InvalidatesRotated(r) ==
    /\ at[r] = "invalidate"
    /\ IF Is(r, {"store"}) THEN UNCHANGED <<redis, excused>> ELSE Del(Invalidated(r))
    /\ Goto(r, "done")
    /\ UNCHANGED <<plan, rowVars, cacheReady, local, ghostVars, faults>>

Invalidates(r) ==
    /\ at[r] \in {"invalidate", "unflag"}
    /\ Del(Invalidated(r))
    /\ Goto(r, CASE Is(r, {"update", "complete"}) -> "cacheRow"
                 [] local[r] = "gone" -> "failed"
                 [] at[r] = "invalidate" /\ Is(r, {"signup"}) -> "flag"
                 [] OTHER -> "done")
    /\ UNCHANGED <<plan, rowVars, cacheReady, local, ghostVars, faults>>

-----------------------------------------------------------------------------
(* Changing and deleting a tenant *)

\* An argument replaces what the row holds only if the call has it.
Given(new, old) == IF new = None THEN old ELSE new

\* updateTenant and completeOnboarding: UPDATE ... RETURNING *.
ChangesTenant(r) ==
    LET row == tenants[Of(r)]
        status == IF Is(r, {"complete"}) THEN "active" ELSE Given(plan[r].status, row.status)
        found == Of(r) \in Present /\ ~Taken(r)
    IN
    /\ at[r] = "change"
    /\ \/ /\ found
          /\ tenants' = [tenants EXCEPT ![Of(r)] =
                 [row EXCEPT !.status = status,
                             !.integration = Given(plan[r].integration, row.integration),
                             !.phone = IF plan[r].phone THEN r ELSE row.phone]]
          /\ local' = [local EXCEPT ![r] = status]
          /\ Changes(r)
          /\ Goto(r, "invalidate")
       \/ /\ ~found \/ (Is(r, {"update"}) /\ MayClash(r))
          /\ UNCHANGED <<tenants, local, excused>>
          /\ Goto(r, "failed")
    /\ UNCHANGED <<plan, credentials, whatsapp, apiKeys, redis, cacheReady,
                   ghostVars, faults>>

CachesRow(r) ==
    /\ at[r] = "cacheRow"
    /\ Put(<<"row", Of(r)>>, local[r])
    /\ Goto(r, "done")
    /\ UNCHANGED <<plan, rowVars, cacheReady, local, ghostVars, faults>>

DropsConfig(r) ==
    /\ at[r] = "dropConfig"
    /\ whatsapp' = [whatsapp EXCEPT ![Of(r)] = None]
    /\ Goto(r, "dropCredentials")
    /\ UNCHANGED <<plan, tenants, credentials, apiKeys, redis, cacheReady, local,
                   ghostVars, excused, faults>>

DropsCredentials(r) ==
    /\ at[r] = "dropCredentials"
    /\ credentials' = [credentials EXCEPT ![Of(r)] = <<>>]
    /\ Changes(r)
    /\ Goto(r, "dropKeys")
    /\ UNCHANGED <<plan, tenants, whatsapp, apiKeys, redis, cacheReady, local,
                   ghostVars, faults>>

DropsKeys(r) ==
    /\ at[r] = "dropKeys"
    /\ apiKeys' = apiKeys \ {Of(r)}
    /\ Goto(r, "dropTenant")
    /\ UNCHANGED <<plan, tenants, credentials, whatsapp, redis, cacheReady, local,
                   ghostVars, excused, faults>>

\* Rows of other tables that refer to the tenant's go with it.
DropsTenant(r) ==
    LET t == Of(r) IN
    /\ at[r] = "dropTenant"
    /\ tenants' = [tenants EXCEPT ![t] = None]
    /\ credentials' = [credentials EXCEPT ![t] = <<>>]
    /\ whatsapp' = [whatsapp EXCEPT ![t] = None]
    /\ apiKeys' = apiKeys \ {t}
    /\ Changes(r)
    /\ Goto(r, IF t \in Present THEN "clearRow" ELSE "failed")
    /\ UNCHANGED <<plan, redis, cacheReady, local, ghostVars, faults>>

ClearsEntries(r) ==
    /\ \/ at[r] = "clearRow" /\ Del(<<"row", Of(r)>>) /\ Goto(r, "clearMasked")
       \/ at[r] = "clearMasked" /\ Del(<<"masked", Of(r)>>) /\ Goto(r, "clearConfig")
       \/ at[r] = "clearConfig" /\ Del(<<"config", Of(r)>>) /\ Goto(r, "done")
    /\ UNCHANGED <<plan, rowVars, cacheReady, local, ghostVars, faults>>

-----------------------------------------------------------------------------
(* WhatsApp configuration *)

\* handleSignupCallback, before and after its calls of Meta.
ChecksSignup(r) ==
    /\ at[r] = "checkTenant"
    /\ Goto(r, IF Of(r) \in Present THEN "findConfig" ELSE "failed")
    /\ UNCHANGED <<plan, rowVars, redis, cacheReady, local, ghostVars, excused, faults>>

FindsConfig(r) ==
    /\ at[r] = "findConfig"
    /\ Goto(r, IF whatsapp[Of(r)] = None THEN "insertConfig" ELSE "updateConfig")
    /\ UNCHANGED <<plan, rowVars, redis, cacheReady, local, ghostVars, excused, faults>>

\* Between saving a configuration and writing its phone number to the tenant.
Flagging(t) ==
    {s \in Requests : Of(s) = t /\ Is(s, {"signup"}) /\ at[s] \in {"invalidate", "flag"}}

\* The row is unique to the tenant, so the second of two inserts fails; an
\* update that finds no row any more is noticed only after the entry is deleted.
SavesConfig(r) ==
    LET t == Of(r)
        insertable == t \in Present /\ whatsapp[t] = None
    IN
    /\ \/ /\ at[r] = "insertConfig"
          /\ whatsapp' = IF insertable THEN [whatsapp EXCEPT ![t] = r] ELSE whatsapp
          /\ Goto(r, IF insertable THEN "invalidate" ELSE "failed")
          /\ UNCHANGED local
       \/ /\ at[r] = "updateConfig"
          /\ whatsapp' = IF whatsapp[t] # None THEN [whatsapp EXCEPT ![t] = r] ELSE whatsapp
          /\ local' = IF whatsapp[t] # None THEN local ELSE [local EXCEPT ![r] = "gone"]
          /\ Goto(r, "invalidate")
    /\ overlapped' = IF Flagging(t) = {} THEN overlapped ELSE overlapped \cup {t}
    /\ UNCHANGED <<plan, tenants, credentials, apiKeys, redis, cacheReady, known,
                   cutShort, excused, faults>>

\* If the number is another tenant's, the configuration stays all the same.
FlagsTenant(r) ==
    /\ at[r] = "flag"
    /\ \/ /\ tenants' = IF Of(r) \in Present
                        THEN [tenants EXCEPT ![Of(r)].phone = r] ELSE tenants
          /\ Goto(r, "unflag")
          /\ UNCHANGED cutShort
       \/ /\ Of(r) \in Present /\ MayClash(r)
          /\ cutShort' = cutShort \cup {Of(r)}
          /\ Goto(r, "failed")
          /\ UNCHANGED tenants
    /\ UNCHANGED <<plan, credentials, whatsapp, apiKeys, redis, cacheReady, local,
                   known, overlapped, excused, faults>>

\* The agent portal's completeSetup, before it saves: the code of Meta's popup
\* is exchanged for a token, an account and a phone number.
CompletesSetup(r) ==
    /\ at[r] = "exchange"
    /\ Goto(r, "upsert")
    /\ UNCHANGED <<plan, rowVars, redis, cacheReady, local, ghostVars, excused, faults>>

\* Its skipSetup, with the account of the demonstration.
SkipsSetup(r) ==
    /\ at[r] = "demo"
    /\ Goto(r, "upsert")
    /\ UNCHANGED <<plan, rowVars, redis, cacheReady, local, ghostVars, excused, faults>>

\* INSERT ... ON CONFLICT DO UPDATE, and neither the tenant's phone number nor
\* the entry of the configuration follows.
UpsertsConfig(r) ==
    LET t == Of(r) IN
    /\ at[r] = "upsert"
    /\ IF t \in Present
       THEN /\ whatsapp' = [whatsapp EXCEPT ![t] = r]
            /\ Changes(r)
            /\ Goto(r, "done")
       ELSE UNCHANGED <<whatsapp, excused>> /\ Goto(r, "failed")
    /\ overlapped' = IF Flagging(t) = {} THEN overlapped ELSE overlapped \cup {t}
    /\ UNCHANGED <<plan, tenants, credentials, apiKeys, redis, cacheReady, local, known,
                   cutShort, faults>>

-----------------------------------------------------------------------------
(* Reading through the cache *)

\* cache.service.js answers without an entry once its client has stopped.
ReadsEntry(r) ==
    LET unseen == Is(r, {"lookup"}) /\ ~cacheReady
    IN
    /\ at[r] = "get"
    /\ Goto(r, IF redis[KeyRead(r)] = None \/ unseen THEN "select" ELSE "done")
    /\ UNCHANGED <<plan, rowVars, redis, cacheReady, local, ghostVars, excused, faults>>

ReadsRow(r) ==
    /\ at[r] = "select"
    /\ local' = [local EXCEPT ![r] = Current(KeyRead(r))]
    /\ Goto(r, IF local'[r] = "gone" THEN "done" ELSE "fill")
    /\ UNCHANGED <<plan, rowVars, redis, cacheReady, ghostVars, excused, faults>>

FillsEntry(r) ==
    /\ at[r] = "fill"
    /\ IF Is(r, {"lookup"}) /\ ~cacheReady
       THEN UNCHANGED <<redis, excused>>
       ELSE Put(KeyRead(r), local[r])
    /\ Goto(r, "done")
    /\ UNCHANGED <<plan, rowVars, cacheReady, local, ghostVars, faults>>

-----------------------------------------------------------------------------
(* Time and faults *)

Expires(k) ==
    /\ k \in TimedKeys
    /\ redis[k] # None
    /\ Del(k)
    /\ UNCHANGED <<plan, rowVars, cacheReady, at, local, ghostVars, faults>>

Fault ==
    /\ faults < MaxFaults
    /\ faults' = faults + 1

\* What a writer leaves behind when it ends before its next statement.
Unfinished(r) == at[r] \in {"insert", "insertKey", "invalidate", "flag"}

Leaves(ended) ==
    /\ at' = [r \in Requests |-> IF r \in ended THEN "failed" ELSE at[r]]
    /\ cutShort' = cutShort \cup
           {IF at[r] = "insertKey" THEN local[r] ELSE Of(r) : r \in {s \in ended : Unfinished(s)}}
    /\ excused' = excused \cup UNION {Pending(r) : r \in ended}

\* A statement fails: the handler answers 500 and undoes nothing.
Fails(r) ==
    /\ Fault
    /\ r \in Running
    /\ Leaves({r})
    /\ UNCHANGED <<plan, rowVars, redis, cacheReady, local, known, overlapped>>

\* Some calls of Redis may fail without the handler failing.
Skips(r) ==
    /\ Fault
    /\ \/ at[r] = "cacheNew" /\ Goto(r, "nameNew")
       \/ at[r] \in {"nameNew", "cacheRow"} /\ Goto(r, "done")
       \/ at[r] = "fill" /\ Is(r, {"lookup"}) /\ Goto(r, "done")
       \/ at[r] = "get" /\ Is(r, {"lookup"}) /\ Goto(r, "select")
    /\ UNCHANGED <<plan, rowVars, redis, cacheReady, local, ghostVars, excused>>

\* This client has no reconnect strategy.
CacheLost ==
    /\ Fault
    /\ cacheReady
    /\ cacheReady' = FALSE
    /\ UNCHANGED <<plan, rowVars, redis, at, local, ghostVars, excused>>

Crash ==
    /\ Fault
    /\ Running # {}
    /\ Leaves(Running)
    /\ cacheReady' = TRUE
    /\ UNCHANGED <<plan, rowVars, redis, local, known, overlapped>>

-----------------------------------------------------------------------------

\* The operations, as the handlers of the routes run them.
Adds(r) == InsertsTenant(r) \/ InsertsKey(r) \/ CachesNew(r) \/ NamesNew(r)
Creates(r) == Is(r, {"create"}) /\ Adds(r)
Provisions(r) == Is(r, {"provision"}) /\ (FindsTenant(r) \/ Adds(r))

Rotates(r) ==
    Is(r, {"rotate"}) /\
        (\/ ChecksTenant(r) \/ Deactivates(r) \/ InsertsCredentials(r)
         \/ Denormalises(r) \/ Invalidates(r))

Stores(r) ==
    Is(r, {"store"}) /\ (Deactivates(r) \/ InsertsCredentials(r) \/ Invalidates(r))

Updates(r) ==
    Is(r, {"update"}) /\ (ChangesTenant(r) \/ Invalidates(r) \/ CachesRow(r))

Completes(r) ==
    Is(r, {"complete"}) /\ (ChangesTenant(r) \/ Invalidates(r) \/ CachesRow(r))

Deletes(r) ==
    \/ DropsConfig(r) \/ DropsCredentials(r) \/ DropsKeys(r) \/ DropsTenant(r)
    \/ ClearsEntries(r)

Configures(r) ==
    Is(r, {"signup", "configure"}) /\
        (\/ ChecksSignup(r) \/ FindsConfig(r) \/ SavesConfig(r) \/ FlagsTenant(r)
         \/ Invalidates(r))

Reads(r) == ReadsEntry(r) \/ ReadsRow(r) \/ FillsEntry(r)

Step(r) ==
    \/ Creates(r) \/ Provisions(r) \/ Rotates(r) \/ Stores(r) \/ Updates(r)
    \/ Completes(r) \/ Deletes(r) \/ Configures(r)
    \/ CompletesSetup(r) \/ SkipsSetup(r) \/ UpsertsConfig(r)
    \/ Reads(r)

Next ==
    \/ \E r \in Requests : Step(r) \/ Fails(r) \/ Skips(r)
    \/ \E k \in Keys : Expires(k)
    \/ CacheLost
    \/ Crash

Spec == Init /\ [][Next]_vars

\* Handlers run on, and Redis drops what has expired.
FairSpec ==
    /\ Spec
    /\ \A r \in Requests : WF_vars(Step(r))
    /\ \A k \in Keys : WF_vars(Expires(k))

-----------------------------------------------------------------------------
(* Properties *)

Quiet(t) == \A r \in Running : Of(r) # t /\ local[r] # t

\* Requests that end without a fault leave a tenant with one set of active
\* credentials, unless two writers deactivated the old ones at the same time.
CredentialsExplained ==
    \A t \in Present \ cutShort :
        Quiet(t) /\ credentials[t] # <<>> =>
            LET active == Active(credentials[t])
            IN  active # {} /\ (Cardinality(active) > 1 => t \in overlapped)

\* A tenant's phone number is the one of its WhatsApp configuration, unless two
\* writers of the configuration met, a later one, of this service or of the
\* agent portal's, did not sign up, the request that created or updated the
\* tenant brought a number of its own, or the sign-up's was another tenant's.
PhonesExplained ==
    \A t \in Present \ (cutShort \cup overlapped) :
        Quiet(t) /\ tenants[t].phone # None /\ tenants[t].phone # whatsapp[t] =>
            \E r \in Requests :
                \/ Of(r) = t /\ Is(r, {"configure", "delete", "setup", "skip"})
                \/ plan[r].phone /\ (Of(r) = t \/ tenants[t].by = r)

\* An organisation has two tenants only if the request for the second looked
\* for one before the first was there, or, as POST /api/tenants, did not look; a
\* tenant without an API key is a request's that did not end well.
TenantsExplained ==
    /\ \A t, u \in OfOrg :
           t # u /\ tenants[t].by # None /\ tenants[u].by # None =>
               u \notin known[tenants[t].by]
    /\ \A t \in Present \ apiKeys :
           \/ t \in cutShort
           \/ ~Quiet(t)
           \/ \E r \in Requests : Of(r) = t /\ Is(r, {"delete"})

\* Each statement of a handler is a transaction of its own, and nothing a
\* tenant is left with goes unexplained by two writers meeting, one of them
\* ending early, or what its own requests brought.
OnlyRacesLeaveTraces == CredentialsExplained /\ PhonesExplained /\ TenantsExplained

\* An entry that is not what the database holds (for an integration, another
\* tenant than it belongs to: its copies of a row's columns are not compared) is
\* excused (it lost a race, its writer failed, or it is of those no writer
\* deletes) or about to be deleted.
StaleIsExcused ==
    \A k \in TimedKeys :
        \/ redis[k] \in {None, Current(k)}
        \/ k \in excused
        \/ \E r \in Running : k \in Pending(r)

\* Whatever requests raced or failed, in the end the cache holds nothing that
\* the database does not: what no writer deletes expires.
CachesConverge ==
    <>[](\A k \in Keys : k[1] # "apikey" => redis[k] \in {None, Current(k)})

=============================================================================
