------------------------- MODULE TenantDirectory_proofs -------------------------
(***************************************************************************)
(* For any number of tenants, integrations and requests, any plan of calls *)
(* and any number of faults: a stale entry of Redis is excused or about to *)
(* be deleted, and what requests leave in the tables is explained by two   *)
(* writers that met or one that ended early.                               *)
(*                                                                         *)
(* The argument: a request is at a statement of its own operation and      *)
(* holds what that statement needs (StageFits, LocalFits).  By its         *)
(* statement it owes the deletion of entries; whatever makes an entry      *)
(* stale is a statement whose request owes the entry afterwards or one     *)
(* that excuses it, and only a deletion or a fault ends the debt           *)
(* (EntriesAccounted).  The same way a writer of credentials, of a         *)
(* configuration or of a tenant accounts for what is half done             *)
(* (CredentialsAccounted, PhonesAccounted, TenantsAccounted): a second     *)
(* writer that comes between marks the tenant as overlapped.               *)
(***************************************************************************)
EXTENDS TenantDirectory, FiniteSetTheorems, SequenceTheorems, WellFoundedInduction,
        TLAPS

-----------------------------------------------------------------------------
(* The inductive invariant *)

\* The statements of the groups of operations.
Adding == {"insertTenant", "insertKey", "cacheNew", "nameNew"}
Saving == {"findConfig", "insertConfig", "updateConfig", "invalidate"}
Dropping == {"dropConfig", "dropCredentials", "dropKeys", "dropTenant"}
Clearing == {"clearRow", "clearMasked", "clearConfig"}

\* The statements an operation has at all.
StagesOf(op) ==
    CASE op = "create" -> Adding
      [] op = "provision" -> Adding \cup {"find"}
      [] op = "rotate" -> {"check", "deactivate", "insert", "denormalise", "invalidate"}
      [] op = "store" -> {"deactivate", "insert", "invalidate"}
      [] op \in {"update", "complete"} -> {"change", "invalidate", "cacheRow"}
      [] op = "delete" -> Dropping \cup Clearing
      [] op = "signup" -> Saving \cup {"checkTenant", "flag", "unflag"}
      [] op = "configure" -> Saving
      [] op = "setup" -> {"exchange", "upsert"}
      [] op = "skip" -> {"demo", "upsert"}
      [] OTHER -> {"get", "select", "fill"}

\* A request is at a statement of its own operation.
StageFits == \A r \in Requests : at[r] \in Ended \cup StagesOf(plan[r].op)

\* A created tenant's id, or the status a changed row has, is known before it is
\* cached, and of what is not there no entry is made.
LocalFits ==
    \A r \in Requests :
        /\ at[r] \in {"insertKey", "cacheNew", "nameNew"} => local[r] \in Tenants
        /\ Is(r, {"update", "complete"}) /\ at[r] \in {"invalidate", "cacheRow"} =>
               local[r] \in Statuses
        /\ at[r] = "fill" => local[r] # "gone"

\* Credentials and configuration refer to a tenant's row, the entry of a tenant's
\* row holds a status, and the entry of an integration a tenant.
RowsFit ==
    /\ \A t \in Tenants \ Present : credentials[t] = <<>> /\ whatsapp[t] = None
    /\ \A t \in Tenants : redis[<<"row", t>>] \in Statuses \cup {None}
    /\ \A i \in Integrations : redis[<<"integration", i>>] # "gone"

\* The entries a request is yet to delete on its way, if nothing stops it.  This
\* says by statements what Pending says by operations.
Owes(r) ==
    CASE at[r] \in {"insert", "denormalise", "invalidate"} -> {Invalidated(r)}
      [] at[r] \in Dropping \cup {"clearRow"} -> {"row", "masked", "config"} \X {Of(r)}
      [] at[r] = "clearMasked" -> {"masked", "config"} \X {Of(r)}
      [] at[r] = "clearConfig" -> {<<"config", Of(r)>>}
      [] OTHER -> {}

\* Only a deletion owes an entry of a tenant that is gone.
Owed(k) ==
    \E r \in Requests : k \in Owes(r) /\ (at[r] \in Clearing \/ k[2] \in Present)

\* An entry that is not what the database holds is excused or owed: the stronger
\* form of StaleIsExcused that lasts.
EntriesAccounted ==
    \A k \in TimedKeys :
        redis[k] \in {None, Current(k)} \/ k \in excused \/ Owed(k)

\* The writers of t's credentials that have deactivated the old ones.
Inserting(t) == {r \in Requests : at[r] = "insert" /\ Of(r) = t}

\* Between a writer's deactivation and its insert no credentials are active and
\* no other writer is there, unless they overlapped.
CredentialsAccounted ==
    \A t \in Tenants :
        /\ \/ credentials[t] = <<>>
           \/ Active(credentials[t]) # {}
           \/ Inserting(t) # {}
           \/ t \in cutShort
        /\ \/ t \in overlapped
           \/ /\ Inserting(t) # {} => Active(credentials[t]) = {}
              /\ \A r, s \in Inserting(t) : r = s
              /\ \A i, j \in Active(credentials[t]) : i = j

\* Those besides the sign-ups that change a configuration or a phone number.
Outsider(t) ==
    \E r \in Requests :
        Of(r) = t /\ (Is(r, {"configure", "delete", "setup", "skip"}) \/ plan[r].phone)

\* The request that created the tenant brought a number.
Brought(t) == \E r \in Requests : plan[r].phone /\ tenants[t].by = r

\* Between saving a configuration and flagging the tenant, the configuration is
\* the one saved; when nobody flags, the phone number is the configuration's or
\* the tenant was created with one.
PhonesAccounted ==
    \A t \in Tenants :
        \/ Outsider(t)
        \/ t \in cutShort \cup overlapped
        \/ /\ \A r \in Flagging(t) : whatsapp[t] = r
           /\ Flagging(t) = {} /\ t \in Present =>
                  tenants[t].phone \in {None, whatsapp[t]} \/ Brought(t)

\* Where only sign-ups write, a configuration's row never goes, so no update of
\* one misses it.
SignupsFindRows ==
    \A r \in Requests :
        Is(r, {"signup"}) /\ ~Outsider(Of(r)) =>
            local[r] # "gone" /\ (at[r] = "updateConfig" => whatsapp[Of(r)] # None)

\* A request creates a tenant of the organisation only after it knew none; a
\* tenant without a key is being given one, was cut short or is being deleted.
TenantsAccounted ==
    /\ \A r \in Requests : at[r] = "insertTenant" => known[r] = {}
    /\ \A t \in Present :
           tenants[t].by # None => at[tenants[t].by] # "find" /\ known[tenants[t].by] = {}
    /\ \A t \in Present \ apiKeys :
           \/ t \in cutShort
           \/ \E r \in Requests : at[r] = "insertKey" /\ local[r] = t
           \/ \E r \in Requests : Of(r) = t /\ Is(r, {"delete"})
-----------------------------------------------------------------------------
(* Facts about the operators *)

\* A set of numbers up to a bound has a largest one.
LEMMA Largest ==
    ASSUME NEW n \in Nat, NEW T \in SUBSET (1 .. n), T # {}
    PROVE  Max(T) \in T
<1> DEFINE U == {n - i : i \in T}
           R == OpToRel(<, Nat)
<1>1. U \subseteq Nat /\ U # {}
  <2>1. \A i \in T : n - i \in Nat
    OBVIOUS
  <2> HIDE DEF R
  <2> QED
    BY <2>1
<1>2. PICK x \in U : \A y \in U : <<y, x>> \notin R
  <2>1. IsWellFoundedOn(R, Nat)
    BY NatLessThanWellFounded
  <2> HIDE DEF R, U
  <2> QED
    BY <1>1, <2>1, WFMin
<1>3. \A y \in U : ~(y < x)
  BY <1>1, <1>2 DEF OpToRel
<1>4. PICK i \in T : x = n - i
  BY <1>2
<1>5. \A j \in T : i >= j
  BY <1>3, <1>4
<1> QED
  BY <1>5 DEF Max

\* A row of tenant_credentials.
Credentials == [value : Requests \cup {"first"}, active : BOOLEAN]

\* The newest active credentials are a value an entry can have.
LEMMA LatestIsValue ==
    ASSUME NEW rows \in Seq(Credentials)
    PROVE  Latest(rows) \in Values
<1>1. CASE Active(rows) = {}
  BY <1>1 DEF Latest, Values
<1>2. CASE Active(rows) # {}
  <2>1. /\ Active(rows) \subseteq 1 .. Len(rows)
        /\ Len(rows) \in Nat
    BY DEF Active
  <2>2. Max(Active(rows)) \in 1 .. Len(rows)
    BY <1>2, <2>1, Largest
  <2>3. rows[Max(Active(rows))] \in Credentials
    BY <2>2
  <2> QED
    BY <1>2, <2>3 DEF Latest, Values, Credentials
<1> QED
  BY <1>1, <1>2

\* Deactivating leaves as many rows and none of them active.
LEMMA DeactivatedRows ==
    ASSUME NEW rows \in Seq(Credentials)
    PROVE  /\ Deactivated(rows) \in Seq(Credentials)
           /\ Active(Deactivated(rows)) = {}
           /\ rows = <<>> => Deactivated(rows) = <<>>
<1>1. /\ Len(rows) \in Nat
      /\ DOMAIN rows = 1 .. Len(rows)
      /\ \A i \in 1 .. Len(rows) : rows[i] \in Credentials
  OBVIOUS
<1>2. \A i \in 1 .. Len(rows) :
          /\ Deactivated(rows)[i] \in Credentials
          /\ Deactivated(rows)[i].active = FALSE
  BY <1>1 DEF Deactivated, Credentials
<1>3. /\ DOMAIN Deactivated(rows) = 1 .. Len(rows)
      /\ Deactivated(rows) = [i \in 1 .. Len(rows) |-> Deactivated(rows)[i]]
  BY <1>1 DEF Deactivated
<1>4. Deactivated(rows) \in Seq(Credentials)
  <2>1. Deactivated(rows) \in [1 .. Len(rows) -> Credentials]
    BY <1>2, <1>3
  <2> QED
    BY <1>1, <2>1, SeqDef
<1>5. Active(Deactivated(rows)) = {}
  BY <1>2, <1>3 DEF Active
<1>6. rows = <<>> => Deactivated(rows) = <<>>
  BY <1>3, <1>4, EmptySeq
<1> QED
  BY <1>4, <1>5, <1>6

\* The appended row is active and the others are as they were.
LEMMA AppendedRow ==
    ASSUME NEW rows \in Seq(Credentials), NEW v \in Requests
    PROVE  LET new == Append(rows, [value |-> v, active |-> TRUE])
           IN  /\ new \in Seq(Credentials)
               /\ Active(new) = Active(rows) \cup {Len(rows) + 1}
<1> DEFINE row == [value |-> v, active |-> TRUE]
           new == Append(rows, row)
<1>1. row \in Credentials /\ row.active = TRUE
  BY DEF Credentials
<1> HIDE DEF row
<1>2. /\ new \in Seq(Credentials)
      /\ Len(new) = Len(rows) + 1
      /\ DOMAIN new = 1 .. Len(rows) + 1
      /\ DOMAIN rows = 1 .. Len(rows)
      /\ Len(rows) \in Nat
      /\ \A i \in 1 .. Len(rows) : new[i] = rows[i]
      /\ new[Len(rows) + 1] = row
  BY <1>1, AppendProperties
<1> HIDE DEF new
<1>3. Active(new) = Active(rows) \cup {Len(rows) + 1}
  BY <1>1, <1>2 DEF Active
<1> QED
  BY <1>2, <1>3 DEF new, row

\* What the guards of the routes say of a request's arguments.
LEMMA CallOf ==
    ASSUME plan \in Plans, NEW r \in Requests
    PROVE  /\ plan[r] \in Calls
           /\ plan[r].op \in Operations
           /\ plan[r].op \notin {"create", "provision", "lookup"} => Of(r) \in Tenants
           /\ plan[r].op \in {"create", "provision", "lookup"} => Of(r) = None
           /\ plan[r].op \in {"rotate", "lookup"} => plan[r].integration \in Integrations
           /\ plan[r].integration \in Integrations \cup {None}
           /\ plan[r].status \in Statuses \cup {None}
<1>1. plan[r] \in Calls /\ WellFormed(plan[r])
  BY TenantDirectoryAssumption
<1> QED
  BY <1>1 DEF Calls, WellFormed, Of

\* The row of a new tenant.
LEMMA NewRows ==
    ASSUME TypeOK, NEW r \in Requests
    PROVE  /\ NewRow(r) \in Rows
           /\ NewRow(r).by = r
           /\ NewRow(r).phone = None \/ plan[r].phone
           /\ NewRow(r).integration = plan[r].integration
<1>1. plan[r] \in Calls
  BY CallOf DEF TypeOK
<1>2. /\ plan[r].integration \in Integrations \cup {None}
      /\ plan[r].phone \in BOOLEAN /\ plan[r].org \in BOOLEAN
  BY <1>1 DEF Calls
<1>3. "active" \in Statuses
  BY DEF Statuses
<1>4. (IF plan[r].phone THEN r ELSE None) \in Requests \cup {None}
  OBVIOUS
<1> QED
  BY <1>2, <1>3, <1>4 DEF NewRow, Rows

\* The entries of a tenant.
LEMMA KeysOf ==
    ASSUME NEW t \in Tenants
    PROVE  /\ \A name \in {"row", "masked", "raw", "config"} :
                  <<name, t>> \in Keys /\ <<name, t>> \in TimedKeys
           /\ <<"apikey", t>> \in Keys
BY DEF Keys, TimedKeys

\* An entry that expires is an integration's or one of four of a tenant.
LEMMA TimedKeysAre ==
    ASSUME NEW k \in TimedKeys
    PROVE  /\ k \in Keys
           /\ \/ \E i \in Integrations : k = <<"integration", i>>
              \/ \E name \in {"row", "masked", "raw", "config"}, t \in Tenants :
                     k = <<name, t>>
BY DEF Keys, TimedKeys

\* Which operations a statement belongs to.
LEMMA OpAt ==
    ASSUME TypeOK, StageFits, NEW r \in Requests
    PROVE  /\ at[r] = "find" => plan[r].op = "provision"
           /\ at[r] \in Adding => plan[r].op \in {"create", "provision"}
           /\ at[r] \in {"check", "denormalise"} => plan[r].op = "rotate"
           /\ at[r] \in {"deactivate", "insert"} => plan[r].op \in {"rotate", "store"}
           /\ at[r] \in {"change", "cacheRow"} => plan[r].op \in {"update", "complete"}
           /\ at[r] \in Dropping \cup Clearing => plan[r].op = "delete"
           /\ at[r] \in {"checkTenant", "flag", "unflag"} => plan[r].op = "signup"
           /\ at[r] \in Saving \ {"invalidate"} => plan[r].op \in {"signup", "configure"}
           /\ at[r] = "invalidate" => plan[r].op \in
                  {"rotate", "store", "update", "complete", "signup", "configure"}
           /\ at[r] = "exchange" => plan[r].op = "setup"
           /\ at[r] = "demo" => plan[r].op = "skip"
           /\ at[r] = "upsert" => plan[r].op \in {"setup", "skip"}
           /\ at[r] \in {"get", "select", "fill"} =>
                  plan[r].op \in {"masked", "raw", "whatsapp", "lookup"}
<1>1. plan[r].op \in Operations
  BY CallOf DEF TypeOK
<1> DEFINE o == plan[r].op
           a == at[r]
<1>2. a \in Ended \cup StagesOf(o)
  BY DEF StageFits
<1>3. o \in Operations
  BY <1>1
<1> SUFFICES
           /\ a = "find" => o = "provision"
           /\ a \in Adding => o \in {"create", "provision"}
           /\ a \in {"check", "denormalise"} => o = "rotate"
           /\ a \in {"deactivate", "insert"} => o \in {"rotate", "store"}
           /\ a \in {"change", "cacheRow"} => o \in {"update", "complete"}
           /\ a \in Dropping \cup Clearing => o = "delete"
           /\ a \in {"checkTenant", "flag", "unflag"} => o = "signup"
           /\ a \in Saving \ {"invalidate"} => o \in {"signup", "configure"}
           /\ a = "invalidate" => o \in
                  {"rotate", "store", "update", "complete", "signup", "configure"}
           /\ a = "exchange" => o = "setup"
           /\ a = "demo" => o = "skip"
           /\ a = "upsert" => o \in {"setup", "skip"}
           /\ a \in {"get", "select", "fill"} =>
                  o \in {"masked", "raw", "whatsapp", "lookup"}
  OBVIOUS
<1> HIDE DEF o, a
<1> QED
  BY <1>2, <1>3 DEF StagesOf, Operations, Ended, Adding, Saving, Dropping, Clearing

\* At a statement about a tenant the request has one, and a reader has an entry.
LEMMA TenantAt ==
    ASSUME TypeOK, StageFits, NEW r \in Requests
    PROVE  /\ at[r] \in {"check", "deactivate", "insert", "denormalise", "change",
                         "cacheRow", "checkTenant", "flag", "unflag", "invalidate",
                         "exchange", "demo", "upsert"}
                        \cup Dropping \cup Clearing \cup Saving => Of(r) \in Tenants
           /\ at[r] \in {"get", "select", "fill"} => KeyRead(r) \in TimedKeys
<1>1. /\ plan[r].op \notin {"create", "provision", "lookup"} => Of(r) \in Tenants
      /\ plan[r].op = "lookup" => plan[r].integration \in Integrations
  BY CallOf DEF TypeOK
<1>2. ASSUME at[r] \in {"get", "select", "fill"}
      PROVE  KeyRead(r) \in TimedKeys
  <2>1. plan[r].op \in {"masked", "raw", "whatsapp", "lookup"}
    BY <1>2, OpAt
  <2>2. CASE plan[r].op \in {"masked", "raw", "whatsapp"}
    <3>1. Of(r) \in Tenants
      BY <1>1, <2>2
    <3> QED
      BY <2>2, <3>1, KeysOf DEF KeyRead, Is
  <2>3. CASE plan[r].op = "lookup"
    BY <1>1, <2>3 DEF KeyRead, Is, TimedKeys, Keys
  <2> QED
    BY <2>1, <2>2, <2>3
<1>3. at[r] \in {"check", "deactivate", "insert", "denormalise", "change",
                 "cacheRow", "checkTenant", "flag", "unflag", "invalidate",
                 "exchange", "demo", "upsert"}
                \cup Dropping \cup Clearing \cup Saving
          => plan[r].op \notin {"create", "provision", "lookup"}
  BY OpAt DEF Saving
<1> QED
  BY <1>1, <1>2, <1>3

\* A query finds a value an entry can have.
LEMMA CurrentIsValue ==
    ASSUME TypeOK, NEW k \in TimedKeys
    PROVE  Current(k) \in Values
<1>1. CASE \E i \in Integrations : k = <<"integration", i>>
  <2> PICK i \in Integrations : k = <<"integration", i>>
    BY <1>1
  <2>1. Owners(i) \subseteq Tenants
    BY DEF Owners, Present
  <2>2. Integrated(i) \in Values
    BY <2>1 DEF Integrated, Values
  <2> QED
    BY <2>2 DEF Current
<1>2. ASSUME NEW t \in Tenants, NEW name \in {"row", "masked", "raw", "config"},
             k = <<name, t>>
      PROVE  Current(k) \in Values
  <2>1. CASE name \in {"masked", "raw"}
    <3>1. credentials[t] \in Seq(Credentials)
      BY DEF TypeOK, Credentials
    <3> QED
      BY <1>2, <2>1, <3>1, LatestIsValue DEF Current
  <2>2. CASE name = "config"
    BY <1>2, <2>2 DEF Current, TypeOK, Values
  <2>3. CASE name = "row"
    <3>1. t \in Present => tenants[t].status \in Statuses
      BY DEF TypeOK, Rows, Present
    <3> QED
      BY <1>2, <2>3, <3>1 DEF Current, Values
  <2> QED
    BY <2>1, <2>2, <2>3
<1> QED
  BY <1>1, <1>2, TimedKeysAre

\* A handler's step is one of the actions.
LEMMA StepIsAction ==
    ASSUME NEW r \in Requests, Step(r)
    PROVE  \/ FindsTenant(r) \/ InsertsTenant(r) \/ InsertsKey(r) \/ CachesNew(r)
           \/ NamesNew(r) \/ ChecksTenant(r) \/ Deactivates(r) \/ InsertsCredentials(r)
           \/ Denormalises(r) \/ Invalidates(r) \/ ChangesTenant(r) \/ CachesRow(r)
           \/ DropsConfig(r) \/ DropsCredentials(r) \/ DropsKeys(r) \/ DropsTenant(r)
           \/ ClearsEntries(r) \/ ChecksSignup(r) \/ FindsConfig(r) \/ SavesConfig(r)
           \/ FlagsTenant(r) \/ CompletesSetup(r) \/ SkipsSetup(r) \/ UpsertsConfig(r)
           \/ ReadsEntry(r) \/ ReadsRow(r) \/ FillsEntry(r)
BY DEF Step, Creates, Provisions, Adds, Rotates, Stores, Updates, Completes, Deletes, Configures,
       Reads

-----------------------------------------------------------------------------
(* Types, statements and locals *)

\* The entries a request makes stale, is yet to delete or deletes are entries,
\* and what it leaves unfinished is a tenant's.
LEMMA KeysOfRequest ==
    ASSUME TypeOK, StageFits, LocalFits, NEW r \in Requests
    PROVE  /\ Uncovered(r) \subseteq Keys
           /\ Pending(r) \subseteq Keys
           /\ at[r] \in {"invalidate", "unflag", "denormalise"} => Invalidated(r) \in Keys
           /\ Unfinished(r) =>
                  (IF at[r] = "insertKey" THEN local[r] ELSE Of(r)) \in Tenants
<1>1. plan[r].op \notin {"create", "provision", "lookup"} => Of(r) \in Tenants
  BY CallOf DEF TypeOK
<1>2. at[r] \in {"insert", "denormalise", "invalidate", "unflag", "flag"} => Of(r) \in Tenants
  BY TenantAt
<1>3. Of(r) \in Tenants => Invalidated(r) \in Keys
  BY KeysOf DEF Invalidated
<1>4. AllIntegrations \subseteq Keys
  BY DEF AllIntegrations, Keys
<1>5. Uncovered(r) \subseteq Keys
  <2>1. CASE Of(r) \in Tenants
    BY <1>4, <2>1, KeysOf DEF Uncovered
  <2>2. CASE Of(r) \notin Tenants
    BY <1>1, <2>2 DEF Uncovered, Is
  <2> QED
    BY <2>1, <2>2
<1>6. Pending(r) \subseteq Keys
  <2>1. Of(r) \in Tenants => {"row", "masked", "config"} \X {Of(r)} \subseteq Keys
    BY DEF Keys
  <2> QED
    BY <1>1, <1>2, <1>3, <2>1 DEF Pending, Is
<1>7. Unfinished(r) => (IF at[r] = "insertKey" THEN local[r] ELSE Of(r)) \in Tenants
  BY <1>2 DEF Unfinished, LocalFits
<1> QED
  BY <1>2, <1>3, <1>5, <1>6, <1>7

\* SETEX and SET store values.
LEMMA PutType ==
    ASSUME TypeOK, NEW k \in Keys, NEW v \in Values \cup {None}, Put(k, v)
    PROVE  redis' \in [Keys -> Values \cup {None}] /\ excused' \subseteq Keys
BY DEF TypeOK, Put

\* DEL stores none.
LEMMA DelType ==
    ASSUME TypeOK, NEW k \in Keys, Del(k)
    PROVE  redis' \in [Keys -> Values \cup {None}] /\ excused' \subseteq Keys
BY DEF TypeOK, Del

\* The statements the actions go to are statements.
LEMMA StatementNames ==
    /\ {"done", "failed", "find", "insertTenant", "insertKey", "cacheNew", "nameNew",
        "check", "deactivate", "insert", "denormalise", "change", "cacheRow"}
           \subseteq Statements
    /\ {"dropConfig", "dropCredentials", "dropKeys", "dropTenant", "clearRow",
        "clearMasked", "clearConfig", "invalidate", "get", "select", "fill"}
           \subseteq Statements
    /\ {"checkTenant", "findConfig", "updateConfig", "insertConfig", "flag", "unflag",
        "exchange", "demo", "upsert"} \subseteq Statements
BY DEF Statements, Ended

\* A request goes on to a statement.
LEMMA GotoType ==
    ASSUME TypeOK, NEW r \in Requests, NEW s \in Statements, Goto(r, s)
    PROVE  at' \in [Requests -> Statements]
BY DEF TypeOK, Goto

\* What a fault leaves behind are statements, tenants and entries.
LEMMA LeavesType ==
    ASSUME TypeOK, StageFits, LocalFits, NEW S \in SUBSET Requests, Leaves(S)
    PROVE  /\ at' \in [Requests -> Statements]
           /\ cutShort' \subseteq Tenants
           /\ excused' \subseteq Keys
<1>1. at' \in [Requests -> Statements]
  BY DEF TypeOK, Leaves, Statements, Ended
<1>2. \A r \in {s \in S : Unfinished(s)} :
          (IF at[r] = "insertKey" THEN local[r] ELSE Of(r)) \in Tenants
  BY KeysOfRequest
<1>3. cutShort' \subseteq Tenants
  BY <1>2 DEF TypeOK, Leaves
<1>4. \A r \in S : Pending(r) \subseteq Keys
  BY KeysOfRequest
<1>5. excused' \subseteq Keys
  BY <1>4 DEF TypeOK, Leaves
<1> QED
  BY <1>1, <1>3, <1>5

\* Faults are counted.
LEMMA FaultType ==
    ASSUME TypeOK, Fault
    PROVE  faults' \in Nat
BY DEF TypeOK, Fault

\* Every step keeps the types.
LEMMA TypeStep ==
    ASSUME TypeOK, StageFits, LocalFits, [Next]_vars
    PROVE  TypeOK'
<1> USE DEF rowVars, ghostVars
<1> DEFINE Stored == /\ tenants \in [Tenants -> Rows \cup {None}]
                     /\ credentials \in [Tenants -> Seq(Credentials)]
                     /\ whatsapp \in [Tenants -> Requests \cup {None}]
                     /\ apiKeys \subseteq Tenants
           Cached == redis \in [Keys -> Values \cup {None}] /\ excused \subseteq Keys
<1>0. TypeOK <=> /\ plan \in Plans /\ Stored /\ Cached /\ cacheReady \in BOOLEAN
                 /\ at \in [Requests -> Statements]
                 /\ local \in [Requests -> Values \cup {None}]
                 /\ known \in [Requests -> SUBSET Tenants]
                 /\ overlapped \subseteq Tenants
                 /\ cutShort \subseteq Tenants
                 /\ faults \in Nat
  BY DEF TypeOK, Credentials
<1>1. ASSUME NEW r \in Requests, Step(r)
      PROVE  TypeOK'
  <2>1. CASE FindsTenant(r)
    <3>1. OfOrg \subseteq Tenants
      BY DEF OfOrg, Present
    <3>2. at' \in [Requests -> Statements]
      BY <2>1, StatementNames DEF TypeOK, FindsTenant, Goto
    <3> QED
      BY <2>1, <3>1, <3>2 DEF TypeOK, FindsTenant
  <2>2. CASE InsertsTenant(r)
    <3>1. \/ UNCHANGED <<tenants, local>>
          \/ \E t \in Tenants : /\ tenants' = [tenants EXCEPT ![t] = NewRow(r)]
                                /\ local' = [local EXCEPT ![r] = t]
      BY <2>2 DEF InsertsTenant
    <3>3. tenants' \in [Tenants -> Rows \cup {None}]
      BY <3>1, NewRows DEF TypeOK
    <3>4. local' \in [Requests -> Values \cup {None}]
      BY <3>1 DEF TypeOK, Values
    <3>5. at' \in [Requests -> Statements]
      BY <2>2, StatementNames DEF TypeOK, InsertsTenant, Goto
    <3> QED
      BY <2>2, <3>3, <3>4, <3>5 DEF TypeOK, InsertsTenant
  <2>3. CASE InsertsKey(r)
    <3>1. local[r] \in Present => local[r] \in Tenants
      BY DEF Present
    <3>2. at' \in [Requests -> Statements]
      BY <2>3, StatementNames DEF TypeOK, InsertsKey, Goto
    <3>3. apiKeys' \subseteq Tenants
      BY <2>3, <3>1 DEF TypeOK, InsertsKey
    <3> QED
      BY <2>3, <3>2, <3>3 DEF TypeOK, InsertsKey
  <2>4. CASE CachesNew(r)
    <3>1. local[r] \in Tenants /\ "active" \in Values
      BY <2>4 DEF CachesNew, LocalFits, Values, Statuses
    <3>2. Cached'
      BY <2>4, <3>1, KeysOf, PutType DEF CachesNew
    <3>3. at' \in [Requests -> Statements]
      BY <2>4, StatementNames DEF TypeOK, CachesNew, Goto
    <3> QED
      BY <2>4, <3>2, <3>3 DEF TypeOK, CachesNew
  <2>5. CASE NamesNew(r)
    <3>1. local[r] \in Tenants /\ "active" \in Values
      BY <2>5 DEF NamesNew, LocalFits, Values, Statuses
    <3>2. Cached'
      BY <2>5, <3>1, KeysOf, PutType DEF NamesNew
    <3>3. at' \in [Requests -> Statements]
      BY <2>5, StatementNames DEF TypeOK, NamesNew, Goto
    <3> QED
      BY <2>5, <3>2, <3>3 DEF TypeOK, NamesNew
  <2>6. CASE ChecksTenant(r) \/ ChecksSignup(r) \/ CompletesSetup(r) \/ SkipsSetup(r)
             \/ FindsConfig(r) \/ ReadsEntry(r)
    <3>1. at' \in [Requests -> Statements]
      BY <2>6, StatementNames DEF TypeOK, ChecksTenant, ChecksSignup, CompletesSetup, SkipsSetup,
                  FindsConfig, ReadsEntry, Goto
    <3> QED
      BY <2>6, <3>1 DEF TypeOK, ChecksTenant, ChecksSignup, CompletesSetup, SkipsSetup,
                        FindsConfig, ReadsEntry
  <2>7. CASE Deactivates(r)
    <3>1. Of(r) \in Tenants /\ Uncovered(r) \subseteq Keys
      BY <2>7, TenantAt, KeysOfRequest DEF Deactivates
    <3>2. credentials' \in [Tenants -> Seq(Credentials)]
      BY <2>7, <3>1, DeactivatedRows DEF TypeOK, Credentials, Deactivates
    <3>3. at' \in [Requests -> Statements]
      BY <2>7, StatementNames DEF TypeOK, Deactivates, Goto
    <3>4. overlapped' \subseteq Tenants /\ excused' \subseteq Keys
      BY <2>7, <3>1 DEF TypeOK, Deactivates, Changes
    <3> QED
      BY <2>7, <3>2, <3>3, <3>4 DEF TypeOK, Deactivates, Credentials
  <2>8. CASE InsertsCredentials(r)
    <3>1. Of(r) \in Tenants /\ Uncovered(r) \subseteq Keys
      BY <2>8, TenantAt, KeysOfRequest DEF InsertsCredentials
    <3>2. credentials' \in [Tenants -> Seq(Credentials)]
      <4>1. credentials[Of(r)] \in Seq(Credentials)
        BY <3>1 DEF TypeOK, Credentials
      <4> DEFINE new == Append(credentials[Of(r)], [value |-> r, active |-> TRUE])
      <4>2. new \in Seq(Credentials)
        BY <4>1, AppendedRow
      <4>3. \/ credentials' = credentials
            \/ credentials' = [credentials EXCEPT ![Of(r)] = new]
        BY <2>8 DEF InsertsCredentials
      <4> HIDE DEF new
      <4> QED
        BY <3>1, <4>2, <4>3 DEF TypeOK, Credentials
    <3>3. at' \in [Requests -> Statements]
      BY <2>8, StatementNames DEF TypeOK, InsertsCredentials, Goto
    <3>4. excused' \subseteq Keys
      BY <2>8, <3>1 DEF TypeOK, InsertsCredentials, Changes
    <3> QED
      BY <2>8, <3>2, <3>3, <3>4 DEF TypeOK, InsertsCredentials, Credentials
  <2>9. CASE Denormalises(r)
    <3>1. /\ Of(r) \in Tenants /\ Uncovered(r) \subseteq Keys /\ Invalidated(r) \in Keys
          /\ plan[r].integration \in Integrations
      BY <2>9, TenantAt, KeysOfRequest, OpAt, CallOf DEF Denormalises, TypeOK
    <3>2. tenants' \in [Tenants -> Rows \cup {None}]
      <4>1. Of(r) \in Present => tenants[Of(r)] \in Rows
        BY <3>1 DEF Present, TypeOK
      <4>2. Of(r) \in Present =>
                [tenants[Of(r)] EXCEPT !.integration = plan[r].integration] \in Rows
        BY <3>1, <4>1 DEF Rows
      <4>3. tenants' = IF Of(r) \in Present /\ tenants' # tenants
                       THEN [tenants EXCEPT ![Of(r)] =
                           [tenants[Of(r)] EXCEPT !.integration = plan[r].integration]]
                       ELSE tenants
        BY <2>9 DEF Denormalises
      <4> QED
        BY <3>1, <4>2, <4>3 DEF TypeOK
    <3>3. at' \in [Requests -> Statements]
      BY <2>9, StatementNames DEF TypeOK, Denormalises, Goto
    <3>4. excused' \subseteq Keys
      BY <2>9, <3>1 DEF TypeOK, Denormalises, Changes
    <3> QED
      BY <2>9, <3>2, <3>3, <3>4 DEF TypeOK, Denormalises
  <2>10. CASE Invalidates(r)
    <3>1. Cached'
      BY <2>10, KeysOfRequest, DelType DEF Invalidates
    <3>2. at' \in [Requests -> Statements]
      BY <2>10, StatementNames DEF TypeOK, Invalidates, Goto
    <3> QED
      BY <2>10, <3>1, <3>2 DEF TypeOK, Invalidates
  <2>11. CASE ChangesTenant(r)
    <3> DEFINE row == tenants[Of(r)]
               status == IF Is(r, {"complete"}) THEN "active"
                         ELSE Given(plan[r].status, row.status)
               i == plan[r].integration
               new == [row EXCEPT !.status = status,
                                  !.integration = Given(i, row.integration),
                                  !.phone = IF plan[r].phone THEN r ELSE row.phone]
    <3>1. Of(r) \in Tenants /\ Uncovered(r) \subseteq Keys
      BY <2>11, TenantAt, KeysOfRequest DEF ChangesTenant
    <3>2. i \in Integrations \cup {None} /\ plan[r].status \in Statuses \cup {None}
      BY CallOf DEF TypeOK
    <3>3. Of(r) \in Present => /\ row \in Rows
                               /\ status \in Statuses
                               /\ Given(i, row.integration) \in Integrations \cup {None}
      <4>1. Of(r) \in Present => row \in Rows
        BY <3>1 DEF Present, TypeOK
      <4>2. ASSUME row \in Rows
            PROVE  row.status \in Statuses /\ row.integration \in Integrations \cup {None}
        BY <4>2 DEF Rows
      <4> QED
        BY <3>2, <4>1, <4>2 DEF Given, Statuses
    <3>4. Of(r) \in Present => new \in Rows
      <4> HIDE DEF status
      <4> QED
        BY <3>3 DEF Rows
    <3>5. \/ /\ Of(r) \in Present
             /\ tenants' = [tenants EXCEPT ![Of(r)] = new]
             /\ local' = [local EXCEPT ![r] = status]
             /\ excused' = excused \cup Uncovered(r)
             /\ Goto(r, "invalidate")
          \/ UNCHANGED <<tenants, local, excused>> /\ Goto(r, "failed")
      BY <2>11 DEF ChangesTenant, Changes
    <3> HIDE DEF new, status, row, i
    <3>6. tenants' \in [Tenants -> Rows \cup {None}]
      BY <3>1, <3>4, <3>5 DEF TypeOK
    <3>7. local' \in [Requests -> Values \cup {None}]
      <4>1. Of(r) \in Present => status \in Values
        BY <3>3 DEF Values
      <4>2. local \in [Requests -> Values \cup {None}]
        BY DEF TypeOK
      <4> QED
        BY <3>5, <4>1, <4>2
    <3>8. at' \in [Requests -> Statements]
      BY <3>5, GotoType, StatementNames
    <3>9. excused' \subseteq Keys
      BY <3>1, <3>5 DEF TypeOK
    <3> QED
      BY <2>11, <3>6, <3>7, <3>8, <3>9 DEF TypeOK, ChangesTenant
  <2>12. CASE CachesRow(r)
    <3>1. Of(r) \in Tenants /\ local[r] \in Values \cup {None}
      BY <2>12, TenantAt DEF CachesRow, TypeOK
    <3>2. Cached'
      BY <2>12, <3>1, KeysOf, PutType DEF CachesRow
    <3>3. at' \in [Requests -> Statements]
      BY <2>12, StatementNames DEF TypeOK, CachesRow, Goto
    <3> QED
      BY <2>12, <3>2, <3>3 DEF TypeOK, CachesRow
  <2>13. CASE DropsConfig(r) \/ DropsCredentials(r) \/ DropsKeys(r)
    <3>1. Of(r) \in Tenants /\ Uncovered(r) \subseteq Keys
      BY <2>13, TenantAt, KeysOfRequest DEF DropsConfig, DropsCredentials, DropsKeys, Dropping
    <3>2. at' \in [Requests -> Statements]
      BY <2>13, StatementNames DEF TypeOK, DropsConfig, DropsCredentials, DropsKeys, Goto
    <3>3. Stored'
      <4>1. CASE DropsConfig(r)
        BY <3>1, <4>1 DEF TypeOK, Credentials, DropsConfig
      <4>2. CASE DropsCredentials(r)
        <5>1. <<>> \in Seq(Credentials)
          BY EmptySeq
        <5>2. credentials' \in [Tenants -> Seq(Credentials)]
          BY <3>1, <4>2, <5>1 DEF TypeOK, Credentials, DropsCredentials
        <5> QED
          BY <4>2, <5>2 DEF TypeOK, DropsCredentials
      <4>3. CASE DropsKeys(r)
        BY <4>3 DEF TypeOK, Credentials, DropsKeys
      <4> QED
        BY <2>13, <4>1, <4>2, <4>3
    <3>4. Cached'
      BY <2>13, <3>1 DEF TypeOK, DropsConfig, DropsCredentials, DropsKeys, Changes
    <3> QED
      BY <2>13, <3>2, <3>3, <3>4 DEF TypeOK, Credentials, DropsConfig, DropsCredentials, DropsKeys
  <2>14. CASE DropsTenant(r)
    <3>1. Of(r) \in Tenants /\ Uncovered(r) \subseteq Keys
      BY <2>14, TenantAt, KeysOfRequest DEF DropsTenant, Dropping
    <3>2. at' \in [Requests -> Statements]
      BY <2>14, StatementNames DEF TypeOK, DropsTenant, Goto
    <3>3. Stored'
      BY <2>14, <3>1, EmptySeq DEF TypeOK, Credentials, DropsTenant
    <3>4. Cached'
      BY <2>14, <3>1 DEF TypeOK, DropsTenant, Changes
    <3> QED
      BY <2>14, <3>2, <3>3, <3>4 DEF TypeOK, Credentials, DropsTenant
  <2>15. CASE ClearsEntries(r)
    <3>1. Of(r) \in Tenants
      BY <2>15, TenantAt DEF ClearsEntries, Clearing
    <3>2. Cached'
      BY <2>15, <3>1, KeysOf, DelType DEF ClearsEntries
    <3>3. at' \in [Requests -> Statements]
      BY <2>15, StatementNames DEF TypeOK, ClearsEntries, Goto
    <3> QED
      BY <2>15, <3>2, <3>3 DEF TypeOK, ClearsEntries
  <2>16. CASE SavesConfig(r)
    <3>1. Of(r) \in Tenants
      BY <2>16, TenantAt DEF SavesConfig, Saving
    <3>2. at' \in [Requests -> Statements]
      BY <2>16, StatementNames DEF TypeOK, SavesConfig, Goto
    <3>3. whatsapp' \in [Tenants -> Requests \cup {None}]
      BY <2>16, <3>1 DEF TypeOK, SavesConfig
    <3>4. local' \in [Requests -> Values \cup {None}]
      BY <2>16 DEF TypeOK, SavesConfig, Values
    <3>5. overlapped' \subseteq Tenants
      BY <2>16, <3>1 DEF TypeOK, SavesConfig
    <3> QED
      BY <2>16, <3>2, <3>3, <3>4, <3>5 DEF TypeOK, SavesConfig
  <2>17. CASE FlagsTenant(r)
    <3>1. Of(r) \in Tenants
      BY <2>17, TenantAt DEF FlagsTenant
    <3>2. at' \in [Requests -> Statements]
      BY <2>17, StatementNames DEF TypeOK, FlagsTenant, Goto
    <3>3. Of(r) \in Present => tenants[Of(r)] \in Rows
      BY <3>1 DEF Present, TypeOK
    <3>4. Of(r) \in Present => [tenants[Of(r)] EXCEPT !.phone = r] \in Rows
      BY <3>3 DEF Rows
    <3>5. \/ UNCHANGED tenants
          \/ /\ Of(r) \in Present
             /\ tenants' = [tenants EXCEPT ![Of(r)] = [tenants[Of(r)] EXCEPT !.phone = r]]
      BY <2>17 DEF FlagsTenant
    <3>6. tenants' \in [Tenants -> Rows \cup {None}]
      BY <3>1, <3>4, <3>5 DEF TypeOK
    <3>7. cutShort' \subseteq Tenants
      BY <2>17, <3>1 DEF TypeOK, FlagsTenant
    <3> QED
      BY <2>17, <3>2, <3>6, <3>7 DEF TypeOK, FlagsTenant
  <2>18. CASE UpsertsConfig(r)
    <3>1. Of(r) \in Tenants /\ Uncovered(r) \subseteq Keys
      BY <2>18, TenantAt, KeysOfRequest DEF UpsertsConfig
    <3>2. at' \in [Requests -> Statements]
      BY <2>18, StatementNames DEF TypeOK, UpsertsConfig, Goto
    <3>3. whatsapp' \in [Tenants -> Requests \cup {None}]
      BY <2>18, <3>1 DEF TypeOK, UpsertsConfig
    <3>4. overlapped' \subseteq Tenants /\ excused' \subseteq Keys
      BY <2>18, <3>1 DEF TypeOK, UpsertsConfig, Changes
    <3> QED
      BY <2>18, <3>2, <3>3, <3>4 DEF TypeOK, UpsertsConfig
  <2>19. CASE ReadsRow(r)
    <3>1. Current(KeyRead(r)) \in Values
      BY <2>19, TenantAt, CurrentIsValue DEF ReadsRow
    <3>2. local' \in [Requests -> Values \cup {None}]
      BY <2>19, <3>1 DEF TypeOK, ReadsRow
    <3>3. at' \in [Requests -> Statements]
      BY <2>19, StatementNames DEF TypeOK, ReadsRow, Goto
    <3> QED
      BY <2>19, <3>2, <3>3 DEF TypeOK, ReadsRow
  <2>20. CASE FillsEntry(r)
    <3>1. KeyRead(r) \in Keys /\ local[r] \in Values \cup {None}
      BY <2>20, TenantAt, TimedKeysAre DEF FillsEntry, TypeOK
    <3>2. Cached'
      <4>1. CASE Put(KeyRead(r), local[r])
        BY <3>1, <4>1, PutType
      <4>2. CASE UNCHANGED <<redis, excused>>
        BY <4>2 DEF TypeOK
      <4> QED
        BY <2>20, <4>1, <4>2 DEF FillsEntry
    <3>3. at' \in [Requests -> Statements]
      BY <2>20, StatementNames DEF TypeOK, FillsEntry, Goto
    <3> QED
      BY <2>20, <3>2, <3>3 DEF TypeOK, FillsEntry
  <2> QED
    BY <1>1, <2>1, <2>2, <2>3, <2>4, <2>5, <2>6, <2>7, <2>8, <2>9, <2>10, <2>11, <2>12,
       <2>13, <2>14, <2>15, <2>16, <2>17, <2>18, <2>19, <2>20, StepIsAction
<1>2. ASSUME NEW r \in Requests, Fails(r)
      PROVE  TypeOK'
  <2>1. /\ at' \in [Requests -> Statements]
        /\ cutShort' \subseteq Tenants
        /\ excused' \subseteq Keys
    BY <1>2, LeavesType DEF Fails
  <2> QED
    BY <1>2, <2>1, FaultType DEF TypeOK, Fails
<1>3. ASSUME NEW r \in Requests, Skips(r)
      PROVE  TypeOK'
  <2>1. at' \in [Requests -> Statements]
    BY <1>3, StatementNames DEF TypeOK, Skips, Goto
  <2> QED
    BY <1>3, <2>1, FaultType DEF TypeOK, Skips
<1>4. ASSUME NEW k \in Keys, Expires(k)
      PROVE  TypeOK'
  <2>1. Cached'
    BY <1>4, DelType DEF Expires
  <2> QED
    BY <1>4, <2>1 DEF TypeOK, Expires
<1>5. CASE CacheLost
  BY <1>5, FaultType DEF TypeOK, CacheLost
<1>6. CASE Crash
  <2>1. /\ at' \in [Requests -> Statements]
        /\ cutShort' \subseteq Tenants
        /\ excused' \subseteq Keys
    BY <1>6, LeavesType DEF Crash, Running
  <2> QED
    BY <1>6, <2>1, FaultType DEF TypeOK, Crash
<1>7. CASE UNCHANGED vars
  BY <1>7 DEF TypeOK, vars
<1> QED
  BY <1>1, <1>2, <1>3, <1>4, <1>5, <1>6, <1>7 DEF Next

\* The statements that the actions of an operation go to are its own.
LEMMA StagesByOp ==
    ASSUME NEW o
    PROVE  /\ o \in {"create", "provision"} => Adding \subseteq StagesOf(o)
           /\ o = "rotate" => {"deactivate", "insert", "denormalise", "invalidate"}
                                  \subseteq StagesOf(o)
           /\ o = "store" => {"insert", "invalidate"} \subseteq StagesOf(o)
           /\ o \in {"update", "complete"} => {"invalidate", "cacheRow"} \subseteq StagesOf(o)
           /\ o = "delete" => Dropping \cup Clearing \subseteq StagesOf(o)
           /\ o \in {"signup", "configure"} => Saving \subseteq StagesOf(o)
           /\ o = "signup" => {"flag", "unflag"} \subseteq StagesOf(o)
           /\ o \in {"setup", "skip"} => "upsert" \in StagesOf(o)
           /\ o \in {"masked", "raw", "whatsapp", "lookup"} =>
                  {"get", "select", "fill"} \subseteq StagesOf(o)
BY DEF StagesOf

\* No request leaves the statements of its operation.
LEMMA StageStep ==
    ASSUME TypeOK, StageFits, [Next]_vars
    PROVE  StageFits'
<1> USE DEF rowVars, ghostVars
<1>1. ASSUME NEW r \in Requests, Step(r)
      PROVE  StageFits'
  <2> DEFINE o == plan[r].op
  <2>1. SUFFICES ASSUME plan' = plan
                 PROVE  \E s \in Ended \cup StagesOf(o) : Goto(r, s)
    <3>1. plan' = plan
      BY <1>1, StepIsAction
         DEF FindsTenant, InsertsTenant, InsertsKey, CachesNew, NamesNew, ChecksTenant,
             Deactivates, InsertsCredentials, Denormalises, Invalidates, ChangesTenant,
             CachesRow, DropsConfig, DropsCredentials, DropsKeys, DropsTenant,
             ClearsEntries, ChecksSignup, FindsConfig, SavesConfig, FlagsTenant,
             CompletesSetup, SkipsSetup, UpsertsConfig, ReadsEntry, ReadsRow, FillsEntry
    <3> QED
      BY <3>1 DEF TypeOK, StageFits, Goto
  <2>2. Ended = {"done", "failed"}
    BY DEF Ended
  <2>3. CASE FindsTenant(r) \/ InsertsTenant(r) \/ InsertsKey(r) \/ CachesNew(r)
             \/ NamesNew(r)
    <3>1. o \in {"create", "provision"}
      BY <2>3, OpAt DEF FindsTenant, InsertsTenant, InsertsKey, CachesNew, NamesNew, Adding
    <3>2. Adding \subseteq StagesOf(o)
      BY <3>1, StagesByOp
    <3>3. \E s \in {"insertTenant", "insertKey", "cacheNew", "nameNew", "done", "failed"} :
              Goto(r, s)
      BY <2>3 DEF FindsTenant, InsertsTenant, InsertsKey, CachesNew, NamesNew
    <3> QED
      BY <2>2, <3>2, <3>3 DEF Adding
  <2>4. CASE ChecksTenant(r) \/ Denormalises(r)
    <3>1. o = "rotate"
      BY <2>4, OpAt DEF ChecksTenant, Denormalises
    <3>2. \E s \in {"deactivate", "invalidate", "failed"} : Goto(r, s)
      BY <2>4 DEF ChecksTenant, Denormalises
    <3> QED
      BY <2>2, <3>1, <3>2, StagesByOp
  <2>5. CASE Deactivates(r) \/ InsertsCredentials(r)
    <3>1. o \in {"rotate", "store"}
      BY <2>5, OpAt DEF Deactivates, InsertsCredentials
    <3>2. \E s \in {"insert", "invalidate", "failed"} \cup
                   (IF o = "rotate" THEN {"denormalise"} ELSE {}) : Goto(r, s)
      BY <2>5 DEF Deactivates, InsertsCredentials, Is
    <3> QED
      BY <2>2, <3>1, <3>2, StagesByOp
  <2>6. CASE Invalidates(r)
    <3>1. o \in {"rotate", "store", "update", "complete", "signup", "configure"}
      BY <2>6, OpAt DEF Invalidates
    <3>2. \E s \in Ended \cup
                   (IF o \in {"update", "complete"} THEN {"cacheRow"}
                    ELSE IF o = "signup" THEN {"flag"} ELSE {}) : Goto(r, s)
      BY <2>6 DEF Invalidates, Is, Ended
    <3> QED
      BY <3>1, <3>2, StagesByOp
  <2>7. CASE ChangesTenant(r) \/ CachesRow(r)
    <3>1. o \in {"update", "complete"}
      BY <2>7, OpAt DEF ChangesTenant, CachesRow
    <3>2. \E s \in {"invalidate", "done", "failed"} : Goto(r, s)
      BY <2>7 DEF ChangesTenant, CachesRow
    <3> QED
      BY <2>2, <3>1, <3>2, StagesByOp
  <2>8. CASE DropsConfig(r) \/ DropsCredentials(r) \/ DropsKeys(r) \/ DropsTenant(r)
             \/ ClearsEntries(r)
    <3>1. o = "delete"
      BY <2>8, OpAt DEF DropsConfig, DropsCredentials, DropsKeys, DropsTenant,
                        ClearsEntries, Dropping, Clearing
    <3>2. \E s \in Dropping \cup Clearing \cup Ended : Goto(r, s)
      BY <2>8 DEF DropsConfig, DropsCredentials, DropsKeys, DropsTenant, ClearsEntries,
                  Dropping, Clearing, Ended
    <3> QED
      BY <3>1, <3>2, StagesByOp
  <2>9. CASE ChecksSignup(r) \/ FindsConfig(r) \/ SavesConfig(r)
    <3>1. o \in {"signup", "configure"}
      BY <2>9, OpAt DEF ChecksSignup, FindsConfig, SavesConfig, Saving
    <3>2. \E s \in Saving \cup Ended : Goto(r, s)
      BY <2>9 DEF ChecksSignup, FindsConfig, SavesConfig, Saving, Ended
    <3> QED
      BY <3>1, <3>2, StagesByOp
  <2>10. CASE FlagsTenant(r)
    <3>1. o = "signup"
      BY <2>10, OpAt DEF FlagsTenant
    <3>2. Goto(r, "unflag") \/ Goto(r, "failed")
      BY <2>10 DEF FlagsTenant
    <3> QED
      BY <2>2, <3>1, <3>2, StagesByOp
  <2>11. CASE CompletesSetup(r) \/ SkipsSetup(r) \/ UpsertsConfig(r)
    <3>1. o \in {"setup", "skip"}
      BY <2>11, OpAt DEF CompletesSetup, SkipsSetup, UpsertsConfig
    <3>2. \E s \in {"upsert", "done", "failed"} : Goto(r, s)
      BY <2>11 DEF CompletesSetup, SkipsSetup, UpsertsConfig
    <3> QED
      BY <2>2, <3>1, <3>2, StagesByOp
  <2>12. CASE ReadsEntry(r) \/ ReadsRow(r) \/ FillsEntry(r)
    <3>1. o \in {"masked", "raw", "whatsapp", "lookup"}
      BY <2>12, OpAt DEF ReadsEntry, ReadsRow, FillsEntry
    <3>2. \E s \in {"select", "fill", "done"} : Goto(r, s)
      BY <2>12 DEF ReadsEntry, ReadsRow, FillsEntry
    <3> QED
      BY <2>2, <3>1, <3>2, StagesByOp
  <2> QED
    BY <1>1, <2>3, <2>4, <2>5, <2>6, <2>7, <2>8, <2>9, <2>10, <2>11, <2>12, StepIsAction
<1>2. ASSUME NEW S \in SUBSET Requests, Leaves(S), plan' = plan
      PROVE  StageFits'
  BY <1>2 DEF StageFits, Leaves, Ended
<1>3. ASSUME NEW r \in Requests, Fails(r)
      PROVE  StageFits'
  BY <1>2, <1>3 DEF Fails
<1>4. ASSUME NEW r \in Requests, Skips(r)
      PROVE  StageFits'
  <2>1. \/ at[r] = "cacheNew" /\ Goto(r, "nameNew")
        \/ Goto(r, "done")
        \/ at[r] = "get" /\ Goto(r, "select")
    BY <1>4 DEF Skips
  <2>2. at[r] = "cacheNew" => "nameNew" \in StagesOf(plan[r].op)
    BY OpAt, StagesByOp DEF Adding
  <2>3. at[r] = "get" => "select" \in StagesOf(plan[r].op)
    BY OpAt, StagesByOp
  <2>4. plan' = plan
    BY <1>4 DEF Skips
  <2> QED
    BY <2>1, <2>2, <2>3, <2>4 DEF TypeOK, StageFits, Goto, Ended
<1>5. ASSUME NEW k \in Keys, Expires(k)
      PROVE  StageFits'
  BY <1>5 DEF StageFits, Expires
<1>6. CASE CacheLost
  BY <1>6 DEF StageFits, CacheLost
<1>7. CASE Crash
  BY <1>2, <1>7 DEF Crash, Running
<1>8. CASE UNCHANGED vars
  BY <1>8 DEF StageFits, vars
<1> QED
  BY <1>1, <1>3, <1>4, <1>5, <1>6, <1>7, <1>8 DEF Next

\* What a step of r leaves as it was, whichever statement it is.
LEMMA OthersKeep ==
    ASSUME TypeOK, NEW r \in Requests, Step(r)
    PROVE  /\ plan' = plan
           /\ \A q \in Requests \ {r} : at'[q] = at[q] /\ local'[q] = local[q]
           /\ cutShort \subseteq cutShort'
<1> USE DEF rowVars, ghostVars
<1>1. /\ plan' = plan
      /\ cutShort \subseteq cutShort'
      /\ local' = local \/ \E v : local' = [local EXCEPT ![r] = v]
  BY StepIsAction
     DEF FindsTenant, InsertsTenant, InsertsKey, CachesNew, NamesNew, ChecksTenant,
         Deactivates, InsertsCredentials, Denormalises, Invalidates, ChangesTenant,
         CachesRow, DropsConfig, DropsCredentials, DropsKeys, DropsTenant,
         ClearsEntries, ChecksSignup, FindsConfig, SavesConfig, FlagsTenant,
         CompletesSetup, SkipsSetup, UpsertsConfig, ReadsEntry, ReadsRow, FillsEntry
<1>2. \E s : Goto(r, s)
  BY StepIsAction
     DEF FindsTenant, InsertsTenant, InsertsKey, CachesNew, NamesNew, ChecksTenant,
         Deactivates, InsertsCredentials, Denormalises, Invalidates, ChangesTenant,
         CachesRow, DropsConfig, DropsCredentials, DropsKeys, DropsTenant,
         ClearsEntries, ChecksSignup, FindsConfig, SavesConfig, FlagsTenant,
         CompletesSetup, SkipsSetup, UpsertsConfig, ReadsEntry, ReadsRow, FillsEntry
<1> QED
  BY <1>1, <1>2 DEF TypeOK, Goto

\* A fault moves requests to their end and keeps what they hold.
LEMMA FaultsEnd ==
    ASSUME TypeOK, NEW S \in SUBSET Requests, Leaves(S), UNCHANGED <<plan, local>>
    PROVE  \A q \in Requests :
               /\ at'[q] \in {at[q], "failed"}
               /\ local'[q] = local[q]
               /\ Is(q, {"update", "complete"})' = Is(q, {"update", "complete"})
BY DEF TypeOK, Leaves, Is

\* An update of a tenant changes an existing row or fails.
LEMMA ChangedRow ==
    ASSUME TypeOK, StageFits, NEW r \in Requests, ChangesTenant(r)
    PROVE  \/ /\ Of(r) \in Present
              /\ \E row \in Rows :
                     /\ tenants' = [tenants EXCEPT ![Of(r)] = row]
                     /\ row.by = tenants[Of(r)].by
                     /\ row.org = tenants[Of(r)].org
                     /\ plan[r].phone \/ row.phone = tenants[Of(r)].phone
                     /\ local' = [local EXCEPT ![r] = row.status]
              /\ Changes(r)
              /\ Goto(r, "invalidate")
           \/ UNCHANGED <<tenants, local, excused>> /\ Goto(r, "failed")
<1> DEFINE row == tenants[Of(r)]
           status == IF Is(r, {"complete"}) THEN "active"
                     ELSE Given(plan[r].status, row.status)
           i == plan[r].integration
           new == [row EXCEPT !.status = status,
                              !.integration = Given(i, row.integration),
                              !.phone = IF plan[r].phone THEN r ELSE row.phone]
<1>1. Of(r) \in Tenants
  BY TenantAt DEF ChangesTenant
<1>2. i \in Integrations \cup {None} /\ plan[r].status \in Statuses \cup {None}
  BY CallOf DEF TypeOK
<1>3. ASSUME Of(r) \in Present
      PROVE  /\ row \in Rows
             /\ status \in Statuses
             /\ Given(i, row.integration) \in Integrations \cup {None}
  <2>1. row \in Rows
    BY <1>1, <1>3 DEF Present, TypeOK
  <2>2. row.status \in Statuses /\ row.integration \in Integrations \cup {None}
    BY <2>1 DEF Rows
  <2> QED
    BY <1>2, <2>1, <2>2 DEF Given, Statuses
<1>4. ASSUME Of(r) \in Present
      PROVE  /\ new \in Rows
             /\ new.by = row.by /\ new.org = row.org /\ new.status = status
             /\ plan[r].phone \/ new.phone = row.phone
  <2> HIDE DEF status
  <2> QED
    BY <1>3, <1>4 DEF Rows
<1>5. \/ /\ Of(r) \in Present
         /\ tenants' = [tenants EXCEPT ![Of(r)] = new]
         /\ local' = [local EXCEPT ![r] = status]
         /\ Changes(r)
         /\ Goto(r, "invalidate")
      \/ UNCHANGED <<tenants, local, excused>> /\ Goto(r, "failed")
  BY DEF ChangesTenant
<1> HIDE DEF new, status, i
<1> QED
  BY <1>4, <1>5

\* What a request holds for the cache it holds until it has written it.
LEMMA LocalStep ==
    ASSUME TypeOK, StageFits, LocalFits, [Next]_vars
    PROVE  LocalFits'
<1> USE DEF rowVars, ghostVars
<1> DEFINE Fits(q) ==
        /\ at[q] \in {"insertKey", "cacheNew", "nameNew"} => local[q] \in Tenants
        /\ Is(q, {"update", "complete"}) /\ at[q] \in {"invalidate", "cacheRow"} =>
               local[q] \in Statuses
        /\ at[q] = "fill" => local[q] # "gone"
<1>1. ASSUME NEW r \in Requests, Step(r)
      PROVE  LocalFits'
  <2>1. /\ plan' = plan
        /\ \A q \in Requests \ {r} : at'[q] = at[q] /\ local'[q] = local[q]
    BY <1>1, OthersKeep
  <2>2. \A q \in Requests \ {r} : Fits(q)'
    BY <2>1 DEF LocalFits, Is
  <2>3. at \in [Requests -> Statements] /\ local \in [Requests -> Values \cup {None}]
    BY DEF TypeOK
  <2>4. SUFFICES Fits(r)'
    BY <2>2 DEF LocalFits
  <2>5. CASE InsertsTenant(r)
    BY <2>1, <2>3, <2>5, OpAt DEF InsertsTenant, Goto, Is, Adding
  <2>6. CASE InsertsKey(r) \/ CachesNew(r) \/ NamesNew(r) \/ CachesRow(r)
    BY <2>1, <2>3, <2>6 DEF LocalFits, InsertsKey, CachesNew, NamesNew, CachesRow, Goto, Is
  <2>7. CASE ChangesTenant(r)
    <3>1. \A row \in Rows : row.status \in Statuses
      BY DEF Rows
    <3>2. (at'[r] = "invalidate" /\ local'[r] \in Statuses) \/ at'[r] = "failed"
      BY <2>3, <2>7, <3>1, ChangedRow DEF Goto
    <3> QED
      BY <3>2
  <2>8. CASE Invalidates(r)
    <3>1. Is(r, {"update", "complete"})' = Is(r, {"update", "complete"})
      BY <2>1 DEF Is
    <3>2. Is(r, {"update", "complete"}) => at[r] = "invalidate"
      BY <2>8, OpAt DEF Invalidates, Is
    <3> QED
      BY <2>3, <2>8, <3>1, <3>2 DEF LocalFits, Invalidates, Goto
  <2>9. CASE \/ FindsTenant(r) \/ ChecksTenant(r) \/ Deactivates(r) \/ InsertsCredentials(r)
             \/ Denormalises(r) \/ DropsConfig(r) \/ DropsCredentials(r) \/ DropsKeys(r)
             \/ DropsTenant(r) \/ ClearsEntries(r) \/ ChecksSignup(r) \/ FindsConfig(r)
             \/ SavesConfig(r) \/ FlagsTenant(r) \/ CompletesSetup(r) \/ SkipsSetup(r)
             \/ UpsertsConfig(r) \/ ReadsEntry(r) \/ ReadsRow(r) \/ FillsEntry(r)
    <3>1. plan[r].op \notin {"create", "update", "complete"}
      BY <2>9, OpAt
         DEF FindsTenant, ChecksTenant, Deactivates, InsertsCredentials, Denormalises,
             DropsConfig, DropsCredentials, DropsKeys, DropsTenant, ClearsEntries,
             ChecksSignup, FindsConfig, SavesConfig, FlagsTenant, CompletesSetup,
             SkipsSetup, UpsertsConfig, ReadsEntry, ReadsRow, FillsEntry, Dropping,
             Clearing, Saving
    <3>2. at'[r] \notin {"insertKey", "cacheNew", "nameNew"}
      BY <2>3, <2>9
         DEF FindsTenant, ChecksTenant, Deactivates, InsertsCredentials, Denormalises,
             DropsConfig, DropsCredentials, DropsKeys, DropsTenant, ClearsEntries,
             ChecksSignup, FindsConfig, SavesConfig, FlagsTenant, CompletesSetup,
             SkipsSetup, UpsertsConfig, ReadsEntry, ReadsRow, FillsEntry, Goto
    <3>3. at'[r] = "fill" => local'[r] # "gone"
      BY <2>3, <2>9
         DEF FindsTenant, ChecksTenant, Deactivates, InsertsCredentials, Denormalises,
             DropsConfig, DropsCredentials, DropsKeys, DropsTenant, ClearsEntries,
             ChecksSignup, FindsConfig, SavesConfig, FlagsTenant, CompletesSetup,
             SkipsSetup, UpsertsConfig, ReadsEntry, ReadsRow, FillsEntry, Goto
    <3> QED
      BY <2>1, <3>1, <3>2, <3>3 DEF Is
  <2> QED
    BY <1>1, <2>5, <2>6, <2>7, <2>8, <2>9, StepIsAction
<1>2. ASSUME NEW S \in SUBSET Requests, Leaves(S), UNCHANGED <<plan, local>>
      PROVE  LocalFits'
  BY <1>2, FaultsEnd DEF LocalFits
<1>3. ASSUME NEW r \in Requests, Fails(r)
      PROVE  LocalFits'
  BY <1>2, <1>3 DEF Fails
<1>4. ASSUME NEW r \in Requests, Skips(r)
      PROVE  LocalFits'
  BY <1>4 DEF TypeOK, LocalFits, Skips, Goto, Is
<1>5. ASSUME NEW k \in Keys, Expires(k)
      PROVE  LocalFits'
  BY <1>5 DEF LocalFits, Expires, Is
<1>6. CASE CacheLost
  BY <1>6 DEF LocalFits, CacheLost, Is
<1>7. CASE Crash
  BY <1>2, <1>7 DEF Crash, Running
<1>8. CASE UNCHANGED vars
  BY <1>8 DEF LocalFits, vars, Is
<1> QED
  BY <1>1, <1>3, <1>4, <1>5, <1>6, <1>7, <1>8 DEF Next

-----------------------------------------------------------------------------
(* Rows and entries *)

\* Replacing a tenant's row keeps the tenants that exist.
LEMMA RowReplaced ==
    ASSUME TypeOK, NEW t \in Present, NEW row \in Rows,
           tenants' = [tenants EXCEPT ![t] = row]
    PROVE  /\ Present' = Present
           /\ t \in Tenants
           /\ tenants'[t] = row
           /\ \A u \in Tenants \ {t} : tenants'[u] = tenants[u]
<1>1. t \in Tenants /\ tenants \in [Tenants -> Rows \cup {None}]
  BY DEF Present, TypeOK
<1>2. row # None
  BY TenantDirectoryAssumption
<1> QED
  BY <1>1, <1>2 DEF Present

\* No action but those that insert a tenant or drop it changes which exist, or
\* a column but those it is about.
LEMMA TenantsKept ==
    ASSUME TypeOK, StageFits, NEW r \in Requests, Step(r),
           ~InsertsTenant(r) \/ tenants' = tenants, ~DropsTenant(r)
    PROVE  /\ Present' = Present
           /\ \A t \in Present :
                  /\ tenants'[t].by = tenants[t].by
                  /\ tenants'[t].org = tenants[t].org
                  /\ \/ tenants'[t].status = tenants[t].status
                     \/ ChangesTenant(r) /\ t = Of(r)
                  /\ \/ tenants'[t].integration = tenants[t].integration
                     \/ ChangesTenant(r) \/ Denormalises(r)
                  /\ \/ tenants'[t].phone = tenants[t].phone
                     \/ ChangesTenant(r) /\ t = Of(r) /\ plan[r].phone
                     \/ FlagsTenant(r) /\ t = Of(r)
<1> USE DEF rowVars, ghostVars
<1>1. \A t \in Present : t \in Tenants /\ tenants[t] \in Rows
  BY DEF Present, TypeOK
<1>2. CASE tenants' = tenants
  BY <1>2 DEF Present
<1>3. CASE ChangesTenant(r) /\ tenants' # tenants
  <2>1. PICK row \in Rows :
            /\ Of(r) \in Present
            /\ tenants' = [tenants EXCEPT ![Of(r)] = row]
            /\ row.by = tenants[Of(r)].by
            /\ row.org = tenants[Of(r)].org
            /\ plan[r].phone \/ row.phone = tenants[Of(r)].phone
    BY <1>3, ChangedRow
  <2>2. /\ Present' = Present
        /\ tenants'[Of(r)] = row
        /\ \A u \in Tenants \ {Of(r)} : tenants'[u] = tenants[u]
    BY <2>1, RowReplaced
  <2> QED
    BY <1>1, <1>3, <2>1, <2>2
<1>4. CASE Denormalises(r) /\ tenants' # tenants
  <2> DEFINE row == [tenants[Of(r)] EXCEPT !.integration = plan[r].integration]
  <2>1. Of(r) \in Present /\ tenants' = [tenants EXCEPT ![Of(r)] = row]
    BY <1>4 DEF Denormalises
  <2>2. plan[r].integration \in Integrations
    BY <1>4, OpAt, CallOf DEF Denormalises, TypeOK
  <2>3. /\ row \in Rows
        /\ row.by = tenants[Of(r)].by /\ row.org = tenants[Of(r)].org
        /\ row.status = tenants[Of(r)].status /\ row.phone = tenants[Of(r)].phone
    BY <1>1, <2>1, <2>2 DEF Rows
  <2> HIDE DEF row
  <2>4. /\ Present' = Present
        /\ tenants'[Of(r)] = row
        /\ \A u \in Tenants \ {Of(r)} : tenants'[u] = tenants[u]
    BY <2>1, <2>3, RowReplaced
  <2> QED
    BY <1>1, <1>4, <2>3, <2>4
<1>5. CASE FlagsTenant(r) /\ tenants' # tenants
  <2> DEFINE row == [tenants[Of(r)] EXCEPT !.phone = r]
  <2>1. Of(r) \in Present /\ tenants' = [tenants EXCEPT ![Of(r)] = row]
    BY <1>5 DEF FlagsTenant
  <2>2. /\ row \in Rows
        /\ row.by = tenants[Of(r)].by /\ row.org = tenants[Of(r)].org
        /\ row.status = tenants[Of(r)].status
        /\ row.integration = tenants[Of(r)].integration
    BY <1>1, <2>1 DEF Rows
  <2> HIDE DEF row
  <2>3. /\ Present' = Present
        /\ tenants'[Of(r)] = row
        /\ \A u \in Tenants \ {Of(r)} : tenants'[u] = tenants[u]
    BY <2>1, <2>2, RowReplaced
  <2> QED
    BY <1>1, <1>5, <2>2, <2>3
<1>6. tenants' = tenants \/ ChangesTenant(r) \/ Denormalises(r) \/ FlagsTenant(r)
  BY StepIsAction
     DEF FindsTenant, InsertsKey, CachesNew, NamesNew, ChecksTenant,
         Deactivates, InsertsCredentials, Invalidates,
         CachesRow, DropsConfig, DropsCredentials, DropsKeys,
         ClearsEntries, ChecksSignup, FindsConfig, SavesConfig,
         CompletesSetup, SkipsSetup, UpsertsConfig, ReadsEntry, ReadsRow, FillsEntry
<1> QED
  BY <1>2, <1>3, <1>4, <1>5, <1>6

\* A created tenant is new, no request holds its id, and no other tenant has the
\* integration it is created with.
LEMMA InsertedTenant ==
    ASSUME TypeOK, NEW r \in Requests, InsertsTenant(r), tenants' # tenants
    PROVE  \E t \in Tenants \ Present :
               /\ ~Taken(r)
               /\ at'[r] = "insertKey"
               /\ Present' = Present \cup {t}
               /\ tenants'[t] = NewRow(r)
               /\ \A u \in Tenants \ {t} : tenants'[u] = tenants[u]
               /\ \A s \in Requests : local[s] # t
               /\ local' = [local EXCEPT ![r] = t]
<1> DEFINE row == NewRow(r)
<1>1. PICK t \in Tenants \ Present :
          /\ ~Taken(r) /\ Goto(r, "insertKey")
          /\ \A s \in Requests : local[s] # t
          /\ tenants' = [tenants EXCEPT ![t] = row]
          /\ local' = [local EXCEPT ![r] = t]
  BY DEF InsertsTenant
<1>2. row \in Rows
  BY NewRows
<1>3. row # None
  BY <1>2, TenantDirectoryAssumption
<1> HIDE DEF row
<1>4. /\ tenants'[t] = row
      /\ \A u \in Tenants \ {t} : tenants'[u] = tenants[u]
  BY <1>1 DEF TypeOK
<1>5. Present' = Present \cup {t}
  BY <1>3, <1>4 DEF Present
<1> QED
  BY <1>1, <1>4, <1>5 DEF row, Goto, TypeOK

\* A dropped tenant takes its credentials and its configuration along.
LEMMA DroppedTenant ==
    ASSUME TypeOK, StageFits, NEW r \in Requests, DropsTenant(r)
    PROVE  /\ Of(r) \in Tenants
           /\ Present' = Present \ {Of(r)}
           /\ \A u \in Tenants \ {Of(r)} : /\ tenants'[u] = tenants[u]
                                           /\ credentials'[u] = credentials[u]
                                           /\ whatsapp'[u] = whatsapp[u]
           /\ credentials'[Of(r)] = <<>>
           /\ whatsapp'[Of(r)] = None
<1>1. Of(r) \in Tenants
  BY TenantAt DEF DropsTenant, Dropping
<1> QED
  BY <1>1 DEF DropsTenant, TypeOK, Present

\* Every step keeps the references between the tables.
LEMMA RowsStep ==
    ASSUME TypeOK, StageFits, LocalFits, RowsFit, [Next]_vars
    PROVE  RowsFit'
<1> USE DEF rowVars, ghostVars
<1> DEFINE Gone == \A t \in Tenants \ Present : credentials[t] = <<>> /\ whatsapp[t] = None
           Statused ==
               /\ \A t \in Tenants : redis[<<"row", t>>] \in Statuses \cup {None}
               /\ \A i \in Integrations : redis[<<"integration", i>>] # "gone"
<1>1. ASSUME NEW r \in Requests, Step(r)
      PROVE  Gone'
  <2>1. /\ credentials \in [Tenants -> Seq(Credentials)]
        /\ whatsapp \in [Tenants -> Requests \cup {None}]
    BY DEF TypeOK, Credentials
  <2>2. Gone
    BY DEF RowsFit
  <2>3. CASE InsertsTenant(r) /\ tenants' # tenants
    <3>1. Present \subseteq Present'
      BY <2>3, InsertedTenant
    <3>2. UNCHANGED <<credentials, whatsapp>>
      BY <2>3 DEF InsertsTenant
    <3> QED
      BY <2>2, <3>1, <3>2
  <2>4. CASE DropsTenant(r)
    BY <2>2, <2>4, DroppedTenant
  <2>5. CASE (~InsertsTenant(r) \/ tenants' = tenants) /\ ~DropsTenant(r)
    <3>1. Present' = Present
      BY <1>1, <2>5, TenantsKept
    <3>2. CASE Deactivates(r)
      <4>1. Of(r) \in Tenants
        BY <3>2, TenantAt DEF Deactivates
      <4>2. credentials[Of(r)] = <<>> => Deactivated(credentials[Of(r)]) = <<>>
        BY <2>1, <4>1, DeactivatedRows
      <4> QED
        BY <2>1, <2>2, <3>1, <3>2, <4>1, <4>2 DEF Deactivates
    <3>3. CASE InsertsCredentials(r)
      BY <2>1, <2>2, <3>1, <3>3 DEF InsertsCredentials
    <3>4. CASE DropsConfig(r)
      BY <2>1, <2>2, <3>1, <3>4 DEF DropsConfig
    <3>5. CASE DropsCredentials(r)
      BY <2>1, <2>2, <3>1, <3>5 DEF DropsCredentials
    <3>6. CASE SavesConfig(r)
      <4>1. Of(r) \in Tenants
        BY <3>6, TenantAt DEF SavesConfig, Saving
      <4>2. \/ whatsapp' = whatsapp
            \/ Of(r) \in Present /\ whatsapp' = [whatsapp EXCEPT ![Of(r)] = r]
        <5>1. whatsapp[Of(r)] # None => Of(r) \in Present
          BY <2>2, <4>1
        <5> QED
          BY <3>6, <5>1 DEF SavesConfig
      <4>3. credentials' = credentials
        BY <3>6 DEF SavesConfig
      <4> QED
        BY <2>1, <2>2, <3>1, <4>2, <4>3
    <3>7. CASE UpsertsConfig(r)
      BY <2>1, <2>2, <3>1, <3>7 DEF UpsertsConfig
    <3>8. CASE UNCHANGED <<credentials, whatsapp>>
      BY <2>2, <3>1, <3>8
    <3>9. \/ Deactivates(r) \/ InsertsCredentials(r) \/ DropsConfig(r)
          \/ DropsCredentials(r) \/ SavesConfig(r) \/ UpsertsConfig(r)
          \/ UNCHANGED <<credentials, whatsapp>>
      BY <1>1, <2>5, StepIsAction
         DEF FindsTenant, InsertsTenant, InsertsKey, CachesNew, NamesNew, ChecksTenant,
             Denormalises, Invalidates, ChangesTenant, CachesRow, DropsKeys, ClearsEntries,
             ChecksSignup, FindsConfig, FlagsTenant, CompletesSetup, SkipsSetup,
             ReadsEntry, ReadsRow, FillsEntry
    <3> QED
      BY <3>2, <3>3, <3>4, <3>5, <3>6, <3>7, <3>8, <3>9
  <2> QED
    BY <2>3, <2>4, <2>5
<1>2. /\ redis \in [Keys -> Values \cup {None}] /\ None # "gone"
      /\ \A t \in Tenants : <<"row", t>> \in Keys
      /\ \A i \in Integrations : <<"integration", i>> \in Keys
  BY KeysOf, TenantDirectoryAssumption DEF TypeOK, Keys, Values
<1>3. Statused
  BY DEF RowsFit
<1>4. ASSUME NEW k, Del(k)
      PROVE  Statused'
  BY <1>2, <1>3, <1>4 DEF Del
<1>5. ASSUME NEW k, NEW v, Put(k, v),
             v \in Statuses \/ \A t \in Tenants : k # <<"row", t>>,
             v # "gone" \/ \A i \in Integrations : k # <<"integration", i>>
      PROVE  Statused'
  BY <1>2, <1>3, <1>5 DEF Put
<1>6. ASSUME NEW r \in Requests, Step(r)
      PROVE  Statused'
  <2>1. CASE redis' = redis
    BY <1>3, <2>1
  <2>2. CASE CachesNew(r)
    BY <1>5, <2>2 DEF CachesNew, Statuses
  <2>3. CASE NamesNew(r)
    BY <1>5, <2>3 DEF NamesNew, Statuses
  <2>4. CASE CachesRow(r)
    <3>1. local[r] \in Statuses
      BY <2>4, OpAt DEF CachesRow, LocalFits, Is
    <3> QED
      BY <1>5, <2>4, <3>1 DEF CachesRow
  <2>5. CASE Invalidates(r)
    BY <1>4, <2>5 DEF Invalidates
  <2>6. CASE ClearsEntries(r)
    BY <1>4, <2>6 DEF ClearsEntries
  <2>7. CASE FillsEntry(r)
    <3>1. plan[r].op # "row"
      BY <2>7, OpAt DEF FillsEntry
    <3>2. \A t \in Tenants : KeyRead(r) # <<"row", t>>
      BY <3>1 DEF KeyRead
    <3>3. redis' = redis \/ Put(KeyRead(r), local[r])
      BY <2>7 DEF FillsEntry
    <3>4. local[r] # "gone"
      BY <2>7 DEF FillsEntry, LocalFits
    <3> QED
      BY <1>5, <2>1, <3>2, <3>3, <3>4
  <2>8. \/ redis' = redis \/ CachesNew(r) \/ NamesNew(r) \/ CachesRow(r) \/ Invalidates(r)
        \/ ClearsEntries(r) \/ FillsEntry(r)
    BY <1>6, StepIsAction
       DEF FindsTenant, InsertsTenant, InsertsKey, ChecksTenant, Deactivates,
           InsertsCredentials, Denormalises, ChangesTenant, DropsConfig,
           DropsCredentials, DropsKeys, DropsTenant, ChecksSignup, FindsConfig,
           SavesConfig, FlagsTenant, CompletesSetup, SkipsSetup, UpsertsConfig,
           ReadsEntry, ReadsRow
  <2> QED
    BY <2>1, <2>2, <2>3, <2>4, <2>5, <2>6, <2>7, <2>8
<1>7. ASSUME UNCHANGED <<rowVars, redis>>
      PROVE  RowsFit'
  BY <1>7 DEF RowsFit, Present
<1>8. ASSUME NEW k \in Keys, Expires(k)
      PROVE  RowsFit'
  <2>1. Statused' /\ UNCHANGED rowVars
    BY <1>4, <1>8 DEF Expires
  <2> QED
    BY <2>1 DEF RowsFit, Present
<1> QED
  BY <1>1, <1>6, <1>7, <1>8 DEF Next, RowsFit, Fails, Skips, CacheLost, Crash, vars

-----------------------------------------------------------------------------
(* Stale entries *)

\* What the queries behind a tenant's entries find.
LEMMA CurrentOf ==
    ASSUME NEW t \in Tenants
    PROVE  /\ \A name \in {"masked", "raw"} : Current(<<name, t>>) = Latest(credentials[t])
           /\ Current(<<"config", t>>) = IF whatsapp[t] = None THEN "gone" ELSE whatsapp[t]
           /\ Current(<<"row", t>>) = IF t \in Present THEN tenants[t].status ELSE "gone"
BY DEF Current

\* What leaves a table alone leaves the entries of its rows current.
LEMMA CurrentKept ==
    ASSUME NEW t \in Tenants
    PROVE  /\ credentials'[t] = credentials[t] =>
                  \A name \in {"masked", "raw"} :
                      Current(<<name, t>>)' = Current(<<name, t>>)
           /\ whatsapp'[t] = whatsapp[t] =>
                  Current(<<"config", t>>)' = Current(<<"config", t>>)
           /\ /\ (t \in Present)' <=> t \in Present
              /\ t \in Present => tenants'[t].status = tenants[t].status
              => Current(<<"row", t>>)' = Current(<<"row", t>>)
<1>1. /\ \A name \in {"masked", "raw"} : Current(<<name, t>>) = Latest(credentials[t])
      /\ \A name \in {"masked", "raw"} : Current(<<name, t>>)' = Latest(credentials'[t])
  BY DEF Current, Latest, Active
<1>2. /\ Current(<<"config", t>>) = IF whatsapp[t] = None THEN "gone" ELSE whatsapp[t]
      /\ Current(<<"config", t>>)' = IF whatsapp'[t] = None THEN "gone" ELSE whatsapp'[t]
  BY DEF Current
<1>3. /\ Current(<<"row", t>>) = IF t \in Present THEN tenants[t].status ELSE "gone"
      /\ Current(<<"row", t>>)' = IF t \in Present' THEN tenants'[t].status ELSE "gone"
  BY DEF Current
<1> QED
  BY <1>1, <1>2, <1>3

\* An integration with the same active tenants has the same entry.
LEMMA OwnersKept ==
    ASSUME NEW i \in Integrations, Owners(i)' = Owners(i)
    PROVE  Current(<<"integration", i>>)' = Current(<<"integration", i>>)
BY DEF Current, Integrated

\* A request that stands still owes what it owed.
LEMMA OwesKept ==
    ASSUME plan' = plan, NEW r \in Requests, at'[r] = at[r]
    PROVE  Owes(r)' = Owes(r)
BY DEF Owes, Invalidated, Of, Is

\* What a request owes at each of its statements.
LEMMA OwesByStage ==
    ASSUME TypeOK, StageFits, NEW r \in Requests
    PROVE  /\ at[r] \notin {"insert", "denormalise", "invalidate"} \cup Dropping \cup Clearing
                  => Owes(r) = {}
           /\ at[r] \in {"insert", "denormalise", "invalidate"} =>
                  Owes(r) = {Invalidated(r)}
           /\ at[r] \in Dropping \cup {"clearRow"} =>
                  Owes(r) = {"row", "masked", "config"} \X {Of(r)}
           /\ at[r] = "clearMasked" => Owes(r) = {"masked", "config"} \X {Of(r)}
           /\ at[r] = "clearConfig" => Owes(r) = {<<"config", Of(r)>>}
           /\ at[r] # "unflag" =>
                  /\ plan[r].op = "rotate" => Invalidated(r) = <<"masked", Of(r)>>
                  /\ plan[r].op = "store" => Invalidated(r) = <<"raw", Of(r)>>
                  /\ plan[r].op \in {"signup", "configure"} =>
                         Invalidated(r) = <<"config", Of(r)>>
           /\ plan[r].op \in {"update", "complete"} => Invalidated(r) = <<"row", Of(r)>>
           /\ Owes(r) \subseteq Pending(r)
           /\ \A k \in Owes(r) : k[2] = Of(r)
           /\ \A k \in Owes(r) : \E name \in {"row", "masked", "raw", "config"} :
                  k = <<name, Of(r)>>
<1> DEFINE a == at[r]
<1>1. Owes(r) = CASE a \in {"insert", "denormalise", "invalidate"} -> {Invalidated(r)}
                  [] a \in Dropping \cup {"clearRow"} -> {"row", "masked", "config"} \X {Of(r)}
                  [] a = "clearMasked" -> {"masked", "config"} \X {Of(r)}
                  [] a = "clearConfig" -> {<<"config", Of(r)>>}
                  [] OTHER -> {}
  BY DEF Owes
<1>2. /\ a # "unflag" =>
             /\ plan[r].op = "rotate" => Invalidated(r) = <<"masked", Of(r)>>
             /\ plan[r].op = "store" => Invalidated(r) = <<"raw", Of(r)>>
             /\ plan[r].op \in {"signup", "configure"} => Invalidated(r) = <<"config", Of(r)>>
      /\ plan[r].op \in {"update", "complete"} => Invalidated(r) = <<"row", Of(r)>>
      /\ \E name \in {"row", "masked", "raw", "config"} : Invalidated(r) = <<name, Of(r)>>
  BY DEF Invalidated, Is
<1>3. a \in Dropping \cup Clearing =>
          Pending(r) = {"row", "masked", "config"} \X {Of(r)}
  BY OpAt DEF Pending, Is, Dropping, Clearing
<1>4. a \in {"insert", "denormalise", "invalidate"} => Pending(r) = {Invalidated(r)}
  BY OpAt DEF Pending, Is
<1>5. /\ a \notin {"insert", "denormalise", "invalidate"} \cup Dropping \cup Clearing
             => Owes(r) = {}
      /\ a \in {"insert", "denormalise", "invalidate"} => Owes(r) = {Invalidated(r)}
      /\ a \in Dropping \cup {"clearRow"} =>
             Owes(r) = {"row", "masked", "config"} \X {Of(r)}
      /\ a = "clearMasked" => Owes(r) = {"masked", "config"} \X {Of(r)}
      /\ a = "clearConfig" => Owes(r) = {<<"config", Of(r)>>}
  <2> HIDE DEF a
  <2> QED
    BY <1>1 DEF Dropping, Clearing
<1>6. \/ Owes(r) = {}
      \/ a \in {"insert", "denormalise", "invalidate"} /\ Owes(r) = {Invalidated(r)}
      \/ /\ a \in Dropping \cup Clearing
         /\ Owes(r) \subseteq {"row", "masked", "config"} \X {Of(r)}
  <2>1. a \in {"insert", "denormalise", "invalidate"} \/ a \in Dropping \cup Clearing
        \/ a \notin {"insert", "denormalise", "invalidate"} \cup Dropping \cup Clearing
    OBVIOUS
  <2> QED
    BY <1>5, <2>1 DEF Clearing
<1>7. Owes(r) \subseteq Pending(r)
  BY <1>3, <1>4, <1>6
<1>8. \A k \in Owes(r) : \E name \in {"row", "masked", "raw", "config"} : k = <<name, Of(r)>>
  BY <1>2, <1>6
<1> QED
  BY <1>2, <1>5, <1>7, <1>8

\* An entry of which nothing changes stays accounted for.
LEMMA EntryKept ==
    ASSUME TypeOK, EntriesAccounted, NEW k \in TimedKeys,
           redis'[k] = redis[k], Current(k)' = Current(k),
           k \in excused => k \in excused',
           Owed(k) => Owed(k)' \/ k \in excused'
    PROVE  redis'[k] \in {None, Current(k)'} \/ k \in excused' \/ Owed(k)'
BY DEF EntriesAccounted

\* What others owe, and what r owes still, stays owed for the tenants that stay.
LEMMA OwedKept ==
    ASSUME TypeOK, NEW r \in Requests, Step(r), NEW k, Owed(k),
           \/ Present \subseteq Present'
           \/ k[2] \in Present => k[2] \in Present',
           k \in Owes(r) => /\ k \in Owes(r)'
                            /\ at[r] \in Clearing => at'[r] \in Clearing
    PROVE  Owed(k)'
<1>1. PICK q \in Requests : k \in Owes(q) /\ (at[q] \in Clearing \/ k[2] \in Present)
  BY DEF Owed
<1>2. plan' = plan /\ (q # r => at'[q] = at[q])
  BY OthersKeep
<1>3. CASE q # r
  <2>1. k \in Owes(q)'
    BY <1>1, <1>2, <1>3, OwesKept
  <2> QED
    BY <1>1, <1>2, <1>3, <2>1 DEF Owed
<1>4. CASE q = r
  BY <1>1, <1>4 DEF Owed
<1> QED
  BY <1>3, <1>4

\* Writing or deleting one entry keeps all accounted for, if the request owes
\* the others still.
LEMMA PutAccounted ==
    ASSUME TypeOK, EntriesAccounted, UNCHANGED rowVars,
           NEW k \in Keys,
           Del(k) \/ \E v \in Values \cup {None} : Put(k, v),
           \A j \in TimedKeys \ {k} : Owed(j) => Owed(j)'
    PROVE  EntriesAccounted'
<1>1. \A j \in Keys : Current(j)' = Current(j)
  BY DEF rowVars, Current, Latest, Active, Integrated, Owners, Present
<1>2. redis \in [Keys -> Values \cup {None}]
  BY DEF TypeOK
<1> SUFFICES ASSUME NEW j \in TimedKeys
             PROVE  redis'[j] \in {None, Current(j)'} \/ j \in excused' \/ Owed(j)'
  BY DEF EntriesAccounted
<1>3. j \in Keys
  BY TimedKeysAre
<1>4. CASE j = k
  <2>1. CASE Del(k)
    BY <1>2, <1>4, <2>1 DEF Del
  <2>2. ASSUME NEW v, Put(k, v)
        PROVE  redis'[j] = Current(j) \/ j \in excused'
    BY <1>2, <1>4, <2>2 DEF Put
  <2> QED
    BY <1>1, <1>3, <2>1, <2>2
<1>5. CASE j # k
  <2>1. redis'[j] = redis[j] /\ (j \in excused => j \in excused')
    BY <1>2, <1>3, <1>5 DEF Del, Put
  <2> QED
    BY <1>1, <1>3, <1>5, <2>1, EntryKept
<1> QED
  BY <1>4, <1>5

\* Requests that end by a fault owe nothing more, but their entries are excused.
LEMMA LeavesAccounted ==
    ASSUME TypeOK, StageFits, EntriesAccounted, UNCHANGED <<plan, rowVars, redis>>,
           NEW S \in SUBSET Requests, Leaves(S)
    PROVE  EntriesAccounted'
<1>1. \A j \in Keys : Current(j)' = Current(j)
  BY DEF rowVars, Current, Latest, Active, Integrated, Owners, Present
<1> SUFFICES ASSUME NEW k \in TimedKeys
             PROVE  redis'[k] \in {None, Current(k)'} \/ k \in excused' \/ Owed(k)'
  BY DEF EntriesAccounted
<1>2. k \in Keys
  BY TimedKeysAre
<1>3. ASSUME Owed(k)
      PROVE  Owed(k)' \/ k \in excused'
  <2>1. PICK r \in Requests : k \in Owes(r) /\ (at[r] \in Clearing \/ k[2] \in Present)
    BY <1>3 DEF Owed
  <2>2. CASE r \in S
    <3>1. k \in Pending(r)
      BY <2>1, OwesByStage
    <3> QED
      BY <2>2, <3>1 DEF Leaves
  <2>3. CASE r \notin S
    <3>1. at'[r] = at[r]
      BY <2>3 DEF Leaves
    <3>2. k \in Owes(r)'
      BY <2>1, <3>1, OwesKept
    <3>3. Present' = Present
      BY DEF rowVars, Present
    <3> QED
      BY <2>1, <3>1, <3>2, <3>3 DEF Owed
  <2> QED
    BY <2>2, <2>3
<1>4. k \in excused => k \in excused'
  BY DEF Leaves
<1> QED
  BY <1>1, <1>2, <1>3, <1>4, EntryKept

\* A statement that writes neither rows nor entries.
LEMMA QuietAccounted ==
    ASSUME TypeOK, StageFits, EntriesAccounted, UNCHANGED <<rowVars, redis, excused>>,
           \A k \in TimedKeys : Owed(k) => Owed(k)'
    PROVE  EntriesAccounted'
<1>1. \A j \in Keys : Current(j)' = Current(j)
  BY DEF rowVars, Current, Latest, Active, Integrated, Owners, Present
<1> SUFFICES ASSUME NEW k \in TimedKeys
             PROVE  redis'[k] \in {None, Current(k)'} \/ k \in excused' \/ Owed(k)'
  BY DEF EntriesAccounted
<1> QED
  BY <1>1, EntryKept, TimedKeysAre

\* A created tenant has no entries, as no tenant that is gone has any that are
\* neither excused nor owed; nor has the integration it is created with, as it
\* was nobody's.
LEMMA InsertsTenantAccounted ==
    ASSUME TypeOK, StageFits, RowsFit, EntriesAccounted,
           NEW r \in Requests, Step(r), InsertsTenant(r), tenants' # tenants
    PROVE  EntriesAccounted'
<1>1. PICK t \in Tenants \ Present :
          /\ ~Taken(r)
          /\ Present' = Present \cup {t}
          /\ tenants'[t] = NewRow(r)
          /\ \A u \in Tenants \ {t} : tenants'[u] = tenants[u]
  BY InsertedTenant
<1>2. UNCHANGED <<plan, credentials, whatsapp, redis, excused>>
  BY DEF InsertsTenant, ghostVars
<1>3. Owes(r) = {}
  BY OwesByStage DEF InsertsTenant, Dropping, Clearing
<1>4. \A k : Owed(k) => Owed(k)'
  BY <1>1, <1>3, OwedKept
<1> SUFFICES ASSUME NEW k \in TimedKeys
             PROVE  redis'[k] \in {None, Current(k)'} \/ k \in excused' \/ Owed(k)'
  BY DEF EntriesAccounted
<1>5. ASSUME NEW i \in Integrations, k = <<"integration", i>>, i # plan[r].integration
      PROVE  Current(k)' = Current(k)
  <2>1. tenants'[t].integration # i
    BY <1>1, <1>5, NewRows
  <2>2. Owners(i)' = Owners(i)
    BY <1>1, <2>1 DEF Owners, Present
  <2> QED
    BY <1>5, <2>2, OwnersKept
<1>6. ASSUME NEW u \in Tenants, NEW name \in {"row", "masked", "raw", "config"},
             k = <<name, u>>, name # "row" \/ u # t
      PROVE  Current(k)' = Current(k)
  BY <1>1, <1>2, <1>6, CurrentKept
<1>a. CASE \E i \in Integrations : k = <<"integration", i>> /\ i = plan[r].integration
  <2>1. PICK i \in Integrations : k = <<"integration", i>> /\ i = plan[r].integration
    BY <1>a
  <2>2. Of(r) \notin Present /\ i # None
    <3>1. Of(r) = None
      BY OpAt, CallOf DEF InsertsTenant, Adding, TypeOK
    <3>2. None \notin Tenants /\ None \notin Integrations
      BY TenantDirectoryAssumption DEF Values
    <3> QED
      BY <3>1, <3>2 DEF Present
  <2>3. Owners(i) = {}
    BY <1>1, <2>1, <2>2 DEF Taken, Owners
  <2>4. Current(k) = "gone"
    BY <2>1, <2>3 DEF Current, Integrated
  <2>5. redis[k] # "gone"
    BY <2>1 DEF RowsFit
  <2>6. redis[k] \in {None, Current(k)} \/ k \in excused \/ Owed(k)
    BY DEF EntriesAccounted
  <2> QED
    BY <1>2, <1>4, <2>4, <2>5, <2>6
<1>7. CASE k = <<"row", t>>
  <2>1. Current(k) = "gone"
    BY <1>1, <1>7, CurrentOf
  <2>2. redis[k] \in Statuses \cup {None}
    BY <1>7 DEF RowsFit
  <2>3. redis[k] = Current(k) => redis[k] = None
    BY <2>1, <2>2 DEF Statuses
  <2>4. redis[k] \in {None, Current(k)} \/ k \in excused \/ Owed(k)
    BY DEF EntriesAccounted
  <2> QED
    BY <1>2, <1>4, <2>3, <2>4
<1>8. CASE /\ k # <<"row", t>>
           /\ ~\E i \in Integrations : k = <<"integration", i>> /\ i = plan[r].integration
  <2>1. Current(k)' = Current(k)
    BY <1>5, <1>6, <1>8, TimedKeysAre
  <2> QED
    BY <1>2, <1>4, <2>1, EntryKept
<1> QED
  BY <1>a, <1>7, <1>8

\* A tenant that is refused changes nothing.
LEMMA RefusedAccounted ==
    ASSUME TypeOK, StageFits, EntriesAccounted,
           NEW r \in Requests, Step(r), InsertsTenant(r), tenants' = tenants
    PROVE  EntriesAccounted'
<1>1. UNCHANGED <<rowVars, redis, excused>>
  BY DEF InsertsTenant, rowVars
<1>2. Owes(r) = {}
  BY OwesByStage DEF InsertsTenant, Dropping, Clearing
<1>3. \A k : Owed(k) => Owed(k)'
  BY <1>2, OwedKept DEF Present
<1> QED
  BY <1>1, <1>3, QuietAccounted

\* The entries of a dropped tenant are owed by the deletion or excused.
LEMMA DropsTenantAccounted ==
    ASSUME TypeOK, StageFits, RowsFit, EntriesAccounted,
           NEW r \in Requests, Step(r), DropsTenant(r)
    PROVE  EntriesAccounted'
<1> DEFINE t == Of(r)
<1>1. /\ t \in Tenants
      /\ Present' = Present \ {t}
      /\ \A u \in Tenants \ {t} : /\ tenants'[u] = tenants[u]
                                  /\ credentials'[u] = credentials[u]
                                  /\ whatsapp'[u] = whatsapp[u]
      /\ credentials'[t] = <<>> /\ whatsapp'[t] = None
  BY DroppedTenant
<1>2. plan[r].op = "delete" /\ plan' = plan /\ redis' = redis
  BY OpAt DEF DropsTenant, Dropping
<1>3. excused' = excused \cup {<<"raw", t>>} \cup AllIntegrations
  BY <1>2 DEF DropsTenant, Changes, Uncovered, Is
<1>4. \A k \in Owes(r) : k[2] = t
  BY OwesByStage
<1> SUFFICES ASSUME NEW k \in TimedKeys
             PROVE  redis'[k] \in {None, Current(k)'} \/ k \in excused' \/ Owed(k)'
  BY DEF EntriesAccounted
<1>5. ASSUME NEW i \in Integrations, k = <<"integration", i>>
      PROVE  k \in excused'
  BY <1>3, <1>5 DEF AllIntegrations
<1>6. ASSUME NEW u \in Tenants, NEW name \in {"row", "masked", "raw", "config"},
             k = <<name, u>>, u # t
      PROVE  redis'[k] \in {None, Current(k)'} \/ k \in excused' \/ Owed(k)'
  <2>1. Current(k)' = Current(k)
    BY <1>1, <1>6, CurrentKept DEF Present
  <2>2. k[2] \in Present => k[2] \in Present'
    BY <1>1, <1>6
  <2>3. k \notin Owes(r)
    BY <1>4, <1>6
  <2>4. Owed(k) => Owed(k)'
    BY <2>2, <2>3, OwedKept
  <2> QED
    BY <1>2, <1>3, <2>1, <2>4, EntryKept
<1>7. ASSUME NEW name \in {"row", "masked", "raw", "config"}, k = <<name, t>>, t \in Present
      PROVE  k \in excused' \/ Owed(k)'
  <2>1. at'[r] = "clearRow"
    BY <1>7 DEF DropsTenant, Goto, TypeOK
  <2>2. Owes(r)' = {"row", "masked", "config"} \X {t}
    BY <1>2, <2>1 DEF Owes, Of
  <2> QED
    BY <1>3, <1>7, <2>1, <2>2 DEF Owed, Clearing
<1>8. ASSUME NEW name \in {"row", "masked", "raw", "config"}, k = <<name, t>>, t \notin Present
      PROVE  redis'[k] \in {None, Current(k)'} \/ k \in excused' \/ Owed(k)'
  <2>1. credentials[t] = <<>> /\ whatsapp[t] = None
    BY <1>1, <1>8 DEF RowsFit
  <2>2. Current(k)' = Current(k)
    BY <1>1, <1>8, <2>1, CurrentKept
  <2>3. at[r] \notin Clearing
    BY DEF DropsTenant, Clearing
  <2>4. Owed(k) => Owed(k)'
    <3>1. ASSUME Owed(k)
          PROVE  Owed(k)'
      <4>1. PICK q \in Requests : k \in Owes(q) /\ at[q] \in Clearing
        BY <1>8, <3>1 DEF Owed
      <4>2. q # r
        BY <2>3, <4>1
      <4>3. at'[q] = at[q]
        BY <4>2, OthersKeep
      <4> QED
        BY <1>2, <4>1, <4>3, OwesKept DEF Owed
    <3> QED
      BY <3>1
  <2> QED
    BY <1>2, <1>3, <2>2, <2>4, EntryKept
<1> QED
  BY <1>5, <1>6, <1>7, <1>8, TimedKeysAre

\* A change of a tenant's credentials is owed or excused.
LEMMA CredentialsAccountedFor ==
    ASSUME TypeOK, StageFits, RowsFit, EntriesAccounted,
           NEW r \in Requests, Step(r), Deactivates(r) \/ InsertsCredentials(r)
    PROVE  EntriesAccounted'
<1> USE DEF rowVars, ghostVars
<1> DEFINE t == Of(r)
<1>1. /\ t \in Tenants
      /\ plan[r].op \in {"rotate", "store"}
      /\ plan' = plan
      /\ UNCHANGED <<tenants, whatsapp, redis>>
      /\ \A u \in Tenants \ {t} : credentials'[u] = credentials[u]
  BY OpAt, TenantAt DEF Deactivates, InsertsCredentials, TypeOK
<1>2. Present' = Present
  BY <1>1 DEF Present
<1>3. CASE t \in Present
  <2>1. /\ excused' = excused \cup Uncovered(r)
        /\ at'[r] \in {"insert", "denormalise", "invalidate"}
    BY <1>3 DEF Deactivates, InsertsCredentials, Changes, Goto, TypeOK
  <2>2. Owes(r)' = {IF plan[r].op = "rotate" THEN <<"masked", t>> ELSE <<"raw", t>>}
    <3>1. Owes(r)' = {Invalidated(r)'}
      BY <2>1 DEF Owes, Dropping
    <3>2. Invalidated(r)' = IF plan[r].op = "rotate" THEN <<"masked", t>> ELSE <<"raw", t>>
      BY <1>1 DEF Invalidated, Is, Of
    <3> QED
      BY <3>1, <3>2
  <2>3. \A k \in Owes(r) : k \in Owes(r)'
    <3>1. CASE Deactivates(r)
      <4>1. Owes(r) = {}
        BY <3>1, OwesByStage DEF Deactivates, Dropping, Clearing
      <4> QED
        BY <4>1
    <3>2. CASE InsertsCredentials(r)
      <4>1. Owes(r) = {IF plan[r].op = "rotate" THEN <<"masked", t>> ELSE <<"raw", t>>}
        BY <1>1, <3>2, OwesByStage DEF InsertsCredentials
      <4> QED
        BY <2>2, <4>1
    <3> QED
      BY <3>1, <3>2
  <2>4. at[r] \notin Clearing
    BY DEF Deactivates, InsertsCredentials, Clearing
  <2>5. \A k : Owed(k) => Owed(k)'
    BY <1>2, <2>3, <2>4, OwedKept
  <2>6. {<<"masked", t>>, <<"raw", t>>} \subseteq Uncovered(r) \cup Owes(r)'
    BY <1>1, <2>2 DEF Uncovered, Is
  <2>7. \A k \in {<<"masked", t>>, <<"raw", t>>} : k \in excused' \/ Owed(k)'
    BY <1>2, <1>3, <2>1, <2>6 DEF Owed
  <2> SUFFICES ASSUME NEW k \in TimedKeys
               PROVE  redis'[k] \in {None, Current(k)'} \/ k \in excused' \/ Owed(k)'
    BY DEF EntriesAccounted
  <2>8. CASE k \in {<<"masked", t>>, <<"raw", t>>}
    BY <2>7, <2>8
  <2>9. ASSUME NEW u \in Tenants, NEW name \in {"row", "masked", "raw", "config"},
               k = <<name, u>>, u # t \/ name \in {"row", "config"}
        PROVE  Current(k)' = Current(k)
    BY <1>1, <1>2, <2>9, CurrentKept
  <2>10. ASSUME NEW i \in Integrations, k = <<"integration", i>>
         PROVE  Current(k)' = Current(k)
    <3>1. Owners(i)' = Owners(i)
      BY <1>1 DEF Owners, Present
    <3> QED
      BY <2>10, <3>1, OwnersKept
  <2>11. CASE k \notin {<<"masked", t>>, <<"raw", t>>}
    <3>1. Current(k)' = Current(k)
      BY <2>9, <2>10, <2>11, TimedKeysAre
    <3> QED
      BY <1>1, <2>1, <2>5, <3>1, EntryKept
  <2> QED
    BY <2>8, <2>11
<1>4. CASE t \notin Present
  <2>1. credentials[t] = <<>>
    BY <1>1, <1>4 DEF RowsFit
  <2>2. credentials' = credentials
    <3>1. CASE Deactivates(r)
      <4>1. credentials[t] \in Seq(Credentials)
        BY <1>1 DEF TypeOK, Credentials
      <4>2. Deactivated(credentials[t]) = credentials[t]
        BY <2>1, <4>1, DeactivatedRows
      <4> QED
        BY <3>1, <4>2 DEF Deactivates, TypeOK
    <3>2. CASE InsertsCredentials(r)
      BY <1>4, <3>2 DEF InsertsCredentials
    <3> QED
      BY <3>1, <3>2
  <2>3. excused \subseteq excused'
    BY DEF Deactivates, InsertsCredentials, Changes
  <2>4. ASSUME NEW k, Owed(k)
        PROVE  Owed(k)'
    <3>1. at[r] \notin Clearing
      BY DEF Deactivates, InsertsCredentials, Clearing
    <3>2. PICK q \in Requests : k \in Owes(q) /\ (at[q] \in Clearing \/ k[2] \in Present)
      BY <2>4 DEF Owed
    <3>3. q # r
      BY <1>4, <3>1, <3>2, OwesByStage
    <3>4. at'[q] = at[q]
      BY <3>3, OthersKeep
    <3> QED
      BY <1>1, <1>2, <3>2, <3>4, OwesKept DEF Owed
  <2>5. \A k \in Keys : Current(k)' = Current(k)
    BY <1>1, <2>2 DEF Current, Latest, Active, Integrated, Owners, Present
  <2> QED
    BY <1>1, <2>3, <2>4, <2>5, EntryKept, TimedKeysAre DEF EntriesAccounted
<1> QED
  BY <1>3, <1>4

\* What rotating and updating change of a tenant's row.
LEMMA RowChangeAccounted ==
    ASSUME TypeOK, StageFits, EntriesAccounted,
           NEW r \in Requests, Step(r), Denormalises(r) \/ ChangesTenant(r)
    PROVE  EntriesAccounted'
<1> USE DEF rowVars, ghostVars
<1> DEFINE t == Of(r)
<1>1. /\ t \in Tenants
      /\ plan' = plan
      /\ UNCHANGED <<credentials, whatsapp, redis>>
      /\ plan[r].op \in {"rotate", "update", "complete"}
      /\ Denormalises(r) => plan[r].op = "rotate"
  BY OpAt, TenantAt DEF Denormalises, ChangesTenant
<1>2. /\ Present' = Present
      /\ \A u \in Present : \/ tenants'[u].status = tenants[u].status
                            \/ ChangesTenant(r) /\ u = t
  <2>1. ~InsertsTenant(r) /\ ~DropsTenant(r)
    BY DEF Denormalises, ChangesTenant, InsertsTenant, DropsTenant
  <2> QED
    BY <2>1, TenantsKept
<1>3. Invalidated(r) = <<"masked", t>> \/ Invalidated(r) = <<"row", t>>
  BY <1>1, OwesByStage DEF Denormalises, ChangesTenant
<1>4. \/ /\ UNCHANGED tenants
         /\ \A k \in Owes(r) : k \in excused'
      \/ /\ AllIntegrations \subseteq excused'
         /\ at'[r] = "invalidate"
         /\ ChangesTenant(r) => t \in Present
  <2>1. CASE Denormalises(r)
    <3>1. Owes(r) = {Invalidated(r)}
      BY <2>1, OwesByStage DEF Denormalises
    <3>2. AllIntegrations \subseteq Uncovered(r)
      BY <1>1, <2>1 DEF Uncovered, Is
    <3>3. ~ChangesTenant(r)
      BY <2>1 DEF Denormalises, ChangesTenant
    <3>4. \/ UNCHANGED tenants /\ Invalidated(r) \in excused'
          \/ Changes(r) /\ Goto(r, "invalidate")
      BY <2>1 DEF Denormalises
    <3> QED
      BY <3>1, <3>2, <3>3, <3>4 DEF Changes, Goto, TypeOK
  <2>2. CASE ChangesTenant(r)
    <3>1. Owes(r) = {}
      BY <2>2, OwesByStage DEF ChangesTenant, Dropping, Clearing
    <3>2. AllIntegrations \subseteq Uncovered(r)
      <4>1. plan[r].op \in {"update", "complete"}
        BY <2>2, OpAt DEF ChangesTenant
      <4> QED
        BY <4>1 DEF Uncovered, Is
    <3>3. \/ t \in Present /\ Changes(r) /\ Goto(r, "invalidate")
          \/ UNCHANGED tenants
      BY <2>2, ChangedRow
    <3> QED
      BY <3>1, <3>2, <3>3 DEF Changes, Goto, TypeOK
  <2> QED
    BY <2>1, <2>2
<1>5. excused \subseteq excused'
  BY DEF Denormalises, ChangesTenant, Changes
<1>6. at[r] \notin Clearing
  BY DEF Denormalises, ChangesTenant, Clearing
<1> SUFFICES ASSUME NEW k \in TimedKeys
             PROVE  redis'[k] \in {None, Current(k)'} \/ k \in excused' \/ Owed(k)'
  BY DEF EntriesAccounted
<1>7. CASE UNCHANGED tenants /\ \A j \in Owes(r) : j \in excused'
  <2>1. Current(k)' = Current(k)
    BY <1>1, <1>7 DEF Current, Latest, Active, Integrated, Owners, Present
  <2>2. Owed(k) => Owed(k)' \/ k \in excused'
    BY <1>2, <1>7, OwedKept
  <2> QED
    BY <1>1, <1>5, <2>1, <2>2, EntryKept
<1>8. CASE /\ AllIntegrations \subseteq excused'
           /\ at'[r] = "invalidate"
           /\ ChangesTenant(r) => t \in Present
  <2>1. Owes(r)' = {Invalidated(r)'}
    BY <1>8 DEF Owes, Dropping
  <2>2. Invalidated(r)' = Invalidated(r)
    BY <1>1, <1>8 DEF Invalidated, Is, Of, Denormalises, ChangesTenant
  <2>3. Owes(r) \subseteq Owes(r)'
    BY <2>1, <2>2, OwesByStage DEF Denormalises, ChangesTenant, Dropping, Clearing
  <2>4. Owed(k) => Owed(k)'
    BY <1>2, <1>6, <2>3, OwedKept
  <2>5. ASSUME NEW i \in Integrations, k = <<"integration", i>>
        PROVE  k \in excused'
    BY <1>8, <2>5 DEF AllIntegrations
  <2>6. ASSUME NEW u \in Tenants, NEW name \in {"row", "masked", "raw", "config"},
               k = <<name, u>>, k # <<"row", t>> \/ ~ChangesTenant(r)
        PROVE  Current(k)' = Current(k)
    BY <1>1, <1>2, <2>6, CurrentKept
  <2>7. ASSUME k = <<"row", t>>, ChangesTenant(r)
        PROVE  Owed(k)'
    <3>1. Invalidated(r) = <<"row", t>>
      BY <2>7, OpAt, OwesByStage DEF ChangesTenant
    <3> QED
      BY <1>2, <1>8, <2>1, <2>2, <2>7, <3>1 DEF Owed
  <2>8. k \in excused' \/ Owed(k)' \/ Current(k)' = Current(k)
    BY <2>5, <2>6, <2>7, TimedKeysAre
  <2> QED
    BY <1>1, <1>5, <2>4, <2>8, EntryKept
<1> QED
  BY <1>4, <1>7, <1>8

\* A change of a WhatsApp configuration is owed or excused.
LEMMA ConfigAccounted ==
    ASSUME TypeOK, StageFits, RowsFit, EntriesAccounted, NEW r \in Requests, Step(r),
           DropsConfig(r) \/ SavesConfig(r) \/ UpsertsConfig(r)
    PROVE  EntriesAccounted'
<1> USE DEF rowVars, ghostVars
<1> DEFINE t == Of(r)
<1>1. /\ t \in Tenants
      /\ plan' = plan
      /\ UNCHANGED <<tenants, credentials, redis>>
      /\ plan[r].op \in {"delete", "signup", "configure", "setup", "skip"}
      /\ \A u \in Tenants \ {t} : whatsapp'[u] = whatsapp[u]
      /\ excused \subseteq excused'
  BY OpAt, TenantAt DEF DropsConfig, SavesConfig, UpsertsConfig, Changes, TypeOK, Saving, Dropping
<1>2. Present' = Present
  BY <1>1 DEF Present
<1>3. at[r] \notin Clearing
  BY DEF DropsConfig, SavesConfig, UpsertsConfig, Clearing
<1>4. Owes(r) \subseteq Owes(r)'
  <2>1. CASE DropsConfig(r)
    <3>1. at'[r] = "dropCredentials"
      BY <2>1 DEF DropsConfig, Goto, TypeOK
    <3>2. Owes(r)' = {"row", "masked", "config"} \X {t}
      BY <1>1, <3>1 DEF Owes, Dropping, Of
    <3> QED
      BY <2>1, <3>2, OwesByStage DEF DropsConfig, Dropping
  <2>2. CASE SavesConfig(r) \/ UpsertsConfig(r)
    BY <2>2, OwesByStage DEF SavesConfig, UpsertsConfig, Dropping, Clearing
  <2> QED
    BY <2>1, <2>2
<1>5. \A k : Owed(k) => Owed(k)'
  BY <1>2, <1>3, <1>4, OwedKept
<1>6. t \in Present => \/ whatsapp'[t] = whatsapp[t]
                       \/ <<"config", t>> \in excused' \cup Owes(r)'
  <2>1. CASE DropsConfig(r)
    <3>1. at'[r] = "dropCredentials"
      BY <2>1 DEF DropsConfig, Goto, TypeOK
    <3>2. Owes(r)' = {"row", "masked", "config"} \X {t}
      BY <1>1, <3>1 DEF Owes, Dropping, Of
    <3> QED
      BY <3>2
  <2>2. CASE SavesConfig(r)
    <3>1. whatsapp'[t] = whatsapp[t] \/ at'[r] = "invalidate"
      BY <2>2 DEF SavesConfig, Goto, TypeOK
    <3>2. ASSUME at'[r] = "invalidate"
          PROVE  Owes(r)' = {<<"config", t>>}
      <4>1. plan[r].op \in {"signup", "configure"}
        BY <2>2, OpAt DEF SavesConfig, Saving
      <4>2. Owes(r)' = {Invalidated(r)'}
        BY <3>2 DEF Owes, Dropping
      <4>3. Invalidated(r)' = <<"config", t>>
        BY <1>1, <3>2, <4>1 DEF Invalidated, Is, Of
      <4> QED
        BY <4>2, <4>3
    <3> QED
      BY <3>1, <3>2
  <2>3. CASE UpsertsConfig(r)
    <3>1. plan[r].op \in {"setup", "skip"}
      BY <2>3, OpAt DEF UpsertsConfig
    <3>2. Uncovered(r) = {<<"config", t>>}
      BY <3>1 DEF Uncovered, Is
    <3> QED
      BY <2>3, <3>2 DEF UpsertsConfig, Changes
  <2> QED
    BY <2>1, <2>2, <2>3
<1>7. t \notin Present => whatsapp'[t] = whatsapp[t]
  BY <1>1 DEF RowsFit, DropsConfig, SavesConfig, UpsertsConfig, TypeOK
<1> SUFFICES ASSUME NEW k \in TimedKeys
             PROVE  redis'[k] \in {None, Current(k)'} \/ k \in excused' \/ Owed(k)'
  BY DEF EntriesAccounted
<1>8. CASE k = <<"config", t>> /\ whatsapp'[t] # whatsapp[t]
  BY <1>2, <1>6, <1>7, <1>8 DEF Owed
<1>9. ASSUME NEW u \in Tenants, NEW name \in {"row", "masked", "raw", "config"},
             k = <<name, u>>, k # <<"config", t>> \/ whatsapp'[t] = whatsapp[t]
      PROVE  Current(k)' = Current(k)
  BY <1>1, <1>2, <1>9, CurrentKept
<1>10. ASSUME NEW i \in Integrations, k = <<"integration", i>>
       PROVE  Current(k)' = Current(k)
  <2>1. Owners(i)' = Owners(i)
    BY <1>1 DEF Owners, Present
  <2> QED
    BY <1>10, <2>1, OwnersKept
<1>11. CASE k # <<"config", t>> \/ whatsapp'[t] = whatsapp[t]
  <2>1. Current(k)' = Current(k)
    BY <1>9, <1>10, <1>11, TimedKeysAre
  <2> QED
    BY <1>1, <1>5, <2>1, EntryKept
<1> QED
  BY <1>8, <1>11

\* Dropped credentials have one entry owed and one excused.
LEMMA DropsCredentialsAccounted ==
    ASSUME TypeOK, StageFits, RowsFit, EntriesAccounted,
           NEW r \in Requests, Step(r), DropsCredentials(r)
    PROVE  EntriesAccounted'
<1> USE DEF rowVars, ghostVars
<1> DEFINE t == Of(r)
<1>1. /\ t \in Tenants
      /\ plan' = plan
      /\ UNCHANGED <<tenants, whatsapp, redis>>
      /\ plan[r].op = "delete"
      /\ \A u \in Tenants \ {t} : credentials'[u] = credentials[u]
      /\ credentials'[t] = <<>>
      /\ at'[r] = "dropKeys"
  BY OpAt, TenantAt DEF DropsCredentials, TypeOK, Goto, Dropping
<1>2. Present' = Present
  BY <1>1 DEF Present
<1>3. excused' = excused \cup {<<"raw", t>>} \cup AllIntegrations
  BY <1>1 DEF DropsCredentials, Changes, Uncovered, Is
<1>4. Owes(r)' = {"row", "masked", "config"} \X {t}
  BY <1>1 DEF Owes, Dropping, Of
<1>5. Owes(r) = Owes(r)'
  BY <1>4, OwesByStage DEF DropsCredentials, Dropping
<1>6. at[r] \notin Clearing
  BY DEF DropsCredentials, Clearing
<1>7. \A k : Owed(k) => Owed(k)'
  BY <1>2, <1>5, <1>6, OwedKept
<1> SUFFICES ASSUME NEW k \in TimedKeys
             PROVE  redis'[k] \in {None, Current(k)'} \/ k \in excused' \/ Owed(k)'
  BY DEF EntriesAccounted
<1>8. CASE k = <<"raw", t>>
  BY <1>3, <1>8
<1>9. CASE k = <<"masked", t>>
  <2>1. CASE t \in Present
    BY <1>2, <1>4, <1>9, <2>1 DEF Owed
  <2>2. CASE t \notin Present
    <3>1. credentials[t] = <<>>
      BY <1>1, <2>2 DEF RowsFit
    <3>2. Current(k)' = Current(k)
      BY <1>1, <1>9, <3>1, CurrentKept
    <3> QED
      BY <1>1, <1>3, <1>7, <3>2, EntryKept
  <2> QED
    BY <2>1, <2>2
<1>10. ASSUME NEW i \in Integrations, k = <<"integration", i>>
       PROVE  k \in excused'
  BY <1>3, <1>10 DEF AllIntegrations
<1>11. ASSUME NEW u \in Tenants, NEW name \in {"row", "masked", "raw", "config"},
              k = <<name, u>>, k \notin {<<"raw", t>>, <<"masked", t>>}
       PROVE  Current(k)' = Current(k)
  BY <1>1, <1>2, <1>11, CurrentKept
<1>12. CASE k \notin {<<"raw", t>>, <<"masked", t>>}
  BY <1>1, <1>3, <1>7, <1>10, <1>11, <1>12, EntryKept, TimedKeysAre
<1> QED
  BY <1>8, <1>9, <1>12

\* No entry modelled holds the phone number.
LEMMA FlagsTenantAccounted ==
    ASSUME TypeOK, StageFits, EntriesAccounted,
           NEW r \in Requests, Step(r), FlagsTenant(r)
    PROVE  EntriesAccounted'
<1>1. UNCHANGED <<plan, credentials, whatsapp, redis, excused>>
  BY DEF FlagsTenant
<1>2. /\ Present' = Present
      /\ \A t \in Present : /\ tenants'[t].status = tenants[t].status
                            /\ tenants'[t].integration = tenants[t].integration
  <2>1. ~InsertsTenant(r) /\ ~DropsTenant(r) /\ ~ChangesTenant(r) /\ ~Denormalises(r)
    BY DEF FlagsTenant, InsertsTenant, DropsTenant, ChangesTenant, Denormalises
  <2> QED
    BY <2>1, TenantsKept
<1>3. Owes(r) = {}
  BY OwesByStage DEF FlagsTenant, Dropping, Clearing
<1>4. \A k : Owed(k) => Owed(k)'
  BY <1>2, <1>3, OwedKept
<1> SUFFICES ASSUME NEW k \in TimedKeys
             PROVE  redis'[k] \in {None, Current(k)'} \/ k \in excused' \/ Owed(k)'
  BY DEF EntriesAccounted
<1>5. ASSUME NEW i \in Integrations, k = <<"integration", i>>
      PROVE  Current(k)' = Current(k)
  <2>1. Owners(i)' = Owners(i)
    BY <1>2 DEF Owners
  <2> QED
    BY <1>5, <2>1, OwnersKept
<1>6. ASSUME NEW u \in Tenants, NEW name \in {"row", "masked", "raw", "config"},
             k = <<name, u>>
      PROVE  Current(k)' = Current(k)
  BY <1>1, <1>2, <1>6, CurrentKept
<1>7. Current(k)' = Current(k)
  BY <1>5, <1>6, TimedKeysAre
<1> QED
  BY <1>1, <1>4, <1>7, EntryKept

\* Statements that write an entry write it as it is, or delete what they owe.
LEMMA CachingAccounted ==
    ASSUME TypeOK, StageFits, LocalFits, EntriesAccounted, NEW r \in Requests, Step(r),
           \/ CachesNew(r) \/ NamesNew(r) \/ CachesRow(r) \/ Invalidates(r)
           \/ ClearsEntries(r) \/ FillsEntry(r)
    PROVE  EntriesAccounted'
<1> USE DEF rowVars, ghostVars
<1>1. UNCHANGED rowVars /\ plan' = plan
  BY DEF CachesNew, NamesNew, CachesRow, Invalidates, ClearsEntries, FillsEntry
<1>2. Present' = Present
  BY <1>1 DEF Present
<1>3. local[r] \in Values \cup {None} /\ "active" \in Values
  BY DEF TypeOK, Values, Statuses
<1>4. CASE CachesNew(r) \/ NamesNew(r) \/ CachesRow(r) \/ FillsEntry(r)
  <2>1. Owes(r) = {}
    BY <1>4, OwesByStage DEF CachesNew, NamesNew, CachesRow, FillsEntry, Dropping, Clearing
  <2>2. \A j : Owed(j) => Owed(j)'
    BY <1>2, <2>1, OwedKept
  <2>3. CASE CachesNew(r)
    <3>1. <<"row", local[r]>> \in Keys
      BY <2>3, KeysOf DEF CachesNew, LocalFits
    <3> QED
      BY <1>1, <1>3, <2>2, <2>3, <3>1, PutAccounted DEF CachesNew
  <2>4. CASE NamesNew(r)
    <3>1. <<"apikey", local[r]>> \in Keys
      BY <2>4, KeysOf DEF NamesNew, LocalFits
    <3> QED
      BY <1>1, <1>3, <2>2, <2>4, <3>1, PutAccounted DEF NamesNew
  <2>5. CASE CachesRow(r)
    <3>1. <<"row", Of(r)>> \in Keys
      BY <2>5, TenantAt, KeysOf DEF CachesRow
    <3> QED
      BY <1>1, <1>3, <2>2, <2>5, <3>1, PutAccounted DEF CachesRow
  <2>6. CASE FillsEntry(r)
    <3>1. KeyRead(r) \in Keys
      BY <2>6, TenantAt, TimedKeysAre DEF FillsEntry
    <3>2. CASE Put(KeyRead(r), local[r])
      BY <1>1, <1>3, <2>2, <3>1, <3>2, PutAccounted
    <3>3. CASE UNCHANGED <<redis, excused>>
      BY <1>1, <2>2, <3>3, QuietAccounted
    <3> QED
      BY <2>6, <3>2, <3>3 DEF FillsEntry
  <2> QED
    BY <1>4, <2>3, <2>4, <2>5, <2>6
<1>5. CASE Invalidates(r)
  <2>1. Invalidated(r) \in Keys
    BY <1>5, KeysOfRequest DEF Invalidates
  <2>2. Owes(r) \subseteq {Invalidated(r)}
    BY <1>5, OwesByStage DEF Invalidates, Dropping, Clearing
  <2>3. \A j \in TimedKeys \ {Invalidated(r)} : Owed(j) => Owed(j)'
    BY <1>2, <2>2, OwedKept
  <2> QED
    BY <1>1, <1>5, <2>1, <2>3, PutAccounted DEF Invalidates
<1>6. CASE ClearsEntries(r)
  <2> DEFINE t == Of(r)
  <2>1. t \in Tenants
    BY <1>6, TenantAt DEF ClearsEntries, Clearing
  <2>2. \A name \in {"row", "masked", "config"} : <<name, t>> \in Keys
    BY <2>1, KeysOf
  <2>3. PICK k \in {<<"row", t>>, <<"masked", t>>, <<"config", t>>} :
            /\ Del(k)
            /\ Owes(r) \ {k} \subseteq Owes(r)'
            /\ Owes(r) \ {k} # {} => at'[r] \in Clearing
    <3>1. CASE at[r] = "clearRow"
      <4>1. Del(<<"row", t>>) /\ at'[r] = "clearMasked"
        BY <1>6, <3>1 DEF ClearsEntries, Goto, TypeOK
      <4>2. Owes(r)' = {"masked", "config"} \X {t}
        BY <1>1, <4>1 DEF Owes, Dropping, Of
      <4>3. Owes(r) = {"row", "masked", "config"} \X {t}
        BY <3>1, OwesByStage
      <4>4. Owes(r) \ {<<"row", t>>} \subseteq Owes(r)'
        BY <4>2, <4>3
      <4> QED
        BY <4>1, <4>4 DEF Clearing
    <3>2. CASE at[r] = "clearMasked"
      <4>1. Del(<<"masked", t>>) /\ at'[r] = "clearConfig"
        BY <1>6, <3>2 DEF ClearsEntries, Goto, TypeOK
      <4>2. Owes(r)' = {<<"config", t>>}
        BY <1>1, <4>1 DEF Owes, Dropping, Of
      <4>3. Owes(r) = {"masked", "config"} \X {t}
        BY <3>2, OwesByStage
      <4>4. Owes(r) \ {<<"masked", t>>} \subseteq Owes(r)'
        BY <4>2, <4>3
      <4> QED
        BY <4>1, <4>4 DEF Clearing
    <3>3. CASE at[r] = "clearConfig"
      <4>1. Del(<<"config", t>>)
        BY <1>6, <3>3 DEF ClearsEntries
      <4>2. Owes(r) = {<<"config", t>>}
        BY <3>3, OwesByStage
      <4> QED
        BY <4>1, <4>2
    <3> QED
      BY <1>6, <3>1, <3>2, <3>3 DEF ClearsEntries
  <2>4. k \in Keys
    BY <2>2, <2>3
  <2>5. \A j \in TimedKeys \ {k} : Owed(j) => Owed(j)'
    BY <1>2, <2>3, OwedKept
  <2> QED
    BY <1>1, <2>3, <2>4, <2>5, PutAccounted
<1> QED
  BY <1>4, <1>5, <1>6

\* Statements that only read, or write what has no entry.
LEMMA ReadingAccounted ==
    ASSUME TypeOK, StageFits, EntriesAccounted, NEW r \in Requests, Step(r),
           \/ FindsTenant(r) \/ InsertsKey(r) \/ ChecksTenant(r) \/ ChecksSignup(r)
           \/ FindsConfig(r) \/ CompletesSetup(r) \/ SkipsSetup(r) \/ ReadsEntry(r)
           \/ ReadsRow(r) \/ DropsKeys(r)
    PROVE  EntriesAccounted'
<1> USE DEF rowVars, ghostVars
<1>1. UNCHANGED <<plan, tenants, credentials, whatsapp, redis, excused>>
  BY DEF FindsTenant, InsertsKey, ChecksTenant, ChecksSignup, FindsConfig,
         CompletesSetup, SkipsSetup, ReadsEntry, ReadsRow, DropsKeys
<1>2. Present' = Present
  BY <1>1 DEF Present
<1>3. Owes(r) \subseteq Owes(r)' /\ at[r] \notin Clearing
  <2>1. CASE DropsKeys(r)
    <3>1. at'[r] = "dropTenant"
      BY <2>1 DEF DropsKeys, Goto, TypeOK
    <3>2. Owes(r)' = {"row", "masked", "config"} \X {Of(r)}
      BY <1>1, <3>1 DEF Owes, Dropping, Of
    <3> QED
      BY <2>1, <3>2, OwesByStage DEF DropsKeys, Dropping, Clearing
  <2>2. CASE \/ FindsTenant(r) \/ InsertsKey(r) \/ ChecksTenant(r) \/ ChecksSignup(r)
             \/ FindsConfig(r) \/ CompletesSetup(r) \/ SkipsSetup(r) \/ ReadsEntry(r)
             \/ ReadsRow(r)
    BY <2>2, OwesByStage
       DEF FindsTenant, InsertsKey, ChecksTenant, ChecksSignup, FindsConfig,
           CompletesSetup, SkipsSetup, ReadsEntry, ReadsRow, Dropping, Clearing
  <2> QED
    BY <2>1, <2>2
<1>4. \A k : Owed(k) => Owed(k)'
  BY <1>2, <1>3, OwedKept
<1>5. \A k \in Keys : Current(k)' = Current(k)
  BY <1>1 DEF Current, Latest, Active, Integrated, Owners, Present
<1> QED
  BY <1>1, <1>4, <1>5, EntryKept, TimedKeysAre DEF EntriesAccounted

\* Every step keeps the entries accounted for.
LEMMA EntriesStep ==
    ASSUME TypeOK, StageFits, LocalFits, RowsFit, EntriesAccounted, [Next]_vars
    PROVE  EntriesAccounted'
<1> USE DEF rowVars, ghostVars
<1>1. ASSUME NEW r \in Requests, Step(r)
      PROVE  EntriesAccounted'
  BY <1>1, StepIsAction, InsertsTenantAccounted, RefusedAccounted, DropsTenantAccounted,
     CredentialsAccountedFor, RowChangeAccounted, ConfigAccounted,
     DropsCredentialsAccounted, FlagsTenantAccounted, CachingAccounted, ReadingAccounted
<1>2. ASSUME NEW r \in Requests, Fails(r)
      PROVE  EntriesAccounted'
  BY <1>2, LeavesAccounted DEF Fails
<1>3. ASSUME UNCHANGED <<plan, tenants, credentials, whatsapp, redis, excused>>,
             \A q \in Requests : \/ at'[q] = at[q]
                                 \/ at[q] \in {"cacheNew", "nameNew", "cacheRow", "fill", "get"}
      PROVE  EntriesAccounted'
  <2>1. Present' = Present
    BY <1>3 DEF Present
  <2>2. ASSUME NEW k, Owed(k)
        PROVE  Owed(k)'
    <3>1. PICK q \in Requests : k \in Owes(q) /\ (at[q] \in Clearing \/ k[2] \in Present)
      BY <2>2 DEF Owed
    <3>2. at'[q] = at[q]
      BY <1>3, <3>1, OwesByStage DEF Dropping, Clearing
    <3> QED
      BY <1>3, <2>1, <3>1, <3>2, OwesKept DEF Owed
  <2>3. \A k \in Keys : Current(k)' = Current(k)
    BY <1>3 DEF Current, Latest, Active, Integrated, Owners, Present
  <2> QED
    BY <1>3, <2>2, <2>3, EntryKept, TimedKeysAre DEF EntriesAccounted
<1>4. ASSUME NEW r \in Requests, Skips(r)
      PROVE  EntriesAccounted'
  <2>1. \A q \in Requests : \/ at'[q] = at[q]
                            \/ at[q] \in {"cacheNew", "nameNew", "cacheRow", "fill", "get"}
    BY <1>4 DEF Skips, Goto, TypeOK
  <2> QED
    BY <1>3, <1>4, <2>1 DEF Skips
<1>5. ASSUME NEW k \in Keys, Expires(k)
      PROVE  EntriesAccounted'
  <2>1. UNCHANGED <<plan, rowVars, at>> /\ Del(k)
    BY <1>5 DEF Expires
  <2>2. \A j : Owed(j) => Owed(j)'
    BY <2>1, OwesKept DEF Owed, Present
  <2> QED
    BY <2>1, <2>2, PutAccounted
<1>6. CASE CacheLost
  BY <1>3, <1>6 DEF CacheLost
<1>7. CASE Crash
  BY <1>7, LeavesAccounted DEF Crash, Running
<1>8. CASE UNCHANGED vars
  BY <1>3, <1>8 DEF vars
<1> QED
  BY <1>1, <1>2, <1>4, <1>5, <1>6, <1>7, <1>8 DEF Next

-----------------------------------------------------------------------------
(* What requests leave behind *)

\* Every step keeps the credentials accounted for: a second deactivation before
\* the first writer's insert is an overlap.
LEMMA CredentialsStep ==
    ASSUME TypeOK, StageFits, RowsFit, CredentialsAccounted, [Next]_vars
    PROVE  CredentialsAccounted'
<1> USE DEF rowVars, ghostVars
<1> DEFINE Ends(t) == \/ credentials[t] = <<>>
                      \/ Active(credentials[t]) # {}
                      \/ Inserting(t) # {}
                      \/ t \in cutShort
           Single(t) == \/ t \in overlapped
                        \/ /\ Inserting(t) # {} => Active(credentials[t]) = {}
                           /\ \A r, s \in Inserting(t) : r = s
                           /\ \A i, j \in Active(credentials[t]) : i = j
<1>0. \A t \in Tenants : Ends(t) /\ Single(t)
  BY DEF CredentialsAccounted
<1>1. ASSUME NEW t \in Tenants, UNCHANGED <<credentials[t], Inserting(t)>>,
             cutShort \subseteq cutShort', overlapped \subseteq overlapped'
      PROVE  Ends(t)' /\ Single(t)'
  BY <1>0, <1>1 DEF Active
<1>2. ASSUME NEW r \in Requests, Step(r)
      PROVE  CredentialsAccounted'
  <2>0. SUFFICES ASSUME NEW t \in Tenants
                 PROVE  Ends(t)' /\ Single(t)'
    BY DEF CredentialsAccounted
  <2>1. /\ plan' = plan /\ cutShort \subseteq cutShort'
        /\ \A q \in Requests \ {r} : at'[q] = at[q]
    BY <1>2, OthersKeep
  <2>2. \A q \in Requests \ {r} : q \in Inserting(t)' <=> q \in Inserting(t)
    BY <2>1 DEF Inserting, Of
  <2>3. overlapped \subseteq overlapped'
    BY <1>2, StepIsAction
       DEF FindsTenant, InsertsTenant, InsertsKey, CachesNew, NamesNew, ChecksTenant,
           Deactivates, InsertsCredentials, Denormalises, Invalidates, ChangesTenant,
           CachesRow, DropsConfig, DropsCredentials, DropsKeys, DropsTenant,
           ClearsEntries, ChecksSignup, FindsConfig, SavesConfig, FlagsTenant,
           CompletesSetup, SkipsSetup, UpsertsConfig, ReadsEntry, ReadsRow, FillsEntry
  <2>4. r \in Inserting(t) <=> at[r] = "insert" /\ Of(r) = t
    BY DEF Inserting
  <2>5. r \in Inserting(t)' <=> at'[r] = "insert" /\ Of(r) = t
    BY <2>1 DEF Inserting, Of
  <2>6. Inserting(t) \subseteq Requests /\ Inserting(t)' \subseteq Requests
    BY DEF Inserting
  <2>7. CASE Deactivates(r) /\ Of(r) = t
    <3>1. credentials[t] \in Seq(Credentials)
      BY DEF TypeOK, Credentials
    <3>2. Active(credentials'[t]) = {}
      BY <2>7, <3>1, DeactivatedRows DEF Deactivates, TypeOK
    <3>3. at'[r] = "insert"
      BY <2>7 DEF Deactivates, Goto, TypeOK
    <3>4. ASSUME t \notin overlapped'
          PROVE  Inserting(t)' = {r}
      <4>1. ~\E s \in Requests \ {r} : at[s] = "insert" /\ Of(s) = t
        BY <2>7, <3>4 DEF Deactivates
      <4> QED
        BY <2>2, <2>5, <2>6, <2>7, <3>3, <4>1 DEF Inserting
    <3> QED
      BY <2>5, <2>7, <3>2, <3>3, <3>4 DEF Active
  <2>8. CASE InsertsCredentials(r) /\ Of(r) = t
    <3>1. r \in Inserting(t) /\ r \notin Inserting(t)'
      BY <2>4, <2>5, <2>8 DEF InsertsCredentials, Goto, TypeOK
    <3>2. Inserting(t)' = Inserting(t) \ {r}
      BY <2>2, <2>6, <3>1
    <3>3. CASE t \in Present
      <4>1. credentials[t] \in Seq(Credentials)
        BY DEF TypeOK, Credentials
      <4>2. Active(credentials'[t]) = Active(credentials[t]) \cup {Len(credentials[t]) + 1}
        BY <2>8, <3>3, <4>1, AppendedRow DEF InsertsCredentials, TypeOK
      <4>3. Ends(t)'
        BY <4>2 DEF Active
      <4>4. Single(t)'
        BY <1>0, <2>3, <3>1, <3>2, <4>2 DEF Active
      <4> QED
        BY <4>3, <4>4
    <3>4. CASE t \notin Present
      <4>1. credentials' = credentials
        BY <2>8, <3>4 DEF InsertsCredentials
      <4>2. credentials[t] = <<>>
        BY <3>4 DEF RowsFit
      <4> QED
        BY <1>0, <2>3, <3>2, <4>1, <4>2 DEF Active
    <3> QED
      BY <3>3, <3>4
  <2>9. CASE (DropsCredentials(r) \/ DropsTenant(r)) /\ Of(r) = t
    <3>1. credentials'[t] = <<>>
      BY <2>9 DEF DropsCredentials, DropsTenant, TypeOK
    <3>2. Active(credentials'[t]) = {}
      BY <3>1 DEF Active
    <3>3. at[r] # "insert" /\ at'[r] # "insert"
      BY <2>9 DEF DropsCredentials, DropsTenant, Goto, TypeOK
    <3>4. Inserting(t)' = Inserting(t)
      BY <2>2, <2>4, <2>5, <2>6, <3>3
    <3> QED
      BY <1>0, <2>3, <3>1, <3>2, <3>4 DEF Active
  <2>10. CASE \/ /\ \/ Deactivates(r) \/ InsertsCredentials(r)
                    \/ DropsCredentials(r) \/ DropsTenant(r)
                 /\ Of(r) # t
              \/ /\ ~Deactivates(r) /\ ~InsertsCredentials(r)
                 /\ ~DropsCredentials(r) /\ ~DropsTenant(r)
    <3>1. credentials'[t] = credentials[t]
      BY <1>2, <2>10, StepIsAction
         DEF FindsTenant, InsertsTenant, InsertsKey, CachesNew, NamesNew, ChecksTenant,
             Deactivates, InsertsCredentials, Denormalises, Invalidates, ChangesTenant,
             CachesRow, DropsConfig, DropsCredentials, DropsKeys, DropsTenant,
             ClearsEntries, ChecksSignup, FindsConfig, SavesConfig, FlagsTenant,
             CompletesSetup, SkipsSetup, UpsertsConfig, ReadsEntry, ReadsRow, FillsEntry,
             TypeOK
    <3>2. \/ Of(r) # t
          \/ at[r] # "insert" /\ at'[r] # "insert"
      BY <1>2, <2>10, StepIsAction
         DEF FindsTenant, InsertsTenant, InsertsKey, CachesNew, NamesNew, ChecksTenant,
             Denormalises, Invalidates, ChangesTenant, CachesRow, DropsConfig, DropsKeys,
             ClearsEntries, ChecksSignup, FindsConfig, SavesConfig, FlagsTenant,
             CompletesSetup, SkipsSetup, UpsertsConfig, ReadsEntry, ReadsRow, FillsEntry,
             TypeOK, Goto
    <3>3. Inserting(t)' = Inserting(t)
      BY <2>2, <2>4, <2>5, <2>6, <3>2
    <3> QED
      BY <1>1, <2>1, <2>3, <3>1, <3>3
  <2> QED
    BY <2>7, <2>8, <2>9, <2>10
<1>3. ASSUME NEW S \in SUBSET Requests, Leaves(S), UNCHANGED <<plan, credentials, overlapped>>
      PROVE  CredentialsAccounted'
  <2>0. SUFFICES ASSUME NEW t \in Tenants
                 PROVE  Ends(t)' /\ Single(t)'
    BY DEF CredentialsAccounted
  <2>1. Inserting(t)' \subseteq Inserting(t)
    BY <1>3 DEF Inserting, Leaves, Of
  <2>2. Inserting(t) \subseteq Inserting(t)' \/ t \in cutShort'
    <3>1. ASSUME NEW r \in Inserting(t), r \notin Inserting(t)'
          PROVE  t \in cutShort'
      <4>1. r \in Requests /\ at[r] = "insert" /\ Of(r) = t
        BY <3>1 DEF Inserting
      <4>2. r \in S
        BY <1>3, <3>1, <4>1 DEF Inserting, Leaves, Of
      <4> QED
        BY <1>3, <4>1, <4>2 DEF Leaves, Unfinished
    <3> QED
      BY <3>1
  <2>3. cutShort \subseteq cutShort'
    BY <1>3 DEF Leaves
  <2> QED
    BY <1>0, <1>3, <2>1, <2>2, <2>3 DEF Active
<1>4. ASSUME NEW r \in Requests, Fails(r)
      PROVE  CredentialsAccounted'
  BY <1>3, <1>4 DEF Fails
<1>5. CASE Crash
  BY <1>3, <1>5 DEF Crash, Running
<1>6. ASSUME UNCHANGED <<plan, credentials, overlapped, cutShort>>,
             \A q \in Requests : at'[q] = "insert" <=> at[q] = "insert"
      PROVE  CredentialsAccounted'
  <2>1. \A t \in Tenants : Inserting(t)' = Inserting(t)
    BY <1>6 DEF Inserting, Of
  <2> QED
    BY <1>1, <1>6, <2>1 DEF CredentialsAccounted
<1>7. ASSUME NEW r \in Requests, Skips(r)
      PROVE  CredentialsAccounted'
  BY <1>6, <1>7 DEF Skips, Goto, TypeOK
<1>8. ASSUME NEW k \in Keys, Expires(k)
      PROVE  CredentialsAccounted'
  BY <1>6, <1>8 DEF Expires
<1>9. CASE CacheLost
  BY <1>6, <1>9 DEF CacheLost
<1>10. CASE UNCHANGED vars
  BY <1>6, <1>10 DEF vars
<1> QED
  BY <1>2, <1>4, <1>5, <1>7, <1>8, <1>9, <1>10 DEF Next

\* Who writes a configuration is decided by the calls.
LEMMA OutsiderKept ==
    ASSUME plan' = plan
    PROVE  \A t : Outsider(t)' = Outsider(t)
BY DEF Outsider, Of, Is

\* A configuration's row goes only with a deletion of its tenant.
LEMMA ConfigStays ==
    ASSUME TypeOK, StageFits, NEW r \in Requests, Step(r), NEW t \in Tenants, ~Outsider(t),
           whatsapp[t] # None
    PROVE  whatsapp'[t] # None
<1> USE DEF rowVars, ghostVars
<1>1. DropsConfig(r) \/ DropsTenant(r) => Of(r) # t
  BY OpAt DEF DropsConfig, DropsTenant, Dropping, Outsider, Is
<1>2. CASE DropsConfig(r) \/ DropsTenant(r)
  BY <1>1, <1>2 DEF DropsConfig, DropsTenant, TypeOK
<1>3. CASE SavesConfig(r) \/ UpsertsConfig(r)
  <2>1. r # None
    BY TenantDirectoryAssumption DEF Values
  <2> QED
    BY <1>3, <2>1 DEF SavesConfig, UpsertsConfig, TypeOK
<1>4. CASE whatsapp' = whatsapp
  BY <1>4
<1>5. \/ DropsConfig(r) \/ DropsTenant(r) \/ SavesConfig(r) \/ UpsertsConfig(r)
      \/ whatsapp' = whatsapp
  BY StepIsAction
     DEF FindsTenant, InsertsTenant, InsertsKey, CachesNew, NamesNew, ChecksTenant,
         Deactivates, InsertsCredentials, Denormalises, Invalidates, ChangesTenant,
         CachesRow, DropsCredentials, DropsKeys, ClearsEntries, ChecksSignup,
         FindsConfig, FlagsTenant, CompletesSetup, SkipsSetup, ReadsEntry, ReadsRow,
         FillsEntry
<1> QED
  BY <1>2, <1>3, <1>4, <1>5

\* Every step keeps the rows the sign-ups have found.
LEMMA SignupsStep ==
    ASSUME TypeOK, StageFits, SignupsFindRows, [Next]_vars
    PROVE  SignupsFindRows'
<1> USE DEF rowVars, ghostVars
<1> DEFINE Finds(q) == local[q] # "gone"
                       /\ (at[q] = "updateConfig" => whatsapp[Of(q)] # None)
<1>1. ASSUME NEW r \in Requests, Step(r), NEW q \in Requests,
             plan[q].op = "signup", ~Outsider(Of(q))
      PROVE  Finds(q)'
  <2>1. /\ plan' = plan
        /\ q # r => at'[q] = at[q] /\ local'[q] = local[q]
    BY <1>1, OthersKeep
  <2>2. Finds(q)
    BY <1>1 DEF SignupsFindRows, Is
  <2>3. Of(q) \in Tenants
    BY <1>1, CallOf DEF TypeOK
  <2>4. whatsapp[Of(q)] # None => whatsapp'[Of(q)] # None
    BY <1>1, <2>3, ConfigStays
  <2>5. Of(q)' = Of(q)
    BY <2>1 DEF Of
  <2>6. CASE q # r
    BY <2>1, <2>2, <2>4, <2>5, <2>6
  <2>7. CASE q = r
    <3>1. local'[r] # "gone"
      <4>1. CASE SavesConfig(r)
        BY <2>2, <2>7, <4>1 DEF SavesConfig
      <4>2. CASE ~SavesConfig(r)
        <5>1. ~InsertsTenant(r) /\ ~ChangesTenant(r) /\ ~ReadsRow(r)
          BY <1>1, <2>7, OpAt DEF InsertsTenant, ChangesTenant, ReadsRow, Adding
        <5>2. local' = local
          BY <1>1, <4>2, <5>1, StepIsAction
             DEF FindsTenant, InsertsKey, CachesNew, NamesNew, ChecksTenant,
                 Deactivates, InsertsCredentials, Denormalises, Invalidates,
                 CachesRow, DropsConfig, DropsCredentials, DropsKeys, DropsTenant,
                 ClearsEntries, ChecksSignup, FindsConfig, FlagsTenant,
                 CompletesSetup, SkipsSetup, UpsertsConfig, ReadsEntry, FillsEntry
        <5> QED
          BY <2>2, <2>7, <5>2
      <4> QED
        BY <4>1, <4>2
    <3>2. ASSUME at'[r] = "updateConfig"
          PROVE  FindsConfig(r) /\ whatsapp[Of(r)] # None
      <4>1. FindsConfig(r)
        BY <1>1, <3>2, StepIsAction
           DEF FindsTenant, InsertsTenant, InsertsKey, CachesNew, NamesNew, ChecksTenant,
               Deactivates, InsertsCredentials, Denormalises, Invalidates, ChangesTenant,
               CachesRow, DropsConfig, DropsCredentials, DropsKeys, DropsTenant,
               ClearsEntries, ChecksSignup, SavesConfig, FlagsTenant,
               CompletesSetup, SkipsSetup, UpsertsConfig, ReadsEntry, ReadsRow,
               FillsEntry, Goto, TypeOK
      <4> QED
        BY <3>2, <4>1 DEF FindsConfig, Goto, TypeOK
    <3> QED
      BY <2>4, <2>5, <2>7, <3>1, <3>2
  <2> QED
    BY <2>6, <2>7
<1>2. ASSUME UNCHANGED <<plan, whatsapp, local>>,
             \A q \in Requests : at'[q] = "updateConfig" => at[q] = "updateConfig"
      PROVE  SignupsFindRows'
  BY <1>2, OutsiderKept DEF SignupsFindRows, Is, Of
<1>3. ASSUME NEW r \in Requests, Step(r)
      PROVE  SignupsFindRows'
  <2>1. plan' = plan
    BY <1>3, OthersKeep
  <2>2. \A q \in Requests : Of(q)' = Of(q) /\ (Is(q, {"signup"})' <=> plan[q].op = "signup")
    BY <2>1 DEF Of, Is
  <2> QED
    BY <1>1, <1>3, <2>1, <2>2, OutsiderKept DEF SignupsFindRows
<1>4. ASSUME NEW r \in Requests, Fails(r)
      PROVE  SignupsFindRows'
  BY <1>2, <1>4 DEF Fails, Leaves
<1>5. ASSUME NEW r \in Requests, Skips(r)
      PROVE  SignupsFindRows'
  BY <1>2, <1>5 DEF Skips, Goto, TypeOK
<1>6. ASSUME NEW k \in Keys, Expires(k)
      PROVE  SignupsFindRows'
  BY <1>2, <1>6 DEF Expires
<1>7. CASE CacheLost
  BY <1>2, <1>7 DEF CacheLost
<1>8. CASE Crash
  BY <1>2, <1>8 DEF Crash, Leaves
<1>9. CASE UNCHANGED vars
  BY <1>2, <1>9 DEF vars
<1> QED
  BY <1>3, <1>4, <1>5, <1>6, <1>7, <1>8, <1>9 DEF Next

\* Every step keeps the phone numbers accounted for: a configuration saved while
\* another sign-up is about to flag the tenant is an overlap.
LEMMA PhonesStep ==
    ASSUME TypeOK, StageFits, SignupsFindRows, PhonesAccounted, [Next]_vars
    PROVE  PhonesAccounted'
<1> USE DEF rowVars, ghostVars
<1> DEFINE Match(t) ==
        /\ \A q \in Flagging(t) : whatsapp[t] = q
        /\ Flagging(t) = {} /\ t \in Present =>
               tenants[t].phone \in {None, whatsapp[t]} \/ Brought(t)
<1>0. \A t \in Tenants : Outsider(t) \/ t \in cutShort \cup overlapped \/ Match(t)
  BY DEF PhonesAccounted
<1>1. ASSUME NEW t \in Tenants, Match(t), UNCHANGED <<plan, whatsapp[t], Flagging(t)>>,
             t \in Present' => \/ /\ t \in Present
                                  /\ tenants'[t].phone = tenants[t].phone
                                  /\ tenants'[t].by = tenants[t].by
                               \/ tenants'[t].phone = None
                               \/ Brought(t)'
      PROVE  Match(t)'
  BY <1>1 DEF Brought
<1>2. ASSUME NEW r \in Requests, Step(r), NEW t \in Tenants,
             ~Outsider(t), t \notin cutShort' \cup overlapped'
      PROVE  Match(t)'
  <2>1. /\ plan' = plan /\ cutShort \subseteq cutShort'
        /\ \A q \in Requests \ {r} : at'[q] = at[q]
    BY <1>2, OthersKeep
  <2>2. overlapped \subseteq overlapped'
    BY <1>2, StepIsAction
       DEF FindsTenant, InsertsTenant, InsertsKey, CachesNew, NamesNew, ChecksTenant,
           Deactivates, InsertsCredentials, Denormalises, Invalidates, ChangesTenant,
           CachesRow, DropsConfig, DropsCredentials, DropsKeys, DropsTenant,
           ClearsEntries, ChecksSignup, FindsConfig, SavesConfig, FlagsTenant,
           CompletesSetup, SkipsSetup, UpsertsConfig, ReadsEntry, ReadsRow, FillsEntry
  <2>3. Match(t)
    BY <1>0, <1>2, <2>1, <2>2
  <2>4. \A q \in Requests \ {r} : q \in Flagging(t)' <=> q \in Flagging(t)
    BY <2>1 DEF Flagging, Of, Is
  <2>5. r \in Flagging(t) <=>
            Of(r) = t /\ plan[r].op = "signup" /\ at[r] \in {"invalidate", "flag"}
    BY DEF Flagging, Is
  <2>6. r \in Flagging(t)' <=>
            Of(r) = t /\ plan[r].op = "signup" /\ at'[r] \in {"invalidate", "flag"}
    BY <2>1 DEF Flagging, Is, Of
  <2>7. Flagging(t) \subseteq Requests /\ Flagging(t)' \subseteq Requests
    BY DEF Flagging
  <2>8. Of(r) = t => plan[r].op \notin {"configure", "delete", "setup", "skip"} /\ ~plan[r].phone
    BY <1>2 DEF Outsider, Is
  <2>9. CASE SavesConfig(r) /\ Of(r) = t
    <3>1. plan[r].op = "signup"
      BY <2>8, <2>9, OpAt DEF SavesConfig, Saving
    <3>2. Flagging(t) = {}
      BY <1>2, <2>9 DEF SavesConfig
    <3>3. at[r] = "updateConfig" => whatsapp[t] # None
      BY <1>2, <2>9, <3>1 DEF SignupsFindRows, Is
    <3>4. CASE at'[r] = "invalidate"
      <4>1. whatsapp'[t] = r
        BY <2>9, <3>3, <3>4 DEF SavesConfig, Goto, TypeOK
      <4>2. Flagging(t)' = {r}
        BY <2>4, <2>6, <2>7, <2>9, <3>1, <3>2, <3>4
      <4> QED
        BY <4>1, <4>2
    <3>5. CASE at'[r] # "invalidate"
      <4>1. at'[r] = "failed" /\ whatsapp' = whatsapp
        BY <2>9, <3>5 DEF SavesConfig, Goto, TypeOK
      <4>2. Flagging(t)' = Flagging(t)
        BY <2>4, <2>6, <2>7, <3>2, <4>1
      <4>3. UNCHANGED tenants
        BY <2>9 DEF SavesConfig
      <4> QED
        BY <1>1, <2>1, <2>3, <4>1, <4>2, <4>3 DEF Present
    <3> QED
      BY <3>4, <3>5
  <2>10. CASE FlagsTenant(r) /\ Of(r) = t
    <3>0. t \notin cutShort'
      BY <1>2
    <3>1. plan[r].op = "signup" /\ at[r] = "flag" /\ at'[r] = "unflag"
      BY <2>10, <3>0, OpAt DEF FlagsTenant, Goto, TypeOK
    <3>2. whatsapp[t] = r /\ Flagging(t) = {r}
      BY <2>3, <2>5, <2>7, <2>10, <3>1
    <3>3. Flagging(t)' = {}
      BY <2>4, <2>6, <2>7, <3>1, <3>2
    <3>4. t \in Present' => tenants'[t].phone = r
      <4>1. tenants' = IF t \in Present THEN [tenants EXCEPT ![t].phone = r] ELSE tenants
        BY <2>10, <3>0 DEF FlagsTenant
      <4> QED
        BY <4>1 DEF Present, TypeOK
    <3>5. whatsapp' = whatsapp
      BY <2>10 DEF FlagsTenant
    <3> QED
      BY <3>2, <3>3, <3>4, <3>5
  <2>11. CASE Invalidates(r) /\ Of(r) = t /\ plan[r].op = "signup"
    <3>1. local[r] # "gone"
      BY <1>2, <2>11 DEF SignupsFindRows, Is
    <3>2. at[r] = "invalidate" => at'[r] = "flag"
      BY <2>11, <3>1 DEF Invalidates, Goto, TypeOK, Is
    <3>3. at[r] # "invalidate" => at[r] = "unflag" /\ at'[r] = "done"
      BY <2>11, <3>1 DEF Invalidates, Goto, TypeOK, Is
    <3>4. Flagging(t)' = Flagging(t)
      BY <2>4, <2>5, <2>6, <2>7, <2>11, <3>2, <3>3
    <3>5. UNCHANGED <<tenants, whatsapp>>
      BY <2>11 DEF Invalidates
    <3> QED
      BY <1>1, <2>1, <2>3, <3>4, <3>5 DEF Present
  <2>12. CASE \/ Of(r) # t
              \/ ~SavesConfig(r) /\ ~FlagsTenant(r) /\ (~Invalidates(r) \/ plan[r].op # "signup")
    <3>1. whatsapp'[t] = whatsapp[t]
      <4>1. Of(r) = t => ~SavesConfig(r) /\ ~DropsConfig(r) /\ ~DropsTenant(r) /\ ~UpsertsConfig(r)
        BY <2>8, <2>12, OpAt DEF DropsConfig, DropsTenant, UpsertsConfig, Dropping
      <4> QED
        BY <1>2, <4>1, StepIsAction
           DEF FindsTenant, InsertsTenant, InsertsKey, CachesNew, NamesNew, ChecksTenant,
               Deactivates, InsertsCredentials, Denormalises, Invalidates, ChangesTenant,
               CachesRow, DropsConfig, DropsCredentials, DropsKeys, DropsTenant,
               ClearsEntries, ChecksSignup, FindsConfig, SavesConfig, FlagsTenant,
               CompletesSetup, SkipsSetup, UpsertsConfig, ReadsEntry, ReadsRow, FillsEntry,
               TypeOK
    <3>2. \/ Of(r) # t \/ plan[r].op # "signup"
          \/ at[r] \notin {"invalidate", "flag"} /\ at'[r] \notin {"invalidate", "flag"}
      <4>1. plan[r].op = "signup" =>
                /\ ~Deactivates(r) /\ ~InsertsCredentials(r) /\ ~Denormalises(r)
                /\ ~ChangesTenant(r)
        BY OpAt DEF Deactivates, InsertsCredentials, Denormalises, ChangesTenant
      <4> QED
        BY <1>2, <2>12, <4>1, StepIsAction
           DEF FindsTenant, InsertsTenant, InsertsKey, CachesNew, NamesNew, ChecksTenant,
               CachesRow, DropsConfig, DropsCredentials, DropsKeys, DropsTenant,
               ClearsEntries, ChecksSignup, FindsConfig,
               CompletesSetup, SkipsSetup, UpsertsConfig, ReadsEntry, ReadsRow, FillsEntry,
               Goto, TypeOK
    <3>3. Flagging(t)' = Flagging(t)
      BY <2>4, <2>5, <2>6, <2>7, <3>2
    <3>4. t \in Present' => \/ /\ t \in Present
                               /\ tenants'[t].phone = tenants[t].phone
                               /\ tenants'[t].by = tenants[t].by
                            \/ tenants'[t].phone = None
                            \/ Brought(t)'
      <4>1. CASE InsertsTenant(r) /\ tenants' # tenants
        <5>1. PICK u \in Tenants \ Present :
                  /\ Present' = Present \cup {u}
                  /\ tenants'[u] = NewRow(r)
                  /\ \A v \in Tenants \ {u} : tenants'[v] = tenants[v]
          BY <4>1, InsertedTenant
        <5>2. tenants'[u].phone = None \/ Brought(u)'
          BY <2>1, <5>1, NewRows DEF Brought
        <5> QED
          BY <5>1, <5>2
      <4>2. CASE DropsTenant(r)
        BY <4>2, DroppedTenant
      <4>3. CASE (~InsertsTenant(r) \/ tenants' = tenants) /\ ~DropsTenant(r)
        BY <1>2, <2>8, <2>12, <4>3, TenantsKept
      <4> QED
        BY <4>1, <4>2, <4>3
    <3> QED
      BY <1>1, <2>1, <2>3, <3>1, <3>3, <3>4
  <2> QED
    BY <2>9, <2>10, <2>11, <2>12
<1>3. ASSUME NEW r \in Requests, Step(r)
      PROVE  PhonesAccounted'
  <2>1. plan' = plan
    BY <1>3, OthersKeep
  <2> QED
    BY <1>2, <1>3, <2>1, OutsiderKept DEF PhonesAccounted
<1>4. ASSUME NEW S \in SUBSET Requests, Leaves(S), UNCHANGED <<plan, tenants, whatsapp, overlapped>>
      PROVE  PhonesAccounted'
  <2> SUFFICES ASSUME NEW t \in Tenants, ~Outsider(t)', t \notin (cutShort \cup overlapped)'
               PROVE  Match(t)'
    BY DEF PhonesAccounted
  <2>1. ~Outsider(t) /\ t \notin cutShort \cup overlapped
    BY <1>4, OutsiderKept DEF Leaves
  <2>2. \A q \in Flagging(t) : q \notin S
    <3>1. ASSUME NEW q \in Flagging(t), q \in S
          PROVE  FALSE
      <4>1. Of(q) = t /\ at[q] \in {"invalidate", "flag"}
        BY DEF Flagging
      <4>2. t \in cutShort'
        BY <1>4, <3>1, <4>1 DEF Leaves, Unfinished
      <4> QED
        BY <4>2
    <3> QED
      BY <3>1
  <2>3. Flagging(t)' = Flagging(t)
    BY <1>4, <2>2 DEF Flagging, Leaves, Of, Is
  <2> QED
    BY <1>0, <1>1, <1>4, <2>1, <2>3 DEF Present
<1>5. ASSUME UNCHANGED <<plan, tenants, whatsapp, overlapped, cutShort>>,
             \A q \in Requests : \/ at'[q] = at[q]
                                 \/ {at[q], at'[q]} \cap {"invalidate", "flag"} = {}
      PROVE  PhonesAccounted'
  <2> SUFFICES ASSUME NEW t \in Tenants, ~Outsider(t)', t \notin (cutShort \cup overlapped)'
               PROVE  Match(t)'
    BY DEF PhonesAccounted
  <2>1. Flagging(t)' = Flagging(t)
    BY <1>5 DEF Flagging, Of, Is
  <2> QED
    BY <1>0, <1>1, <1>5, <2>1, OutsiderKept DEF Present
<1>6. ASSUME NEW r \in Requests, Fails(r)
      PROVE  PhonesAccounted'
  BY <1>4, <1>6 DEF Fails
<1>7. ASSUME NEW r \in Requests, Skips(r)
      PROVE  PhonesAccounted'
  <2>1. \A q \in Requests : \/ at'[q] = at[q]
                            \/ {at[q], at'[q]} \cap {"invalidate", "flag"} = {}
    BY <1>7 DEF Skips, Goto, TypeOK
  <2> QED
    BY <1>5, <1>7, <2>1 DEF Skips
<1>8. ASSUME NEW k \in Keys, Expires(k)
      PROVE  PhonesAccounted'
  BY <1>5, <1>8 DEF Expires
<1>9. CASE CacheLost
  BY <1>5, <1>9 DEF CacheLost
<1>10. CASE Crash
  BY <1>4, <1>10 DEF Crash, Running
<1>11. CASE UNCHANGED vars
  BY <1>5, <1>11 DEF vars
<1> QED
  BY <1>3, <1>6, <1>7, <1>8, <1>9, <1>10, <1>11 DEF Next

\* Every step keeps the tenants accounted for: at most one of two requests that
\* create the organisation's tenant finds it.
LEMMA TenantsStep ==
    ASSUME TypeOK, StageFits, LocalFits, TenantsAccounted, [Next]_vars
    PROVE  TenantsAccounted'
<1> USE DEF rowVars, ghostVars
<1> DEFINE Inserter(r) == at[r] = "insertTenant" => known[r] = {}
           Creator(t) == tenants[t].by # None =>
                             at[tenants[t].by] # "find" /\ known[tenants[t].by] = {}
           Keyed(t) == \/ t \in cutShort
                       \/ \E r \in Requests : at[r] = "insertKey" /\ local[r] = t
                       \/ \E r \in Requests : Of(r) = t /\ Is(r, {"delete"})
<1>0. /\ \A r \in Requests : Inserter(r)
      /\ \A t \in Present : Creator(t)
      /\ \A t \in Present \ apiKeys : Keyed(t)
  BY DEF TenantsAccounted
<1>a. /\ \A t \in Present : t \in Tenants /\ tenants[t] \in Rows
      /\ \A t \in Present : tenants[t].by \in Requests \cup {None}
  BY DEF Present, TypeOK, Rows
<1>1. ASSUME NEW r \in Requests, Step(r)
      PROVE  TenantsAccounted'
  <2>1. /\ plan' = plan /\ cutShort \subseteq cutShort'
        /\ \A q \in Requests \ {r} : at'[q] = at[q] /\ local'[q] = local[q]
    BY <1>1, OthersKeep
  <2>2. /\ at'[r] # "find"
        /\ at'[r] = "insertTenant" => FindsTenant(r)
        /\ at[r] = "insertKey" => InsertsKey(r)
        /\ known' = known \/ FindsTenant(r)
    BY <1>1, StepIsAction
       DEF FindsTenant, InsertsTenant, InsertsKey, CachesNew, NamesNew, ChecksTenant,
           Deactivates, InsertsCredentials, Denormalises, Invalidates, ChangesTenant,
           CachesRow, DropsConfig, DropsCredentials, DropsKeys, DropsTenant,
           ClearsEntries, ChecksSignup, FindsConfig, SavesConfig, FlagsTenant,
           CompletesSetup, SkipsSetup, UpsertsConfig, ReadsEntry, ReadsRow, FillsEntry,
           Goto, TypeOK
  <2>3. \A q \in Requests \ {r} : known'[q] = known[q]
    BY <2>2 DEF FindsTenant, TypeOK
  <2>4. \A q \in Requests : Inserter(q)'
    <3>1. Inserter(r)'
      <4>1. ASSUME FindsTenant(r), at'[r] = "insertTenant"
            PROVE  known'[r] = {}
        BY <4>1 DEF FindsTenant, Goto, TypeOK
      <4> QED
        BY <2>2, <4>1
    <3> QED
      BY <1>0, <2>1, <2>3, <3>1
  <2>5. ASSUME NEW q \in Requests, at[q] # "find", known[q] = {}
        PROVE  at'[q] # "find" /\ known'[q] = {}
    <3>1. CASE q # r
      BY <2>1, <2>3, <2>5, <3>1
    <3>2. CASE q = r
      <4>1. ~FindsTenant(r)
        BY <2>5, <3>2 DEF FindsTenant
      <4> QED
        BY <2>2, <2>5, <3>2, <4>1
    <3> QED
      BY <3>1, <3>2
  <2>6. ASSUME NEW q \in Requests, at[q] = "insertKey", local[q] \in Tenants,
               ~InsertsKey(r) \/ q # r
        PROVE  at'[q] = "insertKey" /\ local'[q] = local[q]
    BY <2>1, <2>2, <2>6
  <2>7. ASSUME NEW t \in Present, ~InsertsKey(r) \/ local[r] # t, Keyed(t)
        PROVE  Keyed(t)'
    <3>1. CASE t \in cutShort
      BY <2>1, <3>1
    <3>2. ASSUME NEW q \in Requests, at[q] = "insertKey", local[q] = t
          PROVE  Keyed(t)'
      BY <1>a, <2>6, <2>7, <3>2
    <3>3. ASSUME NEW q \in Requests, Of(q) = t, Is(q, {"delete"})
          PROVE  Keyed(t)'
      BY <2>1, <3>3 DEF Of, Is
    <3> QED
      BY <2>7, <3>1, <3>2, <3>3
  <2>8. CASE InsertsTenant(r) /\ tenants' # tenants
    <3>1. PICK u \in Tenants \ Present :
              /\ at'[r] = "insertKey"
              /\ Present' = Present \cup {u}
              /\ tenants'[u] = NewRow(r)
              /\ \A v \in Tenants \ {u} : tenants'[v] = tenants[v]
              /\ local' = [local EXCEPT ![r] = u]
      BY <2>8, InsertedTenant
    <3>2. tenants'[u].by = r
      BY <3>1, NewRows
    <3>3. at[r] = "insertTenant" /\ at'[r] = "insertKey" /\ local'[r] = u /\ apiKeys' = apiKeys
      BY <2>8, <3>1 DEF InsertsTenant, Goto, TypeOK
    <3>4. at'[r] # "find" /\ known'[r] = {}
      BY <1>0, <2>5, <3>3
    <3>5. \A t \in Present' : Creator(t)'
      BY <1>0, <1>a, <2>5, <3>1, <3>2, <3>4
    <3>6. ~InsertsKey(r)
      BY <3>3 DEF InsertsKey
    <3>7. \A t \in Present' \ apiKeys' : Keyed(t)'
      BY <1>0, <2>7, <3>1, <3>3, <3>6
    <3> QED
      BY <2>4, <3>5, <3>7 DEF TenantsAccounted
  <2>9. CASE ~InsertsTenant(r) \/ tenants' = tenants
    <3>1. /\ Present' \subseteq Present
          /\ \A t \in Present' : tenants'[t].by = tenants[t].by
      <4>1. CASE DropsTenant(r)
        BY <1>a, <4>1, DroppedTenant
      <4>2. CASE ~DropsTenant(r)
        BY <1>1, <2>9, <4>2, TenantsKept
      <4> QED
        BY <4>1, <4>2
    <3>2. \A t \in Present' : Creator(t)'
      BY <1>0, <1>a, <2>5, <3>1
    <3>3. \A t \in Present' \ apiKeys' : Keyed(t)'
      <4> SUFFICES ASSUME NEW t \in Present', t \notin apiKeys'
                   PROVE  Keyed(t)'
        OBVIOUS
      <4>1. CASE DropsKeys(r) \/ DropsTenant(r)
        <5>1. CASE Of(r) = t
          <6>1. plan[r].op = "delete"
            BY <4>1, OpAt DEF DropsKeys, DropsTenant, Dropping
          <6> QED
            BY <2>1, <5>1, <6>1 DEF Of, Is
        <5>2. CASE Of(r) # t
          <6>1. t \notin apiKeys
            BY <4>1, <5>2 DEF DropsKeys, DropsTenant
          <6>2. ~InsertsKey(r)
            BY <4>1 DEF DropsKeys, DropsTenant, InsertsKey
          <6> QED
            BY <1>0, <2>7, <3>1, <6>1, <6>2
        <5> QED
          BY <5>1, <5>2
      <4>2. CASE InsertsKey(r)
        <5>1. t \notin apiKeys
          BY <4>2 DEF InsertsKey
        <5>2. local[r] # t
          BY <3>1, <4>2 DEF InsertsKey
        <5> QED
          BY <1>0, <2>7, <3>1, <5>1, <5>2
      <4>3. CASE ~DropsKeys(r) /\ ~DropsTenant(r) /\ ~InsertsKey(r)
        <5>1. apiKeys' = apiKeys
          BY <1>1, <4>3, StepIsAction
             DEF FindsTenant, InsertsTenant, CachesNew, NamesNew, ChecksTenant,
                 Deactivates, InsertsCredentials, Denormalises, Invalidates, ChangesTenant,
                 CachesRow, DropsConfig, DropsCredentials,
                 ClearsEntries, ChecksSignup, FindsConfig, SavesConfig, FlagsTenant,
                 CompletesSetup, SkipsSetup, UpsertsConfig, ReadsEntry, ReadsRow, FillsEntry
        <5> QED
          BY <1>0, <2>7, <3>1, <4>3, <5>1
      <4> QED
        BY <4>1, <4>2, <4>3
    <3> QED
      BY <2>4, <3>2, <3>3 DEF TenantsAccounted
  <2> QED
    BY <2>8, <2>9
<1>2. ASSUME UNCHANGED <<plan, tenants, apiKeys, known, local>>,
             cutShort \subseteq cutShort',
             \A q \in Requests : /\ at'[q] \in {"find", "insertTenant"} => at'[q] = at[q]
                                 /\ at[q] = "insertKey" => \/ at'[q] = at[q]
                                                           \/ local[q] \in cutShort'
      PROVE  TenantsAccounted'
  <2>1. Present' = Present
    BY <1>2 DEF Present
  <2>2. ASSUME NEW t \in Present, Keyed(t)
        PROVE  Keyed(t)'
    BY <1>2, <2>2 DEF Of, Is
  <2>3. \A q \in Requests : Inserter(q)'
    BY <1>0, <1>2
  <2>4. \A t \in Present : Creator(t)'
    BY <1>0, <1>a, <1>2
  <2> QED
    BY <1>0, <1>2, <2>1, <2>2, <2>3, <2>4 DEF TenantsAccounted
<1>3. ASSUME NEW S \in SUBSET Requests, Leaves(S),
             UNCHANGED <<plan, tenants, apiKeys, known, local>>
      PROVE  TenantsAccounted'
  <2>1. ASSUME NEW q \in Requests, at[q] = "insertKey", at'[q] # at[q]
        PROVE  local[q] \in cutShort'
    <3>1. q \in S /\ Unfinished(q)
      BY <1>3, <2>1 DEF Leaves, Unfinished
    <3> QED
      BY <1>3, <2>1, <3>1 DEF Leaves
  <2>2. /\ cutShort \subseteq cutShort'
        /\ \A q \in Requests : at'[q] \in {"find", "insertTenant"} => at'[q] = at[q]
    BY <1>3 DEF Leaves
  <2> QED
    BY <1>2, <1>3, <2>1, <2>2
<1>4. ASSUME NEW r \in Requests, Fails(r)
      PROVE  TenantsAccounted'
  BY <1>3, <1>4 DEF Fails
<1>5. ASSUME NEW r \in Requests, Skips(r)
      PROVE  TenantsAccounted'
  BY <1>2, <1>5 DEF Skips, Goto, TypeOK
<1>6. ASSUME NEW k \in Keys, Expires(k)
      PROVE  TenantsAccounted'
  BY <1>2, <1>6 DEF Expires
<1>7. CASE CacheLost
  BY <1>2, <1>7 DEF CacheLost
<1>8. CASE Crash
  BY <1>3, <1>8 DEF Crash, Running
<1>9. CASE UNCHANGED vars
  BY <1>2, <1>9 DEF vars
<1> QED
  BY <1>1, <1>4, <1>5, <1>6, <1>7, <1>8, <1>9 DEF Next

-----------------------------------------------------------------------------
(* The theorems *)

\* The inductive invariant.
DirectoryInv ==
    /\ TypeOK /\ StageFits /\ LocalFits /\ RowsFit /\ EntriesAccounted
    /\ CredentialsAccounted /\ PhonesAccounted /\ SignupsFindRows /\ TenantsAccounted

\* An operation begins with a statement of its own that owes nothing.
LEMMA FirstFits ==
    ASSUME NEW o \in Operations
    PROVE  /\ First(o) \in StagesOf(o) /\ First(o) \in Statements
           /\ First(o) \notin {"insertKey", "cacheNew", "nameNew", "invalidate", "cacheRow",
                               "insert", "flag", "updateConfig", "fill"}
BY DEF First, StagesOf, Operations, Statements, Adding, Saving, Dropping, Clearing

\* The invariant holds before the first request.
LEMMA InitDirectory ==
    ASSUME Init
    PROVE  DirectoryInv
<1>1. /\ plan \in Plans
      /\ \A r \in Requests : plan[r].op \in Operations
      /\ None \notin Values
  BY CallOf, TenantDirectoryAssumption DEF Init
<1> DEFINE new == [status |-> "active", integration |-> None, phone |-> None,
                   org |-> TRUE, by |-> None]
<1>2. new \in Rows /\ new # None
  <2>1. new \in Rows
    BY DEF Rows, Statuses
  <2> QED
    BY <2>1, TenantDirectoryAssumption
<1>3. /\ tenants \in [Tenants -> {None, new}]
      /\ new.phone = None /\ new.by = None
  BY DEF Init
<1>4. \A t \in Present : t \in Tenants /\ tenants[t] = new
  BY <1>3 DEF Present
<1> DEFINE old == [value |-> "first", active |-> TRUE]
<1>5. /\ old \in Credentials /\ old.active = TRUE
      /\ <<>> \in Seq(Credentials) /\ <<old>> \in Seq(Credentials)
      /\ DOMAIN <<>> = {} /\ DOMAIN <<old>> = {1} /\ <<old>>[1] = old
  <2>1. old \in Credentials
    BY DEF Credentials
  <2> QED
    BY <2>1
<1>6. \A t \in Tenants : credentials[t] = IF tenants[t] = None THEN <<>> ELSE <<old>>
  BY DEF Init
<1>7. credentials \in [Tenants -> Seq(Credentials)]
  BY <1>5 DEF Init
<1>8. \A r \in Requests : /\ at[r] = First(plan[r].op)
                          /\ at[r] \in StagesOf(plan[r].op) /\ at[r] \in Statements
                          /\ at[r] \notin {"insertKey", "cacheNew", "nameNew", "invalidate",
                                           "cacheRow", "insert", "flag", "updateConfig",
                                           "fill"}
                          /\ local[r] = None /\ known[r] = {}
  BY <1>1, FirstFits DEF Init
<1> HIDE DEF new, old
<1>9. TypeOK
  <2>1. tenants \in [Tenants -> Rows \cup {None}]
    BY <1>2, <1>3
  <2>2. /\ whatsapp \in [Tenants -> Requests \cup {None}]
        /\ apiKeys \subseteq Tenants
        /\ redis \in [Keys -> Values \cup {None}]
        /\ cacheReady \in BOOLEAN
        /\ local \in [Requests -> Values \cup {None}]
        /\ known \in [Requests -> SUBSET Tenants]
        /\ overlapped \subseteq Tenants /\ cutShort \subseteq Tenants
        /\ excused \subseteq Keys /\ faults \in Nat
    BY DEF Init
  <2>3. at \in [Requests -> Statements]
    BY <1>8 DEF Init
  <2> QED
    BY <1>1, <1>7, <2>1, <2>2, <2>3 DEF TypeOK, Credentials
<1>10. StageFits
  BY <1>8 DEF StageFits
<1>11. LocalFits
  BY <1>8 DEF LocalFits
<1>12. RowsFit
  <2>1. \A t \in Tenants \ Present : credentials[t] = <<>>
    BY <1>6 DEF Present
  <2>2. \A t \in Tenants : whatsapp[t] = None
    BY DEF Init
  <2>3. \A k \in Keys : redis[k] = None
    BY DEF Init
  <2>4. \A i \in Integrations : <<"integration", i>> \in Keys
    BY DEF Keys
  <2>5. None # "gone"
    BY TenantDirectoryAssumption DEF Values
  <2> QED
    BY <2>1, <2>2, <2>3, <2>4, <2>5, KeysOf DEF RowsFit
<1>13. EntriesAccounted
  BY TimedKeysAre DEF EntriesAccounted, Init
<1>14. CredentialsAccounted
  <2>1. \A t \in Tenants : Inserting(t) = {}
    BY <1>8 DEF Inserting
  <2>2. \A t \in Tenants : Active(credentials[t]) = IF tenants[t] = None THEN {} ELSE {1}
    BY <1>5, <1>6 DEF Active
  <2> QED
    BY <1>6, <2>1, <2>2 DEF CredentialsAccounted
<1>15. PhonesAccounted
  <2>1. \A t \in Tenants : Flagging(t) = {}
    BY <1>8 DEF Flagging
  <2> QED
    BY <1>3, <1>4, <2>1 DEF PhonesAccounted
<1>16. SignupsFindRows
  BY <1>1, <1>8 DEF SignupsFindRows, Values
<1>17. TenantsAccounted
  <2>1. Present \subseteq apiKeys
    BY DEF Init, Present
  <2> QED
    BY <1>3, <1>4, <1>8, <2>1 DEF TenantsAccounted
<1> QED
  BY <1>9, <1>10, <1>11, <1>12, <1>13, <1>14, <1>15, <1>16, <1>17 DEF DirectoryInv

\* Every step keeps the invariant.
LEMMA DirectoryStep ==
    ASSUME DirectoryInv, [Next]_vars
    PROVE  DirectoryInv'
BY TypeStep, StageStep, LocalStep, RowsStep, EntriesStep, CredentialsStep, PhonesStep,
   SignupsStep, TenantsStep DEF DirectoryInv

\* The invariant always holds.
LEMMA DirectoryInvariant == Spec => []DirectoryInv
BY InitDirectory, DirectoryStep, PTL DEF Spec

\* What is owed is pending for a request that runs.
LEMMA DirectoryStaleExcused ==
    ASSUME DirectoryInv
    PROVE  StaleIsExcused
<1> SUFFICES ASSUME NEW k \in TimedKeys, Owed(k)
             PROVE  \E r \in Running : k \in Pending(r)
  BY DEF DirectoryInv, EntriesAccounted, StaleIsExcused
<1>1. PICK r \in Requests : k \in Owes(r)
  BY DEF Owed
<1>2. k \in Pending(r) /\ at[r] \notin Ended
  BY <1>1, OwesByStage DEF DirectoryInv, Ended, Dropping, Clearing
<1> QED
  BY <1>2 DEF Running

\* With no request on the tenant, nobody is between deactivation and insert.
LEMMA DirectoryCredentials ==
    ASSUME DirectoryInv
    PROVE  CredentialsExplained
<1> SUFFICES ASSUME NEW t \in Present \ cutShort, Quiet(t), credentials[t] # <<>>
             PROVE  /\ Active(credentials[t]) # {}
                    /\ Cardinality(Active(credentials[t])) > 1 => t \in overlapped
  BY DEF CredentialsExplained
<1>1. t \in Tenants
  BY DEF Present
<1>2. Inserting(t) = {}
  BY DEF Inserting, Quiet, Running, Ended
<1>3. Active(credentials[t]) # {}
  BY <1>1, <1>2 DEF DirectoryInv, CredentialsAccounted
<1>4. ASSUME t \notin overlapped
      PROVE  Cardinality(Active(credentials[t])) = 1
  <2>1. \A i, j \in Active(credentials[t]) : i = j
    BY <1>1, <1>4 DEF DirectoryInv, CredentialsAccounted
  <2>2. PICK i : Active(credentials[t]) = {i}
    BY <1>3, <2>1
  <2> QED
    BY <2>2, FS_Singleton
<1> QED
  BY <1>3, <1>4

\* With no request on the tenant, no sign-up is about to flag it.
LEMMA DirectoryPhones ==
    ASSUME DirectoryInv
    PROVE  PhonesExplained
<1> SUFFICES ASSUME NEW t \in Present \ (cutShort \cup overlapped), Quiet(t),
                    tenants[t].phone # None, tenants[t].phone # whatsapp[t]
             PROVE  Outsider(t) \/ Brought(t)
  BY DEF PhonesExplained, Outsider, Brought
<1>1. t \in Tenants
  BY DEF Present
<1>2. Flagging(t) = {}
  BY DEF Flagging, Quiet, Running, Ended
<1> QED
  BY <1>1, <1>2 DEF DirectoryInv, PhonesAccounted

\* A tenant that is being given its key is not quiet.
LEMMA DirectoryTenants ==
    ASSUME DirectoryInv
    PROVE  TenantsExplained
<1>1. ASSUME NEW t \in Present \ apiKeys, NEW r \in Requests,
             at[r] = "insertKey", local[r] = t
      PROVE  ~Quiet(t)
  BY <1>1 DEF Quiet, Running, Ended
<1>2. \A t \in OfOrg : t \in Present
  BY DEF OfOrg
<1> QED
  BY <1>1, <1>2 DEF DirectoryInv, TenantsAccounted, TenantsExplained

\* The tables, the entries and the requests keep their types.
THEOREM DirectoryTypeCorrect == Spec => []TypeOK
<1>1. DirectoryInv => TypeOK
  BY DEF DirectoryInv
<1> QED
  BY <1>1, DirectoryInvariant, PTL

\* However requests, expiries, failures and crashes interleave, an entry of Redis
\* that is not what the database holds lost a race, outlived a writer that failed
\* or is of those no writer deletes, or its writer is about to delete it.
THEOREM StalenessIsExcused == Spec => []StaleIsExcused
BY DirectoryInvariant, DirectoryStaleExcused, PTL

\* However the statements of requests interleave and fail, no tenant is left
\* without active credentials or with two sets, with another phone number than its
\* configuration's, without a key, or beside a second tenant of its organisation,
\* unless two writers met, one ended early, another route wrote the row or the
\* request that created the tenant brought the number or did not look for the
\* organisation's.
THEOREM LeftoversAreExplained == Spec => []OnlyRacesLeaveTraces
<1>1. DirectoryInv => OnlyRacesLeaveTraces
  BY DirectoryCredentials, DirectoryPhones, DirectoryTenants DEF OnlyRacesLeaveTraces
<1> QED
  BY <1>1, DirectoryInvariant, PTL
=============================================================================
