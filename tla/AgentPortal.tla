------------------------------ MODULE AgentPortal ------------------------------
(***************************************************************************)
(* The agent portal's service: accounts of agents and their sessions, the  *)
(* blacklist of tokens, the assignees of a conversation, messages agents   *)
(* send, a tenant's onboarding and the statistics of its dashboard.        *)
(*                                                                         *)
(* A request handler is a series of statements, each one a transaction of  *)
(* PostgreSQL, a call of Redis or a call of another service, with other    *)
(* requests in between: at[r] is the statement request r executes next.    *)
(* The token a request issues is known by the request's name.              *)
(*                                                                         *)
(* The queries use columns that docker/postgres/init.sql does not create:  *)
(* is_active and updated_at of sessions, updated_at of assignments; and    *)
(* the onboarding a route the tenant service does not have, PUT of a       *)
(* tenant.  What is shipped and what is wanted are both modelled.  Left    *)
(* out: the expiry of refresh tokens (7 days), the deletion of a tenant    *)
(* under its agents, and requests that only read.                          *)
(***************************************************************************)
EXTENDS Naturals, FiniteSets, Sequences, SequencesExt

CONSTANTS
    Users,      \* users of a Genesys organisation, and the demo login's
    DemoUser,
    Tenants,    \* what the tenant service has for the organisation: more than one
                \* if two logins made it one, or it was created by hand besides
    DemoTenant,
    Requests,   \* calls of the service's routes
    Old,        \* access tokens of sessions that exist at the start
    OldOwner,   \* whose they are
    Messages,   \* ids the browser gives to messages it sends
    None,
    Zeros,      \* what the dashboard shows when the state manager does not answer
    Plans,      \* assignments of calls to requests considered
    MaxFaults   \* failing statements and crashes (bound)

Steps == 1..3
Tokens == Requests \cup Old
\* A supervisor may transfer what an admin may, and nothing more.
Roles == {"agent", "admin"}

Operations == {"login", "demo", "refresh", "logout", "logoutAll", "sync",
               "assign", "transfer", "send", "step", "complete",
               "stats", "refreshStats"}

Calls == [op : Operations, user : Users,
          arg : Tokens \cup Users \cup Messages \cup Steps \cup {None}]

\* A request names what its route takes, and the token it carries is of its user.
WellFormed(p, r) ==
    LET call == p[r] IN
    /\ call.op \in {"refresh", "logout"} =>
           \/ call.arg \in Old /\ OldOwner[call.arg] = call.user
           \/ call.arg \in Requests /\ p[call.arg].user = call.user
    /\ call.op = "login" => call.user # DemoUser
    /\ call.op = "demo" => call.user = DemoUser
    /\ call.op = "transfer" => call.arg \in Users
    /\ call.op = "send" => call.arg \in Messages
    /\ call.op = "step" => call.arg \in Steps

ASSUME AgentPortalAssumption ==
    /\ Plans \subseteq [Requests -> Calls]
    /\ \A p \in Plans, r \in Requests : WellFormed(p, r)
    /\ OldOwner \in [Old -> Users \ {DemoUser}]
    /\ None \notin Tenants \cup {DemoTenant}
    /\ Requests \cap Old = {}
    /\ IsFiniteSet(Requests)
    /\ MaxFaults \in Nat
    /\ None \notin Roles \cup {"active", "inactive", "queued", "sent"}
    /\ None \notin {0, 1, Zeros}
    /\ \A state \in SUBSET Steps : state # None
    /\ Zeros \notin {0, 1}

VARIABLES
    plan,         \* the call each request makes
    migrated,     \* whether tables and tenant service have what the handlers use
    roles,        \* genesys_users: the role of each user, None without a row,
    home,         \* and its tenant
    genesysRole,  \* the role the users have in Genesys
    sessions,     \* genesys_user_sessions: by access token
    issued,       \* access tokens, each with a refresh token
    expired,      \* access tokens past their hour
    blacklist,    \* access tokens in Redis
    assignments,  \* rows of a conversation in the order of assigned_at
    tracked,      \* the state manager's status of each message
    posted,       \* how often Genesys was sent each message
    onboarding,   \* completed steps in Redis, None without an entry
    onboarded,    \* whether the tenant service has the tenant as active
    stats,        \* the dashboard's entry in Redis: Zeros or counts, or None
    activity,     \* the state manager's counts, which grow
    at,           \* the next statement of each request
    subject,      \* the user a sync is at
    todo,         \* the users it has left
    fetched,      \* the roles it got from Genesys
    given,        \* the tenant the tenant service named to a login
    listed,       \* the sessions a logout of all devices found
    loaded,       \* the onboarding state a request read
    counted,      \* the statistics it got
    late,         \* ghost: tokens of sessions made between listing and invalidating
    before,       \* ghost: syncs that had ended when a sync fetched its users
    uninvited,    \* ghost: somebody took or gave away what another one had
    saved,        \* ghost: steps whose saving took place
    lost,         \* ghost: steps overwritten with a state read before them
    refreshed,    \* ghost: the activity at the last refresh of the dashboard
    overtaken,    \* ghost: requests that had their statistics when it was refreshed
    faults

accountVars == <<roles, home, genesysRole, sessions, issued, expired, blacklist>>
messageVars == <<tracked, posted>>
onboardingVars == <<onboarding, onboarded>>
syncVars == <<subject, todo, fetched, before>>
stepVars == <<loaded, saved, lost>>
sessionVars == <<listed, late, given>>
givenVars == <<plan, migrated>>
dashboardVars == <<stats, activity, counted, refreshed, overtaken>>
otherVars == <<givenVars, dashboardVars>>
vars == <<otherVars, accountVars, assignments, uninvited, messageVars, onboardingVars,
          at, syncVars, stepVars, sessionVars, faults>>

Ended == {"done", "failed"}

Statements ==
    Ended \cup
    {"exchange", "provision", "demo", "find", "insertUser", "insertSession", "refresh",
     "auth", "blacklist", "invalidate", "list", "blacklistAll", "invalidateAll",
     "fetch", "findUser", "findAgain", "createUser", "updateUser",
     "assign", "checkTarget", "transfer",
     "resolve", "track", "post", "mark",
     "validate", "load", "save", "check", "profile", "activate", "reset",
     "getStats", "summary", "setStats", "delStats"}

Counts == {0, 1}

TypeOK ==
    /\ plan \in Plans
    /\ migrated \in BOOLEAN
    /\ roles \in [Users -> Roles \cup {None}]
    /\ home \in [Users -> Tenants \cup {DemoTenant, None}]
    /\ genesysRole \in Roles
    /\ sessions \in [Tokens -> {None, "active", "inactive"}]
    /\ issued \subseteq Tokens
    /\ expired \subseteq Tokens
    /\ blacklist \subseteq Tokens
    /\ assignments \in Seq([user : Users, status : {"active", "transferred"}])
    /\ tracked \in [Messages -> {None, "queued", "sent"}]
    /\ posted \in [Messages -> Nat]
    /\ onboarding \in {None} \cup SUBSET Steps
    /\ onboarded \in BOOLEAN
    /\ at \in [Requests -> Statements]
    /\ subject \in [Requests -> Users \cup {None}]
    /\ todo \in [Requests -> SUBSET Users]
    /\ fetched \in [Requests -> Roles]
    /\ given \in [Requests -> Tenants \cup {None}]
    /\ listed \in [Requests -> SUBSET Tokens]
    /\ loaded \in [Requests -> {None} \cup SUBSET Steps]
    /\ stats \in {None, Zeros} \cup Counts
    /\ activity \in Counts
    /\ counted \in [Requests -> {None, Zeros} \cup Counts]
    /\ refreshed \in Counts
    /\ overtaken \subseteq Requests
    /\ late \subseteq Tokens
    /\ before \in [Requests -> SUBSET Requests]
    /\ uninvited \in BOOLEAN
    /\ saved \subseteq Steps
    /\ lost \subseteq Steps
    /\ faults \in Nat

\* Of the onboarding only step 1 has something to try out before it is saved.
First(call) ==
    CASE call.op = "login" -> "exchange"
      [] call.op = "demo" -> "demo"
      [] call.op = "refresh" -> "refresh"
      [] call.op = "step" -> IF call.arg = 1 THEN "validate" ELSE "load"
      [] call.op = "complete" -> "check"
      [] OTHER -> "auth"

\* Who has an old session has an account; steps that no request is about are
\* left out (bound).
Init ==
    /\ plan \in Plans
    /\ migrated \in BOOLEAN
    /\ roles = [u \in Users |-> IF \E t \in Old : OldOwner[t] = u THEN "admin"
                                                                  ELSE None]
    /\ \E tenant \in Tenants :
           home = [u \in Users |-> IF roles[u] = None THEN None ELSE tenant]
    /\ genesysRole = "agent"
    /\ sessions = [t \in Tokens |-> IF t \in Old THEN "active" ELSE None]
    /\ issued = Old
    /\ expired = {}
    /\ blacklist = {}
    /\ assignments = <<>>
    /\ tracked = [m \in Messages |-> None]
    /\ posted = [m \in Messages |-> 0]
    /\ onboarding \in IF \E r \in Requests : plan[r].op \in {"step", "complete"}
                        THEN {None, {1, 2}} ELSE {None}
    /\ onboarded = FALSE
    /\ stats = None
    /\ activity = 0
    /\ counted = [r \in Requests |-> None]
    /\ refreshed = 0
    /\ overtaken = {}
    /\ at = [r \in Requests |-> First(plan[r])]
    /\ subject = [r \in Requests |-> None]
    /\ todo = [r \in Requests |-> {}]
    /\ fetched = [r \in Requests |-> "agent"]
    /\ given = [r \in Requests |-> None]
    /\ listed = [r \in Requests |-> {}]
    /\ loaded = [r \in Requests |-> None]
    /\ late = {}
    /\ before = [r \in Requests |-> {}]
    /\ uninvited = FALSE
    /\ saved = IF onboarding = None THEN {} ELSE onboarding
    /\ lost = {}
    /\ faults = 0

-----------------------------------------------------------------------------
(* Helpers *)

Is(r, op) == plan[r].op = op
Enters(r) == plan[r].op \in {"login", "demo"}
User(r) == plan[r].user
Arg(r) == plan[r].arg

Goto(r, statement) == at' = [at EXCEPT ![r] = statement]

Running == {r \in Requests : at[r] \notin Ended}

Owner(t) == IF t \in Old THEN OldOwner[t] ELSE User(t)

Active(u) == {t \in Tokens : sessions[t] = "active" /\ Owner(t) = u}

\* authenticate and the route's requireRole: the token is decoded only, so all
\* that matters is the row of its user, who is an admin if the handler wants
\* one.  A client has only tokens that were issued.
Authenticates(r) ==
    LET next == CASE Is(r, "logout") -> "blacklist"
                  [] Is(r, "logoutAll") -> "list"
                  [] Is(r, "sync") -> "fetch"
                  [] Is(r, "assign") -> "assign"
                  [] Is(r, "transfer") -> "checkTarget"
                  [] Is(r, "stats") -> "getStats"
                  [] Is(r, "refreshStats") -> "delStats"
                  [] OTHER -> "resolve"
        allowed == Is(r, "sync") \/ Is(r, "transfer") => roles[User(r)] = "admin"
    IN
    /\ at[r] = "auth"
    /\ Is(r, "logout") => Arg(r) \in issued
    /\ Goto(r, IF roles[User(r)] # None /\ allowed THEN next ELSE "failed")
    /\ UNCHANGED <<otherVars, accountVars, assignments, uninvited, messageVars,
                   onboardingVars, syncVars, stepVars, sessionVars, faults>>

-----------------------------------------------------------------------------
(* Logging in, refreshing and logging out *)

\* handleCallback asks Genesys for a token, the user and the organisation,
ExchangesCode(r) ==
    /\ at[r] = "exchange"
    /\ Goto(r, "provision")
    /\ UNCHANGED <<otherVars, accountVars, assignments, uninvited, messageVars,
                   onboardingVars, syncVars, stepVars, sessionVars, faults>>

\* and the tenant service for the organisation's tenant: any it has.
Provisions(r) ==
    /\ at[r] = "provision"
    /\ \E t \in Tenants : given' = [given EXCEPT ![r] = t]
    /\ Goto(r, "find")
    /\ UNCHANGED <<otherVars, accountVars, assignments, uninvited, messageVars,
                   onboardingVars, syncVars, stepVars, listed, late, faults>>

TenantOf(r) == IF Is(r, "demo") THEN DemoTenant ELSE given[r]

\* findOrCreateFromGenesys: a user of another tenant is refused.
FindsUser(r) ==
    /\ at[r] \in {"find", "demo"}
    /\ Goto(r, IF roles[User(r)] = None THEN "insertUser"
               ELSE IF home[User(r)] = TenantOf(r) THEN "insertSession" ELSE "failed")
    /\ UNCHANGED <<otherVars, accountVars, assignments, uninvited, messageVars,
                   onboardingVars, syncVars, stepVars, sessionVars, faults>>

\* The Genesys user is unique, and its tenant has to exist: the demo's is in a
\* seed that the compose files do not run.  What /users/me returns has no
\* authorizations, so the inferred role is agent.
InsertsUser(r) ==
    /\ at[r] = "insertUser"
    /\ IF roles[User(r)] = None /\ (Is(r, "demo") => migrated)
         THEN /\ roles' = [roles EXCEPT ![User(r)] = "agent"]
              /\ home' = [home EXCEPT ![User(r)] = TenantOf(r)]
              /\ Goto(r, "insertSession")
         ELSE Goto(r, "failed") /\ UNCHANGED <<roles, home>>
    /\ UNCHANGED <<otherVars, genesysRole, sessions, issued, expired, blacklist,
                   assignments, uninvited, messageVars, onboardingVars, syncVars,
                   stepVars, sessionVars, faults>>

\* Both tokens are signed and the session is stored.
InsertsSession(r) ==
    /\ at[r] = "insertSession"
    /\ issued' = issued \cup {r}
    /\ sessions' = [sessions EXCEPT ![r] = "active"]
    /\ late' = IF \E s \in Requests : /\ at[s] \in {"blacklistAll", "invalidateAll"}
                                      /\ User(s) = User(r)
                 THEN late \cup {r} ELSE late
    /\ Goto(r, "done")
    /\ UNCHANGED <<otherVars, roles, home, genesysRole, expired, blacklist, assignments,
                   uninvited, messageVars, onboardingVars, syncVars, stepVars,
                   listed, given, faults>>

\* refreshToken verifies the refresh token and nothing else; the new pair of
\* tokens has no session.
Refreshes(r) ==
    /\ at[r] = "refresh"
    /\ Arg(r) \in issued
    /\ issued' = issued \cup {r}
    /\ Goto(r, "done")
    /\ UNCHANGED <<otherVars, roles, home, genesysRole, sessions, expired, blacklist,
                   assignments, uninvited, messageVars, onboardingVars, syncVars,
                   stepVars, sessionVars, faults>>

\* An expired token would be stored for zero seconds, which Redis refuses; the
\* handler answers that all went well.
Blacklists(r) ==
    /\ at[r] = "blacklist"
    /\ IF Arg(r) \in expired
         THEN Goto(r, "done") /\ UNCHANGED blacklist
         ELSE Goto(r, "invalidate") /\ blacklist' = blacklist \cup {Arg(r)}
    /\ UNCHANGED <<otherVars, roles, home, genesysRole, sessions, issued, expired,
                   assignments, uninvited, messageVars, onboardingVars, syncVars,
                   stepVars, sessionVars, faults>>

\* invalidateSession; without the column the error is swallowed.
Invalidates(r) ==
    /\ at[r] = "invalidate"
    /\ sessions' = IF migrated /\ Arg(r) \in Active(User(r))
                     THEN [sessions EXCEPT ![Arg(r)] = "inactive"] ELSE sessions
    /\ Goto(r, "done")
    /\ UNCHANGED <<otherVars, roles, home, genesysRole, issued, expired, blacklist,
                   assignments, uninvited, messageVars, onboardingVars, syncVars,
                   stepVars, sessionVars, faults>>

\* getActiveSessions
Lists(r) ==
    /\ at[r] = "list"
    /\ IF ~migrated
         THEN Goto(r, "failed") /\ UNCHANGED listed
         ELSE /\ listed' = [listed EXCEPT ![r] = Active(User(r))]
              /\ Goto(r, IF Active(User(r)) = {} THEN "invalidateAll" ELSE "blacklistAll")
    /\ UNCHANGED <<otherVars, accountVars, assignments, uninvited, messageVars,
                   onboardingVars, syncVars, stepVars, late, given, faults>>

\* Mutant: only the newest session's token is blacklisted.
BlacklistsOne(r) ==
    /\ at[r] = "blacklistAll"
    /\ \E t \in listed[r] : blacklist' = blacklist \cup ({t} \ expired)
    /\ Goto(r, "invalidateAll")
    /\ UNCHANGED <<otherVars, roles, home, genesysRole, sessions, issued, expired,
                   assignments, uninvited, messageVars, onboardingVars, syncVars,
                   stepVars, sessionVars, faults>>

\* addTokens, in one MULTI.  Redis refuses the entries of expired tokens and
\* executes the others; whether exec throws for it depends on the client's version.
BlacklistsAll(r) ==
    /\ at[r] = "blacklistAll"
    /\ blacklist' = blacklist \cup (listed[r] \ expired)
    /\ \/ Goto(r, "invalidateAll")
       \/ listed[r] \cap expired # {} /\ Goto(r, "failed")
    /\ UNCHANGED <<otherVars, roles, home, genesysRole, sessions, issued, expired,
                   assignments, uninvited, messageVars, onboardingVars, syncVars,
                   stepVars, sessionVars, faults>>

\* invalidateAllSessions: all that are active now.
InvalidatesAll(r) ==
    /\ at[r] = "invalidateAll"
    /\ sessions' = [t \in Tokens |-> IF t \in Active(User(r)) THEN "inactive"
                                                              ELSE sessions[t]]
    /\ Goto(r, "done")
    /\ UNCHANGED <<otherVars, roles, home, genesysRole, issued, expired, blacklist,
                   assignments, uninvited, messageVars, onboardingVars, syncVars,
                   stepVars, sessionVars, faults>>

\* An access token expires after an hour, and its entry in the blacklist with it.
Expires(t) ==
    /\ t \in issued \ expired
    /\ expired' = expired \cup {t}
    /\ blacklist' = blacklist \ {t}
    /\ UNCHANGED <<otherVars, roles, home, genesysRole, sessions, issued, assignments,
                   uninvited, messageVars, onboardingVars, at, syncVars, stepVars,
                   sessionVars, faults>>

-----------------------------------------------------------------------------
(* Synchronising users *)

\* All pages, from the Genesys API service.
FetchesUsers(r) ==
    /\ at[r] = "fetch"
    /\ fetched' = [fetched EXCEPT ![r] = genesysRole]
    /\ todo' = [todo EXCEPT ![r] = Users \ {DemoUser}]
    /\ before' = [before EXCEPT ![r] = {s \in Requests : at[s] \in Ended}]
    /\ Goto(r, "findUser")
    /\ UNCHANGED <<otherVars, accountVars, assignments, uninvited, messageVars,
                   onboardingVars, subject, stepVars, sessionVars, faults>>

\* The loop's lookup of the next user, and createFromGenesys' own of the same.
FindsNext(r) ==
    /\ \/ /\ at[r] = "findUser" /\ todo[r] # {}
          /\ \E u \in todo[r] :
                 /\ subject' = [subject EXCEPT ![r] = u]
                 /\ todo' = [todo EXCEPT ![r] = @ \ {u}]
                 /\ Goto(r, IF roles[u] = None THEN "findAgain" ELSE "updateUser")
       \/ /\ at[r] = "findUser" /\ todo[r] = {}
          /\ Goto(r, "done")
          /\ UNCHANGED <<subject, todo>>
       \/ /\ at[r] = "findAgain"
          /\ Goto(r, IF roles[subject[r]] = None THEN "createUser" ELSE "updateUser")
          /\ UNCHANGED <<subject, todo>>
    /\ UNCHANGED <<otherVars, accountVars, assignments, uninvited, messageVars,
                   onboardingVars, fetched, before, stepVars, sessionVars, faults>>

\* The tenant of a user a sync stores: the admin's if the user is new.
Homes(r) ==
    IF home[subject[r]] = None THEN [home EXCEPT ![subject[r]] = home[User(r)]] ELSE home

\* Mutant: a user who exists is left alone.
StoresNewUser(r) ==
    /\ at[r] \in {"createUser", "updateUser"}
    /\ roles' = IF at[r] = "createUser" THEN [roles EXCEPT ![subject[r]] = fetched[r]]
                                        ELSE roles
    /\ home' = Homes(r)
    /\ Goto(r, "findUser")
    /\ UNCHANGED <<otherVars, genesysRole, sessions, issued, expired, blacklist,
                   assignments, uninvited, messageVars, onboardingVars, syncVars,
                   stepVars, sessionVars, faults>>

\* createFromGenesys and updateFromGenesys.  An insert that meets the user's
\* row fails, and the user is skipped.
StoresUser(r) ==
    /\ at[r] \in {"createUser", "updateUser"}
    /\ roles' = IF at[r] = "createUser" /\ roles[subject[r]] # None THEN roles
                ELSE [roles EXCEPT ![subject[r]] = fetched[r]]
    /\ home' = Homes(r)
    /\ Goto(r, "findUser")
    /\ UNCHANGED <<otherVars, genesysRole, sessions, issued, expired, blacklist,
                   assignments, uninvited, messageVars, onboardingVars, syncVars,
                   stepVars, sessionVars, faults>>

\* An administrator of Genesys makes the users administrators too.
Promotes ==
    /\ genesysRole = "agent"
    /\ \E r \in Requests : Is(r, "sync")
    /\ genesysRole' = "admin"
    /\ UNCHANGED <<otherVars, roles, home, sessions, issued, expired, blacklist, assignments,
                   uninvited, messageVars, onboardingVars, at, syncVars, stepVars,
                   sessionVars, faults>>

-----------------------------------------------------------------------------
(* Who has a conversation *)

Assignees == {assignments[i].user : i \in {j \in DOMAIN assignments :
                                              assignments[j].status = "active"}}

\* Rows of user u get a status.
Marked(rows, u, status) ==
    [i \in DOMAIN rows |-> IF rows[i].user = u THEN [rows[i] EXCEPT !.status = status]
                                               ELSE rows[i]]

HasRow(u) == \E i \in DOMAIN assignments : assignments[i].user = u

\* assign: an upsert by conversation and user, whoever else has it.
Assigns(r) ==
    /\ at[r] = "assign"
    /\ assignments' = IF HasRow(User(r)) THEN Marked(assignments, User(r), "active")
                      ELSE Append(assignments, [user |-> User(r), status |-> "active"])
    /\ uninvited' = (uninvited \/ Assignees \ {User(r)} # {})
    /\ Goto(r, "done")
    /\ UNCHANGED <<otherVars, accountVars, messageVars, onboardingVars, syncVars,
                   stepVars, sessionVars, faults>>

\* The target has to be of the caller's tenant.
ChecksTarget(r) ==
    /\ at[r] = "checkTarget"
    /\ Goto(r, IF roles[Arg(r)] # None /\ home[Arg(r)] = home[User(r)] THEN "transfer"
                                                                     ELSE "failed")
    /\ UNCHANGED <<otherVars, accountVars, assignments, uninvited, messageVars,
                   onboardingVars, syncVars, stepVars, sessionVars, faults>>

\* Mutant: the transaction is not rolled back.
TransfersUnrolled(r) ==
    /\ at[r] = "transfer"
    /\ LET closed == Marked(assignments, User(r), "transferred") IN
       assignments' = IF HasRow(Arg(r)) THEN closed
                      ELSE Append(closed, [user |-> Arg(r), status |-> "active"])
    /\ uninvited' = (uninvited \/ Assignees \ {User(r)} # {})
    /\ Goto(r, "done")
    /\ UNCHANGED <<otherVars, accountVars, messageVars, onboardingVars, syncVars,
                   stepVars, sessionVars, faults>>

\* transfer, a transaction: the caller's row is closed and one of the target
\* inserted, which fails if the target ever had one.
Transfers(r) ==
    /\ at[r] = "transfer"
    /\ IF ~migrated \/ HasRow(Arg(r))
         THEN Goto(r, "failed") /\ UNCHANGED <<assignments, uninvited>>
         ELSE /\ assignments' = Append(Marked(assignments, User(r), "transferred"),
                                       [user |-> Arg(r), status |-> "active"])
              /\ uninvited' = (uninvited \/ Assignees \ {User(r)} # {})
              /\ Goto(r, "done")
    /\ UNCHANGED <<otherVars, accountVars, messageVars, onboardingVars, syncVars,
                   stepVars, sessionVars, faults>>

-----------------------------------------------------------------------------
(* Sending a message *)

\* The mapping of the conversation, which may not be known; then the message as
\* queued: the state manager keeps what it has under the id.
Tracks(r) ==
    /\ \/ /\ at[r] = "resolve"
          /\ \/ Goto(r, "track")
             \/ Goto(r, "failed")
          /\ UNCHANGED tracked
       \/ /\ at[r] = "track"
          /\ tracked' = IF tracked[Arg(r)] = None
                          THEN [tracked EXCEPT ![Arg(r)] = "queued"] ELSE tracked
          /\ Goto(r, "post")
    /\ UNCHANGED <<otherVars, accountVars, assignments, uninvited, posted,
                   onboardingVars, syncVars, stepVars, sessionVars, faults>>

\* The token, the region and the POST to Genesys.
Posts(r) ==
    /\ at[r] = "post"
    /\ posted' = [posted EXCEPT ![Arg(r)] = @ + 1]
    /\ Goto(r, "mark")
    /\ UNCHANGED <<otherVars, accountVars, assignments, uninvited, tracked,
                   onboardingVars, syncVars, stepVars, sessionVars, faults>>

\* Mutant: the status is set before the POST.
MarksFirst(r) ==
    /\ at[r] \in {"post", "mark"}
    /\ tracked' = [tracked EXCEPT ![Arg(r)] = "sent"]
    /\ Goto(r, IF at[r] = "post" THEN "mark" ELSE "done")
    /\ UNCHANGED <<otherVars, accountVars, assignments, uninvited, posted,
                   onboardingVars, syncVars, stepVars, sessionVars, faults>>

MarksSent(r) ==
    /\ at[r] = "mark"
    /\ tracked' = [tracked EXCEPT ![Arg(r)] = "sent"]
    /\ Goto(r, "done")
    /\ UNCHANGED <<otherVars, accountVars, assignments, uninvited, posted,
                   onboardingVars, syncVars, stepVars, sessionVars, faults>>

-----------------------------------------------------------------------------
(* Onboarding *)

Progress(state) == IF state = None THEN {} ELSE state

\* submitStep tries out the credentials of step 1 at Genesys.
TriesCredentials(r) ==
    /\ at[r] = "validate"
    /\ Goto(r, "load")
    /\ UNCHANGED <<otherVars, accountVars, assignments, uninvited, messageVars,
                   onboardingVars, syncVars, stepVars, sessionVars, faults>>

LoadsState(r) ==
    /\ at[r] = "load"
    /\ loaded' = [loaded EXCEPT ![r] = onboarding]
    /\ Goto(r, "save")
    /\ UNCHANGED <<otherVars, accountVars, assignments, uninvited, messageVars,
                   onboardingVars, syncVars, saved, lost, sessionVars, faults>>

\* Mutant: the state is started anew.
SavesStepAlone(r) ==
    /\ at[r] = "save"
    /\ onboarding' = {Arg(r)}
    /\ saved' = saved \cup {Arg(r)}
    /\ Goto(r, "done")
    /\ UNCHANGED <<otherVars, accountVars, assignments, uninvited, messageVars,
                   onboarded, syncVars, loaded, lost, sessionVars, faults>>

\* updateStep writes the state it read with its step added.
SavesStep(r) ==
    /\ at[r] = "save"
    /\ onboarding' = Progress(loaded[r]) \cup {Arg(r)}
    /\ saved' = saved \cup {Arg(r)}
    /\ lost' = lost \cup (Progress(onboarding) \ Progress(loaded[r]))
    /\ Goto(r, "done")
    /\ UNCHANGED <<otherVars, accountVars, assignments, uninvited, messageVars,
                   onboarded, syncVars, loaded, sessionVars, faults>>

\* completeOnboarding wants every step on record.
ChecksSteps(r) ==
    /\ at[r] = "check"
    /\ Goto(r, IF Progress(onboarding) = Steps THEN "profile" ELSE "failed")
    /\ UNCHANGED <<otherVars, accountVars, assignments, uninvited, messageVars,
                   onboardingVars, syncVars, stepVars, sessionVars, faults>>

\* The tenant service is told of the profile, by a route that it lacks as shipped.
SavesProfile(r) ==
    /\ at[r] = "profile"
    /\ Goto(r, IF migrated THEN "activate" ELSE "failed")
    /\ UNCHANGED <<otherVars, accountVars, assignments, uninvited, messageVars,
                   onboardingVars, syncVars, stepVars, sessionVars, faults>>

\* It is told that the tenant is active,
Activates(r) ==
    /\ at[r] = "activate"
    /\ onboarded' = TRUE
    /\ Goto(r, "reset")
    /\ UNCHANGED <<otherVars, accountVars, assignments, uninvited, messageVars,
                   onboarding, syncVars, stepVars, sessionVars, faults>>

\* and the state is deleted.
Resets(r) ==
    /\ at[r] = "reset"
    /\ onboarding' = None
    /\ Goto(r, "done")
    /\ UNCHANGED <<otherVars, accountVars, assignments, uninvited, messageVars,
                   onboarded, syncVars, stepVars, sessionVars, faults>>

-----------------------------------------------------------------------------
(* The dashboard *)

elsewhereVars == <<givenVars, accountVars, assignments, uninvited, messageVars,
                     onboardingVars, syncVars, stepVars, sessionVars>>

\* getStats takes what is cached.
ReadsStats(r) ==
    /\ at[r] = "getStats"
    /\ counted' = [counted EXCEPT ![r] = stats]
    /\ Goto(r, IF stats = None THEN "summary" ELSE "done")
    /\ UNCHANGED <<elsewhereVars, stats, activity, refreshed, overtaken, faults>>

\* The state manager's counts.
AsksStateManager(r) ==
    /\ at[r] = "summary"
    /\ counted' = [counted EXCEPT ![r] = activity]
    /\ Goto(r, "setStats")
    /\ UNCHANGED <<elsewhereVars, stats, activity, refreshed, overtaken, faults>>

CachesStats(r) ==
    /\ at[r] = "setStats"
    /\ stats' = counted[r]
    /\ Goto(r, "done")
    /\ UNCHANGED <<elsewhereVars, activity, counted, refreshed, overtaken, faults>>

\* Mutant: the refresh leaves an entry it finds.
RefreshesNothing(r) ==
    /\ at[r] = "delStats"
    /\ refreshed' = activity
    /\ Goto(r, "done")
    /\ UNCHANGED <<elsewhereVars, stats, activity, counted, overtaken, faults>>

\* refreshStats drops the entry; statistics a request has already got, it will
\* put there again.
RefreshesStats(r) ==
    /\ at[r] = "delStats"
    /\ stats' = None
    /\ refreshed' = activity
    /\ overtaken' = overtaken \cup {s \in Requests : at[s] = "setStats"}
    /\ Goto(r, "done")
    /\ UNCHANGED <<elsewhereVars, activity, counted, faults>>

\* The customers write.
CountsGrow ==
    /\ activity = 0
    /\ \E r \in Running : Is(r, "stats") \/ Is(r, "refreshStats")
    /\ activity' = 1
    /\ UNCHANGED <<elsewhereVars, at, stats, counted, refreshed, overtaken, faults>>

\* After five minutes.
StatsExpire ==
    /\ stats # None
    /\ stats' = None
    /\ UNCHANGED <<elsewhereVars, at, activity, counted, refreshed, overtaken, faults>>

-----------------------------------------------------------------------------
(* Faults *)

Fault ==
    /\ faults < MaxFaults
    /\ faults' = faults + 1

\* A statement fails.  The handler answers with an error, unless it says that
\* all went well (logout, the caches, the message's last status) or takes what
\* it could not read for empty.  Genesys may have had the message.
Fails(r) ==
    /\ Fault
    /\ r \in Running
    /\ ~ at[r] \in {"findUser", "findAgain", "createUser", "updateUser", "summary"}
    /\ Goto(r, CASE at[r] \in {"blacklist", "invalidate", "save", "mark", "reset",
                               "setStats", "delStats"} -> "done"
                 [] at[r] = "load" -> "save"
                 [] at[r] = "getStats" -> "summary"
                 [] OTHER -> "failed")
    /\ \/ UNCHANGED posted
       \/ at[r] = "post" /\ posted' = [posted EXCEPT ![Arg(r)] = @ + 1]
    /\ UNCHANGED <<otherVars, accountVars, assignments, uninvited, tracked,
                   onboardingVars, syncVars, stepVars, sessionVars>>

\* The dashboard shows zeros, and caches them.
StatsFail(r) ==
    /\ Fault
    /\ at[r] = "summary"
    /\ counted' = [counted EXCEPT ![r] = Zeros]
    /\ Goto(r, "setStats")
    /\ UNCHANGED <<elsewhereVars, stats, activity, refreshed, overtaken>>

\* A sync goes on with the next user.
SkipsUser(r) ==
    /\ Fault
    /\ \/ at[r] = "findUser" /\ \E u \in todo[r] : todo' = [todo EXCEPT ![r] = @ \ {u}]
       \/ at[r] \in {"findAgain", "createUser", "updateUser"} /\ UNCHANGED todo
    /\ Goto(r, "findUser")
    /\ UNCHANGED <<otherVars, accountVars, assignments, uninvited, messageVars,
                   onboardingVars, subject, fetched, before, stepVars, sessionVars>>

\* The process dies.
Crash ==
    /\ Fault
    /\ Running # {}
    /\ at' = [r \in Requests |-> IF r \in Running THEN "failed" ELSE at[r]]
    /\ UNCHANGED <<otherVars, accountVars, assignments, uninvited, messageVars,
                   onboardingVars, syncVars, stepVars, sessionVars>>

\* The entry of the onboarding lives for a day.
StateExpires ==
    /\ Fault
    /\ onboarding # None
    /\ onboarding' = None
    /\ UNCHANGED <<otherVars, accountVars, assignments, uninvited, messageVars,
                   onboarded, at, syncVars, stepVars, sessionVars>>

-----------------------------------------------------------------------------

\* The two logouts, as their handlers run them.
LogsOut(r) == Blacklists(r) \/ Invalidates(r)
LogsOutEverywhere(r) == Lists(r) \/ BlacklistsAll(r) \/ InvalidatesAll(r)

Step(r) ==
    \/ Authenticates(r)
    \/ ExchangesCode(r) \/ Provisions(r) \/ FindsUser(r) \/ InsertsUser(r)
    \/ InsertsSession(r) \/ Refreshes(r)
    \/ LogsOut(r) \/ LogsOutEverywhere(r)
    \/ FetchesUsers(r) \/ FindsNext(r) \/ StoresUser(r)
    \/ Assigns(r) \/ ChecksTarget(r) \/ Transfers(r)
    \/ Tracks(r) \/ Posts(r) \/ MarksSent(r)
    \/ TriesCredentials(r) \/ LoadsState(r) \/ SavesStep(r)
    \/ ChecksSteps(r) \/ SavesProfile(r) \/ Activates(r) \/ Resets(r)
    \/ ReadsStats(r) \/ AsksStateManager(r) \/ CachesStats(r) \/ RefreshesStats(r)

Next ==
    \/ \E r \in Requests : Step(r) \/ Fails(r) \/ SkipsUser(r) \/ StatsFail(r)
    \/ \E t \in Tokens : Expires(t)
    \/ Promotes
    \/ CountsGrow
    \/ StatsExpire
    \/ Crash
    \/ StateExpires

Spec == Init /\ [][Next]_vars

-----------------------------------------------------------------------------
(* Properties *)

\* The blacklist agrees with the sessions: the access token of one that was ended
\* is on it until the token expires, except that of a login in the middle of a
\* logout of all devices, which ends the session without knowing its token.  A
\* logout of all devices that answers has ended every session it listed, and one
\* of a single device has put its token there, unless a call failed.  (No route
\* looks at the blacklist, or at a token's expiry: authenticate decodes only.)
SessionsExplained ==
    /\ \A t \in Tokens :
           sessions[t] = "inactive" => t \in blacklist \cup expired \cup late
    /\ \A r \in Requests :
           at[r] = "done" =>
               /\ Is(r, "logoutAll") =>
                      \A t \in listed[r] : sessions[t] = "inactive"
               /\ Is(r, "logout") /\ faults = 0 =>
                      /\ Arg(r) \in blacklist \cup expired
                      /\ migrated /\ sessions[Arg(r)] = "active" => Arg(r) \in expired

\* A login is refused without a fault only if the same user was being provisioned
\* by another request, or has a row of another tenant than the one the tenant
\* service named, or if nobody made the demo's tenant; one that succeeds is of the
\* tenant it was given.  After a sync a user has the role Genesys had when it
\* started, or a later one, unless an earlier sync or a login of that user was
\* still running then.
UsersExplained ==
    \A r \in Requests :
        /\ Enters(r) /\ at[r] = "failed" /\ faults = 0 =>
               \/ \E s \in Requests \ {r} : Is(s, "sync") \/ (Enters(s) /\ User(s) = User(r))
               \/ home[User(r)] \notin {None, TenantOf(r)}
               \/ Is(r, "demo") /\ ~migrated
        /\ Enters(r) /\ at[r] = "done" => home[User(r)] = TenantOf(r)
        /\ Is(r, "sync") /\ at[r] = "done" /\ fetched[r] = "admin" /\ faults = 0 =>
               \A u \in Users \ {DemoUser} :
                   \/ roles[u] = "admin"
                   \/ \E s \in Requests \ before[r] : Is(s, "sync") /\ fetched[s] = "agent"
                   \/ \E s \in Requests \ before[r] : Enters(s) /\ User(s) = u

\* Once somebody has a conversation somebody always does, and two have it only
\* if one of them took it from another, or gave away what another one had.
AssignmentsExplained ==
    /\ assignments # <<>> => Assignees # {}
    /\ Cardinality(Assignees) > 1 => uninvited

\* A message is marked sent only if Genesys was sent it, which happens once per
\* request, and stays queued only while a request is at it or after a failure.
SendsExplained ==
    \A m \in Messages :
        LET sends == {r \in Requests : Is(r, "send") /\ Arg(r) = m} IN
        /\ tracked[m] = "sent" => posted[m] > 0
        /\ posted[m] <= Cardinality(sends)
        /\ tracked[m] = "queued" /\ sends \cap Running = {} => faults > 0

\* A tenant is active only if every step was saved once; a step that was
\* answered is on record until onboarding completes, unless a request that had
\* read the state before overwrote it, or a fault.
OnboardingExplained ==
    /\ onboarded => saved = Steps
    /\ \A r \in Requests :
           Is(r, "step") /\ at[r] = "done" /\ faults = 0 =>
               Arg(r) \in Progress(onboarding) \cup lost \/ onboarded

\* The dashboard's entry is never older than the last refresh that was answered,
\* and shows zeros for counts only after a fault, unless a request that had its
\* statistics before the refresh stored them after it.
StatsExplained ==
    faults = 0 /\ stats # None =>
        \/ stats \in Counts /\ stats >= refreshed
        \/ \E r \in overtaken : counted[r] = stats

\* Both caches of the portal's controllers hold what was last put there.
CachesExplained == OnboardingExplained /\ StatsExplained
=============================================================================
