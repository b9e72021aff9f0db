----------------------------- MODULE BrowserSession -----------------------------
(***************************************************************************)
(* One tab of the agent portal: the tokens in its session storage, the     *)
(* user that React shows as signed in, the timer that renews the tokens    *)
(* and the axios interceptor that renews them when a request is refused.   *)
(*                                                                         *)
(* Modelled: every function that reads or writes the tokens (AuthContext,  *)
(* authService, axiosInterceptor), the requests of the pages, the popup    *)
(* of the login, failing calls and reloads.  JavaScript runs one callback  *)
(* at a time: a step is a callback up to its next await, and a promise     *)
(* that is rejected runs its handlers before anything else happens.        *)
(*                                                                         *)
(* Access and refresh token are written and removed together, so they are  *)
(* one value here, its owner.  The server is external: it reads an access  *)
(* token without verifying it, so that age plays no role there, answers    *)
(* 401 if there is none or its user is unknown, and renews any refresh     *)
(* token.  Time is abstract: a timer may fire at any moment.               *)
(***************************************************************************)
EXTENDS Naturals

CONSTANTS
    Users,       \* people who sign in on this tab
    None,        \* nobody
    Tasks,       \* asynchronous functions under way at once (bound)
    Uses,        \* who signs in on the tab, and what they do there
    MaxTries,    \* attempts of retryWithBackoff
    MaxFaults    \* failing calls, deleted users and reloads (bound)

ASSUME BrowserSessionAssumption ==
    /\ None \notin Users
    /\ Uses \subseteq [by : SUBSET Users,
                       does : SUBSET {"logout", "logoutAll", "load", "profile", "page"}]
    /\ MaxTries \in Nat \ {0}
    /\ MaxFaults \in Nat

VARIABLES
    use,           \* who uses the tab, and how
    store,         \* session storage: owner and age of the tokens, agent_info
    shown,         \* the user of AuthContext while isAuthenticated holds
    loading,       \* loading of AuthContext
    refreshTimer,  \* "none", "armed", or "fired", whose id React still has
    due,           \* whether the effect that initializes is to run (again)
    arriving,      \* whether the router is about to show the workspace
    isRefreshing,  \* of the interceptor; its failedQueue are the queued tasks
    tasks,         \* the asynchronous functions under way
    known,         \* users the server has a row of
    signedOut,     \* whether the user signed out and nobody signed in since
    revived,       \* whether an answer older than the last sign-out was stored
    faults         \* faults so far

screenVars == <<shown, loading, refreshTimer, due, arriving>>
ghostVars == <<signedOut, revived>>
vars == <<use, store, screenVars, isRefreshing, tasks, known, ghostVars, faults>>

Somebody == Users \cup {None}

Idle == [op |-> "none", at |-> "idle", who |-> None, retried |-> FALSE,
         tries |-> 0, late |-> FALSE]

TypeOK ==
    /\ use \in Uses
    /\ store \in [token : Somebody, old : BOOLEAN, agent : Somebody]
    /\ shown \in Somebody
    /\ loading \in BOOLEAN
    /\ refreshTimer \in {"none", "armed", "fired"}
    /\ due \in BOOLEAN
    /\ arriving \in BOOLEAN
    /\ isRefreshing \in BOOLEAN
    /\ tasks \in [Tasks -> [op : use.does \cup {"none", "login", "load", "init", "timer"},
                            at : {"idle", "popup", "asked", "renewing", "queued",
                                  "refreshing", "rejected", "backoff"},
                            who : Somebody, retried : BOOLEAN,
                            tries : 0..MaxTries, late : BOOLEAN]]
    /\ known \subseteq Users
    /\ signedOut \in BOOLEAN
    /\ revived \in BOOLEAN
    /\ faults \in Nat

EmptyStore == [token |-> None, old |-> FALSE, agent |-> None]

Init ==
    /\ use \in Uses
    /\ store = EmptyStore
    /\ shown = None
    /\ loading = TRUE
    /\ refreshTimer = "none"
    /\ due = TRUE
    /\ arriving = FALSE
    /\ isRefreshing = FALSE
    /\ tasks = [t \in Tasks |-> Idle]
    /\ known = {}
    /\ signedOut = FALSE
    /\ revived = FALSE
    /\ faults = 0

-----------------------------------------------------------------------------
(* Pieces of the steps *)

Fault ==
    /\ faults < MaxFaults
    /\ faults' = faults + 1

\* No rejected promise has handlers left to run.
Calm == \A t \in Tasks : tasks[t].at # "rejected"

\* Who a new request is sent for: the request interceptor reads the storage.
Asked(t) == [t EXCEPT !.at = "asked", !.who = store'.token]

\* setupRefreshTimer: the state changes, so the effect runs again.
Arms ==
    IF store'.token = None
      THEN UNCHANGED <<refreshTimer, due>>
      ELSE refreshTimer' = "armed" /\ due' = TRUE

\* Mutant: the tokens stay.
ClearsAgentOnly == store' = [store EXCEPT !.agent = None]

\* clearAuth.
ClearAuth == store' = EmptyStore

\* The tokens come back renewed.
Renews(u) == store' = [store EXCEPT !.token = u, !.old = FALSE]

\* What is under way when the tokens are cleared is late from then on.
Late(ts) == [t \in Tasks |-> [ts[t] EXCEPT !.late = ts[t] # Idle]]

\* A late answer was stored or shown.
Counts(task) == revived' = (revived \/ task.late)

\* onLogout, and setUser(null) with setIsAuthenticated(false).
Hides ==
    /\ shown' = None
    /\ arriving' = FALSE

\* After clearAuth nothing of an earlier session is left.
HidesAll ==
    /\ Hides
    /\ revived' = FALSE

-----------------------------------------------------------------------------
(* How an asynchronous function ends *)

Ends(t) == tasks' = [tasks EXCEPT ![t] = Idle]

\* clearAuth under the running tasks, of which t ends.
EndsCleared(t) ==
    /\ ClearAuth
    /\ tasks' = Late([tasks EXCEPT ![t] = Idle])

\* logout, whatever the server answered.
LogsOut(t) ==
    /\ EndsCleared(t)
    /\ HidesAll
    /\ loading' = FALSE
    /\ signedOut' = TRUE
    /\ UNCHANGED <<refreshTimer, due>>

\* logoutAll clears the storage only; the login page that comes next sends
\* whoever is still shown to the workspace.
LogsOutEverywhere(t) ==
    /\ EndsCleared(t)
    /\ revived' = (revived /\ shown # None)
    /\ arriving' = (shown # None)
    /\ signedOut' = TRUE
    /\ UNCHANGED <<shown, loading, refreshTimer, due>>

\* login and initializeAuth show the profile and set the timer.
Enters(t) ==
    /\ shown' = tasks[t].who
    /\ arriving' = (arriving \/ shown = None)
    /\ loading' = FALSE
    /\ UNCHANGED store
    /\ Arms
    /\ Counts(tasks[t])
    /\ Ends(t)
    /\ UNCHANGED signedOut

\* The request of t was answered with 200.
Succeeds(t) ==
    \/ /\ tasks[t].op = "page"
       /\ Ends(t)
       /\ UNCHANGED <<store, screenVars, ghostVars>>
    \/ /\ tasks[t].op = "load"
       /\ store' = [store EXCEPT !.agent = tasks[t].who]
       /\ Counts(tasks[t])
       /\ Ends(t)
       /\ UNCHANGED <<screenVars, signedOut>>
    \/ /\ tasks[t].op = "profile"
       /\ shown' = IF shown = None THEN None ELSE tasks[t].who
       /\ Counts(tasks[t])
       /\ Ends(t)
       /\ UNCHANGED <<store, loading, refreshTimer, due, arriving, signedOut>>
    \/ tasks[t].op \in {"login", "init"} /\ Enters(t)
    \/ tasks[t].op = "logout" /\ LogsOut(t)
    \/ tasks[t].op = "logoutAll" /\ LogsOutEverywhere(t)

\* t is out of attempts.
GivesUp(t) ==
    \/ /\ tasks[t].op \in {"page", "load", "profile"}
       /\ Ends(t)
       /\ UNCHANGED <<store, screenVars, ghostVars>>
    \/ /\ tasks[t].op = "login"
       /\ Ends(t)
       /\ Hides
       /\ loading' = FALSE
       /\ UNCHANGED <<store, refreshTimer, due, ghostVars>>
    \/ /\ tasks[t].op = "init"
       /\ EndsCleared(t)
       /\ HidesAll
       /\ loading' = FALSE
       /\ UNCHANGED <<refreshTimer, due, signedOut>>
    \/ tasks[t].op = "logout" /\ LogsOut(t)
    \/ tasks[t].op = "logoutAll" /\ LogsOutEverywhere(t)

\* retryWithBackoff around getProfile pauses before the next attempt.
BacksOff(t) ==
    /\ tasks[t].op \in {"load", "profile", "login", "init"}
    /\ tasks[t].tries + 1 < MaxTries
    /\ UNCHANGED <<store, screenVars, ghostVars>>
    /\ tasks' = [tasks EXCEPT ![t].at = "backoff", ![t].retried = FALSE,
                              ![t].tries = @ + 1]

RetriesOrGivesUp(t) ==
    \/ BacksOff(t)
    \/ /\ \/ tasks[t].op \notin {"load", "profile", "login", "init"}
          \/ tasks[t].tries + 1 >= MaxTries
       /\ GivesUp(t)

-----------------------------------------------------------------------------
(* The interceptor *)

Refused(t) == tasks[t].who \notin known

\* The request was sent with a token the server takes.
Answered(t) ==
    /\ Calm
    /\ tasks[t].at = "asked"
    /\ ~Refused(t)
    /\ Succeeds(t)
    /\ UNCHANGED <<use, isRefreshing, known, faults>>

\* No answer within 30 seconds, or a server error; or, with a token the server
\* takes, a status of 400 to 499 (but 429), after which nothing is tried again.
Fails(t) ==
    /\ Calm
    /\ tasks[t].at = "asked"
    /\ Fault
    /\ RetriesOrGivesUp(t) \/ (~Refused(t) /\ GivesUp(t))
    /\ UNCHANGED <<use, isRefreshing, known>>

\* The pause of retryWithBackoff is over: a new request, with the tokens of now.
RetriesProfile(t) ==
    /\ Calm
    /\ tasks[t].at = "backoff"
    /\ UNCHANGED store
    /\ tasks' = [tasks EXCEPT ![t] = Asked([@ EXCEPT !.late = FALSE])]
    /\ UNCHANGED <<use, screenVars, isRefreshing, known, ghostVars, faults>>

\* 401, for a request the interceptor sent again itself.
RefusedAgain(t) ==
    /\ Calm
    /\ tasks[t].at = "asked"
    /\ Refused(t)
    /\ tasks[t].retried
    /\ GivesUp(t)
    /\ UNCHANGED <<use, isRefreshing, known, faults>>

\* 401 while a refresh is under way.
Queues(t) ==
    /\ Calm
    /\ tasks[t].at = "asked"
    /\ Refused(t) /\ ~tasks[t].retried
    /\ isRefreshing
    /\ tasks' = [tasks EXCEPT ![t].at = "queued"]
    /\ UNCHANGED <<use, store, screenVars, isRefreshing, known, ghostVars, faults>>

\* 401 otherwise.
Renewing(t) ==
    /\ Calm
    /\ tasks[t].at = "asked"
    /\ Refused(t) /\ ~tasks[t].retried
    /\ ~isRefreshing
    /\ store.token # None
    /\ isRefreshing' = TRUE
    /\ tasks' = [tasks EXCEPT ![t].at = "renewing", ![t].retried = TRUE,
                              ![t].who = store.token]
    /\ UNCHANGED <<use, store, screenVars, known, ghostVars, faults>>

\* Those waiting for the refresh of t, and t itself.
Waiting(t) == {t} \cup {u \in Tasks : tasks[u].at = "queued"}

\* Mutant: the queue is forgotten.
ExpiresForOne(t) ==
    /\ ClearAuth
    /\ HidesAll
    /\ tasks' = Late([tasks EXCEPT ![t].at = "rejected", ![t].retried = TRUE])
    /\ isRefreshing' = FALSE
    /\ UNCHANGED <<loading, refreshTimer, due, signedOut>>

\* Mutant: onLogout is not called.
ExpiresUnseen(t) ==
    /\ ClearAuth
    /\ tasks' = Late([u \in Tasks |->
                         IF u \in Waiting(t)
                           THEN [tasks[u] EXCEPT !.at = "rejected",
                                                 !.retried = @ \/ u = t]
                           ELSE tasks[u]])
    /\ isRefreshing' = FALSE
    /\ UNCHANGED <<screenVars, ghostVars>>

\* The catch block: the queue is rejected, the tokens are cleared, onLogout.
Expires(t) ==
    /\ ClearAuth
    /\ HidesAll
    /\ tasks' = Late([u \in Tasks |->
                         IF u \in Waiting(t)
                           THEN [tasks[u] EXCEPT !.at = "rejected",
                                                 !.retried = @ \/ u = t]
                           ELSE tasks[u]])
    /\ isRefreshing' = FALSE
    /\ UNCHANGED <<loading, refreshTimer, due, signedOut>>

\* 401 without a refresh token: the refresh throws without asking.
NothingToRenew(t) ==
    /\ Calm
    /\ tasks[t].at = "asked"
    /\ Refused(t) /\ ~tasks[t].retried
    /\ ~isRefreshing
    /\ store.token = None
    /\ Expires(t)
    /\ UNCHANGED <<use, known, faults>>

\* The interceptor's refresh succeeds: everyone asks again.
Renewed(t) ==
    /\ Calm
    /\ tasks[t].at = "renewing"
    /\ Renews(tasks[t].who)
    /\ Counts(tasks[t])
    /\ tasks' = [u \in Tasks |-> IF u \in Waiting(t) THEN Asked(tasks[u])
                                                     ELSE tasks[u]]
    /\ isRefreshing' = FALSE
    /\ UNCHANGED <<use, screenVars, known, signedOut, faults>>

\* It fails, for whatever reason.
RenewFails(t) ==
    /\ Calm
    /\ tasks[t].at = "renewing"
    /\ Fault
    /\ Expires(t)
    /\ UNCHANGED <<use, known>>

\* The handlers of a rejected promise.
Rejected(t) ==
    /\ tasks[t].at = "rejected"
    /\ RetriesOrGivesUp(t)
    /\ UNCHANGED <<use, isRefreshing, known, faults>>

-----------------------------------------------------------------------------
(* AuthContext *)

\* initializeAuth, when it has nothing to wait for.
Initialize ==
    /\ Calm
    /\ due
    /\ loading' = FALSE
    /\ \/ /\ store.token = None \/ store.agent = None
          /\ due' = FALSE
          /\ UNCHANGED <<shown, refreshTimer, arriving>>
       \/ /\ store.token # None /\ store.agent # None /\ ~store.old
          /\ shown' = store.agent
          /\ arriving' = (arriving \/ shown = None)
          /\ refreshTimer' = "armed"
          /\ UNCHANGED due
    /\ UNCHANGED <<use, store, isRefreshing, tasks, known, ghostVars, faults>>

\* initializeAuth with tokens that are about to expire.
InitializeOld(t) ==
    /\ Calm
    /\ due
    /\ store.token # None /\ store.agent # None /\ store.old
    /\ tasks[t] = Idle
    /\ tasks' = [tasks EXCEPT ![t] = [Idle EXCEPT !.op = "init", !.at = "refreshing",
                                                  !.who = store.token]]
    /\ due' = FALSE
    /\ UNCHANGED <<use, store, shown, loading, refreshTimer, arriving, isRefreshing,
                   known, ghostVars, faults>>

\* The timer's callback, up to the call.
TimerFires(t) ==
    /\ Calm
    /\ refreshTimer = "armed"
    /\ tasks[t] = Idle
    /\ refreshTimer' = "fired"
    /\ IF store.token = None
         THEN Hides /\ UNCHANGED tasks
         ELSE /\ tasks' = [tasks EXCEPT ![t] = [Idle EXCEPT !.op = "timer",
                               !.at = "refreshing", !.who = store.token]]
              /\ UNCHANGED <<shown, arriving>>
    /\ UNCHANGED <<use, store, loading, due, isRefreshing, known, ghostVars, faults>>

\* A refresh of the timer or of initializeAuth succeeds.
Refreshed(t) ==
    /\ Calm
    /\ tasks[t].at = "refreshing"
    /\ Renews(tasks[t].who)
    /\ Counts(tasks[t])
    /\ IF tasks[t].op = "timer"
         THEN Arms /\ Ends(t)
         ELSE /\ tasks' = [tasks EXCEPT ![t] = Asked(@)]
              /\ UNCHANGED <<refreshTimer, due>>
    /\ UNCHANGED <<use, shown, loading, arriving, isRefreshing, known, signedOut, faults>>

\* It fails: signed out, whether the tokens are still the ones it started with or not.
RefreshFails(t) ==
    /\ Calm
    /\ tasks[t].at = "refreshing"
    /\ Fault
    /\ EndsCleared(t)
    /\ HidesAll
    /\ loading' = (loading /\ tasks[t].op = "timer")
    /\ UNCHANGED <<use, refreshTimer, due, isRefreshing, known, signedOut>>

-----------------------------------------------------------------------------
(* The user, the popup and the browser *)

\* A click finds the effects run that were due.  With tokens the effect sets a
\* timer and so is due again at once, forever, but changes nothing else.
Rendered ==
    due => store.token # None /\ store.agent = shown /\ ~store.old
             /\ refreshTimer = "armed" /\ ~loading

Starts(t, op, at) ==
    /\ Calm
    /\ Rendered
    /\ tasks[t] = Idle
    /\ tasks' = [tasks EXCEPT ![t] = [Idle EXCEPT !.op = op, !.at = at,
                                                  !.who = store.token]]
    /\ UNCHANGED <<use, store, isRefreshing, known, ghostVars, faults>>

\* A page asks for something, or for the profile.
Asks(t, op) ==
    /\ op \in {"page", "profile", "load"} \cap use.does
    /\ shown # None
    /\ Starts(t, op, "asked")
    /\ UNCHANGED screenVars

\* The workspace is shown, and loads its data.
Arrives(t) ==
    /\ arriving
    /\ Starts(t, "load", "asked")
    /\ arriving' = FALSE
    /\ UNCHANGED <<shown, loading, refreshTimer, due>>

\* The timer is cleared first.  Its id changes, so the effect runs again.
StartsLogout(t) ==
    /\ "logout" \in use.does
    /\ shown # None /\ ~loading
    /\ Starts(t, "logout", "asked")
    /\ loading' = TRUE
    /\ refreshTimer' = "none"
    /\ due' = (due \/ refreshTimer # "none")
    /\ UNCHANGED <<shown, arriving>>

StartsLogoutAll(t) ==
    /\ "logoutAll" \in use.does
    /\ shown # None /\ ~loading
    /\ Starts(t, "logoutAll", "asked")
    /\ UNCHANGED screenVars

StartsLogin(t) ==
    /\ shown = None /\ ~loading
    /\ Starts(t, "login", "popup")
    /\ loading' = TRUE
    /\ UNCHANGED <<shown, refreshTimer, due, arriving>>

\* The popup has a name, so every login that waits shares one window.
Waits == {t \in Tasks : tasks[t].at = "popup"}

\* It posts tokens.  What was under way belongs to an earlier session.
PopupAnswers(u) ==
    /\ Calm
    /\ Waits # {}
    /\ store' = [token |-> u, old |-> FALSE, agent |-> u]
    /\ known' = known \cup {u}
    /\ tasks' = [t \in Tasks |-> IF t \in Waits THEN Asked(tasks[t]) ELSE Late(tasks)[t]]
    /\ signedOut' = FALSE
    /\ revived' = (revived /\ shown # None)
    /\ UNCHANGED <<use, screenVars, isRefreshing, faults>>

\* It is closed, or posts an error, as AuthCallback always does: the backend
\* answers its request with a page, not with JSON.
PopupFails ==
    /\ Calm
    /\ Waits # {}
    /\ tasks' = [t \in Tasks |-> IF t \in Waits THEN Idle ELSE tasks[t]]
    /\ Hides
    /\ loading' = FALSE
    /\ UNCHANGED <<use, store, refreshTimer, due, isRefreshing, known, ghostVars, faults>>

\* Five minutes are left to the access token.
Ages ==
    /\ Calm
    /\ store.token # None
    /\ store' = [store EXCEPT !.old = TRUE]
    /\ UNCHANGED <<use, screenVars, isRefreshing, tasks, known, ghostVars, faults>>

\* The user's row disappears from the database.
UserDeleted(u) ==
    /\ Calm
    /\ u \in known
    /\ known' = known \ {u}
    /\ Fault
    /\ UNCHANGED <<use, store, screenVars, isRefreshing, tasks, ghostVars>>

\* Session storage survives, everything else starts afresh.
Reload ==
    /\ Calm
    /\ shown' = None
    /\ loading' = TRUE
    /\ refreshTimer' = "none"
    /\ due' = TRUE
    /\ arriving' = FALSE
    /\ isRefreshing' = FALSE
    /\ tasks' = [t \in Tasks |-> Idle]
    /\ Fault
    /\ UNCHANGED <<use, store, known, ghostVars>>

-----------------------------------------------------------------------------
(* The specification *)

Responds(t) ==
    \/ Answered(t) \/ Fails(t) \/ RetriesProfile(t) \/ RefusedAgain(t)
    \/ Queues(t) \/ Renewing(t) \/ NothingToRenew(t)
    \/ Renewed(t) \/ RenewFails(t) \/ Rejected(t)
    \/ Refreshed(t) \/ RefreshFails(t)

Next ==
    \/ Initialize
    \/ Ages
    \/ Reload
    \/ \E u \in use.by : UserDeleted(u) \/ PopupAnswers(u)
    \/ PopupFails
    \/ \E t \in Tasks :
           \/ Responds(t)
           \/ InitializeOld(t) \/ TimerFires(t)
           \/ \E op \in {"page", "profile", "load"} : Asks(t, op)
           \/ Arrives(t)
           \/ StartsLogout(t) \/ StartsLogoutAll(t) \/ StartsLogin(t)

Spec == Init /\ [][Next]_vars

\* A call is answered or times out, a timeout fires, React runs effects that
\* are due and shows the page that was navigated to.  Nobody has to close the
\* popup or click anything.
FairSpec ==
    /\ Spec
    /\ WF_vars(Initialize)
    /\ \A t \in Tasks : WF_vars(Responds(t))
    /\ WF_vars(\E t \in Tasks : TimerFires(t))
    /\ WF_vars(\E t \in Tasks : Arrives(t))

-----------------------------------------------------------------------------
(* Properties *)

\* Once the user has signed out, the tokens come back only through the answer
\* to a call that was under way then (a refresh of the timer, of initializeAuth
\* or of the interceptor), never through the effect that runs again while the
\* logout waits, a queued request, or a reload.
SignedOutStaysOut ==
    signedOut /\ ~revived => store.token = None

\* The user on the screen is the owner of the tokens that the requests carry,
\* unless a login is under way.  Only after logoutAll, which does not tell the
\* context, is there a user on the screen without tokens, and only an answer
\* from before the last change of hands puts one user's tokens under the screen
\* of another.
ScreenShowsOwner ==
    shown # None /\ ~revived /\ (\A t \in Tasks : tasks[t].op # "login")
      => store.token = shown \/ (signedOut /\ store.token = None)

\* The interceptor comes to rest again and again: no refresh under way and nobody
\* in its queue.  A request that fails in the middle of a refresh is released by
\* it, whether it succeeds or not.  (Released requests are sent without the mark
\* that they were retried, so a later refresh may queue them once more.)
QueueEmpties ==
    []<>(~isRefreshing /\ \A t \in Tasks : tasks[t].at # "queued")

\* A screen without tokens does not last: a page's request or the timer that was
\* left armed notices.
SignOutShows ==
    (shown # None /\ store.token = None) ~> (shown = None \/ store.token # None)

=============================================================================
