----------------------- MODULE BrowserSession_proofs -----------------------
(***************************************************************************)
(* For any number of people who take turns on the tab, any number of       *)
(* asynchronous functions under way, faults and attempts: who signed out   *)
(* stays signed out, and the screen shows the owner of the tokens, unless  *)
(* an answer from before the last change of hands was stored or shown.     *)
(*                                                                         *)
(* The argument: until such an answer arrives, every call under way that   *)
(* is not late was sent for the owner of the tokens in the storage, and    *)
(* agent_info is that owner's (TabInv).  What clears the tokens makes all  *)
(* calls late, so a refresh that is not late renews what is there.         *)
(***************************************************************************)
EXTENDS BrowserSession, TLAPS

-----------------------------------------------------------------------------
(* Types *)

Store == [token : Somebody, old : BOOLEAN, agent : Somebody]

Stages == {"idle", "popup", "asked", "renewing", "queued", "refreshing",
           "rejected", "backoff"}

Task == [op : use.does \cup {"none", "login", "load", "init", "timer"},
         at : Stages, who : Somebody, retried : BOOLEAN,
         tries : 0..MaxTries, late : BOOLEAN]

\* What every step does: it stays on the tab, and its pieces keep their types.
Typed ==
    /\ UNCHANGED use
    /\ store' \in Store
    /\ shown' \in Somebody
    /\ loading' \in BOOLEAN
    /\ refreshTimer' \in {"none", "armed", "fired"}
    /\ due' \in BOOLEAN
    /\ arriving' \in BOOLEAN
    /\ isRefreshing' \in BOOLEAN
    /\ tasks' \in [Tasks -> Task]
    /\ known' \subseteq Users
    /\ signedOut' \in BOOLEAN
    /\ revived' \in BOOLEAN
    /\ faults' \in Nat

\* A step whose pieces keep their types keeps the type invariant.
LEMMA TypedSuffices == ASSUME TypeOK, Typed PROVE TypeOK'
BY DEF TypeOK, Typed, Task, Stages, Store, Somebody

\* The tasks and the storage, as the type invariant has them.
LEMMA TypeFacts ==
    ASSUME TypeOK
    PROVE  /\ tasks \in [Tasks -> Task]
           /\ store \in Store
           /\ store.token \in Somebody /\ store.agent \in Somebody
           /\ shown \in Somebody
BY DEF TypeOK, Task, Stages, Store

\* The task of an asynchronous function that is not running.
LEMMA IdleTask == ASSUME TypeOK PROVE Idle \in Task
BY BrowserSessionAssumption DEF Idle, Task, Stages, Somebody

\* The storage after a sign-out.
LEMMA EmptyStored == EmptyStore \in Store
BY DEF EmptyStore, Store, Somebody

\* A task that asks, sent for whoever is in the storage.
LEMMA AskedTask ==
    ASSUME NEW x \in Task, store' \in Store
    PROVE  Asked(x) \in Task
<1>1. store'.token \in Somebody
  BY DEF Store
<1>. QED  BY <1>1 DEF Asked, Task, Stages

\* Marking tasks as late keeps them tasks.
LEMMA LateTasks ==
    ASSUME NEW ts \in [Tasks -> Task]
    PROVE  Late(ts) \in [Tasks -> Task]
<1>1. ASSUME NEW t \in Tasks PROVE [ts[t] EXCEPT !.late = ts[t] # Idle] \in Task
  <2>1. ts[t] \in Task /\ (ts[t] # Idle) \in BOOLEAN
    OBVIOUS
  <2>. QED  BY <2>1 DEF Task
<1>. QED  BY <1>1 DEF Late

\* Ending a task.
LEMMA EndsTyped ==
    ASSUME TypeOK, NEW t \in Tasks
    PROVE  [tasks EXCEPT ![t] = Idle] \in [Tasks -> Task]
BY TypeFacts, IdleTask

\* Ending a task while the tokens are cleared.
LEMMA EndsClearedTyped ==
    ASSUME TypeOK, NEW t \in Tasks, EndsCleared(t)
    PROVE  store' \in Store /\ tasks' \in [Tasks -> Task]
BY EndsTyped, LateTasks, EmptyStored DEF EndsCleared, ClearAuth

\* A request that a refresh waited for, or whose refresh failed.
LEMMA ExpiresTyped ==
    ASSUME TypeOK, NEW t \in Tasks, Expires(t)
    PROVE  store' \in Store /\ tasks' \in [Tasks -> Task]
<1>. DEFINE Rejection(u) == [tasks[u] EXCEPT !.at = "rejected", !.retried = @ \/ u = t]
            Rejections == [u \in Tasks |-> IF u \in Waiting(t) THEN Rejection(u)
                                                             ELSE tasks[u]]
<1>1. ASSUME NEW u \in Tasks PROVE Rejection(u) \in Task
  <2>1. tasks[u] \in Task
    BY TypeFacts
  <2>2. (tasks[u].retried \/ u = t) \in BOOLEAN
    OBVIOUS
  <2>. QED  BY <2>1, <2>2 DEF Task, Stages
<1>2. Rejections \in [Tasks -> Task]
  BY <1>1, TypeFacts
<1>3. tasks' = Late(Rejections)
  BY DEF Expires
<1>. QED  BY <1>2, <1>3, LateTasks, EmptyStored DEF Expires, ClearAuth

\* Functions that start: of an operation of the tab's user, at a stage, for somebody.
LEMMA StartedTask ==
    ASSUME TypeOK, NEW o \in use.does \cup {"login", "load", "init", "timer"},
           NEW a \in Stages, NEW w \in Somebody
    PROVE  [Idle EXCEPT !.op = o, !.at = a, !.who = w] \in Task
BY IdleTask DEF Task

\* What a step leaves alone keeps its type.
LEMMA KeepsTypes ==
    ASSUME TypeOK
    PROVE  /\ UNCHANGED store => store' \in Store
           /\ UNCHANGED shown => shown' \in Somebody
           /\ UNCHANGED loading => loading' \in BOOLEAN
           /\ UNCHANGED refreshTimer => refreshTimer' \in {"none", "armed", "fired"}
           /\ UNCHANGED due => due' \in BOOLEAN
           /\ UNCHANGED arriving => arriving' \in BOOLEAN
           /\ UNCHANGED isRefreshing => isRefreshing' \in BOOLEAN
           /\ UNCHANGED tasks => tasks' \in [Tasks -> Task]
           /\ UNCHANGED known => known' \subseteq Users
           /\ UNCHANGED signedOut => signedOut' \in BOOLEAN
           /\ UNCHANGED revived => revived' \in BOOLEAN
           /\ UNCHANGED faults => faults' \in Nat
           /\ Fault => faults' \in Nat
BY DEF TypeOK, Task, Stages, Store, Fault

\* What the end of a request or of its attempts changes.
RequestTyped ==
    /\ store' \in Store
    /\ shown' \in Somebody
    /\ loading' \in BOOLEAN
    /\ refreshTimer' \in {"none", "armed", "fired"}
    /\ due' \in BOOLEAN
    /\ arriving' \in BOOLEAN
    /\ tasks' \in [Tasks -> Task]
    /\ signedOut' \in BOOLEAN
    /\ revived' \in BOOLEAN

\* The task of a call, and whether its answer counts as late.
LEMMA CountsTyped ==
    ASSUME TypeOK, NEW t \in Tasks
    PROVE  /\ tasks[t].who \in Somebody
           /\ tasks[t].late \in BOOLEAN
           /\ Counts(tasks[t]) => revived' \in BOOLEAN
<1>1. tasks[t] \in Task
  BY TypeFacts
<1>2. revived \in BOOLEAN
  BY DEF TypeOK
<1>. QED  BY <1>1, <1>2 DEF Task, Counts

\* Both ways to sign out keep the types.
LEMMA LogsOutTyped ==
    ASSUME TypeOK, NEW t \in Tasks, LogsOut(t) \/ LogsOutEverywhere(t)
    PROVE  RequestTyped
<1>1. store' \in Store /\ tasks' \in [Tasks -> Task]
  BY EndsClearedTyped DEF LogsOut, LogsOutEverywhere
<1>2. CASE LogsOut(t)
  BY <1>1, <1>2, KeepsTypes DEF LogsOut, HidesAll, Hides, RequestTyped, Somebody
<1>3. CASE LogsOutEverywhere(t)
  <2>1. shown' \in Somebody /\ revived' \in BOOLEAN /\ arriving' \in BOOLEAN
    BY <1>3, KeepsTypes DEF LogsOutEverywhere, TypeOK
  <2>. QED  BY <1>1, <1>3, <2>1, KeepsTypes DEF LogsOutEverywhere, RequestTyped
<1>. QED  BY <1>2, <1>3

\* An answer keeps the types.
LEMMA SucceedsTyped ==
    ASSUME TypeOK, NEW t \in Tasks, Succeeds(t)
    PROVE  RequestTyped
<1>e. [tasks EXCEPT ![t] = Idle] \in [Tasks -> Task]
  BY EndsTyped
<1>1. CASE tasks[t].op = "page" /\ Ends(t) /\ UNCHANGED <<store, screenVars, ghostVars>>
  BY <1>1, <1>e, KeepsTypes DEF Ends, screenVars, ghostVars, RequestTyped
<1>2. CASE /\ store' = [store EXCEPT !.agent = tasks[t].who]
           /\ Counts(tasks[t])
           /\ Ends(t)
           /\ UNCHANGED <<screenVars, signedOut>>
  <2>1. store' \in Store
    BY <1>2, TypeFacts, CountsTyped DEF Store
  <2>. QED  BY <1>2, <1>e, <2>1, KeepsTypes, CountsTyped
            DEF Ends, screenVars, RequestTyped
<1>3. CASE /\ shown' = IF shown = None THEN None ELSE tasks[t].who
           /\ Counts(tasks[t])
           /\ Ends(t)
           /\ UNCHANGED <<store, loading, refreshTimer, due, arriving, signedOut>>
  <2>1. shown' \in Somebody
    BY <1>3, CountsTyped DEF Somebody
  <2>. QED  BY <1>3, <1>e, <2>1, KeepsTypes, CountsTyped DEF Ends, RequestTyped
<1>4. CASE Enters(t)
  <2>1. shown' \in Somebody
    BY <1>4, CountsTyped DEF Enters
  <2>2. refreshTimer' \in {"none", "armed", "fired"} /\ due' \in BOOLEAN
    BY <1>4, KeepsTypes DEF Enters, Arms
  <2>3. arriving' \in BOOLEAN /\ loading' \in BOOLEAN
    BY <1>4 DEF Enters, TypeOK
  <2>. QED  BY <1>4, <1>e, <2>1, <2>2, <2>3, KeepsTypes, CountsTyped
            DEF Enters, Ends, RequestTyped
<1>. QED  BY <1>1, <1>2, <1>3, <1>4, LogsOutTyped DEF Succeeds

\* So does the end of the attempts.
LEMMA GivesUpTyped ==
    ASSUME TypeOK, NEW t \in Tasks, GivesUp(t)
    PROVE  RequestTyped
<1>e. [tasks EXCEPT ![t] = Idle] \in [Tasks -> Task]
  BY EndsTyped
<1>1. CASE Ends(t) /\ UNCHANGED <<store, screenVars, ghostVars>>
  BY <1>1, <1>e, KeepsTypes DEF Ends, screenVars, ghostVars, RequestTyped
<1>2. CASE /\ Ends(t)
           /\ Hides
           /\ loading' = FALSE
           /\ UNCHANGED <<store, refreshTimer, due, ghostVars>>
  BY <1>2, <1>e, KeepsTypes DEF Ends, Hides, ghostVars, RequestTyped, Somebody
<1>3. CASE /\ EndsCleared(t)
           /\ HidesAll
           /\ loading' = FALSE
           /\ UNCHANGED <<refreshTimer, due, signedOut>>
  BY <1>3, EndsClearedTyped, KeepsTypes DEF HidesAll, Hides, RequestTyped, Somebody
<1>. QED  BY <1>1, <1>2, <1>3, LogsOutTyped DEF GivesUp

\* And another attempt, or none.
LEMMA RetriesOrGivesUpTyped ==
    ASSUME TypeOK, NEW t \in Tasks, RetriesOrGivesUp(t)
    PROVE  RequestTyped
<1>1. CASE BacksOff(t)
  <2>1. tasks[t] \in Task
    BY TypeFacts
  <2>2. tasks[t].tries + 1 \in 0..MaxTries
    BY <1>1, <2>1, BrowserSessionAssumption DEF BacksOff, Task
  <2>3. [tasks[t] EXCEPT !.at = "backoff", !.retried = FALSE, !.tries = @ + 1] \in Task
    BY <2>1, <2>2 DEF Task, Stages
  <2>4. tasks' = [tasks EXCEPT ![t] = [tasks[t] EXCEPT !.at = "backoff", !.retried = FALSE,
                                                       !.tries = @ + 1]]
    BY <1>1, TypeFacts DEF BacksOff
  <2>5. tasks' \in [Tasks -> Task]
    BY <2>3, <2>4, TypeFacts
  <2>. QED  BY <1>1, <2>5, KeepsTypes
            DEF BacksOff, screenVars, ghostVars, RequestTyped
<1>. QED  BY <1>1, GivesUpTyped DEF RetriesOrGivesUp

\* Every step keeps the types: the interceptor and the refreshes.
LEMMA RespondsTyped ==
    ASSUME TypeOK, NEW t \in Tasks, Responds(t)
    PROVE  Typed
<1>f. tasks \in [Tasks -> Task] /\ tasks[t] \in Task /\ tasks[t].who \in Somebody
      /\ store.token \in Somebody
  BY TypeFacts, CountsTyped
<1>1. CASE Answered(t)
  BY <1>1, SucceedsTyped, KeepsTypes DEF Answered, RequestTyped, Typed
<1>2. CASE Fails(t) \/ Rejected(t)
  BY <1>2, RetriesOrGivesUpTyped, GivesUpTyped, KeepsTypes
     DEF Fails, Rejected, RequestTyped, Typed
<1>3. CASE RefusedAgain(t)
  BY <1>3, GivesUpTyped, KeepsTypes DEF RefusedAgain, RequestTyped, Typed
<1>4. CASE Queues(t)
  <2>1. [tasks[t] EXCEPT !.at = "queued"] \in Task
    BY <1>f DEF Task, Stages
  <2>2. tasks' \in [Tasks -> Task]
    BY <1>4, <1>f, <2>1 DEF Queues
  <2>. QED  BY <1>4, <2>2, KeepsTypes DEF Queues, screenVars, ghostVars, Typed
<1>5. CASE Renewing(t)
  <2>1. [tasks[t] EXCEPT !.at = "renewing", !.retried = TRUE, !.who = store.token] \in Task
    BY <1>f DEF Task, Stages
  <2>2. tasks' \in [Tasks -> Task]
    <3>1. tasks' = [tasks EXCEPT ![t] = [tasks[t] EXCEPT !.at = "renewing", !.retried = TRUE,
                                                         !.who = store.token]]
      BY <1>5, <1>f DEF Renewing
    <3>. QED  BY <1>f, <2>1, <3>1
  <2>. QED  BY <1>5, <2>2, KeepsTypes DEF Renewing, screenVars, ghostVars, Typed
<1>6. CASE NothingToRenew(t) \/ RenewFails(t)
  <2>1. Expires(t) /\ UNCHANGED <<use, known>> /\ (UNCHANGED faults \/ Fault)
    BY <1>6 DEF NothingToRenew, RenewFails
  <2>2. store' \in Store /\ tasks' \in [Tasks -> Task]
    BY <2>1, ExpiresTyped
  <2>. QED  BY <2>1, <2>2, KeepsTypes DEF Expires, HidesAll, Hides, Typed, Somebody
<1>7. CASE Renewed(t)
  <2>1. store' \in Store
    BY <1>7, <1>f, TypeFacts DEF Renewed, Renews, Store
  <2>2. tasks' \in [Tasks -> Task]
    <3>1. ASSUME NEW u \in Tasks PROVE Asked(tasks[u]) \in Task /\ tasks[u] \in Task
      BY <1>f, <2>1, AskedTask
    <3>. QED  BY <1>7, <3>1 DEF Renewed
  <2>. QED  BY <1>7, <2>1, <2>2, KeepsTypes, CountsTyped DEF Renewed, screenVars, Typed
<1>8. CASE Refreshed(t)
  <2>1. store' \in Store
    BY <1>8, <1>f, TypeFacts DEF Refreshed, Renews, Store
  <2>2. tasks' \in [Tasks -> Task]
    <3>1. Asked(tasks[t]) \in Task
      BY <1>f, <2>1, AskedTask
    <3>. QED  BY <1>8, <1>f, <3>1, EndsTyped DEF Refreshed, Ends
  <2>3. refreshTimer' \in {"none", "armed", "fired"} /\ due' \in BOOLEAN
    BY <1>8, KeepsTypes DEF Refreshed, Arms
  <2>. QED  BY <1>8, <2>1, <2>2, <2>3, KeepsTypes, CountsTyped DEF Refreshed, Typed
<1>9. CASE RefreshFails(t)
  <2>1. store' \in Store /\ tasks' \in [Tasks -> Task]
    BY <1>9, EndsClearedTyped DEF RefreshFails
  <2>2. loading' \in BOOLEAN
    BY <1>9 DEF RefreshFails, TypeOK
  <2>. QED  BY <1>9, <2>1, <2>2, KeepsTypes
            DEF RefreshFails, HidesAll, Hides, Typed, Somebody
<1>10. CASE RetriesProfile(t)
  <2>1. store' \in Store
    BY <1>10, KeepsTypes DEF RetriesProfile
  <2>2. [tasks[t] EXCEPT !.late = FALSE] \in Task
    BY <1>f DEF Task
  <2>3. Asked([tasks[t] EXCEPT !.late = FALSE]) \in Task
    BY <2>1, <2>2, AskedTask
  <2>4. tasks' \in [Tasks -> Task]
    BY <1>10, <1>f, <2>3 DEF RetriesProfile
  <2>. QED  BY <1>10, <2>4, KeepsTypes DEF RetriesProfile, screenVars, ghostVars, Typed
<1>. QED
  BY <1>1, <1>2, <1>3, <1>4, <1>5, <1>6, <1>7, <1>8, <1>9, <1>10 DEF Responds

\* What a click or a timer starts.
LEMMA StartsTyped ==
    ASSUME TypeOK, NEW t \in Tasks,
           NEW o \in use.does \cup {"login", "load", "init", "timer"}, NEW a \in Stages,
           tasks' = [tasks EXCEPT ![t] = [Idle EXCEPT !.op = o, !.at = a,
                                                      !.who = store.token]]
    PROVE  tasks' \in [Tasks -> Task]
BY StartedTask, TypeFacts

\* Every step keeps the types: AuthContext, the user and the browser.
LEMMA OthersTyped ==
    ASSUME TypeOK, NEW t \in Tasks,
           \/ InitializeOld(t) \/ TimerFires(t)
           \/ \E op \in {"page", "profile", "load"} : Asks(t, op)
           \/ Arrives(t) \/ StartsLogout(t) \/ StartsLogoutAll(t) \/ StartsLogin(t)
    PROVE  Typed
<1>. USE DEF Typed
<1>1. CASE InitializeOld(t)
  <2>1. tasks' \in [Tasks -> Task]
    BY <1>1, StartsTyped DEF InitializeOld, Stages
  <2>. QED  BY <1>1, <2>1, KeepsTypes DEF InitializeOld, ghostVars
<1>2. CASE TimerFires(t)
  <2>1. tasks' \in [Tasks -> Task]
    BY <1>2, StartsTyped, KeepsTypes DEF TimerFires, Stages
  <2>2. shown' \in Somebody /\ arriving' \in BOOLEAN
    BY <1>2, KeepsTypes DEF TimerFires, Hides, Somebody
  <2>. QED  BY <1>2, <2>1, <2>2, KeepsTypes DEF TimerFires, ghostVars
<1>3. CASE \E op \in {"page", "profile", "load"} : Asks(t, op)
  <2>1. tasks' \in [Tasks -> Task]
    BY <1>3, StartsTyped DEF Asks, Starts, Stages
  <2>. QED  BY <1>3, <2>1, KeepsTypes DEF Asks, Starts, screenVars, ghostVars
<1>4. CASE Arrives(t)
  <2>1. tasks' \in [Tasks -> Task]
    BY <1>4, StartsTyped DEF Arrives, Starts, Stages
  <2>. QED  BY <1>4, <2>1, KeepsTypes DEF Arrives, Starts, ghostVars
<1>5. CASE StartsLogout(t)
  <2>1. tasks' \in [Tasks -> Task]
    BY <1>5, StartsTyped DEF StartsLogout, Starts, Stages
  <2>2. due' \in BOOLEAN
    BY <1>5 DEF StartsLogout, TypeOK
  <2>. QED  BY <1>5, <2>1, <2>2, KeepsTypes DEF StartsLogout, Starts, ghostVars
<1>6. CASE StartsLogoutAll(t)
  <2>1. tasks' \in [Tasks -> Task]
    BY <1>6, StartsTyped DEF StartsLogoutAll, Starts, Stages
  <2>. QED  BY <1>6, <2>1, KeepsTypes DEF StartsLogoutAll, Starts, screenVars, ghostVars
<1>7. CASE StartsLogin(t)
  <2>1. tasks' \in [Tasks -> Task]
    BY <1>7, StartsTyped DEF StartsLogin, Starts, Stages
  <2>. QED  BY <1>7, <2>1, KeepsTypes DEF StartsLogin, Starts, ghostVars
<1>. QED  BY <1>1, <1>2, <1>3, <1>4, <1>5, <1>6, <1>7

\* Every step keeps the types: what no asynchronous function does.
LEMMA BrowserTyped ==
    ASSUME TypeOK,
           \/ Initialize \/ Ages \/ Reload \/ PopupFails
           \/ \E u \in use.by : UserDeleted(u) \/ PopupAnswers(u)
    PROVE  Typed
<1>. USE DEF Typed
<1>1. CASE Initialize
  <2>1. shown' \in Somebody /\ refreshTimer' \in {"none", "armed", "fired"}
        /\ due' \in BOOLEAN /\ arriving' \in BOOLEAN
    BY <1>1, KeepsTypes, TypeFacts DEF Initialize, TypeOK
  <2>. QED  BY <1>1, <2>1, KeepsTypes DEF Initialize, ghostVars
<1>2. CASE Ages
  <2>1. store' \in Store
    BY <1>2, TypeFacts DEF Ages, Store
  <2>. QED  BY <1>2, <2>1, KeepsTypes DEF Ages, screenVars, ghostVars
<1>3. CASE Reload
  <2>1. tasks' \in [Tasks -> Task]
    BY <1>3, IdleTask DEF Reload
  <2>. QED  BY <1>3, <2>1, KeepsTypes DEF Reload, ghostVars, Somebody
<1>4. CASE PopupFails
  <2>1. tasks' \in [Tasks -> Task]
    BY <1>4, IdleTask, TypeFacts DEF PopupFails
  <2>. QED  BY <1>4, <2>1, KeepsTypes DEF PopupFails, Hides, ghostVars, Somebody
<1>5. ASSUME NEW u \in use.by, UserDeleted(u) PROVE Typed
  <2>1. known' \subseteq Users
    BY <1>5 DEF UserDeleted, TypeOK
  <2>. QED  BY <1>5, <2>1, KeepsTypes DEF UserDeleted, screenVars, ghostVars
<1>6. ASSUME NEW u \in use.by, PopupAnswers(u) PROVE Typed
  <2>1. u \in Users
    <3>1. use \in Uses
      BY DEF TypeOK
    <3>. QED  BY <3>1, BrowserSessionAssumption
  <2>2. store' \in Store
    BY <1>6, <2>1 DEF PopupAnswers, Store, Somebody
  <2>3. known' \subseteq Users /\ revived' \in BOOLEAN
    BY <1>6, <2>1 DEF PopupAnswers, TypeOK
  <2>4. tasks' \in [Tasks -> Task]
    <3>1. ASSUME NEW t \in Tasks PROVE Asked(tasks[t]) \in Task /\ Late(tasks)[t] \in Task
      BY <2>2, TypeFacts, AskedTask, LateTasks
    <3>. QED  BY <1>6, <3>1 DEF PopupAnswers
  <2>. QED  BY <1>6, <2>2, <2>3, <2>4, KeepsTypes DEF PopupAnswers, screenVars
<1>. QED  BY <1>1, <1>2, <1>3, <1>4, <1>5, <1>6

\* Every step keeps the types.
LEMMA TypeStep == TypeOK /\ [Next]_vars => TypeOK'
<1>. SUFFICES ASSUME TypeOK, [Next]_vars PROVE TypeOK'
  OBVIOUS
<1>1. CASE Next
  BY <1>1, RespondsTyped, OthersTyped, BrowserTyped, TypedSuffices DEF Next
<1>2. CASE UNCHANGED vars
  BY <1>2 DEF vars, screenVars, ghostVars, TypeOK
<1>. QED  BY <1>1, <1>2

\* The types hold when nobody has signed in yet.
LEMMA InitType == Init => TypeOK
<1>. SUFFICES ASSUME Init PROVE TypeOK
  OBVIOUS
<1>1. use \in Uses /\ tasks = [t \in Tasks |-> Idle]
  BY DEF Init
<1>2. Idle \in Task
  BY BrowserSessionAssumption DEF Idle, Task, Stages, Somebody
<1>3. tasks \in [Tasks -> Task]
  BY <1>1, <1>2
<1>. QED  BY <1>1, <1>3, EmptyStored DEF Init, TypeOK, Task, Stages, Store, Somebody

\* All pieces of the tab keep their types; in particular no more attempts are
\* made for a profile than retryWithBackoff allows.
THEOREM SessionTypeCorrect == Spec => []TypeOK
BY InitType, TypeStep, PTL DEF Spec

-----------------------------------------------------------------------------
(* Whose calls are under way *)

\* Only logins wait for the popup; what refreshes has tokens to refresh; and a
\* call that is not late was sent for the owner of the tokens in the storage,
\* until an answer to a late one counted.
Owned(t) ==
    /\ tasks[t].at = "popup" => tasks[t].op = "login"
    /\ tasks[t].at \in {"renewing", "refreshing"} => tasks[t].who # None
    /\ \/ revived
       \/ tasks[t].at \in {"idle", "popup"}
       \/ tasks[t].late
       \/ tasks[t].who = store.token

CallsAreOwned == \A t \in Tasks : Owned(t)

\* agent_info is the owner's too.
AgentIsOwner == ~revived => store.agent \in {None, store.token}

TabInv == CallsAreOwned /\ AgentIsOwner /\ SignedOutStaysOut /\ ScreenShowsOwner

\* A task that ended is owned.
LEMMA IdleOwned ==
    ASSUME NEW t \in Tasks, tasks'[t] = Idle
    PROVE  Owned(t)'
BY DEF Owned, Idle

\* A task a step leaves alone stays owned, as long as the tokens' owner stays.
LEMMA OwnedKept ==
    ASSUME TabInv, NEW t \in Tasks, tasks'[t] = tasks[t],
           store'.token = store.token, revived => revived'
    PROVE  Owned(t)'
BY DEF TabInv, CallsAreOwned, Owned

\* A task that asks is owned: the request carries the tokens of now.
LEMMA AskedOwned ==
    ASSUME TypeOK, TypeOK', NEW t \in Tasks, NEW x \in Task, tasks'[t] = Asked(x)
    PROVE  Owned(t)' /\ tasks'[t].op = x.op
<1>1. tasks'[t] = [x EXCEPT !.at = "asked", !.who = store'.token]
  BY DEF Asked
<1>2. /\ tasks'[t].at = "asked"
      /\ tasks'[t].who = store'.token
      /\ tasks'[t].op = x.op
  BY <1>1 DEF Task
<1>. QED  BY <1>2 DEF Owned

\* What Late makes of a task: it is the same but for the mark, and unmarked
\* only when nothing runs.
LEMMA LateFacts ==
    ASSUME NEW ts \in [Tasks -> Task], NEW t \in Tasks
    PROVE  /\ Late(ts)[t].at = ts[t].at
           /\ Late(ts)[t].op = ts[t].op
           /\ Late(ts)[t].who = ts[t].who
           /\ Late(ts)[t].at = "idle" \/ Late(ts)[t].late
<1>1. Late(ts)[t] = [ts[t] EXCEPT !.late = ts[t] # Idle] /\ ts[t] \in Task
  BY DEF Late
<1>2. /\ Late(ts)[t].at = ts[t].at
      /\ Late(ts)[t].op = ts[t].op
      /\ Late(ts)[t].who = ts[t].who
  BY <1>1 DEF Task
<1>3. CASE ts[t] = Idle
  BY <1>2, <1>3 DEF Idle
<1>4. CASE ts[t] # Idle
  <2>1. Late(ts)[t] = [ts[t] EXCEPT !.late = TRUE]
    BY <1>1, <1>4
  <2>. QED  BY <1>1, <1>2, <2>1 DEF Task
<1>. QED  BY <1>2, <1>3, <1>4

\* A late task stays owned, whatever happens to the tokens.
LEMMA LateOwned ==
    ASSUME TabInv, NEW ts \in [Tasks -> Task], NEW t \in Tasks,
           \/ /\ ts[t].at = tasks[t].at
              /\ ts[t].op = tasks[t].op
              /\ ts[t].who = tasks[t].who
           \/ ts[t].at \in {"idle", "rejected"},
           tasks'[t] = Late(ts)[t]
    PROVE  Owned(t)'
BY LateFacts DEF TabInv, CallsAreOwned, Owned

\* The screen stays right when nobody changes it and the tokens' owner stays.
LEMMA ScreenKept ==
    ASSUME TabInv, UNCHANGED <<shown, signedOut>>, store'.token = store.token,
           revived => revived',
           \A t \in Tasks : tasks[t].op = "login" => tasks'[t].op = "login"
    PROVE  ScreenShowsOwner'
BY DEF TabInv, ScreenShowsOwner

\* Steps that leave the tokens' owner alone.
LEMMA OwnerKept ==
    ASSUME TabInv, store'.token = store.token,
           \/ store'.agent = store.agent
           \/ revived'
           \/ store'.agent = store.token,
           UNCHANGED signedOut, revived => revived',
           CallsAreOwned', ScreenShowsOwner'
    PROVE  TabInv'
BY DEF TabInv, AgentIsOwner, SignedOutStaysOut

\* Steps that clear the tokens.
LEMMA OwnerCleared ==
    ASSUME store' = EmptyStore, CallsAreOwned', ScreenShowsOwner'
    PROVE  TabInv'
BY DEF TabInv, AgentIsOwner, SignedOutStaysOut, EmptyStore

\* An asynchronous function that ends and leaves the storage to its owner.
LEMMA EndsOwned ==
    ASSUME TypeOK, TabInv, NEW t \in Tasks, Ends(t), store'.token = store.token,
           revived => revived'
    PROVE  CallsAreOwned'
<1>1. ASSUME NEW u \in Tasks PROVE tasks'[u] = Idle \/ tasks'[u] = tasks[u]
  BY TypeFacts DEF Ends
<1>2. ASSUME NEW u \in Tasks PROVE Owned(u)'
  BY <1>1, IdleOwned, OwnedKept
<1>. QED  BY <1>2 DEF CallsAreOwned

\* An asynchronous function that ends and clears the tokens.
LEMMA EndsClearedOwned ==
    ASSUME TypeOK, TabInv, NEW t \in Tasks, EndsCleared(t)
    PROVE  CallsAreOwned'
<1>. DEFINE ts == [tasks EXCEPT ![t] = Idle]
<1>1. ts \in [Tasks -> Task]
  BY EndsTyped
<1>2. ASSUME NEW u \in Tasks PROVE Owned(u)'
  <2>1. tasks'[u] = Late(ts)[u]
    BY DEF EndsCleared
  <2>2. \/ ts[u] = tasks[u]
        \/ ts[u].at = "idle"
    BY TypeFacts DEF Idle
  <2>. QED  BY <1>1, <2>1, <2>2, LateOwned
<1>. QED  BY <1>2 DEF CallsAreOwned

\* A refresh that fails clears the tokens under those that wait for it.
LEMMA ExpiresOwned ==
    ASSUME TypeOK, TabInv, NEW t \in Tasks, Expires(t)
    PROVE  TabInv'
<1>. DEFINE ts == [u \in Tasks |-> IF u \in Waiting(t)
                       THEN [tasks[u] EXCEPT !.at = "rejected", !.retried = @ \/ u = t]
                       ELSE tasks[u]]
<1>1. ASSUME NEW u \in Tasks
      PROVE  ts[u] \in Task /\ (ts[u] = tasks[u] \/ ts[u].at = "rejected")
  <2>1. tasks[u] \in Task /\ (tasks[u].retried \/ u = t) \in BOOLEAN
    BY TypeFacts
  <2>. QED  BY <2>1 DEF Task, Stages
<1>2. ts \in [Tasks -> Task]
  BY <1>1
<1>3. tasks' = Late(ts)
  BY DEF Expires
<1>4. ASSUME NEW u \in Tasks PROVE Owned(u)'
  <2>1. tasks'[u] = Late(ts)[u]
    BY <1>3
  <2>. QED  BY <1>1, <1>2, <2>1, LateOwned
<1>5. ScreenShowsOwner'
  BY DEF Expires, HidesAll, Hides, ScreenShowsOwner
<1>. QED  BY <1>4, <1>5, OwnerCleared DEF Expires, ClearAuth, CallsAreOwned

\* Signing out clears the tokens; only logoutAll leaves the screen as it is.
LEMMA LogsOutOwned ==
    ASSUME TypeOK, TabInv, NEW t \in Tasks, LogsOut(t) \/ LogsOutEverywhere(t)
    PROVE  TabInv'
<1>1. CallsAreOwned' /\ store' = EmptyStore
  BY EndsClearedOwned DEF LogsOut, LogsOutEverywhere, EndsCleared, ClearAuth
<1>2. ScreenShowsOwner'
  BY <1>1 DEF LogsOut, LogsOutEverywhere, HidesAll, Hides, EmptyStore, ScreenShowsOwner
<1>. QED  BY <1>1, <1>2, OwnerCleared

\* Other functions than t go on.
LEMMA OthersGoOn ==
    ASSUME TypeOK, NEW t \in Tasks, Ends(t), tasks[t].op # "login"
    PROVE  \A u \in Tasks : tasks[u].op = "login" => tasks'[u].op = "login"
BY TypeFacts DEF Ends

\* A call that was answered and is not late is the owner's.
LEMMA AnswerOwned ==
    ASSUME TypeOK, TabInv, NEW t \in Tasks, tasks[t].at = "asked", Counts(tasks[t])
    PROVE  /\ revived => revived'
           /\ revived' \/ (tasks[t].who = store.token /\ ~revived)
BY DEF TabInv, CallsAreOwned, Owned, Counts

\* An answer shows or stores only what is the owner's, or counts as late.
LEMMA SucceedsOwned ==
    ASSUME TypeOK, TabInv, NEW t \in Tasks, tasks[t].at = "asked", Succeeds(t)
    PROVE  TabInv'
<1>1. CASE tasks[t].op = "page" /\ Ends(t) /\ UNCHANGED <<store, screenVars, ghostVars>>
  BY <1>1, EndsOwned, OthersGoOn, ScreenKept, OwnerKept DEF screenVars, ghostVars
<1>2. CASE /\ tasks[t].op = "load"
           /\ store' = [store EXCEPT !.agent = tasks[t].who]
           /\ Counts(tasks[t])
           /\ Ends(t)
           /\ UNCHANGED <<screenVars, signedOut>>
  <2>1. store'.token = store.token /\ store'.agent = tasks[t].who
    BY <1>2, TypeFacts DEF Store
  <2>2. CallsAreOwned' /\ ScreenShowsOwner'
    BY <1>2, <2>1, AnswerOwned, EndsOwned, OthersGoOn, ScreenKept DEF screenVars
  <2>. QED  BY <1>2, <2>1, <2>2, AnswerOwned, OwnerKept
<1>3. CASE /\ shown' = IF shown = None THEN None ELSE tasks[t].who
           /\ Counts(tasks[t])
           /\ Ends(t)
           /\ UNCHANGED <<store, loading, refreshTimer, due, arriving, signedOut>>
  <2>1. ScreenShowsOwner'
    BY <1>3, AnswerOwned DEF ScreenShowsOwner
  <2>. QED  BY <1>3, <2>1, AnswerOwned, EndsOwned, OwnerKept
<1>4. CASE Enters(t)
  <2>1. ScreenShowsOwner'
    BY <1>4, AnswerOwned DEF Enters, ScreenShowsOwner
  <2>. QED  BY <1>4, <2>1, AnswerOwned, EndsOwned, OwnerKept DEF Enters
<1>. QED  BY <1>1, <1>2, <1>3, <1>4, LogsOutOwned DEF Succeeds

\* Whoever gives up either changes nothing, or hides the screen.
LEMMA GivesUpOwned ==
    ASSUME TypeOK, TabInv, NEW t \in Tasks, GivesUp(t)
    PROVE  TabInv'
<1>1. CASE /\ tasks[t].op \in {"page", "load", "profile"}
           /\ Ends(t)
           /\ UNCHANGED <<store, screenVars, ghostVars>>
  BY <1>1, EndsOwned, OthersGoOn, ScreenKept, OwnerKept DEF screenVars, ghostVars
<1>2. CASE /\ Ends(t)
           /\ Hides
           /\ loading' = FALSE
           /\ UNCHANGED <<store, refreshTimer, due, ghostVars>>
  <2>1. ScreenShowsOwner'
    BY <1>2 DEF Hides, ScreenShowsOwner
  <2>. QED  BY <1>2, <2>1, EndsOwned, OwnerKept DEF ghostVars
<1>3. CASE /\ EndsCleared(t)
           /\ HidesAll
           /\ loading' = FALSE
           /\ UNCHANGED <<refreshTimer, due, signedOut>>
  <2>1. ScreenShowsOwner'
    BY <1>3 DEF HidesAll, Hides, ScreenShowsOwner
  <2>. QED  BY <1>3, <2>1, EndsClearedOwned, OwnerCleared DEF EndsCleared, ClearAuth
<1>. QED  BY <1>1, <1>2, <1>3, LogsOutOwned DEF GivesUp

\* Before another attempt nothing changes hands.
LEMMA RetriesOrGivesUpOwned ==
    ASSUME TypeOK, TabInv, NEW t \in Tasks, tasks[t].at \in {"asked", "rejected"},
           RetriesOrGivesUp(t)
    PROVE  TabInv'
<1>1. CASE BacksOff(t)
  <2>1. /\ tasks'[t].at = "backoff"
        /\ tasks'[t].op = tasks[t].op
        /\ tasks'[t].who = tasks[t].who
        /\ tasks'[t].late = tasks[t].late
    BY <1>1, TypeFacts DEF BacksOff, Task
  <2>2. ASSUME NEW u \in Tasks, u # t PROVE tasks'[u] = tasks[u]
    BY <1>1, <2>2, TypeFacts DEF BacksOff
  <2>3. UNCHANGED <<store, shown, signedOut, revived>>
    BY <1>1 DEF BacksOff, screenVars, ghostVars
  <2>4. Owned(t)'
    BY <2>1, <2>3 DEF TabInv, CallsAreOwned, Owned
  <2>5. CallsAreOwned'
    BY <2>2, <2>3, <2>4, OwnedKept DEF CallsAreOwned
  <2>6. ScreenShowsOwner'
    BY <2>1, <2>2, <2>3, ScreenKept
  <2>. QED  BY <2>3, <2>5, <2>6, OwnerKept
<1>. QED  BY <1>1, GivesUpOwned DEF RetriesOrGivesUp

\* A refresh whose answer is stored renews the owner's tokens, or is late.
LEMMA RenewalOwned ==
    ASSUME TypeOK, TabInv, NEW t \in Tasks,
           tasks[t].at \in {"renewing", "refreshing"},
           Renews(tasks[t].who), Counts(tasks[t]), UNCHANGED <<shown, signedOut>>,
           CallsAreOwned',
           \A u \in Tasks : tasks[u].op = "login" => tasks'[u].op = "login"
    PROVE  TabInv'
<1>1. store'.token = tasks[t].who /\ store'.agent = store.agent
  BY TypeFacts DEF Renews, Store
<1>2. CASE revived'
  BY <1>2 DEF TabInv, CallsAreOwned, AgentIsOwner, SignedOutStaysOut, ScreenShowsOwner
<1>3. CASE ~revived'
  <2>1. ~revived /\ ~tasks[t].late
    BY <1>3 DEF Counts
  <2>2. store'.token = store.token
    BY <1>1, <2>1 DEF TabInv, CallsAreOwned, Owned
  <2>3. ScreenShowsOwner'
    BY <2>1, <2>2, ScreenKept
  <2>. QED  BY <1>1, <2>1, <2>2, <2>3, OwnerKept
<1>. QED  BY <1>2, <1>3

\* The interceptor and the refreshes keep the invariant.
LEMMA RespondsOwned ==
    ASSUME TypeOK, TypeOK', TabInv, NEW t \in Tasks, Responds(t)
    PROVE  TabInv'
<1>f. tasks \in [Tasks -> Task] /\ tasks[t] \in Task
  BY TypeFacts
<1>1. CASE Answered(t)
  BY <1>1, SucceedsOwned DEF Answered
<1>2. CASE Fails(t) \/ Rejected(t)
  BY <1>2, RetriesOrGivesUpOwned, GivesUpOwned DEF Fails, Rejected
<1>3. CASE RefusedAgain(t)
  BY <1>3, GivesUpOwned DEF RefusedAgain
<1>4. CASE Queues(t)
  <2>1. UNCHANGED <<store, shown, signedOut, revived>>
    BY <1>4 DEF Queues, screenVars, ghostVars
  <2>2. ASSUME NEW u \in Tasks, u # t PROVE tasks'[u] = tasks[u]
    BY <1>4, <1>f, <2>2 DEF Queues
  <2>3. /\ tasks'[t].at = "queued"
        /\ tasks'[t].op = tasks[t].op
        /\ tasks'[t].who = tasks[t].who
        /\ tasks'[t].late = tasks[t].late
    BY <1>4, <1>f DEF Queues, Task
  <2>4. Owned(t)'
    BY <1>4, <2>1, <2>3 DEF Queues, TabInv, CallsAreOwned, Owned
  <2>5. CallsAreOwned'
    BY <2>1, <2>2, <2>4, OwnedKept DEF CallsAreOwned
  <2>6. ScreenShowsOwner'
    BY <2>1, <2>2, <2>3, ScreenKept
  <2>. QED  BY <2>1, <2>5, <2>6, OwnerKept
<1>5. CASE Renewing(t)
  <2>1. UNCHANGED <<store, shown, signedOut, revived>> /\ store.token # None
    BY <1>5 DEF Renewing, screenVars, ghostVars
  <2>2. ASSUME NEW u \in Tasks, u # t PROVE tasks'[u] = tasks[u]
    BY <1>5, <1>f, <2>2 DEF Renewing
  <2>3. /\ tasks'[t].at = "renewing"
        /\ tasks'[t].op = tasks[t].op
        /\ tasks'[t].who = store.token
    BY <1>5, <1>f DEF Renewing, Task
  <2>4. Owned(t)'
    BY <2>1, <2>3 DEF Owned
  <2>5. CallsAreOwned'
    BY <2>1, <2>2, <2>4, OwnedKept DEF CallsAreOwned
  <2>6. ScreenShowsOwner'
    BY <2>1, <2>2, <2>3, ScreenKept
  <2>. QED  BY <2>1, <2>5, <2>6, OwnerKept
<1>6. CASE NothingToRenew(t) \/ RenewFails(t)
  BY <1>6, ExpiresOwned DEF NothingToRenew, RenewFails
<1>7. CASE Renewed(t)
  <2>1. ASSUME NEW u \in Tasks
        PROVE  \/ u \in Waiting(t) /\ tasks'[u] = Asked(tasks[u])
               \/ tasks'[u] = tasks[u]
    BY <1>7 DEF Renewed
  <2>2. ASSUME NEW u \in Tasks PROVE tasks'[u].op = tasks[u].op
    BY <1>f, <2>1, AskedOwned
  <2>3. CASE revived' \/ store'.token = store.token
    <3>1. revived => revived'
      BY <1>7 DEF Renewed, Counts
    <3>2. ASSUME NEW u \in Tasks PROVE Owned(u)'
      <4>1. CASE tasks'[u] = Asked(tasks[u])
        BY <1>f, <4>1, AskedOwned
      <4>2. CASE tasks'[u] = tasks[u]
        BY <2>3, <3>1, <4>2 DEF TabInv, CallsAreOwned, Owned
      <4>. QED  BY <2>1, <4>1, <4>2
    <3>. QED  BY <1>7, <2>2, <3>2, RenewalOwned DEF Renewed, CallsAreOwned, screenVars
  <2>4. revived' \/ store'.token = store.token
    BY <1>7, TypeFacts DEF Renewed, Counts, Renews, Store, TabInv, CallsAreOwned, Owned
  <2>. QED  BY <2>3, <2>4
<1>8. CASE Refreshed(t)
  <2>1. revived => revived'
    BY <1>8 DEF Refreshed, Counts
  <2>2. revived' \/ store'.token = store.token
    BY <1>8, TypeFacts DEF Refreshed, Counts, Renews, Store, TabInv, CallsAreOwned, Owned
  <2>3. /\ tasks'[t] = Idle \/ tasks'[t] = Asked(tasks[t])
        /\ \A u \in Tasks \ {t} : tasks'[u] = tasks[u]
    BY <1>8, <1>f DEF Refreshed, Ends
  <2>4. ASSUME NEW u \in Tasks PROVE Owned(u)'
    <3>1. CASE tasks'[u] = Idle
      BY <3>1, IdleOwned
    <3>2. CASE tasks'[u] = Asked(tasks[u])
      BY <1>f, <3>2, AskedOwned
    <3>3. CASE tasks'[u] = tasks[u]
      BY <2>1, <2>2, <3>3 DEF TabInv, CallsAreOwned, Owned
    <3>. QED  BY <2>3, <3>1, <3>2, <3>3
  <2>5. ASSUME NEW u \in Tasks, tasks[u].op = "login" PROVE tasks'[u].op = "login"
    <3>1. CASE u = t /\ tasks[t].op = "timer"
      BY <2>5, <3>1
    <3>2. CASE u = t /\ tasks[t].op # "timer"
      <4>1. tasks'[t] = Asked(tasks[t])
        BY <1>8, <1>f, <3>2 DEF Refreshed
      <4>. QED  BY <1>f, <2>5, <3>2, <4>1, AskedOwned
    <3>3. CASE u # t
      BY <2>3, <2>5, <3>3
    <3>. QED  BY <3>1, <3>2, <3>3
  <2>. QED  BY <1>8, <2>4, <2>5, RenewalOwned DEF Refreshed, CallsAreOwned
<1>9. CASE RefreshFails(t)
  <2>1. ScreenShowsOwner'
    BY <1>9 DEF RefreshFails, HidesAll, Hides, ScreenShowsOwner
  <2>. QED  BY <1>9, <2>1, EndsClearedOwned, OwnerCleared
            DEF RefreshFails, EndsCleared, ClearAuth
<1>10. CASE RetriesProfile(t)
  <2>. DEFINE x == [tasks[t] EXCEPT !.late = FALSE]
  <2>1. x \in Task /\ x.op = tasks[t].op
    BY <1>f DEF Task
  <2>2. tasks' = [tasks EXCEPT ![t] = Asked(x)]
    BY <1>10 DEF RetriesProfile
  <2>3. Owned(t)' /\ tasks'[t].op = tasks[t].op
    BY <1>f, <2>1, <2>2, AskedOwned
  <2>4. ASSUME NEW u \in Tasks, u # t PROVE tasks'[u] = tasks[u]
    BY <1>f, <2>2, <2>4
  <2>5. UNCHANGED <<store, shown, signedOut, revived>>
    BY <1>10 DEF RetriesProfile, screenVars, ghostVars
  <2>6. CallsAreOwned'
    BY <2>3, <2>4, <2>5, OwnedKept DEF CallsAreOwned
  <2>7. ScreenShowsOwner'
    BY <2>3, <2>4, <2>5, ScreenKept
  <2>. QED  BY <2>5, <2>6, <2>7, OwnerKept
<1>. QED
  BY <1>1, <1>2, <1>3, <1>4, <1>5, <1>6, <1>7, <1>8, <1>9, <1>10 DEF Responds

\* A function that starts while nothing else changes but the screen's shape.
LEMMA StartsOwned ==
    ASSUME TypeOK, TabInv, NEW t \in Tasks, tasks[t] = Idle,
           NEW o, NEW a \in Stages,
           tasks' = [tasks EXCEPT ![t] = [Idle EXCEPT !.op = o, !.at = a,
                                                      !.who = store.token]],
           a = "popup" => o = "login",
           a \in {"renewing", "refreshing"} => store.token # None,
           UNCHANGED <<store, signedOut, revived>>,
           shown' \in {shown, None}
    PROVE  TabInv'
<1>1. ASSUME NEW u \in Tasks, u # t PROVE tasks'[u] = tasks[u]
  BY <1>1, TypeFacts
<1>2. tasks'[t].at = a /\ tasks'[t].who = store.token
  BY TypeFacts DEF Idle
<1>3. tasks'[t].op = o /\ tasks[t].op = "none"
  BY TypeFacts DEF Idle
<1>4. Owned(t)'
  BY <1>2, <1>3 DEF Owned
<1>5. CallsAreOwned'
  BY <1>1, <1>4, OwnedKept DEF CallsAreOwned
<1>6. ScreenShowsOwner'
  <2>1. CASE shown' = shown
    BY <1>1, <1>3, <2>1, ScreenKept
  <2>2. CASE shown' = None
    BY <2>2 DEF ScreenShowsOwner
  <2>. QED  BY <2>1, <2>2
<1>. QED  BY <1>5, <1>6, OwnerKept

\* AuthContext's timers and the user's clicks keep the invariant.
LEMMA OthersOwned ==
    ASSUME TypeOK, TabInv, NEW t \in Tasks,
           \/ InitializeOld(t) \/ TimerFires(t)
           \/ \E op \in {"page", "profile", "load"} : Asks(t, op)
           \/ Arrives(t) \/ StartsLogout(t) \/ StartsLogoutAll(t) \/ StartsLogin(t)
    PROVE  TabInv'
<1>. USE DEF Stages
<1>1. CASE InitializeOld(t)
  BY <1>1, StartsOwned DEF InitializeOld, ghostVars
<1>2. CASE TimerFires(t)
  <2>1. CASE store.token = None
    <3>1. UNCHANGED <<tasks, store, signedOut, revived>> /\ shown' = None
      BY <1>2, <2>1 DEF TimerFires, Hides, ghostVars
    <3>2. CallsAreOwned'
      BY <3>1, OwnedKept DEF CallsAreOwned
    <3>. QED  BY <3>1, <3>2, OwnerKept DEF ScreenShowsOwner
  <2>2. CASE store.token # None
    BY <1>2, <2>2, StartsOwned DEF TimerFires, ghostVars
  <2>. QED  BY <2>1, <2>2
<1>3. CASE \E op \in {"page", "profile", "load"} : Asks(t, op)
  BY <1>3, StartsOwned DEF Asks, Starts, screenVars, ghostVars
<1>4. CASE Arrives(t)
  BY <1>4, StartsOwned DEF Arrives, Starts, ghostVars
<1>5. CASE StartsLogout(t)
  BY <1>5, StartsOwned DEF StartsLogout, Starts, ghostVars
<1>6. CASE StartsLogoutAll(t)
  BY <1>6, StartsOwned DEF StartsLogoutAll, Starts, screenVars, ghostVars
<1>7. CASE StartsLogin(t)
  BY <1>7, StartsOwned DEF StartsLogin, Starts, ghostVars
<1>. QED  BY <1>1, <1>2, <1>3, <1>4, <1>5, <1>6, <1>7

\* initializeAuth, the popup and the browser keep the invariant.
LEMMA BrowserOwned ==
    ASSUME TypeOK, TypeOK', TabInv,
           \/ Initialize \/ Ages \/ Reload \/ PopupFails
           \/ \E u \in use.by : UserDeleted(u) \/ PopupAnswers(u)
    PROVE  TabInv'
<1>1. CASE Initialize
  <2>1. UNCHANGED <<store, tasks, signedOut, revived>>
    BY <1>1 DEF Initialize, ghostVars
  <2>2. CallsAreOwned'
    BY <2>1, OwnedKept DEF CallsAreOwned
  <2>3. ScreenShowsOwner'
    <3>1. CASE UNCHANGED shown
      BY <2>1, <3>1, ScreenKept
    <3>2. CASE store.token # None /\ store.agent # None /\ shown' = store.agent
      BY <2>1, <3>2 DEF TabInv, AgentIsOwner, ScreenShowsOwner
    <3>. QED  BY <1>1, <3>1, <3>2 DEF Initialize
  <2>. QED  BY <2>1, <2>2, <2>3, OwnerKept
<1>2. CASE Ages
  <2>1. UNCHANGED <<shown, tasks, signedOut, revived>>
    BY <1>2 DEF Ages, screenVars, ghostVars
  <2>2. store'.token = store.token /\ store'.agent = store.agent
    BY <1>2, TypeFacts DEF Ages, Store
  <2>3. CallsAreOwned'
    BY <2>1, <2>2, OwnedKept DEF CallsAreOwned
  <2>. QED  BY <2>1, <2>2, <2>3, ScreenKept, OwnerKept
<1>3. CASE Reload
  <2>1. CallsAreOwned'
    BY <1>3, IdleOwned DEF Reload, CallsAreOwned
  <2>. QED  BY <1>3, <2>1, OwnerKept DEF Reload, ghostVars, ScreenShowsOwner
<1>4. CASE PopupFails
  <2>1. UNCHANGED <<store, signedOut, revived>> /\ shown' = None
    BY <1>4 DEF PopupFails, Hides, ghostVars
  <2>2. ASSUME NEW t \in Tasks PROVE Owned(t)'
    BY <1>4, <2>1, IdleOwned, OwnedKept DEF PopupFails
  <2>. QED  BY <2>1, <2>2, OwnerKept DEF CallsAreOwned, ScreenShowsOwner
<1>5. ASSUME NEW u \in use.by, UserDeleted(u) PROVE TabInv'
  <2>1. UNCHANGED <<store, shown, tasks, signedOut, revived>>
    BY <1>5 DEF UserDeleted, screenVars, ghostVars
  <2>2. CallsAreOwned'
    BY <2>1, OwnedKept DEF CallsAreOwned
  <2>. QED  BY <2>1, <2>2, ScreenKept, OwnerKept
<1>6. ASSUME NEW u \in use.by, PopupAnswers(u) PROVE TabInv'
  <2>1. store' = [token |-> u, old |-> FALSE, agent |-> u] /\ signedOut' = FALSE
    BY <1>6 DEF PopupAnswers
  <2>2. ASSUME NEW t \in Waits PROVE Owned(t)' /\ tasks'[t].op = "login"
    <3>1. tasks[t].op = "login" /\ tasks[t] \in Task /\ t \in Tasks
      BY <2>2, TypeFacts DEF Waits, TabInv, CallsAreOwned, Owned
    <3>2. tasks'[t] = Asked(tasks[t])
      BY <1>6, <2>2, <3>1 DEF PopupAnswers
    <3>. QED  BY <3>1, <3>2, AskedOwned
  <2>3. ASSUME NEW t \in Tasks \ Waits PROVE Owned(t)'
    <3>1. tasks'[t] = Late(tasks)[t]
      BY <1>6 DEF PopupAnswers
    <3>. QED  BY <3>1, LateOwned, TypeFacts
  <2>4. CallsAreOwned'
    BY <2>2, <2>3 DEF CallsAreOwned, Waits
  <2>5. ScreenShowsOwner'
    <3>1. PICK t \in Tasks : t \in Waits
      BY <1>6 DEF PopupAnswers, Waits
    <3>. QED  BY <2>2, <3>1 DEF ScreenShowsOwner
  <2>. QED  BY <2>1, <2>4, <2>5 DEF TabInv, AgentIsOwner, SignedOutStaysOut
<1>. QED  BY <1>1, <1>2, <1>3, <1>4, <1>5, <1>6

\* Every step of the tab, of the browser and of others keeps the invariant.
LEMMA TabStep == TypeOK /\ TypeOK' /\ TabInv /\ [Next]_vars => TabInv'
<1>. SUFFICES ASSUME TypeOK, TypeOK', TabInv, [Next]_vars PROVE TabInv'
  OBVIOUS
<1>1. CASE Next
  BY <1>1, RespondsOwned, OthersOwned, BrowserOwned DEF Next
<1>2. CASE UNCHANGED vars
  BY <1>2 DEF vars, screenVars, ghostVars, TabInv, CallsAreOwned, Owned,
       AgentIsOwner, SignedOutStaysOut, ScreenShowsOwner
<1>. QED  BY <1>1, <1>2

\* Nobody has signed in and nothing is under way.
LEMMA InitTab == Init => TabInv
<1>. SUFFICES ASSUME Init PROVE TabInv
  OBVIOUS
<1>1. ASSUME NEW t \in Tasks PROVE Owned(t)
  BY DEF Init, Idle, Owned
<1>. QED  BY <1>1 DEF Init, EmptyStore, TabInv, CallsAreOwned, AgentIsOwner,
                      SignedOutStaysOut, ScreenShowsOwner

\* The invariant always holds.
LEMMA TabInvariant == Spec => []TabInv
<1>1. Init => TypeOK /\ TabInv
  BY InitType, InitTab
<1>2. TypeOK /\ TabInv /\ [Next]_vars => TypeOK' /\ TabInv'
  BY TypeStep, TabStep
<1>. QED  BY <1>1, <1>2, PTL DEF Spec

\* Whoever signs out stays signed out, unless the answer to a call that was
\* under way then brings the tokens back.
THEOREM SigningOutLasts == Spec => []SignedOutStaysOut
<1>1. TabInv => SignedOutStaysOut
  BY DEF TabInv
<1>. QED  BY <1>1, TabInvariant, PTL

\* The user on the screen owns the tokens that the requests carry, however many
\* refreshes, timers and answers cross a sign-in or a sign-out.
THEOREM ScreenIsTheOwners == Spec => []ScreenShowsOwner
<1>1. TabInv => ScreenShowsOwner
  BY DEF TabInv
<1>. QED  BY <1>1, TabInvariant, PTL

=============================================================================
