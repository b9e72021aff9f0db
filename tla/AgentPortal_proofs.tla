-------------------------- MODULE AgentPortal_proofs --------------------------
(***************************************************************************)
(* Proofs about AgentPortal, for every number of users, requests, tokens   *)
(* and messages, any plan of calls, any interleaving of their statements   *)
(* and any number of faults.                                               *)
(***************************************************************************)
EXTENDS AgentPortal, FiniteSetTheorems, TLAPS

-----------------------------------------------------------------------------
(* The inductive invariant *)

\* A request is at a statement of the handler of its call.
StageOK(r) ==
    /\ at[r] \in {"exchange", "provision", "find"} => Is(r, "login")
    /\ at[r] = "demo" => Is(r, "demo")
    /\ at[r] \in {"insertUser", "insertSession"} => Enters(r)
    /\ at[r] = "refresh" => Is(r, "refresh")
    /\ at[r] = "auth" =>
           plan[r].op \in {"logout", "logoutAll", "sync", "assign", "transfer",
                           "send", "stats", "refreshStats"}
    /\ at[r] \in {"blacklist", "invalidate"} => Is(r, "logout")
    /\ at[r] \in {"list", "blacklistAll", "invalidateAll"} => Is(r, "logoutAll")
    /\ at[r] \in {"fetch", "findUser", "findAgain", "createUser", "updateUser"}
         => Is(r, "sync")
    /\ at[r] = "assign" => Is(r, "assign")
    /\ at[r] \in {"checkTarget", "transfer"} => Is(r, "transfer")
    /\ at[r] \in {"resolve", "track", "post", "mark"} => Is(r, "send")
    /\ at[r] \in {"validate", "load", "save"} => Is(r, "step")
    /\ at[r] \in {"check", "profile", "activate", "reset"} => Is(r, "complete")
    /\ at[r] \in {"getStats", "summary", "setStats"} => Is(r, "stats")
    /\ at[r] = "delStats" => Is(r, "refreshStats")

StageInv == \A r \in Requests : StageOK(r)

\* A token is issued by a request that ends with it.
TokenInv == \A r \in Requests :
                r \in issued \/ sessions[r] # None => at[r] = "done"

\* What an ended session leaves is accounted for.
EndedInv == \A t \in Tokens :
                sessions[t] = "inactive" => t \in blacklist \cup expired \cup late

\* A logout of all devices has dealt with the tokens it listed by the time it
\* ends the sessions; those made since then it does not know.
LogoutAllOK(r) ==
    /\ at[r] = "blacklistAll" => Active(User(r)) \subseteq listed[r] \cup late
    /\ at[r] = "invalidateAll" =>
           Active(User(r)) \subseteq blacklist \cup expired \cup late
    /\ \A t \in listed[r] : sessions[t] # None /\ Owner(t) = User(r)
    /\ Is(r, "logoutAll") /\ at[r] = "done" =>
           \A t \in listed[r] : sessions[t] = "inactive"

\* A logout has blacklisted its token before it ends the session.
LogoutOK(r) ==
    /\ at[r] = "invalidate" => Arg(r) \in blacklist \cup expired
    /\ Is(r, "logout") /\ at[r] \notin {"auth", "failed"} => Arg(r) \in issued
    /\ Is(r, "logout") /\ at[r] = "done" /\ faults = 0 =>
           /\ Arg(r) \in blacklist \cup expired
           /\ migrated /\ sessions[Arg(r)] = "active" => Arg(r) \in expired

SessionInv ==
    /\ TokenInv
    /\ EndedInv
    /\ \A r \in Requests : LogoutAllOK(r) /\ LogoutOK(r)

\* Another request provisions the same user.
Rivalled(r) ==
    \E s \in Requests \ {r} : Is(s, "sync") \/ (Enters(s) /\ User(s) = User(r))

\* A user has a tenant if it has a row, as who syncs does.
HomeInv ==
    /\ \A u \in Users : roles[u] = None <=> home[u] = None
    /\ \A r \in Requests :
           at[r] \in {"fetch", "findUser", "findAgain", "createUser", "updateUser"}
           => roles[User(r)] # None

\* A login inserts a user it did not find, with the tenant it was given.
LoginOK(r) ==
    /\ at[r] = "insertUser" /\ roles[User(r)] # None => Rivalled(r)
    /\ Enters(r) /\ at[r] = "failed" /\ faults = 0 =>
           \/ Rivalled(r)
           \/ home[User(r)] \notin {None, TenantOf(r)}
           \/ Is(r, "demo") /\ ~migrated
    /\ at[r] \in {"find", "insertUser"} => TenantOf(r) # None
    /\ Enters(r) /\ at[r] \in {"insertSession", "done"} =>
           home[User(r)] # None /\ home[User(r)] = TenantOf(r)

\* Another request, in the service together with sync r, writes an older role.
Overwritten(r, u) ==
    \/ \E s \in Requests \ before[r] :
           /\ Is(s, "sync") /\ fetched[s] = "agent"
           /\ at[s] \notin {"auth", "fetch"}
    \/ \E s \in Requests \ before[r] : Enters(s) /\ User(s) = u

\* The users a sync has dealt with.
Synced(r) ==
    IF at[r] \in {"findUser", "done"} THEN Users \ ({DemoUser} \cup todo[r])
    ELSE Users \ ({DemoUser} \cup todo[r] \cup {subject[r]})

SyncOK(r) ==
    /\ \A s \in before[r] : at[s] \in Ended
    /\ at[r] \in {"findAgain", "createUser", "updateUser"} => subject[r] \in Users
    /\ /\ Is(r, "sync") /\ fetched[r] = "admin" /\ faults = 0
       /\ at[r] \in {"findUser", "findAgain", "createUser", "updateUser", "done"}
       => \A u \in Synced(r) : roles[u] = "admin" \/ Overwritten(r, u)
    /\ /\ fetched[r] = "admin" /\ faults = 0
       /\ at[r] = "createUser" /\ roles[subject[r]] # None
       => roles[subject[r]] = "admin" \/ Overwritten(r, subject[r])
    /\ Is(r, "sync") /\ at[r] = "done" /\ faults = 0 => todo[r] = {}

UserInv == HomeInv /\ \A r \in Requests : LoginOK(r) /\ SyncOK(r)

\* The requests that have sent Genesys message m, or have failed to.
Senders(m) ==
    {r \in Requests : /\ Is(r, "send") /\ Arg(r) = m
                      /\ at[r] \in {"mark", "done", "failed"}}

MessageOK(m) ==
    /\ tracked[m] = "sent" => posted[m] > 0
    /\ posted[m] <= Cardinality(Senders(m))
    /\ tracked[m] = "queued" /\ faults = 0 =>
           \E r \in Requests : /\ Is(r, "send") /\ Arg(r) = m
                               /\ at[r] \in {"post", "mark"}

SendInv ==
    /\ \A r \in Requests : at[r] = "mark" => posted[Arg(r)] > 0
    /\ \A m \in Messages : MessageOK(m)

\* What the onboarding has on record, or a request has read of it, was saved.
OnboardingInv ==
    /\ Progress(onboarding) \subseteq saved
    /\ onboarded => saved = Steps
    /\ \A r \in Requests :
         /\ Progress(loaded[r]) \subseteq saved
         /\ at[r] \in {"profile", "activate"} => saved = Steps
         /\ at[r] = "reset" => onboarded
         /\ Is(r, "step") /\ at[r] = "done" /\ faults = 0 =>
                Arg(r) \in Progress(onboarding) \cup lost \/ onboarded

\* Statistics that are not of the last refresh or later are of a request the
\* refresh overtook.
StatsInv ==
    /\ refreshed <= activity
    /\ \A r \in overtaken : at[r] \in {"setStats"} \cup Ended
    /\ \A r \in Requests : at[r] = "setStats" /\ faults = 0 =>
           /\ counted[r] \in Counts
           /\ counted[r] >= refreshed \/ r \in overtaken
    /\ StatsExplained

IInv ==
    /\ TypeOK
    /\ StageInv
    /\ SessionInv
    /\ UserInv
    /\ AssignmentsExplained
    /\ SendInv
    /\ OnboardingInv
    /\ StatsInv

-----------------------------------------------------------------------------
(* The handlers, each with the statements it runs through and the variables *)
(* it leaves alone                                                          *)

LogsIn(r) ==
    \/ ExchangesCode(r) \/ Provisions(r) \/ FindsUser(r)
    \/ InsertsUser(r) \/ InsertsSession(r) \/ Refreshes(r)
EndsSessions(r) == LogsOut(r) \/ LogsOutEverywhere(r)
Syncs(r) == FetchesUsers(r) \/ FindsNext(r) \/ StoresUser(r)
Converses(r) == Assigns(r) \/ ChecksTarget(r) \/ Transfers(r)
Sends(r) == Tracks(r) \/ Posts(r) \/ MarksSent(r)
Onboards(r) ==
    \/ TriesCredentials(r) \/ LoadsState(r) \/ SavesStep(r)
    \/ ChecksSteps(r) \/ SavesProfile(r) \/ Activates(r) \/ Resets(r)
ShowsStats(r) ==
    ReadsStats(r) \/ AsksStateManager(r) \/ CachesStats(r) \/ RefreshesStats(r)
Disturbs(r) == Fails(r) \/ SkipsUser(r) \/ StatsFail(r)

LoginAt == {"exchange", "provision", "demo", "find", "insertUser",
            "insertSession", "refresh"}
LogoutAt == {"blacklist", "invalidate", "list", "blacklistAll", "invalidateAll"}
SyncAt == {"fetch", "findUser", "findAgain", "createUser", "updateUser"}
ConverseAt == {"assign", "checkTarget", "transfer"}
SendAt == {"resolve", "track", "post", "mark"}
OnboardAt == {"validate", "load", "save", "check", "profile", "activate", "reset"}
StatsAt == {"getStats", "summary", "setStats", "delStats"}

\* Request r goes from one of these statements to another or ends.
Moves(r, statements) ==
    /\ at[r] \in statements
    /\ \E s \in statements \cup Ended : at' = [at EXCEPT ![r] = s]

\* A step is one of a handler, a fault in one, or of the world around them.
LEMMA NextCases ==
    ASSUME [Next]_vars
    PROVE  \/ UNCHANGED vars
           \/ \E r \in Requests :
                 \/ Authenticates(r) \/ LogsIn(r) \/ EndsSessions(r) \/ Syncs(r)
                 \/ Converses(r) \/ Sends(r) \/ Onboards(r) \/ ShowsStats(r)
                 \/ Disturbs(r)
           \/ \E t \in Tokens : Expires(t)
           \/ Promotes \/ CountsGrow \/ StatsExpire \/ Crash \/ StateExpires
  BY DEF Next, Step, LogsIn, EndsSessions, Syncs, Converses, Sends, Onboards,
         ShowsStats, Disturbs

\* authenticate only looks, and sends the request on or away.
LEMMA AuthFrame ==
    ASSUME NEW r \in Requests, Authenticates(r)
    PROVE  /\ at[r] = "auth"
           /\ \E s \in {"blacklist", "list", "fetch", "assign", "checkTarget",
                        "resolve", "getStats", "delStats", "failed"} :
                 at' = [at EXCEPT ![r] = s]
           /\ Is(r, "logout") => Arg(r) \in issued
           /\ UNCHANGED <<otherVars, accountVars, assignments, uninvited,
                          messageVars, onboardingVars, syncVars, stepVars,
                          sessionVars, faults>>
<1> DEFINE next == CASE Is(r, "logout") -> "blacklist"
                     [] Is(r, "logoutAll") -> "list"
                     [] Is(r, "sync") -> "fetch"
                     [] Is(r, "assign") -> "assign"
                     [] Is(r, "transfer") -> "checkTarget"
                     [] Is(r, "stats") -> "getStats"
                     [] Is(r, "refreshStats") -> "delStats"
                     [] OTHER -> "resolve"
<1>1. next \in {"blacklist", "list", "fetch", "assign", "checkTarget",
                "resolve", "getStats", "delStats", "failed"}
  OBVIOUS
<1>2. at' = [at EXCEPT ![r] = next] \/ at' = [at EXCEPT ![r] = "failed"]
  BY DEF Authenticates, Goto
<1>3. \E s \in {"blacklist", "list", "fetch", "assign", "checkTarget",
                "resolve", "getStats", "delStats", "failed"} :
         at' = [at EXCEPT ![r] = s]
  <2> HIDE DEF next
  <2> QED
    BY <1>1, <1>2
<1> QED
  BY <1>3 DEF Authenticates

\* What a login or a refresh leaves alone.
LEMMA LoginFrame ==
    ASSUME NEW r \in Requests, LogsIn(r)
    PROVE  /\ Moves(r, LoginAt)
           /\ UNCHANGED <<otherVars, genesysRole, expired, blacklist,
                          assignments, uninvited, messageVars, onboardingVars,
                          syncVars, stepVars, listed, faults>>
<1>1. CASE ExchangesCode(r) \/ Provisions(r) \/ FindsUser(r)
  BY <1>1 DEF ExchangesCode, Provisions, FindsUser, Goto, Moves,
              LoginAt, Ended, accountVars, sessionVars
<1>2. CASE InsertsUser(r)
  BY <1>2 DEF InsertsUser, Goto, Moves, LoginAt, Ended, sessionVars
<1>3. CASE InsertsSession(r)
  BY <1>3 DEF InsertsSession, Goto, Moves, LoginAt, Ended
<1>4. CASE Refreshes(r)
  BY <1>4 DEF Refreshes, Goto, Moves, LoginAt, Ended, sessionVars
<1> QED
  BY <1>1, <1>2, <1>3, <1>4 DEF LogsIn

\* What the two logouts leave alone.
LEMMA LogoutFrame ==
    ASSUME NEW r \in Requests, EndsSessions(r)
    PROVE  /\ Moves(r, LogoutAt)
           /\ UNCHANGED <<otherVars, roles, home, genesysRole, issued, expired,
                          assignments, uninvited, messageVars, onboardingVars,
                          syncVars, stepVars, late, faults>>
<1>1. CASE Blacklists(r)
  BY <1>1 DEF Blacklists, Goto, Moves, LogoutAt, Ended, sessionVars
<1>2. CASE Invalidates(r)
  BY <1>2 DEF Invalidates, Goto, Moves, LogoutAt, Ended, sessionVars
<1>3. CASE Lists(r)
  BY <1>3 DEF Lists, Goto, Moves, LogoutAt, Ended, accountVars
<1>4. CASE BlacklistsAll(r)
  BY <1>4 DEF BlacklistsAll, Goto, Moves, LogoutAt, Ended, sessionVars
<1>5. CASE InvalidatesAll(r)
  BY <1>5 DEF InvalidatesAll, Goto, Moves, LogoutAt, Ended, sessionVars
<1> QED
  BY <1>1, <1>2, <1>3, <1>4, <1>5 DEF EndsSessions, LogsOut, LogsOutEverywhere

\* What a sync leaves alone: everything but the users' roles and its locals.
LEMMA SyncFrame ==
    ASSUME NEW r \in Requests, Syncs(r)
    PROVE  /\ Moves(r, SyncAt)
           /\ UNCHANGED <<otherVars, genesysRole, sessions, issued, expired,
                          blacklist, assignments, uninvited, messageVars,
                          onboardingVars, stepVars, sessionVars, faults>>
<1>1. CASE FetchesUsers(r)
  BY <1>1 DEF FetchesUsers, Goto, Moves, SyncAt, Ended, accountVars
<1>2. CASE FindsNext(r)
  BY <1>2 DEF FindsNext, Goto, Moves, SyncAt, Ended, accountVars
<1>3. CASE StoresUser(r)
  BY <1>3 DEF StoresUser, Goto, Moves, SyncAt, Ended
<1> QED
  BY <1>1, <1>2, <1>3 DEF Syncs

\* What assigning and transferring leave alone.
LEMMA ConverseFrame ==
    ASSUME NEW r \in Requests, Converses(r)
    PROVE  /\ Moves(r, ConverseAt)
           /\ UNCHANGED <<otherVars, accountVars, messageVars, onboardingVars,
                          syncVars, stepVars, sessionVars, faults>>
<1>1. CASE Assigns(r) \/ ChecksTarget(r)
  BY <1>1 DEF Assigns, ChecksTarget, Goto, Moves, ConverseAt, Ended
<1>2. CASE Transfers(r)
  BY <1>2 DEF Transfers, Goto, Moves, ConverseAt, Ended
<1> QED
  BY <1>1, <1>2 DEF Converses

\* What sending a message leaves alone.
LEMMA SendFrame ==
    ASSUME NEW r \in Requests, Sends(r)
    PROVE  /\ Moves(r, SendAt)
           /\ UNCHANGED <<otherVars, accountVars, assignments, uninvited,
                          onboardingVars, syncVars, stepVars, sessionVars,
                          faults>>
  BY DEF Sends, Tracks, Posts, MarksSent, Goto, Moves, SendAt, Ended

\* What the onboarding leaves alone.
LEMMA OnboardFrame ==
    ASSUME NEW r \in Requests, Onboards(r)
    PROVE  /\ Moves(r, OnboardAt)
           /\ UNCHANGED <<otherVars, accountVars, assignments, uninvited,
                          messageVars, syncVars, sessionVars, faults>>
<1>1. CASE TriesCredentials(r) \/ ChecksSteps(r) \/ SavesProfile(r)
  BY <1>1 DEF TriesCredentials, ChecksSteps, SavesProfile, Goto, Moves,
              OnboardAt, Ended
<1>2. CASE LoadsState(r) \/ SavesStep(r)
  BY <1>2 DEF LoadsState, SavesStep, Goto, Moves, OnboardAt, Ended
<1>3. CASE Activates(r) \/ Resets(r)
  BY <1>3 DEF Activates, Resets, Goto, Moves, OnboardAt, Ended
<1> QED
  BY <1>1, <1>2, <1>3 DEF Onboards

\* What the dashboard leaves alone.
LEMMA StatsFrame ==
    ASSUME NEW r \in Requests, ShowsStats(r)
    PROVE  /\ Moves(r, StatsAt)
           /\ UNCHANGED <<elsewhereVars, activity, faults>>
<1>1. CASE ReadsStats(r) \/ AsksStateManager(r)
  BY <1>1 DEF ReadsStats, AsksStateManager, Goto, Moves, StatsAt, Ended
<1>2. CASE CachesStats(r) \/ RefreshesStats(r)
  BY <1>2 DEF CachesStats, RefreshesStats, Goto, Moves, StatsAt, Ended
<1> QED
  BY <1>1, <1>2 DEF ShowsStats

\* Where a handler goes on after a fault.
AfterFault(s) ==
    CASE s \in {"blacklist", "invalidate", "save", "mark", "reset", "setStats",
                "delStats"} -> "done"
      [] s = "load" -> "save"
      [] s = "getStats" -> "summary"
      [] s = "summary" -> "setStats"
      [] s \in {"findUser", "findAgain", "createUser", "updateUser"} -> "findUser"
      [] OTHER -> "failed"

\* A fault in a handler changes where it is, and little else.
LEMMA FaultFrame ==
    ASSUME NEW r \in Requests, Disturbs(r)
    PROVE  /\ Fault
           /\ at[r] \notin Ended
           /\ at' = [at EXCEPT ![r] = AfterFault(at[r])]
           /\ \/ UNCHANGED posted
              \/ /\ at[r] = "post"
                 /\ posted' = [posted EXCEPT ![Arg(r)] = @ + 1]
           /\ \/ UNCHANGED todo
              \/ /\ at[r] = "findUser"
                 /\ \E u \in todo[r] : todo' = [todo EXCEPT ![r] = @ \ {u}]
           /\ \/ UNCHANGED counted
              \/ /\ at[r] = "summary"
                 /\ counted' = [counted EXCEPT ![r] = Zeros]
           /\ UNCHANGED <<givenVars, stats, activity, refreshed, overtaken,
                          accountVars, assignments, uninvited, tracked,
                          onboardingVars, subject, fetched, before, stepVars,
                          sessionVars>>
<1>1. CASE Fails(r)
  <2>1. at[r] \notin Ended \cup {"findUser", "findAgain", "createUser",
                                 "updateUser", "summary"}
    BY <1>1 DEF Fails, Running
  <2>2. at' = [at EXCEPT ![r] = AfterFault(at[r])]
    BY <1>1, <2>1 DEF Fails, Goto, AfterFault
  <2> QED
    BY <1>1, <2>1, <2>2 DEF Fails, otherVars, dashboardVars, syncVars
<1>2. CASE SkipsUser(r)
  <2>1. at[r] \in {"findUser", "findAgain", "createUser", "updateUser"}
    BY <1>2 DEF SkipsUser
  <2>2. at' = [at EXCEPT ![r] = AfterFault(at[r])]
    BY <1>2, <2>1 DEF SkipsUser, Goto, AfterFault
  <2> QED
    BY <1>2, <2>1, <2>2 DEF SkipsUser, otherVars, dashboardVars, messageVars,
                            Ended
<1>3. CASE StatsFail(r)
  <2>1. at' = [at EXCEPT ![r] = AfterFault(at[r])]
    BY <1>3 DEF StatsFail, Goto, AfterFault
  <2> QED
    BY <1>3, <2>1 DEF StatsFail, elsewhereVars, messageVars, syncVars, Ended
<1> QED
  BY <1>1, <1>2, <1>3 DEF Disturbs


-----------------------------------------------------------------------------
(* Requests stay with the handler of their call *)

\* The calls and the deployment are given.
LEMMA GivenStays ==
    ASSUME [Next]_vars
    PROVE  plan' = plan /\ migrated' = migrated
<1>1. CASE UNCHANGED vars
  BY <1>1 DEF vars, otherVars, givenVars
<1>2. ASSUME NEW r \in Requests,
             \/ Authenticates(r) \/ LogsIn(r) \/ EndsSessions(r) \/ Syncs(r)
             \/ Converses(r) \/ Sends(r) \/ Onboards(r) \/ ShowsStats(r)
             \/ Disturbs(r)
      PROVE  UNCHANGED givenVars
  BY <1>2, AuthFrame, LoginFrame, LogoutFrame, SyncFrame, ConverseFrame,
     SendFrame, OnboardFrame, StatsFrame, FaultFrame
  DEF otherVars, elsewhereVars
<1>3. ASSUME \/ \E t \in Tokens : Expires(t)
             \/ Promotes \/ CountsGrow \/ StatsExpire \/ Crash \/ StateExpires
      PROVE  UNCHANGED givenVars
  BY <1>3 DEF Expires, Promotes, CountsGrow, StatsExpire, Crash, StateExpires,
              otherVars, elsewhereVars
<1> QED
  BY <1>1, <1>2, <1>3, NextCases DEF givenVars

\* Faults are counted.
LEMMA FaultsGrow ==
    ASSUME TypeOK, [Next]_vars
    PROVE  /\ faults' \in Nat
           /\ faults' = 0 => faults = 0
<1>1. CASE UNCHANGED vars
  BY <1>1 DEF vars, TypeOK
<1>2. ASSUME NEW r \in Requests,
             \/ Authenticates(r) \/ LogsIn(r) \/ EndsSessions(r) \/ Syncs(r)
             \/ Converses(r) \/ Sends(r) \/ Onboards(r) \/ ShowsStats(r)
      PROVE  UNCHANGED faults
  BY <1>2, AuthFrame, LoginFrame, LogoutFrame, SyncFrame, ConverseFrame,
     SendFrame, OnboardFrame, StatsFrame
<1>3. ASSUME \/ \E t \in Tokens : Expires(t)
             \/ Promotes \/ CountsGrow \/ StatsExpire
      PROVE  UNCHANGED faults
  BY <1>3 DEF Expires, Promotes, CountsGrow, StatsExpire
<1>4. ASSUME Crash \/ StateExpires \/ \E r \in Requests : Disturbs(r)
      PROVE  Fault
  BY <1>4, FaultFrame DEF Crash, StateExpires
<1>5. CASE UNCHANGED faults
  BY <1>5 DEF TypeOK
<1>6. CASE Fault
  BY <1>6 DEF Fault, TypeOK
<1> QED
  BY <1>1, <1>2, <1>3, <1>4, <1>5, <1>6, NextCases DEF vars

\* What a step does to one request: nothing, a statement of its own, a fault
\* of its own, or a crash.
LEMMA OwnStep ==
    ASSUME TypeOK, [Next]_vars, NEW r \in Requests
    PROVE  \/ at'[r] = at[r]
           \/ Authenticates(r) \/ LogsIn(r) \/ EndsSessions(r) \/ Syncs(r)
           \/ Converses(r) \/ Sends(r) \/ Onboards(r) \/ ShowsStats(r)
           \/ /\ faults' > 0 /\ at[r] \notin Ended
              /\ at'[r] = AfterFault(at[r]) \/ at'[r] = "failed"
<1>1. CASE UNCHANGED vars
  BY <1>1 DEF vars
<1>2. ASSUME NEW q \in Requests, q # r,
             \/ Authenticates(q) \/ LogsIn(q) \/ EndsSessions(q) \/ Syncs(q)
             \/ Converses(q) \/ Sends(q) \/ Onboards(q) \/ ShowsStats(q)
             \/ Disturbs(q)
      PROVE  at'[r] = at[r]
  <2>1. at \in [Requests -> Statements]
    BY DEF TypeOK
  <2>2. ASSUME NEW statements, Moves(q, statements)
        PROVE  at'[r] = at[r]
    BY <1>2, <2>1, <2>2 DEF Moves
  <2>3. CASE Authenticates(q)
    BY <1>2, <2>1, <2>3, AuthFrame
  <2>4. CASE Disturbs(q)
    BY <1>2, <2>1, <2>4, FaultFrame
  <2> QED
    BY <1>2, <2>2, <2>3, <2>4, LoginFrame, LogoutFrame, SyncFrame, ConverseFrame,
       SendFrame, OnboardFrame, StatsFrame
<1>3. CASE Disturbs(r)
  BY <1>3, FaultFrame DEF Fault, TypeOK
<1>4. CASE Crash
  BY <1>4 DEF Crash, Fault, Running, TypeOK
<1>5. ASSUME \/ \E t \in Tokens : Expires(t)
             \/ Promotes \/ CountsGrow \/ StatsExpire \/ StateExpires
      PROVE  at'[r] = at[r]
  BY <1>5 DEF Expires, Promotes, CountsGrow, StatsExpire, StateExpires
<1> QED
  BY <1>1, <1>2, <1>3, <1>4, <1>5, NextCases

\* What ended stays as it is, and nothing comes back to its start.
LEMMA EndedStays ==
    ASSUME TypeOK, [Next]_vars, NEW r \in Requests
    PROVE  /\ at[r] \in Ended => at'[r] = at[r]
           /\ at'[r] = "auth" => at[r] = "auth"
           /\ at'[r] = "fetch" => at[r] \in {"auth", "fetch"}
<1> USE DEF Ended, TypeOK
<1>1. CASE Authenticates(r)
  BY <1>1, AuthFrame
<1>2. CASE \/ Moves(r, LoginAt) \/ Moves(r, LogoutAt) \/ Moves(r, ConverseAt)
           \/ Moves(r, SendAt) \/ Moves(r, OnboardAt) \/ Moves(r, StatsAt)
  BY <1>2 DEF Moves, LoginAt, LogoutAt, ConverseAt, SendAt, OnboardAt, StatsAt
<1>3. CASE Syncs(r)
  <2>1. at[r] \in SyncAt /\ at'[r] # "fetch" /\ at'[r] # "auth"
    BY <1>3 DEF Syncs, FetchesUsers, FindsNext, StoresUser, SyncAt, Goto
  <2> QED
    BY <2>1 DEF SyncAt
<1>4. ASSUME at[r] \notin Ended
      PROVE  AfterFault(at[r]) \notin {"auth", "fetch"}
  BY DEF AfterFault
<1> QED
  BY <1>1, <1>2, <1>3, <1>4, OwnStep, LoginFrame, LogoutFrame, ConverseFrame,
     SendFrame, OnboardFrame, StatsFrame

\* Every request stays with the handler of its call.
LEMMA StageStep ==
    ASSUME TypeOK, StageInv, [Next]_vars
    PROVE  StageInv'
<1> SUFFICES ASSUME NEW r \in Requests
             PROVE  StageOK(r)'
  BY DEF StageInv
<1> USE DEF TypeOK, StageOK, Is, Enters
<1>0. StageOK(r) /\ plan' = plan
  BY GivenStays DEF StageInv
<1>1. CASE at'[r] = at[r]
  BY <1>0, <1>1
<1>2. CASE Authenticates(r)
  <2> DEFINE next == CASE Is(r, "logout") -> "blacklist"
                     [] Is(r, "logoutAll") -> "list"
                     [] Is(r, "sync") -> "fetch"
                     [] Is(r, "assign") -> "assign"
                     [] Is(r, "transfer") -> "checkTarget"
                     [] Is(r, "stats") -> "getStats"
                     [] Is(r, "refreshStats") -> "delStats"
                     [] OTHER -> "resolve"
  <2>1. at[r] = "auth" /\ at'[r] \in {next, "failed"}
    BY <1>2 DEF Authenticates, Goto
  <2>2. plan[r].op \in {"logout", "logoutAll", "sync", "assign", "transfer",
                        "send", "stats", "refreshStats"}
    BY <1>0, <2>1
  <2>3. /\ Is(r, "logout") => next = "blacklist"
        /\ Is(r, "logoutAll") => next = "list"
        /\ Is(r, "sync") => next = "fetch"
        /\ Is(r, "assign") => next = "assign"
        /\ Is(r, "transfer") => next = "checkTarget"
        /\ Is(r, "stats") => next = "getStats"
        /\ Is(r, "refreshStats") => next = "delStats"
        /\ Is(r, "send") => next = "resolve"
    OBVIOUS
  <2> HIDE DEF next
  <2> QED
    BY <1>0, <2>1, <2>2, <2>3
<1>3. CASE LogsIn(r)
  BY <1>0, <1>3 DEF LogsIn, ExchangesCode, Provisions, FindsUser,
                    InsertsUser, InsertsSession, Refreshes, Goto
<1>4. CASE EndsSessions(r)
  BY <1>0, <1>4 DEF EndsSessions, LogsOut, LogsOutEverywhere, Blacklists,
                    Invalidates, Lists, BlacklistsAll, InvalidatesAll, Goto
<1>5. CASE Syncs(r)
  BY <1>0, <1>5, SyncFrame DEF Moves, SyncAt, Ended
<1>6. CASE Converses(r)
  BY <1>0, <1>6 DEF Converses, Assigns, ChecksTarget, Transfers, Goto
<1>7. CASE Sends(r)
  BY <1>0, <1>7, SendFrame DEF Moves, SendAt, Ended
<1>8. CASE Onboards(r)
  BY <1>0, <1>8 DEF Onboards, TriesCredentials, LoadsState, SavesStep,
                    ChecksSteps, SavesProfile, Activates, Resets, Goto
<1>9. CASE ShowsStats(r)
  BY <1>0, <1>9 DEF ShowsStats, ReadsStats, AsksStateManager, CachesStats,
                    RefreshesStats, Goto
<1>10. CASE at'[r] = AfterFault(at[r]) \/ at'[r] = "failed"
  BY <1>0, <1>10 DEF AfterFault
<1> QED
  BY <1>1, <1>2, <1>3, <1>4, <1>5, <1>6, <1>7, <1>8, <1>9, <1>10, OwnStep

-----------------------------------------------------------------------------
(* Types *)

\* What a request names is what its call takes.
LEMMA Named ==
    ASSUME TypeOK, StageInv, NEW r \in Requests
    PROVE  /\ User(r) \in Users
           /\ Is(r, "refresh") \/ Is(r, "logout") =>
                  Arg(r) \in Tokens /\ Owner(Arg(r)) = User(r)
           /\ at[r] = "refresh" \/ at[r] \in {"blacklist", "invalidate"} =>
                  Arg(r) \in Tokens
           /\ at[r] \in {"checkTarget", "transfer"} => Arg(r) \in Users
           /\ Is(r, "send") => Arg(r) \in Messages
           /\ at[r] \in {"resolve", "track", "post", "mark"} =>
                  Arg(r) \in Messages
           /\ Is(r, "step") => Arg(r) \in Steps
           /\ at[r] = "save" => Arg(r) \in Steps
<1>1. plan[r] \in Calls /\ WellFormed(plan, r)
  BY AgentPortalAssumption DEF TypeOK
<1>2. \A t \in Old : t \notin Requests
  BY AgentPortalAssumption
<1>3. StageOK(r)
  BY DEF StageInv
<1>4. User(r) \in Users
  BY <1>1 DEF User, Calls
<1>5. /\ Is(r, "refresh") \/ Is(r, "logout") =>
             Arg(r) \in Tokens /\ Owner(Arg(r)) = User(r)
      /\ Is(r, "transfer") => Arg(r) \in Users
      /\ Is(r, "send") => Arg(r) \in Messages
      /\ Is(r, "step") => Arg(r) \in Steps
  BY <1>1, <1>2 DEF WellFormed, Is, Arg, User, Owner, Tokens
<1> QED
  BY <1>3, <1>4, <1>5 DEF StageOK

\* Whose a token is and what a request is about are given.
LEMMA OwnerStays ==
    ASSUME [Next]_vars
    PROVE  /\ \A t \in Tokens : Owner(t)' = Owner(t)
           /\ \A r \in Requests : /\ User(r)' = User(r)
                                  /\ Arg(r)' = Arg(r)
                                  /\ Enters(r)' = Enters(r)
           /\ \A r \in Requests, op \in Operations : Is(r, op)' = Is(r, op)
  BY GivenStays DEF Owner, User, Arg, Enters, Is

\* Requests stay at statements.
LEMMA AtType ==
    ASSUME TypeOK, [Next]_vars
    PROVE  at' \in [Requests -> Statements]
<1> USE DEF TypeOK, Ended, Statements
<1>1. CASE UNCHANGED vars
  BY <1>1 DEF vars
<1>2. ASSUME NEW r \in Requests,
             \/ Authenticates(r) \/ LogsIn(r) \/ EndsSessions(r) \/ Syncs(r)
             \/ Converses(r) \/ Sends(r) \/ Onboards(r) \/ ShowsStats(r)
             \/ Disturbs(r)
      PROVE  \E s \in Statements : at' = [at EXCEPT ![r] = s]
  <2>1. CASE Authenticates(r)
    BY <2>1, AuthFrame
  <2>2. CASE \/ Moves(r, LoginAt) \/ Moves(r, LogoutAt) \/ Moves(r, SyncAt)
             \/ Moves(r, ConverseAt) \/ Moves(r, SendAt)
             \/ Moves(r, OnboardAt) \/ Moves(r, StatsAt)
    BY <2>2 DEF Moves, LoginAt, LogoutAt, SyncAt, ConverseAt, SendAt,
                OnboardAt, StatsAt
  <2>3. CASE Disturbs(r)
    BY <2>3, FaultFrame DEF AfterFault
  <2> QED
    BY <1>2, <2>1, <2>2, <2>3, LoginFrame, LogoutFrame, SyncFrame,
       ConverseFrame, SendFrame, OnboardFrame, StatsFrame
<1>3. ASSUME NEW r \in Requests, NEW s \in Statements,
             at' = [at EXCEPT ![r] = s]
      PROVE  at' \in [Requests -> Statements]
  BY <1>3
<1>4. CASE Crash
  BY <1>4 DEF Crash
<1>5. ASSUME \/ \E t \in Tokens : Expires(t)
             \/ Promotes \/ CountsGrow \/ StatsExpire \/ StateExpires
      PROVE  at' = at
  BY <1>5 DEF Expires, Promotes, CountsGrow, StatsExpire, StateExpires
<1>6. at \in [Requests -> Statements]
  OBVIOUS
<1> HIDE DEF TypeOK, Ended, Statements
<1> QED
  BY <1>1, <1>2, <1>3, <1>4, <1>5, <1>6, NextCases

\* Logins and logouts keep the types.
LEMMA LogoutTypes ==
    ASSUME TypeOK, StageInv, NEW r \in Requests, LogsIn(r) \/ EndsSessions(r)
    PROVE  TypeOK'
<1> USE DEF TypeOK
<1>0. r \in Tokens /\ User(r) \in Users
  BY Named DEF Tokens
<1>1. /\ roles' \in [Users -> Roles \cup {None}]
      /\ home' \in [Users -> Tenants \cup {DemoTenant, None}]
      /\ given' \in [Requests -> Tenants \cup {None}]
      /\ sessions' \in [Tokens -> {None, "active", "inactive"}]
      /\ issued' \subseteq Tokens
      /\ blacklist' \subseteq Tokens
      /\ listed' \in [Requests -> SUBSET Tokens]
      /\ late' \subseteq Tokens
  <2>1. CASE ExchangesCode(r) \/ Provisions(r) \/ FindsUser(r)
    BY <2>1 DEF ExchangesCode, Provisions, FindsUser,
                accountVars, sessionVars
  <2>2. CASE InsertsUser(r)
    BY <2>2 DEF InsertsUser, TenantOf, sessionVars, Roles
  <2>3. CASE InsertsSession(r)
    BY <1>0, <2>3 DEF InsertsSession
  <2>4. CASE Refreshes(r)
    BY <1>0, <2>4 DEF Refreshes, sessionVars
  <2>5. CASE Blacklists(r)
    BY <2>5, Named DEF Blacklists, sessionVars
  <2>6. CASE Invalidates(r)
    BY <2>6 DEF Invalidates, sessionVars
  <2>7. CASE Lists(r)
    <3>1. Active(User(r)) \in SUBSET Tokens
      BY DEF Active
    <3>2. listed' = listed \/ listed' = [listed EXCEPT ![r] = Active(User(r))]
      BY <2>7 DEF Lists
    <3>3. listed' \in [Requests -> SUBSET Tokens]
      BY <3>1, <3>2
    <3> QED
      BY <2>7, <3>3 DEF Lists, accountVars
  <2>8. CASE BlacklistsAll(r)
    BY <2>8 DEF BlacklistsAll, sessionVars
  <2>9. CASE InvalidatesAll(r)
    BY <2>9 DEF InvalidatesAll, sessionVars
  <2> QED
    BY <2>1, <2>2, <2>3, <2>4, <2>5, <2>6, <2>7, <2>8, <2>9
    DEF LogsIn, EndsSessions, LogsOut, LogsOutEverywhere
<1>2. at' \in [Requests -> Statements]
  BY AtType DEF Next, Step, LogsIn, EndsSessions
<1> QED
  BY <1>1, <1>2, LoginFrame, LogoutFrame
  DEF otherVars, givenVars, dashboardVars, messageVars, onboardingVars,
      syncVars, stepVars

\* A sync keeps the types.
LEMMA SyncTypes ==
    ASSUME TypeOK, StageInv, NEW r \in Requests, Syncs(r)
    PROVE  TypeOK'
<1> USE DEF TypeOK
<1>0. User(r) \in Users
  BY Named
<1>1. /\ roles' \in [Users -> Roles \cup {None}]
      /\ home' \in [Users -> Tenants \cup {DemoTenant, None}]
      /\ subject' \in [Requests -> Users \cup {None}]
      /\ todo' \in [Requests -> SUBSET Users]
      /\ fetched' \in [Requests -> Roles]
      /\ before' \in [Requests -> SUBSET Requests]
  <2>1. CASE FetchesUsers(r)
    <3>1. {s \in Requests : at[s] \in Ended} \in SUBSET Requests
      OBVIOUS
    <3>2. before' \in [Requests -> SUBSET Requests]
      BY <2>1, <3>1 DEF FetchesUsers
    <3> QED
      BY <2>1, <3>2 DEF FetchesUsers, accountVars
  <2>2. CASE FindsNext(r)
    <3>1. \/ UNCHANGED <<subject, todo>>
          \/ \E u \in todo[r] :
                /\ subject' = [subject EXCEPT ![r] = u]
                /\ todo' = [todo EXCEPT ![r] = @ \ {u}]
      BY <2>2 DEF FindsNext
    <3>2. /\ subject' \in [Requests -> Users \cup {None}]
          /\ todo' \in [Requests -> SUBSET Users]
      <4>1. CASE UNCHANGED <<subject, todo>>
        BY <4>1
      <4>2. ASSUME NEW u \in todo[r],
                   subject' = [subject EXCEPT ![r] = u],
                   todo' = [todo EXCEPT ![r] = @ \ {u}]
            PROVE  /\ subject' \in [Requests -> Users \cup {None}]
                   /\ todo' \in [Requests -> SUBSET Users]
        <5>1. u \in Users /\ todo[r] \ {u} \in SUBSET Users
          BY <4>2
        <5>2. subject' \in [Requests -> Users \cup {None}]
          BY <4>2, <5>1
        <5>3. todo' \in [Requests -> SUBSET Users]
          BY <4>2, <5>1
        <5> QED
          BY <5>2, <5>3
      <4> HIDE DEF TypeOK
      <4> QED
        BY <3>1, <4>1, <4>2
    <3>3. UNCHANGED <<roles, home, fetched, before>>
      BY <2>2 DEF FindsNext, accountVars
    <3> QED
      BY <3>2, <3>3
  <2>3. CASE StoresUser(r)
    BY <1>0, <2>3 DEF StoresUser, Homes, syncVars
  <2> QED
    BY <2>1, <2>2, <2>3 DEF Syncs
<1>2. at' \in [Requests -> Statements]
  BY AtType DEF Next, Step, Syncs
<1> QED
  BY <1>1, <1>2, SyncFrame
  DEF otherVars, givenVars, dashboardVars, messageVars, onboardingVars,
      stepVars, sessionVars

Row == [user : Users, status : {"active", "transferred"}]

\* Marking the rows of a user changes their status only.
LEMMA MarkedRows ==
    ASSUME NEW rows \in Seq(Row), NEW u,
           NEW status \in {"active", "transferred"}
    PROVE  /\ Marked(rows, u, status) \in Seq(Row)
           /\ DOMAIN Marked(rows, u, status) = DOMAIN rows
           /\ Len(Marked(rows, u, status)) = Len(rows)
           /\ \A i \in DOMAIN rows :
                /\ Marked(rows, u, status)[i].user = rows[i].user
                /\ Marked(rows, u, status)[i].status =
                       IF rows[i].user = u THEN status ELSE rows[i].status
<1>1. \A i \in DOMAIN rows : rows[i] \in Row
  OBVIOUS
<1>2. \A i \in DOMAIN rows :
         /\ [rows[i] EXCEPT !.status = status] \in Row
         /\ [rows[i] EXCEPT !.status = status].user = rows[i].user
         /\ [rows[i] EXCEPT !.status = status].status = status
  BY <1>1 DEF Row
<1>3. \A i \in DOMAIN rows : Marked(rows, u, status)[i] \in Row
  BY <1>1, <1>2 DEF Marked
<1>4. DOMAIN Marked(rows, u, status) = 1..Len(rows) /\ Len(rows) \in Nat
  BY DEF Marked
<1>5. Marked(rows, u, status) \in [1..Len(rows) -> Row]
  BY <1>3, <1>4 DEF Marked
<1>6. /\ Marked(rows, u, status) \in Seq(Row)
      /\ Len(Marked(rows, u, status)) = Len(rows)
  BY <1>4, <1>5
<1> QED
  BY <1>2, <1>4, <1>6 DEF Marked

\* Assigning and transferring keep the types.
LEMMA ConverseTypes ==
    ASSUME TypeOK, StageInv, NEW r \in Requests, Converses(r)
    PROVE  TypeOK'
<1>1. assignments \in Seq(Row) /\ User(r) \in Users
  BY Named DEF TypeOK, Row
<1>2. /\ [user |-> User(r), status |-> "active"] \in Row
      /\ Arg(r) \in Users => [user |-> Arg(r), status |-> "active"] \in Row
  BY <1>1 DEF Row
<1>3. /\ Marked(assignments, User(r), "active") \in Seq(Row)
      /\ Marked(assignments, User(r), "transferred") \in Seq(Row)
  BY <1>1, MarkedRows
<1>4. assignments' \in Seq(Row) /\ uninvited' \in BOOLEAN
  <2>1. CASE Assigns(r)
    BY <1>1, <1>2, <1>3, <2>1 DEF Assigns, TypeOK
  <2>2. CASE ChecksTarget(r)
    BY <1>1, <2>2 DEF ChecksTarget, TypeOK
  <2>3. CASE Transfers(r)
    <3>1. Arg(r) \in Users
      BY <2>3, Named DEF Transfers
    <3>2. \/ UNCHANGED <<assignments, uninvited>>
          \/ /\ assignments' =
                   Append(Marked(assignments, User(r), "transferred"),
                          [user |-> Arg(r), status |-> "active"])
             /\ uninvited' = (uninvited \/ Assignees \ {User(r)} # {})
      BY <2>3 DEF Transfers
    <3>3. assignments' \in Seq(Row)
      <4> DEFINE closed == Marked(assignments, User(r), "transferred")
                 row == [user |-> Arg(r), status |-> "active"]
      <4>1. closed \in Seq(Row) /\ row \in Row
        BY <1>2, <1>3, <3>1
      <4>2. assignments' = assignments \/ assignments' = Append(closed, row)
        BY <3>2
      <4> HIDE DEF closed, row
      <4> QED
        BY <1>1, <4>1, <4>2
    <3>4. uninvited' \in BOOLEAN
      BY <3>2 DEF TypeOK
    <3> QED
      BY <3>3, <3>4
  <2> QED
    BY <2>1, <2>2, <2>3 DEF Converses
<1>5. at' \in [Requests -> Statements]
  BY AtType DEF Next, Step, Converses
<1> QED
  BY <1>4, <1>5, ConverseFrame
  DEF Row, TypeOK, otherVars, givenVars, dashboardVars, accountVars,
      messageVars, onboardingVars, syncVars, stepVars, sessionVars

\* Sending a message keeps the types.
LEMMA SendTypes ==
    ASSUME TypeOK, StageInv, NEW r \in Requests, Sends(r)
    PROVE  TypeOK'
<1> USE DEF TypeOK
<1>1. Arg(r) \in Messages
  BY Named, SendFrame DEF Moves, SendAt
<1>2. tracked' \in [Messages -> {None, "queued", "sent"}]
  BY <1>1 DEF Sends, Tracks, Posts, MarksSent
<1>3. posted' \in [Messages -> Nat]
  BY <1>1 DEF Sends, Tracks, Posts, MarksSent
<1>4. at' \in [Requests -> Statements]
  BY AtType DEF Next, Step, Sends
<1> QED
  BY <1>2, <1>3, <1>4, SendFrame
  DEF otherVars, givenVars, dashboardVars, accountVars, onboardingVars,
      syncVars, stepVars, sessionVars

\* The onboarding keeps the types.
LEMMA OnboardTypes ==
    ASSUME TypeOK, StageInv, NEW r \in Requests, Onboards(r)
    PROVE  TypeOK'
<1> USE DEF TypeOK
<1>1. /\ \A s \in {None} \cup SUBSET Steps : Progress(s) \subseteq Steps
      /\ at[r] = "save" => Arg(r) \in Steps
  BY Named DEF Progress
<1>2. /\ onboarding' \in {None} \cup SUBSET Steps
      /\ onboarded' \in BOOLEAN
      /\ loaded' \in [Requests -> {None} \cup SUBSET Steps]
      /\ saved' \subseteq Steps
      /\ lost' \subseteq Steps
  <2>1. CASE TriesCredentials(r) \/ ChecksSteps(r) \/ SavesProfile(r)
    BY <2>1 DEF TriesCredentials, ChecksSteps, SavesProfile, onboardingVars,
                stepVars
  <2>2. CASE LoadsState(r)
    BY <2>2 DEF LoadsState, onboardingVars
  <2>3. CASE SavesStep(r)
    <3>1. Progress(loaded[r]) \subseteq Steps /\ Progress(onboarding) \subseteq Steps
      BY <1>1
    <3> QED
      BY <1>1, <2>3, <3>1 DEF SavesStep
  <2>4. CASE Activates(r) \/ Resets(r)
    BY <2>4 DEF Activates, Resets, stepVars
  <2> QED
    BY <2>1, <2>2, <2>3, <2>4 DEF Onboards
<1>3. at' \in [Requests -> Statements]
  BY AtType DEF Next, Step, Onboards
<1> QED
  BY <1>2, <1>3, OnboardFrame
  DEF otherVars, givenVars, dashboardVars, accountVars, messageVars, syncVars,
      sessionVars

\* The dashboard keeps the types.
LEMMA StatsTypes ==
    ASSUME TypeOK, StageInv, NEW r \in Requests, ShowsStats(r)
    PROVE  TypeOK'
<1> USE DEF TypeOK
<1>1. /\ stats' \in {None, Zeros} \cup Counts
      /\ counted' \in [Requests -> {None, Zeros} \cup Counts]
      /\ refreshed' \in Counts
      /\ overtaken' \subseteq Requests
  <2>1. CASE ReadsStats(r) \/ AsksStateManager(r)
    <3>1. counted' = [counted EXCEPT ![r] = stats]
          \/ counted' = [counted EXCEPT ![r] = activity]
      BY <2>1 DEF ReadsStats, AsksStateManager
    <3>2. counted' \in [Requests -> {None, Zeros} \cup Counts]
      BY <3>1
    <3> QED
      BY <2>1, <3>2 DEF ReadsStats, AsksStateManager
  <2>2. CASE CachesStats(r)
    BY <2>2 DEF CachesStats
  <2>3. CASE RefreshesStats(r)
    <3>1. overtaken' \subseteq Requests
      BY <2>3 DEF RefreshesStats
    <3> QED
      BY <2>3, <3>1 DEF RefreshesStats
  <2> QED
    BY <2>1, <2>2, <2>3 DEF ShowsStats
<1>2. at' \in [Requests -> Statements]
  BY AtType DEF Next, Step, ShowsStats
<1> QED
  BY <1>1, <1>2, StatsFrame
  DEF elsewhereVars, givenVars, accountVars, messageVars, onboardingVars,
      syncVars, stepVars, sessionVars

\* Faults in a handler keep the types.
LEMMA FaultTypes ==
    ASSUME TypeOK, StageInv, NEW r \in Requests, Disturbs(r)
    PROVE  TypeOK'
<1>1. posted' \in [Messages -> Nat]
  <2>1. at[r] = "post" => Arg(r) \in Messages
    BY Named
  <2>2. \/ posted' = posted
        \/ at[r] = "post" /\ posted' = [posted EXCEPT ![Arg(r)] = @ + 1]
    BY FaultFrame
  <2>3. posted \in [Messages -> Nat]
    BY DEF TypeOK
  <2> QED
    BY <2>1, <2>2, <2>3
<1>2. todo' \in [Requests -> SUBSET Users]
  <2>1. \/ todo' = todo
        \/ \E u \in todo[r] : todo' = [todo EXCEPT ![r] = @ \ {u}]
    BY FaultFrame
  <2>2. todo \in [Requests -> SUBSET Users]
    BY DEF TypeOK
  <2>3. ASSUME NEW u \in todo[r], todo' = [todo EXCEPT ![r] = @ \ {u}]
        PROVE  todo' \in [Requests -> SUBSET Users]
    <3>1. todo[r] \ {u} \in SUBSET Users
      BY <2>2
    <3> QED
      BY <2>2, <2>3, <3>1
  <2> QED
    BY <2>1, <2>2, <2>3
<1> USE DEF TypeOK
<1>3. counted' \in [Requests -> {None, Zeros} \cup Counts]
  BY FaultFrame
<1>4. at' \in [Requests -> Statements] /\ faults' \in Nat
  BY AtType, FaultsGrow DEF Next, Disturbs
<1>5. UNCHANGED <<givenVars, stats, activity, refreshed, overtaken, accountVars,
                  assignments, uninvited, tracked, onboardingVars, subject,
                  fetched, before, stepVars, sessionVars>>
  BY FaultFrame
<1> QED
  BY <1>1, <1>2, <1>3, <1>4, <1>5
  DEF givenVars, accountVars, onboardingVars, stepVars, sessionVars

\* Time, Genesys, the customers and a crash keep the types.
LEMMA WorldTypes ==
    ASSUME TypeOK, [Next]_vars,
           \/ \E t \in Tokens : Expires(t)
           \/ Promotes \/ CountsGrow \/ StatsExpire \/ Crash \/ StateExpires
    PROVE  TypeOK'
<1> USE DEF TypeOK
<1>1. at' \in [Requests -> Statements] /\ faults' \in Nat
  BY AtType, FaultsGrow
<1>2. CASE \E t \in Tokens : Expires(t)
  BY <1>1, <1>2
  DEF Expires, otherVars, givenVars, dashboardVars, messageVars,
      onboardingVars, syncVars, stepVars, sessionVars
<1>3. CASE Promotes
  BY <1>1, <1>3
  DEF Promotes, otherVars, givenVars, dashboardVars, messageVars,
      onboardingVars, syncVars, stepVars, sessionVars, Roles
<1>4. CASE CountsGrow
  BY <1>1, <1>4
  DEF CountsGrow, Counts, elsewhereVars, givenVars, accountVars, messageVars,
      onboardingVars, syncVars, stepVars, sessionVars
<1>5. CASE StatsExpire
  BY <1>1, <1>5
  DEF StatsExpire, elsewhereVars, givenVars, accountVars, messageVars,
      onboardingVars, syncVars, stepVars, sessionVars
<1>6. CASE Crash \/ StateExpires
  BY <1>1, <1>6
  DEF Crash, StateExpires, otherVars, givenVars, dashboardVars, accountVars,
      messageVars, onboardingVars, syncVars, stepVars, sessionVars
<1> QED
  BY <1>2, <1>3, <1>4, <1>5, <1>6

\* The types are kept by every step.
LEMMA TypeStep ==
    ASSUME TypeOK, StageInv, [Next]_vars
    PROVE  TypeOK'
<1>1. CASE UNCHANGED vars
  BY <1>1
  DEF TypeOK, vars, otherVars, givenVars, dashboardVars, accountVars,
      messageVars, onboardingVars, syncVars, stepVars, sessionVars
<1>2. ASSUME NEW r \in Requests, Authenticates(r)
      PROVE  TypeOK'
  <2>1. at' \in [Requests -> Statements]
    BY AtType
  <2> QED
    BY <1>2, <2>1, AuthFrame
    DEF TypeOK, otherVars, givenVars, dashboardVars, accountVars, messageVars,
        onboardingVars, syncVars, stepVars, sessionVars
<1> QED
  BY <1>1, <1>2, NextCases, LogoutTypes, SyncTypes, ConverseTypes, SendTypes,
     OnboardTypes, StatsTypes, FaultTypes, WorldTypes

-----------------------------------------------------------------------------
(* Sessions and tokens *)

\* Only logins, refreshes and logouts, and the hour of a token, change what is
\* known of tokens.
LEMMA TokenSteps ==
    ASSUME [Next]_vars
    PROVE  \/ UNCHANGED <<sessions, issued, expired, blacklist, listed, late>>
           \/ \E r \in Requests :
                 InsertsSession(r) \/ Refreshes(r) \/ EndsSessions(r)
           \/ \E t \in Tokens : Expires(t)
<1>1. CASE UNCHANGED vars
  BY <1>1 DEF vars, accountVars, sessionVars
<1>2. ASSUME NEW r \in Requests, LogsIn(r)
      PROVE  \/ UNCHANGED <<sessions, issued, expired, blacklist, listed, late>>
             \/ InsertsSession(r) \/ Refreshes(r)
  BY <1>2 DEF LogsIn, ExchangesCode, Provisions, FindsUser,
              InsertsUser, accountVars, sessionVars
<1>3. ASSUME NEW r \in Requests,
             \/ Authenticates(r) \/ Syncs(r) \/ Converses(r) \/ Sends(r)
             \/ Onboards(r) \/ ShowsStats(r) \/ Disturbs(r)
      PROVE  UNCHANGED <<sessions, issued, expired, blacklist, listed, late>>
  BY <1>3, AuthFrame, SyncFrame, ConverseFrame, SendFrame, OnboardFrame,
     StatsFrame, FaultFrame DEF elsewhereVars, accountVars, sessionVars
<1>4. ASSUME Promotes \/ CountsGrow \/ StatsExpire \/ Crash \/ StateExpires
      PROVE  UNCHANGED <<sessions, issued, expired, blacklist, listed, late>>
  BY <1>4 DEF Promotes, CountsGrow, StatsExpire, Crash, StateExpires,
              elsewhereVars, accountVars, sessionVars
<1> QED
  BY <1>1, <1>2, <1>3, <1>4, NextCases

\* What the handlers of tokens may rely on: tokens and sessions stay, an ended
\* session stays ended, a token that is dead stays dead, and a session begins
\* with the login that issues its token.
LEMMA TokensKeep ==
    ASSUME TypeOK, StageInv, TokenInv, [Next]_vars
    PROVE  /\ issued \subseteq issued'
           /\ expired \subseteq expired'
           /\ blacklist \cup expired \subseteq blacklist' \cup expired'
           /\ late \subseteq late'
           /\ \A t \in Tokens :
                /\ sessions[t] # None => sessions'[t] # None
                /\ sessions[t] = "inactive" => sessions'[t] = "inactive"
                /\ sessions[t] = None /\ sessions'[t] # None =>
                       t \in Requests /\ InsertsSession(t)
           /\ \A r \in Requests : listed'[r] = listed[r] \/ Lists(r)
<1> USE DEF TypeOK
<1>1. CASE UNCHANGED <<sessions, issued, expired, blacklist, listed, late>>
  BY <1>1
<1>2. ASSUME NEW r \in Requests, InsertsSession(r)
      PROVE  /\ issued \subseteq issued' /\ UNCHANGED <<expired, blacklist, listed>>
             /\ late \subseteq late'
             /\ \A t \in Tokens : t # r => sessions'[t] = sessions[t]
             /\ sessions[r] = None /\ sessions'[r] = "active"
  <2>1. at[r] = "insertSession"
    BY <1>2 DEF InsertsSession
  <2>2. sessions[r] = None
    BY <2>1 DEF TokenInv
  <2>3. r \in Tokens
    BY DEF Tokens
  <2> QED
    BY <1>2, <2>2, <2>3 DEF InsertsSession
<1>3. ASSUME NEW r \in Requests, Refreshes(r)
      PROVE  /\ issued \subseteq issued'
             /\ UNCHANGED <<sessions, expired, blacklist, listed, late>>
  BY <1>3 DEF Refreshes, sessionVars
<1>4. ASSUME NEW r \in Requests, EndsSessions(r)
      PROVE  /\ UNCHANGED <<issued, expired, late>>
             /\ blacklist \subseteq blacklist'
             /\ \A t \in Tokens :
                   sessions'[t] # sessions[t] =>
                      sessions[t] = "active" /\ sessions'[t] = "inactive"
             /\ \A q \in Requests : listed'[q] = listed[q] \/ Lists(q)
  <2>1. CASE Blacklists(r) \/ BlacklistsAll(r)
    BY <2>1 DEF Blacklists, BlacklistsAll, sessionVars
  <2>2. CASE Invalidates(r)
    BY <2>2 DEF Invalidates, Active, sessionVars
  <2>3. CASE Lists(r)
    BY <2>3 DEF Lists, accountVars
  <2>4. CASE InvalidatesAll(r)
    BY <2>4 DEF InvalidatesAll, Active, sessionVars
  <2> QED
    BY <1>4, <2>1, <2>2, <2>3, <2>4
    DEF EndsSessions, LogsOut, LogsOutEverywhere
<1>5. ASSUME NEW t \in Tokens, Expires(t)
      PROVE  /\ UNCHANGED <<sessions, issued, listed, late>>
             /\ expired' = expired \cup {t}
             /\ blacklist' = blacklist \ {t}
  BY <1>5 DEF Expires, sessionVars
<1>6. "active" # None /\ "inactive" # None
  BY AgentPortalAssumption
<1>7. CASE \E r \in Requests : InsertsSession(r)
  <2>1. PICK r \in Requests : InsertsSession(r)
    BY <1>7
  <2>2. \A t \in Tokens : t # r => sessions'[t] = sessions[t]
    BY <1>2, <2>1
  <2>3. /\ issued \subseteq issued' /\ UNCHANGED <<expired, blacklist, listed>>
        /\ late \subseteq late'
        /\ sessions[r] = None /\ sessions'[r] = "active"
    BY <1>2, <2>1
  <2> QED
    BY <1>6, <2>1, <2>2, <2>3
<1>8. CASE \E r \in Requests : Refreshes(r)
  BY <1>3, <1>8
<1>9. CASE \E r \in Requests : EndsSessions(r)
  BY <1>4, <1>6, <1>9
<1>10. CASE \E t \in Tokens : Expires(t)
  BY <1>5, <1>10
<1> QED
  BY <1>1, <1>7, <1>8, <1>9, <1>10, TokenSteps

\* A token that was issued, or has a session, is of a request that has ended.
LEMMA TokenStep ==
    ASSUME TypeOK, StageInv, TokenInv, [Next]_vars
    PROVE  TokenInv'
<1> SUFFICES ASSUME NEW r \in Requests, r \in issued' \/ sessions'[r] # None
             PROVE  at'[r] = "done"
  BY DEF TokenInv
<1>0. r \in Tokens
  BY DEF Tokens
<1>1. CASE r \in issued \/ sessions[r] # None
  BY <1>1, EndedStays DEF TokenInv, Ended
<1>2. CASE InsertsSession(r) \/ Refreshes(r)
  BY <1>2 DEF InsertsSession, Refreshes, Goto, TypeOK
<1>3. CASE sessions'[r] # None /\ sessions[r] = None
  BY <1>0, <1>2, <1>3, TokensKeep
<1>4. CASE r \in issued' /\ r \notin issued
  <2>1. ASSUME NEW q \in Requests, EndsSessions(q)
        PROVE  FALSE
    BY <1>4, <2>1, LogoutFrame
  <2>2. ASSUME NEW q \in Requests, InsertsSession(q) \/ Refreshes(q)
        PROVE  q = r
    BY <1>4, <2>2 DEF InsertsSession, Refreshes
  <2>3. ASSUME NEW t \in Tokens, Expires(t)
        PROVE  FALSE
    BY <1>4, <2>3 DEF Expires
  <2> QED
    BY <1>2, <1>4, <2>1, <2>2, <2>3, TokenSteps
<1> QED
  BY <1>1, <1>3, <1>4

\* What an ended session leaves stays accounted for.
LEMMA EndedStep ==
    ASSUME TypeOK, StageInv, SessionInv, [Next]_vars
    PROVE  EndedInv'
<1> SUFFICES ASSUME NEW t \in Tokens, sessions'[t] = "inactive"
             PROVE  t \in blacklist' \cup expired' \cup late'
  BY DEF EndedInv
<1>1. t \in blacklist \cup expired \cup late
  <2>1. CASE sessions[t] = "inactive"
    BY <2>1 DEF SessionInv, EndedInv
  <2>2. ASSUME NEW r \in Requests, Invalidates(r), sessions[t] # "inactive"
        PROVE  t \in blacklist \cup expired \cup late
    <3>1. t = Arg(r) /\ at[r] = "invalidate"
      BY <2>2 DEF Invalidates, TypeOK
    <3> QED
      BY <3>1 DEF SessionInv, LogoutOK
  <2>3. ASSUME NEW r \in Requests, InvalidatesAll(r), sessions[t] # "inactive"
        PROVE  t \in blacklist \cup expired \cup late
    <3>1. t \in Active(User(r)) /\ at[r] = "invalidateAll"
      BY <2>3 DEF InvalidatesAll
    <3> QED
      BY <3>1 DEF SessionInv, LogoutAllOK
  <2>4. ASSUME NEW r \in Requests, Blacklists(r) \/ Lists(r) \/ BlacklistsAll(r)
        PROVE  sessions[t] = "inactive"
    BY <2>4 DEF Blacklists, Lists, BlacklistsAll, accountVars
  <2>5. ASSUME NEW r \in Requests, InsertsSession(r) \/ Refreshes(r)
        PROVE  sessions[t] = "inactive"
    BY <2>5 DEF InsertsSession, Refreshes, TypeOK
  <2>6. ASSUME NEW e \in Tokens, Expires(e)
        PROVE  sessions[t] = "inactive"
    BY <2>6 DEF Expires
  <2> QED
    BY <2>1, <2>2, <2>3, <2>4, <2>5, <2>6, TokenSteps
    DEF EndsSessions, LogsOut, LogsOutEverywhere
<1> QED
  BY <1>1, TokensKeep DEF SessionInv

\* A session that begins while a logout of all devices is past its list is
\* noted.
LEMMA LateSessions ==
    ASSUME TypeOK, StageInv, SessionInv, [Next]_vars,
           NEW r \in Requests, at[r] \in {"blacklistAll", "invalidateAll"},
           NEW t \in Tokens, t \in Active(User(r))'
    PROVE  t \in Active(User(r)) \/ t \in late'
<1>1. Owner(t) = User(r) /\ sessions'[t] = "active"
  BY OwnerStays DEF Active
<1>2. sessions[t] \in {None, "active", "inactive"}
  BY DEF TypeOK
<1>3. CASE sessions[t] = "active"
  BY <1>1, <1>3 DEF Active
<1>4. CASE sessions[t] = None
  <2>1. t \in Requests /\ InsertsSession(t)
    BY <1>1, <1>4, TokensKeep, AgentPortalAssumption DEF SessionInv
  <2>2. User(t) = User(r)
    BY <1>1, <2>1, AgentPortalAssumption DEF Owner
  <2> QED
    BY <2>1, <2>2 DEF InsertsSession
<1>5. CASE sessions[t] = "inactive"
  BY <1>1, <1>5, TokensKeep DEF SessionInv
<1> QED
  BY <1>2, <1>3, <1>4, <1>5

\* How a request comes to the statements that end sessions.
LEMMA LogoutArrivals ==
    ASSUME TypeOK, StageInv, [Next]_vars, NEW r \in Requests, at'[r] # at[r]
    PROVE  /\ at'[r] = "blacklistAll" => Lists(r)
           /\ at'[r] = "invalidateAll" => Lists(r) \/ BlacklistsAll(r)
           /\ at'[r] = "invalidate" => Blacklists(r)
           /\ Is(r, "logoutAll") /\ at'[r] = "done" => InvalidatesAll(r)
           /\ Is(r, "logout") /\ at'[r] = "done" /\ faults' = 0 =>
                  Blacklists(r) \/ Invalidates(r)
           /\ Is(r, "logout") /\ at[r] = "auth" /\ at'[r] # "failed" =>
                  Arg(r) \in issued
<1> USE DEF Ended
<1>0. StageOK(r) /\ at[r] \in Statements
  BY DEF StageInv, TypeOK
<1>1. CASE Authenticates(r)
  BY <1>1, AuthFrame DEF TypeOK
<1>2. CASE EndsSessions(r)
  <2>1. CASE Blacklists(r)
    BY <1>0, <2>1 DEF Blacklists, Goto, TypeOK, StageOK, Is
  <2>2. CASE Invalidates(r)
    BY <1>0, <2>2 DEF Invalidates, Goto, TypeOK, StageOK, Is
  <2>3. CASE Lists(r)
    BY <1>0, <2>3 DEF Lists, Goto, TypeOK, StageOK, Is
  <2>4. CASE BlacklistsAll(r)
    BY <1>0, <2>4 DEF BlacklistsAll, Goto, TypeOK, StageOK, Is
  <2>5. CASE InvalidatesAll(r)
    BY <1>0, <2>5 DEF InvalidatesAll, Goto, TypeOK, StageOK, Is
  <2> QED
    BY <1>2, <2>1, <2>2, <2>3, <2>4, <2>5
    DEF EndsSessions, LogsOut, LogsOutEverywhere
<1>3. ASSUME \/ Moves(r, LoginAt) \/ Moves(r, SyncAt) \/ Moves(r, ConverseAt)
             \/ Moves(r, SendAt) \/ Moves(r, OnboardAt) \/ Moves(r, StatsAt)
      PROVE  /\ at'[r] \notin {"blacklistAll", "invalidateAll", "invalidate"}
             /\ ~ Is(r, "logout") /\ ~ Is(r, "logoutAll")
  <2>1. /\ at[r] \in LoginAt \cup SyncAt \cup ConverseAt \cup SendAt
                     \cup OnboardAt \cup StatsAt
        /\ at'[r] \in LoginAt \cup SyncAt \cup ConverseAt \cup SendAt
                      \cup OnboardAt \cup StatsAt \cup Ended
    BY <1>3 DEF Moves, TypeOK
  <2>2. at'[r] \notin {"blacklistAll", "invalidateAll", "invalidate"}
    BY <2>1 DEF LoginAt, SyncAt, ConverseAt, SendAt, OnboardAt, StatsAt
  <2>3. ~ Is(r, "logout") /\ ~ Is(r, "logoutAll")
    BY <1>0, <2>1 DEF LoginAt, SyncAt, ConverseAt, SendAt, OnboardAt, StatsAt,
                      StageOK, Is, Enters
  <2> QED
    BY <2>2, <2>3
<1>4. CASE /\ faults' > 0 /\ at[r] \notin Ended
           /\ at'[r] = AfterFault(at[r]) \/ at'[r] = "failed"
  <2>1. at'[r] \notin {"blacklistAll", "invalidateAll", "invalidate"}
    BY <1>4 DEF AfterFault
  <2>2. at[r] = "auth" => at'[r] = "failed"
    BY <1>4 DEF AfterFault
  <2>3. Is(r, "logoutAll") => at'[r] # "done"
    BY <1>0, <1>4 DEF AfterFault, StageOK, Is
  <2> QED
    BY <1>4, <2>1, <2>2, <2>3
<1> QED
  BY <1>1, <1>2, <1>3, <1>4, OwnStep, LoginFrame, SyncFrame, ConverseFrame,
     SendFrame, OnboardFrame, StatsFrame

\* A logout of all devices keeps what is said of it.
LEMMA LogoutAllStep ==
    ASSUME TypeOK, StageInv, SessionInv, [Next]_vars, NEW r \in Requests
    PROVE  LogoutAllOK(r)'
<1>0. LogoutAllOK(r) /\ TokenInv
  BY DEF SessionInv
<1>1. listed[r] \subseteq Tokens /\ listed'[r] \subseteq Tokens
  BY TypeStep DEF TypeOK
<1>2. ASSUME at'[r] = "blacklistAll", NEW t \in Tokens, t \in Active(User(r))'
      PROVE  t \in listed'[r] \cup late'
  <2>1. CASE at[r] = "blacklistAll"
    <3>1. t \in Active(User(r)) \/ t \in late'
      BY <1>2, <2>1, LateSessions
    <3>2. listed'[r] = listed[r]
      BY <1>0, <2>1, TokensKeep DEF Lists
    <3> QED
      BY <1>0, <2>1, <3>1, <3>2, TokensKeep DEF LogoutAllOK
  <2>2. CASE Lists(r)
    <3>1. listed'[r] = Active(User(r)) /\ sessions' = sessions
      BY <1>2, <2>2 DEF Lists, Goto, TypeOK, accountVars
    <3> QED
      BY <1>2, <3>1, OwnerStays DEF Active
  <2> QED
    BY <1>2, <2>1, <2>2, LogoutArrivals
<1>3. ASSUME at'[r] = "invalidateAll", NEW t \in Tokens, t \in Active(User(r))'
      PROVE  t \in blacklist' \cup expired' \cup late'
  <2>1. CASE at[r] = "invalidateAll"
    <3>1. t \in Active(User(r)) \/ t \in late'
      BY <1>3, <2>1, LateSessions
    <3> QED
      BY <1>0, <2>1, <3>1, TokensKeep DEF LogoutAllOK
  <2>2. CASE Lists(r)
    <3>1. Active(User(r)) = {} /\ sessions' = sessions
      BY <1>3, <2>2 DEF Lists, Goto, TypeOK, accountVars
    <3> QED
      BY <1>3, <3>1, OwnerStays DEF Active
  <2>3. CASE BlacklistsAll(r)
    <3>1. t \in Active(User(r)) \/ t \in late'
      BY <1>3, <2>3, LateSessions DEF BlacklistsAll
    <3>2. t \in Active(User(r)) => t \in listed[r] \cup late
      BY <1>0, <2>3 DEF LogoutAllOK, BlacklistsAll
    <3> QED
      BY <1>0, <2>3, <3>1, <3>2, TokensKeep DEF BlacklistsAll
  <2> QED
    BY <1>3, <2>1, <2>2, <2>3, LogoutArrivals
<1>4. ASSUME NEW t \in listed'[r]
      PROVE  sessions'[t] # None /\ Owner(t)' = User(r)'
  <2>1. t \in Tokens
    BY <1>1
  <2>2. sessions[t] # None /\ Owner(t) = User(r)
    <3>1. CASE listed'[r] = listed[r]
      BY <1>0, <3>1 DEF LogoutAllOK
    <3>2. CASE Lists(r) /\ listed'[r] # listed[r]
      <4>1. listed'[r] = Active(User(r))
        BY <3>2 DEF Lists, TypeOK
      <4> QED
        BY <4>1, AgentPortalAssumption DEF Active
    <3> QED
      BY <1>0, <3>1, <3>2, TokensKeep
  <2> QED
    BY <1>0, <2>1, <2>2, OwnerStays, TokensKeep
<1>5. ASSUME Is(r, "logoutAll"), at'[r] = "done", NEW t \in listed'[r]
      PROVE  sessions'[t] = "inactive"
  <2>1. CASE at[r] = "done"
    <3>1. listed'[r] = listed[r]
      BY <1>0, <2>1, TokensKeep DEF Lists
    <3>2. t \in Tokens /\ sessions[t] = "inactive"
      BY <1>0, <1>1, <1>5, <2>1, <3>1 DEF LogoutAllOK
    <3> QED
      BY <1>0, <3>2, TokensKeep
  <2>2. CASE InvalidatesAll(r)
    <3>1. listed'[r] = listed[r]
      BY <2>2 DEF InvalidatesAll, sessionVars
    <3>2. t \in Tokens /\ sessions[t] # None /\ Owner(t) = User(r)
      BY <1>0, <1>1, <1>5, <3>1 DEF LogoutAllOK
    <3>3. sessions[t] \in {"active", "inactive"}
      BY <3>2 DEF TypeOK
    <3> QED
      BY <2>2, <3>2, <3>3 DEF InvalidatesAll, Active
  <2> QED
    BY <1>5, <2>1, <2>2, LogoutArrivals
<1>6. Is(r, "logoutAll")' => Is(r, "logoutAll")
  BY OwnerStays DEF Operations
<1> QED
  BY <1>2, <1>3, <1>4, <1>5, <1>6 DEF LogoutAllOK, Active

\* A logout keeps what is said of it.
LEMMA LogoutStep ==
    ASSUME TypeOK, StageInv, SessionInv, [Next]_vars, NEW r \in Requests
    PROVE  LogoutOK(r)'
<1>0. LogoutOK(r) /\ TokenInv
  BY DEF SessionInv
<1>1. /\ Arg(r)' = Arg(r)
      /\ Is(r, "logout")' = Is(r, "logout")
      /\ migrated' = migrated
  BY OwnerStays, GivenStays DEF Operations
<1>2. ASSUME at'[r] = "invalidate"
      PROVE  Arg(r) \in blacklist' \cup expired'
  <2>1. CASE at[r] = "invalidate"
    BY <1>0, <2>1, TokensKeep DEF LogoutOK
  <2>2. CASE Blacklists(r)
    BY <1>2, <2>2 DEF Blacklists, Goto, TypeOK
  <2> QED
    BY <1>2, <2>1, <2>2, LogoutArrivals
<1>3. ASSUME Is(r, "logout"), at'[r] \notin {"auth", "failed"}
      PROVE  Arg(r) \in issued'
  <2>1. CASE at[r] = "auth"
    BY <1>0, <1>3, <2>1, LogoutArrivals, TokensKeep
  <2>2. CASE at[r] = "failed"
    BY <1>3, <2>2, EndedStays DEF Ended
  <2>3. CASE at[r] \notin {"auth", "failed"}
    BY <1>0, <1>3, <2>3, TokensKeep DEF LogoutOK
  <2> QED
    BY <2>1, <2>2, <2>3
<1>4. ASSUME Is(r, "logout"), at'[r] = "done", faults' = 0
      PROVE  /\ Arg(r) \in blacklist' \cup expired'
             /\ migrated /\ sessions'[Arg(r)] = "active" => Arg(r) \in expired'
  <2>0. Arg(r) \in Tokens /\ Owner(Arg(r)) = User(r) /\ faults = 0
    BY <1>4, Named, FaultsGrow
  <2>1. CASE at[r] = "done"
    <3>1. /\ Arg(r) \in issued
          /\ Arg(r) \in blacklist \cup expired
          /\ migrated /\ sessions[Arg(r)] = "active" => Arg(r) \in expired
      BY <1>0, <1>4, <2>0, <2>1 DEF LogoutOK
    <3>2. sessions'[Arg(r)] = "active" => sessions[Arg(r)] = "active"
      <4>1. ~ (Arg(r) \in Requests /\ InsertsSession(Arg(r)))
        BY <1>0, <3>1 DEF TokenInv, InsertsSession
      <4>2. sessions[Arg(r)] \in {None, "active", "inactive"} /\ "active" # None
        BY <2>0, AgentPortalAssumption DEF TypeOK
      <4> QED
        BY <1>0, <2>0, <4>1, <4>2, TokensKeep
    <3> QED
      BY <1>0, <3>1, <3>2, TokensKeep
  <2>2. CASE Blacklists(r)
    <3>1. Arg(r) \in expired /\ expired' = expired
      BY <1>4, <2>2 DEF Blacklists, Goto, TypeOK
    <3> QED
      BY <3>1
  <2>3. CASE Invalidates(r)
    <3>1. Arg(r) \in blacklist' \cup expired'
      BY <1>0, <2>3, TokensKeep DEF LogoutOK, Invalidates
    <3>2. migrated => sessions'[Arg(r)] # "active"
      BY <2>0, <2>3 DEF Invalidates, Active, TypeOK
    <3> QED
      BY <3>1, <3>2
  <2> QED
    BY <1>4, <2>1, <2>2, <2>3, LogoutArrivals
<1> QED
  BY <1>1, <1>2, <1>3, <1>4 DEF LogoutOK

\* The invariant of the sessions is kept by every step.
LEMMA SessionStep ==
    ASSUME TypeOK, StageInv, SessionInv, [Next]_vars
    PROVE  SessionInv'
<1>1. TokenInv'
  BY TokenStep DEF SessionInv
<1>2. EndedInv'
  BY EndedStep
<1> QED
  BY <1>1, <1>2, LogoutAllStep, LogoutStep DEF SessionInv

-----------------------------------------------------------------------------
(* Users *)

\* A role is written by a login that inserts its user, or by a sync.
LEMMA RoleSteps ==
    ASSUME [Next]_vars
    PROVE  \/ UNCHANGED <<roles, home>>
           \/ \E r \in Requests : InsertsUser(r) \/ StoresUser(r)
<1>1. CASE UNCHANGED vars
  BY <1>1 DEF vars, accountVars
<1>2. ASSUME NEW r \in Requests, LogsIn(r) \/ Syncs(r)
      PROVE  UNCHANGED <<roles, home>> \/ InsertsUser(r) \/ StoresUser(r)
  BY <1>2 DEF LogsIn, ExchangesCode, Provisions, FindsUser,
              InsertsSession, Refreshes, Syncs, FetchesUsers, FindsNext,
              accountVars
<1>3. ASSUME NEW r \in Requests,
             \/ Authenticates(r) \/ EndsSessions(r) \/ Converses(r) \/ Sends(r)
             \/ Onboards(r) \/ ShowsStats(r) \/ Disturbs(r)
      PROVE  UNCHANGED <<roles, home>>
  BY <1>3, AuthFrame, LogoutFrame, ConverseFrame, SendFrame, OnboardFrame,
     StatsFrame, FaultFrame DEF elsewhereVars, accountVars
<1>4. ASSUME \/ \E t \in Tokens : Expires(t)
             \/ Promotes \/ CountsGrow \/ StatsExpire \/ Crash \/ StateExpires
      PROVE  UNCHANGED <<roles, home>>
  BY <1>4 DEF Expires, Promotes, CountsGrow, StatsExpire, Crash, StateExpires,
              elsewhereVars, accountVars
<1> QED
  BY <1>1, <1>2, <1>3, <1>4, NextCases

\* What a sync has fetched and has left is its own.
LEMMA SyncSteps ==
    ASSUME TypeOK, [Next]_vars, NEW r \in Requests
    PROVE  \/ UNCHANGED <<subject[r], todo[r], fetched[r], before[r]>>
           \/ FetchesUsers(r) \/ FindsNext(r)
           \/ /\ UNCHANGED <<subject[r], fetched[r], before[r]>>
              /\ faults' > 0
<1> USE DEF TypeOK
<1>1. CASE UNCHANGED vars
  BY <1>1 DEF vars, syncVars
<1>2. ASSUME NEW q \in Requests, Syncs(q), q # r
      PROVE  UNCHANGED <<subject[r], todo[r], fetched[r], before[r]>>
  BY <1>2 DEF Syncs, FetchesUsers, FindsNext, StoresUser, syncVars
<1>3. CASE StoresUser(r)
  BY <1>3 DEF StoresUser, syncVars
<1>4. ASSUME NEW q \in Requests,
             \/ Authenticates(q) \/ LogsIn(q) \/ EndsSessions(q) \/ Converses(q)
             \/ Sends(q) \/ Onboards(q) \/ ShowsStats(q)
      PROVE  UNCHANGED syncVars
  BY <1>4, AuthFrame, LoginFrame, LogoutFrame, ConverseFrame, SendFrame,
     OnboardFrame, StatsFrame DEF elsewhereVars
<1>5. ASSUME NEW q \in Requests, Disturbs(q)
      PROVE  UNCHANGED <<subject, fetched, before>> /\ faults' > 0
  BY <1>5, FaultFrame DEF Fault
<1>6. ASSUME \/ \E t \in Tokens : Expires(t)
             \/ Promotes \/ CountsGrow \/ StatsExpire \/ Crash \/ StateExpires
      PROVE  UNCHANGED syncVars
  BY <1>6 DEF Expires, Promotes, CountsGrow, StatsExpire, Crash, StateExpires,
              elsewhereVars
<1> QED
  BY <1>1, <1>2, <1>3, <1>4, <1>5, <1>6, NextCases DEF syncVars, Syncs

\* Who provisions the same user is given with the plan.
LEMMA RivalStays ==
    ASSUME [Next]_vars, NEW r \in Requests
    PROVE  Rivalled(r)' = Rivalled(r)
  BY GivenStays DEF Rivalled, Is, Enters, User

\* A tenant is named to a login once.
LEMMA TenantStays ==
    ASSUME TypeOK, [Next]_vars, NEW r \in Requests, at[r] # "provision"
    PROVE  given'[r] = given[r] /\ TenantOf(r)' = TenantOf(r)
<1>1. given'[r] = given[r]
  <2>1. CASE UNCHANGED vars
    BY <2>1 DEF vars, sessionVars
  <2>2. ASSUME NEW q \in Requests, LogsIn(q)
        PROVE  given'[r] = given[r]
    BY <2>2 DEF LogsIn, ExchangesCode, Provisions, FindsUser, InsertsUser,
                InsertsSession, Refreshes, sessionVars, TypeOK
  <2>3. ASSUME NEW q \in Requests, EndsSessions(q)
        PROVE  UNCHANGED given
    BY <2>3 DEF EndsSessions, LogsOut, LogsOutEverywhere, Blacklists, Invalidates,
                Lists, BlacklistsAll, InvalidatesAll, sessionVars
  <2>4. ASSUME NEW q \in Requests,
               \/ Authenticates(q) \/ Syncs(q) \/ Converses(q) \/ Sends(q)
               \/ Onboards(q) \/ ShowsStats(q) \/ Disturbs(q)
        PROVE  UNCHANGED given
    BY <2>4, AuthFrame, SyncFrame, ConverseFrame, SendFrame, OnboardFrame,
       StatsFrame, FaultFrame DEF elsewhereVars, sessionVars
  <2>5. ASSUME \/ \E t \in Tokens : Expires(t)
               \/ Promotes \/ CountsGrow \/ StatsExpire \/ Crash \/ StateExpires
        PROVE  UNCHANGED given
    BY <2>5 DEF Expires, Promotes, CountsGrow, StatsExpire, Crash, StateExpires,
                elsewhereVars, sessionVars
  <2> QED
    BY <2>1, <2>2, <2>3, <2>4, <2>5, NextCases
<1> QED
  BY <1>1, GivenStays DEF TenantOf, Is

\* A user who has a row keeps it, and its tenant.
LEMMA RowStays ==
    ASSUME TypeOK, HomeInv, [Next]_vars, NEW u \in Users, roles[u] # None
    PROVE  roles'[u] # None /\ home'[u] = home[u]
<1> USE DEF TypeOK
<1>1. ASSUME NEW q \in Requests, InsertsUser(q)
      PROVE  roles'[u] # None /\ home'[u] = home[u]
  BY <1>1 DEF InsertsUser
<1>2. ASSUME NEW q \in Requests, StoresUser(q)
      PROVE  roles'[u] # None /\ home'[u] = home[u]
  <2>1. fetched[q] # None /\ home[u] # None
    BY AgentPortalAssumption DEF HomeInv
  <2> QED
    BY <1>2, <2>1 DEF StoresUser, Homes
<1> QED
  BY <1>1, <1>2, RoleSteps

\* Rows and their tenants are made together.
LEMMA HomeStep ==
    ASSUME TypeOK, StageInv, UserInv, [Next]_vars
    PROVE  HomeInv'
<1> USE DEF TypeOK
<1>0. HomeInv /\ \A r \in Requests : User(r) \in Users
  BY Named DEF UserInv
<1>1. ASSUME NEW u \in Users
      PROVE  roles'[u] = None <=> home'[u] = None
  <2>1. ASSUME NEW q \in Requests, InsertsUser(q)
        PROVE  roles'[u] = None <=> home'[u] = None
    <3>1. at[q] = "insertUser" /\ TenantOf(q) # None
      BY <2>1 DEF InsertsUser, UserInv, LoginOK
    <3>2. "agent" # None
      BY AgentPortalAssumption DEF Roles
    <3> QED
      BY <1>0, <2>1, <3>1, <3>2 DEF InsertsUser, HomeInv
  <2>2. ASSUME NEW q \in Requests, StoresUser(q)
        PROVE  roles'[u] = None <=> home'[u] = None
    <3>1. fetched[q] # None /\ home[User(q)] # None
      BY <1>0, <2>2, AgentPortalAssumption DEF HomeInv, StoresUser
    <3> QED
      BY <1>0, <2>2, <3>1 DEF StoresUser, Homes, HomeInv
  <2> QED
    BY <1>0, <2>1, <2>2, RoleSteps DEF HomeInv
<1>2. ASSUME NEW r \in Requests, at'[r] \in SyncAt
      PROVE  roles'[User(r)] # None
  <2>1. roles[User(r)] # None
    <3>1. CASE at[r] \in SyncAt
      BY <1>0, <3>1 DEF HomeInv, SyncAt
    <3>2. CASE Authenticates(r)
      BY <1>2, <3>2 DEF Authenticates, Goto, SyncAt
    <3>3. CASE \/ Moves(r, LoginAt) \/ Moves(r, LogoutAt) \/ Moves(r, ConverseAt)
               \/ Moves(r, SendAt) \/ Moves(r, OnboardAt) \/ Moves(r, StatsAt)
               \/ Moves(r, SyncAt)
      BY <1>2, <3>1, <3>3 DEF Moves, LoginAt, LogoutAt, ConverseAt, SendAt, SyncAt,
                              OnboardAt, StatsAt, Ended
    <3>4. AfterFault(at[r]) \in SyncAt => at[r] \in SyncAt
      BY DEF AfterFault, SyncAt
    <3>5. CASE at'[r] = at[r] \/ at'[r] = AfterFault(at[r]) \/ at'[r] = "failed"
      BY <1>2, <3>1, <3>4, <3>5 DEF SyncAt
    <3> QED
      BY <3>2, <3>3, <3>5, OwnStep, LoginFrame, LogoutFrame, SyncFrame,
         ConverseFrame, SendFrame, OnboardFrame, StatsFrame
  <2> QED
    BY <1>0, <2>1, RowStays
<1>3. \A r \in Requests : User(r)' = User(r)
  BY OwnerStays
<1> QED
  BY <1>1, <1>2, <1>3 DEF HomeInv, SyncAt

\* The step of a login that comes to a statement or an end of its own.
LEMMA LoginMoves ==
    ASSUME TypeOK, StageInv, [Next]_vars, NEW r \in Requests, at'[r] # at[r],
           \/ at'[r] \in {"find", "insertUser", "insertSession"}
           \/ Enters(r) /\ at'[r] = "done"
           \/ Enters(r) /\ at'[r] = "failed" /\ faults' = 0
    PROVE  LogsIn(r)
<1> USE DEF TypeOK
<1>1. StageOK(r)
  BY DEF StageInv
<1>2. Enters(r) => at[r] \in LoginAt \cup Ended
  BY <1>1 DEF StageOK, Is, Enters, LoginAt, Statements
<1>3. CASE Authenticates(r)
  BY <1>2, <1>3, AuthFrame DEF LoginAt, Ended
<1>4. CASE \/ Moves(r, LogoutAt) \/ Moves(r, SyncAt)
           \/ Moves(r, ConverseAt) \/ Moves(r, SendAt)
           \/ Moves(r, OnboardAt) \/ Moves(r, StatsAt)
  BY <1>2, <1>4 DEF Moves, LogoutAt, SyncAt, ConverseAt, SendAt, OnboardAt,
                    StatsAt, Ended, LoginAt
<1>5. CASE /\ faults' > 0 /\ at[r] \notin Ended
           /\ at'[r] = AfterFault(at[r]) \/ at'[r] = "failed"
  <2>1. AfterFault(at[r]) \notin {"find", "insertUser", "insertSession"}
    BY DEF AfterFault
  <2>2. at[r] \in LoginAt => AfterFault(at[r]) # "done"
    BY DEF AfterFault, LoginAt
  <2>3. faults' # 0
    BY <1>5, FaultsGrow
  <2> QED
    BY <1>2, <1>5, <2>1, <2>2, <2>3
<1> QED
  BY <1>3, <1>4, <1>5, OwnStep, LogoutFrame, SyncFrame, ConverseFrame, SendFrame,
     OnboardFrame, StatsFrame

\* A login keeps what is said of it, whoever else inserts its user.
LEMMA LoginStep ==
    ASSUME TypeOK, StageInv, UserInv, [Next]_vars, NEW r \in Requests
    PROVE  LoginOK(r)'
<1> USE DEF TypeOK
<1>0. LoginOK(r) /\ StageOK(r)
  BY DEF UserInv, StageInv
<1>1. /\ Rivalled(r)' = Rivalled(r) /\ User(r)' = User(r)
      /\ Enters(r)' = Enters(r) /\ Is(r, "demo")' = Is(r, "demo")
      /\ migrated' = migrated
  BY RivalStays, OwnerStays, GivenStays DEF Is
<1>6. HomeInv /\ User(r) \in Users
  BY Named DEF UserInv
<1>2. ASSUME at'[r] = "insertUser", roles'[User(r)] # None
      PROVE  Rivalled(r)
  <2>1. CASE at[r] = "insertUser" /\ roles[User(r)] # None
    BY <1>0, <2>1 DEF LoginOK
  <2>2. CASE at[r] = "insertUser" /\ roles[User(r)] = None
    <3>1. ASSUME NEW q \in Requests, InsertsUser(q)
          PROVE  q # r /\ Enters(q) /\ User(q) = User(r)
      <4>1. q # r
        BY <1>2, <3>1 DEF InsertsUser, Goto
      <4>2. Enters(q)
        BY <3>1 DEF InsertsUser, StageInv, StageOK
      <4>3. User(q) = User(r)
        <5>1. roles' = roles \/ roles' = [roles EXCEPT ![User(q)] = "agent"]
          BY <3>1 DEF InsertsUser
        <5>2. User(r) \in Users
          BY Named
        <5> QED
          BY <1>2, <2>2, <5>1, <5>2
      <4> QED
        BY <4>1, <4>2, <4>3
    <3>2. ASSUME NEW q \in Requests, StoresUser(q)
          PROVE  q # r /\ Is(q, "sync")
      BY <2>2, <3>2 DEF StoresUser, StageInv, StageOK
    <3> QED
      BY <1>2, <2>2, <3>1, <3>2, RoleSteps DEF Rivalled
  <2>3. CASE at[r] # "insertUser"
    <3>1. FindsUser(r)
      BY <1>2, <2>3, LoginMoves
      DEF LogsIn, ExchangesCode, Provisions, InsertsUser, InsertsSession,
          Refreshes, Goto
    <3>2. roles[User(r)] = None /\ roles' = roles
      BY <1>2, <3>1 DEF FindsUser, Goto, accountVars
    <3> QED
      BY <1>2, <3>2
  <2> QED
    BY <2>1, <2>2, <2>3
<1>3. ASSUME Enters(r), at'[r] = "failed", faults' = 0
      PROVE  \/ Rivalled(r)
             \/ home'[User(r)] \notin {None, TenantOf(r)'}
             \/ Is(r, "demo") /\ ~migrated
  <2>1. CASE at[r] = "failed"
    <3>1. TenantOf(r)' = TenantOf(r) /\ faults = 0
      BY <1>3, <2>1, TenantStays, FaultsGrow
    <3>2. home[User(r)] # None => home'[User(r)] = home[User(r)]
      BY <1>6, RowStays DEF HomeInv
    <3> QED
      BY <1>0, <1>3, <2>1, <3>1, <3>2 DEF LoginOK
  <2>2. CASE FindsUser(r)
    <3>1. /\ roles[User(r)] # None /\ home[User(r)] # TenantOf(r)
          /\ at[r] # "provision" /\ home' = home
      BY <1>3, <2>2 DEF FindsUser, Goto, accountVars
    <3> QED
      BY <1>6, <3>1, TenantStays DEF HomeInv
  <2>3. CASE InsertsUser(r)
    BY <1>0, <1>3, <2>3 DEF InsertsUser, Goto, LoginOK
  <2>4. CASE at[r] # "failed" /\ ~ FindsUser(r) /\ ~ InsertsUser(r)
    BY <1>3, <2>4, LoginMoves
    DEF LogsIn, ExchangesCode, Provisions, InsertsSession, Refreshes, Goto
  <2> QED
    BY <2>1, <2>2, <2>3, <2>4
<1>4. ASSUME at'[r] \in {"find", "insertUser"}
      PROVE  TenantOf(r)' # None
  <2>1. CASE at'[r] = at[r]
    BY <1>0, <1>4, <2>1, TenantStays DEF LoginOK
  <2>2. CASE at'[r] # at[r] /\ Provisions(r)
    <3>1. Is(r, "login")' /\ given'[r] \in Tenants
      BY <1>0, <2>2, GivenStays DEF Provisions, StageOK, Is
    <3>2. TenantOf(r)' = given'[r]
      BY <3>1 DEF TenantOf, Is
    <3> QED
      BY <3>1, <3>2, AgentPortalAssumption
  <2>3. CASE at'[r] # at[r] /\ FindsUser(r)
    <3>1. CASE at[r] = "find"
      BY <1>0, <3>1, TenantStays DEF LoginOK
    <3>2. CASE at[r] = "demo"
      BY <1>0, <3>2, TenantStays, AgentPortalAssumption DEF TenantOf, StageOK
    <3> QED
      BY <2>3, <3>1, <3>2 DEF FindsUser
  <2>4. CASE at'[r] # at[r] /\ ~ Provisions(r) /\ ~ FindsUser(r)
    BY <1>4, <2>4, LoginMoves
    DEF LogsIn, ExchangesCode, InsertsUser, InsertsSession, Refreshes, Goto
  <2> QED
    BY <2>1, <2>2, <2>3, <2>4
<1>5. ASSUME Enters(r), at'[r] \in {"insertSession", "done"}
      PROVE  home'[User(r)] # None /\ home'[User(r)] = TenantOf(r)'
  <2>1. CASE at[r] \in {"insertSession", "done"}
    <3>1. home[User(r)] # None /\ home[User(r)] = TenantOf(r)
      BY <1>0, <1>5, <2>1 DEF LoginOK
    <3> QED
      BY <1>6, <2>1, <3>1, RowStays, TenantStays DEF HomeInv
  <2>2. CASE FindsUser(r)
    <3>1. /\ roles[User(r)] # None /\ home[User(r)] = TenantOf(r)
          /\ at[r] # "provision" /\ home' = home
      BY <1>5, <2>2 DEF FindsUser, Goto, accountVars
    <3> QED
      BY <1>6, <3>1, TenantStays DEF HomeInv
  <2>3. CASE InsertsUser(r)
    <3>1. TenantOf(r) # None /\ TenantOf(r)' = TenantOf(r)
      BY <1>0, <2>3, TenantStays DEF InsertsUser, LoginOK
    <3>2. home' = [home EXCEPT ![User(r)] = TenantOf(r)]
      BY <1>5, <2>3 DEF InsertsUser, Goto
    <3> QED
      BY <1>6, <3>1, <3>2
  <2>4. CASE at[r] \notin {"insertSession", "done"} /\ ~ FindsUser(r)
             /\ ~ InsertsUser(r)
    <3>1. ~ Refreshes(r)
      BY <1>0, <1>5 DEF Refreshes, StageOK, Is, Enters
    <3> QED
      BY <1>5, <2>4, <3>1, LoginMoves
      DEF LogsIn, ExchangesCode, Provisions, InsertsSession, Goto
  <2> QED
    BY <2>1, <2>2, <2>3, <2>4
<1> QED
  BY <1>1, <1>2, <1>3, <1>4, <1>5 DEF LoginOK

\* Who has overwritten a role has.
LEMMA OverwrittenStays ==
    ASSUME TypeOK, [Next]_vars, NEW r \in Requests, at[r] \notin {"auth", "fetch"},
           NEW u \in Users, Overwritten(r, u)
    PROVE  Overwritten(r, u)'
<1>1. before'[r] = before[r]
  BY SyncSteps DEF FetchesUsers, FindsNext
<1>2. \A s \in Requests : at[s] \notin {"auth", "fetch"} =>
         at'[s] \notin {"auth", "fetch"} /\ fetched'[s] = fetched[s]
  BY SyncSteps, EndedStays DEF FetchesUsers, FindsNext
<1>3. plan' = plan
  BY GivenStays
<1> QED
  BY <1>1, <1>2, <1>3 DEF Overwritten, Is, Enters, User

\* A role that changes while a sync with the newer role is in the service
\* becomes the newer one, or another request overwrites it.
LEMMA RoleWritten ==
    ASSUME TypeOK, StageInv, [Next]_vars, NEW r \in Requests, SyncOK(r),
           NEW u \in Users, roles'[u] # roles[u]
    PROVE  roles'[u] = "admin" \/ Overwritten(r, u)
<1> USE DEF TypeOK
<1>1. ASSUME NEW q \in Requests, InsertsUser(q)
      PROVE  Overwritten(r, u)
  <2>1. at[q] = "insertUser" /\ u = User(q)
    BY <1>1 DEF InsertsUser
  <2>2. q \notin before[r]
    BY <2>1 DEF SyncOK, Ended
  <2>3. Enters(q)
    BY <2>1 DEF StageInv, StageOK
  <2> QED
    BY <2>1, <2>2, <2>3 DEF Overwritten
<1>2. ASSUME NEW q \in Requests, StoresUser(q)
      PROVE  roles'[u] = "admin" \/ Overwritten(r, u)
  <2>1. at[q] \in {"createUser", "updateUser"} /\ roles'[u] = fetched[q]
    BY <1>2 DEF StoresUser
  <2>2. q \notin before[r] /\ Is(q, "sync")
    BY <2>1 DEF SyncOK, Ended, StageInv, StageOK
  <2>3. fetched[q] \in {"agent", "admin"}
    BY DEF Roles
  <2> QED
    BY <2>1, <2>2, <2>3 DEF Overwritten
<1> QED
  BY <1>1, <1>2, RoleSteps

\* A user a sync has dealt with keeps the role, or an older one has overwritten it.
LEMMA SyncedStays ==
    ASSUME TypeOK, StageInv, [Next]_vars, NEW r \in Requests, SyncOK(r),
           at[r] \notin {"auth", "fetch"},
           NEW u \in Users, roles[u] = "admin" \/ Overwritten(r, u)
    PROVE  roles'[u] = "admin" \/ Overwritten(r, u)'
  BY RoleWritten, OverwrittenStays

\* What a sync does when nothing fails.
LEMMA SyncMoves ==
    ASSUME TypeOK, StageInv, [Next]_vars, NEW r \in Requests, faults' = 0,
           at'[r] \in {"findUser", "findAgain", "createUser", "updateUser"}
             \/ (Is(r, "sync") /\ at'[r] = "done")
    PROVE  \/ /\ at'[r] = at[r]
              /\ UNCHANGED <<subject[r], todo[r], fetched[r], before[r]>>
           \/ Syncs(r)
<1>1. StageOK(r)
  BY DEF StageInv
<1>2. CASE Authenticates(r)
  BY <1>2, AuthFrame DEF TypeOK
<1>3. CASE \/ Moves(r, LoginAt) \/ Moves(r, LogoutAt) \/ Moves(r, ConverseAt)
           \/ Moves(r, SendAt) \/ Moves(r, OnboardAt) \/ Moves(r, StatsAt)
  <2>1. at'[r] \notin {"findUser", "findAgain", "createUser", "updateUser"}
    BY <1>3 DEF Moves, LoginAt, LogoutAt, ConverseAt, SendAt, OnboardAt,
                StatsAt, Ended, TypeOK
  <2>2. ~ Is(r, "sync")
    BY <1>1, <1>3 DEF Moves, LoginAt, LogoutAt, ConverseAt, SendAt, OnboardAt,
                      StatsAt, StageOK, Is, Enters
  <2> QED
    BY <2>1, <2>2
<1>4. CASE at'[r] = at[r] /\ ~ Syncs(r)
  <2>1. ~ FetchesUsers(r) /\ ~ FindsNext(r)
    BY <1>4 DEF Syncs
  <2> QED
    BY <1>4, <2>1, SyncSteps
<1> QED
  BY <1>2, <1>3, <1>4, OwnStep, LoginFrame, LogoutFrame, ConverseFrame,
     SendFrame, OnboardFrame, StatsFrame

\* A sync keeps what is said of it, whatever runs beside it.
LEMMA SyncStep ==
    ASSUME TypeOK, StageInv, UserInv, [Next]_vars, NEW r \in Requests
    PROVE  SyncOK(r)'
<1> USE DEF TypeOK
<1>0. SyncOK(r)
  BY DEF UserInv
<1>1. ASSUME NEW s \in before'[r]
      PROVE  at'[s] \in Ended
  <2>0. s \in Requests
    BY TypeStep
  <2>1. CASE FetchesUsers(r)
    <3>1. before'[r] = {q \in Requests : at[q] \in Ended}
      BY <2>1 DEF FetchesUsers
    <3> QED
      BY <2>0, <3>1, EndedStays
  <2>2. CASE before'[r] = before[r]
    BY <1>0, <2>0, <2>2, EndedStays DEF SyncOK
  <2> QED
    BY <2>1, <2>2, SyncSteps DEF FindsNext
<1>2. ASSUME at'[r] \in {"findAgain", "createUser", "updateUser"}
      PROVE  subject'[r] \in Users
  <2>1. CASE FindsNext(r)
    BY <1>0, <1>2, <2>1 DEF FindsNext, Goto, SyncOK
  <2>2. CASE FetchesUsers(r) \/ StoresUser(r)
    BY <1>2, <2>2 DEF FetchesUsers, StoresUser, Goto
  <2>3. CASE subject'[r] = subject[r] /\ at'[r] = at[r]
    BY <1>0, <1>2, <2>3 DEF SyncOK
  <2>4. CASE subject'[r] = subject[r] /\ at'[r] # at[r] /\ ~ Syncs(r)
    <3>1. CASE Authenticates(r)
      BY <1>2, <3>1, AuthFrame
    <3>2. CASE \/ Moves(r, LoginAt) \/ Moves(r, LogoutAt) \/ Moves(r, ConverseAt)
               \/ Moves(r, SendAt) \/ Moves(r, OnboardAt) \/ Moves(r, StatsAt)
      BY <1>2, <3>2 DEF Moves, LoginAt, LogoutAt, ConverseAt, SendAt,
                        OnboardAt, StatsAt, Ended
    <3>3. AfterFault(at[r]) \notin {"findAgain", "createUser", "updateUser"}
      BY DEF AfterFault
    <3> QED
      BY <1>2, <2>4, <3>1, <3>2, <3>3, OwnStep, LoginFrame, LogoutFrame,
         ConverseFrame, SendFrame, OnboardFrame, StatsFrame
  <2> QED
    BY <2>1, <2>2, <2>3, <2>4, SyncSteps DEF Syncs
<1>3. ASSUME Is(r, "sync"), fetched'[r] = "admin", faults' = 0,
             at'[r] \in {"findUser", "findAgain", "createUser", "updateUser",
                         "done"},
             NEW u \in Synced(r)'
      PROVE  roles'[u] = "admin" \/ Overwritten(r, u)'
  <2>0. u \in Users /\ faults = 0
    BY <1>3, FaultsGrow DEF Synced
  <2>1. ASSUME u \in Synced(r), at[r] \notin {"auth", "fetch"},
               fetched[r] = "admin",
               at[r] \in {"findUser", "findAgain", "createUser", "updateUser",
                          "done"}
        PROVE  roles'[u] = "admin" \/ Overwritten(r, u)'
    BY <1>0, <1>3, <2>0, <2>1, SyncedStays DEF SyncOK
  <2>2. CASE /\ at'[r] = at[r]
             /\ UNCHANGED <<subject[r], todo[r], fetched[r], before[r]>>
    BY <1>3, <2>1, <2>2 DEF Synced
  <2>3. CASE FetchesUsers(r)
    <3>1. at'[r] = "findUser" /\ todo'[r] = Users \ {DemoUser}
      BY <2>3 DEF FetchesUsers, Goto
    <3> QED
      BY <1>3, <3>1 DEF Synced
  <2>4. CASE FindsNext(r)
    <3>1. /\ fetched'[r] = fetched[r]
          /\ at[r] \in {"findUser", "findAgain"}
          /\ at'[r] \in {"findAgain", "updateUser", "createUser", "done"}
      BY <2>4 DEF FindsNext, Goto
    <3>2. u \in Synced(r)
      <4>1. CASE at[r] = "findAgain"
        <5>1. /\ at'[r] \in {"updateUser", "createUser"}
              /\ UNCHANGED <<subject, todo>>
          BY <2>4, <4>1 DEF FindsNext, Goto
        <5> QED
          BY <1>3, <4>1, <5>1 DEF Synced
      <4>2. CASE at[r] = "findUser" /\ todo[r] = {}
        BY <2>0, <4>2 DEF Synced
      <4>3. CASE at[r] = "findUser" /\ todo[r] # {}
        <5>1. PICK v \in todo[r] :
                 /\ subject' = [subject EXCEPT ![r] = v]
                 /\ todo' = [todo EXCEPT ![r] = @ \ {v}]
                 /\ at' = [at EXCEPT ![r] = IF roles[v] = None THEN "findAgain"
                                                              ELSE "updateUser"]
          BY <2>4, <4>3 DEF FindsNext, Goto
        <5>2. /\ at'[r] \in {"findAgain", "updateUser"}
              /\ subject'[r] = v /\ todo'[r] = todo[r] \ {v}
          BY <5>1
        <5> QED
          BY <1>3, <4>3, <5>2 DEF Synced
      <4> QED
        BY <3>1, <4>1, <4>2, <4>3
    <3> QED
      BY <1>3, <2>1, <3>1, <3>2
  <2>5. CASE StoresUser(r)
    <3>1. /\ at[r] \in {"createUser", "updateUser"} /\ at'[r] = "findUser"
          /\ UNCHANGED <<subject, todo, fetched>>
      BY <2>5 DEF StoresUser, Goto, syncVars
    <3>2. CASE u = subject[r]
      <4>1. CASE at[r] = "createUser" /\ roles[subject[r]] # None
        BY <1>0, <1>3, <2>0, <3>1, <3>2, <4>1, SyncedStays DEF SyncOK
      <4>2. CASE ~ (at[r] = "createUser" /\ roles[subject[r]] # None)
        BY <1>3, <2>0, <2>5, <3>1, <3>2, <4>2 DEF StoresUser
      <4> QED
        BY <4>1, <4>2
    <3>3. CASE u # subject[r]
      <4>1. u \in Synced(r)
        BY <1>3, <2>0, <3>1, <3>3 DEF Synced
      <4> QED
        BY <1>3, <2>1, <3>1, <4>1
    <3> QED
      BY <3>2, <3>3
  <2> QED
    BY <1>3, <2>2, <2>3, <2>4, <2>5, SyncMoves DEF Syncs
<1>4. ASSUME fetched'[r] = "admin", faults' = 0,
             at'[r] = "createUser", roles'[subject'[r]] # None
      PROVE  roles'[subject'[r]] = "admin" \/ Overwritten(r, subject[r])'
  <2>0. faults = 0
    BY <1>4, FaultsGrow
  <2>1. CASE /\ at'[r] = at[r]
             /\ UNCHANGED <<subject[r], todo[r], fetched[r], before[r]>>
    <3>1. subject[r] \in Users
      BY <1>0, <1>4, <2>1 DEF SyncOK
    <3>2. ASSUME NEW u \in Users, u = subject[r]
          PROVE  roles'[u] = "admin" \/ Overwritten(r, u)'
      <4>1. CASE roles[u] # None
        <5>1. roles[u] = "admin" \/ Overwritten(r, u)
          BY <1>0, <1>4, <2>0, <2>1, <3>2, <4>1 DEF SyncOK
        <5> QED
          BY <1>0, <1>4, <2>1, <5>1, SyncedStays
      <4>2. CASE roles[u] = None
        <5>1. roles'[u] # roles[u]
          BY <1>4, <2>1, <3>2, <4>2
        <5> QED
          BY <1>0, <1>4, <2>1, <5>1, RoleWritten, OverwrittenStays
      <4> QED
        BY <4>1, <4>2
    <3> QED
      BY <2>1, <3>1, <3>2 DEF Overwritten
  <2>2. CASE FetchesUsers(r) \/ StoresUser(r)
    BY <1>4, <2>2 DEF FetchesUsers, StoresUser, Goto
  <2>3. CASE FindsNext(r)
    <3>1. roles[subject[r]] = None /\ UNCHANGED <<subject, roles>>
      BY <1>4, <2>3 DEF FindsNext, Goto, accountVars
    <3> QED
      BY <1>4, <3>1
  <2> QED
    BY <1>4, <2>1, <2>2, <2>3, SyncMoves DEF Syncs
<1>5. ASSUME Is(r, "sync"), at'[r] = "done", faults' = 0
      PROVE  todo'[r] = {}
  <2>0. faults = 0
    BY <1>5, FaultsGrow
  <2>1. CASE /\ at'[r] = at[r]
             /\ UNCHANGED <<subject[r], todo[r], fetched[r], before[r]>>
    BY <1>0, <1>5, <2>0, <2>1 DEF SyncOK
  <2>2. CASE FetchesUsers(r) \/ StoresUser(r)
    BY <1>5, <2>2 DEF FetchesUsers, StoresUser, Goto
  <2>3. CASE FindsNext(r)
    BY <1>5, <2>3 DEF FindsNext, Goto
  <2> QED
    BY <1>5, <2>1, <2>2, <2>3, SyncMoves DEF Syncs
<1>6. Is(r, "sync")' = Is(r, "sync")
  BY OwnerStays DEF Operations
<1> QED
  BY <1>1, <1>2, <1>3, <1>4, <1>5, <1>6 DEF SyncOK

\* The invariant of the users is kept by every step.
LEMMA UserStep ==
    ASSUME TypeOK, StageInv, UserInv, [Next]_vars
    PROVE  UserInv'
  BY HomeStep, LoginStep, SyncStep DEF UserInv

-----------------------------------------------------------------------------
(* Assignees *)

\* Only two statements write the assignments.
LEMMA AssigneeSteps ==
    ASSUME [Next]_vars
    PROVE  \/ UNCHANGED <<assignments, uninvited>>
           \/ \E r \in Requests : Assigns(r) \/ Transfers(r)
<1>1. CASE UNCHANGED vars
  BY <1>1 DEF vars
<1>2. ASSUME NEW r \in Requests, Converses(r)
      PROVE  UNCHANGED <<assignments, uninvited>> \/ Assigns(r) \/ Transfers(r)
  BY <1>2 DEF Converses, ChecksTarget
<1>3. ASSUME NEW r \in Requests,
             \/ Authenticates(r) \/ LogsIn(r) \/ EndsSessions(r) \/ Syncs(r)
             \/ Sends(r) \/ Onboards(r) \/ ShowsStats(r) \/ Disturbs(r)
      PROVE  UNCHANGED <<assignments, uninvited>>
  BY <1>3, AuthFrame, LoginFrame, LogoutFrame, SyncFrame, SendFrame,
     OnboardFrame, StatsFrame, FaultFrame DEF elsewhereVars
<1>4. ASSUME \/ \E t \in Tokens : Expires(t)
             \/ Promotes \/ CountsGrow \/ StatsExpire \/ Crash \/ StateExpires
      PROVE  UNCHANGED <<assignments, uninvited>>
  BY <1>4 DEF Expires, Promotes, CountsGrow, StatsExpire, Crash, StateExpires,
              elsewhereVars
<1> QED
  BY <1>1, <1>2, <1>3, <1>4, NextCases

\* Who has a conversation by its rows.
ActiveIn(rows, u) ==
    \E i \in DOMAIN rows : rows[i].user = u /\ rows[i].status = "active"

\* Being an assignee, by rows.
LEMMA AssigneesAre == \A u : u \in Assignees <=> ActiveIn(assignments, u)
  BY DEF Assignees, ActiveIn

\* A new row adds its user to those who have the conversation.
LEMMA AppendedRows ==
    ASSUME NEW rows \in Seq(Row), NEW row \in Row
    PROVE  \A u : ActiveIn(Append(rows, row), u) <=>
                     ActiveIn(rows, u) \/ (row.user = u /\ row.status = "active")
<1> DEFINE more == Append(rows, row)
<1>1. /\ Len(rows) \in Nat
      /\ DOMAIN rows = 1..Len(rows)
      /\ DOMAIN more = 1..(Len(rows) + 1)
      /\ \A i \in 1..Len(rows) : more[i] = rows[i]
      /\ more[Len(rows) + 1] = row
  OBVIOUS
<1>2. \A i \in 1..(Len(rows) + 1) : i \in 1..Len(rows) \/ i = Len(rows) + 1
  BY <1>1
<1>3. Len(rows) + 1 \in 1..(Len(rows) + 1) /\ 1..Len(rows) \subseteq 1..(Len(rows) + 1)
  BY <1>1
<1> HIDE DEF more
<1>4. \A u : ActiveIn(more, u) <=>
                ActiveIn(rows, u) \/ (row.user = u /\ row.status = "active")
  BY <1>1, <1>2, <1>3 DEF ActiveIn
<1> QED
  BY <1>4 DEF more

\* An assignment adds the caller, a transfer replaces the caller by another.
LEMMA AssigneesChange ==
    ASSUME TypeOK, StageInv, NEW r \in Requests
    PROVE  /\ Assigns(r) =>
                 /\ User(r) \in Assignees'
                 /\ Assignees' \subseteq Assignees \cup {User(r)}
           /\ Transfers(r) /\ assignments' # assignments =>
                 /\ Arg(r) \in Assignees'
                 /\ Assignees' \subseteq (Assignees \ {User(r)}) \cup {Arg(r)}
<1>0. assignments \in Seq(Row) /\ User(r) \in Users
  BY Named DEF TypeOK, Row
<1>1. \A u : u \in Assignees' <=> ActiveIn(assignments', u)
  BY DEF Assignees, ActiveIn
<1>2. ASSUME Assigns(r)
      PROVE  /\ User(r) \in Assignees'
             /\ Assignees' \subseteq Assignees \cup {User(r)}
  <2>1. CASE HasRow(User(r))
    <3>1. assignments' = Marked(assignments, User(r), "active")
      BY <1>2, <2>1 DEF Assigns
    <3>2. ActiveIn(assignments', User(r))
      BY <1>0, <2>1, <3>1, MarkedRows DEF ActiveIn, HasRow
    <3>3. \A u : ActiveIn(assignments', u) =>
                    ActiveIn(assignments, u) \/ u = User(r)
      BY <1>0, <3>1, MarkedRows DEF ActiveIn
    <3> QED
      BY <1>1, <3>2, <3>3, AssigneesAre
  <2>2. CASE ~ HasRow(User(r))
    <3> DEFINE row == [user |-> User(r), status |-> "active"]
    <3>1. assignments' = Append(assignments, row)
      BY <1>2, <2>2 DEF Assigns
    <3>2. row \in Row /\ row.user = User(r) /\ row.status = "active"
      BY <1>0 DEF Row
    <3> HIDE DEF row
    <3>3. \A u : ActiveIn(assignments', u) <=>
                    ActiveIn(assignments, u) \/ User(r) = u
      BY <1>0, <3>1, <3>2, AppendedRows
    <3> QED
      BY <1>1, <3>3, AssigneesAre
  <2> QED
    BY <2>1, <2>2
<1>3. ASSUME Transfers(r), assignments' # assignments
      PROVE  /\ Arg(r) \in Assignees'
             /\ Assignees' \subseteq (Assignees \ {User(r)}) \cup {Arg(r)}
  <2> DEFINE row == [user |-> Arg(r), status |-> "active"]
             closed == Marked(assignments, User(r), "transferred")
  <2>1. assignments' = Append(closed, row)
    BY <1>3 DEF Transfers
  <2>2. Arg(r) \in Users
    BY <1>3, Named DEF Transfers
  <2>3. row \in Row /\ row.user = Arg(r) /\ row.status = "active"
    BY <2>2 DEF Row
  <2>4. /\ closed \in Seq(Row)
        /\ \A u : ActiveIn(closed, u) => ActiveIn(assignments, u) /\ u # User(r)
    BY <1>0, MarkedRows DEF ActiveIn
  <2> HIDE DEF row, closed
  <2>5. \A u : ActiveIn(assignments', u) <=> ActiveIn(closed, u) \/ Arg(r) = u
    BY <2>1, <2>3, <2>4, AppendedRows
  <2> QED
    BY <1>1, <2>4, <2>5, AssigneesAre
<1> QED
  BY <1>2, <1>3

\* Assignments stay explained by every step.
LEMMA AssignmentStep ==
    ASSUME TypeOK, StageInv, AssignmentsExplained, [Next]_vars
    PROVE  AssignmentsExplained'
<1>1. CASE UNCHANGED <<assignments, uninvited>>
  BY <1>1 DEF AssignmentsExplained, Assignees
<1>2. ASSUME NEW u, u \in Assignees', uninvited' \/ Assignees' \subseteq {u}
      PROVE  AssignmentsExplained'
  <2>1. CASE Assignees' \subseteq {u}
    <3>1. Assignees' = {u}
      BY <1>2, <2>1
    <3>2. Cardinality(Assignees') = 1
      BY <3>1, FS_Singleton
    <3> QED
      BY <1>2, <3>2 DEF AssignmentsExplained
  <2> QED
    BY <1>2, <2>1 DEF AssignmentsExplained
<1>3. ASSUME NEW r \in Requests, Assigns(r)
      PROVE  AssignmentsExplained'
  <2>1. uninvited' \/ Assignees \ {User(r)} = {}
    BY <1>3 DEF Assigns
  <2> QED
    BY <1>2, <1>3, <2>1, AssigneesChange
<1>4. ASSUME NEW r \in Requests, Transfers(r), assignments' # assignments
      PROVE  AssignmentsExplained'
  <2>1. uninvited' \/ Assignees \ {User(r)} = {}
    BY <1>4 DEF Transfers
  <2> QED
    BY <1>2, <1>4, <2>1, AssigneesChange
<1>5. ASSUME NEW r \in Requests, Transfers(r), assignments' = assignments
      PROVE  AssignmentsExplained'
  <2>1. uninvited => uninvited'
    BY <1>5 DEF Transfers
  <2>2. Assignees' = Assignees
    BY <1>5 DEF Assignees
  <2> QED
    BY <1>5, <2>1, <2>2 DEF AssignmentsExplained
<1> QED
  BY <1>1, <1>3, <1>4, <1>5, AssigneeSteps

-----------------------------------------------------------------------------
(* Messages *)

\* A send's own steps track and post its message; a POST that fails may have
\* reached Genesys.
LEMMA MessageSteps ==
    ASSUME TypeOK, [Next]_vars
    PROVE  \/ UNCHANGED <<tracked, posted>>
           \/ \E r \in Requests : Sends(r)
           \/ \E r \in Requests :
                 /\ UNCHANGED tracked /\ faults' > 0
                 /\ at[r] = "post" /\ at' = [at EXCEPT ![r] = "failed"]
                 /\ posted' = [posted EXCEPT ![Arg(r)] = @ + 1]
<1>1. CASE UNCHANGED vars
  BY <1>1 DEF vars, messageVars
<1>2. ASSUME NEW r \in Requests, Disturbs(r)
      PROVE  \/ UNCHANGED <<tracked, posted>>
             \/ /\ UNCHANGED tracked /\ faults' > 0
                /\ at[r] = "post" /\ at' = [at EXCEPT ![r] = "failed"]
                /\ posted' = [posted EXCEPT ![Arg(r)] = @ + 1]
  <2>1. AfterFault("post") = "failed"
    BY DEF AfterFault
  <2>2. faults' > 0
    BY <1>2, FaultFrame DEF Fault, TypeOK
  <2>3. UNCHANGED tracked
    BY <1>2, FaultFrame
  <2>4. CASE at[r] = "post"
    BY <1>2, <2>1, <2>2, <2>3, <2>4, FaultFrame
  <2>5. CASE at[r] # "post"
    BY <1>2, <2>3, <2>5, FaultFrame
  <2> QED
    BY <2>4, <2>5
<1>3. ASSUME NEW r \in Requests,
             \/ Authenticates(r) \/ LogsIn(r) \/ EndsSessions(r) \/ Syncs(r)
             \/ Converses(r) \/ Onboards(r) \/ ShowsStats(r)
      PROVE  UNCHANGED <<tracked, posted>>
  BY <1>3, AuthFrame, LoginFrame, LogoutFrame, SyncFrame, ConverseFrame,
     OnboardFrame, StatsFrame DEF elsewhereVars, messageVars
<1>4. ASSUME \/ \E t \in Tokens : Expires(t)
             \/ Promotes \/ CountsGrow \/ StatsExpire \/ Crash \/ StateExpires
      PROVE  UNCHANGED <<tracked, posted>>
  BY <1>4 DEF Expires, Promotes, CountsGrow, StatsExpire, Crash, StateExpires,
              elsewhereVars, messageVars
<1> QED
  BY <1>1, <1>2, <1>3, <1>4, NextCases

\* Who has sent Genesys a message has.
LEMMA SendersGrow ==
    ASSUME TypeOK, StageInv, [Next]_vars, NEW m \in Messages
    PROVE  /\ IsFiniteSet(Senders(m)) /\ IsFiniteSet(Senders(m)')
           /\ Senders(m) \subseteq Senders(m)'
           /\ Cardinality(Senders(m)) <= Cardinality(Senders(m)')
<1>1. IsFiniteSet(Requests)
  BY AgentPortalAssumption
<1>2. Senders(m) \subseteq Requests /\ Senders(m)' \subseteq Requests
  BY DEF Senders
<1>3. IsFiniteSet(Senders(m)) /\ IsFiniteSet(Senders(m)')
  BY <1>1, <1>2, FS_Subset
<1>4. ASSUME NEW r \in Senders(m)
      PROVE  r \in Senders(m)'
  <2>1. /\ r \in Requests /\ Is(r, "send") /\ Arg(r) = m
        /\ at[r] \in {"mark", "done", "failed"}
    BY DEF Senders
  <2>2. Is(r, "send")' /\ Arg(r)' = m
    BY <2>1, OwnerStays DEF Operations
  <2>3. at'[r] \in {"mark", "done", "failed"}
    <3>1. CASE at[r] \in Ended
      BY <3>1, <2>1, EndedStays DEF Ended
    <3>2. CASE Sends(r)
      BY <2>1, <3>2 DEF Sends, Tracks, Posts, MarksSent, Goto, TypeOK
    <3>3. CASE Authenticates(r)
      BY <2>1, <3>3, AuthFrame
    <3>4. CASE \/ Moves(r, LoginAt) \/ Moves(r, LogoutAt) \/ Moves(r, SyncAt)
               \/ Moves(r, ConverseAt) \/ Moves(r, OnboardAt)
               \/ Moves(r, StatsAt)
      BY <2>1, <3>4 DEF Moves, LoginAt, LogoutAt, SyncAt, ConverseAt,
                        OnboardAt, StatsAt, Ended, TypeOK
    <3>5. at[r] = "mark" => AfterFault(at[r]) \in {"mark", "done", "failed"}
      BY DEF AfterFault
    <3> QED
      BY <2>1, <3>1, <3>2, <3>3, <3>4, <3>5, OwnStep, LoginFrame, LogoutFrame,
         SyncFrame, ConverseFrame, OnboardFrame, StatsFrame DEF Ended
  <2> QED
    BY <2>1, <2>2, <2>3 DEF Senders
<1>5. Cardinality(Senders(m)) <= Cardinality(Senders(m)')
  BY <1>3, <1>4, FS_Subset
<1> QED
  BY <1>3, <1>4, <1>5

\* A send that posts its message becomes one of its senders.
LEMMA SenderAdded ==
    ASSUME TypeOK, StageInv, [Next]_vars, NEW r \in Requests, at[r] = "post",
           \E s \in {"mark", "failed"} : at' = [at EXCEPT ![r] = s],
           NEW m \in Messages, m = Arg(r)
    PROVE  Cardinality(Senders(m)') >= Cardinality(Senders(m)) + 1
<1>1. Is(r, "send")
  BY DEF StageInv, StageOK
<1>2. r \notin Senders(m)
  BY DEF Senders
<1>3. r \in Senders(m)'
  <2>1. Is(r, "send")' /\ Arg(r)' = m
    BY <1>1, OwnerStays DEF Operations
  <2>2. at'[r] \in {"mark", "failed"}
    BY DEF TypeOK
  <2> QED
    BY <2>1, <2>2 DEF Senders
<1>4. /\ IsFiniteSet(Senders(m) \cup {r})
      /\ Cardinality(Senders(m) \cup {r}) = Cardinality(Senders(m)) + 1
  BY <1>2, SendersGrow, FS_AddElement
<1>5. Cardinality(Senders(m) \cup {r}) <= Cardinality(Senders(m)')
  BY <1>3, SendersGrow, FS_Subset
<1>6. Cardinality(Senders(m)) \in Nat /\ Cardinality(Senders(m)') \in Nat
  BY SendersGrow, FS_CardinalityType
<1> QED
  BY <1>4, <1>5, <1>6

\* The invariant of the messages is kept by every step.
LEMMA SendStep ==
    ASSUME TypeOK, StageInv, SendInv, [Next]_vars
    PROVE  SendInv'
<1> USE DEF TypeOK
<1>0. /\ \A r \in Requests : StageOK(r)
      /\ \A r \in Requests : at[r] \in SendAt => Arg(r) \in Messages
  BY Named DEF StageInv, SendAt
<1>1. /\ TypeOK' /\ StageInv'
      /\ \A m \in Messages : /\ posted[m] \in Nat /\ posted'[m] \in Nat
                             /\ Cardinality(Senders(m)) \in Nat
                             /\ Cardinality(Senders(m)') \in Nat
  BY TypeStep, StageStep, SendersGrow, FS_CardinalityType
\* Posting counts once.
<1>2. \A m \in Messages :
         \/ posted'[m] = posted[m]
         \/ /\ posted'[m] = posted[m] + 1
            /\ Cardinality(Senders(m)') >= Cardinality(Senders(m)) + 1
  <2>1. ASSUME NEW r \in Requests, at[r] = "post",
               \E s \in {"mark", "failed"} : at' = [at EXCEPT ![r] = s],
               posted' = [posted EXCEPT ![Arg(r)] = @ + 1],
               NEW m \in Messages
        PROVE  \/ posted'[m] = posted[m]
               \/ /\ posted'[m] = posted[m] + 1
                  /\ Cardinality(Senders(m)') >= Cardinality(Senders(m)) + 1
    <3>1. CASE m = Arg(r)
      <4>1. Cardinality(Senders(m)') >= Cardinality(Senders(m)) + 1
        BY <2>1, <3>1, SenderAdded
      <4> QED
        BY <2>1, <3>1, <4>1
    <3>2. CASE m # Arg(r)
      BY <2>1, <3>2
    <3> QED
      BY <3>1, <3>2
  <2>2. ASSUME NEW r \in Requests, Sends(r)
        PROVE  \/ UNCHANGED posted
               \/ /\ at[r] = "post" /\ at' = [at EXCEPT ![r] = "mark"]
                  /\ posted' = [posted EXCEPT ![Arg(r)] = @ + 1]
    BY <2>2 DEF Sends, Tracks, Posts, MarksSent, Goto
  <2> QED
    BY <2>1, <2>2, MessageSteps
<1>3. ASSUME NEW m \in Messages
      PROVE  /\ posted[m] > 0 => posted'[m] > 0
             /\ posted'[m] <= Cardinality(Senders(m)')
  <2>1. posted[m] <= Cardinality(Senders(m))
    BY DEF SendInv, MessageOK
  <2>2. Cardinality(Senders(m)) <= Cardinality(Senders(m)')
    BY SendersGrow
  <2>3. /\ posted[m] \in Nat /\ posted'[m] \in Nat
        /\ Cardinality(Senders(m)) \in Nat /\ Cardinality(Senders(m)') \in Nat
    BY <1>1
  <2>4. CASE posted'[m] = posted[m]
    BY <2>1, <2>2, <2>3, <2>4
  <2>5. CASE /\ posted'[m] = posted[m] + 1
             /\ Cardinality(Senders(m)') >= Cardinality(Senders(m)) + 1
    BY <2>1, <2>3, <2>5
  <2> QED
    BY <1>2, <2>4, <2>5
<1>4. ASSUME NEW r \in Requests, at'[r] = "mark"
      PROVE  posted'[Arg(r)'] > 0
  <2>0. Arg(r)' = Arg(r) /\ Arg(r) \in Messages
    <3>1. Is(r, "send")'
      BY <1>1, <1>4 DEF StageInv, StageOK
    <3>2. Is(r, "send")
      BY <3>1, OwnerStays DEF Operations
    <3> QED
      BY <3>2, Named, OwnerStays
  <2>1. CASE at[r] = "mark"
    BY <1>3, <2>0, <2>1 DEF SendInv
  <2>2. CASE at[r] # "mark"
    <3>1. Posts(r)
      <4>1. CASE Authenticates(r)
        BY <1>4, <4>1, AuthFrame
      <4>2. CASE \/ Moves(r, LoginAt) \/ Moves(r, LogoutAt) \/ Moves(r, SyncAt)
                 \/ Moves(r, ConverseAt) \/ Moves(r, OnboardAt)
                 \/ Moves(r, StatsAt)
        BY <1>4, <4>2 DEF Moves, LoginAt, LogoutAt, SyncAt, ConverseAt,
                          OnboardAt, StatsAt, Ended
      <4>3. AfterFault(at[r]) # "mark"
        BY DEF AfterFault
      <4>4. CASE Sends(r)
        BY <1>4, <2>2, <4>4 DEF Sends, Tracks, MarksSent, Goto
      <4> QED
        BY <1>4, <2>2, <4>1, <4>2, <4>3, <4>4, OwnStep, LoginFrame,
           LogoutFrame, SyncFrame, ConverseFrame, OnboardFrame, StatsFrame
    <3>2. posted'[Arg(r)] = posted[Arg(r)] + 1
      BY <2>0, <3>1 DEF Posts
    <3> QED
      BY <1>1, <2>0, <3>2
  <2> QED
    BY <2>1, <2>2
<1>5. ASSUME NEW m \in Messages
      PROVE  tracked'[m] = "sent" => posted'[m] > 0
  <2>1. CASE tracked[m] = "sent"
    BY <1>3, <2>1 DEF SendInv, MessageOK
  <2>2. ASSUME NEW r \in Requests, Sends(r), tracked[m] # "sent",
               tracked'[m] = "sent"
        PROVE  posted'[m] > 0
    <3>1. MarksSent(r)
      BY <2>2 DEF Sends, Tracks, Posts
    <3>2. at[r] = "mark" /\ m = Arg(r)
      BY <2>2, <3>1 DEF MarksSent
    <3> QED
      BY <1>3, <3>2 DEF SendInv
  <2> QED
    BY <2>1, <2>2, MessageSteps
<1>6. ASSUME NEW m \in Messages, tracked'[m] = "queued", faults' = 0
      PROVE  \E r \in Requests : /\ Is(r, "send")' /\ Arg(r)' = m
                                 /\ at'[r] \in {"post", "mark"}
  <2>0. faults = 0
    BY <1>6, FaultsGrow
  <2>1. CASE tracked[m] = "queued"
    <3>1. PICK r \in Requests : /\ Is(r, "send") /\ Arg(r) = m
                                /\ at[r] \in {"post", "mark"}
      BY <2>0, <2>1 DEF SendInv, MessageOK
    <3>2. Is(r, "send")' /\ Arg(r)' = m
      BY <3>1, OwnerStays DEF Operations
    <3>3. CASE at'[r] = at[r]
      BY <3>1, <3>2, <3>3
    <3>4. CASE Sends(r)
      <4>1. CASE Posts(r)
        BY <3>2, <4>1 DEF Posts, Goto
      <4>2. CASE MarksSent(r)
        BY <1>6, <3>1, <4>2 DEF MarksSent
      <4>3. ~ Tracks(r)
        BY <3>1 DEF Tracks
      <4> QED
        BY <3>4, <4>1, <4>2, <4>3 DEF Sends
    <3>5. CASE Authenticates(r)
      BY <3>1, <3>5, AuthFrame
    <3>6. CASE \/ Moves(r, LoginAt) \/ Moves(r, LogoutAt) \/ Moves(r, SyncAt)
               \/ Moves(r, ConverseAt) \/ Moves(r, OnboardAt)
               \/ Moves(r, StatsAt)
      BY <3>1, <3>6 DEF Moves, LoginAt, LogoutAt, SyncAt, ConverseAt,
                        OnboardAt, StatsAt
    <3> QED
      BY <1>6, <3>3, <3>4, <3>5, <3>6, OwnStep, LoginFrame, LogoutFrame,
         SyncFrame, ConverseFrame, OnboardFrame, StatsFrame
  <2>2. ASSUME NEW r \in Requests, Sends(r), tracked[m] # "queued"
        PROVE  /\ Is(r, "send") /\ Arg(r) = m /\ at'[r] = "post"
    <3>1. Tracks(r)
      BY <1>6, <2>2 DEF Sends, Posts, MarksSent
    <3>2. at[r] = "track" /\ Arg(r) = m /\ at'[r] = "post"
      BY <1>6, <2>2, <3>1 DEF Tracks, Goto
    <3> QED
      BY <1>0, <3>2 DEF StageOK
  <2> QED
    BY <1>6, <2>1, <2>2, MessageSteps, OwnerStays DEF Operations
<1> QED
  <2>1. \A m \in Messages : MessageOK(m)'
    BY <1>3, <1>5, <1>6 DEF MessageOK
  <2> QED
    BY <1>4, <2>1 DEF SendInv

-----------------------------------------------------------------------------
(* The onboarding *)

\* What writes the onboarding and what is known of it.
LEMMA OnboardingSteps ==
    ASSUME [Next]_vars
    PROVE  \/ UNCHANGED <<onboardingVars, stepVars>>
           \/ \E r \in Requests :
                 LoadsState(r) \/ SavesStep(r) \/ Activates(r) \/ Resets(r)
           \/ StateExpires
<1>1. CASE UNCHANGED vars
  BY <1>1 DEF vars
<1>2. ASSUME NEW r \in Requests,
             \/ Authenticates(r) \/ LogsIn(r) \/ EndsSessions(r) \/ Syncs(r)
             \/ Converses(r) \/ Sends(r) \/ ShowsStats(r) \/ Disturbs(r)
      PROVE  UNCHANGED <<onboardingVars, stepVars>>
  BY <1>2, AuthFrame, LoginFrame, LogoutFrame, SyncFrame, ConverseFrame,
     SendFrame, StatsFrame, FaultFrame DEF elsewhereVars
<1>3. ASSUME NEW r \in Requests, Onboards(r)
      PROVE  \/ UNCHANGED <<onboardingVars, stepVars>>
             \/ LoadsState(r) \/ SavesStep(r) \/ Activates(r) \/ Resets(r)
  BY <1>3 DEF Onboards, TriesCredentials, ChecksSteps, SavesProfile
<1>4. ASSUME \/ \E t \in Tokens : Expires(t)
             \/ Promotes \/ CountsGrow \/ StatsExpire \/ Crash
      PROVE  UNCHANGED <<onboardingVars, stepVars>>
  BY <1>4 DEF Expires, Promotes, CountsGrow, StatsExpire, Crash, elsewhereVars
<1> QED
  BY <1>1, <1>2, <1>3, <1>4, NextCases

\* What was saved or overwritten once was, and a tenant stays active.
LEMMA OnboardingGrows ==
    ASSUME [Next]_vars
    PROVE  /\ saved \subseteq saved' /\ lost \subseteq lost'
           /\ onboarded => onboarded'
<1>1. CASE UNCHANGED <<onboardingVars, stepVars>>
  BY <1>1 DEF onboardingVars, stepVars
<1>2. ASSUME NEW r \in Requests,
             LoadsState(r) \/ SavesStep(r) \/ Activates(r) \/ Resets(r)
      PROVE  /\ saved \subseteq saved' /\ lost \subseteq lost'
             /\ onboarded => onboarded'
  BY <1>2 DEF LoadsState, SavesStep, Activates, Resets, onboardingVars, stepVars
<1>3. CASE StateExpires
  BY <1>3 DEF StateExpires, stepVars
<1> QED
  BY <1>1, <1>2, <1>3, OnboardingSteps

\* The steps after which a request is at one of these statements.
LEMMA OnboardingArrivals ==
    ASSUME TypeOK, StageInv, [Next]_vars, NEW r \in Requests, at'[r] # at[r]
    PROVE  /\ at'[r] = "profile" => ChecksSteps(r)
           /\ at'[r] = "activate" => SavesProfile(r)
           /\ at'[r] = "reset" => Activates(r)
           /\ Is(r, "step") /\ at'[r] = "done" /\ faults' = 0 => SavesStep(r)
<1> USE DEF TypeOK
<1>0. StageOK(r)
  BY DEF StageInv
<1>1. CASE Authenticates(r)
  BY <1>1, AuthFrame
<1>2. CASE \/ Moves(r, LoginAt) \/ Moves(r, LogoutAt) \/ Moves(r, SyncAt)
           \/ Moves(r, ConverseAt) \/ Moves(r, SendAt) \/ Moves(r, StatsAt)
  <2>1. at'[r] \notin {"profile", "activate", "reset"}
    BY <1>2 DEF Moves, LoginAt, LogoutAt, SyncAt, ConverseAt, SendAt, StatsAt,
                Ended
  <2>2. ~ Is(r, "step")
    BY <1>0, <1>2 DEF Moves, LoginAt, LogoutAt, SyncAt, ConverseAt, SendAt,
                      StatsAt, StageOK, Is, Enters
  <2> QED
    BY <2>1, <2>2
<1>3. CASE Onboards(r)
  <2>1. ~ SavesStep(r) => ~ (Is(r, "step") /\ at'[r] = "done")
    BY <1>0, <1>3 DEF Onboards, TriesCredentials, LoadsState, ChecksSteps,
                      SavesProfile, Activates, Resets, Goto, StageOK, Is
  <2>2. /\ at'[r] = "profile" => ChecksSteps(r)
        /\ at'[r] = "activate" => SavesProfile(r)
        /\ at'[r] = "reset" => Activates(r)
    BY <1>3 DEF Onboards, TriesCredentials, LoadsState, SavesStep, ChecksSteps,
                SavesProfile, Activates, Resets, Goto
  <2> QED
    BY <2>1, <2>2
<1>4. AfterFault(at[r]) \notin {"profile", "activate", "reset"}
  BY DEF AfterFault
<1> QED
  BY <1>1, <1>2, <1>3, <1>4, OwnStep, LoginFrame, LogoutFrame, SyncFrame,
     ConverseFrame, SendFrame, StatsFrame

\* Saving a step writes the state that was read with the step added.
LEMMA StepSaved ==
    ASSUME TypeOK, StageInv, NEW r \in Requests, SavesStep(r)
    PROVE  /\ Progress(onboarding') = Progress(loaded[r]) \cup {Arg(r)}
           /\ Arg(r) \in Steps
<1>1. Arg(r) \in Steps
  BY Named DEF SavesStep
<1>2. Progress(loaded[r]) \cup {Arg(r)} \in SUBSET Steps
  BY <1>1 DEF TypeOK, Progress
<1>3. onboarding' # None
  BY <1>2, AgentPortalAssumption DEF SavesStep
<1> QED
  BY <1>1, <1>3 DEF SavesStep, Progress

\* A step on record stays there until a tenant is active, unless a request that
\* had read the state before overwrites it, or a fault deletes it.
LEMMA RecordStays ==
    ASSUME TypeOK, StageInv, OnboardingInv, [Next]_vars, faults' = 0,
           NEW s \in Steps,
           s \in Progress(onboarding) \cup lost \/ onboarded
    PROVE  s \in Progress(onboarding') \cup lost' \/ onboarded'
<1>1. CASE UNCHANGED <<onboardingVars, stepVars>>
  BY <1>1 DEF onboardingVars, stepVars
<1>2. ASSUME NEW r \in Requests, LoadsState(r) \/ Activates(r)
      PROVE  UNCHANGED onboarding
  BY <1>2 DEF LoadsState, Activates, onboardingVars
<1>3. ASSUME NEW r \in Requests, SavesStep(r), s \in Progress(onboarding)
      PROVE  s \in Progress(onboarding') \cup lost'
  BY <1>3, StepSaved DEF SavesStep
<1>4. ASSUME NEW r \in Requests, Resets(r)
      PROVE  onboarded
  BY <1>4 DEF Resets, OnboardingInv
<1>5. ~ StateExpires
  BY DEF StateExpires, Fault, TypeOK
<1> QED
  BY <1>1, <1>2, <1>3, <1>4, <1>5, OnboardingSteps, OnboardingGrows

\* The invariant of the onboarding is kept by every step.
LEMMA OnboardingStep ==
    ASSUME TypeOK, StageInv, OnboardingInv, [Next]_vars
    PROVE  OnboardingInv'
<1>1. Progress(onboarding') \subseteq saved'
  <2>1. ASSUME NEW r \in Requests, SavesStep(r)
        PROVE  Progress(onboarding') \subseteq saved'
    BY <2>1, StepSaved DEF SavesStep, OnboardingInv
  <2>2. ASSUME NEW r \in Requests, Resets(r)
        PROVE  onboarding' = None
    BY <2>2 DEF Resets
  <2>3. ASSUME NEW r \in Requests, LoadsState(r) \/ Activates(r)
        PROVE  onboarding' = onboarding
    BY <2>3 DEF LoadsState, Activates, onboardingVars
  <2>4. CASE StateExpires
    BY <2>4 DEF StateExpires, Progress
  <2>5. CASE onboarding' = onboarding
    BY <2>5, OnboardingGrows DEF OnboardingInv
  <2>6. CASE onboarding' = None
    BY <2>6 DEF Progress
  <2> QED
    BY <2>1, <2>2, <2>3, <2>4, <2>5, <2>6, OnboardingSteps DEF onboardingVars
<1>2. saved = Steps => saved' = Steps
  BY OnboardingGrows, TypeStep DEF TypeOK
<1>3. onboarded' => saved' = Steps
  <2>1. ASSUME NEW r \in Requests, Activates(r)
        PROVE  saved = Steps
    BY <2>1 DEF Activates, OnboardingInv
  <2>2. ASSUME NEW r \in Requests, LoadsState(r) \/ SavesStep(r) \/ Resets(r)
        PROVE  onboarded' = onboarded
    BY <2>2 DEF LoadsState, SavesStep, Resets, onboardingVars
  <2>3. StateExpires => onboarded' = onboarded
    BY DEF StateExpires
  <2> QED
    BY <1>2, <2>1, <2>2, <2>3, OnboardingSteps DEF onboardingVars, OnboardingInv
<1>4. ASSUME NEW r \in Requests
      PROVE  Progress(loaded'[r]) \subseteq saved'
  <2>1. ASSUME NEW q \in Requests, LoadsState(q)
        PROVE  /\ loaded' = [loaded EXCEPT ![q] = onboarding]
               /\ saved' = saved
    BY <2>1 DEF LoadsState
  <2>2. ASSUME NEW q \in Requests, SavesStep(q) \/ Activates(q) \/ Resets(q)
        PROVE  loaded' = loaded
    BY <2>2 DEF SavesStep, Activates, Resets, stepVars
  <2>3. StateExpires => loaded' = loaded
    BY DEF StateExpires, stepVars
  <2>4. CASE loaded' = loaded
    BY <2>4, OnboardingGrows DEF OnboardingInv
  <2>5. ASSUME NEW q \in Requests, LoadsState(q)
        PROVE  loaded'[r] \in {loaded[r], onboarding}
    BY <2>1, <2>5 DEF TypeOK
  <2>6. CASE loaded'[r] \in {loaded[r], onboarding}
    BY <2>6, OnboardingGrows DEF OnboardingInv
  <2> QED
    BY <2>2, <2>3, <2>4, <2>5, <2>6, OnboardingSteps DEF stepVars
<1>5. ASSUME NEW r \in Requests, at'[r] \in {"profile", "activate"}
      PROVE  saved' = Steps
  <2>1. CASE at'[r] = at[r]
    BY <1>2, <1>5, <2>1 DEF OnboardingInv
  <2>2. CASE ChecksSteps(r)
    <3>1. Progress(onboarding) = Steps
      BY <1>5, <2>2 DEF ChecksSteps, Goto, TypeOK
    <3>2. saved = Steps
      BY <3>1 DEF OnboardingInv, TypeOK
    <3> QED
      BY <1>2, <3>2
  <2>3. CASE SavesProfile(r)
    BY <1>2, <2>3 DEF SavesProfile, OnboardingInv
  <2> QED
    BY <1>5, <2>1, <2>2, <2>3, OnboardingArrivals
<1>6. ASSUME NEW r \in Requests, at'[r] = "reset"
      PROVE  onboarded'
  <2>1. CASE at'[r] = at[r]
    BY <1>6, <2>1, OnboardingGrows DEF OnboardingInv
  <2>2. CASE Activates(r)
    BY <2>2 DEF Activates
  <2> QED
    BY <1>6, <2>1, <2>2, OnboardingArrivals
<1>7. ASSUME NEW r \in Requests, Is(r, "step")', at'[r] = "done", faults' = 0
      PROVE  Arg(r)' \in Progress(onboarding') \cup lost' \/ onboarded'
  <2>1. Is(r, "step") /\ Arg(r)' = Arg(r)
    BY <1>7, OwnerStays DEF Operations
  <2>2. CASE at'[r] = at[r]
    <3>1. faults = 0 /\ Arg(r) \in Steps
      BY <1>7, <2>1, FaultsGrow, Named
    <3>2. Arg(r) \in Progress(onboarding) \cup lost \/ onboarded
      BY <1>7, <2>1, <2>2, <3>1 DEF OnboardingInv
    <3> QED
      BY <1>7, <2>1, <3>1, <3>2, RecordStays
  <2>3. CASE SavesStep(r)
    BY <2>1, <2>3, StepSaved
  <2> QED
    BY <1>7, <2>1, <2>2, <2>3, OnboardingArrivals
<1> QED
  BY <1>1, <1>3, <1>4, <1>5, <1>6, <1>7 DEF OnboardingInv

-----------------------------------------------------------------------------
(* The dashboard *)

\* What writes the statistics and what is known of them.
LEMMA DashboardSteps ==
    ASSUME [Next]_vars
    PROVE  \/ UNCHANGED dashboardVars
           \/ \E r \in Requests : ShowsStats(r)
           \/ CountsGrow \/ StatsExpire
           \/ /\ Fault /\ UNCHANGED <<stats, activity, refreshed, overtaken>>
              /\ \E r \in Requests : /\ at[r] = "summary"
                                     /\ counted' = [counted EXCEPT ![r] = Zeros]
<1>1. CASE UNCHANGED vars
  BY <1>1 DEF vars, otherVars
<1>2. ASSUME NEW r \in Requests,
             \/ Authenticates(r) \/ LogsIn(r) \/ EndsSessions(r) \/ Syncs(r)
             \/ Converses(r) \/ Sends(r) \/ Onboards(r)
      PROVE  UNCHANGED dashboardVars
  BY <1>2, AuthFrame, LoginFrame, LogoutFrame, SyncFrame, ConverseFrame,
     SendFrame, OnboardFrame DEF otherVars
<1>3. ASSUME NEW r \in Requests, Disturbs(r)
      PROVE  \/ UNCHANGED dashboardVars
             \/ /\ Fault /\ UNCHANGED <<stats, activity, refreshed, overtaken>>
                /\ at[r] = "summary"
                /\ counted' = [counted EXCEPT ![r] = Zeros]
  BY <1>3, FaultFrame DEF dashboardVars
<1>4. ASSUME \/ \E t \in Tokens : Expires(t)
             \/ Promotes \/ Crash \/ StateExpires
      PROVE  UNCHANGED dashboardVars
  BY <1>4 DEF Expires, Promotes, Crash, StateExpires, otherVars
<1> QED
  BY <1>1, <1>2, <1>3, <1>4, NextCases

\* A request is at storing its statistics when it has got them.
LEMMA StatsArrivals ==
    ASSUME TypeOK, [Next]_vars, NEW r \in Requests, at'[r] # at[r],
           at'[r] = "setStats", faults' = 0
    PROVE  AsksStateManager(r)
<1> USE DEF TypeOK
<1>1. CASE Authenticates(r)
  BY <1>1, AuthFrame
<1>2. CASE \/ Moves(r, LoginAt) \/ Moves(r, LogoutAt) \/ Moves(r, SyncAt)
           \/ Moves(r, ConverseAt) \/ Moves(r, SendAt) \/ Moves(r, OnboardAt)
  BY <1>2 DEF Moves, LoginAt, LogoutAt, SyncAt, ConverseAt, SendAt, OnboardAt,
              Ended
<1>3. CASE ShowsStats(r)
  BY <1>3 DEF ShowsStats, ReadsStats, CachesStats, RefreshesStats, Goto
<1> QED
  BY <1>1, <1>2, <1>3, OwnStep, LoginFrame, LogoutFrame, SyncFrame,
     ConverseFrame, SendFrame, OnboardFrame

\* From storing its statistics a request only ends.
LEMMA StoringEnds ==
    ASSUME TypeOK, [Next]_vars, NEW r \in Requests, at[r] \in {"setStats"} \cup Ended
    PROVE  at'[r] \in {"setStats"} \cup Ended
<1> USE DEF TypeOK
<1>1. CASE at[r] \in Ended
  BY <1>1, EndedStays
<1>2. CASE at[r] = "setStats"
  <2>1. CASE Authenticates(r)
    BY <1>2, <2>1, AuthFrame
  <2>2. CASE \/ Moves(r, LoginAt) \/ Moves(r, LogoutAt) \/ Moves(r, SyncAt)
             \/ Moves(r, ConverseAt) \/ Moves(r, SendAt) \/ Moves(r, OnboardAt)
    BY <1>2, <2>2 DEF Moves, LoginAt, LogoutAt, SyncAt, ConverseAt, SendAt,
                      OnboardAt
  <2>3. CASE ShowsStats(r)
    BY <1>2, <2>3 DEF ShowsStats, ReadsStats, AsksStateManager, CachesStats,
                      RefreshesStats, Goto, Ended
  <2>4. AfterFault("setStats") = "done"
    BY DEF AfterFault
  <2> QED
    BY <1>2, <2>1, <2>2, <2>3, <2>4, OwnStep, LoginFrame, LogoutFrame,
       SyncFrame, ConverseFrame, SendFrame, OnboardFrame DEF Ended
<1> QED
  BY <1>1, <1>2

\* The statistics of an overtaken request stay what they were; the activity
\* grows, and with it what the last refresh has seen.
LEMMA CountedStays ==
    ASSUME TypeOK, StatsInv, [Next]_vars
    PROVE  /\ \A r \in overtaken : counted'[r] = counted[r]
           /\ overtaken \subseteq overtaken'
           /\ activity <= activity' /\ refreshed' <= activity'
           /\ refreshed <= refreshed'
           /\ \A r \in Requests : at[r] = "setStats" => counted'[r] = counted[r]
<1> USE DEF TypeOK, Counts, Ended, StatsInv
<1>1. CASE UNCHANGED dashboardVars
  BY <1>1 DEF dashboardVars
<1>2. ASSUME NEW r \in Requests, ReadsStats(r) \/ AsksStateManager(r)
      PROVE  /\ at[r] \in {"getStats", "summary"}
             /\ \E c : counted' = [counted EXCEPT ![r] = c]
             /\ UNCHANGED <<stats, activity, refreshed, overtaken>>
  BY <1>2 DEF ReadsStats, AsksStateManager
<1>3. ASSUME NEW r \in Requests, at[r] \in {"getStats", "summary"},
             \E c : counted' = [counted EXCEPT ![r] = c]
      PROVE  /\ \A q \in overtaken : counted'[q] = counted[q]
             /\ \A q \in Requests : at[q] = "setStats" => counted'[q] = counted[q]
  BY <1>3
<1>4. ASSUME NEW r \in Requests, CachesStats(r)
      PROVE  UNCHANGED <<activity, counted, refreshed, overtaken>>
  BY <1>4 DEF CachesStats
<1>5. ASSUME NEW r \in Requests, RefreshesStats(r)
      PROVE  /\ UNCHANGED <<activity, counted>> /\ refreshed' = activity
             /\ overtaken \subseteq overtaken'
  BY <1>5 DEF RefreshesStats
<1>6. CASE CountsGrow
  BY <1>6 DEF CountsGrow
<1>7. CASE StatsExpire
  BY <1>7 DEF StatsExpire
<1>8. CASE UNCHANGED <<activity, counted, refreshed, overtaken>>
  BY <1>8
<1>9. CASE /\ UNCHANGED <<stats, activity, refreshed, overtaken>>
           /\ \E r \in Requests : /\ at[r] = "summary"
                                  /\ counted' = [counted EXCEPT ![r] = Zeros]
  <2>1. PICK r \in Requests : /\ at[r] = "summary"
                             /\ counted' = [counted EXCEPT ![r] = Zeros]
    BY <1>9
  <2>2. /\ \A q \in overtaken : counted'[q] = counted[q]
        /\ \A q \in Requests : at[q] = "setStats" => counted'[q] = counted[q]
    BY <2>1, <1>3
  <2>3. refreshed <= activity /\ refreshed \in Counts /\ activity \in Counts
    OBVIOUS
  <2> QED
    BY <1>9, <2>2, <2>3
<1>10. CASE \E r \in Requests : ShowsStats(r)
  <2>1. PICK r \in Requests : ShowsStats(r)
    BY <1>10
  <2>2. CASE ReadsStats(r) \/ AsksStateManager(r)
    BY <1>2, <1>3, <2>2
  <2>3. CASE CachesStats(r)
    BY <1>4, <1>8, <2>3
  <2>4. CASE RefreshesStats(r)
    BY <1>5, <2>4
  <2> QED
    BY <2>1, <2>2, <2>3, <2>4 DEF ShowsStats
<1> QED
  BY <1>1, <1>6, <1>7, <1>9, <1>10, DashboardSteps

\* The invariant of the dashboard is kept by every step.
LEMMA StatsStep ==
    ASSUME TypeOK, StageInv, StatsInv, [Next]_vars
    PROVE  StatsInv'
<1> USE DEF TypeOK
<1>1. refreshed' <= activity'
  BY CountedStays
<1>2. ASSUME NEW r \in overtaken'
      PROVE  at'[r] \in {"setStats"} \cup Ended
  <2>1. CASE r \in overtaken
    BY <2>1, StoringEnds DEF StatsInv
  <2>2. CASE r \notin overtaken
    <3>1. PICK q \in Requests : RefreshesStats(q)
      BY <1>2, <2>2, DashboardSteps
      DEF dashboardVars, ShowsStats, ReadsStats, AsksStateManager, CachesStats,
          CountsGrow, StatsExpire
    <3>2. r \in Requests /\ at[r] = "setStats"
      BY <1>2, <2>2, <3>1 DEF RefreshesStats
    <3> QED
      BY <3>2, StoringEnds
  <2> QED
    BY <2>1, <2>2
<1>3. ASSUME NEW r \in Requests, at'[r] = "setStats", faults' = 0
      PROVE  /\ counted'[r] \in Counts
             /\ counted'[r] >= refreshed' \/ r \in overtaken'
  <2>1. CASE at[r] = "setStats"
    <3>1. /\ counted'[r] = counted[r] /\ counted[r] \in Counts
          /\ counted[r] >= refreshed \/ r \in overtaken
      BY <1>3, <2>1, CountedStays, FaultsGrow DEF StatsInv
    <3>2. CASE \E q \in Requests : RefreshesStats(q)
      <4>1. r \in overtaken'
        BY <2>1, <3>2 DEF RefreshesStats
      <4> QED
        BY <3>1, <4>1
    <3>3. CASE ~ \E q \in Requests : RefreshesStats(q)
      <4>1. refreshed' = refreshed /\ overtaken' = overtaken
        BY <3>3, DashboardSteps
        DEF dashboardVars, ShowsStats, ReadsStats, AsksStateManager,
            CachesStats, CountsGrow, StatsExpire
      <4> QED
        BY <3>1, <4>1
    <3> QED
      BY <3>2, <3>3
  <2>2. CASE at[r] # "setStats"
    <3>1. AsksStateManager(r)
      BY <1>3, <2>2, StatsArrivals
    <3>2. counted'[r] = activity /\ refreshed' = refreshed
      BY <3>1 DEF AsksStateManager
    <3> QED
      BY <3>2 DEF StatsInv, Counts
  <2> QED
    BY <2>1, <2>2
<1>4. StatsExplained'
  <2> SUFFICES ASSUME faults' = 0, stats' # None
               PROVE  \/ stats' \in Counts /\ stats' >= refreshed'
                      \/ \E r \in overtaken' : counted'[r] = stats'
    BY DEF StatsExplained
  <2>0. faults = 0
    BY FaultsGrow
  <2>1. CASE UNCHANGED <<stats, refreshed>>
    BY <2>0, <2>1, CountedStays DEF StatsInv, StatsExplained
  <2>2. ASSUME NEW r \in Requests, CachesStats(r)
        PROVE  \/ stats' \in Counts /\ stats' >= refreshed'
               \/ \E q \in overtaken' : counted'[q] = stats'
    <3>1. /\ at[r] = "setStats" /\ stats' = counted[r] /\ counted' = counted
          /\ refreshed' = refreshed /\ overtaken' = overtaken
      BY <2>2 DEF CachesStats
    <3>2. /\ counted[r] \in Counts
          /\ counted[r] >= refreshed \/ r \in overtaken
      BY <2>0, <3>1 DEF StatsInv
    <3> QED
      BY <3>1, <3>2
  <2>3. ASSUME NEW r \in Requests, RefreshesStats(r)
        PROVE  FALSE
    BY <2>3 DEF RefreshesStats
  <2>4. ASSUME NEW r \in Requests, ReadsStats(r) \/ AsksStateManager(r)
        PROVE  UNCHANGED <<stats, refreshed>>
    BY <2>4 DEF ReadsStats, AsksStateManager
  <2>5. CountsGrow => UNCHANGED <<stats, refreshed>>
    BY DEF CountsGrow
  <2>6. ~ StatsExpire
    BY DEF StatsExpire
  <2> QED
    BY <2>1, <2>2, <2>3, <2>4, <2>5, <2>6, DashboardSteps
    DEF dashboardVars, ShowsStats
<1> QED
  BY <1>1, <1>2, <1>3, <1>4 DEF StatsInv

-----------------------------------------------------------------------------
(* The initial states *)

\* Where the handler of a call starts.
LEMMA FirstStatement ==
    ASSUME NEW call \in Calls
    PROVE  \/ call.op = "login" /\ First(call) = "exchange"
           \/ call.op = "demo" /\ First(call) = "demo"
           \/ call.op = "refresh" /\ First(call) = "refresh"
           \/ call.op = "step" /\ First(call) \in {"validate", "load"}
           \/ call.op = "complete" /\ First(call) = "check"
           \/ /\ call.op \in {"logout", "logoutAll", "sync", "assign", "transfer",
                              "send", "stats", "refreshStats"}
              /\ First(call) = "auth"
<1>0. call.op \in Operations
  BY DEF Calls
<1>1. CASE call.op = "login"
  BY <1>1 DEF First
<1>2. CASE call.op = "demo"
  BY <1>2 DEF First
<1>3. CASE call.op = "refresh"
  BY <1>3 DEF First
<1>4. CASE call.op = "step"
  BY <1>4 DEF First
<1>5. CASE call.op = "complete"
  BY <1>5 DEF First
<1>6. CASE call.op \notin {"login", "demo", "refresh", "step", "complete"}
  BY <1>0, <1>6 DEF First, Operations
<1> QED
  BY <1>1, <1>2, <1>3, <1>4, <1>5, <1>6

\* At first every request is at the start of its handler.
LEMMA InitStages ==
    ASSUME Init
    PROVE  /\ plan \in [Requests -> Calls]
           /\ StageInv
           /\ at \in [Requests -> Statements]
           /\ \A r \in Requests :
                at[r] \in {"exchange", "demo", "refresh", "validate", "load",
                           "check", "auth"}
<1>1. plan \in [Requests -> Calls]
  BY AgentPortalAssumption DEF Init
<1>2. \A r \in Requests : plan[r] \in Calls /\ at[r] = First(plan[r])
  BY <1>1 DEF Init
<1>3. StageInv
  BY <1>2, FirstStatement DEF StageInv, StageOK, Is, Enters
<1>4. \A r \in Requests :
         at[r] \in {"exchange", "demo", "refresh", "validate", "load",
                    "check", "auth"}
  BY <1>2, FirstStatement
<1>5. at \in [Requests -> Statements]
  BY <1>4 DEF Init, Statements
<1> QED
  BY <1>1, <1>3, <1>4, <1>5

\* The invariant holds at the start, whatever the plan of calls.
LEMMA InitIInv == Init => IInv
<1> SUFFICES ASSUME Init
             PROVE  IInv
  OBVIOUS
<1>0. /\ StageInv
      /\ \A r \in Requests : at[r] \in Statements \ (Ended \cup {"mark",
              "blacklistAll", "invalidateAll", "invalidate", "insertUser",
              "findUser", "findAgain", "createUser", "updateUser", "profile",
              "activate", "reset", "setStats"})
  BY InitStages DEF Ended, Statements
<1>1. TypeOK
  <2>1. roles \in [Users -> Roles \cup {None}] /\ genesysRole \in Roles
    BY DEF Init, Roles
  <2>2. /\ sessions \in [Tokens -> {None, "active", "inactive"}]
        /\ issued \subseteq Tokens
    BY DEF Init, Tokens
  <2>3. assignments \in Seq([user : Users, status : {"active", "transferred"}])
    BY DEF Init
  <2>4. /\ onboarding \in {None} \cup SUBSET Steps
        /\ saved \subseteq Steps
    BY DEF Init, Steps
  <2>5. at \in [Requests -> Statements]
    BY InitStages
  <2>6. /\ stats \in {None, Zeros} \cup Counts
        /\ activity \in Counts /\ refreshed \in Counts
        /\ counted \in [Requests -> {None, Zeros} \cup Counts]
    BY DEF Init, Counts
  <2>7. /\ subject \in [Requests -> Users \cup {None}]
        /\ todo \in [Requests -> SUBSET Users]
        /\ fetched \in [Requests -> Roles]
        /\ listed \in [Requests -> SUBSET Tokens]
        /\ given \in [Requests -> Tenants \cup {None}]
        /\ loaded \in [Requests -> {None} \cup SUBSET Steps]
        /\ before \in [Requests -> SUBSET Requests]
    BY DEF Init, Roles
  <2>8. /\ tracked \in [Messages -> {None, "queued", "sent"}]
        /\ posted \in [Messages -> Nat]
    BY DEF Init
  <2>9. home \in [Users -> Tenants \cup {DemoTenant, None}]
    BY DEF Init
  <2> QED
    BY <2>1, <2>2, <2>3, <2>4, <2>5, <2>6, <2>7, <2>8, <2>9 DEF Init, TypeOK
<1>2. SessionInv
  <2>1. \A t \in Tokens : sessions[t] # "inactive"
    BY AgentPortalAssumption DEF Init
  <2>2. \A r \in Requests : r \notin issued /\ sessions[r] = None
    BY AgentPortalAssumption DEF Init, Tokens
  <2>3. \A r \in Requests : listed[r] = {}
    BY DEF Init
  <2>4. \A r \in Requests : LogoutAllOK(r)
    BY <1>0, <2>3 DEF LogoutAllOK, Ended
  <2>5. \A r \in Requests : LogoutOK(r)
    <3> SUFFICES ASSUME NEW r \in Requests
                 PROVE  LogoutOK(r)
      OBVIOUS
    <3>1. Is(r, "logout") => at[r] = "auth"
      <4>1. plan[r] \in Calls /\ at[r] = First(plan[r])
        BY InitStages DEF Init
      <4> QED
        BY <4>1, FirstStatement DEF Is
    <3> QED
      BY <1>0, <3>1 DEF LogoutOK, Ended
  <2> QED
    BY <2>1, <2>2, <2>4, <2>5 DEF SessionInv, TokenInv, EndedInv
<1>3. UserInv
  <2>1. \A r \in Requests : before[r] = {}
    BY DEF Init
  <2>2. HomeInv
    <3>1. "admin" # None /\ None \notin Tenants
      BY AgentPortalAssumption DEF Roles
    <3>2. PICK tenant \in Tenants :
             home = [u \in Users |-> IF roles[u] = None THEN None ELSE tenant]
      BY DEF Init
    <3>3. \A u \in Users : roles[u] = None <=> home[u] = None
      BY <3>1, <3>2
    <3>4. \A r \in Requests :
             at[r] \notin {"fetch", "findUser", "findAgain", "createUser", "updateUser"}
      BY <1>0, InitStages DEF Init, First
    <3> QED
      BY <3>3, <3>4 DEF HomeInv
  <2>3. \A r \in Requests : at[r] \notin {"find", "insertSession", "done", "failed"}
    BY InitStages DEF Init, First
  <2> QED
    BY <1>0, <2>1, <2>2, <2>3 DEF UserInv, LoginOK, SyncOK, Ended
<1>4. AssignmentsExplained
  <2>1. Assignees = {}
    BY DEF Init, Assignees
  <2>2. Cardinality(Assignees) = 0
    BY <2>1, FS_EmptySet
  <2> QED
    BY <2>2 DEF Init, AssignmentsExplained
<1>5. SendInv
  <2>1. ASSUME NEW m \in Messages
        PROVE  MessageOK(m)
    <3>1. Senders(m) = {}
      BY <1>0 DEF Senders, Ended
    <3>2. Cardinality(Senders(m)) = 0
      BY <3>1, FS_EmptySet
    <3>3. posted[m] = 0 /\ tracked[m] = None
      BY <2>1 DEF Init
    <3> QED
      BY <3>2, <3>3, AgentPortalAssumption DEF MessageOK
  <2> QED
    BY <1>0, <2>1 DEF SendInv
<1>6. OnboardingInv
  <2>1. Progress(onboarding) = saved /\ ~ onboarded
    BY DEF Init, Progress
  <2>2. \A r \in Requests : Progress(loaded[r]) = {}
    BY DEF Init, Progress
  <2> QED
    BY <1>0, <2>1, <2>2 DEF OnboardingInv, Ended
<1>7. StatsInv
  BY <1>0 DEF Init, StatsInv, StatsExplained
<1> QED
  BY <1>0, <1>1, <1>2, <1>3, <1>4, <1>5, <1>6, <1>7 DEF IInv

-----------------------------------------------------------------------------
(* The results *)

\* The invariant that explains every state of the portal is inductive.
THEOREM Inductive == Spec => []IInv
<1>1. ASSUME IInv, [Next]_vars
      PROVE  IInv'
  BY <1>1, TypeStep, StageStep, SessionStep, UserStep, AssignmentStep, SendStep,
     OnboardingStep, StatsStep DEF IInv
<1> QED
  BY <1>1, InitIInv, PTL DEF Spec

\* The tables, the entries in Redis and the handlers' locals keep their types.
THEOREM PortalTypeCorrect == Spec => []TypeOK
<1>1. IInv => TypeOK
  BY DEF IInv
<1> QED
  BY <1>1, Inductive, PTL

\* The blacklist agrees with the sessions: no session is ended whose token is
\* neither on it nor expired, but that of a login in the middle of a logout of
\* all devices, and a logout that answers has done what it says unless a call
\* failed: Blacklists, Invalidates, Lists, BlacklistsAll and InvalidatesAll of any
\* number of requests and users.  Nothing is said of what a token opens.
THEOREM SessionsAreExplained == Spec => []SessionsExplained
<1>1. IInv => SessionsExplained
  BY DEF IInv, SessionInv, EndedInv, LogoutAllOK, LogoutOK, SessionsExplained
<1> QED
  BY <1>1, Inductive, PTL

\* Without a fault a login fails only against a request that provisions the
\* same user, or with a row of another tenant, or for want of the demo's tenant,
\* and one that succeeds is of the tenant it was given; a sync leaves every user
\* with the role it fetched, unless a request that ran beside it wrote an older one.
THEOREM UsersAreExplained == Spec => []UsersExplained
<1>1. ASSUME IInv
      PROVE  UsersExplained
  <2>1. ASSUME NEW r \in Requests
        PROVE  LoginOK(r) /\ SyncOK(r)
    BY <1>1 DEF IInv, UserInv
  <2>2. ASSUME NEW r \in Requests, Enters(r), at[r] = "failed", faults = 0
        PROVE  \/ \E s \in Requests \ {r} :
                     Is(s, "sync") \/ (Enters(s) /\ User(s) = User(r))
               \/ home[User(r)] \notin {None, TenantOf(r)}
               \/ Is(r, "demo") /\ ~migrated
    BY <2>1, <2>2 DEF LoginOK, Rivalled
  <2>4. ASSUME NEW r \in Requests, Enters(r), at[r] = "done"
        PROVE  home[User(r)] = TenantOf(r)
    BY <2>1, <2>4 DEF LoginOK
  <2>3. ASSUME NEW r \in Requests, Is(r, "sync"), at[r] = "done",
               fetched[r] = "admin", faults = 0, NEW u \in Users \ {DemoUser}
        PROVE  \/ roles[u] = "admin"
               \/ \E s \in Requests \ before[r] :
                     Is(s, "sync") /\ fetched[s] = "agent"
               \/ \E s \in Requests \ before[r] : Enters(s) /\ User(s) = u
    <3>1. u \in Synced(r)
      BY <2>1, <2>3 DEF SyncOK, Synced
    <3>2. roles[u] = "admin" \/ Overwritten(r, u)
      BY <2>1, <2>3, <3>1 DEF SyncOK
    <3> QED
      BY <3>2 DEF Overwritten
  <2> QED
    BY <2>2, <2>3, <2>4 DEF UsersExplained
<1> QED
  BY <1>1, Inductive, PTL

\* A conversation that was assigned never loses its last assignee, and gets a
\* second one only if somebody took it from another or gave away what another
\* one had.
THEOREM AssignmentsAreExplained == Spec => []AssignmentsExplained
<1>1. IInv => AssignmentsExplained
  BY DEF IInv
<1> QED
  BY <1>1, Inductive, PTL

\* A message marked sent was sent to Genesys, at most once per request for it,
\* and one that nobody is at stays queued only after a fault.
THEOREM SendsAreExplained == Spec => []SendsExplained
<1>1. ASSUME IInv, NEW m \in Messages
      PROVE  LET sends == {r \in Requests : Is(r, "send") /\ Arg(r) = m} IN
             /\ tracked[m] = "sent" => posted[m] > 0
             /\ posted[m] <= Cardinality(sends)
             /\ tracked[m] = "queued" /\ sends \cap Running = {} => faults > 0
  <2> DEFINE sends == {r \in Requests : Is(r, "send") /\ Arg(r) = m}
  <2>1. MessageOK(m) /\ TypeOK
    BY <1>1 DEF IInv, SendInv
  <2>2. IsFiniteSet(Requests) /\ sends \subseteq Requests
    BY AgentPortalAssumption
  <2>3. IsFiniteSet(sends) /\ Senders(m) \subseteq sends
    BY <2>2, FS_Subset DEF Senders
  <2>4. /\ Cardinality(Senders(m)) <= Cardinality(sends)
        /\ IsFiniteSet(Senders(m))
    BY <2>3, FS_Subset
  <2>5. Cardinality(Senders(m)) \in Nat /\ Cardinality(sends) \in Nat
    BY <2>3, <2>4, FS_CardinalityType
  <2>6. posted[m] <= Cardinality(sends)
    BY <1>1, <2>1, <2>4, <2>5 DEF MessageOK, TypeOK
  <2>7. ASSUME tracked[m] = "queued", sends \cap Running = {}
        PROVE  faults > 0
    <3>1. ~ \E r \in Requests : /\ Is(r, "send") /\ Arg(r) = m
                                /\ at[r] \in {"post", "mark"}
      BY <2>7 DEF Running, Ended
    <3>2. faults # 0
      BY <2>1, <2>7, <3>1 DEF MessageOK
    <3> QED
      BY <2>1, <3>2 DEF TypeOK
  <2>8. tracked[m] = "sent" => posted[m] > 0
    BY <2>1 DEF MessageOK
  <2> QED
    BY <2>6, <2>7, <2>8
<1>2. IInv => SendsExplained
  BY <1>1 DEF SendsExplained
<1> QED
  BY <1>2, Inductive, PTL

\* A tenant is active only with every step saved, a step that was answered is on
\* record or was overwritten by a request that had not read it, and the
\* dashboard shows what the last refresh saw or later, unless it overtook the
\* request that stored it.
THEOREM CachesAreExplained == Spec => []CachesExplained
<1>1. IInv => CachesExplained
  BY DEF IInv, OnboardingInv, StatsInv, OnboardingExplained, CachesExplained
<1> QED
  BY <1>1, Inductive, PTL
=============================================================================
