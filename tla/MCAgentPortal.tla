----------------------------- MODULE MCAgentPortal -----------------------------
(* Triples of requests that can meet: on sessions, users, assignees, one     *)
(* message, the onboarding, the dashboard.                                    *)
EXTENDS AgentPortal

CONSTANTS r1, r2, r3, u1, u2, ud, t1, t2, s1, s2, m1

Call(op) == [op |-> op, user |-> u1, arg |-> None]
Of(op, user) == [Call(op) EXCEPT !.user = user]
With(op, arg) == [Call(op) EXCEPT !.arg = arg]

BothOwner == (s1 :> u1 @@ s2 :> u1)

Transfer(from, to) == [op |-> "transfer", user |-> from, arg |-> to]

Threes ==
    {<<Call("login"), Call("logoutAll"), With("logout", s1)>>,
     <<Call("logoutAll"), Call("logoutAll"), With("logout", s2)>>,
     <<With("refresh", s1), Call("logoutAll"), With("logout", r1)>>,
     <<Of("login", u2), Of("login", u2), Call("sync")>>,
     <<Of("demo", ud), Of("demo", ud), Of("login", u1)>>,
     <<Call("sync"), Call("sync"), Of("login", u2)>>,
     <<Of("login", u2), Transfer(u1, u2), Of("assign", u2)>>,
     <<Call("assign"), Of("login", u2), Transfer(u1, u2)>>,
     <<Call("assign"), Transfer(u1, u2), Call("sync")>>,
     <<Transfer(u1, u1), Call("assign"), Call("assign")>>,
     <<With("send", m1), With("send", m1), Call("assign")>>,
     <<With("step", 1), With("step", 2), With("step", 3)>>,
     <<With("step", 3), With("step", 3), Call("complete")>>,
     <<With("step", 3), Call("complete"), Call("complete")>>,
     <<Call("stats"), Call("stats"), Call("refreshStats")>>,
     <<Call("stats"), Call("refreshStats"), Call("refreshStats")>>}

SomeTenant == Permutations(Tenants)

AllPlans == {(r1 :> c[1] @@ r2 :> c[2] @@ r3 :> c[3]) : c \in Threes}
=============================================================================
