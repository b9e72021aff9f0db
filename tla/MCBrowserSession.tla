---------------------------- MODULE MCBrowserSession ----------------------------
(***************************************************************************)
(* Model values for TLC: two people sign in on one tab, one after the      *)
(* other, with two asynchronous functions under way at once.               *)
(***************************************************************************)
EXTENDS BrowserSession

CONSTANTS a, b, t1, t2

\* Two people take turns; or one asks for things and signs out everywhere.
TwoUses == {[by |-> {a, b}, does |-> {"logout"}],
            [by |-> {a}, does |-> {"page", "profile", "logoutAll"}]}

=============================================================================
