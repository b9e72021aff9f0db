----------------------------- MODULE TokenIssuer -----------------------------
(***************************************************************************)
(* What auth-service promises those who ask it for the Genesys token of a  *)
(* tenant: one request at a time obtains a token for all; the token they   *)
(* share is only replaced by a newer one; and whoever is answered gets the *)
(* shared token, the one he obtained for all, which is at least as new, or *)
(* one issued after he asked that nobody else gets.  No cache, lock,       *)
(* replica or Redis client appears here.  TokenBroker is shown to          *)
(* implement it.                                                           *)
(*                                                                         *)
(* Tokens are numbered as they are issued, 0 is no token.                  *)
(***************************************************************************)
EXTENDS Naturals

CONSTANT Requests

VARIABLES
    phase,   \* of each request: "new", "pending", "answered" or "refused"
    given,   \* the token it was answered with
    issued,  \* the last token issued
    own,     \* the token a pending request has obtained for all
    alone,   \* the token a pending request has obtained for itself
    shared   \* the newest token for everybody

issuerVars == <<phase, given, issued, own, alone, shared>>

Init ==
    /\ phase = [r \in Requests |-> "new"]
    /\ given = [r \in Requests |-> 0]
    /\ issued = 0
    /\ own = [r \in Requests |-> 0]
    /\ alone = [r \in Requests |-> 0]
    /\ shared = 0

Asks(r) ==
    /\ phase[r] = "new"
    /\ \E p \in {"pending", "refused"} : phase' = [phase EXCEPT ![r] = p]
    /\ UNCHANGED <<given, issued, own, alone, shared>>

Obtains(r) ==
    /\ phase[r] = "pending"
    /\ \A q \in Requests : own[q] = 0
    /\ issued' = issued + 1
    /\ own' = [own EXCEPT ![r] = issued']
    /\ UNCHANGED <<phase, given, alone, shared>>

\* A token that nobody else ever gets.
ObtainsAlone(r) ==
    /\ phase[r] = "pending"
    /\ own[r] = 0 /\ alone[r] = 0
    /\ issued' = issued + 1
    /\ alone' = [alone EXCEPT ![r] = issued']
    /\ UNCHANGED <<phase, given, own, shared>>

Shares(r) ==
    /\ own[r] > shared
    /\ shared' = own[r]
    /\ UNCHANGED <<phase, given, issued, own, alone>>

Answers(r, token) ==
    /\ phase[r] = "pending"
    /\ phase' = [phase EXCEPT ![r] = "answered"]
    /\ given' = [given EXCEPT ![r] = token]
    /\ own' = [own EXCEPT ![r] = 0]
    /\ alone' = [alone EXCEPT ![r] = 0]
    /\ UNCHANGED <<issued, shared>>

AnswersShared(r) == shared # 0 /\ Answers(r, shared)

AnswersOwn(r) == own[r] # 0 /\ own[r] >= shared /\ Answers(r, own[r])

\* The token was issued after r asked, but a newer one may be shared by now.
AnswersAlone(r) == alone[r] # 0 /\ Answers(r, alone[r])

Refuses(S) ==
    /\ \A r \in S : phase[r] = "pending"
    /\ phase' = [r \in Requests |-> IF r \in S THEN "refused" ELSE phase[r]]
    /\ own' = [r \in Requests |-> IF r \in S THEN 0 ELSE own[r]]
    /\ alone' = [r \in Requests |-> IF r \in S THEN 0 ELSE alone[r]]
    /\ UNCHANGED <<given, issued, shared>>

Next ==
    \/ \E r \in Requests :
           \/ Asks(r) \/ Obtains(r) \/ ObtainsAlone(r) \/ Shares(r)
           \/ AnswersShared(r) \/ AnswersOwn(r) \/ AnswersAlone(r)
    \/ \E S \in SUBSET Requests : Refuses(S)

Spec == Init /\ [][Next]_issuerVars
=============================================================================
