---------------------------- MODULE MCTokenBroker ----------------------------
(***************************************************************************)
(* Small instances of TokenBroker for TLC.                                 *)
(***************************************************************************)
EXTENDS TokenBroker

CONSTANTS t1, t2, t3, p1

\* One process of auth-service handles all requests.
OneReplica == [r \in Requests |-> p1]
=============================================================================
