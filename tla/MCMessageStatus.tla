-------------------------- MODULE MCMessageStatus --------------------------
(***************************************************************************)
(* An instance of MessageStatus for TLC.  One row is enough for the races  *)
(* of its handlers (handlers of different rows share nothing); two queue   *)
(* handlers and a request to the HTTP route meet on it in every order, and *)
(* four instants let it be written twice and still be overtaken.  Whether  *)
(* the routes are used on it at all, the initial state chooses.            *)
(***************************************************************************)
EXTENDS MessageStatus

=============================================================================
