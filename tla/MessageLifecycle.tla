-------------------------- MODULE MessageLifecycle --------------------------
(***************************************************************************)
(* What the state manager promises about the status of a tracked message:  *)
(* a message is tracked once, then its status only moves forward, one      *)
(* stage at a time, or to "failed"; the last stage of either direction and *)
(* "failed" are final.  No handler, clock or lock appears here.            *)
(* MessageStatus is shown to implement it.                                 *)
(***************************************************************************)
CONSTANTS Messages,   \* the rows of message_tracking
          Untracked   \* the status of a message that has no row yet

VARIABLE status

\* The stage that follows each stage that is not final: outbound messages go
\* queued, sent, delivered, read; inbound ones go received, processed.
Successor == [s \in {"queued", "sent", "delivered", "received"} |->
                CASE s = "queued"    -> "sent"
                  [] s = "sent"      -> "delivered"
                  [] s = "delivered" -> "read"
                  [] s = "received"  -> "processed"]

Init == status = [m \in Messages |-> Untracked]

\* A direction's first stage is chosen when the message is tracked.
Track(m) ==
    /\ status[m] = Untracked
    /\ \E s \in {"queued", "received"} : status' = [status EXCEPT ![m] = s]

Advance(m) ==
    /\ status[m] \in DOMAIN Successor
    /\ \E s \in {Successor[status[m]], "failed"} :
         status' = [status EXCEPT ![m] = s]

Next == \E m \in Messages : Track(m) \/ Advance(m)

Spec == Init /\ [][Next]_status
=============================================================================
