------------------------- MODULE RetryConsumers_proofs -------------------------
(***************************************************************************)
(* Theorems about RetryConsumers, for any number of messages, tags,        *)
(* retries and faults: the variables keep their types, and every loss of a *)
(* message has one of the named causes.                                    *)
(*                                                                         *)
(* Most actions end in Settles.  Settling says what becomes of the broker  *)
(* and the callbacks when one settles, SettleStep that this preserves the  *)
(* invariant whenever the action accounts for the message it settles.      *)
(***************************************************************************)
EXTENDS RetryConsumers, TLAPS

\* The causes of a loss that LossIsExplained names.
Excused(m) ==
    \/ /\ service = "inbound"
       /\ \/ m \in dropped /\ (~Passes(m) \/ faults > 0)
          \/ m \in orphaned /\ faults > 0
    \/ service = "outbound" /\ kind[m] = "notJson"
    \/ service # "inbound" /\ m \in misacked /\ slow /\ faults > 0

\* A callback that has not started has its channel, and so has every one that
\* is not stale; with a new channel beside stale ones, callbacks are slow.
JobsInv ==
    \A j \in jobs :
        /\ j.stale => j.at # "sent" /\ faults > 0
        /\ ~j.stale => connected
        /\ j.stale /\ connected => slow

\* Before the first fault each callback has a message of its own, and the tag
\* it was delivered with.
JobsTied ==
    faults = 0 =>
        /\ \A j \in jobs : status[j.msg] = "unacked" /\ tag[j.msg] = j.tag
        /\ \A i, j \in jobs : i.msg = j.msg => i = j

\* Before the first fault a channel is lost neither by the service nor by its
\* publisher.
ChannelInv ==
    faults = 0 =>
        /\ connected \/ \A m \in Messages : status[m] = "ready"
        /\ publisher # "dead"

\* Only the inbound transformer leaves a message to a timer, and only one that
\* may be retried.
WaitingInv ==
    \A m \in Messages :
        status[m] = "waiting" => service = "inbound" /\ retries[m] < MaxRetries

\* No message has more parts passed on than it has.
PartsBounded == \A m \in Messages : forwarded[m] <= Parts(m)

\* Every loss on the books has its cause.
BooksInv ==
    /\ \A m \in dropped : ~Passes(m) \/ faults > 0
    /\ orphaned # {} => faults > 0
    /\ misacked # {} => slow /\ faults > 0 /\ service # "inbound"

IInv == /\ TypeOK /\ JobsInv /\ JobsTied /\ ChannelInv /\ WaitingInv
        /\ PartsBounded /\ BooksInv /\ LossIsExplained

\* The property, by its causes.
LEMMA ExcusedIs ==
    LossIsExplained <=>
        \A m \in Messages : status[m] = "gone" => Kept(m) \/ Excused(m)
BY DEF LossIsExplained, Excused

-----------------------------------------------------------------------------
(* What settling does *)

\* Where a loss of the connection leaves the callbacks.
LEMMA StaleJobs ==
    ASSUME jobs \subseteq Jobs, NEW js \in SUBSET jobs, Disconnects(js)
    PROVE  /\ jobs' \subseteq Jobs
           /\ \A k \in jobs' : k.stale /\ k.at # "sent"
<1>1. ASSUME NEW k \in jobs'
      PROVE  k \in Jobs /\ k.stale /\ k.at # "sent"
  <2>1. PICK i \in js : i.at # "sent" /\ k = [i EXCEPT !.stale = TRUE]
    BY DEF Disconnects
  <2>2. i \in Jobs
    OBVIOUS
  <2>. QED  BY <2>1, <2>2 DEF Jobs
<1>. QED  BY <1>1

\* The status of messages whose deliveries return to the queue.
LEMMA RequeuedIs ==
    ASSUME TypeOK
    PROVE  /\ Requeued \in [Messages -> {"ready", "waiting", "gone"}]
           /\ \A m \in Messages :
                  /\ Requeued[m] = "gone" <=> status[m] = "gone"
                  /\ Requeued[m] = "waiting" <=> status[m] = "waiting"
BY DEF TypeOK, Requeued

Settled == {"gone", "waiting", "ready"}
Statuses == {"ready", "unacked", "waiting", "gone"}
Ends(j, s) ==
    /\ j \in jobs /\ s \in Settled
    /\ s = "waiting" => service = "inbound"
    /\ Settles(j, s)

\* The variables keep their types; jobs are those that were, or stale.
LEMMA SettlingTypes ==
    ASSUME TypeOK, JobsInv, NEW j, NEW s, Ends(j, s)
    PROVE  /\ status' \in [Messages -> Statuses]
           /\ jobs' \subseteq Jobs
           /\ connected' \in BOOLEAN /\ (connected' => connected)
           /\ connected' = connected => jobs' \subseteq jobs
           /\ connected' # connected => \A k \in jobs' : k.stale /\ k.at # "sent"
           /\ publisher' \in {publisher, "none"}
           /\ orphaned' \subseteq Messages /\ misacked' \subseteq Messages
           /\ orphaned \subseteq orphaned' /\ misacked \subseteq misacked'
<1>. DEFINE Goal ==
           /\ status' \in [Messages -> Statuses]
           /\ jobs' \subseteq Jobs
           /\ connected' \in BOOLEAN /\ (connected' => connected)
           /\ connected' = connected => jobs' \subseteq jobs
           /\ connected' # connected => \A k \in jobs' : k.stale /\ k.at # "sent"
           /\ publisher' \in {publisher, "none"}
           /\ orphaned' \subseteq Messages /\ misacked' \subseteq Messages
           /\ orphaned \subseteq orphaned' /\ misacked \subseteq misacked'
<1>1. ASSUME Dies, UNCHANGED misacked PROVE Goal
  BY <1>1, RequeuedIs DEF Dies, TypeOK, Statuses
<1>2. ASSUME connected, Disconnects(jobs \ {j}), UNCHANGED misacked PROVE Goal
  <2>1. jobs' \subseteq Jobs /\ \A k \in jobs' : k.stale /\ k.at # "sent"
    BY <1>2, StaleJobs, jobs \ {j} \in SUBSET jobs DEF TypeOK
  <2>. QED  BY <1>2, <2>1, RequeuedIs DEF Disconnects, TypeOK, Statuses
<1>3. ASSUME NEW m \in Unacked, status' = [status EXCEPT ![m] = s],
             misacked' = IF m # j.msg /\ s # "ready" THEN misacked \cup {m} ELSE misacked,
             jobs' = jobs \ {j}, UNCHANGED <<orphaned, connected, publisher>>
      PROVE  Goal
  BY <1>3 DEF TypeOK, Unacked, Ends, Settled, Statuses
<1>4. ASSUME jobs' = jobs \ {j},
             UNCHANGED <<status, orphaned, connected, publisher, misacked>>
      PROVE  Goal
  BY <1>4 DEF TypeOK, Statuses
<1>5. \A m \in Named(j) : m \in Unacked
  BY DEF Named
<1>. HIDE DEF Goal
<1>6. Goal
  BY <1>1, <1>2, <1>3, <1>4, <1>5 DEF Ends, Settles
<1>. QED  BY <1>6 DEF Goal
\* A message that is gone now was gone before, or is the callback's own, or is
\* another one's that a stale callback settled, or one a timer held when the
\* process died.  No other message is left to a timer.
LEMMA SettlingMessages ==
    ASSUME TypeOK, JobsInv, ChannelInv, JobsTied, WaitingInv,
           NEW j, NEW s, Ends(j, s), NEW m \in Messages
    PROVE  /\ status[m] = "gone" => status'[m] = "gone"
           /\ status'[m] = "gone" =>
                  \/ status[m] = "gone"
                  \/ s = "gone" /\ m = j.msg
                  \/ m \in misacked' /\ slow /\ faults > 0 /\ service # "inbound"
                  \/ m \in orphaned' /\ faults > 0 /\ service = "inbound"
           /\ status'[m] = "waiting" =>
                  status[m] = "waiting" \/ (s = "waiting" /\ m = j.msg)
           /\ orphaned' # orphaned => faults > 0
           /\ misacked' # misacked => slow /\ faults > 0 /\ service # "inbound"
<1>. DEFINE Goal ==
           /\ status[m] = "gone" => status'[m] = "gone"
           /\ status'[m] = "gone" =>
                  \/ status[m] = "gone"
                  \/ s = "gone" /\ m = j.msg
                  \/ m \in misacked' /\ slow /\ faults > 0 /\ service # "inbound"
                  \/ m \in orphaned' /\ faults > 0 /\ service = "inbound"
           /\ status'[m] = "waiting" =>
                  status[m] = "waiting" \/ (s = "waiting" /\ m = j.msg)
           /\ orphaned' # orphaned => faults > 0
           /\ misacked' # misacked => slow /\ faults > 0 /\ service # "inbound"
<1>1. j \in jobs /\ j.msg \in Messages /\ j.stale \in BOOLEAN /\ faults \in Nat
  BY DEF Ends, TypeOK, Jobs
<1>2. Named(j) \subseteq Messages /\ \A n \in Named(j) : status[n] = "unacked"
  BY DEF Named, Unacked
<1>3. ASSUME Dies, UNCHANGED misacked, faults > 0 PROVE Goal
  BY <1>3, RequeuedIs DEF Dies, WaitingInv, TypeOK
<1>4. ASSUME NEW js, Disconnects(js), UNCHANGED misacked PROVE Goal
  BY <1>4, RequeuedIs DEF Disconnects, TypeOK
<1>5. ASSUME ~(service = "inbound" /\ j.stale), connected,
             NEW n \in IF j.stale THEN Named(j) ELSE Named(j) \cap {j.msg},
             status' = [status EXCEPT ![n] = s],
             misacked' = IF n # j.msg /\ s # "ready" THEN misacked \cup {n} ELSE misacked,
             UNCHANGED orphaned
      PROVE  Goal
  <2>1. n \in Messages /\ status[n] = "unacked" /\ misacked \subseteq misacked'
    BY <1>2, <1>5
  <2>2. CASE n = j.msg
    BY <1>5, <2>1, <2>2 DEF TypeOK, Ends, Settled
  <2>3. CASE n # j.msg
    <3>1. j.stale
      BY <1>5, <2>3
    <3>2. slow /\ faults > 0 /\ service # "inbound" /\ s # "waiting"
      BY <1>1, <1>5, <3>1 DEF JobsInv, Ends
    <3>3. s # "ready" => n \in misacked'
      BY <1>5, <2>3
    <3>. QED  BY <1>5, <2>1, <2>3, <3>2, <3>3 DEF TypeOK, Ends, Settled
  <2>. QED  BY <2>2, <2>3
<1>6. ASSUME UNCHANGED <<status, orphaned, misacked>> PROVE Goal
  BY <1>6
<1>7. faults = 0 => connected /\ ~j.stale /\ j.msg \in Named(j)
  BY <1>1 DEF JobsInv, JobsTied, Named, Unacked
<1>. HIDE DEF Goal
<1>8. ASSUME connected /\ ~(service = "inbound" /\ j.stale) PROVE Goal
  <2>. DEFINE target == IF j.stale THEN Named(j) ELSE Named(j) \cap {j.msg}
  <2>1. target # {} \/ faults > 0
    BY <1>1, <1>7
  <2>2. \/ \E n \in target :
              /\ status' = [status EXCEPT ![n] = s]
              /\ misacked' = IF n # j.msg /\ s # "ready" THEN misacked \cup {n}
                                                         ELSE misacked
              /\ UNCHANGED orphaned
        \/ target = {} /\ (Disconnects(jobs \ {j}) \/ Dies) /\ UNCHANGED misacked
    BY <1>8 DEF Ends, Settles
  <2>3. ASSUME target = {} PROVE Goal
    BY <1>3, <1>4, <2>1, <2>2, <2>3
  <2>4. ASSUME target # {} PROVE Goal
    BY <1>5, <1>8, <2>2, <2>4
  <2>. QED  BY <2>3, <2>4
<1>9. ASSUME ~connected \/ (service = "inbound" /\ j.stale) PROVE Goal
  <2>1. faults > 0
    BY <1>1, <1>7, <1>9
  <2>2. \/ Dies /\ UNCHANGED misacked
        \/ UNCHANGED <<status, orphaned, misacked>>
    BY <1>9 DEF Ends, Settles
  <2>. QED  BY <1>3, <1>6, <2>1, <2>2
<1>10. Goal
  BY <1>8, <1>9
<1>. QED  BY <1>10 DEF Goal

\* Before the first fault a callback settles its own message and nothing else.
LEMMA SettlingUndisturbed ==
    ASSUME TypeOK, JobsInv, JobsTied, NEW j, NEW s, Ends(j, s), faults = 0
    PROVE  /\ status' = [status EXCEPT ![j.msg] = s]
           /\ jobs' = jobs \ {j}
           /\ connected /\ UNCHANGED <<connected, publisher, orphaned, misacked>>
<1>1. j \in jobs /\ j.msg \in Messages /\ j.stale \in BOOLEAN
  BY DEF Ends, TypeOK, Jobs
<1>2. connected /\ ~j.stale
  BY <1>1 DEF JobsInv
<1>3. Named(j) \cap {j.msg} = {j.msg}
  BY <1>1 DEF JobsTied, Named, Unacked
<1>. QED  BY <1>1, <1>2, <1>3 DEF Ends, Settles

-----------------------------------------------------------------------------
(* Steps *)

\* What every action leaves alone, and in which direction the books move.
Frame ==
    /\ UNCHANGED <<service, slow, kind>>
    /\ faults' \in Nat /\ faults' >= faults
    /\ retries' \in [Messages -> 0..MaxRetries]
    /\ tag' \in [Messages -> Tags]
    /\ forwarded' \in [Messages -> 0..2]
    /\ \A m \in Messages : forwarded[m] <= forwarded'[m] /\ forwarded'[m] <= Parts(m)
    /\ dead \subseteq dead' /\ dead' \subseteq Messages
    /\ dropped \subseteq dropped' /\ dropped' \subseteq Messages
    /\ \A m \in dropped' : ~Passes(m) \/ faults' > 0

\* Losses stay explained if the new ones are.
LEMMA LossStep ==
    ASSUME IInv, Frame, orphaned \subseteq orphaned', misacked \subseteq misacked',
           \A m \in Messages :
               status'[m] = "gone" => status[m] = "gone" \/ Kept(m)' \/ Excused(m)'
    PROVE  LossIsExplained'
<1>1. ASSUME NEW m \in Messages, Kept(m) PROVE Kept(m)'
  <2>1. CASE m \in dead
    BY <2>1 DEF Frame, Kept
  <2>2. CASE forwarded[m] = Parts(m)
    <3>1. Parts(m)' = Parts(m) /\ Parts(m) \in Nat
      BY DEF Frame, Parts
    <3>2. forwarded[m] \in Nat /\ forwarded'[m] \in Nat
      BY DEF IInv, TypeOK, Frame
    <3>. QED  BY <2>2, <3>1, <3>2 DEF Frame, Kept
  <2>. QED  BY <1>1, <2>1, <2>2 DEF Kept
<1>2. ASSUME NEW m \in Messages, Excused(m) PROVE Excused(m)'
  BY <1>2 DEF Excused, Frame, Passes, IInv, TypeOK
<1>3. \A m \in Messages : status[m] = "gone" => Kept(m) \/ Excused(m)
  BY ExcusedIs DEF IInv
<1>4. \A m \in Messages : status'[m] = "gone" => Kept(m)' \/ Excused(m)'
  BY <1>1, <1>2, <1>3
<1>. QED  BY <1>4 DEF LossIsExplained, Excused

\* A callback ends and settles its message, which is accounted for if it is gone.
LEMMA SettleStep ==
    ASSUME IInv, Frame, NEW j, NEW s, Ends(j, s), UNCHANGED <<retries, tag>>,
           s = "waiting" => retries[j.msg] < MaxRetries,
           s = "gone" /\ status'[j.msg] = "gone" =>
               status[j.msg] = "gone" \/ Kept(j.msg)' \/ Excused(j.msg)'
    PROVE  IInv'
<1>. USE DEF IInv
<1>1. j \in jobs /\ j.msg \in Messages /\ faults \in Nat
  BY DEF Ends, TypeOK, Jobs
<1>2. TypeOK'
  BY SettlingTypes, <1>1 DEF Frame, TypeOK, Statuses
<1>3. JobsInv'
  <2>1. connected' # connected => \A k \in jobs' : k.stale /\ k.at # "sent"
    BY SettlingTypes
  <2>2. connected' => connected
    BY SettlingTypes
  <2>3. ASSUME connected' # connected PROVE faults' > 0
    <3>1. faults # 0
      BY <2>3, SettlingUndisturbed
    <3>. QED  BY <1>1, <3>1 DEF Frame
  <2>4. connected' = connected => jobs' \subseteq jobs
    BY SettlingTypes
  <2>5. ASSUME NEW k \in jobs'
        PROVE  /\ k.stale => k.at # "sent" /\ faults' > 0
               /\ ~k.stale => connected'
               /\ k.stale /\ connected' => slow'
    <3>1. CASE connected' = connected
      BY <1>1, <2>4, <2>5, <3>1 DEF JobsInv, Frame
    <3>2. CASE connected' # connected
      <4>1. ~connected' /\ connected
        BY <2>2, <3>2, SettlingTypes DEF TypeOK
      <4>2. faults' > 0
        BY <2>3, <3>2
      <4>. QED  BY <2>1, <2>5, <3>2, <4>1, <4>2
    <3>. QED  BY <3>1, <3>2
  <2>. QED  BY <2>5 DEF JobsInv
<1>4. JobsTied' /\ ChannelInv'
  <2>. SUFFICES ASSUME faults' = 0 PROVE JobsTied' /\ ChannelInv'
    BY DEF JobsTied, ChannelInv
  <2>1. faults = 0
    BY <1>1 DEF Frame
  <2>2. /\ status' = [status EXCEPT ![j.msg] = s]
        /\ jobs' = jobs \ {j}
        /\ connected /\ UNCHANGED <<connected, publisher, orphaned, misacked>>
    BY <2>1, SettlingUndisturbed
  <2>3. ASSUME NEW k \in jobs' PROVE status'[k.msg] = "unacked" /\ tag'[k.msg] = k.tag
    BY <1>1, <2>1, <2>2 DEF JobsTied, TypeOK, Jobs
  <2>. QED  BY <2>1, <2>2, <2>3 DEF JobsTied, ChannelInv
<1>5. WaitingInv'
  BY SettlingMessages DEF WaitingInv, Frame, Ends
<1>6. PartsBounded'
  BY DEF PartsBounded, Frame, Parts
<1>7. BooksInv'
  BY <1>1, SettlingMessages DEF BooksInv, Frame, Passes
<1>8. LossIsExplained'
  <2>1. orphaned \subseteq orphaned' /\ misacked \subseteq misacked'
    BY SettlingTypes
  <2>2. ASSUME NEW m \in Messages, status'[m] = "gone"
        PROVE  status[m] = "gone" \/ Kept(m)' \/ Excused(m)'
    <3>1. \/ status[m] = "gone"
          \/ s = "gone" /\ m = j.msg
          \/ m \in misacked' /\ slow /\ faults > 0 /\ service # "inbound"
          \/ m \in orphaned' /\ faults > 0 /\ service = "inbound"
      BY <2>2, SettlingMessages
    <3>2. CASE m \in misacked' /\ slow /\ faults > 0 /\ service # "inbound"
      BY <1>1, <3>2 DEF Excused, Frame
    <3>3. CASE m \in orphaned' /\ faults > 0 /\ service = "inbound"
      BY <1>1, <3>3 DEF Excused, Frame
    <3>. QED  BY <2>2, <3>1, <3>2, <3>3
  <2>. QED  BY <2>1, <2>2, LossStep
<1>. QED  BY <1>2, <1>3, <1>4, <1>5, <1>6, <1>7, <1>8

\* A callback goes on to its next await.
LEMMA MoveStep ==
    ASSUME IInv, Frame, NEW j \in jobs, NEW at \in Stages \ {"sent"},
           jobs' = (jobs \ {j}) \cup {[j EXCEPT !.at = at]},
           UNCHANGED <<brokerVars, connected, publisher, orphaned, misacked, dropped>>
    PROVE  IInv'
<1>. USE DEF IInv
<1>. DEFINE i == [j EXCEPT !.at = at]
<1>1. j \in Jobs /\ i \in Jobs
      /\ i.at = at /\ i.msg = j.msg /\ i.tag = j.tag /\ i.stale = j.stale
  BY DEF TypeOK, Jobs
<1>2. faults \in Nat
  BY DEF TypeOK
<1>3. UNCHANGED <<status, retries, tag>>
  BY DEF brokerVars
<1>. HIDE DEF i
<1>4. jobs' = (jobs \ {j}) \cup {i}
  BY DEF i
<1>5. TypeOK'
  BY <1>1, <1>3, <1>4 DEF TypeOK, Frame
<1>6. JobsInv'
  BY <1>1, <1>2, <1>4 DEF JobsInv, Frame
<1>7. JobsTied' /\ ChannelInv'
  BY <1>1, <1>2, <1>3, <1>4 DEF JobsTied, ChannelInv, Frame
<1>8. WaitingInv'
  BY <1>3 DEF WaitingInv, Frame
<1>9. PartsBounded' /\ BooksInv'
  BY <1>2 DEF PartsBounded, BooksInv, Frame, Parts, Passes
<1>10. LossIsExplained'
  BY <1>3, LossStep
<1>. QED  BY <1>5, <1>6, <1>7, <1>8, <1>9, <1>10

-----------------------------------------------------------------------------
(* The actions *)

\* The invariant holds at the start.
LEMMA InitInv == Init => IInv
<1>. SUFFICES ASSUME Init PROVE IInv
  OBVIOUS
<1>1. (CHOOSE t \in Tags : TRUE) \in Tags
  BY RetryConsumersAssumption
<1>. DEFINE t == CHOOSE t \in Tags : TRUE
<1>2. tag = [m \in Messages |-> t]
  BY DEF Init
<1>. HIDE DEF t
<1>3. tag \in [Messages -> Tags]
  BY <1>1, <1>2 DEF t
<1>4. 0 \in 0..MaxRetries
  BY RetryConsumersAssumption
<1>5. TypeOK
  <2>1. /\ status \in [Messages -> {"ready", "unacked", "waiting", "gone"}]
        /\ retries \in [Messages -> 0..MaxRetries]
        /\ forwarded \in [Messages -> 0..2]
    BY <1>4 DEF Init
  <2>2. /\ service \in Services /\ slow \in BOOLEAN /\ kind \in Mixes
        /\ jobs = {} /\ connected \in BOOLEAN /\ publisher = "none"
        /\ dead = {} /\ dropped = {} /\ orphaned = {} /\ misacked = {} /\ faults = 0
    BY DEF Init
  <2>. QED  BY <1>3, <2>1, <2>2 DEF TypeOK
<1>6. PartsBounded
  BY DEF Init, PartsBounded, Parts
<1>. QED
  BY <1>5, <1>6 DEF Init, IInv, JobsInv, JobsTied, ChannelInv, WaitingInv, BooksInv,
                    LossIsExplained

\* A step that passes nothing on keeps the books as they are.
LEMMA FrameStays ==
    ASSUME IInv, UNCHANGED <<givenVars, forwarded, dead, dropped>>,
           retries' \in [Messages -> 0..MaxRetries], tag' \in [Messages -> Tags],
           UNCHANGED faults \/ Fault
    PROVE  Frame
BY DEF IInv, TypeOK, Frame, givenVars, PartsBounded, BooksInv, Passes, Fault

\* A delivery keeps the invariant.
LEMMA DeliverStep == ASSUME IInv, NEW m \in Messages, Deliver(m) PROVE IInv'
<1>. USE DEF IInv
<1>. PICK t \in Tags :
         /\ tag' = [tag EXCEPT ![m] = t]
         /\ jobs' = jobs \cup {[msg |-> m, tag |-> t, at |-> "sent", stale |-> FALSE]}
  BY DEF Deliver
<1>. DEFINE i == [msg |-> m, tag |-> t, at |-> "sent", stale |-> FALSE]
<1>1. i \in Jobs /\ i.msg = m /\ i.tag = t /\ i.at = "sent" /\ i.stale = FALSE
  BY DEF Jobs, Stages
<1>2. /\ jobs' = jobs \cup {i} /\ jobs \subseteq Jobs /\ connected /\ status[m] = "ready"
      /\ status' = [status EXCEPT ![m] = "unacked"]
      /\ UNCHANGED <<givenVars, retries, connected, publisher, outVars, lossVars, faults>>
  BY DEF Deliver, TypeOK
<1>. HIDE DEF i
<1>3. Frame
  BY <1>2, FrameStays DEF TypeOK, outVars, lossVars
<1>4. TypeOK'
  BY <1>1, <1>2, <1>3 DEF TypeOK, Frame, outVars, lossVars
<1>5. JobsInv'
  BY <1>1, <1>2 DEF JobsInv, givenVars
<1>6. JobsTied'
  <2>. SUFFICES ASSUME faults = 0
                PROVE  /\ \A j \in jobs' : status'[j.msg] = "unacked" /\ tag'[j.msg] = j.tag
                       /\ \A j, k \in jobs' : j.msg = k.msg => j = k
    BY <1>2 DEF JobsTied
  <2>1. \A j \in jobs : j.msg \in Messages /\ j.msg # m
    BY <1>2 DEF JobsTied, Jobs
  <2>. QED  BY <1>1, <1>2, <2>1 DEF JobsTied, TypeOK
<1>7. ChannelInv' /\ WaitingInv'
  BY <1>2 DEF ChannelInv, WaitingInv, TypeOK, givenVars
<1>8. PartsBounded' /\ BooksInv'
  BY <1>2, <1>3 DEF PartsBounded, BooksInv, Frame, Parts, Passes, lossVars
<1>9. LossIsExplained'
  BY <1>2, <1>3, LossStep DEF lossVars, TypeOK
<1>. QED  BY <1>4, <1>5, <1>6, <1>7, <1>8, <1>9

\* A retry that is due keeps the invariant.
LEMMA RetryTimerStep == ASSUME IInv, NEW m \in Messages, RetryTimer(m) PROVE IInv'
<1>. USE DEF IInv
<1>1. /\ status[m] = "waiting" /\ service = "inbound" /\ retries[m] < MaxRetries
      /\ UNCHANGED <<givenVars, tag, processVars, outVars, dropped, misacked, faults>>
  BY DEF RetryTimer, WaitingInv
<1>2. \/ /\ connected /\ UNCHANGED orphaned
         /\ status' = [status EXCEPT ![m] = "ready"]
         /\ retries' = [retries EXCEPT ![m] = @ + 1]
      \/ /\ ~connected /\ UNCHANGED retries
         /\ status' = [status EXCEPT ![m] = "gone"]
         /\ orphaned' = orphaned \cup {m}
  BY DEF RetryTimer
<1>3. ~connected => faults > 0
  BY <1>1 DEF ChannelInv, TypeOK
<1>4. retries' \in [Messages -> 0..MaxRetries]
  BY <1>1, <1>2, RetryConsumersAssumption DEF TypeOK
<1>5. Frame
  BY <1>1, <1>4, FrameStays DEF TypeOK, outVars
<1>6. TypeOK'
  BY <1>1, <1>2, <1>5 DEF TypeOK, Frame, processVars, outVars
<1>7. JobsInv'
  BY <1>1 DEF JobsInv, givenVars, processVars
<1>8. JobsTied'
  <2>1. ASSUME faults = 0, NEW j \in jobs PROVE j.msg # m
    BY <1>1, <2>1 DEF JobsTied
  <2>2. UNCHANGED <<jobs, tag, faults>> /\ \A j \in jobs : j.msg \in Messages
    BY <1>1 DEF processVars, TypeOK, Jobs
  <2>3. \A j \in jobs : faults = 0 => status'[j.msg] = status[j.msg]
    BY <1>2, <2>1, <2>2 DEF TypeOK
  <2>. QED  BY <2>2, <2>3 DEF JobsTied
<1>9. ChannelInv' /\ WaitingInv'
  BY <1>1, <1>2 DEF ChannelInv, WaitingInv, TypeOK, givenVars, processVars
<1>10. PartsBounded' /\ BooksInv'
  BY <1>1, <1>2, <1>3, <1>5 DEF PartsBounded, BooksInv, Frame, Parts, Passes
<1>11. LossIsExplained'
  <2>1. Excused(m)' \/ status'[m] = "ready"
    BY <1>1, <1>2, <1>3 DEF Excused, TypeOK, givenVars
  <2>. QED  BY <1>1, <1>2, <1>5, <2>1, LossStep DEF TypeOK
<1>. QED  BY <1>6, <1>7, <1>8, <1>9, <1>10, <1>11

\* The connection is lost, or the process dies.
LEMMA LostStep ==
    ASSUME IInv, ConnectionLost \/ Crash
    PROVE  IInv'
<1>. USE DEF IInv
<1>1. /\ UNCHANGED <<givenVars, retries, tag, outVars, dropped, misacked>>
      /\ faults' \in Nat /\ faults' > 0 /\ Fault
  BY DEF ConnectionLost, Crash, Fault, TypeOK
<1>2. Frame
  BY <1>1, FrameStays DEF TypeOK, outVars
<1>3. /\ jobs' \subseteq Jobs /\ (\A k \in jobs' : k.stale /\ k.at # "sent")
      /\ connected' = FALSE /\ publisher' \in {publisher, "none"}
      /\ status' \in [Messages -> {"ready", "waiting", "gone"}]
      /\ orphaned \subseteq orphaned' /\ orphaned' \subseteq Messages
      /\ \A m \in Messages : status'[m] = "waiting" => status[m] = "waiting"
      /\ \A m \in Messages :
             status'[m] = "gone" =>
                 status[m] = "gone" \/ (status[m] = "waiting" /\ m \in orphaned')
  <2>1. CASE ConnectionLost
    BY <2>1, StaleJobs, RequeuedIs DEF ConnectionLost, Disconnects, TypeOK
  <2>2. CASE Crash
    BY <2>2, RequeuedIs DEF Crash, Dies, TypeOK
  <2>. QED  BY <2>1, <2>2
<1>4. TypeOK'
  BY <1>1, <1>2, <1>3 DEF TypeOK, Frame, outVars
<1>5. JobsInv' /\ JobsTied' /\ ChannelInv'
  BY <1>1, <1>3 DEF JobsInv, JobsTied, ChannelInv
<1>6. WaitingInv' /\ PartsBounded' /\ BooksInv'
  BY <1>1, <1>2, <1>3 DEF WaitingInv, PartsBounded, BooksInv, Frame, Parts, Passes
<1>7. LossIsExplained'
  <2>1. \A m \in Messages : status[m] = "waiting" /\ m \in orphaned' => Excused(m)'
    BY <1>1 DEF WaitingInv, Excused, givenVars
  <2>. QED  BY <1>1, <1>2, <1>3, <2>1, LossStep
<1>. QED  BY <1>4, <1>5, <1>6, <1>7

\* A new connection, or the end of the publisher's.
LEMMA ChannelStep ==
    ASSUME IInv, Connect \/ PublisherLost
    PROVE  IInv'
<1>. USE DEF IInv
<1>1. /\ UNCHANGED <<givenVars, brokerVars, jobs, outVars, lossVars>>
      /\ UNCHANGED faults \/ Fault
      /\ \/ connected' = TRUE /\ (slow \/ jobs = {}) /\ UNCHANGED <<publisher, faults>>
         \/ publisher' = "dead" /\ UNCHANGED connected /\ Fault
  BY DEF Connect, PublisherLost
<1>2. Frame
  BY <1>1, FrameStays DEF TypeOK, outVars, brokerVars, lossVars
<1>3. TypeOK'
  BY <1>1, <1>2 DEF TypeOK, Frame, outVars, brokerVars, lossVars, Fault
<1>4. JobsInv' /\ JobsTied' /\ ChannelInv'
  BY <1>1 DEF JobsInv, JobsTied, ChannelInv, Fault, TypeOK, brokerVars, givenVars
<1>5. WaitingInv' /\ PartsBounded' /\ BooksInv'
  BY <1>1, <1>2 DEF WaitingInv, PartsBounded, BooksInv, Frame, Parts, Passes,
                    brokerVars, lossVars, TypeOK
<1>6. LossIsExplained'
  BY <1>1, <1>2, LossStep DEF brokerVars, lossVars
<1>. QED  BY <1>3, <1>4, <1>5, <1>6

-----------------------------------------------------------------------------
(* The callbacks *)

\* Passing parts of a message on and dead-lettering it keep the books; a message
\* that was passed on in all its parts is kept.
LEMMA BooksStep ==
    ASSUME IInv, NEW m \in Messages, NEW n \in 1..Parts(m),
           Forwards(m, n) \/ UNCHANGED forwarded,
           dead' \in {dead, dead \cup {m}},
           UNCHANGED <<givenVars, retries, tag, dropped>>,
           UNCHANGED faults \/ Fault
    PROVE  /\ Frame
           /\ Forwards(m, Parts(m)) => Kept(m)'
<1>. USE DEF IInv
<1>1. \A w \in Messages : Parts(w) \in 1..2 /\ Parts(w)' = Parts(w)
  BY DEF Parts, givenVars
<1>2. /\ forwarded' \in [Messages -> 0..2]
      /\ \A w \in Messages : forwarded[w] <= forwarded'[w] /\ forwarded'[w] <= Parts(w)
  BY <1>1 DEF Forwards, TypeOK, PartsBounded
<1>3. Frame
  BY <1>2 DEF Frame, TypeOK, givenVars, BooksInv, Passes, Fault
<1>4. Forwards(m, Parts(m)) => forwarded'[m] = Parts(m)
  <2>1. forwarded[m] \in 0..2 /\ forwarded[m] <= Parts(m) /\ Parts(m) \in 1..2
    BY <1>1 DEF TypeOK, PartsBounded
  <2>. QED  BY <2>1 DEF Forwards, TypeOK
<1>. QED  BY <1>1, <1>3, <1>4 DEF Kept

\* What is known of a callback and its message.
LEMMA JobIs ==
    ASSUME IInv, NEW j \in jobs
    PROVE  /\ j \in Jobs /\ j.msg \in Messages /\ j.stale \in BOOLEAN /\ faults \in Nat
           /\ j.at = "sent" => ~j.stale /\ connected
           /\ 1 \in 1..Parts(j.msg) /\ Parts(j.msg) \in 1..Parts(j.msg)
BY DEF IInv, TypeOK, JobsInv, Jobs, Parts

\* The inbound transformer's catch block.
LEMMA RetriesOrDropsStep ==
    ASSUME IInv, NEW j \in jobs, service = "inbound", RetriesOrDrops(j),
           UNCHANGED givenVars, UNCHANGED faults \/ Fault,
           ~Passes(j.msg) \/ faults' > 0
    PROVE  IInv'
<1>. USE DEF IInv
<1>1. j.msg \in Messages /\ faults \in Nat /\ faults' \in Nat /\ faults' >= faults
  BY JobIs DEF Fault
<1>2. /\ UNCHANGED <<retries, tag, outVars>>
      /\ dropped' \in {dropped, dropped \cup {j.msg}}
  BY DEF RetriesOrDrops
<1>3. \A m \in Messages : Passes(m)' = Passes(m)
  BY DEF Passes, givenVars
<1>4. Frame
  <2>1. \A m \in dropped' : ~Passes(m) \/ faults' > 0
    BY <1>1, <1>2 DEF BooksInv
  <2>. QED  BY <1>1, <1>2, <2>1 DEF Frame, TypeOK, givenVars, outVars, PartsBounded
<1>5. CASE retries[j.msg] >= MaxRetries
  <2>1. Ends(j, "gone")
    BY <1>5 DEF RetriesOrDrops, Ends, Settled
  <2>2. status'[j.msg] = "gone" => j.msg \in dropped'
    BY <1>5 DEF RetriesOrDrops
  <2>3. status'[j.msg] = "gone" => Excused(j.msg)'
    BY <1>1, <1>3, <2>2 DEF Excused, givenVars
  <2>. QED  BY <1>2, <1>4, <2>1, <2>3, SettleStep
<1>6. CASE ~(retries[j.msg] >= MaxRetries)
  <2>1. Ends(j, "waiting")
    BY <1>6 DEF RetriesOrDrops, Ends, Settled
  <2>2. retries[j.msg] < MaxRetries
    BY <1>1, <1>6, RetryConsumersAssumption DEF TypeOK
  <2>. QED  BY <1>2, <1>4, <2>1, <2>2, SettleStep
<1>. QED  BY <1>5, <1>6

\* A callback that ends after it passed its message on, or dead-lettered it.
LEMMA KeptStep ==
    ASSUME IInv, NEW j \in jobs, Acks(j), NEW n \in 1..Parts(j.msg),
           Forwards(j.msg, n) \/ UNCHANGED forwarded,
           dead' \in {dead, dead \cup {j.msg}},
           UNCHANGED <<givenVars, retries, tag, dropped>>,
           UNCHANGED faults \/ Fault,
           status'[j.msg] = "gone" =>
               \/ status[j.msg] = "gone" \/ Forwards(j.msg, Parts(j.msg))
               \/ j.msg \in dead' \/ Excused(j.msg)'
    PROVE  IInv'
<1>1. j.msg \in Messages
  BY JobIs
<1>2. Frame /\ (Forwards(j.msg, Parts(j.msg)) => Kept(j.msg)')
  BY <1>1, BooksStep
<1>3. Ends(j, "gone")
  BY DEF Acks, Ends, Settled
<1>4. j.msg \in dead' => Kept(j.msg)'
  BY DEF Kept
<1>. QED  BY <1>2, <1>3, <1>4, SettleStep

\* Transforming and publishing keep the invariant.
LEMMA TransformStep ==
    ASSUME IInv, NEW j \in jobs, service = "inbound", Transform(j),
           UNCHANGED <<givenVars, faults>>
    PROVE  IInv'
<1>1. CASE /\ Passes(j.msg) /\ Forwards(j.msg, 1) /\ Acks(j)
           /\ UNCHANGED <<retries, tag, dead, dropped>>
  <2>1. Parts(j.msg) = 1
    BY DEF Parts
  <2>. QED  BY <1>1, <2>1, KeptStep, JobIs
<1>2. CASE (publisher = "dead" \/ ~Passes(j.msg)) /\ RetriesOrDrops(j)
  <2>1. publisher = "dead" => faults > 0
    BY DEF IInv, ChannelInv, TypeOK
  <2>. QED  BY <1>2, <2>1, RetriesOrDropsStep
<1>. QED  BY <1>1, <1>2 DEF Transform

\* A callback that goes on to its next await, having passed on something or not.
LEMMA WaitStep ==
    ASSUME IInv, NEW j \in jobs, NEW at \in Stages \ {"sent"},
           jobs' = (jobs \ {j}) \cup {[j EXCEPT !.at = at]},
           NEW n \in 1..Parts(j.msg), Forwards(j.msg, n) \/ UNCHANGED forwarded,
           UNCHANGED <<givenVars, brokerVars, connected, publisher, dead, lossVars>>,
           UNCHANGED faults \/ Fault
    PROVE  IInv'
<1>1. j.msg \in Messages
  BY JobIs
<1>2. Frame
  BY <1>1, BooksStep DEF brokerVars, lossVars
<1>. QED  BY <1>2, MoveStep DEF lossVars

\* The publisher's channel is there, and the callback's own still too.
LEMMA OpenedStep ==
    ASSUME IInv, NEW j \in jobs, ~j.stale, service = "inbound",
           Forwards(j.msg, 1), UNCHANGED <<givenVars, retries, tag, dead, dropped, faults>>,
           status' = [status EXCEPT ![j.msg] = "gone"],
           jobs' = jobs \ {j}, publisher' = "open",
           UNCHANGED <<connected, orphaned, misacked>>
    PROVE  IInv'
<1>. USE DEF IInv
<1>1. j.msg \in Messages /\ connected /\ Parts(j.msg) = 1 /\ faults \in Nat
  BY JobIs DEF JobsInv, Parts
<1>2. Frame /\ Kept(j.msg)'
  BY <1>1, BooksStep
<1>3. TypeOK'
  BY <1>1, <1>2 DEF TypeOK, Frame
<1>4. JobsInv' /\ ChannelInv'
  BY <1>1 DEF JobsInv, ChannelInv, givenVars
<1>5. JobsTied'
  <2>1. ASSUME faults = 0, NEW k \in jobs' PROVE k.msg \in Messages /\ k.msg # j.msg
    BY <2>1 DEF JobsTied, TypeOK, Jobs
  <2>2. \A k \in jobs' : faults = 0 => status'[k.msg] = status[k.msg]
    BY <1>1, <2>1 DEF TypeOK
  <2>. QED  BY <2>2 DEF JobsTied
<1>6. WaitingInv' /\ PartsBounded' /\ BooksInv'
  BY <1>1, <1>2 DEF WaitingInv, PartsBounded, BooksInv, Frame, Parts, Passes, TypeOK
<1>7. LossIsExplained'
  BY <1>1, <1>2, LossStep DEF TypeOK
<1>. QED  BY <1>3, <1>4, <1>5, <1>6, <1>7

\* The inbound transformer's steps keep the invariant.
LEMMA InboundSteps ==
    ASSUME IInv, NEW j \in jobs,
           HandleInbound(j) \/ OpenPublisher(j) \/ PublisherFails(j)
    PROVE  IInv'
<1>1. service = "inbound" /\ j.msg \in Messages /\ 1 \in 1..Parts(j.msg)
      /\ Parts(j.msg) = 1
  BY JobIs DEF HandleInbound, OpenPublisher, PublisherFails, InboundJob, Parts
<1>2. CASE HandleInbound(j)
  <2>1. CASE publisher = "none" /\ Passes(j.msg)
    <3>1. /\ jobs' = (jobs \ {j}) \cup {[j EXCEPT !.at = "working"]}
          /\ UNCHANGED <<brokerVars, connected, publisher, outVars, lossVars,
                         givenVars, faults>>
      BY <1>2, <2>1 DEF HandleInbound
    <3>. QED  BY <1>1, <3>1, WaitStep DEF Stages, outVars
  <2>2. CASE ~(publisher = "none" /\ Passes(j.msg))
    BY <1>1, <1>2, <2>2, TransformStep DEF HandleInbound
  <2>. QED  BY <2>1, <2>2
<1>3. CASE OpenPublisher(j)
  <2>1. /\ Forwards(j.msg, 1)
        /\ UNCHANGED <<givenVars, retries, tag, dead, dropped, faults>>
    BY <1>3 DEF OpenPublisher
  <2>2. CASE j.stale
    BY <1>1, <1>3, <2>1, <2>2, KeptStep DEF OpenPublisher
  <2>3. CASE ~j.stale
    BY <1>1, <1>3, <2>1, <2>3, OpenedStep DEF OpenPublisher
  <2>. QED  BY <2>2, <2>3
<1>4. CASE PublisherFails(j)
  <2>1. RetriesOrDrops(j) /\ Fault /\ UNCHANGED givenVars
    BY <1>4 DEF PublisherFails
  <2>2. faults' > 0
    BY <2>1, JobIs DEF Fault
  <2>. QED  BY <1>1, <2>1, <2>2, RetriesOrDropsStep
<1>. QED  BY <1>2, <1>3, <1>4

\* The outbound transformer's steps keep the invariant.
LEMMA OutboundSteps ==
    ASSUME IInv, NEW j \in jobs,
           HandleOutbound(j) \/ Backpressure(j) \/ BackoffTimer(j)
    PROVE  IInv'
<1>1. j.msg \in Messages /\ 1 \in 1..Parts(j.msg) /\ Parts(j.msg) \in 1..Parts(j.msg)
  BY JobIs
<1>2. CASE HandleOutbound(j)
  <2>1. service = "outbound" /\ connected
        /\ UNCHANGED <<givenVars, retries, tag, dropped, faults>>
    BY <1>2, JobIs DEF HandleOutbound
  <2>2. CASE kind[j.msg] = "notJson" /\ Acks(j) /\ UNCHANGED outVars
    <3>1. Excused(j.msg)'
      BY <2>1, <2>2 DEF Excused, givenVars
    <3>. QED  BY <1>1, <2>1, <2>2, <3>1, KeptStep DEF outVars
  <2>3. CASE DeadLetters(j.msg) /\ Acks(j) /\ UNCHANGED forwarded
    BY <1>1, <2>1, <2>3, KeptStep DEF DeadLetters
  <2>4. CASE Forwards(j.msg, Parts(j.msg)) /\ Acks(j) /\ UNCHANGED dead
    BY <1>1, <2>1, <2>4, KeptStep
  <2>. QED  BY <1>2, <2>2, <2>3, <2>4 DEF HandleOutbound
<1>3. CASE Backpressure(j)
  <2>1. connected /\ Fault /\ UNCHANGED <<givenVars, retries, tag, dropped>>
        /\ FailsOutbound(j)
    BY <1>3, JobIs DEF Backpressure
  <2>2. PICK n \in 1..Parts(j.msg) : Forwards(j.msg, n)
    BY <1>3 DEF Backpressure
  <2>3. CASE DeadLetters(j.msg) /\ Acks(j)
    BY <2>1, <2>2, <2>3, KeptStep DEF DeadLetters
  <2>4. CASE /\ jobs' = (jobs \ {j}) \cup {[j EXCEPT !.at = "backoff"]}
             /\ UNCHANGED <<status, connected, publisher, orphaned, misacked, dead>>
    BY <2>1, <2>2, <2>4, WaitStep DEF Stages, brokerVars, lossVars
  <2>. QED  BY <2>1, <2>3, <2>4 DEF FailsOutbound
<1>4. CASE BackoffTimer(j)
  <2>1. Ends(j, "ready") /\ UNCHANGED <<givenVars, retries, tag, outVars, dropped, faults>>
    BY <1>4 DEF BackoffTimer, Ends, Settled
  <2>2. Frame
    BY <1>1, <2>1, BooksStep DEF outVars
  <2>. QED  BY <2>1, <2>2, SettleStep
<1>. QED  BY <1>2, <1>3, <1>4

\* A message is dead-lettered, or has no channel to be settled on.
LEMMA DeadLetterStep ==
    ASSUME IInv, NEW j \in jobs, service = "whatsapp", DeadLetters(j.msg), Acks(j),
           Forwards(j.msg, 1) \/ UNCHANGED forwarded,
           UNCHANGED <<givenVars, retries, tag, dropped>>,
           UNCHANGED faults \/ Fault
    PROVE  IInv'
<1>1. j.msg \in Messages /\ 1 \in 1..Parts(j.msg)
  BY JobIs
<1>2. CASE connected
  BY <1>1, <1>2, KeptStep DEF DeadLetters
<1>3. CASE ~connected
  <2>1. Dies
    BY <1>3 DEF Acks, Settles
  <2>2. status[j.msg] # "waiting"
    BY <1>1 DEF IInv, WaitingInv
  <2>3. status'[j.msg] = "gone" => status[j.msg] = "gone"
    BY <1>1, <2>1, <2>2, RequeuedIs DEF Dies, IInv
  <2>. QED  BY <1>1, <2>3, KeptStep DEF DeadLetters
<1>. QED  BY <1>2, <1>3

\* A callback of the WhatsApp API service that could not pass its message on.
LEMMA FailsWhatsAppStep ==
    ASSUME IInv, NEW j \in jobs, service = "whatsapp", FailsWhatsApp(j),
           Forwards(j.msg, 1) \/ UNCHANGED forwarded,
           UNCHANGED <<givenVars, retries, tag, dropped>>,
           UNCHANGED faults \/ Fault
    PROVE  IInv'
<1>1. j.msg \in Messages /\ 1 \in 1..Parts(j.msg)
  BY JobIs
<1>2. CASE DeadLetters(j.msg) /\ Acks(j)
  BY <1>1, <1>2, DeadLetterStep
<1>3. CASE Settles(j, "ready") /\ UNCHANGED dead
  <2>1. Ends(j, "ready")
    BY <1>3 DEF Ends, Settled
  <2>2. Frame
    BY <1>1, <1>3, BooksStep
  <2>. QED  BY <2>1, <2>2, SettleStep
<1>. QED  BY <1>2, <1>3 DEF FailsWhatsApp

\* The steps of the consumer that sends to Meta keep the invariant.
LEMMA WhatsAppSteps ==
    ASSUME IInv, NEW j \in jobs,
           HandleWhatsApp(j) \/ Sent(j) \/ Rejected(j) \/ SendFails(j)
    PROVE  IInv'
<1>1. /\ j.msg \in Messages /\ 1 \in 1..Parts(j.msg)
      /\ service = "whatsapp" /\ Parts(j.msg) = 1
      /\ UNCHANGED <<givenVars, retries, tag, dropped>>
  BY JobIs DEF HandleWhatsApp, Sent, Rejected, SendFails, WhatsAppJob, Parts
<1>2. CASE HandleWhatsApp(j)
  <2>1. connected /\ UNCHANGED <<forwarded, faults>>
    BY <1>2, JobIs DEF HandleWhatsApp
  <2>2. CASE DeadLetters(j.msg) /\ Acks(j)
    BY <1>1, <2>1, <2>2, DeadLetterStep
  <2>3. CASE /\ jobs' = (jobs \ {j}) \cup {[j EXCEPT !.at = "working"]}
             /\ UNCHANGED <<status, connected, publisher, orphaned, misacked, dead>>
    BY <1>1, <2>1, <2>3, WaitStep DEF Stages, brokerVars, lossVars
  <2>. QED  BY <1>2, <2>2, <2>3 DEF HandleWhatsApp
<1>3. CASE Sent(j)
  BY <1>1, <1>3, KeptStep DEF Sent
<1>4. CASE Rejected(j)
  BY <1>1, <1>4, DeadLetterStep DEF Rejected
<1>5. CASE SendFails(j)
  BY <1>1, <1>5, FailsWhatsAppStep DEF SendFails
<1>. QED  BY <1>2, <1>3, <1>4, <1>5

-----------------------------------------------------------------------------
(* The theorems *)

\* The invariant of a queue and its consumer is inductive.
LEMMA Invariant == Spec => []IInv
<1>1. IInv /\ [Next]_vars => IInv'
  <2>. SUFFICES ASSUME IInv, [Next]_vars PROVE IInv'
    OBVIOUS
  <2>1. ASSUME NEW m \in Messages, Deliver(m) \/ RetryTimer(m) PROVE IInv'
    BY <2>1, DeliverStep, RetryTimerStep
  <2>2. ASSUME NEW j \in jobs, JobStep(j) \/ PublisherFails(j) \/ Backpressure(j)
        PROVE  IInv'
    BY <2>2, InboundSteps, OutboundSteps, WhatsAppSteps DEF JobStep
  <2>3. ASSUME PublisherLost \/ Connect \/ ConnectionLost \/ Crash PROVE IInv'
    BY <2>3, ChannelStep, LostStep
  <2>4. CASE UNCHANGED vars
    BY <2>4 DEF vars, givenVars, brokerVars, processVars, outVars, lossVars,
                IInv, TypeOK, JobsInv, JobsTied, ChannelInv, WaitingInv, PartsBounded,
                BooksInv, LossIsExplained, Kept, Parts, Passes
  <2>. QED  BY <2>1, <2>2, <2>3, <2>4 DEF Next
<1>. QED  BY <1>1, InitInv, PTL DEF Spec

\* Every variable keeps its type: whatever tag a stale callback settles, no
\* message gets an unknown status and no retry count passes its limit.
THEOREM TypeCorrect == Spec => []TypeOK
<1>1. IInv => TypeOK
  BY DEF IInv
<1>. QED  BY <1>1, Invariant, PTL

\* However callbacks, timers, lost connections and crashes interleave, a message
\* that left the queue was passed on or dead-lettered, or lost for one of the
\* causes that LossIsExplained names.
THEOREM LossesAreExplained == Spec => []LossIsExplained
<1>1. IInv => LossIsExplained
  BY DEF IInv
<1>. QED  BY <1>1, Invariant, PTL
=============================================================================
