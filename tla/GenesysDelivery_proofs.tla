----------------------- MODULE GenesysDelivery_proofs -----------------------
(***************************************************************************)
(* For any number of messages, copies, faults and revocations: what the    *)
(* consumer acks was delivered, a delivered message stays uncorrelated     *)
(* only if a handler failed after its POST, and the POSTs Genesys accepted *)
(* are accounted for by the copies and those failures.                     *)
(*                                                                         *)
(* The first two follow from one inductive invariant that relates the      *)
(* stages of the handlers, the deduplication keys and the events; the      *)
(* third counts the copies that have used up their POST.                   *)
(***************************************************************************)
EXTENDS GenesysDelivery, FiniteSetTheorems, TLAPS

-----------------------------------------------------------------------------
(* Types *)

\* Every step keeps the types.
LEMMA TypeStep == TypeOK /\ [Next]_vars => TypeOK'
<1>. SUFFICES ASSUME TypeOK, [Next]_vars PROVE TypeOK'
  OBVIOUS
<1>. USE GenesysDeliveryAssumption
<1>h. ASSUME NEW d \in Deliveries, Handle(d) PROVE TypeOK'
  <2>1. CASE Begin(d)
    BY <2>1 DEF Begin, TypeOK, Working, Settled, messageVars, tokenVars, boundVars
  <2>2. CASE LoadCredentials(d)
    BY <2>2 DEF LoadCredentials, Goes, TypeOK, Working, Settled, messageVars,
                tokenVars, boundVars
  <2>3. CASE ReadToken(d)
    BY <2>3 DEF ReadToken, TypeOK, Working, Settled, messageVars, tokenVars,
                boundVars
  <2>4. CASE FetchToken(d)
    BY <2>4 DEF FetchToken, Goes, TypeOK, Tokens, Working, Settled,
                messageVars, boundVars
  <2>5. CASE StoreToken(d)
    BY <2>5 DEF StoreToken, Goes, TypeOK, Working, Settled, messageVars,
                boundVars
  <2>6. CASE Post(d)
    BY <2>6 DEF Post, Goes, TypeOK, Working, Settled, tokenVars, boundVars
  <2>7. CASE PostUnauthorized(d)
    BY <2>7 DEF PostUnauthorized, Goes, TypeOK, Working, Settled, messageVars,
                tokenVars, boundVars
  <2>8. CASE Invalidate(d)
    BY <2>8 DEF Invalidate, Ends, TypeOK, Tokens, messageVars, boundVars
  <2>9. CASE Mark(d)
    BY <2>9 DEF Mark, Goes, TypeOK, Working, Settled, tokenVars, boundVars
  <2>10. CASE PublishCorrelation(d)
    BY <2>10 DEF PublishCorrelation, Ends, TypeOK, Tokens, Settled, tokenVars,
                 boundVars
  <2>. QED  BY <1>h, <2>1, <2>2, <2>3, <2>4, <2>5, <2>6, <2>7, <2>8, <2>9,
               <2>10 DEF Handle
<1>f. ASSUME NEW d \in Deliveries, Fail(d) PROVE TypeOK'
  <2>. USE DEF Fault
  <2>1. CASE CredentialsFail(d)
    BY <2>1 DEF CredentialsFail, Goes, TypeOK, Settled, messageVars, tokenVars
  <2>2. CASE FetchFails(d)
    BY <2>2 DEF FetchFails, Goes, TypeOK, Working, Settled, messageVars,
                tokenVars
  <2>3. CASE PostRejected(d)
    BY <2>3 DEF PostRejected, Ends, TypeOK, Tokens, Settled, messageVars,
                tokenVars
  <2>4. CASE PostFails(d)
    BY <2>4 DEF PostFails, Ends, TypeOK, Tokens, tokenVars
  <2>5. CASE Crash(d)
    BY <2>5 DEF Crash, Ends, TypeOK, Tokens, tokenVars
  <2>. QED  BY <1>f, <2>1, <2>2, <2>3, <2>4, <2>5 DEF Fail
<1>e. CASE Environment
  <2>. USE DEF TypeOK, Tokens, handlerVars, messageVars, tokenVars, boundVars
  <2>1. CASE Revoke
    BY <2>1 DEF Revoke
  <2>2. CASE CachedTokenExpires \/ IssuedTokenExpires
    BY <2>2 DEF CachedTokenExpires, IssuedTokenExpires
  <2>3. CASE \E w \in Wamids : DedupeExpires(w)
    BY <2>3 DEF DedupeExpires
  <2>4. CASE RedisDown
    <3>1. redisUp' = FALSE /\ faults' = faults + 1
      BY <2>4 DEF RedisDown
    <3>2. UNCHANGED <<handlerVars, messageVars, tokenVars, revocations>>
      BY <2>4 DEF RedisDown
    <3>3. redisUp' \in BOOLEAN
      BY <3>1
    <3>4. faults' \in Nat
      BY <3>1
    <3>. QED  BY <3>2, <3>3, <3>4
  <2>5. CASE RedisUp
    BY <2>5 DEF RedisUp
  <2>. QED  BY <1>e, <2>1, <2>2, <2>3, <2>4, <2>5 DEF Environment
<1>s. CASE UNCHANGED vars
  BY <1>s DEF vars, handlerVars, messageVars, tokenVars, boundVars, TypeOK
<1>. QED  BY <1>h, <1>f, <1>e, <1>s DEF Next

\* The types hold at the start.
LEMMA InitType == Init => TypeOK
BY GenesysDeliveryAssumption DEF Init, TypeOK, Tokens

\* All variables keep their types: whatever the auth-service answers, a
\* handler only ever posts with a token it got from it.
THEOREM DeliveryTypeCorrect == Spec => []TypeOK
<1>. QED  BY InitType, TypeStep, PTL DEF Spec

-----------------------------------------------------------------------------
(* Delivery and correlation *)

\* A set key, and a handler past its POST, stand for an accepted POST.
KeysMeanDelivered == \A w \in deduped : accepted[w] > 0

HandlersHaveDelivered ==
    \A d \in Deliveries :
        stage[d] \in Posted \cup {"acked"} => accepted[WamidOf[d]] > 0

\* Somebody still owes the event of an accepted message, it was published, or
\* the one who owed it failed.
EventIsOwed ==
    \A w \in Wamids : accepted[w] > 0 =>
        \/ w \in correlated
        \/ interrupted[w] > 0
        \/ \E d \in Deliveries : WamidOf[d] = w /\ stage[d] \in Posted

DeliveryInv ==
    /\ TypeOK
    /\ KeysMeanDelivered
    /\ HandlersHaveDelivered
    /\ EventIsOwed

\* A handler's step that touches no message and starts and ends before the
\* POST, or ends in the DLQ.
LEMMA QuietStep ==
    ASSUME DeliveryInv, NEW d \in Deliveries, NEW t,
           t \notin Posted \cup {"acked"},
           stage[d] \notin Posted,
           stage' = [stage EXCEPT ![d] = t],
           UNCHANGED messageVars
    PROVE  (KeysMeanDelivered /\ HandlersHaveDelivered /\ EventIsOwed)'
<1>. USE GenesysDeliveryAssumption DEF DeliveryInv, TypeOK, messageVars
<1>1. KeysMeanDelivered'
  BY DEF KeysMeanDelivered
<1>2. HandlersHaveDelivered'
  BY DEF HandlersHaveDelivered
<1>3. EventIsOwed'
  <2>. SUFFICES ASSUME NEW w \in Wamids, accepted[w] > 0, w \notin correlated,
                       ~(interrupted[w] > 0)
                PROVE  \E e \in Deliveries : WamidOf[e] = w /\ stage'[e] \in Posted
    BY DEF EventIsOwed
  <2>1. PICK e \in Deliveries : WamidOf[e] = w /\ stage[e] \in Posted
    BY DEF EventIsOwed
  <2>. QED  BY <2>1
<1>. QED  BY <1>1, <1>2, <1>3

\* A step that changes no stage and no message, except for losing keys.
LEMMA OtherStep ==
    ASSUME DeliveryInv, deduped' \subseteq deduped,
           UNCHANGED <<stage, accepted, correlated, interrupted>>
    PROVE  (KeysMeanDelivered /\ HandlersHaveDelivered /\ EventIsOwed)'
BY DEF DeliveryInv, KeysMeanDelivered, HandlersHaveDelivered, EventIsOwed

\* The steps of a handler up to the POST, and its failures before it.
LEMMA BeforePost ==
    ASSUME DeliveryInv, NEW d \in Deliveries,
           \/ LoadCredentials(d) \/ ReadToken(d) \/ FetchToken(d)
           \/ StoreToken(d) \/ PostUnauthorized(d) \/ Invalidate(d)
           \/ CredentialsFail(d) \/ FetchFails(d) \/ PostRejected(d)
    PROVE  (KeysMeanDelivered /\ HandlersHaveDelivered /\ EventIsOwed)'
<1>1. /\ UNCHANGED messageVars
      /\ stage[d] \notin Posted
  BY DEF LoadCredentials, ReadToken, FetchToken, StoreToken, PostUnauthorized,
         Invalidate, CredentialsFail, FetchFails, PostRejected, Goes, Posted
<1>2. \E t \in {"token", "fetch", "store", "post", "invalidate", "queued", "dlq"} :
        stage' = [stage EXCEPT ![d] = t]
  BY DEF LoadCredentials, ReadToken, FetchToken, StoreToken, PostUnauthorized,
         Invalidate, CredentialsFail, FetchFails, PostRejected, Goes, Ends
<1>3. PICK t \in {"token", "fetch", "store", "post", "invalidate", "queued", "dlq"} :
        stage' = [stage EXCEPT ![d] = t]
  BY <1>2
<1>4. t \notin Posted \cup {"acked"}
  BY DEF Posted
<1>. QED  BY <1>1, <1>3, <1>4, QuietStep

\* The invariant is inductive.
LEMMA DeliveryStep == DeliveryInv /\ [Next]_vars => DeliveryInv'
<1>. SUFFICES ASSUME DeliveryInv, [Next]_vars PROVE DeliveryInv'
  OBVIOUS
<1>. USE GenesysDeliveryAssumption
<1>t. TypeOK /\ TypeOK'
  BY TypeStep DEF DeliveryInv
<1>. DEFINE Rest == KeysMeanDelivered /\ HandlersHaveDelivered /\ EventIsOwed
<1>h. ASSUME NEW d \in Deliveries, Handle(d) PROVE Rest'
  <2>1. CASE Begin(d)
    <3>1. CASE stage'[d] = "acked"
      <4>1. WamidOf[d] \in deduped /\ stage[d] = "queued" /\ UNCHANGED messageVars
        BY <2>1, <3>1, <1>t DEF Begin, TypeOK
      <4>2. stage' = [stage EXCEPT ![d] = "acked"]
        BY <2>1, <3>1, <1>t DEF Begin, TypeOK
      <4>3. accepted[WamidOf[d]] > 0
        BY <4>1 DEF DeliveryInv, KeysMeanDelivered
      <4>4. HandlersHaveDelivered'
        BY <4>1, <4>2, <4>3, <1>t
           DEF DeliveryInv, HandlersHaveDelivered, messageVars, TypeOK
      <4>5. KeysMeanDelivered'
        BY <4>1 DEF DeliveryInv, KeysMeanDelivered, messageVars
      <4>6. \A e \in Deliveries : stage[e] \in Posted => stage'[e] \in Posted
        BY <4>1, <4>2, <1>t DEF Posted, TypeOK
      <4>7. EventIsOwed'
        BY <4>1, <4>6 DEF DeliveryInv, EventIsOwed, messageVars
      <4>. QED  BY <4>4, <4>5, <4>7
    <3>2. CASE stage'[d] # "acked"
      <4>1. /\ stage[d] \notin Posted
            /\ UNCHANGED messageVars
        BY <2>1 DEF Begin, Posted
      <4>2. PICK t \in {"dlq", "credentials"} : stage' = [stage EXCEPT ![d] = t]
        BY <2>1, <3>2, <1>t DEF Begin, TypeOK
      <4>3. t \notin Posted \cup {"acked"}
        BY DEF Posted
      <4>. QED  BY <4>1, <4>2, <4>3, QuietStep
    <3>. QED  BY <3>1, <3>2
  <2>2. CASE Post(d)
    <3>1. \A w \in Wamids : accepted[w] > 0 => accepted'[w] > 0
      BY <2>2, <1>t DEF Post, TypeOK
    <3>2. accepted'[WamidOf[d]] > 0
      BY <2>2, <1>t DEF Post, TypeOK
    <3>3. stage'[d] = "mark" /\ stage[d] = "post"
      BY <2>2, <1>t DEF Post, Goes, TypeOK
    <3>4. \A e \in Deliveries : e # d => stage'[e] = stage[e]
      BY <2>2, <1>t DEF Post, Goes, TypeOK
    <3>5. KeysMeanDelivered'
      BY <2>2, <3>1, <1>t DEF Post, DeliveryInv, KeysMeanDelivered, TypeOK
    <3>6. HandlersHaveDelivered'
      BY <3>1, <3>2, <3>4, <1>t DEF DeliveryInv, HandlersHaveDelivered, TypeOK
    <3>7. \A w \in Wamids : w # WamidOf[d] => accepted'[w] = accepted[w]
      BY <2>2, <1>t DEF Post, TypeOK
    <3>8. UNCHANGED <<correlated, interrupted>>
      BY <2>2 DEF Post
    <3>9. \A e \in Deliveries : stage[e] \in Posted => stage'[e] \in Posted
      BY <3>3, <3>4 DEF Posted
    <3>10. EventIsOwed'
      BY <3>3, <3>7, <3>8, <3>9 DEF DeliveryInv, EventIsOwed, Posted
    <3>. QED  BY <3>5, <3>6, <3>10
  <2>3. CASE Mark(d)
    <3>1. stage[d] = "mark" /\ stage' = [stage EXCEPT ![d] = "correlate"]
      BY <2>3 DEF Mark, Goes
    <3>2. UNCHANGED <<accepted, correlated, interrupted>>
      BY <2>3 DEF Mark
    <3>3. accepted[WamidOf[d]] > 0
      BY <3>1 DEF DeliveryInv, HandlersHaveDelivered, Posted
    <3>4. KeysMeanDelivered'
      BY <2>3, <3>2, <3>3 DEF Mark, DeliveryInv, KeysMeanDelivered
    <3>5. HandlersHaveDelivered'
      BY <3>1, <3>2, <3>3, <1>t DEF DeliveryInv, HandlersHaveDelivered, TypeOK
    <3>6. \A e \in Deliveries : stage[e] \in Posted => stage'[e] \in Posted
      BY <3>1, <1>t DEF Posted, TypeOK
    <3>7. EventIsOwed'
      BY <3>2, <3>6 DEF DeliveryInv, EventIsOwed
    <3>. QED  BY <3>4, <3>5, <3>7
  <2>4. CASE PublishCorrelation(d)
    <3>1. stage[d] = "correlate" /\ stage' = [stage EXCEPT ![d] = "acked"]
      BY <2>4 DEF PublishCorrelation, Ends
    <3>2. UNCHANGED <<accepted, deduped, interrupted>>
      BY <2>4 DEF PublishCorrelation
    <3>3. accepted[WamidOf[d]] > 0
      BY <3>1 DEF DeliveryInv, HandlersHaveDelivered, Posted
    <3>4. KeysMeanDelivered'
      BY <3>2 DEF DeliveryInv, KeysMeanDelivered
    <3>5. HandlersHaveDelivered'
      BY <3>1, <3>2, <3>3, <1>t DEF DeliveryInv, HandlersHaveDelivered, TypeOK
    <3>6. correlated' = correlated \cup {WamidOf[d]}
      BY <2>4 DEF PublishCorrelation
    <3>7. \A e \in Deliveries : e # d => stage'[e] = stage[e]
      BY <3>1, <1>t DEF TypeOK
    <3>8. EventIsOwed'
      BY <3>2, <3>6, <3>7 DEF DeliveryInv, EventIsOwed
    <3>. QED  BY <3>4, <3>5, <3>8
  <2>5. CASE \/ LoadCredentials(d) \/ ReadToken(d) \/ FetchToken(d)
             \/ StoreToken(d) \/ PostUnauthorized(d) \/ Invalidate(d)
    BY <2>5, BeforePost
  <2>. QED  BY <1>h, <2>1, <2>2, <2>3, <2>4, <2>5 DEF Handle
<1>f. ASSUME NEW d \in Deliveries, Fail(d) PROVE Rest'
  <2>1. CASE PostFails(d)
    <3>1. stage[d] = "post" /\ stage' = [stage EXCEPT ![d] = "queued"]
      BY <2>1 DEF PostFails, Ends
    <3>2. UNCHANGED <<deduped, correlated>>
      BY <2>1 DEF PostFails
    <3>3. CASE UNCHANGED <<accepted, interrupted>>
      <4>1. stage[d] \notin Posted /\ "queued" \notin Posted \cup {"acked"}
        BY <3>1 DEF Posted
      <4>. QED  BY <3>1, <3>2, <3>3, <4>1, QuietStep DEF messageVars
    <3>4. CASE /\ accepted' = [accepted EXCEPT ![WamidOf[d]] = @ + 1]
               /\ interrupted' = [interrupted EXCEPT ![WamidOf[d]] = @ + 1]
      <4>1. \A w \in Wamids : accepted[w] > 0 => accepted'[w] > 0
        BY <3>4, <1>t DEF TypeOK
      <4>2. \A e \in Deliveries :
              /\ stage'[e] \in Posted \cup {"acked"} => stage'[e] = stage[e]
              /\ stage[e] \in Posted => stage'[e] = stage[e]
        BY <3>1, <1>t DEF TypeOK, Posted
      <4>3. interrupted'[WamidOf[d]] > 0
        BY <3>4, <1>t DEF TypeOK
      <4>4. \A w \in Wamids : w # WamidOf[d] =>
              accepted'[w] = accepted[w] /\ interrupted'[w] = interrupted[w]
        BY <3>4, <1>t DEF TypeOK
      <4>5. KeysMeanDelivered'
        BY <3>2, <4>1, <1>t DEF DeliveryInv, KeysMeanDelivered, TypeOK
      <4>6. HandlersHaveDelivered'
        BY <4>1, <4>2 DEF DeliveryInv, HandlersHaveDelivered
      <4>7. EventIsOwed'
        BY <3>2, <4>2, <4>3, <4>4 DEF DeliveryInv, EventIsOwed
      <4>. QED  BY <4>5, <4>6, <4>7
    <3>. QED  BY <2>1, <3>3, <3>4 DEF PostFails
  <2>2. CASE Crash(d)
    <3>1. stage' = [stage EXCEPT ![d] = "queued"]
      BY <2>2 DEF Crash, Ends
    <3>2. UNCHANGED <<accepted, deduped, correlated>>
      BY <2>2 DEF Crash
    <3>3. CASE stage[d] \notin Posted
      <4>1. "queued" \notin Posted \cup {"acked"} /\ UNCHANGED interrupted
        BY <2>2, <3>3 DEF Crash, Posted
      <4>. QED  BY <3>1, <3>2, <3>3, <4>1, QuietStep DEF messageVars
    <3>4. CASE stage[d] \in Posted
      <4>1. interrupted' = [interrupted EXCEPT ![WamidOf[d]] = @ + 1]
        BY <2>2, <3>4 DEF Crash
      <4>2. /\ interrupted'[WamidOf[d]] > 0
            /\ \A w \in Wamids : interrupted[w] > 0 => interrupted'[w] > 0
        BY <4>1, <1>t DEF TypeOK
      <4>3. \A e \in Deliveries : e # d => stage'[e] = stage[e]
        BY <3>1, <1>t DEF TypeOK
      <4>4. KeysMeanDelivered'
        BY <3>2 DEF DeliveryInv, KeysMeanDelivered
      <4>5. stage'[d] \notin Posted \cup {"acked"}
        BY <3>1, <1>t DEF TypeOK, Posted
      <4>6. HandlersHaveDelivered'
        BY <3>2, <4>3, <4>5 DEF DeliveryInv, HandlersHaveDelivered
      <4>7. EventIsOwed'
        BY <3>2, <4>2, <4>3 DEF DeliveryInv, EventIsOwed
      <4>. QED  BY <4>4, <4>6, <4>7
    <3>. QED  BY <3>3, <3>4
  <2>3. CASE CredentialsFail(d) \/ FetchFails(d) \/ PostRejected(d)
    BY <2>3, BeforePost
  <2>. QED  BY <1>f, <2>1, <2>2, <2>3 DEF Fail
<1>e. ASSUME Environment PROVE Rest'
  <2>1. /\ deduped' \subseteq deduped
        /\ UNCHANGED <<stage, accepted, correlated, interrupted>>
    BY <1>e DEF Environment, Revoke, CachedTokenExpires, IssuedTokenExpires,
                DedupeExpires, RedisDown, RedisUp, handlerVars, messageVars
  <2>. QED  BY <2>1, OtherStep
<1>s. ASSUME UNCHANGED vars PROVE Rest'
  <2>1. /\ deduped' \subseteq deduped
        /\ UNCHANGED <<stage, accepted, correlated, interrupted>>
    BY <1>s DEF vars, handlerVars, messageVars
  <2>. QED  BY <2>1, OtherStep
<1>r. Rest'
  BY <1>h, <1>f, <1>e, <1>s DEF Next
<1>. QED  BY <1>t, <1>r DEF DeliveryInv

\* The invariant of the deliveries holds at the start.
LEMMA InitDelivery == Init => DeliveryInv
<1>. SUFFICES ASSUME Init PROVE DeliveryInv
  OBVIOUS
<1>1. TypeOK
  BY InitType
<1>2. KeysMeanDelivered /\ HandlersHaveDelivered /\ EventIsOwed
  BY GenesysDeliveryAssumption
     DEF Init, KeysMeanDelivered, HandlersHaveDelivered, EventIsOwed, Posted
<1>. QED  BY <1>1, <1>2 DEF DeliveryInv

\* The inductive invariant behind the next two theorems.
THEOREM DeliveryInvariant == Spec => []DeliveryInv
<1>. QED  BY InitDelivery, DeliveryStep, PTL DEF Spec

\* What the consumer acks, Genesys has accepted, however copies, crashes and
\* losses of Redis interleave.
THEOREM AckedIsDelivered == Spec => []AckedMeansDelivered
<1>1. DeliveryInv => AckedMeansDelivered
  BY DEF DeliveryInv, HandlersHaveDelivered, AckedMeansDelivered
<1>. QED  BY <1>1, DeliveryInvariant, PTL

\* A message Genesys accepted is correlated once its copies are settled,
\* unless a handler failed between the POST and the event.
THEOREM CorrelatedUnlessInterrupted == Spec => []UncorrelatedOnlyIfInterrupted
<1>1. DeliveryInv => UncorrelatedOnlyIfInterrupted
  BY DEF DeliveryInv, EventIsOwed, UncorrelatedOnlyIfInterrupted, Posted, Settled
<1>. QED  BY <1>1, DeliveryInvariant, PTL

-----------------------------------------------------------------------------
(* Counting the POSTs *)

\* The copies of w that have used up their POST: accepted and not failed
\* since, or never to be handled again.
Spent(w) ==
    {d \in Deliveries : WamidOf[d] = w /\ stage[d] \in Posted \cup Settled}

AccountInv ==
    \A w \in Wamids : accepted[w] <= Cardinality(Spent(w)) + interrupted[w]

\* Spent is a finite set, within the copies of the message.
LEMMA SpentIsFinite ==
    ASSUME NEW w
    PROVE  /\ IsFiniteSet(Spent(w))
           /\ Cardinality(Spent(w)) \in Nat
           /\ Cardinality(Spent(w)) <=
                Cardinality({d \in Deliveries : WamidOf[d] = w})
           /\ Cardinality({d \in Deliveries : WamidOf[d] = w}) \in Nat
<1>. DEFINE Copies == {d \in Deliveries : WamidOf[d] = w}
<1>1. IsFiniteSet(Copies)
  BY GenesysDeliveryAssumption, FS_Subset
<1>2. Spent(w) \in SUBSET Copies
  BY DEF Spent
<1>3. IsFiniteSet(Spent(w)) /\ Cardinality(Spent(w)) <= Cardinality(Copies)
  BY <1>1, <1>2, FS_Subset
<1>4. Cardinality(Spent(w)) \in Nat /\ Cardinality(Copies) \in Nat
  BY <1>1, <1>3, FS_CardinalityType
<1>. QED  BY <1>1, <1>3, <1>4

\* What a delivery has spent stays finite.
LEMMA SpentIsFiniteNext ==
    ASSUME NEW w
    PROVE  IsFiniteSet(Spent(w)') /\ Cardinality(Spent(w)') \in Nat
<1>1. Spent(w)' \in SUBSET Deliveries
  BY DEF Spent
<1>2. IsFiniteSet(Spent(w)')
  BY <1>1, GenesysDeliveryAssumption, FS_Subset
<1>. QED  BY <1>2, FS_CardinalityType

\* Copies being spent without a POST do not upset the account.
LEMMA GrowingStep ==
    ASSUME AccountInv, TypeOK,
           UNCHANGED <<accepted, interrupted>>,
           \A d \in Deliveries : stage[d] \in Posted \cup Settled
                                   => stage'[d] \in Posted \cup Settled
    PROVE  AccountInv'
<1>. SUFFICES ASSUME NEW w \in Wamids
              PROVE  accepted[w] <= Cardinality(Spent(w)') + interrupted[w]
  BY DEF AccountInv
<1>1. Spent(w) \in SUBSET (Spent(w)')
  BY DEF Spent
<1>2. Cardinality(Spent(w)) <= Cardinality(Spent(w)')
  BY <1>1, SpentIsFiniteNext, FS_Subset
<1>3. accepted[w] <= Cardinality(Spent(w)) + interrupted[w]
  BY DEF AccountInv
<1>4. accepted[w] \in Nat /\ interrupted[w] \in Nat
  BY DEF TypeOK
<1>5. Cardinality(Spent(w)) \in Nat
  BY SpentIsFinite
<1>6. Cardinality(Spent(w)') \in Nat
  BY SpentIsFiniteNext
<1>. QED  BY <1>2, <1>3, <1>4, <1>5, <1>6

\* Every step keeps the account.
LEMMA AccountStep == TypeOK /\ AccountInv /\ [Next]_vars => AccountInv'
<1>. SUFFICES ASSUME TypeOK, AccountInv, [Next]_vars PROVE AccountInv'
  OBVIOUS
<1>. USE GenesysDeliveryAssumption
<1>1. ASSUME NEW d \in Deliveries, Post(d) PROVE AccountInv'
  <2>. SUFFICES ASSUME NEW w \in Wamids
                PROVE  accepted'[w] <= Cardinality(Spent(w)') + interrupted'[w]
    BY DEF AccountInv
  <2>1. /\ stage[d] = "post"
        /\ stage' = [stage EXCEPT ![d] = "mark"]
        /\ accepted' = [accepted EXCEPT ![WamidOf[d]] = @ + 1]
        /\ interrupted' = interrupted
    BY <1>1 DEF Post, Goes
  <2>2. /\ accepted[w] <= Cardinality(Spent(w)) + interrupted[w]
        /\ accepted[w] \in Nat
        /\ interrupted[w] \in Nat
        /\ Cardinality(Spent(w)) \in Nat
    BY SpentIsFinite DEF AccountInv, TypeOK
  <2>3. CASE w = WamidOf[d]
    <3>1. Spent(w)' = Spent(w) \cup {d} /\ d \notin Spent(w)
      BY <2>1, <2>3 DEF Spent, Posted, Settled, TypeOK
    <3>2. Cardinality(Spent(w)') = Cardinality(Spent(w)) + 1
      BY <3>1, SpentIsFinite, FS_AddElement
    <3>3. accepted'[w] = accepted[w] + 1
      BY <2>1, <2>3 DEF TypeOK
    <3>. QED  BY <2>1, <2>2, <3>2, <3>3
  <2>4. CASE w # WamidOf[d]
    <3>1. Spent(w)' = Spent(w)
      BY <2>1, <2>4 DEF Spent, TypeOK
    <3>2. accepted'[w] = accepted[w]
      BY <2>1, <2>4 DEF TypeOK
    <3>. QED  BY <2>1, <2>2, <3>1, <3>2
  <2>. QED  BY <2>3, <2>4
<1>2. ASSUME NEW d \in Deliveries, PostFails(d),
             accepted' = [accepted EXCEPT ![WamidOf[d]] = @ + 1],
             interrupted' = [interrupted EXCEPT ![WamidOf[d]] = @ + 1]
      PROVE  AccountInv'
  <2>. SUFFICES ASSUME NEW w \in Wamids
                PROVE  accepted'[w] <= Cardinality(Spent(w)') + interrupted'[w]
    BY DEF AccountInv
  <2>1. stage[d] = "post" /\ stage' = [stage EXCEPT ![d] = "queued"]
    BY <1>2 DEF PostFails, Ends
  <2>2. Spent(w)' = Spent(w)
    BY <2>1 DEF Spent, Posted, Settled, TypeOK
  <2>3. /\ accepted[w] <= Cardinality(Spent(w)) + interrupted[w]
        /\ accepted[w] \in Nat
        /\ interrupted[w] \in Nat
        /\ Cardinality(Spent(w)) \in Nat
    BY SpentIsFinite DEF AccountInv, TypeOK
  <2>4. \/ accepted'[w] = accepted[w] /\ interrupted'[w] = interrupted[w]
        \/ accepted'[w] = accepted[w] + 1 /\ interrupted'[w] = interrupted[w] + 1
    BY <1>2 DEF TypeOK
  <2>. QED  BY <2>2, <2>3, <2>4
<1>3. ASSUME NEW d \in Deliveries, Crash(d), stage[d] \in Posted
      PROVE  AccountInv'
  <2>. SUFFICES ASSUME NEW w \in Wamids
                PROVE  accepted'[w] <= Cardinality(Spent(w)') + interrupted'[w]
    BY DEF AccountInv
  <2>1. /\ stage' = [stage EXCEPT ![d] = "queued"]
        /\ accepted' = accepted
        /\ interrupted' = [interrupted EXCEPT ![WamidOf[d]] = @ + 1]
    BY <1>3 DEF Crash, Ends
  <2>2. /\ accepted[w] <= Cardinality(Spent(w)) + interrupted[w]
        /\ accepted[w] \in Nat
        /\ interrupted[w] \in Nat
        /\ Cardinality(Spent(w)) \in Nat
    BY SpentIsFinite DEF AccountInv, TypeOK
  <2>3. CASE w = WamidOf[d]
    <3>1. Spent(w)' = Spent(w) \ {d} /\ d \in Spent(w)
      BY <1>3, <2>1, <2>3 DEF Spent, Posted, Settled, TypeOK
    <3>2. Cardinality(Spent(w)') = Cardinality(Spent(w)) - 1
      BY <3>1, SpentIsFinite, FS_RemoveElement
    <3>3. interrupted'[w] = interrupted[w] + 1
      BY <2>1, <2>3 DEF TypeOK
    <3>. QED  BY <2>1, <2>2, <3>2, <3>3
  <2>4. CASE w # WamidOf[d]
    <3>1. Spent(w)' = Spent(w)
      BY <2>1, <2>4 DEF Spent, TypeOK
    <3>2. interrupted'[w] = interrupted[w]
      BY <2>1, <2>4 DEF TypeOK
    <3>. QED  BY <2>1, <2>2, <3>1, <3>2
  <2>. QED  BY <2>3, <2>4
<1>4. ASSUME NEW d \in Deliveries, UNCHANGED <<accepted, interrupted>>,
             \/ Begin(d) \/ LoadCredentials(d) \/ ReadToken(d) \/ FetchToken(d)
             \/ StoreToken(d) \/ PostUnauthorized(d) \/ Invalidate(d)
             \/ Mark(d) \/ PublishCorrelation(d) \/ CredentialsFail(d)
             \/ FetchFails(d) \/ PostRejected(d) \/ PostFails(d)
             \/ (Crash(d) /\ stage[d] \notin Posted)
      PROVE  AccountInv'
  <2>1. \A e \in Deliveries : e # d => stage'[e] = stage[e]
    BY <1>4 DEF Begin, LoadCredentials, ReadToken, FetchToken, StoreToken,
         PostUnauthorized, Invalidate, Mark, PublishCorrelation,
         CredentialsFail, FetchFails, PostRejected, PostFails, Crash, Goes,
         Ends, TypeOK
  <2>2. stage[d] \in Posted \cup Settled => stage'[d] \in Posted \cup Settled
    BY <1>4 DEF Begin, LoadCredentials, ReadToken, FetchToken, StoreToken,
         PostUnauthorized, Invalidate, Mark, PublishCorrelation,
         CredentialsFail, FetchFails, PostRejected, PostFails, Crash, Goes,
         Ends, TypeOK, Posted, Settled, Working
  <2>3. \A e \in Deliveries : stage[e] \in Posted \cup Settled
                                => stage'[e] \in Posted \cup Settled
    BY <2>1, <2>2
  <2>. QED  BY <1>4, <2>3, GrowingStep
<1>h. ASSUME NEW d \in Deliveries, Handle(d) \/ Fail(d) PROVE AccountInv'
  <2>1. CASE Post(d)
    BY <2>1, <1>1
  <2>2. CASE PostFails(d)
    BY <2>2, <1>2, <1>4 DEF PostFails
  <2>3. CASE Crash(d)
    BY <2>3, <1>3, <1>4 DEF Crash
  <2>4. CASE \/ Begin(d) \/ LoadCredentials(d) \/ ReadToken(d) \/ FetchToken(d)
             \/ StoreToken(d) \/ PostUnauthorized(d) \/ Invalidate(d)
             \/ Mark(d) \/ PublishCorrelation(d) \/ CredentialsFail(d)
             \/ FetchFails(d) \/ PostRejected(d)
    <3>1. UNCHANGED <<accepted, interrupted>>
      BY <2>4 DEF Begin, LoadCredentials, ReadToken, FetchToken, StoreToken,
           PostUnauthorized, Invalidate, Mark, PublishCorrelation,
           CredentialsFail, FetchFails, PostRejected, messageVars
    <3>. QED  BY <2>4, <3>1, <1>4
  <2>. QED  BY <1>h, <2>1, <2>2, <2>3, <2>4 DEF Handle, Fail
<1>e. CASE Environment \/ UNCHANGED vars
  <2>1. UNCHANGED <<stage, accepted, interrupted>>
    BY <1>e DEF Environment, Revoke, CachedTokenExpires, IssuedTokenExpires,
                DedupeExpires, RedisDown, RedisUp, vars, handlerVars,
                messageVars
  <2>. QED  BY <2>1, GrowingStep
<1>. QED  BY <1>h, <1>e DEF Next

\* The accounts of what was posted hold at the start.
LEMMA InitAccount == Init => AccountInv
<1>. SUFFICES ASSUME Init, NEW w \in Wamids
              PROVE  accepted[w] <= Cardinality(Spent(w)) + interrupted[w]
  BY DEF AccountInv
<1>1. accepted[w] = 0 /\ interrupted[w] = 0
  BY DEF Init
<1>2. Cardinality(Spent(w)) \in Nat
  BY SpentIsFinite
<1>. QED  BY <1>1, <1>2

\* No branch of the consumer posts twice by itself: there are at most as many
\* accepted POSTs as copies and failures after a POST.
THEOREM PostsAreAccountedFor == Spec => []DuplicatesAreExplained
<1>1. TypeOK /\ AccountInv => DuplicatesAreExplained
  <2>. SUFFICES ASSUME TypeOK, AccountInv, NEW w \in Wamids
                PROVE  accepted[w] <=
                         Cardinality({d \in Deliveries : WamidOf[d] = w})
                           + interrupted[w]
    BY DEF DuplicatesAreExplained
  <2>1. accepted[w] <= Cardinality(Spent(w)) + interrupted[w]
    BY DEF AccountInv
  <2>2. accepted[w] \in Nat /\ interrupted[w] \in Nat
    BY DEF TypeOK
  <2>. QED  BY <2>1, <2>2, SpentIsFinite
<1>. QED  BY <1>1, InitType, TypeStep, InitAccount, AccountStep, PTL DEF Spec
=============================================================================
