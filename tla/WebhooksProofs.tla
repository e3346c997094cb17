----------------------------- MODULE WebhooksProofs -----------------------------
(***************************************************************************)
(* For every set of endpoints, every pool size, number of attempts, and    *)
(* number of events, reloads and reloading tasks: deliveries are neither   *)
(* repeated beyond max_retries nor lost without a reason, event ids tell   *)
(* the events of a dispatcher apart, and replaced dispatchers are closed.  *)
(*                                                                         *)
(* None of the four is inductive.  A delivery needs what its attempts have *)
(* come to while it is still under way (Progress), an id the bound that    *)
(* _seq puts on the ids given out (SeqInv), and a replacement the fact     *)
(* that a suspended reload means that the dispatcher in force is closed or *)
(* was itself installed during an overlap (CloseInv).                      *)
(***************************************************************************)
EXTENDS Webhooks, TLAPS

Active == {"post", "sent", "sleep"}

(***************************************************************************)
(* Started tasks belong to events; what one delivery has come to.          *)
(***************************************************************************)
Progress(d) ==
  /\ pc[d] # "none" => d[1] <= Len(events)
  /\ pc[d] = "none" =>
       attempt[d] = 0 /\ taken[d] = 0 /\ starved[d] = 0 /\ status[d] = "none"
  /\ pc[d] \in Active =>
       attempt[d] < MaxRetries[d[2]] /\ taken[d] <= attempt[d] /\ status[d] = "none"
  /\ taken[d] <= MaxRetries[d[2]]
  /\ pc[d] \in Active /\ d[2] \in Reliable /\ By(d) \notin closed =>
       taken[d] = 0 /\ starved[d] = attempt[d]

Settled(d) ==
  pc[d] = "ended" /\ d[2] \in Reliable /\ By(d) \notin closed =>
    \/ status[d] = "2xx" /\ taken[d] = 1
    \/ status[d] = "4xx" /\ taken[d] = 0
    \/ status[d] = "none" /\ taken[d] = 0 /\ starved[d] = MaxRetries[d[2]]

DeliveryInv == \A d \in Deliveries : Progress(d) /\ Settled(d)

SeqInv == \A i \in 1..Len(events) : events[i].id[2] <= seq[events[i].by]

CloseInv ==
  /\ current = made
  /\ (\E l \in Reloaders : closing[l] # 0) => current \in closed \union overlap

LEMMA DeliveryParts ==
  ASSUME NEW d \in Deliveries
  PROVE  d[1] \in 1..MaxEvents /\ d[2] \in Endpoints
  BY DEF Deliveries

-------------------------------------------------------------------------------
LEMMA TypeInit == Init => TypeOK
  BY WebhookAssumption DEF Init, TypeOK, Dispatchers

LEMMA FailTypes ==
  ASSUME TypeOK, NEW d \in Deliveries, Fail(d)
  PROVE  /\ pc' \in [Deliveries -> {"none", "post", "sent", "sleep", "ended"}]
         /\ attempt' \in [Deliveries -> Nat]
  BY DEF Fail, Goto, TypeOK

LEMMA TypeStep == TypeOK /\ [Next]_vars => TypeOK'
<1> SUFFICES ASSUME TypeOK, [Next]_vars PROVE TypeOK'
  OBVIOUS
<1> USE WebhookAssumption
<1>1. ASSUME NEW type \in EventTypes, NEW now \in second..MaxSeconds,
             Dispatch(type, now)
      PROVE  TypeOK'
  <2> DEFINE new == [id |-> NextId(now), by |-> current]
  <2>1. now \in 0..MaxSeconds
    BY DEF TypeOK
  <2>2. new \in Event
    BY <2>1 DEF Event, NextId, TypeOK
  <2>3. events' = Append(events, new) /\ Len(events) + 1 <= MaxEvents
    BY <1>1 DEF Dispatch
  <2> HIDE DEF new
  <2>4. events' \in Seq(Event) /\ Len(events') <= MaxEvents
    BY <2>2, <2>3 DEF TypeOK
  <2>5. seq' \in [Dispatchers -> Nat]
    BY <1>1 DEF Dispatch, TypeOK
  <2>6. pc' \in [Deliveries -> {"none", "post", "sent", "sleep", "ended"}]
    BY <1>1 DEF Dispatch, TypeOK
  <2> QED
    BY <1>1, <2>1, <2>4, <2>5, <2>6 DEF Dispatch, TypeOK
<1>2. ASSUME NEW d \in Deliveries, Deliver(d) PROVE TypeOK'
  <2>1. CASE Connect(d) \/ Wake(d)
    BY <2>1 DEF Connect, Wake, Goto, TypeOK, clientVars
  <2>2. CASE PoolTimeout(d)
    <3>1. starved' \in [Deliveries -> Nat]
      BY <2>2 DEF PoolTimeout, TypeOK
    <3> QED
      BY <2>2, <3>1, FailTypes DEF PoolTimeout, TypeOK, clientVars
  <2>3. CASE PostOnClosed(d)
    <3>1. taken' \in [Deliveries -> Nat]
      BY <2>3 DEF PostOnClosed, TypeOK
    <3> QED
      BY <2>3, <3>1, FailTypes DEF PostOnClosed, TypeOK, clientVars
  <2>4. ASSUME NEW class \in {"2xx", "4xx"}, Answered(d, class) PROVE TypeOK'
    <3>1. taken' \in [Deliveries -> Nat]
      BY <2>4 DEF Answered, TypeOK
    <3> QED
      BY <2>4, <3>1 DEF Answered, Goto, TypeOK, clientVars
  <2>5. CASE AttemptFails(d)
    <3>1. taken' \in [Deliveries -> Nat]
      BY <2>5 DEF AttemptFails, TypeOK
    <3> QED
      BY <2>5, <3>1, FailTypes DEF AttemptFails, TypeOK, clientVars
  <2> QED
    BY <1>2, <2>1, <2>2, <2>3, <2>4, <2>5 DEF Deliver
<1>3. ASSUME NEW l \in Reloaders, CloseOld(l) PROVE TypeOK'
  <2>1. closing' \in [Reloaders -> 0..(MaxReloads + 1)]
    BY <1>3 DEF CloseOld, TypeOK, Dispatchers
  <2> QED
    BY <1>3, <2>1 DEF CloseOld, TypeOK, deliveryVars
<1>6. ASSUME NEW l \in Reloaders, InstallNew(l) PROVE TypeOK'
  <2>1. closing' \in [Reloaders -> 0..(MaxReloads + 1)]
    BY <1>6 DEF InstallNew, TypeOK
  <2>2. made' \in Dispatchers /\ current' \in Dispatchers
    BY <1>6 DEF InstallNew, TypeOK, Dispatchers
  <2>3. overlap' \subseteq Dispatchers
    BY <1>6, <2>2 DEF InstallNew, TypeOK
  <2> QED
    BY <1>6, <2>1, <2>2, <2>3 DEF InstallNew, TypeOK, deliveryVars
<1>4. CASE Shutdown
  BY <1>4 DEF Shutdown, TypeOK, deliveryVars
<1>5. CASE UNCHANGED vars
  BY <1>5 DEF vars, clientVars, deliveryVars, TypeOK
<1> QED
  BY <1>1, <1>2, <1>3, <1>4, <1>5, <1>6 DEF Next

(***************************************************************************)
(* Type correctness of dispatchers, events and delivery tasks.             *)
(***************************************************************************)
THEOREM TypeCorrect == Spec => []TypeOK
  BY TypeInit, TypeStep, PTL DEF Spec

-------------------------------------------------------------------------------
LEMMA DeliveryInit == Init => DeliveryInv
  BY WebhookAssumption, DeliveryParts DEF Init, DeliveryInv, Progress, Settled, Active

(***************************************************************************)
(* What a delivery has come to survives a step that leaves it alone: the   *)
(* events it knows of stay, and closed dispatchers stay closed.            *)
(***************************************************************************)
LEMMA LeftAlone ==
  ASSUME TypeOK, NEW d \in Deliveries, Progress(d), Settled(d),
         pc'[d] = pc[d], attempt'[d] = attempt[d], status'[d] = status[d],
         taken'[d] = taken[d], starved'[d] = starved[d],
         closed \subseteq closed',
         Len(events) <= Len(events'), events' \in Seq(Event),
         \A i \in 1..Len(events) : events'[i] = events[i]
  PROVE  Progress(d)' /\ Settled(d)'
<1>1. Len(events) \in Nat /\ Len(events') \in Nat /\ d[1] \in Nat \ {0}
  BY DeliveryParts DEF TypeOK
<1>2. CASE pc[d] = "none"
  BY <1>2 DEF Progress, Settled, Active
<1>3. CASE pc[d] # "none"
  <2>1. d[1] \in 1..Len(events)
    BY <1>1, <1>3 DEF Progress
  <2>2. By(d)' = By(d)
    BY <2>1 DEF By
  <2>3. Progress(d)'
    BY <1>1, <1>3, <2>1, <2>2 DEF Progress
  <2>4. Settled(d)'
    BY <2>2 DEF Settled
  <2> QED
    BY <2>3, <2>4
<1> QED
  BY <1>2, <1>3

(***************************************************************************)
(* A failed attempt: the endpoint may have taken the event in, but not if  *)
(* it is reliable; then the pool was full.                                 *)
(***************************************************************************)
LEMMA FailedAttempt ==
  ASSUME TypeOK, NEW d \in Deliveries, Progress(d), pc[d] \in Active, Fail(d),
         events' = events, closed' = closed, status' = status,
         taken'[d] \in {taken[d], taken[d] + 1},
         d[2] \in Reliable /\ By(d) \notin closed =>
           taken'[d] = taken[d] /\ starved'[d] = starved[d] + 1
  PROVE  Progress(d)' /\ Settled(d)'
<1>1. /\ MaxRetries[d[2]] \in Nat
      /\ attempt[d] \in Nat /\ taken[d] \in Nat /\ starved[d] \in Nat
  BY WebhookAssumption, DeliveryParts DEF TypeOK
<1>2. By(d)' = By(d)
  BY DEF By
<1>3. /\ attempt'[d] = attempt[d] + 1
      /\ pc'[d] = IF attempt[d] + 1 < MaxRetries[d[2]] THEN "sleep" ELSE "ended"
  BY DEF Fail, Goto, TypeOK
<1>4. /\ attempt[d] < MaxRetries[d[2]] /\ taken[d] <= attempt[d]
      /\ status[d] = "none" /\ d[1] <= Len(events)
      /\ d[2] \in Reliable /\ By(d) \notin closed =>
           taken[d] = 0 /\ starved[d] = attempt[d]
  BY DEF Progress, Active
<1>5. Progress(d)'
  BY <1>1, <1>2, <1>3, <1>4 DEF Progress, Active
<1>6. Settled(d)'
  BY <1>1, <1>2, <1>3, <1>4 DEF Settled
<1> QED
  BY <1>5, <1>6

LEMMA DeliveryStep == TypeOK /\ TypeOK' /\ DeliveryInv /\ [Next]_vars => DeliveryInv'
<1> SUFFICES ASSUME TypeOK, TypeOK', DeliveryInv, [Next]_vars PROVE DeliveryInv'
  OBVIOUS
<1>0. events' = events => /\ Len(events) <= Len(events') /\ events' \in Seq(Event)
                          /\ \A i \in 1..Len(events) : events'[i] = events[i]
  BY DEF TypeOK
<1>1. ASSUME NEW type \in EventTypes, NEW now \in second..MaxSeconds,
             Dispatch(type, now)
      PROVE  DeliveryInv'
  <2> SUFFICES ASSUME NEW d \in Deliveries PROVE Progress(d)' /\ Settled(d)'
    BY DEF DeliveryInv
  <2>1. Progress(d) /\ Settled(d)
    BY DEF DeliveryInv
  <2>2. /\ Len(events) \in Nat /\ Len(events') = Len(events) + 1
        /\ events' \in Seq(Event)
        /\ \A i \in 1..Len(events) : events'[i] = events[i]
    BY <1>1 DEF Dispatch, TypeOK
  <2>3. UNCHANGED <<closed, attempt, status, taken, starved>>
    BY <1>1 DEF Dispatch
  <2>4. pc'[d] = IF d[1] = Len(events) + 1 /\ Interested(d[2], type)
                 THEN IF MaxRetries[d[2]] = 0 THEN "ended" ELSE "post"
                 ELSE pc[d]
    BY <1>1 DEF Dispatch
  <2>5. CASE pc'[d] = pc[d]
    BY <2>1, <2>2, <2>3, <2>5, LeftAlone
  <2>6. CASE pc'[d] # pc[d]
    <3>1. d[1] = Len(events) + 1 /\ pc[d] = "none"
      BY <2>1, <2>2, <2>4, <2>6 DEF Progress
    <3>2. MaxRetries[d[2]] \in Nat
      BY WebhookAssumption, DeliveryParts
    <3> QED
      BY <2>1, <2>2, <2>3, <2>4, <2>6, <3>1, <3>2 DEF Progress, Settled, Active
  <2> QED
    BY <2>5, <2>6
<1>2. ASSUME NEW d \in Deliveries, Deliver(d) PROVE DeliveryInv'
  <2>1. UNCHANGED <<events, closed>>
    BY <1>2 DEF Deliver, Connect, PoolTimeout, PostOnClosed, Answered, AttemptFails,
                Wake, clientVars
  <2>2. ASSUME NEW e \in Deliveries, e # d PROVE Progress(e)' /\ Settled(e)'
    <3>1. /\ pc'[e] = pc[e] /\ attempt'[e] = attempt[e] /\ status'[e] = status[e]
          /\ taken'[e] = taken[e] /\ starved'[e] = starved[e]
      BY <1>2, <2>2 DEF Deliver, Connect, PoolTimeout, PostOnClosed, Answered,
                        AttemptFails, Wake, Fail, Goto, TypeOK
    <3> QED
      BY <1>0, <2>1, <3>1, LeftAlone DEF DeliveryInv
  <2>3. Progress(d) /\ Settled(d)
    BY DEF DeliveryInv
  <2>4. CASE Connect(d) \/ Wake(d)
    <3>1. /\ pc[d] \in Active /\ pc'[d] \in Active
          /\ UNCHANGED <<attempt, status, taken, starved>>
      BY <2>4 DEF Connect, Wake, Goto, TypeOK, Active
    <3>2. By(d)' = By(d)
      BY <2>1 DEF By
    <3> QED
      BY <2>1, <2>2, <2>3, <3>1, <3>2 DEF DeliveryInv, Progress, Settled, Active
  <2>5. CASE PoolTimeout(d)
    <3>1. /\ pc[d] \in Active /\ Fail(d) /\ UNCHANGED <<status, taken>>
          /\ starved'[d] = starved[d] + 1
      BY <2>5 DEF PoolTimeout, TypeOK, Active
    <3> QED
      BY <2>1, <2>2, <2>3, <3>1, FailedAttempt DEF DeliveryInv
  <2>6. CASE PostOnClosed(d)
    <3>1. /\ pc[d] \in Active /\ Fail(d) /\ UNCHANGED status /\ By(d) \in closed
          /\ taken'[d] \in {taken[d], taken[d] + 1}
      BY <2>6 DEF PostOnClosed, TypeOK, Active
    <3> QED
      BY <2>1, <2>2, <2>3, <3>1, FailedAttempt DEF DeliveryInv
  <2>7. ASSUME NEW class \in {"2xx", "4xx"}, Answered(d, class) PROVE DeliveryInv'
    <3>1. /\ pc[d] = "sent" /\ pc'[d] = "ended" /\ status'[d] = class
          /\ taken'[d] = IF class = "2xx" THEN taken[d] + 1 ELSE taken[d]
          /\ taken[d] \in Nat /\ attempt[d] \in Nat
      BY <2>7 DEF Answered, Goto, TypeOK
    <3>2. By(d)' = By(d)
      BY <2>1 DEF By
    <3>3. MaxRetries[d[2]] \in Nat
      BY WebhookAssumption, DeliveryParts
    <3>4. Progress(d)'
      BY <2>1, <2>3, <3>1, <3>3 DEF Progress, Active
    <3>5. Settled(d)'
      BY <2>1, <2>3, <3>1, <3>2 DEF Progress, Settled, Active
    <3> QED
      BY <2>2, <3>4, <3>5 DEF DeliveryInv
  <2>8. CASE AttemptFails(d)
    <3>1. /\ pc[d] = "sent" /\ Fail(d) /\ UNCHANGED status /\ d[2] \notin Reliable
          /\ \E took \in 0..1 : taken' = [taken EXCEPT ![d] = @ + took]
      BY <2>8 DEF AttemptFails
    <3>2. pc[d] \in Active
      BY <3>1 DEF Active
    <3>3. taken'[d] \in {taken[d], taken[d] + 1}
      <4>1. PICK took \in 0..1 : taken' = [taken EXCEPT ![d] = @ + took]
        BY <3>1
      <4>2. taken[d] \in Nat /\ taken'[d] = taken[d] + took
        BY <4>1 DEF TypeOK
      <4>3. took = 0 \/ took = 1
        BY <4>1
      <4> QED
        BY <4>2, <4>3
    <3> QED
      BY <2>1, <2>2, <2>3, <3>1, <3>2, <3>3, FailedAttempt DEF DeliveryInv
  <2> QED
    BY <1>2, <2>4, <2>5, <2>6, <2>7, <2>8 DEF Deliver
<1>3. ASSUME closed \subseteq closed', UNCHANGED <<events, deliveryVars>> PROVE DeliveryInv'
  <2> SUFFICES ASSUME NEW d \in Deliveries PROVE Progress(d)' /\ Settled(d)'
    BY DEF DeliveryInv
  <2> QED
    BY <1>0, <1>3, LeftAlone DEF DeliveryInv, deliveryVars
<1>4. ASSUME NEW l \in Reloaders, CloseOld(l) \/ InstallNew(l) PROVE DeliveryInv'
  BY <1>3, <1>4 DEF CloseOld, InstallNew
<1>5. CASE Shutdown \/ UNCHANGED vars
  BY <1>3, <1>5 DEF Shutdown, vars, clientVars
<1> QED
  BY <1>1, <1>2, <1>4, <1>5 DEF Next

LEMMA DeliveryInvariance == Spec => []DeliveryInv
  BY TypeCorrect, DeliveryInit, DeliveryStep, PTL DEF Spec

(***************************************************************************)
(* _deliver makes an endpoint take an event in max_retries times at most.  *)
(***************************************************************************)
THEOREM AttemptsAreBounded == Spec => []AtMostMaxRetries
<1>1. DeliveryInv => AtMostMaxRetries
  BY DEF DeliveryInv, Progress, AtMostMaxRetries
<1> QED
  BY <1>1, DeliveryInvariance, PTL

(***************************************************************************)
(* An endpoint that never fails gets an event once or refuses it, unless   *)
(* its dispatcher was closed or the pool was full at every attempt.        *)
(***************************************************************************)
THEOREM NothingIsLost == Spec => []ReliableGetsItOnce
<1>1. DeliveryInv => ReliableGetsItOnce
  BY DEF DeliveryInv, Settled, ReliableGetsItOnce
<1> QED
  BY <1>1, DeliveryInvariance, PTL

-------------------------------------------------------------------------------
LEMMA EventParts ==
  ASSUME TypeOK, NEW i \in 1..Len(events)
  PROVE  events[i].by \in Dispatchers /\ events[i].id[2] \in Nat
<1>1. events[i] \in Event
  BY DEF TypeOK
<1> QED
  BY <1>1 DEF Event

IdInv == SeqInv /\ IdsIdentify

LEMMA IdStep == TypeOK /\ IdInv /\ [Next]_vars => IdInv'
<1> SUFFICES ASSUME TypeOK, IdInv, [Next]_vars PROVE IdInv'
  OBVIOUS
<1>1. ASSUME NEW type \in EventTypes, NEW now \in second..MaxSeconds,
             Dispatch(type, now)
      PROVE  IdInv'
  <2> DEFINE n == Len(events) + 1
  <2>1. /\ Len(events) \in Nat /\ Len(events') = n
        /\ \A i \in 1..Len(events) : events'[i] = events[i]
        /\ events'[n].id[2] = seq[current] + 1 /\ events'[n].by = current
    BY <1>1 DEF Dispatch, NextId, TypeOK
  <2>2. /\ seq \in [Dispatchers -> Nat] /\ current \in Dispatchers
        /\ seq' = [seq EXCEPT ![current] = @ + 1]
    BY <1>1 DEF Dispatch, TypeOK
  <2>3. ASSUME NEW i \in 1..Len(events)
        PROVE  /\ events[i].by \in Dispatchers /\ events[i].id[2] \in Nat
               /\ events[i].id[2] <= seq[events[i].by]
    BY EventParts DEF IdInv, SeqInv
  <2>4. SeqInv'
    <3> SUFFICES ASSUME NEW i \in 1..n PROVE events'[i].id[2] <= seq'[events'[i].by]
      BY <2>1 DEF SeqInv
    <3>1. CASE i = n
      BY <2>1, <2>2, <3>1
    <3>2. CASE i # n
      <4>1. i \in 1..Len(events) /\ events'[i] = events[i]
        BY <2>1, <3>2
      <4> QED
        BY <2>2, <2>3, <4>1
    <3> QED
      BY <3>1, <3>2
  <2>5. IdsIdentify'
    <3> SUFFICES ASSUME NEW i \in 1..n, NEW j \in 1..n, i # j,
                        events'[i].id = events'[j].id
                 PROVE  events'[i].by # events'[j].by
      BY <2>1 DEF IdsIdentify
    <3>1. CASE i # n /\ j # n
      BY <2>1, <3>1 DEF IdInv, IdsIdentify
    <3>2. CASE i = n
      <4>1. j \in 1..Len(events) /\ events'[j] = events[j]
        BY <2>1, <3>2
      <4> QED
        BY <2>1, <2>2, <2>3, <3>2, <4>1
    <3>3. CASE j = n
      <4>1. i \in 1..Len(events) /\ events'[i] = events[i]
        BY <2>1, <3>3
      <4> QED
        BY <2>1, <2>2, <2>3, <3>3, <4>1
    <3> QED
      BY <3>1, <3>2, <3>3
  <2> QED
    BY <2>4, <2>5 DEF IdInv
<1>2. ASSUME UNCHANGED <<events, seq>> PROVE IdInv'
  BY <1>2 DEF IdInv, SeqInv, IdsIdentify
<1>3. ASSUME NEW d \in Deliveries, Deliver(d) PROVE IdInv'
  BY <1>2, <1>3 DEF Deliver, Connect, PoolTimeout, PostOnClosed, Answered, AttemptFails,
                    Wake, clientVars
<1>4. ASSUME NEW l \in Reloaders, CloseOld(l) \/ InstallNew(l) PROVE IdInv'
  BY <1>2, <1>4 DEF CloseOld, InstallNew
<1>5. CASE Shutdown \/ UNCHANGED vars
  BY <1>2, <1>5 DEF Shutdown, vars, clientVars
<1> QED
  BY <1>1, <1>3, <1>4, <1>5 DEF Next

(***************************************************************************)
(* Two events with the same X-MCP-Delivery id were given it by two         *)
(* dispatchers.                                                            *)
(***************************************************************************)
THEOREM IdsTellEventsApart == Spec => []IdsIdentify
<1>1. Init => IdInv
  BY DEF Init, IdInv, SeqInv, IdsIdentify
<1>2. IdInv => IdsIdentify
  BY DEF IdInv
<1> QED
  BY <1>1, <1>2, IdStep, TypeCorrect, PTL DEF Spec

-------------------------------------------------------------------------------
ReplaceInv == CloseInv /\ ReplacedIsClosed

LEMMA ReplaceStep == TypeOK /\ ReplaceInv /\ [Next]_vars => ReplaceInv'
<1> SUFFICES ASSUME TypeOK, ReplaceInv, [Next]_vars PROVE ReplaceInv'
  OBVIOUS
<1> USE DEF ReplaceInv
<1>1. ASSUME UNCHANGED <<current, made, closing, overlap>>, closed \subseteq closed'
      PROVE  ReplaceInv'
  BY <1>1 DEF CloseInv, ReplacedIsClosed
<1>2. ASSUME NEW type \in EventTypes, NEW now \in second..MaxSeconds,
             Dispatch(type, now)
      PROVE  ReplaceInv'
  BY <1>1, <1>2 DEF Dispatch
<1>3. ASSUME NEW d \in Deliveries, Deliver(d) PROVE ReplaceInv'
  BY <1>1, <1>3 DEF Deliver, Connect, PoolTimeout, PostOnClosed, Answered, AttemptFails,
                    Wake, clientVars
<1>4. ASSUME NEW l \in Reloaders, CloseOld(l) PROVE ReplaceInv'
  BY <1>4 DEF CloseOld, CloseInv, ReplacedIsClosed
<1>5. ASSUME NEW l \in Reloaders, InstallNew(l) PROVE ReplaceInv'
  <2>1. /\ current = made /\ made \in Nat /\ made' = made + 1 /\ current' = made'
        /\ current \in closed \union overlap
        /\ closed' = closed /\ overlap \subseteq overlap'
    BY <1>5 DEF InstallNew, CloseInv, TypeOK, Dispatchers
  <2>2. (\E k \in Reloaders : closing'[k] # 0) => current' \in overlap'
    BY <1>5 DEF InstallNew, TypeOK
  <2>3. ReplacedIsClosed'
    BY <2>1 DEF ReplacedIsClosed
  <2> QED
    BY <2>1, <2>2, <2>3 DEF CloseInv
<1>6. CASE Shutdown \/ UNCHANGED vars
  BY <1>1, <1>6 DEF Shutdown, vars, clientVars
<1> QED
  BY <1>2, <1>3, <1>4, <1>5, <1>6 DEF Next

(***************************************************************************)
(* A reload leaves no dispatcher behind with its connections open, unless  *)
(* it overlapped another one.                                              *)
(***************************************************************************)
THEOREM DispatchersAreClosed == Spec => []ReplacedIsClosed
<1>1. Init => ReplaceInv
  BY DEF Init, ReplaceInv, CloseInv, ReplacedIsClosed
<1>2. ReplaceInv => ReplacedIsClosed
  BY DEF ReplaceInv
<1> QED
  BY <1>1, <1>2, ReplaceStep, TypeCorrect, PTL DEF Spec
===============================================================================
