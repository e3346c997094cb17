------------------------------- MODULE Webhooks -------------------------------
(***************************************************************************)
(* Webhook delivery (app/webhooks/dispatcher.py) and the replacement of    *)
(* the dispatcher by a hot reload (app/admin/reload.py, lines 117-124) and *)
(* at shutdown (app/main.py, lines 147-149).                               *)
(*                                                                         *)
(* A dispatcher is named by the number of its creation.  Dispatching an    *)
(* event starts one delivery task per interested endpoint.  A task         *)
(* suspends while it waits for one of the pool's connections, while it     *)
(* waits for the answer and while it pauses between two attempts.  httpx   *)
(* and the endpoints are external: an endpoint answers with any status,    *)
(* or the request raises, before or after the endpoint took the event in.  *)
(* Bodies, signatures and the length of the pauses are left out.           *)
(***************************************************************************)
EXTENDS Naturals, FiniteSets, Sequences

CONSTANTS
  Endpoints,     \* the configured endpoints
  EventTypes,
  Subscribed,    \* cfg.events of each endpoint; empty = all
  MaxRetries,    \* cfg.max_retries of each endpoint
  PoolSize,      \* httpx.Limits(max_connections) of a dispatcher's client
  Reliable,      \* endpoints that answer every request below 500, in time
  Reloaders,     \* tasks that may run _do_reload
  MaxEvents,     \* bound: events dispatched
  MaxReloads,    \* bound: dispatchers created by reloads
  MaxSeconds     \* bound: the wall clock

ASSUME WebhookAssumption ==
  /\ Subscribed \in [Endpoints -> SUBSET EventTypes]
  /\ MaxRetries \in [Endpoints -> Nat]
  /\ PoolSize \in Nat \ {0}
  /\ Reliable \subseteq Endpoints
  /\ MaxEvents \in Nat /\ MaxReloads \in Nat /\ MaxSeconds \in Nat

VARIABLES
  second,      \* int(time.time()) of the last event
  current,     \* orchestrator.webhook_dispatcher
  made,        \* dispatchers created so far
  closed,      \* dispatchers whose client was closed
  seq,         \* _seq of each dispatcher
  closing,     \* the old_dispatcher each suspended reload is closing, or 0
  overlap,     \* history: dispatchers whose creation another reload overlapped
  events,      \* the events dispatched: their id and their dispatcher
  pc,          \* where each delivery task is
  attempt,     \* attempts each task has made
  status,      \* class of the answer each task took for a delivery
  taken,       \* history: how often the endpoint took the event in
  starved      \* history: attempts that got no connection

clientVars   == <<second, current, made, closed, seq, closing, overlap>>
deliveryVars == <<pc, attempt, status, taken, starved>>
vars == <<clientVars, events, deliveryVars>>

Dispatchers == 1..(MaxReloads + 1)
Event == [id : (0..MaxSeconds) \X Nat, by : Dispatchers]
Deliveries == (1..MaxEvents) \X Endpoints

TypeOK ==
  /\ second \in 0..MaxSeconds
  /\ current \in Dispatchers
  /\ made \in Dispatchers
  /\ closed \subseteq Dispatchers
  /\ seq \in [Dispatchers -> Nat]
  /\ closing \in [Reloaders -> 0..(MaxReloads + 1)]
  /\ overlap \subseteq Dispatchers
  /\ events \in Seq(Event) /\ Len(events) <= MaxEvents
  /\ pc \in [Deliveries -> {"none", "post", "sent", "sleep", "ended"}]
  /\ attempt \in [Deliveries -> Nat]
  /\ status \in [Deliveries -> {"none", "2xx", "4xx"}]
  /\ taken \in [Deliveries -> Nat]
  /\ starved \in [Deliveries -> Nat]

Init ==
  /\ second = 0
  /\ current = 1 /\ made = 1 /\ closed = {}
  /\ seq = [g \in Dispatchers |-> 0]
  /\ closing = [l \in Reloaders |-> 0]
  /\ overlap = {}
  /\ events = <<>>
  /\ pc = [d \in Deliveries |-> "none"]
  /\ attempt = [d \in Deliveries |-> 0]
  /\ status = [d \in Deliveries |-> "none"]
  /\ taken = [d \in Deliveries |-> 0]
  /\ starved = [d \in Deliveries |-> 0]

-------------------------------------------------------------------------------
Interested(e, type) == Subscribed[e] = {} \/ type \in Subscribed[e]

\* Plausible fault: the id is the second alone.
NextId_SecondOnly(now) == <<now, 0>>

(***************************************************************************)
(* _next_id, after its increment of _seq.                                  *)
(***************************************************************************)
NextId(now) == <<now, seq[current] + 1>>

(***************************************************************************)
(* dispatch, in second `now': an id, and a task per interested endpoint.   *)
(* A task that may make no attempt ends at once.                           *)
(***************************************************************************)
Dispatch(type, now) ==
  LET n == Len(events) + 1
  IN  /\ n <= MaxEvents
      /\ Endpoints # {}
      /\ second' = now
      /\ events' = Append(events, [id |-> NextId(now), by |-> current])
      /\ seq' = [seq EXCEPT ![current] = @ + 1]
      /\ pc' = [d \in Deliveries |->
                  IF d[1] = n /\ Interested(d[2], type)
                  THEN IF MaxRetries[d[2]] = 0 THEN "ended" ELSE "post"
                  ELSE pc[d]]
      /\ UNCHANGED <<current, made, closed, closing, overlap, attempt, status,
                     taken, starved>>

-------------------------------------------------------------------------------
By(d) == events[d[1]].by

InUse(g) == {d \in Deliveries : pc[d] = "sent" /\ By(d) = g}

Goto(d, l) == pc' = [pc EXCEPT ![d] = l]

\* Plausible fault: the last attempt is not the end.
Fail_NeverEnds(d) ==
  /\ attempt' = [attempt EXCEPT ![d] = IF @ + 1 < MaxRetries[d[2]] THEN @ + 1 ELSE @]
  /\ Goto(d, "sleep")

\* Plausible fault: the attempts are counted up to and including max_retries.
Fail_OneTooMany(d) ==
  /\ attempt' = [attempt EXCEPT ![d] = @ + 1]
  /\ Goto(d, IF attempt[d] < MaxRetries[d[2]] THEN "sleep" ELSE "ended")

(***************************************************************************)
(* An attempt failed; unless it was the last, the task pauses.             *)
(***************************************************************************)
Fail(d) ==
  /\ attempt' = [attempt EXCEPT ![d] = @ + 1]
  /\ Goto(d, IF attempt[d] + 1 < MaxRetries[d[2]] THEN "sleep" ELSE "ended")

(***************************************************************************)
(* client.post gets a connection of the pool and sends the request.        *)
(***************************************************************************)
Connect(d) ==
  /\ pc[d] = "post"
  /\ By(d) \notin closed
  /\ Cardinality(InUse(By(d))) < PoolSize
  /\ Goto(d, "sent")
  /\ UNCHANGED <<clientVars, events, attempt, status, taken, starved>>

(***************************************************************************)
(* Every connection stays busy for cfg.timeout: PoolTimeout.               *)
(***************************************************************************)
PoolTimeout(d) ==
  /\ pc[d] = "post"
  /\ By(d) \notin closed
  /\ Cardinality(InUse(By(d))) >= PoolSize
  /\ Fail(d)
  /\ starved' = [starved EXCEPT ![d] = @ + 1]
  /\ UNCHANGED <<clientVars, events, status, taken>>

(***************************************************************************)
(* The client was closed: post raises, and a request that is on its way is *)
(* aborted, perhaps after the endpoint took the event in.                  *)
(***************************************************************************)
PostOnClosed(d) ==
  /\ pc[d] \in {"post", "sent"} /\ By(d) \in closed
  /\ \/ pc[d] = "post" /\ UNCHANGED taken
     \/ pc[d] = "sent" /\ \E took \in 0..1 : taken' = [taken EXCEPT ![d] = @ + took]
  /\ Fail(d)
  /\ UNCHANGED <<clientVars, events, status, starved>>

\* Plausible fault: the task goes on after an answer below 500.
Answered_GoesOn(d, class) ==
  /\ pc[d] = "sent"
  /\ taken' = [taken EXCEPT ![d] = IF class = "2xx" THEN @ + 1 ELSE @]
  /\ status' = [status EXCEPT ![d] = class]
  /\ Fail(d)
  /\ UNCHANGED <<clientVars, events, starved>>

(***************************************************************************)
(* An answer below 500 ends the task, a refusal (4xx) like an acceptance.  *)
(***************************************************************************)
Answered(d, class) ==
  /\ pc[d] = "sent"
  /\ taken' = [taken EXCEPT ![d] = IF class = "2xx" THEN @ + 1 ELSE @]
  /\ status' = [status EXCEPT ![d] = class]
  /\ Goto(d, "ended")
  /\ UNCHANGED <<clientVars, events, attempt, starved>>

(***************************************************************************)
(* A 5xx answer, or post raises: the endpoint may have taken the event in. *)
(***************************************************************************)
AttemptFails(d) ==
  /\ pc[d] = "sent"
  /\ d[2] \notin Reliable
  /\ \E took \in 0..1 : taken' = [taken EXCEPT ![d] = @ + took]
  /\ Fail(d)
  /\ UNCHANGED <<clientVars, events, status, starved>>

Wake(d) ==
  /\ pc[d] = "sleep"
  /\ Goto(d, "post")
  /\ UNCHANGED <<clientVars, events, attempt, status, taken, starved>>

-------------------------------------------------------------------------------
\* Plausible fault: a dispatcher with requests under way is left to finish.
CloseOld_SparesBusy(l) ==
  /\ closing[l] = 0
  /\ made <= MaxReloads
  /\ closing' = [closing EXCEPT ![l] = current]
  /\ closed' = IF InUse(current) = {} THEN closed \union {current} ELSE closed
  /\ UNCHANGED <<second, current, made, seq, overlap, events, deliveryVars>>

(***************************************************************************)
(* _do_reload reaches line 118: the dispatcher in force is closed, and the *)
(* reload is suspended in close().                                         *)
(***************************************************************************)
CloseOld(l) ==
  /\ closing[l] = 0
  /\ made <= MaxReloads
  /\ closing' = [closing EXCEPT ![l] = current]
  /\ closed' = closed \union {current}
  /\ UNCHANGED <<second, current, made, seq, overlap, events, deliveryVars>>

(***************************************************************************)
(* close() returned: a new dispatcher takes its place, whatever is in      *)
(* force by now.                                                           *)
(***************************************************************************)
InstallNew(l) ==
  /\ closing[l] # 0
  /\ made <= MaxReloads
  /\ closing' = [closing EXCEPT ![l] = 0]
  /\ made' = made + 1
  /\ current' = made'
  /\ overlap' = IF \E k \in Reloaders \ {l} : closing[k] # 0
                THEN overlap \union {made'} ELSE overlap
  /\ UNCHANGED <<second, closed, seq, events, deliveryVars>>

(***************************************************************************)
(* lifespan ends: the dispatcher in force is closed, whatever reloads are  *)
(* under way.                                                              *)
(***************************************************************************)
Shutdown ==
  /\ closed' = closed \union {current}
  /\ UNCHANGED <<second, current, made, seq, closing, overlap, events, deliveryVars>>

Deliver(d) ==
  \/ Connect(d) \/ PoolTimeout(d) \/ PostOnClosed(d)
  \/ \E class \in {"2xx", "4xx"} : Answered(d, class)
  \/ AttemptFails(d) \/ Wake(d)

Next ==
  \/ \E type \in EventTypes, now \in second..MaxSeconds : Dispatch(type, now)
  \/ \E d \in Deliveries : Deliver(d)
  \/ \E l \in Reloaders : CloseOld(l) \/ InstallNew(l)
  \/ Shutdown

Spec == Init /\ [][Next]_vars

(***************************************************************************)
(* A post ends with an answer, an exception or a timeout (an assumption    *)
(* about the endpoints: httpx times each read, not the request), pauses    *)
(* end, and close() returns.                                               *)
(***************************************************************************)
FairSpec ==
  /\ Spec
  /\ \A d \in Deliveries : WF_vars(Deliver(d))
  /\ \A l \in Reloaders : WF_vars(InstallNew(l))

-------------------------------------------------------------------------------
(***************************************************************************)
(* "Up to `max_retries` attempts" (dispatcher.py, line 9): no endpoint     *)
(* takes an event in more often than max_retries, in whatever way requests *)
(* fail, are aborted by a reload or lose their answer.                     *)
(***************************************************************************)
AtMostMaxRetries == \A d \in Deliveries : taken[d] <= MaxRetries[d[2]]

(***************************************************************************)
(* Once a delivery task has ended, an endpoint that never fails has had    *)
(* the event exactly once or has refused it, unless the dispatcher was     *)
(* closed under the task, or other deliveries kept the pool full through   *)
(* every attempt.  No event is lost for any other reason, and none is      *)
(* given up before max_retries attempts.                                   *)
(***************************************************************************)
ReliableGetsItOnce ==
  \A d \in Deliveries :
    pc[d] = "ended" /\ d[2] \in Reliable /\ By(d) \notin closed =>
      \/ status[d] = "2xx" /\ taken[d] = 1
      \/ status[d] = "4xx" /\ taken[d] = 0
      \/ status[d] = "none" /\ taken[d] = 0 /\ starved[d] = MaxRetries[d[2]]

(***************************************************************************)
(* The X-MCP-Delivery id tells events apart: two events with the same id   *)
(* come from two dispatchers (_seq starts again after a reload, and the    *)
(* reload took less than a second).                                        *)
(***************************************************************************)
IdsIdentify ==
  \A i, j \in 1..Len(events) :
    i # j /\ events[i].id = events[j].id => events[i].by # events[j].by

(***************************************************************************)
(* A dispatcher that was replaced had its connections closed.  The one     *)
(* exception is a dispatcher installed while another reload was suspended  *)
(* in close(): that reload replaces it without closing it.                 *)
(***************************************************************************)
ReplacedIsClosed ==
  \A g \in 1..made : g = current \/ g \in closed \/ g \in overlap

(***************************************************************************)
(* A delivery task whose posts end, well or badly, ends itself: retries,   *)
(* waits for a connection and a dispatcher closed under it do not keep it. *)
(***************************************************************************)
EveryDeliveryEnds == \A d \in Deliveries : pc[d] # "none" ~> pc[d] = "ended"
===============================================================================
