------------------------------ MODULE McpClient ------------------------------
(***************************************************************************)
(* The client of one upstream server (app/transport/mcp_client.py, class   *)
(* MCPClient): concurrent operations share one MCP session, which is       *)
(* opened on first use, closed after a failure and opened again by the     *)
(* next attempt, and one circuit breaker.                                  *)
(*                                                                         *)
(* A task runs one operation.  It suspends while it waits for the client's *)
(* lock, while it opens or closes the session under the lock, and while it *)
(* waits for the upstream's answer; what happens between two suspensions   *)
(* is one step.  The MCP SDK, httpx and the upstream are external: an open *)
(* or a request returns or raises, whatever the state of the session.      *)
(*                                                                         *)
(* An opening enters the transport and the session on an exit stack of its *)
(* own before the handshake.  If the handshake raises or is cancelled,     *)
(* nobody closes that stack: what it holds stays open.                     *)
(***************************************************************************)
EXTENDS CircuitBreaker

CONSTANTS
  Tasks,         \* the operations of a behaviour
  Kind,          \* what each task runs: call_tool, list_tools, ping or close
  Sessions,      \* what an open session may be called
  MaxAttempts,   \* stop_after_attempt
  MaxCancels,    \* bound: tasks cancelled in a behaviour
  None           \* no session, no task

ASSUME ClientAssumption ==
  /\ Kind \in [Tasks -> {"call", "list", "ping", "close"}]
  /\ MaxAttempts \in Nat \ {0}
  /\ MaxCancels \in Nat
  /\ None \notin Tasks \union Sessions

VARIABLES
  session,     \* _session
  stack,       \* _stack: the session it would close
  lock,        \* the task that holds _lock across a suspension
  live,        \* the sessions that are open, with the handshake done or not
  abandoned,   \* history: those whose opening did not come to its end
  pc,          \* where each task is suspended
  attempt,     \* attempt_number of each task
  after,       \* where _reset_session returns to
  registered,  \* the registry still hands out this client
  cancels,     \* tasks cancelled so far
  gates,       \* history: calls of before_call that returned, per task
  reports      \* history: outcomes reported to the breaker, per task

clientVars  == <<session, stack, lock, live, abandoned, registered>>
taskVars    == <<pc, attempt, after, cancels>>
historyVars == <<gates, reports>>
vars == <<breakerVars, clientVars, taskVars, historyVars>>

TypeOK ==
  /\ BreakerTypeOK
  /\ session \in Sessions \union {None}
  /\ stack \in Sessions \union {None}
  /\ lock \in Tasks \union {None}
  /\ live \subseteq Sessions /\ abandoned \subseteq Sessions
  /\ pc \in [Tasks -> {"idle", "get", "open", "wait", "reset", "aclose", "done"}]
  /\ attempt \in [Tasks -> 1..MaxAttempts]
  /\ after \in [Tasks -> {"get", "done"}]
  /\ registered \in BOOLEAN
  /\ cancels \in 0..MaxCancels
  /\ gates \in [Tasks -> 0..1]
  /\ reports \in [Tasks -> Nat]

Init ==
  /\ BreakerInit
  /\ session = None /\ stack = None /\ lock = None
  /\ live = {} /\ abandoned = {}
  /\ pc = [t \in Tasks |-> "idle"]
  /\ attempt = [t \in Tasks |-> 1]
  /\ after = [t \in Tasks |-> "done"]
  /\ registered = TRUE
  /\ cancels = 0
  /\ gates = [t \in Tasks |-> 0]
  /\ reports = [t \in Tasks |-> 0]

Goto(t, l) == pc' = [pc EXCEPT ![t] = l]

-------------------------------------------------------------------------------
(***************************************************************************)
(* _gate: an open circuit ends the operation with UpstreamError.           *)
(***************************************************************************)
Refused(t) ==
  /\ pc[t] = "idle" /\ Kind[t] \in {"call", "list"}
  /\ registered
  /\ CircuitOpen
  /\ Goto(t, "done")
  /\ UNCHANGED <<breakerVars, clientVars, attempt, after, cancels,
                 historyVars>>

Gate(t) ==
  /\ pc[t] = "idle" /\ Kind[t] \in {"call", "list"}
  /\ registered
  /\ BeforeCall
  /\ Goto(t, "get")
  /\ gates' = [gates EXCEPT ![t] = 1]
  /\ UNCHANGED <<clientVars, attempt, after, cancels, reports>>

Ping(t) ==
  /\ pc[t] = "idle" /\ Kind[t] = "ping"
  /\ registered
  /\ Goto(t, "get")
  /\ UNCHANGED <<breakerVars, clientVars, attempt, after, cancels,
                 historyVars>>

(***************************************************************************)
(* The registry closes the client: deregister takes the entry out of the   *)
(* table first, register with an existing id (and the registry's close)    *)
(* only after close() returned.                                            *)
(***************************************************************************)
CloseClient(t) ==
  /\ pc[t] = "idle" /\ Kind[t] = "close"
  /\ registered
  /\ registered' \in BOOLEAN
  /\ Goto(t, "reset")
  /\ UNCHANGED <<breakerVars, session, stack, lock, live, abandoned, attempt,
                 after, cancels, historyVars>>

-------------------------------------------------------------------------------
(***************************************************************************)
(* _get_session, once the lock is free: an open session is used at once.   *)
(***************************************************************************)
UseSession(t) ==
  /\ pc[t] = "get"
  /\ lock = None
  /\ session # None
  /\ Goto(t, "wait")
  /\ UNCHANGED <<breakerVars, clientVars, attempt, after, cancels, gates, reports>>

\* Plausible fault: whether a session exists is not tested under the lock.
StartOpen_Unchecked(t) ==
  /\ pc[t] = "get"
  /\ lock = None
  /\ lock' = t
  /\ Goto(t, "open")
  /\ UNCHANGED <<breakerVars, session, stack, live, abandoned, registered,
                 attempt, after, cancels, historyVars>>

StartOpen(t) ==
  /\ pc[t] = "get"
  /\ lock = None
  /\ session = None
  /\ lock' = t
  /\ Goto(t, "open")
  /\ UNCHANGED <<breakerVars, session, stack, live, abandoned, registered,
                 attempt, after, cancels, historyVars>>

(***************************************************************************)
(* A name that is not in use.  Names only serve to tell sessions apart     *)
(* that are open at the same time, so any one will do.                     *)
(***************************************************************************)
NewName(used) == CHOOSE s \in Sessions \ used : TRUE

(***************************************************************************)
(* _open_session returns; _get_session releases the lock and the request   *)
(* goes out.                                                               *)
(***************************************************************************)
Opened(t) ==
  /\ pc[t] = "open"
  /\ Sessions \ live # {}
  /\ session' = NewName(live)
  /\ stack' = session' /\ live' = live \union {session'}
  /\ lock' = None
  /\ Goto(t, "wait")
  /\ UNCHANGED <<breakerVars, abandoned, registered, attempt, after, cancels, gates, reports>>

-------------------------------------------------------------------------------
Errors == {"transport",   \* TransportError, ConnectionError, TimeoutError
           "upstream",    \* UpstreamError
           "other"}       \* any other Exception

ReportFailure(t) ==
  /\ OnFailure
  /\ reports' = [reports EXCEPT ![t] = @ + 1]

\* Plausible fault: every failed attempt is reported to the breaker.
Raise_ReportsAttempts(t, e) ==
  /\ ReportFailure(t)
  /\ IF e = "upstream"
     THEN Goto(t, "done") /\ UNCHANGED <<attempt, after>>
     ELSE /\ Goto(t, "reset")
          /\ IF e = "transport" /\ attempt[t] < MaxAttempts
             THEN /\ attempt' = [attempt EXCEPT ![t] = @ + 1]
                  /\ after' = [after EXCEPT ![t] = "get"]
             ELSE after' = [after EXCEPT ![t] = "done"] /\ UNCHANGED attempt

\* Plausible fault: a transport error is retried without counting attempts.
Raise_NeverGivesUp(t, e) ==
  \/ /\ e = "transport"
     /\ Goto(t, "reset")
     /\ after' = [after EXCEPT ![t] = "get"]
     /\ UNCHANGED <<breakerVars, attempt, reports>>
  \/ /\ e # "transport"
     /\ IF Kind[t] = "ping" THEN UNCHANGED <<breakerVars, reports>> ELSE ReportFailure(t)
     /\ Goto(t, "reset")
     /\ after' = [after EXCEPT ![t] = "done"]
     /\ UNCHANGED attempt

(***************************************************************************)
(* An exception leaves an attempt.  A transport error is retried after a   *)
(* pause, and the retry starts with _reset_session; any other exception,   *)
(* and the last transport error, is reported and followed by               *)
(* _reset_session; UpstreamError is reported and leaves the session open.  *)
(* ping() catches everything, resets and reports nothing.                  *)
(***************************************************************************)
Raise(t, e) ==
  \/ /\ Kind[t] = "ping"
     /\ Goto(t, "reset")
     /\ after' = [after EXCEPT ![t] = "done"]
     /\ UNCHANGED <<breakerVars, attempt, reports>>
  \/ /\ Kind[t] # "ping" /\ e = "upstream"
     /\ ReportFailure(t)
     /\ Goto(t, "done")
     /\ UNCHANGED <<attempt, after>>
  \/ /\ Kind[t] # "ping" /\ e = "transport" /\ attempt[t] < MaxAttempts
     /\ attempt' = [attempt EXCEPT ![t] = @ + 1]
     /\ Goto(t, "reset")
     /\ after' = [after EXCEPT ![t] = "get"]
     /\ UNCHANGED <<breakerVars, reports>>
  \/ /\ Kind[t] # "ping"
     /\ e = "other" \/ (e = "transport" /\ attempt[t] = MaxAttempts)
     /\ ReportFailure(t)
     /\ Goto(t, "reset")
     /\ after' = [after EXCEPT ![t] = "done"]
     /\ UNCHANGED attempt

(***************************************************************************)
(* An opening ends early.  Before the transport is entered it leaves       *)
(* nothing behind; after it, transport and session stay open, since their  *)
(* exit stack is neither closed nor assigned to _stack.  (One name is kept *)
(* back for the next opening: a bound on what may be left behind.)         *)
(***************************************************************************)
LeavesNothing == UNCHANGED <<live, abandoned>>

LeavesOpen ==
  LET s == NewName(live \union {stack})
  IN  /\ Sessions \ (live \union {stack}) # {} /\ Sessions \ (live \union {s}) # {}
      /\ live' = live \union {s}
      /\ abandoned' = abandoned \union {s}

(***************************************************************************)
(* _open_session raises: UpstreamError if the auth provider did, before    *)
(* anything was entered.  Nothing has been assigned, and leaving `async    *)
(* with' releases the lock.                                                *)
(***************************************************************************)
OpenFails(t) ==
  /\ pc[t] = "open"
  /\ lock' = None
  /\ \E e \in Errors :
       /\ Raise(t, e)
       /\ LeavesNothing \/ (e # "upstream" /\ LeavesOpen)
  /\ UNCHANGED <<session, stack, registered, cancels, gates>>

(***************************************************************************)
(* The upstream answers.                                                   *)
(***************************************************************************)
Answered(t) ==
  /\ pc[t] = "wait"
  /\ IF Kind[t] = "ping"
     THEN UNCHANGED <<breakerVars, reports>>
     ELSE OnSuccess /\ reports' = [reports EXCEPT ![t] = @ + 1]
  /\ Goto(t, "done")
  /\ UNCHANGED <<clientVars, attempt, after, cancels, gates>>

(***************************************************************************)
(* The request raises; a result with isError is an UpstreamError.          *)
(***************************************************************************)
RequestFails(t) ==
  /\ pc[t] = "wait"
  /\ \E e \in Errors : (e = "upstream" => Kind[t] = "call") /\ Raise(t, e)
  /\ UNCHANGED <<clientVars, cancels, gates>>

-------------------------------------------------------------------------------
\* Plausible fault: the session field survives the closing of its stack.
StartReset_KeepsSession(t) ==
  /\ pc[t] = "reset"
  /\ lock = None
  /\ stack # None
  /\ lock' = t
  /\ Goto(t, "aclose")
  /\ UNCHANGED <<breakerVars, session, stack, live, abandoned, registered, attempt,
                 after, cancels, historyVars>>

(***************************************************************************)
(* _reset_session, once the lock is free.  It closes whatever session is   *)
(* open by then, one that another task opened since included.              *)
(***************************************************************************)
StartReset(t) ==
  /\ pc[t] = "reset"
  /\ lock = None
  /\ stack # None
  /\ session' = None
  /\ lock' = t
  /\ Goto(t, "aclose")
  /\ UNCHANGED <<breakerVars, stack, live, abandoned, registered, attempt, after, cancels,
                 historyVars>>

(***************************************************************************)
(* close() returned, and register() replaces the entry.                    *)
(***************************************************************************)
ResetReturns(t) ==
  /\ Goto(t, after[t])
  /\ registered' = (registered /\ Kind[t] # "close")

NothingToReset(t) ==
  /\ pc[t] = "reset"
  /\ lock = None
  /\ stack = None
  /\ session' = None
  /\ ResetReturns(t)
  /\ UNCHANGED <<breakerVars, stack, lock, live, abandoned, attempt, after,
                 cancels, historyVars>>

Aclosed(t) ==
  /\ pc[t] = "aclose"
  /\ live' = live \ {stack}
  /\ stack' = None
  /\ lock' = None
  /\ ResetReturns(t)
  /\ UNCHANGED <<breakerVars, session, abandoned, attempt, after, cancels,
                 historyVars>>

(***************************************************************************)
(* A task is cancelled.  CancelledError is not an Exception: no handler    *)
(* runs.  The lock is released; an exit stack that was being closed still  *)
(* runs its callbacks, but _stack keeps it; that of an opening is dropped. *)
(***************************************************************************)
Cancel(t) ==
  /\ cancels < MaxCancels
  /\ pc[t] \notin {"idle", "done"}
  /\ Kind[t] # "close"
  /\ cancels' = cancels + 1
  /\ Goto(t, "done")
  /\ lock' = IF lock = t THEN None ELSE lock
  /\ \/ pc[t] = "aclose" /\ live' = live \ {stack} /\ UNCHANGED abandoned
     \/ pc[t] # "aclose" /\ LeavesNothing
     \/ pc[t] = "open" /\ LeavesOpen
  /\ UNCHANGED <<breakerVars, session, stack, registered, attempt, after, historyVars>>

ClockTick == Tick /\ UNCHANGED <<clientVars, taskVars, historyVars>>

(***************************************************************************)
(* Nothing is left to do; any other state without a step is a deadlock.    *)
(***************************************************************************)
Quiet ==
  /\ \A t \in Tasks : pc[t] \in {"idle", "done"}
  /\ UNCHANGED vars

Begin(t) == Refused(t) \/ Gate(t) \/ Ping(t) \/ CloseClient(t)

Continue(t) ==
  \/ UseSession(t) \/ StartOpen(t) \/ Opened(t) \/ OpenFails(t)
  \/ Answered(t) \/ RequestFails(t)
  \/ StartReset(t) \/ NothingToReset(t) \/ Aclosed(t)

Next ==
  \/ \E t \in Tasks : Begin(t) \/ Continue(t) \/ Cancel(t)
  \/ ClockTick
  \/ Quiet

Spec == Init /\ [][Next]_vars

(***************************************************************************)
(* A started operation goes on: asyncio's lock is fair, and the upstream   *)
(* answers or breaks the connection in the end.  The latter is assumed of  *)
(* the environment: the client sets no limit on the time of a request, and *)
(* httpx limits only how long a connection may be silent.                  *)
(***************************************************************************)
FairSpec == Spec /\ \A t \in Tasks : WF_vars(Continue(t))

-------------------------------------------------------------------------------
(***************************************************************************)
(* No session that _open_session returned is lost: it is open only as long *)
(* as it is the one _stack would close, in spite of tasks that open, fail, *)
(* retry, reset and are cancelled concurrently.  What is open besides was  *)
(* left behind by an opening that raised or was cancelled, and is nothing  *)
(* the client would hand out or close any more.                            *)
(***************************************************************************)
NoLostSession ==
  /\ live \subseteq {stack} \union abandoned
  /\ abandoned \intersect {session, stack} = {}

(***************************************************************************)
(* _get_session never hands out a session that was closed: a session that  *)
(* is set is open and is the one _stack holds.                             *)
(***************************************************************************)
SessionIsOpen == session # None => session = stack /\ session \in live

(***************************************************************************)
(* The breaker hears of every operation once: an operation that it         *)
(* admitted and that ended, other than by cancellation, has reported one   *)
(* outcome, however many attempts it made, and a refused one none.         *)
(***************************************************************************)
ReportsOnce ==
  /\ \A t \in Tasks : reports[t] <= gates[t]
  /\ cancels = 0 =>
       \A t \in Tasks : pc[t] = "done" => reports[t] = gates[t]

(***************************************************************************)
(* Nobody waits for ever: an operation that began returns or raises, for   *)
(* every order in which tasks take the lock.                               *)
(***************************************************************************)
EveryOperationEnds == \A t \in Tasks : pc[t] # "idle" ~> pc[t] = "done"
===============================================================================
