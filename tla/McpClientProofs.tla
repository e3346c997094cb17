--------------------------- MODULE McpClientProofs ---------------------------
(***************************************************************************)
(* Proofs about McpClient, for any set of tasks, any number of attempts    *)
(* and of cancellations, and any behaviour of the circuit breaker; and     *)
(* about the breaker driven by the calls of many tasks (GatedCalls), for   *)
(* any thresholds and any set of calls.                                    *)
(***************************************************************************)
EXTENDS McpClient, GatedCalls, TLAPS

Labels == {"idle", "get", "open", "wait", "reset", "aclose", "done"}

Types ==
  /\ session \in Sessions \union {None}
  /\ abandoned \subseteq Sessions
  /\ pc \in [Tasks -> Labels]
  /\ after \in [Tasks -> {"get", "done"}]
  /\ cancels \in Nat
  /\ gates \in [Tasks -> Nat]
  /\ reports \in [Tasks -> Nat]

(***************************************************************************)
(* The lock makes opening and closing exclusive, and while it is held      *)
(* across a suspension no session is set.  A session that is open and not  *)
(* set is being closed, or was left behind by its opening.                 *)
(***************************************************************************)
Exclusive ==
  \A t \in Tasks : pc[t] \in {"open", "aclose"} => lock = t /\ session = None

OpenIsSet ==
  session = None => live \subseteq abandoned \/ \E t \in Tasks : pc[t] = "aclose"

Lingers == abandoned \subseteq live

SessionInv ==
  Types /\ Exclusive /\ OpenIsSet /\ Lingers /\ NoLostSession /\ SessionIsOpen

(***************************************************************************)
(* A new client has no session and no task at work.                        *)
(***************************************************************************)
LEMMA SessionInit == Init => SessionInv
<1> SUFFICES ASSUME Init PROVE SessionInv
  OBVIOUS
<1> QED BY DEF Init, SessionInv, Types, Labels, Exclusive, OpenIsSet, Lingers,
                    NoLostSession, SessionIsOpen

(***************************************************************************)
(* A step of a task that neither holds nor takes the lock, and leaves the  *)
(* session alone, keeps the invariant.                                     *)
(***************************************************************************)
LEMMA OtherStep ==
  ASSUME SessionInv, NEW t \in Tasks, NEW l \in Labels \ {"open", "aclose"},
         Goto(t, l), pc[t] \notin {"open", "aclose"},
         UNCHANGED <<session, stack, lock, live, abandoned>>
  PROVE  Exclusive' /\ OpenIsSet' /\ Lingers' /\ NoLostSession' /\ SessionIsOpen'
BY DEF SessionInv, Types, Labels, Goto, Exclusive, OpenIsSet, Lingers, NoLostSession,
       SessionIsOpen

(***************************************************************************)
(* What an opening that ends early leaves behind: nothing, or one session  *)
(* more that is not the one _stack refers to.                              *)
(***************************************************************************)
LEMMA LeftBehind ==
  ASSUME SessionInv, live \subseteq abandoned, LeavesNothing \/ LeavesOpen
  PROVE  /\ live' \subseteq abandoned' /\ abandoned' \subseteq live'
         /\ abandoned' \subseteq Sessions /\ stack \notin abandoned'
<1>1. abandoned \subseteq live /\ abandoned \subseteq Sessions /\ stack \notin abandoned
  BY DEF SessionInv, Types, Lingers, NoLostSession
<1>2. CASE LeavesNothing
  BY <1>1, <1>2 DEF LeavesNothing
<1>3. CASE LeavesOpen
  <2>1. PICK s \in Sessions \ (live \union {stack}) :
          live' = live \union {s} /\ abandoned' = abandoned \union {s}
    BY <1>3 DEF LeavesOpen, NewName
  <2> QED
    BY <1>1, <2>1
<1> QED
  BY <1>2, <1>3

(***************************************************************************)
(* What an exception that leaves an attempt does to its task, whichever    *)
(* branch of the handlers it takes.                                        *)
(***************************************************************************)
LEMMA RaiseTypes ==
  ASSUME Types, NEW t \in Tasks, NEW e \in Errors, Raise(t, e)
  PROVE  /\ \E l \in {"done", "reset"} : Goto(t, l)
         /\ pc' \in [Tasks -> Labels]
         /\ after' \in [Tasks -> {"get", "done"}]
         /\ reports' \in [Tasks -> Nat]
<1>1. \E l \in {"done", "reset"} : Goto(t, l)
  BY Zenon DEF Raise
<1>2. \/ after' = after
      \/ after' = [after EXCEPT ![t] = "done"]
      \/ after' = [after EXCEPT ![t] = "get"]
  BY Zenon DEF Raise
<1>3. reports' = reports \/ reports' = [reports EXCEPT ![t] = @ + 1]
  BY Zenon DEF Raise, ReportFailure
<1>4. pc' \in [Tasks -> Labels]
  BY <1>1 DEF Types, Labels, Goto
<1>5. after' \in [Tasks -> {"get", "done"}]
  BY <1>2 DEF Types
<1>6. reports' \in [Tasks -> Nat]
  <2>1. CASE reports' = reports
    BY <2>1 DEF Types
  <2>2. CASE reports' = [reports EXCEPT ![t] = @ + 1]
    <3>1. reports \in [Tasks -> Nat]
      BY DEF Types
    <3> QED BY <2>2, <3>1
  <2> QED BY <1>3, <2>1, <2>2
<1> QED BY <1>1, <1>4, <1>5, <1>6

(***************************************************************************)
(* Every step keeps the invariant: one step of the proof per action.       *)
(***************************************************************************)
LEMMA SessionStep == SessionInv /\ [Next]_vars => SessionInv'
<1> SUFFICES ASSUME SessionInv, [Next]_vars PROVE SessionInv'
  OBVIOUS
<1> USE DEF SessionInv
<1>a. None \notin Tasks /\ None \notin Sessions
  BY ClientAssumption
<1>1. ASSUME NEW t \in Tasks, Refused(t) PROVE SessionInv'
  BY <1>1, OtherStep DEF Refused, Types, Labels, Goto, clientVars, historyVars
<1>2. ASSUME NEW t \in Tasks, Gate(t) PROVE SessionInv'
  BY <1>2, OtherStep DEF Gate, Types, Labels, Goto, clientVars
<1>3. ASSUME NEW t \in Tasks, Ping(t) PROVE SessionInv'
  BY <1>3, OtherStep DEF Ping, Types, Labels, Goto, clientVars, historyVars
<1>4. ASSUME NEW t \in Tasks, CloseClient(t) PROVE SessionInv'
  BY <1>4, OtherStep DEF CloseClient, Types, Labels, Goto, historyVars
<1>5. ASSUME NEW t \in Tasks, UseSession(t) PROVE SessionInv'
  BY <1>5, OtherStep DEF UseSession, Types, Labels, Goto, clientVars
<1>6. ASSUME NEW t \in Tasks, StartOpen(t) PROVE SessionInv'
  BY <1>6, <1>a DEF StartOpen, Types, Labels, Goto, historyVars, Exclusive,
                    OpenIsSet, Lingers, NoLostSession, SessionIsOpen
<1>7. ASSUME NEW t \in Tasks, Opened(t) PROVE SessionInv'
  <2>1. PICK n \in Sessions \ live :
          session' = n /\ stack' = n /\ live' = live \union {n}
    BY <1>7 DEF Opened, NewName
  <2>2. /\ lock' = None /\ pc[t] = "open" /\ Goto(t, "wait")
        /\ UNCHANGED <<abandoned, after, cancels, gates, reports>>
    BY <1>7 DEF Opened
  <2>3. live \subseteq abandoned /\ abandoned \subseteq live
    BY <2>2 DEF Exclusive, OpenIsSet, Lingers
  <2>4. \A u \in Tasks : pc'[u] \notin {"open", "aclose"}
    BY <2>2 DEF Exclusive, Types, Goto
  <2> QED BY <2>1, <2>2, <2>3, <2>4, <1>a
        DEF Types, Labels, Goto, Exclusive, OpenIsSet, Lingers, NoLostSession, SessionIsOpen
<1>8. ASSUME NEW t \in Tasks, OpenFails(t) PROVE SessionInv'
  <2>1. PICK e \in Errors : Raise(t, e)
    BY <1>8 DEF OpenFails
  <2>2. /\ pc[t] = "open" /\ lock' = None
        /\ LeavesNothing \/ LeavesOpen
        /\ UNCHANGED <<session, stack, cancels, gates>>
    BY <1>8 DEF OpenFails
  <2>3. /\ \E l \in {"done", "reset"} : Goto(t, l)
        /\ pc' \in [Tasks -> Labels] /\ after' \in [Tasks -> {"get", "done"}]
        /\ reports' \in [Tasks -> Nat]
    BY <2>1, RaiseTypes
  <2>4. \A u \in Tasks : pc'[u] \notin {"open", "aclose"}
    BY <2>2, <2>3 DEF Exclusive, Types, Goto
  <2>5. session = None /\ live \subseteq abandoned
    BY <2>2 DEF Exclusive, OpenIsSet
  <2>6. /\ live' \subseteq abandoned' /\ abandoned' \subseteq live'
        /\ abandoned' \subseteq Sessions /\ stack \notin abandoned'
    BY <2>2, <2>5, LeftBehind
  <2> QED BY <2>2, <2>3, <2>4, <2>5, <2>6, <1>a
        DEF Types, Exclusive, OpenIsSet, Lingers, NoLostSession, SessionIsOpen
<1>9. ASSUME NEW t \in Tasks, Answered(t) PROVE SessionInv'
  <2>1. reports' \in [Tasks -> Nat]
    BY <1>9 DEF Answered, Types
  <2> QED BY <1>9, <2>1, OtherStep DEF Answered, Types, Labels, Goto, clientVars
<1>10. ASSUME NEW t \in Tasks, RequestFails(t) PROVE SessionInv'
  <2>1. PICK e \in Errors : Raise(t, e)
    BY <1>10 DEF RequestFails
  <2>2. /\ pc[t] = "wait"
        /\ UNCHANGED <<session, stack, lock, live, abandoned, cancels, gates>>
    BY <1>10 DEF RequestFails, clientVars
  <2>3. /\ \E l \in {"done", "reset"} : Goto(t, l)
        /\ pc' \in [Tasks -> Labels] /\ after' \in [Tasks -> {"get", "done"}]
        /\ reports' \in [Tasks -> Nat]
    BY <2>1, RaiseTypes
  <2>4. PICK l \in {"done", "reset"} : Goto(t, l)
    BY <2>3
  <2>5. Exclusive' /\ OpenIsSet' /\ Lingers' /\ NoLostSession' /\ SessionIsOpen'
    BY <2>2, <2>4, OtherStep DEF Labels
  <2> QED BY <2>2, <2>3, <2>5 DEF Types
<1>11. ASSUME NEW t \in Tasks, StartReset(t) PROVE SessionInv'
  BY <1>11, <1>a DEF StartReset, Types, Labels, Goto, historyVars, Exclusive,
                     OpenIsSet, Lingers, NoLostSession, SessionIsOpen
<1>12. ASSUME NEW t \in Tasks, NothingToReset(t) PROVE SessionInv'
  <2>1. /\ pc[t] = "reset" /\ lock = None /\ stack = None /\ session' = None
        /\ pc' = [pc EXCEPT ![t] = after[t]]
        /\ UNCHANGED <<stack, lock, live, abandoned, after, cancels, gates, reports>>
    BY <1>12 DEF NothingToReset, ResetReturns, Goto, historyVars
  <2>2. \A u \in Tasks : pc[u] \notin {"open", "aclose"}
    BY <2>1, <1>a DEF Exclusive
  <2>3. session = None /\ live \subseteq abandoned
    BY <2>1, <2>2, <1>a DEF OpenIsSet, SessionIsOpen
  <2> QED BY <2>1, <2>2, <2>3
        DEF Types, Labels, Exclusive, OpenIsSet, Lingers, NoLostSession, SessionIsOpen
<1>13. ASSUME NEW t \in Tasks, Aclosed(t) PROVE SessionInv'
  <2>1. /\ pc[t] = "aclose" /\ live' = live \ {stack} /\ lock' = None
        /\ pc' = [pc EXCEPT ![t] = after[t]]
        /\ UNCHANGED <<session, abandoned, after, cancels, gates, reports>>
    BY <1>13 DEF Aclosed, ResetReturns, Goto, historyVars
  <2>2. session = None /\ stack' = None /\ live' = abandoned
    BY <2>1, <1>13 DEF Exclusive, Lingers, NoLostSession, Aclosed
  <2>3. \A u \in Tasks : pc'[u] \notin {"open", "aclose"}
    BY <2>1 DEF Exclusive, Types
  <2> QED BY <2>1, <2>2, <2>3
        DEF Types, Labels, Exclusive, OpenIsSet, Lingers, NoLostSession, SessionIsOpen
<1>14. ASSUME NEW t \in Tasks, Cancel(t) PROVE SessionInv'
  <2>1. /\ lock' = IF lock = t THEN None ELSE lock
        /\ pc' = [pc EXCEPT ![t] = "done"] /\ cancels' = cancels + 1
        /\ UNCHANGED <<session, stack, after, gates, reports>>
    BY <1>14 DEF Cancel, Goto, historyVars
  <2>2. CASE pc[t] = "aclose" /\ live' = live \ {stack} /\ UNCHANGED abandoned
    <3>1. session = None /\ live' = abandoned
      BY <2>1, <2>2 DEF Exclusive, Lingers, NoLostSession
    <3>2. \A u \in Tasks : pc'[u] \notin {"open", "aclose"}
      BY <2>1, <2>2 DEF Exclusive, Types
    <3> QED BY <2>1, <2>2, <3>1, <3>2
          DEF Types, Labels, Exclusive, OpenIsSet, Lingers, NoLostSession, SessionIsOpen
  <2>3. CASE pc[t] # "aclose" /\ LeavesNothing
    BY <2>1, <2>3 DEF LeavesNothing, Types, Labels, Exclusive, OpenIsSet, Lingers,
                      NoLostSession, SessionIsOpen
  <2>4. CASE pc[t] = "open" /\ LeavesOpen
    <3>1. session = None /\ live \subseteq abandoned
      BY <2>4 DEF Exclusive, OpenIsSet
    <3>2. \A u \in Tasks : pc'[u] \notin {"open", "aclose"}
      BY <2>1, <2>4 DEF Exclusive, Types
    <3>3. /\ live' \subseteq abandoned' /\ abandoned' \subseteq live'
          /\ abandoned' \subseteq Sessions /\ stack \notin abandoned'
      BY <2>4, <3>1, LeftBehind
    <3> QED BY <2>1, <3>1, <3>2, <3>3, <1>a
          DEF Types, Labels, Exclusive, OpenIsSet, Lingers, NoLostSession, SessionIsOpen
  <2> QED BY <1>14, <2>2, <2>3, <2>4 DEF Cancel
<1>15. CASE ClockTick
  BY <1>15 DEF ClockTick, clientVars, taskVars, historyVars, Types, Exclusive,
               OpenIsSet, Lingers, NoLostSession, SessionIsOpen
<1>16. CASE UNCHANGED vars
  BY <1>16 DEF vars, clientVars, taskVars, historyVars, Types, Exclusive,
               OpenIsSet, Lingers, NoLostSession, SessionIsOpen
<1> QED
  BY <1>1, <1>2, <1>3, <1>4, <1>5, <1>6, <1>7, <1>8, <1>9, <1>10, <1>11, <1>12,
     <1>13, <1>14, <1>15, <1>16 DEF Next, Begin, Continue, Quiet

LEMMA SessionInvariance == Spec => []SessionInv
  BY SessionInit, SessionStep, PTL DEF Spec

(***************************************************************************)
(* No session that _open_session returned is lost: one that is open is the *)
(* one _reset_session would close, under concurrent failures, retries and  *)
(* cancellations, whatever failed openings have left behind.               *)
(***************************************************************************)
THEOREM NoSessionIsLost == Spec => []NoLostSession
<1>1. SessionInv => NoLostSession
  BY DEF SessionInv
<1> QED BY <1>1, SessionInvariance, PTL

(***************************************************************************)
(* _get_session never hands out a session that was closed.                 *)
(***************************************************************************)
THEOREM SessionsAreOpen == Spec => []SessionIsOpen
<1>1. SessionInv => SessionIsOpen
  BY DEF SessionInv
<1> QED BY <1>1, SessionInvariance, PTL

-------------------------------------------------------------------------------
(***************************************************************************)
(* Where a task is determines what it has reported: nothing while it is in *)
(* progress or about to retry, its one outcome from then on.  The task     *)
(* that closes the client never makes an attempt.                          *)
(***************************************************************************)
InProgress(t) ==
  /\ Kind[t] # "close"
  /\ reports[t] = 0
  /\ gates[t] = IF Kind[t] = "ping" THEN 0 ELSE 1

Reported(t) ==
  /\ pc[t] = "idle" => reports[t] = 0 /\ gates[t] = 0 /\ after[t] = "done"
  /\ pc[t] \in {"get", "open", "wait"} => InProgress(t)
  /\ pc[t] \in {"reset", "aclose"} /\ after[t] = "get" => InProgress(t)
  /\ pc[t] \in {"reset", "aclose"} /\ after[t] = "done" => reports[t] = gates[t]
  /\ pc[t] = "done" => /\ reports[t] <= gates[t]
                       /\ cancels = 0 => reports[t] = gates[t]

ReportInv == \A t \in Tasks : Reported(t)

(***************************************************************************)
(* A step of one task leaves what the others have reported as it is.       *)
(***************************************************************************)
LEMMA OthersReported ==
  ASSUME ReportInv, NEW t \in Tasks, Reported(t)',
         \A u \in Tasks \ {t} :
           /\ pc'[u] = pc[u] /\ after'[u] = after[u]
           /\ gates'[u] = gates[u] /\ reports'[u] = reports[u],
         cancels' = 0 => cancels = 0
  PROVE  ReportInv'
<1> SUFFICES ASSUME NEW u \in Tasks \ {t} PROVE Reported(u)'
  BY DEF ReportInv
<1>1. Reported(u)
  BY DEF ReportInv
<1> QED BY <1>1 DEF Reported, InProgress

(***************************************************************************)
(* An exception that leaves an attempt: it is reported now, or the task    *)
(* resets the session and tries again with nothing reported.               *)
(***************************************************************************)
LEMMA RaiseReports ==
  ASSUME Types, ReportInv, NEW t \in Tasks, NEW e \in Errors, Raise(t, e),
         pc[t] \in {"open", "wait"}, UNCHANGED <<gates, cancels>>
  PROVE  ReportInv'
<1>1. InProgress(t)
  BY DEF ReportInv, Reported
<1>2. Kind[t] = "ping" \/ gates[t] = 1
  BY <1>1 DEF InProgress
<1>3. /\ pc \in [Tasks -> Labels] /\ after \in [Tasks -> {"get", "done"}]
      /\ gates \in [Tasks -> Nat] /\ reports \in [Tasks -> Nat]
  BY DEF Types
<1>4. CASE /\ Kind[t] = "ping" /\ Goto(t, "reset") /\ reports' = reports
           /\ after' = [after EXCEPT ![t] = "done"]
  BY <1>1, <1>3, <1>4, OthersReported DEF Goto, Reported, InProgress
<1>5. CASE /\ Kind[t] # "ping" /\ Goto(t, "done") /\ after' = after
           /\ reports' = [reports EXCEPT ![t] = @ + 1]
  BY <1>1, <1>2, <1>3, <1>5, OthersReported DEF Goto, Reported, InProgress
<1>6. CASE /\ Kind[t] # "ping" /\ Goto(t, "reset") /\ reports' = reports
           /\ after' = [after EXCEPT ![t] = "get"]
  BY <1>1, <1>2, <1>3, <1>6, OthersReported DEF Goto, Reported, InProgress
<1>7. CASE /\ Kind[t] # "ping" /\ Goto(t, "reset")
           /\ after' = [after EXCEPT ![t] = "done"]
           /\ reports' = [reports EXCEPT ![t] = @ + 1]
  BY <1>1, <1>2, <1>3, <1>7, OthersReported DEF Goto, Reported, InProgress
<1> QED BY <1>4, <1>5, <1>6, <1>7, Zenon DEF Raise, ReportFailure

(***************************************************************************)
(* Every step keeps what a task has reported in line with where it is.     *)
(***************************************************************************)
LEMMA ReportStep == Types /\ ReportInv /\ [Next]_vars => ReportInv'
<1> SUFFICES ASSUME Types, ReportInv, [Next]_vars PROVE ReportInv'
  OBVIOUS
<1>a. /\ pc \in [Tasks -> Labels] /\ after \in [Tasks -> {"get", "done"}]
      /\ gates \in [Tasks -> Nat] /\ reports \in [Tasks -> Nat]
      /\ cancels \in Nat
  BY DEF Types
<1>b. \A t \in Tasks : Reported(t)
  BY DEF ReportInv
<1>1. ASSUME NEW t \in Tasks, Refused(t) PROVE ReportInv'
  BY <1>1, <1>a, <1>b, OthersReported
    DEF Refused, Goto, historyVars, Reported, InProgress
<1>2. ASSUME NEW t \in Tasks, Gate(t) PROVE ReportInv'
  <2>1. Kind[t] # "close" /\ Kind[t] # "ping" /\ gates' = [gates EXCEPT ![t] = 1]
        /\ pc[t] = "idle" /\ Goto(t, "get") /\ UNCHANGED <<after, cancels, reports>>
    BY <1>2 DEF Gate
  <2> QED BY <2>1, <1>a, <1>b, OthersReported DEF Goto, Reported, InProgress
<1>3. ASSUME NEW t \in Tasks, Ping(t) PROVE ReportInv'
  BY <1>3, <1>a, <1>b, OthersReported
    DEF Ping, Goto, historyVars, Reported, InProgress
<1>4. ASSUME NEW t \in Tasks, CloseClient(t) PROVE ReportInv'
  BY <1>4, <1>a, <1>b, OthersReported
    DEF CloseClient, Goto, historyVars, Reported, InProgress
<1>5. ASSUME NEW t \in Tasks, UseSession(t) PROVE ReportInv'
  BY <1>5, <1>a, <1>b, OthersReported
    DEF UseSession, Goto, Reported, InProgress
<1>6. ASSUME NEW t \in Tasks, StartOpen(t) PROVE ReportInv'
  BY <1>6, <1>a, <1>b, OthersReported
    DEF StartOpen, Goto, historyVars, Reported, InProgress
<1>7. ASSUME NEW t \in Tasks, Opened(t) PROVE ReportInv'
  <2>1. /\ pc[t] = "open" /\ Goto(t, "wait")
        /\ UNCHANGED <<after, cancels, gates, reports>>
    BY <1>7 DEF Opened
  <2> QED BY <2>1, <1>a, <1>b, OthersReported DEF Goto, Reported, InProgress
<1>8. ASSUME NEW t \in Tasks, OpenFails(t) PROVE ReportInv'
  <2>1. PICK e \in Errors : Raise(t, e)
    BY <1>8 DEF OpenFails
  <2> QED BY <1>8, <2>1, RaiseReports DEF OpenFails
<1>9. ASSUME NEW t \in Tasks, Answered(t) PROVE ReportInv'
  <2>1. /\ pc[t] = "wait" /\ Goto(t, "done") /\ UNCHANGED <<after, cancels, gates>>
        /\ reports' = IF Kind[t] = "ping" THEN reports
                                          ELSE [reports EXCEPT ![t] = @ + 1]
    BY <1>9 DEF Answered
  <2>2. InProgress(t)
    BY <2>1, <1>b DEF Reported
  <2> QED BY <2>1, <2>2, <1>a, <1>b, OthersReported DEF Goto, Reported, InProgress
<1>10. ASSUME NEW t \in Tasks, RequestFails(t) PROVE ReportInv'
  <2>1. PICK e \in Errors : Raise(t, e)
    BY <1>10 DEF RequestFails
  <2> QED BY <1>10, <2>1, RaiseReports DEF RequestFails
<1>11. ASSUME NEW t \in Tasks, StartReset(t) PROVE ReportInv'
  BY <1>11, <1>a, <1>b, OthersReported
    DEF StartReset, Goto, historyVars, Reported, InProgress
<1>12. ASSUME NEW t \in Tasks, pc[t] \in {"reset", "aclose"}, ResetReturns(t),
              UNCHANGED <<after, cancels, historyVars>>
       PROVE  ReportInv'
  <2>1. pc' = [pc EXCEPT ![t] = after[t]] /\ UNCHANGED <<after, cancels, gates, reports>>
    BY <1>12 DEF ResetReturns, Goto, historyVars
  <2>2. after[t] = "get" \/ after[t] = "done"
    BY <1>a
  <2> QED BY <1>12, <2>1, <2>2, <1>a, <1>b, OthersReported DEF Reported, InProgress
<1>13. ASSUME NEW t \in Tasks, NothingToReset(t) PROVE ReportInv'
  BY <1>13, <1>12 DEF NothingToReset
<1>14. ASSUME NEW t \in Tasks, Aclosed(t) PROVE ReportInv'
  BY <1>14, <1>12 DEF Aclosed
<1>15. ASSUME NEW t \in Tasks, Cancel(t) PROVE ReportInv'
  <2>1. /\ pc' = [pc EXCEPT ![t] = "done"] /\ cancels' = cancels + 1
        /\ pc[t] \notin {"idle", "done"} /\ UNCHANGED <<after, gates, reports>>
    BY <1>15 DEF Cancel, Goto, historyVars
  <2>2. reports[t] <= gates[t]
    BY <2>1, <1>a, <1>b DEF Labels, Reported, InProgress
  <2> QED BY <2>1, <2>2, <1>a, OthersReported DEF Reported
<1>16. CASE ClockTick \/ UNCHANGED vars
  BY <1>16, <1>b DEF ClockTick, vars, taskVars, historyVars, ReportInv, Reported,
                     InProgress
<1> QED
  BY <1>1, <1>2, <1>3, <1>4, <1>5, <1>6, <1>7, <1>8, <1>9, <1>10, <1>11,
     <1>13, <1>14, <1>15, <1>16 DEF Next, Begin, Continue, Quiet

(***************************************************************************)
(* The breaker hears of every operation once, however many attempts it     *)
(* makes and whichever of the handlers of call_tool and list_tools it ends *)
(* in.                                                                     *)
(***************************************************************************)
THEOREM OutcomesReportedOnce == Spec => []ReportsOnce
<1>1. Init => ReportInv
  BY DEF Init, ReportInv, Reported, InProgress
<1>2. SessionInv => Types
  BY DEF SessionInv
<1>3. ASSUME Types, ReportInv PROVE ReportsOnce
  <2>1. ASSUME NEW t \in Tasks
        PROVE  /\ reports[t] <= gates[t]
               /\ cancels = 0 /\ pc[t] = "done" => reports[t] = gates[t]
    <3>1. pc[t] \in Labels /\ after[t] \in {"get", "done"}
          /\ gates[t] \in Nat /\ reports[t] \in Nat
      BY <1>3 DEF Types
    <3>2. Reported(t)
      BY <1>3 DEF ReportInv
    <3> QED BY <3>1, <3>2 DEF Labels, Reported, InProgress
  <2> QED BY <2>1 DEF ReportsOnce
<1> QED BY <1>1, <1>2, <1>3, SessionInvariance, ReportStep, PTL DEF Spec

-------------------------------------------------------------------------------
LEMMA BreakerTypes ==
  ASSUME BreakerTypeOK,
         BeforeCall \/ OnSuccess \/ OnFailure \/ Tick \/ UNCHANGED breakerVars
  PROVE  BreakerTypeOK'
<1> USE BreakerAssumption DEF BreakerTypeOK, CircuitState
<1>1. CASE BeforeCall
  BY <1>1 DEF BeforeCall, HalfOpen, breakerVars
<1>2. CASE OnSuccess
  BY <1>2 DEF OnSuccess, Close, breakerVars
<1>3. CASE OnFailure
  BY <1>3 DEF OnFailure, Opens
<1>4. CASE Tick
  BY <1>4 DEF Tick, CircuitOpen
<1>5. CASE UNCHANGED breakerVars
  BY <1>5 DEF breakerVars
<1> QED BY <1>1, <1>2, <1>3, <1>4, <1>5

LEMMA RaiseKeepsTypes ==
  ASSUME TypeOK, NEW t \in Tasks, NEW e \in Errors, Raise(t, e)
  PROVE  /\ BreakerTypeOK'
         /\ pc' \in [Tasks -> Labels]
         /\ attempt' \in [Tasks -> 1..MaxAttempts]
         /\ after' \in [Tasks -> {"get", "done"}]
         /\ reports' \in [Tasks -> Nat]
<1>1. OnFailure \/ UNCHANGED breakerVars
  BY Zenon DEF Raise, ReportFailure
<1>2. BreakerTypeOK'
  BY <1>1, BreakerTypes DEF TypeOK
<1>4. \/ attempt' = attempt
      \/ attempt[t] < MaxAttempts /\ attempt' = [attempt EXCEPT ![t] = @ + 1]
  BY Zenon DEF Raise
<1>5. attempt' \in [Tasks -> 1..MaxAttempts]
  <2>1. attempt \in [Tasks -> 1..MaxAttempts] /\ MaxAttempts \in Nat
    BY ClientAssumption DEF TypeOK
  <2> QED BY <1>4, <2>1
<1>6. \E l \in {"done", "reset"} : Goto(t, l)
  BY Zenon DEF Raise
<1>7. pc' \in [Tasks -> Labels]
  BY <1>6 DEF TypeOK, Labels, Goto
<1>8. \/ after' = after
      \/ after' = [after EXCEPT ![t] = "done"]
      \/ after' = [after EXCEPT ![t] = "get"]
  BY Zenon DEF Raise
<1>9. after' \in [Tasks -> {"get", "done"}]
  BY <1>8 DEF TypeOK
<1>10. reports' = reports \/ reports' = [reports EXCEPT ![t] = @ + 1]
  BY Zenon DEF Raise, ReportFailure
<1>11. reports' \in [Tasks -> Nat]
  <2>1. reports \in [Tasks -> Nat]
    BY DEF TypeOK
  <2> QED BY <1>10, <2>1
<1> QED BY <1>2, <1>5, <1>7, <1>9, <1>11

LEMMA TypeStep == TypeOK /\ [Next]_vars => TypeOK'
<1> SUFFICES ASSUME TypeOK, [Next]_vars PROVE TypeOK'
  OBVIOUS
<1>1. ASSUME NEW t \in Tasks, Begin(t) PROVE TypeOK'
  <2>1. BreakerTypeOK'
    BY <1>1, BreakerTypes
    DEF Begin, Refused, Gate, Ping, CloseClient, TypeOK
  <2>2. registered' \in BOOLEAN
    BY <1>1, Zenon DEF Begin, Refused, Gate, Ping, CloseClient, clientVars, TypeOK
  <2>3. pc' \in [Tasks -> Labels]
    BY <1>1 DEF Begin, Refused, Gate, Ping, CloseClient, Goto, Labels, TypeOK
  <2>4. gates' \in [Tasks -> 0..1]
    BY <1>1 DEF Begin, Refused, Gate, Ping, CloseClient, historyVars, TypeOK
  <2>5. UNCHANGED <<session, stack, lock, live, abandoned, attempt, after, cancels,
                    reports>>
    BY <1>1 DEF Begin, Refused, Gate, Ping, CloseClient, clientVars, historyVars
  <2> QED BY <2>1, <2>2, <2>3, <2>4, <2>5 DEF TypeOK, Labels
<1>2. ASSUME NEW t \in Tasks, UseSession(t) PROVE TypeOK'
  <2>1. BreakerTypeOK'
    BY <1>2, BreakerTypes DEF UseSession, TypeOK
  <2> QED BY <1>2, <2>1 DEF UseSession, Goto, clientVars, TypeOK
<1>3. ASSUME NEW t \in Tasks, StartOpen(t) \/ StartReset(t) PROVE TypeOK'
  <2>1. BreakerTypeOK'
    BY <1>3, BreakerTypes DEF StartOpen, StartReset, TypeOK
  <2> QED BY <1>3, <2>1 DEF StartOpen, StartReset, Goto, historyVars, TypeOK
<1>4. ASSUME NEW t \in Tasks, Opened(t) PROVE TypeOK'
  <2>1. BreakerTypeOK'
    BY <1>4, BreakerTypes DEF Opened, TypeOK
  <2>2. session' \in Sessions /\ stack' \in Sessions /\ live' \subseteq Sessions
    BY <1>4 DEF Opened, NewName, TypeOK
  <2> QED BY <1>4, <2>1, <2>2 DEF Opened, Goto, TypeOK
<1>5. ASSUME NEW t \in Tasks, OpenFails(t) \/ RequestFails(t) PROVE TypeOK'
  <2>1. PICK e \in Errors : Raise(t, e)
    BY <1>5 DEF OpenFails, RequestFails
  <2>2. /\ BreakerTypeOK' /\ pc' \in [Tasks -> Labels]
        /\ attempt' \in [Tasks -> 1..MaxAttempts]
        /\ after' \in [Tasks -> {"get", "done"}]
        /\ reports' \in [Tasks -> Nat]
    BY <2>1, RaiseKeepsTypes
  <2>3. /\ lock' \in {lock, None}
        /\ LeavesNothing \/ LeavesOpen
        /\ UNCHANGED <<session, stack, registered, cancels, gates>>
    BY <1>5 DEF OpenFails, RequestFails, clientVars, LeavesNothing
  <2>4. live' \subseteq Sessions /\ abandoned' \subseteq Sessions
    BY <2>3 DEF LeavesNothing, LeavesOpen, NewName, TypeOK
  <2> QED BY <2>2, <2>3, <2>4 DEF TypeOK, Labels
<1>6. ASSUME NEW t \in Tasks, Answered(t) PROVE TypeOK'
  <2>1. BreakerTypeOK'
    BY <1>6, BreakerTypes DEF Answered, TypeOK
  <2>2. reports' \in [Tasks -> Nat]
    BY <1>6 DEF Answered, TypeOK
  <2> QED BY <1>6, <2>1, <2>2 DEF Answered, Goto, clientVars, TypeOK
<1>7. ASSUME NEW t \in Tasks, NothingToReset(t) \/ Aclosed(t) PROVE TypeOK'
  <2>1. BreakerTypeOK'
    BY <1>7, BreakerTypes DEF NothingToReset, Aclosed, TypeOK
  <2>2. registered' \in BOOLEAN
    BY <1>7 DEF NothingToReset, Aclosed, ResetReturns
  <2> QED BY <1>7, <2>1, <2>2
        DEF NothingToReset, Aclosed, ResetReturns, Goto, historyVars, TypeOK
<1>8. ASSUME NEW t \in Tasks, Cancel(t) PROVE TypeOK'
  <2>1. BreakerTypeOK'
    BY <1>8, BreakerTypes DEF Cancel, TypeOK
  <2>2. cancels' \in 0..MaxCancels
    BY <1>8, ClientAssumption DEF Cancel, TypeOK
  <2>3. live' \subseteq Sessions /\ abandoned' \subseteq Sessions
    BY <1>8 DEF Cancel, LeavesNothing, LeavesOpen, NewName, TypeOK
  <2>4. /\ lock' \in {lock, None} /\ Goto(t, "done")
        /\ UNCHANGED <<session, stack, registered, attempt, after, historyVars>>
    BY <1>8 DEF Cancel
  <2> QED BY <2>1, <2>2, <2>3, <2>4 DEF Goto, historyVars, TypeOK
<1>9. CASE ClockTick
  <2>1. BreakerTypeOK'
    BY <1>9, BreakerTypes DEF ClockTick, TypeOK
  <2> QED BY <1>9, <2>1 DEF ClockTick, clientVars, taskVars, historyVars, TypeOK
<1>10. CASE UNCHANGED vars
  <2>1. BreakerTypeOK'
    BY <1>10, BreakerTypes DEF vars, TypeOK
  <2> QED BY <1>10, <2>1 DEF vars, clientVars, taskVars, historyVars, TypeOK
<1> QED
  BY <1>1, <1>2, <1>3, <1>4, <1>5, <1>6, <1>7, <1>8, <1>9, <1>10
  DEF Next, Continue, Quiet

(***************************************************************************)
(* Type correctness of the client; in particular no operation makes more   *)
(* than MaxAttempts attempts or passes the breaker twice.                  *)
(***************************************************************************)
THEOREM TypeCorrect == Spec => []TypeOK
<1>1. Init => TypeOK
  <2> SUFFICES ASSUME Init PROVE TypeOK
    OBVIOUS
  <2>1. BreakerTypeOK
    BY BreakerAssumption DEF Init, BreakerInit, BreakerTypeOK, CircuitState
  <2> QED BY <2>1, ClientAssumption DEF Init, TypeOK
<1> QED BY <1>1, TypeStep, PTL DEF Spec

-------------------------------------------------------------------------------
(***************************************************************************)
(* What relates the breaker's counters to the reported outcomes.  A closed *)
(* circuit counts exactly the current run of failures, and the run is      *)
(* short; a half-open circuit counts only successes of the current run.    *)
(* Neither holds of an open circuit, whose counters keep moving while      *)
(* earlier calls report.                                                   *)
(***************************************************************************)
CountersFollowRuns ==
  /\ state = "CLOSED" => failures = failRun
  /\ state = "HALF_OPEN" => probeOk <= okRun

GateInv == GateTypeOK /\ CountersFollowRuns /\ ClosedBelowThreshold

LEMMA GateInitially == GateInit => GateInv
BY BreakerAssumption, FaultsAssumption
   DEF GateInit, BreakerInit, GateInv, GateTypeOK, BreakerTypeOK, CircuitState,
       CountersFollowRuns, ClosedBelowThreshold

(***************************************************************************)
(* Every step of concurrent calls and of the clock keeps the invariant.    *)
(***************************************************************************)
LEMMA GateStep == GateInv /\ [GateNext]_gateVars => GateInv'
<1> SUFFICES ASSUME GateInv, [GateNext]_gateVars PROVE GateInv'
  OBVIOUS
<1> USE BreakerAssumption, FaultsAssumption
<1> USE DEF GateInv, GateTypeOK, BreakerTypeOK, CircuitState, CountersFollowRuns,
            ClosedBelowThreshold, breakerVars
<1>1. ASSUME NEW c \in Calls, Admit(c) PROVE GateInv'
  <2>1. CASE state = "OPEN"
    BY <1>1, <2>1 DEF Admit, BeforeCall, CircuitOpen, HalfOpen
  <2>2. CASE state # "OPEN"
    BY <1>1, <2>2 DEF Admit, BeforeCall, CircuitOpen
  <2>3. QED BY <2>1, <2>2
<1>2. ASSUME NEW c \in Calls, Succeed(c) PROVE GateInv'
  <2> USE <1>2 DEF Succeed, Ends, OnSuccess, Close
  <2>1. CASE state = "HALF_OPEN"
    BY <2>1
  <2>2. CASE state = "CLOSED"
    BY <2>2
  <2>3. CASE state = "OPEN"
    BY <2>3
  <2>4. QED BY <2>1, <2>2, <2>3
<1>3. ASSUME NEW c \in Calls, Fail(c) PROVE GateInv'
  <2> USE <1>3 DEF Fail, Ends, OnFailure, Opens
  <2>1. CASE state = "HALF_OPEN"
    BY <2>1
  <2>2. CASE state = "CLOSED"
    BY <2>2
  <2>3. CASE state = "OPEN"
    BY <2>3
  <2>4. QED BY <2>1, <2>2, <2>3
<1>4. ASSUME NEW c \in Calls, Cancelled(c) PROVE GateInv'
  BY <1>4 DEF Cancelled, Ends
<1>5. CASE GateTick
  BY <1>5 DEF GateTick, Tick, CircuitOpen
<1>6. CASE UNCHANGED gateVars
  BY <1>6 DEF gateVars
<1>7. QED BY <1>1, <1>2, <1>3, <1>4, <1>5, <1>6 DEF GateNext

THEOREM GateInvariance == GateSpec => []GateInv
BY GateInitially, GateStep, PTL DEF GateSpec

(***************************************************************************)
(* The breaker's fields keep their types whatever overlapping calls        *)
(* report: CircuitBreaker's operations are closed under every interleaving.*)
(***************************************************************************)
THEOREM GateTypeCorrect == GateSpec => []GateTypeOK
<1>1. GateInv => GateTypeOK
  BY DEF GateInv
<1>2. QED BY <1>1, GateInvariance, PTL

(***************************************************************************)
(* No interleaving of late reports leaves the circuit closed after         *)
(* FailureThreshold failures in a row.                                     *)
(***************************************************************************)
THEOREM ClosedIsHealthy == GateSpec => []ClosedBelowThreshold
<1>1. GateInv => ClosedBelowThreshold
  BY DEF GateInv
<1>2. QED BY <1>1, GateInvariance, PTL

(***************************************************************************)
(* on_failure opens a closed circuit only at the end of a run of           *)
(* FailureThreshold failures.                                              *)
(***************************************************************************)
THEOREM TripsCorrectly == GateSpec => TripsOnlyOnFailureRun
<1>1. GateInv /\ [GateNext]_gateVars =>
        [state = "CLOSED" /\ state' = "OPEN" => failRun' >= FailureThreshold]_gateVars
  <2> SUFFICES ASSUME GateInv, GateNext, state = "CLOSED", state' = "OPEN"
               PROVE  failRun' >= FailureThreshold
    OBVIOUS
  <2> USE BreakerAssumption
          DEF GateInv, GateTypeOK, BreakerTypeOK, CountersFollowRuns, breakerVars
  <2>1. ASSUME NEW c \in Calls, Fail(c) PROVE failRun' >= FailureThreshold
    BY <2>1 DEF Fail, OnFailure, Opens
  <2>2. ASSUME NEW c \in Calls, Admit(c) \/ Succeed(c) \/ Cancelled(c)
        PROVE  FALSE
    BY <2>2 DEF Admit, Succeed, Cancelled, BeforeCall, OnSuccess
  <2>3. ~GateTick
    BY DEF GateTick, Tick, CircuitOpen
  <2>4. QED BY <2>1, <2>2, <2>3 DEF GateNext
<1>2. QED BY <1>1, GateInvariance, PTL DEF GateSpec, TripsOnlyOnFailureRun

(***************************************************************************)
(* on_success closes a half-open circuit, and no other, only at the end of *)
(* a run of ProbeSuccesses successes.                                      *)
(***************************************************************************)
THEOREM ClosesCorrectly == GateSpec => ClosesOnlyOnProbeRun
<1>1. GateInv /\ [GateNext]_gateVars =>
        [state # "CLOSED" /\ state' = "CLOSED" =>
           state = "HALF_OPEN" /\ okRun' >= ProbeSuccesses]_gateVars
  <2> SUFFICES ASSUME GateInv, GateNext, state # "CLOSED", state' = "CLOSED"
               PROVE  state = "HALF_OPEN" /\ okRun' >= ProbeSuccesses
    OBVIOUS
  <2> USE BreakerAssumption
          DEF GateInv, GateTypeOK, BreakerTypeOK, CircuitState, CountersFollowRuns,
              breakerVars
  <2>1. ASSUME NEW c \in Calls, Succeed(c)
        PROVE  state = "HALF_OPEN" /\ okRun' >= ProbeSuccesses
    BY <2>1 DEF Succeed, OnSuccess, Close
  <2>2. ASSUME NEW c \in Calls, Admit(c) \/ Fail(c) \/ Cancelled(c)
        PROVE  FALSE
    BY <2>2 DEF Admit, Fail, Cancelled, BeforeCall, HalfOpen, OnFailure, Opens
  <2>3. ~GateTick
    BY DEF GateTick, Tick
  <2>4. QED BY <2>1, <2>2, <2>3 DEF GateNext
<1>2. QED BY <1>1, GateInvariance, PTL DEF GateSpec, ClosesOnlyOnProbeRun

(***************************************************************************)
(* Late reports neither shorten nor extend the refusal period that         *)
(* before_call enforces.                                                   *)
(***************************************************************************)
THEOREM RefusalPeriodIsFixed == GateSpec => OpenPeriodIsFixed
<1> DEFINE Fixed == \/ state' = "OPEN" /\ elapsed' >= elapsed
                    \/ state' = "HALF_OPEN" /\ elapsed = RecoveryTimeout
<1>1. GateInv /\ [GateNext]_gateVars => [state = "OPEN" => Fixed]_gateVars
  <2> SUFFICES ASSUME GateInv, GateNext, state = "OPEN" PROVE Fixed
    OBVIOUS
  <2> USE BreakerAssumption DEF GateInv, GateTypeOK, BreakerTypeOK, breakerVars
  <2>1. ASSUME NEW c \in Calls, Admit(c) PROVE Fixed
    BY <2>1 DEF Admit, BeforeCall, CircuitOpen, HalfOpen
  <2>2. ASSUME NEW c \in Calls, Succeed(c) \/ Fail(c) \/ Cancelled(c) PROVE Fixed
    BY <2>2 DEF Succeed, Fail, Cancelled, OnSuccess, OnFailure
  <2>3. CASE GateTick
    BY <2>3 DEF GateTick, Tick
  <2>4. QED BY <2>1, <2>2, <2>3 DEF GateNext
<1>2. QED BY <1>1, GateInvariance, PTL DEF GateSpec, OpenPeriodIsFixed
===============================================================================
