------------------------------- MODULE LossyLog -------------------------------
(***************************************************************************)
(* What the audit trail promises its readers: an append-only log of the    *)
(* submitted records, in the order of submission and without duplicates.   *)
(* Records may be refused on submission, and pending ones may be given up, *)
(* but only oldest first: the log never skips back.                        *)
(***************************************************************************)
EXTENDS Naturals, Sequences

VARIABLES
  log,         \* the records written, for ever
  pending,     \* the records accepted and neither written nor given up
  submitted    \* number of records submitted; a record is its number

logVars == <<log, pending, submitted>>

Init == log = <<>> /\ pending = <<>> /\ submitted = 0

Accept ==
  /\ submitted' = submitted + 1
  /\ pending' = Append(pending, submitted')
  /\ UNCHANGED log

Refuse ==
  /\ submitted' = submitted + 1
  /\ UNCHANGED <<log, pending>>

(***************************************************************************)
(* The oldest `gone' pending records are settled: `written' of them are    *)
(* written, the others are given up.                                       *)
(***************************************************************************)
Settle(written, gone) ==
  /\ log' = log \o SubSeq(pending, 1, written)
  /\ pending' = SubSeq(pending, gone + 1, Len(pending))
  /\ UNCHANGED submitted

Next ==
  \/ Accept
  \/ Refuse
  \/ \E gone \in 0..Len(pending) : \E written \in 0..gone : Settle(written, gone)

Spec == Init /\ [][Next]_logVars
===============================================================================
