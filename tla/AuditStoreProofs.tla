---------------------------- MODULE AuditStoreProofs ----------------------------
(***************************************************************************)
(* For every queue size, batch size and number of records and faults: the  *)
(* store implements LossyLog, its rows stay in the order of recording, and *)
(* every entry is in exactly one place.                                    *)
(*                                                                         *)
(* At most one task is inside _flush (Exclusive), so that every step does  *)
(* one of a few things to the three sequences db, InFlush and queue        *)
(* (LogMove).  Each of these is a step of LossyLog or a stutter, keeps the *)
(* order of db \o InFlush \o queue, and, because entries in order are      *)
(* distinct, keeps the account.                                            *)
(***************************************************************************)
EXTENDS AuditStore, SequenceTheorems, TLAPS

Exclusive ==
  /\ phase \in {"running", "cancelling", "stopped", "crashed"} => batch["stop"] = <<>>
  /\ phase \in {"flushing", "stopped", "crashed"} => batch["consumer"] = <<>>

Shape == TypeOK /\ Exclusive

LEMMA ShapeInit == Init => Shape
<1> SUFFICES ASSUME Init PROVE Shape
  OBVIOUS
<1>1. <<>> \in Seq(1..recorded) /\ Len(<<>>) = 0
  BY EmptySeq
<1>2. \A t \in Flushers : batch[t] = <<>>
  BY DEF Init
<1>3. batch \in [Flushers -> Seq(1..recorded)]
  BY <1>1 DEF Init
<1>4. TypeOK
  BY <1>1, <1>2, <1>3, AuditAssumption DEF Init, TypeOK, Phases
<1>5. Exclusive
  BY <1>2 DEF Exclusive, Flushers
<1> QED
  BY <1>4, <1>5 DEF Shape

(***************************************************************************)
(* _flush takes a prefix of the queue, of a batch's size at most.          *)
(***************************************************************************)
LEMMA BatchTaken ==
  ASSUME TypeOK, NEW t \in Flushers, TakeBatch(t)
  PROVE  /\ BatchLen \in 0..Len(queue) /\ BatchLen <= Batch
         /\ SubSeq(queue, 1, BatchLen) \in Seq(1..recorded)
         /\ Len(SubSeq(queue, 1, BatchLen)) = BatchLen
         /\ queue' \in Seq(1..recorded) /\ Len(queue') = Len(queue) - BatchLen
         /\ SubSeq(queue, 1, BatchLen) \o queue' = queue
<1>1. queue \in Seq(1..recorded) /\ Len(queue) \in Nat
  BY DEF TypeOK
<1>2. BatchLen \in 0..Len(queue) /\ BatchLen <= Batch
  BY <1>1, AuditAssumption DEF BatchLen
<1>3. \A i \in 1..Len(queue) : queue[i] \in 1..recorded
  BY <1>1, ElementOfSeq
<1>4. /\ SubSeq(queue, 1, BatchLen) \in Seq(1..recorded)
      /\ Len(SubSeq(queue, 1, BatchLen)) = BatchLen
  <2>1. \A i \in 1..BatchLen : queue[i] \in 1..recorded
    BY <1>1, <1>2, <1>3
  <2>2. BatchLen \in Int /\ 1 \in Int
    BY <1>2
  <2>3. /\ SubSeq(queue, 1, BatchLen) \in Seq(1..recorded)
        /\ Len(SubSeq(queue, 1, BatchLen)) =
             IF 1 <= BatchLen THEN BatchLen - 1 + 1 ELSE 0
    BY <2>1, <2>2, SubSeqProperties
  <2> QED
    BY <1>2, <2>3
<1>5. queue' \in Seq(1..recorded) /\ Len(queue') = Len(queue) - BatchLen
  <2>1. \A i \in (BatchLen + 1)..Len(queue) : queue[i] \in 1..recorded
    BY <1>1, <1>2, <1>3
  <2>2. BatchLen + 1 \in Int /\ Len(queue) \in Int
    BY <1>1, <1>2
  <2>3. /\ SubSeq(queue, BatchLen + 1, Len(queue)) \in Seq(1..recorded)
        /\ Len(SubSeq(queue, BatchLen + 1, Len(queue))) =
             IF BatchLen + 1 <= Len(queue) THEN Len(queue) - (BatchLen + 1) + 1 ELSE 0
    BY <2>1, <2>2, SubSeqProperties
  <2> QED
    BY <1>1, <1>2, <2>3 DEF TakeBatch
<1>6. SubSeq(queue, 1, BatchLen) \o queue' = queue
  <2>1. /\ 1 \in 1..(Len(queue) + 1) /\ BatchLen \in (1 - 1)..Len(queue)
        /\ Len(queue) \in BatchLen..Len(queue)
    BY <1>1, <1>2
  <2>2. SubSeq(queue, 1, BatchLen) \o SubSeq(queue, BatchLen + 1, Len(queue))
          = SubSeq(queue, 1, Len(queue))
    BY <1>1, <2>1, ConcatAdjacentSubSeq
  <2> QED
    BY <1>1, <2>2, SubSeqFull DEF TakeBatch
<1> QED
  BY <1>2, <1>4, <1>5, <1>6

LEMMA TypeStep == Shape /\ [Next]_vars => TypeOK'
<1> SUFFICES ASSUME Shape, [Next]_vars PROVE TypeOK'
  OBVIOUS
<1> USE AuditAssumption DEF Shape
<1>e. <<>> \in Seq(1..recorded) /\ Len(<<>>) = 0
  BY EmptySeq
<1>f. \A t \in Flushers : Range(batch[t]) \subseteq 1..recorded /\ batch[t] \in Seq(1..recorded)
  BY RangeOfSeq DEF TypeOK
<1>g. ASSUME NEW t \in Flushers, batch' = [batch EXCEPT ![t] = <<>>], recorded' = recorded
      PROVE  /\ batch' \in [Flushers -> Seq(1..recorded')]
             /\ \A u \in Flushers : Len(batch'[u]) <= Batch
  BY <1>e, <1>g DEF TypeOK
<1>h. ASSUME NEW b \in Seq(1..recorded), Abandon(b)
      PROVE  db' \in Seq(1..recorded) /\ lost' \subseteq 1..recorded
  <2>1. db \in Seq(1..recorded) /\ lost \subseteq 1..recorded
    BY DEF TypeOK
  <2>2. db \o b \in Seq(1..recorded) /\ Range(b) \subseteq 1..recorded
    BY <2>1, ConcatProperties, RangeOfSeq
  <2> QED
    BY <1>h, <2>1, <2>2 DEF Abandon
<1>1. CASE Record
  <2>1. recorded \in Nat /\ recorded' = recorded + 1 /\ recorded' \in 0..MaxRecords
    BY <1>1 DEF Record, TypeOK
  <2>2. 1..recorded \subseteq 1..recorded' /\ recorded' \in 1..recorded'
    BY <2>1
  <2>3. /\ queue \in Seq(1..recorded') /\ db \in Seq(1..recorded')
        /\ \A t \in Flushers : batch[t] \in Seq(1..recorded')
    BY <1>f, <2>2, SeqMonotonic DEF TypeOK
  <2>4. queue' \in Seq(1..recorded') /\ Len(queue') <= QueueSize
    <3>1. Append(queue, recorded') \in Seq(1..recorded')
          /\ Len(Append(queue, recorded')) = Len(queue) + 1
      BY <2>2, <2>3, AppendProperties
    <3>2. Len(queue) \in Nat /\ Len(queue) <= QueueSize
      BY <2>3, LenProperties DEF TypeOK
    <3>3. \/ Len(queue) < QueueSize /\ queue' = Append(queue, recorded')
          \/ queue' = queue
      BY <1>1 DEF Record
    <3>4. CASE Len(queue) < QueueSize /\ queue' = Append(queue, recorded')
      <4>1. Len(queue) + 1 <= QueueSize
        BY <3>2, <3>4
      <4> QED
        BY <3>1, <3>4, <4>1
    <3>5. CASE queue' = queue
      BY <2>3, <3>2, <3>5
    <3> QED
      BY <3>3, <3>4, <3>5
  <2>5. batch' \in [Flushers -> Seq(1..recorded')]
    BY <1>1, <2>3 DEF Record, TypeOK
  <2>6. dropped' \subseteq 1..recorded' /\ lost' \subseteq 1..recorded'
    BY <1>1, <2>2 DEF Record, TypeOK
  <2>7. atStop' \in 0..recorded'
    BY <1>1, <2>1 DEF Record, TypeOK
  <2> QED
    BY <1>1, <2>1, <2>3, <2>4, <2>5, <2>6, <2>7 DEF Record, TypeOK
<1>2. ASSUME NEW t \in Flushers, TakeBatch(t), recorded' = recorded
      PROVE  /\ batch' \in [Flushers -> Seq(1..recorded')]
             /\ \A u \in Flushers : Len(batch'[u]) <= Batch
             /\ queue' \in Seq(1..recorded') /\ Len(queue') <= QueueSize
  <2>1. batch' = [batch EXCEPT ![t] = SubSeq(queue, 1, BatchLen)]
    BY <1>2 DEF TakeBatch
  <2>2. SubSeq(queue, 1, BatchLen) \in Seq(1..recorded)
        /\ Len(SubSeq(queue, 1, BatchLen)) <= Batch
    BY <1>2, BatchTaken
  <2>3. queue' \in Seq(1..recorded') /\ Len(queue') <= QueueSize
    BY <1>2, BatchTaken DEF TypeOK
  <2> HIDE DEF BatchLen
  <2> QED
    BY <1>2, <2>1, <2>2, <2>3 DEF TypeOK
<1>3. CASE ConsumerFlush
  BY <1>2, <1>3 DEF ConsumerFlush, TypeOK, Flushers
<1>4. CASE StopFlush
  BY <1>2, <1>4 DEF StopFlush, TypeOK, Flushers, Phases
<1>5. ASSUME NEW t \in Flushers, Commit(t) PROVE TypeOK'
  <2>1. db' \in Seq(1..recorded)
    BY <1>5, <1>f, ConcatProperties DEF Commit, TypeOK
  <2> QED
    BY <1>5, <1>g, <2>1 DEF Commit, TypeOK, Phases
<1>6. ASSUME NEW t \in Flushers, CommitFails(t) PROVE TypeOK'
  <2>1. db' \in Seq(1..recorded) /\ lost' \subseteq 1..recorded
    BY <1>6, <1>f, <1>h DEF CommitFails
  <2> QED
    BY <1>6, <1>g, <2>1 DEF CommitFails, TypeOK, Phases
<1>7. CASE Stop
  BY <1>7 DEF Stop, TypeOK, Phases
<1>8. CASE ConsumerCancelled
  <2>1. db' \in Seq(1..recorded) /\ lost' \subseteq 1..recorded
    BY <1>8, <1>f, <1>h DEF ConsumerCancelled, Flushers
  <2>2. "consumer" \in Flushers
    BY DEF Flushers
  <2> QED
    BY <1>8, <1>g, <2>1, <2>2 DEF ConsumerCancelled, TypeOK, Phases
<1>9. CASE Crash
  <2>1. InFlush \in Seq(1..recorded) /\ queue \in Seq(1..recorded)
    BY <1>f, ConcatProperties DEF InFlush, Flushers, TypeOK
  <2>2. Pending \in Seq(1..recorded)
    BY <2>1, ConcatProperties DEF Pending
  <2>3. db \o InFlush \in Seq(1..recorded)
    BY <2>1, ConcatProperties DEF TypeOK
  <2>4. Range(queue) \subseteq 1..recorded /\ Range(Pending) \subseteq 1..recorded
    BY <2>1, <2>2, RangeOfSeq
  <2>5. db' \in Seq(1..recorded) /\ lost' \subseteq 1..recorded
    BY <1>9, <2>3, <2>4 DEF Crash, TypeOK
  <2>6. batch' \in [Flushers -> Seq(1..recorded)] /\ \A t \in Flushers : Len(batch'[t]) <= Batch
    BY <1>9, <1>e DEF Crash
  <2> QED
    BY <1>9, <1>e, <2>5, <2>6 DEF Crash, TypeOK, Phases
<1>10. CASE Start
  BY <1>10 DEF Start, TypeOK, Phases
<1>11. CASE UNCHANGED vars
  BY <1>11 DEF vars, TypeOK
<1> QED
  BY <1>1, <1>3, <1>4, <1>5, <1>6, <1>7, <1>8, <1>9, <1>10, <1>11 DEF Next

LEMMA ExclusiveStep == Shape /\ [Next]_vars => Exclusive'
<1> SUFFICES ASSUME Shape, [Next]_vars PROVE Exclusive'
  OBVIOUS
<1> USE DEF Shape
<1>1. "consumer" \in Flushers /\ "stop" \in Flushers /\ DOMAIN batch = Flushers
  BY DEF Flushers, TypeOK
<1>2. phase \in {"running", "cancelling", "flushing", "stopped", "crashed"}
  BY DEF TypeOK, Phases
<1>3. CASE Record \/ Stop \/ Start \/ UNCHANGED vars
  BY <1>3 DEF Record, Stop, Start, vars, Exclusive
<1>4. CASE ConsumerFlush
  BY <1>1, <1>4 DEF ConsumerFlush, TakeBatch, Exclusive
<1>5. CASE StopFlush
  <2>1. CASE queue = <<>>
    <3>1. batch'["stop"] = <<>>
      <4>1. BatchLen = 0
        BY <2>1, AuditAssumption DEF BatchLen
      <4>2. SubSeq(queue, 1, BatchLen) = <<>>
        BY <4>1, SubSeqEmpty
      <4> QED
        BY <1>1, <1>5, <4>2 DEF StopFlush, TakeBatch
    <3> QED
      BY <1>1, <1>5, <3>1 DEF StopFlush, TakeBatch, Exclusive
  <2>2. CASE queue # <<>>
    BY <1>1, <1>5, <2>2 DEF StopFlush, TakeBatch, Exclusive
  <2> QED
    BY <2>1, <2>2
<1>6. ASSUME NEW t \in Flushers, Commit(t) PROVE Exclusive'
  BY <1>1, <1>2, <1>6 DEF Commit, Exclusive, Flushers
<1>7. ASSUME NEW t \in Flushers, CommitFails(t) PROVE Exclusive'
  BY <1>1, <1>2, <1>7 DEF CommitFails, Exclusive, Flushers
<1>8. CASE ConsumerCancelled
  BY <1>1, <1>8 DEF ConsumerCancelled, Exclusive
<1>9. CASE Crash
  BY <1>1, <1>9 DEF Crash, Exclusive
<1> QED
  BY <1>3, <1>4, <1>5, <1>6, <1>7, <1>8, <1>9 DEF Next

LEMMA ShapeInvariance == Spec => []Shape
<1>1. Shape /\ [Next]_vars => Shape'
  BY TypeStep, ExclusiveStep DEF Shape
<1> QED
  BY <1>1, ShapeInit, PTL DEF Spec

(***************************************************************************)
(* Type correctness of the store; in particular neither the queue nor a    *)
(* batch outgrows its bound.                                               *)
(***************************************************************************)
THEOREM TypeCorrect == Spec => []TypeOK
<1>1. Shape => TypeOK
  BY DEF Shape
<1> QED
  BY <1>1, ShapeInvariance, PTL

-------------------------------------------------------------------------------
(***************************************************************************)
(* What a step does to the three sequences and to the account of entries   *)
(* that are in none of them.                                               *)
(***************************************************************************)
Accepts ==
  /\ recorded' = recorded + 1 /\ queue' = Append(queue, recorded + 1)
  /\ UNCHANGED <<db, InFlush, dropped, lost>>

Refuses ==
  /\ recorded' = recorded + 1 /\ dropped' = dropped \union {recorded + 1}
  /\ UNCHANGED <<db, InFlush, queue, lost>>

Keeps == UNCHANGED <<db, Pending, recorded, dropped, lost>>

Writes ==
  /\ db' = db \o InFlush /\ Pending' = queue
  /\ UNCHANGED <<recorded, dropped, lost>>

GivesUp ==
  /\ lost' = lost \union Range(InFlush) /\ Pending' = queue
  /\ UNCHANGED <<db, recorded, dropped>>

DiesWriting ==
  /\ db' = db \o InFlush /\ Pending' = <<>> /\ lost' = lost \union Range(queue)
  /\ UNCHANGED <<recorded, dropped>>

Dies ==
  /\ Pending' = <<>> /\ lost' = lost \union Range(Pending)
  /\ UNCHANGED <<db, recorded, dropped>>

LogMove == Accepts \/ Refuses \/ Keeps \/ Writes \/ GivesUp \/ DiesWriting \/ Dies

LEMMA SequenceTypes ==
  ASSUME Shape
  PROVE  /\ db \in Seq(Nat) /\ queue \in Seq(Nat) /\ InFlush \in Seq(Nat)
         /\ Pending \in Seq(Nat)
         /\ batch["consumer"] \in Seq(Nat) /\ batch["stop"] \in Seq(Nat)
         /\ recorded \in Nat
<1>1. recorded \in Nat /\ 1..recorded \subseteq Nat
  BY DEF Shape, TypeOK
<1>2. /\ db \in Seq(Nat) /\ queue \in Seq(Nat)
      /\ batch["consumer"] \in Seq(Nat) /\ batch["stop"] \in Seq(Nat)
  BY <1>1, SeqMonotonic DEF Shape, TypeOK, Flushers
<1>3. InFlush \in Seq(Nat)
  BY <1>2, ConcatProperties DEF InFlush
<1>4. Pending \in Seq(Nat)
  BY <1>2, <1>3, ConcatProperties DEF Pending
<1> QED
  BY <1>1, <1>2, <1>3, <1>4

(***************************************************************************)
(* A task inside _flush is alone there, and leaves nothing behind.         *)
(***************************************************************************)
LEMMA AloneInFlush ==
  ASSUME Shape, NEW t \in Flushers,
         batch[t] # <<>> \/ (t = "consumer" /\ phase = "cancelling"),
         batch' = [batch EXCEPT ![t] = <<>>], queue' = queue
  PROVE  InFlush = batch[t] /\ InFlush' = <<>> /\ Pending' = queue
<1>1. /\ queue \in Seq(Nat)
      /\ batch["consumer"] \in Seq(Nat) /\ batch["stop"] \in Seq(Nat)
  BY SequenceTypes
<1>2. phase \in {"running", "cancelling", "flushing", "stopped", "crashed"}
      /\ DOMAIN batch = Flushers
  BY DEF Shape, TypeOK, Phases
<1>3. CASE t = "consumer"
  <2>1. batch["stop"] = <<>>
    BY <1>2, <1>3 DEF Shape, Exclusive
  <2>2. InFlush = batch[t]
    BY <1>1, <1>3, <2>1, ConcatEmptySeq DEF InFlush
  <2>3. InFlush' = <<>>
    BY <1>2, <1>3, <2>1 DEF InFlush, Flushers
  <2> QED
    BY <1>1, <2>2, <2>3, ConcatEmptySeq DEF Pending
<1>4. CASE t = "stop"
  <2>1. batch["consumer"] = <<>>
    BY <1>2, <1>4 DEF Shape, Exclusive
  <2>2. InFlush = batch[t]
    BY <1>1, <1>4, <2>1, ConcatEmptySeq DEF InFlush
  <2>3. InFlush' = <<>>
    BY <1>2, <1>4, <2>1 DEF InFlush, Flushers
  <2> QED
    BY <1>1, <2>2, <2>3, ConcatEmptySeq DEF Pending
<1> QED
  BY <1>3, <1>4 DEF Flushers

(***************************************************************************)
(* Taking a batch moves entries from the queue to the task, in order.      *)
(***************************************************************************)
LEMMA TakingKeepsPending ==
  ASSUME Shape, NEW t \in Flushers, TakeBatch(t),
         batch["consumer"] = <<>>, batch["stop"] = <<>>
  PROVE  Pending' = Pending
<1> DEFINE b == SubSeq(queue, 1, BatchLen)
<1>1. b \in Seq(Nat) /\ b \o queue' = queue /\ queue \in Seq(Nat)
  <2>1. b \in Seq(1..recorded) /\ b \o queue' = queue
    BY BatchTaken DEF Shape
  <2>2. 1..recorded \subseteq Nat
    OBVIOUS
  <2> QED
    BY <2>1, <2>2, SeqMonotonic, SequenceTypes
<1>2. batch' = [batch EXCEPT ![t] = b] /\ DOMAIN batch = Flushers
  BY DEF TakeBatch, Shape, TypeOK
<1> HIDE DEF b
<1>3. InFlush' = b
  <2>1. CASE t = "consumer"
    <3>1. batch'["consumer"] = b /\ batch'["stop"] = <<>>
      BY <1>2, <2>1 DEF Flushers
    <3> QED
      BY <1>1, <3>1, ConcatEmptySeq DEF InFlush
  <2>2. CASE t = "stop"
    <3>1. batch'["stop"] = b /\ batch'["consumer"] = <<>>
      BY <1>2, <2>2 DEF Flushers
    <3> QED
      BY <1>1, <3>1, ConcatEmptySeq DEF InFlush
  <2> QED
    BY <2>1, <2>2 DEF Flushers
<1>4. Pending = queue
  <2>1. InFlush = <<>>
    BY DEF InFlush
  <2> QED
    BY <1>1, <2>1, ConcatEmptySeq DEF Pending
<1> QED
  BY <1>1, <1>3, <1>4 DEF Pending

LEMMA StepIsMove == Shape /\ [Next]_vars => LogMove
<1> SUFFICES ASSUME Shape, [Next]_vars PROVE LogMove
  OBVIOUS
<1>1. CASE Record
  <2>1. UNCHANGED <<db, InFlush, lost>>
    BY <1>1 DEF Record, InFlush
  <2> QED
    BY <1>1, <2>1 DEF Record, LogMove, Accepts, Refuses
<1>2. CASE ConsumerFlush
  <2>1. batch["consumer"] = <<>> /\ batch["stop"] = <<>> /\ TakeBatch("consumer")
    BY <1>2 DEF ConsumerFlush, Shape, Exclusive
  <2>2. "consumer" \in Flushers
    BY DEF Flushers
  <2> QED
    BY <1>2, <2>1, <2>2, TakingKeepsPending DEF ConsumerFlush, LogMove, Keeps
<1>3. CASE StopFlush
  <2>1. batch["consumer"] = <<>> /\ batch["stop"] = <<>> /\ TakeBatch("stop")
    BY <1>3 DEF StopFlush, Shape, Exclusive
  <2>2. "stop" \in Flushers
    BY DEF Flushers
  <2> QED
    BY <1>3, <2>1, <2>2, TakingKeepsPending DEF StopFlush, LogMove, Keeps
<1>4. ASSUME NEW t \in Flushers, Commit(t) PROVE LogMove
  BY <1>4, AloneInFlush DEF Commit, LogMove, Writes
<1>5. ASSUME NEW t \in Flushers, CommitFails(t) PROVE LogMove
  BY <1>5, AloneInFlush DEF CommitFails, Abandon, LogMove, Writes, GivesUp
<1>6. CASE ConsumerCancelled
  BY <1>6, AloneInFlush DEF ConsumerCancelled, Abandon, LogMove, Writes, GivesUp, Flushers
<1>7. CASE Crash
  <2>1. Pending' = <<>>
    BY <1>7, EmptySeq, ConcatEmptySeq DEF Crash, Pending, InFlush, Flushers
  <2> QED
    BY <1>7, <2>1 DEF Crash, LogMove, DiesWriting, Dies
<1>8. CASE Stop \/ Start \/ UNCHANGED vars
  BY <1>8 DEF Stop, Start, vars, LogMove, Keeps, Pending, InFlush
<1> QED
  BY <1>1, <1>2, <1>3, <1>4, <1>5, <1>6, <1>7, <1>8 DEF Next

-------------------------------------------------------------------------------
LEMMA Prefix ==
  ASSUME NEW s \in Seq(Nat), NEW t \in Seq(Nat)
  PROVE  /\ SubSeq(s \o t, 1, Len(s)) = s
         /\ SubSeq(s \o t, Len(s) + 1, Len(s \o t)) = t
         /\ Len(s) \in 0..Len(s \o t)
<1>1. /\ Len(s) \in Nat /\ Len(t) \in Nat
      /\ s \o t \in Seq(Nat) /\ Len(s \o t) = Len(s) + Len(t)
      /\ \A i \in 1..Len(s) + Len(t) :
           (s \o t)[i] = IF i <= Len(s) THEN s[i] ELSE t[i - Len(s)]
  BY ConcatProperties, LenProperties
<1>2. \A i \in 1..Len(s) + Len(t) : (s \o t)[i] \in Nat
  BY <1>1, ElementOfSeq
<1>3. SubSeq(s \o t, 1, Len(s)) = s
  <2> DEFINE u == SubSeq(s \o t, 1, Len(s))
  <2>1. \A i \in 1..Len(s) : (s \o t)[i] \in Nat
    BY <1>1, <1>2
  <2>2. /\ u \in Seq(Nat) /\ Len(u) = IF 1 <= Len(s) THEN Len(s) - 1 + 1 ELSE 0
        /\ \A i \in 1..Len(s) - 1 + 1 : u[i] = (s \o t)[1 + i - 1]
    BY <1>1, <2>1, SubSeqProperties
  <2> HIDE DEF u
  <2>3. Len(u) = Len(s) /\ \A i \in 1..Len(u) : u[i] = s[i]
    BY <1>1, <2>2
  <2>4. u = s
    BY <2>2, <2>3, SeqEqual
  <2> QED
    BY <2>4 DEF u
<1>4. SubSeq(s \o t, Len(s) + 1, Len(s \o t)) = t
  <2> DEFINE u == SubSeq(s \o t, Len(s) + 1, Len(s) + Len(t))
  <2>1. \A i \in (Len(s) + 1)..(Len(s) + Len(t)) : (s \o t)[i] \in Nat
    BY <1>1, <1>2
  <2>2. /\ u \in Seq(Nat)
        /\ Len(u) = IF Len(s) + 1 <= Len(s) + Len(t)
                    THEN Len(s) + Len(t) - (Len(s) + 1) + 1 ELSE 0
        /\ \A i \in 1..Len(s) + Len(t) - (Len(s) + 1) + 1 :
             u[i] = (s \o t)[Len(s) + 1 + i - 1]
    BY <1>1, <2>1, SubSeqProperties
  <2> HIDE DEF u
  <2>3. Len(u) = Len(t)
    BY <1>1, <2>2
  <2>4. ASSUME NEW i \in 1..Len(u) PROVE u[i] = t[i]
    <3>1. /\ i \in 1..Len(s) + Len(t) - (Len(s) + 1) + 1
          /\ Len(s) + 1 + i - 1 = Len(s) + i
          /\ Len(s) + i \in 1..Len(s) + Len(t) /\ ~(Len(s) + i <= Len(s))
          /\ Len(s) + i - Len(s) = i
      BY <1>1, <2>3
    <3>2. u[i] = (s \o t)[Len(s) + 1 + i - 1]
      BY <2>2, <3>1
    <3>3. (s \o t)[Len(s) + i] = t[Len(s) + i - Len(s)]
      BY <1>1, <3>1
    <3> QED
      BY <3>1, <3>2, <3>3
  <2>5. u = t
    BY <2>2, <2>3, <2>4, SeqEqual
  <2> QED
    BY <1>1, <2>5 DEF u
<1> QED
  BY <1>1, <1>3, <1>4

LEMMA NothingLeft ==
  ASSUME NEW s \in Seq(Nat)
  PROVE  SubSeq(s, 1, 0) = <<>> /\ SubSeq(s, Len(s) + 1, Len(s)) = <<>>
  BY SubSeqEmpty, LenProperties

(***************************************************************************)
(* Every move is a step of LossyLog or leaves its variables alone.         *)
(***************************************************************************)
LEMMA MoveIsLogStep == Shape /\ LogMove => [Log!Next]_<<db, Pending, recorded>>
<1> SUFFICES ASSUME Shape, LogMove PROVE [Log!Next]_<<db, Pending, recorded>>
  OBVIOUS
<1>1. /\ db \in Seq(Nat) /\ queue \in Seq(Nat) /\ InFlush \in Seq(Nat)
      /\ Pending \in Seq(Nat) /\ recorded \in Nat
  BY SequenceTypes
<1>2. /\ Pending = InFlush \o queue
      /\ Len(Pending) \in Nat
  BY <1>1, LenProperties DEF Pending
<1>3. ASSUME NEW gone \in 0..Len(Pending), NEW written \in 0..gone,
             db' = db \o SubSeq(Pending, 1, written),
             Pending' = SubSeq(Pending, gone + 1, Len(Pending)),
             recorded' = recorded
      PROVE  Log!Next
  BY <1>3 DEF Log!Next, Log!Settle
<1>4. CASE Accepts
  <2>1. recorded + 1 \in Nat
    BY <1>1
  <2>2. Pending' = InFlush \o Append(queue, recorded + 1)
    BY <1>4 DEF Accepts, Pending
  <2>3. Append(queue, recorded + 1) = queue \o <<recorded + 1>>
        /\ Append(Pending, recorded + 1) = Pending \o <<recorded + 1>>
        /\ <<recorded + 1>> \in Seq(Nat)
    BY <1>1, <2>1, AppendIsConcat
  <2>4. Pending' = Append(Pending, recorded + 1)
    BY <1>1, <1>2, <2>2, <2>3, ConcatAssociative
  <2> QED
    BY <1>4, <2>4 DEF Accepts, Log!Next, Log!Accept
<1>5. CASE Refuses
  <2>1. Pending' = Pending
    BY <1>5 DEF Refuses, Pending
  <2> QED
    BY <1>5, <2>1 DEF Refuses, Log!Next, Log!Refuse
<1>6. CASE Keeps
  BY <1>6 DEF Keeps
<1>7. /\ SubSeq(Pending, 1, Len(InFlush)) = InFlush
      /\ SubSeq(Pending, Len(InFlush) + 1, Len(Pending)) = queue
      /\ Len(InFlush) \in 0..Len(Pending)
  BY <1>1, <1>2, Prefix
<1>8. SubSeq(Pending, 1, 0) = <<>> /\ SubSeq(Pending, Len(Pending) + 1, Len(Pending)) = <<>>
  BY <1>1, NothingLeft
<1>9. db \o <<>> = db
  BY <1>1, ConcatEmptySeq
<1>10. /\ Len(Pending) \in 0..Len(Pending) /\ Len(InFlush) \in 0..Len(InFlush)
       /\ 0 \in 0..Len(InFlush) /\ 0 \in 0..Len(Pending)
  BY <1>2, <1>7
<1>11. CASE Writes
  BY <1>3, <1>7, <1>10, <1>11 DEF Writes
<1>12. CASE GivesUp
  <2>1. db' = db \o SubSeq(Pending, 1, 0)
    BY <1>8, <1>9, <1>12 DEF GivesUp
  <2> QED
    BY <1>3, <1>7, <1>10, <1>12, <2>1 DEF GivesUp
<1>13. CASE DiesWriting
  BY <1>3, <1>7, <1>8, <1>10, <1>13 DEF DiesWriting
<1>14. CASE Dies
  <2>1. db' = db \o SubSeq(Pending, 1, 0)
    BY <1>8, <1>9, <1>14 DEF Dies
  <2> QED
    BY <1>3, <1>8, <1>10, <1>14, <2>1 DEF Dies
<1> QED
  BY <1>4, <1>5, <1>6, <1>11, <1>12, <1>13, <1>14 DEF LogMove

(***************************************************************************)
(* The audit store implements the append-only lossy log: through failed    *)
(* commits, cancellation, crashes and restarts, rows are only ever         *)
(* appended, oldest entry first, and never written twice.                  *)
(***************************************************************************)
THEOREM ImplementsLog == Spec => LogSpec
<1>1. Init => Log!Init
  <2> SUFFICES ASSUME Init PROVE Log!Init
    OBVIOUS
  <2>1. Pending = <<>>
    BY EmptySeq, ConcatEmptySeq DEF Init, Pending, InFlush, Flushers
  <2> QED
    BY <2>1 DEF Init, Log!Init
<1>2. Shape /\ [Next]_vars => [Log!Next]_(Log!logVars)
  BY StepIsMove, MoveIsLogStep DEF Log!logVars
<1> QED
  BY <1>1, <1>2, ShapeInvariance, PTL DEF Spec, LogSpec, Log!Spec

-------------------------------------------------------------------------------
Sorted(s) == \A i, j \in 1..Len(s) : i < j => s[i] < s[j]

LEMMA ConcatParts ==
  ASSUME NEW s \in Seq(Nat), NEW t \in Seq(Nat)
  PROVE  /\ Len(s) \in Nat /\ Len(t) \in Nat
         /\ s \o t \in Seq(Nat) /\ Len(s \o t) = Len(s) + Len(t)
         /\ \A i \in 1..Len(s) : i \in 1..Len(s \o t) /\ (s \o t)[i] = s[i]
         /\ \A i \in 1..Len(t) :
              Len(s) + i \in 1..Len(s \o t) /\ (s \o t)[Len(s) + i] = t[i]
<1>1. /\ Len(s) \in Nat /\ Len(t) \in Nat
      /\ s \o t \in Seq(Nat) /\ Len(s \o t) = Len(s) + Len(t)
      /\ \A i \in 1..Len(s) + Len(t) :
           (s \o t)[i] = IF i <= Len(s) THEN s[i] ELSE t[i - Len(s)]
  BY ConcatProperties, LenProperties
<1>2. ASSUME NEW i \in 1..Len(s) PROVE i \in 1..Len(s \o t) /\ (s \o t)[i] = s[i]
  BY <1>1
<1>3. ASSUME NEW i \in 1..Len(t)
      PROVE  Len(s) + i \in 1..Len(s \o t) /\ (s \o t)[Len(s) + i] = t[i]
  <2>1. /\ Len(s) + i \in 1..Len(s) + Len(t) /\ ~(Len(s) + i <= Len(s))
        /\ Len(s) + i - Len(s) = i
    BY <1>1
  <2>2. (s \o t)[Len(s) + i] = t[Len(s) + i - Len(s)]
    BY <1>1, <2>1
  <2> QED
    BY <1>1, <2>1, <2>2
<1> QED
  BY <1>1, <1>2, <1>3

(***************************************************************************)
(* Both parts of a sorted sequence are sorted, and the first is below the  *)
(* second.                                                                 *)
(***************************************************************************)
LEMMA SortedParts ==
  ASSUME NEW s \in Seq(Nat), NEW t \in Seq(Nat), Sorted(s \o t)
  PROVE  /\ Sorted(s) /\ Sorted(t)
         /\ \A i \in 1..Len(s), j \in 1..Len(t) : s[i] < t[j]
<1>1. /\ Len(s) \in Nat /\ Len(t) \in Nat
      /\ \A i \in 1..Len(s) : i \in 1..Len(s \o t) /\ (s \o t)[i] = s[i]
      /\ \A i \in 1..Len(t) :
           Len(s) + i \in 1..Len(s \o t) /\ (s \o t)[Len(s) + i] = t[i]
  BY ConcatParts
<1>2. Sorted(s)
  BY <1>1 DEF Sorted
<1>3. Sorted(t)
  <2> SUFFICES ASSUME NEW i \in 1..Len(t), NEW j \in 1..Len(t), i < j PROVE t[i] < t[j]
    BY DEF Sorted
  <2>1. Len(s) + i < Len(s) + j
    BY <1>1
  <2> QED
    BY <1>1, <2>1 DEF Sorted
<1>4. ASSUME NEW i \in 1..Len(s), NEW j \in 1..Len(t) PROVE s[i] < t[j]
  <2>1. i < Len(s) + j
    BY <1>1
  <2> QED
    BY <1>1, <2>1 DEF Sorted
<1> QED
  BY <1>2, <1>3, <1>4

LEMMA SortedJoin ==
  ASSUME NEW s \in Seq(Nat), NEW t \in Seq(Nat), Sorted(s), Sorted(t),
         \A i \in 1..Len(s), j \in 1..Len(t) : s[i] < t[j]
  PROVE  Sorted(s \o t)
<1>1. /\ Len(s) \in Nat /\ Len(t) \in Nat /\ Len(s \o t) = Len(s) + Len(t)
      /\ \A i \in 1..Len(s) : (s \o t)[i] = s[i]
      /\ \A i \in 1..Len(t) : (s \o t)[Len(s) + i] = t[i]
  BY ConcatParts
<1> SUFFICES ASSUME NEW i \in 1..Len(s \o t), NEW j \in 1..Len(s \o t), i < j
             PROVE  (s \o t)[i] < (s \o t)[j]
  BY DEF Sorted
<1>2. ASSUME NEW k \in 1..Len(s \o t), ~(k <= Len(s))
      PROVE  k - Len(s) \in 1..Len(t) /\ (s \o t)[k] = t[k - Len(s)]
  <2>1. k - Len(s) \in 1..Len(t) /\ Len(s) + (k - Len(s)) = k
    BY <1>1, <1>2
  <2> QED
    BY <1>1, <2>1
<1>3. CASE j <= Len(s)
  <2>1. i \in 1..Len(s) /\ j \in 1..Len(s)
    BY <1>1, <1>3
  <2> QED
    BY <1>1, <2>1 DEF Sorted
<1>4. CASE i <= Len(s) /\ ~(j <= Len(s))
  <2>1. i \in 1..Len(s)
    BY <1>1, <1>4
  <2> QED
    BY <1>1, <1>2, <1>4, <2>1
<1>5. CASE ~(i <= Len(s))
  <2>1. ~(j <= Len(s)) /\ i - Len(s) < j - Len(s)
    BY <1>1, <1>5
  <2> QED
    BY <1>2, <1>5, <2>1 DEF Sorted
<1> QED
  BY <1>3, <1>4, <1>5

LEMMA Regroup ==
  \A s, t, u \in Seq(Nat) : (s \o t) \o u = s \o (t \o u)
<1> SUFFICES ASSUME NEW s \in Seq(Nat), NEW t \in Seq(Nat), NEW u \in Seq(Nat)
             PROVE  (s \o t) \o u = s \o (t \o u)
  OBVIOUS
<1> QED
  BY ConcatAssociative

LEMMA Disjoint ==
  ASSUME NEW s \in Seq(Nat), NEW t \in Seq(Nat),
         \A i \in 1..Len(s), j \in 1..Len(t) : s[i] < t[j]
  PROVE  Range(s) \intersect Range(t) = {}
<1>1. Range(s) = {s[i] : i \in 1..Len(s)} /\ Range(t) = {t[i] : i \in 1..Len(t)}
  BY RangeEquality
<1>2. (\A i \in 1..Len(s) : s[i] \in Nat) /\ (\A i \in 1..Len(t) : t[i] \in Nat)
  BY ElementOfSeq
<1> QED
  BY <1>1, <1>2

Ordered == Sorted(db \o Pending)

(***************************************************************************)
(* What the order says of db, InFlush and queue one by one.                *)
(***************************************************************************)
Below(s, t) == \A i \in 1..Len(s), j \in 1..Len(t) : s[i] < t[j]

LEMMA OrderParts ==
  ASSUME Shape, Ordered
  PROVE  /\ Sorted(db) /\ Sorted(InFlush) /\ Sorted(queue)
         /\ Below(db, InFlush) /\ Below(db, queue) /\ Below(InFlush, queue)
<1>1. db \in Seq(Nat) /\ queue \in Seq(Nat) /\ InFlush \in Seq(Nat) /\ Pending \in Seq(Nat)
  BY SequenceTypes
<1>2. Sorted(db) /\ Sorted(Pending) /\ Below(db, Pending)
  BY <1>1, SortedParts DEF Ordered, Below
<1>3. Sorted(InFlush) /\ Sorted(queue) /\ Below(InFlush, queue)
  BY <1>1, <1>2, SortedParts DEF Pending, Below
<1>4. /\ \A i \in 1..Len(InFlush) : i \in 1..Len(Pending) /\ Pending[i] = InFlush[i]
      /\ \A i \in 1..Len(queue) : Len(InFlush) + i \in 1..Len(Pending)
                                 /\ Pending[Len(InFlush) + i] = queue[i]
  BY <1>1, ConcatParts DEF Pending
<1>5. Below(db, InFlush) /\ Below(db, queue)
  BY <1>2, <1>4 DEF Below
<1> QED
  BY <1>2, <1>3, <1>5

LEMMA OrderStep == Shape /\ Shape' /\ Ordered /\ LogMove => Ordered'
<1> SUFFICES ASSUME Shape, Shape', Ordered, LogMove PROVE Ordered'
  OBVIOUS
<1>1. /\ db \in Seq(Nat) /\ queue \in Seq(Nat) /\ InFlush \in Seq(Nat)
      /\ Pending \in Seq(Nat) /\ recorded \in Nat
  BY SequenceTypes
<1>2. /\ Sorted(db) /\ Sorted(InFlush) /\ Sorted(queue)
      /\ Below(db, InFlush) /\ Below(db, queue) /\ Below(InFlush, queue)
  BY OrderParts
<1>3. CASE Accepts
  <2> DEFINE n == recorded + 1
             all == db \o Pending
  <2>1. n \in Nat /\ <<n>> \in Seq(Nat) /\ Len(<<n>>) = 1 /\ <<n>>[1] = n
    BY <1>1
  <2>2. db' \o Pending' = all \o <<n>>
    <3>1. Append(queue, n) = queue \o <<n>>
      BY <1>1, <2>1, AppendIsConcat
    <3>2. Pending' = Pending \o <<n>>
      BY <1>1, <1>3, <2>1, <3>1, ConcatAssociative DEF Accepts, Pending
    <3> QED
      BY <1>1, <1>3, <2>1, <3>2, ConcatAssociative DEF Accepts
  <2>3. all \in Seq(Nat) /\ Sorted(all)
    BY <1>1, ConcatProperties DEF Ordered
  <2>4. \A i \in 1..Len(all) : all[i] < n
    <3>1. /\ db \in Seq(1..recorded) /\ queue \in Seq(1..recorded)
          /\ batch["consumer"] \in Seq(1..recorded) /\ batch["stop"] \in Seq(1..recorded)
      BY DEF Shape, TypeOK, Flushers
    <3>2. InFlush \in Seq(1..recorded)
      BY <3>1, ConcatProperties DEF InFlush
    <3>3. Pending \in Seq(1..recorded)
      BY <3>1, <3>2, ConcatProperties DEF Pending
    <3>4. all \in Seq(1..recorded)
      BY <3>1, <3>3, ConcatProperties
    <3>5. \A i \in 1..Len(all) : all[i] \in 1..recorded
      BY <3>4, ElementOfSeq
    <3> QED
      BY <1>1, <3>5
  <2> HIDE DEF all, n
  <2>5. Sorted(<<n>>)
    BY <2>1 DEF Sorted
  <2>6. \A i \in 1..Len(all), j \in 1..Len(<<n>>) : all[i] < <<n>>[j]
    BY <2>1, <2>4
  <2> QED
    BY <2>1, <2>2, <2>3, <2>5, <2>6, SortedJoin DEF Ordered
<1>4. CASE Refuses \/ Keeps
  BY <1>4 DEF Refuses, Keeps, Ordered, Pending
<1>5. CASE Writes
  <2>1. db' \o Pending' = (db \o InFlush) \o queue
    BY <1>5 DEF Writes
  <2>2. (db \o InFlush) \o queue = db \o Pending
    BY <1>1, Regroup DEF Pending
  <2> QED
    BY <2>1, <2>2 DEF Ordered
<1>6. CASE GivesUp
  <2>1. db' \o Pending' = db \o queue
    BY <1>6 DEF GivesUp
  <2> QED
    BY <1>1, <1>2, <2>1, SortedJoin DEF Ordered, Below
<1>7. CASE DiesWriting
  <2>1. db \o InFlush \in Seq(Nat)
    BY <1>1, ConcatProperties
  <2>2. db' \o Pending' = db \o InFlush
    BY <1>7, <2>1, ConcatEmptySeq DEF DiesWriting
  <2> QED
    BY <1>1, <1>2, <2>2, SortedJoin DEF Ordered, Below
<1>8. CASE Dies
  <2>1. db' \o Pending' = db
    BY <1>1, <1>8, ConcatEmptySeq DEF Dies
  <2> QED
    BY <1>2, <2>1 DEF Ordered
<1> QED
  BY <1>3, <1>4, <1>5, <1>6, <1>7, <1>8 DEF LogMove

LEMMA OrderInit == Init => Ordered
<1> SUFFICES ASSUME Init PROVE Ordered
  OBVIOUS
<1>1. Pending = <<>> /\ db = <<>>
  BY EmptySeq, ConcatEmptySeq DEF Init, Pending, InFlush, Flushers
<1>2. <<>> \in Seq(Nat)
  BY EmptySeq
<1>3. db \o Pending = <<>>
  BY <1>1, <1>2, ConcatEmptySeq
<1>4. Len(db \o Pending) = 0
  BY <1>3, EmptySeq
<1> QED
  BY <1>4 DEF Ordered, Sorted

LEMMA OrderInvariance == Spec => []Ordered
<1>1. Shape /\ Shape' /\ Ordered /\ [Next]_vars => Ordered'
  BY StepIsMove, OrderStep
<1> QED
  BY <1>1, OrderInit, ShapeInvariance, PTL DEF Spec

(***************************************************************************)
(* Rows are stored in the order their entries were recorded.               *)
(***************************************************************************)
THEOREM RowsStayInOrder == Spec => []InOrder
<1>1. Ordered => InOrder
  BY DEF Ordered, Sorted, InOrder
<1> QED
  BY <1>1, OrderInvariance, PTL

-------------------------------------------------------------------------------
(***************************************************************************)
(* The account, with the entries still or already in the store as a set.   *)
(***************************************************************************)
Kept == Range(db) \union Range(Pending)

Account ==
  /\ dropped \union lost \union Kept = 1..recorded
  /\ dropped \intersect lost = {}
  /\ (dropped \union lost) \intersect Kept = {}

LEMMA AccountStep == Shape /\ Ordered /\ Account /\ LogMove => Account'
<1> SUFFICES ASSUME Shape, Ordered, Account, LogMove PROVE Account'
  OBVIOUS
<1>1. /\ db \in Seq(Nat) /\ queue \in Seq(Nat) /\ InFlush \in Seq(Nat)
      /\ Pending \in Seq(Nat) /\ recorded \in Nat
  BY SequenceTypes
<1>2. Range(Pending) = Range(InFlush) \union Range(queue)
  BY <1>1, RangeConcatenation DEF Pending
<1>3. /\ Range(db) \intersect Range(InFlush) = {}
      /\ Range(db) \intersect Range(queue) = {}
      /\ Range(InFlush) \intersect Range(queue) = {}
  BY <1>1, OrderParts, Disjoint DEF Below
<1>4. Range(<<>>) = {}
  BY DEF Range
<1>5. 1..(recorded + 1) = (1..recorded) \union {recorded + 1} /\ recorded + 1 \notin 1..recorded
  BY <1>1
<1>6. CASE Accepts
  <2> DEFINE one == <<recorded + 1>>
  <2>1. one \in Seq(Nat) /\ Range(one) = {recorded + 1}
    BY <1>1 DEF Range
  <2>2. queue' = queue \o one
    BY <1>1, <1>6, AppendIsConcat DEF Accepts
  <2> HIDE DEF one
  <2>3. Range(queue') = Range(queue) \union {recorded + 1}
    BY <1>1, <2>1, <2>2, RangeConcatenation
  <2>4. queue' \in Seq(Nat) /\ InFlush' = InFlush /\ db' = db
    BY <1>1, <1>6, <2>1, <2>2, ConcatProperties DEF Accepts
  <2>5. Range(Pending') = Range(InFlush) \union Range(queue')
    BY <1>1, <2>4, RangeConcatenation DEF Pending
  <2>6. Kept' = Kept \union {recorded + 1}
    BY <1>2, <2>3, <2>4, <2>5 DEF Kept
  <2> QED
    BY <1>5, <1>6, <2>6 DEF Accepts, Account
<1>7. CASE Refuses
  <2>1. Kept' = Kept
    BY <1>7 DEF Refuses, Kept, Pending
  <2> QED
    BY <1>5, <1>7, <2>1 DEF Refuses, Account
<1>8. CASE Keeps
  BY <1>8 DEF Keeps, Account, Kept
<1>9. CASE Writes
  <2>1. Range(db') = Range(db) \union Range(InFlush)
    BY <1>1, <1>9, RangeConcatenation DEF Writes
  <2>2. Kept' = Kept
    BY <1>2, <1>9, <2>1 DEF Writes, Kept
  <2> QED
    BY <1>9, <2>2 DEF Writes, Account
<1>10. CASE GivesUp
  <2>1. Kept' = Kept \ Range(InFlush) /\ Range(InFlush) \subseteq Kept
    BY <1>2, <1>3, <1>10 DEF GivesUp, Kept
  <2> QED
    BY <1>10, <2>1 DEF GivesUp, Account
<1>11. CASE DiesWriting
  <2>1. Range(db') = Range(db) \union Range(InFlush)
    BY <1>1, <1>11, RangeConcatenation DEF DiesWriting
  <2>2. Kept' = Kept \ Range(queue) /\ Range(queue) \subseteq Kept
    BY <1>2, <1>3, <1>4, <1>11, <2>1 DEF DiesWriting, Kept
  <2> QED
    BY <1>11, <2>2 DEF DiesWriting, Account
<1>12. CASE Dies
  <2>1. Kept' = Kept \ Range(Pending) /\ Range(Pending) \subseteq Kept
    BY <1>2, <1>3, <1>4, <1>12 DEF Dies, Kept
  <2> QED
    BY <1>12, <2>1 DEF Dies, Account
<1> QED
  BY <1>6, <1>7, <1>8, <1>9, <1>10, <1>11, <1>12 DEF LogMove

LEMMA AccountInit == Init => Account
<1> SUFFICES ASSUME Init PROVE Account
  OBVIOUS
<1>1. Pending = <<>> /\ db = <<>>
  BY EmptySeq, ConcatEmptySeq DEF Init, Pending, InFlush, Flushers
<1>2. Kept = {}
  BY <1>1 DEF Kept, Range
<1>3. 1..recorded = {}
  BY DEF Init
<1> QED
  BY <1>2, <1>3 DEF Init, Account

(***************************************************************************)
(* Every entry passed to record() is in exactly one place, and no entry    *)
(* occurs twice in the table, in a batch or on the queue.                  *)
(***************************************************************************)
THEOREM EveryEntryIsAccounted == Spec => []Accounted
<1>1. Shape /\ Ordered /\ Account /\ [Next]_vars => Account'
  BY StepIsMove, AccountStep
<1>2. Shape /\ Ordered /\ Account => Accounted
  <2> SUFFICES ASSUME Shape, Ordered, Account PROVE Accounted
    OBVIOUS
  <2> DEFINE all == db \o Pending
  <2>1. db \in Seq(Nat) /\ Pending \in Seq(Nat)
    BY SequenceTypes
  <2>2. all \in Seq(Nat) /\ DOMAIN all = 1..Len(all) /\ Len(all) \in Nat
    BY <2>1, ConcatProperties, LenProperties
  <2>3. \A i \in 1..Len(all) : all[i] \in Nat
    BY <2>2, ElementOfSeq
  <2>4. IsInjective(all)
    <3> SUFFICES ASSUME NEW i \in 1..Len(all), NEW j \in 1..Len(all), i # j
                 PROVE  all[i] # all[j]
      BY <2>2 DEF IsInjective
    <3>1. i < j \/ j < i
      BY <2>2
    <3>2. all[i] < all[j] \/ all[j] < all[i]
      BY <3>1 DEF Ordered, Sorted
    <3> QED
      BY <2>3, <3>2
  <2>5. Range(all) = Kept
    BY <2>1, RangeConcatenation DEF Kept
  <2> QED
    BY <2>4, <2>5 DEF Accounted, Account
<1> QED
  BY <1>1, <1>2, AccountInit, OrderInvariance, ShapeInvariance, PTL DEF Spec
===============================================================================
