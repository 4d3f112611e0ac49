---------------------------- MODULE BatcherProofs ----------------------------
(***************************************************************************)
(* Theorems about Batcher and TimedBatcher for every set of items, every    *)
(* batch size (zero included), every channel capacity and, for the second,  *)
(* every waiting time.  A step of TimedBatcher is a step of Batcher or the  *)
(* passing of time, so what is proved of Batcher carries over.             *)
(***************************************************************************)
EXTENDS TimedBatcher, SequenceTheorems, TLAPS

LEMMA LimitIsPositive == Limit \in Nat \ {0}
  BY BatcherAssumption DEF Limit

(* The strengthening of the invariants of Batcher: what the engine holds    *)
(* never exceeds a batch, a flush always has something to send, and the     *)
(* final flush only begins once nothing can arrive any more.               *)
IInv ==
  /\ TypeOK
  /\ BatchesWellFormed
  /\ FullBatchNeverWaits
  /\ NothingStranded
  /\ Len(batch) <= Limit
  /\ engine \in {"flush", "drain"} => batch # <<>>
  /\ engine = "drain" => inq = <<>> /\ ~senders

LEMMA InitInv == Init => IInv
  BY LimitIsPositive, BatcherAssumption
  DEF Init, IInv, TypeOK, BatchesWellFormed, FullBatchNeverWaits, NothingStranded

LEMMA StepInv == IInv /\ [Next]_vars => IInv'
<1> SUFFICES ASSUME IInv, [Next]_vars
             PROVE  IInv'
  OBVIOUS
<1> USE LimitIsPositive, BatcherAssumption
    DEF IInv, TypeOK, BatchesWellFormed, FullBatchNeverWaits, NothingStranded, EndsStay
<1>1. ASSUME NEW i \in Items, Send(i)
      PROVE  IInv'
  BY <1>1 DEF Send
<1>2. CASE Recv
  <2>1. /\ Head(inq) \in Items
        /\ inq' \in Seq(Items)
        /\ Len(inq') = Len(inq) - 1
        /\ batch' \in Seq(Items)
        /\ Len(batch') = Len(batch) + 1
        /\ batch' # <<>>
    BY <1>2 DEF Recv
  <2>2. /\ engine' = "flush" => Len(batch') <= Limit
        /\ engine' = "select" => Len(batch') < Limit
        /\ engine' \in {"select", "flush"}
    BY <1>2, <2>1 DEF Recv, Limit
  <2>3. QED
    BY <1>2, <2>1, <2>2 DEF Recv
<1>3. CASE RecvClosed
  BY <1>3 DEF RecvClosed
<1>4. CASE Timeout
  BY <1>4 DEF Timeout
<1>5. CASE Flush
  <2>1. Len(batch) \in 1..Limit
    BY <1>5 DEF Flush
  <2>2. BatchesWellFormed'
    BY <1>5, <2>1 DEF Flush
  <2>3. outq' \in Seq(Seq(Items)) /\ Len(outq') <= OutCap
    BY <1>5 DEF Flush
  <2>4. QED
    BY <1>5, <2>2, <2>3 DEF Flush
<1>6. CASE FlushFails
  BY <1>6 DEF FlushFails
<1>7. CASE Take
  <2>1. /\ outq' \in Seq(Seq(Items))
        /\ Len(outq') = Len(outq) - 1
        /\ \A k \in DOMAIN outq' : k + 1 \in DOMAIN outq /\ outq'[k] = outq[k + 1]
    BY <1>7 DEF Take
  <2>2. QED
    BY <1>7, <2>1 DEF Take
<1>8. CASE ConsumerGone
  <2>1. /\ outq' \in Seq(Seq(Items))
        /\ Len(outq') = 0
        /\ DOMAIN outq' = {}
    BY <1>8 DEF ConsumerGone
  <2>2. BatchesWellFormed' /\ Len(outq') <= OutCap
    BY <2>1
  <2>3. consumer' \in BOOLEAN
    BY <1>8 DEF ConsumerGone
  <2>4. QED
    BY <1>8, <2>1, <2>2, <2>3 DEF ConsumerGone
<1>9. CASE SendersGone
  BY <1>9 DEF SendersGone
<1>10. CASE UNCHANGED vars
  BY <1>10 DEF vars
<1>11. QED
  BY <1>1, <1>2, <1>3, <1>4, <1>5, <1>6, <1>7, <1>8, <1>9, <1>10 DEF Next, Engine

LEMMA Invariance == Spec => []IInv
<1>1. QED
  BY InitInv, StepInv, PTL DEF Spec

(* Type correctness of the engine and its channels (batcher.rs:28-69).      *)
THEOREM TypeCorrect == Spec => []TypeOK
<1>1. IInv => TypeOK
  BY DEF IInv
<1>2. QED
  BY <1>1, Invariance, PTL

(* Every batch handed to a worker holds between one and Limit items         *)
(* (batcher.rs:44, 63-68), whatever the configured size.                   *)
THEOREM BatchesAreWellFormed == Spec => []BatchesWellFormed
<1>1. IInv => BatchesWellFormed
  BY DEF IInv
<1>2. QED
  BY <1>1, Invariance, PTL

(* A full batch is flushed before the engine selects again (batcher.rs:44). *)
THEOREM FullBatchesNeverWait == Spec => []FullBatchNeverWaits
<1>1. IInv => FullBatchNeverWaits
  BY DEF IInv
<1>2. QED
  BY <1>1, Invariance, PTL

(* When run() has returned, the engine and its item channel are empty       *)
(* (batcher.rs:44-57).                                                     *)
THEOREM NothingIsStranded == Spec => []NothingStranded
<1>1. IInv => NothingStranded
  BY DEF IInv
<1>2. QED
  BY <1>1, Invariance, PTL

-----------------------------------------------------------------------------
(* The promise of BatchPipe.                                               *)

(* What a receive moves from the channel to the batch stays pending.       *)
LEMMA ReceivingKeepsPending ==
  ASSUME NEW s \in Seq(Items), NEW t \in Seq(Items), t # <<>>
  PROVE  Append(s, Head(t)) \o Tail(t) = s \o t
<1>1. Append(s, Head(t)) \o Tail(t) \in Seq(Items) /\ s \o t \in Seq(Items)
  OBVIOUS
<1>2. Len(Append(s, Head(t)) \o Tail(t)) = Len(s \o t)
  OBVIOUS
<1>3. ASSUME NEW k \in 1..Len(s \o t)
      PROVE  (Append(s, Head(t)) \o Tail(t))[k] = (s \o t)[k]
  OBVIOUS
<1>4. QED
  BY <1>1, <1>2, <1>3, SeqEqual

(* A sent item becomes the youngest pending one.                           *)
LEMMA SendingAppends ==
  ASSUME NEW s \in Seq(Items), NEW t \in Seq(Items), NEW i \in Items
  PROVE  s \o Append(t, i) = Append(s \o t, i)
<1>1. s \o Append(t, i) \in Seq(Items) /\ Append(s \o t, i) \in Seq(Items)
  OBVIOUS
<1>2. Len(s \o Append(t, i)) = Len(Append(s \o t, i))
  OBVIOUS
<1>3. ASSUME NEW k \in 1..Len(s \o Append(t, i))
      PROVE  (s \o Append(t, i))[k] = Append(s \o t, i)[k]
  OBVIOUS
<1>4. QED
  BY <1>1, <1>2, <1>3, SeqEqual

(* Flushing the batch takes exactly the oldest pending items.              *)
LEMMA FlushingSplitsPending ==
  ASSUME NEW s \in Seq(Items), NEW t \in Seq(Items)
  PROVE  /\ SubSeq(s \o t, 1, Len(s)) = s
         /\ SubSeq(s \o t, Len(s) + 1, Len(s \o t)) = t
<1>1. SubSeq(s \o t, 1, Len(s)) = s
  <2>1. SubSeq(s \o t, 1, Len(s)) \in Seq(Items)
        /\ Len(SubSeq(s \o t, 1, Len(s))) = Len(s)
    OBVIOUS
  <2>2. ASSUME NEW k \in 1..Len(s)
        PROVE  SubSeq(s \o t, 1, Len(s))[k] = s[k]
    OBVIOUS
  <2>3. QED
    BY <2>1, <2>2, SeqEqual
<1>2. SubSeq(s \o t, Len(s) + 1, Len(s \o t)) = t
  <2>1. SubSeq(s \o t, Len(s) + 1, Len(s \o t)) \in Seq(Items)
        /\ Len(SubSeq(s \o t, Len(s) + 1, Len(s \o t))) = Len(t)
    OBVIOUS
  <2>2. ASSUME NEW k \in 1..Len(t)
        PROVE  SubSeq(s \o t, Len(s) + 1, Len(s \o t))[k] = t[k]
    OBVIOUS
  <2>3. QED
    BY <2>1, <2>2, SeqEqual
<1>3. QED
  BY <1>1, <1>2

LEMMA InitRefines == Init => Pipe!Init
<1>1. <<>> \o <<>> = <<>>
  OBVIOUS
<1>2. QED
  BY <1>1 DEF Init, Pipe!Init

LEMMA StepRefines == IInv /\ [Next]_vars => [Pipe!Next]_(Pipe!vars)
<1> SUFFICES ASSUME IInv, [Next]_vars
             PROVE  Pipe!Next \/ UNCHANGED Pipe!vars
  OBVIOUS
<1> USE DEF EndsStay
<1>1. /\ inq \in Seq(Items)
      /\ batch \in Seq(Items)
      /\ outq \in Seq(Seq(Items))
      /\ engine \in {"flush", "drain"} => Len(batch) \in 1..Limit
  BY LimitIsPositive DEF IInv, TypeOK
<1>2. ASSUME NEW i \in Items, Send(i)
      PROVE  Pipe!Accept(i)
  BY <1>1, <1>2, SendingAppends DEF Send, Pipe!Accept
<1>3. CASE Recv
  BY <1>1, <1>3, ReceivingKeepsPending DEF Recv, Pipe!vars
<1>4. CASE RecvClosed
  BY <1>4 DEF RecvClosed, Pipe!vars
<1>5. CASE Timeout
  BY <1>5 DEF Timeout, Pipe!vars
<1>6. CASE Flush
  <2>1. Len(batch) \in 1..Limit
    BY <1>1, <1>6 DEF Flush
  <2>2. Len(batch) <= Len(batch \o inq)
    BY <1>1
  <2>3. batch' \o inq' = inq
    BY <1>1, <1>6 DEF Flush
  <2>4. Pipe!Group(Len(batch))
    BY <1>1, <1>6, <2>1, <2>2, <2>3, FlushingSplitsPending
    DEF Flush, Pipe!Group
  <2>5. QED
    BY <2>1, <2>4 DEF Pipe!Next
<1>7. CASE FlushFails
  <2>1. batch' \o inq' = <<>>
    BY <1>7 DEF FlushFails
  <2>2. QED
    BY <1>7, <2>1 DEF FlushFails, Pipe!GiveUp, Pipe!Next
<1>8. CASE Take
  BY <1>8 DEF Take, Pipe!Take, Pipe!Next
<1>9. CASE ConsumerGone
  BY <1>9 DEF ConsumerGone, Pipe!Leave, Pipe!Next
<1>10. CASE SendersGone
  BY <1>10 DEF SendersGone, Pipe!vars
<1>11. CASE UNCHANGED vars
  BY <1>11 DEF vars, Pipe!vars
<1>12. QED
  BY <1>2, <1>3, <1>4, <1>5, <1>6, <1>7, <1>8, <1>9, <1>10, <1>11
  DEF Next, Engine, Pipe!Next

(* Until the worker is gone no item is lost, duplicated or reordered on its *)
(* way through the engine, and batches are cut from the oldest items        *)
(* (batcher.rs:28-69): the engine implements BatchPipe.                    *)
THEOREM PipeRefinement == Spec => PipeSpec
<1>1. QED
  BY InitRefines, StepRefines, Invariance, PTL DEF Spec, PipeSpec, Pipe!Spec

-----------------------------------------------------------------------------
(* The sleeper. *)

LEMMA TimedStepIsStep == [TimedNext]_timedVars => [Next]_vars
  BY DEF TimedNext, TimedEngine, TimedRecv, TimedTimeout, TimedTake, Tick, timedVars, vars,
         Next, Engine

(* While the engine holds items the sleeper has run exactly as long as the  *)
(* batch has been open.                                                    *)
SleeperRunsWithBatch == batch # <<>> => elapsed = age

TimedInv == IInv /\ TimedTypeOK /\ SleeperRunsWithBatch

LEMMA OneMoreType == \A t \in 0..MaxWait : OneMore(t) \in 0..MaxWait
  BY TimedAssumption DEF OneMore

LEMMA TimedInitInv == TimedInit => TimedInv
  BY InitInv, TimedAssumption DEF TimedInit, TimedInv, TimedTypeOK, SleeperRunsWithBatch, IInv

LEMMA TimedStepInv == TimedInv /\ [TimedNext]_timedVars => TimedInv'
<1> SUFFICES ASSUME TimedInv, [TimedNext]_timedVars
             PROVE  TimedInv'
  OBVIOUS
<1>1. IInv'
  BY TimedStepIsStep, StepInv DEF TimedInv
<1>2. ASSUME UNCHANGED <<elapsed, age>>, batch' = <<>> \/ batch' = batch
      PROVE  TimedInv'
  BY <1>1, <1>2 DEF TimedInv, TimedTypeOK, SleeperRunsWithBatch, IInv
<1>3. CASE TimedRecv
  <2>1. /\ elapsed' = IF batch = <<>> THEN 0 ELSE elapsed
        /\ age' = IF batch = <<>> THEN 0 ELSE age
    BY <1>3 DEF TimedRecv, ResetSleeper
  <2>2. elapsed' \in 0..MaxWait /\ age' \in 0..MaxWait /\ elapsed' = age'
    BY <2>1, TimedAssumption DEF TimedInv, TimedTypeOK, SleeperRunsWithBatch
  <2>3. QED
    BY <1>1, <2>2 DEF TimedInv, TimedTypeOK, SleeperRunsWithBatch, IInv
<1>4. CASE TimedTimeout
  BY <1>2, <1>4 DEF TimedTimeout, Timeout
<1>5. CASE RecvClosed /\ UNCHANGED <<elapsed, age>>
  BY <1>2, <1>5 DEF RecvClosed
<1>6. CASE (Flush \/ FlushFails) /\ UNCHANGED <<elapsed, age>>
  BY <1>2, <1>6 DEF Flush, FlushFails
<1>7. ASSUME NEW i \in Items, Send(i), UNCHANGED <<elapsed, age>>
      PROVE  TimedInv'
  BY <1>2, <1>7 DEF Send
<1>8. CASE TimedTake
  BY <1>2, <1>8 DEF TimedTake, Take
<1>9. CASE (ConsumerGone \/ SendersGone) /\ UNCHANGED <<elapsed, age>>
  BY <1>2, <1>9 DEF ConsumerGone, SendersGone
<1>10. CASE Tick
  <2>1. elapsed' \in 0..MaxWait /\ age' \in 0..MaxWait
    BY <1>10, OneMoreType DEF Tick, TimedInv, TimedTypeOK
  <2>2. batch' # <<>> => elapsed' = age'
    BY <1>10 DEF Tick, vars, TimedInv, SleeperRunsWithBatch
  <2>3. QED
    BY <1>1, <2>1, <2>2 DEF TimedInv, TimedTypeOK, SleeperRunsWithBatch, IInv
<1>11. CASE UNCHANGED timedVars
  BY <1>2, <1>11 DEF timedVars, vars
<1>12. QED
  BY <1>3, <1>4, <1>5, <1>6, <1>7, <1>8, <1>9, <1>10, <1>11 DEF TimedNext, TimedEngine

LEMMA TimedInvariance == TimedSpec => []TimedInv
<1>1. QED
  BY TimedInitInv, TimedStepInv, PTL DEF TimedSpec

(* Type correctness of the engine with its clock (batcher.rs:28-69).        *)
THEOREM TimedTypeCorrect == TimedSpec => []TimedTypeOK
<1>1. TimedInv => TimedTypeOK
  BY DEF TimedInv
<1>2. QED
  BY <1>1, TimedInvariance, PTL

(* The sleeper never runs behind the batch it stands for (batcher.rs:      *)
(* 39-41, 54): a batch whose time is up can be flushed at once.            *)
THEOREM FlushIsDueInTime == TimedSpec => []FlushDueInTime
<1>1. TimedInv => FlushDueInTime
  BY DEF TimedInv, TimedTypeOK, SleeperRunsWithBatch, FlushDueInTime, SleeperReady
<1>2. QED
  BY <1>1, TimedInvariance, PTL

(* A flush of a partial batch is never early (batcher.rs:39-41, 54): what   *)
(* is left on the sleeper from an earlier batch does not count.            *)
THEOREM NoFlushIsEarly == TimedSpec => NoEarlyFlush
<1> DEFINE Early == /\ engine = "select"
                    /\ engine' = "flush"
                    /\ Len(batch') < Limit
<1>1. ASSUME TimedInv, [TimedNext]_timedVars, Early
      PROVE  age >= MaxWait
  <2>1. CASE Recv
    <3>1. batch \in Seq(Items) /\ Head(inq) \in Items /\ Len(batch') = Len(batch) + 1
      <4>1. batch \in Seq(Items) /\ inq \in Seq(Items)
        BY <1>1 DEF TimedInv, IInv, TypeOK
      <4>2. inq # <<>> /\ batch' = Append(batch, Head(inq))
        BY <2>1 DEF Recv
      <4>3. QED
        BY <4>1, <4>2
    <3>2. Len(batch') >= MaxBatchSize /\ Len(batch') \in Nat \ {0}
      <4>1. Len(batch') >= MaxBatchSize
        BY <1>1, <2>1 DEF Recv
      <4>2. Len(batch) \in Nat
        BY <3>1
      <4>3. QED
        BY <3>1, <4>1, <4>2
    <3>3. Len(batch') >= Limit
      BY <3>2 DEF Limit
    <3>4. QED
      BY <1>1, <3>2, <3>3, LimitIsPositive
  <2>2. CASE TimedTimeout
    BY <1>1, <2>2 DEF TimedTimeout, Timeout, SleeperReady, TimedInv, SleeperRunsWithBatch
  <2>3. CASE ~Recv /\ ~TimedTimeout
    BY <1>1, <2>3
    DEF TimedNext, TimedEngine, TimedRecv, TimedTake, Tick, timedVars, vars,
        Send, RecvClosed, Flush, FlushFails, Take, ConsumerGone, SendersGone
  <2>4. QED
    BY <2>1, <2>2, <2>3
<1>2. TimedInv /\ [TimedNext]_timedVars => [Early => age >= MaxWait]_timedVars
  BY <1>1
<1>3. QED
  BY <1>2, TimedInvariance, PTL DEF TimedSpec, NoEarlyFlush

(* The refinement holds with the clock too: time only restricts when the    *)
(* sleeper fires (batcher.rs:28-69).                                       *)
THEOREM TimedPipeRefinement == TimedSpec => PipeSpec
<1>1. TimedInit => Init
  BY DEF TimedInit
<1>2. TimedInv => IInv
  BY DEF TimedInv
<1>3. QED
  BY <1>1, <1>2, TimedStepIsStep, InitRefines, StepRefines, TimedInvariance, PTL
  DEF TimedSpec, PipeSpec, Pipe!Spec
=============================================================================
