----------------------------- MODULE TimedBatcher -----------------------------
(***************************************************************************)
(* Batcher with its sleeper (tokio::time::Sleep, pinned for the whole of    *)
(* run()).  The clock is relative: how long ago the sleeper was last reset  *)
(* and, to state the properties, how long ago the first item of the current *)
(* batch was received, both counted in ticks up to MaxWait.                *)
(***************************************************************************)
EXTENDS Batcher

CONSTANT MaxWait   \* config.max_wait_ms, in ticks

ASSUME TimedAssumption == MaxWait \in Nat

VARIABLES
  elapsed,  \* time since the sleeper was created or reset
  age       \* history: time since the batch got its first item

timedVars == <<vars, elapsed, age>>

OneMore(t) == IF t < MaxWait THEN t + 1 ELSE MaxWait

(* The sleeper is created, and starts to run, before the loop is entered. *)
TimedInit == Init /\ elapsed = 0 /\ age = 0

(* Mutations of ResetSleeper: every item resets the sleeper, or none does. *)
ResetByEveryItem == elapsed' = 0
ResetByNoItem == elapsed' = elapsed

(* An item received into an empty batch resets the sleeper. *)
ResetSleeper == elapsed' = IF batch = <<>> THEN 0 ELSE elapsed

TimedRecv ==
  /\ Recv
  /\ ResetSleeper
  /\ age' = IF batch = <<>> THEN 0 ELSE age

(* The sleeper is ready once max_wait_time has passed since its reset, and  *)
(* stays ready until it is reset again.                                    *)
SleeperReady == elapsed >= MaxWait

TimedTimeout ==
  /\ SleeperReady
  /\ Timeout
  /\ UNCHANGED <<elapsed, age>>

TimedEngine ==
  \/ TimedRecv
  \/ TimedTimeout
  \/ (RecvClosed \/ Flush \/ FlushFails) /\ UNCHANGED <<elapsed, age>>

TimedTake == Take /\ UNCHANGED <<elapsed, age>>

(* Time passes, whatever the tasks are doing. *)
Tick ==
  /\ elapsed' = OneMore(elapsed)
  /\ age' = OneMore(age)
  /\ UNCHANGED vars

TimedNext ==
  \/ TimedEngine
  \/ (\E i \in Items : ~Inside(i) /\ Send(i)) /\ UNCHANGED <<elapsed, age>>
  \/ TimedTake
  \/ (ConsumerGone \/ SendersGone) /\ UNCHANGED <<elapsed, age>>
  \/ Tick

TimedFairness ==
  WF_timedVars(TimedEngine) /\ WF_timedVars(TimedTake) /\ WF_timedVars(Tick)

TimedSpec == TimedInit /\ [][TimedNext]_timedVars /\ TimedFairness

-----------------------------------------------------------------------------
TimedTypeOK ==
  /\ TypeOK
  /\ elapsed \in 0..MaxWait
  /\ age \in 0..MaxWait

(* A batch that is flushed before it is full has waited for the whole of    *)
(* max_wait_time since its first item: the sleeper left over from an earlier *)
(* batch, which may have elapsed long ago, never cuts a new one short       *)
(* (batcher.rs:39-41 and 54).                                              *)
NoEarlyFlush ==
  [][ engine = "select" /\ engine' = "flush" /\ Len(batch') < Limit
        => age >= MaxWait ]_timedVars

(* A batch whose first item has waited for max_wait_time may always be      *)
(* flushed at once when the engine is in select!: the sleeper never runs    *)
(* behind, as it would if later items reset it too.                        *)
FlushDueInTime ==
  engine = "select" /\ batch # <<>> /\ age >= MaxWait => SleeperReady

(* With the clock too, every item leaves the engine.                       *)
EveryItemLeavesInTime == EveryItemLeaves
=============================================================================
