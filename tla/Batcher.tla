------------------------------- MODULE Batcher -------------------------------
(***************************************************************************)
(* The batching engine of the sequencer (batcher/batcher.rs) between its   *)
(* two bounded channels: handlers send items one at a time, a worker       *)
(* receives vectors of items.  Time is left out here (the sleeper may fire *)
(* whenever the batch is not empty); TimedBatcher adds the clock.          *)
(***************************************************************************)
EXTENDS Naturals, Sequences

CONSTANTS
  Items,          \* the items handlers send
  MaxBatchSize,   \* config.max_batch_size; zero is accepted by the code
  InCap,          \* capacity of the item channel (1024 in main.rs)
  OutCap          \* capacity of the batch channel (64 in main.rs)

ASSUME BatcherAssumption ==
  /\ MaxBatchSize \in Nat
  /\ InCap \in Nat \ {0}
  /\ OutCap \in Nat \ {0}

VARIABLES
  inq,       \* items in the item channel
  batch,     \* items held by the engine
  outq,      \* batches in the batch channel
  engine,    \* where run() is: in select!, in flush().await, in the last
             \* flush().await after the senders left, or returned
  senders,   \* whether a sender of the item channel is left
  consumer   \* whether the receiver of the batch channel is left

vars == <<inq, batch, outq, engine, senders, consumer>>

(* A batch is flushed as soon as its length reaches max_batch_size, a test *)
(* made after a push: with max_batch_size = 0 every item is its own batch. *)
Limit == IF MaxBatchSize = 0 THEN 1 ELSE MaxBatchSize

Holds(s, i) == \E k \in DOMAIN s : s[k] = i

Inside(i) ==
  Holds(inq, i) \/ Holds(batch, i) \/ \E k \in DOMAIN outq : Holds(outq[k], i)

Init ==
  /\ inq = <<>>
  /\ batch = <<>>
  /\ outq = <<>>
  /\ engine = "select"
  /\ senders = TRUE
  /\ consumer = TRUE

-----------------------------------------------------------------------------
EndsStay == senders' = senders /\ consumer' = consumer

(* Mutation of Send: the channel is unbounded. *)
SendUnbounded(i) ==
  /\ senders
  /\ engine # "stopped"
  /\ inq' = Append(inq, i)
  /\ UNCHANGED <<batch, outq, engine>> /\ EndsStay

(* A handler's send(item).await completes: the channel has a free slot and *)
(* its receiver still exists.                                              *)
Send(i) ==
  /\ senders
  /\ engine # "stopped"
  /\ Len(inq) < InCap
  /\ inq' = Append(inq, i)
  /\ UNCHANGED <<batch, outq, engine>> /\ EndsStay

(* The recv() branch of select! with Some(item): push it, and start a flush *)
(* when the batch is full.                                                 *)
Recv ==
  /\ engine = "select"
  /\ inq # <<>>
  /\ batch' = Append(batch, Head(inq))
  /\ inq' = Tail(inq)
  /\ engine' = IF Len(batch') >= MaxBatchSize THEN "flush" ELSE "select"
  /\ UNCHANGED <<outq>> /\ EndsStay

(* Mutation of RecvClosed: it breaks without the last flush(). *)
RecvClosedStops ==
  /\ engine = "select"
  /\ inq = <<>>
  /\ ~senders
  /\ engine' = "stopped"
  /\ UNCHANGED <<inq, batch, outq>> /\ EndsStay

(* The recv() branch with None: every sender is gone and the channel is     *)
(* empty.  An empty batch needs no flush and run() returns.                *)
RecvClosed ==
  /\ engine = "select"
  /\ inq = <<>>
  /\ ~senders
  /\ engine' = IF batch = <<>> THEN "stopped" ELSE "drain"
  /\ UNCHANGED <<inq, batch, outq>> /\ EndsStay

(* Mutation of Timeout: the sleeper does not serve a batch of one. *)
TimeoutNotForOne ==
  /\ engine = "select"
  /\ Len(batch) > 1
  /\ engine' = "flush"
  /\ UNCHANGED <<inq, batch, outq>> /\ EndsStay

(* The sleeper branch, guarded by a non-empty batch. *)
Timeout ==
  /\ engine = "select"
  /\ batch # <<>>
  /\ engine' = "flush"
  /\ UNCHANGED <<inq, batch, outq>> /\ EndsStay

(* Mutation of Flush: the batch is copied out instead of replaced. *)
FlushKeepsBatch ==
  /\ engine \in {"flush", "drain"}
  /\ consumer
  /\ Len(outq) < OutCap
  /\ outq' = Append(outq, batch)
  /\ engine' = IF engine = "flush" THEN "select" ELSE "stopped"
  /\ UNCHANGED <<inq, batch>> /\ EndsStay

(* flush(): send(full_batch).await completes. *)
Flush ==
  /\ engine \in {"flush", "drain"}
  /\ consumer
  /\ Len(outq) < OutCap
  /\ outq' = Append(outq, batch)
  /\ batch' = <<>>
  /\ engine' = IF engine = "flush" THEN "select" ELSE "stopped"
  /\ UNCHANGED <<inq>> /\ EndsStay

(* Mutation of FlushFails: the engine outlives run() and keeps what it has. *)
FlushFailsKeepsItems ==
  /\ engine \in {"flush", "drain"}
  /\ ~consumer
  /\ engine' = "stopped"
  /\ UNCHANGED <<inq, batch, outq>> /\ EndsStay

(* flush(): the receiver of batches is gone.  The error carries the batch,  *)
(* run() drops it and returns, and the task drops the item channel.        *)
FlushFails ==
  /\ engine \in {"flush", "drain"}
  /\ ~consumer
  /\ inq' = <<>>
  /\ batch' = <<>>
  /\ engine' = "stopped"
  /\ UNCHANGED <<outq>> /\ EndsStay

(* The worker receives a batch. *)
Take ==
  /\ outq # <<>>
  /\ outq' = Tail(outq)
  /\ UNCHANGED <<inq, batch, engine>> /\ EndsStay

(* The worker task ends (a panic): its receiver and all queued batches are  *)
(* dropped.                                                                *)
ConsumerGone ==
  /\ consumer
  /\ consumer' = FALSE
  /\ outq' = <<>>
  /\ UNCHANGED <<inq, batch, engine>> /\ senders' = senders

(* The server, the only holder of senders, is dropped. *)
SendersGone ==
  /\ senders
  /\ senders' = FALSE
  /\ UNCHANGED <<inq, batch, outq, engine>> /\ consumer' = consumer

Engine == Recv \/ RecvClosed \/ Timeout \/ Flush \/ FlushFails

Next ==
  \/ \E i \in Items : ~Inside(i) /\ Send(i)
  \/ Engine
  \/ Take
  \/ ConsumerGone
  \/ SendersGone

(* The runtime keeps polling a task that can make progress: the engine and, *)
(* as long as it lives, the worker.                                        *)
Fairness == WF_vars(Engine) /\ WF_vars(Take)

Spec == Init /\ [][Next]_vars /\ Fairness

-----------------------------------------------------------------------------
TypeOK ==
  /\ inq \in Seq(Items)
  /\ Len(inq) <= InCap
  /\ batch \in Seq(Items)
  /\ outq \in Seq(Seq(Items))
  /\ Len(outq) <= OutCap
  /\ engine \in {"select", "flush", "drain", "stopped"}
  /\ senders \in BOOLEAN
  /\ consumer \in BOOLEAN

(* Every batch a worker can receive has between one and Limit items: the    *)
(* worker's MerkleTree is never built over an empty vector (run() and       *)
(* flush(), batcher.rs:28-69).                                             *)
BatchesWellFormed ==
  \A k \in DOMAIN outq : Len(outq[k]) \in 1..Limit

(* A full batch never goes back to wait in select!: only partial batches   *)
(* depend on the sleeper (batcher.rs:44).                                  *)
FullBatchNeverWaits ==
  engine = "select" => Len(batch) < Limit

(* Once run() has returned nothing is left inside: every item was passed on *)
(* or dropped, so no handler waits for an answer that cannot come           *)
(* (batcher.rs:44-57 and the drop of both channel ends).                   *)
NothingStranded ==
  engine = "stopped" => inq = <<>> /\ batch = <<>>

(* The engine keeps the promise of BatchPipe: what it holds and what is in  *)
(* its item channel, in this order, are the pending items.                 *)
Pipe == INSTANCE BatchPipe WITH
          pending <- batch \o inq,
          batches <- outq

PipeSpec == Pipe!Spec

(* Every item that entered is eventually passed on or dropped with the      *)
(* channel, whatever else arrives: a partial batch cannot wait forever.    *)
EveryItemLeaves ==
  \A i \in Items : Holds(inq \o batch, i) ~> ~Holds(inq \o batch, i)
=============================================================================
