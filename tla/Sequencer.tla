------------------------------ MODULE Sequencer ------------------------------
(***************************************************************************)
(* The sequencer process: gRPC handlers (rpc/service.rs), one Batcher and   *)
(* one worker task (rpc/worker.rs) for submissions, another pair for        *)
(* updates, and the store the two workers share (RocksStore).  Every task   *)
(* runs on its own; they meet in the channels, in the oneshot each call     *)
(* waits for, and in the store.                                            *)
(***************************************************************************)
EXTENDS Integers, Sequences, FiniteSets

CONSTANTS
  Requests,       \* calls that clients make, one each
  Calls,          \* what a call may carry, see SubmitCall and UpdateCall
  Leaves,         \* 32-byte certificate roots
  Malformed,      \* bytes of another length
  Zero,           \* the all-zero digest
  None,
  MaxBatchSize, InCap, OutCap,
  LastSeq, OverflowChecks, ReadFaults, CounterFaults, WriteFaults,
  StoredAtStart,  \* what earlier runs of the process may have inserted, each
                  \* a sequence of leaf vectors
  MaxCrashes      \* bound on the crashes that are explored

VARIABLES
  call,           \* what each request carries, None before it is made
  stage,          \* where its handler is
  answer,         \* what the worker sent into its oneshot
  reply,          \* the response of its handler
  subInq, subBatch, subOutq, subEngine,   \* Batcher for submissions
  updInq, updBatch, updOutq, updEngine,   \* Batcher for updates
  subWorker,      \* locals of the submission worker
  updWorker,      \* locals of the update worker
  latest, rootOf, leavesOf, index,        \* RocksDB records
  ins, upd,                               \* calls of the store being served
  committed,      \* history: the requests of each batch written by insert
  applied,        \* history: updates whose pair was written to some slot
  faulted,        \* history: a read or write of the store failed
  crashes         \* number of crashes so far

handlers == <<call, stage, answer, reply>>
subLane == <<subInq, subBatch, subOutq, subEngine>>
updLane == <<updInq, updBatch, updOutq, updEngine>>
records == <<latest, rootOf, leavesOf, index>>
store == <<records, ins, upd>>
history == <<committed, applied, faulted, crashes>>
vars == <<handlers, subLane, updLane, subWorker, updWorker, store, history>>

SubmitCall == [kind : {"submit"}, root : Leaves \cup {Malformed},
               verdict : {"valid", "invalid", "error"}]
UpdateCall == [kind : {"update"}, old : Leaves \cup {Malformed},
               new : Leaves \cup {Malformed}, seq : Nat]

Statuses == {"Accepted", "InternalError", "InvalidSignature"}

ASSUME SequencerAssumption ==
  /\ \A c \in Calls : c \in SubmitCall \/ c \in UpdateCall
  /\ Malformed \notin Leaves
  /\ None \notin Calls \cup [ok : BOOLEAN, seq : Nat] \cup [status : Statuses, seq : Nat]
  /\ MaxBatchSize \in Nat /\ {InCap, OutCap, LastSeq} \subseteq Nat \ {0}
  /\ {OverflowChecks, ReadFaults, CounterFaults, WriteFaults} \subseteq BOOLEAN
  /\ MaxCrashes \in Nat
  /\ \A stored \in StoredAtStart :
       stored \in Seq(Seq(Leaves) \ {<<>>}) /\ Len(stored) <= LastSeq

-----------------------------------------------------------------------------
SubQ == INSTANCE Batcher WITH
          Items <- Requests,
          inq <- subInq, batch <- subBatch, outq <- subOutq, engine <- subEngine,
          senders <- TRUE, consumer <- subWorker.phase # "gone"

UpdQ == INSTANCE Batcher WITH
          Items <- Requests,
          inq <- updInq, batch <- updBatch, outq <- updOutq, engine <- updEngine,
          senders <- TRUE, consumer <- TRUE

Store == INSTANCE RocksStore WITH
           Roots <- {}, Batches <- {}, Changes <- {}

Tree == INSTANCE Merkle
Batch == INSTANCE UpdateBatch

Ok(n) == [ok |-> TRUE, seq |-> n]
Err == [ok |-> FALSE, seq |-> 0]

Response(status, n) == [status |-> status, seq |-> n]
InternalError == Response("InternalError", 0)
InvalidSignature == Response("InvalidSignature", 0)

Listening == [phase |-> "recv"]
CallsOf(items) == [k \in DOMAIN items |-> call[items[k]]]

(* The database as inserts alone leave it. *)
Opened(stored) ==
  LET numbers == DOMAIN stored
      holding(x) == {n \in numbers : SubQ!Holds(stored[n], x)}
  IN /\ latest = Len(stored)
     /\ rootOf = [n \in numbers |-> Tree!MerkleRoot(stored[n])]
     /\ leavesOf = stored
     /\ index = [x \in {y \in Leaves : holding(y) # {}} |-> Batch!Max(holding(x))]
     /\ committed = [n \in numbers |-> <<>>]

Init ==
  /\ call = [r \in Requests |-> None]
  /\ stage = [r \in Requests |-> "idle"]
  /\ answer = [r \in Requests |-> None]
  /\ reply = [r \in Requests |-> None]
  /\ subWorker = Listening
  /\ updWorker = Listening
  /\ SubQ!Init
  /\ UpdQ!Init
  /\ \E stored \in StoredAtStart : Opened(stored)
  /\ ins = Store!Idle
  /\ upd = Store!Idle
  /\ applied = {}
  /\ faulted = FALSE
  /\ crashes = 0

-----------------------------------------------------------------------------
(* Handlers. *)

(* What submit_root makes of the verdict on a signature. *)
Judgement == [valid |-> None, invalid |-> InvalidSignature, error |-> InternalError]

(* Mutation of Refusal: the length of the root is not checked. *)
RefusalBySignature(c) == IF c.kind = "update" THEN None ELSE Judgement[c.verdict]

(* What submit_root answers before it queues anything, if it does: the      *)
(* length of the root is checked first, then the signature.                *)
Refusal(c) ==
  IF c.kind = "update" THEN None
  ELSE IF c.root = Malformed THEN InvalidSignature
  ELSE Judgement[c.verdict]

Make(r, c) ==
  /\ stage[r] = "idle"
  /\ call' = [call EXCEPT ![r] = c]
  /\ stage' = [stage EXCEPT ![r] = IF Refusal(c) = None THEN "sending" ELSE "done"]
  /\ reply' = [reply EXCEPT ![r] = Refusal(c)]
  /\ UNCHANGED <<answer, subLane, updLane, subWorker, updWorker, store, history>>

IsSubmit(r) == call[r].kind = "submit"

(* send(item).await completes. *)
SendSubmission(r) ==
  /\ stage[r] = "sending" /\ IsSubmit(r)
  /\ stage' = [stage EXCEPT ![r] = "waiting"]
  /\ UNCHANGED <<call, answer, reply, updLane, subWorker, updWorker, store, history>>
  /\ SubQ!Send(r)

SendUpdate(r) ==
  /\ stage[r] = "sending" /\ ~IsSubmit(r)
  /\ stage' = [stage EXCEPT ![r] = "waiting"]
  /\ UNCHANGED <<call, answer, reply, subLane, subWorker, updWorker, store, history>>
  /\ UpdQ!Send(r)

Finish(r, response) ==
  /\ stage' = [stage EXCEPT ![r] = "done"]
  /\ reply' = [reply EXCEPT ![r] = response]
  /\ answer' = [answer EXCEPT ![r] = None]
  /\ UNCHANGED <<call, subLane, updLane, subWorker, updWorker, store, history>>

(* The engine is gone and its channel closed. *)
SendFails(r) ==
  /\ stage[r] = "sending"
  /\ (IF IsSubmit(r) THEN subEngine ELSE updEngine) = "stopped"
  /\ Finish(r, InternalError)

(* The oneshot holds an answer. *)
Return(r) ==
  /\ stage[r] = "waiting"
  /\ answer[r] # None
  /\ Finish(r, IF answer[r].ok THEN Response("Accepted", answer[r].seq) ELSE InternalError)

Working(worker, r) == worker.phase \in {"load", "store", "apply", "write", "reply"}
                        /\ SubQ!Holds(worker.items, r)

(* The sending half of r's oneshot is still in somebody's hands. *)
Pending(r) ==
  SubQ!Inside(r) \/ UpdQ!Inside(r) \/ Working(subWorker, r) \/ Working(updWorker, r)

(* It was dropped without an answer. *)
WorkerDropped(r) ==
  /\ stage[r] = "waiting"
  /\ answer[r] = None
  /\ ~Pending(r)
  /\ Finish(r, InternalError)

(* The client goes away and the handler is dropped, wherever it waits; an   *)
(* item it has sent already stays in the lane.                             *)
Cancel(r) ==
  /\ stage[r] \in {"sending", "waiting"}
  /\ stage' = [stage EXCEPT ![r] = "cancelled"]
  /\ answer' = [answer EXCEPT ![r] = None]
  /\ UNCHANGED <<call, reply, subLane, updLane, subWorker, updWorker, store, history>>

Handler(r) ==
  SendSubmission(r) \/ SendUpdate(r) \/ SendFails(r) \/ Return(r) \/ WorkerDropped(r)

-----------------------------------------------------------------------------
(* Engines. *)

SubEngine ==
  /\ UNCHANGED <<handlers, updLane, subWorker, updWorker, store, history>>
  /\ SubQ!Recv \/ SubQ!Timeout \/ SubQ!Flush \/ SubQ!FlushFails

UpdEngine ==
  /\ UNCHANGED <<handlers, subLane, subWorker, updWorker, store, history>>
  /\ UpdQ!Recv \/ UpdQ!Timeout \/ UpdQ!Flush

-----------------------------------------------------------------------------
(* The submission worker. *)

WithResult(worker, result) ==
  [phase |-> "reply", items |-> worker.items, result |-> result]

(* Mutation of Deliver: nobody looks whether the handler still waits. *)
DeliverBlindly(r, a) == answer' = [answer EXCEPT ![r] = a]

(* The answer reaches the handler if that still waits; otherwise the send   *)
(* fails and the failure is only logged.                                   *)
Deliver(r, a) ==
  answer' = IF stage[r] = "waiting" THEN [answer EXCEPT ![r] = a] ELSE answer

AfterReply(worker) ==
  IF Len(worker.items) = 1 THEN Listening
                           ELSE [worker EXCEPT !.items = Tail(@)]

SubLeaves == [k \in DOMAIN subWorker.items |-> call[subWorker.items[k]].root]

(* A batch is received and made a tree, which fails if a root is not 32     *)
(* bytes long.                                                             *)
SubReceive ==
  /\ subWorker = Listening
  /\ subOutq # <<>>
  /\ LET items == Head(subOutq)
         whole == \A k \in DOMAIN items : call[items[k]].root \in Leaves
     IN subWorker' = IF whole THEN [phase |-> "store", items |-> items]
                              ELSE WithResult([items |-> items], Err)
  /\ UNCHANGED <<handlers, updLane, updWorker, store, history>>
  /\ SubQ!Take

(* insert(): the number is chosen... *)
SubBegin ==
  /\ subWorker.phase = "store"
  /\ Store!InsertBegin(Tree!MerkleRoot(SubLeaves), SubLeaves)
  /\ UNCHANGED <<handlers, subLane, updLane, subWorker, updWorker, history>>

(* ... and the batch is written. *)
SubCommit ==
  /\ subWorker.phase = "store"
  /\ Store!InsertWrite
  /\ subWorker' = WithResult(subWorker, Ok(ins.seq))
  /\ committed' = Store!Put(ins.seq, subWorker.items, committed)
  /\ UNCHANGED <<handlers, subLane, updLane, updWorker, applied, faulted, crashes>>

(* Mutation of SubStoreFails: the error of insert is ignored. *)
SubIgnoresStoreError ==
  /\ subWorker.phase = "store"
  /\ Store!InsertFails
  /\ subWorker' = WithResult(subWorker, Ok(ins.seq))
  /\ faulted' = TRUE
  /\ UNCHANGED <<handlers, subLane, updLane, updWorker, committed, applied, crashes>>

SubStoreFails ==
  /\ subWorker.phase = "store"
  /\ Store!InsertFails
  /\ subWorker' = WithResult(subWorker, Err)
  /\ faulted' = TRUE
  /\ UNCHANGED <<handlers, subLane, updLane, updWorker, committed, applied, crashes>>

(* The number overflows and the task panics: its batch, the batches queued  *)
(* behind it and all their oneshots are dropped.                           *)
SubPanics ==
  /\ subWorker.phase = "store"
  /\ ins = Store!Idle
  /\ Store!InsertOverflows
  /\ subWorker' = [phase |-> "gone"]
  /\ UNCHANGED <<handlers, updLane, updWorker, store, history>>
  /\ SubQ!ConsumerGone

(* Mutation of SubReply: a handler that is gone ends the round of answers.  *)
SubReplyGivesUp ==
  /\ subWorker.phase = "reply"
  /\ Deliver(Head(subWorker.items), subWorker.result)
  /\ subWorker' = IF stage[Head(subWorker.items)] = "waiting" THEN AfterReply(subWorker)
                                                              ELSE Listening
  /\ UNCHANGED <<call, stage, reply, subLane, updLane, updWorker, store, history>>

SubReply ==
  /\ subWorker.phase = "reply"
  /\ Deliver(Head(subWorker.items), subWorker.result)
  /\ subWorker' = AfterReply(subWorker)
  /\ UNCHANGED <<call, stage, reply, subLane, updLane, updWorker, store, history>>

SubWorker ==
  SubReceive \/ SubBegin \/ SubCommit \/ SubStoreFails \/ SubPanics \/ SubReply

-----------------------------------------------------------------------------
(* The update worker. *)

UpdReceive ==
  /\ updWorker = Listening
  /\ updOutq # <<>>
  /\ updWorker' = [phase |-> "load", items |-> Head(updOutq)]
  /\ UNCHANGED <<handlers, subLane, subWorker, store, history>>
  /\ UpdQ!Take

Named == Batch!SequenceNumbers(CallsOf(updWorker.items))

(* Mutation of UpdLoad: batches that do not exist are left out. *)
UpdLoadsWhatExists ==
  /\ updWorker.phase = "load"
  /\ updWorker' = [phase |-> "apply", items |-> updWorker.items,
                   loaded |-> [s \in Named \cap DOMAIN leavesOf |-> leavesOf[s]]]
  /\ UNCHANGED <<handlers, subLane, updLane, subWorker, store, history>>

(* get_leaves_set_by_seq_number: all batches that are named, or an error.   *)
UpdLoad ==
  /\ updWorker.phase = "load"
  /\ Named \subseteq DOMAIN leavesOf
  /\ updWorker' = [phase |-> "apply", items |-> updWorker.items,
                   loaded |-> [s \in Named |-> leavesOf[s]]]
  /\ UNCHANGED <<handlers, subLane, updLane, subWorker, store, history>>

UpdLoadMisses ==
  /\ updWorker.phase = "load"
  /\ ~(Named \subseteq DOMAIN leavesOf)
  /\ updWorker' = WithResult(updWorker, Err)
  /\ UNCHANGED <<handlers, subLane, updLane, subWorker, store, history>>

UpdLoadFails ==
  /\ ReadFaults
  /\ updWorker.phase = "load"
  /\ updWorker' = WithResult(updWorker, Err)
  /\ faulted' = TRUE
  /\ UNCHANGED <<handlers, subLane, updLane, subWorker, store, committed, applied, crashes>>

Changes ==
  Batch!ChangesOf(updWorker.loaded, Batch!Replacements(CallsOf(updWorker.items)))

(* Nothing to replace: nothing is written and every call succeeds. *)
UpdSkip ==
  /\ updWorker.phase = "apply"
  /\ DOMAIN Changes = {}
  /\ updWorker' = WithResult(updWorker, Ok(0))
  /\ UNCHANGED <<handlers, subLane, updLane, subWorker, store, history>>

UpdBegin ==
  /\ updWorker.phase = "apply"
  /\ DOMAIN Changes # {}
  /\ Store!UpdateBegin(Changes)
  /\ updWorker' = [updWorker EXCEPT !.phase = "write"]
  /\ UNCHANGED <<handlers, subLane, updLane, subWorker, history>>

UpdRead(s) ==
  /\ Store!UpdateRead(s)
  /\ UNCHANGED <<handlers, subLane, updLane, subWorker, updWorker, history>>

(* The pairs of these calls are the ones that were written somewhere. *)
Written ==
  {r \in Requests :
     /\ SubQ!Holds(updWorker.items, r)
     /\ \E s \in DOMAIN upd.changes : \E i \in DOMAIN upd.changes[s] :
          updWorker.loaded[s][i] = call[r].old /\ upd.changes[s][i] = call[r].new}

UpdCommit ==
  /\ updWorker.phase = "write"
  /\ Store!UpdateWrite
  /\ updWorker' = WithResult(updWorker, Ok(0))
  /\ applied' = applied \cup Written
  /\ UNCHANGED <<handlers, subLane, updLane, subWorker, committed, faulted, crashes>>

UpdStoreFails ==
  /\ updWorker.phase = "write"
  /\ Store!UpdateStops \/ Store!UpdateFails
  /\ updWorker' = WithResult(updWorker, Err)
  /\ faulted' = TRUE
  /\ UNCHANGED <<handlers, subLane, updLane, subWorker, committed, applied, crashes>>

(* Each call is answered with the number it named itself. *)
UpdReply ==
  /\ updWorker.phase = "reply"
  /\ LET r == Head(updWorker.items)
     IN Deliver(r, IF updWorker.result.ok THEN Ok(call[r].seq) ELSE Err)
  /\ updWorker' = AfterReply(updWorker)
  /\ UNCHANGED <<call, stage, reply, subLane, updLane, subWorker, store, history>>

UpdWorker ==
  \/ UpdReceive \/ UpdLoad \/ UpdLoadMisses \/ UpdLoadFails \/ UpdSkip \/ UpdBegin
  \/ \E s \in 0..LastSeq : UpdRead(s)
  \/ UpdCommit \/ UpdStoreFails \/ UpdReply

-----------------------------------------------------------------------------
(* The process is killed and started again: only the records of RocksDB     *)
(* remain, each WriteBatch as a whole.                                     *)
Crash ==
  /\ crashes < MaxCrashes
  /\ crashes' = crashes + 1
  /\ stage' = [r \in Requests |->
                 IF stage[r] \in {"sending", "waiting"} THEN "lost" ELSE stage[r]]
  /\ answer' = [r \in Requests |-> None]
  /\ subInq' = <<>> /\ subBatch' = <<>> /\ subOutq' = <<>> /\ subEngine' = "select"
  /\ updInq' = <<>> /\ updBatch' = <<>> /\ updOutq' = <<>> /\ updEngine' = "select"
  /\ subWorker' = Listening
  /\ updWorker' = Listening
  /\ ins' = Store!Idle
  /\ upd' = Store!Idle
  /\ UNCHANGED <<call, reply, records, committed, applied, faulted>>

Next ==
  \/ \E r \in Requests, c \in Calls : Make(r, c)
  \/ \E r \in Requests : Handler(r) \/ Cancel(r)
  \/ SubEngine
  \/ UpdEngine
  \/ SubWorker
  \/ UpdWorker
  \/ Crash

(* The runtime polls every task that can make progress.  Clients owe        *)
(* nothing.                                                                *)
Fairness ==
  /\ \A r \in Requests : WF_vars(Handler(r))
  /\ WF_vars(SubEngine) /\ WF_vars(UpdEngine)
  /\ WF_vars(SubWorker) /\ WF_vars(UpdWorker)

Spec == Init /\ [][Next]_vars
FairSpec == Spec /\ Fairness

-----------------------------------------------------------------------------
Stages == {"idle", "sending", "waiting", "done", "cancelled", "lost"}

TypeOK ==
  /\ call \in [Requests -> Calls \cup {None}]
  /\ stage \in [Requests -> Stages]
  /\ \A r \in Requests :
       /\ answer[r] = None \/ answer[r] \in [ok : BOOLEAN, seq : Nat]
       /\ reply[r] = None \/ reply[r] \in [status : Statuses, seq : Nat]
       /\ stage[r] = "idle" <=> call[r] = None
       /\ stage[r] = "done" <=> reply[r] # None
       /\ answer[r] # None => stage[r] = "waiting"
  /\ SubQ!TypeOK
  /\ UpdQ!TypeOK
  /\ subWorker.phase \in {"recv", "store", "reply", "gone"}
  /\ updWorker.phase \in {"recv", "load", "apply", "write", "reply"}
  /\ latest \in 0..LastSeq
  /\ DOMAIN rootOf = DOMAIN leavesOf
  /\ committed \in [DOMAIN leavesOf -> Seq(Requests)]
  /\ applied \subseteq Requests
  /\ faulted \in BOOLEAN
  /\ crashes \in 0..MaxCrashes

In(r, items) == SubQ!Holds(items, r)
Committed(r) == \E n \in DOMAIN committed : In(r, committed[n])

(* Answered(r, status): the response of r is or will be of this status. *)
Answered(r, status) ==
  \/ reply[r] # None /\ reply[r].status = status
  \/ answer[r] # None /\ status = IF answer[r].ok THEN "Accepted" ELSE "InternalError"

AcceptedAs(r, n) == reply[r] = Response("Accepted", n) \/ answer[r] = Ok(n)

(* A submission that is told "accepted, batch n" is in batch n of the       *)
(* store, whatever happened to its handler, its lane or the process since   *)
(* (worker.rs:50-64, service.rs:71-76).                                    *)
AcceptedMeansCommitted ==
  \A r \in Requests : call[r] # None /\ IsSubmit(r) /\ Answered(r, "Accepted") =>
    \E n \in DOMAIN committed : AcceptedAs(r, n) /\ In(r, committed[n])

(* A submission or an update that is told of an error has had no effect, so *)
(* it may be made again: not the failure of a neighbour in the batch, not a *)
(* dropped worker and not a closed channel ever reports an error for what   *)
(* was written (worker.rs:30-57, 76-89; service.rs:62-92, 114-143).        *)
ErrorMeansNoEffect ==
  \A r \in Requests : Answered(r, "InternalError") => ~Committed(r) /\ r \notin applied

(* Nothing enters the store twice: not through the hand-over of the batch   *)
(* buffer between flushes, nor through a crash between the write and the    *)
(* answers (batcher.rs:63-69, worker.rs:50-65).                            *)
CommittedOnce ==
  \A m, n \in DOMAIN committed :
    \A i \in DOMAIN committed[m], j \in DOMAIN committed[n] :
      committed[m][i] = committed[n][j] => m = n /\ i = j

(* A well-formed, correctly signed submission fails only with the store or  *)
(* after the sequence numbers are used up: never because of what it is      *)
(* batched with (worker.rs:39-57).                                         *)
NoInnocentFailure ==
  \A r \in Requests :
    Answered(r, "InternalError") /\ IsSubmit(r) /\ call[r].verdict = "valid" =>
      faulted \/ latest = LastSeq

(* The leaves the update worker loaded are still the ones in the store when *)
(* it writes, although it waits in between and the submission worker goes   *)
(* on writing: the indices it computed address the leaves it saw            *)
(* (worker.rs:126-190).                                                    *)
LoadedCurrent ==
  updWorker.phase \in {"apply", "write"} =>
    \A s \in DOMAIN updWorker.loaded :
      s \in DOMAIN leavesOf /\ leavesOf[s] = updWorker.loaded[s]

(* The assertion of build_multi_proof (merkle.rs:52) on the tree of all     *)
(* loaded leaves never fails: a batch of updates names a batch, and no      *)
(* batch is empty (worker.rs:128-134, 170).                                *)
TreeHasLeaf ==
  updWorker.phase = "apply" =>
    \E s \in DOMAIN updWorker.loaded : updWorker.loaded[s] # <<>>

(* Even if the counter is unreadable now and then, so that insert starts    *)
(* again from number one and overwrites what is there, no number is skipped *)
(* and the counter never runs ahead of the batches: every number handed out *)
(* names a whole record (rocks.rs:40-45, rocks_queries.rs:14-26).           *)
NumbersDense == Store!NumbersDense

(* What the two workers leave in the store, beside each other and across    *)
(* crashes, stays numbered, current and indexed.                           *)
StoreSound == Store!NumbersAligned /\ Store!CopiesCurrent /\ Store!IndexSound

(* A slot changes only as some update in the worker's batch asked, from its *)
(* old root to its new one, and only in a batch that this or another update *)
(* beside it named (worker.rs:136-167).                                    *)
OnlyRequestedChanges ==
  [][ \A s \in DOMAIN leavesOf : \A i \in DOMAIN leavesOf[s] :
        leavesOf'[s][i] # leavesOf[s][i] =>
          /\ s \in Named
          /\ \E r \in Requests :
               /\ In(r, updWorker.items)
               /\ call[r].old = leavesOf[s][i]
               /\ call[r].new = leavesOf'[s][i] ]_vars

(* Every call is answered or given up by its client: neither lane can hold  *)
(* a request for ever, even if the submission worker dies                  *)
(* (service.rs:62-92, batcher.rs:34-60).                                   *)
EveryCallAnswered ==
  \A r \in Requests : stage[r] \in {"sending", "waiting"} ~> stage[r] \in {"done", "cancelled"}

-----------------------------------------------------------------------------
(* What the repository says and the code does not do. *)

(* "credential membership is proved against this aggregated global root"    *)
(* (README.md:66): the root on record is the root of the leaves.           *)
StoredRootIsCurrent ==
  \A n \in DOMAIN leavesOf : rootOf[n] = Tree!MerkleRoot(leavesOf[n])

(* The client reports an accepted update as "old -> new, done"              *)
(* (client.rs:231-236): the pair of an accepted update was written.        *)
AcceptedUpdateApplied ==
  \A r \in Requests :
    call[r] # None /\ ~IsSubmit(r) /\ Answered(r, "Accepted") => r \in applied

(* get_leaves_set_by_seq_number is "equivalent to SELECT ... WHERE           *)
(* sequence_number = ANY($1)" (store.rs:25), which returns the rows that    *)
(* there are: an update whose batch is in the store is loaded, whatever     *)
(* batches the updates beside it name, unless the store fails.             *)
MissingBatchesSkipped ==
  [][ \A r \in Requests :
        /\ updWorker.phase = "load" /\ In(r, updWorker.items)
        /\ Batch!Truncate(call[r].seq) \in DOMAIN leavesOf
        /\ updWorker'.phase = "reply"
        => faulted' ]_vars
=============================================================================
