-------------------------- MODULE DemoClientProofs --------------------------
(***************************************************************************)
(* Theorems about DemoClient for any number of issuers: what the client     *)
(* reports as done is in the database, whatever else the server does.       *)
(***************************************************************************)
EXTENDS DemoClient, SequencerProofs

Pairs == 1..Issuers

LEMMA CallFields ==
  /\ \A i : Submission(i).kind = "submit" /\ Submission(i).root = rootOfIssuer[i]
  /\ \A i, n : /\ Update(i, n).kind = "update" /\ Update(i, n).seq = n
               /\ Update(i, n).old = rootOfIssuer[i] /\ Update(i, n).new = newRootOfIssuer[i]
  BY DEF Submission, Update

LEMMA DemoParameters ==
  /\ \A i \in Pairs : /\ submitOf[i] \in Requests /\ updateOf[i] \in Requests
                      /\ rootOfIssuer[i] \in Leaves /\ newRootOfIssuer[i] \in Leaves
  /\ \A i, j \in Pairs : /\ submitOf[i] # updateOf[j] /\ rootOfIssuer[i] # newRootOfIssuer[j]
                         /\ submitOf[i] = submitOf[j] => i = j
                         /\ updateOf[i] = updateOf[j] => i = j
                         /\ rootOfIssuer[i] = rootOfIssuer[j] => i = j
  /\ \A i \in Pairs : Submission(i) \in Calls
  /\ \A i \in Pairs, n \in 0..LastSeq : Update(i, n) \in Calls
<1>1. /\ submitOf \in [Pairs -> Requests] /\ updateOf \in [Pairs -> Requests]
      /\ rootOfIssuer \in [Pairs -> Leaves] /\ newRootOfIssuer \in [Pairs -> Leaves]
  BY DemoAssumption DEF Pairs
<1>2. DemoCalls \subseteq Calls
  BY DemoAssumption
<1>3. \A i \in Pairs : Submission(i) \in DemoCalls
  BY DEF DemoCalls, Pairs
<1>4. \A i \in Pairs, n \in 0..LastSeq : Update(i, n) \in DemoCalls
  BY DEF DemoCalls, Pairs
<1>5. \A i, j \in Pairs : /\ submitOf[i] # updateOf[j] /\ rootOfIssuer[i] # newRootOfIssuer[j]
                          /\ submitOf[i] = submitOf[j] => i = j
                          /\ updateOf[i] = updateOf[j] => i = j
                          /\ rootOfIssuer[i] = rootOfIssuer[j] => i = j
  BY DemoAssumption DEF Pairs
<1>6. QED
  BY <1>1, <1>2, <1>3, <1>4, <1>5

-----------------------------------------------------------------------------
(* Facts about the server alone. *)

(* An update that its client is or will be told was accepted. *)
Told(r) == Answered(r, "Accepted") \/ (UpdHeld(r) /\ Succeeded(updWorker))

LEMMA ToldFrame ==
  ASSUME NEW r, answer'[r] = answer[r], reply'[r] = reply[r], UNCHANGED updWorker
  PROVE  Told(r)' = Told(r)
<1>1. UpdHeld(r)' = UpdHeld(r) /\ Succeeded(updWorker)' = Succeeded(updWorker)
  BY DEF UpdHeld, UpdHands, Succeeded
<1>2. Answered(r, "Accepted")' = Answered(r, "Accepted")
  BY DEF Answered
<1>3. QED
  BY <1>1, <1>2 DEF Told

(* Handlers: the answer of the worker is what is passed on. *)
LEMMA ToldHandler ==
  ASSUME IInv, NEW x \in Requests, Handler(x) \/ Cancel(x), NEW r \in Requests, Told(r)'
  PROVE  Told(r)
<1>1. UNCHANGED updWorker /\ call' = call
  BY DEF Handler, SendSubmission, SendUpdate, SendFails, Return, WorkerDropped, Finish, Cancel
<1>2. answer \in [Requests -> Answers \cup {None}]
      /\ reply \in [Requests -> [status : Statuses, seq : Nat] \cup {None}]
  BY DEF IInv, HandlersType
<1>3. CASE SendSubmission(x) \/ SendUpdate(x)
  BY <1>1, <1>3, ToldFrame DEF SendSubmission, SendUpdate
<1>4. ASSUME NEW response, Finish(x, response), x # r
      PROVE  Told(r)
  <2>1. answer'[r] = answer[r] /\ reply'[r] = reply[r]
    BY <1>2, <1>4 DEF Finish
  <2>2. QED
    BY <1>1, <2>1, ToldFrame
<1>5. ASSUME Finish(r, InternalError)
      PROVE  Told(r)
  <2>1. answer'[r] = None /\ reply'[r] = InternalError
    BY <1>2, <1>5 DEF Finish
  <2>2. ~Answered(r, "Accepted")'
    BY <2>1, Records DEF Answered
  <2>3. UpdHeld(r)' = UpdHeld(r) /\ Succeeded(updWorker)' = Succeeded(updWorker)
    BY <1>1 DEF UpdHeld, UpdHands, Succeeded
  <2>4. QED
    BY <2>2, <2>3 DEF Told
<1>6. CASE SendFails(x) \/ WorkerDropped(x)
  BY <1>4, <1>5, <1>6 DEF SendFails, WorkerDropped
<1>7. CASE Return(x)
  <2>1. CASE x # r
    BY <1>4, <1>7, <2>1 DEF Return
  <2>2. CASE x = r /\ answer[r].ok
    BY <1>7, <2>2 DEF Return, Told, Answered
  <2>3. CASE x = r /\ ~answer[r].ok
    BY <1>5, <1>7, <2>3 DEF Return
  <2>4. QED
    BY <2>1, <2>2, <2>3
<1>8. CASE Cancel(x)
  <2>1. reply' = reply /\ (answer'[r] = answer[r] \/ answer'[r] = None)
    BY <1>2, <1>8 DEF Cancel
  <2>2. Answered(r, "Accepted")' => Answered(r, "Accepted")
    BY <2>1 DEF Answered
  <2>3. UpdHeld(r)' = UpdHeld(r) /\ Succeeded(updWorker)' = Succeeded(updWorker)
    BY <1>1 DEF UpdHeld, UpdHands, Succeeded
  <2>4. QED
    BY <2>2, <2>3 DEF Told
<1>9. QED
  BY <1>3, <1>6, <1>7, <1>8 DEF Handler

(* A new call is told nothing. *)
LEMMA ToldMake ==
  ASSUME IInv, IInv', NEW x \in Requests, NEW c \in Calls, Make(x, c),
         NEW r \in Requests, ~IsSubmit(r)', Told(r)'
  PROVE  Told(r)
<1>1. UNCHANGED <<answer, updWorker>> /\ stage[x] = "idle"
      /\ call' = [call EXCEPT ![x] = c] /\ reply' = [reply EXCEPT ![x] = Refusal(c)]
      /\ stage' = [stage EXCEPT ![x] = IF Refusal(c) = None THEN "sending" ELSE "done"]
  BY DEF Make
<1>2. /\ reply \in [Requests -> [status : Statuses, seq : Nat] \cup {None}]
      /\ call \in [Requests -> Calls \cup {None}] /\ stage \in [Requests -> Stages]
  BY DEF IInv, HandlersType
<1>3. CASE x # r
  <2>1. reply'[r] = reply[r]
    BY <1>1, <1>2, <1>3
  <2>2. QED
    BY <1>1, <2>1, ToldFrame
<1>4. CASE x = r
  <2>1. call'[r] = c
    BY <1>1, <1>2, <1>4
  <2>2. c.kind = "update"
    BY <2>1, CallKinds DEF IsSubmit
  <2>3. Refusal(c) = None
    BY <2>2 DEF Refusal
  <2>4. reply'[r] = None /\ stage'[r] = "sending"
    BY <1>1, <1>2, <1>4, <2>3
  <2>5. answer'[r] = None /\ ~UpdHeld(r)'
    BY <2>4 DEF IInv, RequestInv, HandlerInv, PlaceInv
  <2>6. QED
    BY <2>4, <2>5 DEF Told, Answered
<1>5. QED
  BY <1>3, <1>4

(* The submission worker answers submissions only. *)
LEMMA ToldSubWorker ==
  ASSUME IInv, SubWorker, NEW r \in Requests, ~IsSubmit(r), Told(r)'
  PROVE  Told(r)
<1>1. CASE SubReceive \/ SubBegin \/ SubCommit \/ SubStoreFails \/ SubPanics
  <2>1. UNCHANGED <<answer, reply, updWorker>>
    BY <1>1 DEF SubReceive, SubBegin, SubCommit, SubStoreFails, SubPanics, handlers
  <2>2. QED
    BY <2>1, ToldFrame
<1>2. CASE SubReply
  <2>1. /\ subWorker.phase = "reply" /\ UNCHANGED <<reply, updWorker>>
        /\ Deliver(Head(subWorker.items), subWorker.result)
    BY <1>2 DEF SubReply
  <2>2. subWorker \in [phase : {"reply"}, items : Vectors, result : Answers]
    BY <2>1 DEF IInv, WorkersType, Listening
  <2>3. PICK x \in Requests : x = Head(subWorker.items) /\ SubHeld(x)
    <3>1. subWorker.items \in Seq(Requests) /\ subWorker.items # <<>>
      BY <2>2 DEF Vectors
    <3>2. QED
      BY <2>1, <3>1, TailIs, InIs DEF SubHeld, SubHands
  <2>4. IsSubmit(x)
    BY <2>3 DEF IInv, RequestInv, PlaceInv
  <2>5. answer \in [Requests -> Answers \cup {None}]
    BY DEF IInv, HandlersType
  <2>6. answer'[r] = answer[r]
    BY <2>1, <2>3, <2>4, <2>5 DEF Deliver
  <2>7. QED
    BY <2>1, <2>6, ToldFrame
<1>3. QED
  BY <1>1, <1>2 DEF SubWorker

(* The update worker promises success when it writes, or has nothing to write. *)
LEMMA ToldUpdWorker ==
  ASSUME IInv, UpdWorker, NEW r \in Requests, Told(r)'
  PROVE  Told(r) \/ (UpdHeld(r) /\ (UpdCommit \/ UpdSkip))
<1>1. ASSUME UNCHANGED <<answer, reply>>, ~Succeeded(updWorker)'
      PROVE  Told(r)
  BY <1>1 DEF Told, Answered
<1>2. CASE UpdReceive \/ UpdLoad
  <2>1. UNCHANGED <<answer, reply>> /\ updWorker'.phase \in {"load", "apply"}
    BY <1>2 DEF UpdReceive, UpdLoad, handlers
  <2>2. QED
    BY <1>1, <2>1 DEF Succeeded
<1>3. CASE UpdLoadMisses \/ UpdLoadFails \/ UpdStoreFails
  <2>1. UNCHANGED <<answer, reply>> /\ ~updWorker'.result.ok
    BY <1>3 DEF UpdLoadMisses, UpdLoadFails, UpdStoreFails, handlers, WithResult, Err
  <2>2. QED
    BY <1>1, <2>1 DEF Succeeded
<1>4. CASE UpdBegin
  <2>1. UNCHANGED <<answer, reply>> /\ updWorker.phase = "apply"
        /\ updWorker' = [updWorker EXCEPT !.phase = "write"]
    BY <1>4 DEF UpdBegin, handlers
  <2>2. updWorker'.phase = "write"
    BY <2>1, UpdPhases
  <2>3. QED
    BY <1>1, <2>1, <2>2 DEF Succeeded
<1>5. ASSUME NEW s \in 0..LastSeq, UpdRead(s)
      PROVE  Told(r)
  BY <1>5, ToldFrame DEF UpdRead, handlers
<1>6. CASE UpdSkip \/ UpdCommit
  <2>1. /\ UNCHANGED <<answer, reply, subWorker>> /\ updWorker.phase \in {"apply", "write"}
        /\ updWorker' = WithResult(updWorker, Ok(0))
    BY <1>6 DEF UpdSkip, UpdCommit, handlers
  <2>2. UpdHands' = UpdHands
    BY <2>1, Records, UpdResult
  <2>3. UpdHeld(r)' => UpdHeld(r)
    BY <2>2 DEF UpdHeld
  <2>4. Answered(r, "Accepted")' => Answered(r, "Accepted")
    BY <2>1 DEF Answered
  <2>5. QED
    BY <1>6, <2>3, <2>4 DEF Told
<1>7. CASE UpdReply
  <2>1. /\ updWorker.phase = "reply" /\ UNCHANGED <<reply, call>>
        /\ updWorker' = AfterReply(updWorker)
    BY <1>7 DEF UpdReply
  <2>2. updWorker \in [phase : {"reply"}, items : Vectors, result : Answers]
    BY <2>1, UpdPhases
  <2>3. updWorker.items \in Seq(Requests) /\ updWorker.items # <<>>
    BY <2>2 DEF Vectors
  <2>4. PICK x \in Requests : x = Head(updWorker.items) /\ UpdHeld(x)
    BY <2>1, <2>3, TailIs, InIs DEF UpdHeld, UpdHands
  <2>5. Deliver(x, IF updWorker.result.ok THEN Ok(call[x].seq) ELSE Err)
    BY <1>7, <2>4 DEF UpdReply
  <2>6. UpdHeld(r)' /\ Succeeded(updWorker)' => Told(r)
    <3>1. ASSUME Len(updWorker.items) # 1, UpdHeld(r)', Succeeded(updWorker)'
          PROVE  Told(r)
      <4>1. updWorker'.items = Tail(updWorker.items) /\ updWorker'.result = updWorker.result
        BY <2>1, <2>2, <3>1, AfterReplyIs
      <4>2. UpdHeld(r)
        BY <2>1, <2>3, <3>1, <4>1, TailHolds DEF UpdHeld, UpdHands, Succeeded
      <4>3. QED
        BY <2>1, <3>1, <4>1, <4>2 DEF Told, Succeeded
    <3>2. Len(updWorker.items) = 1 => ~Succeeded(updWorker)'
      BY <2>1, <2>2, AfterReplyIs DEF Succeeded, Listening
    <3>3. QED
      BY <3>1, <3>2
  <2>7. answer \in [Requests -> Answers \cup {None}]
    BY DEF IInv, HandlersType
  <2>8. Answered(r, "Accepted")' => Told(r)
    <3>1. CASE x = r /\ updWorker.result.ok
      BY <2>1, <2>4, <3>1 DEF Told, Succeeded
    <3>2. CASE x = r /\ ~updWorker.result.ok
      <4>1. answer'[r] \in {answer[r], Err}
        BY <2>5, <2>7, <3>2 DEF Deliver
      <4>2. QED
        BY <2>1, <4>1, Records DEF Told, Answered
    <3>3. CASE x # r
      <4>1. answer'[r] = answer[r]
        BY <2>5, <2>7, <3>3 DEF Deliver
      <4>2. QED
        BY <2>1, <4>1 DEF Told, Answered
    <3>4. QED
      BY <3>1, <3>2, <3>3
  <2>9. QED
    BY <2>6, <2>8 DEF Told
<1>8. QED
  BY <1>2, <1>3, <1>4, <1>5, <1>6, <1>7 DEF UpdWorker

LEMMA ToldStep ==
  ASSUME IInv, IInv', [Next]_vars, NEW r \in Requests, Made(r)', ~IsSubmit(r)', Told(r)'
  PROVE  Told(r) \/ (UpdHeld(r) /\ (UpdCommit \/ UpdSkip))
<1>1. ASSUME NEW x \in Requests, NEW c \in Calls, Make(x, c)
      PROVE  Told(r)
  BY <1>1, ToldMake
<1>2. ASSUME NEW x \in Requests, Handler(x) \/ Cancel(x)
      PROVE  Told(r)
  BY <1>2, ToldHandler
<1>3. CASE SubEngine \/ UpdEngine \/ UNCHANGED vars
  BY <1>3, ToldFrame DEF SubEngine, UpdEngine, vars, handlers
<1>4. CASE SubWorker
  <2>1. call' = call
    BY <1>4 DEF SubWorker, SubReceive, SubBegin, SubCommit, SubStoreFails, SubPanics, SubReply,
                handlers
  <2>2. QED
    BY <1>4, <2>1, ToldSubWorker DEF IsSubmit
<1>5. CASE UpdWorker
  BY <1>5, ToldUpdWorker
<1>6. CASE Crash
  <2>1. reply' = reply /\ answer'[r] = None /\ updWorker'.phase = "recv"
    BY <1>6 DEF Crash, Listening
  <2>2. QED
    BY <2>1 DEF Told, Answered, Succeeded
<1>7. QED
  BY <1>1, <1>2, <1>3, <1>4, <1>5, <1>6 DEF Next

(* An insert carries the roots of the calls in its worker's hands. *)
InsHeld == ins # Store!Idle => subWorker.phase = "store" /\ ins.leaves = SubLeaves

LEMMA SubLeavesKept ==
  ASSUME IInv, [Next]_vars, subWorker.phase = "store", UNCHANGED subWorker
  PROVE  UNCHANGED SubLeaves
<1>1. subWorker.items \in Seq(Requests)
  BY DEF IInv, WorkersType, Listening, Vectors
<1>2. PICK n \in Nat : subWorker.items \in [1..n -> Requests]
  BY <1>1
<1>3. ASSUME NEW k \in 1..n
      PROVE  call'[subWorker.items[k]] = call[subWorker.items[k]]
  <2>1. PICK r \in Requests : r = subWorker.items[k]
    BY <1>2
  <2>2. SubHeld(r)
    BY <1>2, <2>1, InIs DEF SubHeld, SubHands
  <2>3. stage[r] # "idle"
    BY <2>2 DEF IInv, RequestInv, PlaceInv
  <2>4. ASSUME NEW x \in Requests, NEW c \in Calls, Make(x, c)
        PROVE  call'[r] = call[r]
    BY <2>3, <2>4 DEF Make, IInv, HandlersType
  <2>5. (\E x \in Requests, c \in Calls : Make(x, c)) \/ UNCHANGED call
    BY OnlyMakeCalls
  <2>6. QED
    BY <2>1, <2>4, <2>5
<1>4. QED
  BY <1>2, <1>3 DEF SubLeaves

LEMMA InsHeldStep ==
  ASSUME IInv, InsHeld, [Next]_vars
  PROVE  InsHeld'
<1>1. CASE UNCHANGED <<subWorker, ins>>
  <2>1. subWorker.phase = "store" => UNCHANGED SubLeaves
    BY <1>1, SubLeavesKept
  <2>2. QED
    BY <1>1, <2>1 DEF InsHeld
<1>2. CASE Crash
  BY <1>2 DEF Crash, InsHeld
<1>3. CASE SubReceive \/ SubReply
  <2>1. subWorker.phase \in {"recv", "reply"} /\ UNCHANGED ins
    BY <1>3 DEF SubReceive, SubReply, Listening, store
  <2>2. QED
    BY <2>1 DEF InsHeld
<1>4. CASE SubBegin
  <2>1. /\ subWorker.phase = "store" /\ UNCHANGED <<call, subWorker>>
        /\ ins'.leaves = SubLeaves
    BY <1>4 DEF SubBegin, Store!InsertBegin, handlers
  <2>2. SubLeaves' = SubLeaves
    BY <2>1 DEF SubLeaves
  <2>3. QED
    BY <2>1, <2>2 DEF InsHeld
<1>5. CASE SubCommit \/ SubStoreFails
  BY <1>5 DEF SubCommit, SubStoreFails, Store!InsertWrite, Store!InsertFails, InsHeld
<1>6. CASE SubPanics
  BY <1>6 DEF SubPanics, InsHeld, store
<1>7. CASE SubWorker
  BY <1>3, <1>4, <1>5, <1>6, <1>7 DEF SubWorker
<1>8. CASE UpdWorker
  BY <1>1, <1>8 DEF UpdWorker, UpdReceive, UpdLoad, UpdLoadMisses, UpdLoadFails, UpdSkip, UpdBegin,
              UpdRead, UpdCommit, UpdStoreFails, UpdReply, store, Store!UpdateBegin,
              Store!UpdateRead, Store!UpdateWrite, Store!UpdateStops, Store!UpdateFails
<1>9. ASSUME NEW r \in Requests, NEW c \in Calls, Make(r, c)
      PROVE  UNCHANGED <<subWorker, ins>>
  BY <1>9 DEF Make, store
<1>10. ASSUME NEW r \in Requests, Handler(r) \/ Cancel(r)
      PROVE  UNCHANGED <<subWorker, ins>>
  BY <1>10 DEF Handler, SendSubmission, SendUpdate, SendFails, Return, WorkerDropped, Finish, Cancel,
              store
<1>11. CASE SubEngine \/ UpdEngine \/ UNCHANGED vars
  BY <1>1, <1>11 DEF SubEngine, UpdEngine, vars, store
<1>12. QED
  BY <1>1, <1>2, <1>7, <1>8, <1>9, <1>10, <1>11 DEF Next

(* A batch keeps its requests and its slots, and a slot changes only in the *)
(* write of an update that asks for it.                                    *)
LEMMA BatchesStay ==
  ASSUME StoreIInv, [Next]_vars, NEW n \in DOMAIN committed
  PROVE  /\ n \in DOMAIN committed' /\ committed'[n] = committed[n]
         /\ n \in DOMAIN leavesOf /\ n \in DOMAIN leavesOf'
         /\ DOMAIN leavesOf'[n] = DOMAIN leavesOf[n]
         /\ \A k \in DOMAIN leavesOf[n] :
              leavesOf'[n][k] # leavesOf[n][k] => UpdCommit /\ Asked(n, k)
<1>1. IInv /\ Rocks!IInv /\ HeldInv
  BY DEF StoreIInv
<1>2. /\ latest \in Nat /\ DOMAIN leavesOf = 1..latest /\ DOMAIN committed = 1..latest
      /\ ins # Store!Idle => ins.seq = latest + 1
  BY <1>1, Parameters DEF IInv, StoreInv
<1>3. n \in DOMAIN committed' /\ committed'[n] = committed[n] /\ n \in DOMAIN leavesOf'
  <2>1. CASE SubCommit
    <3>1. /\ ins # Store!Idle
          /\ committed' = Store!Put(ins.seq, subWorker.items, committed)
          /\ leavesOf' = Store!Put(ins.seq, ins.leaves, leavesOf)
      BY <2>1 DEF SubCommit, Store!InsertWrite, Store!Idle
    <3>2. n # ins.seq
      BY <1>2, <3>1
    <3>3. QED
      BY <1>2, <3>1, <3>2 DEF Store!Put, Store!Over
  <2>2. CASE UpdCommit
    <3>1. committed' = committed /\ leavesOf' = Store!Over(upd.raw, leavesOf)
      BY <2>2 DEF UpdCommit, Store!UpdateWrite
    <3>2. QED
      BY <1>2, <3>1 DEF Store!Over
  <2>3. CASE ~SubCommit /\ ~UpdCommit
    <3>1. UNCHANGED <<committed, leavesOf>>
      <4>1. ASSUME NEW r \in Requests, NEW c \in Calls, Make(r, c)
            PROVE  UNCHANGED <<committed, leavesOf>>
        BY <4>1 DEF Make, store, records, history
      <4>2. ASSUME NEW r \in Requests, Handler(r) \/ Cancel(r)
            PROVE  UNCHANGED <<committed, leavesOf>>
        BY <4>2 DEF Handler, SendSubmission, SendUpdate, SendFails, Return, WorkerDropped, Finish,
                    Cancel, store, records, history
      <4>3. CASE SubEngine \/ UpdEngine \/ UNCHANGED vars
        BY <4>3 DEF SubEngine, UpdEngine, vars, store, records, history
      <4>4. CASE SubWorker
        BY <2>3, <4>4 DEF SubWorker, SubReceive, SubBegin, SubStoreFails, SubPanics, SubReply,
             store, records, history, Store!InsertBegin, Store!InsertFails, Store!records
      <4>5. CASE UpdWorker
        BY <2>3, <4>5 DEF UpdWorker, UpdReceive, UpdLoad, UpdLoadMisses, UpdLoadFails, UpdSkip,
             UpdBegin, UpdRead, UpdStoreFails, UpdReply, store, records, history,
             Store!UpdateBegin, Store!UpdateRead, Store!UpdateStops, Store!UpdateFails,
             Store!records
      <4>6. CASE Crash
        BY <4>6 DEF Crash, records
      <4>7. QED
        BY <4>1, <4>2, <4>3, <4>4, <4>5, <4>6 DEF Next
    <3>2. QED
      BY <1>2, <3>1
  <2>4. QED
    BY <2>1, <2>2, <2>3
<1>4. CASE ~UpdCommit
  BY <1>2, <1>3, <1>4, OnlyCommitsChange
<1>5. CASE UpdCommit
  <2>1. \A k \in DOMAIN leavesOf[n] : leavesOf'[n][k] # leavesOf[n][k] => Asked(n, k)
    BY <1>2, <1>5, CommitChangesAsked
  <2>2. upd # Rocks!Idle /\ leavesOf' = Store!Over(upd.raw, leavesOf)
    BY <1>5 DEF UpdCommit, Store!UpdateWrite, Rocks!Idle
  <2>3. CASE n \in DOMAIN upd.raw
    <3>1. leavesOf'[n] = Rocks!Replace(leavesOf[n], upd.changes[n])
      BY <1>1, <2>2, <2>3 DEF Store!Over, Rocks!IInv, Rocks!CopiesCurrent
    <3>2. DOMAIN leavesOf'[n] = DOMAIN leavesOf[n]
      BY <3>1 DEF Rocks!Replace
    <3>3. QED
      BY <1>2, <1>3, <1>5, <2>1, <3>2
  <2>4. CASE n \notin DOMAIN upd.raw
    <3>1. leavesOf'[n] = leavesOf[n]
      BY <1>2, <2>2, <2>4 DEF Store!Over
    <3>2. QED
      BY <1>2, <1>3, <3>1
  <2>5. QED
    BY <2>3, <2>4
<1>6. QED
  BY <1>4, <1>5

(* A new batch holds the roots of its requests, slot by slot.              *)
LEMMA NewBatch ==
  ASSUME StoreIInv, InsHeld, [Next]_vars, NEW n \in DOMAIN committed', n \notin DOMAIN committed,
         NEW k \in DOMAIN committed'[n]
  PROVE  /\ k \in DOMAIN leavesOf'[n] /\ leavesOf'[n][k] = call[committed'[n][k]].root
         /\ SubHeld(committed'[n][k]) /\ call' = call
<1>1. SubCommit
  <2>1. ASSUME NEW r \in Requests, NEW c \in Calls, Make(r, c)
        PROVE  FALSE
    BY <2>1 DEF Make, history
  <2>2. ASSUME NEW r \in Requests, Handler(r) \/ Cancel(r)
        PROVE  FALSE
    BY <2>2 DEF Handler, SendSubmission, SendUpdate, SendFails, Return, WorkerDropped, Finish,
                Cancel, history
  <2>3. CASE SubEngine \/ UpdEngine \/ UNCHANGED vars
    BY <2>3 DEF SubEngine, UpdEngine, vars, history
  <2>4. CASE SubWorker
    BY <2>4 DEF SubWorker, SubReceive, SubBegin, SubStoreFails, SubPanics, SubReply, history
  <2>5. CASE UpdWorker
    BY <2>5 DEF UpdWorker, UpdReceive, UpdLoad, UpdLoadMisses, UpdLoadFails, UpdSkip,
         UpdBegin, UpdRead, UpdCommit, UpdStoreFails, UpdReply, history
  <2>6. CASE Crash
    BY <2>6 DEF Crash
  <2>7. QED
    BY <2>1, <2>2, <2>3, <2>4, <2>5, <2>6 DEF Next
<1>2. /\ ins # Store!Idle /\ subWorker.phase = "store" /\ call' = call
      /\ committed' = Store!Put(ins.seq, subWorker.items, committed)
      /\ leavesOf' = Store!Put(ins.seq, ins.leaves, leavesOf)
  BY <1>1 DEF SubCommit, Store!InsertWrite, Store!Idle, handlers
<1>3. n = ins.seq /\ committed'[n] = subWorker.items /\ leavesOf'[n] = ins.leaves
  BY <1>2 DEF Store!Put, Store!Over
<1>4. ins.leaves = [j \in DOMAIN subWorker.items |-> call[subWorker.items[j]].root]
  BY <1>2 DEF InsHeld, SubLeaves
<1>5. SubHeld(committed'[n][k])
  BY <1>2, <1>3, InIs DEF SubHeld, SubHands
<1>6. QED
  BY <1>2, <1>3, <1>4, <1>5

(* An update in the worker's hands reaches its root in the batch it names:  *)
(* the worker does not skip the write, and the write replaces the root as   *)
(* some call beside it asks.                                               *)
LEMMA UpdateReaches ==
  ASSUME StoreIInv, UpdCommit \/ UpdSkip, NEW r \in Requests, UpdHeld(r),
         {call[r].old, call[r].new} \subseteq Leaves, NEW n \in 0..LastSeq, call[r].seq = n,
         n \in DOMAIN leavesOf, NEW k \in DOMAIN leavesOf[n], leavesOf[n][k] = call[r].old
  PROVE  /\ UpdCommit
         /\ \E x \in Requests : /\ UpdHeld(x) /\ call[x].old = call[r].old
                                /\ leavesOf'[n][k] = call[x].new
<1> DEFINE items == updWorker.items
           calls == CallsOf(items)
           repl == Batch!Replacements(calls)
<1>1. IInv /\ Rocks!IInv /\ HeldInv /\ updWorker.phase \in {"apply", "write"}
  BY DEF StoreIInv, UpdCommit, UpdSkip
<1>2. \A x : UpdHeld(x) <=> In(x, items)
  BY <1>1 DEF UpdHeld, UpdHands
<1>3. PICK j \in DOMAIN items : items[j] = r
  BY <1>2, InIs
<1>4. j \in DOMAIN calls /\ calls[j] = call[r]
  BY <1>3 DEF CallsOf
<1>5. n \in Named
  <2>1. n \in Nat /\ LastSeq \in Nat /\ n <= LastSeq
    BY Parameters
  <2>2. n % (LastSeq + 1) = n
    BY <2>1
  <2>3. Batch!Truncate(calls[j].seq) = n
    BY <1>4, <2>2 DEF Batch!Truncate
  <2>4. QED
    BY <1>4, <2>3 DEF Named, Batch!SequenceNumbers
<1>6. n \in DOMAIN updWorker.loaded /\ updWorker.loaded[n] = leavesOf[n]
  BY <1>1, <1>5, ChangesAre DEF HeldInv
<1>7. leavesOf[n][k] \in DOMAIN repl
  <2>1. j \in Batch!Usable(calls)
    BY <1>4 DEF Batch!Usable
  <2>2. QED
    BY <1>4, <2>1 DEF Batch!Replacements
<1>8. k \in Batch!Hits(updWorker.loaded[n], repl)
  BY <1>6, <1>7 DEF Batch!Hits
<1>9. n \in DOMAIN Changes /\ k \in DOMAIN Changes[n]
  <2>1. Changes = Batch!ChangesOf(updWorker.loaded, repl)
    BY DEF Changes
  <2> HIDE DEF repl
  <2>2. n \in {t \in DOMAIN updWorker.loaded : Batch!Hits(updWorker.loaded[t], repl) # {}}
    BY <1>6, <1>8
  <2>3. QED
    BY <1>8, <2>1, <2>2 DEF Batch!ChangesOf
<1>10. UpdCommit
  BY <1>9 DEF UpdSkip
<1>11. PICK x \in Requests : /\ In(x, items) /\ call[x].old = leavesOf[n][k]
                             /\ call[x].new = Changes[n][k]
  BY <1>1, <1>9, ChangesAre
<1>12. /\ upd # Rocks!Idle /\ upd.left = {} /\ upd.changes = Changes
       /\ leavesOf' = Store!Over(upd.raw, leavesOf)
  BY <1>1, <1>10 DEF UpdCommit, Store!UpdateWrite, Rocks!Idle, Store!Idle, HeldInv
<1>13. n \in DOMAIN upd.raw
  BY <1>1, <1>9, <1>12 DEF Rocks!IInv, Rocks!TypeOK, Rocks!UpdateTypeOK
<1>14. leavesOf'[n] = Rocks!Replace(leavesOf[n], Changes[n])
  BY <1>1, <1>12, <1>13 DEF Rocks!IInv, Rocks!CopiesCurrent, Store!Over
<1>15. leavesOf'[n][k] = Changes[n][k]
  BY <1>9, <1>14 DEF Rocks!Replace
<1>16. QED
  BY <1>2, <1>10, <1>11, <1>15

-----------------------------------------------------------------------------
(* The invariant.  Which calls there are: those of the client, each update  *)
(* with the number its submission was answered with.                       *)
CallsInv ==
  /\ \A r \in Requests : Made(r) => \E i \in Pairs : r \in {submitOf[i], updateOf[i]}
  /\ \A i \in Pairs :
       /\ Made(submitOf[i]) => call[submitOf[i]] = Submission(i)
       /\ Made(updateOf[i]) =>
            i \in DOMAIN accepted /\ call[updateOf[i]] = Update(i, accepted[i])

ClientInv ==
  /\ DOMAIN accepted \subseteq Pairs /\ DOMAIN signature \subseteq Pairs
  /\ \A i \in DOMAIN accepted : accepted[i] \in DOMAIN committed
  /\ step = "submitting" => DOMAIN accepted = {}

(* The slots that a submission filled hold its root or the replacement.     *)
Fills(i, n, k) == n \in DOMAIN committed /\ k \in DOMAIN committed[n] /\ committed[n][k] = submitOf[i]

SlotsInv ==
  \A i \in Pairs : \A n, k : Fills(i, n, k) =>
    k \in DOMAIN leavesOf[n] /\ leavesOf[n][k] \in {rootOfIssuer[i], newRootOfIssuer[i]}

(* Whoever is or will be told of success has the replacement in the slot.   *)
ToldInv ==
  \A i \in Pairs : Told(updateOf[i]) =>
    \A k : Fills(i, accepted[i], k) => leavesOf[accepted[i]][k] = newRootOfIssuer[i]

DemoIInv == StoreIInv /\ InsHeld /\ CallsInv /\ ClientInv /\ SlotsInv /\ ToldInv

(* Every call the client makes is one that the server knows.               *)
LEMMA DemoStepIsStep ==
  ASSUME StoreIInv, ClientInv, [DemoNext]_demoVars
  PROVE  [Next]_vars
<1>1. ASSUME NEW i \in Pairs, SubmitRoot(i)
      PROVE  Next
  BY <1>1, DemoParameters DEF SubmitRoot, Next
<1>2. ASSUME NEW i \in Pairs, UpdateRoot(i)
      PROVE  Next
  <2>1. i \in DOMAIN accepted /\ Make(updateOf[i], Update(i, accepted[i]))
    BY <1>2 DEF UpdateRoot, ToUpdate, NumberFor
  <2>2. accepted[i] \in 0..LastSeq
    BY <2>1, Parameters DEF ClientInv, StoreIInv, IInv, StoreInv
  <2>3. QED
    BY <2>1, <2>2, DemoParameters DEF Next
<1>3. CASE CollectSubmissions \/ CollectUpdates
  BY <1>3 DEF CollectSubmissions, CollectUpdates
<1>4. CASE Server
  BY <1>4 DEF Server, Next
<1>5. CASE UNCHANGED demoVars
  BY <1>5 DEF demoVars
<1>6. QED
  BY <1>1, <1>2, <1>3, <1>4, <1>5 DEF DemoNext, Pairs

LEMMA InitDemo == DemoInit => DemoIInv
<1> SUFFICES ASSUME DemoInit
             PROVE  DemoIInv
  OBVIOUS
<1>1. Init /\ step = "submitting" /\ accepted = Store!Empty /\ signature = Store!Empty
  BY DEF DemoInit
<1>2. StoreIInv
  BY <1>1, InitStoreInv
<1>3. InsHeld
  BY <1>1 DEF Init, InsHeld
<1>4. \A r \in Requests : ~Made(r)
  BY <1>1 DEF Init, Made
<1>5. CallsInv
  BY <1>4, DemoParameters DEF CallsInv
<1>6. ClientInv
  BY <1>1 DEF ClientInv, Store!Empty
<1>7. \A i \in Pairs : \A n, k : ~Fills(i, n, k)
  <2>1. PICK stored \in StoredAtStart : Opened(stored)
    BY <1>1 DEF Init
  <2>2. \A n \in DOMAIN committed : committed[n] = <<>>
    BY <2>1 DEF Opened
  <2>3. QED
    BY <2>2 DEF Fills
<1>8. QED
  BY <1>2, <1>3, <1>5, <1>6, <1>7 DEF DemoIInv, SlotsInv, ToldInv

(* An accepted submission is over with the number of its batch.            *)
LEMMA AcceptedNumber ==
  ASSUME IInv, CallsInv, NEW i \in Pairs, AcceptedOver(submitOf[i])
  PROVE  reply[submitOf[i]].seq \in DOMAIN committed
<1> DEFINE r == submitOf[i]
<1>1. r \in Requests /\ stage[r] = "done" /\ reply[r].status = "Accepted"
  BY DemoParameters DEF AcceptedOver
<1>2. Made(r) /\ answer[r] = None /\ reply[r] # None
  BY <1>1 DEF IInv, RequestInv, HandlerInv, Made
<1>3. IsSubmit(r)
  BY <1>2, CallFields DEF CallsInv, IsSubmit
<1>4. Answered(r, "Accepted")
  BY <1>1, <1>2 DEF Answered
<1>5. PICK n \in DOMAIN committed : AcceptedAs(r, n)
  BY <1>1, <1>2, <1>3, <1>4 DEF IInv, RequestInv, OutcomeInv
<1>6. DOMAIN committed \subseteq Nat
  BY DEF IInv, StoreInv
<1>7. reply[r] = Response("Accepted", n)
  BY <1>2, <1>5, <1>6, Records, Parameters DEF AcceptedAs
<1>8. QED
  BY <1>5, <1>7 DEF Response

LEMMA ServerKeepsCalls == Server => UNCHANGED <<call, clientVars>>
<1>1. ASSUME NEW r \in Requests, Handler(r)
      PROVE  UNCHANGED call
  BY <1>1 DEF Handler, SendSubmission, SendUpdate, SendFails, Return, WorkerDropped, Finish
<1>2. SubEngine \/ UpdEngine => UNCHANGED call
  BY DEF SubEngine, UpdEngine, handlers
<1>3. SubWorker => UNCHANGED call
  BY DEF SubWorker, SubReceive, SubBegin, SubCommit, SubStoreFails, SubPanics, SubReply, handlers
<1>4. UpdWorker => UNCHANGED call
  BY DEF UpdWorker, UpdReceive, UpdLoad, UpdLoadMisses, UpdLoadFails, UpdSkip, UpdBegin,
         UpdRead, UpdCommit, UpdStoreFails, UpdReply, handlers
<1>5. Crash => UNCHANGED call
  BY DEF Crash
<1>6. QED
  BY <1>1, <1>2, <1>3, <1>4, <1>5 DEF Server

LEMMA ClientStep ==
  ASSUME StoreIInv, CallsInv, ClientInv, [DemoNext]_demoVars
  PROVE  CallsInv' /\ ClientInv'
<1> USE DemoParameters
<1>1. IInv /\ call \in [Requests -> Calls \cup {None}] /\ None \notin Calls
  BY Parameters DEF StoreIInv, IInv, HandlersType
<1>2. \A n \in DOMAIN committed : n \in DOMAIN committed'
  BY DemoStepIsStep, BatchesStay
<1>3. ASSUME NEW i \in Pairs, SubmitRoot(i)
      PROVE  CallsInv' /\ ClientInv'
  <2>1. UNCHANGED <<step, accepted, signature>> /\ Make(submitOf[i], Submission(i))
    BY <1>3 DEF SubmitRoot, clientVars
  <2>2. call' = [call EXCEPT ![submitOf[i]] = Submission(i)]
    BY <2>1 DEF Make
  <2>3. CallsInv'
    BY <1>1, <2>1, <2>2 DEF CallsInv, Made
  <2>4. QED
    BY <1>2, <2>1, <2>3 DEF ClientInv
<1>4. ASSUME NEW i \in Pairs, UpdateRoot(i)
      PROVE  CallsInv' /\ ClientInv'
  <2>1. /\ UNCHANGED <<step, accepted>> /\ i \in DOMAIN accepted
        /\ Make(updateOf[i], Update(i, accepted[i]))
        /\ signature' = Store!Put(i, <<newRootOfIssuer[i]>>, signature)
    BY <1>4 DEF UpdateRoot, ToUpdate, NumberFor
  <2>2. call' = [call EXCEPT ![updateOf[i]] = Update(i, accepted[i])]
    BY <2>1 DEF Make
  <2>3. CallsInv'
    BY <1>1, <2>1, <2>2 DEF CallsInv, Made
  <2>4. DOMAIN signature' = {i} \cup DOMAIN signature
    BY <2>1 DEF Store!Put, Store!Over
  <2>5. QED
    BY <1>2, <2>1, <2>3, <2>4 DEF ClientInv
<1>5. CASE CollectSubmissions
  <2>1. /\ UNCHANGED <<call, committed, signature>> /\ step = "submitting"
        /\ step' \in {"aborted", "updating"}
        /\ accepted' = [i \in {j \in Pairs : AcceptedOver(submitOf[j])} |-> reply[submitOf[i]].seq]
    BY <1>5 DEF CollectSubmissions, Pairs, vars, handlers, history
  <2>2. \A i \in Pairs : ~Made(updateOf[i])
    BY <2>1 DEF ClientInv, CallsInv
  <2>3. CallsInv'
    BY <2>1, <2>2 DEF CallsInv, Made
  <2>4. \A i \in DOMAIN accepted' : i \in Pairs /\ accepted'[i] \in DOMAIN committed'
    BY <1>1, <2>1, AcceptedNumber
  <2>5. QED
    BY <2>1, <2>3, <2>4 DEF ClientInv
<1>6. CASE CollectUpdates \/ Server \/ UNCHANGED demoVars
  <2>1. UNCHANGED <<call, accepted, signature>> /\ (step' = step \/ step' = "done")
    BY <1>6, ServerKeepsCalls DEF CollectUpdates, clientVars, demoVars, vars, handlers
  <2>2. CallsInv'
    BY <2>1 DEF CallsInv, Made
  <2>3. QED
    BY <1>2, <2>1, <2>2 DEF ClientInv
<1>7. QED
  BY <1>3, <1>4, <1>5, <1>6 DEF DemoNext, Pairs

(* A call that asks for a change is an update of the client.               *)
LEMMA HeldUpdateIs ==
  ASSUME IInv, CallsInv, NEW r \in Requests, UpdHeld(r)
  PROVE  \E i \in Pairs : /\ r = updateOf[i] /\ i \in DOMAIN accepted
                          /\ call[r] = Update(i, accepted[i])
<1>1. Made(r) /\ ~IsSubmit(r)
  BY DEF IInv, RequestInv, PlaceInv
<1>2. PICK i \in Pairs : r \in {submitOf[i], updateOf[i]}
  BY <1>1 DEF CallsInv
<1>3. r = updateOf[i]
  BY <1>1, <1>2, CallFields DEF CallsInv, IsSubmit
<1>4. QED
  BY <1>1, <1>3 DEF CallsInv

LEMMA AskedIsReplacement ==
  ASSUME StoreIInv, CallsInv, UpdCommit, NEW n, NEW k, Asked(n, k)
  PROVE  \E i \in Pairs : leavesOf[n][k] = rootOfIssuer[i] /\ leavesOf'[n][k] = newRootOfIssuer[i]
<1>1. IInv /\ updWorker.phase = "write"
  BY DEF StoreIInv, UpdCommit
<1>2. PICK r \in Requests :
        /\ In(r, updWorker.items) /\ call[r].old = leavesOf[n][k]
        /\ call[r].new = leavesOf'[n][k]
  BY DEF Asked
<1>3. UpdHeld(r)
  BY <1>1, <1>2 DEF UpdHeld, UpdHands
<1>4. PICK i \in Pairs : call[r] = Update(i, accepted[i])
  BY <1>1, <1>3, HeldUpdateIs
<1>5. QED
  BY <1>2, <1>4, CallFields

LEMMA SlotsStep ==
  ASSUME DemoIInv, [Next]_vars
  PROVE  SlotsInv'
<1> USE DemoParameters
<1>1. StoreIInv /\ InsHeld /\ CallsInv /\ SlotsInv /\ IInv
  BY DEF DemoIInv, StoreIInv
<1> SUFFICES ASSUME NEW i \in Pairs, NEW n, NEW k, Fills(i, n, k)'
             PROVE  k \in DOMAIN leavesOf'[n]
                    /\ leavesOf'[n][k] \in {rootOfIssuer[i], newRootOfIssuer[i]}
  BY DEF SlotsInv
<1>2. n \in DOMAIN committed' /\ k \in DOMAIN committed'[n] /\ committed'[n][k] = submitOf[i]
  BY DEF Fills
<1>3. CASE n \in DOMAIN committed
  <2>1. committed'[n] = committed[n]
    BY <1>1, <1>3, BatchesStay
  <2>2. Fills(i, n, k)
    BY <1>2, <1>3, <2>1 DEF Fills
  <2>3. k \in DOMAIN leavesOf[n] /\ leavesOf[n][k] \in {rootOfIssuer[i], newRootOfIssuer[i]}
    BY <1>1, <2>2 DEF SlotsInv
  <2>4. k \in DOMAIN leavesOf'[n]
    BY <1>1, <1>3, <2>3, BatchesStay
  <2>5. CASE leavesOf'[n][k] # leavesOf[n][k]
    <3>1. UpdCommit /\ Asked(n, k)
      BY <1>1, <1>3, <2>3, <2>5, BatchesStay
    <3>2. PICK j \in Pairs : leavesOf[n][k] = rootOfIssuer[j] /\ leavesOf'[n][k] = newRootOfIssuer[j]
      BY <1>1, <3>1, AskedIsReplacement
    <3>3. j = i
      BY <2>3, <3>2
    <3>4. QED
      BY <2>4, <3>2, <3>3
  <2>6. QED
    BY <2>3, <2>4, <2>5
<1>4. CASE n \notin DOMAIN committed
  <2>1. /\ k \in DOMAIN leavesOf'[n] /\ leavesOf'[n][k] = call[submitOf[i]].root
        /\ SubHeld(submitOf[i])
    BY <1>1, <1>2, <1>4, NewBatch
  <2>2. Made(submitOf[i])
    BY <1>1, <2>1 DEF IInv, RequestInv, PlaceInv
  <2>3. call[submitOf[i]].root = rootOfIssuer[i]
    BY <1>1, <2>2, CallFields DEF CallsInv
  <2>4. QED
    BY <2>1, <2>3
<1>5. QED
  BY <1>3, <1>4

LEMMA ToldInvStep ==
  ASSUME DemoIInv, [Next]_vars, StoreIInv', CallsInv', ClientInv',
         accepted' = accepted \/ \A i \in Pairs : ~Made(updateOf[i])'
  PROVE  ToldInv'
<1> USE DemoParameters
<1>1. StoreIInv /\ CallsInv /\ ClientInv /\ SlotsInv /\ ToldInv /\ IInv /\ IInv'
  BY DEF DemoIInv, StoreIInv
<1> SUFFICES ASSUME NEW i \in Pairs, Told(updateOf[i])',
                    NEW k, Fills(i, accepted[i], k)'
             PROVE  leavesOf'[accepted'[i]][k] = newRootOfIssuer[i]
  BY DEF ToldInv
<1> DEFINE r == updateOf[i]
           n == accepted[i]
<1>2. Made(r)'
  <2>1. UpdHeld(r)' => Made(r)'
    BY <1>1 DEF IInv, RequestInv, PlaceInv
  <2>2. Answered(r, "Accepted")' => Made(r)'
    BY <1>1 DEF IInv, RequestInv, HandlerInv, Answered, Made
  <2>3. QED
    BY <2>1, <2>2 DEF Told
<1>3. accepted' = accepted /\ i \in DOMAIN accepted /\ n \in DOMAIN committed
  BY <1>1, <1>2 DEF CallsInv, ClientInv
<1>4. committed'[n] = committed[n] /\ n \in 0..LastSeq
  BY <1>1, <1>3, BatchesStay, Parameters DEF IInv, StoreInv
<1>5. Fills(i, n, k)
  BY <1>3, <1>4 DEF Fills
<1>6. k \in DOMAIN leavesOf[n] /\ leavesOf[n][k] \in {rootOfIssuer[i], newRootOfIssuer[i]}
  BY <1>1, <1>5 DEF SlotsInv
<1>7. n \in DOMAIN leavesOf
  BY <1>1, <1>3, BatchesStay
<1>8. ~IsSubmit(r)'
  BY <1>1, <1>2, CallFields DEF CallsInv, IsSubmit
<1>9. Told(r) \/ (UpdHeld(r) /\ (UpdCommit \/ UpdSkip))
  BY <1>1, <1>2, <1>8, ToldStep
<1>10. leavesOf[n][k] = newRootOfIssuer[i] => leavesOf'[n][k] = newRootOfIssuer[i]
  <2> SUFFICES ASSUME leavesOf[n][k] = newRootOfIssuer[i], leavesOf'[n][k] # leavesOf[n][k]
               PROVE  FALSE
    OBVIOUS
  <2>1. UpdCommit /\ Asked(n, k)
    BY <1>1, <1>3, <1>6, BatchesStay
  <2>2. PICK j \in Pairs : leavesOf[n][k] = rootOfIssuer[j]
    BY <1>1, <2>1, AskedIsReplacement
  <2>3. QED
    BY <2>2
<1>11. CASE Told(r)
  BY <1>1, <1>3, <1>5, <1>10, <1>11 DEF ToldInv
<1>12. CASE UpdHeld(r) /\ (UpdCommit \/ UpdSkip)
  <2>1. call[r] = Update(i, n)
    <3>1. PICK j \in Pairs : r = updateOf[j] /\ call[r] = Update(j, accepted[j])
      BY <1>1, <1>12, HeldUpdateIs
    <3>2. QED
      BY <3>1
  <2>2. /\ call[r].old = rootOfIssuer[i] /\ call[r].new = newRootOfIssuer[i] /\ call[r].seq = n
    BY <2>1, CallFields
  <2>3. CASE leavesOf[n][k] = rootOfIssuer[i]
    <3>1. PICK x \in Requests : /\ UpdHeld(x) /\ call[x].old = call[r].old
                                /\ leavesOf'[n][k] = call[x].new
      BY <1>1, <1>4, <1>6, <1>7, <1>12, <2>2, <2>3, UpdateReaches
    <3>2. PICK j \in Pairs : call[x] = Update(j, accepted[j])
      BY <1>1, <3>1, HeldUpdateIs
    <3>3. rootOfIssuer[j] = rootOfIssuer[i] /\ leavesOf'[n][k] = newRootOfIssuer[j]
      BY <2>2, <3>1, <3>2, CallFields
    <3>4. QED
      BY <1>3, <3>3
  <2>4. QED
    BY <1>3, <1>6, <1>10, <2>3
<1>13. QED
  BY <1>9, <1>11, <1>12

LEMMA DemoInvariance ==
  ASSUME CounterReliable
  PROVE  DemoSpec => []DemoIInv
<1>1. DemoIInv /\ [DemoNext]_demoVars => DemoIInv'
  <2> SUFFICES ASSUME DemoIInv, [DemoNext]_demoVars
               PROVE  DemoIInv'
    OBVIOUS
  <2>1. StoreIInv /\ InsHeld /\ CallsInv /\ ClientInv /\ IInv
    BY DEF DemoIInv, StoreIInv
  <2>2. [Next]_vars
    BY <2>1, DemoStepIsStep
  <2>3. StoreIInv' /\ InsHeld'
    BY <2>1, <2>2, StepStoreInv, InsHeldStep
  <2>4. CallsInv' /\ ClientInv'
    BY <2>1, ClientStep
  <2>5. SlotsInv'
    BY <2>2, SlotsStep
  <2>6. accepted' = accepted \/ \A i \in Pairs : ~Made(updateOf[i])'
    <3>1. CASE CollectSubmissions
      <4>1. step = "submitting" /\ call' = call
        BY <3>1 DEF CollectSubmissions, vars, handlers
      <4>2. QED
        BY <2>1, <4>1 DEF ClientInv, CallsInv, Made
    <3>2. CASE CollectUpdates \/ Server \/ UNCHANGED demoVars
      BY <3>2 DEF CollectUpdates, Server, clientVars, demoVars
    <3>3. CASE \E i \in 1..Issuers : SubmitRoot(i) \/ UpdateRoot(i)
      BY <3>3 DEF SubmitRoot, UpdateRoot, clientVars
    <3>4. QED
      BY <3>1, <3>2, <3>3 DEF DemoNext
  <2>7. ToldInv'
    BY <2>2, <2>3, <2>4, <2>6, ToldInvStep
  <2>8. QED
    BY <2>3, <2>4, <2>5, <2>7 DEF DemoIInv
<1>2. QED
  BY <1>1, InitDemo, PTL DEF DemoSpec

(* What the client prints as done is so and stays so: once an update is     *)
(* accepted, the slot that the issuer's submission filled in the batch it   *)
(* was told holds the new root, beside other updates of the same and of     *)
(* other batches, failing writes and crashes (client.rs:126-128, 162-172,   *)
(* 231-237; worker.rs:126-190).                                            *)
THEOREM ReportsHold ==
  ASSUME CounterReliable
  PROVE  DemoSpec => []ReportedUpdatesHold
<1>1. ASSUME DemoIInv, NEW i \in DOMAIN signature, Answered(updateOf[i], "Accepted"),
             NEW k \in DOMAIN committed[accepted[i]], committed[accepted[i]][k] = submitOf[i]
      PROVE  leavesOf[accepted[i]][k] = newRootOfIssuer[i]
  <2>1. IInv /\ CallsInv /\ ClientInv /\ ToldInv /\ i \in Pairs
    BY <1>1 DEF DemoIInv, StoreIInv, ClientInv
  <2>2. updateOf[i] \in Requests /\ Made(updateOf[i])
    BY <1>1, <2>1, DemoParameters, MadeIfAnswered
  <2>3. accepted[i] \in DOMAIN committed
    BY <2>1, <2>2 DEF CallsInv, ClientInv
  <2>4. Fills(i, accepted[i], k)
    BY <1>1, <2>3 DEF Fills
  <2>5. QED
    BY <1>1, <2>1, <2>4 DEF ToldInv, Told
<1>2. DemoIInv => ReportedUpdatesHold
  BY <1>1 DEF ReportedUpdatesHold
<1>3. QED
  BY <1>2, DemoInvariance, PTL

(* The client with the server behaves as Sequencer allows any clients to,   *)
(* so that every theorem about Sequencer holds of it (client.rs:79-100,     *)
(* 185-207).                                                               *)
THEOREM ClientIsClient ==
  ASSUME CounterReliable
  PROVE  DemoSpec => Spec
<1>1. DemoInit => Init
  BY DEF DemoInit
<1>2. DemoIInv /\ [DemoNext]_demoVars => [Next]_vars
  BY DemoStepIsStep DEF DemoIInv
<1>3. QED
  BY <1>1, <1>2, DemoInvariance, PTL DEF DemoSpec, Spec
=============================================================================
