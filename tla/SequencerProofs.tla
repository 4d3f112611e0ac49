--------------------------- MODULE SequencerProofs ---------------------------
(***************************************************************************)
(* Theorems about Sequencer for any number of requests, any calls, batch    *)
(* sizes, capacities and contents of the database, with failing reads and   *)
(* writes, cancelled handlers and crashes: first about requests and their   *)
(* answers, then about the database under the two workers, whose calls are  *)
(* calls that RocksStore allows, so that what RocksStoreProofs proves of     *)
(* any caller holds here too.                                              *)
(***************************************************************************)
EXTENDS Sequencer, FiniteSetTheorems, WellFoundedInduction, TLAPS

(* The counter of the database can be read and its overflow is a panic.     *)
CounterReliable == ~CounterFaults /\ OverflowChecks

-----------------------------------------------------------------------------
(* A lane by itself: the item channel q, the batch b of the engine, the     *)
(* batch channel o, and the items h that the worker has not answered yet.   *)

Distinct(s) == \A i, j \in DOMAIN s : s[i] = s[j] => i = j
Vectors == Seq(Requests) \ {<<>>}

InSome(o, r) == \E k \in DOMAIN o : In(r, o[k])
Queued(q, b, o, r) == In(r, q) \/ In(r, b) \/ InSome(o, r)

LaneType(q, b, o, h) ==
  /\ q \in Seq(Requests) /\ b \in Seq(Requests) /\ h \in Seq(Requests)
  /\ o \in Seq(Vectors)

(* Every request is in one place of the lane at most. *)
LaneOnce(q, b, o, h) ==
  /\ Distinct(q) /\ Distinct(b) /\ Distinct(h)
  /\ \A k \in DOMAIN o : Distinct(o[k])
  /\ \A r \in Requests :
       /\ In(r, q) => ~In(r, b) /\ ~InSome(o, r)
       /\ In(r, b) => ~InSome(o, r)
       /\ In(r, h) => ~Queued(q, b, o, r)
       /\ \A j, k \in DOMAIN o : In(r, o[j]) /\ In(r, o[k]) => j = k

LaneOK(q, b, o, h) == LaneType(q, b, o, h) /\ LaneOnce(q, b, o, h)

LEMMA InIs == \A r, s : In(r, s) <=> \E k \in DOMAIN s : s[k] = r
  BY DEF In, SubQ!Holds

LEMMA EmptyLane ==
  /\ LaneOK(<<>>, <<>>, <<>>, <<>>)
  /\ \A r : ~Queued(<<>>, <<>>, <<>>, r) /\ ~In(r, <<>>)
<1>1. DOMAIN <<>> = {} /\ <<>> \in Seq(Requests) /\ <<>> \in Seq(Vectors)
  OBVIOUS
<1>2. \A r : ~In(r, <<>>) /\ ~InSome(<<>>, r)
  BY <1>1, InIs DEF InSome
<1>3. QED
  BY <1>1, <1>2 DEF LaneOK, LaneType, LaneOnce, Distinct, Queued

LEMMA AppendIs ==
  ASSUME NEW S, NEW s \in Seq(S), NEW e \in S
  PROVE  /\ Append(s, e) \in Seq(S)
         /\ Append(s, e) # <<>>
         /\ DOMAIN Append(s, e) = DOMAIN s \cup {Len(s) + 1}
         /\ Len(s) + 1 \notin DOMAIN s
         /\ Append(s, e)[Len(s) + 1] = e
         /\ \A k \in DOMAIN s : Append(s, e)[k] = s[k]
  OBVIOUS

LEMMA TailIs ==
  ASSUME NEW S, NEW s \in Seq(S), s # <<>>
  PROVE  /\ Tail(s) \in Seq(S)
         /\ Head(s) \in S
         /\ 1 \in DOMAIN s /\ Head(s) = s[1]
         /\ \A k \in DOMAIN Tail(s) : k + 1 \in DOMAIN s /\ k + 1 # 1 /\ Tail(s)[k] = s[k + 1]
         /\ \A k \in DOMAIN s : k # 1 => k - 1 \in DOMAIN Tail(s) /\ Tail(s)[k - 1] = s[k]
  OBVIOUS

LEMMA AppendHolds ==
  ASSUME NEW s \in Seq(Requests), NEW e \in Requests
  PROVE  /\ \A r : In(r, Append(s, e)) <=> In(r, s) \/ r = e
         /\ Distinct(s) /\ ~In(e, s) => Distinct(Append(s, e))
<1> DEFINE t == Append(s, e)
           n == Len(s) + 1
<1>1. /\ DOMAIN t = DOMAIN s \cup {n} /\ n \notin DOMAIN s
      /\ t[n] = e /\ \A k \in DOMAIN s : t[k] = s[k]
  BY AppendIs
<1> HIDE DEF t, n
<1>2. \A r : In(r, t) <=> In(r, s) \/ r = e
  BY <1>1, InIs
<1>3. Distinct(s) /\ ~In(e, s) => Distinct(t)
  BY <1>1, InIs DEF Distinct
<1>4. QED
  BY <1>2, <1>3 DEF t

LEMMA TailHolds ==
  ASSUME NEW s \in Seq(Requests), s # <<>>
  PROVE  /\ \A r : In(r, s) <=> In(r, Tail(s)) \/ r = Head(s)
         /\ Distinct(s) => Distinct(Tail(s)) /\ ~In(Head(s), Tail(s))
<1> DEFINE t == Tail(s)
           e == Head(s)
<1>1. /\ 1 \in DOMAIN s /\ e = s[1]
      /\ \A k \in DOMAIN t : k \in Int /\ k + 1 \in DOMAIN s /\ k + 1 # 1 /\ t[k] = s[k + 1]
      /\ \A k \in DOMAIN s : k # 1 => k - 1 \in DOMAIN t /\ t[k - 1] = s[k]
  <2>1. \A k \in DOMAIN t : k \in Int
    OBVIOUS
  <2>2. QED
    BY <2>1, TailIs
<1> HIDE DEF t, e
<1>2. \A r : In(r, s) <=> In(r, t) \/ r = e
  BY <1>1, InIs
<1>3. ASSUME Distinct(s)
      PROVE  Distinct(t) /\ ~In(e, t)
  <2>1. \A i, j \in DOMAIN t : t[i] = t[j] => i + 1 = j + 1
    BY <1>1, <1>3 DEF Distinct
  <2>2. Distinct(t)
    BY <1>1, <2>1 DEF Distinct
  <2>3. \A k \in DOMAIN t : t[k] # e
    BY <1>1, <1>3 DEF Distinct
  <2>4. QED
    BY <2>2, <2>3, InIs
<1>4. QED
  BY <1>2, <1>3 DEF t, e

(* The same for channels of batches. *)
LEMMA AppendSome ==
  ASSUME NEW o \in Seq(Vectors), NEW b \in Vectors
  PROVE  \A r : InSome(Append(o, b), r) <=> InSome(o, r) \/ In(r, b)
<1> DEFINE t == Append(o, b)
           n == Len(o) + 1
<1>1. /\ DOMAIN t = DOMAIN o \cup {n} /\ n \notin DOMAIN o
      /\ t[n] = b /\ \A k \in DOMAIN o : t[k] = o[k]
  BY AppendIs
<1> HIDE DEF t, n
<1>2. \A r : InSome(t, r) <=> InSome(o, r) \/ In(r, b)
  BY <1>1 DEF InSome
<1>3. QED
  BY <1>2 DEF t

LEMMA TailSome ==
  ASSUME NEW o \in Seq(Vectors), o # <<>>
  PROVE  \A r : InSome(o, r) <=> InSome(Tail(o), r) \/ In(r, Head(o))
<1> DEFINE t == Tail(o)
           e == Head(o)
<1>1. /\ 1 \in DOMAIN o /\ e = o[1]
      /\ \A k \in DOMAIN t : k + 1 \in DOMAIN o /\ t[k] = o[k + 1]
      /\ \A k \in DOMAIN o : k # 1 => k - 1 \in DOMAIN t /\ t[k - 1] = o[k]
  BY TailIs
<1> HIDE DEF t, e
<1>2. \A r : InSome(o, r) <=> InSome(t, r) \/ In(r, e)
  BY <1>1 DEF InSome
<1>3. QED
  BY <1>2 DEF t, e

(* What the steps of a lane do to it. *)
LEMMA LaneSend ==
  ASSUME NEW q, NEW b, NEW o, NEW h, LaneOK(q, b, o, h),
         NEW r \in Requests, ~Queued(q, b, o, r), ~In(r, h)
  PROVE  /\ LaneOK(Append(q, r), b, o, h)
         /\ \A x : Queued(Append(q, r), b, o, x) <=> Queued(q, b, o, x) \/ x = r
<1>1. q \in Seq(Requests)
  BY DEF LaneOK, LaneType
<1>2. /\ Append(q, r) \in Seq(Requests)
      /\ \A x : In(x, Append(q, r)) <=> In(x, q) \/ x = r
      /\ Distinct(Append(q, r))
  BY <1>1, AppendHolds DEF LaneOK, LaneOnce, Queued
<1>3. QED
  BY <1>2 DEF LaneOK, LaneType, LaneOnce, Queued

LEMMA LaneRecv ==
  ASSUME NEW q, NEW b, NEW o, NEW h, LaneOK(q, b, o, h), q # <<>>
  PROVE  /\ LaneOK(Tail(q), Append(b, Head(q)), o, h)
         /\ \A x : Queued(Tail(q), Append(b, Head(q)), o, x) <=> Queued(q, b, o, x)
<1>1. q \in Seq(Requests) /\ b \in Seq(Requests)
  BY DEF LaneOK, LaneType
<1>2. /\ Tail(q) \in Seq(Requests) /\ Head(q) \in Requests
      /\ \A x : In(x, q) <=> In(x, Tail(q)) \/ x = Head(q)
      /\ Distinct(Tail(q)) /\ ~In(Head(q), Tail(q))
  BY <1>1, TailIs, TailHolds DEF LaneOK, LaneOnce
<1>3. ~In(Head(q), b)
  BY <1>2 DEF LaneOK, LaneOnce
<1>4. /\ Append(b, Head(q)) \in Seq(Requests)
      /\ \A x : In(x, Append(b, Head(q))) <=> In(x, b) \/ x = Head(q)
      /\ Distinct(Append(b, Head(q)))
  BY <1>1, <1>2, <1>3, AppendHolds DEF LaneOK, LaneOnce
<1>5. QED
  BY <1>2, <1>4 DEF LaneOK, LaneType, LaneOnce, Queued

LEMMA LaneFlush ==
  ASSUME NEW q, NEW b, NEW o, NEW h, LaneOK(q, b, o, h), b # <<>>
  PROVE  /\ LaneOK(q, <<>>, Append(o, b), h)
         /\ \A x : Queued(q, <<>>, Append(o, b), x) <=> Queued(q, b, o, x)
<1> DEFINE t == Append(o, b)
           n == Len(o) + 1
<1>1. o \in Seq(Vectors) /\ b \in Vectors
  BY DEF LaneOK, LaneType, Vectors
<1>2. /\ t \in Seq(Vectors)
      /\ DOMAIN t = DOMAIN o \cup {n} /\ n \notin DOMAIN o
      /\ t[n] = b /\ \A k \in DOMAIN o : t[k] = o[k]
  BY <1>1, AppendIs
<1>3. \A x : InSome(t, x) <=> InSome(o, x) \/ In(x, b)
  BY <1>1, AppendSome
<1> HIDE DEF t, n
<1>4. \A x : Queued(q, <<>>, t, x) <=> Queued(q, b, o, x)
  BY <1>3, EmptyLane DEF Queued
<1>5. LaneType(q, <<>>, t, h)
  BY <1>2, EmptyLane DEF LaneOK, LaneType
<1>6. Distinct(<<>>) /\ \A k \in DOMAIN t : Distinct(t[k])
  BY <1>2, EmptyLane DEF LaneOK, LaneOnce
<1>7. ASSUME NEW r \in Requests
      PROVE  /\ In(r, q) => ~In(r, <<>>) /\ ~InSome(t, r)
             /\ ~In(r, <<>>)
             /\ In(r, h) => ~Queued(q, <<>>, t, r)
  BY <1>3, <1>4, EmptyLane DEF LaneOK, LaneOnce
<1>8. ASSUME NEW r \in Requests, NEW j \in DOMAIN t, NEW k \in DOMAIN t,
             In(r, t[j]), In(r, t[k])
      PROVE  j = k
  BY <1>2, <1>8 DEF LaneOK, LaneOnce, InSome
<1>9. LaneOnce(q, <<>>, t, h)
  BY <1>6, <1>7, <1>8 DEF LaneOK, LaneOnce
<1>10. QED
  BY <1>4, <1>5, <1>9 DEF LaneOK, t

LEMMA LaneTake ==
  ASSUME NEW q, NEW b, NEW o, LaneOK(q, b, o, <<>>), o # <<>>
  PROVE  /\ LaneOK(q, b, Tail(o), Head(o))
         /\ Head(o) \in Vectors
         /\ \A x : Queued(q, b, o, x) <=> Queued(q, b, Tail(o), x) \/ In(x, Head(o))
<1> DEFINE t == Tail(o)
           e == Head(o)
<1>1. o \in Seq(Vectors)
  BY DEF LaneOK, LaneType
<1>2. /\ t \in Seq(Vectors) /\ e \in Vectors
      /\ 1 \in DOMAIN o /\ e = o[1]
      /\ \A k \in DOMAIN t : k \in Int /\ k + 1 \in DOMAIN o /\ k + 1 # 1 /\ t[k] = o[k + 1]
  <2>1. t \in Seq(Vectors)
    BY <1>1, TailIs
  <2>2. \A k \in DOMAIN t : k \in Int
    BY <2>1
  <2>3. QED
    BY <1>1, <2>2, TailIs
<1>3. \A x : InSome(o, x) <=> InSome(t, x) \/ In(x, e)
  BY <1>1, TailSome
<1> HIDE DEF t, e
<1>4. \A x : Queued(q, b, o, x) <=> Queued(q, b, t, x) \/ In(x, e)
  BY <1>3 DEF Queued
<1>5. LaneType(q, b, t, e)
  BY <1>2 DEF LaneOK, LaneType, Vectors
<1>6. Distinct(e) /\ \A k \in DOMAIN t : Distinct(t[k])
  BY <1>2 DEF LaneOK, LaneOnce
<1>7. ASSUME NEW r \in Requests, In(r, e)
      PROVE  ~Queued(q, b, t, r)
  <2>1. ~In(r, q) /\ ~In(r, b)
    BY <1>3, <1>7 DEF LaneOK, LaneOnce
  <2>2. \A k \in DOMAIN t : ~In(r, t[k])
    BY <1>2, <1>7 DEF LaneOK, LaneOnce
  <2>3. QED
    BY <2>1, <2>2 DEF Queued, InSome
<1>8. ASSUME NEW r \in Requests, NEW j \in DOMAIN t, NEW k \in DOMAIN t,
             In(r, t[j]), In(r, t[k])
      PROVE  j = k
  <2>1. j + 1 = k + 1
    BY <1>2, <1>8 DEF LaneOK, LaneOnce
  <2>2. QED
    BY <1>2, <2>1
<1>9. LaneOnce(q, b, t, e)
  BY <1>3, <1>6, <1>7, <1>8 DEF LaneOK, LaneOnce
<1>10. QED
  BY <1>2, <1>4, <1>5, <1>9 DEF LaneOK, t, e

LEMMA LaneAnswer ==
  ASSUME NEW q, NEW b, NEW o, NEW h, LaneOK(q, b, o, h), h # <<>>
  PROVE  /\ LaneOK(q, b, o, Tail(h))
         /\ \A x : In(x, h) <=> In(x, Tail(h)) \/ x = Head(h)
         /\ Head(h) \in Requests /\ ~In(Head(h), Tail(h)) /\ ~Queued(q, b, o, Head(h))
<1>1. h \in Seq(Requests)
  BY DEF LaneOK, LaneType
<1>2. /\ Tail(h) \in Seq(Requests) /\ Head(h) \in Requests
      /\ \A x : In(x, h) <=> In(x, Tail(h)) \/ x = Head(h)
      /\ Distinct(Tail(h)) /\ ~In(Head(h), Tail(h))
  BY <1>1, TailIs, TailHolds DEF LaneOK, LaneOnce
<1>3. ~Queued(q, b, o, Head(h))
  BY <1>2 DEF LaneOK, LaneOnce
<1>4. QED
  BY <1>2, <1>3 DEF LaneOK, LaneType, LaneOnce

(* Whatever is dropped, the rest is still in one place. *)
LEMMA LaneDrop ==
  ASSUME NEW q, NEW b, NEW o, NEW h, LaneOK(q, b, o, h)
  PROVE  /\ LaneOK(<<>>, <<>>, o, h) /\ LaneOK(q, b, <<>>, <<>>) /\ LaneOK(q, b, o, <<>>)
         /\ \A x : Queued(<<>>, <<>>, o, x) => Queued(q, b, o, x)
         /\ \A x : Queued(q, b, <<>>, x) => Queued(q, b, o, x)
<1>1. \A r : ~In(r, <<>>) /\ ~InSome(<<>>, r)
  BY EmptyLane DEF Queued
<1>2. DOMAIN <<>> = {} /\ Distinct(<<>>) /\ <<>> \in Seq(Requests) /\ <<>> \in Seq(Vectors)
  BY EmptyLane DEF LaneOK, LaneOnce, LaneType
<1>3. QED
  BY <1>1, <1>2 DEF LaneOK, LaneType, LaneOnce, Queued

-----------------------------------------------------------------------------
(* The invariant.  First what the workers hold.                            *)

Answers == [ok : BOOLEAN, seq : Nat]
Copies == {[s \in S |-> leavesOf[s]] : S \in SUBSET DOMAIN leavesOf}

WorkersType ==
  /\ \/ subWorker = Listening
     \/ subWorker = [phase |-> "gone"]
     \/ subWorker \in [phase : {"store"}, items : Vectors]
     \/ subWorker \in [phase : {"reply"}, items : Vectors, result : Answers]
  /\ \/ updWorker = Listening
     \/ updWorker \in [phase : {"load"}, items : Vectors]
     \/ updWorker \in [phase : {"apply", "write"}, items : Vectors, loaded : Copies]
     \/ updWorker \in [phase : {"reply"}, items : Vectors, result : Answers]

SubHands == IF subWorker.phase \in {"store", "reply"} THEN subWorker.items ELSE <<>>
UpdHands == IF updWorker.phase # "recv" THEN updWorker.items ELSE <<>>

SubLaneInv ==
  /\ LaneOK(subInq, subBatch, subOutq, SubHands)
  /\ Len(subInq) <= InCap /\ Len(subOutq) <= OutCap
  /\ subEngine \in {"select", "flush", "stopped"}
  /\ subEngine = "flush" => subBatch # <<>>
  /\ subEngine = "stopped" => subWorker.phase = "gone"

UpdLaneInv ==
  /\ LaneOK(updInq, updBatch, updOutq, UpdHands)
  /\ Len(updInq) <= InCap /\ Len(updOutq) <= OutCap
  /\ updEngine \in {"select", "flush"}
  /\ updEngine = "flush" => updBatch # <<>>

(* Numbers are new: a batch, once written, keeps its requests.             *)
StoreInv ==
  /\ latest \in 0..LastSeq
  /\ DOMAIN leavesOf = 1..latest /\ DOMAIN rootOf = 1..latest
  /\ committed \in [1..latest -> Seq(Requests)]
  /\ ins # Store!Idle => ins.seq = latest + 1 /\ latest < LastSeq
  /\ upd # Store!Idle => DOMAIN upd.raw \subseteq DOMAIN leavesOf

HandlersType ==
  /\ call \in [Requests -> Calls \cup {None}]
  /\ stage \in [Requests -> Stages]
  /\ answer \in [Requests -> Answers \cup {None}]
  /\ reply \in [Requests -> [status : Statuses, seq : Nat] \cup {None}]
  /\ applied \subseteq Requests
  /\ faulted \in BOOLEAN
  /\ crashes \in 0..MaxCrashes

(* Where a request is, and what has become of it.                          *)
SubQueued(r) == Queued(subInq, subBatch, subOutq, r)
SubHeld(r) == In(r, SubHands)
UpdQueued(r) == Queued(updInq, updBatch, updOutq, r)
UpdHeld(r) == In(r, UpdHands)
Succeeded(worker) == worker.phase = "reply" /\ worker.result.ok
Failed(worker) == worker.phase = "reply" /\ ~worker.result.ok
Made(r) == call[r] # None
Unanswered(r) == stage[r] = "waiting" /\ answer[r] = None

(* A handler and its oneshot agree.                                        *)
HandlerInv(r) ==
  /\ stage[r] = "idle" <=> call[r] = None
  /\ stage[r] = "done" <=> reply[r] # None
  /\ answer[r] # None => stage[r] = "waiting"
  /\ Made(r) /\ IsSubmit(r) /\ stage[r] # "done" => call[r].root \in Leaves

(* Only requests that nobody has answered are in a lane, each in its own.   *)
PlaceInv(r) ==
  /\ SubQueued(r) \/ SubHeld(r) =>
       Made(r) /\ IsSubmit(r) /\ stage[r] \in {"waiting", "cancelled"} /\ answer[r] = None
  /\ UpdQueued(r) \/ UpdHeld(r) =>
       Made(r) /\ ~IsSubmit(r) /\ stage[r] \in {"waiting", "cancelled"} /\ answer[r] = None
  /\ Made(r) /\ IsSubmit(r) /\ Unanswered(r) =>
       SubQueued(r) \/ SubHeld(r) \/ subWorker.phase = "gone"

(* What has had an effect has left the channels, and is in the hands of its *)
(* worker, about to be told of success, or has been answered.              *)
EffectInv(r) ==
  /\ Committed(r) =>
       /\ Made(r) /\ IsSubmit(r) /\ stage[r] # "sending" /\ ~SubQueued(r)
       /\ SubHeld(r) => Succeeded(subWorker)
       /\ Unanswered(r) => SubHeld(r)
  /\ r \in applied =>
       /\ Made(r) /\ ~IsSubmit(r) /\ stage[r] # "sending" /\ ~UpdQueued(r)
       /\ UpdHeld(r) => Succeeded(updWorker)
       /\ Unanswered(r) => UpdHeld(r)
  /\ SubHeld(r) /\ Succeeded(subWorker) =>
       /\ subWorker.result.seq \in DOMAIN committed
       /\ In(r, committed[subWorker.result.seq])

(* What its client is told, or will be.                                    *)
OutcomeInv(r) ==
  /\ Made(r) /\ IsSubmit(r) /\ Answered(r, "Accepted") =>
       \E n \in DOMAIN committed : AcceptedAs(r, n) /\ In(r, committed[n])
  /\ Answered(r, "InternalError") => ~Committed(r) /\ r \notin applied
  /\ Made(r) /\ IsSubmit(r) /\ call[r].verdict = "valid" /\ Answered(r, "InternalError") =>
       faulted \/ latest = LastSeq

FailureInv ==
  /\ subWorker.phase = "gone" => latest = LastSeq
  /\ Failed(subWorker) => faulted

RequestInv(r) == HandlerInv(r) /\ PlaceInv(r) /\ EffectInv(r) /\ OutcomeInv(r)

IInv ==
  /\ WorkersType
  /\ SubLaneInv
  /\ UpdLaneInv
  /\ StoreInv
  /\ HandlersType
  /\ CommittedOnce
  /\ FailureInv
  /\ \A r \in Requests : RequestInv(r)

-----------------------------------------------------------------------------
(* Facts about the parameters. *)
LEMMA Parameters ==
  /\ LastSeq \in Nat /\ LastSeq # 0 /\ MaxCrashes \in Nat
  /\ InCap \in Nat /\ InCap # 0 /\ OutCap \in Nat /\ OutCap # 0
  /\ None \notin Calls
  /\ \A a \in Answers : a # None
  /\ \A status \in Statuses, n \in Nat : Response(status, n) # None
<1>1. /\ None \notin Calls \cup [ok : BOOLEAN, seq : Nat] \cup [status : Statuses, seq : Nat]
      /\ MaxBatchSize \in Nat /\ {InCap, OutCap, LastSeq} \subseteq Nat \ {0}
      /\ MaxCrashes \in Nat
  BY SequencerAssumption
<1>2. None \notin [ok : BOOLEAN, seq : Nat] /\ None \notin [status : Statuses, seq : Nat]
  BY <1>1
<1>3. \A a \in Answers : a # None
  BY <1>2 DEF Answers
<1>4. \A status \in Statuses, n \in Nat : Response(status, n) \in [status : Statuses, seq : Nat]
  BY DEF Response
<1>5. \A status \in Statuses, n \in Nat : Response(status, n) # None
  BY <1>2, <1>4
<1>6. QED
  BY <1>1, <1>3, <1>5

LEMMA Records ==
  /\ InternalError \in [status : Statuses, seq : Nat]
  /\ InvalidSignature \in [status : Statuses, seq : Nat]
  /\ InternalError # None /\ InvalidSignature # None
  /\ InternalError.status = "InternalError" /\ InvalidSignature.status = "InvalidSignature"
  /\ Err \in Answers /\ ~Err.ok
  /\ \A n \in Nat : Ok(n) \in Answers /\ Ok(n).ok /\ Ok(n).seq = n
<1>1. InternalError # None /\ InvalidSignature # None
  <2>1. "InternalError" \in Statuses /\ "InvalidSignature" \in Statuses
    BY DEF Statuses
  <2>2. QED
    BY <2>1, Parameters DEF InternalError, InvalidSignature
<1>2. /\ InternalError \in [status : Statuses, seq : Nat]
      /\ InvalidSignature \in [status : Statuses, seq : Nat]
      /\ InternalError.status = "InternalError" /\ InvalidSignature.status = "InvalidSignature"
  BY DEF InternalError, InvalidSignature, Response, Statuses
<1>3. /\ Err \in Answers /\ ~Err.ok
      /\ \A n \in Nat : Ok(n) \in Answers /\ Ok(n).ok /\ Ok(n).seq = n
  BY DEF Err, Ok, Answers
<1>4. QED
  BY <1>1, <1>2, <1>3

(* The kinds of calls, and what is left to refuse. *)
LEMMA CallKinds ==
  ASSUME NEW c \in Calls
  PROVE  /\ c.kind = "submit" => c.root \in Leaves \cup {Malformed}
         /\ c.kind # "submit" => c.kind = "update" /\ c.seq \in Nat
         /\ Refusal(c) \in {None, InternalError, InvalidSignature}
         /\ c.kind = "submit" /\ Refusal(c) = None => c.root \in Leaves
         /\ c.kind = "submit" /\ Refusal(c) = InternalError => c.verdict = "error"
         /\ c.kind # "submit" => Refusal(c) = None
<1>1. c \in SubmitCall \/ c \in UpdateCall
  BY SequencerAssumption
<1>2. /\ InternalError # None /\ InvalidSignature # None
      /\ InternalError.status # InvalidSignature.status
  BY Records
<1>3. CASE c \in SubmitCall
  <2>1. /\ c.kind = "submit" /\ c.root \in Leaves \cup {Malformed}
        /\ c.verdict \in {"valid", "invalid", "error"}
    BY <1>3 DEF SubmitCall
  <2>2. Refusal(c) = IF c.root = Malformed THEN InvalidSignature
                     ELSE IF c.verdict = "error" THEN InternalError
                     ELSE IF c.verdict = "invalid" THEN InvalidSignature ELSE None
    BY <2>1 DEF Refusal, Judgement
  <2>3. QED
    BY <1>2, <2>1, <2>2
<1>4. CASE c \in UpdateCall
  <2>1. c.kind = "update" /\ c.seq \in Nat
    BY <1>4 DEF UpdateCall
  <2>2. Refusal(c) = None
    BY <2>1 DEF Refusal
  <2>3. QED
    BY <2>1, <2>2
<1>5. QED
  BY <1>1, <1>3, <1>4

(* A new database, or one that earlier runs have filled. *)
LEMMA InitInv == Init => IInv
<1> SUFFICES ASSUME Init
             PROVE  IInv
  OBVIOUS
<1> USE Parameters
<1>1. PICK stored \in StoredAtStart : Opened(stored)
  BY DEF Init
<1>2. /\ stored \in Seq(Seq(Leaves) \ {<<>>}) /\ Len(stored) <= LastSeq
      /\ DOMAIN stored = 1..Len(stored) /\ Len(stored) \in Nat
  BY <1>1, SequencerAssumption
<1>3. StoreInv
  <2>1. committed \in [1..latest -> Seq(Requests)]
    BY <1>1, <1>2 DEF Opened
  <2>2. latest \in 0..LastSeq /\ DOMAIN leavesOf = 1..latest /\ DOMAIN rootOf = 1..latest
    BY <1>1, <1>2 DEF Opened
  <2>3. QED
    BY <2>1, <2>2 DEF StoreInv, Init
<1>4. SubHands = <<>> /\ UpdHands = <<>>
  BY DEF Init, SubHands, UpdHands, Listening
<1>5. SubLaneInv /\ UpdLaneInv
  BY <1>4, EmptyLane DEF Init, SubQ!Init, UpdQ!Init, SubLaneInv, UpdLaneInv
<1>6. WorkersType
  BY DEF Init, WorkersType
<1>7. HandlersType
  <2>1. crashes \in 0..MaxCrashes /\ applied \subseteq Requests
    BY DEF Init
  <2>4. faulted \in BOOLEAN
    BY DEF Init
  <2>2. call \in [Requests -> Calls \cup {None}] /\ stage \in [Requests -> Stages]
    BY DEF Init, Stages
  <2>3. /\ answer \in [Requests -> Answers \cup {None}]
        /\ reply \in [Requests -> [status : Statuses, seq : Nat] \cup {None}]
    BY DEF Init
  <2>5. QED
    BY <2>1, <2>2, <2>3, <2>4 DEF HandlersType
<1>8. \A n \in DOMAIN committed : committed[n] = <<>>
  BY <1>1 DEF Opened
<1>9. CommittedOnce
  BY <1>8 DEF CommittedOnce
<1>10. FailureInv
  BY DEF Init, FailureInv, Failed, Listening
<1>11. \A r : ~Committed(r) /\ ~SubQueued(r) /\ ~SubHeld(r) /\ ~UpdQueued(r) /\ ~UpdHeld(r)
  BY <1>4, <1>8, EmptyLane
  DEF Init, SubQ!Init, UpdQ!Init, Committed, SubQueued, SubHeld, UpdQueued, UpdHeld
<1>12. \A r \in Requests : RequestInv(r)
  BY <1>11
  DEF Init, RequestInv, HandlerInv, PlaceInv, EffectInv, OutcomeInv, Made, Unanswered, Answered
<1>13. QED
  BY <1>3, <1>5, <1>6, <1>7, <1>9, <1>10, <1>12 DEF IInv

-----------------------------------------------------------------------------
(* What a step leaves as it is. *)

LEMMA SubLaneFrame ==
  ASSUME UNCHANGED <<subLane, subWorker>>
  PROVE  /\ SubLaneInv => SubLaneInv'
         /\ Succeeded(subWorker)' = Succeeded(subWorker)
         /\ Failed(subWorker)' = Failed(subWorker)
         /\ \A r : SubQueued(r)' = SubQueued(r) /\ SubHeld(r)' = SubHeld(r)
<1>1. /\ subInq' = subInq /\ subBatch' = subBatch /\ subOutq' = subOutq
      /\ subEngine' = subEngine /\ subWorker' = subWorker
  BY DEF subLane
<1>2. SubHands' = SubHands
  BY <1>1 DEF SubHands
<1>3. QED
  BY <1>1, <1>2 DEF SubLaneInv, Succeeded, Failed, SubQueued, SubHeld

LEMMA UpdLaneFrame ==
  ASSUME UNCHANGED <<updLane, updWorker>>
  PROVE  /\ UpdLaneInv => UpdLaneInv'
         /\ Succeeded(updWorker)' = Succeeded(updWorker)
         /\ \A r : UpdQueued(r)' = UpdQueued(r) /\ UpdHeld(r)' = UpdHeld(r)
<1>1. /\ updInq' = updInq /\ updBatch' = updBatch /\ updOutq' = updOutq
      /\ updEngine' = updEngine /\ updWorker' = updWorker
  BY DEF updLane
<1>2. UpdHands' = UpdHands
  BY <1>1 DEF UpdHands
<1>3. QED
  BY <1>1, <1>2 DEF UpdLaneInv, Succeeded, UpdQueued, UpdHeld

LEMMA StoreFrame ==
  ASSUME UNCHANGED <<store, committed>>
  PROVE  StoreInv => StoreInv'
  BY DEF StoreInv, store, records, Store!Idle

LEMMA CommittedFrame ==
  ASSUME UNCHANGED committed
  PROVE  /\ CommittedOnce => CommittedOnce'
         /\ \A r : Committed(r)' = Committed(r)
  BY DEF CommittedOnce, Committed

LEMMA WorkersFrame ==
  ASSUME UNCHANGED <<subWorker, updWorker, leavesOf>>
  PROVE  WorkersType => WorkersType'
  BY DEF WorkersType, Copies

(* The part of the state that only r's own handler changes.                *)
LEMMA HandlerFrame ==
  ASSUME NEW r, call'[r] = call[r], stage'[r] = stage[r], answer'[r] = answer[r],
         reply'[r] = reply[r]
  PROVE  /\ HandlerInv(r) => HandlerInv(r)'
         /\ Made(r)' = Made(r) /\ IsSubmit(r)' = IsSubmit(r)
         /\ Unanswered(r)' = Unanswered(r)
         /\ \A status : Answered(r, status)' = Answered(r, status)
         /\ \A n : AcceptedAs(r, n)' = AcceptedAs(r, n)
  BY DEF HandlerInv, Made, IsSubmit, Unanswered, Answered, AcceptedAs

(* A request about which nothing changes.                                  *)
LEMMA RequestFrame ==
  ASSUME NEW r \in Requests, RequestInv(r),
         call'[r] = call[r], stage'[r] = stage[r], answer'[r] = answer[r], reply'[r] = reply[r],
         UNCHANGED <<subLane, updLane, subWorker, updWorker, committed, applied>>,
         faulted \/ latest = LastSeq => faulted' \/ latest' = LastSeq
  PROVE  RequestInv(r)'
<1>1. /\ HandlerInv(r)' /\ Made(r)' = Made(r) /\ IsSubmit(r)' = IsSubmit(r)
      /\ Unanswered(r)' = Unanswered(r)
      /\ \A status : Answered(r, status)' = Answered(r, status)
      /\ \A n : AcceptedAs(r, n)' = AcceptedAs(r, n)
  BY HandlerFrame DEF RequestInv
<1>2. /\ SubQueued(r)' = SubQueued(r) /\ SubHeld(r)' = SubHeld(r)
      /\ Succeeded(subWorker)' = Succeeded(subWorker)
  BY SubLaneFrame
<1>3. /\ UpdQueued(r)' = UpdQueued(r) /\ UpdHeld(r)' = UpdHeld(r)
      /\ Succeeded(updWorker)' = Succeeded(updWorker)
  BY UpdLaneFrame
<1>4. Committed(r)' = Committed(r) /\ committed' = committed /\ applied' = applied
  BY CommittedFrame
<1>5. PlaceInv(r)'
  BY <1>1, <1>2, <1>3 DEF RequestInv, PlaceInv
<1>6. EffectInv(r)'
  BY <1>1, <1>2, <1>3, <1>4 DEF RequestInv, EffectInv
<1>7. OutcomeInv(r)'
  BY <1>1, <1>4 DEF RequestInv, OutcomeInv
<1>8. QED
  BY <1>1, <1>5, <1>6, <1>7 DEF RequestInv

(* A step of r's handler by itself. *)
LEMMA HandlerStep ==
  ASSUME IInv, NEW r \in Requests,
         UNCHANGED <<subLane, updLane, subWorker, updWorker, store, history>>,
         \A x \in Requests \ {r} : /\ call'[x] = call[x] /\ stage'[x] = stage[x]
                                   /\ answer'[x] = answer[x] /\ reply'[x] = reply[x],
         HandlersType', RequestInv(r)'
  PROVE  IInv'
<1>1. UNCHANGED <<committed, applied, faulted, crashes>> /\ UNCHANGED <<latest, leavesOf>>
  BY DEF history, store, records
<1>2. \A x \in Requests : RequestInv(x)'
  BY <1>1, RequestFrame DEF IInv
<1>3. SubLaneInv' /\ UpdLaneInv' /\ StoreInv' /\ CommittedOnce' /\ WorkersType'
  BY <1>1, SubLaneFrame, UpdLaneFrame, StoreFrame, CommittedFrame, WorkersFrame DEF IInv
<1>4. FailureInv'
  BY <1>1, SubLaneFrame DEF IInv, FailureInv
<1>5. QED
  BY <1>2, <1>3, <1>4 DEF IInv

(* The handler of r after a change of its stage alone, or of its answers.   *)
LEMMA HandlerParts ==
  ASSUME NEW r \in Requests, RequestInv(r),
         UNCHANGED <<subLane, updLane, subWorker, updWorker, committed, applied>>,
         HandlerInv(r)', PlaceInv(r)', OutcomeInv(r)',
         Made(r) => Made(r)' /\ IsSubmit(r)' = IsSubmit(r),
         Made(r) /\ stage'[r] = "sending" => stage[r] = "sending",
         Unanswered(r)' => Unanswered(r)
  PROVE  RequestInv(r)'
<1>2. /\ SubQueued(r)' = SubQueued(r) /\ SubHeld(r)' = SubHeld(r)
      /\ Succeeded(subWorker)' = Succeeded(subWorker)
  BY SubLaneFrame
<1>3. /\ UpdQueued(r)' = UpdQueued(r) /\ UpdHeld(r)' = UpdHeld(r)
      /\ Succeeded(updWorker)' = Succeeded(updWorker)
  BY UpdLaneFrame
<1>4. Committed(r)' = Committed(r) /\ committed' = committed /\ applied' = applied
  BY CommittedFrame
<1>5. EffectInv(r)'
  BY <1>2, <1>3, <1>4 DEF RequestInv, EffectInv
<1>6. QED
  BY <1>5 DEF RequestInv

LEMMA MakeKeeps ==
  ASSUME IInv, NEW r \in Requests, NEW c \in Calls, Make(r, c)
  PROVE  IInv'
<1>1. /\ stage[r] = "idle" /\ call[r] = None /\ answer[r] = None /\ reply[r] = None
      /\ ~Made(r) /\ call \in [Requests -> Calls \cup {None}] /\ stage \in [Requests -> Stages]
      /\ answer \in [Requests -> Answers \cup {None}]
      /\ reply \in [Requests -> [status : Statuses, seq : Nat] \cup {None}]
  BY DEF Make, IInv, HandlersType, RequestInv, HandlerInv, Made
<1>2. /\ call' = [call EXCEPT ![r] = c] /\ answer' = answer
      /\ stage' = [stage EXCEPT ![r] = IF Refusal(c) = None THEN "sending" ELSE "done"]
      /\ reply' = [reply EXCEPT ![r] = Refusal(c)]
      /\ UNCHANGED <<subLane, updLane, subWorker, updWorker, store, history>>
  BY DEF Make
<1>3. /\ call'[r] = c /\ answer'[r] = None /\ reply'[r] = Refusal(c)
      /\ stage'[r] = IF Refusal(c) = None THEN "sending" ELSE "done"
  BY <1>1, <1>2
<1>4. c # None
  BY Parameters
<1>5. /\ Refusal(c) \in {None, InternalError, InvalidSignature}
      /\ c.kind = "submit" /\ Refusal(c) = None => c.root \in Leaves
      /\ c.kind = "submit" /\ Refusal(c) = InternalError => c.verdict = "error"
      /\ c.kind # "submit" => Refusal(c) = None
  BY CallKinds
<1>6. HandlersType'
  <2>1. call' \in [Requests -> Calls \cup {None}]
    BY <1>1, <1>2
  <2>2. stage' \in [Requests -> Stages]
    BY <1>1, <1>2 DEF Stages
  <2>3. reply' \in [Requests -> [status : Statuses, seq : Nat] \cup {None}]
    BY <1>1, <1>2, <1>5, Records
  <2>4. QED
    BY <1>1, <1>2, <2>1, <2>2, <2>3 DEF IInv, HandlersType, history
<1>7. ~SubQueued(r) /\ ~SubHeld(r) /\ ~UpdQueued(r) /\ ~UpdHeld(r) /\ ~Committed(r) /\ r \notin applied
  BY <1>1 DEF IInv, RequestInv, PlaceInv, EffectInv
<1>8. /\ ~SubQueued(r)' /\ ~SubHeld(r)' /\ ~UpdQueued(r)' /\ ~UpdHeld(r)'
      /\ ~Committed(r)' /\ r \notin applied'
  BY <1>2, <1>7, SubLaneFrame, UpdLaneFrame, CommittedFrame DEF history
<1>9. /\ Made(r)' /\ ~Unanswered(r)' /\ IsSubmit(r)' = (c.kind = "submit")
  BY <1>3, <1>4 DEF Made, Unanswered, IsSubmit
<1>10. HandlerInv(r)'
  BY <1>3, <1>4, <1>5, <1>9, Records DEF HandlerInv
<1>11. PlaceInv(r)' /\ EffectInv(r)'
  BY <1>8, <1>9 DEF PlaceInv, EffectInv
<1>12. /\ ~Answered(r, "Accepted")'
       /\ Answered(r, "InternalError")' => Refusal(c) = InternalError
  BY <1>3, <1>5, Records DEF Answered
<1>13. Answered(r, "InternalError")' => c.verdict # "valid"
  BY <1>5, <1>12, Records
<1>14. OutcomeInv(r)'
  BY <1>3, <1>8, <1>12, <1>13 DEF OutcomeInv
<1>15. \A x \in Requests \ {r} : /\ call'[x] = call[x] /\ stage'[x] = stage[x]
                                 /\ answer'[x] = answer[x] /\ reply'[x] = reply[x]
  BY <1>1, <1>2
<1>16. QED
  BY <1>2, <1>6, <1>10, <1>11, <1>14, <1>15, HandlerStep DEF RequestInv

(* What is known of a request whose handler has not finished.              *)
LEMMA Running ==
  ASSUME IInv, NEW r \in Requests, stage[r] \in {"sending", "waiting"}
  PROVE  /\ Made(r) /\ reply[r] = None
         /\ call \in [Requests -> Calls \cup {None}] /\ stage \in [Requests -> Stages]
         /\ answer \in [Requests -> Answers \cup {None}]
         /\ reply \in [Requests -> [status : Statuses, seq : Nat] \cup {None}]
         /\ RequestInv(r)
  BY DEF IInv, HandlersType, RequestInv, HandlerInv, Made

(* Any end of the handler that agrees with what has become of the request.  *)
LEMMA FinishKeeps ==
  ASSUME IInv, NEW r \in Requests, stage[r] \in {"sending", "waiting"},
         NEW response \in [status : Statuses, seq : Nat], Finish(r, response),
         ~SubQueued(r) /\ ~SubHeld(r) /\ ~UpdQueued(r) /\ ~UpdHeld(r),
         response.status = "Accepted" /\ IsSubmit(r) =>
           \E n \in DOMAIN committed : response = Response("Accepted", n) /\ In(r, committed[n]),
         response.status = "InternalError" =>
           /\ ~Committed(r) /\ r \notin applied
           /\ IsSubmit(r) /\ call[r].verdict = "valid" => faulted \/ latest = LastSeq
  PROVE  IInv'
<1>1. /\ Made(r) /\ reply[r] = None
      /\ call \in [Requests -> Calls \cup {None}] /\ stage \in [Requests -> Stages]
      /\ answer \in [Requests -> Answers \cup {None}]
      /\ reply \in [Requests -> [status : Statuses, seq : Nat] \cup {None}]
      /\ RequestInv(r)
  BY Running
<1>2. /\ stage' = [stage EXCEPT ![r] = "done"]
      /\ reply' = [reply EXCEPT ![r] = response]
      /\ answer' = [answer EXCEPT ![r] = None]
      /\ UNCHANGED <<call, subLane, updLane, subWorker, updWorker, store, history>>
  BY DEF Finish
<1>3. /\ call'[r] = call[r] /\ stage'[r] = "done" /\ reply'[r] = response /\ answer'[r] = None
  BY <1>1, <1>2
<1>4. response # None
  <2>1. response.status \in Statuses /\ response.seq \in Nat
        /\ response = Response(response.status, response.seq)
    BY DEF Response
  <2>2. QED
    BY <2>1, Parameters
<1>5. HandlersType'
  <2>1. stage' \in [Requests -> Stages]
    BY <1>1, <1>2 DEF Stages
  <2>2. /\ reply' \in [Requests -> [status : Statuses, seq : Nat] \cup {None}]
        /\ answer' \in [Requests -> Answers \cup {None}]
    BY <1>1, <1>2
  <2>3. QED
    BY <1>1, <1>2, <2>1, <2>2 DEF IInv, HandlersType, history
<1>6. /\ Made(r)' /\ IsSubmit(r)' = IsSubmit(r) /\ ~Unanswered(r)'
  BY <1>1, <1>3 DEF Made, IsSubmit, Unanswered
<1>7. HandlerInv(r)'
  BY <1>1, <1>3, <1>4, <1>6 DEF HandlerInv, Made
<1>8. /\ SubQueued(r)' = SubQueued(r) /\ SubHeld(r)' = SubHeld(r)
      /\ UpdQueued(r)' = UpdQueued(r) /\ UpdHeld(r)' = UpdHeld(r)
      /\ Committed(r)' = Committed(r) /\ applied' = applied /\ committed' = committed
      /\ faulted' = faulted /\ latest' = latest
  BY <1>2, SubLaneFrame, UpdLaneFrame, CommittedFrame DEF history, store, records
<1>9. PlaceInv(r)'
  BY <1>6, <1>8 DEF PlaceInv
<1>10. \A status : Answered(r, status)' <=> response.status = status
  BY <1>3, <1>4 DEF Answered
<1>11. \A n : response = Response("Accepted", n) => AcceptedAs(r, n)'
  BY <1>3 DEF AcceptedAs
<1>12. OutcomeInv(r)'
  BY <1>3, <1>6, <1>8, <1>10, <1>11 DEF OutcomeInv
<1>13. RequestInv(r)'
  BY <1>1, <1>2, <1>3, <1>6, <1>7, <1>9, <1>12, HandlerParts DEF history
<1>14. \A x \in Requests \ {r} : /\ call'[x] = call[x] /\ stage'[x] = stage[x]
                                 /\ answer'[x] = answer[x] /\ reply'[x] = reply[x]
  BY <1>1, <1>2
<1>15. QED
  BY <1>2, <1>5, <1>13, <1>14, HandlerStep

LEMMA SendFailsKeeps ==
  ASSUME IInv, NEW r \in Requests, SendFails(r)
  PROVE  IInv'
<1>1. stage[r] = "sending" /\ Finish(r, InternalError)
  BY DEF SendFails
<1>2. ~SubQueued(r) /\ ~SubHeld(r) /\ ~UpdQueued(r) /\ ~UpdHeld(r) /\ ~Committed(r) /\ r \notin applied
  BY <1>1 DEF IInv, RequestInv, PlaceInv, EffectInv
<1>3. IsSubmit(r) => latest = LastSeq
  BY DEF SendFails, IInv, SubLaneInv, FailureInv
<1>4. QED
  BY <1>1, <1>2, <1>3, FinishKeeps, Records

(* An oneshot without an answer that nobody holds any more.                *)
LEMMA PendingIs ==
  ASSUME IInv, NEW r \in Requests
  PROVE  Pending(r) <=> SubQueued(r) \/ SubHeld(r) \/ UpdQueued(r) \/ UpdHeld(r)
<1>1. /\ SubQ!Inside(r) <=> SubQueued(r)
      /\ UpdQ!Inside(r) <=> UpdQueued(r)
  BY DEF SubQ!Inside, UpdQ!Inside, SubQ!Holds, UpdQ!Holds, SubQueued, UpdQueued, Queued, InSome, In
<1>2. ~In(r, <<>>)
  BY EmptyLane
<1>3. Working(subWorker, r) <=> SubHeld(r)
  BY <1>2 DEF IInv, WorkersType, Listening, Working, SubHeld, SubHands, In
<1>4. Working(updWorker, r) <=> UpdHeld(r)
  BY <1>2 DEF IInv, WorkersType, Listening, Working, UpdHeld, UpdHands, In
<1>5. QED
  BY <1>1, <1>3, <1>4 DEF Pending

LEMMA WorkerDroppedKeeps ==
  ASSUME IInv, NEW r \in Requests, WorkerDropped(r)
  PROVE  IInv'
<1>1. stage[r] = "waiting" /\ answer[r] = None /\ Finish(r, InternalError)
  BY DEF WorkerDropped
<1>2. ~SubQueued(r) /\ ~SubHeld(r) /\ ~UpdQueued(r) /\ ~UpdHeld(r)
  BY PendingIs DEF WorkerDropped
<1>3. ~Committed(r) /\ r \notin applied
  BY <1>1, <1>2 DEF IInv, RequestInv, EffectInv, Unanswered
<1>4. IsSubmit(r) => latest = LastSeq
  BY <1>1, <1>2, Running DEF IInv, RequestInv, PlaceInv, FailureInv, Unanswered
<1>5. QED
  BY <1>1, <1>2, <1>3, <1>4, FinishKeeps, Records

LEMMA ReturnKeeps ==
  ASSUME IInv, NEW r \in Requests, Return(r)
  PROVE  IInv'
<1> DEFINE response == IF answer[r].ok THEN Response("Accepted", answer[r].seq) ELSE InternalError
<1>1. stage[r] = "waiting" /\ answer[r] # None /\ Finish(r, response)
  BY DEF Return
<1>2. answer[r] \in Answers /\ Made(r) /\ RequestInv(r) /\ reply[r] = None
  BY <1>1, Running
<1>3. ~SubQueued(r) /\ ~SubHeld(r) /\ ~UpdQueued(r) /\ ~UpdHeld(r)
  BY <1>1, <1>2 DEF RequestInv, PlaceInv
<1>4. response \in [status : Statuses, seq : Nat]
  BY <1>2, Records DEF Response, Statuses, Answers
<1>5. \A status : Answered(r, status) <=> status = response.status
  BY <1>1, <1>2, Records DEF Answered, Response
<1>6. ASSUME response.status = "Accepted", IsSubmit(r)
      PROVE  \E n \in DOMAIN committed : response = Response("Accepted", n) /\ In(r, committed[n])
  <2>1. PICK n \in DOMAIN committed : AcceptedAs(r, n) /\ In(r, committed[n])
    BY <1>2, <1>5, <1>6 DEF RequestInv, OutcomeInv
  <2>2. n \in Nat
    BY DEF IInv, StoreInv
  <2>3. Response("Accepted", n) # None
    BY <2>2, Parameters DEF Statuses
  <2>4. answer[r] = Ok(n)
    BY <1>2, <2>1, <2>3 DEF AcceptedAs
  <2>5. response = Response("Accepted", n)
    BY <2>4 DEF Ok
  <2>6. QED
    BY <2>1, <2>5
<1>7. ASSUME response.status = "InternalError"
      PROVE  ~Committed(r) /\ r \notin applied
  BY <1>2, <1>5, <1>7 DEF RequestInv, OutcomeInv
<1>8. ASSUME response.status = "InternalError", IsSubmit(r), call[r].verdict = "valid"
      PROVE  faulted \/ latest = LastSeq
  BY <1>2, <1>5, <1>8 DEF RequestInv, OutcomeInv
<1> HIDE DEF response
<1>9. QED
  BY <1>1, <1>3, <1>4, <1>6, <1>7, <1>8, FinishKeeps

LEMMA CancelKeeps ==
  ASSUME IInv, NEW r \in Requests, Cancel(r)
  PROVE  IInv'
<1>1. /\ stage[r] \in {"sending", "waiting"}
      /\ stage' = [stage EXCEPT ![r] = "cancelled"]
      /\ answer' = [answer EXCEPT ![r] = None]
      /\ UNCHANGED <<call, reply, subLane, updLane, subWorker, updWorker, store, history>>
  BY DEF Cancel
<1>2. /\ Made(r) /\ reply[r] = None
      /\ call \in [Requests -> Calls \cup {None}] /\ stage \in [Requests -> Stages]
      /\ answer \in [Requests -> Answers \cup {None}]
      /\ reply \in [Requests -> [status : Statuses, seq : Nat] \cup {None}]
      /\ RequestInv(r)
  BY <1>1, Running
<1>3. /\ call'[r] = call[r] /\ stage'[r] = "cancelled" /\ reply'[r] = None /\ answer'[r] = None
  BY <1>1, <1>2
<1>4. HandlersType'
  <2>1. stage' \in [Requests -> Stages]
    BY <1>1, <1>2 DEF Stages
  <2>2. answer' \in [Requests -> Answers \cup {None}]
    BY <1>1, <1>2
  <2>3. QED
    BY <1>1, <1>2, <2>1, <2>2 DEF IInv, HandlersType, history
<1>5. /\ Made(r)' /\ IsSubmit(r)' = IsSubmit(r) /\ ~Unanswered(r)'
  BY <1>2, <1>3 DEF Made, IsSubmit, Unanswered
<1>6. HandlerInv(r)'
  BY <1>1, <1>2, <1>3, <1>5 DEF RequestInv, HandlerInv, Made
<1>7. /\ SubQueued(r)' = SubQueued(r) /\ SubHeld(r)' = SubHeld(r)
      /\ UpdQueued(r)' = UpdQueued(r) /\ UpdHeld(r)' = UpdHeld(r)
  BY <1>1, SubLaneFrame, UpdLaneFrame
<1>8. PlaceInv(r)'
  BY <1>2, <1>3, <1>5, <1>7 DEF RequestInv, PlaceInv
<1>9. OutcomeInv(r)'
  BY <1>3 DEF OutcomeInv, Answered
<1>10. RequestInv(r)'
  BY <1>1, <1>2, <1>3, <1>5, <1>6, <1>8, <1>9, HandlerParts DEF history
<1>11. \A x \in Requests \ {r} : /\ call'[x] = call[x] /\ stage'[x] = stage[x]
                                 /\ answer'[x] = answer[x] /\ reply'[x] = reply[x]
  BY <1>1, <1>2
<1>12. QED
  BY <1>1, <1>4, <1>10, <1>11, HandlerStep

-----------------------------------------------------------------------------
(* Steps of engines and workers. *)

LEMMA HandlersFrame ==
  ASSUME HandlersType, UNCHANGED <<handlers, crashes>>, applied' \subseteq Requests,
         faulted' \in BOOLEAN
  PROVE  HandlersType'
  BY DEF HandlersType, handlers

(* A request moves on in its lane, or is dropped with the lane of a worker  *)
(* that is gone, while its handler waits.                                  *)
LEMMA RequestMoves ==
  ASSUME NEW r \in Requests, RequestInv(r),
         call'[r] = call[r], stage'[r] = stage[r], answer'[r] = answer[r], reply'[r] = reply[r],
         DOMAIN committed \subseteq DOMAIN committed',
         \A n \in DOMAIN committed : committed'[n] = committed[n],
         Committed(r)' => Committed(r),
         r \in applied' <=> r \in applied,
         faulted \/ latest = LastSeq => faulted' \/ latest' = LastSeq,
         SubQueued(r)' => SubQueued(r),
         SubHeld(r)' => SubHeld(r) \/ SubQueued(r),
         SubQueued(r) \/ SubHeld(r) \/ subWorker.phase = "gone" =>
           SubQueued(r)' \/ SubHeld(r)' \/ subWorker'.phase = "gone",
         SubHeld(r) /\ Succeeded(subWorker) => SubHeld(r)' /\ Succeeded(subWorker)',
         SubHeld(r)' /\ Succeeded(subWorker)' =>
           SubHeld(r) /\ Succeeded(subWorker) /\ subWorker'.result.seq = subWorker.result.seq,
         UpdQueued(r)' => UpdQueued(r),
         UpdHeld(r)' => UpdHeld(r) \/ UpdQueued(r),
         UpdHeld(r) /\ Succeeded(updWorker) => UpdHeld(r)' /\ Succeeded(updWorker)'
  PROVE  RequestInv(r)'
<1>1. /\ HandlerInv(r)' /\ Made(r)' = Made(r) /\ IsSubmit(r)' = IsSubmit(r)
      /\ Unanswered(r)' = Unanswered(r)
      /\ \A status : Answered(r, status)' = Answered(r, status)
      /\ \A n : AcceptedAs(r, n)' = AcceptedAs(r, n)
  BY HandlerFrame DEF RequestInv
<1>2. PlaceInv(r)'
  BY <1>1 DEF RequestInv, PlaceInv
<1>3. Committed(r) => Committed(r)'
  BY DEF Committed
<1>4. EffectInv(r)'
  BY <1>1 DEF RequestInv, EffectInv
<1>5. OutcomeInv(r)'
  BY <1>1 DEF RequestInv, OutcomeInv
<1>6. QED
  BY <1>1, <1>2, <1>4, <1>5 DEF RequestInv

(* What a step of an engine has to keep. *)
LEMMA SubEngineStep ==
  ASSUME IInv, UNCHANGED <<handlers, updLane, subWorker, updWorker, store, history>>,
         SubLaneInv',
         \A x : SubQueued(x)' => SubQueued(x),
         \A x : SubQueued(x) => SubQueued(x)' \/ subWorker.phase = "gone"
  PROVE  IInv'
<1>1. /\ UNCHANGED <<call, stage, answer, reply>>
      /\ UNCHANGED <<committed, applied, faulted, crashes>> /\ UNCHANGED <<latest, leavesOf>>
  BY DEF handlers, history, store, records
<1>2. \A x : SubHeld(x)' = SubHeld(x)
  BY DEF SubHeld, SubHands
<1>3. /\ Succeeded(subWorker)' = Succeeded(subWorker) /\ Failed(subWorker)' = Failed(subWorker)
      /\ Succeeded(updWorker)' = Succeeded(updWorker)
  BY DEF Succeeded, Failed
<1>4. UpdLaneInv' /\ \A x : UpdQueued(x)' = UpdQueued(x) /\ UpdHeld(x)' = UpdHeld(x)
  BY UpdLaneFrame DEF IInv
<1>5. StoreInv' /\ CommittedOnce' /\ WorkersType' /\ \A x : Committed(x)' = Committed(x)
  BY <1>1, StoreFrame, CommittedFrame, WorkersFrame DEF IInv
<1>6. HandlersType'
  BY <1>1, HandlersFrame DEF IInv, HandlersType
<1>7. FailureInv'
  BY <1>1, <1>3 DEF IInv, FailureInv
<1>8. ASSUME NEW x \in Requests
      PROVE  RequestInv(x)'
  BY <1>1, <1>2, <1>3, <1>4, <1>5, RequestMoves DEF IInv
<1>9. QED
  BY <1>4, <1>5, <1>6, <1>7, <1>8 DEF IInv

LEMMA UpdEngineStep ==
  ASSUME IInv, UNCHANGED <<handlers, subLane, subWorker, updWorker, store, history>>,
         UpdLaneInv',
         \A x : UpdQueued(x)' <=> UpdQueued(x)
  PROVE  IInv'
<1>1. /\ UNCHANGED <<call, stage, answer, reply>>
      /\ UNCHANGED <<committed, applied, faulted, crashes>> /\ UNCHANGED <<latest, leavesOf>>
  BY DEF handlers, history, store, records
<1>2. \A x : UpdHeld(x)' = UpdHeld(x)
  BY DEF UpdHeld, UpdHands
<1>3. Succeeded(updWorker)' = Succeeded(updWorker)
  BY DEF Succeeded
<1>4. /\ SubLaneInv' /\ \A x : SubQueued(x)' = SubQueued(x) /\ SubHeld(x)' = SubHeld(x)
      /\ Succeeded(subWorker)' = Succeeded(subWorker) /\ Failed(subWorker)' = Failed(subWorker)
  BY SubLaneFrame DEF IInv
<1>5. StoreInv' /\ CommittedOnce' /\ WorkersType' /\ \A x : Committed(x)' = Committed(x)
  BY <1>1, StoreFrame, CommittedFrame, WorkersFrame DEF IInv
<1>6. HandlersType'
  BY <1>1, HandlersFrame DEF IInv, HandlersType
<1>7. FailureInv'
  BY <1>1, <1>4 DEF IInv, FailureInv
<1>8. ASSUME NEW x \in Requests
      PROVE  RequestInv(x)'
  BY <1>1, <1>2, <1>3, <1>4, <1>5, RequestMoves DEF IInv
<1>9. QED
  BY <1>4, <1>5, <1>6, <1>7, <1>8 DEF IInv

LEMMA SubEngineKeeps ==
  ASSUME IInv, SubEngine
  PROVE  IInv'
<1> USE Parameters
<1>1. UNCHANGED <<handlers, updLane, subWorker, updWorker, store, history>>
  BY DEF SubEngine
<1>2. /\ LaneOK(subInq, subBatch, subOutq, SubHands)
      /\ subInq \in Seq(Requests) /\ subBatch \in Seq(Requests) /\ subOutq \in Seq(Vectors)
      /\ Len(subInq) <= InCap /\ Len(subOutq) <= OutCap
      /\ subEngine = "stopped" => subWorker.phase = "gone"
      /\ subEngine = "flush" => subBatch # <<>>
      /\ SubHands' = SubHands /\ subWorker' = subWorker
  BY <1>1 DEF IInv, SubLaneInv, LaneOK, LaneType, SubHands
<1>3. CASE SubQ!Recv
  <2>1. /\ subEngine = "select" /\ subInq # <<>> /\ subOutq' = subOutq
        /\ subBatch' = Append(subBatch, Head(subInq)) /\ subInq' = Tail(subInq)
        /\ subEngine' \in {"flush", "select"}
    BY <1>3 DEF SubQ!Recv
  <2>2. /\ LaneOK(Tail(subInq), Append(subBatch, Head(subInq)), subOutq, SubHands)
        /\ \A x : Queued(Tail(subInq), Append(subBatch, Head(subInq)), subOutq, x)
                    <=> Queued(subInq, subBatch, subOutq, x)
    BY <1>2, <2>1, LaneRecv
  <2>3. subBatch' # <<>> /\ Len(subInq') <= InCap
    BY <1>2, <2>1
  <2>4. SubLaneInv'
    BY <1>2, <2>1, <2>2, <2>3 DEF SubLaneInv
  <2>5. \A x : SubQueued(x)' <=> SubQueued(x)
    BY <2>1, <2>2 DEF SubQueued
  <2>6. QED
    BY <1>1, <2>4, <2>5, SubEngineStep
<1>4. CASE SubQ!Timeout
  <2>1. /\ subBatch # <<>> /\ subEngine' = "flush"
        /\ subInq' = subInq /\ subBatch' = subBatch /\ subOutq' = subOutq
    BY <1>4 DEF SubQ!Timeout
  <2>2. SubLaneInv'
    BY <1>2, <2>1 DEF SubLaneInv
  <2>3. \A x : SubQueued(x)' <=> SubQueued(x)
    BY <2>1 DEF SubQueued
  <2>4. QED
    BY <1>1, <2>2, <2>3, SubEngineStep
<1>5. CASE SubQ!Flush
  <2>1. /\ subEngine = "flush" /\ Len(subOutq) < OutCap /\ subEngine' = "select"
        /\ subInq' = subInq /\ subBatch' = <<>> /\ subOutq' = Append(subOutq, subBatch)
    BY <1>5 DEF SubQ!Flush, IInv, SubLaneInv
  <2>2. /\ LaneOK(subInq, <<>>, Append(subOutq, subBatch), SubHands)
        /\ \A x : Queued(subInq, <<>>, Append(subOutq, subBatch), x)
                    <=> Queued(subInq, subBatch, subOutq, x)
    BY <1>2, <2>1, LaneFlush
  <2>3. Len(subOutq') <= OutCap
    BY <1>2, <2>1
  <2>4. SubLaneInv'
    BY <1>2, <2>1, <2>2, <2>3 DEF SubLaneInv
  <2>5. \A x : SubQueued(x)' <=> SubQueued(x)
    BY <2>1, <2>2 DEF SubQueued
  <2>6. QED
    BY <1>1, <2>4, <2>5, SubEngineStep
<1>6. CASE SubQ!FlushFails
  <2>1. /\ subWorker.phase = "gone" /\ subEngine' = "stopped"
        /\ subInq' = <<>> /\ subBatch' = <<>> /\ subOutq' = subOutq
    BY <1>6 DEF SubQ!FlushFails
  <2>2. /\ LaneOK(<<>>, <<>>, subOutq, SubHands)
        /\ \A x : Queued(<<>>, <<>>, subOutq, x) => Queued(subInq, subBatch, subOutq, x)
    BY <1>2, LaneDrop
  <2>3. Len(subInq') <= InCap
    BY <2>1
  <2>4. SubLaneInv'
    BY <1>2, <2>1, <2>2, <2>3 DEF SubLaneInv
  <2>5. \A x : SubQueued(x)' => SubQueued(x)
    BY <2>1, <2>2 DEF SubQueued
  <2>6. QED
    BY <1>1, <2>1, <2>4, <2>5, SubEngineStep
<1>7. QED
  BY <1>3, <1>4, <1>5, <1>6 DEF SubEngine

LEMMA UpdEngineKeeps ==
  ASSUME IInv, UpdEngine
  PROVE  IInv'
<1> USE Parameters
<1>1. UNCHANGED <<handlers, subLane, subWorker, updWorker, store, history>>
  BY DEF UpdEngine
<1>2. /\ LaneOK(updInq, updBatch, updOutq, UpdHands)
      /\ updInq \in Seq(Requests) /\ updBatch \in Seq(Requests) /\ updOutq \in Seq(Vectors)
      /\ Len(updInq) <= InCap /\ Len(updOutq) <= OutCap
      /\ updEngine = "flush" => updBatch # <<>>
      /\ UpdHands' = UpdHands
  BY <1>1 DEF IInv, UpdLaneInv, LaneOK, LaneType, UpdHands
<1>3. CASE UpdQ!Recv
  <2>1. /\ updInq # <<>> /\ updOutq' = updOutq
        /\ updBatch' = Append(updBatch, Head(updInq)) /\ updInq' = Tail(updInq)
        /\ updEngine' \in {"flush", "select"}
    BY <1>3 DEF UpdQ!Recv
  <2>2. /\ LaneOK(Tail(updInq), Append(updBatch, Head(updInq)), updOutq, UpdHands)
        /\ \A x : Queued(Tail(updInq), Append(updBatch, Head(updInq)), updOutq, x)
                    <=> Queued(updInq, updBatch, updOutq, x)
    BY <1>2, <2>1, LaneRecv
  <2>3. updBatch' # <<>> /\ Len(updInq') <= InCap
    BY <1>2, <2>1
  <2>4. UpdLaneInv'
    BY <1>2, <2>1, <2>2, <2>3 DEF UpdLaneInv
  <2>5. \A x : UpdQueued(x)' <=> UpdQueued(x)
    BY <2>1, <2>2 DEF UpdQueued
  <2>6. QED
    BY <1>1, <2>4, <2>5, UpdEngineStep
<1>4. CASE UpdQ!Timeout
  <2>1. /\ updBatch # <<>> /\ updEngine' = "flush"
        /\ updInq' = updInq /\ updBatch' = updBatch /\ updOutq' = updOutq
    BY <1>4 DEF UpdQ!Timeout
  <2>2. UpdLaneInv'
    BY <1>2, <2>1 DEF UpdLaneInv
  <2>3. \A x : UpdQueued(x)' <=> UpdQueued(x)
    BY <2>1 DEF UpdQueued
  <2>4. QED
    BY <1>1, <2>2, <2>3, UpdEngineStep
<1>5. CASE UpdQ!Flush
  <2>1. /\ updEngine = "flush" /\ Len(updOutq) < OutCap /\ updEngine' = "select"
        /\ updInq' = updInq /\ updBatch' = <<>> /\ updOutq' = Append(updOutq, updBatch)
    BY <1>5 DEF UpdQ!Flush, IInv, UpdLaneInv
  <2>2. /\ LaneOK(updInq, <<>>, Append(updOutq, updBatch), UpdHands)
        /\ \A x : Queued(updInq, <<>>, Append(updOutq, updBatch), x)
                    <=> Queued(updInq, updBatch, updOutq, x)
    BY <1>2, <2>1, LaneFlush
  <2>3. Len(updOutq') <= OutCap
    BY <1>2, <2>1
  <2>4. UpdLaneInv'
    BY <1>2, <2>1, <2>2, <2>3 DEF UpdLaneInv
  <2>5. \A x : UpdQueued(x)' <=> UpdQueued(x)
    BY <2>1, <2>2 DEF UpdQueued
  <2>6. QED
    BY <1>1, <2>4, <2>5, UpdEngineStep
<1>6. QED
  BY <1>3, <1>4, <1>5 DEF UpdEngine

(* An item enters its lane, and its handler waits from now on.             *)
LEMMA SendSubmissionKeeps ==
  ASSUME IInv, NEW r \in Requests, SendSubmission(r)
  PROVE  IInv'
<1> USE Parameters
<1>1. /\ stage[r] = "sending" /\ IsSubmit(r)
      /\ stage' = [stage EXCEPT ![r] = "waiting"]
      /\ UNCHANGED <<call, answer, reply, updLane, subWorker, updWorker, store, history>>
      /\ Len(subInq) < InCap /\ subInq' = Append(subInq, r)
      /\ subBatch' = subBatch /\ subOutq' = subOutq /\ subEngine' = subEngine
  BY DEF SendSubmission, SubQ!Send
<1>2. /\ Made(r) /\ reply[r] = None /\ stage \in [Requests -> Stages] /\ RequestInv(r)
  BY <1>1, Running
<1>3. /\ ~SubQueued(r) /\ ~SubHeld(r) /\ ~UpdQueued(r) /\ ~UpdHeld(r)
      /\ ~Committed(r) /\ r \notin applied /\ answer[r] = None
  BY <1>1, <1>2 DEF RequestInv, PlaceInv, EffectInv, HandlerInv
<1>4. /\ UNCHANGED <<committed, applied, faulted, crashes>> /\ UNCHANGED <<latest, leavesOf>>
  BY <1>1 DEF history, store, records
<1>5. SubHands' = SubHands
  BY <1>1 DEF SubHands
<1>6. /\ LaneOK(Append(subInq, r), subBatch, subOutq, SubHands)
      /\ \A x : Queued(Append(subInq, r), subBatch, subOutq, x)
                  <=> Queued(subInq, subBatch, subOutq, x) \/ x = r
  BY <1>3, LaneSend DEF IInv, SubLaneInv, SubQueued, SubHeld
<1>7. /\ \A x : SubQueued(x)' <=> SubQueued(x) \/ x = r
      /\ \A x : SubHeld(x)' <=> SubHeld(x)
  BY <1>1, <1>5, <1>6 DEF SubQueued, SubHeld
<1>8. Len(subInq') <= InCap
  BY <1>1 DEF IInv, SubLaneInv, LaneOK, LaneType
<1>9. SubLaneInv'
  BY <1>1, <1>5, <1>6, <1>8 DEF IInv, SubLaneInv
<1>10. UpdLaneInv' /\ \A x : UpdQueued(x)' = UpdQueued(x) /\ UpdHeld(x)' = UpdHeld(x)
  BY <1>1, UpdLaneFrame DEF IInv
<1>11. StoreInv' /\ CommittedOnce' /\ WorkersType' /\ \A x : Committed(x)' = Committed(x)
  BY <1>1, <1>4, StoreFrame, CommittedFrame, WorkersFrame DEF IInv
<1>12. /\ Succeeded(subWorker)' = Succeeded(subWorker) /\ Failed(subWorker)' = Failed(subWorker)
       /\ Succeeded(updWorker)' = Succeeded(updWorker)
  BY <1>1 DEF Succeeded, Failed
<1>13. FailureInv'
  BY <1>1, <1>4, <1>12 DEF IInv, FailureInv
<1>14. stage'[r] = "waiting" /\ \A x \in Requests \ {r} : stage'[x] = stage[x]
  BY <1>1, <1>2
<1>15. HandlersType'
  <2>1. stage' \in [Requests -> Stages]
    BY <1>1, <1>2 DEF Stages
  <2>2. QED
    BY <1>1, <1>4, <2>1 DEF IInv, HandlersType
<1>16. RequestInv(r)'
  <2>1. HandlerInv(r)'
    BY <1>1, <1>2, <1>3, <1>14 DEF RequestInv, HandlerInv, Made, IsSubmit
  <2>2. PlaceInv(r)'
    BY <1>1, <1>2, <1>3, <1>7, <1>10, <1>14 DEF PlaceInv, Made, IsSubmit
  <2>3. EffectInv(r)'
    BY <1>3, <1>4, <1>7, <1>10, <1>11 DEF EffectInv
  <2>4. OutcomeInv(r)'
    BY <1>1, <1>2, <1>3 DEF OutcomeInv, Answered
  <2>5. QED
    BY <2>1, <2>2, <2>3, <2>4 DEF RequestInv
<1>17. ASSUME NEW x \in Requests \ {r}
       PROVE  RequestInv(x)'
  BY <1>1, <1>4, <1>7, <1>10, <1>11, <1>12, <1>14, RequestMoves DEF IInv
<1>18. QED
  BY <1>9, <1>10, <1>11, <1>13, <1>15, <1>16, <1>17 DEF IInv

LEMMA SendUpdateKeeps ==
  ASSUME IInv, NEW r \in Requests, SendUpdate(r)
  PROVE  IInv'
<1> USE Parameters
<1>1. /\ stage[r] = "sending" /\ ~IsSubmit(r)
      /\ stage' = [stage EXCEPT ![r] = "waiting"]
      /\ UNCHANGED <<call, answer, reply, subLane, subWorker, updWorker, store, history>>
      /\ Len(updInq) < InCap /\ updInq' = Append(updInq, r)
      /\ updBatch' = updBatch /\ updOutq' = updOutq /\ updEngine' = updEngine
  BY DEF SendUpdate, UpdQ!Send
<1>2. /\ Made(r) /\ reply[r] = None /\ stage \in [Requests -> Stages] /\ RequestInv(r)
  BY <1>1, Running
<1>3. /\ ~SubQueued(r) /\ ~SubHeld(r) /\ ~UpdQueued(r) /\ ~UpdHeld(r)
      /\ ~Committed(r) /\ r \notin applied /\ answer[r] = None
  BY <1>1, <1>2 DEF RequestInv, PlaceInv, EffectInv, HandlerInv
<1>4. /\ UNCHANGED <<committed, applied, faulted, crashes>> /\ UNCHANGED <<latest, leavesOf>>
  BY <1>1 DEF history, store, records
<1>5. UpdHands' = UpdHands
  BY <1>1 DEF UpdHands
<1>6. /\ LaneOK(Append(updInq, r), updBatch, updOutq, UpdHands)
      /\ \A x : Queued(Append(updInq, r), updBatch, updOutq, x)
                  <=> Queued(updInq, updBatch, updOutq, x) \/ x = r
  BY <1>3, LaneSend DEF IInv, UpdLaneInv, UpdQueued, UpdHeld
<1>7. /\ \A x : UpdQueued(x)' <=> UpdQueued(x) \/ x = r
      /\ \A x : UpdHeld(x)' <=> UpdHeld(x)
  BY <1>1, <1>5, <1>6 DEF UpdQueued, UpdHeld
<1>8. Len(updInq') <= InCap
  BY <1>1 DEF IInv, UpdLaneInv, LaneOK, LaneType
<1>9. UpdLaneInv'
  BY <1>1, <1>5, <1>6, <1>8 DEF IInv, UpdLaneInv
<1>10. SubLaneInv' /\ \A x : SubQueued(x)' = SubQueued(x) /\ SubHeld(x)' = SubHeld(x)
  BY <1>1, SubLaneFrame DEF IInv
<1>11. StoreInv' /\ CommittedOnce' /\ WorkersType' /\ \A x : Committed(x)' = Committed(x)
  BY <1>1, <1>4, StoreFrame, CommittedFrame, WorkersFrame DEF IInv
<1>12. /\ Succeeded(subWorker)' = Succeeded(subWorker) /\ Failed(subWorker)' = Failed(subWorker)
       /\ Succeeded(updWorker)' = Succeeded(updWorker)
  BY <1>1 DEF Succeeded, Failed
<1>13. FailureInv'
  BY <1>1, <1>4, <1>12 DEF IInv, FailureInv
<1>14. stage'[r] = "waiting" /\ \A x \in Requests \ {r} : stage'[x] = stage[x]
  BY <1>1, <1>2
<1>15. HandlersType'
  <2>1. stage' \in [Requests -> Stages]
    BY <1>1, <1>2 DEF Stages
  <2>2. QED
    BY <1>1, <1>4, <2>1 DEF IInv, HandlersType
<1>16. RequestInv(r)'
  <2>1. HandlerInv(r)'
    BY <1>1, <1>2, <1>3, <1>14 DEF RequestInv, HandlerInv, Made, IsSubmit
  <2>2. PlaceInv(r)'
    BY <1>1, <1>2, <1>3, <1>7, <1>10, <1>14 DEF PlaceInv, Made, IsSubmit
  <2>3. EffectInv(r)'
    BY <1>3, <1>4, <1>7, <1>10, <1>11 DEF EffectInv
  <2>4. OutcomeInv(r)'
    BY <1>1, <1>2, <1>3 DEF OutcomeInv, Answered
  <2>5. QED
    BY <2>1, <2>2, <2>3, <2>4 DEF RequestInv
<1>17. ASSUME NEW x \in Requests \ {r}
       PROVE  RequestInv(x)'
  BY <1>1, <1>4, <1>7, <1>10, <1>11, <1>12, <1>14, RequestMoves DEF IInv
<1>18. QED
  BY <1>9, <1>10, <1>11, <1>13, <1>15, <1>16, <1>17 DEF IInv

(* A step of the submission worker that leaves its items and the numbers.   *)
LEMMA SubWorkerStep ==
  ASSUME IInv, UNCHANGED <<handlers, subLane, updLane, updWorker, committed, applied, crashes, latest>>,
         faulted' \in BOOLEAN, faulted => faulted',
         subWorker.phase = "store", SubHands' = SubHands, subWorker'.phase # "gone",
         ~Succeeded(subWorker)', Failed(subWorker)' => faulted',
         WorkersType', StoreInv'
  PROVE  IInv'
<1>1. /\ UNCHANGED <<call, stage, answer, reply>>
      /\ UNCHANGED <<subInq, subBatch, subOutq, subEngine>>
  BY DEF handlers, subLane
<1>2. ~Succeeded(subWorker)
  BY DEF Succeeded
<1>3. \A x : SubQueued(x)' = SubQueued(x) /\ SubHeld(x)' = SubHeld(x)
  BY <1>1 DEF SubQueued, SubHeld
<1>4. SubLaneInv'
  BY <1>1 DEF IInv, SubLaneInv
<1>5. /\ UpdLaneInv' /\ \A x : UpdQueued(x)' = UpdQueued(x) /\ UpdHeld(x)' = UpdHeld(x)
      /\ Succeeded(updWorker)' = Succeeded(updWorker)
  BY UpdLaneFrame DEF IInv
<1>6. CommittedOnce' /\ \A x : Committed(x)' = Committed(x)
  BY CommittedFrame DEF IInv
<1>7. HandlersType'
  BY HandlersFrame DEF IInv, HandlersType
<1>8. FailureInv'
  BY DEF FailureInv
<1>9. ASSUME NEW x \in Requests
      PROVE  RequestInv(x)'
  BY <1>1, <1>2, <1>3, <1>5, <1>6, RequestMoves DEF IInv
<1>10. QED
  BY <1>4, <1>5, <1>6, <1>7, <1>8, <1>9 DEF IInv

(* The same of the update worker. *)
LEMMA UpdWorkerStep ==
  ASSUME IInv, UNCHANGED <<handlers, subLane, updLane, subWorker, committed, applied, crashes, latest>>,
         faulted' \in BOOLEAN, faulted => faulted',
         UpdHands' = UpdHands, Succeeded(updWorker) => Succeeded(updWorker)',
         WorkersType', StoreInv'
  PROVE  IInv'
<1>1. /\ UNCHANGED <<call, stage, answer, reply>>
      /\ UNCHANGED <<updInq, updBatch, updOutq, updEngine>>
  BY DEF handlers, updLane
<1>2. \A x : UpdQueued(x)' = UpdQueued(x) /\ UpdHeld(x)' = UpdHeld(x)
  BY <1>1 DEF UpdQueued, UpdHeld
<1>3. UpdLaneInv'
  BY <1>1 DEF IInv, UpdLaneInv
<1>4. /\ SubLaneInv' /\ \A x : SubQueued(x)' = SubQueued(x) /\ SubHeld(x)' = SubHeld(x)
      /\ Succeeded(subWorker)' = Succeeded(subWorker) /\ Failed(subWorker)' = Failed(subWorker)
  BY SubLaneFrame DEF IInv
<1>5. CommittedOnce' /\ \A x : Committed(x)' = Committed(x)
  BY CommittedFrame DEF IInv
<1>6. HandlersType'
  BY HandlersFrame DEF IInv, HandlersType
<1>7. FailureInv'
  BY <1>4 DEF IInv, FailureInv
<1>8. ASSUME NEW x \in Requests
      PROVE  RequestInv(x)'
  BY <1>1, <1>2, <1>4, <1>5, RequestMoves DEF IInv
<1>9. QED
  BY <1>3, <1>4, <1>5, <1>6, <1>7, <1>8 DEF IInv

LEMMA SubReceiveKeeps ==
  ASSUME IInv, SubReceive
  PROVE  IInv'
<1> DEFINE items == Head(subOutq)
<1>1. /\ subWorker = Listening /\ subOutq # <<>>
      /\ UNCHANGED <<handlers, updLane, updWorker, store, history>>
      /\ subOutq' = Tail(subOutq) /\ subInq' = subInq /\ subBatch' = subBatch
      /\ subEngine' = subEngine
  BY DEF SubReceive, SubQ!Take
<1>2. /\ UNCHANGED <<call, stage, answer, reply>>
      /\ UNCHANGED <<committed, applied, faulted, crashes>> /\ UNCHANGED <<latest, leavesOf>>
  BY <1>1 DEF handlers, history, store, records
<1>3. SubHands = <<>> /\ subWorker.phase = "recv"
  BY <1>1 DEF SubHands, Listening
<1>4. /\ LaneOK(subInq, subBatch, Tail(subOutq), items)
      /\ items \in Vectors
      /\ \A x : Queued(subInq, subBatch, subOutq, x)
                  <=> Queued(subInq, subBatch, Tail(subOutq), x) \/ In(x, items)
  BY <1>1, <1>3, LaneTake DEF IInv, SubLaneInv
<1>5. \A k \in DOMAIN items : call[items[k]].root \in Leaves
  <2> SUFFICES ASSUME NEW k \in DOMAIN items
               PROVE  call[items[k]].root \in Leaves
    OBVIOUS
  <2>1. items[k] \in Requests /\ In(items[k], items)
    BY <1>4, InIs DEF Vectors
  <2>2. SubQueued(items[k])
    BY <1>4, <2>1 DEF SubQueued
  <2>3. QED
    BY <2>1, <2>2 DEF IInv, RequestInv, PlaceInv, HandlerInv
<1>6. subWorker' = [phase |-> "store", items |-> items]
  BY <1>5 DEF SubReceive
<1> HIDE DEF items
<1>7. SubHands' = items
  BY <1>6 DEF SubHands
<1>8. \A x : /\ SubQueued(x) <=> SubQueued(x)' \/ SubHeld(x)'
             /\ ~SubHeld(x)
  BY <1>1, <1>3, <1>4, <1>7, EmptyLane DEF SubQueued, SubHeld, items
<1>9. SubLaneInv'
  <2>1. Len(Tail(subOutq)) <= OutCap
    BY <1>1, Parameters DEF IInv, SubLaneInv, LaneOK, LaneType
  <2>2. subEngine # "stopped"
    BY <1>3 DEF IInv, SubLaneInv
  <2>3. QED
    BY <1>1, <1>4, <1>7, <2>1, <2>2 DEF IInv, SubLaneInv, items
<1>10. WorkersType'
  <2>1. subWorker' \in [phase : {"store"}, items : Vectors]
    BY <1>4, <1>6 DEF items
  <2>2. Copies' = Copies
    BY <1>2 DEF Copies
  <2>3. QED
    BY <1>1, <2>1, <2>2 DEF IInv, WorkersType
<1>11. ~Succeeded(subWorker)' /\ ~Succeeded(subWorker) /\ ~Failed(subWorker)'
  BY <1>3, <1>6 DEF Succeeded, Failed
<1>12. /\ UpdLaneInv' /\ \A x : UpdQueued(x)' = UpdQueued(x) /\ UpdHeld(x)' = UpdHeld(x)
       /\ Succeeded(updWorker)' = Succeeded(updWorker)
  BY <1>1, UpdLaneFrame DEF IInv
<1>13. StoreInv' /\ CommittedOnce' /\ \A x : Committed(x)' = Committed(x)
  BY <1>1, <1>2, StoreFrame, CommittedFrame DEF IInv
<1>14. HandlersType'
  BY <1>1, <1>2, HandlersFrame DEF IInv, HandlersType
<1>15. FailureInv'
  BY <1>6, <1>11 DEF FailureInv
<1>16. ASSUME NEW x \in Requests
       PROVE  RequestInv(x)'
  BY <1>2, <1>3, <1>8, <1>11, <1>12, <1>13, RequestMoves DEF IInv
<1>17. QED
  BY <1>9, <1>10, <1>12, <1>13, <1>14, <1>15, <1>16 DEF IInv

(* The number is the one after the last, if it can be read and counted up.  *)
LEMMA SubBeginKeeps ==
  ASSUME CounterReliable, IInv, SubBegin
  PROVE  IInv'
<1> USE Parameters
<1>1. /\ subWorker.phase = "store"
      /\ UNCHANGED <<handlers, subLane, updLane, subWorker, updWorker, history>>
      /\ UNCHANGED <<records, upd>> /\ ins = Store!Idle
      /\ latest # LastSeq /\ ins'.seq = (latest + 1) % (LastSeq + 1)
  BY DEF SubBegin, Store!InsertBegin, Store!LatestRead, Store!NextSeq, Store!records, records,
         CounterReliable
<1>2. /\ UNCHANGED <<committed, applied, faulted, crashes>>
      /\ UNCHANGED <<latest, rootOf, leavesOf>>
  BY <1>1 DEF history, records
<1>3. latest \in 0..LastSeq
  BY DEF IInv, StoreInv
<1>4. ins'.seq = latest + 1 /\ latest < LastSeq
  BY <1>1, <1>3
<1>5. StoreInv'
  BY <1>1, <1>2, <1>4 DEF IInv, StoreInv, Store!Idle
<1>6. SubHands' = SubHands /\ ~Succeeded(subWorker)' /\ ~Failed(subWorker)'
  BY <1>1 DEF SubHands, Succeeded, Failed
<1>7. WorkersType'
  BY <1>1, <1>2, WorkersFrame DEF IInv
<1>8. faulted' \in BOOLEAN
  BY <1>2 DEF IInv, HandlersType
<1>9. QED
  BY <1>1, <1>2, <1>5, <1>6, <1>7, <1>8, SubWorkerStep

LEMMA SubStoreFailsKeeps ==
  ASSUME IInv, SubStoreFails
  PROVE  IInv'
<1> USE Parameters
<1>1. /\ subWorker.phase = "store"
      /\ subWorker' = WithResult(subWorker, Err)
      /\ faulted' = TRUE
      /\ UNCHANGED <<handlers, subLane, updLane, updWorker, committed, applied, crashes>>
      /\ ins' = Store!Idle /\ UNCHANGED <<records, upd>>
  BY DEF SubStoreFails, Store!InsertFails, Store!records, records
<1>2. UNCHANGED <<latest, rootOf, leavesOf>>
  BY <1>1 DEF records
<1>3. subWorker \in [phase : {"store"}, items : Vectors]
  BY <1>1 DEF IInv, WorkersType, Listening
<1>4. /\ subWorker' \in [phase : {"reply"}, items : Vectors, result : Answers]
      /\ SubHands' = SubHands /\ ~Succeeded(subWorker)' /\ subWorker'.phase # "gone"
  BY <1>1, <1>3, Records DEF WithResult, SubHands, Succeeded
<1>5. WorkersType'
  <2>1. Copies' = Copies
    BY <1>2 DEF Copies
  <2>2. QED
    BY <1>1, <1>4, <2>1 DEF IInv, WorkersType
<1>6. StoreInv'
  BY <1>1, <1>2 DEF IInv, StoreInv, Store!Idle
<1>7. faulted' \in BOOLEAN
  BY <1>1
<1>8. QED
  BY <1>1, <1>2, <1>4, <1>5, <1>6, <1>7, SubWorkerStep

(* The worker dies and takes its batch and those behind it along.           *)
LEMMA SubPanicsKeeps ==
  ASSUME IInv, SubPanics
  PROVE  IInv'
<1> USE Parameters
<1>1. /\ subWorker.phase = "store" /\ latest = LastSeq
      /\ subWorker' = [phase |-> "gone"]
      /\ UNCHANGED <<handlers, updLane, updWorker, store, history>>
      /\ subOutq' = <<>> /\ subInq' = subInq /\ subBatch' = subBatch /\ subEngine' = subEngine
  BY DEF SubPanics, Store!InsertOverflows, SubQ!ConsumerGone
<1>2. /\ UNCHANGED <<call, stage, answer, reply>>
      /\ UNCHANGED <<committed, applied, faulted, crashes>> /\ UNCHANGED <<latest, leavesOf>>
  BY <1>1 DEF handlers, history, store, records
<1>3. /\ SubHands' = <<>> /\ ~Succeeded(subWorker) /\ ~Succeeded(subWorker)'
      /\ ~Failed(subWorker)' /\ subWorker'.phase = "gone"
  BY <1>1 DEF SubHands, Succeeded, Failed
<1>4. /\ LaneOK(subInq, subBatch, <<>>, <<>>)
      /\ \A x : Queued(subInq, subBatch, <<>>, x) => Queued(subInq, subBatch, subOutq, x)
  BY LaneDrop DEF IInv, SubLaneInv
<1>5. \A x : (SubQueued(x)' => SubQueued(x)) /\ ~SubHeld(x)'
  BY <1>1, <1>3, <1>4, EmptyLane DEF SubQueued, SubHeld
<1>6. SubLaneInv'
  BY <1>1, <1>3, <1>4 DEF IInv, SubLaneInv
<1>7. WorkersType'
  <2>1. Copies' = Copies
    BY <1>2 DEF Copies
  <2>2. QED
    BY <1>1, <2>1 DEF IInv, WorkersType
<1>8. /\ UpdLaneInv' /\ \A x : UpdQueued(x)' = UpdQueued(x) /\ UpdHeld(x)' = UpdHeld(x)
      /\ Succeeded(updWorker)' = Succeeded(updWorker)
  BY <1>1, UpdLaneFrame DEF IInv
<1>9. StoreInv' /\ CommittedOnce' /\ \A x : Committed(x)' = Committed(x)
  BY <1>1, <1>2, StoreFrame, CommittedFrame DEF IInv
<1>10. HandlersType'
  BY <1>1, <1>2, HandlersFrame DEF IInv, HandlersType
<1>11. FailureInv'
  BY <1>1, <1>2, <1>3 DEF FailureInv
<1>12. ASSUME NEW x \in Requests
       PROVE  RequestInv(x)'
  BY <1>2, <1>3, <1>5, <1>8, <1>9, RequestMoves DEF IInv
<1>13. QED
  BY <1>6, <1>7, <1>8, <1>9, <1>10, <1>11, <1>12 DEF IInv

(* The batch is written under the new number: to what was there it adds the *)
(* requests that the worker holds, and none of those was there.            *)
LEMMA SubCommitKeeps ==
  ASSUME IInv, SubCommit
  PROVE  IInv'
<1> DEFINE n == latest + 1
           items == subWorker.items
<1>1. /\ subWorker.phase = "store"
      /\ UNCHANGED <<handlers, subLane, updLane, updWorker, applied, faulted, crashes>>
      /\ ins.phase = "write" /\ ins' = Store!Idle /\ upd' = upd
      /\ subWorker' = WithResult(subWorker, Ok(ins.seq))
      /\ committed' = Store!Put(ins.seq, items, committed)
      /\ rootOf' = Store!Put(ins.seq, ins.root, rootOf)
      /\ leavesOf' = Store!Put(ins.seq, ins.leaves, leavesOf)
      /\ latest' = ins.seq
  BY DEF SubCommit, Store!InsertWrite
<1>2. /\ UNCHANGED <<call, stage, answer, reply>>
      /\ UNCHANGED <<subInq, subBatch, subOutq, subEngine>>
  BY <1>1 DEF handlers, subLane
<1>3. ins.seq = n /\ latest < LastSeq
  BY <1>1 DEF IInv, StoreInv, Store!Idle
<1>4. /\ latest \in Nat /\ LastSeq \in Nat /\ DOMAIN committed = 1..latest
      /\ DOMAIN leavesOf = 1..latest /\ DOMAIN rootOf = 1..latest
      /\ committed \in [1..latest -> Seq(Requests)]
  BY Parameters DEF IInv, StoreInv
<1>5. subWorker \in [phase : {"store"}, items : Vectors]
  BY <1>1 DEF IInv, WorkersType, Listening
<1>6. items \in Vectors /\ SubHands = items
  BY <1>1, <1>5 DEF SubHands
<1>7. /\ subWorker' = [phase |-> "reply", items |-> items, result |-> Ok(n)]
      /\ SubHands' = items /\ Succeeded(subWorker)' /\ ~Succeeded(subWorker)
      /\ ~Failed(subWorker)' /\ subWorker'.phase = "reply" /\ subWorker'.result.seq = n
  BY <1>1, <1>3, <1>6 DEF WithResult, SubHands, Succeeded, Failed, Ok
<1>8. n \notin 1..latest /\ 1..(latest + 1) = 1..latest \cup {n} /\ n \in Nat /\ n <= LastSeq
  BY <1>3, <1>4
<1>9. /\ DOMAIN committed' = 1..latest \cup {n}
      /\ committed'[n] = items
      /\ \A m \in 1..latest : committed'[m] = committed[m]
      /\ committed' \in [1..latest \cup {n} -> Seq(Requests)]
  <2>1. committed' = [m \in {n} \cup 1..latest |-> IF m = n THEN items ELSE committed[m]]
    BY <1>1, <1>3, <1>4 DEF Store!Put, Store!Over
  <2> HIDE DEF n, items
  <2>2. items \in Seq(Requests) /\ \A m \in 1..latest : committed[m] \in Seq(Requests)
    BY <1>4, <1>6 DEF Vectors
  <2>3. QED
    BY <1>8, <2>1, <2>2
<1>10. /\ DOMAIN leavesOf' = 1..latest \cup {n} /\ DOMAIN rootOf' = 1..latest \cup {n}
       /\ \A m \in 1..latest : leavesOf'[m] = leavesOf[m]
  <2>1. /\ leavesOf' = [m \in {n} \cup 1..latest |-> IF m = n THEN ins.leaves ELSE leavesOf[m]]
        /\ rootOf' = [m \in {n} \cup 1..latest |-> IF m = n THEN ins.root ELSE rootOf[m]]
    BY <1>1, <1>3, <1>4 DEF Store!Put, Store!Over
  <2>2. QED
    BY <1>8, <2>1
<1>11. latest' = n
  BY <1>1, <1>3
<1>12. StoreInv'
  <2>1. latest' \in 0..LastSeq /\ 1..latest' = 1..latest \cup {n}
    BY <1>8, <1>11
  <2>2. upd' # Store!Idle => DOMAIN upd'.raw \subseteq DOMAIN leavesOf'
    BY <1>1, <1>4, <1>10 DEF IInv, StoreInv
  <2>3. QED
    BY <1>1, <1>9, <1>10, <2>1, <2>2 DEF StoreInv, Store!Idle
<1>13. \A x : SubQueued(x)' = SubQueued(x) /\ SubHeld(x)' = SubHeld(x)
  BY <1>2, <1>6, <1>7 DEF SubQueued, SubHeld
<1>14. SubLaneInv'
  BY <1>2, <1>6, <1>7, <1>1 DEF IInv, SubLaneInv
<1>15. WorkersType'
  <2>1. subWorker' \in [phase : {"reply"}, items : Vectors, result : Answers]
    BY <1>6, <1>7, <1>8, Records
  <2>2. ASSUME NEW S \in SUBSET DOMAIN leavesOf
        PROVE  [s \in S |-> leavesOf[s]] \in Copies'
    <3>1. S \subseteq DOMAIN leavesOf' /\ [s \in S |-> leavesOf[s]] = [s \in S |-> leavesOf'[s]]
      BY <1>4, <1>10
    <3>2. QED
      BY <3>1 DEF Copies
  <2>3. Copies \subseteq Copies'
    BY <2>2 DEF Copies
  <2>4. updWorker' = updWorker
    BY <1>1
  <2>5. QED
    BY <2>1, <2>3, <2>4 DEF IInv, WorkersType
<1>16. /\ UpdLaneInv' /\ \A x : UpdQueued(x)' = UpdQueued(x) /\ UpdHeld(x)' = UpdHeld(x)
       /\ Succeeded(updWorker)' = Succeeded(updWorker)
  BY <1>1, UpdLaneFrame DEF IInv
<1>17. HandlersType'
  BY <1>1, HandlersFrame DEF IInv, HandlersType
<1>18. FailureInv'
  BY <1>7 DEF FailureInv
<1> HIDE DEF n, items
<1>19. \A x \in Requests : In(x, items) => ~Committed(x) /\ ~SubQueued(x)
  BY <1>6, <1>7 DEF IInv, RequestInv, EffectInv, SubHeld, SubLaneInv, LaneOK, LaneOnce, SubQueued
<1>20. \A x : Committed(x)' <=> Committed(x) \/ In(x, items)
  BY <1>4, <1>8, <1>9 DEF Committed
<1>21. CommittedOnce'
  <2> SUFFICES ASSUME NEW m \in DOMAIN committed', NEW k \in DOMAIN committed',
                      NEW i \in DOMAIN committed'[m], NEW j \in DOMAIN committed'[k],
                      committed'[m][i] = committed'[k][j]
               PROVE  m = k /\ i = j
    BY DEF CommittedOnce
  <2>1. CASE m \in 1..latest /\ k \in 1..latest
    BY <1>4, <1>9, <2>1 DEF IInv, CommittedOnce
  <2>2. CASE m = n /\ k = n
    BY <1>6, <1>9, <2>2 DEF IInv, SubLaneInv, LaneOK, LaneOnce, Distinct
  <2>3. \A y \in DOMAIN items :
          items[y] \in Requests /\ In(items[y], items)
    BY <1>6, InIs DEF Vectors
  <2>4. \A y \in DOMAIN items, x \in 1..latest : \A z \in DOMAIN committed[x] :
          committed[x][z] # items[y]
    BY <1>4, <1>19, <2>3, InIs DEF Committed
  <2>5. CASE m \in 1..latest /\ k = n
    BY <1>9, <2>4, <2>5
  <2>6. CASE m = n /\ k \in 1..latest
    BY <1>9, <2>4, <2>6
  <2>7. QED
    BY <1>9, <2>1, <2>2, <2>5, <2>6
<1>22. ASSUME NEW x \in Requests, ~In(x, items)
       PROVE  RequestInv(x)'
  <2>1. ~SubHeld(x)
    BY <1>6, <1>22 DEF SubHeld
  <2>2. faulted \/ latest = LastSeq => faulted' \/ latest' = LastSeq
    BY <1>1, <1>3, <1>4
  <2>3. Committed(x)' => Committed(x)
    BY <1>20, <1>22
  <2>4. applied' = applied /\ UNCHANGED <<call, stage, answer, reply>>
    BY <1>1, <1>2
  <2>5. DOMAIN committed \subseteq DOMAIN committed'
        /\ \A m \in DOMAIN committed : committed'[m] = committed[m]
    BY <1>4, <1>9
  <2>6. subWorker.phase # "gone"
    BY <1>1
  <2>7. RequestInv(x)
    BY DEF IInv
  <2>8. QED
    BY <1>7, <1>13, <1>16, <2>1, <2>2, <2>3, <2>4, <2>5, <2>6, <2>7, RequestMoves
<1>23. ASSUME NEW x \in Requests, In(x, items)
       PROVE  RequestInv(x)'
  <2>1. /\ RequestInv(x) /\ SubHeld(x) /\ ~SubQueued(x)
    BY <1>6, <1>19, <1>23 DEF IInv, SubHeld
  <2>2. /\ Made(x) /\ IsSubmit(x) /\ stage[x] \in {"waiting", "cancelled"} /\ answer[x] = None
        /\ reply[x] = None /\ ~UpdQueued(x) /\ ~UpdHeld(x) /\ x \notin applied
    BY <2>1 DEF RequestInv, PlaceInv, HandlerInv, EffectInv
  <2>3. /\ HandlerInv(x)' /\ Made(x)' = Made(x) /\ IsSubmit(x)' = IsSubmit(x)
        /\ Unanswered(x)' = Unanswered(x)
        /\ \A status : Answered(x, status)' = Answered(x, status)
    BY <1>2, <2>1, HandlerFrame DEF RequestInv
  <2>4. PlaceInv(x)'
    BY <1>2, <1>13, <1>16, <2>1, <2>2, <2>3 DEF PlaceInv
  <2>5. n \in DOMAIN committed' /\ In(x, committed'[n])
    BY <1>9, <1>23
  <2>6. EffectInv(x)'
    BY <1>1, <1>2, <1>7, <1>13, <1>16, <2>1, <2>2, <2>3, <2>5 DEF EffectInv
  <2>7. \A status : ~Answered(x, status)
    BY <2>2 DEF Answered
  <2>8. OutcomeInv(x)'
    BY <2>3, <2>7 DEF OutcomeInv
  <2>9. QED
    BY <2>3, <2>4, <2>6, <2>8 DEF RequestInv
<1>24. QED
  BY <1>12, <1>14, <1>15, <1>16, <1>17, <1>18, <1>21, <1>22, <1>23 DEF IInv

(* What an answer does to the oneshots. *)
LEMMA Delivered ==
  ASSUME HandlersType, NEW r \in Requests, NEW a \in Answers, Deliver(r, a), answer[r] = None,
         UNCHANGED <<call, stage, reply>>
  PROVE  /\ answer'[r] = IF stage[r] = "waiting" THEN a ELSE None
         /\ \A x \in Requests \ {r} : answer'[x] = answer[x]
         /\ answer' \in [Requests -> Answers \cup {None}]
  BY DEF HandlersType, Deliver

LEMMA AfterReplyIs ==
  ASSUME NEW w \in [phase : {"reply"}, items : Vectors, result : Answers]
  PROVE  /\ w.items # <<>> /\ Len(w.items) \in Nat
         /\ Len(w.items) = 1 => AfterReply(w) = Listening /\ Tail(w.items) = <<>>
         /\ Len(w.items) # 1 =>
              /\ AfterReply(w) = [w EXCEPT !.items = Tail(@)]
              /\ AfterReply(w) \in [phase : {"reply"}, items : Vectors, result : Answers]
              /\ AfterReply(w).items = Tail(w.items) /\ AfterReply(w).result = w.result
<1>1. /\ w.items \in Seq(Requests) /\ w.items # <<>> /\ Len(w.items) \in Nat
      /\ w.phase = "reply" /\ w.result \in Answers
  BY DEF Vectors
<1>2. Tail(w.items) \in Seq(Requests) /\ Len(Tail(w.items)) = Len(w.items) - 1
  BY <1>1
<1>3. \A t \in Seq(Requests) : Len(t) = 0 <=> t = <<>>
  OBVIOUS
<1>4. Len(w.items) = 1 <=> Tail(w.items) = <<>>
  <2>1. Len(Tail(w.items)) = 0 <=> Tail(w.items) = <<>>
    BY <1>2, <1>3
  <2>2. QED
    BY <1>1, <1>2, <2>1
<1>5. Len(w.items) # 1 => Tail(w.items) \in Vectors
  BY <1>2, <1>4 DEF Vectors
<1>6. QED
  BY <1>1, <1>4, <1>5 DEF AfterReply

LEMMA SubReplyKeeps ==
  ASSUME IInv, SubReply
  PROVE  IInv'
<1>r. PICK r : r = Head(subWorker.items)
  OBVIOUS
<1>a. PICK result : result = subWorker.result
  OBVIOUS
<1>1. /\ subWorker.phase = "reply" /\ Deliver(r, result)
      /\ subWorker' = AfterReply(subWorker)
      /\ UNCHANGED <<call, stage, reply, subLane, updLane, updWorker, store, history>>
  BY <1>r, <1>a DEF SubReply
<1>2. /\ UNCHANGED <<call, stage, reply>> /\ UNCHANGED <<subInq, subBatch, subOutq, subEngine>>
      /\ UNCHANGED <<committed, applied, faulted, crashes>> /\ UNCHANGED <<latest, leavesOf>>
  BY <1>1 DEF subLane, history, store, records
<1>3. subWorker \in [phase : {"reply"}, items : Vectors, result : Answers]
  BY <1>1 DEF IInv, WorkersType, Listening
<1>4. result \in Answers /\ SubHands = subWorker.items /\ SubHands # <<>>
  BY <1>1, <1>3, <1>a DEF SubHands, Vectors
<1>5. /\ LaneOK(subInq, subBatch, subOutq, Tail(SubHands))
      /\ \A x : In(x, SubHands) <=> In(x, Tail(SubHands)) \/ x = r
      /\ r \in Requests /\ ~In(r, Tail(SubHands)) /\ ~Queued(subInq, subBatch, subOutq, r)
  BY <1>4, <1>r, LaneAnswer DEF IInv, SubLaneInv
<1>6. SubHands' = Tail(SubHands)
  BY <1>1, <1>3, <1>4, AfterReplyIs DEF SubHands, Listening
<1>7. /\ \A x : SubQueued(x)' = SubQueued(x)
      /\ \A x : SubHeld(x) <=> SubHeld(x)' \/ x = r
      /\ ~SubHeld(r)' /\ ~SubQueued(r)
  BY <1>2, <1>5, <1>6 DEF SubQueued, SubHeld
<1>8. /\ subWorker'.phase # "gone"
      /\ Failed(subWorker)' => Failed(subWorker)
      /\ Succeeded(subWorker)' =>
           Succeeded(subWorker) /\ subWorker'.result.seq = subWorker.result.seq
      /\ WorkersType'
  <2>1. Copies' = Copies /\ updWorker' = updWorker
    BY <1>1, <1>2 DEF Copies
  <2>2. CASE Len(subWorker.items) = 1
    <3>1. subWorker' = Listening
      BY <1>1, <1>3, <2>2, AfterReplyIs
    <3>2. QED
      BY <2>1, <3>1 DEF IInv, WorkersType, Listening, Succeeded, Failed
  <2>3. CASE Len(subWorker.items) # 1
    <3>1. /\ subWorker' \in [phase : {"reply"}, items : Vectors, result : Answers]
          /\ subWorker'.result = subWorker.result
      BY <1>1, <1>3, <2>3, AfterReplyIs
    <3>2. QED
      BY <1>1, <2>1, <3>1 DEF IInv, WorkersType, Succeeded, Failed
  <2>4. QED
    BY <2>2, <2>3
<1>9. ASSUME NEW x, SubHeld(x)', Succeeded(subWorker)
      PROVE  Succeeded(subWorker)'
  <2>1. Tail(subWorker.items) # <<>>
    BY <1>4, <1>6, <1>9, EmptyLane DEF SubHeld
  <2>2. /\ subWorker' \in [phase : {"reply"}, items : Vectors, result : Answers]
        /\ subWorker'.result = subWorker.result
    BY <1>1, <1>3, <2>1, AfterReplyIs
  <2>3. QED
    BY <1>9, <2>2 DEF Succeeded
<1>10. SubLaneInv'
  BY <1>1, <1>2, <1>5, <1>6, <1>8 DEF IInv, SubLaneInv
<1>11. /\ UpdLaneInv' /\ \A x : UpdQueued(x)' = UpdQueued(x) /\ UpdHeld(x)' = UpdHeld(x)
       /\ Succeeded(updWorker)' = Succeeded(updWorker)
  BY <1>1, UpdLaneFrame DEF IInv
<1>12. StoreInv' /\ CommittedOnce' /\ \A x : Committed(x)' = Committed(x)
  BY <1>1, <1>2, StoreFrame, CommittedFrame DEF IInv
<1>13. /\ RequestInv(r) /\ SubHeld(r)
       /\ Made(r) /\ IsSubmit(r) /\ stage[r] \in {"waiting", "cancelled"}
       /\ answer[r] = None /\ reply[r] = None /\ ~UpdQueued(r) /\ ~UpdHeld(r) /\ r \notin applied
  BY <1>5, <1>7 DEF IInv, RequestInv, PlaceInv, HandlerInv, EffectInv
<1>14. /\ answer'[r] = IF stage[r] = "waiting" THEN result ELSE None
       /\ \A x \in Requests \ {r} : answer'[x] = answer[x]
       /\ answer' \in [Requests -> Answers \cup {None}]
  BY <1>1, <1>2, <1>4, <1>5, <1>13, Delivered DEF IInv
<1>15. HandlersType'
  BY <1>2, <1>14 DEF IInv, HandlersType
<1>16. FailureInv'
  BY <1>2, <1>8 DEF IInv, FailureInv
<1>17. ASSUME NEW x \in Requests \ {r}
       PROVE  RequestInv(x)'
  <2>1. SubHeld(x)' <=> SubHeld(x)
    BY <1>7, <1>17
  <2>2. subWorker.phase # "gone"
    BY <1>1
  <2>3. RequestInv(x)
    BY DEF IInv
  <2>4. answer'[x] = answer[x]
    BY <1>14
  <2>5. SubHeld(x) /\ Succeeded(subWorker) => SubHeld(x)' /\ Succeeded(subWorker)'
    BY <1>9, <2>1
  <2>6. QED
    BY <1>2, <1>7, <1>8, <1>11, <1>12, <2>1, <2>2, <2>3, <2>4, <2>5, RequestMoves
<1>18. RequestInv(r)'
  <2>1. Made(r)' /\ IsSubmit(r)' /\ ~Unanswered(r)'
    BY <1>2, <1>4, <1>13, <1>14, Parameters DEF Made, IsSubmit, Unanswered
  <2>2. HandlerInv(r)'
    BY <1>2, <1>13, <1>14 DEF RequestInv, HandlerInv, Made, IsSubmit
  <2>3. PlaceInv(r)'
    BY <1>7, <1>11, <1>13, <2>1 DEF PlaceInv
  <2>4. EffectInv(r)'
    BY <1>2, <1>7, <1>11, <1>12, <1>13, <2>1 DEF RequestInv, EffectInv
  <2>5. \A status : Answered(r, status)' <=>
          /\ stage[r] = "waiting"
          /\ status = IF result.ok THEN "Accepted" ELSE "InternalError"
    BY <1>2, <1>4, <1>13, <1>14, Parameters DEF Answered
  <2>6. ASSUME stage[r] = "waiting", result.ok
        PROVE  \E n \in DOMAIN committed' : AcceptedAs(r, n)' /\ In(r, committed'[n])
    <3>1. Succeeded(subWorker)
      BY <1>1, <1>a, <2>6 DEF Succeeded
    <3>2. result.seq \in DOMAIN committed /\ In(r, committed[result.seq])
      BY <1>13, <1>a, <3>1 DEF RequestInv, EffectInv
    <3>3. result = Ok(result.seq)
      BY <1>4, <2>6 DEF Answers, Ok
    <3>4. AcceptedAs(r, result.seq)'
      BY <1>14, <2>6, <3>3 DEF AcceptedAs, Ok
    <3>5. QED
      BY <1>2, <3>2, <3>4
  <2>7. ASSUME ~result.ok
        PROVE  ~Committed(r)' /\ r \notin applied' /\ faulted'
    <3>1. ~Succeeded(subWorker) /\ Failed(subWorker)
      BY <1>1, <1>a, <2>7 DEF Succeeded, Failed
    <3>2. ~Committed(r) /\ faulted
      BY <1>13, <3>1 DEF RequestInv, EffectInv, IInv, FailureInv
    <3>3. QED
      BY <1>2, <1>12, <1>13, <3>2
  <2>8. OutcomeInv(r)'
    BY <2>5, <2>6, <2>7 DEF OutcomeInv
  <2>9. QED
    BY <2>2, <2>3, <2>4, <2>8 DEF RequestInv
<1>19. QED
  BY <1>8, <1>10, <1>11, <1>12, <1>15, <1>16, <1>17, <1>18 DEF IInv

-----------------------------------------------------------------------------
(* Steps of the update worker. *)

LEMMA UpdReceiveKeeps ==
  ASSUME IInv, UpdReceive
  PROVE  IInv'
<1>i. PICK items : items = Head(updOutq)
  OBVIOUS
<1>1. /\ updWorker = Listening /\ updOutq # <<>>
      /\ updWorker' = [phase |-> "load", items |-> items]
      /\ UNCHANGED <<handlers, subLane, subWorker, store, history>>
      /\ updOutq' = Tail(updOutq) /\ updInq' = updInq /\ updBatch' = updBatch
      /\ updEngine' = updEngine
  BY <1>i DEF UpdReceive, UpdQ!Take
<1>2. /\ UNCHANGED <<call, stage, answer, reply>>
      /\ UNCHANGED <<committed, applied, faulted, crashes>> /\ UNCHANGED <<latest, leavesOf>>
  BY <1>1 DEF handlers, history, store, records
<1>3. UpdHands = <<>> /\ updWorker.phase = "recv" /\ UpdHands' = items
  BY <1>1 DEF UpdHands, Listening
<1>4. /\ LaneOK(updInq, updBatch, Tail(updOutq), items)
      /\ items \in Vectors
      /\ \A x : Queued(updInq, updBatch, updOutq, x)
                  <=> Queued(updInq, updBatch, Tail(updOutq), x) \/ In(x, items)
  BY <1>i, <1>1, <1>3, LaneTake DEF IInv, UpdLaneInv
<1>5. \A x : /\ UpdQueued(x) <=> UpdQueued(x)' \/ UpdHeld(x)'
             /\ ~UpdHeld(x)
  BY <1>1, <1>3, <1>4, EmptyLane DEF UpdQueued, UpdHeld
<1>6. UpdLaneInv'
  <2>1. Len(Tail(updOutq)) <= OutCap
    BY <1>1, Parameters DEF IInv, UpdLaneInv, LaneOK, LaneType
  <2>2. QED
    BY <1>1, <1>3, <1>4, <2>1 DEF IInv, UpdLaneInv
<1>7. WorkersType'
  <2>1. updWorker' \in [phase : {"load"}, items : Vectors]
    BY <1>1, <1>4
  <2>2. subWorker' = subWorker
    BY <1>1
  <2>3. QED
    BY <2>1, <2>2 DEF IInv, WorkersType
<1>8. ~Succeeded(updWorker)' /\ ~Succeeded(updWorker)
  BY <1>1, <1>3 DEF Succeeded
<1>9. /\ SubLaneInv' /\ \A x : SubQueued(x)' = SubQueued(x) /\ SubHeld(x)' = SubHeld(x)
      /\ Succeeded(subWorker)' = Succeeded(subWorker) /\ Failed(subWorker)' = Failed(subWorker)
  BY <1>1, SubLaneFrame DEF IInv
<1>10. StoreInv' /\ CommittedOnce' /\ \A x : Committed(x)' = Committed(x)
  BY <1>1, <1>2, StoreFrame, CommittedFrame DEF IInv
<1>11. HandlersType'
  BY <1>1, <1>2, HandlersFrame DEF IInv, HandlersType
<1>12. FailureInv'
  BY <1>1, <1>2, <1>9 DEF IInv, FailureInv
<1>13. ASSUME NEW x \in Requests
       PROVE  RequestInv(x)'
  BY <1>1, <1>2, <1>5, <1>8, <1>9, <1>10, RequestMoves DEF IInv
<1>14. QED
  BY <1>6, <1>7, <1>9, <1>10, <1>11, <1>12, <1>13 DEF IInv

(* What the worker holds in each phase. *)
LEMMA UpdPhases ==
  ASSUME IInv
  PROVE  /\ updWorker.phase = "load" =>
              updWorker \in [phase : {"load"}, items : Vectors]
         /\ updWorker.phase \in {"apply", "write"} =>
              updWorker \in [phase : {"apply", "write"}, items : Vectors, loaded : Copies]
         /\ updWorker.phase = "reply" =>
              updWorker \in [phase : {"reply"}, items : Vectors, result : Answers]
  BY DEF IInv, WorkersType, Listening

(* The end of a batch with a result, of whatever kind.                      *)
LEMMA UpdResult ==
  ASSUME IInv, updWorker.phase \in {"load", "apply", "write"}, NEW result \in Answers,
         updWorker' = WithResult(updWorker, result), UNCHANGED subWorker
  PROVE  /\ UpdHands' = UpdHands /\ ~Succeeded(updWorker) /\ WorkersType'
         /\ Succeeded(updWorker)' <=> result.ok
<1>1. updWorker.items \in Vectors /\ UpdHands = updWorker.items
  BY UpdPhases DEF UpdHands
<1>2. updWorker' = [phase |-> "reply", items |-> updWorker.items, result |-> result]
  BY DEF WithResult
<1>3. updWorker' \in [phase : {"reply"}, items : Vectors, result : Answers]
  BY <1>1, <1>2
<1>4. QED
  BY <1>1, <1>2, <1>3 DEF UpdHands, Succeeded, IInv, WorkersType

LEMMA UpdLoadKeeps ==
  ASSUME IInv, UpdLoad
  PROVE  IInv'
<1>1. /\ updWorker.phase = "load" /\ Named \subseteq DOMAIN leavesOf
      /\ updWorker' = [phase |-> "apply", items |-> updWorker.items,
                       loaded |-> [s \in Named |-> leavesOf[s]]]
      /\ UNCHANGED <<handlers, subLane, updLane, subWorker, store, history>>
  BY DEF UpdLoad
<1>2. /\ UNCHANGED <<committed, applied, faulted, crashes>> /\ UNCHANGED <<latest, leavesOf>>
  BY <1>1 DEF history, store, records
<1>3. updWorker.items \in Vectors
  BY <1>1, UpdPhases
<1>4. [s \in Named |-> leavesOf[s]] \in Copies
  BY <1>1 DEF Copies
<1>5. updWorker' \in [phase : {"apply", "write"}, items : Vectors, loaded : Copies]
  BY <1>1, <1>3, <1>4
<1>6. WorkersType'
  <2>1. Copies' = Copies
    BY <1>2 DEF Copies
  <2>2. QED
    BY <1>1, <1>5, <2>1 DEF IInv, WorkersType
<1>7. UpdHands' = UpdHands /\ ~Succeeded(updWorker)
  BY <1>1 DEF UpdHands, Succeeded
<1>8. StoreInv' /\ faulted' \in BOOLEAN
  BY <1>1, <1>2, StoreFrame DEF IInv, HandlersType
<1>9. QED
  BY <1>1, <1>2, <1>6, <1>7, <1>8, UpdWorkerStep

(* Batches that cannot be loaded, nothing to replace.                      *)
LEMMA UpdNothingKeeps ==
  ASSUME IInv, UpdLoadMisses \/ UpdLoadFails \/ UpdSkip
  PROVE  IInv'
<1>1. PICK result \in Answers :
        /\ updWorker.phase \in {"load", "apply", "write"}
        /\ updWorker' = WithResult(updWorker, result)
        /\ UNCHANGED <<handlers, subLane, updLane, subWorker, store, committed, applied, crashes>>
        /\ faulted' = faulted \/ faulted' = TRUE
  <2>1. Err \in Answers /\ Ok(0) \in Answers
    BY Records
  <2>2. CASE UpdLoadMisses
    BY <2>1, <2>2 DEF UpdLoadMisses, history
  <2>3. CASE UpdLoadFails
    BY <2>1, <2>3 DEF UpdLoadFails, history
  <2>4. CASE UpdSkip
    BY <2>1, <2>4 DEF UpdSkip, history
  <2>5. QED
    BY <2>2, <2>3, <2>4
<1>2. UNCHANGED <<latest, leavesOf>>
  BY <1>1 DEF store, records
<1>3. StoreInv'
  BY <1>1, StoreFrame DEF IInv
<1>4. faulted' \in BOOLEAN /\ (faulted => faulted')
  <2>1. faulted \in BOOLEAN
    BY DEF IInv, HandlersType
  <2>2. CASE faulted' = faulted
    BY <2>1, <2>2
  <2>3. CASE faulted' = TRUE
    BY <2>3
  <2>4. QED
    BY <1>1, <2>2, <2>3
<1>5. QED
  BY <1>1, <1>2, <1>3, <1>4, UpdResult, UpdWorkerStep

LEMMA UpdBeginKeeps ==
  ASSUME IInv, UpdBegin
  PROVE  IInv'
<1>1. /\ updWorker.phase = "apply"
      /\ updWorker' = [updWorker EXCEPT !.phase = "write"]
      /\ UNCHANGED <<handlers, subLane, updLane, subWorker, history>>
      /\ upd'.raw = Store!Empty /\ UNCHANGED <<records, ins>>
  BY DEF UpdBegin, Store!UpdateBegin, Store!records, records
<1>2. /\ UNCHANGED <<committed, applied, faulted, crashes>>
      /\ UNCHANGED <<latest, rootOf, leavesOf>>
  BY <1>1 DEF history, records
<1>3. updWorker \in [phase : {"apply", "write"}, items : Vectors, loaded : Copies]
  BY <1>1, UpdPhases
<1>4. updWorker' \in [phase : {"apply", "write"}, items : Vectors, loaded : Copies]
  BY <1>1, <1>3
<1>5. WorkersType'
  <2>1. Copies' = Copies
    BY <1>2 DEF Copies
  <2>2. QED
    BY <1>1, <1>4, <2>1 DEF IInv, WorkersType
<1>6. UpdHands' = UpdHands /\ ~Succeeded(updWorker)
  BY <1>1, <1>3 DEF UpdHands, Succeeded
<1>7. StoreInv'
  <2>1. DOMAIN upd'.raw = {}
    BY <1>1 DEF Store!Empty
  <2>2. QED
    BY <1>1, <1>2, <2>1 DEF IInv, StoreInv, Store!Idle
<1>8. faulted' \in BOOLEAN
  BY <1>2 DEF IInv, HandlersType
<1>9. QED
  BY <1>1, <1>2, <1>5, <1>6, <1>7, <1>8, UpdWorkerStep

LEMMA UpdReadKeeps ==
  ASSUME IInv, NEW s \in 0..LastSeq, UpdRead(s)
  PROVE  IInv'
<1>1. /\ UNCHANGED <<handlers, subLane, updLane, subWorker, updWorker, history>>
      /\ UNCHANGED <<records, ins>> /\ upd.phase = "read" /\ s \in DOMAIN leavesOf
      /\ upd'.raw = Store!Put(s, Store!Replace(leavesOf[s], upd.changes[s]), upd.raw)
  BY DEF UpdRead, Store!UpdateRead, Store!Readable, Store!records, records
<1>2. /\ UNCHANGED <<committed, applied, faulted, crashes>>
      /\ UNCHANGED <<latest, rootOf, leavesOf>>
  BY <1>1 DEF history, records
<1>3. DOMAIN upd.raw \subseteq DOMAIN leavesOf
  BY <1>1 DEF IInv, StoreInv, Store!Idle
<1>4. DOMAIN upd'.raw \subseteq DOMAIN leavesOf
  BY <1>1, <1>3 DEF Store!Put, Store!Over
<1>5. StoreInv'
  BY <1>1, <1>2, <1>4 DEF IInv, StoreInv, Store!Idle
<1>6. WorkersType' /\ UpdHands' = UpdHands /\ Succeeded(updWorker)' = Succeeded(updWorker)
  BY <1>1, <1>2, WorkersFrame DEF IInv, UpdHands, Succeeded
<1>7. faulted' \in BOOLEAN
  BY <1>2 DEF IInv, HandlersType
<1>8. QED
  BY <1>1, <1>2, <1>5, <1>6, <1>7, UpdWorkerStep

LEMMA UpdStoreFailsKeeps ==
  ASSUME IInv, UpdStoreFails
  PROVE  IInv'
<1>1. /\ updWorker.phase = "write" /\ updWorker' = WithResult(updWorker, Err)
      /\ faulted' = TRUE
      /\ UNCHANGED <<handlers, subLane, updLane, subWorker, committed, applied, crashes>>
      /\ upd' = Store!Idle /\ UNCHANGED <<records, ins>>
  BY DEF UpdStoreFails, Store!UpdateStops, Store!UpdateFails, Store!records, records
<1>2. UNCHANGED <<latest, rootOf, leavesOf>>
  BY <1>1 DEF records
<1>3. StoreInv'
  BY <1>1, <1>2 DEF IInv, StoreInv, Store!Idle
<1>4. faulted' \in BOOLEAN
  BY <1>1
<1>5. QED
  BY <1>1, <1>2, <1>3, <1>4, Records, UpdResult, UpdWorkerStep

(* The replacements are written: what takes effect is in the worker's hands. *)
LEMMA UpdCommitKeeps ==
  ASSUME IInv, UpdCommit
  PROVE  IInv'
<1>1. /\ updWorker.phase = "write" /\ updWorker' = WithResult(updWorker, Ok(0))
      /\ UNCHANGED <<handlers, subLane, updLane, subWorker, committed, faulted, crashes>>
      /\ applied' = applied \cup Written
      /\ upd.phase = "read" /\ upd' = Store!Idle /\ UNCHANGED <<latest, rootOf, ins>>
      /\ leavesOf' = Store!Over(upd.raw, leavesOf)
  BY DEF UpdCommit, Store!UpdateWrite
<1>2. /\ UNCHANGED <<call, stage, answer, reply>>
      /\ UNCHANGED <<updInq, updBatch, updOutq, updEngine>>
  BY <1>1 DEF handlers, updLane
<1>3. UpdHands' = UpdHands /\ ~Succeeded(updWorker) /\ WorkersType' /\ Succeeded(updWorker)'
  BY <1>1, Records, UpdResult
<1>4. UpdHands = updWorker.items
  BY <1>1 DEF UpdHands
<1>5. DOMAIN leavesOf' = DOMAIN leavesOf
  <2>1. DOMAIN upd.raw \subseteq DOMAIN leavesOf
    BY <1>1 DEF IInv, StoreInv, Store!Idle
  <2>2. QED
    BY <1>1, <2>1 DEF Store!Over
<1>6. StoreInv'
  BY <1>1, <1>5 DEF IInv, StoreInv, Store!Idle
<1>7. \A x : UpdQueued(x)' = UpdQueued(x) /\ UpdHeld(x)' = UpdHeld(x)
  BY <1>2, <1>3 DEF UpdQueued, UpdHeld
<1>8. UpdLaneInv'
  BY <1>2, <1>3 DEF IInv, UpdLaneInv
<1>9. /\ SubLaneInv' /\ \A x : SubQueued(x)' = SubQueued(x) /\ SubHeld(x)' = SubHeld(x)
      /\ Succeeded(subWorker)' = Succeeded(subWorker) /\ Failed(subWorker)' = Failed(subWorker)
  BY <1>1, SubLaneFrame DEF IInv
<1>10. CommittedOnce' /\ \A x : Committed(x)' = Committed(x)
  BY <1>1, CommittedFrame DEF IInv
<1>11. /\ Written \subseteq Requests
       /\ \A x \in Written : UpdHeld(x)
  BY <1>4 DEF Written, UpdHeld, In
<1>12. HandlersType'
  <2>1. applied' \subseteq Requests
    BY <1>1, <1>11 DEF IInv, HandlersType
  <2>2. faulted' \in BOOLEAN
    BY <1>1 DEF IInv, HandlersType
  <2>3. QED
    BY <1>1, <2>1, <2>2, HandlersFrame DEF IInv
<1>13. FailureInv'
  BY <1>1, <1>9 DEF IInv, FailureInv
<1>14. ASSUME NEW x \in Requests, x \notin Written
       PROVE  RequestInv(x)'
  <2>1. x \in applied' <=> x \in applied
    BY <1>1, <1>14
  <2>2. RequestInv(x) /\ ~(UpdHeld(x) /\ Succeeded(updWorker))
    BY <1>3 DEF IInv
  <2>3. subWorker' = subWorker /\ committed' = committed /\ faulted' = faulted /\ latest' = latest
    BY <1>1
  <2>4. QED
    BY <1>2, <1>7, <1>9, <1>10, <2>1, <2>2, <2>3, RequestMoves
<1>15. ASSUME NEW x \in Requests, x \in Written
       PROVE  RequestInv(x)'
  <2>1. RequestInv(x) /\ UpdHeld(x)
    BY <1>11, <1>15 DEF IInv
  <2>2. /\ Made(x) /\ ~IsSubmit(x) /\ stage[x] \in {"waiting", "cancelled"} /\ answer[x] = None
        /\ reply[x] = None /\ ~SubQueued(x) /\ ~SubHeld(x) /\ ~Committed(x)
    BY <2>1 DEF RequestInv, PlaceInv, HandlerInv, EffectInv
  <2>3. ~UpdQueued(x)
    BY <2>1 DEF IInv, UpdLaneInv, LaneOK, LaneOnce, UpdQueued, UpdHeld
  <2>4. /\ HandlerInv(x)' /\ Made(x)' = Made(x) /\ IsSubmit(x)' = IsSubmit(x)
        /\ Unanswered(x)' = Unanswered(x)
        /\ \A status : Answered(x, status)' = Answered(x, status)
    BY <1>2, <2>1, HandlerFrame DEF RequestInv
  <2>5. PlaceInv(x)'
    BY <1>2, <1>7, <1>9, <2>1, <2>2, <2>4 DEF PlaceInv
  <2>6. EffectInv(x)'
    BY <1>2, <1>3, <1>7, <1>9, <1>10, <2>1, <2>2, <2>3, <2>4 DEF EffectInv
  <2>7. \A status : ~Answered(x, status)
    BY <2>2 DEF Answered
  <2>8. OutcomeInv(x)'
    BY <2>4, <2>7 DEF OutcomeInv
  <2>9. QED
    BY <2>4, <2>5, <2>6, <2>8 DEF RequestInv
<1>16. QED
  BY <1>3, <1>6, <1>8, <1>9, <1>10, <1>12, <1>13, <1>14, <1>15 DEF IInv

LEMMA UpdReplyKeeps ==
  ASSUME IInv, UpdReply
  PROVE  IInv'
<1>r. PICK r : r = Head(updWorker.items)
  OBVIOUS
<1>a. PICK a : a = IF updWorker.result.ok THEN Ok(call[r].seq) ELSE Err
  OBVIOUS
<1>1. /\ updWorker.phase = "reply" /\ Deliver(r, a)
      /\ updWorker' = AfterReply(updWorker)
      /\ UNCHANGED <<call, stage, reply, subLane, updLane, subWorker, store, history>>
  BY <1>r, <1>a DEF UpdReply
<1>2. /\ UNCHANGED <<call, stage, reply>> /\ UNCHANGED <<updInq, updBatch, updOutq, updEngine>>
      /\ UNCHANGED <<committed, applied, faulted, crashes>> /\ UNCHANGED <<latest, leavesOf>>
  BY <1>1 DEF updLane, history, store, records
<1>3. updWorker \in [phase : {"reply"}, items : Vectors, result : Answers]
  BY <1>1, UpdPhases
<1>4. UpdHands = updWorker.items /\ UpdHands # <<>>
  BY <1>1, <1>3 DEF UpdHands, Vectors
<1>5. /\ LaneOK(updInq, updBatch, updOutq, Tail(UpdHands))
      /\ \A x : In(x, UpdHands) <=> In(x, Tail(UpdHands)) \/ x = r
      /\ r \in Requests /\ ~In(r, Tail(UpdHands)) /\ ~Queued(updInq, updBatch, updOutq, r)
  BY <1>4, <1>r, LaneAnswer DEF IInv, UpdLaneInv
<1>6. UpdHands' = Tail(UpdHands)
  BY <1>1, <1>3, <1>4, AfterReplyIs DEF UpdHands, Listening
<1>7. /\ \A x : UpdQueued(x)' = UpdQueued(x)
      /\ \A x : UpdHeld(x) <=> UpdHeld(x)' \/ x = r
      /\ ~UpdHeld(r)' /\ ~UpdQueued(r)
  BY <1>2, <1>5, <1>6 DEF UpdQueued, UpdHeld
<1>8. WorkersType'
  <2>1. subWorker' = subWorker
    BY <1>1
  <2>2. CASE Len(updWorker.items) = 1
    <3>1. updWorker' = Listening
      BY <1>1, <1>3, <2>2, AfterReplyIs
    <3>2. QED
      BY <2>1, <3>1 DEF IInv, WorkersType
  <2>3. CASE Len(updWorker.items) # 1
    <3>1. updWorker' \in [phase : {"reply"}, items : Vectors, result : Answers]
      BY <1>1, <1>3, <2>3, AfterReplyIs
    <3>2. QED
      BY <2>1, <3>1 DEF IInv, WorkersType
  <2>4. QED
    BY <2>2, <2>3
<1>9. ASSUME NEW x, UpdHeld(x)', Succeeded(updWorker)
      PROVE  Succeeded(updWorker)'
  <2>1. Tail(updWorker.items) # <<>>
    BY <1>4, <1>6, <1>9, EmptyLane DEF UpdHeld
  <2>2. /\ updWorker' \in [phase : {"reply"}, items : Vectors, result : Answers]
        /\ updWorker'.result = updWorker.result
    BY <1>1, <1>3, <2>1, AfterReplyIs
  <2>3. QED
    BY <1>9, <2>2 DEF Succeeded
<1>10. UpdLaneInv'
  BY <1>1, <1>2, <1>5, <1>6 DEF IInv, UpdLaneInv
<1>11. /\ SubLaneInv' /\ \A x : SubQueued(x)' = SubQueued(x) /\ SubHeld(x)' = SubHeld(x)
       /\ Succeeded(subWorker)' = Succeeded(subWorker) /\ Failed(subWorker)' = Failed(subWorker)
  BY <1>1, SubLaneFrame DEF IInv
<1>12. StoreInv' /\ CommittedOnce' /\ \A x : Committed(x)' = Committed(x)
  BY <1>1, <1>2, StoreFrame, CommittedFrame DEF IInv
<1>13. /\ RequestInv(r) /\ UpdHeld(r)
       /\ Made(r) /\ ~IsSubmit(r) /\ stage[r] \in {"waiting", "cancelled"}
       /\ answer[r] = None /\ reply[r] = None /\ ~SubQueued(r) /\ ~SubHeld(r) /\ ~Committed(r)
  BY <1>5, <1>7 DEF IInv, RequestInv, PlaceInv, HandlerInv, EffectInv
<1>14. a \in Answers /\ (a.ok <=> updWorker.result.ok)
  <2>1. call[r] \in Calls
    BY <1>5, <1>13 DEF IInv, HandlersType, Made
  <2>2. call[r].seq \in Nat
    BY <1>13, <2>1, CallKinds DEF IsSubmit
  <2>3. QED
    BY <1>a, <2>2, Records
<1>15. /\ answer'[r] = IF stage[r] = "waiting" THEN a ELSE None
       /\ \A x \in Requests \ {r} : answer'[x] = answer[x]
       /\ answer' \in [Requests -> Answers \cup {None}]
  BY <1>1, <1>2, <1>5, <1>13, <1>14, Delivered DEF IInv
<1>16. HandlersType'
  BY <1>2, <1>15 DEF IInv, HandlersType
<1>17. FailureInv'
  BY <1>1, <1>2, <1>11 DEF IInv, FailureInv
<1>18. ASSUME NEW x \in Requests \ {r}
       PROVE  RequestInv(x)'
  <2>1. UpdHeld(x)' <=> UpdHeld(x)
    BY <1>7, <1>18
  <2>2. RequestInv(x) /\ subWorker' = subWorker
    BY <1>1 DEF IInv
  <2>3. answer'[x] = answer[x]
    BY <1>15
  <2>4. UpdHeld(x) /\ Succeeded(updWorker) => UpdHeld(x)' /\ Succeeded(updWorker)'
    BY <1>9, <2>1
  <2>5. QED
    BY <1>2, <1>7, <1>11, <1>12, <2>1, <2>2, <2>3, <2>4, RequestMoves
<1>19. RequestInv(r)'
  <2>1. Made(r)' /\ ~IsSubmit(r)' /\ ~Unanswered(r)'
    BY <1>2, <1>13, <1>14, <1>15, Parameters DEF Made, IsSubmit, Unanswered
  <2>2. HandlerInv(r)'
    BY <1>2, <1>13, <1>15 DEF RequestInv, HandlerInv, Made, IsSubmit
  <2>3. PlaceInv(r)'
    BY <1>7, <1>11, <1>13, <2>1 DEF PlaceInv
  <2>4. EffectInv(r)'
    BY <1>2, <1>7, <1>11, <1>12, <1>13, <2>1 DEF RequestInv, EffectInv
  <2>5. \A status : Answered(r, status)' <=>
          /\ stage[r] = "waiting"
          /\ status = IF a.ok THEN "Accepted" ELSE "InternalError"
    BY <1>2, <1>13, <1>14, <1>15, Parameters DEF Answered
  <2>6. ASSUME ~a.ok
        PROVE  ~Committed(r)' /\ r \notin applied'
    <3>1. ~Succeeded(updWorker)
      BY <1>14, <2>6 DEF Succeeded
    <3>2. r \notin applied
      BY <1>13, <3>1 DEF RequestInv, EffectInv
    <3>3. QED
      BY <1>2, <1>12, <1>13, <3>2
  <2>7. OutcomeInv(r)'
    BY <2>1, <2>5, <2>6 DEF OutcomeInv
  <2>8. QED
    BY <2>2, <2>3, <2>4, <2>7 DEF RequestInv
<1>20. QED
  BY <1>8, <1>10, <1>11, <1>12, <1>16, <1>17, <1>18, <1>19 DEF IInv

-----------------------------------------------------------------------------
(* Only the records outlive a crash, and the responses that were sent.      *)
LEMMA CrashKeeps ==
  ASSUME IInv, Crash
  PROVE  IInv'
<1> USE Parameters
<1>1. /\ crashes < MaxCrashes /\ crashes' = crashes + 1
      /\ stage' = [r \in Requests |->
                     IF stage[r] \in {"sending", "waiting"} THEN "lost" ELSE stage[r]]
      /\ answer' = [r \in Requests |-> None]
      /\ subInq' = <<>> /\ subBatch' = <<>> /\ subOutq' = <<>> /\ subEngine' = "select"
      /\ updInq' = <<>> /\ updBatch' = <<>> /\ updOutq' = <<>> /\ updEngine' = "select"
      /\ subWorker' = Listening /\ updWorker' = Listening
      /\ ins' = Store!Idle /\ upd' = Store!Idle
      /\ UNCHANGED <<call, reply, records, committed, applied, faulted>>
  BY DEF Crash
<1>2. UNCHANGED <<latest, rootOf, leavesOf>>
  BY <1>1 DEF records
<1>3. /\ SubHands' = <<>> /\ UpdHands' = <<>>
      /\ ~Succeeded(subWorker)' /\ ~Failed(subWorker)' /\ ~Succeeded(updWorker)'
      /\ subWorker'.phase # "gone"
  BY <1>1 DEF SubHands, UpdHands, Succeeded, Failed, Listening
<1>4. SubLaneInv' /\ UpdLaneInv'
  BY <1>1, <1>3, EmptyLane DEF SubLaneInv, UpdLaneInv
<1>5. \A x : ~SubQueued(x)' /\ ~SubHeld(x)' /\ ~UpdQueued(x)' /\ ~UpdHeld(x)'
  BY <1>1, <1>3, EmptyLane DEF SubQueued, SubHeld, UpdQueued, UpdHeld
<1>6. WorkersType'
  BY <1>1 DEF WorkersType
<1>7. StoreInv'
  BY <1>1, <1>2 DEF IInv, StoreInv, Store!Idle
<1>8. CommittedOnce' /\ \A x : Committed(x)' = Committed(x)
  BY <1>1, CommittedFrame DEF IInv
<1>9. FailureInv'
  BY <1>3 DEF FailureInv
<1>10. HandlersType'
  <2>1. crashes' \in 0..MaxCrashes
    BY <1>1 DEF IInv, HandlersType
  <2>2. stage' \in [Requests -> Stages]
    BY <1>1 DEF IInv, HandlersType, Stages
  <2>3. answer' \in [Requests -> Answers \cup {None}]
    BY <1>1
  <2>4. QED
    BY <1>1, <2>1, <2>2, <2>3 DEF IInv, HandlersType
<1>11. ASSUME NEW r \in Requests
       PROVE  RequestInv(r)'
  <2>1. /\ RequestInv(r) /\ call'[r] = call[r] /\ reply'[r] = reply[r] /\ answer'[r] = None
        /\ stage'[r] = IF stage[r] \in {"sending", "waiting"} THEN "lost" ELSE stage[r]
    BY <1>1 DEF IInv
  <2>2. Made(r)' = Made(r) /\ IsSubmit(r)' = IsSubmit(r) /\ ~Unanswered(r)'
    BY <2>1 DEF Made, IsSubmit, Unanswered
  <2>3. HandlerInv(r)'
    BY <2>1 DEF RequestInv, HandlerInv, Made, IsSubmit
  <2>4. PlaceInv(r)'
    BY <1>5, <2>2 DEF PlaceInv
  <2>5. EffectInv(r)'
    BY <1>1, <1>5, <1>8, <2>1, <2>2 DEF RequestInv, EffectInv
  <2>6. \A status : Answered(r, status)' => Answered(r, status) /\ reply[r] # None
    BY <2>1 DEF Answered
  <2>7. ASSUME reply[r] # None, NEW n, AcceptedAs(r, n), n \in DOMAIN committed
        PROVE  AcceptedAs(r, n)'
    <3>1. answer[r] = None
      BY <2>1, <2>7 DEF RequestInv, HandlerInv
    <3>2. Ok(n) \in Answers
      BY <2>7, Records DEF IInv, StoreInv
    <3>3. reply[r] = Response("Accepted", n)
      BY <2>7, <3>1, <3>2 DEF AcceptedAs
    <3>4. QED
      BY <2>1, <3>3 DEF AcceptedAs
  <2>8. OutcomeInv(r)'
    <3>1. ASSUME Made(r), IsSubmit(r), Answered(r, "Accepted")'
          PROVE  \E n \in DOMAIN committed' : AcceptedAs(r, n)' /\ In(r, committed'[n])
      <4>1. PICK n \in DOMAIN committed : AcceptedAs(r, n) /\ In(r, committed[n])
        BY <2>1, <2>6, <3>1 DEF RequestInv, OutcomeInv
      <4>2. AcceptedAs(r, n)'
        BY <2>6, <2>7, <3>1, <4>1
      <4>3. committed' = committed
        BY <1>1
      <4>4. QED
        BY <4>1, <4>2, <4>3
    <3>2. Answered(r, "InternalError")' => ~Committed(r)' /\ r \notin applied'
      BY <1>1, <1>8, <2>1, <2>6 DEF RequestInv, OutcomeInv
    <3>3. /\ Made(r) /\ IsSubmit(r) /\ call[r].verdict = "valid"
          /\ Answered(r, "InternalError")'
          => faulted' \/ latest' = LastSeq
      BY <1>1, <1>2, <2>1, <2>6 DEF RequestInv, OutcomeInv
    <3>4. QED
      BY <2>1, <2>2, <3>1, <3>2, <3>3 DEF OutcomeInv
  <2>9. QED
    BY <2>3, <2>4, <2>5, <2>8 DEF RequestInv
<1>12. QED
  BY <1>4, <1>6, <1>7, <1>8, <1>9, <1>10, <1>11 DEF IInv

LEMMA StutterKeeps ==
  ASSUME IInv, UNCHANGED vars
  PROVE  IInv'
<1>1. /\ UNCHANGED <<subLane, updLane, subWorker, updWorker, store, history>>
      /\ UNCHANGED <<call, stage, answer, reply>>
  BY DEF vars, handlers
<1>2. UNCHANGED <<committed, applied, faulted, crashes>> /\ UNCHANGED <<latest, leavesOf>>
  BY <1>1 DEF history, store, records
<1>3. \A r \in Requests : RequestInv(r)'
  BY <1>1, <1>2, RequestFrame DEF IInv
<1>4. SubLaneInv' /\ UpdLaneInv' /\ StoreInv' /\ CommittedOnce' /\ WorkersType'
  BY <1>1, <1>2, SubLaneFrame, UpdLaneFrame, StoreFrame, CommittedFrame, WorkersFrame DEF IInv
<1>5. HandlersType' /\ FailureInv'
  BY <1>1, <1>2, SubLaneFrame DEF IInv, HandlersType, FailureInv
<1>6. QED
  BY <1>3, <1>4, <1>5 DEF IInv

LEMMA StepInv ==
  ASSUME CounterReliable, IInv, [Next]_vars
  PROVE  IInv'
<1>1. ASSUME NEW r \in Requests, NEW c \in Calls, Make(r, c)
      PROVE  IInv'
  BY <1>1, MakeKeeps
<1>2. ASSUME NEW r \in Requests, Handler(r)
      PROVE  IInv'
  BY <1>2, SendSubmissionKeeps, SendUpdateKeeps, SendFailsKeeps, ReturnKeeps, WorkerDroppedKeeps
  DEF Handler
<1>3. ASSUME NEW r \in Requests, Cancel(r)
      PROVE  IInv'
  BY <1>3, CancelKeeps
<1>4. CASE SubEngine
  BY <1>4, SubEngineKeeps
<1>5. CASE UpdEngine
  BY <1>5, UpdEngineKeeps
<1>6. CASE SubWorker
  BY <1>6, SubReceiveKeeps, SubBeginKeeps, SubCommitKeeps, SubStoreFailsKeeps, SubPanicsKeeps,
     SubReplyKeeps
  DEF SubWorker
<1>7. CASE UpdWorker
  <2>1. ASSUME NEW s \in 0..LastSeq, UpdRead(s)
        PROVE  IInv'
    BY <2>1, UpdReadKeeps
  <2>2. CASE UpdLoadMisses \/ UpdLoadFails \/ UpdSkip
    BY <2>2, UpdNothingKeeps
  <2>3. QED
    BY <1>7, <2>1, <2>2, UpdReceiveKeeps, UpdLoadKeeps, UpdBeginKeeps, UpdCommitKeeps,
       UpdStoreFailsKeeps, UpdReplyKeeps
    DEF UpdWorker
<1>8. CASE Crash
  BY <1>8, CrashKeeps
<1>9. CASE UNCHANGED vars
  BY <1>9, StutterKeeps
<1>10. QED
  BY <1>1, <1>2, <1>3, <1>4, <1>5, <1>6, <1>7, <1>8, <1>9 DEF Next

(* The invariant holds in every state, whatever the parameters, as long as  *)
(* the counter of the database can be read (service.rs, worker.rs,          *)
(* batcher.rs, rocks.rs).                                                  *)
THEOREM Invariance ==
  ASSUME CounterReliable
  PROVE  Spec => []IInv
<1>1. IInv /\ [Next]_vars => IInv'
  BY StepInv
<1>2. QED
  BY <1>1, InitInv, PTL DEF Spec

-----------------------------------------------------------------------------
LEMMA TypeFromInv == IInv => TypeOK
<1> SUFFICES ASSUME IInv
             PROVE  TypeOK
  OBVIOUS
<1>1. /\ call \in [Requests -> Calls \cup {None}]
      /\ stage \in [Requests -> Stages]
      /\ applied \subseteq Requests /\ faulted \in BOOLEAN /\ crashes \in 0..MaxCrashes
  BY DEF IInv, HandlersType
<1>2. ASSUME NEW r \in Requests
      PROVE  /\ answer[r] = None \/ answer[r] \in [ok : BOOLEAN, seq : Nat]
             /\ reply[r] = None \/ reply[r] \in [status : Statuses, seq : Nat]
             /\ stage[r] = "idle" <=> call[r] = None
             /\ stage[r] = "done" <=> reply[r] # None
             /\ answer[r] # None => stage[r] = "waiting"
  BY DEF IInv, HandlersType, Answers, RequestInv, HandlerInv
<1>3. Vectors \subseteq Seq(Requests)
  BY DEF Vectors
<1>4. \A o \in Seq(Vectors) : o \in Seq(Seq(Requests))
  BY <1>3
<1>5. SubQ!TypeOK /\ UpdQ!TypeOK
  BY <1>4 DEF IInv, SubLaneInv, UpdLaneInv, LaneOK, LaneType, SubQ!TypeOK, UpdQ!TypeOK
<1>6. /\ subWorker.phase \in {"recv", "store", "reply", "gone"}
      /\ updWorker.phase \in {"recv", "load", "apply", "write", "reply"}
  BY DEF IInv, WorkersType, Listening
<1>7. /\ latest \in 0..LastSeq
      /\ DOMAIN rootOf = DOMAIN leavesOf
      /\ committed \in [DOMAIN leavesOf -> Seq(Requests)]
  BY DEF IInv, StoreInv
<1>8. QED
  BY <1>1, <1>2, <1>5, <1>6, <1>7 DEF TypeOK

(* Only calls that were made are answered. *)
LEMMA MadeIfAnswered ==
  ASSUME IInv, NEW r \in Requests, NEW status, Answered(r, status)
  PROVE  Made(r)
  BY DEF IInv, RequestInv, HandlerInv, Answered, Made

(* The state of the process stays well formed: handlers and their oneshots  *)
(* agree, the channels keep to their capacities, and every number in the    *)
(* database has its root, its leaves and its batch of requests              *)
(* (service.rs:62-143, worker.rs:30-116).                                   *)
THEOREM TypeCorrect ==
  ASSUME CounterReliable
  PROVE  Spec => []TypeOK
  BY Invariance, TypeFromInv, PTL

(* A submission that was or will be told "accepted, batch n" is in batch n, *)
(* for any number of requests and whatever fails (worker.rs:50-64).         *)
THEOREM AcceptedIsCommitted ==
  ASSUME CounterReliable
  PROVE  Spec => []AcceptedMeansCommitted
<1>1. IInv => AcceptedMeansCommitted
  BY DEF IInv, RequestInv, OutcomeInv, AcceptedMeansCommitted, Made
<1>2. QED
  BY <1>1, Invariance, PTL

(* A call that was or will be told of an error has had no effect on the     *)
(* database, so that it may be made again (worker.rs:30-57, 76-89).         *)
THEOREM ErrorIsWithoutEffect ==
  ASSUME CounterReliable
  PROVE  Spec => []ErrorMeansNoEffect
<1>1. IInv => ErrorMeansNoEffect
  BY DEF IInv, RequestInv, OutcomeInv, ErrorMeansNoEffect
<1>2. QED
  BY <1>1, Invariance, PTL

(* No submission is written to two batches or twice to one, across flushes, *)
(* failed writes and crashes (batcher.rs:63-69, worker.rs:50-65).           *)
THEOREM NothingCommittedTwice ==
  ASSUME CounterReliable
  PROVE  Spec => []CommittedOnce
<1>1. IInv => CommittedOnce
  BY DEF IInv
<1>2. QED
  BY <1>1, Invariance, PTL

(* A well-formed, correctly signed submission fails only with the store or  *)
(* when the numbers are used up: no neighbour in its batch can make it fail  *)
(* (worker.rs:39-57).                                                       *)
THEOREM NeighboursHarmless ==
  ASSUME CounterReliable
  PROVE  Spec => []NoInnocentFailure
<1>1. ASSUME IInv, NEW r \in Requests, Answered(r, "InternalError"), IsSubmit(r),
             call[r].verdict = "valid"
      PROVE  faulted \/ latest = LastSeq
  <2>1. Made(r)
    BY <1>1, MadeIfAnswered
  <2>2. QED
    BY <1>1, <2>1 DEF IInv, RequestInv, OutcomeInv
<1>2. IInv => NoInnocentFailure
  BY <1>1 DEF NoInnocentFailure
<1>3. QED
  BY <1>2, Invariance, PTL

(* What the update worker has loaded is what the database holds until it     *)
(* writes, though submissions go on beside it (worker.rs:126-190).           *)
THEOREM LoadedStaysCurrent ==
  ASSUME CounterReliable
  PROVE  Spec => []LoadedCurrent
<1>1. ASSUME IInv, updWorker.phase \in {"apply", "write"},
             NEW s \in DOMAIN updWorker.loaded
      PROVE  s \in DOMAIN leavesOf /\ leavesOf[s] = updWorker.loaded[s]
  <2>1. updWorker.loaded \in Copies
    BY <1>1, UpdPhases
  <2>2. PICK S \in SUBSET DOMAIN leavesOf : updWorker.loaded = [t \in S |-> leavesOf[t]]
    BY <2>1 DEF Copies
  <2>3. QED
    BY <1>1, <2>2
<1>2. IInv => LoadedCurrent
  BY <1>1 DEF LoadedCurrent
<1>3. QED
  BY <1>2, Invariance, PTL

-----------------------------------------------------------------------------
(* The database under the two workers. *)

LeafVectors == Seq(Leaves) \ {<<>>}
SlotChanges == UNION {[E -> Leaves] : E \in {F \in SUBSET (Nat \ {0}) : F # {} /\ IsFiniteSet(F)}}
ChangeSets == UNION {[D -> SlotChanges] : D \in SUBSET (0..LastSeq)}
NoCall == CHOOSE x : x \notin LeafVectors \cup ChangeSets

(* The store for all calls that the workers might make. *)
Rocks == INSTANCE RocksStoreProofs WITH
           Roots <- {Tree!MerkleRoot(v) : v \in LeafVectors},
           Batches <- LeafVectors,
           Changes <- ChangeSets,
           None <- NoCall

LEMMA StoreParameters ==
  /\ LastSeq \in Nat \ {0}
  /\ {OverflowChecks, ReadFaults, CounterFaults, WriteFaults} \subseteq BOOLEAN
  /\ LeafVectors \subseteq Seq(Leaves) \ {<<>>}
  /\ NoCall \notin LeafVectors /\ NoCall \notin ChangeSets
  /\ \A c \in ChangeSets : /\ DOMAIN c \subseteq 0..LastSeq
                           /\ \A s \in DOMAIN c : /\ DOMAIN c[s] \subseteq Nat \ {0}
                                                  /\ DOMAIN c[s] # {}
                                                  /\ Rocks!IsFiniteSet(DOMAIN c[s])
                                                  /\ \A i \in DOMAIN c[s] : c[s][i] \in Leaves
<1>1. NoCall \notin LeafVectors \cup ChangeSets
  BY NoSetContainsEverything DEF NoCall
<1>2. ASSUME NEW c \in ChangeSets
      PROVE  /\ DOMAIN c \subseteq 0..LastSeq
             /\ \A s \in DOMAIN c : c[s] \in SlotChanges
  BY DEF ChangeSets
<1>3. ASSUME NEW e \in SlotChanges
      PROVE  /\ DOMAIN e \subseteq Nat \ {0} /\ DOMAIN e # {} /\ Rocks!IsFiniteSet(DOMAIN e)
             /\ \A i \in DOMAIN e : e[i] \in Leaves
  <2>1. PICK E \in {F \in SUBSET (Nat \ {0}) : F # {} /\ IsFiniteSet(F)} : e \in [E -> Leaves]
    BY DEF SlotChanges
  <2>2. IsFiniteSet(E) => Rocks!IsFiniteSet(E)
    BY DEF IsFiniteSet, Rocks!IsFiniteSet
  <2>3. QED
    BY <2>1, <2>2
<1>4. QED
  BY <1>1, <1>2, <1>3, SequencerAssumption DEF LeafVectors

LEMMA StoreStep == CounterReliable /\ Rocks!IInv /\ [Rocks!Next]_(Rocks!vars) => Rocks!IInv'
<1>1. CounterReliable => Rocks!CounterReliable
  BY DEF CounterReliable, Rocks!CounterReliable
<1>2. QED
  BY <1>1, StoreParameters, Rocks!StepInv

(* The largest of some of the first numbers is one of them. *)
LEMMA MaxIsIn ==
  ASSUME NEW n \in Nat, NEW S \in SUBSET (1..n), S # {}
  PROVE  Batch!Max(S) \in S
<1> DEFINE T == {n - x : x \in S}
           less == {ss \in Nat \X Nat : ss[1] < ss[2]}
<1>1. T \subseteq Nat /\ T # {}
  <2>1. \A x \in S : x \in 1..n /\ n - x \in Nat
    OBVIOUS
  <2>2. QED
    BY <2>1, S # {}
<1>2. IsWellFoundedOn(less, Nat)
  BY NatLessThanWellFounded, Zenon DEF OpToRel
<1>3. \A x, y \in Nat : x < y => <<x, y>> \in less
  OBVIOUS
<1> HIDE DEF T, less
<1>4. PICK t \in T : \A u \in T : <<u, t>> \notin less
  BY <1>1, <1>2, WFMin
<1>5. \A u \in T : ~(u < t)
  BY <1>1, <1>3, <1>4
<1>6. PICK x \in S : t = n - x
  BY DEF T
<1>7. \A y \in S : n - y \in T
  BY DEF T
<1>8. \A y \in S : x >= y
  BY <1>5, <1>6, <1>7
<1>9. QED
  BY <1>8 DEF Batch!Max

(* What the HashMap of pairs holds for a leaf is what some usable call that *)
(* names the leaf asks for.                                                *)
LEMMA PairIsAsked ==
  ASSUME NEW n \in Nat, NEW calls, DOMAIN calls = 1..n,
         NEW x \in DOMAIN Batch!Replacements(calls)
  PROVE  \E k \in DOMAIN calls :
           /\ calls[k].old = x /\ calls[k].new = Batch!Replacements(calls)[x]
           /\ calls[k].old \in Leaves /\ calls[k].new \in Leaves
<1> DEFINE U == Batch!Usable(calls)
           S == {k \in U : calls[k].old = x}
<1>1. /\ U \subseteq 1..n
      /\ \A k \in U : calls[k].old \in Leaves /\ calls[k].new \in Leaves
  BY DEF Batch!Usable
<1>2. /\ x \in {calls[k].old : k \in U}
      /\ Batch!Replacements(calls)[x] = calls[Batch!Max(S)].new
  BY DEF Batch!Replacements
<1> HIDE DEF U
<1>3. S \in SUBSET (1..n) /\ S # {}
  BY <1>1, <1>2
<1>4. Batch!Max(S) \in S
  BY <1>3, MaxIsIn
<1>5. QED
  BY <1>1, <1>2, <1>4

-----------------------------------------------------------------------------
(* What the update worker is going to write. *)
LEMMA ChangesAre ==
  ASSUME IInv, updWorker.phase \in {"apply", "write"}
  PROVE  /\ DOMAIN Changes \subseteq DOMAIN updWorker.loaded
         /\ DOMAIN updWorker.loaded \subseteq DOMAIN leavesOf
         /\ \A s \in DOMAIN updWorker.loaded : updWorker.loaded[s] = leavesOf[s]
         /\ \A s \in DOMAIN Changes :
              /\ DOMAIN Changes[s] # {} /\ DOMAIN Changes[s] \subseteq DOMAIN leavesOf[s]
              /\ \A i \in DOMAIN Changes[s] :
                   /\ Changes[s][i] \in Leaves
                   /\ \E r \in Requests :
                        /\ In(r, updWorker.items)
                        /\ call[r].old = leavesOf[s][i] /\ call[r].new = Changes[s][i]
<1> DEFINE items == updWorker.items
           loaded == updWorker.loaded
           calls == CallsOf(items)
           repl == Batch!Replacements(calls)
<1>1. items \in Vectors /\ loaded \in Copies
  BY UpdPhases
<1>2. /\ DOMAIN loaded \subseteq DOMAIN leavesOf
      /\ \A s \in DOMAIN loaded : loaded[s] = leavesOf[s]
  <2>1. PICK S \in SUBSET DOMAIN leavesOf : loaded = [t \in S |-> leavesOf[t]]
    BY <1>1 DEF Copies
  <2>2. QED
    BY <2>1
<1>3. PICK n \in Nat : items \in [1..n -> Requests]
  <2>1. items \in Seq(Requests)
    BY <1>1 DEF Vectors
  <2>2. QED
    BY <2>1
<1>4. DOMAIN calls = 1..n /\ \A k \in 1..n : calls[k] = call[items[k]]
  BY <1>3 DEF CallsOf
<1>5. ASSUME NEW x \in DOMAIN repl
      PROVE  /\ repl[x] \in Leaves
             /\ \E r \in Requests : In(r, items) /\ call[r].old = x /\ call[r].new = repl[x]
  <2>1. PICK k \in 1..n : calls[k].old = x /\ calls[k].new = repl[x] /\ calls[k].new \in Leaves
    BY <1>4, <1>5, PairIsAsked
  <2>2. items[k] \in Requests /\ In(items[k], items)
    BY <1>3, InIs
  <2>3. QED
    BY <1>4, <2>1, <2>2
<1>6. Changes = [s \in {t \in DOMAIN loaded : Batch!Hits(loaded[t], repl) # {}} |->
                  [i \in Batch!Hits(loaded[s], repl) |-> repl[loaded[s][i]]]]
  BY DEF Changes, Batch!ChangesOf
<1> HIDE DEF loaded, repl, calls, items
<1>7. ASSUME NEW s \in DOMAIN Changes
      PROVE  /\ s \in DOMAIN loaded /\ DOMAIN Changes[s] # {}
             /\ \A i \in DOMAIN Changes[s] :
                  /\ i \in DOMAIN loaded[s] /\ loaded[s][i] \in DOMAIN repl
                  /\ Changes[s][i] = repl[loaded[s][i]]
  <2>1. /\ s \in DOMAIN loaded
        /\ Batch!Hits(loaded[s], repl) # {}
        /\ Changes[s] = [i \in Batch!Hits(loaded[s], repl) |-> repl[loaded[s][i]]]
    BY <1>6
  <2>2. QED
    BY <2>1 DEF Batch!Hits
<1>8. ASSUME NEW s \in DOMAIN Changes
      PROVE  /\ DOMAIN Changes[s] # {} /\ DOMAIN Changes[s] \subseteq DOMAIN leavesOf[s]
             /\ \A i \in DOMAIN Changes[s] :
                  /\ Changes[s][i] \in Leaves
                  /\ \E r \in Requests :
                       /\ In(r, items)
                       /\ call[r].old = leavesOf[s][i] /\ call[r].new = Changes[s][i]
  BY <1>2, <1>5, <1>7
<1>9. DOMAIN Changes \subseteq DOMAIN loaded
  BY <1>7
<1>10. QED
  BY <1>2, <1>8, <1>9 DEF items, loaded

LEMMA ChangesAllowed ==
  ASSUME IInv, Rocks!IInv, updWorker.phase \in {"apply", "write"}
  PROVE  Changes \in ChangeSets
<1>1. DOMAIN leavesOf = 1..latest /\ latest \in 0..LastSeq
  BY DEF IInv, StoreInv
<1>2. DOMAIN Changes \subseteq 0..LastSeq
  BY <1>1, ChangesAre, Parameters
<1>3. ASSUME NEW s \in DOMAIN Changes
      PROVE  Changes[s] \in SlotChanges
  <2>1. s \in DOMAIN leavesOf
    BY ChangesAre
  <2>2. leavesOf[s] \in Seq(Leaves)
    BY <2>1 DEF Rocks!IInv, Rocks!TypeOK, Rocks!RecordsTypeOK, Rocks!IsPartial, Rocks!Vectors
  <2>3. PICK m \in Nat : DOMAIN leavesOf[s] = 1..m
    BY <2>2
  <2>4. DOMAIN Changes[s] # {} /\ DOMAIN Changes[s] \subseteq 1..m
    BY <2>3, ChangesAre
  <2>5. IsFiniteSet(DOMAIN Changes[s])
    BY <2>4, FS_Interval, FS_Subset
  <2>6. DOMAIN Changes[s] \in {F \in SUBSET (Nat \ {0}) : F # {} /\ IsFiniteSet(F)}
    BY <2>4, <2>5
  <2>7. Changes[s] \in [DOMAIN Changes[s] -> Leaves]
    <3>1. \A i \in DOMAIN Changes[s] : Changes[s][i] \in Leaves
      BY ChangesAre
    <3>2. Changes[s] = [i \in DOMAIN Changes[s] |-> Changes[s][i]]
      BY DEF Changes, Batch!ChangesOf
    <3>3. QED
      BY <3>1, <3>2
  <2>8. QED
    BY <2>6, <2>7 DEF SlotChanges
<1>4. Changes = [s \in DOMAIN Changes |-> Changes[s]]
  BY DEF Changes, Batch!ChangesOf
<1>5. Changes \in [DOMAIN Changes -> SlotChanges]
  BY <1>3, <1>4
<1>6. QED
  BY <1>2, <1>5 DEF ChangeSets

(* What the submission worker is going to write. *)
LEMMA SubLeavesAllowed ==
  ASSUME IInv, subWorker.phase = "store"
  PROVE  SubLeaves \in LeafVectors
<1>1. subWorker.items \in Vectors /\ SubHands = subWorker.items
  BY DEF IInv, WorkersType, Listening, SubHands
<1>2. PICK n \in Nat : subWorker.items \in [1..n -> Requests] /\ n # 0
  <2>1. subWorker.items \in Seq(Requests) /\ subWorker.items # <<>>
    BY <1>1 DEF Vectors
  <2>2. QED
    BY <2>1, Len(subWorker.items) \in Nat
<1>3. ASSUME NEW k \in 1..n
      PROVE  call[subWorker.items[k]].root \in Leaves
  <2>1. PICK r \in Requests : r = subWorker.items[k]
    BY <1>2
  <2>2. SubHeld(r)
    BY <1>1, <1>2, <2>1, InIs DEF SubHeld
  <2>3. Made(r) /\ IsSubmit(r) /\ stage[r] # "done"
    BY <2>2 DEF IInv, RequestInv, PlaceInv
  <2>4. QED
    BY <2>1, <2>3 DEF IInv, RequestInv, HandlerInv
<1>4. SubLeaves \in [1..n -> Leaves]
  BY <1>2, <1>3 DEF SubLeaves
<1>5. SubLeaves \in Seq(Leaves) /\ SubLeaves # <<>>
  BY <1>2, <1>4
<1>6. QED
  BY <1>5 DEF LeafVectors

-----------------------------------------------------------------------------
(* The update worker has loaded every batch its calls name, and the update  *)
(* that the store serves is the one it computed.                           *)
HeldInv ==
  /\ updWorker.phase \in {"apply", "write"} => DOMAIN updWorker.loaded = Named
  /\ upd # Store!Idle => updWorker.phase = "write" /\ upd.changes = Changes

(* Who does what. *)
LEMMA OnlyMakeCalls ==
  ASSUME [Next]_vars
  PROVE  (\E r \in Requests, c \in Calls : Make(r, c)) \/ UNCHANGED call
<1>1. ASSUME NEW r \in Requests, Handler(r) \/ Cancel(r)
      PROVE  UNCHANGED call
  BY <1>1 DEF Handler, SendSubmission, SendUpdate, SendFails, Return, WorkerDropped, Finish, Cancel
<1>2. CASE SubEngine \/ UpdEngine
  BY <1>2 DEF SubEngine, UpdEngine, handlers
<1>3. CASE SubWorker
  BY <1>3 DEF SubWorker, SubReceive, SubBegin, SubCommit, SubStoreFails, SubPanics, SubReply, handlers
<1>4. CASE UpdWorker
  BY <1>4 DEF UpdWorker, UpdReceive, UpdLoad, UpdLoadMisses, UpdLoadFails, UpdSkip, UpdBegin,
              UpdRead, UpdCommit, UpdStoreFails, UpdReply, handlers
<1>5. CASE Crash \/ UNCHANGED vars
  BY <1>5 DEF Crash, vars, handlers
<1>6. QED
  BY <1>1, <1>2, <1>3, <1>4, <1>5 DEF Next

LEMMA OnlyItsWorkerUpdates ==
  ASSUME [Next]_vars, ~UpdWorker, ~Crash
  PROVE  UNCHANGED <<updWorker, upd>>
<1>1. ASSUME NEW r \in Requests, NEW c \in Calls, Make(r, c)
      PROVE  UNCHANGED <<updWorker, upd>>
  BY <1>1 DEF Make, store
<1>2. ASSUME NEW r \in Requests, Handler(r) \/ Cancel(r)
      PROVE  UNCHANGED <<updWorker, upd>>
  BY <1>2 DEF Handler, SendSubmission, SendUpdate, SendFails, Return, WorkerDropped, Finish, Cancel,
              store
<1>3. CASE SubEngine \/ UpdEngine
  BY <1>3 DEF SubEngine, UpdEngine, store
<1>4. CASE SubWorker
  BY <1>4 DEF SubWorker, SubReceive, SubBegin, SubCommit, SubStoreFails, SubPanics, SubReply, store,
              Store!InsertBegin, Store!InsertWrite, Store!InsertFails
<1>5. CASE UNCHANGED vars
  BY <1>5 DEF vars, store
<1>6. QED
  BY <1>1, <1>2, <1>3, <1>4, <1>5 DEF Next

(* The calls in the worker's hands were made before. *)
LEMMA CallsKept ==
  ASSUME IInv, [Next]_vars, updWorker.phase # "recv", UNCHANGED updWorker
  PROVE  UNCHANGED <<Named, Changes>>
<1>1. updWorker.items \in Seq(Requests)
  BY DEF IInv, WorkersType, Listening, Vectors
<1>2. PICK n \in Nat : updWorker.items \in [1..n -> Requests]
  BY <1>1
<1>3. ASSUME NEW k \in 1..n
      PROVE  call'[updWorker.items[k]] = call[updWorker.items[k]]
  <2>1. PICK r \in Requests : r = updWorker.items[k]
    BY <1>2
  <2>2. UpdHeld(r)
    BY <1>2, <2>1, InIs DEF UpdHeld, UpdHands
  <2>3. stage[r] # "idle"
    BY <2>2 DEF IInv, RequestInv, PlaceInv
  <2>4. ASSUME NEW x \in Requests, NEW c \in Calls, Make(x, c)
        PROVE  call'[r] = call[r]
    BY <2>3, <2>4 DEF Make, IInv, HandlersType
  <2>5. (\E x \in Requests, c \in Calls : Make(x, c)) \/ UNCHANGED call
    BY OnlyMakeCalls
  <2>6. QED
    BY <2>1, <2>4, <2>5
<1>4. CallsOf(updWorker.items)' = CallsOf(updWorker.items)
  BY <1>2, <1>3 DEF CallsOf
<1>5. QED
  BY <1>4 DEF Named, Changes

LEMMA HeldStep ==
  ASSUME IInv, HeldInv, [Next]_vars
  PROVE  HeldInv'
<1>1. CASE UNCHANGED <<updWorker, upd>>
  <2>1. updWorker.phase # "recv" => UNCHANGED <<Named, Changes>>
    BY <1>1, CallsKept
  <2>2. QED
    BY <1>1, <2>1 DEF HeldInv
<1>2. CASE Crash
  BY <1>2 DEF Crash, HeldInv, Listening
<1>3. CASE UpdReceive
  <2>1. updWorker.phase = "recv" /\ updWorker'.phase = "load" /\ upd' = upd
    BY <1>3 DEF UpdReceive, Listening, store
  <2>2. QED
    BY <2>1 DEF HeldInv
<1>4. CASE UpdLoad
  <2>1. /\ updWorker.phase = "load" /\ upd' = upd /\ call' = call
        /\ updWorker'.phase = "apply" /\ updWorker'.items = updWorker.items
        /\ DOMAIN updWorker'.loaded = Named
    BY <1>4 DEF UpdLoad, store, handlers
  <2>2. Named' = Named
    BY <2>1 DEF Named, CallsOf
  <2>3. QED
    BY <2>1, <2>2 DEF HeldInv
<1>5. CASE UpdLoadMisses \/ UpdLoadFails \/ UpdSkip
  <2>1. updWorker.phase # "write" /\ updWorker'.phase = "reply" /\ upd' = upd
    BY <1>5 DEF UpdLoadMisses, UpdLoadFails, UpdSkip, WithResult, store
  <2>2. QED
    BY <2>1 DEF HeldInv
<1>6. CASE UpdBegin
  <2>1. /\ updWorker.phase = "apply" /\ call' = call
        /\ updWorker' = [updWorker EXCEPT !.phase = "write"]
        /\ upd'.changes = Changes
    BY <1>6 DEF UpdBegin, Store!UpdateBegin, handlers
  <2>2. updWorker \in [phase : {"apply", "write"}, items : Vectors, loaded : Copies]
    BY <2>1, UpdPhases
  <2>3. /\ updWorker'.phase = "write" /\ updWorker'.items = updWorker.items
        /\ updWorker'.loaded = updWorker.loaded
    BY <2>1, <2>2
  <2>4. Named' = Named /\ Changes' = Changes
    BY <2>1, <2>3 DEF Named, Changes, CallsOf
  <2>5. QED
    BY <2>1, <2>3, <2>4 DEF HeldInv
<1>7. ASSUME NEW s \in 0..LastSeq, UpdRead(s)
      PROVE  HeldInv'
  <2>1. upd.phase = "read" /\ upd'.changes = upd.changes /\ updWorker' = updWorker
    BY <1>7 DEF UpdRead, Store!UpdateRead
  <2>2. updWorker.phase = "write" /\ upd.changes = Changes
    BY <2>1 DEF HeldInv, Store!Idle
  <2>3. UNCHANGED <<Named, Changes>>
    BY <2>1, <2>2, CallsKept
  <2>4. QED
    BY <2>1, <2>2, <2>3 DEF HeldInv
<1>8. CASE UpdCommit \/ UpdStoreFails
  <2>1. updWorker'.phase = "reply" /\ upd' = Store!Idle
    BY <1>8 DEF UpdCommit, UpdStoreFails, WithResult, Store!UpdateWrite, Store!UpdateStops,
                Store!UpdateFails
  <2>2. QED
    BY <2>1 DEF HeldInv
<1>9. CASE UpdReply
  <2>1. updWorker.phase = "reply" /\ updWorker' = AfterReply(updWorker) /\ upd' = upd
    BY <1>9 DEF UpdReply, store
  <2>2. updWorker \in [phase : {"reply"}, items : Vectors, result : Answers]
    BY <2>1, UpdPhases
  <2>3. updWorker'.phase \in {"recv", "reply"}
    BY <2>1, <2>2 DEF AfterReply, Listening
  <2>4. QED
    BY <2>1, <2>3 DEF HeldInv
<1>10. CASE UpdWorker
  BY <1>10, <1>3, <1>4, <1>5, <1>6, <1>7, <1>8, <1>9 DEF UpdWorker
<1>11. QED
  BY <1>1, <1>2, <1>10, OnlyItsWorkerUpdates

-----------------------------------------------------------------------------
(* A step of the process is a step of the store or leaves it alone. *)
LEMMA SameActions ==
  /\ \A root, leaves : Store!InsertBegin(root, leaves) => Rocks!InsertBegin(root, leaves)
  /\ Store!InsertWrite => Rocks!InsertWrite
  /\ Store!InsertFails => Rocks!InsertFails
  /\ \A c : Store!UpdateBegin(c) => Rocks!UpdateBegin(c)
  /\ \A s : Store!UpdateRead(s) => Rocks!UpdateRead(s)
  /\ Store!UpdateWrite => Rocks!UpdateWrite
  /\ Store!UpdateStops => Rocks!UpdateStops
  /\ Store!UpdateFails => Rocks!UpdateFails
<1>1. \A root, leaves : Store!InsertBegin(root, leaves) => Rocks!InsertBegin(root, leaves)
  BY DEF Store!InsertBegin, Rocks!InsertBegin, Store!Idle, Rocks!Idle, Store!LatestRead,
         Rocks!LatestRead, Store!NextSeq, Rocks!NextSeq, Store!records, Rocks!records
<1>2. Store!InsertWrite => Rocks!InsertWrite
  BY DEF Store!InsertWrite, Rocks!InsertWrite, Store!Idle, Rocks!Idle, Store!Put, Rocks!Put,
         Store!Over, Rocks!Over, Store!Range, Rocks!Range
<1>3. Store!InsertFails => Rocks!InsertFails
  BY DEF Store!InsertFails, Rocks!InsertFails, Store!Idle, Rocks!Idle, Store!records, Rocks!records
<1>4. \A c : Store!UpdateBegin(c) => Rocks!UpdateBegin(c)
  BY DEF Store!UpdateBegin, Rocks!UpdateBegin, Store!Idle, Rocks!Idle, Store!Empty, Rocks!Empty,
         Store!records, Rocks!records
<1>5. \A s : Store!UpdateRead(s) => Rocks!UpdateRead(s)
  BY DEF Store!UpdateRead, Rocks!UpdateRead, Store!Readable, Rocks!Readable, Store!PutIn,
         Rocks!PutIn, Store!Touched, Rocks!Touched, Store!Replace, Rocks!Replace, Store!Put,
         Rocks!Put, Store!Over, Rocks!Over, Store!Without, Rocks!Without, Store!Restrict,
         Rocks!Restrict, Store!records, Rocks!records
<1>6. Store!UpdateWrite => Rocks!UpdateWrite
  BY DEF Store!UpdateWrite, Rocks!UpdateWrite, Store!Idle, Rocks!Idle, Store!Over, Rocks!Over,
         Store!Without, Rocks!Without, Store!Restrict, Rocks!Restrict
<1>7. Store!UpdateStops => Rocks!UpdateStops
  BY DEF Store!UpdateStops, Rocks!UpdateStops, Store!Idle, Rocks!Idle, Store!Readable,
         Rocks!Readable, Store!records, Rocks!records
<1>8. Store!UpdateFails => Rocks!UpdateFails
  BY DEF Store!UpdateFails, Rocks!UpdateFails, Store!Idle, Rocks!Idle, Store!records, Rocks!records
<1>9. QED
  BY <1>1, <1>2, <1>3, <1>4, <1>5, <1>6, <1>7, <1>8

LEMMA OnlyWorkersUseStore ==
  ASSUME [Next]_vars, ~SubWorker, ~UpdWorker, ~Crash
  PROVE  UNCHANGED Rocks!vars
<1>1. ASSUME NEW r \in Requests, NEW c \in Calls, Make(r, c)
      PROVE  UNCHANGED Rocks!vars
  BY <1>1 DEF Make, store, records, Rocks!vars
<1>2. ASSUME NEW r \in Requests, Handler(r) \/ Cancel(r)
      PROVE  UNCHANGED Rocks!vars
  BY <1>2 DEF Handler, SendSubmission, SendUpdate, SendFails, Return, WorkerDropped, Finish, Cancel,
              store, records, Rocks!vars
<1>3. CASE SubEngine \/ UpdEngine \/ UNCHANGED vars
  BY <1>3 DEF SubEngine, UpdEngine, vars, store, records, Rocks!vars
<1>4. QED
  BY <1>1, <1>2, <1>3 DEF Next

LEMMA StepUsesStore ==
  ASSUME IInv, Rocks!IInv, [Next]_vars, ~Crash
  PROVE  [Rocks!Next]_(Rocks!vars)
<1> USE SameActions
<1>1. CASE SubBegin
  <2>1. SubLeaves \in LeafVectors /\ Store!InsertBegin(Tree!MerkleRoot(SubLeaves), SubLeaves)
    BY <1>1, SubLeavesAllowed DEF SubBegin
  <2>2. Tree!MerkleRoot(SubLeaves) \in {Tree!MerkleRoot(v) : v \in LeafVectors}
    BY <2>1
  <2>3. QED
    BY <2>1, <2>2 DEF Rocks!Next
<1>2. CASE SubCommit \/ SubStoreFails
  BY <1>2 DEF SubCommit, SubStoreFails, Rocks!Next
<1>3. CASE SubReceive \/ SubPanics \/ SubReply
  BY <1>3 DEF SubReceive, SubPanics, SubReply, store, records, Rocks!vars
<1>4. CASE UpdBegin
  <2>1. Changes \in ChangeSets /\ Store!UpdateBegin(Changes)
    BY <1>4, ChangesAllowed DEF UpdBegin
  <2>2. QED
    BY <2>1 DEF Rocks!Next
<1>5. ASSUME NEW s \in 0..LastSeq, UpdRead(s)
      PROVE  Rocks!Next
  BY <1>5 DEF UpdRead, Rocks!Next
<1>6. CASE UpdCommit \/ UpdStoreFails
  BY <1>6 DEF UpdCommit, UpdStoreFails, Rocks!Next
<1>7. CASE UpdReceive \/ UpdLoad \/ UpdLoadMisses \/ UpdLoadFails \/ UpdSkip \/ UpdReply
  BY <1>7 DEF UpdReceive, UpdLoad, UpdLoadMisses, UpdLoadFails, UpdSkip, UpdReply, store, records,
              Rocks!vars
<1>8. QED
  BY <1>1, <1>2, <1>3, <1>4, <1>5, <1>6, <1>7, OnlyWorkersUseStore DEF SubWorker, UpdWorker

LEMMA CrashKeepsStore ==
  ASSUME Rocks!IInv, Crash
  PROVE  Rocks!IInv'
  BY DEF Crash, records, Store!Idle, Rocks!Idle, Rocks!IInv, Rocks!TypeOK, Rocks!RecordsTypeOK,
         Rocks!InsertTypeOK, Rocks!UpdateTypeOK, Rocks!NumbersAligned, Rocks!CopiesCurrent,
         Rocks!WritesSound, Rocks!IndexSound

(* Whatever inserts left in the database before the process starts. *)
LEMMA InitStore == Init => Rocks!IInv
<1> SUFFICES ASSUME Init
             PROVE  Rocks!IInv
  OBVIOUS
<1> USE Parameters
<1> DEFINE holding(x) == {n \in DOMAIN leavesOf : \E k \in DOMAIN leavesOf[n] : leavesOf[n][k] = x}
<1>1. PICK stored \in StoredAtStart : Opened(stored)
  BY DEF Init
<1>2. /\ stored \in Seq(Seq(Leaves) \ {<<>>}) /\ Len(stored) <= LastSeq
      /\ DOMAIN stored = 1..Len(stored) /\ Len(stored) \in Nat
      /\ \A n \in DOMAIN stored : stored[n] \in LeafVectors
  BY <1>1, SequencerAssumption DEF LeafVectors
<1>3. /\ latest = Len(stored) /\ leavesOf = stored
      /\ rootOf = [n \in DOMAIN stored |-> Tree!MerkleRoot(stored[n])]
      /\ index = [x \in {y \in Leaves : holding(y) # {}} |-> Batch!Max(holding(x))]
  BY <1>1 DEF Opened, SubQ!Holds
<1>4. /\ latest \in 0..LastSeq /\ DOMAIN leavesOf = 1..latest /\ DOMAIN rootOf = 1..latest
      /\ \A n \in DOMAIN leavesOf : leavesOf[n] \in Seq(Leaves) \ {<<>>}
  BY <1>2, <1>3
<1>5. Rocks!IsPartial(leavesOf, 0..LastSeq, Rocks!Vectors)
  <2>1. leavesOf = [n \in DOMAIN leavesOf |-> leavesOf[n]]
    BY <1>2, <1>3
  <2>2. QED
    BY <1>4, <2>1 DEF Rocks!IsPartial, Rocks!Vectors
<1>6. Rocks!IsPartial(rootOf, 0..LastSeq, {Tree!MerkleRoot(v) : v \in LeafVectors})
  BY <1>2, <1>3, <1>4 DEF Rocks!IsPartial
<1>7. ASSUME NEW x \in DOMAIN index
      PROVE  /\ x \in Leaves /\ index[x] \in DOMAIN leavesOf
             /\ x \in Rocks!Range(leavesOf[index[x]])
  <2>1. x \in Leaves /\ holding(x) # {} /\ index[x] = Batch!Max(holding(x))
    BY <1>3
  <2>2. holding(x) \in SUBSET (1..latest) /\ latest \in Nat
    BY <1>4
  <2>3. Batch!Max(holding(x)) \in holding(x)
    BY <2>1, <2>2, MaxIsIn
  <2>4. QED
    BY <2>1, <2>3 DEF Rocks!Range
<1>8. Rocks!IsPartial(index, Leaves, 0..LastSeq)
  <2>1. index = [x \in DOMAIN index |-> index[x]]
    BY <1>3, Zenon
  <2>2. \A x \in DOMAIN index : x \in Leaves /\ index[x] \in 0..LastSeq
    BY <1>4, <1>7
  <2>3. QED
    BY <2>1, <2>2 DEF Rocks!IsPartial
<1>9. ins = Rocks!Idle /\ upd = Rocks!Idle
  BY DEF Init, Store!Idle, Rocks!Idle
<1>10. Rocks!TypeOK
  BY <1>4, <1>5, <1>6, <1>8, <1>9
  DEF Rocks!TypeOK, Rocks!RecordsTypeOK, Rocks!InsertTypeOK, Rocks!UpdateTypeOK
<1>11. Rocks!NumbersAligned /\ Rocks!CopiesCurrent /\ Rocks!WritesSound
  BY <1>4, <1>9 DEF Rocks!NumbersAligned, Rocks!CopiesCurrent, Rocks!WritesSound
<1>12. Rocks!IndexSound
  BY <1>7 DEF Rocks!IndexSound
<1>13. QED
  BY <1>10, <1>11, <1>12 DEF Rocks!IInv

-----------------------------------------------------------------------------
(* Both together are inductive beside the invariant of the process.         *)
StoreIInv == IInv /\ Rocks!IInv /\ HeldInv

LEMMA InitStoreInv == Init => StoreIInv
<1>1. Init => HeldInv
  BY DEF Init, HeldInv, Listening
<1>2. QED
  BY <1>1, InitInv, InitStore DEF StoreIInv

LEMMA StepStoreInv ==
  ASSUME CounterReliable, StoreIInv, [Next]_vars
  PROVE  StoreIInv'
<1>1. IInv /\ Rocks!IInv /\ HeldInv
  BY DEF StoreIInv
<1>2. IInv'
  BY <1>1, StepInv
<1>3. HeldInv'
  BY <1>1, HeldStep
<1>4. Rocks!IInv'
  BY <1>1, StepUsesStore, CrashKeepsStore, StoreStep
<1>5. QED
  BY <1>2, <1>3, <1>4 DEF StoreIInv

LEMMA StoreInvariance ==
  ASSUME CounterReliable
  PROVE  Spec => []StoreIInv
<1>1. StoreIInv /\ [Next]_vars => StoreIInv'
  BY StepStoreInv
<1>2. QED
  BY <1>1, InitStoreInv, PTL DEF Spec

(* What the two workers leave in the database, beside each other and across *)
(* crashes, stays numbered without a gap and indexed, and the vectors an    *)
(* update is about to write are the stored ones with its replacements       *)
(* (rocks.rs, rocks_queries.rs, worker.rs).                                 *)
THEOREM StoreStaysSound ==
  ASSUME CounterReliable
  PROVE  Spec => []StoreSound
<1>1. Rocks!IInv => StoreSound
  BY DEF Rocks!IInv, StoreSound, Rocks!NumbersAligned, Store!NumbersAligned, Rocks!CopiesCurrent,
         Store!CopiesCurrent, Rocks!IndexSound, Store!IndexSound, Rocks!Idle, Store!Idle,
         Rocks!Replace, Store!Replace, Rocks!Range, Store!Range
<1>2. StoreIInv => StoreSound
  BY <1>1 DEF StoreIInv
<1>3. QED
  BY <1>2, StoreInvariance, PTL

(* The multi-proof of an update batch always has a leaf: the worker has      *)
(* loaded the batch that its first call names, and no batch in the database *)
(* is empty (worker.rs:128-134, merkle.rs:52).                              *)
THEOREM TreeAlwaysHasLeaf ==
  ASSUME CounterReliable
  PROVE  Spec => []TreeHasLeaf
<1>1. ASSUME StoreIInv, updWorker.phase = "apply"
      PROVE  \E s \in DOMAIN updWorker.loaded : updWorker.loaded[s] # <<>>
  <2>1. IInv /\ Rocks!IInv /\ HeldInv
    BY <1>1 DEF StoreIInv
  <2>2. updWorker.items \in Seq(Requests) /\ updWorker.items # <<>>
    BY <1>1, <2>1, UpdPhases DEF Vectors
  <2>3. 1 \in DOMAIN updWorker.items
    BY <2>2
  <2>4. PICK s \in Named : TRUE
    BY <2>3 DEF Named, Batch!SequenceNumbers, CallsOf
  <2>5. s \in DOMAIN updWorker.loaded
    BY <1>1, <2>1, <2>4 DEF HeldInv
  <2>6. s \in DOMAIN leavesOf /\ updWorker.loaded[s] = leavesOf[s]
    BY <1>1, <2>1, <2>5, ChangesAre
  <2>7. leavesOf[s] # <<>>
    BY <2>1, <2>6
    DEF Rocks!IInv, Rocks!TypeOK, Rocks!RecordsTypeOK, Rocks!IsPartial, Rocks!Vectors
  <2>8. QED
    BY <2>5, <2>6, <2>7
<1>2. StoreIInv => TreeHasLeaf
  BY <1>1 DEF TreeHasLeaf
<1>3. QED
  BY <1>2, StoreInvariance, PTL

-----------------------------------------------------------------------------
Asked(s, i) ==
  /\ s \in Named
  /\ \E r \in Requests :
       In(r, updWorker.items) /\ call[r].old = leavesOf[s][i] /\ call[r].new = leavesOf'[s][i]

(* Only the write of an update changes a batch that is there. *)
LEMMA CommitChangesAsked ==
  ASSUME StoreIInv, UpdCommit,
         NEW s \in DOMAIN leavesOf, NEW i \in DOMAIN leavesOf[s],
         leavesOf'[s][i] # leavesOf[s][i]
  PROVE  Asked(s, i)
<1>1. IInv /\ Rocks!IInv /\ HeldInv
  BY DEF StoreIInv
<1>2. /\ updWorker.phase = "write" /\ upd # Store!Idle /\ upd # Rocks!Idle
      /\ upd.left = {} /\ leavesOf' = Store!Over(upd.raw, leavesOf)
  BY DEF UpdCommit, Store!UpdateWrite, Store!Idle, Rocks!Idle
<1>3. upd.changes = Changes /\ DOMAIN updWorker.loaded = Named
  BY <1>1, <1>2 DEF HeldInv
<1>4. s \in DOMAIN upd.raw /\ leavesOf'[s] = upd.raw[s]
  BY <1>2 DEF Store!Over
<1>5. s \in DOMAIN Changes
  BY <1>1, <1>2, <1>3, <1>4 DEF Rocks!IInv, Rocks!TypeOK, Rocks!UpdateTypeOK
<1>6. upd.raw[s] = Rocks!Replace(leavesOf[s], Changes[s])
  BY <1>1, <1>2, <1>3, <1>4 DEF Rocks!IInv, Rocks!CopiesCurrent
<1>7. i \in DOMAIN Changes[s] /\ leavesOf'[s][i] = Changes[s][i]
  BY <1>4, <1>6 DEF Rocks!Replace
<1>8. s \in Named
  BY <1>1, <1>2, <1>3, <1>5, ChangesAre
<1>9. \E r \in Requests :
        In(r, updWorker.items) /\ call[r].old = leavesOf[s][i] /\ call[r].new = Changes[s][i]
  BY <1>1, <1>2, <1>5, <1>7, ChangesAre
<1>10. QED
  BY <1>7, <1>8, <1>9 DEF Asked

LEMMA OnlyCommitsChange ==
  ASSUME StoreIInv, [Next]_vars, ~UpdCommit, NEW s \in DOMAIN leavesOf
  PROVE  leavesOf'[s] = leavesOf[s]
<1>1. IInv /\ Rocks!IInv
  BY DEF StoreIInv
<1>2. CASE SubCommit
  <2>1. ins # Store!Idle /\ leavesOf' = Store!Put(ins.seq, ins.leaves, leavesOf)
    BY <1>2 DEF SubCommit, Store!InsertWrite, Store!Idle
  <2>2. DOMAIN leavesOf = 1..latest /\ latest \in Nat /\ ins.seq = latest + 1
    BY <1>1, <2>1 DEF IInv, StoreInv
  <2>3. s # ins.seq
    BY <2>2
  <2>4. QED
    BY <2>1, <2>3 DEF Store!Put, Store!Over
<1>3. CASE SubReceive \/ SubBegin \/ SubStoreFails \/ SubPanics \/ SubReply
  BY <1>3 DEF SubReceive, SubBegin, SubStoreFails, SubPanics, SubReply, store, records,
              Store!InsertBegin, Store!InsertFails, Store!records
<1>4. ASSUME NEW t \in 0..LastSeq, UpdRead(t)
      PROVE  UNCHANGED leavesOf
  BY <1>4 DEF UpdRead, Store!UpdateRead, Store!records
<1>5. CASE UpdReceive \/ UpdLoad \/ UpdLoadMisses \/ UpdLoadFails \/ UpdSkip \/ UpdReply
  BY <1>5 DEF UpdReceive, UpdLoad, UpdLoadMisses, UpdLoadFails, UpdSkip, UpdReply, store, records
<1>6. CASE UpdBegin \/ UpdStoreFails
  BY <1>6 DEF UpdBegin, UpdStoreFails, Store!UpdateBegin, Store!UpdateStops, Store!UpdateFails,
              Store!records
<1>7. CASE Crash
  BY <1>7 DEF Crash, records
<1>8. CASE UNCHANGED Rocks!vars
  BY <1>8 DEF Rocks!vars
<1>9. QED
  BY <1>2, <1>3, <1>4, <1>5, <1>6, <1>7, <1>8, OnlyWorkersUseStore DEF SubWorker, UpdWorker

(* A slot of the database changes only as some call in the update worker's   *)
(* batch asked, and only in a batch that a call beside it named; inserts,    *)
(* failed updates and crashes change none (worker.rs:136-167).              *)
THEOREM SlotsChangeAsAsked ==
  ASSUME CounterReliable
  PROVE  Spec => OnlyRequestedChanges
<1> DEFINE OK == \A s \in DOMAIN leavesOf : \A i \in DOMAIN leavesOf[s] :
                   leavesOf'[s][i] # leavesOf[s][i] => Asked(s, i)
<1>1. StoreIInv /\ [Next]_vars => [OK]_vars
  <2> SUFFICES ASSUME StoreIInv, [Next]_vars, NEW s \in DOMAIN leavesOf,
                      NEW i \in DOMAIN leavesOf[s], leavesOf'[s][i] # leavesOf[s][i]
               PROVE  Asked(s, i)
    OBVIOUS
  <2>1. UpdCommit
    BY OnlyCommitsChange
  <2>2. QED
    BY <2>1, CommitChangesAsked
<1>2. OK <=> \A s \in DOMAIN leavesOf : \A i \in DOMAIN leavesOf[s] :
               leavesOf'[s][i] # leavesOf[s][i] =>
                 /\ s \in Named
                 /\ \E r \in Requests :
                      /\ In(r, updWorker.items)
                      /\ call[r].old = leavesOf[s][i]
                      /\ call[r].new = leavesOf'[s][i]
  BY DEF Asked
<1>3. QED
  BY <1>1, <1>2, StoreInvariance, PTL DEF Spec, OnlyRequestedChanges

-----------------------------------------------------------------------------
(* What remains when the counter may be unreadable.  Neither what the       *)
(* batches hold nor what the handlers do matters here.                     *)
DenseInv ==
  /\ latest \in 0..LastSeq
  /\ DOMAIN leavesOf \subseteq 1..LastSeq
  /\ NumbersDense
  /\ ins # Store!Idle => ins.seq \in 1..LastSeq
  /\ upd # Store!Idle => DOMAIN upd.raw \subseteq DOMAIN leavesOf

LEMMA InitDense == Init => DenseInv
<1> SUFFICES ASSUME Init
             PROVE  DenseInv
  OBVIOUS
<1>1. latest \in 0..LastSeq /\ DOMAIN leavesOf = 1..latest /\ DOMAIN rootOf = 1..latest
  BY InitInv DEF IInv, StoreInv
<1>2. LastSeq \in Nat /\ ins = Store!Idle /\ upd = Store!Idle
  BY Parameters DEF Init
<1>3. \A n \in 1..latest : 1..n \subseteq 1..latest
  BY <1>1, <1>2
<1>4. latest # 0 => latest \in 1..latest
  BY <1>1, <1>2
<1>5. 1..latest \subseteq 1..LastSeq
  BY <1>1, <1>2
<1>6. NumbersDense
  BY <1>1, <1>2, <1>3, <1>4 DEF NumbersDense, Store!NumbersDense
<1>7. QED
  BY <1>1, <1>2, <1>5, <1>6 DEF DenseInv

(* Adding the first number or the next one leaves no gap. *)
LEMMA InsertDense ==
  ASSUME DenseInv, Store!InsertWrite
  PROVE  DenseInv'
<1> DEFINE D == DOMAIN leavesOf
<1>1. /\ ins # Store!Idle /\ ins' = Store!Idle /\ upd' = upd /\ latest' = ins.seq
      /\ DOMAIN leavesOf' = D \cup {ins.seq} /\ DOMAIN rootOf' = DOMAIN rootOf \cup {ins.seq}
  BY DEF Store!InsertWrite, Store!Idle, Store!Put, Store!Over
<1>2. /\ latest \in 0..LastSeq /\ D \subseteq 1..LastSeq /\ LastSeq \in Nat
      /\ ins.seq \in 1..LastSeq /\ (ins.seq = 1 \/ ins.seq = latest + 1)
      /\ DOMAIN rootOf = D /\ (latest # 0 => latest \in D)
      /\ \A n \in D : 1..n \subseteq D
      /\ upd # Store!Idle => DOMAIN upd.raw \subseteq D
  BY <1>1, Parameters DEF DenseInv, NumbersDense, Store!NumbersDense
<1>3. 1..ins.seq \subseteq D \cup {ins.seq}
  <2>1. CASE ins.seq = 1
    BY <2>1
  <2>2. CASE ins.seq = latest + 1 /\ latest # 0
    <3>1. 1..latest \subseteq D
      BY <1>2, <2>2
    <3>2. QED
      BY <1>2, <2>2, <3>1
  <2>3. QED
    BY <1>2, <2>1, <2>2
<1>4. \A n \in D \cup {ins.seq} : 1..n \subseteq D \cup {ins.seq}
  BY <1>2, <1>3
<1>5. NumbersDense'
  BY <1>1, <1>2, <1>4 DEF NumbersDense, Store!NumbersDense
<1>6. QED
  BY <1>1, <1>2, <1>5 DEF DenseInv

LEMMA DenseStep ==
  ASSUME OverflowChecks, DenseInv, [Next]_vars
  PROVE  DenseInv'
<1>1. ASSUME UNCHANGED <<latest, rootOf, leavesOf, ins>>,
             upd' # Store!Idle => DOMAIN upd'.raw \subseteq DOMAIN leavesOf
      PROVE  DenseInv'
  BY <1>1 DEF DenseInv, NumbersDense, Store!NumbersDense
<1>2. ASSUME UNCHANGED <<latest, rootOf, leavesOf>>, ins' = Store!Idle, upd' \in {upd, Store!Idle}
      PROVE  DenseInv'
  BY <1>2 DEF DenseInv, NumbersDense, Store!NumbersDense
<1>3. CASE UNCHANGED Rocks!vars
  <2>1. UNCHANGED <<latest, rootOf, leavesOf, ins>> /\ upd' = upd
    BY <1>3 DEF Rocks!vars
  <2>2. QED
    BY <1>1, <2>1 DEF DenseInv
<1>4. CASE SubBegin
  <2>1. /\ UNCHANGED <<latest, rootOf, leavesOf, upd>>
        /\ \E n \in Store!LatestRead : n # LastSeq /\ ins'.seq = Store!NextSeq(n)
    BY <1>4 DEF SubBegin, Store!InsertBegin, Store!records
  <2>2. PICK n \in {latest, 0} : n # LastSeq /\ ins'.seq = Store!NextSeq(n)
    BY <2>1 DEF Store!LatestRead
  <2>3. n \in 0..LastSeq /\ LastSeq \in Nat
    BY <2>2, Parameters DEF DenseInv
  <2>4. ins'.seq = n + 1
    BY <2>2, <2>3 DEF Store!NextSeq
  <2>5. ins'.seq \in 1..LastSeq /\ (ins'.seq = 1 \/ ins'.seq = latest + 1)
    BY <2>2, <2>3, <2>4
  <2>6. QED
    BY <2>1, <2>5 DEF DenseInv, NumbersDense, Store!NumbersDense
<1>5. CASE SubCommit
  BY <1>5, InsertDense DEF SubCommit
<1>6. CASE SubStoreFails
  BY <1>2, <1>6 DEF SubStoreFails, Store!InsertFails, Store!records
<1>7. CASE SubReceive \/ SubPanics \/ SubReply
  BY <1>3, <1>7 DEF SubReceive, SubPanics, SubReply, store, records, Rocks!vars
<1>8. CASE UpdBegin
  BY <1>1, <1>8 DEF UpdBegin, Store!UpdateBegin, Store!records, Store!Empty
<1>9. ASSUME NEW s \in 0..LastSeq, UpdRead(s)
      PROVE  DenseInv'
  <2>1. /\ UNCHANGED <<latest, rootOf, leavesOf, ins>> /\ upd # Store!Idle
        /\ s \in DOMAIN leavesOf /\ DOMAIN upd'.raw = DOMAIN upd.raw \cup {s}
    BY <1>9 DEF UpdRead, Store!UpdateRead, Store!Readable, Store!Idle, Store!records, Store!Put,
                Store!Over
  <2>2. QED
    BY <1>1, <2>1 DEF DenseInv
<1>10. CASE UpdCommit
  <2>1. /\ UNCHANGED <<latest, rootOf, ins>> /\ upd # Store!Idle /\ upd' = Store!Idle
        /\ DOMAIN leavesOf' = DOMAIN upd.raw \cup DOMAIN leavesOf
    BY <1>10 DEF UpdCommit, Store!UpdateWrite, Store!Idle, Store!Over
  <2>2. DOMAIN leavesOf' = DOMAIN leavesOf
    BY <2>1 DEF DenseInv
  <2>3. QED
    BY <2>1, <2>2 DEF DenseInv, NumbersDense, Store!NumbersDense
<1>11. CASE UpdStoreFails
  BY <1>1, <1>11 DEF UpdStoreFails, Store!UpdateStops, Store!UpdateFails, Store!records
<1>12. CASE UpdReceive \/ UpdLoad \/ UpdLoadMisses \/ UpdLoadFails \/ UpdSkip \/ UpdReply
  BY <1>3, <1>12 DEF UpdReceive, UpdLoad, UpdLoadMisses, UpdLoadFails, UpdSkip, UpdReply, store,
                     records, Rocks!vars
<1>13. CASE Crash
  BY <1>2, <1>13 DEF Crash, records
<1>14. QED
  BY <1>3, <1>4, <1>5, <1>6, <1>7, <1>8, <1>9, <1>10, <1>11, <1>12, <1>13, OnlyWorkersUseStore
  DEF SubWorker, UpdWorker

(* Even when the counter is unreadable now and then, so that inserts use    *)
(* numbers again, no number is skipped, whatever else happens; only the     *)
(* overflow of the counter must be checked (rocks.rs:40-45).                *)
THEOREM NumbersStayDense ==
  ASSUME OverflowChecks
  PROVE  Spec => []NumbersDense
<1>1. DenseInv /\ [Next]_vars => DenseInv'
  BY DenseStep
<1>2. DenseInv => NumbersDense
  BY DEF DenseInv
<1>3. QED
  BY <1>1, <1>2, InitDense, PTL DEF Spec
=============================================================================
