-------------------------- MODULE RocksStoreProofs --------------------------
(***************************************************************************)
(* Theorems about RocksStore for every set of leaves, batches and changes,  *)
(* whatever reads of records and writes fail.                              *)
(***************************************************************************)
EXTENDS RocksStore, TLAPS

LEMMA OverDomain ==
  ASSUME NEW f, NEW g
  PROVE  /\ DOMAIN Over(f, g) = DOMAIN f \cup DOMAIN g
         /\ \A x \in DOMAIN f : Over(f, g)[x] = f[x]
         /\ \A x \in DOMAIN g \ DOMAIN f : Over(f, g)[x] = g[x]
  BY DEF Over

LEMMA OverIsPartial ==
  ASSUME NEW S, NEW T, NEW f, NEW g, IsPartial(f, S, T), IsPartial(g, S, T)
  PROVE  IsPartial(Over(f, g), S, T)
  BY DEF IsPartial, Over

LEMMA PutDomain ==
  ASSUME NEW k, NEW v, NEW g
  PROVE  /\ DOMAIN Put(k, v, g) = DOMAIN g \cup {k}
         /\ Put(k, v, g)[k] = v
         /\ \A j \in DOMAIN g \ {k} : Put(k, v, g)[j] = g[j]
  BY DEF Put, Over

LEMMA PutIsPartial ==
  ASSUME NEW S, NEW T, NEW k, NEW v, NEW g,
         k \in S, v \in T, IsPartial(g, S, T)
  PROVE  IsPartial(Put(k, v, g), S, T)
  BY DEF IsPartial, Put, Over

LEMMA WithoutDomain ==
  ASSUME NEW g, NEW D
  PROVE  /\ DOMAIN Without(g, D) = DOMAIN g \ D
         /\ \A j \in DOMAIN g \ D : Without(g, D)[j] = g[j]
  BY DEF Without, Restrict

LEMMA WithoutIsPartial ==
  ASSUME NEW S, NEW T, NEW g, NEW D, IsPartial(g, S, T)
  PROVE  IsPartial(Without(g, D), S, T)
  BY DEF IsPartial, Without, Restrict

LEMMA ReplaceKeepsShape ==
  ASSUME NEW b \in Vectors, NEW r,
         \A i \in DOMAIN r : r[i] \in Leaves
  PROVE  /\ Replace(b, r) \in Vectors
         /\ DOMAIN Replace(b, r) = DOMAIN b
<1>1. b \in Seq(Leaves) /\ b # <<>>
  BY DEF Vectors
<1>2. PICK n \in Nat : b \in [1..n -> Leaves] /\ n # 0
  BY <1>1, Len(b) \in Nat
<1>3. Replace(b, r) \in [1..n -> Leaves]
  BY <1>2 DEF Replace
<1>4. Replace(b, r) \in Seq(Leaves)
  BY <1>2, <1>3
<1>5. Replace(b, r) # <<>>
  BY <1>2, <1>3
<1>6. QED
  BY <1>2, <1>3, <1>4, <1>5 DEF Vectors

(* What the batches, changes and counters of the callers look like. *)
LEMMA Inputs ==
  /\ LastSeq \in Nat \ {0}
  /\ Batches \subseteq Vectors
  /\ None \notin Batches /\ None \notin Changes
  /\ \A c \in Changes : /\ DOMAIN c \subseteq 0..LastSeq
                        /\ \A s \in DOMAIN c : \A i \in DOMAIN c[s] : c[s][i] \in Leaves
  BY StoreAssumption DEF Vectors

LEMMA NextSeqInRange ==
  ASSUME NEW n \in 0..LastSeq
  PROVE  /\ NextSeq(n) \in 0..LastSeq
         /\ n # LastSeq => NextSeq(n) = n + 1
<1>1. LastSeq + 1 \in Nat \ {0} /\ n + 1 \in Nat
  BY Inputs
<1>2. (n + 1) % (LastSeq + 1) \in 0..LastSeq
  BY <1>1, Inputs
<1>3. n # LastSeq => (n + 1) % (LastSeq + 1) = n + 1
  BY <1>1, Inputs
<1>4. QED
  BY <1>2, <1>3 DEF NextSeq

-----------------------------------------------------------------------------
(* Type correctness. *)

LEMMA EmptyIsPartial ==
  ASSUME NEW S, NEW T
  PROVE  IsPartial(Empty, S, T) /\ DOMAIN Empty = {}
  BY DEF IsPartial, Empty

LEMMA InitType == Init => TypeOK
  BY Inputs, EmptyIsPartial
  DEF Init, TypeOK, RecordsTypeOK, InsertTypeOK, UpdateTypeOK

LEMMA InsertWriteType == TypeOK /\ InsertWrite => TypeOK'
<1> SUFFICES ASSUME TypeOK, InsertWrite
             PROVE  TypeOK'
  OBVIOUS
<1>1. /\ ins.seq \in 0..LastSeq
      /\ ins.root \in Roots
      /\ ins.leaves \in Vectors
      /\ Range(ins.leaves) \subseteq Leaves
  <2>1. ins # Idle
    BY DEF InsertWrite, Idle
  <2>2. ins.leaves \in Batches /\ ins.seq \in 0..LastSeq /\ ins.root \in Roots
    BY <2>1 DEF TypeOK, InsertTypeOK
  <2>3. ins.leaves \in Seq(Leaves)
    BY <2>2, Inputs DEF Vectors
  <2>4. QED
    BY <2>2, <2>3, Inputs DEF Range
<1>2. IsPartial(rootOf', 0..LastSeq, Roots)
  BY <1>1, PutIsPartial DEF TypeOK, RecordsTypeOK, InsertWrite
<1>3. IsPartial(leavesOf', 0..LastSeq, Vectors)
  BY <1>1, PutIsPartial DEF TypeOK, RecordsTypeOK, InsertWrite
<1>4. IsPartial(index', Leaves, 0..LastSeq)
  <2>1. IsPartial([x \in Range(ins.leaves) |-> ins.seq], Leaves, 0..LastSeq)
    BY <1>1 DEF IsPartial
  <2>2. QED
    BY <2>1, OverIsPartial DEF TypeOK, RecordsTypeOK, InsertWrite
<1>5. QED
  BY <1>1, <1>2, <1>3, <1>4
  DEF TypeOK, RecordsTypeOK, InsertTypeOK, UpdateTypeOK, InsertWrite

LEMMA UpdateReadType ==
  ASSUME TypeOK, NEW s \in 0..LastSeq, UpdateRead(s)
  PROVE  TypeOK'
<1> DEFINE b == leavesOf[s]
           r == upd.changes[s]
<1> HIDE DEF b, r
<1>1. /\ upd.phase = "read"
      /\ upd.changes \in Changes
      /\ upd.left \subseteq DOMAIN upd.changes
      /\ DOMAIN upd.raw = DOMAIN upd.changes \ upd.left
      /\ IsPartial(upd.raw, 0..LastSeq, Vectors)
      /\ IsPartial(upd.put, Leaves, 0..LastSeq)
      /\ upd.del \subseteq Leaves
  BY DEF TypeOK, UpdateTypeOK, UpdateRead, Idle
<1>2. s \in upd.left /\ b \in Vectors /\ DOMAIN r \subseteq DOMAIN b
  BY DEF TypeOK, RecordsTypeOK, UpdateRead, Readable, IsPartial, b, r
<1>3. \A i \in DOMAIN r : r[i] \in Leaves /\ b[i] \in Leaves
  <2>1. b \in Seq(Leaves)
    BY <1>2 DEF Vectors
  <2>2. QED
    BY <1>1, <1>2, <2>1, Inputs DEF r
<1>4. Touched(b, r) \subseteq Leaves /\ PutIn(b, r) \subseteq Leaves
  BY <1>3 DEF Touched, PutIn
<1>5. /\ IsPartial(upd'.raw, 0..LastSeq, Vectors)
      /\ DOMAIN upd'.raw = DOMAIN upd.raw \cup {s}
  <2>1. Replace(b, r) \in Vectors
    BY <1>2, <1>3, ReplaceKeepsShape
  <2>2. upd'.raw = Put(s, Replace(b, r), upd.raw)
    BY DEF UpdateRead, b, r
  <2>3. IsPartial(Put(s, Replace(b, r), upd.raw), 0..LastSeq, Vectors)
    BY <1>1, <2>1, PutIsPartial
  <2>4. DOMAIN Put(s, Replace(b, r), upd.raw) = DOMAIN upd.raw \cup {s}
    BY PutDomain
  <2>5. QED
    BY <2>2, <2>3, <2>4
<1>6. IsPartial(upd'.put, Leaves, 0..LastSeq)
  <2>1. upd'.put = Over([x \in PutIn(b, r) |-> s], Without(upd.put, Touched(b, r)))
    BY DEF UpdateRead, b, r
  <2>2. IsPartial([x \in PutIn(b, r) |-> s], Leaves, 0..LastSeq)
    BY <1>4 DEF IsPartial
  <2>3. IsPartial(Without(upd.put, Touched(b, r)), Leaves, 0..LastSeq)
    BY <1>1, WithoutIsPartial
  <2> DEFINE f == [x \in PutIn(b, r) |-> s]
             g == Without(upd.put, Touched(b, r))
  <2>4. IsPartial(f, Leaves, 0..LastSeq) /\ IsPartial(g, Leaves, 0..LastSeq)
    BY <2>2, <2>3
  <2> HIDE DEF f, g
  <2>5. IsPartial(Over(f, g), Leaves, 0..LastSeq)
    BY <2>4, OverIsPartial
  <2>6. QED
    BY <2>1, <2>5 DEF f, g
<1>7. upd'.del \subseteq Leaves
  BY <1>1, <1>4 DEF UpdateRead, b, r
<1>8. /\ upd'.phase = "read"
      /\ upd'.changes = upd.changes
      /\ upd'.left = upd.left \ {s}
  BY <1>1 DEF UpdateRead
<1>9. UpdateTypeOK'
  BY <1>1, <1>2, <1>5, <1>6, <1>7, <1>8 DEF UpdateTypeOK
<1>10. UNCHANGED <<records, ins>>
  BY DEF UpdateRead
<1>11. QED
  BY <1>9, <1>10 DEF TypeOK, RecordsTypeOK, InsertTypeOK, records

LEMMA UpdateWriteType == TypeOK /\ UpdateWrite => TypeOK'
<1> SUFFICES ASSUME TypeOK, UpdateWrite
             PROVE  TypeOK'
  OBVIOUS
<1>1. /\ IsPartial(upd.raw, 0..LastSeq, Vectors)
      /\ IsPartial(upd.put, Leaves, 0..LastSeq)
  BY DEF TypeOK, UpdateTypeOK, UpdateWrite, Idle
<1>2. IsPartial(leavesOf', 0..LastSeq, Vectors)
  BY <1>1, OverIsPartial DEF TypeOK, RecordsTypeOK, UpdateWrite
<1>3. IsPartial(index', Leaves, 0..LastSeq)
  <2>1. IsPartial(Without(index, upd.del), Leaves, 0..LastSeq)
    BY WithoutIsPartial DEF TypeOK, RecordsTypeOK
  <2>2. QED
    BY <1>1, <2>1, OverIsPartial DEF UpdateWrite
<1>4. QED
  BY <1>2, <1>3
  DEF TypeOK, RecordsTypeOK, InsertTypeOK, UpdateTypeOK, UpdateWrite

LEMMA InsertBeginType ==
  ASSUME TypeOK, NEW root \in Roots, NEW leaves \in Batches, InsertBegin(root, leaves)
  PROVE  TypeOK'
<1>1. PICK n \in LatestRead :
        ins' = [phase |-> "write", root |-> root, leaves |-> leaves, seq |-> NextSeq(n)]
  BY DEF InsertBegin
<1>2. NextSeq(n) \in 0..LastSeq
  <2>1. n \in 0..LastSeq
    BY Inputs DEF LatestRead, TypeOK, RecordsTypeOK
  <2>2. QED
    BY <2>1, NextSeqInRange
<1>3. InsertTypeOK'
  BY <1>1, <1>2 DEF InsertTypeOK
<1>4. UNCHANGED <<records, upd>>
  BY DEF InsertBegin
<1>5. QED
  BY <1>3, <1>4 DEF TypeOK, RecordsTypeOK, UpdateTypeOK, records

LEMMA UpdateBeginType ==
  ASSUME TypeOK, NEW c \in Changes, UpdateBegin(c)
  PROVE  TypeOK'
<1>1. UpdateTypeOK'
  BY EmptyIsPartial DEF UpdateBegin, UpdateTypeOK
<1>2. QED
  BY <1>1 DEF UpdateBegin, TypeOK, RecordsTypeOK, InsertTypeOK, records

LEMMA StepType == TypeOK /\ [Next]_vars => TypeOK'
<1> SUFFICES ASSUME TypeOK, [Next]_vars
             PROVE  TypeOK'
  OBVIOUS
<1> USE DEF TypeOK, RecordsTypeOK, InsertTypeOK, UpdateTypeOK, records
<1>1. CASE InsertFails
  BY <1>1 DEF InsertFails
<1>2. CASE UpdateStops
  BY <1>2 DEF UpdateStops
<1>3. CASE UpdateFails
  BY <1>3 DEF UpdateFails
<1>4. CASE UNCHANGED vars
  BY <1>4 DEF vars
<1>5. QED
  <2> HIDE DEF TypeOK
  <2>1. QED
    BY <1>1, <1>2, <1>3, <1>4, InsertBeginType, InsertWriteType, UpdateBeginType,
       UpdateReadType, UpdateWriteType
    DEF Next

(* Type correctness of the records, and of what each call holds between its *)
(* reads and its write (rocks_queries.rs:9-130), in every build and under   *)
(* every fault.                                                            *)
THEOREM TypeCorrect == Spec => []TypeOK
  BY InitType, StepType, PTL DEF Spec

-----------------------------------------------------------------------------
(* Numbering and the read-modify-write copies. *)

(* Sequence numbers are never reused if the counter can be read and its     *)
(* overflow is a panic.                                                    *)
CounterReliable == ~CounterFaults /\ OverflowChecks

(* The pending writes of an update agree with its copies: a leaf to put in  *)
(* the index is in the copy of its batch, and the old leaf of every slot    *)
(* already replaced is deleted or put again.                               *)
WritesSound ==
  upd # Idle =>
    /\ \A x \in DOMAIN upd.put :
         upd.put[x] \in DOMAIN upd.raw /\ x \in Range(upd.raw[upd.put[x]])
    /\ \A s \in DOMAIN upd.raw : \A i \in DOMAIN upd.changes[s] :
         leavesOf[s][i] \in upd.del \cup DOMAIN upd.put

IInv ==
  /\ TypeOK
  /\ NumbersAligned
  /\ CopiesCurrent
  /\ WritesSound
  /\ IndexSound

LEMMA InitInv == Init => IInv
<1> SUFFICES ASSUME Init
             PROVE  IInv
  OBVIOUS
<1>1. TypeOK
  BY InitType
<1>2. DOMAIN leavesOf = {} /\ DOMAIN rootOf = {} /\ DOMAIN index = {}
  BY EmptyIsPartial DEF Init
<1>3. 1..latest = {}
  BY DEF Init
<1>4. QED
  BY <1>1, <1>2, <1>3
  DEF Init, IInv, NumbersAligned, CopiesCurrent, WritesSound, IndexSound

(* A step that leaves the records and the update alone disturbs nothing but *)
(* what is said of the insert.                                             *)
LEMMA RecordsUnchanged ==
  ASSUME CopiesCurrent, WritesSound, IndexSound, UNCHANGED <<records, upd>>
  PROVE  CopiesCurrent' /\ WritesSound' /\ IndexSound'
  BY DEF CopiesCurrent, WritesSound, IndexSound, records, Replace, Range

LEMMA InsertBeginInv ==
  ASSUME CounterReliable, IInv, NEW root \in Roots, NEW leaves \in Batches,
         InsertBegin(root, leaves)
  PROVE  IInv'
<1>1. PICK n \in LatestRead :
        /\ ~(OverflowChecks /\ n = LastSeq)
        /\ ins' = [phase |-> "write", root |-> root, leaves |-> leaves, seq |-> NextSeq(n)]
  BY DEF InsertBegin
<1>2. n = latest /\ n # LastSeq /\ n \in 0..LastSeq
  BY <1>1 DEF CounterReliable, LatestRead, IInv, TypeOK, RecordsTypeOK
<1>3. ins'.seq = latest + 1
  BY <1>1, <1>2, NextSeqInRange
<1>4. NumbersAligned'
  BY <1>3 DEF IInv, NumbersAligned, InsertBegin, records
<1>5. TypeOK'
  BY InsertBeginType DEF IInv
<1>6. CopiesCurrent' /\ WritesSound' /\ IndexSound'
  BY RecordsUnchanged DEF IInv, InsertBegin
<1>7. QED
  BY <1>4, <1>5, <1>6 DEF IInv, InsertBegin, records

(* An insert adds a batch under a new number and leaves the others alone.   *)
LEMMA InsertWriteAdds ==
  ASSUME IInv, InsertWrite
  PROVE  /\ ins.seq = latest + 1
         /\ DOMAIN leavesOf' = DOMAIN leavesOf \cup {latest + 1}
         /\ DOMAIN leavesOf' = 1..latest'
         /\ DOMAIN rootOf' = 1..latest'
         /\ leavesOf'[latest + 1] = ins.leaves
         /\ \A s \in DOMAIN leavesOf : leavesOf'[s] = leavesOf[s]
<1>1. ins.seq = latest + 1 /\ latest \in Nat
  BY Inputs DEF IInv, TypeOK, RecordsTypeOK, NumbersAligned, InsertWrite, Idle
<1>2. /\ DOMAIN leavesOf = 1..latest
      /\ DOMAIN rootOf = 1..latest
  BY DEF IInv, NumbersAligned
<1>3. (1..latest) \cup {latest + 1} = 1..(latest + 1)
  BY <1>1
<1>4. /\ leavesOf' = Put(ins.seq, ins.leaves, leavesOf)
      /\ rootOf' = Put(ins.seq, ins.root, rootOf)
      /\ latest' = latest + 1
  BY <1>1 DEF InsertWrite
<1>5. /\ DOMAIN leavesOf' = DOMAIN leavesOf \cup {latest + 1}
      /\ DOMAIN rootOf' = DOMAIN rootOf \cup {latest + 1}
  BY <1>1, <1>4, PutDomain
<1>6. leavesOf'[latest + 1] = ins.leaves
  BY <1>1, <1>4 DEF Put, Over
<1>7. \A s \in DOMAIN leavesOf : leavesOf'[s] = leavesOf[s]
  <2>1. latest + 1 \notin DOMAIN leavesOf
    BY <1>1, <1>2
  <2>2. QED
    BY <1>1, <1>4, <2>1 DEF Put, Over
<1>8. QED
  BY <1>1, <1>2, <1>3, <1>4, <1>5, <1>6, <1>7

LEMMA InsertWriteInv == IInv /\ InsertWrite => IInv'
<1> SUFFICES ASSUME IInv, InsertWrite
             PROVE  IInv'
  OBVIOUS
<1>1. TypeOK'
  BY InsertWriteType DEF IInv
<1>2. NumbersAligned'
  BY InsertWriteAdds DEF NumbersAligned, InsertWrite
<1>3. CopiesCurrent'
  BY InsertWriteAdds DEF IInv, CopiesCurrent, InsertWrite
<1>4. WritesSound'
  <2>1. upd # Idle => \A s \in DOMAIN upd.raw : leavesOf'[s] = leavesOf[s]
    BY InsertWriteAdds DEF IInv, CopiesCurrent
  <2>2. upd' = upd
    BY DEF InsertWrite
  <2>3. QED
    BY <2>1, <2>2 DEF IInv, WritesSound
<1>5. IndexSound'
  <2> DEFINE new == [x \in Range(ins.leaves) |-> ins.seq]
  <2>1. index' = Over(new, index)
    BY DEF InsertWrite
  <2>2. ASSUME NEW x \in DOMAIN new
        PROVE  index'[x] \in DOMAIN leavesOf' /\ x \in Range(leavesOf'[index'[x]])
    <3>1. index'[x] = latest + 1
      BY <2>1, <2>2, InsertWriteAdds DEF Over
    <3>2. x \in Range(leavesOf'[latest + 1])
      BY <2>2, InsertWriteAdds
    <3>3. QED
      BY <3>1, <3>2, InsertWriteAdds
  <2>3. ASSUME NEW x \in DOMAIN index \ DOMAIN new
        PROVE  index'[x] \in DOMAIN leavesOf' /\ x \in Range(leavesOf'[index'[x]])
    <3>1. index'[x] = index[x]
      BY <2>1, <2>3 DEF Over
    <3>2. index[x] \in DOMAIN leavesOf /\ x \in Range(leavesOf[index[x]])
      BY <2>3 DEF IInv, IndexSound
    <3>3. QED
      BY <3>1, <3>2, InsertWriteAdds
  <2>4. DOMAIN index' = DOMAIN new \cup DOMAIN index
    BY <2>1, OverDomain
  <2>5. QED
    BY <2>2, <2>3, <2>4 DEF IndexSound
<1>6. QED
  BY <1>1, <1>2, <1>3, <1>4, <1>5 DEF IInv

LEMMA UpdateBeginInv ==
  ASSUME IInv, NEW c \in Changes, UpdateBegin(c)
  PROVE  IInv'
<1>1. TypeOK'
  BY UpdateBeginType DEF IInv
<1>2. DOMAIN upd'.raw = {} /\ DOMAIN upd'.put = {}
  BY EmptyIsPartial DEF UpdateBegin
<1>3. CopiesCurrent' /\ WritesSound'
  BY <1>2 DEF CopiesCurrent, WritesSound
<1>4. QED
  BY <1>1, <1>3
  DEF IInv, UpdateBegin, records, NumbersAligned, IndexSound, Range

LEMMA UpdateReadInv ==
  ASSUME IInv, NEW s \in 0..LastSeq, UpdateRead(s)
  PROVE  IInv'
<1> DEFINE b == leavesOf[s]
           r == upd.changes[s]
           raw == upd.raw
           put == upd.put
           puts == PutIn(b, r)
           touched == Touched(b, r)
<1>1. /\ s \in DOMAIN leavesOf
      /\ DOMAIN r \subseteq DOMAIN b
      /\ s \notin DOMAIN raw
      /\ upd # Idle
  BY DEF IInv, TypeOK, UpdateTypeOK, UpdateRead, Readable, Idle
<1>2. /\ upd'.raw = Put(s, Replace(b, r), raw)
      /\ upd'.put = Over([x \in puts |-> s], Without(put, touched))
      /\ upd'.del = (upd.del \ puts) \cup (touched \ puts)
      /\ upd'.changes = upd.changes
      /\ UNCHANGED <<records, ins>>
  BY DEF UpdateRead
<1>3. puts \subseteq touched
  BY DEF PutIn
<1>4. \A x \in puts : x \in Range(Replace(b, r))
  BY <1>1 DEF PutIn, Range, Replace
<1>5. \A i \in DOMAIN r : b[i] \in touched
  BY DEF Touched
<1>6. \A t \in DOMAIN raw : /\ t \in DOMAIN leavesOf
                            /\ raw[t] = Replace(leavesOf[t], upd.changes[t])
  BY <1>1 DEF IInv, CopiesCurrent
<1>7. \A x \in DOMAIN put : put[x] \in DOMAIN raw /\ x \in Range(raw[put[x]])
  BY <1>1 DEF IInv, WritesSound
<1>8. \A t \in DOMAIN raw : \A i \in DOMAIN upd.changes[t] :
        leavesOf[t][i] \in upd.del \cup DOMAIN put
  BY <1>1 DEF IInv, WritesSound
<1>9. /\ DOMAIN upd'.raw = DOMAIN raw \cup {s}
      /\ upd'.raw[s] = Replace(b, r)
      /\ \A t \in DOMAIN raw : upd'.raw[t] = raw[t]
  BY <1>1, <1>2 DEF Put, Over
<1>10. /\ DOMAIN upd'.put = puts \cup (DOMAIN put \ touched)
       /\ \A x \in puts : upd'.put[x] = s
       /\ \A x \in DOMAIN put \ touched : upd'.put[x] = put[x]
  BY <1>2, <1>3 DEF Over, Without, Restrict
<1>11. CopiesCurrent'
  BY <1>1, <1>2, <1>6, <1>9 DEF CopiesCurrent, records
<1>12. \A x \in DOMAIN upd'.put :
         upd'.put[x] \in DOMAIN upd'.raw /\ x \in Range(upd'.raw[upd'.put[x]])
  <2> HIDE DEF b, r, raw, put, puts, touched
  <2>1. ASSUME NEW x \in puts
        PROVE  upd'.put[x] \in DOMAIN upd'.raw /\ x \in Range(upd'.raw[upd'.put[x]])
    BY <1>4, <1>9, <1>10, <2>1
  <2>2. ASSUME NEW x \in DOMAIN put \ touched
        PROVE  upd'.put[x] \in DOMAIN upd'.raw /\ x \in Range(upd'.raw[upd'.put[x]])
    BY <1>7, <1>9, <1>10, <2>2
  <2>3. QED
    BY <1>10, <2>1, <2>2
<1>13. \A t \in DOMAIN upd'.raw : \A i \in DOMAIN upd.changes[t] :
         leavesOf[t][i] \in upd'.del \cup DOMAIN upd'.put
  <2> HIDE DEF raw, put, puts, touched
  <2>1. \A i \in DOMAIN upd.changes[s] : leavesOf[s][i] \in upd'.del \cup DOMAIN upd'.put
    BY <1>2, <1>5, <1>10 DEF b, r
  <2>2. ASSUME NEW t \in DOMAIN raw, NEW i \in DOMAIN upd.changes[t]
        PROVE  leavesOf[t][i] \in upd'.del \cup DOMAIN upd'.put
    BY <1>2, <1>3, <1>8, <1>10, <2>2
  <2>3. QED
    BY <1>9, <2>1, <2>2
<1>14. WritesSound'
  BY <1>2, <1>12, <1>13 DEF WritesSound, records
<1>15. TypeOK'
  BY UpdateReadType DEF IInv
<1>16. NumbersAligned' /\ IndexSound'
  BY <1>2 DEF IInv, NumbersAligned, IndexSound, records
<1>17. QED
  BY <1>11, <1>14, <1>15, <1>16 DEF IInv

(* Every copy overwrites the batch it was made of, and no other batch.      *)
LEMMA UpdateWriteOverwrites ==
  ASSUME IInv, UpdateWrite
  PROVE  /\ DOMAIN leavesOf' = DOMAIN leavesOf
         /\ \A s \in DOMAIN upd.raw : leavesOf'[s] = upd.raw[s]
         /\ \A s \in DOMAIN leavesOf \ DOMAIN upd.raw : leavesOf'[s] = leavesOf[s]
         /\ \A s \in DOMAIN upd.raw : /\ s \in DOMAIN leavesOf
                                      /\ upd.raw[s] = Replace(leavesOf[s], upd.changes[s])
<1>1. leavesOf' = Over(upd.raw, leavesOf) /\ upd # Idle
  BY DEF UpdateWrite, Idle
<1>2. \A s \in DOMAIN upd.raw : /\ s \in DOMAIN leavesOf
                               /\ upd.raw[s] = Replace(leavesOf[s], upd.changes[s])
  BY <1>1 DEF IInv, CopiesCurrent
<1>3. QED
  BY <1>1, <1>2 DEF Over

LEMMA UpdateWriteInv == IInv /\ UpdateWrite => IInv'
<1> SUFFICES ASSUME IInv, UpdateWrite
             PROVE  IInv'
  OBVIOUS
<1> DEFINE raw == upd.raw
           put == upd.put
           del == upd.del
<1>1. TypeOK'
  BY UpdateWriteType DEF IInv
<1>2. NumbersAligned'
  BY UpdateWriteOverwrites DEF IInv, NumbersAligned, UpdateWrite
<1>3. CopiesCurrent' /\ WritesSound'
  BY DEF CopiesCurrent, WritesSound, UpdateWrite
<1>4. /\ DOMAIN index' = DOMAIN put \cup (DOMAIN index \ del)
      /\ \A x \in DOMAIN put : index'[x] = put[x]
      /\ \A x \in (DOMAIN index \ del) \ DOMAIN put : index'[x] = index[x]
  BY DEF UpdateWrite, Over, Without, Restrict
<1>5. ASSUME NEW x \in DOMAIN put
      PROVE  index'[x] \in DOMAIN leavesOf' /\ x \in Range(leavesOf'[index'[x]])
  <2>1. put[x] \in DOMAIN raw /\ x \in Range(raw[put[x]])
    BY <1>5 DEF IInv, WritesSound, UpdateWrite, Idle
  <2>2. leavesOf'[put[x]] = raw[put[x]] /\ put[x] \in DOMAIN leavesOf'
    BY <2>1, UpdateWriteOverwrites
  <2>3. index'[x] = put[x]
    BY <1>4, <1>5
  <2>4. QED
    BY <2>1, <2>2, <2>3
<1>6. ASSUME NEW x \in (DOMAIN index \ del) \ DOMAIN put
      PROVE  index'[x] \in DOMAIN leavesOf' /\ x \in Range(leavesOf'[index'[x]])
  <2> DEFINE t == index[x]
  <2>1. index'[x] = t
    BY <1>4, <1>6
  <2>2. t \in DOMAIN leavesOf /\ x \in Range(leavesOf[t])
    BY <1>6 DEF IInv, IndexSound
  <2> HIDE DEF t
  <2>3. PICK i \in DOMAIN leavesOf[t] : x = leavesOf[t][i]
    BY <2>2 DEF Range
  <2>4. CASE t \in DOMAIN raw
    <3>1. i \notin DOMAIN upd.changes[t]
      BY <1>6, <2>3, <2>4 DEF IInv, WritesSound, UpdateWrite, Idle
    <3>2. leavesOf'[t] = Replace(leavesOf[t], upd.changes[t])
      BY <2>4, UpdateWriteOverwrites
    <3>3. x \in Range(Replace(leavesOf[t], upd.changes[t]))
      BY <2>3, <3>1 DEF Range, Replace
    <3>4. QED
      BY <2>1, <2>2, <3>2, <3>3, UpdateWriteOverwrites
  <2>5. CASE t \notin DOMAIN raw
    BY <2>1, <2>2, <2>5, UpdateWriteOverwrites
  <2>6. QED
    BY <2>4, <2>5
<1>7. IndexSound'
  BY <1>4, <1>5, <1>6 DEF IndexSound
<1>8. QED
  BY <1>1, <1>2, <1>3, <1>7 DEF IInv

LEMMA StepInv == CounterReliable /\ IInv /\ [Next]_vars => IInv'
<1> SUFFICES ASSUME CounterReliable, IInv, [Next]_vars
             PROVE  IInv'
  OBVIOUS
<1>1. TypeOK'
  BY StepType DEF IInv
<1>2. ASSUME UNCHANGED <<records, upd>>, ins' = ins \/ ins' = Idle
      PROVE  IInv'
  <2>1. CopiesCurrent' /\ WritesSound' /\ IndexSound'
    BY <1>2, RecordsUnchanged DEF IInv
  <2>2. NumbersAligned'
    BY <1>2 DEF IInv, NumbersAligned, records
  <2>3. QED
    BY <1>1, <2>1, <2>2 DEF IInv
<1>3. ASSUME upd' = Idle, UNCHANGED <<records, ins>>
      PROVE  IInv'
  BY <1>1, <1>3
  DEF IInv, NumbersAligned, CopiesCurrent, WritesSound, IndexSound, records
<1>4. CASE InsertFails
  BY <1>2, <1>4 DEF InsertFails
<1>5. CASE UpdateStops
  BY <1>3, <1>5 DEF UpdateStops
<1>6. CASE UpdateFails
  BY <1>3, <1>6 DEF UpdateFails
<1>7. CASE UNCHANGED vars
  BY <1>2, <1>7 DEF vars, records
<1>8. QED
  BY <1>4, <1>5, <1>6, <1>7, InsertBeginInv, InsertWriteInv,
     UpdateBeginInv, UpdateReadInv, UpdateWriteInv
  DEF Next

LEMMA Invariance == ASSUME CounterReliable PROVE Spec => []IInv
<1>1. IInv /\ [Next]_vars => IInv'
  BY StepInv
<1>2. QED
  BY <1>1, InitInv, PTL DEF Spec

(* The numbers insert hands out are 1, 2, 3, ... without gap or repetition, *)
(* and root and leaves of a batch exist together (rocks_queries.rs:14-26).  *)
THEOREM NumbersStayAligned ==
  ASSUME CounterReliable PROVE Spec => []NumbersAligned
<1>1. IInv => NumbersAligned
  BY DEF IInv
<1>2. QED
  BY <1>1, Invariance, PTL

(* No update overwrites a batch with a stale copy, although its reads and   *)
(* its write are not under a lock (rocks_queries.rs:99-128).               *)
THEOREM CopiesStayCurrent ==
  ASSUME CounterReliable PROVE Spec => []CopiesCurrent
<1>1. IInv => CopiesCurrent
  BY DEF IInv
<1>2. QED
  BY <1>1, Invariance, PTL

(* An index record always names a batch that holds its leaf, whatever the   *)
(* order in which the batches of an update are visited and whichever of its *)
(* leaves it moves between slots and batches (rocks_queries.rs:95-126).     *)
THEOREM IndexStaysSound ==
  ASSUME CounterReliable PROVE Spec => []IndexSound
<1>1. IInv => IndexSound
  BY DEF IInv
<1>2. QED
  BY <1>1, Invariance, PTL

-----------------------------------------------------------------------------
(* The promise of LeafStore. *)

LEMMA InitPromise == Init => Promise!Init
<1> SUFFICES ASSUME Init
             PROVE  Promise!Init
  OBVIOUS
<1>1. leavesOf = <<>>
  BY DEF Init, Empty
<1>2. QED
  BY <1>1 DEF Init, Promise!Init, Idle

(* The leaf vectors, numbered from one, are a sequence. *)
LEMMA LeavesAreSequence ==
  ASSUME IInv
  PROVE  leavesOf \in Seq(Vectors) /\ Len(leavesOf) = latest
<1>1. leavesOf \in [1..latest -> Vectors] /\ latest \in Nat
  BY Inputs DEF IInv, NumbersAligned, TypeOK, RecordsTypeOK, IsPartial
<1>2. QED
  BY <1>1

LEMMA ServedCalls ==
  ASSUME TypeOK
  PROVE  /\ ins # Idle => ins.leaves # None /\ ins.leaves \in Batches
         /\ upd # Idle => upd.changes # None /\ upd.changes \in Changes
  BY Inputs DEF TypeOK, InsertTypeOK, UpdateTypeOK

LEMMA InsertKeepsPromise == IInv /\ InsertWrite => Promise!Insert
<1> SUFFICES ASSUME IInv, InsertWrite
             PROVE  Promise!Insert
  OBVIOUS
<1>1. ins # Idle /\ ins' = Idle /\ upd' = upd
  BY DEF InsertWrite, Idle
<1> DEFINE new == ins.leaves
<1>2. new # None /\ new \in Vectors
  BY <1>1, ServedCalls, Inputs DEF IInv
<1>3. leavesOf' = Append(leavesOf, new)
  <2>1. leavesOf \in Seq(Vectors) /\ Len(leavesOf) = latest /\ latest \in Nat
    BY LeavesAreSequence
  <2>2. leavesOf' \in Seq(Vectors) /\ Len(leavesOf') = latest + 1
    <3>1. leavesOf' \in [1..(latest + 1) -> Vectors]
      BY <2>1, InsertWriteAdds, InsertWriteType
      DEF InsertWrite, IInv, TypeOK, RecordsTypeOK, IsPartial
    <3>2. QED
      BY <2>1, <3>1
  <2>3. /\ \A s \in 1..latest : leavesOf'[s] = leavesOf[s]
        /\ leavesOf'[latest + 1] = new
    BY <2>1, InsertWriteAdds
  <2> HIDE DEF new
  <2>4. QED
    BY <1>2, <2>1, <2>2, <2>3
<1>4. QED
  BY <1>1, <1>2, <1>3 DEF Promise!Insert

LEMMA UpdateKeepsPromise == IInv /\ UpdateWrite => Promise!Update
<1> SUFFICES ASSUME IInv, UpdateWrite
             PROVE  Promise!Update
  OBVIOUS
<1>1. upd # Idle /\ upd' = Idle /\ ins' = ins
  BY DEF UpdateWrite, Idle
<1> DEFINE changes == upd.changes
<1>2. changes # None /\ DOMAIN upd.raw = DOMAIN changes
  BY <1>1, ServedCalls DEF IInv, TypeOK, UpdateTypeOK, UpdateWrite
<1>3. DOMAIN changes \subseteq DOMAIN leavesOf
  BY <1>2, UpdateWriteOverwrites
<1>4. leavesOf' = [s \in DOMAIN leavesOf |->
                     IF s \in DOMAIN changes
                       THEN Promise!Replace(leavesOf[s], changes[s])
                       ELSE leavesOf[s]]
  <2>1. leavesOf' = [s \in DOMAIN leavesOf' |-> leavesOf'[s]]
    BY DEF UpdateWrite, Over
  <2>2. \A s \in DOMAIN leavesOf :
          leavesOf'[s] = IF s \in DOMAIN changes
                           THEN Replace(leavesOf[s], changes[s])
                           ELSE leavesOf[s]
    BY <1>2, UpdateWriteOverwrites
  <2>3. \A s \in DOMAIN leavesOf :
          Replace(leavesOf[s], changes[s]) = Promise!Replace(leavesOf[s], changes[s])
    BY DEF Replace, Promise!Replace
  <2>4. QED
    BY <2>1, <2>2, <2>3, UpdateWriteOverwrites
<1>5. QED
  BY <1>1, <1>2, <1>3, <1>4 DEF Promise!Update

LEMMA StepPromise == IInv /\ IInv' /\ [Next]_vars => [Promise!Next]_(Promise!vars)
<1> SUFFICES ASSUME IInv, IInv', [Next]_vars
             PROVE  Promise!Next \/ UNCHANGED Promise!vars
  OBVIOUS
<1>1. TypeOK
  BY DEF IInv
<1>2. ASSUME NEW root \in Roots, NEW leaves \in Batches, InsertBegin(root, leaves)
      PROVE  Promise!Next
  <2>1. ins' # Idle /\ ins'.leaves = leaves
    BY <1>2 DEF InsertBegin, Idle
  <2>2. Promise!CallInsert(leaves)
    BY <1>2, <2>1 DEF InsertBegin, Promise!CallInsert, records
  <2>3. QED
    BY <2>2 DEF Promise!Next
<1>3. CASE InsertWrite
  BY <1>3, InsertKeepsPromise DEF Promise!Next
<1>4. CASE InsertFails
  <2>1. ins # Idle
    BY <1>4 DEF InsertFails, Idle
  <2>2. Promise!InsertFails
    BY <1>1, <1>4, <2>1, ServedCalls DEF InsertFails, Promise!InsertFails, records
  <2>3. QED
    BY <2>2 DEF Promise!Next
<1>5. ASSUME NEW c \in Changes, UpdateBegin(c)
      PROVE  Promise!Next
  <2>1. upd' # Idle /\ upd'.changes = c
    BY <1>5 DEF UpdateBegin, Idle
  <2>2. Promise!CallUpdate(c)
    BY <1>5, <2>1 DEF UpdateBegin, Promise!CallUpdate, records
  <2>3. QED
    BY <2>2 DEF Promise!Next
<1>6. ASSUME NEW s \in 0..LastSeq, UpdateRead(s)
      PROVE  UNCHANGED Promise!vars
  <2>1. upd # Idle /\ upd' # Idle /\ upd'.changes = upd.changes
    BY <1>6 DEF UpdateRead, Idle
  <2>2. QED
    <3>1. UNCHANGED <<leavesOf, ins>>
      BY <1>6 DEF UpdateRead, records
    <3>2. (IF upd = Idle THEN None ELSE upd.changes)'
            = IF upd = Idle THEN None ELSE upd.changes
      BY <2>1
    <3>3. QED
      BY <3>1, <3>2 DEF Promise!vars
<1>7. CASE UpdateStops \/ UpdateFails
  <2>1. upd # Idle /\ upd' = Idle /\ UNCHANGED <<records, ins>>
    BY <1>7 DEF UpdateStops, UpdateFails, Idle
  <2>2. Promise!UpdateFails
    BY <1>1, <2>1, ServedCalls DEF Promise!UpdateFails, records
  <2>3. QED
    BY <2>2 DEF Promise!Next
<1>8. CASE UpdateWrite
  BY <1>8, UpdateKeepsPromise DEF Promise!Next
<1>9. CASE UNCHANGED vars
  BY <1>9 DEF vars, Promise!vars
<1>10. QED
  BY <1>2, <1>3, <1>4, <1>5, <1>6, <1>7, <1>8, <1>9 DEF Next

(* Each call of insert and of update_leaves_by_indices takes effect at one  *)
(* point, on the content of the store at that point, or not at all: what    *)
(* runs between the reads and the write of a call is never undone or        *)
(* overlooked by it (rocks_queries.rs:9-130).                              *)
THEOREM StorePromise == ASSUME CounterReliable PROVE Spec => PromiseSpec
  BY InitPromise, StepPromise, Invariance, PTL DEF Spec, PromiseSpec, Promise!Spec

-----------------------------------------------------------------------------
(* The numbers when the counter may be unreadable.  Batches never go away,  *)
(* so whatever an update has read is still there when it writes.            *)

DenseInv ==
  /\ TypeOK
  /\ NumbersDense
  /\ upd # Idle => DOMAIN upd.raw \subseteq DOMAIN leavesOf

LEMMA InitDense == Init => DenseInv
<1> SUFFICES ASSUME Init
             PROVE  DenseInv
  OBVIOUS
<1>1. DOMAIN leavesOf = {} /\ DOMAIN rootOf = {}
  BY EmptyIsPartial DEF Init
<1>2. QED
  BY <1>1, InitType DEF Init, DenseInv, NumbersDense

LEMMA InsertWriteDense ==
  ASSUME DenseInv, InsertWrite
  PROVE  NumbersDense' /\ DOMAIN leavesOf \subseteq DOMAIN leavesOf'
<1> DEFINE n == ins.seq
<1>1. ins # Idle /\ (n = 1 \/ n = latest + 1)
  BY DEF InsertWrite, Idle, DenseInv, NumbersDense
<1>2. latest \in Nat /\ LastSeq \in Nat /\ DOMAIN leavesOf \subseteq 0..LastSeq
  BY Inputs DEF DenseInv, TypeOK, RecordsTypeOK, IsPartial
<1>3. DOMAIN leavesOf' = DOMAIN leavesOf \cup {n} /\ DOMAIN rootOf' = DOMAIN leavesOf \cup {n}
  <2>1. DOMAIN rootOf = DOMAIN leavesOf
    BY DEF DenseInv, NumbersDense
  <2>2. leavesOf' = Put(n, ins.leaves, leavesOf) /\ rootOf' = Put(n, ins.root, rootOf)
    BY DEF InsertWrite
  <2>3. QED
    BY <2>1, <2>2 DEF Put, Over
<1>4. latest' = n /\ ins' = Idle
  BY DEF InsertWrite
<1>5. 1..n \subseteq DOMAIN leavesOf'
  <2>1. CASE n = 1
    BY <1>3, <2>1
  <2>2. CASE n = latest + 1
    <3>1. 1..latest \subseteq DOMAIN leavesOf
      <4>1. CASE latest = 0
        BY <4>1
      <4>2. CASE latest # 0
        BY <4>2 DEF DenseInv, NumbersDense
      <4>3. QED
        BY <4>1, <4>2
    <3>2. 1..n = 1..latest \cup {n}
      BY <1>2, <2>2
    <3>3. QED
      BY <1>3, <3>1, <3>2
  <2>3. QED
    BY <1>1, <2>1, <2>2
<1>6. \A m \in DOMAIN leavesOf' : 1..m \subseteq DOMAIN leavesOf'
  BY <1>3, <1>5 DEF DenseInv, NumbersDense
<1>7. QED
  BY <1>3, <1>4, <1>6 DEF NumbersDense

LEMMA StepDense ==
  ASSUME OverflowChecks, DenseInv, [Next]_vars
  PROVE  DenseInv'
<1>1. TypeOK'
  BY StepType DEF DenseInv
<1>2. ASSUME UNCHANGED <<records, upd>>, ins' = ins \/ ins' = Idle
      PROVE  DenseInv'
  BY <1>1, <1>2 DEF DenseInv, NumbersDense, records
<1>3. ASSUME UNCHANGED <<records, ins>>,
             upd' # Idle => DOMAIN upd'.raw \subseteq DOMAIN leavesOf
      PROVE  DenseInv'
  BY <1>1, <1>3 DEF DenseInv, NumbersDense, records
<1>4. ASSUME NEW root \in Roots, NEW leaves \in Batches, InsertBegin(root, leaves)
      PROVE  DenseInv'
  <2>1. PICK n \in LatestRead :
          /\ n # LastSeq
          /\ ins' = [phase |-> "write", root |-> root, leaves |-> leaves, seq |-> NextSeq(n)]
    BY <1>4 DEF InsertBegin
  <2>2. n \in 0..LastSeq /\ (n = latest \/ n = 0)
    BY Inputs DEF LatestRead, DenseInv, TypeOK, RecordsTypeOK
  <2>3. ins'.seq = 1 \/ ins'.seq = latest + 1
    BY <2>1, <2>2, NextSeqInRange
  <2>4. QED
    BY <1>1, <1>4, <2>3 DEF DenseInv, NumbersDense, InsertBegin, records
<1>5. CASE InsertWrite
  BY <1>1, <1>5, InsertWriteDense DEF DenseInv, InsertWrite
<1>6. CASE InsertFails
  BY <1>2, <1>6 DEF InsertFails
<1>7. ASSUME NEW c \in Changes, UpdateBegin(c)
      PROVE  DenseInv'
  BY <1>3, <1>7, EmptyIsPartial DEF UpdateBegin
<1>8. ASSUME NEW s \in 0..LastSeq, UpdateRead(s)
      PROVE  DenseInv'
  <2>1. upd # Idle /\ s \in DOMAIN leavesOf
    BY <1>8 DEF UpdateRead, Readable, Idle
  <2>2. DOMAIN upd'.raw = DOMAIN upd.raw \cup {s}
    <3>1. upd'.raw = Put(s, Replace(leavesOf[s], upd.changes[s]), upd.raw)
      BY <1>8 DEF UpdateRead
    <3>2. QED
      BY <3>1 DEF Put, Over
  <2>3. QED
    BY <1>3, <1>8, <2>1, <2>2 DEF UpdateRead, DenseInv
<1>9. CASE UpdateStops
  BY <1>3, <1>9 DEF UpdateStops
<1>10. CASE UpdateWrite
  <2>1. upd # Idle
    BY <1>10 DEF UpdateWrite, Idle
  <2>2. DOMAIN leavesOf' = DOMAIN leavesOf
    BY <1>10, <2>1, OverDomain DEF UpdateWrite, DenseInv
  <2>3. QED
    BY <1>1, <1>10, <2>2 DEF UpdateWrite, DenseInv, NumbersDense
<1>11. CASE UpdateFails
  BY <1>3, <1>11 DEF UpdateFails
<1>12. CASE UNCHANGED vars
  BY <1>2, <1>12 DEF vars, records
<1>13. QED
  BY <1>4, <1>5, <1>6, <1>7, <1>8, <1>9, <1>10, <1>11, <1>12 DEF Next

(* With overflow checks but a counter that may be unreadable, numbers are    *)
(* used again but none is skipped, and the counter never runs ahead of the  *)
(* batches (rocks.rs:40-45, rocks_queries.rs:14-26).                        *)
THEOREM NumbersStayDense ==
  ASSUME OverflowChecks PROVE Spec => []NumbersDense
<1>1. DenseInv /\ [Next]_vars => DenseInv'
  BY StepDense
<1>2. DenseInv => NumbersDense
  BY DEF DenseInv
<1>3. QED
  BY <1>1, <1>2, InitDense, PTL DEF Spec
=============================================================================
