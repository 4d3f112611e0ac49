--------------------------- MODULE LeafIndexProofs ---------------------------
(***************************************************************************)
(* Theorems about LeafIndex: lookups beside inserts and updates, for every  *)
(* set of leaves, batches and changes.                                     *)
(***************************************************************************)
EXTENDS LeafIndex, RocksStoreProofs

(* Lookups change no record: every step is one of the store or a stutter of *)
(* it, so the invariant of the store carries over.                         *)
LEMMA IndexStepIsStoreStep == [IndexNext]_indexVars => [Next]_vars
  BY DEF IndexNext, indexVars, Next, LookupIndex, LookupLeaves

LookupInv == IInv /\ LookupNeverDangles

LEMMA InitLookup == IndexInit => LookupInv
  BY InitInv DEF IndexInit, LookupInv, LookupNeverDangles

(* Batches are added and rewritten, never removed.                         *)
LEMMA BatchesStay ==
  ASSUME IInv, IInv', [Next]_vars
  PROVE  DOMAIN leavesOf \subseteq DOMAIN leavesOf'
<1>1. ASSUME leavesOf' = leavesOf
      PROVE  DOMAIN leavesOf \subseteq DOMAIN leavesOf'
  BY <1>1
<1>2. CASE InsertWrite
  BY <1>2 DEF InsertWrite, Put, Over
<1>3. CASE UpdateWrite
  BY <1>3 DEF UpdateWrite, Over
<1>4. CASE UNCHANGED vars
  BY <1>1, <1>4 DEF vars
<1>5. QED
  BY <1>1, <1>2, <1>3, <1>4
  DEF Next, records, InsertBegin, InsertFails, UpdateBegin, UpdateRead, UpdateStops, UpdateFails

LEMMA StepLookup == CounterReliable /\ LookupInv /\ [IndexNext]_indexVars => LookupInv'
<1> SUFFICES ASSUME CounterReliable, LookupInv, [IndexNext]_indexVars
             PROVE  LookupInv'
  OBVIOUS
<1>1. [Next]_vars
  BY IndexStepIsStoreStep
<1>2. IInv'
  BY <1>1, StepInv DEF LookupInv
<1>3. DOMAIN leavesOf \subseteq DOMAIN leavesOf'
  BY <1>1, <1>2, BatchesStay DEF LookupInv
<1>4. LookupNeverDangles'
  <2>1. ASSUME NEW x \in Leaves, LookupIndex(x)
        PROVE  LookupNeverDangles'
    <3>1. index[x] \in DOMAIN leavesOf
      BY <2>1 DEF LookupIndex, LookupInv, IInv, IndexSound
    <3>2. QED
      BY <1>3, <2>1, <3>1 DEF LookupIndex, LookupNeverDangles
  <2>2. CASE LookupLeaves
    BY <2>2 DEF LookupLeaves, LookupNeverDangles
  <2>3. CASE look' = look
    BY <1>3, <2>3 DEF LookupInv, LookupNeverDangles
  <2>4. QED
    BY <2>1, <2>2, <2>3 DEF IndexNext, indexVars
<1>5. QED
  BY <1>2, <1>4 DEF LookupInv

(* Between its two reads get_by_leaf never loses the batch that the index    *)
(* sent it to, whatever is inserted or updated meanwhile                    *)
(* (rocks_queries.rs:35-45).                                               *)
THEOREM LookupsNeverDangle ==
  ASSUME CounterReliable PROVE IndexSpec => []LookupNeverDangles
<1>1. LookupInv /\ [IndexNext]_indexVars => LookupInv'
  BY StepLookup
<1>2. LookupInv => LookupNeverDangles
  BY DEF LookupInv
<1>3. QED
  BY <1>1, <1>2, InitLookup, PTL DEF IndexSpec

(* The index stays sound beside lookups too, and with it every answer of     *)
(* get_by_leaf is a batch that held the leaf when the index was read.       *)
THEOREM IndexSoundBesideLookups ==
  ASSUME CounterReliable PROVE IndexSpec => []IndexSound
<1>1. LookupInv /\ [IndexNext]_indexVars => LookupInv'
  BY StepLookup
<1>2. LookupInv => IndexSound
  BY DEF LookupInv, IInv
<1>3. QED
  BY <1>1, <1>2, InitLookup, PTL DEF IndexSpec

-----------------------------------------------------------------------------
(* SingleLeavesFound.  Every leaf of a slot has been seen, and one that is   *)
(* in two slots was written twice.                                         *)

SlotsSeen ==
  \A s \in DOMAIN leavesOf : \A i \in DOMAIN leavesOf[s] : leavesOf[s][i] \in seen

SharedAreTwice ==
  \A s, t \in DOMAIN leavesOf : \A i \in DOMAIN leavesOf[s], j \in DOMAIN leavesOf[t] :
    (s # t \/ i # j) /\ leavesOf[s][i] = leavesOf[t][j] => leavesOf[s][i] \in twice

(* An update deletes the records of leaves that it replaces, and what it     *)
(* writes to a slot it puts into the index or, if a later slot held it,     *)
(* deletes.                                                                *)
DeletesJustified ==
  upd # Idle =>
    /\ \A x \in upd.del : \E s \in DOMAIN upd.raw : \E i \in DOMAIN upd.changes[s] :
         i \in DOMAIN leavesOf[s] /\ leavesOf[s][i] = x
    /\ \A s \in DOMAIN upd.raw : \A i \in DOMAIN upd.changes[s] :
         i \in DOMAIN leavesOf[s] /\ upd.changes[s][i] \in upd.del \cup DOMAIN upd.put

LeavesFound == SlotsSeen /\ SharedAreTwice /\ DeletesJustified /\ SingleLeavesFound
FoundInv == IInv /\ LeavesFound

LEMMA InitFound == IndexInit => FoundInv
<1> SUFFICES ASSUME IndexInit
             PROVE  FoundInv
  OBVIOUS
<1>1. DOMAIN leavesOf = {}
  BY EmptyIsPartial DEF IndexInit, Init
<1>2. QED
  BY <1>1, InitInv
  DEF IndexInit, Init, FoundInv, LeavesFound, SlotsSeen, SharedAreTwice, DeletesJustified, SingleLeavesFound

LEMMA InsertWriteFound ==
  ASSUME FoundInv, InsertWrite, Note(InsertedSlots)
  PROVE  LeavesFound'
<1> DEFINE n == ins.seq
           b == ins.leaves
<1>1. /\ n \notin DOMAIN leavesOf
      /\ leavesOf' = Put(n, b, leavesOf)
      /\ index' = Over([x \in Range(b) |-> n], index)
      /\ upd' = upd
  <2>1. ins # Idle
    BY DEF InsertWrite, Idle
  <2>2. n = latest + 1 /\ DOMAIN leavesOf = 1..latest /\ latest \in Nat
    BY <2>1, Inputs DEF FoundInv, LeavesFound, IInv, NumbersAligned, TypeOK, RecordsTypeOK
  <2>3. QED
    BY <2>2 DEF InsertWrite
<1> DEFINE written == InsertedSlots
<1>2. /\ \A i \in DOMAIN b : <<n, i>> \in DOMAIN written /\ written[<<n, i>>] = b[i]
      /\ \A k \in DOMAIN written : \E i \in DOMAIN b : written[k] = b[i]
  BY DEF InsertedSlots
<1>3. /\ seen' = seen \cup Range(written)
      /\ twice' = twice \cup (seen \cap Range(written)) \cup Repeated(written)
  BY DEF Note
<1> HIDE DEF n, b, written
<1>4. /\ DOMAIN leavesOf' = DOMAIN leavesOf \cup {n} /\ leavesOf'[n] = b
      /\ \A s \in DOMAIN leavesOf : leavesOf'[s] = leavesOf[s]
  BY <1>1 DEF Put, Over
<1>5. \A i \in DOMAIN b : b[i] \in Range(written)
  BY <1>2 DEF Range
<1>6. SlotsSeen'
  BY <1>3, <1>4, <1>5 DEF SlotsSeen, FoundInv, LeavesFound
<1>7. ASSUME NEW i \in DOMAIN b, NEW j \in DOMAIN b, i # j, b[i] = b[j]
      PROVE  b[i] \in twice'
  <2>1. <<n, i>> # <<n, j>>
    BY <1>7
  <2>2. b[i] \in Repeated(written)
    BY <1>2, <1>5, <1>7, <2>1 DEF Repeated
  <2>3. QED
    BY <1>3, <2>2
<1>8. SharedAreTwice'
  <2> SUFFICES ASSUME NEW s \in DOMAIN leavesOf', NEW t \in DOMAIN leavesOf',
                      NEW i \in DOMAIN leavesOf'[s], NEW j \in DOMAIN leavesOf'[t],
                      s # t \/ i # j, leavesOf'[s][i] = leavesOf'[t][j]
               PROVE  leavesOf'[s][i] \in twice'
    BY DEF SharedAreTwice
  <2>1. CASE s = n /\ t = n
    BY <1>4, <1>7, <2>1
  <2>2. CASE s # n /\ t # n
    BY <1>3, <1>4, <2>2 DEF FoundInv, LeavesFound, SharedAreTwice
  <2>3. CASE s = n /\ t # n
    <3>1. leavesOf'[t][j] \in seen
      BY <1>4, <2>3 DEF FoundInv, LeavesFound, SlotsSeen
    <3>2. QED
      BY <1>3, <1>4, <1>5, <2>3, <3>1
  <2>4. CASE s # n /\ t = n
    <3>1. leavesOf'[s][i] \in seen
      BY <1>4, <2>4 DEF FoundInv, LeavesFound, SlotsSeen
    <3>2. QED
      BY <1>3, <1>4, <1>5, <2>4, <3>1
  <2>5. QED
    BY <2>1, <2>2, <2>3, <2>4
<1>9. DeletesJustified'
  <2>1. upd # Idle => DOMAIN upd.raw \subseteq DOMAIN leavesOf
    BY DEF FoundInv, LeavesFound, IInv, CopiesCurrent
  <2>2. QED
    BY <1>1, <1>4, <2>1 DEF FoundInv, LeavesFound, DeletesJustified
<1>10. SingleLeavesFound'
  <2>1. DOMAIN index' = Range(b) \cup DOMAIN index
    BY <1>1 DEF Over
  <2>2. \A i \in DOMAIN b : b[i] \in Range(b)
    BY DEF Range
  <2>3. twice \subseteq twice'
    BY <1>3
  <2>4. QED
    BY <1>4, <2>1, <2>2, <2>3 DEF FoundInv, LeavesFound, SingleLeavesFound
<1>11. QED
  BY <1>6, <1>8, <1>9, <1>10 DEF LeavesFound

LEMMA UpdateReadFound ==
  ASSUME FoundInv, NEW s \in 0..LastSeq, UpdateRead(s)
  PROVE  DeletesJustified'
<1> DEFINE b == leavesOf[s]
           r == upd.changes[s]
           puts == PutIn(b, r)
<1>1. /\ upd # Idle /\ s \in DOMAIN leavesOf /\ DOMAIN r \subseteq DOMAIN b
      /\ leavesOf' = leavesOf
      /\ upd'.raw = Put(s, Replace(b, r), upd.raw)
      /\ upd'.changes = upd.changes
      /\ upd'.put = Over([x \in puts |-> s], Without(upd.put, Touched(b, r)))
      /\ upd'.del = (upd.del \ puts) \cup (Touched(b, r) \ puts)
  BY DEF UpdateRead, Readable, records, Idle
<1>2. DOMAIN upd'.raw = DOMAIN upd.raw \cup {s}
  <2>1. DOMAIN Put(s, Replace(b, r), upd.raw) = DOMAIN upd.raw \cup {s}
    BY DEF Put, Over
  <2>2. QED
    BY <1>1, <2>1
<1>3. DOMAIN upd'.put = puts \cup (DOMAIN upd.put \ Touched(b, r))
  <2>1. DOMAIN upd'.put = puts \cup DOMAIN Without(upd.put, Touched(b, r))
    BY <1>1 DEF Over
  <2>2. QED
    BY <2>1, WithoutDomain
<1>4. ASSUME NEW x \in Touched(b, r) \ puts
      PROVE  \E i \in DOMAIN r : b[i] = x
  BY <1>4 DEF Touched, PutIn
<1>5. ASSUME NEW x \in upd'.del
      PROVE  \E t \in DOMAIN upd'.raw : \E i \in DOMAIN upd'.changes[t] :
               i \in DOMAIN leavesOf'[t] /\ leavesOf'[t][i] = x
  <2>1. CASE x \in upd.del
    BY <1>1, <1>2, <2>1 DEF FoundInv, LeavesFound, DeletesJustified
  <2>2. CASE x \in Touched(b, r) \ puts
    BY <1>1, <1>2, <1>4, <2>2
  <2>3. QED
    BY <1>1, <1>5, <2>1, <2>2
<1>6. ASSUME NEW t \in DOMAIN upd'.raw, NEW i \in DOMAIN upd'.changes[t]
      PROVE  /\ i \in DOMAIN leavesOf'[t]
             /\ upd'.changes[t][i] \in upd'.del \cup DOMAIN upd'.put
  <2>1. CASE t = s
    <3>1. upd'.changes[t][i] \in Touched(b, r)
      BY <1>1, <1>6, <2>1 DEF Touched
    <3>2. QED
      BY <1>1, <1>3, <1>6, <2>1, <3>1
  <2>2. CASE t # s
    BY <1>1, <1>2, <1>3, <1>6, <2>2 DEF FoundInv, LeavesFound, DeletesJustified
  <2>3. QED
    BY <2>1, <2>2
<1>7. QED
  BY <1>5, <1>6 DEF DeletesJustified

LEMMA UpdateWriteFound ==
  ASSUME FoundInv, UpdateWrite, Note(UpdatedSlots)
  PROVE  LeavesFound'
<1> DEFINE changes == upd.changes
           written == UpdatedSlots
           Hit(s, i) == s \in DOMAIN changes /\ i \in DOMAIN changes[s]
<1>1. /\ upd # Idle /\ upd.left = {} /\ upd' = Idle
      /\ index' = Over(upd.put, Without(index, upd.del))
  BY DEF UpdateWrite, Idle
<1>2. DOMAIN upd.raw = DOMAIN changes
  BY <1>1 DEF FoundInv, LeavesFound, IInv, TypeOK, UpdateTypeOK
<1>3. /\ DOMAIN leavesOf' = DOMAIN leavesOf /\ DOMAIN changes \subseteq DOMAIN leavesOf
      /\ \A s \in DOMAIN leavesOf : DOMAIN leavesOf'[s] = DOMAIN leavesOf[s]
      /\ \A s \in DOMAIN leavesOf : \A i \in DOMAIN leavesOf[s] :
           leavesOf'[s][i] = IF Hit(s, i) THEN changes[s][i] ELSE leavesOf[s][i]
  <2>1. IInv
    BY DEF FoundInv, LeavesFound
  <2>2. /\ DOMAIN leavesOf' = DOMAIN leavesOf
        /\ \A s \in DOMAIN changes : s \in DOMAIN leavesOf
        /\ \A s \in DOMAIN changes : leavesOf'[s] = Replace(leavesOf[s], changes[s])
        /\ \A s \in DOMAIN leavesOf \ DOMAIN changes : leavesOf'[s] = leavesOf[s]
    BY <1>2, <2>1, UpdateWriteOverwrites
  <2>3. ASSUME NEW s \in DOMAIN leavesOf
        PROVE  /\ DOMAIN leavesOf'[s] = DOMAIN leavesOf[s]
               /\ \A i \in DOMAIN leavesOf[s] :
                    leavesOf'[s][i] = IF Hit(s, i) THEN changes[s][i] ELSE leavesOf[s][i]
    <3>1. CASE s \in DOMAIN changes
      <4>1. leavesOf'[s] = Replace(leavesOf[s], changes[s])
        BY <2>2, <3>1
      <4>2. QED
        BY <3>1, <4>1 DEF Replace
    <3>2. CASE s \notin DOMAIN changes
      BY <2>2, <3>2
    <3>3. QED
      BY <3>1, <3>2
  <2>4. QED
    BY <2>2, <2>3
<1>4. ASSUME NEW s, NEW i, Hit(s, i)
      PROVE  /\ <<s, i>> \in DOMAIN written /\ written[<<s, i>>] = changes[s][i]
             /\ changes[s][i] \in Range(written)
  <2>1. <<s, i>> \in DOMAIN written
    BY <1>4 DEF UpdatedSlots
  <2>2. written[<<s, i>>] = changes[s][i]
    BY <2>1 DEF UpdatedSlots
  <2>3. QED
    BY <2>1, <2>2 DEF Range
<1>5. /\ seen' = seen \cup Range(written)
      /\ twice' = twice \cup (seen \cap Range(written)) \cup Repeated(written)
  BY DEF Note
<1>a. ASSUME NEW s \in DOMAIN leavesOf, NEW i \in DOMAIN leavesOf[s], Hit(s, i)
      PROVE  leavesOf'[s][i] = changes[s][i] /\ leavesOf'[s][i] \in Range(written)
  BY <1>3, <1>4, <1>a
<1>b. ASSUME NEW s \in DOMAIN leavesOf, NEW i \in DOMAIN leavesOf[s], ~Hit(s, i)
      PROVE  leavesOf'[s][i] = leavesOf[s][i]
  BY <1>3, <1>b
<1>c. \A s \in DOMAIN leavesOf : \A i \in DOMAIN leavesOf[s] : leavesOf[s][i] \in seen
  BY DEF FoundInv, LeavesFound, SlotsSeen
<1> HIDE DEF written, Hit
<1>6. ASSUME NEW s \in DOMAIN leavesOf, NEW i \in DOMAIN leavesOf[s]
      PROVE  leavesOf'[s][i] \in seen'
  BY <1>a, <1>b, <1>c, <1>5
<1>7. SlotsSeen'
  BY <1>3, <1>6 DEF SlotsSeen
<1>8. SharedAreTwice'
  <2> SUFFICES ASSUME NEW s \in DOMAIN leavesOf, NEW t \in DOMAIN leavesOf,
                      NEW i \in DOMAIN leavesOf[s], NEW j \in DOMAIN leavesOf[t],
                      s # t \/ i # j, leavesOf'[s][i] = leavesOf'[t][j]
               PROVE  leavesOf'[s][i] \in twice'
    BY <1>3 DEF SharedAreTwice
  <2>1. CASE Hit(s, i) /\ Hit(t, j)
    <3>1. <<s, i>> # <<t, j>>
      OBVIOUS
    <3>2. /\ <<s, i>> \in DOMAIN written /\ <<t, j>> \in DOMAIN written
          /\ written[<<s, i>>] = leavesOf'[s][i] /\ written[<<t, j>>] = leavesOf'[t][j]
          /\ leavesOf'[s][i] \in Range(written)
      BY <1>4, <1>a, <2>1
    <3>3. leavesOf'[s][i] \in Repeated(written)
      BY <3>1, <3>2 DEF Repeated
    <3>4. QED
      BY <1>5, <3>3
  <2>2. CASE Hit(s, i) /\ ~Hit(t, j)
    <3>1. leavesOf'[s][i] \in Range(written)
      BY <1>a, <2>2
    <3>2. leavesOf'[t][j] \in seen
      BY <1>b, <1>c, <2>2
    <3>3. QED
      BY <1>5, <3>1, <3>2
  <2>3. CASE ~Hit(s, i) /\ Hit(t, j)
    <3>1. leavesOf'[t][j] \in Range(written)
      BY <1>a, <2>3
    <3>2. leavesOf'[s][i] \in seen
      BY <1>b, <1>c, <2>3
    <3>3. QED
      BY <1>5, <3>1, <3>2
  <2>4. CASE ~Hit(s, i) /\ ~Hit(t, j)
    <3>1. leavesOf[s][i] \in twice
      BY <1>b, <2>4 DEF FoundInv, LeavesFound, SharedAreTwice
    <3>2. QED
      BY <1>5, <1>b, <2>4, <3>1
  <2>5. QED
    BY <2>1, <2>2, <2>3, <2>4
<1>9. DOMAIN index' = DOMAIN upd.put \cup (DOMAIN index \ upd.del)
  <2>1. DOMAIN index' = DOMAIN upd.put \cup DOMAIN Without(index, upd.del)
    BY <1>1 DEF Over
  <2>2. QED
    BY <2>1, WithoutDomain
<1>10. ASSUME NEW x \in upd.del
       PROVE  \E t \in DOMAIN leavesOf : \E j \in DOMAIN leavesOf[t] :
                Hit(t, j) /\ leavesOf[t][j] = x
  BY <1>1, <1>2, <1>3 DEF FoundInv, LeavesFound, DeletesJustified, Hit
<1>11. ASSUME NEW s \in DOMAIN leavesOf, NEW i \in DOMAIN leavesOf[s]
       PROVE  leavesOf'[s][i] \in DOMAIN index' \cup twice'
  <2> DEFINE x == leavesOf'[s][i]
  <2>1. CASE Hit(s, i)
    <3>1. x \in upd.del \cup DOMAIN upd.put
      <4>1. x = changes[s][i] /\ s \in DOMAIN upd.raw /\ i \in DOMAIN upd.changes[s]
        BY <1>2, <1>a, <2>1 DEF Hit
      <4>2. QED
        BY <1>1, <4>1 DEF FoundInv, LeavesFound, DeletesJustified
    <3>2. x \in upd.del => x \in seen
      BY <1>10 DEF FoundInv, LeavesFound, SlotsSeen
    <3>3. x \in Range(written)
      BY <1>3, <1>4, <2>1
    <3>4. QED
      BY <1>5, <1>9, <3>1, <3>2, <3>3
  <2>2. CASE ~Hit(s, i)
    <3>1. x = leavesOf[s][i] /\ x \in DOMAIN index \cup twice
      BY <1>3, <2>2 DEF FoundInv, LeavesFound, SingleLeavesFound
    <3>2. x \in upd.del => x \in twice
      BY <1>10, <2>2, <3>1 DEF FoundInv, LeavesFound, SharedAreTwice
    <3>3. QED
      BY <1>5, <1>9, <3>1, <3>2
  <2>3. QED
    BY <2>1, <2>2
<1>12. SingleLeavesFound'
  BY <1>3, <1>11 DEF SingleLeavesFound
<1>13. QED
  BY <1>1, <1>7, <1>8, <1>12 DEF LeavesFound, DeletesJustified

LEMMA StepFound == CounterReliable /\ FoundInv /\ [IndexNext]_indexVars => FoundInv'
<1> SUFFICES ASSUME CounterReliable, FoundInv, [IndexNext]_indexVars
             PROVE  LeavesFound'
  BY IndexStepIsStoreStep, StepInv DEF FoundInv
<1>2. ASSUME UNCHANGED <<records, seen, twice>>, DeletesJustified'
      PROVE  LeavesFound'
  BY <1>2 DEF FoundInv, LeavesFound, SlotsSeen, SharedAreTwice, SingleLeavesFound, records
<1>3. ASSUME UNCHANGED <<records, upd, seen, twice>>
      PROVE  LeavesFound'
  <2>1. DeletesJustified'
    BY <1>3 DEF FoundInv, LeavesFound, DeletesJustified, records
  <2>2. QED
    BY <1>2, <1>3, <2>1
<1>4. ASSUME UNCHANGED <<records, seen, twice>>, upd' = Idle
      PROVE  LeavesFound'
  BY <1>2, <1>4 DEF DeletesJustified
<1>5. CASE InsertWrite /\ Note(InsertedSlots)
  BY <1>5, InsertWriteFound
<1>6. CASE UpdateWrite /\ Note(UpdatedSlots)
  BY <1>6, UpdateWriteFound
<1>7. ASSUME NEW leaves \in Batches, NEW root \in Roots, InsertBegin(root, leaves),
             UNCHANGED <<seen, twice>>
      PROVE  LeavesFound'
  BY <1>3, <1>7 DEF InsertBegin
<1>8. ASSUME NEW c \in Changes, UpdateBegin(c), UNCHANGED <<seen, twice>>
      PROVE  LeavesFound'
  <2>1. upd'.raw = Empty /\ upd'.del = {} /\ UNCHANGED records
    BY <1>8 DEF UpdateBegin
  <2>2. DeletesJustified'
    BY <2>1, EmptyIsPartial DEF DeletesJustified
  <2>3. QED
    BY <1>2, <1>8, <2>1, <2>2
<1>9. ASSUME NEW s \in 0..LastSeq, UpdateRead(s), UNCHANGED <<seen, twice>>
      PROVE  LeavesFound'
  <2>1. UNCHANGED records
    BY <1>9 DEF UpdateRead
  <2>2. QED
    BY <1>2, <1>9, <2>1, UpdateReadFound
<1>10. CASE InsertFails /\ UNCHANGED <<seen, twice>>
  BY <1>3, <1>10 DEF InsertFails, records
<1>11. CASE UpdateStops /\ UNCHANGED <<seen, twice>>
  BY <1>4, <1>11 DEF UpdateStops, records
<1>12. CASE UpdateFails /\ UNCHANGED <<seen, twice>>
  BY <1>4, <1>12 DEF UpdateFails, records
<1>13. CASE UNCHANGED <<vars, seen, twice>>
  BY <1>3, <1>13 DEF vars, records
<1>14. QED
  BY <1>5, <1>6, <1>7, <1>8, <1>9, <1>10, <1>11, <1>12, <1>13
  DEF IndexNext, indexVars, LookupIndex, LookupLeaves

(* A leaf that was written to a slot once is found by get_by_leaf as long as *)
(* some batch holds it, whatever is updated around it                       *)
(* (rocks_queries.rs:21-23, 118-120).                                      *)
THEOREM SingleLeavesStayFound ==
  ASSUME CounterReliable PROVE IndexSpec => []SingleLeavesFound
<1>1. FoundInv /\ [IndexNext]_indexVars => FoundInv'
  BY StepFound
<1>2. FoundInv => SingleLeavesFound
  BY DEF FoundInv, LeavesFound
<1>3. QED
  BY <1>1, <1>2, InitFound, PTL DEF IndexSpec
=============================================================================
