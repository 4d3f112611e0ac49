-------------------------- MODULE PostgresStoreProofs --------------------------
(***************************************************************************)
(* Theorems about PostgresStore for any number of sessions, any batches and *)
(* replacements, with statements that fail.                                *)
(***************************************************************************)
EXTENDS PostgresStore, SequenceTheorems, TLAPS

-----------------------------------------------------------------------------
(* The strengthening.  Rows, not keys, are what is locked: a row of the     *)
(* table is named by itself only.                                          *)

(* The entries es of a batch b never name a leaf it does not hold.          *)
Indexed(b, es, s) ==
  /\ Range(es) \subseteq Range(b)
  /\ s \notin merged => Distinct(b) /\ es = b

(* The slots of row s that session c has replaced in its copy.              *)
Replaced(c, s) == DOMAIN call[c].changes[s] \ (IF s = cur[c] THEN todo[c] ELSE {})

(* The copy of a locked row is the row with some of the replacements made.  *)
RowInv(c, s) ==
  /\ s \in DOMAIN leavesOf
  /\ Serves(c, "update") /\ s \in DOMAIN call[c].changes
  /\ DOMAIN work[c][s] = DOMAIN leavesOf[s]
  /\ Replaced(c, s) \subseteq DOMAIN leavesOf[s]
  /\ \A i \in DOMAIN leavesOf[s] :
       work[c][s][i] = IF i \in Replaced(c, s) THEN call[c].changes[s][i] ELSE leavesOf[s][i]
  /\ Indexed(work[c][s], moved[c][s], s)

SessionInv(c) ==
  /\ drawn[c] # 0 => Serves(c, "insert") /\ drawn[c] \notin DOMAIN leavesOf
  /\ cur[c] # None =>
       Serves(c, "update") /\ \E s \in DOMAIN call[c].changes : cur[c] = Row(s)
  /\ todo[c] # {} =>
       /\ cur[c] # None /\ cur[c] \in DOMAIN work[c]
       /\ todo[c] \subseteq DOMAIN call[c].changes[cur[c]]
  /\ DOMAIN moved[c] = DOMAIN work[c]
  /\ \A s \in DOMAIN work[c] : RowInv(c, s)

(* No number is drawn twice and no row is locked twice.                     *)
Apart(c, d) ==
  /\ drawn[c] # 0 => drawn[c] # drawn[d]
  /\ DOMAIN work[c] \cap DOMAIN work[d] = {}

SessionsInv ==
  /\ \A c \in Sessions : SessionInv(c)
  /\ \A c, d \in Sessions : c # d => Apart(c, d)

IndexInv == \A s \in DOMAIN leavesOf : Indexed(leavesOf[s], entries[s], s)

IInv ==
  /\ TypeOK
  /\ returned \subseteq DOMAIN leavesOf
  /\ IndexInv
  /\ SessionsInv

-----------------------------------------------------------------------------
LEMMA OverIs ==
  ASSUME NEW f, NEW g
  PROVE  /\ DOMAIN Over(f, g) = DOMAIN f \cup DOMAIN g
         /\ \A x \in DOMAIN f : Over(f, g)[x] = f[x]
         /\ \A x \in DOMAIN g \ DOMAIN f : Over(f, g)[x] = g[x]
  BY DEF Over

LEMMA OverPartial ==
  ASSUME NEW S, NEW T, NEW f, NEW g, IsPartial(f, S, T), IsPartial(g, S, T)
  PROVE  IsPartial(Over(f, g), S, T)
<1> DEFINE D == DOMAIN f \cup DOMAIN g
<1>1. D \subseteq S
  BY DEF IsPartial
<1>2. \A x \in D : (IF x \in DOMAIN f THEN f[x] ELSE g[x]) \in T
  BY DEF IsPartial
<1>3. Over(f, g) \in [D -> T]
  BY <1>2 DEF Over
<1>4. DOMAIN Over(f, g) = D
  BY OverIs
<1>5. QED
  BY <1>1, <1>3, <1>4 DEF IsPartial

LEMMA PutIs ==
  ASSUME NEW k, NEW v, NEW g
  PROVE  /\ DOMAIN Put(k, v, g) = DOMAIN g \cup {k}
         /\ Put(k, v, g)[k] = v
         /\ \A x \in DOMAIN g \ {k} : Put(k, v, g)[x] = g[x]
  BY DEF Put, Over

LEMMA PutPartial ==
  ASSUME NEW S, NEW T, NEW k \in S, NEW v \in T, NEW g, IsPartial(g, S, T)
  PROVE  IsPartial(Put(k, v, g), S, T)
<1> DEFINE f == [x \in {k} |-> v]
<1>1. IsPartial(f, S, T)
  BY DEF IsPartial
<1> HIDE DEF f
<1>2. IsPartial(Over(f, g), S, T)
  BY <1>1, OverPartial
<1>3. QED
  BY <1>2 DEF Put, f

LEMMA EmptyIs ==
  ASSUME NEW S, NEW T
  PROVE  DOMAIN Empty = {} /\ IsPartial(Empty, S, T)
  BY DEF Empty, IsPartial

LEMMA PartialGrows ==
  ASSUME NEW S, NEW S2, NEW T, NEW f, S \subseteq S2, IsPartial(f, S, T)
  PROVE  IsPartial(f, S2, T)
  BY DEF IsPartial

(* What a call carries.                                                    *)
LEMMA CallTypes ==
  ASSUME TypeOK, NEW c \in Sessions
  PROVE  /\ Serves(c, "insert") => call[c].root \in Roots /\ call[c].leaves \in Vectors
         /\ Serves(c, "update") =>
              \A s \in DOMAIN call[c].changes :
                /\ s \in 0..(2 * LastSerial + 1)
                /\ DOMAIN call[c].changes[s] \subseteq Nat \ {0}
                /\ \A i \in DOMAIN call[c].changes[s] : call[c].changes[s][i] \in Leaves
<1>1. call[c] \in Requests \cup {None}
  BY DEF TypeOK, LocalsTypeOK
<1>2. Serves(c, "insert") => call[c] \in InsertCalls
  BY <1>1 DEF Serves, Requests, InsertCalls, UpdateCalls
<1>3. Serves(c, "update") => call[c] \in UpdateCalls
  BY <1>1 DEF Serves, Requests, InsertCalls, UpdateCalls
<1>4. Serves(c, "update") => call[c].changes \in Changes
  BY <1>3 DEF UpdateCalls
<1>5. Serves(c, "insert") => call[c].root \in Roots /\ call[c].leaves \in Batches
  BY <1>2 DEF InsertCalls
<1>6. QED
  BY <1>4, <1>5, PostgresAssumption DEF Vectors

(* A positive row number is the key it comes from.                         *)
LEMMA RowOfKey ==
  ASSUME NEW s \in 0..(2 * LastSerial + 1)
  PROVE  Row(s) \in Int /\ (Row(s) \in Nat \ {0} => Row(s) = s)
  BY PostgresAssumption DEF Row

-----------------------------------------------------------------------------
(* What a step of one session leaves of the invariant of another.          *)
LEMMA OthersKeep ==
  ASSUME NEW d \in Sessions, SessionInv(d),
         /\ call'[d] = call[d] /\ drawn'[d] = drawn[d] /\ cur'[d] = cur[d]
         /\ todo'[d] = todo[d] /\ work'[d] = work[d] /\ moved'[d] = moved[d],
         DOMAIN leavesOf \subseteq DOMAIN leavesOf',
         \A s \in DOMAIN work[d] : leavesOf'[s] = leavesOf[s],
         drawn[d] # 0 => drawn[d] \notin DOMAIN leavesOf',
         merged \subseteq merged'
  PROVE  SessionInv(d)'
<1>1. ASSUME NEW s \in DOMAIN work[d]
      PROVE  RowInv(d, s)'
  <2>1. RowInv(d, s)
    BY DEF SessionInv
  <2>2. Replaced(d, s)' = Replaced(d, s)
    BY DEF Replaced
  <2>3. Indexed(work[d][s], moved[d][s], s)'
    BY <2>1 DEF RowInv, Indexed
  <2>4. QED
    BY <2>1, <2>2, <2>3 DEF RowInv, Serves
<1>2. \A s \in DOMAIN work'[d] : RowInv(d, s)'
  BY <1>1
<1>3. QED
  BY <1>2 DEF SessionInv, Serves

(* A session that has nothing in hand.                                     *)
LEMMA NothingInHand ==
  ASSUME NEW c \in Sessions,
         drawn'[c] = 0, cur'[c] = None, todo'[c] = {},
         work'[c] = Empty, moved'[c] = Empty
  PROVE  SessionInv(c)'
  BY EmptyIs DEF SessionInv

(* The end of a transaction, by itself.                                    *)
LEMMA EndIs ==
  ASSUME TypeOK, NEW c \in Sessions, End(c)
  PROVE  /\ call' \in [Sessions -> Requests \cup {None}]
         /\ drawn' \in [Sessions -> 0..serial]
         /\ cur' \in [Sessions -> Int \cup {None}]
         /\ todo' \in [Sessions -> SUBSET Nat]
         /\ DOMAIN work' = Sessions /\ DOMAIN moved' = Sessions
         /\ drawn'[c] = 0 /\ cur'[c] = None /\ todo'[c] = {}
         /\ work'[c] = Empty /\ moved'[c] = Empty
         /\ \A d \in Sessions \ {c} :
              /\ call'[d] = call[d] /\ drawn'[d] = drawn[d] /\ cur'[d] = cur[d]
              /\ todo'[d] = todo[d] /\ work'[d] = work[d] /\ moved'[d] = moved[d]
         /\ \A d \in Sessions :
              /\ IsPartial(work'[d], 1..serial, Vectors)
              /\ IsPartial(moved'[d], DOMAIN work'[d], Vectors)
<1> USE DEF End, TypeOK, LocalsTypeOK, TablesTypeOK
<1>1. /\ drawn'[c] = 0 /\ cur'[c] = None /\ todo'[c] = {}
      /\ work'[c] = Empty /\ moved'[c] = Empty
      /\ DOMAIN work' = Sessions /\ DOMAIN moved' = Sessions
  OBVIOUS
<1>2. \A d \in Sessions \ {c} :
        /\ call'[d] = call[d] /\ drawn'[d] = drawn[d] /\ cur'[d] = cur[d]
        /\ todo'[d] = todo[d] /\ work'[d] = work[d] /\ moved'[d] = moved[d]
  OBVIOUS
<1>3. /\ IsPartial(work'[c], 1..serial, Vectors)
      /\ IsPartial(moved'[c], DOMAIN work'[c], Vectors)
  BY <1>1, EmptyIs
<1>4. \A d \in Sessions : /\ IsPartial(work'[d], 1..serial, Vectors)
                          /\ IsPartial(moved'[d], DOMAIN work'[d], Vectors)
  BY <1>2, <1>3
<1>5. 0 \in 0..serial
  OBVIOUS
<1>6. /\ call' \in [Sessions -> Requests \cup {None}]
      /\ drawn' \in [Sessions -> 0..serial]
      /\ cur' \in [Sessions -> Int \cup {None}]
      /\ todo' \in [Sessions -> SUBSET Nat]
  BY <1>5
<1>7. QED
  BY <1>1, <1>2, <1>4, <1>6

(* A call that ends without an effect: an error, or a dropped transaction.  *)
LEMMA DropKeeps ==
  ASSUME IInv, NEW c \in Sessions, End(c), UNCHANGED <<tables, history>>
  PROVE  IInv'
<1>1. TypeOK
  BY DEF IInv
<1> DEFINE Same(d) == /\ call'[d] = call[d] /\ drawn'[d] = drawn[d] /\ cur'[d] = cur[d]
                      /\ todo'[d] = todo[d] /\ work'[d] = work[d] /\ moved'[d] = moved[d]
<1>2. /\ drawn'[c] = 0 /\ cur'[c] = None /\ todo'[c] = {}
      /\ work'[c] = Empty /\ moved'[c] = Empty
      /\ \A d \in Sessions \ {c} : Same(d)
  BY <1>1, EndIs
<1>3. TypeOK'
  BY <1>1, EndIs DEF TypeOK, LocalsTypeOK, TablesTypeOK, tables, history
<1>4. \A d \in Sessions \ {c} : SessionInv(d)'
  BY <1>2, OthersKeep DEF IInv, SessionsInv, SessionInv, tables, history
<1>5. SessionInv(c)'
  BY <1>2, NothingInHand
<1>6. \A d, e \in Sessions : d # e => Apart(d, e)'
  BY <1>2, EmptyIs DEF IInv, SessionsInv, Apart
<1>7. QED
  BY <1>3, <1>4, <1>5, <1>6 DEF IInv, SessionsInv, IndexInv, Indexed, tables, history

(* A new call has nothing in hand yet, as a session between calls has not.  *)
LEMMA IdleIs ==
  ASSUME IInv, NEW c \in Sessions, call[c] = None
  PROVE  drawn[c] = 0 /\ cur[c] = None /\ todo[c] = {} /\ DOMAIN work[c] = {}
         /\ DOMAIN moved[c] = {}
<1>1. SessionInv(c)
  BY DEF IInv, SessionsInv
<1>2. QED
  BY <1>1 DEF SessionInv, RowInv, Serves

LEMMA BeginKeeps ==
  ASSUME IInv, NEW c \in Sessions, NEW r \in Requests, Begin(c, r)
  PROVE  IInv'
<1>1. /\ call[c] = None
      /\ call' = [call EXCEPT ![c] = r]
      /\ UNCHANGED <<serial, rootOf, leavesOf, entries, drawn, cur, todo, work, moved,
                     returned, merged>>
  BY DEF Begin, tables, history
<1>2. TypeOK'
  BY <1>1 DEF IInv, TypeOK, LocalsTypeOK, TablesTypeOK
<1>3. SessionInv(c)'
  BY <1>1, IdleIs DEF SessionInv
<1>4. ASSUME NEW d \in Sessions \ {c}
      PROVE  SessionInv(d)'
  <2>1. call'[d] = call[d]
    BY <1>1 DEF IInv, TypeOK, LocalsTypeOK
  <2>2. SessionInv(d)
    BY DEF IInv, SessionsInv
  <2>3. drawn[d] # 0 => drawn[d] \notin DOMAIN leavesOf'
    BY <1>1, <2>2 DEF SessionInv
  <2>4. QED
    BY <1>1, <2>1, <2>2, <2>3, OthersKeep
<1>5. QED
  BY <1>1, <1>2, <1>3, <1>4 DEF IInv, SessionsInv, Apart, IndexInv, Indexed

LEMMA InsertRowKeeps ==
  ASSUME IInv, NEW c \in Sessions, InsertRow(c)
  PROVE  IInv'
<1>1. /\ Serves(c, "insert") /\ drawn[c] = 0
      /\ serial < LastSerial /\ serial' = serial + 1
      /\ drawn' = [drawn EXCEPT ![c] = serial + 1]
      /\ UNCHANGED <<rootOf, leavesOf, entries, call, cur, todo, work, moved, returned, merged>>
  BY DEF InsertRow, history
<1>2. TypeOK
  BY DEF IInv
<1>3. /\ serial' \in 0..LastSerial /\ serial \in Nat
      /\ 0..serial \subseteq 0..serial' /\ 1..serial \subseteq 1..serial'
      /\ serial + 1 \in 0..serial' /\ serial + 1 \notin 0..serial
  BY <1>1, <1>2, PostgresAssumption DEF TypeOK, TablesTypeOK
<1>4. TablesTypeOK'
  BY <1>1, <1>2, <1>3, PartialGrows DEF TypeOK, TablesTypeOK
<1>5. drawn' \in [Sessions -> 0..serial']
  BY <1>1, <1>2, <1>3 DEF TypeOK, LocalsTypeOK
<1>6. \A d \in Sessions : /\ IsPartial(work'[d], 1..serial', Vectors)
                          /\ IsPartial(moved'[d], DOMAIN work'[d], Vectors)
  BY <1>1, <1>2, <1>3, PartialGrows DEF TypeOK, LocalsTypeOK
<1>7. TypeOK'
  BY <1>1, <1>2, <1>3, <1>4, <1>5, <1>6 DEF TypeOK, LocalsTypeOK
<1>8. drawn'[c] = serial + 1 /\ \A d \in Sessions \ {c} : drawn'[d] = drawn[d]
  BY <1>1, <1>2 DEF TypeOK, LocalsTypeOK
<1>9. SessionInv(c)'
  <2>1. serial + 1 \notin DOMAIN leavesOf
    BY <1>2, <1>3 DEF TypeOK, TablesTypeOK, IsPartial
  <2>2. SessionInv(c)
    BY DEF IInv, SessionsInv
  <2>3. \A s \in DOMAIN work[c] : RowInv(c, s)'
    BY <1>1, <2>2 DEF SessionInv, RowInv, Serves, Replaced, Indexed
  <2>4. QED
    BY <1>1, <1>8, <2>1, <2>2, <2>3 DEF SessionInv, Serves
<1>10. ASSUME NEW d \in Sessions \ {c}
       PROVE  SessionInv(d)'
  <2>1. SessionInv(d)
    BY DEF IInv, SessionsInv
  <2>2. drawn[d] # 0 => drawn[d] \notin DOMAIN leavesOf'
    BY <1>1, <2>1 DEF SessionInv
  <2>3. QED
    BY <1>1, <1>8, <2>1, <2>2, OthersKeep
<1>11. ASSUME NEW d \in Sessions, NEW e \in Sessions, d # e
       PROVE  Apart(d, e)'
  <2>1. drawn[d] # serial + 1 /\ drawn[e] # serial + 1
    BY <1>2, <1>3 DEF TypeOK, LocalsTypeOK
  <2>2. drawn'[d] # 0 => drawn'[d] # drawn'[e]
    <3>1. CASE d = c
      BY <1>8, <1>11, <2>1, <3>1
    <3>2. CASE e = c
      BY <1>8, <1>11, <2>1, <3>2
    <3>3. CASE d # c /\ e # c
      BY <1>8, <1>11, <3>3 DEF IInv, SessionsInv, Apart
    <3>4. QED
      BY <3>1, <3>2, <3>3
  <2>3. DOMAIN work'[d] \cap DOMAIN work'[e] = {}
    BY <1>1, <1>11 DEF IInv, SessionsInv, Apart
  <2>4. QED
    BY <2>2, <2>3 DEF Apart
<1>12. QED
  BY <1>1, <1>7, <1>9, <1>10, <1>11 DEF IInv, SessionsInv, IndexInv, Indexed

LEMMA InsertCommitKeeps ==
  ASSUME IInv, NEW c \in Sessions, InsertCommit(c)
  PROVE  IInv'
<1> DEFINE n == drawn[c]
           b == call[c].leaves
<1>1. /\ Serves(c, "insert") /\ n # 0
      /\ rootOf' = Put(n, call[c].root, rootOf)
      /\ leavesOf' = Put(n, b, leavesOf)
      /\ entries' = Put(n, b, entries)
      /\ returned' = returned \cup {n}
      /\ merged' = IF Distinct(b) THEN merged ELSE merged \cup {n}
      /\ serial' = serial
      /\ End(c)
  BY DEF InsertCommit
<1>2. TypeOK
  BY DEF IInv
<1>3. n \in 1..serial
  BY <1>1, <1>2 DEF TypeOK, LocalsTypeOK, TablesTypeOK
<1>4. call[c].root \in Roots /\ b \in Vectors
  BY <1>1, <1>2, CallTypes
<1>5. n \notin DOMAIN leavesOf
  BY <1>1 DEF IInv, SessionsInv, SessionInv
<1> HIDE DEF n, b
<1>6. /\ DOMAIN leavesOf' = DOMAIN leavesOf \cup {n} /\ leavesOf'[n] = b
      /\ \A s \in DOMAIN leavesOf : leavesOf'[s] = leavesOf[s]
  <2>0. DOMAIN Put(n, b, leavesOf) = DOMAIN leavesOf \cup {n} /\ Put(n, b, leavesOf)[n] = b
    BY PutIs
  <2>1. \A x \in DOMAIN leavesOf \ {n} : Put(n, b, leavesOf)[x] = leavesOf[x]
    BY DEF Put, Over
  <2>2. QED
    BY <1>1, <1>5, <2>0, <2>1
<1>7. /\ DOMAIN entries' = DOMAIN leavesOf' /\ entries'[n] = b
      /\ \A s \in DOMAIN leavesOf : entries'[s] = entries[s]
  <2>0. DOMAIN Put(n, b, entries) = DOMAIN entries \cup {n} /\ Put(n, b, entries)[n] = b
    BY PutIs
  <2>1. \A x \in DOMAIN entries \ {n} : Put(n, b, entries)[x] = entries[x]
    BY DEF Put, Over
  <2>2. DOMAIN entries = DOMAIN leavesOf
    BY <1>2 DEF TypeOK, TablesTypeOK
  <2>3. QED
    BY <1>1, <1>5, <1>6, <2>0, <2>1, <2>2
<1>8. TablesTypeOK'
  <2>1. /\ IsPartial(Put(n, call[c].root, rootOf), 1..serial, Roots)
        /\ IsPartial(Put(n, b, leavesOf), 1..serial, Vectors)
        /\ IsPartial(Put(n, b, entries), 1..serial, Vectors)
    <3>1. IsPartial(rootOf, 1..serial, Roots)
          /\ IsPartial(leavesOf, 1..serial, Vectors) /\ IsPartial(entries, 1..serial, Vectors)
      BY <1>2 DEF TypeOK, TablesTypeOK
    <3>2. QED
      BY <1>3, <1>4, <3>1, PutPartial
  <2>2. DOMAIN rootOf' = DOMAIN leavesOf'
    <3>1. DOMAIN Put(n, call[c].root, rootOf) = DOMAIN rootOf \cup {n}
      BY PutIs
    <3>2. QED
      BY <1>1, <1>2, <1>6, <3>1 DEF TypeOK, TablesTypeOK
  <2>3. QED
    BY <1>1, <1>2, <1>7, <2>1, <2>2 DEF TypeOK, TablesTypeOK
<1>9. TypeOK'
  BY <1>1, <1>2, <1>3, <1>8, EndIs DEF TypeOK, LocalsTypeOK
<1>10. /\ drawn'[c] = 0 /\ cur'[c] = None /\ todo'[c] = {}
       /\ work'[c] = Empty /\ moved'[c] = Empty
       /\ \A d \in Sessions \ {c} :
            /\ call'[d] = call[d] /\ drawn'[d] = drawn[d] /\ cur'[d] = cur[d]
            /\ todo'[d] = todo[d] /\ work'[d] = work[d] /\ moved'[d] = moved[d]
  BY <1>1, <1>2, EndIs
<1>11. merged \subseteq merged' /\ \A s : s # n /\ s \notin merged => s \notin merged'
  BY <1>1
<1>12. ASSUME NEW d \in Sessions \ {c}
       PROVE  SessionInv(d)'
  <2>1. SessionInv(d)
    BY DEF IInv, SessionsInv
  <2>2. \A s \in DOMAIN work[d] : leavesOf'[s] = leavesOf[s]
    BY <1>6, <2>1 DEF SessionInv, RowInv
  <2>3. drawn[d] # 0 => drawn[d] # n
    BY DEF IInv, SessionsInv, Apart, n
  <2>4. drawn[d] # 0 => drawn[d] \notin DOMAIN leavesOf'
    BY <1>6, <2>1, <2>3 DEF SessionInv
  <2>5. QED
    BY <1>6, <1>10, <1>11, <2>1, <2>2, <2>4, OthersKeep
<1>13. SessionInv(c)'
  BY <1>10, NothingInHand
<1>14. \A d, e \in Sessions : d # e => Apart(d, e)'
  BY <1>10, EmptyIs DEF IInv, SessionsInv, Apart
<1>15. ASSUME NEW s \in DOMAIN leavesOf'
       PROVE  Indexed(leavesOf[s], entries[s], s)'
  <2>1. CASE s = n
    BY <1>1, <1>6, <1>7, <2>1 DEF Indexed
  <2>2. CASE s # n
    BY <1>6, <1>7, <1>11, <2>2 DEF Indexed, IInv, IndexInv
  <2>3. QED
    BY <2>1, <2>2
<1>16. returned' \subseteq DOMAIN leavesOf'
  BY <1>1, <1>6 DEF IInv
<1>17. QED
  BY <1>9, <1>12, <1>13, <1>14, <1>15, <1>16 DEF IInv, SessionsInv, IndexInv

-----------------------------------------------------------------------------
(* The tables do not change when an update works on its copies.  What is to *)
(* show: the types of its locals, and its own part of the invariant.        *)
LEMMA LocalStepKeeps ==
  ASSUME IInv, NEW c \in Sessions,
         UNCHANGED <<serial, rootOf, leavesOf, entries, call, drawn, returned>>,
         merged \subseteq merged', merged' \subseteq 1..serial,
         cur' \in [Sessions -> Int \cup {None}],
         todo' \in [Sessions -> SUBSET Nat],
         DOMAIN work' = Sessions, DOMAIN moved' = Sessions,
         IsPartial(work'[c], 1..serial, Vectors),
         IsPartial(moved'[c], DOMAIN work'[c], Vectors),
         \A d \in Sessions \ {c} : /\ cur'[d] = cur[d] /\ todo'[d] = todo[d]
                                   /\ work'[d] = work[d] /\ moved'[d] = moved[d],
         SessionInv(c)',
         \A d \in Sessions \ {c} : DOMAIN work'[c] \cap DOMAIN work[d] = {}
  PROVE  IInv'
<1>1. TypeOK'
  <2>1. TablesTypeOK'
    BY DEF IInv, TypeOK, TablesTypeOK
  <2>2. \A d \in Sessions : /\ IsPartial(work'[d], 1..serial, Vectors)
                            /\ IsPartial(moved'[d], DOMAIN work'[d], Vectors)
    BY DEF IInv, TypeOK, LocalsTypeOK
  <2>3. QED
    BY <2>1, <2>2 DEF IInv, TypeOK, LocalsTypeOK
<1>2. ASSUME NEW d \in Sessions \ {c}
      PROVE  SessionInv(d)'
  <2>1. SessionInv(d)
    BY DEF IInv, SessionsInv
  <2>2. drawn[d] # 0 => drawn[d] \notin DOMAIN leavesOf'
    BY <2>1 DEF SessionInv
  <2>3. QED
    BY <2>1, <2>2, OthersKeep
<1>3. \A d, e \in Sessions : d # e => Apart(d, e)'
  BY DEF IInv, SessionsInv, Apart
<1>4. IndexInv'
  BY DEF IInv, IndexInv, Indexed
<1>5. QED
  BY <1>1, <1>2, <1>3, <1>4 DEF IInv, SessionsInv

LEMMA UpdateNextKeeps ==
  ASSUME IInv, NEW c \in Sessions, NEW s \in 0..(2 * LastSerial + 1), UpdateNext(c, s)
  PROVE  IInv'
<1>1. /\ Serves(c, "update") /\ todo[c] = {} /\ s \in DOMAIN call[c].changes
      /\ Row(s) \notin DOMAIN work[c]
      /\ cur' = [cur EXCEPT ![c] = Row(s)]
      /\ UNCHANGED <<serial, rootOf, leavesOf, entries, call, drawn, todo, work, moved,
                     returned, merged>>
  BY DEF UpdateNext, Unlocked, tables, history
<1>2. Row(s) \in Int
  BY RowOfKey
<1>3. cur' \in [Sessions -> Int \cup {None}] /\ cur'[c] = Row(s)
      /\ \A d \in Sessions \ {c} : cur'[d] = cur[d]
  BY <1>1, <1>2 DEF IInv, TypeOK, LocalsTypeOK
<1>4. SessionInv(c)
  BY DEF IInv, SessionsInv
<1>5. ASSUME NEW t \in DOMAIN work[c]
      PROVE  RowInv(c, t)'
  <2>1. RowInv(c, t)
    BY <1>4 DEF SessionInv
  <2>2. Replaced(c, t)' = Replaced(c, t)
    BY <1>1, <1>3 DEF Replaced
  <2>3. QED
    BY <1>1, <2>1, <2>2 DEF RowInv, Serves, Indexed
<1>6. SessionInv(c)'
  BY <1>1, <1>3, <1>4, <1>5 DEF SessionInv, Serves
<1>7. \A d \in Sessions \ {c} : DOMAIN work'[c] \cap DOMAIN work[d] = {}
  BY <1>1 DEF IInv, SessionsInv, Apart
<1>8. QED
  BY <1>1, <1>3, <1>6, <1>7, LocalStepKeeps DEF IInv, TypeOK, LocalsTypeOK

(* The row an update is at, if it exists, is one of its own keys.           *)
LEMMA CurIsKey ==
  ASSUME IInv, NEW c \in Sessions, cur[c] # None, cur[c] \in DOMAIN leavesOf
  PROVE  /\ Serves(c, "update") /\ cur[c] \in DOMAIN call[c].changes
         /\ cur[c] \in 1..serial
<1>1. SessionInv(c) /\ TypeOK
  BY DEF IInv, SessionsInv
<1>2. cur[c] \in 1..serial /\ serial \in Nat
  BY <1>1 DEF TypeOK, TablesTypeOK, IsPartial
<1>3. PICK s \in DOMAIN call[c].changes : cur[c] = Row(s)
  BY <1>1 DEF SessionInv
<1>4. Serves(c, "update") /\ s \in 0..(2 * LastSerial + 1)
  BY <1>1, CallTypes DEF SessionInv
<1>5. cur[c] = s
  BY <1>2, <1>3, <1>4, RowOfKey
<1>6. QED
  BY <1>2, <1>3, <1>4, <1>5

LEMMA UpdateLockKeeps ==
  ASSUME IInv, NEW c \in Sessions, UpdateLock(c)
  PROVE  IInv'
<1> DEFINE row == cur[c]
           b == leavesOf[row]
           es == entries[row]
           slots == DOMAIN call[c].changes[row]
<1>1. /\ row # None /\ row \notin DOMAIN work[c] /\ row \in DOMAIN leavesOf
      /\ \A d \in Sessions \ {c} : row \notin DOMAIN work[d]
      /\ work' = [work EXCEPT ![c] = Put(row, b, work[c])]
      /\ moved' = [moved EXCEPT ![c] = Put(row, es, moved[c])]
      /\ todo' = [todo EXCEPT ![c] = slots]
      /\ UNCHANGED <<serial, rootOf, leavesOf, entries, call, drawn, cur, returned, merged>>
  BY DEF UpdateLock, Waiting, LockedByOther, tables, history
<1>2. TypeOK /\ SessionInv(c) /\ IndexInv
  BY DEF IInv, SessionsInv
<1>3. Serves(c, "update") /\ row \in DOMAIN call[c].changes /\ row \in 1..serial
  BY <1>1, CurIsKey
<1>4. slots \subseteq Nat
  BY <1>2, <1>3, CallTypes
<1>5. b \in Vectors /\ es \in Vectors
  BY <1>1, <1>2 DEF TypeOK, TablesTypeOK, IsPartial
<1>6. Indexed(b, es, row)
  BY <1>1, <1>2 DEF IndexInv
<1> HIDE DEF b, es, slots
<1>7. /\ work'[c] = Put(row, b, work[c]) /\ moved'[c] = Put(row, es, moved[c])
      /\ todo'[c] = slots /\ todo' \in [Sessions -> SUBSET Nat]
      /\ DOMAIN work' = Sessions /\ DOMAIN moved' = Sessions
      /\ \A d \in Sessions \ {c} : todo'[d] = todo[d] /\ work'[d] = work[d] /\ moved'[d] = moved[d]
  BY <1>1, <1>2, <1>4 DEF TypeOK, LocalsTypeOK
<1>8. /\ DOMAIN work'[c] = DOMAIN work[c] \cup {row}
      /\ DOMAIN moved'[c] = DOMAIN work[c] \cup {row}
      /\ work'[c][row] = b /\ moved'[c][row] = es
  <2>1. DOMAIN Put(row, b, work[c]) = DOMAIN work[c] \cup {row} /\ Put(row, b, work[c])[row] = b
    BY DEF Put, Over
  <2>2. DOMAIN Put(row, es, moved[c]) = DOMAIN moved[c] \cup {row} /\ Put(row, es, moved[c])[row] = es
    BY DEF Put, Over
  <2>3. DOMAIN moved[c] = DOMAIN work[c]
    BY <1>2 DEF SessionInv
  <2>4. QED
    BY <1>7, <2>1, <2>2, <2>3
<1>9. \A s \in DOMAIN work[c] : work'[c][s] = work[c][s] /\ moved'[c][s] = moved[c][s]
  <2>1. \A s \in DOMAIN work[c] \ {row} : Put(row, b, work[c])[s] = work[c][s]
    BY DEF Put, Over
  <2>2. \A s \in DOMAIN moved[c] \ {row} : Put(row, es, moved[c])[s] = moved[c][s]
    BY DEF Put, Over
  <2>3. DOMAIN moved[c] = DOMAIN work[c]
    BY <1>2 DEF SessionInv
  <2>4. QED
    BY <1>1, <1>7, <2>1, <2>2, <2>3
<1>10. IsPartial(work'[c], 1..serial, Vectors)
  <2> DEFINE D == 1..serial
             w == work[c]
             r == cur[c]
  <2>1. IsPartial(w, D, Vectors) /\ r \in D
    BY <1>2, <1>3 DEF TypeOK, LocalsTypeOK
  <2> HIDE DEF D, w, r
  <2>2. IsPartial(Put(r, b, w), D, Vectors)
    BY <1>5, <2>1, PutPartial
  <2>3. QED
    BY <1>7, <2>2 DEF D, w, r
<1>11. IsPartial(moved'[c], DOMAIN work'[c], Vectors)
  <2>1. IsPartial(moved[c], DOMAIN work'[c], Vectors)
    BY <1>2, <1>8, PartialGrows DEF TypeOK, LocalsTypeOK
  <2>2. row \in DOMAIN work'[c]
    BY <1>8
  <2> DEFINE D == DOMAIN work'[c]
  <2> HIDE DEF D
  <2>3. IsPartial(moved[c], D, Vectors) /\ row \in D
    BY <2>1, <2>2 DEF D
  <2>4. IsPartial(Put(row, es, moved[c]), D, Vectors)
    BY <1>5, <2>3, PutPartial
  <2>5. QED
    BY <1>7, <2>4 DEF D
<1>12. ASSUME NEW s \in DOMAIN work[c]
       PROVE  RowInv(c, s)'
  <2>1. RowInv(c, s) /\ s # row
    BY <1>1, <1>2 DEF SessionInv
  <2>2. Replaced(c, s)' = Replaced(c, s)
    BY <1>1, <2>1 DEF Replaced
  <2>3. work'[c][s] = work[c][s] /\ moved'[c][s] = moved[c][s]
    BY <1>9
  <2>4. Indexed(work[c][s], moved[c][s], s)'
    BY <1>1, <2>1, <2>3 DEF RowInv, Indexed
  <2>5. QED
    BY <1>1, <2>1, <2>2, <2>3, <2>4 DEF RowInv, Serves
<1>13. RowInv(c, row)'
  <2>1. Replaced(c, row)' = {}
    BY <1>1, <1>7 DEF Replaced, slots
  <2>2. QED
    BY <1>1, <1>3, <1>6, <1>8, <2>1 DEF RowInv, Serves, Indexed, b
<1>14. SessionInv(c)'
  <2>1. todo'[c] \subseteq DOMAIN call'[c].changes[cur'[c]]
    BY <1>1, <1>7 DEF slots
  <2>2. \A s \in DOMAIN work'[c] : RowInv(c, s)'
    BY <1>1, <1>8, <1>12, <1>13
  <2>3. QED
    BY <1>1, <1>2, <1>8, <2>1, <2>2 DEF SessionInv, Serves
<1>15. \A d \in Sessions \ {c} : DOMAIN work'[c] \cap DOMAIN work[d] = {}
  BY <1>1, <1>8 DEF IInv, SessionsInv, Apart
<1>16. QED
  BY <1>1, <1>7, <1>10, <1>11, <1>14, <1>15, LocalStepKeeps DEF IInv, TypeOK, LocalsTypeOK

(* A slot of a vector of leaves replaced, and its entries renamed.          *)
LEMMA RenamedVectors ==
  ASSUME NEW b \in Vectors, NEW es \in Vectors, NEW i \in DOMAIN b, NEW new \in Leaves,
         NEW old
  PROVE  [b EXCEPT ![i] = new] \in Vectors /\ Renamed(es, old, new) \in Vectors
<1>1. ASSUME NEW f \in Vectors, NEW g, g \in [DOMAIN f -> Leaves]
      PROVE  g \in Vectors
  <2>1. f \in Seq(Leaves) /\ Len(f) \in Nat /\ DOMAIN f = 1..Len(f) /\ Len(f) # 0
    BY DEF Vectors
  <2>2. g \in [1..Len(f) -> Leaves]
    BY <1>1, <2>1
  <2>3. g \in Seq(Leaves) /\ Len(g) = Len(f)
    BY <2>1, <2>2, SeqDef, LenProperties
  <2>4. QED
    BY <2>1, <2>3 DEF Vectors
<1>2. [b EXCEPT ![i] = new] \in Vectors
  <2>1. \A k \in DOMAIN b : b[k] \in Leaves
    BY DEF Vectors
  <2>2. QED
    BY <1>1, <2>1
<1>3. Renamed(es, old, new) \in Vectors
  <2>1. \A k \in DOMAIN es : es[k] \in Leaves
    BY DEF Vectors
  <2>2. QED
    BY <1>1, <2>1 DEF Renamed
<1>4. QED
  BY <1>2, <1>3

LEMMA UpdateSlotKeeps ==
  ASSUME IInv, NEW c \in Sessions, UpdateSlot(c)
  PROVE  IInv'
<1> DEFINE row == cur[c]
           w == work[c]
           m == moved[c]
           b == w[row]
           es == m[row]
           slots == call[c].changes[row]
<1>1. PICK i \in todo[c] :
        /\ i \in DOMAIN b
        /\ work' = [work EXCEPT ![c] = Put(row, [b EXCEPT ![i] = slots[i]], w)]
        /\ moved' = [moved EXCEPT ![c] = Put(row, Renamed(es, b[i], slots[i]), m)]
        /\ todo' = [todo EXCEPT ![c] = todo[c] \ {i}]
        /\ merged' = IF \E j \in DOMAIN b \ {i} : b[j] = slots[i]
                        THEN merged \cup {row} ELSE merged
  BY DEF UpdateSlot
<1> DEFINE new == slots[i]
           nb == [b EXCEPT ![i] = new]
           ne == Renamed(es, b[i], new)
<1>2. UNCHANGED <<serial, rootOf, leavesOf, entries, call, drawn, cur, returned>>
  BY DEF UpdateSlot, tables
<1>3. TypeOK /\ SessionInv(c)
  BY DEF IInv, SessionsInv
<1>4. /\ row # None /\ row \in DOMAIN w /\ i \in DOMAIN slots
      /\ DOMAIN m = DOMAIN w
      /\ \A s \in DOMAIN w : RowInv(c, s)
  BY <1>3 DEF SessionInv
<1>5. /\ RowInv(c, row) /\ row \in DOMAIN leavesOf /\ Serves(c, "update")
      /\ row \in DOMAIN call[c].changes
  BY <1>4 DEF RowInv
<1>6. new \in Leaves
  BY <1>3, <1>4, <1>5, CallTypes
<1>7. b \in Vectors /\ es \in Vectors /\ row \in 1..serial
  BY <1>3, <1>4 DEF TypeOK, LocalsTypeOK, IsPartial
<1>8. Indexed(b, es, row)
  BY <1>5 DEF RowInv
<1> HIDE DEF new, b, es
<1>9. nb \in Vectors /\ ne \in Vectors
  BY <1>1, <1>6, <1>7, RenamedVectors
<1>10. /\ DOMAIN nb = DOMAIN b /\ nb[i] = new
       /\ \A j \in DOMAIN b \ {i} : nb[j] = b[j]
  BY <1>1
<1>11. /\ row \in merged => row \in merged'
       /\ \A s : s # row /\ s \notin merged => s \notin merged'
       /\ row \notin merged' => \A j \in DOMAIN b \ {i} : b[j] # new
       /\ merged \subseteq merged' /\ merged' \subseteq 1..serial
  BY <1>1, <1>3, <1>7 DEF TypeOK, new, b
<1>12. Range(ne) \subseteq Range(nb) /\ (row \notin merged' => Distinct(nb) /\ ne = nb)
  <2>1. Range(es) \subseteq Range(b) /\ (row \notin merged => Distinct(b) /\ es = b)
    BY <1>8 DEF Indexed
  <2>0. i \in DOMAIN b
    BY <1>1
  <2>2. /\ DOMAIN ne = DOMAIN es
        /\ \A k \in DOMAIN es : ne[k] = IF es[k] = b[i] THEN new ELSE es[k]
    BY DEF Renamed
  <2>3. ASSUME NEW k \in DOMAIN es
        PROVE  \E j \in DOMAIN nb : nb[j] = ne[k]
    <3>1. CASE es[k] = b[i]
      BY <1>10, <2>0, <2>2, <3>1
    <3>2. CASE es[k] # b[i]
      <4>1. PICK j \in DOMAIN b : b[j] = es[k]
        BY <2>1 DEF Range
      <4>2. j # i
        BY <3>2, <4>1
      <4>3. QED
        BY <1>10, <2>2, <3>2, <4>1, <4>2
    <3>3. QED
      BY <3>1, <3>2
  <2>4. Range(ne) \subseteq Range(nb)
    BY <2>2, <2>3 DEF Range
  <2>5. ASSUME row \notin merged'
        PROVE  Distinct(nb) /\ ne = nb
    <3>1. Distinct(b) /\ es = b /\ \A j \in DOMAIN b \ {i} : b[j] # new
      BY <1>11, <2>1, <2>5
    <3>2. \A k \in DOMAIN b : k # i => b[k] # b[i]
      BY <2>0, <3>1 DEF Distinct
    <3>3. ne = nb
      BY <3>1, <3>2 DEF Renamed
    <3>4. Distinct(nb)
      BY <1>10, <3>1 DEF Distinct
    <3>5. QED
      BY <3>3, <3>4
  <2>6. QED
    BY <2>4, <2>5
<1> HIDE DEF nb, ne
<1>13. /\ work'[c] = Put(row, nb, w) /\ moved'[c] = Put(row, ne, m)
       /\ todo'[c] = todo[c] \ {i} /\ todo' \in [Sessions -> SUBSET Nat]
       /\ DOMAIN work' = Sessions /\ DOMAIN moved' = Sessions
       /\ \A d \in Sessions \ {c} : todo'[d] = todo[d] /\ work'[d] = work[d] /\ moved'[d] = moved[d]
  BY <1>1, <1>3 DEF TypeOK, LocalsTypeOK, nb, ne, new, b, es
<1> HIDE DEF w, m
<1>14. /\ DOMAIN work'[c] = DOMAIN w /\ DOMAIN moved'[c] = DOMAIN w
       /\ work'[c][row] = nb /\ moved'[c][row] = ne
       /\ \A s \in DOMAIN w \ {row} : work'[c][s] = w[s] /\ moved'[c][s] = m[s]
  <2>1. DOMAIN Put(row, nb, w) = DOMAIN w \cup {row} /\ Put(row, nb, w)[row] = nb
    BY DEF Put, Over
  <2>2. DOMAIN Put(row, ne, m) = DOMAIN m \cup {row} /\ Put(row, ne, m)[row] = ne
    BY DEF Put, Over
  <2>3. \A s \in DOMAIN w \ {row} : Put(row, nb, w)[s] = w[s]
    BY DEF Put, Over
  <2>4. \A s \in DOMAIN m \ {row} : Put(row, ne, m)[s] = m[s]
    BY DEF Put, Over
  <2>5. QED
    BY <1>4, <1>13, <2>1, <2>2, <2>3, <2>4
<1>15. IsPartial(work'[c], 1..serial, Vectors)
  <2> DEFINE D == 1..serial
             r == cur[c]
  <2>1. IsPartial(w, D, Vectors) /\ r \in D
    BY <1>3, <1>7 DEF TypeOK, LocalsTypeOK, w
  <2> HIDE DEF D, r
  <2>2. IsPartial(Put(r, nb, w), D, Vectors)
    BY <1>9, <2>1, PutPartial
  <2>3. QED
    BY <1>13, <2>2 DEF D, r
<1>16. IsPartial(moved'[c], DOMAIN work'[c], Vectors)
  <2> DEFINE D == DOMAIN w
             r == cur[c]
  <2>1. IsPartial(m, D, Vectors) /\ r \in D
    BY <1>3, <1>4 DEF TypeOK, LocalsTypeOK, w, m
  <2> HIDE DEF D, r
  <2>2. IsPartial(Put(r, ne, m), D, Vectors)
    BY <1>9, <2>1, PutPartial
  <2>3. QED
    BY <1>13, <1>14, <2>2 DEF D, r
<1>17. ASSUME NEW s \in DOMAIN w, s # row
       PROVE  RowInv(c, s)'
  <2>1. RowInv(c, s)
    BY <1>4, <1>17
  <2>2. Replaced(c, s)' = Replaced(c, s)
    BY <1>2, <1>17 DEF Replaced
  <2>3. work'[c][s] = work[c][s] /\ moved'[c][s] = moved[c][s]
    BY <1>14, <1>17 DEF w, m
  <2>4. Indexed(work[c][s], moved[c][s], s)'
    BY <1>11, <1>17, <2>1, <2>3 DEF RowInv, Indexed
  <2>5. QED
    BY <1>2, <2>1, <2>2, <2>3, <2>4 DEF RowInv, Serves
<1>18. RowInv(c, row)'
  <2>1. Replaced(c, row) = DOMAIN slots \ todo[c]
    BY DEF Replaced
  <2>2. Replaced(c, row)' = Replaced(c, row) \cup {i}
    BY <1>2, <1>4, <1>13, <2>1 DEF Replaced
  <2>3. /\ DOMAIN b = DOMAIN leavesOf[row]
        /\ Replaced(c, row) \subseteq DOMAIN leavesOf[row]
        /\ \A j \in DOMAIN leavesOf[row] :
             b[j] = IF j \in Replaced(c, row) THEN slots[j] ELSE leavesOf[row][j]
    BY <1>5 DEF RowInv, b, w
  <2>4. \A j \in DOMAIN leavesOf[row] :
          nb[j] = IF j \in Replaced(c, row)' THEN slots[j] ELSE leavesOf[row][j]
    BY <1>1, <1>10, <2>2, <2>3 DEF new
  <2>5. work'[c][row] = nb /\ moved'[c][row] = ne
    BY <1>14
  <2>6. Indexed(work[c][row], moved[c][row], row)'
    BY <1>2, <1>12, <2>5 DEF Indexed
  <2>7. /\ Serves(c, "update")' /\ DOMAIN work'[c][row] = DOMAIN leavesOf[row]
        /\ Replaced(c, row)' \subseteq DOMAIN leavesOf[row]
    BY <1>1, <1>2, <1>5, <1>10, <2>2, <2>3, <2>5 DEF Serves
  <2>8. QED
    BY <1>2, <1>5, <2>4, <2>5, <2>6, <2>7 DEF RowInv
<1>19. SessionInv(c)'
  <2>1. \A s \in DOMAIN work'[c] : RowInv(c, s)'
    BY <1>2, <1>14, <1>17, <1>18
  <2>2. todo'[c] \subseteq DOMAIN call'[c].changes[cur'[c]]
    BY <1>2, <1>3, <1>13 DEF SessionInv
  <2>3. QED
    BY <1>2, <1>3, <1>4, <1>14, <2>1, <2>2 DEF SessionInv, Serves
<1>20. \A d \in Sessions \ {c} : DOMAIN work'[c] \cap DOMAIN work[d] = {}
  BY <1>14 DEF IInv, SessionsInv, Apart, w
<1>21. QED
  BY <1>2, <1>3, <1>11, <1>13, <1>15, <1>16, <1>19, <1>20, LocalStepKeeps DEF TypeOK, LocalsTypeOK

LEMMA UpdateCommitKeeps ==
  ASSUME IInv, NEW c \in Sessions, UpdateCommit(c)
  PROVE  IInv'
<1> DEFINE w == work[c]
           m == moved[c]
           Vs == Vectors
<1>1. /\ leavesOf' = Over(w, leavesOf) /\ entries' = Over(m, entries)
      /\ serial' = serial /\ rootOf' = rootOf
      /\ returned' = returned /\ merged' = merged
      /\ End(c)
  BY DEF UpdateCommit, history
<1>2. TypeOK /\ SessionInv(c)
  BY DEF IInv, SessionsInv
<1>3. DOMAIN m = DOMAIN w /\ \A s \in DOMAIN w : RowInv(c, s)
  BY <1>2 DEF SessionInv
<1>4. DOMAIN w \subseteq DOMAIN leavesOf /\ DOMAIN entries = DOMAIN leavesOf
  BY <1>2, <1>3 DEF RowInv, TypeOK, TablesTypeOK
<1>5. \A s \in DOMAIN w : Indexed(w[s], m[s], s)
  BY <1>3 DEF RowInv
<1>6. /\ IsPartial(w, 1..serial, Vectors) /\ IsPartial(m, 1..serial, Vectors)
      /\ IsPartial(leavesOf, 1..serial, Vectors) /\ IsPartial(entries, 1..serial, Vectors)
  BY <1>2, <1>3 DEF TypeOK, TablesTypeOK, LocalsTypeOK, IsPartial
<1> HIDE DEF w, m
<1>7. /\ DOMAIN leavesOf' = DOMAIN leavesOf
      /\ \A s \in DOMAIN w : leavesOf'[s] = w[s]
      /\ \A s \in DOMAIN leavesOf \ DOMAIN w : leavesOf'[s] = leavesOf[s]
  BY <1>1, <1>4 DEF Over
<1>8. /\ DOMAIN entries' = DOMAIN leavesOf
      /\ \A s \in DOMAIN w : entries'[s] = m[s]
      /\ \A s \in DOMAIN leavesOf \ DOMAIN w : entries'[s] = entries[s]
  BY <1>1, <1>3, <1>4 DEF Over
<1>9. TypeOK'
  <2>1. IsPartial(Over(w, leavesOf), 1..serial, Vectors)
    BY <1>6, OverPartial
  <2>2. IsPartial(Over(m, entries), 1..serial, Vectors)
    BY <1>6, OverPartial
  <2>3. TablesTypeOK'
    BY <1>1, <1>2, <1>7, <1>8, <2>1, <2>2 DEF TypeOK, TablesTypeOK
  <2>4. LocalsTypeOK'
    BY <1>1, <1>2, EndIs DEF LocalsTypeOK
  <2>5. QED
    BY <1>1, <1>2, <2>3, <2>4 DEF TypeOK
<1>10. /\ drawn'[c] = 0 /\ cur'[c] = None /\ todo'[c] = {}
       /\ work'[c] = Empty /\ moved'[c] = Empty
       /\ \A d \in Sessions \ {c} :
            /\ call'[d] = call[d] /\ drawn'[d] = drawn[d] /\ cur'[d] = cur[d]
            /\ todo'[d] = todo[d] /\ work'[d] = work[d] /\ moved'[d] = moved[d]
  BY <1>1, <1>2, EndIs
<1>11. ASSUME NEW d \in Sessions \ {c}
       PROVE  SessionInv(d)'
  <2>1. SessionInv(d)
    BY DEF IInv, SessionsInv
  <2>2. DOMAIN w \cap DOMAIN work[d] = {}
    BY DEF IInv, SessionsInv, Apart, w
  <2>3. \A s \in DOMAIN work[d] : leavesOf'[s] = leavesOf[s]
    BY <1>7, <2>1, <2>2 DEF SessionInv, RowInv
  <2>4. drawn[d] # 0 => drawn[d] \notin DOMAIN leavesOf'
    BY <1>7, <2>1 DEF SessionInv
  <2>5. QED
    BY <1>1, <1>7, <1>10, <2>1, <2>3, <2>4, OthersKeep
<1>12. SessionInv(c)'
  BY <1>10, NothingInHand
<1>13. \A d, e \in Sessions : d # e => Apart(d, e)'
  BY <1>10, EmptyIs DEF IInv, SessionsInv, Apart
<1>14. ASSUME NEW s \in DOMAIN leavesOf'
       PROVE  Indexed(leavesOf[s], entries[s], s)'
  <2>1. CASE s \in DOMAIN w
    BY <1>1, <1>5, <1>7, <1>8, <2>1 DEF Indexed
  <2>2. CASE s \notin DOMAIN w
    BY <1>1, <1>7, <1>8, <2>2 DEF Indexed, IInv, IndexInv
  <2>3. QED
    BY <2>1, <2>2
<1>15. returned' \subseteq DOMAIN leavesOf'
  BY <1>1, <1>7 DEF IInv
<1>16. QED
  BY <1>9, <1>11, <1>12, <1>13, <1>14, <1>15 DEF IInv, SessionsInv, IndexInv

-----------------------------------------------------------------------------
LEMMA InitInv == Init => IInv
<1> SUFFICES ASSUME Init
             PROVE  IInv
  OBVIOUS
<1>1. DOMAIN leavesOf = {} /\ DOMAIN rootOf = {} /\ DOMAIN entries = {}
      /\ IsPartial(leavesOf, 1..serial, Vectors) /\ IsPartial(entries, 1..serial, Vectors)
      /\ IsPartial(rootOf, 1..serial, Roots)
  BY EmptyIs DEF Init
<1>2. \A c \in Sessions :
        /\ drawn[c] = 0 /\ cur[c] = None /\ todo[c] = {}
        /\ DOMAIN work[c] = {} /\ DOMAIN moved[c] = {}
        /\ IsPartial(work[c], 1..serial, Vectors)
        /\ IsPartial(moved[c], DOMAIN work[c], Vectors)
  BY EmptyIs DEF Init
<1>3. TypeOK
  BY <1>1, <1>2, PostgresAssumption DEF Init, TypeOK, TablesTypeOK, LocalsTypeOK
<1>4. SessionsInv
  BY <1>2 DEF SessionsInv, SessionInv, Apart
<1>5. QED
  BY <1>1, <1>3, <1>4 DEF Init, IInv, IndexInv

LEMMA StepInv == IInv /\ [Next]_vars => IInv'
<1> SUFFICES ASSUME IInv, [Next]_vars
             PROVE  IInv'
  OBVIOUS
<1>1. CASE UNCHANGED vars
  BY <1>1 DEF vars, tables, locals, history, IInv, TypeOK, TablesTypeOK, LocalsTypeOK,
              IndexInv, Indexed, SessionsInv, SessionInv, RowInv, Replaced, Apart, Serves
<1>2. ASSUME NEW c \in Sessions, NEW r \in Requests, Begin(c, r)
      PROVE  IInv'
  BY <1>2, BeginKeeps
<1>3. ASSUME NEW c \in Sessions, Progress(c)
      PROVE  IInv'
  <2>1. CASE InsertRow(c)
    BY <2>1, InsertRowKeeps
  <2>2. CASE InsertExhausted(c)
    BY <2>2, DropKeeps DEF InsertExhausted
  <2>3. CASE InsertCommit(c)
    BY <2>3, InsertCommitKeeps
  <2>4. ASSUME NEW s \in 0..(2 * LastSerial + 1), UpdateNext(c, s)
        PROVE  IInv'
    BY <2>4, UpdateNextKeeps
  <2>5. CASE UpdateLock(c)
    BY <2>5, UpdateLockKeeps
  <2>6. CASE UpdateSlot(c)
    BY <2>6, UpdateSlotKeeps
  <2>7. CASE UpdateStops(c)
    BY <2>7, DropKeeps DEF UpdateStops
  <2>8. CASE UpdateCommit(c)
    BY <2>8, UpdateCommitKeeps
  <2>9. QED
    BY <1>3, <2>1, <2>2, <2>3, <2>4, <2>5, <2>6, <2>7, <2>8 DEF Progress
<1>4. ASSUME NEW c \in Sessions, StatementFails(c)
      PROVE  IInv'
  BY <1>4, DropKeeps DEF StatementFails
<1>5. QED
  BY <1>1, <1>2, <1>3, <1>4 DEF Next

LEMMA Invariance == Spec => []IInv
  BY InitInv, StepInv, PTL DEF Spec

(* Tables and transactions stay well formed: a number is used once and the  *)
(* copies of a transaction are of rows that exist.                         *)
THEOREM TypeCorrect == Spec => []TypeOK
<1>1. IInv => TypeOK
  BY DEF IInv
<1>2. QED
  BY <1>1, Invariance, PTL

(* A number that insert answered with names a batch with leaves for ever    *)
(* after (queries.rs:17-45, 89-118).                                       *)
THEOREM NumbersLoad == Spec => []ReturnedNumbersLoad
<1>1. ASSUME IInv, NEW n \in returned
      PROVE  n \in DOMAIN Loaded({n}) /\ Loaded({n})[n] # <<>>
  <2>1. n \in DOMAIN leavesOf /\ n \in 1..serial /\ serial \in 0..LastSerial
        /\ leavesOf[n] \in Vectors
    BY <1>1 DEF IInv, TypeOK, TablesTypeOK, IsPartial
  <2>2. Row(n) = n
    BY <2>1, PostgresAssumption DEF Row
  <2>3. QED
    BY <2>1, <2>2 DEF Loaded, Vectors
<1>2. IInv => ReturnedNumbersLoad
  BY <1>1 DEF ReturnedNumbersLoad
<1>3. QED
  BY <1>2, Invariance, PTL

(* get_by_leaf never answers with a batch that does not hold the leaf, and   *)
(* finds every leaf of a batch in which no two slots were ever equal         *)
(* (queries.rs:52-62, 153-168).                                            *)
THEOREM LookupsStayRight == Spec => []LookupsRight
<1>1. ASSUME IInv
      PROVE  LookupsRight
  <2>1. \A s \in DOMAIN leavesOf : Indexed(leavesOf[s], entries[s], s)
    BY <1>1 DEF IInv, IndexInv
  <2>2. DOMAIN entries = DOMAIN leavesOf
    BY <1>1 DEF IInv, TypeOK, TablesTypeOK
  <2>3. ASSUME NEW leaf \in Leaves, NEW b \in Found(leaf)
        PROVE  leaf \in Range(b)
    <3>1. PICK s \in DOMAIN entries : leaf \in Range(entries[s]) /\ b = leavesOf[s]
      BY <2>3 DEF Found
    <3>2. QED
      BY <2>1, <2>2, <3>1 DEF Indexed
  <2>4. \A s \in DOMAIN leavesOf \ merged : Range(entries[s]) = Range(leavesOf[s])
    BY <2>1 DEF Indexed
  <2>5. QED
    BY <2>3, <2>4 DEF LookupsRight
<1>2. QED
  BY <1>1, Invariance, PTL

-----------------------------------------------------------------------------
(* The promise of SharedLeafStore. *)

LEMMA InitPromise == Init => Promise!Init
  BY DEF Init, Promise!Init, Empty

LEMMA FailPromised ==
  ASSUME NEW c \in Sessions, call[c] # None, End(c), leavesOf' = leavesOf
  PROVE  Promise!Fail(c)
  BY DEF End, Promise!Fail, Promise!Return

LEMMA InsertPromised ==
  ASSUME IInv, NEW c \in Sessions, InsertCommit(c)
  PROVE  Promise!Insert(c)
<1> DEFINE n == drawn[c]
           b == call[c].leaves
<1>1. /\ Serves(c, "insert") /\ n # 0
      /\ leavesOf' = Put(n, b, leavesOf)
      /\ End(c)
  BY DEF InsertCommit
<1>2. TypeOK /\ SessionInv(c)
  BY DEF IInv, SessionsInv
<1>3. n \notin DOMAIN leavesOf /\ n \in 1..LastSerial
  <2>1. serial \in 0..LastSerial /\ n \in 0..serial
    BY <1>2 DEF TypeOK, TablesTypeOK, LocalsTypeOK
  <2>2. n \notin DOMAIN leavesOf
    BY <1>1, <1>2 DEF SessionInv
  <2>3. QED
    BY <1>1, <2>1, <2>2, PostgresAssumption
<1> HIDE DEF n, b
<1>4. leavesOf' = [s \in DOMAIN leavesOf \cup {n} |-> IF s = n THEN b ELSE leavesOf[s]]
  BY <1>1, <1>3 DEF Put, Over
<1>5. QED
  BY <1>1, <1>3, <1>4 DEF Promise!Insert, Promise!Return, End, Serves, b

LEMMA UpdatePromised ==
  ASSUME IInv, NEW c \in Sessions, UpdateCommit(c)
  PROVE  Promise!Update(c)
<1> DEFINE w == work[c]
           changes == call[c].changes
<1>1. /\ Serves(c, "update") /\ todo[c] = {} /\ Unlocked(c) = {}
      /\ leavesOf' = Over(w, leavesOf)
      /\ End(c)
  BY DEF UpdateCommit
<1>2. TypeOK /\ SessionInv(c)
  BY DEF IInv, SessionsInv
<1>3. \A s \in DOMAIN w : RowInv(c, s)
  BY <1>2 DEF SessionInv
<1>4. DOMAIN w \subseteq DOMAIN leavesOf /\ DOMAIN w \subseteq DOMAIN changes
  BY <1>3 DEF RowInv
<1>5. ASSUME NEW s \in DOMAIN changes
      PROVE  s \in DOMAIN w
  <2>1. Row(s) \in DOMAIN w
    BY <1>1 DEF Unlocked
  <2>2. s \in 0..(2 * LastSerial + 1)
    BY <1>1, <1>2, CallTypes
  <2>3. Row(s) \in Nat \ {0}
    BY <1>2, <2>1 DEF TypeOK, LocalsTypeOK, TablesTypeOK, IsPartial
  <2>4. Row(s) = s
    BY <2>2, <2>3, RowOfKey
  <2>5. QED
    BY <2>1, <2>4
<1>6. DOMAIN w = DOMAIN changes
  BY <1>4, <1>5
<1>7. ASSUME NEW s \in DOMAIN w
      PROVE  /\ DOMAIN changes[s] \subseteq DOMAIN leavesOf[s]
             /\ w[s] = Promise!Replace(leavesOf[s], changes[s])
  <2>1. RowInv(c, s) /\ Replaced(c, s) = DOMAIN changes[s]
    BY <1>1, <1>3 DEF Replaced
  <2>2. w[s] \in Vectors
    BY <1>2 DEF TypeOK, LocalsTypeOK, IsPartial
  <2>3. w[s] = [i \in DOMAIN w[s] |-> w[s][i]]
    BY <2>2 DEF Vectors
  <2>4. /\ DOMAIN w[s] = DOMAIN leavesOf[s] /\ DOMAIN changes[s] \subseteq DOMAIN leavesOf[s]
        /\ \A i \in DOMAIN leavesOf[s] :
             w[s][i] = IF i \in DOMAIN changes[s] THEN changes[s][i] ELSE leavesOf[s][i]
    BY <2>1 DEF RowInv
  <2>5. QED
    BY <2>3, <2>4 DEF Promise!Replace
<1> HIDE DEF w, changes
<1>8. leavesOf' = [s \in DOMAIN leavesOf |->
                    IF s \in DOMAIN changes THEN Promise!Replace(leavesOf[s], changes[s])
                                            ELSE leavesOf[s]]
  BY <1>1, <1>4, <1>6, <1>7 DEF Over
<1>9. /\ DOMAIN changes \subseteq DOMAIN leavesOf
      /\ \A s \in DOMAIN changes : DOMAIN changes[s] \subseteq DOMAIN leavesOf[s]
  BY <1>4, <1>6, <1>7
<1>10. QED
  BY <1>1, <1>8, <1>9 DEF Promise!Update, Promise!Return, End, Serves, changes

LEMMA StepPromise == IInv /\ [Next]_vars => [Promise!Next]_(Promise!vars)
<1> SUFFICES ASSUME IInv, [Next]_vars
             PROVE  [Promise!Next]_(Promise!vars)
  OBVIOUS
<1>1. ASSUME UNCHANGED <<leavesOf, call>>
      PROVE  [Promise!Next]_(Promise!vars)
  BY <1>1 DEF Promise!vars
<1>2. ASSUME NEW c \in Sessions, call[c] # None, End(c), leavesOf' = leavesOf
      PROVE  Promise!Next
  BY <1>2, FailPromised DEF Promise!Next
<1>3. CASE UNCHANGED vars
  BY <1>1, <1>3 DEF vars, tables, locals
<1>4. ASSUME NEW c \in Sessions, NEW r \in Requests, Begin(c, r)
      PROVE  Promise!Next
  <2>1. Promise!Call(c, r)
    BY <1>4 DEF Begin, tables, Promise!Call
  <2>2. QED
    BY <2>1 DEF Promise!Next
<1>5. ASSUME NEW c \in Sessions, Progress(c)
      PROVE  [Promise!Next]_(Promise!vars)
  <2>1. CASE InsertRow(c)
    BY <1>1, <2>1 DEF InsertRow
  <2>2. CASE InsertExhausted(c)
    BY <1>2, <2>2 DEF InsertExhausted, Serves, tables
  <2>3. CASE InsertCommit(c)
    BY <2>3, InsertPromised DEF Promise!Next
  <2>4. ASSUME NEW s \in 0..(2 * LastSerial + 1), UpdateNext(c, s)
        PROVE  [Promise!Next]_(Promise!vars)
    BY <1>1, <2>4 DEF UpdateNext, tables
  <2>5. CASE UpdateLock(c)
    BY <1>1, <2>5 DEF UpdateLock, tables
  <2>6. CASE UpdateSlot(c)
    BY <1>1, <2>6 DEF UpdateSlot, tables
  <2>7. CASE UpdateStops(c)
    <3>1. SessionInv(c)
      BY DEF IInv, SessionsInv
    <3>2. cur[c] # None
      BY <2>7, <3>1 DEF UpdateStops, RowMissing, SlotMissing, Deadlocked, Waiting, SessionInv
    <3>3. call[c] # None
      BY <3>1, <3>2 DEF SessionInv, Serves
    <3>4. QED
      BY <1>2, <2>7, <3>3 DEF UpdateStops, tables
  <2>8. CASE UpdateCommit(c)
    BY <2>8, UpdatePromised DEF Promise!Next
  <2>9. QED
    BY <1>5, <2>1, <2>2, <2>3, <2>4, <2>5, <2>6, <2>7, <2>8 DEF Progress
<1>6. ASSUME NEW c \in Sessions, StatementFails(c)
      PROVE  Promise!Next
  BY <1>2, <1>6 DEF StatementFails, tables
<1>7. QED
  BY <1>3, <1>4, <1>5, <1>6 DEF Next

(* Every call takes effect once, as a whole and on the current rows, or not  *)
(* at all: the rows an update has locked are rewritten by nobody else before *)
(* it commits (queries.rs:129-186).                                        *)
THEOREM StorePromise == Spec => PromiseSpec
  BY InitPromise, StepPromise, Invariance, PTL DEF Spec, PromiseSpec, Promise!Spec
=============================================================================
