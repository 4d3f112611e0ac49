---------------------------- MODULE PostgresStore ----------------------------
(***************************************************************************)
(* The Postgres implementation of the Store trait (store/postgres.rs and    *)
(* store/postgres/queries.rs).  Each writing call is one transaction on a   *)
(* connection of the pool; what it wrote is seen by others when it commits. *)
(* An update locks the rows of roots that it rewrites, one after the other, *)
(* and then works on a copy of their leaves.                               *)
(*                                                                         *)
(* Tables: roots(sequence_number, root, leaves) and                         *)
(* leaves(leaf, sequence_number).  The latter is kept as one vector of      *)
(* leaves per batch: entries[s] are the rows with that number.  The schema  *)
(* is not part of the repository; sequence_number is taken to be a SERIAL   *)
(* and leaves to have no unique column.                                    *)
(***************************************************************************)
EXTENDS Integers, Sequences, FiniteSets, Functions

CONSTANTS
  Sessions,         \* connections, each making one call at a time
  Leaves, Roots,
  Batches,          \* the leaf vectors passed to insert
  Changes,          \* the arguments of update_leaves_by_indices:
                    \* batch number |-> slot |-> new leaf
  LastSerial,       \* the largest number of the SERIAL, i32::MAX
  StatementFaults,  \* statements and commits may fail
  None

InsertCalls == [op : {"insert"}, root : Roots, leaves : Batches]
UpdateCalls == [op : {"update"}, changes : Changes]
Requests == InsertCalls \cup UpdateCalls

ASSUME PostgresAssumption ==
  /\ LastSerial \in Nat \ {0}
  /\ StatementFaults \in BOOLEAN
  /\ Batches \subseteq Seq(Leaves) \ {<<>>}
  /\ None \notin Requests /\ None \notin Int
  /\ \A c \in Changes : /\ DOMAIN c \subseteq 0..(2 * LastSerial + 1)
                        /\ \A s \in DOMAIN c : /\ DOMAIN c[s] \subseteq Nat \ {0}
                                               /\ IsFiniteSet(DOMAIN c[s])
                                               /\ \A i \in DOMAIN c[s] : c[s][i] \in Leaves

VARIABLES
  serial,    \* the last number drawn
  rootOf, leavesOf,   \* table roots
  entries,   \* table leaves
  call,      \* what each session is asked to do, or None
  drawn,     \* the number its insert has drawn, or zero
  cur,       \* the row its update is at, or None
  todo,      \* the slots it has still to replace there
  work,      \* the leaves of the rows it has locked, as rewritten so far
  moved,     \* the entries of these rows, as rewritten so far
  returned,  \* history: numbers that insert answered with
  merged     \* history: batches in which two slots held the same leaf

tables == <<serial, rootOf, leavesOf, entries>>
locals == <<call, drawn, cur, todo, work, moved>>
history == <<returned, merged>>
vars == <<tables, locals, history>>

Empty == [x \in {} |-> 0]

(* The rows of f, and those of g under other keys. *)
Over(f, g) ==
  [x \in DOMAIN f \cup DOMAIN g |-> IF x \in DOMAIN f THEN f[x] ELSE g[x]]
Put(key, value, g) == Over([k \in {key} |-> value], g)

Init ==
  /\ serial = 0
  /\ rootOf = Empty /\ leavesOf = Empty /\ entries = Empty
  /\ call = [c \in Sessions |-> None]
  /\ drawn = [c \in Sessions |-> 0]
  /\ cur = [c \in Sessions |-> None]
  /\ todo = [c \in Sessions |-> {}]
  /\ work = [c \in Sessions |-> Empty]
  /\ moved = [c \in Sessions |-> Empty]
  /\ returned = {} /\ merged = {}

Serves(c, op) == call[c] # None /\ call[c].op = op

Begin(c, r) ==
  /\ call[c] = None
  /\ call' = [call EXCEPT ![c] = r]
  /\ UNCHANGED <<tables, drawn, cur, todo, work, moved, history>>

(* The transaction is over, committed or dropped, and its locks are free. *)
End(c) ==
  /\ call' = [call EXCEPT ![c] = None]
  /\ drawn' = [drawn EXCEPT ![c] = 0]
  /\ cur' = [cur EXCEPT ![c] = None]
  /\ todo' = [todo EXCEPT ![c] = {}]
  /\ work' = [work EXCEPT ![c] = Empty]
  /\ moved' = [moved EXCEPT ![c] = Empty]

(* Any statement and the commit may fail: nothing of the transaction stays, *)
(* except that a number it has drawn is not drawn again.                   *)
StatementFails(c) ==
  /\ StatementFaults
  /\ call[c] # None
  /\ End(c)
  /\ UNCHANGED <<tables, history>>

-----------------------------------------------------------------------------
(* insert. *)

(* Mutation of InsertRow: the number is wider than an i32. *)
InsertRowUnbounded(c) ==
  /\ Serves(c, "insert") /\ drawn[c] = 0
  /\ serial' = serial + 1
  /\ drawn' = [drawn EXCEPT ![c] = serial + 1]
  /\ UNCHANGED <<rootOf, leavesOf, entries, call, cur, todo, work, moved, history>>

(* INSERT INTO roots draws the number. *)
InsertRow(c) ==
  /\ Serves(c, "insert") /\ drawn[c] = 0
  /\ serial < LastSerial
  /\ serial' = serial + 1
  /\ drawn' = [drawn EXCEPT ![c] = serial + 1]
  /\ UNCHANGED <<rootOf, leavesOf, entries, call, cur, todo, work, moved, history>>

(* No number is left. *)
InsertExhausted(c) ==
  /\ Serves(c, "insert") /\ drawn[c] = 0
  /\ serial = LastSerial
  /\ End(c)
  /\ UNCHANGED <<tables, history>>

Distinct(b) == \A i, j \in DOMAIN b : b[i] = b[j] => i = j

(* Mutation of InsertCommit: without a commit, dropping the transaction      *)
(* undoes it.                                                              *)
InsertForgetsCommit(c) ==
  /\ Serves(c, "insert") /\ drawn[c] # 0
  /\ returned' = returned \cup {drawn[c]}
  /\ End(c)
  /\ UNCHANGED <<tables, merged>>

(* One row of leaves for each leaf, then the commit. *)
InsertCommit(c) ==
  /\ Serves(c, "insert") /\ drawn[c] # 0
  /\ rootOf' = Put(drawn[c], call[c].root, rootOf)
  /\ leavesOf' = Put(drawn[c], call[c].leaves, leavesOf)
  /\ entries' = Put(drawn[c], call[c].leaves, entries)
  /\ returned' = returned \cup {drawn[c]}
  /\ merged' = IF Distinct(call[c].leaves) THEN merged ELSE merged \cup {drawn[c]}
  /\ End(c)
  /\ UNCHANGED serial

-----------------------------------------------------------------------------
(* update_leaves_by_indices. *)

(* "as i32": the numbers of the upper half of u32 become negative. *)
Row(s) == IF s <= LastSerial THEN s ELSE s - 2 * (LastSerial + 1)

Waiting(c) == cur[c] # None /\ cur[c] \notin DOMAIN work[c]
Unlocked(c) == {s \in DOMAIN call[c].changes : Row(s) \notin DOMAIN work[c]}

(* The loop turns to its next batch, in the arbitrary order of a HashMap.   *)
UpdateNext(c, s) ==
  /\ Serves(c, "update")
  /\ ~Waiting(c) /\ todo[c] = {}
  /\ s \in Unlocked(c)
  /\ cur' = [cur EXCEPT ![c] = Row(s)]
  /\ UNCHANGED <<tables, call, drawn, todo, work, moved, history>>

LockedByOther(c, row) == \E d \in Sessions \ {c} : row \in DOMAIN work[d]

(* Mutation of UpdateLock: SELECT without FOR UPDATE. *)
UpdateReads(c) ==
  /\ Waiting(c) /\ cur[c] \in DOMAIN leavesOf
  /\ work' = [work EXCEPT ![c] = Put(cur[c], leavesOf[cur[c]], @)]
  /\ moved' = [moved EXCEPT ![c] = Put(cur[c], entries[cur[c]], @)]
  /\ todo' = [todo EXCEPT ![c] = DOMAIN call[c].changes[cur[c]]]
  /\ UNCHANGED <<tables, call, drawn, cur, history>>

(* SELECT leaves ... FOR UPDATE answers once no other transaction has the   *)
(* row locked, with what that one committed.                               *)
UpdateLock(c) ==
  /\ Waiting(c) /\ cur[c] \in DOMAIN leavesOf
  /\ ~LockedByOther(c, cur[c])
  /\ work' = [work EXCEPT ![c] = Put(cur[c], leavesOf[cur[c]], @)]
  /\ moved' = [moved EXCEPT ![c] = Put(cur[c], entries[cur[c]], @)]
  /\ todo' = [todo EXCEPT ![c] = DOMAIN call[c].changes[cur[c]]]
  /\ UNCHANGED <<tables, call, drawn, cur, history>>

(* Mutation of Renamed: the WHERE clause forgets the leaf. *)
RenamedAll(es, old, new) == [k \in DOMAIN es |-> new]

(* UPDATE leaves SET leaf = new WHERE sequence_number = ... AND leaf = old: *)
(* all entries of the batch with the old leaf, not only that of the slot.  *)
Renamed(es, old, new) == [k \in DOMAIN es |-> IF es[k] = old THEN new ELSE es[k]]

(* One turn of the inner loop, slots ascending: i exists and is replaced.   *)
UpdateSlot(c) ==
  /\ todo[c] # {}
  /\ \E i \in todo[c] :
       LET b == work[c][cur[c]]
           new == call[c].changes[cur[c]][i]
       IN /\ \A j \in todo[c] : i <= j
          /\ i \in DOMAIN b
          /\ work' = [work EXCEPT ![c] = Put(cur[c], [b EXCEPT ![i] = new], @)]
          /\ moved' = [moved EXCEPT ![c] =
                         Put(cur[c], Renamed(moved[c][cur[c]], b[i], new), @)]
          /\ todo' = [todo EXCEPT ![c] = @ \ {i}]
          /\ merged' = IF \E j \in DOMAIN b \ {i} : b[j] = new
                         THEN merged \cup {cur[c]} ELSE merged
  /\ UNCHANGED <<tables, call, drawn, cur, returned>>

(* The row is missing. *)
RowMissing(c) == Waiting(c) /\ cur[c] \notin DOMAIN leavesOf

(* The next slot is out of bounds. *)
SlotMissing(c) ==
  \E i \in todo[c] : (\A j \in todo[c] : i <= j) /\ i \notin DOMAIN work[c][cur[c]]

(* Postgres finds that c is part of a circle of transactions each of which  *)
(* waits for a row that another one of them has locked.                    *)
Deadlocked(c) ==
  \E D \in SUBSET Sessions :
    /\ c \in D
    /\ \A d \in D : Waiting(d) /\ \E e \in D \ {d} : cur[d] \in DOMAIN work[e]
    /\ \A e \in D : \E d \in D \ {e} : Waiting(d) /\ cur[d] \in DOMAIN work[e]

(* Mutation of UpdateStops: a missing row is waited for. *)
UpdateStopsOnSlots(c) ==
  /\ SlotMissing(c) \/ Deadlocked(c)
  /\ End(c)
  /\ UNCHANGED <<tables, history>>

(* Returning an error drops the transaction with everything it wrote. *)
UpdateStops(c) ==
  /\ RowMissing(c) \/ SlotMissing(c) \/ Deadlocked(c)
  /\ End(c)
  /\ UNCHANGED <<tables, history>>

UpdateCommit(c) ==
  /\ Serves(c, "update")
  /\ ~Waiting(c) /\ todo[c] = {} /\ Unlocked(c) = {}
  /\ leavesOf' = Over(work[c], leavesOf)
  /\ entries' = Over(moved[c], entries)
  /\ End(c)
  /\ UNCHANGED <<serial, rootOf, history>>

-----------------------------------------------------------------------------
(* The reads, one statement each. *)

(* get_by_leaf: any batch that the leaf is entered for. *)
Found(leaf) == {leavesOf[s] : s \in {t \in DOMAIN entries : leaf \in Range(entries[t])}}

(* get_leaves_set_by_seq_number: the batches that exist. *)
Loaded(seqs) ==
  [n \in {s \in seqs : Row(s) \in DOMAIN leavesOf} |-> leavesOf[Row(n)]]

-----------------------------------------------------------------------------
Progress(c) ==
  \/ InsertRow(c) \/ InsertExhausted(c) \/ InsertCommit(c)
  \/ \E s \in 0..(2 * LastSerial + 1) : UpdateNext(c, s)
  \/ UpdateLock(c) \/ UpdateSlot(c) \/ UpdateStops(c) \/ UpdateCommit(c)

Next ==
  \E c \in Sessions :
    \/ \E r \in Requests : Begin(c, r)
    \/ Progress(c)
    \/ StatementFails(c)

(* The task of a call is polled, and Postgres hands a lock on to those that *)
(* wait for it.                                                            *)
Spec == Init /\ [][Next]_vars
FairSpec == Spec /\ \A c \in Sessions : SF_vars(Progress(c))

-----------------------------------------------------------------------------
Vectors == Seq(Leaves) \ {<<>>}
IsPartial(f, S, T) == DOMAIN f \subseteq S /\ f \in [DOMAIN f -> T]

TablesTypeOK ==
  /\ serial \in 0..LastSerial
  /\ IsPartial(rootOf, 1..serial, Roots)
  /\ IsPartial(leavesOf, 1..serial, Vectors)
  /\ IsPartial(entries, 1..serial, Vectors)
  /\ DOMAIN rootOf = DOMAIN leavesOf /\ DOMAIN entries = DOMAIN leavesOf

LocalsTypeOK ==
  /\ call \in [Sessions -> Requests \cup {None}]
  /\ drawn \in [Sessions -> 0..serial]
  /\ cur \in [Sessions -> Int \cup {None}]
  /\ todo \in [Sessions -> SUBSET Nat]
  /\ DOMAIN work = Sessions /\ DOMAIN moved = Sessions
  /\ \A c \in Sessions :
       /\ IsPartial(work[c], 1..serial, Vectors)
       /\ IsPartial(moved[c], DOMAIN work[c], Vectors)

TypeOK ==
  /\ TablesTypeOK /\ LocalsTypeOK
  /\ returned \subseteq 1..serial /\ merged \subseteq 1..serial

(* Numbers are given once although they are drawn outside of the           *)
(* transaction, and a number that a caller was told names a batch with      *)
(* leaves for ever after: an update that names it finds something to load   *)
(* (queries.rs:17-45, 89-118; worker.rs:126-134, where a load of no leaves  *)
(* ends at the assertion merkle.rs:52).                                    *)
ReturnedNumbersLoad ==
  \A n \in returned : n \in DOMAIN Loaded({n}) /\ Loaded({n})[n] # <<>>

(* get_by_leaf answers with a batch that holds the leaf, whatever slots      *)
(* were replaced in whatever order, and finds every leaf of a batch in which *)
(* no two slots were ever equal.  Only where they were, by an insert or      *)
(* between two replacements, can "WHERE leaf = old" rename the entry of a    *)
(* neighbour and lose it (queries.rs:52-62, 153-168).                        *)
LookupsRight ==
  /\ \A leaf \in Leaves : \A b \in Found(leaf) : leaf \in Range(b)
  /\ \A s \in DOMAIN leavesOf \ merged : Range(entries[s]) = Range(leavesOf[s])

(* Every call ends: two updates that lock the same rows in opposite order   *)
(* cannot wait for each other for ever, and no update waits for a row that  *)
(* does not exist (queries.rs:126-136, 145-151).                           *)
CallsEnd == \A c \in Sessions : call[c] # None ~> call[c] = None

(* The store keeps the promise of SharedLeafStore: what one update copies   *)
(* under its locks no other call changes before the copy is written back    *)
(* (queries.rs:129-186).                                                   *)
Promise == INSTANCE SharedLeafStore WITH
             Numbers <- 1..LastSerial, batches <- leavesOf, calling <- call

PromiseSpec == Promise!Spec
=============================================================================
