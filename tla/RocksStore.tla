----------------------------- MODULE RocksStore -----------------------------
(***************************************************************************)
(* The RocksDB implementation of the Store trait (store/rocks.rs and       *)
(* store/rocks/rocks_queries.rs).  Each method runs on its caller's thread *)
(* and takes no lock: an insert and an update interleave between their     *)
(* reads and the one atomic WriteBatch that ends each of them.             *)
(*                                                                         *)
(* Keys: "meta:latest", "r"+seq (root), "l"+seq (leaves), "i"+leaf (index).*)
(***************************************************************************)
EXTENDS Integers, Sequences, FiniteSets, Functions

CONSTANTS
  Leaves,          \* the 32-byte roots that issuers submit
  Roots,           \* the 32-byte roots of batches
  Batches,         \* the leaf vectors passed to insert
  Changes,         \* the arguments of update_leaves_by_indices:
                   \* batch number |-> slot |-> new leaf
  LastSeq,         \* the largest sequence number, u32::MAX
  OverflowChecks,  \* a build whose arithmetic panics instead of wrapping
  ReadFaults,      \* reads of roots, leaves and index may fail
  CounterFaults,   \* reads of "meta:latest" may fail
  WriteFaults,     \* the write of a WriteBatch may fail
  None

ASSUME StoreAssumption ==
  /\ LastSeq \in Nat \ {0}
  /\ {OverflowChecks, ReadFaults, CounterFaults, WriteFaults} \subseteq BOOLEAN
  /\ Batches \subseteq Seq(Leaves) \ {<<>>}
  /\ None \notin Batches /\ None \notin Changes
  /\ \A c \in Changes : /\ DOMAIN c \subseteq 0..LastSeq
                        /\ \A s \in DOMAIN c : /\ DOMAIN c[s] \subseteq Nat \ {0}
                                               /\ DOMAIN c[s] # {}
                                               /\ IsFiniteSet(DOMAIN c[s])
                                               /\ \A i \in DOMAIN c[s] : c[s][i] \in Leaves

VARIABLES
  latest,    \* value of "meta:latest"; zero, too, while the key is absent
  rootOf,    \* the "r" records
  leavesOf,  \* the "l" records
  index,     \* the "i" records
  ins,       \* locals of the insert being served
  upd        \* locals of the update being served

records == <<latest, rootOf, leavesOf, index>>
vars == <<latest, rootOf, leavesOf, index, ins, upd>>

Idle == [phase |-> "idle"]
Empty == [x \in {} |-> 0]

(* Writing records: those of f, and those of g under the other keys. *)
Over(f, g) ==
  [x \in DOMAIN f \cup DOMAIN g |-> IF x \in DOMAIN f THEN f[x] ELSE g[x]]
Put(key, value, g) == Over([k \in {key} |-> value], g)
Without(g, keys) == Restrict(g, DOMAIN g \ keys)

Init ==
  /\ latest = 0
  /\ rootOf = Empty
  /\ leavesOf = Empty
  /\ index = Empty
  /\ ins = Idle
  /\ upd = Idle

-----------------------------------------------------------------------------
(* Mutation of LatestRead: the counter is never understood. *)
LatestReadAsZero == {0}

(* insert.  get_latest_seq_internal() turns a failed read of the counter    *)
(* into zero, as if the store were empty.                                  *)
LatestRead == {latest} \cup (IF CounterFaults THEN {0} ELSE {})

(* latest + 1 in u32. *)
NextSeq(n) == (n + 1) % (LastSeq + 1)

(* The next number is computed: the overflow of the addition is a panic of  *)
(* the caller's task in one kind of build and a wrap to zero in the other.  *)
InsertOverflows == OverflowChecks /\ latest = LastSeq

(* Mutation of InsertBegin: the number is wider than a u32. *)
InsertWithoutOverflow(root, leaves) ==
  /\ ins = Idle
  /\ \E n \in LatestRead :
       ins' = [phase |-> "write", root |-> root, leaves |-> leaves, seq |-> n + 1]
  /\ UNCHANGED <<records, upd>>

InsertBegin(root, leaves) ==
  /\ ins = Idle
  /\ \E n \in LatestRead :
       /\ ~(OverflowChecks /\ n = LastSeq)
       /\ ins' = [phase |-> "write", root |-> root, leaves |-> leaves,
                  seq |-> NextSeq(n)]
  /\ UNCHANGED <<records, upd>>

(* Mutation of InsertWrite: the counter is not put. *)
InsertForgetsCounter ==
  /\ ins.phase = "write"
  /\ rootOf' = Put(ins.seq, ins.root, rootOf)
  /\ leavesOf' = Put(ins.seq, ins.leaves, leavesOf)
  /\ index' = Over([x \in Range(ins.leaves) |-> ins.seq], index)
  /\ ins' = Idle
  /\ UNCHANGED <<latest, upd>>

(* Mutation of InsertWrite: the counter is put as the number after next. *)
InsertCountsTwice ==
  /\ ins.phase = "write"
  /\ rootOf' = Put(ins.seq, ins.root, rootOf)
  /\ leavesOf' = Put(ins.seq, ins.leaves, leavesOf)
  /\ index' = Over([x \in Range(ins.leaves) |-> ins.seq], index)
  /\ latest' = ins.seq + 1
  /\ ins' = Idle
  /\ UNCHANGED upd

(* Mutation of InsertWrite: leaves are indexed under the previous number. *)
InsertIndexesPrevious ==
  /\ ins.phase = "write"
  /\ rootOf' = Put(ins.seq, ins.root, rootOf)
  /\ leavesOf' = Put(ins.seq, ins.leaves, leavesOf)
  /\ index' = Over([x \in Range(ins.leaves) |-> latest], index)
  /\ latest' = ins.seq
  /\ ins' = Idle
  /\ UNCHANGED upd

(* Mutation of InsertWrite: only the first leaf is indexed. *)
InsertIndexesFirst ==
  /\ ins.phase = "write"
  /\ rootOf' = Put(ins.seq, ins.root, rootOf)
  /\ leavesOf' = Put(ins.seq, ins.leaves, leavesOf)
  /\ index' = Put(ins.leaves[1], ins.seq, index)
  /\ latest' = ins.seq
  /\ ins' = Idle
  /\ UNCHANGED upd

(* db.write(wb) succeeds: root, leaves, one index record per distinct leaf  *)
(* and the counter appear together.                                        *)
InsertWrite ==
  /\ ins.phase = "write"
  /\ rootOf' = Put(ins.seq, ins.root, rootOf)
  /\ leavesOf' = Put(ins.seq, ins.leaves, leavesOf)
  /\ index' = Over([x \in Range(ins.leaves) |-> ins.seq], index)
  /\ latest' = ins.seq
  /\ ins' = Idle
  /\ UNCHANGED upd

InsertFails ==
  /\ WriteFaults
  /\ ins.phase = "write"
  /\ ins' = Idle
  /\ UNCHANGED <<records, upd>>

-----------------------------------------------------------------------------
(* update_leaves_by_indices.  The WriteBatch is kept by its net effect: the *)
(* leaf vectors to put, and for every leaf whose index record is touched    *)
(* its last operation, a put of a batch number or a delete.                *)

(* A vector after the replacements r of some of its slots. *)
Replace(b, r) == [i \in DOMAIN b |-> IF i \in DOMAIN r THEN r[i] ELSE b[i]]

(* Slots are processed in ascending order and each one deletes the record   *)
(* of its old leaf before it puts that of its new one: what remains put is  *)
(* what no later slot deletes again.                                       *)
Touched(b, r) == {b[i] : i \in DOMAIN r} \cup {r[i] : i \in DOMAIN r}
PutIn(b, r) ==
  {x \in Touched(b, r) :
     \E i \in DOMAIN r : r[i] = x /\ \A j \in DOMAIN r : j > i => b[j] # x}

UpdateBegin(c) ==
  /\ upd = Idle
  /\ upd' = [phase |-> "read", changes |-> c, left |-> DOMAIN c,
             raw |-> Empty, put |-> Empty, del |-> {}]
  /\ UNCHANGED <<records, ins>>

(* The batch exists and has all the slots to be replaced. *)
Readable(s) ==
  s \in DOMAIN leavesOf /\ DOMAIN upd.changes[s] \subseteq DOMAIN leavesOf[s]

(* One turn of the outer loop: read the batch, check the indices, replace.  *)
(* The list of batches comes from a HashMap, so its order is arbitrary.    *)
UpdateRead(s) ==
  /\ upd.phase = "read"
  /\ s \in upd.left
  /\ Readable(s)
  /\ LET b == leavesOf[s]
         r == upd.changes[s]
         puts == PutIn(b, r)
     IN upd' = [phase   |-> "read",
                changes |-> upd.changes,
                left    |-> upd.left \ {s},
                raw     |-> Put(s, Replace(b, r), upd.raw),
                put     |-> Over([x \in puts |-> s], Without(upd.put, Touched(b, r))),
                del     |-> (upd.del \ puts) \cup (Touched(b, r) \ puts)]
  /\ UNCHANGED <<records, ins>>

(* Mutation of UpdateStops: what was prepared so far is written. *)
UpdateStopsHalfway ==
  /\ upd.phase = "read"
  /\ \E s \in upd.left : ReadFaults \/ ~Readable(s)
  /\ leavesOf' = Over(upd.raw, leavesOf)
  /\ upd' = Idle
  /\ UNCHANGED <<latest, rootOf, index, ins>>

(* The loop ends early: a read fails, a batch is missing or an index is out *)
(* of bounds.  Nothing of the WriteBatch is written.                       *)
UpdateStops ==
  /\ upd.phase = "read"
  /\ \E s \in upd.left : ReadFaults \/ ~Readable(s)
  /\ upd' = Idle
  /\ UNCHANGED <<records, ins>>

(* Mutation of UpdateWrite: the records of replaced leaves stay. *)
UpdateForgetsDeletes ==
  /\ upd.phase = "read"
  /\ upd.left = {}
  /\ leavesOf' = Over(upd.raw, leavesOf)
  /\ index' = Over(upd.put, index)
  /\ upd' = Idle
  /\ UNCHANGED <<latest, rootOf, ins>>

UpdateWrite ==
  /\ upd.phase = "read"
  /\ upd.left = {}
  /\ leavesOf' = Over(upd.raw, leavesOf)
  /\ index' = Over(upd.put, Without(index, upd.del))
  /\ upd' = Idle
  /\ UNCHANGED <<latest, rootOf, ins>>

UpdateFails ==
  /\ WriteFaults
  /\ upd.phase = "read"
  /\ upd.left = {}
  /\ upd' = Idle
  /\ UNCHANGED <<records, ins>>

Next ==
  \/ \E leaves \in Batches, root \in Roots : InsertBegin(root, leaves)
  \/ InsertWrite
  \/ InsertFails
  \/ \E c \in Changes : UpdateBegin(c)
  \/ \E s \in 0..LastSeq : UpdateRead(s)
  \/ UpdateStops
  \/ UpdateWrite
  \/ UpdateFails

Spec == Init /\ [][Next]_vars

-----------------------------------------------------------------------------
Vectors == Seq(Leaves) \ {<<>>}
IsPartial(f, S, T) == DOMAIN f \subseteq S /\ f \in [DOMAIN f -> T]

RecordsTypeOK ==
  /\ latest \in 0..LastSeq
  /\ IsPartial(rootOf, 0..LastSeq, Roots)
  /\ IsPartial(leavesOf, 0..LastSeq, Vectors)
  /\ IsPartial(index, Leaves, 0..LastSeq)

InsertTypeOK ==
  \/ ins = Idle
  \/ ins \in [phase : {"write"}, root : Roots, leaves : Batches, seq : 0..LastSeq]

UpdateTypeOK ==
  \/ upd = Idle
  \/ /\ upd.phase = "read"
     /\ upd.changes \in Changes
     /\ upd.left \subseteq DOMAIN upd.changes
     /\ DOMAIN upd.raw = DOMAIN upd.changes \ upd.left
     /\ IsPartial(upd.raw, 0..LastSeq, Vectors)
     /\ IsPartial(upd.put, Leaves, 0..LastSeq)
     /\ upd.del \subseteq Leaves

TypeOK == RecordsTypeOK /\ InsertTypeOK /\ UpdateTypeOK

(* The batches are numbered 1..latest without gaps and the root and leaf    *)
(* records of each exist together (rocks_queries.rs:14-26): the number that *)
(* insert hands out is always new.                                         *)
NumbersAligned ==
  /\ DOMAIN leavesOf = 1..latest
  /\ DOMAIN rootOf = 1..latest
  /\ ins # Idle => ins.seq = latest + 1

(* What is left of it if the counter is now and then read as zero and        *)
(* numbers are used again (rocks.rs:40-45): no number is skipped and the    *)
(* counter never runs ahead of the batches.                                *)
NumbersDense ==
  /\ DOMAIN rootOf = DOMAIN leavesOf
  /\ latest # 0 => latest \in DOMAIN leavesOf
  /\ \A n \in DOMAIN leavesOf : 1..n \subseteq DOMAIN leavesOf
  /\ ins # Idle => ins.seq = 1 \/ ins.seq = latest + 1

(* The copies that update_leaves_by_indices will write back are still the   *)
(* current vectors with its own replacements: no write of another call is   *)
(* lost although nothing is locked (rocks_queries.rs:99-128).              *)
CopiesCurrent ==
  upd # Idle =>
    \A s \in DOMAIN upd.raw :
      s \in DOMAIN leavesOf /\ upd.raw[s] = Replace(leavesOf[s], upd.changes[s])

(* Every index record names a batch that holds the leaf (rocks_queries.rs:  *)
(* 21-23, 119-120), in whatever order leaves were exchanged.               *)
IndexSound ==
  \A x \in DOMAIN index :
    /\ index[x] \in DOMAIN leavesOf
    /\ x \in Range(leavesOf[index[x]])

(* The store keeps the promise of LeafStore. *)
Promise == INSTANCE LeafStore WITH
             batches  <- leavesOf,
             adding   <- IF ins = Idle THEN None ELSE ins.leaves,
             changing <- IF upd = Idle THEN None ELSE upd.changes

PromiseSpec == Promise!Spec
=============================================================================
