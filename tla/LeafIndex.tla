----------------------------- MODULE LeafIndex -----------------------------
(***************************************************************************)
(* RocksStore with get_by_leaf, which reads the index and then the batch    *)
(* the index named, again without a lock, and with a history of which       *)
(* leaves ever entered the store, to state what a lookup can be relied upon *)
(* to find.                                                                *)
(***************************************************************************)
EXTENDS RocksStore

VARIABLES
  look,   \* locals of the get_by_leaf being served
  seen,   \* history: leaves written to a slot at least once
  twice   \* history: leaves written to slots at least twice

indexVars == <<vars, look, seen, twice>>

(* What a write puts into which slots, <<batch, slot>> |-> leaf. *)
InsertedSlots == [k \in {ins.seq} \X DOMAIN ins.leaves |-> ins.leaves[k[2]]]
UpdatedSlots ==
  [k \in UNION {{s} \X DOMAIN upd.changes[s] : s \in DOMAIN upd.changes} |->
     upd.changes[k[1]][k[2]]]

Repeated(written) ==
  {x \in Range(written) :
     \E k, l \in DOMAIN written : k # l /\ written[k] = x /\ written[l] = x}

Note(written) ==
  /\ seen' = seen \cup Range(written)
  /\ twice' = twice \cup (seen \cap Range(written)) \cup Repeated(written)

(* get_by_leaf: the index... *)
LookupIndex(x) ==
  /\ look = Idle
  /\ x \in DOMAIN index
  /\ look' = [phase |-> "leaves", leaf |-> x, seq |-> index[x]]
  /\ UNCHANGED <<vars, seen, twice>>

(* ... then the batch the index named. *)
LookupLeaves ==
  /\ look # Idle
  /\ look' = Idle
  /\ UNCHANGED <<vars, seen, twice>>

IndexInit == Init /\ look = Idle /\ seen = {} /\ twice = {}

IndexNext ==
  \/ /\ InsertWrite
     /\ Note(InsertedSlots)
     /\ UNCHANGED look
  \/ /\ UpdateWrite
     /\ Note(UpdatedSlots)
     /\ UNCHANGED look
  \/ /\ \/ \E leaves \in Batches, root \in Roots : InsertBegin(root, leaves)
        \/ \E c \in Changes : UpdateBegin(c)
        \/ \E s \in 0..LastSeq : UpdateRead(s)
        \/ InsertFails \/ UpdateStops \/ UpdateFails
     /\ UNCHANGED <<look, seen, twice>>
  \/ \E x \in Leaves : LookupIndex(x)
  \/ LookupLeaves

IndexSpec == IndexInit /\ [][IndexNext]_indexVars

(* A leaf that entered the store once, as one issuer's root does, is found  *)
(* by get_by_leaf as long as it is in some batch: the deletes of an update, *)
(* which may run beside an insert, never hit the index record of a leaf     *)
(* that stays (rocks_queries.rs:21-23, 118-120).  Only a leaf that was      *)
(* written twice can lose its record while one copy remains.               *)
SingleLeavesFound ==
  \A s \in DOMAIN leavesOf :
    \A i \in DOMAIN leavesOf[s] :
      leavesOf[s][i] \in DOMAIN index \cup twice

(* Between its two reads get_by_leaf never loses the batch the index sent   *)
(* it to, whatever is inserted or updated meanwhile (rocks_queries.rs:      *)
(* 35-45): "Sequence number not found" cannot be its answer.                *)
LookupNeverDangles ==
  look # Idle => look.seq \in DOMAIN leavesOf
=============================================================================
