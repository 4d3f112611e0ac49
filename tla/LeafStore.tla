------------------------------ MODULE LeafStore ------------------------------
(***************************************************************************)
(* What the Store trait promises its two workers: a numbered list of leaf  *)
(* batches that only grows at its end, whose slots are replaced but never  *)
(* moved, and on which each call takes effect once, as a whole and on the  *)
(* current content, or not at all.  RocksStore implements it.              *)
(***************************************************************************)
EXTENDS Naturals, Sequences

CONSTANTS
  Batches,  \* the leaf vectors a caller may insert
  Changes,  \* the replacements a caller may ask for: batch |-> slot |-> leaf
  None      \* no call is being served

VARIABLES
  batches,   \* the leaf batches, numbered from one
  adding,    \* the leaves of the insert being served, or None
  changing   \* the replacements of the update being served, or None

vars == <<batches, adding, changing>>

(* A batch after the replacements r of some of its slots. *)
Replace(b, r) == [i \in DOMAIN b |-> IF i \in DOMAIN r THEN r[i] ELSE b[i]]

Init ==
  /\ batches = <<>>
  /\ adding = None
  /\ changing = None

CallInsert(leaves) ==
  /\ adding = None
  /\ adding' = leaves
  /\ UNCHANGED <<batches, changing>>

(* The new batch gets the next number. *)
Insert ==
  /\ adding # None
  /\ batches' = Append(batches, adding)
  /\ adding' = None
  /\ UNCHANGED changing

CallUpdate(c) ==
  /\ changing = None
  /\ changing' = c
  /\ UNCHANGED <<batches, adding>>

(* Every replacement is made in the batch as it is now. *)
Update ==
  /\ changing # None
  /\ DOMAIN changing \subseteq DOMAIN batches
  /\ batches' = [s \in DOMAIN batches |->
                   IF s \in DOMAIN changing
                     THEN Replace(batches[s], changing[s])
                     ELSE batches[s]]
  /\ changing' = None
  /\ UNCHANGED adding

(* A call that fails leaves no trace. *)
InsertFails == adding # None /\ adding' = None /\ UNCHANGED <<batches, changing>>
UpdateFails == changing # None /\ changing' = None /\ UNCHANGED <<batches, adding>>

Next ==
  \/ \E leaves \in Batches : CallInsert(leaves)
  \/ \E c \in Changes : CallUpdate(c)
  \/ Insert
  \/ InsertFails
  \/ Update
  \/ UpdateFails

Spec == Init /\ [][Next]_vars
=============================================================================
