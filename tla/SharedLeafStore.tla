--------------------------- MODULE SharedLeafStore ---------------------------
(***************************************************************************)
(* What the Store trait promises callers that share it over several         *)
(* connections: numbered leaf batches, each number given once, whose slots  *)
(* are replaced but never moved, and calls that take effect once, as a      *)
(* whole and on the current content, or not at all.  Unlike in LeafStore    *)
(* numbers may be skipped and may become visible in another order than they *)
(* were given.  PostgresStore implements it.                               *)
(***************************************************************************)

CONSTANTS
  Sessions,  \* the connections
  Numbers,   \* what a batch may be numbered with
  Requests,  \* the calls they may make: [op, leaves, ...] or [op, changes]
  None       \* no call is being served

VARIABLES
  batches,   \* number |-> leaf batch
  calling    \* session |-> its call, or None

vars == <<batches, calling>>

(* A batch after the replacements r of some of its slots. *)
Replace(b, r) == [i \in DOMAIN b |-> IF i \in DOMAIN r THEN r[i] ELSE b[i]]

Init ==
  /\ batches = [s \in {} |-> <<>>]
  /\ calling = [c \in Sessions |-> None]

Call(c, r) ==
  /\ calling[c] = None
  /\ calling' = [calling EXCEPT ![c] = r]
  /\ UNCHANGED batches

Return(c) ==
  /\ calling[c] # None
  /\ calling' = [calling EXCEPT ![c] = None]

(* The new batch gets a number that none has. *)
Insert(c) ==
  /\ Return(c)
  /\ calling[c].op = "insert"
  /\ \E n \in Numbers \ DOMAIN batches :
       batches' = [s \in DOMAIN batches \cup {n} |->
                     IF s = n THEN calling[c].leaves ELSE batches[s]]

(* Every replacement is made in the batch as it is now. *)
Update(c) ==
  /\ Return(c)
  /\ calling[c].op = "update"
  /\ LET changes == calling[c].changes
     IN /\ DOMAIN changes \subseteq DOMAIN batches
        /\ \A s \in DOMAIN changes : DOMAIN changes[s] \subseteq DOMAIN batches[s]
        /\ batches' = [s \in DOMAIN batches |->
                         IF s \in DOMAIN changes
                           THEN Replace(batches[s], changes[s])
                           ELSE batches[s]]

(* A call that fails leaves no trace. *)
Fail(c) == Return(c) /\ UNCHANGED batches

Next ==
  \E c \in Sessions :
    (\E r \in Requests : Call(c, r)) \/ Insert(c) \/ Update(c) \/ Fail(c)

Spec == Init /\ [][Next]_vars
=============================================================================
