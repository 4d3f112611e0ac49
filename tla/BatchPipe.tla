------------------------------ MODULE BatchPipe ------------------------------
(***************************************************************************)
(* What a batching engine promises to the two sides it connects: items go  *)
(* in one at a time, groups of at least one and at most Limit items come   *)
(* out, and, until the consumer leaves, nothing is lost, reordered or      *)
(* duplicated.  Batcher implements it.                                     *)
(***************************************************************************)
EXTENDS Naturals, Sequences

CONSTANTS
  Items,    \* what travels through the pipe
  Limit     \* the largest group

VARIABLES
  pending,  \* accepted, not yet grouped, oldest first
  batches,  \* grouped, not yet taken, oldest first
  consumer  \* whether somebody still takes groups

vars == <<pending, batches, consumer>>

Init ==
  /\ pending = <<>>
  /\ batches = <<>>
  /\ consumer = TRUE

(* A producer hands in one item. *)
Accept(i) ==
  /\ pending' = Append(pending, i)
  /\ UNCHANGED <<batches, consumer>>

(* The n oldest pending items become one group. *)
Group(n) ==
  /\ consumer
  /\ n \in 1..Limit
  /\ n <= Len(pending)
  /\ batches' = Append(batches, SubSeq(pending, 1, n))
  /\ pending' = SubSeq(pending, n + 1, Len(pending))
  /\ UNCHANGED consumer

(* The consumer takes the oldest group. *)
Take ==
  /\ batches # <<>>
  /\ batches' = Tail(batches)
  /\ UNCHANGED <<pending, consumer>>

(* The consumer leaves; the groups waiting for it go with it. *)
Leave ==
  /\ consumer
  /\ consumer' = FALSE
  /\ batches' = <<>>
  /\ UNCHANGED pending

(* Only without a consumer may pending items be given up. *)
GiveUp ==
  /\ ~consumer
  /\ pending' = <<>>
  /\ UNCHANGED <<batches, consumer>>

Next ==
  \/ \E i \in Items : Accept(i)
  \/ \E n \in 1..Limit : Group(n)
  \/ Take
  \/ Leave
  \/ GiveUp

Spec == Init /\ [][Next]_vars
=============================================================================
