----------------------------- MODULE MCSequencer -----------------------------
(* Small instances of Sequencer.                                           *)
EXTENDS Sequencer, TLC

CONSTANTS leafA, leafB, leafC

Submit(root, verdict) == [kind |-> "submit", root |-> root, verdict |-> verdict]
UpdateOf(old, new, seq) == [kind |-> "update", old |-> old, new |-> new, seq |-> seq]

(* Every path of a call: two roots and the ways to be refused; updates of   *)
(* batch 1, of the same batch under a number beyond u32, of a batch that    *)
(* may not exist, and with a pair that is not well formed.                  *)
AllCalls ==
  { Submit(leafA, "valid"), Submit(leafB, "valid"), Submit(Malformed, "valid"),
    Submit(leafB, "invalid"), Submit(leafB, "error"),
    UpdateOf(leafA, leafB, 1), UpdateOf(leafA, leafC, LastSeq + 2), UpdateOf(leafB, leafA, 2),
    UpdateOf(leafA, Malformed, 1) }

(* Exchanges within and across two batches. *)
ExchangeCalls ==
  { Submit(leafA, "valid"), Submit(leafB, "valid"), UpdateOf(leafA, leafB, 1), UpdateOf(leafB, leafA, 2) }

(* A call for each lane that meets no fault of its own. *)
PlainCalls == { Submit(leafA, "valid"), UpdateOf(leafA, leafB, 1) }

(* A new database, one with a batch, and one without a number left.        *)
Fresh == { <<>> }
Used == { << <<leafA, leafB>> >> }
FreshOrFull == { <<>>, [n \in 1..LastSeq |-> <<leafA>>] }

Symmetry == Permutations(Requests)
=============================================================================
