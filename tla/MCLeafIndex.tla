---------------------------- MODULE MCLeafIndex ----------------------------
(* Small instances of LeafIndex.                                           *)
EXTENDS LeafIndex, TLC

CONSTANTS leafA, leafB, leafC, rootR

MCLeaves == {leafA, leafB, leafC}
MCRoots == {rootR}

(* One leaf, two distinct leaves, the same leaf twice. *)
MCBatches == {<<leafC>>, <<leafA, leafB>>, <<leafA, leafA>>}

(* Within one batch: a replacement, a swap, a chain in both directions.     *)
(* Across batches: a leaf that moves.  A slot and a batch that may not      *)
(* exist.                                                                  *)
MCChanges ==
  { 1 :> (1 :> leafB),
    1 :> (1 :> leafC @@ 2 :> leafA),
    2 :> (1 :> leafB @@ 2 :> leafA),
    1 :> (1 :> leafC) @@ 2 :> (1 :> leafA),
    2 :> (1 :> leafA @@ 2 :> leafC),
    3 :> (1 :> leafB) }
=============================================================================
