--------------------------- MODULE MCPostgresStore ---------------------------
(* Small instances of PostgresStore.                                       *)
EXTENDS PostgresStore, TLC

CONSTANTS leafA, leafB, leafC, rootR

MCLeaves == {leafA, leafB, leafC}
MCRoots == {rootR}

(* Two distinct leaves, and one. *)
MCBatches == {<<leafA, leafB>>, <<leafC>>}

(* A swap within a batch, a slot that may be missing, the same two batches   *)
(* in one call, a number beyond i32.                                        *)
MCChanges ==
  { 1 :> (1 :> leafB @@ 2 :> leafA),
    1 :> (1 :> leafC) @@ 2 :> (1 :> leafA),
    2 :> (2 :> leafB),
    LastSerial + 1 :> (1 :> leafC) }
=============================================================================
