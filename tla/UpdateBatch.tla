----------------------------- MODULE UpdateBatch -----------------------------
(***************************************************************************)
(* What process_update_batch (rpc/worker.rs) computes from a vector of      *)
(* update calls and the leaf vectors it loads.  A call is a record with     *)
(* fields old, new (leaves, or something that is not 32 bytes long) and seq *)
(* (a u64).                                                                *)
(***************************************************************************)
EXTENDS Integers, Sequences, FiniteSetsExt, Functions

CONSTANTS
  Leaves,    \* the 32-byte values
  LastSeq    \* u32::MAX

(* "as u32" keeps the low bits. *)
Truncate(n) == n % (LastSeq + 1)

(* The batches that are loaded: every number named by some call, once. *)
SequenceNumbers(calls) == {Truncate(calls[k].seq) : k \in DOMAIN calls}

(* A pair is used only if both sides are 32 bytes long. *)
Usable(calls) == {k \in DOMAIN calls : {calls[k].old, calls[k].new} \subseteq Leaves}

(* Mutation of Replacements: the pairs are collected the wrong way round. *)
ReplacementsReversed(calls) ==
  [x \in {calls[k].new : k \in Usable(calls)} |->
     calls[Max({k \in Usable(calls) : calls[k].new = x})].old]

(* The HashMap of replacements: the last pair with an old leaf wins, and    *)
(* the number its call named plays no part.                                *)
Replacements(calls) ==
  [x \in {calls[k].old : k \in Usable(calls)} |->
     calls[Max({k \in Usable(calls) : calls[k].old = x})].new]

(* The slots of b whose leaf is to be replaced. *)
Hits(b, repl) == {i \in DOMAIN b : b[i] \in DOMAIN repl}

(* Every occurrence in every loaded batch is replaced.  Batches without one *)
(* do not appear.                                                          *)
ChangesOf(loaded, repl) ==
  [s \in {t \in DOMAIN loaded : Hits(loaded[t], repl) # {}} |->
     [i \in Hits(loaded[s], repl) |-> repl[loaded[s][i]]]]
=============================================================================
