----------------------------- MODULE ProverGuests -----------------------------
(***************************************************************************)
(* The two programs that run inside of the zkVM (provers/methods/guest):    *)
(* update.rs verifies a multi-proof twice, over the current leaves and over *)
(* the updated ones, and insert.rs computes a tree.  Both abort the proof   *)
(* with a panic.  Roots and proofs come from merkle.rs, but the guests hash *)
(* for themselves: the digest of a pair is that of the compression function *)
(* of SHA-256 alone, where merkle.rs takes SHA-256 of the 64 bytes.         *)
(* Verification outside of a guest, with the copy of the loop that is in    *)
(* merkle.rs, is a behaviour of its own.                                   *)
(***************************************************************************)
EXTENDS MultiProof

CONSTANT Raw   \* marks a digest of the compression function alone

ASSUME GuestAssumption == Raw # Zero /\ Raw \notin Range(OldLeaf) \cup Range(NewLeaf)

VARIABLES
  guest,    \* how far a guest is, or "none"
  signed,   \* whether the signature of every item is good
  buffers   \* the current layer and the next one, as compute_merkle_root keeps them

guestVars == <<vars, guest, signed, buffers>>

BatchSize == Cardinality(claimed)

(* Mutation of Carried: as many entries as there are nodes. *)
CarriedWhole(proof) == proof

(* The proof nodes reach the guest in a vector of batch_size entries, one   *)
(* per item: what is longer is cut and what is shorter filled with zeros.   *)
Carried(proof) ==
  [k \in 1..BatchSize |-> IF k <= Len(proof) THEN proof[k] ELSE Zero]

Outside == Init /\ guest = "none"

UpdateInit ==
  /\ tree \in Trees
  /\ targets \in (SUBSET DOMAIN tree) \ {{}}
  /\ claimed = targets
  /\ side = "old" /\ layer = NoLayer
  /\ handed = Carried(Proof(tree, targets))
  /\ LoopInit
  /\ guest = "current"

(* The batch need not be the leaves of the tree whose root is expected. *)
InsertInit ==
  /\ tree \in Trees
  /\ targets = {}
  /\ claimed \in SUBSET DOMAIN tree
  /\ side = "old" /\ layer = NoLayer
  /\ handed = <<>>
  /\ LoopInit
  /\ guest = "items"

GuestInit ==
  /\ Outside \/ UpdateInit \/ InsertInit
  /\ signed \in IF guest = "none" THEN {TRUE} ELSE BOOLEAN
  /\ buffers = <<<<>>, <<>>>>

-----------------------------------------------------------------------------
(* Mutation of GuestNode: a pair of zero nodes is hashed like any other. *)
HashAlways(a, b) == {a, b, Raw}

(* hash_node of both guests: hash_pair of the sorted pair, but for zeros. *)
GuestNode(a, b) == IF a = Zero /\ b = Zero THEN Zero ELSE {a, b, Raw}

(* The update guest's copy of verify_multi_proof is that of merkle.rs but   *)
(* for the digest of two nodes.                                            *)
GuestHash(x, y) ==
  /\ hashes' = Append(hashes, [node |-> GuestNode(x.node, y), level |-> x.level + 1])
  /\ extracted' = IF layer = x.level THEN extracted \o <<x.node, y>> ELSE extracted
  /\ turn' = turn + 1
  /\ UNCHANGED <<Inputs, pc>>

GuestHashPair ==
  /\ Looping /\ TheFlags[turn] /\ Operands
  /\ GuestHash(Pending[1], Pending[2].node)
  /\ Take(2)
  /\ UNCHANGED proofPos

GuestHashWithProof ==
  /\ Looping /\ ~TheFlags[turn] /\ Operands
  /\ GuestHash(Pending[1], handed[proofPos])
  /\ Take(1)
  /\ proofPos' = proofPos + 1

(* verify_multi_proof runs to its end, outside of the guests or inside. *)
Verify ==
  /\ guest \in {"none", "current", "updated"}
  /\ \/ StartSingle \/ Start \/ RunsDry \/ Leftover \/ Compare
     \/ guest = "none" /\ (HashPair \/ HashWithProof)
     \/ guest # "none" /\ (GuestHashPair \/ GuestHashWithProof)
  /\ UNCHANGED <<guest, signed, buffers>>

(* The current state is verified; the updated one follows, with its own    *)
(* proof nodes.                                                            *)
CurrentVerified ==
  /\ guest = "current" /\ pc = "valid"
  /\ guest' = "updated"
  /\ side' = "new"
  /\ handed' = Carried(Proof(Replaced, targets))
  /\ pc' = "start"
  /\ turn' = 1 /\ leafPos' = 1 /\ hashPos' = 1 /\ proofPos' = 1
  /\ hashes' = <<>> /\ extracted' = <<>>
  /\ UNCHANGED <<tree, targets, claimed, layer, signed, buffers>>

UpdatedVerified ==
  /\ guest = "updated" /\ pc = "valid"
  /\ guest' = IF signed THEN "proven" ELSE "aborted"
  /\ UNCHANGED <<vars, signed, buffers>>

VerificationFails ==
  /\ guest \in {"current", "updated"} /\ pc = "invalid"
  /\ guest' = "aborted"
  /\ UNCHANGED <<vars, signed, buffers>>

-----------------------------------------------------------------------------
(* The signatures are checked, and the leaves copied to the first buffer. *)
InsertItems ==
  /\ guest = "items"
  /\ guest' = IF signed THEN "tree" ELSE "aborted"
  /\ buffers' = <<IF claimed = {} THEN <<>> ELSE Pad(ClaimedLeaves), <<>>>>
  /\ UNCHANGED <<vars, signed>>

GuestParents(nodes) ==
  [i \in 1..(Len(nodes) \div 2) |-> GuestNode(nodes[2 * i - 1], nodes[2 * i])]

(* One level: the next layer is filled and the buffers change places. *)
InsertLevel ==
  /\ guest = "tree" /\ Len(buffers[1]) > 1
  /\ buffers' = <<GuestParents(buffers[1]), buffers[1]>>
  /\ UNCHANGED <<vars, guest, signed>>

InsertCompare ==
  /\ guest = "tree" /\ Len(buffers[1]) <= 1
  /\ LET root == IF claimed = {} THEN Zero ELSE buffers[1][1]
     IN guest' = IF root = ExpectedRoot THEN "proven" ELSE "aborted"
  /\ UNCHANGED <<vars, signed, buffers>>

GuestNext ==
  \/ Verify \/ CurrentVerified \/ UpdatedVerified \/ VerificationFails
  \/ InsertItems \/ InsertLevel \/ InsertCompare

GuestSpec == GuestInit /\ [][GuestNext]_guestVars

-----------------------------------------------------------------------------
Ended == guest \in {"proven", "aborted"}
IsInsert == targets = {} /\ guest # "none"

(* A proof made for the old tree is accepted by merkle.rs with the leaves   *)
(* it is for, and as well with the replacements against the new root: the   *)
(* verifier never runs dry, keeps nothing and arrives at the root           *)
(* (merkle.rs:41-217).                                                     *)
OwnProofAccepted == guest = "none" /\ claimed = targets /\ targets # {} => pc # "invalid"

(* What the update guest makes of honest inputs.  Its digests are not those *)
(* of merkle.rs (update.rs:188, merkle.rs:10-12), so it proves a signed     *)
(* batch exactly if no digest matters, all leaves being zero before and     *)
(* after, and the multi-proof happens to have one node per item: it reads   *)
(* batch_size of them, and neither a cut proof nor one filled up with zeros *)
(* passes the check that all nodes are used (update.rs:24-35, 148-150).      *)
OnlyZeroUpdatesProven ==
  Ended /\ ~IsInsert =>
    (guest = "proven" <=> /\ signed /\ Len(Proof(tree, targets)) = BatchSize
                          /\ MerkleRoot(tree) = Zero /\ MerkleRoot(Replaced) = Zero)

(* What the insert guest makes of a root of MerkleTree::root.  A signed     *)
(* batch that has this root is proven if it is a single leaf, which is not  *)
(* hashed, or all zero, where the two hashes agree (insert.rs:76-80,         *)
(* merkle.rs:5-7); any other batch of two leaves or more is refused against *)
(* its own root (insert.rs:87, merkle.rs:10-12).                            *)
OnlyUnhashedInsertsProven ==
  Ended /\ IsInsert =>
    (guest = "proven" <=> /\ signed /\ MerkleRoot(ClaimedLeaves) = ExpectedRoot
                          /\ Len(ClaimedLeaves) <= 1 \/ ExpectedRoot = Zero)
=============================================================================
