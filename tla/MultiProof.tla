----------------------------- MODULE MultiProof -----------------------------
(***************************************************************************)
(* Multi-proofs of crypto/merkle.rs: the prover's side, build_multi_proof,  *)
(* as operators on the layers of the tree, and the verifier's side,         *)
(* verify_multi_proof, as the loop over the flags that it is.  The proof    *)
(* is made for the slots that are replaced; the verifier is handed the      *)
(* leaves of some slots, normally the same, before or after the replacement.*)
(***************************************************************************)
EXTENDS Merkle, SequencesExt

CONSTANTS
  OldLeaf,   \* the leaf a slot holds unless it is zero
  NewLeaf,   \* the leaf that replaces it
  Sizes,     \* the numbers of leaves of the trees
  MixUps     \* those for which a proof may meet leaves of other slots

ASSUME MultiProofAssumption ==
  /\ OldLeaf \in Seq(Range(OldLeaf)) /\ NewLeaf \in Seq(Range(NewLeaf))
  /\ \A n \in Sizes : n \in 1..Len(OldLeaf) /\ n <= Len(NewLeaf)
  /\ MixUps \subseteq Sizes

VARIABLES
  tree,      \* the leaves the proof was built over
  targets,   \* the slots it is for
  claimed,   \* the slots whose leaves the verifier is handed
  side,      \* whether these are the leaves before or after
  layer,     \* target_layer, or NoLayer
  handed,    \* the proof nodes it is handed
  pc,        \* the loop is running, or what it returned
  turn,      \* the flag it is at
  leafPos, hashPos, proofPos,  \* the next position to read
  hashes,    \* the digests computed, with their levels
  extracted  \* extracted_layer

Inputs == <<tree, targets, claimed, side, layer, handed>>
Loop == <<turn, leafPos, hashPos, proofPos, hashes, extracted>>
vars == <<Inputs, pc, Loop>>

-----------------------------------------------------------------------------
(* build_multi_proof.                                                      *)

(* The nodes above the targets, layer by layer. *)
TargetsAt(s, ts) ==
  LET at[h \in 0..Height(Len(s))] ==
        IF h = 0 THEN ts ELSE {(i + 1) \div 2 : i \in at[h - 1]}
  IN at

(* The members of S from the smallest to the largest. *)
Ascending(S) ==
  [k \in 1..Cardinality(S) |-> CHOOSE x \in S : Cardinality({y \in S : y <= x}) = k]

(* Mutations: no pair is noticed, and the target is taken for its sibling. *)
NeverBothTargets(p, ts) == FALSE
SiblingIsTarget(p, ts) == IF 2 * p \in ts THEN 2 * p ELSE 2 * p - 1

(* A parent whose children are both targets needs no sibling. *)
BothTargets(p, ts) == {2 * p - 1, 2 * p} \subseteq ts
Sibling(p, ts) == IF 2 * p \in ts THEN 2 * p - 1 ELSE 2 * p

(* What one layer adds, its parents taken from left to right. *)
LayerFlags(ts, parents) ==
  LET ps == Ascending(parents)
  IN [k \in DOMAIN ps |-> BothTargets(ps[k], ts)]
LayerProof(nodes, ts, parents) ==
  LET ps == Ascending({p \in parents : ~BothTargets(p, ts)})
  IN [k \in DOMAIN ps |-> nodes[Sibling(ps[k], ts)]]

Flags(s, ts) ==
  LET at == TargetsAt(s, ts)
  IN FlattenSeq([h \in 1..Height(Len(s)) |-> LayerFlags(at[h - 1], at[h])])
Proof(s, ts) ==
  LET at == TargetsAt(s, ts)
      nodes == Layers(s)
  IN FlattenSeq([h \in 1..Height(Len(s)) |-> LayerProof(nodes[h - 1], at[h - 1], at[h])])

(* The leaves after the replacement of the targets. *)
Replaced == [i \in DOMAIN tree |-> IF i \in targets THEN NewLeaf[i] ELSE tree[i]]

-----------------------------------------------------------------------------
(* verify_multi_proof, given the flags for the old tree. *)

NoLayer == -1

TheLeaves == IF side = "old" THEN tree ELSE Replaced
ClaimedLeaves == LET cs == Ascending(claimed) IN [k \in DOMAIN cs |-> TheLeaves[cs[k]]]
TheFlags == Flags(tree, targets)
ExpectedRoot == MerkleRoot(TheLeaves)

Trees ==
  UNION {{[i \in 1..n |-> IF i \in zeros THEN Zero ELSE OldLeaf[i]] : zeros \in SUBSET (1..n)} :
           n \in Sizes}

LoopInit ==
  /\ pc = "start"
  /\ turn = 1 /\ leafPos = 1 /\ hashPos = 1 /\ proofPos = 1
  /\ hashes = <<>>
  /\ extracted = <<>>

Init ==
  /\ tree \in Trees
  /\ targets \in SUBSET DOMAIN tree
  /\ claimed \in IF Len(tree) \in MixUps THEN SUBSET DOMAIN tree ELSE {targets}
  /\ side \in {"old", "new"}
  /\ layer \in 0..Height(Len(tree))
  /\ handed = Proof(tree, targets)
  /\ LoopInit

(* A tree of one leaf is its own root. *)
Single == Len(ClaimedLeaves) = 1 /\ handed = <<>> /\ TheFlags = <<>>

StartSingle ==
  /\ pc = "start" /\ Single
  /\ pc' = IF ClaimedLeaves[1] = ExpectedRoot THEN "valid" ELSE "invalid"
  /\ extracted' = IF layer = 0 THEN ClaimedLeaves ELSE <<>>
  /\ UNCHANGED <<Inputs, turn, leafPos, hashPos, proofPos, hashes>>

Start ==
  /\ pc = "start" /\ ~Single
  /\ pc' = IF claimed = {} THEN "invalid" ELSE "loop"
  /\ UNCHANGED <<Inputs, Loop>>

(* The nodes not yet read: the leaves first, then the digests computed. *)
Pending ==
  SubSeq([k \in DOMAIN ClaimedLeaves |-> [node |-> ClaimedLeaves[k], level |-> 0]],
         leafPos, Len(ClaimedLeaves))
  \o SubSeq(hashes, hashPos, Len(hashes))

(* Mutation of Take: digests are counted as leaves. *)
TakeFromLeaves(n) == leafPos' = leafPos + n /\ hashPos' = hashPos

Take(n) ==
  LET leaves == Min({n, Len(ClaimedLeaves) - leafPos + 1})
  IN leafPos' = leafPos + leaves /\ hashPos' = hashPos + (n - leaves)

Looping == pc = "loop" /\ turn \in DOMAIN TheFlags

(* What the flag asks for is there. *)
Operands == IF TheFlags[turn] THEN Len(Pending) >= 2
                              ELSE Len(Pending) >= 1 /\ proofPos <= Len(handed)

(* Mutation of Hash: the digest is given the level of its operands. *)
HashOnSameLevel(x, y) ==
  /\ hashes' = Append(hashes, [node |-> HashNode(x.node, y), level |-> x.level])
  /\ extracted' = IF layer = x.level THEN extracted \o <<x.node, y>> ELSE extracted
  /\ turn' = turn + 1
  /\ UNCHANGED <<Inputs, pc>>

(* The digest of x and y is one level above x. *)
Hash(x, y) ==
  /\ hashes' = Append(hashes, [node |-> HashNode(x.node, y), level |-> x.level + 1])
  /\ extracted' = IF layer = x.level THEN extracted \o <<x.node, y>> ELSE extracted
  /\ turn' = turn + 1
  /\ UNCHANGED <<Inputs, pc>>

(* A true flag: two nodes that are both above targets. *)
HashPair ==
  /\ Looping /\ TheFlags[turn] /\ Operands
  /\ Hash(Pending[1], Pending[2].node)
  /\ Take(2)
  /\ UNCHANGED proofPos

(* A false flag: a node and its sibling from the proof. *)
HashWithProof ==
  /\ Looping /\ ~TheFlags[turn] /\ Operands
  /\ Hash(Pending[1], handed[proofPos])
  /\ Take(1)
  /\ proofPos' = proofPos + 1

(* An operand is missing. *)
RunsDry ==
  /\ Looping /\ ~Operands
  /\ pc' = "invalid"
  /\ extracted' = <<>>
  /\ UNCHANGED <<Inputs, turn, leafPos, hashPos, proofPos, hashes>>

(* Every flag is used.  Every leaf and every proof node must be, too. *)
AllUsed == leafPos = Len(ClaimedLeaves) + 1 /\ proofPos = Len(handed) + 1

Leftover ==
  /\ pc = "loop" /\ turn = Len(TheFlags) + 1 /\ ~AllUsed
  /\ pc' = "invalid"
  /\ extracted' = <<>>
  /\ UNCHANGED <<Inputs, turn, leafPos, hashPos, proofPos, hashes>>

Compare ==
  /\ pc = "loop" /\ turn = Len(TheFlags) + 1 /\ AllUsed
  /\ LET root == Last(hashes)
     IN /\ pc' = IF root.node = ExpectedRoot THEN "valid" ELSE "invalid"
        /\ extracted' = IF layer = root.level THEN Append(extracted, root.node)
                                             ELSE extracted
  /\ UNCHANGED <<Inputs, turn, leafPos, hashPos, proofPos, hashes>>

Next == StartSingle \/ Start \/ HashPair \/ HashWithProof \/ RunsDry \/ Leftover \/ Compare

Spec == Init /\ [][Next]_vars

-----------------------------------------------------------------------------
(* The type of the verifier's loop: read positions stay within one of the   *)
(* ends of what they read (merkle.rs:158-202).                              *)
TypeOK ==
  /\ tree \in Seq(Range(OldLeaf) \cup {Zero})
  /\ targets \subseteq DOMAIN tree /\ claimed \subseteq DOMAIN tree
  /\ side \in {"old", "new"} /\ layer \in {NoLayer} \cup 0..Height(Len(tree))
  /\ pc \in {"start", "loop", "valid", "invalid"}
  /\ turn \in 1..(Len(TheFlags) + 1)
  /\ leafPos \in 1..(Len(ClaimedLeaves) + 1)
  /\ hashPos \in 1..(Len(hashes) + 1)
  /\ proofPos \in 1..(Len(handed) + 1)

(* Of as many leaves as the proof is for, the verifier accepts no others    *)
(* than those of its slots, up to their order (merkle.rs:204-216).  The     *)
(* number matters: a digest that no flag consumes is not noticed.           *)
Holding(slots, leaf) == {i \in slots : TheLeaves[i] = leaf}
OnlyItsLeavesAccepted ==
  pc = "valid" /\ Cardinality(claimed) = Cardinality(targets) =>
    \A leaf \in Range(TheLeaves) :
      Cardinality(Holding(claimed, leaf)) = Cardinality(Holding(targets, leaf))

(* No node of a proof has a replaced leaf below it: the two proofs the      *)
(* update handler builds, over the tree before and after the replacement    *)
(* (worker.rs:170-185), have the same nodes.  That they have the same flags *)
(* needs no property: flags are made from the slots alone.                  *)
ProofsAgree ==
  pc = "start" => Proof(Replaced, targets) = Proof(tree, targets)

(* README.md:72 and merkle.rs:130-137: with its own leaves, the layer that  *)
(* is extracted holds the root of every subtree below that layer in which   *)
(* a leaf was replaced, and nothing but nodes of that layer.                *)
SubtreeLeaves(k) == SubSeq(Pad(TheLeaves), (k - 1) * 2^layer + 1, k * 2^layer)
LayerHoldsUpdatedRoots ==
  pc = "valid" /\ claimed = targets /\ layer # NoLayer =>
    /\ \A k \in TargetsAt(tree, targets)[layer] :
         MerkleRoot(SubtreeLeaves(k)) \in Range(extracted)
    /\ Range(extracted) \subseteq Range(Layers(TheLeaves)[layer])
=============================================================================
