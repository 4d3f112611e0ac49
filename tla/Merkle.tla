------------------------------- MODULE Merkle -------------------------------
(***************************************************************************)
(* The Merkle tree of crypto/merkle.rs over an ideal hash: the digest of a  *)
(* sorted pair is the unordered pair itself.  A leaf vector is padded with  *)
(* zero leaves to a power of two, and two zero nodes hash to zero.         *)
(***************************************************************************)
EXTENDS Integers, Sequences

CONSTANT Zero   \* the all-zero digest

(* Mutation of HashNode: one zero node is enough. *)
HashOrZero(a, b) == IF a = Zero \/ b = Zero THEN Zero ELSE {a, b}

(* The digest of two nodes, the same in either order. *)
HashNode(a, b) == IF a = Zero /\ b = Zero THEN Zero ELSE {a, b}

(* The height of the smallest perfect tree with at least n leaves. *)
Height(n) == CHOOSE h \in 0..n : 2^h >= n /\ \A g \in 0..(h - 1) : 2^g < n

Pad(s) == [i \in 1..2^Height(Len(s)) |-> IF i <= Len(s) THEN s[i] ELSE Zero]

(* One layer up: neighbours are hashed pairwise. *)
Parents(layer) ==
  [i \in 1..(Len(layer) \div 2) |-> HashNode(layer[2 * i - 1], layer[2 * i])]

(* All layers of the tree over s, the leaves at zero. *)
Layers(s) ==
  LET layer[h \in 0..Height(Len(s))] ==
        IF h = 0 THEN Pad(s) ELSE Parents(layer[h - 1])
  IN layer

(* MerkleTree::root. *)
MerkleRoot(s) == IF s = <<>> THEN Zero ELSE Layers(s)[Height(Len(s))][1]
=============================================================================
