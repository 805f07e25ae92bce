------------------------------ MODULE MerkleTree ------------------------------
(***************************************************************************)
(* The Merkle tree over the entries of a cycle (classes/MerkleTree.py) and *)
(* the check of a proof in the BadgerTree.  A hash is its preimage: a leaf *)
(* of an entry, or the unordered pair of two hashes.                       *)
(***************************************************************************)
EXTENDS Integers, Sequences

Leaf(entry) == <<"leaf", entry>>

(* combined_hash sorts the two before it hashes them. *)
CombinedHash(a, b) == <<"pair", {a, b}>>

(* A layer of odd length passes its last hash on. *)
NextLayer(layer) ==
  [i \in 1..(Len(layer) + 1) \div 2 |->
     IF 2 * i <= Len(layer) THEN CombinedHash(layer[2 * i - 1], layer[2 * i])
                            ELSE layer[2 * i - 1]]

(* get_layers: layer k of the tree over the sorted leaves, its root on top. *)
Layers(leaves) ==
  LET layer[k \in 0..Len(leaves) - 1] ==
        IF k = 0 THEN leaves ELSE NextLayer(layer[k - 1])
  IN  layer

MerkleRoot(leaves) == Layers(leaves)[Len(leaves) - 1][1]

(* get_proof, of the leaf at a place counted from 0: its sibling in every  *)
(* layer that has one.                                                     *)
ProofAt(leaves, place) ==
  LET layers == Layers(leaves)
      proof[k \in 0..Len(leaves)] ==
        IF k = 0 THEN <<>>
        ELSE LET idx == place \div 2^(k - 1)
                 pair == IF idx % 2 = 0 THEN idx + 1 ELSE idx - 1
             IN  IF pair < Len(layers[k - 1])
                 THEN Append(proof[k - 1], layers[k - 1][pair + 1])
                 ELSE proof[k - 1]
  IN  proof[Len(leaves)]

PlaceOf(leaves, leaf) == (CHOOSE i \in DOMAIN leaves : leaves[i] = leaf) - 1

(* By the index that the entry itself carries. *)
GetProof_ByEntryIndex(leaves, entries, i) == ProofAt(leaves, i - 1)

(* The proof of the i-th entry: entries are numbered as they come, the     *)
(* leaves are sorted by their hashes.                                      *)
GetProof(leaves, entries, i) ==
  ProofAt(leaves, PlaceOf(leaves, Leaf(entries[i])))

(* MerkleProofUpgradeable.verify *)
Verifies(proof, root, leaf) ==
  LET hash[k \in 0..Len(proof)] ==
        IF k = 0 THEN leaf ELSE CombinedHash(hash[k - 1], proof[k])
  IN  hash[Len(proof)] = root
===============================================================================
