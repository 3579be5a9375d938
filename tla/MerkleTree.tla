----------------------------- MODULE MerkleTree -----------------------------
(***************************************************************************)
(* The Merkle tree over the claimable leaves (frontend/lib/merkle.ts, the  *)
(* port of genesis/src/merkle.rs): its root, the inclusion proof of a leaf *)
(* and the walk that recomputes the root from a proof.                     *)
(*                                                                         *)
(* Data abstraction: SHA-256 is injective, so a hash is the tuple of its   *)
(* preimage, with the domain byte as a word; a pubkey is an integer, whose *)
(* order is that of the bytes; a byte is the set of its bits that are set. *)
(***************************************************************************)
EXTENDS Integers, Sequences, FiniteSets

LeafHash(leaf) == <<"leaf", leaf.pubkey, leaf.lamports>>
NodeHash(left, right) == <<"node", left, right>>
ZeroHash == <<"zero">>

\* Each leaf goes to the place that the number of smaller pubkeys gives it; the
\* pubkeys of a list of leaves are distinct.
SmallerLeaves(leaves, j) ==
    Cardinality({i \in DOMAIN leaves : leaves[i].pubkey < leaves[j].pubkey})

SortLeaves(leaves) ==
    [k \in DOMAIN leaves |->
        leaves[CHOOSE j \in DOMAIN leaves : SmallerLeaves(leaves, j) = k - 1]]

\* Mutant: the last hash of an odd layer moves up as it is.
NextLayerPromoting(layer) ==
    [i \in 1..((Len(layer) + 1) \div 2) |->
        IF 2 * i <= Len(layer) THEN NodeHash(layer[2 * i - 1], layer[2 * i])
        ELSE layer[2 * i - 1]]

\* Neighbours are paired; the last hash of an odd layer is paired with itself.
NextLayer(layer) ==
    [i \in 1..((Len(layer) + 1) \div 2) |->
        NodeHash(layer[2 * i - 1],
                 layer[IF 2 * i <= Len(layer) THEN 2 * i ELSE 2 * i - 1])]

\* Widths(n)[d]: how many hashes there are d levels above n leaves.
Widths(n) ==
    LET width[d \in 0..n] == IF d = 0 THEN n ELSE (width[d - 1] + 1) \div 2
    IN  width

\* Layers are made while there is more than one hash.
Height(n) == CHOOSE d \in 0..n : /\ Widths(n)[d] <= 1
                                 /\ \A e \in 0..d - 1 : Widths(n)[e] > 1

\* Layers(leaves)[d]: the hashes d levels above the leaves.
Layers(leaves) ==
    LET sorted == SortLeaves(leaves)
        layer[d \in 0..Height(Len(leaves))] ==
            IF d = 0 THEN [i \in 1..Len(leaves) |-> LeafHash(sorted[i])]
            ELSE NextLayer(layer[d - 1])
    IN  layer

BuildMerkleRoot(leaves) ==
    IF leaves = <<>> THEN ZeroHash ELSE Layers(leaves)[Height(Len(leaves))][1]

-----------------------------------------------------------------------------
PackBits(bits) ==
    [j \in 1..((Len(bits) + 7) \div 8) |->
        {k \in 0..7 : 8 * (j - 1) + k < Len(bits) /\ bits[8 * (j - 1) + k + 1]}]

BitIsSet(bytes, i) == (i % 8) \in bytes[i \div 8 + 1]

\* The index of a leaf's ancestor, counted from 0, d levels up.
AncestorIndex(leafIndex, d) ==
    LET idx[e \in 0..d] == IF e = 0 THEN leafIndex ELSE idx[e - 1] \div 2
    IN  idx[d]

\* Mutant: the bits of the highest level come first.
FlagsFromTop(leafIndex, proofLen) ==
    PackBits([d \in 1..proofLen |-> AncestorIndex(leafIndex, proofLen - d) % 2 = 0])

\* deriveProofFlagsFromLeafIndex
FlagsOfIndex(leafIndex, proofLen) ==
    PackBits([d \in 1..proofLen |-> AncestorIndex(leafIndex, d - 1) % 2 = 0])

InTree(leaves, pubkey) == \E i \in DOMAIN leaves : leaves[i].pubkey = pubkey

LeafIndex(leaves, pubkey) ==
    (CHOOSE i \in DOMAIN leaves : SortLeaves(leaves)[i].pubkey = pubkey) - 1

\* The sibling of the hash at index i (from 0) and whether it is on the right.
Sibling(layer, i) ==
    IF i % 2 = 1 THEN layer[i]
    ELSE IF i + 1 < Len(layer) THEN layer[i + 2] ELSE layer[i + 1]

SiblingOnRight(i) == i % 2 = 0

\* For a pubkey that is in the tree.
BuildInclusionProof(leaves, pubkey) ==
    LET layers == Layers(leaves)
        index  == LeafIndex(leaves, pubkey)
        levels == 1..Height(Len(leaves))
    IN  [pubkey     |-> pubkey,
         lamports   |-> SortLeaves(leaves)[index + 1].lamports,
         proof      |-> [d \in levels |->
                           Sibling(layers[d - 1], AncestorIndex(index, d - 1))],
         proofFlags |-> PackBits([d \in levels |->
                           SiblingOnRight(AncestorIndex(index, d - 1))]),
         root       |-> layers[Height(Len(leaves))][1]]

RecomputeRoot(p) ==
    LET running[i \in 0..Len(p.proof)] ==
            IF i = 0 THEN LeafHash(p)
            ELSE IF BitIsSet(p.proofFlags, i - 1)
                 THEN NodeHash(running[i - 1], p.proof[i])
                 ELSE NodeHash(p.proof[i], running[i - 1])
    IN  running[Len(p.proof)]
=============================================================================
