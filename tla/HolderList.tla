----------------------------- MODULE HolderList -----------------------------
(***************************************************************************)
(* A list of holders grows by one at a time, under one policy.  At every   *)
(* length it is shared out (compute_allocations), put under a Merkle root  *)
(* and looked up by the two routes.  The list is ordered by owner, as the  *)
(* tool's BTreeMap is.                                                     *)
(***************************************************************************)
EXTENDS ProofLookup

CONSTANTS
    Policies,      \* the tool's parameters, [total, base, perNft, perToken]
    Holdings,      \* what a holder may hold, [nfts, tokens]
    MaxHolders,    \* bound: holders in the list
    MaxNodes,      \* bound: leaves of the trees whose false proofs are all tried
    MaxProof       \* bound: hashes in such a proof

ASSUME HolderAssumption ==
    /\ Policies \subseteq [total : Nat, base : Nat, perNft : Nat, perToken : Nat]
    /\ Holdings \subseteq [nfts : Nat, tokens : Nat]
    /\ MaxHolders \in Nat /\ MaxNodes \in Nat /\ MaxProof \in Nat

VARIABLES
    holders,   \* [owner, nfts, tokens] of each holder, by owner
    policy     \* the tool's parameters

holderVars == <<holders, policy>>

HoldersInit ==
    /\ holders = <<>>
    /\ policy \in Policies

AddHolder ==
    /\ Len(holders) < MaxHolders
    /\ \E h \in Holdings :
          holders' = Append(holders,
                        [owner |-> Len(holders) + 1, nfts |-> h.nfts, tokens |-> h.tokens])
    /\ UNCHANGED policy

HoldersSpec == HoldersInit /\ [][AddHolder]_holderVars

-----------------------------------------------------------------------------
(* Properties *)

rows == Rows(holders, policy)

\* Both routes give every leaf, and only a leaf, a proof from which its page
\* recomputes the root that was committed to: for the claim whatever the leaves,
\* for the megadrop if no allocation is zero; and the root does not depend on
\* the order in which the leaves are read.
LookupsVerify ==
    LET leaves == rows
        root   == BuildMerkleRoot(leaves)
    IN  /\ BuildMerkleRoot(Reverse(leaves)) = root
        /\ ~InTree(leaves, 0) /\ ClaimRoute(leaves, 0) = NotFound
        /\ \A i \in DOMAIN leaves :
              LET p      == leaves[i].pubkey
                  claim  == ClaimRoute(leaves, p)
                  answer == MegadropRoute(leaves, p)
              IN  /\ claim.status = 200
                  /\ claim.hit.lamports = leaves[i].lamports
                  /\ RecomputeRoot(ProofOfLine(claim.hit)) = root
                  /\ ProofOfLine(claim.hit).proofFlags = BuildInclusionProof(leaves, p).proofFlags
                  /\ answer.status = 200 <=> leaves[i].lamports > 0
                  /\ answer.status = 200 => RecomputeRoot(answer.hit) = answer.hit.root
                  /\ (\A j \in DOMAIN leaves : leaves[j].lamports > 0)
                       => answer.hit.root = CommittedRoot(leaves)

\* The hashes of a tree.
Hashes(leaves) == UNION {{Layers(leaves)[d][i] : i \in DOMAIN Layers(leaves)[d]} :
                            d \in 0..Height(Len(leaves))}

\* Of all lists of the tree's own hashes, in every arrangement of sides, only
\* the siblings of a leaf lead to the root, and only for that leaf and its
\* amount: an inner node is no leaf, a proof can be neither shortened nor
\* extended, and what the programs check is the leaf and its one proof.
OnlyBuiltProofsVerify ==
    LET leaves == rows
        root   == BuildMerkleRoot(leaves)
        hashes == Hashes(leaves)
    IN  leaves # <<>> /\ Len(leaves) <= MaxNodes =>
          \A p \in 0..Len(leaves) + 1,
             amount \in {0} \cup {leaves[i].lamports : i \in DOMAIN leaves},
             n \in 0..MaxProof :
              \A proof \in [1..n -> hashes], sides \in [1..n -> BOOLEAN] :
                  RecomputeRoot([pubkey |-> p, lamports |-> amount, proof |-> proof,
                                 proofFlags |-> PackBits(sides)]) = root
                    => /\ \E i \in DOMAIN leaves : leaves[i] = [pubkey |-> p, lamports |-> amount]
                       /\ proof = BuildInclusionProof(leaves, p).proof

\* compute_allocations hands out exactly the total, whatever truncation leaves
\* over, and never less to a holder with the larger share.
AllocationsAddUp ==
    LET amounts == Allocate(holders, policy)
        raw     == [i \in DOMAIN holders |-> RawShare(holders[i], policy)]
    IN  /\ holders # <<>> /\ SumOver(raw) > 0 => SumOver(amounts) = policy.total * Unit
        /\ \A i, j \in DOMAIN holders : raw[i] < raw[j] => amounts[i] <= amounts[j]
=============================================================================
