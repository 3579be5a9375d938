---------------------------- MODULE ProofLookup ----------------------------
(***************************************************************************)
(* How a wallet gets its proof.  For the claim, snapshot-fork writes every *)
(* leaf with its proof into a shard by the first bits of its pubkey, and   *)
(* GET /api/claim/<pubkey> scans that shard.  For the megadrop, the tool   *)
(* megadrop-merkle commits to the allocations it computed, and             *)
(* GET /api/megadrop/<pubkey> rebuilds the proof from the list of them.    *)
(* Each page then checks what it got by recomputing the root.              *)
(***************************************************************************)
EXTENDS MerkleTree, Selections, SequencesExt

CONSTANTS
    ShardWidth,   \* pubkeys per shard: 2^244
    Unit,         \* lamports per SOL
    TokenUnit     \* tokens that earn one bonus: 1e6

ASSUME LookupAssumption ==
    /\ ShardWidth \in Nat \ {0}
    /\ Unit \in Nat \ {0}
    /\ TokenUnit \in Nat \ {0}

NotFound == [status |-> 404]
Found(hit) == [status |-> 200, hit |-> hit]

-----------------------------------------------------------------------------
(* The claim.                                                              *)

ShardId(pubkey) == pubkey \div ShardWidth

\* emit_shards: one line per leaf, in the order of the sorted leaves.
Shard(leaves, id) ==
    LET line(leaf) == [pubkey    |-> leaf.pubkey,
                       lamports  |-> leaf.lamports,
                       leafIndex |-> LeafIndex(leaves, leaf.pubkey),
                       proof     |-> BuildInclusionProof(leaves, leaf.pubkey).proof]
        sorted == SortLeaves(leaves)
        mine == Those(sorted, {i \in DOMAIN leaves : ShardId(sorted[i].pubkey) = id})
    IN  [i \in DOMAIN mine |-> line(mine[i])]

\* The first line of a shard that is the pubkey's, 0 if none is.
LineOf(lines, pubkey) == SelectInSeq(lines, LAMBDA l : l.pubkey = pubkey)

\* GET /api/claim/<pubkey>
ClaimRoute(leaves, pubkey) ==
    LET lines == Shard(leaves, ShardId(pubkey))
        first == LineOf(lines, pubkey)
    IN  IF first = 0 THEN NotFound ELSE Found(lines[first])

\* The page rebuilds the flags from the index and recomputes the root.
ProofOfLine(l) ==
    [pubkey     |-> l.pubkey,
     lamports   |-> l.lamports,
     proof      |-> l.proof,
     proofFlags |-> FlagsOfIndex(l.leafIndex, Len(l.proof))]

-----------------------------------------------------------------------------
(* The megadrop.  A holder is [owner, nfts, tokens], a policy is           *)
(* [total, base, perNft, perToken], in SOL.                                *)

RawShare(h, policy) ==
    (policy.base + h.nfts * policy.perNft + (h.tokens \div TokenUnit) * policy.perToken) * Unit

\* The truncated shares of the target.
Scaled(raw, target) == [i \in DOMAIN raw |-> (target * raw[i]) \div SumOver(raw)]

\* Who gets a lamport of the residue first: larger raw share, then owner.
Ahead(holders, raw, i, j) ==
    raw[i] > raw[j] \/ (raw[i] = raw[j] /\ holders[i].owner < holders[j].owner)

\* Mutant: only the whole rounds of the residue are handed out.
WithResidueRounds(holders, raw, scaled, residue) ==
    [i \in DOMAIN scaled |-> scaled[i] + residue \div Len(scaled)]

\* Every holder gets the whole rounds of the residue, the first ones a
\* lamport more.
WithResidue(holders, raw, scaled, residue) ==
    [i \in DOMAIN scaled |->
        LET rank == Cardinality({j \in DOMAIN scaled : Ahead(holders, raw, j, i)})
        IN  scaled[i] + residue \div Len(scaled)
              + (IF rank < residue % Len(scaled) THEN 1 ELSE 0)]

\* compute_allocations
Allocate(holders, policy) ==
    LET raw    == [i \in DOMAIN holders |-> RawShare(holders[i], policy)]
        target == policy.total * Unit
        scaled == Scaled(raw, target)
    IN  IF target = 0 \/ SumOver(raw) = 0 THEN [i \in DOMAIN holders |-> 0]
        ELSE WithResidue(holders, raw, scaled, target - SumOver(scaled))

\* The rows of allocations.json.
Rows(holders, policy) ==
    LET lamports == Allocate(holders, policy)
    IN  [i \in DOMAIN holders |-> [pubkey |-> holders[i].owner, lamports |-> lamports[i]]]

\* build_tree commits to every row, those of zero lamports included.
CommittedRoot(rows) == BuildMerkleRoot(rows)

\* The route leaves the rows of zero lamports out.
RouteLeaves(rows) == Those(rows, {i \in DOMAIN rows : rows[i].lamports > 0})

\* GET /api/megadrop/<pubkey>
MegadropRoute(rows, pubkey) ==
    IF InTree(rows, pubkey) /\ InTree(RouteLeaves(rows), pubkey)
    THEN Found(BuildInclusionProof(RouteLeaves(rows), pubkey))
    ELSE NotFound
=============================================================================
