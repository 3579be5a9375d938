---------------------------- MODULE ClaimLedger ----------------------------
(***************************************************************************)
(* What the lazy-claim program promises, with nothing of how it does it:   *)
(* a pool of lamports from which each snapshot account can be materialized *)
(* at most once, for exactly the balance its Merkle leaf commits to, until *)
(* the pool's custody is handed over (docs/SPEC.md section 8, I2).         *)
(***************************************************************************)
EXTENDS Naturals

CONSTANTS
    Claimants,   \* pubkeys with a leaf under claimable_root
    Leaf,        \* Leaf[p]: the lamports p's leaf commits to
    Supply       \* lamports in the pool at genesis

VARIABLES
    claimed,     \* the claimants already materialized
    pool,        \* lamports still in the pool
    withdrawn,   \* lamports the pool's custodian has taken out
    open         \* FALSE once custody of the pool was handed over

ledgerVars == <<claimed, pool, withdrawn, open>>

LedgerInit ==
    /\ claimed = {}
    /\ pool = Supply
    /\ withdrawn = 0
    /\ open = TRUE

Materialize(p) ==
    /\ open
    /\ p \notin claimed
    /\ Leaf[p] <= pool
    /\ claimed' = claimed \cup {p}
    /\ pool' = pool - Leaf[p]
    /\ UNCHANGED <<withdrawn, open>>

Withdraw ==
    /\ open
    /\ \E amount \in 0..pool : /\ pool' = pool - amount
                               /\ withdrawn' = withdrawn + amount
    /\ UNCHANGED <<claimed, open>>

\* Anyone may add to the pool, before or after custody was handed over.
Deposit ==
    /\ pool' \in Nat
    /\ pool' > pool
    /\ UNCHANGED <<claimed, withdrawn, open>>

Close ==
    /\ open
    /\ open' = FALSE
    /\ UNCHANGED <<claimed, pool, withdrawn>>

LedgerNext ==
    \/ \E p \in Claimants : Materialize(p)
    \/ Withdraw
    \/ Deposit
    \/ Close

LedgerSpec == LedgerInit /\ [][LedgerNext]_ledgerVars
=============================================================================
