---------------------------- MODULE MCAlgorithms ----------------------------
(***************************************************************************)
(* The pure algorithms against their reference definitions, and the small  *)
(* faucet program.  A behaviour has one subject.  A calendar is turned one *)
(* day at a time, by the Gregorian rules; or a list of holders grows by    *)
(* one at a time, under one of the policies, and is shared out, put under  *)
(* a Merkle root and looked up; or a batch of intents grows by one at a    *)
(* time and is cleared against one of the market makers; or a message      *)
(* grows by one letter at a time and is sent; or the faucet runs.          *)
(***************************************************************************)
EXTENDS CalendarWalk, HolderList, IntentBatch, MessageText, AgentFaucet

CONSTANTS
    a1, a2         \* agents

VARIABLE
    subject    \* what this behaviour is about

vars == <<walkVars, holderVars, batchVars, text, subject>>

McPolicies == {[total |-> 5, base |-> 1, perNft |-> 2, perToken |-> 3],
               [total |-> 4, base |-> 0, perNft |-> 3, perToken |-> 1],
               [total |-> 0, base |-> 1, perNft |-> 1, perToken |-> 1]}

McHoldings == {[nfts |-> 0, tokens |-> 1], [nfts |-> 1, tokens |-> 0],
               [nfts |-> 2, tokens |-> 5]}

McFaucetArgs == {[quota_per_epoch |-> 2, epoch_slots |-> 2, start_slot |-> 1],
                 [quota_per_epoch |-> 3, epoch_slots |-> 1, start_slot |-> 0],
                 [quota_per_epoch |-> 0, epoch_slots |-> 2, start_slot |-> 1],
                 [quota_per_epoch |-> 2, epoch_slots |-> 0, start_slot |-> 1]}

McChecksum(bare) == (bare + (bare \div 4) + (bare \div 32)) % 2
McRoundFunction(nonce, round, half) == (half * half + 5 * nonce + 3 * round + 1) % 32

\* Prices of a half, one and three halves; at the last one the flow moves it.
McAmms == {[spot |-> 1, impact |-> 0], [spot |-> 2, impact |-> 0],
           [spot |-> 3, impact |-> 1]}

\* Mint 1 is the quote of mints 2 and 3.  Signers and mints are in the order
\* of their numbers, and so are intents: a batch is listed once.
McKinds ==
    LET Kind(s, i, o, n) == [signer |-> s, in_mint |-> i, out_mint |-> o, in_amount |-> n]
    IN  <<Kind(1, 1, 2, 1), Kind(1, 1, 2, 3), Kind(2, 1, 2, 3), Kind(2, 1, 2, 0),
          Kind(2, 2, 1, 2), Kind(3, 2, 1, 2), Kind(3, 2, 1, 5), Kind(1, 2, 1, 3),
          Kind(1, 3, 1, 1), Kind(2, 1, 3, 4), Kind(2, 3, 3, 1)>>

Init ==
    /\ WalkInit
    /\ HoldersInit
    /\ BatchInit
    /\ TextInit
    /\ subject \in {"calendar", "holders", "batch", "text", "faucet"}
    /\ subject # "holders" => policy = CHOOSE x \in Policies : TRUE
    /\ subject # "batch" => amm = CHOOSE x \in Amms : TRUE
    /\ FaucetInit

WalkCalendar ==
    /\ subject = "calendar"
    /\ WalkDay
    /\ UNCHANGED <<holderVars, batchVars, text, subject, faucetVars>>

ListHolder ==
    /\ subject = "holders"
    /\ AddHolder
    /\ UNCHANGED <<walkVars, batchVars, text, subject, faucetVars>>

ListIntent ==
    /\ subject = "batch"
    /\ AddIntent
    /\ UNCHANGED <<walkVars, holderVars, text, subject, faucetVars>>

TypeLetter ==
    /\ subject = "text"
    /\ AddLetter
    /\ UNCHANGED <<walkVars, holderVars, batchVars, subject, faucetVars>>

RunFaucet ==
    /\ subject = "faucet"
    /\ FaucetNext
    /\ UNCHANGED vars

AlgorithmsSpec ==
    Init /\ [][WalkCalendar \/ ListHolder \/ ListIntent \/ TypeLetter \/ RunFaucet]_<<vars, faucetVars>>
=============================================================================
