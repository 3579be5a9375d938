---------------------------- MODULE MCMegadrop ----------------------------
(***************************************************************************)
(* Three tranches from December on, so that they run over the turn of the  *)
(* year; a root, and a re-snapshot that changes alice's allocation and     *)
(* drops bob.  The admin may move the first month by one.  Either the page *)
(* stays closed and the others do what they like, or they are bounded and  *)
(* both holders use the page; alice's second proof is empty and so goes    *)
(* inline, the others are staged.  The chain goes from December to         *)
(* February, the users' machines show January.                             *)
(***************************************************************************)
EXTENDS MegadropPage

CONSTANTS alice, bob, admin, root1, root2, pda, other, sLeft, sRight

McRoot1 == [h \in {alice, bob} |-> IF h = alice THEN 7 ELSE 3]
McRoot2 == [h \in {alice} |-> 10]
McLeaf == [r \in {root1, root2} |-> IF r = root1 THEN McRoot1 ELSE McRoot2]
McPath1 == [h \in {alice, bob} |-> IF h = alice THEN <<sRight, sLeft>> ELSE <<sLeft, sLeft>>]
McPath2 == [h \in {alice} |-> <<>>]
McPath == [r \in {root1, root2} |-> IF r = root1 THEN McPath1 ELSE McPath2]
McTreasury == [t \in {pda, other} |-> IF t = pda THEN 8 ELSE 3]
McWallet == [w \in {alice, bob, admin} |->
               IF w = alice THEN 2 ELSE IF w = bob THEN 3 ELSE 1]
McRent == [n \in {2} |-> 1]
McRequests == {<<1>>, <<3, 2>>, <<2, 2>>, <<2>>}
McChunks == {<<sLeft>>, <<sRight, sLeft>>}
McBudgets == {[others |-> Unlimited, visits |-> 0, claims |-> 0],
              [others |-> 1, visits |-> 2, claims |-> 1],
              [others |-> 1, visits |-> 1, claims |-> 2],
              [others |-> 2, visits |-> 1, claims |-> 1]}
=============================================================================
