------------------------------ MODULE MCBridge ------------------------------
(* Two tabs, two mainnet wallets, two assets, a list of two entries and a  *)
(* window of one release.  A behaviour has one order and three changes of  *)
(* wallet, or two orders (the first of which draws the nonce that an entry *)
(* of another asset has, the second pushes that entry out), or one order   *)
(* in a world where others burn or have burns released, one of them of     *)
(* another asset and with the same nonce, and a request fails.             *)
EXTENDS Bridge

CONSTANTS t1, t2, w1, w2, b1, b2, b3

Budget(earlier, old, visits, orders, foreign, slips) ==
    [earlier |-> earlier,
     drawn |-> [a \in {"staccana", "ssUsdc"} |-> IF a = "ssUsdc" THEN old ELSE 0],
     visits |-> visits, orders |-> orders, foreign |-> foreign, slips |-> slips]

OneEarlier == <<[order |-> b3, asset |-> "ssUsdc", nonce |-> 1]>>

McBudgets == {Budget(<<>>, 0, 3, 1, 0, 0), Budget(OneEarlier, 1, 0, 2, 0, 0),
              Budget(<<>>, 1, 0, 1, 2, 1)}
=============================================================================
