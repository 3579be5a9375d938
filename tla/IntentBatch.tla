---------------------------- MODULE IntentBatch ----------------------------
(***************************************************************************)
(* A batch of intents grows by one at a time, before one market maker.  At *)
(* every length it is cleared (batch_match).  A batch is listed once, in   *)
(* the order of IntentKinds, which may repeat a kind.                      *)
(***************************************************************************)
EXTENDS BatchMatcher

CONSTANTS
    IntentKinds,   \* what intents may be, a sequence of [signer, in_mint, out_mint, in_amount]
    Amms,          \* market makers, [spot, impact]
    MaxBatch       \* bound: intents in a batch

ASSUME BatchAssumption ==
    /\ IntentKinds \in Seq([signer : Nat, in_mint : Nat, out_mint : Nat, in_amount : Nat])
    /\ Amms \subseteq [spot : Nat, impact : Nat]
    /\ MaxBatch \in Nat

VARIABLES
    batch,     \* [kind, nonce] of each intent of the slot
    amm        \* the market maker

batchVars == <<batch, amm>>

BatchInit ==
    /\ batch = <<>>
    /\ amm \in Amms

AddIntent ==
    /\ Len(batch) < MaxBatch
    /\ \E k \in DOMAIN IntentKinds :
          /\ \A i \in DOMAIN batch : batch[i].kind <= k
          /\ batch' = Append(batch, [kind |-> k, nonce |-> Len(batch) + 1])
    /\ UNCHANGED amm

BatchSpec == BatchInit /\ [][AddIntent]_batchVars

intents == [i \in DOMAIN batch |->
               [signer    |-> IntentKinds[batch[i].kind].signer,
                in_mint   |-> IntentKinds[batch[i].kind].in_mint,
                in_amount |-> IntentKinds[batch[i].kind].in_amount,
                out_mint  |-> IntentKinds[batch[i].kind].out_mint,
                nonce     |-> batch[i].nonce]]

-----------------------------------------------------------------------------
(* Properties *)

\* What a signer brings of a mint, in a list of intents; what it pays, and what
\* it delivers, in a list of matches.
Brought(s, signer, mint) ==
    SumOver([i \in DOMAIN s |->
        IF s[i].signer = signer /\ s[i].in_mint = mint THEN s[i].in_amount ELSE 0])
Paid(matches, buyer) ==
    SumOver([i \in DOMAIN matches |->
        IF matches[i].buyer = buyer THEN matches[i].quote_amount ELSE 0])
Delivered(matches, seller) ==
    SumOver([i \in DOMAIN matches |->
        IF matches[i].seller = seller THEN matches[i].base_amount ELSE 0])

\* Of every mint, a signer spends in crosses and keeps in the residual just what
\* it brought; a cross is at the clearing price, rounded up by less than one
\* quote unit for the seller (batch.rs:214, test sub_unit_price_cross_never_
\* settles_zero_quote); and no buyer and seller are left over who could trade.
ClearsFairly ==
    LET cleared == BatchMatch(intents, amm)
    IN  \A pair \in DOMAIN cleared :
            LET r     == cleared[pair]
                group == Group(intents, pair)
            IN  /\ \A i \in DOMAIN group :
                      LET s == group[i].signer
                      IN  /\ Brought(group, s, pair[2])
                                = Brought(r.residual, s, pair[2]) + Paid(r.matches, s)
                          /\ Brought(group, s, pair[1])
                                = Brought(r.residual, s, pair[1]) + Delivered(r.matches, s)
                /\ \A i \in DOMAIN r.matches :
                      LET m == r.matches[i]
                      IN  /\ m.base_amount > 0
                          /\ m.quote_amount * One >= m.base_amount * r.price
                          /\ (m.quote_amount - 1) * One < m.base_amount * r.price
                /\ ~ \E i, j \in DOMAIN r.residual :
                        LET x == r.residual[i]
                            y == r.residual[j]
                        IN  /\ IsBuy(x, pair) /\ QuoteToBase(x.in_amount, r.price) > 0
                            /\ IsSell(y, pair) /\ y.in_amount > 0

\* The intents in another order.
Orders == {f \in [DOMAIN batch -> DOMAIN batch] :
              \A i \in DOMAIN batch : \E j \in DOMAIN batch : f[j] = i}

\* Intents that differ in their nonce at most.
Like(x, y) == [x EXCEPT !.nonce = MadeUp] = [y EXCEPT !.nonce = MadeUp]

\* "Replay invariant: same input set => same output regardless of order"
\* (batch.rs, test determinism_under_input_reordering): so it is for price and
\* crosses, and for the residual but for which of several like intents (of one
\* signer, mint and amount) is the one left over.
ReplayInvariant ==
    LET result == BatchMatch(intents, amm)
        alike  == \E i, j \in DOMAIN intents : i # j /\ Like(intents[i], intents[j])
    IN  \A f \in Orders :
            LET other == BatchMatch([i \in DOMAIN batch |-> intents[f[i]]], amm)
            IN  /\ DOMAIN other = DOMAIN result
                /\ \A pair \in DOMAIN result :
                      LET r == result[pair]
                          o == other[pair]
                      IN  /\ o.price = r.price
                          /\ o.matches = r.matches
                          /\ DOMAIN o.residual = DOMAIN r.residual
                          /\ \A i \in DOMAIN r.residual : Like(o.residual[i], r.residual[i])
                          /\ ~alike => o.residual = r.residual
=============================================================================
