---------------------------- MODULE BatchMatcher ----------------------------
(***************************************************************************)
(* The batch matcher (matcher/src): the intents of a slot are grouped by   *)
(* pair of mints; of each group, buys and sells are crossed largest first, *)
(* at one price between the market maker's before and after the net flow,  *)
(* and what is left over goes to the market maker.                         *)
(*                                                                         *)
(* A price counts 1/One of a quote unit per base unit (Q64.64: 2^64).      *)
(* No clamp of a cross to u64 can bind: it is at most what the seller has, *)
(* and its value at most what the buyer has.  That a price of a few 2^-64  *)
(* brings sums of demand near the end of u128 is left out.                 *)
(* An intent's min_out is never read; only untouched intents keep it, as   *)
(* they keep the nonce that stands for both here.                          *)
(***************************************************************************)
EXTENDS Integers, Sequences, FiniteSets, Selections

CONSTANTS
    One,      \* 1.0 as a price
    Quotes    \* mints of the QuoteRegistry

ASSUME MatcherAssumption == One \in Nat \ {0}

\* classify_pair: <<base, quote>>.
ClassifyPair(intent) ==
    LET i == intent.in_mint
        o == intent.out_mint
    IN  IF i \in Quotes /\ o \notin Quotes THEN <<o, i>>
        ELSE IF o \in Quotes /\ i \notin Quotes THEN <<i, o>>
        ELSE IF i < o THEN <<i, o>> ELSE <<o, i>>

QuoteToBase(amount, price) == IF price = 0 THEN 0 ELSE (amount * One) \div price

\* Mutant: rounded in favour of the buyer.
BaseToQuoteFloor(amount, price) == (amount * price) \div One

BaseToQuoteCeil(amount, price) ==
    (amount * price) \div One + (IF (amount * price) % One # 0 THEN 1 ELSE 0)

Midpoint(a, b) == (a \div 2) + (b \div 2) + (((a % 2) + (b % 2)) \div 2)

\* AmmAdapter: some market maker whose price moves with the flow.
SpotPrice(amm) == amm.spot
PostPrice(amm, net, side) ==
    IF side = "buy" THEN amm.spot + amm.impact * net
    ELSE IF amm.impact * net < amm.spot THEN amm.spot - amm.impact * net ELSE 0

\* Mutant: equal amounts stay in the order of arrival.
BySizeOnly(a, b) == a.in_amount > b.in_amount

\* The comparison of sort_by, which is stable.
BySize(a, b) ==
    a.in_amount > b.in_amount \/ (a.in_amount = b.in_amount /\ a.signer < b.signer)

SizePriority(s) ==
    LET Goes(i, j) == BySize(s[i], s[j]) \/ (~BySize(s[j], s[i]) /\ i < j)
        Ahead(j) == Cardinality({i \in DOMAIN s : Goes(i, j)})
    IN  [k \in DOMAIN s |-> s[CHOOSE j \in DOMAIN s : Ahead(j) = k - 1]]

-----------------------------------------------------------------------------
(* The loop of clear_pair.  Its state is how many of the bids and asks were *)
(* taken from their sides, what is left of the last of each, the matches    *)
(* and the residual so far, and whether the loop has ended.                 *)

MadeUp == 0   \* the nonce, and min_out, of an intent made up for a remainder

Remainder(intent, amount) == [intent EXCEPT !.in_amount = amount, !.nonce = MadeUp]

\* buy_iter.next(), sell_iter.next(): when nothing is left of the one before.
NextBuyer(s, bids) ==
    IF s.bid > 0 THEN s
    ELSE [s EXCEPT !.bought = @ + 1, !.bid = bids[s.bought + 1].in_amount]
NextSeller(s, asks) ==
    IF s.ask > 0 THEN s
    ELSE [s EXCEPT !.sold = @ + 1, !.ask = asks[s.sold + 1].in_amount]

\* What is left of the buyer's quote buys no base unit: on to the next buyer.
PassedOver(s, bids) ==
    [s EXCEPT !.bid = 0, !.residual = Append(@, Remainder(bids[s.bought], s.bid))]

Crossed(s, bids, asks, base, quote) ==
    [s EXCEPT !.bid = @ - quote, !.ask = @ - base,
              !.matches = Append(@, [buyer |-> bids[s.bought].signer,
                                     seller |-> asks[s.sold].signer,
                                     base_amount |-> base, quote_amount |-> quote])]

Lesser(a, b) == IF a <= b THEN a ELSE b

\* A buyer and a seller meet.
Meet(s, bids, asks, price) ==
    LET base  == Lesser(QuoteToBase(s.bid, price), s.ask)
        quote == Lesser(BaseToQuoteCeil(base, price), s.bid)
    IN  IF base = 0 \/ quote = 0 THEN PassedOver(s, bids)
        ELSE Crossed(s, bids, asks, base, quote)

\* No seller is left for a buyer.
Unmet(s, bids) ==
    [IF s.bid > 0 THEN PassedOver(s, bids) ELSE s EXCEPT !.done = TRUE]

OnePass(s, bids, asks, price) ==
    IF s.done THEN s
    ELSE IF s.bid = 0 /\ s.bought = Len(bids) THEN [s EXCEPT !.done = TRUE]
    ELSE LET b == NextBuyer(s, bids)
         IN  IF b.ask = 0 /\ b.sold = Len(asks) THEN Unmet(b, bids)
             ELSE Meet(NextSeller(b, asks), bids, asks, price)

LoopStart == [bought |-> 0, sold |-> 0, bid |-> 0, ask |-> 0,
              matches |-> <<>>, residual |-> <<>>, done |-> FALSE]

\* Each pass but the last uses up a bid or an ask, or leaves of a bid less than
\* buys a base unit, which the next pass is done with.
Passes(bids, asks) == 2 * Len(bids) + Len(asks) + 1

Cross(bids, asks, price) ==
    LET after[k \in 0..Passes(bids, asks)] ==
            IF k = 0 THEN LoopStart ELSE OnePass(after[k - 1], bids, asks, price)
    IN  after[Passes(bids, asks)]

-----------------------------------------------------------------------------
(* A pair, and all pairs.                                                  *)

ClearingPrice(buys, sells, amm) ==
    LET pre      == SpotPrice(amm)
        demanded == SumOver([i \in DOMAIN buys |-> QuoteToBase(buys[i].in_amount, pre)])
        offered  == SumOver([i \in DOMAIN sells |-> sells[i].in_amount])
        post     == IF demanded > offered THEN PostPrice(amm, demanded - offered, "buy")
                    ELSE PostPrice(amm, offered - demanded, "sell")
    IN  Midpoint(pre, post)

\* A pair's intents by side: what is a buy is no sell.
IsBuy(x, pair) == x.out_mint = pair[1] /\ x.in_mint = pair[2]
IsSell(x, pair) == ~IsBuy(x, pair) /\ x.in_mint = pair[1] /\ x.out_mint = pair[2]

\* What goes to the market maker when the loop has ended.
Leftover(end, bids, asks) ==
    end.residual
      \o (IF end.ask > 0 THEN <<Remainder(asks[end.sold], end.ask)>> ELSE <<>>)
      \o SubSeq(asks, end.sold + 1, Len(asks))
      \o SubSeq(bids, end.bought + 1, Len(bids))

ClearPair(pair, intents, amm) ==
    LET buys  == Those(intents, {i \in DOMAIN intents : IsBuy(intents[i], pair)})
        sells == Those(intents, {i \in DOMAIN intents : IsSell(intents[i], pair)})
        bids  == SizePriority(buys)
        asks  == SizePriority(sells)
        price == ClearingPrice(buys, sells, amm)
        end   == Cross(bids, asks, price)
    IN  [price |-> price, matches |-> end.matches, residual |-> Leftover(end, bids, asks)]

Group(intents, pair) ==
    Those(intents, {i \in DOMAIN intents : ClassifyPair(intents[i]) = pair})

\* The result of each pair, which the code lists in the order of the pairs.
BatchMatch(intents, amm) ==
    [pair \in {ClassifyPair(intents[i]) : i \in DOMAIN intents} |->
        ClearPair(pair, Group(intents, pair), amm)]
=============================================================================
