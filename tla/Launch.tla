------------------------------- MODULE Launch -------------------------------
(***************************************************************************)
(* The launchpad around one curve: the page that creates it                *)
(* (frontend/app/launch/create/page.tsx), the trade panels of its users    *)
(* (frontend/app/launch/[mint]/page.tsx with lib/pump.ts and lib/lut.ts),  *)
(* and the cron job that stores its trades                                 *)
(* (frontend/app/api/cron/index-launch-trades/route.ts with                *)
(* lib/pump-extra.ts and lib/db.ts).                                       *)
(*                                                                         *)
(* An order is quoted against the curve as the panel shows it, built,      *)
(* signed or not, and executed later, by the program of BondingCurve, all  *)
(* of its instructions or none.  A panel stays mounted when its user       *)
(* connects another wallet.  The fees of the trades go to the treasury of  *)
(* lazy-claim, which its administrator can drain.  Token-2022 and the      *)
(* chain's rent are outside this repository.                               *)
(***************************************************************************)
EXTENDS BondingCurve, FiniteSets, SequencesExt

CONSTANTS
    Users,        \* wallets
    Panels,       \* mounted trade panels
    Opened,       \* Opened[t]: the wallet connected when t is first mounted
    Creator,      \* the user who launches
    Slips,        \* slippage tolerances, of SlipDenom
    SlipDenom,    \* 10_000
    MaxDeposit,   \* 2^48 - 1
    PageTreasury, \* SECRET_PUMP_TREASURY, which the page passes and seeds
    CurveTreasury, \* TREASURY_PUBKEY_PLACEHOLDER, which the program takes
    TxFee,        \* lamports for a signature: 5000
    AtaRent,      \* rent of a token account
    LaunchRent,   \* rent of the mint, the curve and its vault
    SeedRent,     \* rent of an account without data, which the treasury needs
    Fetched,      \* signatures of the curve that the cron job asks for: 100
    MaxOrders,
    Budgets,      \* bounds: which panels are used, how many orders are built, how
                  \* many transactions and rows the cron job loses, how often a
                  \* panel's wallet changes, how often the treasury is drained
    Nothing       \* no curve on the page, no row in the table

ASSUME LaunchAssumption ==
    /\ Creator \in Users
    /\ Opened \in [Panels -> Users]
    /\ SlipDenom \in Nat \ {0}
    /\ Slips \subseteq 0..SlipDenom
    /\ {MaxDeposit, TxFee, AtaRent, LaunchRent, SeedRent, MaxOrders} \subseteq Nat
    /\ Budgets \subseteq [used : SUBSET Panels, orders : 0..MaxOrders, skips : Nat,
                    changes : Nat, drains : Nat]
    /\ Fetched \in Nat \ {0}
\* The fee is 1%; below a half, the gross amount of a sell can be recovered.
ASSUME SmallFeeAssumption == 2 * FeeBps <= BpsDenom
ASSUME NothingAssumption == Nothing \notin Nat

VARIABLES
    orders,   \* orders in the sequence they were built in
    account,  \* account[u]: the user's token account
    panel,    \* panel[t]: the wallet connected, the curve it shows, whether it
              \* takes the account for configured, and (observer) whose account
    treasury, \* the account PageTreasury: lazy-claim's, anybody's, or "absent"
    drained,  \* observer: how many orders there were when it was drained
    log,      \* executed orders, as the signatures of the curve: oldest first
    rows,     \* launch_trades: rows[o], or Nothing
    budget    \* what is left of the behaviour's bounds

launchVars == <<vars, orders, account, panel, treasury, drained, log, rows, budget>>
treasuryVars == <<treasury, drained>>

Ids == 1..MaxOrders
NoAccount == [exists |-> FALSE, room |-> FALSE, configured |-> FALSE,
              public |-> 0, pending |-> 0]

\* A panel that was just mounted: no curve yet, ataConfigured is null.
FreshPanel(u) == [who |-> u, shown |-> Nothing, ata |-> "unknown", about |-> u]

LaunchInit ==
    /\ Init
    /\ orders = <<>>
    /\ account = [u \in Users |-> NoAccount]
    /\ panel = [t \in Panels |-> FreshPanel(Opened[t])]
    /\ treasury \in {"lazyClaim", "absent"}
    /\ drained = Nothing
    /\ log = <<>>
    /\ rows = [o \in Ids |-> Nothing]
    /\ budget \in Budgets

-----------------------------------------------------------------------------
(* Quotes, against the reserves r that a page shows.                       *)

InitialReserves == [sol |-> 0, tokens |-> VirtualTokens, graduated |-> FALSE]

\* decodeBondingCurve: what the page keeps of the account.
Reserves == [sol |-> sol, tokens |-> tokens, graduated |-> graduated]

BuyQuoted(r, solIn) ==
    /\ ~r.graduated
    /\ IntoCurve(solIn) > 0
    /\ TokensAfterBuy(r.sol, solIn) < r.tokens
    /\ r.sol + IntoCurve(solIn) <= MaxU64

SellQuoted(r, tokensIn) ==
    /\ ~r.graduated
    /\ tokensIn > 0
    /\ r.tokens + tokensIn <= VirtualTokens
    /\ GrossOut(r.sol, r.tokens, tokensIn) \in 1..r.sol

MinOut(out, slip) == (out * (SlipDenom - slip)) \div SlipDenom
MinTokens(r, solIn, slip) == MinOut(TokensOut(r.sol, r.tokens, solIn), slip)
MinSol(r, tokensIn, slip) == MinOut(ToSeller(r.sol, r.tokens, tokensIn), slip)

-----------------------------------------------------------------------------
(* Building orders.  Nothing of the curve is held: others trade meanwhile. *)
(* An instruction is its name, the amount it is for and the least that it  *)
(* may return.                                                             *)

Ix(name, amount, least) == [name |-> name, amount |-> amount, least |-> least]

\* buildMintInitInstructions: the authority goes to the curve PDA at the end.
MintInitIxs == <<Ix("CreateMint", 0, 0), Ix("SetAuthority", 0, 0)>>
CreateCurveIx == Ix("Create", 0, 0)
CreateAtaIx == Ix("CreateAta", 0, 0)
BuyIx(solIn, minTokens) == Ix("Buy", solIn, minTokens)
SellIx(tokensIn, minSol) == Ix("Sell", tokensIn, minSol)
ConfigureIxs == <<Ix("Configure", 0, 0), Ix("VerifyPubkeyValidity", 0, 0)>>
DepositIxs(amount) == IF amount > 0 THEN <<Ix("Deposit", amount, 0)>> ELSE <<>>

\* An account without lamports is none: the treasury can pay its rent or is
\* absent.
Funded == treasury /= "absent"

\* buildSeedTreasuryIfNeededInstruction
SeedTreasuryIxs == IF Funded THEN <<>> ELSE <<Ix("SeedTreasury", SeedRent, 0)>>

\* An order and the panel it was built in, if any; about (observer) is whose
\* account was taken for configured.
Order(t, u, about, phase, ixs) ==
    [panel |-> t, user |-> u, about |-> about, phase |-> phase, ixs |-> ixs,
     refused |-> {}, proceeds |-> 0, overhead |-> 0, delta |-> 0, after |-> 0]

Has(r, name) == \E i \in DOMAIN r.ixs : r.ixs[i].name = name
The(r, name) == CHOOSE ix \in ToSet(r.ixs) : ix.name = name
AmountOf(r, name) == IF Has(r, name) THEN The(r, name).amount ELSE 0

\* While a panel is submitting its button is disabled.
Building(t) == \E o \in DOMAIN orders : orders[o].panel = t /\ orders[o].phase = "built"

SeedBuyIxs(seedBuy) ==
    IF seedBuy > 0 THEN SeedTreasuryIxs \o <<CreateAtaIx, BuyIx(seedBuy, 0)>> ELSE <<>>

\* How the page comes by a lookup table: one is remembered, still there, not
\* deactivated and complete (loadUsableLut); a new one was made and is seen in
\* time (bootstrapLookupTable); or neither.
Tables == {"remembered", "made", "none"}

\* Without a table the transaction has to be small.
Fits(big, table) == big => table /= "none"

\* onLaunch: one transaction that makes the mint, hands its authority to the
\* curve, creates the curve and buys.  It is sent without preflight and called
\* a success then; the seed buy takes any number of tokens.
SendLaunch(seedBuy, big, table) ==
    /\ orders = <<>>
    /\ Fits(big, table)
    /\ orders' = <<Order(Nothing, Creator, Creator, "sent",
                        MintInitIxs \o <<CreateCurveIx>> \o SeedBuyIxs(seedBuy))>>
    /\ UNCHANGED <<vars, account, panel, treasuryVars, log, rows, budget>>

\* The page is opened, or opened again, and the curve is found.
CurveShown(t) ==
    /\ created /\ ~Building(t) /\ t \in budget.used
    /\ panel' = [panel EXCEPT ![t] = [FreshPanel(@.who) EXCEPT !.shown = Reserves]]
    /\ UNCHANGED <<vars, orders, account, treasuryVars, log, rows, budget>>

\* Another wallet connects.  The panel has no key and no effect on the wallet:
\* ataConfigured stays, and so does an order that waits for its signature.
ChangeWallet(t, u) ==
    /\ u /= panel[t].who
    /\ budget.changes > 0 /\ t \in budget.used
    /\ budget' = [budget EXCEPT !.changes = @ - 1]
    /\ panel' = [panel EXCEPT ![t].who = u]
    /\ UNCHANGED <<vars, orders, account, treasuryVars, log, rows>>

\* ataConfigured === true; "assumed" was set by the panel itself.
TakenForConfigured(t) == panel[t].ata \in {"yes", "assumed"}

\* hasConfidentialAccountState
Probed(u) == IF account[u].configured THEN "yes" ELSE "no"

\* A buy configures unless the account is taken for configured or found to be:
\* a probe that fails counts as a no.  Without keys the order stays public.
NeedsConfigure(t, probeFails) ==
    ~TakenForConfigured(t) /\ (probeFails \/ ~account[panel[t].who].configured)

AtaAfterBuy(t, configures, probeFails) ==
    CASE configures -> "assumed"
      [] ~configures /\ probeFails -> panel[t].ata
      [] OTHER -> Probed(panel[t].who)

\* setAtaConfigured, about the wallet that is connected.
Learns(t, ata) == [panel EXCEPT ![t].ata = ata, ![t].about = panel[t].who]

\* Mutant: the deposit is what the quote promises.
DepositQuoted(quoted, minOut) == IF quoted < MaxDeposit THEN quoted ELSE MaxDeposit

\* The guaranteed tokens, cut to what one Deposit may carry.
DepositOf(quoted, minOut) == IF minOut < MaxDeposit THEN minOut ELSE MaxDeposit

BuildBuy(t, solIn, slip, confidential, probeFails, hasKeys) ==
    LET r == panel[t].shown
        u == panel[t].who
        configures == confidential /\ hasKeys /\ NeedsConfigure(t, probeFails)
        deposits == confidential /\ (NeedsConfigure(t, probeFails) => hasKeys)
        minTokens == MinTokens(r, solIn, slip)
        deposit == DepositOf(TokensOut(r.sol, r.tokens, solIn), minTokens)
    IN  /\ r /= Nothing /\ ~Building(t)
        /\ Len(orders) < budget.orders
        /\ BuyQuoted(r, solIn)
        /\ orders' = Append(orders,
              Order(t, u, IF TakenForConfigured(t) THEN panel[t].about ELSE u, "built",
                    SeedTreasuryIxs \o <<CreateAtaIx>>
                      \o (IF configures THEN ConfigureIxs ELSE <<>>)
                      \o <<BuyIx(solIn, minTokens)>>
                      \o DepositIxs(IF deposits THEN deposit ELSE 0)))
        /\ panel' = IF confidential /\ ~TakenForConfigured(t)
                    THEN Learns(t, AtaAfterBuy(t, configures, probeFails))
                    ELSE panel
        /\ UNCHANGED <<vars, account, treasuryVars, log, rows, budget>>

\* The withdrawal that should come before a confidential sell is built without
\* the ciphertext its proofs are about, so that it is always given up: what
\* leaves the page is a public sell.
BuildSell(t, tokensIn, slip, confidential, probeFails) ==
    LET r == panel[t].shown
        u == panel[t].who
    IN  /\ r /= Nothing /\ ~Building(t)
        /\ Len(orders) < budget.orders
        /\ SellQuoted(r, tokensIn)
        /\ orders' = Append(orders, Order(t, u, u, "built",
              SeedTreasuryIxs \o <<SellIx(tokensIn, MinSol(r, tokensIn, slip))>>))
        /\ panel' = IF confidential /\ ~probeFails /\ panel[t].ata = "unknown"
                    THEN Learns(t, Probed(u))
                    ELSE panel
        /\ UNCHANGED <<vars, account, treasuryVars, log, rows, budget>>

\* Mutant: the panel stays as it is.
PanelKept(p) == p

\* onTradeSuccess: while the curve is loaded again the panel is unmounted.
PanelRefreshed(p) == FreshPanel(p.who)

\* A transaction of one instruction is a public sell; a sell of more is taken
\* for a confidential one, though all it has is the treasury's seed, and is
\* sent only with a lookup table.
TakenForConfidential(r) == Has(r, "Sell") /\ Len(r.ixs) > 1

SendOrder(o, table) ==
    LET t == orders[o].panel
    IN  /\ orders[o].phase = "built"
        /\ Fits(TakenForConfidential(orders[o]), table)
        /\ orders' = [orders EXCEPT ![o].phase = "sent"]
        /\ panel' = [panel EXCEPT ![t] = PanelRefreshed(@)]
        /\ UNCHANGED <<vars, account, treasuryVars, log, rows, budget>>

\* The wallet declines, or a request before it fails: the panel stays.
OrderDeclined(o) ==
    /\ orders[o].phase = "built"
    /\ orders' = [orders EXCEPT ![o].phase = "declined"]
    /\ UNCHANGED <<vars, account, panel, treasuryVars, log, rows, budget>>

-----------------------------------------------------------------------------
(* The chain.                                                              *)

Buys(r) == Has(r, "Buy")
Sells(r) == Has(r, "Sell")
Launches(r) == Has(r, "Create")

\* The reserves that a buy in r meets: its own transaction may create them.
At(r) == IF Launches(r) THEN InitialReserves ELSE Reserves
Received(r) ==
    IF Buys(r) THEN TokensOut(At(r).sol, At(r).tokens, AmountOf(r, "Buy")) ELSE 0
Proceeds(r) == IF Sells(r) THEN ToSeller(sol, tokens, AmountOf(r, "Sell")) ELSE 0
Fee(r) ==
    IF Sells(r) THEN FeeOn(GrossOut(sol, tokens, AmountOf(r, "Sell")))
    ELSE FeeOn(AmountOf(r, "Buy"))

CurveAccepts(r) ==
    /\ Buys(r) => CanBuy(At(r).sol, At(r).tokens, The(r, "Buy").amount, The(r, "Buy").least)
    /\ Sells(r) => CanSell(sol, tokens, The(r, "Sell").amount, The(r, "Sell").least)

\* What else the transaction can fail for.  The program takes its own treasury
\* only, and looks at that before it asks the curve.  ConfigureAccount needs
\* room that neither the token account program nor this page makes.
Refusals(r) ==
    LET a == account[r.user]
        deposit == AmountOf(r, "Deposit")
        fails == [tokens |-> AmountOf(r, "Sell") > a.public,
                  configure |-> Has(r, "Configure") /\ (~a.room \/ a.configured),
                  unconfigured |-> deposit > 0 /\ ~(a.configured \/ Has(r, "Configure")),
                  uncovered |-> deposit > MaxDeposit \/ deposit > a.public + Received(r),
                  rent |-> ~(Funded \/ Has(r, "SeedTreasury")) /\ Fee(r) \in 1..(SeedRent - 1)]
    IN  IF (Buys(r) \/ Sells(r)) /\ PageTreasury /= CurveTreasury THEN {"treasury"}
        ELSE IF ~CurveAccepts(r) THEN {"curve"}
        ELSE {why \in DOMAIN fails : fails[why]}

\* What the user pays besides the trade and the fee of the transaction.
Overhead(r) ==
    (IF Has(r, "CreateAta") /\ ~account[r.user].exists THEN AtaRent ELSE 0)
    + AmountOf(r, "SeedTreasury")
    + (IF Launches(r) THEN LaunchRent ELSE 0)

Distance(a, b) == IF a < b THEN b - a ELSE a - b

\* A launch is signed with the key of the new mint as well.
Signers(r) == IF Launches(r) THEN 2 ELSE 1

\* |preBalance - postBalance| of the user.
Delta(r) ==
    IF Sells(r) THEN Distance(Proceeds(r), TxFee + Overhead(r))
    ELSE AmountOf(r, "Buy") + Signers(r) * TxFee + Overhead(r)

Bought(a, r) ==
    [a EXCEPT !.exists = TRUE, !.configured = @ \/ Has(r, "Configure"),
              !.public = @ + Received(r) - AmountOf(r, "Deposit"),
              !.pending = @ + AmountOf(r, "Deposit")]

\* SetAuthority, Create and the seed buy.
LaunchExecutes(r) ==
    LET solIn == AmountOf(r, "Buy")
    IN  /\ mintAuthority' = "curve"
        /\ created' = TRUE
        /\ sol' = IntoCurve(solIn)
        /\ tokens' = VirtualTokens - Received(r)
        /\ vault' = VirtualTokens - Received(r)
        /\ circulating' = Received(r)
        /\ lamports' = lamports + IntoCurve(solIn)
        /\ dispensed' = Received(r)
        /\ fees' = FeeOn(solIn)
        /\ graduated' = Crosses(sol')
        /\ graduations' = IF Crosses(sol') THEN 1 ELSE 0

TradeExecutes(r) ==
    \/ /\ Launches(r) /\ LaunchExecutes(r)
       /\ account' = IF Buys(r) THEN [account EXCEPT ![r.user] = Bought(@, r)] ELSE account
    \/ /\ Buys(r) /\ ~Launches(r)
       /\ Buy(The(r, "Buy").amount, The(r, "Buy").least)
       /\ account' = [account EXCEPT ![r.user] = Bought(@, r)]
    \/ /\ Sells(r) /\ Sell(The(r, "Sell").amount, The(r, "Sell").least)
       /\ account' = [account EXCEPT ![r.user].public = @ - AmountOf(r, "Sell")]

Lands(o) ==
    LET r == orders[o]
    IN  /\ r.phase = "sent" /\ Refusals(r) = {}
        /\ TradeExecutes(r)
        /\ orders' = [orders EXCEPT ![o] =
                         [r EXCEPT !.phase = "landed", !.proceeds = Proceeds(r),
                                   !.overhead = Overhead(r), !.delta = Delta(r),
                                   !.after = sol']]
        /\ treasury' = IF ~Funded /\ (Has(r, "SeedTreasury") \/ Fee(r) >= SeedRent)
                       THEN "system" ELSE treasury
        /\ log' = Append(log, o)
        /\ UNCHANGED <<panel, drained, rows, budget>>

Reverts(o) ==
    LET r == orders[o]
    IN  /\ r.phase = "sent" /\ Refusals(r) /= {}
        /\ orders' = [orders EXCEPT ![o].phase = "failed", ![o].refused = Refusals(r)]
        /\ log' = Append(log, o)
        /\ UNCHANGED <<vars, account, panel, treasuryVars, rows, budget>>

Expires(o) ==
    /\ orders[o].phase = "sent"
    /\ orders' = [orders EXCEPT ![o].phase = "expired"]
    /\ UNCHANGED <<vars, account, panel, treasuryVars, log, rows, budget>>

\* The side panel on the same page makes room and configures (Confidential);
\* anybody can have opened the account.
ConfiguredBySidePanel(u) ==
    /\ created /\ ~account[u].configured
    /\ account' = [account EXCEPT ![u].exists = TRUE, ![u].room = TRUE,
                                  ![u].configured = TRUE]
    /\ UNCHANGED <<vars, orders, panel, treasuryVars, log, rows, budget>>

\* process_drain_treasury, by the administrator of lazy-claim, for all there
\* is: an account that is empty goes back to the system, so that it can be
\* drained once.
TreasuryDrained ==
    /\ treasury = "lazyClaim" /\ budget.drains > 0
    /\ budget' = [budget EXCEPT !.drains = @ - 1]
    /\ treasury' = "absent"
    /\ drained' = Len(orders)
    /\ UNCHANGED <<vars, orders, account, panel, log, rows>>

-----------------------------------------------------------------------------
(* The cron job.                                                           *)

IsTrade(o) == orders[o].phase = "landed" /\ (Buys(orders[o]) \/ Sells(orders[o]))

\* Mutant: the oldest signatures are asked for.
OldestSignatures == {p \in DOMAIN log : p <= Fetched}

\* getSignaturesForAddress: where the newest ones are in the log, those of
\* failed transactions included.
Signatures == {p \in DOMAIN log : p > Len(log) - Fetched}

\* The trades whose transactions could be read.
Read(missing) == {p \in Signatures : IsTrade(log[p]) /\ log[p] \notin missing}

\* Mutant: the fee of the transaction counts as part of the trade.
SolInWithFee(delta) == delta

SolInOf(delta) == IF delta > TxFee THEN delta - TxFee ELSE delta

\* 100 / 99, in whole lamports.
GrossOf(delta) == ((delta + TxFee) * BpsDenom) \div (BpsDenom - FeeBps)

Replayed(s, o) ==
    LET r == orders[o]
    IN  IF Sells(r)
        THEN IF s > GrossOf(r.delta) THEN s - GrossOf(r.delta) ELSE 0
        ELSE s + IntoCurve(SolInOf(r.delta))

\* The reserves after each entry of the log when the trades among the given
\* ones are replayed, oldest first, on an empty curve.
ReplayOf(read) ==
    LET reserves[p \in 0..Len(log)] ==
            IF p = 0 THEN InitialReserves.sol
            ELSE IF p \in read THEN Replayed(reserves[p - 1], log[p])
            ELSE reserves[p - 1]
    IN  reserves

TradesUpTo(p) == {q \in 1..p : IsTrade(log[q])}

\* The row of the trade at p.  complete: nothing is missing before it.
RowOf(read, p) ==
    [sol |-> ReplayOf(read)[p], complete |-> TradesUpTo(p) \subseteq read]

Position(o) == CHOOSE p \in DOMAIN log : log[p] = o

\* upsertTrade: a row that is there stays.
Upserted(old, new) == IF old = Nothing THEN new ELSE old

\* indexCurve.  A transaction that cannot be read and a row that cannot be
\* written are passed over.
IndexCurve(missing, unwritten) ==
    LET read == Read(missing)
        lost == Cardinality(missing \cup unwritten)
    IN  /\ UNCHANGED <<orders, log, vars, account, panel, treasuryVars>>
        /\ lost <= budget.skips
        /\ budget' = [budget EXCEPT !.skips = @ - lost]
        /\ rows' = [o \in Ids |->
              IF o \notin unwritten /\ \E p \in read : log[p] = o
              THEN Upserted(rows[o], RowOf(read, Position(o)))
              ELSE rows[o]]

-----------------------------------------------------------------------------
UserActs ==
    \/ \E seedBuy \in SolInputs, big \in BOOLEAN, table \in Tables :
          SendLaunch(seedBuy, big, table)
    \/ \E u \in Users : ConfiguredBySidePanel(u)
    \/ \E t \in Panels : CurveShown(t) \/ \E u \in Users : ChangeWallet(t, u)
    \/ \E t \in Panels, slip \in Slips, confidential, probeFails \in BOOLEAN :
          \/ \E solIn \in SolInputs, hasKeys \in BOOLEAN :
                BuildBuy(t, solIn, slip, confidential, probeFails, hasKeys)
          \/ \E tokensIn \in TokenInputs :
                BuildSell(t, tokensIn, slip, confidential, probeFails)
    \/ \E o \in DOMAIN orders : OrderDeclined(o) \/ \E table \in Tables : SendOrder(o, table)

LaunchNext ==
    \/ UserActs
    \/ \E o \in DOMAIN orders : Lands(o) \/ Reverts(o) \/ Expires(o)
    \/ TreasuryDrained
    \/ \E missing, unwritten \in SUBSET {o \in DOMAIN orders : IsTrade(o)} :
          IndexCurve(missing, unwritten)

\* Vercel runs the cron job every two minutes, and it loses things finitely
\* often.  Nothing is owed by users or the chain.
LaunchFairness == WF_launchVars(IndexCurve({}, {}))

LaunchSpec == LaunchInit /\ [][LaunchNext]_launchVars /\ LaunchFairness

-----------------------------------------------------------------------------
\* The shape of the state; the accounts hold all the tokens that circulate.
LaunchTypeOK ==
    /\ TypeOK
    /\ \A o \in DOMAIN orders :
          /\ orders[o].phase \in {"built", "declined", "sent", "landed", "failed", "expired"}
          /\ orders[o].refused \subseteq {"curve", "tokens", "configure", "unconfigured",
                                          "uncovered", "rent", "treasury"}
    /\ \A u \in Users : account[u].public \in Nat /\ account[u].pending \in Nat
    /\ circulating = MapThenSumSet(LAMBDA u : account[u].public + account[u].pending, Users)
    /\ \A o \in Ids : rows[o] = Nothing \/ (rows[o].sol \in Nat /\ IsTrade(o))

\* The treasury was drained after order o was built; before it was.
DrainedAfter(o) == drained /= Nothing /\ o <= drained
DrainedBefore(o) == drained /= Nothing /\ o > drained

\* Whatever happens between quote and execution, what the page adds to a trade
\* fails for its own amount in one case only: the deposit is covered by what
\* the buy returned, and the treasury's rent by the seed unless the treasury
\* was drained in between.  And nothing is added to a sell, so that none is
\* mistaken for a confidential one, unless the treasury was drained before.
ExtrasAreCovered ==
    \A o \in DOMAIN orders :
        /\ "uncovered" \notin orders[o].refused
        /\ "rent" \in orders[o].refused => DrainedAfter(o)
        /\ TakenForConfidential(orders[o]) => DrainedBefore(o)

\* A trade is refused for depositing into an account that is not configured
\* for two reasons only: the panel took over what it knew of the account of a
\* wallet that was connected before, or the user declined an order that was to
\* configure the account, which the panel takes for done before it is signed.
UnconfiguredHasACause ==
    \A o \in DOMAIN orders : "unconfigured" \in orders[o].refused =>
        \/ orders[o].about /= orders[o].user
        \/ \E d \in 1..(o - 1) :
              /\ orders[d].user = orders[o].user
              /\ Has(orders[d], "Configure") /\ orders[d].phase = "declined"

\* A seller who got less than the transaction cost paid lamports, and the job
\* does not look at the sign.
Recoverable(r) == Sells(r) => r.proceeds >= TxFee + r.overhead

\* What an order can add to the recovered reserves: of what a buyer paid
\* besides the trade and one signature, all; of what a seller did, as much
\* before the fee.
Excess(r) ==
    IF Sells(r)
    THEN (r.overhead * BpsDenom + BpsDenom - FeeBps - 1) \div (BpsDenom - FeeBps)
    ELSE r.overhead + (Signers(r) - 1) * TxFee

\* The reserves s after the entry p of the log, as far as its replay can know
\* them: when nothing was missing, they come out low by at most one lamport for
\* each sell, and high by at most what the traders paid on the side in the same
\* transactions (rent of accounts, the treasury's seed, a second signature).
NearlyExact(replayed, s, p) ==
    LET before == TradesUpTo(p)
        sells == {q \in before : Sells(orders[log[q]])}
        excess == SumFunctionOnSet([q \in before |-> Excess(orders[log[q]])], before)
    IN  (\A q \in before : Recoverable(orders[log[q]])) =>
            replayed - s \in -Cardinality(sells)..excess

\* The reserves on record are nearly exact, in every row that was written when
\* no trade before it was missing.
RowsNearlyExact ==
    \A o \in Ids : (rows[o] /= Nothing /\ rows[o].complete) =>
        NearlyExact(rows[o].sol, orders[o].after, Position(o))

Reachable(o) == \E i \in DOMAIN log : log[i] = o /\ i > Len(log) - Fetched

\* Again and again the table has caught up: a trade that landed has its row,
\* unless later transactions of the curve, those that failed included, pushed
\* it out of what the job fetches before it ran.
TableCatchesUp ==
    []<>(\A o \in DOMAIN orders : IsTrade(o) /\ Reachable(o) => rows[o] /= Nothing)
=============================================================================
