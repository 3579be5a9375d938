# Verification of staccana

TLA+ models of the protocol code of this repository, TLC configurations that
check them on small instances, and TLAPS proofs of what holds for every instance.

## 1. The system

staccana is a chain that starts from a snapshot of another one. Wallet balances
are not copied: a genesis builder puts them under a Merkle root, and a program
pays each wallet when it asks. Around it live a token launchpad, a second drop
with vesting, an agent faucet with a messaging codec, a batch matcher, a bridge,
confidential balances, and a web frontend whose pages and routes act for the user.

| Component | State | Operations | Talks to |
|---|---|---|---|
| lazy-claim program (`programs/lazy-claim`) | config (root, treasury PDA), claimed markers, proof buffers, the treasury's lamports and owner | Claim, InitProofBuffer, WriteProofBuffer, ClaimFromBuffer, DrainTreasury, AssignTreasuryOwner | system program by CPI; ed25519 precompile through the Instructions sysvar |
| genesis builder (`genesis`) | none (pure) | partition, build_genesis, lamports_for_pda | feeds genesis-emit / genesis-bake |
| Merkle tree (`frontend/lib/merkle.ts`, `genesis/src/merkle.rs`) | none (pure) | build, prove, recompute | shards, both proof routes, both claim programs |
| snapshot shards, megadrop tools and the two proof routes | files | emit_shards, compute_allocations, GET | the claim and the megadrop page |
| sponsored claim routes (`frontend/app/api/claim`) | none between invocations; the chain is their state | POST: gate, stage, send, poll, answer | RPC node, lazy-claim program |
| claim page (`frontend/app/claim`) | connected wallet, leaf shown, claim state, per tab | look up, sign, claim | proof route, claim routes |
| megadrop program (`programs/megadrop`) | config (root, first month, treasury), per-holder bitmap and totals, proof buffers, its treasury | init, update, claim, claim from buffer, init/write buffer | ed25519 precompile, Clock sysvar |
| megadrop page (`frontend/app/megadrop`) | allocation, config, record, selection | read, pick, sign, stage, claim | megadrop program, proof route |
| secret-pump program (`programs/secret-pump`) | bonding curve PDA, vault | create, buy, sell | Token-2022 by CPI; fees to the lazy-claim treasury |
| launch and trade pages (`frontend/app/launch`) | curve and accounts as last read, form state | launch with a seed buy, quote, build, sign, send | secret-pump, Token-2022, lookup tables |
| trade indexer (`frontend/app/api/cron`, `lib/pump-extra.ts`, `lib/db.ts`) | trade table | fetch, replay, insert | RPC node, Postgres |
| bridge page and pending list (`frontend/app/bridge`, `lib/bridge-pending.ts`) | connected mainnet wallet and its accounts per tab; a list in local storage shared by tabs | burn, deposit, look up, stash, poll, mark, dismiss | bridge programs of both chains |
| confidential balances (`SecretBalancePanel`, `lib/confidential*.ts`) | a figure in local storage, one in the render, proofs and context accounts in flight | configure, deposit, apply, withdraw, send, claim a transit account | Token-2022, ZK proof program |
| agent-faucet program (`programs/agent-faucet`) | config, agent records | initialize, register, unregister, claim | Token-2022 mint_to |
| agent-messaging (`agent-messaging`, `tools/agent-mail`) | none | text to packets, words and amounts, and back | confidential transfers |
| matcher (`matcher`) | none (pure per slot) | batch_match | a market maker behind a trait |

What is hard: transactions of independent parties interleave on shared accounts
(treasury, buffers, curve); any payer may replay a signature; a serverless route
is killed or times out between two transactions and is retried while the first
attempt is still in flight; an answer about a wallet arrives after the user
connected another; two tabs write one list without a lock; what a page knows
is old when its transaction executes, or is about the wallet before; integers are rounded on every trade of a
curve's whole life; administrative changes (treasury handoff, new root) come in
the middle of it all. PROJECT.json lists each hazard at its line.

What makes each component correct: a claimant is paid once, for its leaf, with
consent, and lamports are conserved (lazy-claim); a claim finds its whole proof
staged, an answer is true and always comes (claim page and routes); each tranche
is paid once, not early, as signed, under the root of the moment (megadrop), and
what the page sends is refused only for what it could not know or did not look at; reserves stay on
the curve and are backed, holders can leave, nobody gains by going round
(secret-pump); what the pages add to a trade makes it fail for listed causes only,
and stored reserves are as exact as the replay allows (launch, indexer); a deposit
names the accounts of the wallet that signs it and a burn stays listed until its
release (bridge); nobody pays twice and
the figure shown is right, but for listed causes (confidential); every looked-up
proof verifies and no other does (trees, routes); allocations add up; a quota
bounds an epoch (faucet); only whole messages decode (messaging); a batch is
cleared at one price whatever its order (matcher).

## 2. Modules

| Module | Models | Composes |
|---|---|---|
| `ClaimLedger` | what lazy-claim promises: a pool from which each leaf is materialized at most once until custody is closed | |
| `ProofBuffer` | a staged proof: header, payload, high-water mark (both programs have the same layout) | |
| `LazyClaim` | the lazy-claim program, all instructions, and the fees that reach its treasury | extends `ProofBuffer`, refines `ClaimLedger` |
| `GenesisPartition` | partition rule, leaves, treasury sum | gives `MCLazyClaim` its initial state |
| `ClaimRelay` | both sponsored claim routes, their transactions and the network | extends `LazyClaim` |
| `ClaimPage` | the tabs of the claim page that make the requests | extends `ClaimRelay` |
| `VestingLedger` | what megadrop promises: each tranche of a holder is taken at most once, all at one rate | |
| `Calendar`, `PageCalendar` | yyyymm months and the civil date of a day, on chain and on the page | |
| `Megadrop` | the megadrop program, all instructions | extends `Calendar` and `ProofBuffer`, refines `VestingLedger` |
| `MegadropPage` | the page that claims tranches | extends `Megadrop` and `PageCalendar` |
| `BondingCurve` | the secret-pump program for one mint | |
| `Launch` | launching, trade panels whose wallet may change, the treasury that fees go to, the indexer and its table | extends `BondingCurve` |
| `Bridge` | the bridge page in several tabs and the shared list | |
| `Confidential` | the panel of one wallet and one mint | |
| `Selections` | filtering a list and adding one up, which several components do | |
| `MerkleTree`, `ProofLookup` | the tree; shards, routes and allocations over it | `ProofLookup` extends `MerkleTree` and `Selections` |
| `AgentFaucet` | the agent-faucet program for one mint | |
| `AmountPackets` | the message codec | |
| `MessageText` | a text that grows by a letter at a time: what sending it has to give | extends `AmountPackets` |
| `BatchMatcher` | the matcher: one batch, cleared | extends `Selections` |
| `IntentBatch` | a batch that grows by an intent at a time: what clearing and replaying it has to give | extends `BatchMatcher` |
| `CalendarWalk`, `HolderList` | the calendar by its own rules, day by day; a list of holders that grows: what the algorithms are compared with | `CalendarWalk` extends `Calendar` and `PageCalendar`, `HolderList` extends `ProofLookup` |
| `SharedLemmas` | facts about data that the proofs share | |
| `ClaimProofs`, `MegadropProofs`, `LaunchProofs`, `BridgeProofs`, `ConfidentialProofs`, `AlgorithmProofs`, `MatcherProofs` | theorems; `ClaimProofs` holds those on the claim program and on its page and routes, `LaunchProofs` those on the curve too, `AlgorithmProofs` those on the calendar, the tree, the allocations, the message codec and the faucet | each extends the modules it is about and `SharedLemmas` |
| `MCLazyClaim`, `MCClaimRelay`, `MCMegadrop`, `MCBondingCurve`, `MCLaunch`, `MCBridge`, `MCConfidential`, `MCAlgorithms` | instances for TLC | |

### LazyClaim

An instruction is one action because a transaction is atomic; a failed check
aborts it, which is the stuttering step. `marker[p]` is the lamports field of
p's claimed-marker PDA or `NoMarker`; `buffer[<<p, y>>]` is the PDA
`["proof_buffer", p, y]`; `paid`, `drained` and `collected` are history
variables (the ledger's `withdrawn` is `drained`). `CanFinalize` holds the checks of `finalize_claim` in its order,
`FinalizeClaim` and `Settled` its effects (credit, then the payer funds the
marker). `Claim` and `ClaimFromBuffer` share it as the code does;
`ClaimFromBuffer` ends by closing the buffer, in the same action. The runtime's
own rules are named conjuncts: only the owner debits the treasury (`CanCredit`),
`create_account` needs an empty target and a funded payer, and lamports balance
at a CPI (`BalancedAtCpi`).

Abstracted: a sibling hash is one element, offsets count siblings, SHA-256 is
injective, so the one proof that verifies for `(p, Leaf[p])` is `Path[p]`. The
transaction fee and the fee exemption of the validator are outside the program.
A sum of lamports fits u64 because it is bounded by the supply. A marker PDA
funded by a stranger before the claim is not modelled, nor is the runtime's rule
that a wallet may not end a transaction below the rent minimum (both programs).

### ClaimRelay and ClaimPage

One invocation of either route is a record `request[r]` with the claimant it was
called for, the leaf whose proof it carries, its phase, the stage it is at and
what its look at the buffer found (`exists`, read once and used after several
awaits, as in the route). `Send` is preflight plus sendRawTransaction, `Poll` a
status that was found, `TimeOut` the end of MAX_POLL_MS, `Kill` the platform's
maxDuration or an exception. `Land` executes the transaction with the program's
own actions, or fails it; `Expire` drops it. `Executable` says when that works: the
guards of the transaction's instructions, written out. The flags that give each
sibling its side come from the leaf index in the request, so a staged proof of one
leaf does not do under the index of another (`FlagsFit`). A transaction may land after the
request gave up on it. The inline route answers as soon as it has sent. `StrangerWrites` is
`WriteProofBuffer`, which asks for no signature, by anybody else into a buffer of the
sponsor's, at any time; the history variable `foreign` remembers which siblings of an
open buffer were overwritten so. Such a claim fails at the Merkle check and can be
staged again; what is claimed (`StagedBeforeClaim`) is that nothing else was lost.

`page[r]` is the tab that makes request r: the wallet it shows (`who`), whether
it is looking up a leaf, the answers still on their way for earlier wallets
(`late`) and the leaf shown. The cleanup of the effect sets `cancelled`, which
the code looks at once, before it reads the body, so `LookLate` may put the leaf
of the last wallet under the new one. Two simplifications: a tab makes one
request (its button is disabled meanwhile, a retry is a request of another tab),
and checks of the route that no request of the page fails are left out.

### Megadrop, MegadropPage and the calendars

`record[h]` is the ClaimedMegadrop account of h or `NoRecord`; its bitmap is a
set of tranche numbers, and the sorted tranche list of the signed message is the
set it lists. A request is a sequence, so that lists with duplicates are really
refused (`ValidRequest`). `CanClaim` holds the checks, `SettleClaim` the effects
that the two claim handlers have in common, `Settled` the rent of the record and
the credit. `UpdateMegadrop` may change every field of the config between any
two claims; a field left out of its arguments is one given its old value. `now`
is the month of the Clock sysvar.

The page reads allocation, config and record separately, each answer possibly
late; it offers what its own calendar says is unlocked by the clock of the user's
machine (`BrowserMonths`, read when the page mounts, behind or ahead of the chain's)
and its record says is not taken, signs, stages (waiting for each transaction but not looking at its
outcome) and claims. `net` holds the transactions in flight. `Budgets` either
leaves the page closed and the others free, or bounds what others do.

### BondingCurve and Launch

`sol`, `tokens`, `graduated`, `dispensed`, `fees` are fields of the PDA,
`lamports` and `vault` what the accounts really hold, `circulating` all tokens
elsewhere. `TokensAfterBuy`, `GrossOut` and `CanBuy`/`CanSell` are `quote_buy`
and `quote_sell`; `Buy`, `Sell` and `Create` the handlers. Token-2022 and system
transfers by others (mint before the authority is handed over, burn, gifts) are
external actions. A mint with extensions by which others could move or freeze its
tokens, which `create` does not look for, is left out.

In `Launch` an order is the list of instructions that the page builds from the
curve it last read, and is executed later as a whole or not at all; a failed one
records why. `panel[t]` is a mounted trade panel: the wallet connected, the curve it
shows and what it knows of the token account (`ata`), with an observer of whose account
that is (`about`): `ChangeWallet` leaves the rest of the panel as it is, because the
component has no key and no effect on the wallet. `account` is a user's token account
with a public and a pending confidential balance. A launch carries two signatures
(`Signers`). `treasury` is the account that fees go to: lazy-claim's from genesis, one
that a seed made, or absent; `TreasuryDrained` is DrainTreasury for all there is (a part leaves an account that can
still pay its rent, since the runtime allows nothing in between), with
`drained` an observer of when. Two constants are what the page passes and seeds
(`PageTreasury`) and what the program takes (`CurveTreasury`); where they differ every
trade is refused for that (`Refusals`), and the run takes them equal (section 4). The
genesis treasury at `treasury_pda()` (genesis-bake), `treasuryPda()` of the page's
library and the program's constant are three derivations in the code; lazy-claim's
treasury stands for them. A fee that lands in an empty treasury counts as lazy-claim's
no more: what is there then belongs to the system program and cannot be drained. `IndexCurve` is one run of the
cron job: the newest `Fetched` signatures of the curve, failed ones included,
those whose transaction could not be read left out, replayed from the initial
reserves; a signature that has a row keeps it. Candles, lists, metadata and the
backfill of block times are queries and display.

### Bridge

A tab has a mainnet wallet, the accounts derived for it, and requests for such accounts
in flight (`asked`), each with the flag that its effect was cleaned up (`live`). The
page bridges one asset (`BRIDGE_ASSETS` has one entry), so an order is always of
`PageAsset`; entries of the list that an older version of the page left may name
others, and so may the releases of other users. A deposit is one step from the click
to the wallet's simulation, and the effect runs with the render that shows the new
wallet, so that no click falls between the two. A burn is
sent, lands and draws the next nonce of its asset; the page then looks it up
once and stashes it. Every change of the list is a read and a write back with
other tabs' steps in between (`held`). A poll reads the newest `Window`
transactions of the vault and marks entries by nonce. `history` records what
happened to burns (looked up too early, dismissed, stashed, overwritten).
The bridge programs are outside this repository.

### Confidential

`acct` is the account on chain: configured, public, pending and available
balance, and a version of its ciphertext. `tracked` is the figure in local
storage, `view` the one in the render. `op[o]` is a click: what it read, its
proofs and context accounts (`setups`), its encrypted and its public transaction.
A debit goes through only if the figure was right and the ciphertext has not
moved. A withdrawal takes the figure at the click and the ciphertext later, a direct send
both at one look (`ReadState`), a transit send the figure first and the ciphertext some
awaits later (`ReadCiphertext`): a withdrawal and a deposit can come between, and by the
time a button writes what it computed, the figure it started from may be stored again.
The observer `overtook` tells that apart. A transaction lands, fails or is given up on while still in flight; an
answer can be lost. Any error of a send is followed by a public transfer, as in
the panel. The mathematics of the proofs is left out.

### Pure algorithms

`MerkleTree` translates `lib/merkle.ts` (a hash is the tuple of its preimage; the
pubkeys of a list are distinct, so sorting puts each leaf at the place that the
number of smaller pubkeys gives it);
`ProofLookup` the shards, both routes and `compute_allocations`. `CalendarWalk` and
`HolderList` are small specifications of their own, one day or one holder a step,
that state what calendar, tree, allocations and lookups have to give, and
`IntentBatch` and `MessageText` are two more, by an intent and by a letter a step, for
the matcher and the codec; the run interleaves nothing with them, it only has them
share an instance. `BatchMatcher`
translates `batch.rs`: the loop of `clear_pair` is a record (`LoopStart`) that
`OnePass` takes a pass further, and a recursive function goes on for `Passes`
passes, enough for any two sides, as `LoopDone` proves. The market maker is linear in
the net flow, at any spot price and impact, and a price counts fractions of `One`. `AmountPackets` translates
the codec with the field widths, the checksum and the round function as
parameters; letters are alphabet positions, shifts and masks are division and
remainder, and an exclusive or is taken bit by bit. `AgentFaucet` is a small program and
not pure, but shares the run. All the divisions are the code's own.

## 3. Runs

| Run | States | Question |
|---|---|---|
| `lazy_claim` | 406,744 | do single payment, consent, accounting, conservation and the abstract ledger survive every interleaving? |
| `uncovered_treasury` | violation | is the treasury pre-credited with the claimable lamports? |
| `claim_cli` | violation | can a claimant be its own fee payer? |
| `bonding_curve` | 350,834 | do rounding, backing and exits hold over all trade histories? |
| `claim_relay` | 1,374,885 | does a claim find its proof staged, are answers true, and does every request get one? |
| `relay_orphan` | violation | can a buffer that is left open always be used again? |
| `megadrop` | 342,630 | do single payment, consent, timing and the vesting ledger survive updates between claims, and is what the page sends accepted? |
| `megadrop_resnapshot` | violation | does a holder keep what it has not yet claimed after a re-snapshot? |
| `algorithms` | 167,607 | do the algorithms agree with their reference definitions? |
| `bridge` | 454,880 | do deposits name their signer's accounts, and are burns tracked, marks right and releases noticed? |
| `confidential` | 870,253 | can a send be paid twice, a figure be wrong or rent be left, other than for a listed cause? |
| `launch` | 888,524 | do trades fail for what the page added, but for listed causes, and does the table keep up and stay exact? |

Properties named `...HasACause` or `...OnlyIf...` are equivalences of a kind: the
bad outcome does occur, and the property lists what has to have happened before.
They are the exact promise that the code keeps.

Bounds.
* `lazy_claim`: two claimants with different leaves and overlapping
  proofs (so that a stranger's siblings can be staged), two payers, one of them a
  claimant, so each pair of routes races; buffers shorter than, equal to and
  longer than the proof in use; at most two open buffers (`MaxBuffers`); balances
  small enough that rent and treasury both run out.
* `bonding_curve`: constants with the shape of the real ones (tokens ≫ lamports),
  fees that round to zero, a threshold a few buys away and a width (`MaxU64`)
  that the totals reach; `MaxGift` and `MaxOutside` bound gifts and tokens minted
  before `Create`.
* `claim_relay`: two tabs; one stays with alice, one goes from carol, whose proof is
  inline, over bob to alice (so that two requests race for one claimant, an answer
  about the wallet before may come late, and the inline route is asked too); a proof of
  a full and a partial chunk; up to two siblings overwritten by strangers (`MaxForeign`), which
  may well write the right one; gates of the sponsor's balance that close on the way. The
  run `relay_orphan` needs no stranger and has none.
* `megadrop`: three tranches from December or January, with the chain's clock from
  December to February and the users' machines in January, so that the turn of the year
  lies between tranches and the machines are first ahead, then behind; one
  month that is not plausible; a second root that changes one allocation and
  drops the other holder; a treasury the program does not own; `MaxSigned` = 2
  messages and `MaxBuffers` = 1; allocations that do not divide by the number of
  tranches; up to two visits or two claims of the page against one or two steps of others.
* `launch`: the curve of `bonding_curve`; two wallets; three orders from two panels and
  a drain of the treasury, or three from one panel whose wallet changes, or two of which
  the job loses one; two fetched signatures, so that the third order pushes the first
  out; rents that a small fee does not cover.
* `bridge`: two tabs, two mainnet wallets; three changes of wallet and one order, or two
  orders of which the first draws the nonce that an entry of another asset has and the
  second pushes that entry out at the cap of two, or one order among two burns or
  releases of others, with a failed request and a window of one.
* `confidential`: two clicks on the buttons and one send in any overlap, two
  amounts, one credit from outside, an account that is configured or not.
* `algorithms`: 158,000 days, more than the 146,097 of a full leap-year cycle;
  lists of up to five holders (trees of all shapes up to a height of three), all
  forged proofs of up to two hashes for up to three leaves; batches of up to four
  of eleven intents on three pairs (one of a mint with itself) at three market
  makers, in every order; texts of up to five letters, where three packets do not fit the number
  any more, under two nonces, with every stream of up to one packet more than the
  message has; two agents, two sound and
  two refused configurations, five slots.

Deadlock is not checked: all the systems may stop (everything claimed, curve
graduated, all requests answered, bounds used up).

Fairness. `ClaimPage.Fairness` is weak fairness of `HandlerStep(r)`: the runtime
goes on with an invocation it started, and each await in it ends by the 30 s
bound of the poll. `TabRuns(t)` (bridge) is weakly fair: a tab's event loop goes
on with its own continuations and its poll timer. `IndexCurve({}, {})` (launch) is
weakly fair: the cron job runs every two minutes and, again and again, reads all
it asks for. Landing, expiring, killing, releasing and whatever a user does are
not fair.

## 4. Findings

* `uncovered_treasury`: the comment of `credit_lamports` says that the treasury
  holds `sum(claimable.lamports)`; `build_genesis` credits it with the others.
* `claim_cli`: `finalize_claim` credits the recipient directly and then makes a
  CPI with the payer. The Solana runtime compares the lamports of the caller's
  accounts at that point; the treasury's debit is not visible to it, the payer's
  balance is. With payer = recipient, as the CLI has it, this is
  `UnbalancedInstruction`. The tests and the routes use another payer.
* `relay_orphan`: a retry after a claim that landed late stages a buffer that
  nothing can close.
* `megadrop_resnapshot`: a record keeps the allocation of its first claim; once
  the root commits to another one, either the Merkle check or the comparison
  with the record refuses every claim, against "they never lose unclaimed
  tranches".

Met while modelling, without a run of their own:
* docs/MEGADROP.md says on lines 16 and 61 that tranche i needs i months since the
  first one, and on lines 118 and 125 that it needs i - 1; the code does the
  latter. The comment at claim_megadrop.rs:192 takes "claimed but not unlocked" for
  impossible; it is possible once the first month is moved back, and harmless,
  since both checks refuse.
* The claim page's comment promises an automatic fallback to the single-transaction
  path, which the code has not; an inline claim is shown as a success without
  waiting for it.
* The megadrop route leaves rows of zero lamports out of the tree to which the tool
  commits (route.ts:126, tree.rs:45); the shipped list has none (`LookupsVerify`
  states it as a condition).
* The first buy with the default settings adds a ConfigureAccount without the
  Reallocate it needs, so it reverts as a whole, contrary to launch/[mint]/page.tsx:681-683;
  and the panel takes the account for configured before anything is signed (:815).
* The panel of confidential balances turns public after any error, while its text
  speaks of a rejection by the chain (SecretBalancePanel.tsx:2005); claiming a
  transit account always ends in ProofUnavailableError (confidential-transit.ts:1519
  against confidential.ts:2043).
* The page and the curve's program name different treasuries. The page passes and seeds
  D3FcFs… (frontend/lib/staccana.ts:91), whose comment says it "Mirrors
  `programs/secret-pump/src/lib.rs::TREASURY_PUBKEY_PLACEHOLDER`, which now hardcodes this
  same address" (:86); the program has P75Psw… (secret-pump lib.rs:52-71) and takes no
  other (buy.rs:69, sell.rs:59). At this commit, then, every trade and seed buy the page
  builds fails with BadTreasuryAccount and what it sent to seed the treasury is undone.
  In `Launch` that is the refusal "treasury"; everything the run and the theorems say
  beyond it is about the two being one account, as the comment has it.
* `ataConfigured` is said to be "Keyed by `${owner}:${mint}`" (launch/[mint]/page.tsx:691)
  but is one state of the panel, so what it says of one wallet's account is used for the
  next one's (`UnconfiguredHasACause`).
* The bridge poll matches releases by nonce alone although nonces are counted per
  asset, so a burn may be marked for a release of another (`MarkedWasReleased` says
  no more).
* matcher: `min_out` is never read, although intent.rs:7 says "for at least
  `min_out`"; what is left of an intent goes on with min_out 0 and nonce 0, even
  when nothing of a buyer was matched. The test's "same output regardless of order"
  does not hold for several intents of one signer, mint and amount: the sort keeps
  them in the order of arrival and the residual carries their nonces.
* agent-faucet: registering an agent a second time starts its quota again within
  the epoch, so "a fixed per-epoch quota" holds between two registrations.
* agent-messaging: a message has no identity; packets of two messages under the
  same nonce can be spliced unnoticed, and with another nonce only two bits of
  checksum and the header tell a stray packet.

## 5. Proofs

Each theorem holds for every value of the constants that the named ASSUMEs allow.
Behind it stands an inductive invariant, one step per action under it, and the
lemmas the steps share.

`SharedLemmas`. What several components need about data: overwriting a stretch of
a function (`Overwritten`), cutting a sequence into chunks (`ChunksCover`,
`ChunkHolds`), the solution of a recursion over the positions of a
sequence (`TableOfSteps`, `CountUp`), and sums over finite sets (`SumEmpty`,
`SumTake`, `SumAdd`, `SumChange`), over lists too (`SumListed`, `SumJoined`), and what a
filter of a list returns (`ThoseAre`). The induction theorems of the library take an
operator as a parameter, which the provers here cannot instantiate, so the
inductions are made by hand: among the subsets of a finite set at which an
equation fails there is a smallest one (`SmallestSubset`), and it would have to be
empty. That `SumFunctionOnSet` picks its summands in an order nobody knows does
not matter: `SumIsTable` equates it with a table over all subsets.

`ClaimProofs`, on the program. `TypeOK` is inductive and gives non-negative balances.
`StepShape` abstracts every step to what it does to treasury, markers, payments,
custody and signatures; from it follow `PaidOnce`, `Consent`, `HandoffIsFinal`,
`TreasuryBalances` and the refinement `ImplementsLedger`, whose steps are
Materialize, Withdraw, Deposit, Close or a stutter. `BufferStep` does the same
for buffers and gives `OnlyItsClaimCloses`; `TailIsBlank` is inductive together
with the types of buffers. `LamportsAreConserved` follows each lamport through
the four places it can be in: a payout moves a leaf into a wallet and rent from
the payer (who may be the claimant) into a marker (`SettlingMoves`), opening and
closing a buffer move its rent (`OpeningMoves`, `ClosingMoves`).

`ClaimProofs`, on page and routes. `StagedBeforeClaim` is proved for the page over the routes
over the program. The invariant `RelayInv` joins the types of requests, the fact
that a buffer is one of the shape the route allocates, and `Progress`: what a
running request has written so far is still in the buffer, but for the siblings in
`foreign`, unless the claimant is paid by now or two requests mix proofs. Lemmas on chunks (`ChunkCount`,
`ChunkIs`, `WriteFills`, from `SharedLemmas`) show that the chunks of the plan cover
the proof and that each write extends the filled part. Preflight (`Executable`) plays no part in it.

`AnswersHold` (`AnswersAreTrue`) has an invariant of its own, `AnswerInv`. Every step
is seen as one that pays a claimant's leaf (`Pays`) or nobody (`PaysNobody`): markers
only come, money only goes, so a cause for which a claim fails stays one (`Fails`,
`MoneyKept`). An inline claim passed the preflight before it was answered; what the
preflight saw that no step can undo is `OwnClaim`, so that at landing only such a
cause is left. And a request that comes to pay does so for a claimant who was not
paid before, hence alone (`OneMoves`, `PaidByOne`). The cause that the sponsor itself
is a claimant who was paid is there because its payout may bring back, by the time one
looks, the rent whose want made the claim fail.

`MegadropProofs`, on the program. As for lazy-claim, `StepShape` reduces every step to a claim
(`Pays`) or to one that leaves records and payments alone; it gives `Consent`,
`UnderCurrentRoot` and, with the lemma that disjoint bitmaps add their popcounts,
`PaidAsRecorded` and `ImplementsVesting`. `NothingBeforeItsMonth` needs the
invariant that clock and first month are real months (`RealMonths`), on which
yyyymm order and calendar order agree.

`MegadropProofs`, on the page. `RefusalsAreExplained` rests on `PageInv`. `TabOK`: the
record that the tab shows is one that was there (`Past`: it is the same, or tranches
were added since), and what is selected was unlocked, by the tab's month, under the
config that was read; the chain agrees once its clock has come so far.
`OrderGood`: an order is a leaf of some list, under the root of that config, for
tranches that were not taken in the record it knows. `InPlace`, the part that staging
needs: if the record is still the one that was known and only this proof was ever
written to the buffer, the buffer is open and holds the chunks whose transactions the
page has waited for, whether these were executed, failed because an earlier claim had
staged the same chunk, or came from an order that the user gave up. It is kept because
a buffer is closed only by a claim of its holder, after which the record is never again
what it was (`PastGoesOn`), and because every other hand is remembered (`HandsOK`).
`FreshIsAccepted` then goes through the checks of the program one by one; the list that
the page makes of a set of tranches is valid and means that set (`TrancheListIsValid`,
by counting). `PageKeepsThePromises` carries the five properties of the program over to
behaviours with the page, whose claims and buffers are not among those of `Next`: to
the records they are claims like any other (`PageMoves`).

`LaunchProofs`, on the curve. None of its properties is inductive alone. The
invariant `CurveInv` joins the types with `NearHyperbola`: `(V+S)*T <= K` and
`K < (V+S+1)*(T+1)`. Each trade computes one reserve as a quotient of K by the
other, so it re-establishes both bounds from scratch, whatever the state was:
that is why dust does not accumulate. From it follow backing, the sales cap, the
exit of all holders and the round-trip bound. `QuotesSound` shows that the
branch of `quote_sell` kept for "dust accumulation" near the edge
(`curve.rs:315`) cannot be taken.

`LaunchProofs`, on the pages. `LaunchInv` carries `CurveInv` through transactions
of several instructions: `PromisesSurviveLaunch`. `AdditionsNeverFail` needs two
facts that no single action shows. An order is `Coherent`: its deposit is at most
the least the buy may return, so slippage fails the buy before it fails the
deposit. And `SeedsFirst`: whoever has seen lamports on the curve has seen a funded
treasury, because the first buy seeds it in the same transaction, or one that was
drained since, which can happen only while it is still lazy-claim's (`FundedFor` says
the same of what an order was built from); so a page that leaves the seed out is right
to, however old the curve it read, unless the drain came in between, and a sell meets
an empty treasury only after it. For
`RefusalsHaveACause` the invariant is `KnownConfigured`: what a panel takes for
configured is so, for the wallet about which it learned it (`about`), or rests on an
earlier order that was built in this panel for that wallet and not signed; a trade that
relies on it can only be built once that order is no
longer waiting for a signature, and if it went on it configured the account or
left it to be seen. `CausalStep` says what a step may do to causes, and each
action is shown to be one.

`LaunchProofs`, on the table of trades. `RowsAreNearlyExact` needs `TableInv`. Its core
is `ReplayNear`: there is a replay of all trades of the log that is nearly exact after
each of them and, at the end, against the reserves of the curve. Two arithmetic lemmas
bound what one trade adds: of what a buyer paid besides, the job takes a part for input
(`BuyRecovered`, with the second signature of a launch); undoing the fee of a sell misses the gross amount by at most one
lamport upwards and by what the seller paid, before the fee, downwards
(`SellRecovered`, which is where the fee has to be below a half). A trade in the log
thus extends the replay by its own `Drifts` (`ReplayGrows`), an entry that is no trade
by nothing (`ReplaySkips`). A row that was written when nothing was missing holds the
value of that replay at its trade (`CompleteReplay`), and keeps it, because an order is
in the log once and settled (`LoggedOnce`). `LaunchFirst` is there for the launch
without a seed buy: it is no trade, and it leaves reserves of zero because no curve was
there before.

`BridgeProofs`, on orders. `DepositsAreOwn` rests on `PageInv` and `OrderInv`: the
accounts a tab shows were derived for the wallet it has (`DerivedForWallet`), every
request that is not cancelled is about that wallet (`LiveOfWallet`), and a deposit names
the accounts of the wallet that signed it. A change of wallet cancels and clears in one
step; that is what keeps late answers out.

`BridgeProofs`, on the list. What counts is not only the list but the copy that a
tab holds between reading and writing it, so `ListInv` speaks of both. `MarkInv`:
every mark in either, and every signature a poll still reads, stands for a
release; it gives `OnlyReleasedIsMarked`. `TrackInv`: unless two tabs ever held the
list at once, at most one copy is out, and the one that counts (that copy, or the
list) has every burn that was looked up and that `history` does not excuse;
moreover a burn at position j has had at least j - 1 others stashed after it.
This last part (`Ranked`) is the strengthening that
`NoBurnIsLostUnexplained` needs: it makes a burn that falls out at the cap one that
`Cap` younger burns pushed out, deletions and re-stashes in between included.

`ConfidentialProofs`. `ConfidentialInv` says of each operation which of its
transactions may have been sent, in which order, and what they contain (`Fits`);
that one button's operation and one send at a time are under way (`OneAtATime`);
that a version of the ciphertext stands for one value (`Ciphers`); and `DriftInv`:
unless one of the listed causes has happened, or a transaction that relies on an
old ciphertext is still in flight, or a button that a transit send has overtaken is yet
to write (`Trouble`), the figure and the balance are
apart by exactly the amount of the one operation that has changed one of them and
not yet the other. `DriftIsExplained` is what is left of it once nothing is in
flight. The second half of `Trouble` is what makes it inductive: the moment at
which a transaction becomes outdated comes before the moment it fails. The
effects of a transaction are computed instruction by instruction
(`ExecutedRuns`, `SendExecuted`), whatever proofs, reallocations and closures it
carries along. `RentIsReturned` compares the accounts that the set-ups of a send
open (`OpenedBySetups`) with those that its transfer closes (`ClosedBySend`).

`AlgorithmProofs`, on the faucet. `QuotaIsKept` rests on `FaucetInv`: no record is
ahead of the clock, and what was given in the present epoch is what the record says of
it. That epochs grow (`EpochsGrow`, a quotient lemma) is why a new epoch never meets a
record that already counts for it, the zero epoch of fresh records included.

`AlgorithmProofs`, on the calendar. `civil_from_days` reckons from 0000-03-01 with years
that begin in March. `WalkInv` says the same of the walk: the day number plus `Epoch` is
365 for each March year, its leap days, the days of the months before and the day of the
month (`DaysTo`). It is kept over every month's end, the last of February included
(`LeapDays`, `MonthsFollow`). That the quotients of the code then give back year, month
and day (`YearFound`, `MonthFound`, `DateFound`) is arithmetic: the corrections by 1460,
36524 and 146096 are exactly what keeps the last day of a leap cycle in its year. The
walk ends where the program's own bound on years does.

`AlgorithmProofs`, on the allocations. Two facts on sums (`Distributed`, `SumRaised` in
`SharedLemmas`): the truncated shares add up to no more than the target, and what the
residue hands out adds up to the residue, because the ranks in the order of `Ahead` take
every place once (`PlacesTaken`), so that just residue mod n holders are among the first.
`KeepsOrder` and `FollowsOrder` give that a larger share never gets less.

`AlgorithmProofs`, on the tree. Layers, widths and the running hash are recursive
functions; lemmas that count up (`LayersExist`, `RunningExists`, `HalvingExists`) show
that they are the functions their equations describe, of any size. Downwards: a hash of
a layer has the two hashes below it for children and no others (`Children`), so whoever
reaches the root by a list of the tree's hashes came from a leaf, by its siblings
(`OnlyOneProof`): leaf and node preimages differ, which is what the domain bytes are for,
and the height fixes the length. Upwards: with the sibling at its place and the flag of
its parity a hash leads to the one above it (`Parent`), hence a leaf to the root
(`LeafLeadsToRoot`), whether the flags are those of the builder or are computed from the
index (`AncestorShift`, `BitsReadBack`). `Sorted` is that places in the order are taken
once, so that sorting does not depend on the order read (`ReverseSame`, by counting); and
a filter keeps places in their order (`ThoseAre`), so that shard and scan give the leaf's
own line (`ClaimFinds`) and the route's tree is the committed one when no row is zero
(`MegadropFinds`). `HoldersInv`, all that the holders' walk adds, says that owners are
listed in their order.

`AlgorithmProofs`, on the message codec. `TextsComeBack` goes down the layers and up
again. Powers add exponents and grow (`PowerOfSum`, `PowersRise`), so the digits of a
number in any base are had by dividing (`LowBits`, `TopDigit`, `DigitsBelow`). Exclusive
or is had bit by bit (`DigitsOfXor`), and taken twice with the same number gives back
what was there (`XorTwice`); hence a round is undone whatever the round function does
(`RoundUndone`), and the rounds backwards one after the other (`PermutedBack`). A chunk
comes back from its number (`ChunkUnpacked`), the fields of a word do not touch
(`FieldAt`, `FieldAbove`), so a packet comes back from its word (`PacketComesBack`) and
from its amount (`AmountComesBack`). The pieces into which a text is cut are whole and
join to it (`TextIsCut`, `PiecesAreWhole`, `PiecesJoin`). Of a stream of a text's packets
the numbers admit only one order and the final flag only one length
(`OnlyTheWholeStream`), and `RowsComeBack` joins all this under a nonce for each packet.

`MatcherProofs`, on clearing. `BatchesClearFairly` is an invariant of the loop of
`clear_pair` (`LoopOK`), kept by each of its moves (`BuyerTaken`, `SellerTaken`,
`BuyerGivenUp`, `BothCrossed`) and so by a pass (`PassKeeps`). `Balanced`: what was taken
from a side is in hand, crossed or in the residual, signer by signer. `Priced`: a cross
that the buyer can pay is worth at least the price and less than a quote unit more
(`CrossCosts`, on the two roundings). `Barred`: a buyer who could still buy was given up
only when of the sells nothing is left (`SoldOut`, where the order by size matters: a
sell of zero is followed by none that is not). The measure `Effort` goes down with
every pass, so the loop ends (`LoopDone`). Before the loop sides are picked and sorted,
after it what is left of them is joined, and sums do not notice (`PickTotal`,
`LeftoverAdds`). A pair of one mint with itself, which the code does not exclude, has
no sells. Of a market maker the proofs use only that its prices are naturals
(`PriceIsNat`).

`MatcherProofs`, on replays. `ReplaysAgree` follows the same intents in two orders. A
group and its sides are picked from the same places (`Picks`, `ReorderedGroup`,
`SidesPick`), so the sums and hence the price are the same (`SumsSame`, `PriceSame`).
Of two sorted lists of the same intents neither has, at any place, one that goes before
the other's, or too many would go before that (`NoneFirst`, by the pigeonhole
principle): they agree on amount and signer everywhere (`SameKeys`), on everything but
the nonce within a side (`SortsAlike`), and wholly if no two intents are alike. The loop
reads nothing else (`PassSame`).

Assumed: the named ASSUMEs of the modules, no more. Constants are naturals of the
right shape, the fee is below 100 % (below 50 % for what concerns the table of trades,
`SmallFeeAssumption`), the tokens fit the width, the amounts in
instructions fit u64, an epoch has no negative slots, the wallets are finitely
many, `Nothing` (launch) is no number, `NoWrite` (bridge) is not a list, and the megadrop lists (`ListAssumption`) hold
allocations of the type that is signed, with proofs that go inline or have the length
of a buffer. The calendar is walked up to the year 9998, with at most twelve months added
(`WalkAssumption`); holdings and policies are naturals (`HolderAssumption`), and so are
amounts of intents, mints and signers, which are only compared (`BatchAssumption`). The
fields of a packet fill two halves, a full payload and its length fit theirs
(`WidthAssumption`), a checksum fits its bits (`ChecksumAssumption`), and an error is
no packet and no list of packets (`RefusedAssumption`).

Only model-checked: liveness (`EveryRequestAnswered`, `ReleasedIsNoticed`,
`TableCatchesUp`); fairness and ENABLED are out of the prover's reach. Every safety
invariant and action property that a passing run checks is a theorem too.

Proved and not checked again in a run: the type invariants of `LazyClaim`,
`Megadrop` and `BondingCurve`, `OnlyItsClaimCloses`, `TailIsBlank`, `OneGraduation`,
`GraduationLatches`. `BridgeTypeOK`, `ConfidentialTypeOK` and `LaunchTypeOK` state the
types of their modules; they hold in the instances of the runs above, and the
invariants of the proofs contain as much of them as the proofs need.

## 6. Not modelled

* genesis-bake, genesis-emit, megadrop-init, megadrop-snapshot, the archive reader of
  snapshot-fork: file formats, configuration and RPC pagination, run once by an
  operator; the sums they pass on are in `GenesisPartition` and `ProofLookup`.
* mediation, blob and RPC proxy routes and the MCP server: stateless requests to
  stores outside the repository.
* Size estimates of `megatxn.rs`, the base-43 alphabet and the canonical encoding of
  intents: nothing in the repository reads them.
* The validators page and `subsidy.ts`: wire formats and one-step instructions of the
  validator-subsidy program, which is not in this repository.
* Token lists, shared encoders, rendering, wallet prompts, candles and listings:
  display of what the models have as state.
* Token-2022, the ZK proof program, the bridge programs and the Solana runtime are
  external; the models have what the code here relies on.
* Infrastructure, scripts and tests.
