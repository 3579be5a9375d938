------------------------------- MODULE Bridge -------------------------------
(***************************************************************************)
(* The bridge page (frontend/app/bridge/page.tsx) and its list of burns    *)
(* whose release on mainnet is still to come (lib/bridge-pending.ts).      *)
(*                                                                         *)
(* Several tabs of one wallet run side by side, and in each the user may   *)
(* connect one mainnet wallet after another for deposits.  In a tab the    *)
(* handlers and the continuations of its requests interleave; tabs share   *)
(* the list in localStorage, which has no lock: a tab may write back what  *)
(* it read before another tab wrote.  The page bridges one asset; lists    *)
(* that older versions of it left may name others.  The bridge programs    *)
(* are outside this repository: a burn lands or fails, draws the next      *)
(* nonce of its asset, and some time later a release with that asset and   *)
(* nonce lands on mainnet, among releases of other users.                  *)
(***************************************************************************)
EXTENDS Naturals, FiniteSets, SequencesExt

CONSTANTS
    Tabs,        \* open pages of the one wallet
    Wallets,     \* mainnet wallets the user can connect
    Assets,      \* BridgeAsset
    PageAsset,   \* the one entry of BRIDGE_ASSETS
    MintProgram, \* the token program that owns its mint on mainnet
    Orders,      \* names for the transactions users send
    Cap,         \* entries kept in the list: 50
    Window,      \* signatures a poll looks at: 100
    NoWrite,     \* no list is about to be written
    Budgets      \* bounds: burns of earlier sessions, the nonces drawn by then,
                 \* and how many changes of wallet, transactions, burns and
                 \* releases of other users and slips (requests that fail,
                 \* dismissals) there may be

ASSUME BridgeAssumption ==
    /\ {"none", "done"} \cap Tabs = {}
    /\ "none" \notin Wallets
    /\ PageAsset \in Assets
    /\ MintProgram \in {"spl", "token22"}
    /\ Cap \in Nat \ {0}
    /\ Window \in Nat \ {0}
    /\ Budgets \subseteq [earlier : Seq([order : Orders, asset : Assets, nonce : Nat \ {0}]),
                          drawn : [Assets -> Nat],
                          visits : Nat, orders : Nat, foreign : Nat, slips : Nat]
    /\ \A k \in Budgets : \A e \in ToSet(k.earlier) : e.nonce <= k.drawn[e.asset]

Entries == [burn : Orders, asset : Assets, nonce : Nat \ {0}, released : BOOLEAN]

ASSUME NoWriteAssumption == NoWrite \notin Seq(Entries)

VARIABLES
    page,      \* page[t]: the mainnet wallet and the accounts derived for it
    asked,     \* requests for derived accounts that have no answer yet
    order,     \* order[b]: a burn and the page's lookup of it, or a deposit
    lastNonce, \* lastNonce[a]: nonces of asset a drawn on staccana
    releases,  \* what landed in the vault program, newest first
    list,      \* localStorage "staccana:bridge-pending", newest first
    held,      \* held[t]: the list t is about to write, or NoWrite
    poll,      \* poll[t]: where pollMainnetReleases is
    budget,    \* what is left of the behaviour's bounds
    history    \* observer: what happened to entries (see HistoryInit)

vars == <<page, asked, order, lastNonce, releases, list, held, poll,
          budget, history>>

pageVars == <<page, asked>>
listVars == <<list, held, history>>

Nothing == [owner |-> "none", program |-> "none"]
NoOrder == [phase |-> "none", lookup |-> "none"]
IdlePoll == [phase |-> "idle", wanted |-> {}, sigs |-> <<>>]

\* A tab between a read and a write of the list does nothing else.
Free(t) == held[t] = NoWrite

Spend(what) == /\ budget[what] > 0
               /\ budget' = [budget EXCEPT ![what] = @ - 1]

\* deriveDepositAccounts: the wallet's token account under the program that
\* owns the mint; when the mint cannot be looked up, SPL v3 is assumed.
DerivedAccounts(w, looked) ==
    [owner |-> w, program |-> IF looked THEN MintProgram ELSE "spl"]

EarlierEntry(e) == [burn |-> e.order, asset |-> e.asset, nonce |-> e.nonce,
                    released |-> FALSE]
EarlierOrder(e) == [phase |-> "landed", lookup |-> "done",
                    asset |-> e.asset, nonce |-> e.nonce]

\* Pages that have been open for a while, with the asset's accounts found and
\* no mainnet wallet, and the list earlier sessions left: none of their burns
\* was released yet.
BridgeInit ==
    /\ budget \in Budgets
    /\ LET earlier == budget.earlier
           Of(b) == {i \in DOMAIN earlier : earlier[i].order = b}
       IN  /\ order = [b \in Orders |->
                  IF Of(b) = {} THEN NoOrder
                  ELSE EarlierOrder(earlier[CHOOSE i \in Of(b) : TRUE])]
           /\ list = Reverse([i \in DOMAIN earlier |-> EarlierEntry(earlier[i])])
           /\ history = [stashed |-> [i \in DOMAIN earlier |-> earlier[i].order],
                         missed |-> {}, dismissed |-> {}, raced |-> FALSE]
    /\ lastNonce = budget.drawn
    /\ page = [t \in Tabs |-> [wallet |-> "none", derived |-> Nothing]]
    /\ asked = {}
    /\ releases = <<>>
    /\ held = [t \in Tabs |-> NoWrite]
    /\ poll = [t \in Tabs |-> IdlePoll]

-----------------------------------------------------------------------------
(* The effect of the deposit panel that derives the accounts of a deposit. *)

\* A mainnet wallet connects, disconnects or gives way to another: the cleanup
\* cancels the request in flight, the state goes back to "loading" or "idle",
\* and for a connected wallet a new request leaves.  Loading, missing and
\* failed are one state, Nothing: an answer without accounts changes nothing.
ChooseWallet(t, w) ==
    /\ Free(t) /\ w /= page[t].wallet
    /\ Spend("visits")
    /\ page' = [page EXCEPT ![t] = [wallet |-> w, derived |-> Nothing]]
    /\ asked' = {IF r.tab = t THEN [r EXCEPT !.live = FALSE] ELSE r : r \in asked}
                  \cup [tab : {t}, wallet : {w} \ {"none"}, live : {TRUE}]
    /\ UNCHANGED <<order, lastNonce, releases, poll, listVars>>

\* Mutant: the answer is taken whether or not its effect was cancelled.
HeedsAll(r) == TRUE
Heeds(r) == r.live

EffectAnswered(r, looked) ==
    /\ Free(r.tab)
    /\ asked' = asked \ {r}
    /\ page' = IF Heeds(r)
               THEN [page EXCEPT ![r.tab].derived = DerivedAccounts(r.wallet, looked)]
               ELSE page
    /\ UNCHANGED <<order, lastNonce, releases, poll, budget, listVars>>

-----------------------------------------------------------------------------
(* The two transactions a user sends.                                      *)

\* The input fields: what the handlers refuse, and the one thing they send.
Forms == [amount : {0, 1}, dest : {"empty", "bad", "key"}]
Complete(form) == form.amount > 0 /\ form.dest = "key"

\* What the vault program takes: the accounts of the wallet that signs, under
\* the program of the mint.
VaultAccepts(wallet, accounts) == accounts = DerivedAccounts(wallet, TRUE)

\* onBurn.  It is sent without preflight and not waited for.
Burn(t, b, form) ==
    /\ Free(t)
    /\ order[b].phase = "none"
    /\ Spend("orders")
    /\ Complete(form)
    /\ order' = [order EXCEPT ![b] =
                    [phase |-> "sent", lookup |-> t, asset |-> PageAsset]]
    /\ UNCHANGED <<pageVars, lastNonce, releases, poll, listVars>>

\* onDeposit, signed by the wallet as it is now, with the accounts as they were
\* derived; the wallet simulates the transaction on mainnet and refuses to
\* send what would fail.
Deposit(t, b, form) ==
    /\ Free(t)
    /\ order[b].phase = "none"
    /\ Spend("orders")
    /\ Complete(form)
    /\ page[t].wallet /= "none" /\ page[t].derived /= Nothing
    /\ LET wallet == page[t].wallet
           accounts == page[t].derived
       IN  order' = [order EXCEPT ![b] =
                [phase |-> IF VaultAccepts(wallet, accounts) THEN "deposited" ELSE "refused",
                 lookup |-> "none", wallet |-> wallet, accounts |-> accounts]]
    /\ UNCHANGED <<pageVars, lastNonce, releases, poll, listVars>>

\* The bridge program executes the burn, or the burn fails or expires.
BurnLands(b) ==
    /\ order[b].phase = "sent"
    /\ LET a == order[b].asset
       IN  /\ lastNonce' = [lastNonce EXCEPT ![a] = @ + 1]
           /\ order' = [order EXCEPT ![b] = [phase |-> "landed", lookup |-> @.lookup,
                                           asset |-> a, nonce |-> lastNonce[a] + 1]]
    /\ UNCHANGED <<pageVars, releases, poll, budget, listVars>>

BurnFails(b) ==
    /\ order[b].phase = "sent"
    /\ order' = [order EXCEPT ![b].phase = "failed"]
    /\ UNCHANGED <<pageVars, lastNonce, releases, poll, budget, listVars>>

\* The relayers release a burn that landed.
Released(b) ==
    /\ order[b].phase = "landed"
    /\ [asset |-> order[b].asset, nonce |-> order[b].nonce] \in ToSet(releases)

Release(b) ==
    /\ order[b].phase = "landed" /\ ~Released(b)
    /\ releases' = <<[asset |-> order[b].asset, nonce |-> order[b].nonce]>> \o releases
    /\ UNCHANGED <<pageVars, order, lastNonce, poll, budget, listVars>>

\* Other users burn, and have burns of theirs released.
ForeignBurn(a) ==
    /\ Spend("foreign")
    /\ lastNonce' = [lastNonce EXCEPT ![a] = @ + 1]
    /\ UNCHANGED <<pageVars, order, releases, poll, listVars>>

Own(a, n) == \E b \in Orders : /\ order[b].phase = "landed"
                              /\ order[b].asset = a /\ order[b].nonce = n

ForeignRelease(a, n) ==
    /\ Spend("foreign")
    /\ ~Own(a, n) /\ [asset |-> a, nonce |-> n] \notin ToSet(releases)
    /\ releases' = <<[asset |-> a, nonce |-> n]>> \o releases
    /\ UNCHANGED <<pageVars, order, lastNonce, poll, listVars>>

-----------------------------------------------------------------------------
(* The list.  Every change reads all of it and writes all of it.           *)

Entry(b) == [burn |-> b, asset |-> order[b].asset, nonce |-> order[b].nonce,
             released |-> FALSE]

IsListed(b, entries) == \E i \in DOMAIN entries : entries[i].burn = b
Listed(b) == IsListed(b, list)
MarkedEntry(e) == e.released

\* Mutant: the list is cut before the new entry is in, to one entry less.
CutEarly(entries) ==
    IF Len(entries) < Cap THEN entries ELSE SubSeq(entries, 1, Cap - 1)
Cut(entries) ==
    IF Len(entries) <= Cap THEN entries ELSE SubSeq(entries, 1, Cap)

Added(b, entries) ==
    IF IsListed(b, entries) THEN entries ELSE Cut(<<Entry(b)>> \o entries)

\* Mutant: everything up to that nonce is taken as released.
MarkUpTo(nonce, entries) ==
    [i \in DOMAIN entries |->
        IF entries[i].nonce <= nonce THEN [entries[i] EXCEPT !.released = TRUE]
        ELSE entries[i]]

\* The entries with that nonce, of whichever asset.
Mark(nonce, entries) ==
    [i \in DOMAIN entries |->
        IF entries[i].nonce = nonce THEN [entries[i] EXCEPT !.released = TRUE]
        ELSE entries[i]]

\* The entries of other burns, in their order.
Dropped(b, entries) ==
    LET kept[n \in 0..Len(entries)] ==
            IF n = 0 THEN <<>>
            ELSE IF entries[n].burn = b THEN kept[n - 1]
            ELSE Append(kept[n - 1], entries[n])
    IN  kept[Len(entries)]

\* Tab t has read the list and will write entries.
Hold(t, entries, observed) ==
    /\ held' = [held EXCEPT ![t] = entries]
    /\ history' = [observed EXCEPT !.raced = @ \/ \E u \in Tabs \ {t} : ~Free(u)]

Write(t) ==
    /\ ~Free(t)
    /\ list' = held[t]
    /\ held' = [held EXCEPT ![t] = NoWrite]
    /\ UNCHANGED <<pageVars, order, lastNonce, releases, poll, budget, history>>

\* stashBurnFromTx looks the burn up.  confirmTransaction is given height 0,
\* so it may return before the burn landed; a burn the node does not know, or
\* a request that fails, leaves no trace and is not tried again.
Stash(b) ==
    LET t == order[b].lookup
    IN  /\ t \in Tabs /\ Free(t)
        /\ order[b].phase = "landed"
        /\ order' = [order EXCEPT ![b].lookup = "done"]
        /\ IF Listed(b)
           THEN UNCHANGED <<held, history>>
           ELSE Hold(t, Added(b, list), [history EXCEPT !.stashed = Append(@, b)])
        /\ UNCHANGED <<pageVars, lastNonce, releases, poll, budget, list>>

StashMisses(b) ==
    LET t == order[b].lookup
    IN  /\ t \in Tabs /\ Free(t)
        /\ Spend("slips")
        /\ order' = [order EXCEPT ![b].lookup = "done"]
        /\ history' = [history EXCEPT !.missed = @ \cup {b}]
        /\ UNCHANGED <<pageVars, lastNonce, releases, poll, list, held>>

\* The dismiss button of PendingClaimsCard.
RemovePending(t, b) ==
    /\ Free(t) /\ Listed(b)
    /\ Spend("slips")
    /\ Hold(t, Dropped(b, list), [history EXCEPT !.dismissed = @ \cup {b}])
    /\ UNCHANGED <<pageVars, order, lastNonce, releases, poll, list>>

-----------------------------------------------------------------------------
(* pollMainnetReleases, on mount, after each burn and every 30 seconds.    *)

Unreleased == {i \in DOMAIN list : ~list[i].released}

PollStarts(t) ==
    /\ Free(t) /\ poll[t].phase = "idle"
    /\ Unreleased /= {}
    /\ poll' = [poll EXCEPT ![t] = [phase |-> "asked", sigs |-> <<>>,
                    wanted |-> {list[i].nonce : i \in Unreleased}]]
    /\ UNCHANGED <<pageVars, order, lastNonce, releases, budget, listVars>>

\* Mutant: the signatures are taken from the other end.
Oldest(sigs) == SubSeq(sigs, Max({1, Len(sigs) - Window + 1}), Len(sigs))

\* getSignaturesForAddress with a limit: the newest ones.
Latest(sigs) == SubSeq(sigs, 1, Min({Len(sigs), Window}))

PollAnswered(t) ==
    /\ Free(t) /\ poll[t].phase = "asked"
    /\ poll' = [poll EXCEPT ![t].phase = "reading",
                    ![t].sigs = Latest(releases)]
    /\ UNCHANGED <<pageVars, order, lastNonce, releases, budget, listVars>>

\* The newest of the remaining transactions: marks its nonce if it is wanted,
\* in the list as it is by now.
PollReads(t) ==
    /\ Free(t) /\ poll[t].phase = "reading"
    /\ poll[t].sigs /= <<>> /\ poll[t].wanted /= {}
    /\ LET ev == Head(poll[t].sigs)
           wanted == ev.nonce \in poll[t].wanted
           dirty == \E i \in Unreleased : list[i].nonce = ev.nonce
       IN  /\ poll' = [poll EXCEPT ![t].sigs = Tail(@),
                           ![t].wanted = IF wanted THEN @ \ {ev.nonce} ELSE @]
           /\ IF wanted /\ dirty THEN Hold(t, Mark(ev.nonce, list), history)
              ELSE UNCHANGED <<held, history>>
    /\ UNCHANGED <<pageVars, order, lastNonce, releases, budget, list>>

PollEnds(t) ==
    /\ Free(t) /\ poll[t].phase = "reading"
    /\ poll[t].sigs = <<>> \/ poll[t].wanted = {}
    /\ poll' = [poll EXCEPT ![t] = IdlePoll]
    /\ UNCHANGED <<pageVars, order, lastNonce, releases, budget, listVars>>

\* A request of the poll is rejected: the poll is over, the next one is due.
PollFails(t) ==
    /\ Free(t) /\ poll[t].phase /= "idle"
    /\ Spend("slips")
    /\ poll' = [poll EXCEPT ![t] = IdlePoll]
    /\ UNCHANGED <<pageVars, order, lastNonce, releases, listVars>>

\* What a tab does on its own.
TabRuns(t) ==
    \/ Write(t)
    \/ PollStarts(t) \/ PollAnswered(t) \/ PollReads(t) \/ PollEnds(t)

-----------------------------------------------------------------------------
BridgeNext ==
    \/ \E t \in Tabs, w \in Wallets \cup {"none"} : ChooseWallet(t, w)
    \/ \E r \in asked, looked \in BOOLEAN : EffectAnswered(r, looked)
    \/ \E t \in Tabs, b \in Orders, form \in Forms : Burn(t, b, form) \/ Deposit(t, b, form)
    \/ \E b \in Orders : BurnLands(b) \/ BurnFails(b) \/ Release(b)
    \/ \E a \in Assets : ForeignBurn(a) \/ \E n \in 1..lastNonce[a] : ForeignRelease(a, n)
    \/ \E b \in Orders : Stash(b) \/ StashMisses(b)
    \/ \E t \in Tabs, b \in Orders : RemovePending(t, b)
    \/ \E t \in Tabs : TabRuns(t) \/ PollFails(t)

\* A tab that stays open runs: its interval fires, its requests are answered
\* and its scripts finish, one step after the other.  Nothing is owed by
\* users, chains or relayers.
BridgeFairness == \A t \in Tabs : WF_vars(TabRuns(t))

BridgeSpec == BridgeInit /\ [][BridgeNext]_vars /\ BridgeFairness

-----------------------------------------------------------------------------
IsList(s) == s \in Seq(Entries) /\ Len(s) <= Cap

\* The shape of the state: no list, written or about to be, outgrows the cap.
BridgeTypeOK ==
    /\ page \in [Tabs -> [wallet : Wallets \cup {"none"},
                          derived : [owner : Wallets, program : {"spl", "token22"}]
                                       \cup {Nothing}]]
    /\ asked \subseteq [tab : Tabs, wallet : Wallets, live : BOOLEAN]
    /\ lastNonce \in [Assets -> Nat]
    /\ IsList(list)
    /\ \A t \in Tabs : Free(t) \/ IsList(held[t])
    /\ \A t \in Tabs : poll[t].phase \in {"idle", "asked", "reading"}

\* A deposit goes out with the accounts of the wallet that signs it, however
\* late the answer for a wallet connected before arrives: no deposit is refused
\* for naming another wallet's token account, only for a guessed program.
DepositsFromOwnAccounts ==
    \A b \in Orders : order[b].phase \in {"deposited", "refused"} =>
        /\ order[b].accounts.owner = order[b].wallet
        /\ order[b].phase = "refused" =>
              order[b].accounts.program = "spl" /\ MintProgram = "token22"

\* A burn that landed and was looked up can be missing from the list for four
\* reasons only: the lookup came too early or failed, the user dismissed it,
\* Cap younger burns pushed it out, or two tabs wrote over each other.
UntrackedHasACause ==
    (\A t \in Tabs : Free(t)) =>
        \A b \in Orders :
            (order[b].phase = "landed" /\ order[b].lookup = "done" /\ ~Listed(b)) =>
                \/ b \in history.missed \cup history.dismissed
                \/ history.raced
                \/ \E i \in DOMAIN history.stashed :
                      /\ history.stashed[i] = b
                      /\ Len(history.stashed) - i >= Cap

\* An entry shown as released is one whose nonce was released: its own, or,
\* as the assets number their burns alike and the poll compares nonces only,
\* that of anybody's burn of another asset.
MarkedWasReleased ==
    \A i \in DOMAIN list :
        list[i].released => \E r \in ToSet(releases) : r.nonce = list[i].nonce

\* The vault's transactions a poll started now would see.
InWindow(b) ==
    \E i \in DOMAIN releases :
        /\ releases[i] = [asset |-> order[b].asset, nonce |-> order[b].nonce]
        /\ i <= Window

MarkedInList(b) == \E i \in DOMAIN list : list[i].burn = b /\ list[i].released

\* A listed burn whose release has landed is shown as released, unless it
\* leaves the list or other releases push its own out of the poll's window.
ReleasedIsNoticed ==
    \A b \in Orders :
        (Listed(b) /\ Released(b)) ~> (MarkedInList(b) \/ ~Listed(b) \/ ~InWindow(b))
=============================================================================
