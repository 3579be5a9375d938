---------------------------- MODULE BridgeProofs ----------------------------
(***************************************************************************)
(* Proofs about the bridge page, for any number of tabs, wallets, assets,  *)
(* orders and requests in flight.                                          *)
(*                                                                         *)
(* The first part shows that a deposit names accounts of the wallet that   *)
(* signs it.  It rests on the requests: one that still counts is about the *)
(* wallet its tab has now, so no answer can bring in another's accounts.   *)
(*                                                                         *)
(* The second part is about the pending list, which the tabs share, read   *)
(* and write back whole.  What a tab holds between the two is the list to  *)
(* come, so ListInv speaks of both: entries are marked by releases that    *)
(* some poll has read, and, unless two tabs ever held the list at once,    *)
(* the one copy that counts has every burn that history does not excuse.   *)
(***************************************************************************)
EXTENDS Bridge, SharedLemmas, TLAPS

Accounts == [owner : Wallets, program : {"spl", "token22"}]

Burns == [phase : {"sent", "failed"}, lookup : Tabs \cup {"done"}, asset : Assets]
Landeds == [phase : {"landed"}, lookup : Tabs \cup {"done"}, asset : Assets,
            nonce : Nat \ {0}]
Deposits == [phase : {"deposited", "refused"}, lookup : {"none"}, wallet : Wallets,
             accounts : Accounts]

Pages == [wallet : Wallets \cup {"none"}, derived : Accounts \cup {Nothing}]

\* The accounts a tab shows were derived for the wallet it has.
DerivedForWallet(p) ==
    p.derived # Nothing =>
        /\ p.wallet \in Wallets
        /\ \E looked \in BOOLEAN : p.derived = DerivedAccounts(p.wallet, looked)

\* A request that still counts is about the wallet its tab has.
LiveOfWallet == \A r \in asked : r.live => r.wallet = page[r.tab].wallet

PageInv ==
    /\ page \in [Tabs -> Pages]
    /\ \A t \in Tabs : DerivedForWallet(page[t])
    /\ asked \subseteq [tab : Tabs, wallet : Wallets, live : BOOLEAN]
    /\ LiveOfWallet

OrderInv ==
    /\ order \in [Orders -> {NoOrder} \cup Burns \cup Landeds \cup Deposits]
    /\ DepositsFromOwnAccounts

\* Derived accounts are of the wallet they were derived for, under the mint's
\* program unless that was guessed.
LEMMA DerivedIsOfWallet ==
    ASSUME NEW w \in Wallets, NEW looked \in BOOLEAN
    PROVE  /\ DerivedAccounts(w, looked) \in Accounts
           /\ DerivedAccounts(w, looked).owner = w
           /\ \/ DerivedAccounts(w, looked) = DerivedAccounts(w, TRUE)
              \/ DerivedAccounts(w, looked).program = "spl" /\ MintProgram = "token22"
  BY BridgeAssumption DEF DerivedAccounts, Accounts

\* A tab opens without a wallet.
LEMMA InitPages == BridgeInit => PageInv
  <1> SUFFICES ASSUME BridgeInit PROVE PageInv
    OBVIOUS
  <1>1. page = [t \in Tabs |-> [wallet |-> "none", derived |-> Nothing]] /\ asked = {}
    BY DEF BridgeInit
  <1>2. QED
    BY <1>1 DEF PageInv, Pages, DerivedForWallet, LiveOfWallet

\* And without orders but those of earlier sessions.
LEMMA InitOrders == BridgeInit => OrderInv
  <1> SUFFICES ASSUME BridgeInit PROVE OrderInv
    OBVIOUS
  <1> DEFINE earlier == budget.earlier
             Of(b) == {i \in DOMAIN earlier : earlier[i].order = b}
  <1>1. earlier \in Seq([order : Orders, asset : Assets, nonce : Nat \ {0}])
    BY BridgeAssumption DEF BridgeInit
  <1>2. order = [b \in Orders |-> IF Of(b) = {} THEN NoOrder
                                  ELSE EarlierOrder(earlier[CHOOSE i \in Of(b) : TRUE])]
    BY DEF BridgeInit
  <1> HIDE DEF earlier
  <1>3. ASSUME NEW e \in [order : Orders, asset : Assets, nonce : Nat \ {0}]
        PROVE  EarlierOrder(e) \in Landeds
    BY DEF EarlierOrder, Landeds
  <1>4. \A b \in Orders : Of(b) # {} => earlier[CHOOSE i \in Of(b) : TRUE]
                                          \in [order : Orders, asset : Assets, nonce : Nat \ {0}]
    <2>1. SUFFICES ASSUME NEW b \in Orders, Of(b) # {}
                   PROVE  \A i \in Of(b) :
                             earlier[i] \in [order : Orders, asset : Assets, nonce : Nat \ {0}]
      OBVIOUS
    <2>2. \A i \in DOMAIN earlier :
             earlier[i] \in [order : Orders, asset : Assets, nonce : Nat \ {0}]
      <3>1. ASSUME NEW S, NEW s \in Seq(S), NEW i \in DOMAIN s PROVE s[i] \in S
        OBVIOUS
      <3>2. QED
        BY <1>1, <3>1
    <2>3. QED
      BY <2>2
  <1> HIDE DEF Of
  <1>5. \A b \in Orders : order[b] = NoOrder \/ order[b] \in Landeds
    BY <1>2, <1>3, <1>4
  <1>6. order \in [Orders -> {NoOrder} \cup Burns \cup Landeds \cup Deposits]
    BY <1>2, <1>5
  <1>7. DepositsFromOwnAccounts
    BY <1>5 DEF DepositsFromOwnAccounts, NoOrder, Landeds
  <1>8. QED
    BY <1>6, <1>7 DEF OrderInv

-----------------------------------------------------------------------------
(* The page.                                                               *)

\* Another wallet drops what was derived and disowns what was asked.
LEMMA ChooseSteps ==
    ASSUME PageInv, NEW t \in Tabs, NEW w \in Wallets \cup {"none"}, ChooseWallet(t, w)
    PROVE  PageInv'
  <1> DEFINE new == [wallet |-> w, derived |-> Nothing]
  <1>1. new \in Pages /\ DerivedForWallet(new)
    BY DEF Pages, DerivedForWallet
  <1>2. page' = [page EXCEPT ![t] = new]
    BY DEF ChooseWallet
  <1> HIDE DEF new
  <1>3. page'[t] = new /\ \A u \in Tabs \ {t} : page'[u] = page[u]
    BY <1>2 DEF PageInv
  <1>4. page' \in [Tabs -> Pages] /\ \A u \in Tabs : DerivedForWallet(page'[u])
    BY <1>1, <1>2, <1>3 DEF PageInv
  <1>5. asked' = {IF r.tab = t THEN [r EXCEPT !.live = FALSE] ELSE r : r \in asked}
                   \cup [tab : {t}, wallet : {w} \ {"none"}, live : {TRUE}]
    BY DEF ChooseWallet
  <1>6. asked' \subseteq [tab : Tabs, wallet : Wallets, live : BOOLEAN]
    <2>1. \A r \in asked : [r EXCEPT !.live = FALSE] \in
             [tab : Tabs, wallet : Wallets, live : BOOLEAN]
      BY DEF PageInv
    <2>2. QED
      BY <1>5, <2>1 DEF PageInv
  <1>7. LiveOfWallet'
    <2> SUFFICES ASSUME NEW x \in asked', x.live PROVE x.wallet = page'[x.tab].wallet
      BY DEF LiveOfWallet
    <2>1. CASE x \in [tab : {t}, wallet : {w} \ {"none"}, live : {TRUE}]
      BY <1>3, <2>1 DEF new
    <2>2. CASE \E r \in asked : x = IF r.tab = t THEN [r EXCEPT !.live = FALSE] ELSE r
      <3>1. PICK r \in asked : x = IF r.tab = t THEN [r EXCEPT !.live = FALSE] ELSE r
        BY <2>2
      <3>2. r.tab # t
        BY <3>1 DEF PageInv
      <3>3. x = r /\ r.tab \in Tabs \ {t}
        BY <3>1, <3>2 DEF PageInv
      <3>4. QED
        BY <1>3, <3>3 DEF PageInv, LiveOfWallet
    <2>3. QED
      BY <1>5, <2>1, <2>2
  <1>8. QED
    BY <1>4, <1>6, <1>7 DEF PageInv

\* An answer is shown only if its tab still asks for it.
LEMMA AnswerSteps ==
    ASSUME PageInv, NEW r \in asked, NEW looked \in BOOLEAN, EffectAnswered(r, looked)
    PROVE  PageInv'
  <1>1. r \in [tab : Tabs, wallet : Wallets, live : BOOLEAN]
    BY DEF PageInv
  <1>2. asked' \subseteq asked
    BY DEF EffectAnswered
  <1>3. CASE ~Heeds(r)
    BY <1>2, <1>3 DEF EffectAnswered, PageInv, LiveOfWallet
  <1>4. CASE Heeds(r)
    <2> PICK t, w : t = r.tab /\ w = r.wallet
      OBVIOUS
    <2>1. t \in Tabs /\ w \in Wallets /\ page[t] \in Pages
      BY <1>1 DEF PageInv
    <2>2. page[t].wallet = w
      BY <1>4 DEF Heeds, PageInv, LiveOfWallet
    <2> DEFINE n == [page[t] EXCEPT !.derived = DerivedAccounts(w, looked)]
    <2>3. page' = [page EXCEPT ![t] = n]
      BY <1>4 DEF EffectAnswered
    <2>4. DerivedAccounts(w, looked) \in Accounts
      BY <2>1, DerivedIsOfWallet
    <2>5. n \in Pages /\ n.wallet = w /\ n.derived = DerivedAccounts(w, looked)
      BY <2>1, <2>2, <2>4 DEF Pages
    <2>6. DerivedForWallet(n)
      BY <2>1, <2>5 DEF DerivedForWallet
    <2> HIDE DEF n
    <2>7. page' \in [Tabs -> Pages] /\ \A u \in Tabs : DerivedForWallet(page'[u])
      BY <2>3, <2>5, <2>6 DEF PageInv
    <2>8. \A u \in Tabs : page'[u].wallet = page[u].wallet
      BY <2>1, <2>2, <2>3, <2>5 DEF PageInv
    <2>9. QED
      BY <1>2, <2>7, <2>8 DEF PageInv, LiveOfWallet
  <1>5. QED
    BY <1>3, <1>4

-----------------------------------------------------------------------------
(* The orders.                                                             *)

\* What DepositsFromOwnAccounts says of one order.
OwnAccounts(o) ==
    o.phase \in {"deposited", "refused"} =>
        /\ o.accounts.owner = o.wallet
        /\ o.phase = "refused" => o.accounts.program = "spl" /\ MintProgram = "token22"

\* One order is replaced by another that is well formed.
LEMMA OneOrderChanges ==
    ASSUME OrderInv, NEW b \in Orders, NEW o \in Burns \cup Landeds \cup Deposits,
           OwnAccounts(o), order' = [order EXCEPT ![b] = o]
    PROVE  OrderInv'
  <1>1. order' \in [Orders -> {NoOrder} \cup Burns \cup Landeds \cup Deposits]
    BY DEF OrderInv
  <1>2. \A c \in Orders : order'[c] = IF c = b THEN o ELSE order[c]
    BY DEF OrderInv
  <1>3. DepositsFromOwnAccounts'
    BY <1>2 DEF OrderInv, DepositsFromOwnAccounts, OwnAccounts
  <1>4. QED
    BY <1>1, <1>3 DEF OrderInv

\* A burn that is sent names no accounts of a wallet.
LEMMA BurnSteps ==
    ASSUME OrderInv, NEW t \in Tabs, NEW b \in Orders, NEW form, Burn(t, b, form)
    PROVE  OrderInv'
  <1> DEFINE o == [phase |-> "sent", lookup |-> t, asset |-> PageAsset]
  <1>1. o \in Burns /\ OwnAccounts(o)
    BY BridgeAssumption DEF Burns, OwnAccounts
  <1>2. order' = [order EXCEPT ![b] = o]
    BY DEF Burn
  <1>3. QED
    BY <1>1, <1>2, OneOrderChanges

\* A deposit is sent with what was derived for the wallet that signs it.
LEMMA DepositSteps ==
    ASSUME PageInv, OrderInv, NEW t \in Tabs, NEW b \in Orders, NEW form, Deposit(t, b, form)
    PROVE  OrderInv'
  <1> DEFINE w == page[t].wallet
             acc == page[t].derived
             phase == IF VaultAccepts(w, acc) THEN "deposited" ELSE "refused"
             o == [phase |-> phase, lookup |-> "none", wallet |-> w, accounts |-> acc]
  <1>1. w \in Wallets /\ \E looked \in BOOLEAN : acc = DerivedAccounts(w, looked)
    BY DEF Deposit, PageInv, DerivedForWallet
  <1>2. order' = [order EXCEPT ![b] = o]
    BY DEF Deposit
  <1> HIDE DEF w, acc
  <1>3. /\ acc \in Accounts /\ acc.owner = w
        /\ acc = DerivedAccounts(w, TRUE) \/ (acc.program = "spl" /\ MintProgram = "token22")
    <2>1. PICK looked \in BOOLEAN : acc = DerivedAccounts(w, looked)
      BY <1>1
    <2>2. DerivedAccounts(w, looked) \in Accounts /\ DerivedAccounts(w, looked).owner = w
      BY <1>1, DerivedIsOfWallet
    <2>3. \/ DerivedAccounts(w, looked) = DerivedAccounts(w, TRUE)
          \/ DerivedAccounts(w, looked).program = "spl" /\ MintProgram = "token22"
      BY <1>1, DerivedIsOfWallet
    <2>4. QED
      BY <2>1, <2>2, <2>3
  <1>4. /\ phase \in {"deposited", "refused"}
        /\ phase = "refused" => acc.program = "spl" /\ MintProgram = "token22"
    BY <1>3 DEF VaultAccepts
  <1> HIDE DEF phase
  <1>5. o \in Deposits /\ OwnAccounts(o)
    BY <1>1, <1>3, <1>4 DEF Deposits, OwnAccounts
  <1>6. QED
    BY <1>2, <1>5, OneOrderChanges

\* Landing or failing makes no deposit.
LEMMA LandSteps ==
    ASSUME OrderInv, lastNonce \in [Assets -> Nat], NEW b \in Orders, BurnLands(b) \/ BurnFails(b)
    PROVE  OrderInv'
  <1>1. order[b].phase = "sent" /\ order[b] \in Burns
    BY DEF BurnLands, BurnFails, OrderInv, NoOrder, Landeds, Deposits
  <1>2. CASE BurnLands(b)
    <2> DEFINE o == [phase |-> "landed", lookup |-> order[b].lookup, asset |-> order[b].asset,
                     nonce |-> lastNonce[order[b].asset] + 1]
    <2>1. o \in Landeds /\ OwnAccounts(o)
      BY <1>1 DEF Burns, Landeds, OwnAccounts
    <2>2. order' = [order EXCEPT ![b] = o]
      BY <1>2 DEF BurnLands
    <2>3. QED
      BY <2>1, <2>2, OneOrderChanges
  <1>3. CASE BurnFails(b)
    <2> DEFINE o == [order[b] EXCEPT !.phase = "failed"]
    <2>1. o \in Burns /\ OwnAccounts(o)
      BY <1>1 DEF Burns, OwnAccounts
    <2>2. order' = [order EXCEPT ![b] = o]
      BY <1>3 DEF BurnFails
    <2>3. QED
      BY <2>1, <2>2, OneOrderChanges
  <1>4. QED
    BY <1>2, <1>3

\* An order that waits for its lookup is a burn.
LEMMA LookedUpIsBurn ==
    ASSUME OrderInv, NEW b \in Orders, order[b].lookup \in Tabs
    PROVE  order[b] \in Burns \cup Landeds
  BY BridgeAssumption DEF OrderInv, NoOrder, Deposits

\* Nor does the lookup of the nonce.
LEMMA LookupSteps ==
    ASSUME OrderInv, NEW b \in Orders, Stash(b) \/ StashMisses(b)
    PROVE  OrderInv'
  <1> DEFINE o == [order[b] EXCEPT !.lookup = "done"]
  <1>1. order' = [order EXCEPT ![b] = o]
    BY DEF Stash, StashMisses
  <1>2. order[b] \in Burns \cup Landeds
    BY LookedUpIsBurn DEF Stash, StashMisses
  <1>3. o \in Burns \cup Landeds /\ OwnAccounts(o)
    BY <1>2 DEF Burns, Landeds, OwnAccounts
  <1>4. QED
    BY <1>1, <1>3, OneOrderChanges

\* Nonces are counted.
NonceInv == lastNonce \in [Assets -> Nat]

\* The steps of a tab that leave its orders and what it shows alone.
LEMMA TabSteps ==
    ASSUME NEW t \in Tabs, TabRuns(t) \/ PollFails(t) \/ \E b \in Orders : RemovePending(t, b)
    PROVE  UNCHANGED <<page, asked, order, lastNonce>>
  BY DEF TabRuns, Write, PollStarts, PollAnswered, PollReads, PollEnds, PollFails,
         RemovePending, pageVars

BridgeInv == PageInv /\ OrderInv /\ NonceInv

\* What other users do.
ForeignSteps ==
    \E a \in Assets : ForeignBurn(a) \/ \E n \in 1..lastNonce[a] : ForeignRelease(a, n)

\* One step for each action.
LEMMA StepBridge == BridgeInv /\ [BridgeNext]_vars => BridgeInv'
  <1> SUFFICES ASSUME BridgeInv, [BridgeNext]_vars PROVE BridgeInv'
    OBVIOUS
  <1>1. PageInv /\ OrderInv /\ NonceInv
    BY DEF BridgeInv
  <1>2. ASSUME UNCHANGED <<page, asked>> PROVE PageInv'
    BY <1>1, <1>2 DEF PageInv, LiveOfWallet
  <1>3. ASSUME UNCHANGED order PROVE OrderInv'
    BY <1>1, <1>3 DEF OrderInv, DepositsFromOwnAccounts
  <1>4. ASSUME UNCHANGED lastNonce PROVE NonceInv'
    BY <1>1, <1>4 DEF NonceInv
  <1>5. CASE UNCHANGED vars
    BY <1>2, <1>3, <1>4, <1>5 DEF vars, BridgeInv
  <1>6. CASE \E t \in Tabs, w \in Wallets \cup {"none"} : ChooseWallet(t, w)
    <2>1. PICK t \in Tabs, w \in Wallets \cup {"none"} : ChooseWallet(t, w)
      BY <1>6
    <2>2. UNCHANGED <<order, lastNonce>>
      BY <2>1 DEF ChooseWallet
    <2>3. QED
      BY <1>1, <1>3, <1>4, <2>1, <2>2, ChooseSteps DEF BridgeInv
  <1>7. CASE \E r \in asked, looked \in BOOLEAN : EffectAnswered(r, looked)
    <2>1. PICK r \in asked, looked \in BOOLEAN : EffectAnswered(r, looked)
      BY <1>7
    <2>2. UNCHANGED <<order, lastNonce>>
      BY <2>1 DEF EffectAnswered
    <2>3. QED
      BY <1>1, <1>3, <1>4, <2>1, <2>2, AnswerSteps DEF BridgeInv
  <1>8. CASE \E t \in Tabs, b \in Orders, form \in Forms : Burn(t, b, form) \/ Deposit(t, b, form)
    <2>1. PICK t \in Tabs, b \in Orders, form \in Forms : Burn(t, b, form) \/ Deposit(t, b, form)
      BY <1>8
    <2>2. UNCHANGED <<page, asked, lastNonce>>
      BY <2>1 DEF Burn, Deposit, pageVars
    <2>3. OrderInv'
      BY <1>1, <2>1, BurnSteps, DepositSteps
    <2>4. QED
      BY <1>2, <1>4, <2>2, <2>3 DEF BridgeInv
  <1>9. CASE \E b \in Orders : BurnLands(b) \/ BurnFails(b)
    <2>1. PICK b \in Orders : BurnLands(b) \/ BurnFails(b)
      BY <1>9
    <2>2. UNCHANGED <<page, asked>> /\ NonceInv'
      BY <1>1, <2>1 DEF BurnLands, BurnFails, pageVars, NonceInv
    <2>3. OrderInv'
      BY <1>1, <2>1, LandSteps DEF NonceInv
    <2>4. QED
      BY <1>2, <2>2, <2>3 DEF BridgeInv
  <1>10. CASE (\E b \in Orders : Release(b)) \/ ForeignSteps
    <2>1. UNCHANGED <<page, asked, order>>
      BY <1>10 DEF Release, ForeignSteps, ForeignBurn, ForeignRelease, pageVars
    <2>2. NonceInv'
      <3>1. CASE UNCHANGED lastNonce
        BY <1>4, <3>1
      <3>2. CASE \E a \in Assets : ForeignBurn(a)
        <4>1. PICK a \in Assets : lastNonce' = [lastNonce EXCEPT ![a] = @ + 1]
          BY <3>2 DEF ForeignBurn
        <4>2. QED
          BY <1>1, <4>1 DEF NonceInv
      <3>3. QED
        BY <1>10, <3>1, <3>2 DEF Release, ForeignSteps, ForeignRelease
    <2>3. QED
      BY <1>2, <1>3, <2>1, <2>2 DEF BridgeInv
  <1>11. CASE \E b \in Orders : Stash(b) \/ StashMisses(b)
    <2>1. PICK b \in Orders : Stash(b) \/ StashMisses(b)
      BY <1>11
    <2>2. UNCHANGED <<page, asked, lastNonce>>
      BY <2>1 DEF Stash, StashMisses, pageVars
    <2>3. OrderInv'
      BY <1>1, <2>1, LookupSteps
    <2>4. QED
      BY <1>2, <1>4, <2>2, <2>3 DEF BridgeInv
  <1>12. CASE \E t \in Tabs : TabRuns(t) \/ PollFails(t) \/ \E b \in Orders : RemovePending(t, b)
    <2>1. UNCHANGED <<page, asked, order, lastNonce>>
      BY <1>12, TabSteps
    <2>2. QED
      BY <1>2, <1>3, <1>4, <2>1 DEF BridgeInv
  <1>13. QED
    BY <1>5, <1>6, <1>7, <1>8, <1>9, <1>10, <1>11, <1>12 DEF BridgeNext, ForeignSteps

\* The invariant holds throughout.
LEMMA BridgeInvariant == BridgeSpec => []BridgeInv
  <1>1. BridgeInit => PageInv /\ OrderInv
    BY InitPages, InitOrders
  <1>2. BridgeInit => NonceInv
    BY BridgeAssumption DEF BridgeInit, NonceInv
  <1>3. BridgeInit => BridgeInv
    BY <1>1, <1>2 DEF BridgeInv
  <1>4. QED
    BY <1>3, StepBridge, PTL DEF BridgeSpec

\* However many tabs, wallets and late answers: every deposit goes out with the
\* accounts of the wallet that signs it, and is refused only for a guess.
THEOREM DepositsAreOwn == BridgeSpec => []DepositsFromOwnAccounts
  <1>1. BridgeInv => DepositsFromOwnAccounts
    BY DEF BridgeInv, OrderInv
  <1>2. QED
    BY <1>1, BridgeInvariant, PTL

-----------------------------------------------------------------------------
(* Dropping entries.  Dropped is a recursive function; TableOfSteps says   *)
(* that it exists and CountUp what it computes.                            *)

Filters(f, b, s) ==
    f = [n \in 0..Len(s) |-> IF n = 0 THEN <<>>
                             ELSE IF s[n].burn = b THEN f[n - 1]
                             ELSE Append(f[n - 1], s[n])]

\* What is left after the first n entries of s: entries of other burns only,
\* each from a position at or after its own, and all of those.
Remains(d, n, b, s) ==
    /\ \A k \in DOMAIN d : \E j \in 1..n : k <= j /\ d[k] = s[j]
    /\ \A j \in 1..n : s[j].burn # b => \E k \in DOMAIN d : d[k] = s[j]

\* Some function drops entries one by one, so the choice in Dropped is one.
LEMMA FilterExists ==
    ASSUME NEW b, NEW s \in Seq(Entries)
    PROVE  \E f \in [0..Len(s) -> Seq(Entries)] : Filters(f, b, s)
  <1> DEFINE N == Len(s)
             T == Seq(Entries)
             next(n, x) == IF s[n].burn = b THEN x ELSE Append(x, s[n])
             step == [n \in 1..N |-> [x \in T |-> next(n, x)]]
  <1>1. N \in Nat /\ <<>> \in T
    OBVIOUS
  <1>2. \A n \in 1..N, x \in T : next(n, x) \in T
    <2>1. ASSUME NEW x \in Seq(Entries), NEW e \in Entries PROVE Append(x, e) \in Seq(Entries)
      OBVIOUS
    <2>2. \A n \in 1..N : s[n] \in Entries
      OBVIOUS
    <2>3. QED
      BY <2>1, <2>2
  <1> HIDE DEF N, T, next
  <1>3. step \in [1..N -> [T -> T]]
    BY <1>2
  <1>4. PICK f \in [0..N -> T] : StepsFrom(f, N, <<>>, step)
    <2> HIDE DEF step
    <2>1. QED
      BY <1>1, <1>3, TableOfSteps
  <1>5. \A n \in 1..N : n - 1 \in 0..N
    BY <1>1
  <1>6. \A n \in 1..N : step[n][f[n - 1]] = next(n, f[n - 1])
    BY <1>4, <1>5
  <1>7. f = [n \in 0..N |-> IF n = 0 THEN <<>> ELSE next(n, f[n - 1])]
    <2>1. \A n \in 0..N : n # 0 => n \in 1..N
      BY <1>1
    <2> HIDE DEF step
    <2>2. QED
      BY <1>4, <1>6, <2>1 DEF StepsFrom
  <1>8. QED
    BY <1>4, <1>7 DEF N, T, next, Filters

\* What Dropped leaves.
LEMMA DroppedRemains ==
    ASSUME NEW b, NEW s \in Seq(Entries)
    PROVE  /\ Dropped(b, s) \in Seq(Entries)
           /\ Remains(Dropped(b, s), Len(s), b, s)
  <1> DEFINE f == CHOOSE g : Filters(g, b, s)
             A == {n \in 0..Len(s) : f[n] \in Seq(Entries) /\ Remains(f[n], n, b, s)}
  <1>1. Dropped(b, s) = f[Len(s)]
    BY DEF Dropped, Filters
  <1>2. Filters(f, b, s)
    BY FilterExists
  <1>3. Len(s) \in Nat /\ \A n \in 1..Len(s) : s[n] \in Entries
    OBVIOUS
  <1> HIDE DEF f
  <1>4. f[0] = <<>>
    BY <1>2, <1>3 DEF Filters
  <1>5. \A n \in 0..(Len(s) - 1) :
           f[n + 1] = IF s[n + 1].burn = b THEN f[n] ELSE Append(f[n], s[n + 1])
    <2>1. ASSUME NEW n \in 1..Len(s)
          PROVE  f[n] = IF s[n].burn = b THEN f[n - 1] ELSE Append(f[n - 1], s[n])
      <3>1. n \in 0..Len(s) /\ n # 0
        BY <1>3
      <3>2. f[n] = IF n = 0 THEN <<>> ELSE IF s[n].burn = b THEN f[n - 1]
                   ELSE Append(f[n - 1], s[n])
        BY <1>2, <3>1, Zenon DEF Filters
      <3>3. QED
        BY <3>1, <3>2
    <2>2. QED
      BY <1>3, <2>1
  <1>6. 0 \in A
    <2>1. <<>> \in Seq(Entries) /\ DOMAIN <<>> = {} /\ 1..0 = {}
      OBVIOUS
    <2>2. Remains(<<>>, 0, b, s)
      BY <2>1 DEF Remains
    <2>3. QED
      <3>1. 0 \in 0..Len(s)
        BY <1>3
      <3>2. f[0] \in Seq(Entries) /\ Remains(f[0], 0, b, s)
        BY <1>4, <2>1, <2>2, Zenon
      <3>3. QED
        BY <3>1, <3>2
  <1>7. ASSUME NEW n \in 0..(Len(s) - 1), n \in A PROVE n + 1 \in A
    <2>1. f[n] \in Seq(Entries) /\ Remains(f[n], n, b, s) /\ s[n + 1] \in Entries
      BY <1>3, <1>7
    <2>2. CASE s[n + 1].burn = b
      <3>1. f[n + 1] = f[n]
        BY <1>5, <2>2
      <3>2. Remains(f[n], n + 1, b, s)
        BY <1>3, <2>1, <2>2 DEF Remains
      <3>3. QED
        BY <1>3, <2>1, <3>1, <3>2
    <2>3. CASE s[n + 1].burn # b
      <3> DEFINE d == f[n]
                 e == Append(d, s[n + 1])
      <3>1. f[n + 1] = e
        BY <1>5, <2>3
      <3> HIDE DEF f
      <3>2. \A k \in DOMAIN d : k <= n
        BY <2>1 DEF Remains
      <3>3. e \in Seq(Entries) /\ Len(e) = Len(d) + 1 /\ e[Len(e)] = s[n + 1]
        BY <2>1
      <3>4. \A k \in DOMAIN d : k \in DOMAIN e /\ e[k] = d[k]
        BY <2>1
      <3>5. Len(e) <= n + 1
        BY <2>1, <3>2, <3>3
      <3>6. DOMAIN e = 1..Len(e) /\ DOMAIN d = 1..Len(d) /\ Len(d) \in Nat
        BY <2>1, <3>3
      <3> HIDE DEF d, e
      <3>7. Remains(e, n + 1, b, s)
        <4>1. ASSUME NEW k \in DOMAIN e PROVE \E j \in 1..(n + 1) : k <= j /\ e[k] = s[j]
          <5>1. CASE k = Len(e)
            BY <3>3, <3>5, <5>1
          <5>2. CASE k # Len(e)
            <6>1. k \in DOMAIN d
              BY <3>3, <3>6, <5>2
            <6>2. PICK j \in 1..n : k <= j /\ d[k] = s[j]
              BY <2>1, <6>1 DEF Remains, d
            <6>3. QED
              BY <3>4, <6>1, <6>2
          <5>3. QED
            BY <5>1, <5>2
        <4>2. ASSUME NEW j \in 1..(n + 1), s[j].burn # b PROVE \E k \in DOMAIN e : e[k] = s[j]
          <5>1. CASE j = n + 1
            BY <3>3, <3>6, <5>1
          <5>2. CASE j # n + 1
            <6>1. PICK k \in DOMAIN d : d[k] = s[j]
              BY <2>1, <4>2, <5>2 DEF Remains, d
            <6>2. QED
              BY <3>4, <6>1
          <5>3. QED
            BY <5>1, <5>2
        <4>3. QED
          BY <4>1, <4>2 DEF Remains
      <3>8. QED
        BY <1>3, <3>1, <3>3, <3>7
    <2>4. QED
      BY <2>2, <2>3
  <1> HIDE DEF A
  <1>8. 0..Len(s) \subseteq A
    BY <1>3, <1>6, <1>7, CountUp
  <1>9. Len(s) \in A
    BY <1>3, <1>8
  <1>10. QED
    BY <1>1, <1>9 DEF A

-----------------------------------------------------------------------------
(* The other two ways to change a list.                                    *)

\* The entry of a landed burn.
LEMMA EntryIsEntry ==
    ASSUME OrderInv, NEW b \in Orders, order[b].phase = "landed"
    PROVE  Entry(b) \in Entries /\ Entry(b).burn = b /\ ~Entry(b).released
  <1>1. order[b] \in Landeds
    BY DEF OrderInv, Burns, Deposits, NoOrder
  <1>2. QED
    BY <1>1 DEF Entry, Entries, Landeds

\* Adding a burn puts it first and moves the others by one; only what is at
\* or beyond the cap can fall out.
LEMMA AddedShifts ==
    ASSUME NEW b, NEW s \in Seq(Entries), Entry(b) \in Entries, ~IsListed(b, s)
    PROVE  LET new == Added(b, s)
           IN  /\ new \in Seq(Entries)
               /\ 1 \in DOMAIN new /\ new[1] = Entry(b)
               /\ \A j \in DOMAIN new : j # 1 => j - 1 \in DOMAIN s /\ new[j] = s[j - 1]
               /\ \A j \in DOMAIN s : j + 1 \in DOMAIN new \/ j >= Cap
  <1> DEFINE e == Entry(b)
             long == <<e>> \o s
             new == Cut(long)
  <1>1. Added(b, s) = new
    BY DEF Added
  <1>2. Cap \in Nat \ {0}
    BY BridgeAssumption
  <1>3. ASSUME NEW S, NEW x \in S, NEW q \in Seq(S)
        PROVE  LET l == <<x>> \o q
               IN  /\ l \in Seq(S) /\ Len(l) = Len(q) + 1 /\ l[1] = x
                   /\ \A j \in 2..Len(l) : l[j] = q[j - 1]
    OBVIOUS
  <1>4. /\ long \in Seq(Entries) /\ Len(long) = Len(s) + 1 /\ long[1] = e
        /\ \A j \in 2..Len(long) : long[j] = s[j - 1]
    <2> HIDE DEF e
    <2>1. QED
      BY <1>3 DEF e
  <1> HIDE DEF long, e
  <1>5. /\ new \in Seq(Entries)
        /\ Len(new) = IF Len(long) <= Cap THEN Len(long) ELSE Cap
        /\ \A j \in 1..Len(new) : new[j] = long[j]
    <2>1. CASE Len(long) <= Cap
      BY <1>4, <2>1 DEF Cut
    <2>2. CASE ~(Len(long) <= Cap)
      <3>1. ASSUME NEW S, NEW q \in Seq(S), Len(q) >= Cap
            PROVE  LET l == SubSeq(q, 1, Cap)
                   IN  l \in Seq(S) /\ Len(l) = Cap /\ \A j \in 1..Cap : l[j] = q[j]
        BY <1>2, <3>1
      <3>2. QED
        BY <1>2, <1>4, <2>2, <3>1 DEF Cut
    <2>3. QED
      BY <2>1, <2>2
  <1> HIDE DEF new
  <1>6. DOMAIN new = 1..Len(new) /\ DOMAIN s = 1..Len(s) /\ Len(s) \in Nat
    BY <1>5
  <1>7. QED
    BY <1>1, <1>2, <1>4, <1>5, <1>6 DEF e

\* Marking a nonce changes no burn, and marks that nonce only.
LEMMA MarkMarks ==
    ASSUME NEW nonce, NEW s \in Seq(Entries)
    PROVE  LET new == Mark(nonce, s)
           IN  /\ new \in Seq(Entries) /\ DOMAIN new = DOMAIN s
               /\ \A i \in DOMAIN s :
                     /\ new[i].burn = s[i].burn /\ new[i].nonce = s[i].nonce
                     /\ new[i].released => s[i].released \/ s[i].nonce = nonce
  <1> DEFINE m(e) == IF e.nonce = nonce THEN [e EXCEPT !.released = TRUE] ELSE e
  <1>1. ASSUME NEW e \in Entries
        PROVE  /\ m(e) \in Entries /\ m(e).burn = e.burn /\ m(e).nonce = e.nonce
               /\ m(e).released => e.released \/ e.nonce = nonce
    BY DEF Entries
  <1>2. Len(s) \in Nat /\ DOMAIN s = 1..Len(s) /\ \A i \in 1..Len(s) : s[i] \in Entries
    OBVIOUS
  <1>3. Mark(nonce, s) = [i \in 1..Len(s) |-> m(s[i])]
    BY <1>2 DEF Mark
  <1> HIDE DEF m
  <1>4. Mark(nonce, s) \in Seq(Entries)
    BY <1>1, <1>2, <1>3
  <1>5. QED
    BY <1>1, <1>2, <1>3, <1>4

-----------------------------------------------------------------------------
(* The list, the releases and the polls: their types, and that a mark or a *)
(* signature on its way to one stands for a release.                       *)

Seens == [asset : Assets, nonce : Nat]
Polls == [phase : {"idle", "asked", "reading"}, wanted : SUBSET Nat, sigs : Seq(Seens)]
Histories == [stashed : Seq(Orders), missed : SUBSET Orders,
              dismissed : SUBSET Orders, raced : BOOLEAN]

ListTypes ==
    /\ list \in Seq(Entries)
    /\ held \in [Tabs -> Seq(Entries) \cup {NoWrite}]
    /\ releases \in Seq(Seens)
    /\ poll \in [Tabs -> Polls]
    /\ history \in Histories

\* Every mark in s has a release in seen with its nonce.
Marked(s, seen) == \A i \in DOMAIN s : s[i].released => \E r \in seen : r.nonce = s[i].nonce

MarkInv ==
    /\ Marked(list, ToSet(releases))
    /\ \A t \in Tabs : ~Free(t) => Marked(held[t], ToSet(releases))
    /\ \A t \in Tabs : ToSet(poll[t].sigs) \subseteq ToSet(releases)

\* Every burn of s has been looked up.
LookedUp(s, o) == \A i \in DOMAIN s : o[s[i].burn].lookup = "done"

LookupInv ==
    /\ LookedUp(list, order)
    /\ \A t \in Tabs : ~Free(t) => LookedUp(held[t], order)

-----------------------------------------------------------------------------
(* The list that counts: what the one tab between its read and its write   *)
(* is about to write, or, when there is none, what localStorage holds.  As *)
(* long as no two tabs wrote over each other, every burn that was looked   *)
(* up is in it or has one of the causes, and an entry's position is at     *)
(* most the number of burns stashed since.  The latter is what makes a     *)
(* burn that falls out at the cap one that Cap younger burns pushed out.   *)

PushedOut(b, stashed) ==
    \E i \in DOMAIN stashed : stashed[i] = b /\ Len(stashed) - i >= Cap

Tracks(s, h, o) ==
    \A b \in Orders : o[b].lookup = "done" =>
        \/ b \in h.missed \cup h.dismissed
        \/ IsListed(b, s)
        \/ PushedOut(b, h.stashed)

Ranked(s, stashed) ==
    \A j \in DOMAIN s : \E p \in DOMAIN stashed :
        stashed[p] = s[j].burn /\ Len(stashed) - p >= j - 1

Follows(s, h, o) == Tracks(s, h, o) /\ Ranked(s, h.stashed)

TrackInv ==
    ~history.raced =>
        /\ \A t, u \in Tabs : ~Free(t) /\ ~Free(u) => t = u
        /\ (\A t \in Tabs : Free(t)) => Follows(list, history, order)
        /\ \A t \in Tabs : ~Free(t) => Follows(held[t], history, order)

ListInv == ListTypes /\ MarkInv /\ LookupInv /\ TrackInv

\* A tab reads the list and is about to write entries.
LEMMA HoldKeeps ==
    ASSUME ListInv, NEW t \in Tabs, Free(t), NEW s \in Seq(Entries), NEW h \in Histories,
           Hold(t, s, h), h.raced = history.raced, UNCHANGED <<list, releases>>,
           poll' \in [Tabs -> Polls],
           \A u \in Tabs : ToSet(poll'[u].sigs) \subseteq ToSet(releases),
           Marked(s, ToSet(releases)), LookedUp(s, order'),
           \A q \in Seq(Entries) : LookedUp(q, order) => LookedUp(q, order'),
           Follows(list, history, order) => Follows(s, h, order')
    PROVE  ListInv'
  <1>1. ListTypes /\ MarkInv /\ LookupInv /\ TrackInv
    BY DEF ListInv
  <1>2. /\ held' \in [Tabs -> Seq(Entries) \cup {NoWrite}]
        /\ held'[t] = s /\ \A u \in Tabs \ {t} : held'[u] = held[u]
    BY <1>1 DEF Hold, ListTypes
  <1>3. s # NoWrite
    BY NoWriteAssumption
  <1>4. /\ history' \in Histories
        /\ history'.stashed = h.stashed /\ history'.missed = h.missed
        /\ history'.dismissed = h.dismissed
        /\ ~history'.raced => ~history.raced /\ \A u \in Tabs \ {t} : Free(u)
    BY DEF Hold, Histories
  <1>5. ListTypes'
    BY <1>1, <1>2, <1>4 DEF ListTypes
  <1>6. MarkInv'
    BY <1>1, <1>2 DEF MarkInv, Free
  <1>7. LookupInv'
    BY <1>1, <1>2 DEF ListTypes, LookupInv, Free
  <1>8. TrackInv'
    <2>1. SUFFICES ASSUME ~history'.raced
                   PROVE  /\ \A u \in Tabs : u = t \/ held'[u] = NoWrite
                          /\ Follows(s, history', order')
      BY <1>2, <1>3 DEF TrackInv, Free
    <2>2. \A u \in Tabs : Free(u)
      BY <1>4, <2>1
    <2>3. Follows(s, h, order')
      BY <1>1, <1>4, <2>1, <2>2 DEF TrackInv
    <2>4. Follows(s, history', order')
      BY <1>4, <2>3 DEF Follows, Tracks
    <2>5. QED
      BY <1>2, <2>2, <2>4 DEF Free
  <1>9. QED
    BY <1>5, <1>6, <1>7, <1>8 DEF ListInv

\* Nobody touches the list; orders, releases, polls and the observer move on.
LEMMA QuietKeeps ==
    ASSUME ListInv, UNCHANGED <<list, held>>,
           releases' \in Seq(Seens), ToSet(releases) \subseteq ToSet(releases'),
           poll' \in [Tabs -> Polls],
           \A u \in Tabs : ToSet(poll'[u].sigs) \subseteq ToSet(releases'),
           history' \in Histories, history'.raced = history.raced,
           \A q \in Seq(Entries) : LookedUp(q, order) => LookedUp(q, order'),
           \A q \in Seq(Entries) : Follows(q, history, order) => Follows(q, history', order')
    PROVE  ListInv'
  <1>1. ListTypes /\ MarkInv /\ LookupInv /\ TrackInv
    BY DEF ListInv
  <1>2. ListTypes'
    BY <1>1 DEF ListTypes
  <1>3. \A q : Marked(q, ToSet(releases)) => Marked(q, ToSet(releases'))
    BY DEF Marked
  <1>4. MarkInv'
    BY <1>1, <1>3 DEF MarkInv, Free
  <1>5. LookupInv'
    BY <1>1 DEF ListTypes, LookupInv, Free
  <1>6. TrackInv'
    BY <1>1 DEF ListTypes, TrackInv, Free
  <1>7. QED
    BY <1>2, <1>4, <1>5, <1>6 DEF ListInv

\* A tab writes the list it has computed.
LEMMA WriteKeeps ==
    ASSUME ListInv, NEW t \in Tabs, Write(t)
    PROVE  ListInv'
  <1>1. ListTypes /\ MarkInv /\ LookupInv /\ TrackInv
    BY DEF ListInv
  <1>2. /\ ~Free(t) /\ list' = held[t]
        /\ held' = [held EXCEPT ![t] = NoWrite]
        /\ UNCHANGED <<order, releases, poll, history>>
    BY DEF Write
  <1>3. /\ held' \in [Tabs -> Seq(Entries) \cup {NoWrite}]
        /\ held'[t] = NoWrite /\ \A u \in Tabs \ {t} : held'[u] = held[u]
    BY <1>1, <1>2 DEF ListTypes
  <1>4. ListTypes'
    BY <1>1, <1>2, <1>3 DEF ListTypes, Free
  <1>5. MarkInv'
    BY <1>1, <1>2, <1>3 DEF MarkInv, Free
  <1>6. LookupInv'
    BY <1>1, <1>2, <1>3 DEF LookupInv, Free
  <1>7. TrackInv'
    BY <1>1, <1>2, <1>3 DEF TrackInv, Free
  <1>8. QED
    BY <1>4, <1>5, <1>6, <1>7 DEF ListInv

-----------------------------------------------------------------------------
(* The actions.                                                            *)

\* An order whose lookup was done stays so, and no other becomes so.
SameLookups == \A c \in Orders : order'[c].lookup = "done" <=> order[c].lookup = "done"

\* Entries are about orders.
LEMMA BurnsAreOrders ==
    ASSUME NEW q \in Seq(Entries), NEW i \in DOMAIN q
    PROVE  q[i].burn \in Orders
  <1>1. ASSUME NEW S, NEW p \in Seq(S), NEW j \in DOMAIN p PROVE p[j] \in S
    OBVIOUS
  <1>2. q[i] \in Entries
    BY <1>1
  <1>3. QED
    BY <1>2 DEF Entries

\* Orders matter to the lists only by whether they were looked up.
LEMMA SameLookupsFollow ==
    ASSUME SameLookups, UNCHANGED history
    PROVE  \A q \in Seq(Entries) :
              /\ LookedUp(q, order) => LookedUp(q, order')
              /\ Follows(q, history, order) => Follows(q, history', order')
  <1>1. ASSUME NEW q \in Seq(Entries), NEW i \in DOMAIN q PROVE q[i].burn \in Orders
    BY BurnsAreOrders
  <1>2. \A q \in Seq(Entries) : LookedUp(q, order) => LookedUp(q, order')
    BY <1>1 DEF SameLookups, LookedUp
  <1>3. \A q : Follows(q, history, order) => Follows(q, history', order')
    BY DEF SameLookups, Follows, Tracks
  <1>4. QED
    BY <1>2, <1>3

\* What leaves the list, the polls and what was released alone keeps ListInv.
LEMMA ElsewhereKeeps ==
    ASSUME ListInv, SameLookups, UNCHANGED <<listVars, releases, poll>>
    PROVE  ListInv'
  <1>1. UNCHANGED <<list, held, history>>
    BY DEF listVars
  <1>2. /\ releases' \in Seq(Seens) /\ poll' \in [Tabs -> Polls] /\ history' \in Histories
        /\ \A u \in Tabs : ToSet(poll'[u].sigs) \subseteq ToSet(releases')
    BY <1>1 DEF ListInv, ListTypes, MarkInv
  <1>3. QED
    BY <1>1, <1>2, SameLookupsFollow, QuietKeeps

\* Ordering and landing come before the list.
LEMMA OrderKeeps ==
    ASSUME OrderInv, ListInv, NEW b \in Orders,
           \/ \E t \in Tabs, form \in Forms : Burn(t, b, form) \/ Deposit(t, b, form)
           \/ BurnLands(b) \/ BurnFails(b)
    PROVE  ListInv'
  <1>1. UNCHANGED <<listVars, releases, poll>>
    BY DEF Burn, Deposit, BurnLands, BurnFails
  <1>2. DOMAIN order = Orders
    BY DEF OrderInv
  <1>3. CASE \E t \in Tabs, form \in Forms : Burn(t, b, form) \/ Deposit(t, b, form)
    <2>1. PICK t \in Tabs, form \in Forms : Burn(t, b, form) \/ Deposit(t, b, form)
      BY <1>3
    <2>2. order[b] = NoOrder
      BY <2>1 DEF Burn, Deposit, OrderInv, Burns, Landeds, Deposits
    <2>3. /\ \A c \in Orders \ {b} : order'[c] = order[c]
          /\ order'[b].lookup \in Tabs \cup {"none"}
      <3>1. CASE Burn(t, b, form)
        BY <1>2, <3>1 DEF Burn
      <3>2. CASE Deposit(t, b, form)
        BY <1>2, <3>2 DEF Deposit
      <3>3. QED
        BY <2>1, <3>1, <3>2
    <2>4. "done" \notin Tabs
      BY BridgeAssumption
    <2>5. SameLookups
      BY <1>2, <2>2, <2>3, <2>4 DEF SameLookups, NoOrder
    <2>6. QED
      BY <1>1, <2>5, ElsewhereKeeps
  <1>4. CASE BurnLands(b) \/ BurnFails(b)
    <2>1. order[b] \in Burns
      BY <1>4 DEF BurnLands, BurnFails, OrderInv, Landeds, Deposits, NoOrder
    <2>2. /\ \A c \in Orders \ {b} : order'[c] = order[c]
          /\ order'[b].lookup = order[b].lookup
      <3>1. CASE BurnLands(b)
        BY <1>2, <3>1 DEF BurnLands
      <3>2. CASE BurnFails(b)
        BY <1>2, <2>1, <3>2 DEF BurnFails, Burns
      <3>3. QED
        BY <1>4, <3>1, <3>2
    <2>3. SameLookups
      BY <1>2, <2>2 DEF SameLookups
    <2>4. QED
      BY <1>1, <2>3, ElsewhereKeeps
  <1>5. QED
    BY <1>3, <1>4

\* What a tab shows of its accounts is no part of the pending list.
LEMMA PageKeeps ==
    ASSUME ListInv, NEW t, NEW w, NEW r, NEW looked,
           ChooseWallet(t, w) \/ EffectAnswered(r, looked)
    PROVE  ListInv'
  <1>1. UNCHANGED <<listVars, releases, poll, order>>
    BY DEF ChooseWallet, EffectAnswered
  <1>2. QED
    BY <1>1, ElsewhereKeeps DEF SameLookups

\* A release on the other chain is new to every poll.
LEMMA ReleaseKeeps ==
    ASSUME OrderInv, NonceInv, ListInv, (\E b \in Orders : Release(b)) \/ ForeignSteps
    PROVE  ListInv'
  <1>1. UNCHANGED <<list, held, history, order, poll>>
    BY DEF Release, ForeignSteps, ForeignBurn, ForeignRelease, listVars
  <1>2. CASE \E a \in Assets : ForeignBurn(a)
    <2>1. UNCHANGED releases
      BY <1>2 DEF ForeignBurn
    <2>2. QED
      BY <1>1, <2>1, ElsewhereKeeps DEF listVars, SameLookups
  <1>3. CASE (\E b \in Orders : Release(b))
                \/ \E a \in Assets : \E n \in 1..lastNonce[a] : ForeignRelease(a, n)
    <2>1. PICK r \in Seens : releases' = <<r>> \o releases
      <3>1. CASE \E a \in Assets : \E n \in 1..lastNonce[a] : ForeignRelease(a, n)
        <4>1. PICK a \in Assets : \E n \in 1..lastNonce[a] : ForeignRelease(a, n)
          BY <3>1
        <4>2. lastNonce[a] \in Nat
          BY DEF NonceInv
        <4>3. PICK n \in 1..lastNonce[a] : ForeignRelease(a, n)
          BY <4>1
        <4>4. [asset |-> a, nonce |-> n] \in Seens
          BY <4>2 DEF Seens
        <4>5. QED
          BY <4>3, <4>4 DEF ForeignRelease
      <3>2. CASE \E b \in Orders : Release(b)
        <4>1. PICK b \in Orders : Release(b)
          BY <3>2
        <4>2. order[b] \in Landeds
          BY <4>1 DEF Release, OrderInv, Burns, Deposits, NoOrder
        <4>3. [asset |-> order[b].asset, nonce |-> order[b].nonce] \in Seens
          BY <4>2 DEF Landeds, Seens
        <4>4. QED
          BY <4>1, <4>3 DEF Release
      <3>3. QED
        BY <1>3, <3>1, <3>2
    <2>2. releases' \in Seq(Seens) /\ ToSet(releases) \subseteq ToSet(releases')
      <3>1. ASSUME NEW S, NEW x \in S, NEW q \in Seq(S)
            PROVE  /\ <<x>> \o q \in Seq(S)
                   /\ \A i \in DOMAIN q : i + 1 \in DOMAIN (<<x>> \o q)
                        /\ (<<x>> \o q)[i + 1] = q[i]
        OBVIOUS
      <3>2. releases \in Seq(Seens)
        BY DEF ListInv, ListTypes
      <3>3. /\ releases' \in Seq(Seens)
            /\ \A i \in DOMAIN releases : /\ i + 1 \in DOMAIN releases'
                                         /\ releases'[i + 1] = releases[i]
        BY <2>1, <3>1, <3>2
      <3>4. QED
        BY <3>3 DEF ToSet
    <2>3. /\ poll' \in [Tabs -> Polls] /\ history' \in Histories
          /\ \A u \in Tabs : ToSet(poll'[u].sigs) \subseteq ToSet(releases')
      BY <1>1, <2>2 DEF ListInv, ListTypes, MarkInv
    <2>4. SameLookups
      BY <1>1 DEF SameLookups
    <2>5. QED
      BY <1>1, <2>2, <2>3, <2>4, SameLookupsFollow, QuietKeeps
  <1>4. QED
    BY <1>2, <1>3 DEF ForeignSteps

\* A burn that is looked up goes to the front of the list.
LEMMA AddedFollows ==
    ASSUME NEW b \in Orders, NEW s \in Seq(Entries), Entry(b) \in Entries, Entry(b).burn = b,
           ~IsListed(b, s), NEW h \in Histories, Follows(s, h, order),
           \A c \in Orders : order'[c].lookup = "done" => c = b \/ order[c].lookup = "done"
    PROVE  Follows(Added(b, s), [h EXCEPT !.stashed = Append(@, b)], order')
  <1> DEFINE new == Added(b, s)
             old == h.stashed
             more == Append(old, b)
             g == [h EXCEPT !.stashed = more]
  <1>1. /\ new \in Seq(Entries)
        /\ 1 \in DOMAIN new /\ new[1] = Entry(b)
        /\ \A j \in DOMAIN new : j # 1 => j - 1 \in DOMAIN s /\ new[j] = s[j - 1]
        /\ \A j \in DOMAIN s : j + 1 \in DOMAIN new \/ j >= Cap
    BY AddedShifts
  <1>2. /\ old \in Seq(Orders) /\ Len(old) \in Nat /\ DOMAIN old = 1..Len(old)
        /\ Len(more) = Len(old) + 1 /\ DOMAIN more = 1..(Len(old) + 1)
        /\ more[Len(old) + 1] = b /\ \A i \in DOMAIN old : more[i] = old[i]
    BY DEF Histories
  <1>3. g.stashed = more /\ g.missed = h.missed /\ g.dismissed = h.dismissed
    BY DEF Histories
  <1>4. DOMAIN s = 1..Len(s) /\ Len(s) \in Nat /\ DOMAIN new = 1..Len(new) /\ Len(new) \in Nat
    BY <1>1
  <1>5. Cap \in Nat
    BY BridgeAssumption
  <1> HIDE DEF new, old, more, g
  <1>6. \A j \in DOMAIN s : \E p \in DOMAIN old : old[p] = s[j].burn /\ Len(old) - p >= j - 1
    BY DEF Follows, Ranked, old
  <1>7. Ranked(new, more)
    <2>1. ASSUME NEW j \in DOMAIN new
          PROVE  \E p \in DOMAIN more : more[p] = new[j].burn /\ Len(more) - p >= j - 1
      <3>1. CASE j = 1
        <4>1. new[j].burn = b
          BY <1>1, <3>1
        <4>2. Len(old) + 1 \in DOMAIN more /\ Len(more) - (Len(old) + 1) >= j - 1
          BY <1>2, <3>1
        <4>3. QED
          BY <1>2, <4>1, <4>2
      <3>2. CASE j # 1
        <4>1. j - 1 \in DOMAIN s /\ new[j] = s[j - 1]
          BY <1>1, <3>2
        <4>2. PICK p \in DOMAIN old : old[p] = s[j - 1].burn /\ Len(old) - p >= j - 1 - 1
          BY <1>6, <4>1
        <4>3. p \in DOMAIN more /\ more[p] = new[j].burn /\ Len(more) - p >= j - 1
          BY <1>2, <1>4, <4>1, <4>2
        <4>4. QED
          BY <4>3
      <3>3. QED
        BY <3>1, <3>2
    <2>2. QED
      BY <2>1 DEF Ranked
  <1>8. \A c : PushedOut(c, old) => PushedOut(c, more)
    BY <1>2, <1>5 DEF PushedOut
  <1>9. \A c : IsListed(c, s) => IsListed(c, new) \/ PushedOut(c, more)
    <2>1. SUFFICES ASSUME NEW c, NEW j \in DOMAIN s, s[j].burn = c, j + 1 \notin DOMAIN new
                   PROVE  PushedOut(c, more)
      <3>1. \A j \in DOMAIN s : j + 1 \in DOMAIN new => new[j + 1] = s[j]
        BY <1>1, <1>4
      <3>2. QED
        BY <2>1, <3>1 DEF IsListed
    <2>2. j >= Cap
      BY <1>1, <2>1
    <2>3. PICK p \in DOMAIN old : old[p] = c /\ Len(old) - p >= j - 1
      BY <1>6, <2>1
    <2>4. p \in DOMAIN more /\ more[p] = c /\ Len(more) - p >= Cap
      BY <1>2, <1>4, <1>5, <2>2, <2>3
    <2>5. QED
      BY <2>4 DEF PushedOut
  <1>10. IsListed(b, new)
    BY <1>1 DEF IsListed
  <1>11. Tracks(new, g, order')
    <2>1. SUFFICES ASSUME NEW c \in Orders, c # b, order[c].lookup = "done"
                   PROVE  \/ c \in h.missed \cup h.dismissed
                          \/ IsListed(c, new) \/ PushedOut(c, more)
      BY <1>3, <1>10 DEF Tracks
    <2>2. c \in h.missed \cup h.dismissed \/ IsListed(c, s) \/ PushedOut(c, old)
      BY <2>1 DEF Follows, Tracks, old
    <2>3. QED
      BY <1>8, <1>9, <2>2
  <1>12. Follows(new, g, order')
    BY <1>3, <1>7, <1>11 DEF Follows
  <1>13. QED
    BY <1>12 DEF new, g, more, old

\* A burn is listed first, and pushes the last one out if the list is full.
LEMMA StashKeeps ==
    ASSUME OrderInv, ListInv, NEW b \in Orders, Stash(b)
    PROVE  ListInv'
  <1> DEFINE t == order[b].lookup
  <1>1. t \in Tabs /\ Free(t) /\ order[b].phase = "landed" /\ t # "done"
    BY BridgeAssumption DEF Stash
  <1>2. /\ order' = [order EXCEPT ![b].lookup = "done"]
        /\ UNCHANGED <<list, releases, poll>>
    BY DEF Stash
  <1>3. ListTypes /\ MarkInv /\ LookupInv
    BY DEF ListInv
  <1>4. ~Listed(b)
    BY <1>1, <1>3 DEF LookupInv, LookedUp, Listed, IsListed
  <1> DEFINE h == [history EXCEPT !.stashed = Append(@, b)]
  <1>5. Hold(t, Added(b, list), h)
    BY <1>4 DEF Stash
  <1>6. /\ Entry(b) \in Entries /\ Entry(b).burn = b /\ ~Entry(b).released
        /\ ~IsListed(b, list) /\ list \in Seq(Entries)
    BY <1>1, <1>3, <1>4, EntryIsEntry DEF Listed, ListTypes
  <1> DEFINE new == Added(b, list)
  <1>7. /\ new \in Seq(Entries)
        /\ 1 \in DOMAIN new /\ new[1] = Entry(b)
        /\ \A j \in DOMAIN new : j # 1 => j - 1 \in DOMAIN list /\ new[j] = list[j - 1]
    BY <1>6, AddedShifts
  <1>8. history \in Histories /\ h \in Histories /\ h.raced = history.raced
    <2>1. ASSUME NEW q \in Seq(Orders) PROVE Append(q, b) \in Seq(Orders)
      OBVIOUS
    <2>2. QED
      BY <1>3, <2>1 DEF ListTypes, Histories
  <1>9. /\ \A c \in Orders : order[c].lookup = "done" => order'[c].lookup = "done"
        /\ \A c \in Orders : order'[c].lookup = "done" => c = b \/ order[c].lookup = "done"
        /\ order'[b].lookup = "done"
    <2>1. order[b] \in Landeds /\ DOMAIN order = Orders
      BY <1>1 DEF OrderInv, Burns, Deposits, NoOrder
    <2>2. QED
      BY <1>2, <2>1 DEF Landeds
  <1> HIDE DEF t, new, h
  <1>10. \A q \in Seq(Entries) : LookedUp(q, order) => LookedUp(q, order')
    <2>1. ASSUME NEW q \in Seq(Entries), NEW i \in DOMAIN q PROVE q[i].burn \in Orders
      BY BurnsAreOrders
    <2>2. QED
      BY <1>9, <2>1 DEF LookedUp
  <1>11. LookedUp(new, order')
    <2>1. LookedUp(list, order')
      BY <1>3, <1>6, <1>10 DEF LookupInv
    <2>2. QED
      BY <1>6, <1>7, <1>9, <2>1 DEF LookedUp
  <1>12. Marked(new, ToSet(releases))
    BY <1>3, <1>6, <1>7 DEF MarkInv, Marked
  <1>13. Follows(list, history, order) => Follows(new, h, order')
    BY <1>6, <1>8, <1>9, AddedFollows DEF new, h
  <1>14. /\ poll' \in [Tabs -> Polls]
         /\ \A u \in Tabs : ToSet(poll'[u].sigs) \subseteq ToSet(releases)
    BY <1>2, <1>3 DEF ListTypes, MarkInv
  <1>15. Hold(t, new, h) /\ t \in Tabs /\ Free(t)
    BY <1>1, <1>5 DEF t, new, h
  <1>16. QED
    BY <1>2, <1>7, <1>8, <1>10, <1>11, <1>12, <1>13, <1>14, <1>15, HoldKeeps

\* A lookup that comes too early or fails leaves its mark with the observer.
LEMMA MissKeeps ==
    ASSUME OrderInv, ListInv, NEW b \in Orders, StashMisses(b)
    PROVE  ListInv'
  <1>1. order[b].lookup \in Tabs /\ order' = [order EXCEPT ![b].lookup = "done"]
    BY DEF StashMisses
  <1>2. /\ history' = [history EXCEPT !.missed = @ \cup {b}]
        /\ UNCHANGED <<releases, poll, list, held>>
    BY DEF StashMisses
  <1>3. ListTypes /\ MarkInv /\ LookupInv
    BY DEF ListInv
  <1>4. /\ history' \in Histories /\ history'.raced = history.raced
        /\ history'.missed = history.missed \cup {b}
        /\ history'.dismissed = history.dismissed /\ history'.stashed = history.stashed
    BY <1>2, <1>3 DEF ListTypes, Histories
  <1>5. /\ \A c \in Orders : order[c].lookup = "done" => order'[c].lookup = "done"
        /\ \A c \in Orders : order'[c].lookup = "done" => c = b \/ order[c].lookup = "done"
    <2>1. order[b] \in Burns \cup Landeds /\ DOMAIN order = Orders
      BY <1>1, LookedUpIsBurn DEF OrderInv
    <2>2. QED
      BY <1>1, <2>1 DEF Landeds, Burns
  <1>6. \A q \in Seq(Entries) : LookedUp(q, order) => LookedUp(q, order')
    <2>1. ASSUME NEW q \in Seq(Entries), NEW i \in DOMAIN q PROVE q[i].burn \in Orders
      BY BurnsAreOrders
    <2>2. QED
      BY <1>5, <2>1 DEF LookedUp
  <1>7. \A q : Follows(q, history, order) => Follows(q, history', order')
    BY <1>4, <1>5 DEF Follows, Tracks
  <1>8. /\ releases' \in Seq(Seens) /\ poll' \in [Tabs -> Polls]
        /\ \A u \in Tabs : ToSet(poll'[u].sigs) \subseteq ToSet(releases')
    BY <1>2, <1>3 DEF ListTypes, MarkInv
  <1>9. QED
    BY <1>2, <1>4, <1>6, <1>7, <1>8, QuietKeeps

\* Dismissing a burn takes its entries out and leaves the others in order.
LEMMA RemoveKeeps ==
    ASSUME ListInv, NEW t \in Tabs, NEW b \in Orders, RemovePending(t, b)
    PROVE  ListInv'
  <1> DEFINE new == Dropped(b, list)
             h == [history EXCEPT !.dismissed = @ \cup {b}]
  <1>1. /\ Free(t) /\ Hold(t, new, h)
        /\ UNCHANGED <<order, releases, poll, list>>
    BY DEF RemovePending
  <1>2. ListTypes /\ MarkInv /\ LookupInv
    BY DEF ListInv
  <1>3. /\ h \in Histories /\ h.raced = history.raced
        /\ h.dismissed = history.dismissed \cup {b}
        /\ h.missed = history.missed /\ h.stashed = history.stashed
    BY <1>2 DEF ListTypes, Histories
  <1>4. list \in Seq(Entries) /\ DOMAIN list = 1..Len(list) /\ Len(list) \in Nat
    BY <1>2 DEF ListTypes
  <1>5. new \in Seq(Entries) /\ Remains(new, Len(list), b, list)
    BY <1>4, DroppedRemains
  <1> HIDE DEF new, h
  <1>6. Marked(new, ToSet(releases)) /\ LookedUp(new, order)
    <2>1. \A k \in DOMAIN new : \E j \in DOMAIN list : new[k] = list[j]
      BY <1>4, <1>5 DEF Remains
    <2>2. Marked(list, ToSet(releases)) /\ LookedUp(list, order)
      BY <1>2 DEF MarkInv, LookupInv
    <2>3. Marked(new, ToSet(releases))
      BY <2>1, <2>2 DEF Marked
    <2>4. LookedUp(new, order)
      BY <2>1, <2>2 DEF LookedUp
    <2>5. QED
      BY <2>3, <2>4
  <1>7. \A c : c # b /\ IsListed(c, list) => IsListed(c, new)
    BY <1>4, <1>5 DEF Remains, IsListed
  <1>8. ASSUME Follows(list, history, order) PROVE Follows(new, h, order')
    <2>1. Tracks(new, h, order')
      BY <1>1, <1>3, <1>7, <1>8 DEF Follows, Tracks
    <2>2. Ranked(new, h.stashed)
      <3>1. SUFFICES ASSUME NEW k \in DOMAIN new
                     PROVE  \E p \in DOMAIN history.stashed :
                               /\ history.stashed[p] = new[k].burn
                               /\ Len(history.stashed) - p >= k - 1
        BY <1>3 DEF Ranked
      <3>2. PICK j \in 1..Len(list) : k <= j /\ new[k] = list[j]
        BY <1>5 DEF Remains
      <3>3. PICK p \in DOMAIN history.stashed : /\ history.stashed[p] = list[j].burn
                                                /\ Len(history.stashed) - p >= j - 1
        BY <1>4, <1>8, <3>2 DEF Follows, Ranked
      <3>4. Len(history.stashed) \in Nat /\ p \in Nat /\ k \in Nat
        BY <1>2, <1>5, <3>3 DEF ListTypes, Histories
      <3>5. QED
        BY <3>2, <3>3, <3>4
    <2>3. QED
      BY <2>1, <2>2 DEF Follows
  <1>9. /\ poll' \in [Tabs -> Polls]
        /\ \A u \in Tabs : ToSet(poll'[u].sigs) \subseteq ToSet(releases)
    BY <1>1, <1>2 DEF ListTypes, MarkInv
  <1>10. QED
    BY <1>1, <1>3, <1>5, <1>6, <1>8, <1>9, HoldKeeps

\* The latest entries of a sequence are entries of it.
LEMMA LatestOfReleases ==
    ASSUME NEW S, NEW q \in Seq(S)
    PROVE  Latest(q) \in Seq(S) /\ ToSet(Latest(q)) \subseteq ToSet(q)
  <1> DEFINE m == Min({Len(q), Window})
  <1>1. Len(q) \in Nat /\ Window \in Nat
    BY BridgeAssumption
  <1>2. m \in Nat /\ m <= Len(q)
    BY <1>1 DEF Min
  <1>3. Latest(q) = SubSeq(q, 1, m)
    BY DEF Latest
  <1> HIDE DEF m
  <1>4. /\ SubSeq(q, 1, m) \in Seq(S)
        /\ \A i \in DOMAIN SubSeq(q, 1, m) : i \in DOMAIN q /\ SubSeq(q, 1, m)[i] = q[i]
    BY <1>1, <1>2
  <1>5. QED
    BY <1>3, <1>4 DEF ToSet

\* A poll starts, is answered, ends or fails: its signatures are releases.
LEMMA PollKeeps ==
    ASSUME ListInv, NEW t \in Tabs,
           PollStarts(t) \/ PollAnswered(t) \/ PollEnds(t) \/ PollFails(t)
    PROVE  ListInv'
  <1>1. UNCHANGED <<list, held, history, order, releases>>
    BY DEF PollStarts, PollAnswered, PollEnds, PollFails, listVars
  <1>2. ListTypes /\ MarkInv
    BY DEF ListInv
  <1>3. PICK p \in Polls : /\ poll' = [poll EXCEPT ![t] = p]
                            /\ ToSet(p.sigs) \subseteq ToSet(releases)
    <2>1. <<>> \in Seq(Seens) /\ ToSet(<<>>) = {}
      BY DEF ToSet
    <2>2. CASE PollStarts(t)
      <3> DEFINE p == [phase |-> "asked", sigs |-> <<>>,
                       wanted |-> {list[i].nonce : i \in Unreleased}]
      <3>1. \A i \in Unreleased : list[i].nonce \in Nat
        <4>1. ASSUME NEW S, NEW q \in Seq(S), NEW i \in DOMAIN q PROVE q[i] \in S
          OBVIOUS
        <4>2. \A i \in Unreleased : list[i] \in Entries
          BY <1>2, <4>1 DEF Unreleased, ListTypes
        <4>3. QED
          BY <4>2 DEF Entries
      <3>2. p \in Polls /\ p.sigs = <<>> /\ poll' = [poll EXCEPT ![t] = p]
        BY <2>1, <2>2, <3>1 DEF Polls, PollStarts
      <3> HIDE DEF p
      <3>3. QED
        BY <2>1, <3>2
    <2>3. CASE PollAnswered(t)
      <3> DEFINE p == [poll[t] EXCEPT !.phase = "reading", !.sigs = Latest(releases)]
      <3>1. poll' = [poll EXCEPT ![t] = p]
        BY <2>3 DEF PollAnswered
      <3>2. Latest(releases) \in Seq(Seens) /\ ToSet(Latest(releases)) \subseteq ToSet(releases)
        BY <1>2, LatestOfReleases DEF ListTypes
      <3>3. p \in Polls /\ p.sigs = Latest(releases)
        BY <1>2, <3>2 DEF ListTypes, Polls
      <3> HIDE DEF p
      <3>4. QED
        BY <3>1, <3>2, <3>3
    <2>4. CASE PollEnds(t) \/ PollFails(t)
      <3>1. IdlePoll \in Polls /\ IdlePoll.sigs = <<>>
        BY <2>1 DEF IdlePoll, Polls
      <3>2. poll' = [poll EXCEPT ![t] = IdlePoll]
        BY <2>4 DEF PollEnds, PollFails
      <3>3. QED
        BY <2>1, <3>1, <3>2
    <2>5. QED
      BY <2>2, <2>3, <2>4
  <1>4. /\ poll' \in [Tabs -> Polls]
        /\ \A u \in Tabs : ToSet(poll'[u].sigs) \subseteq ToSet(releases)
    BY <1>2, <1>3 DEF ListTypes, MarkInv
  <1>5. releases' \in Seq(Seens) /\ history' \in Histories /\ SameLookups
    BY <1>1, <1>2 DEF ListTypes, SameLookups
  <1>6. QED
    BY <1>1, <1>4, <1>5, SameLookupsFollow, QuietKeeps

\* A poll reads one transaction and marks what has its nonce.
LEMMA ReadKeeps ==
    ASSUME ListInv, NEW t \in Tabs, PollReads(t)
    PROVE  ListInv'
  <1> DEFINE ev == Head(poll[t].sigs)
  <1>1. ListTypes /\ MarkInv /\ LookupInv
    BY DEF ListInv
  <1>2. Free(t) /\ poll[t].sigs # <<>> /\ UNCHANGED <<order, releases, list>>
    BY DEF PollReads
  <1>3. poll[t] \in Polls /\ poll[t].sigs \in Seq(Seens)
    BY <1>1 DEF ListTypes, Polls
  <1>4. /\ Tail(poll[t].sigs) \in Seq(Seens)
        /\ ev \in ToSet(poll[t].sigs)
        /\ ToSet(Tail(poll[t].sigs)) \subseteq ToSet(poll[t].sigs)
    <2>1. ASSUME NEW S, NEW q \in Seq(S), q # <<>>
          PROVE  /\ Tail(q) \in Seq(S) /\ 1 \in DOMAIN q /\ Head(q) = q[1]
                 /\ \A i \in DOMAIN Tail(q) : i + 1 \in DOMAIN q /\ Tail(q)[i] = q[i + 1]
      BY <2>1
    <2> DEFINE q == poll[t].sigs
    <2> HIDE DEF q
    <2>2. /\ Tail(q) \in Seq(Seens) /\ 1 \in DOMAIN q /\ Head(q) = q[1]
          /\ \A i \in DOMAIN Tail(q) : i + 1 \in DOMAIN q /\ Tail(q)[i] = q[i + 1]
      BY <1>2, <1>3, <2>1 DEF q
    <2>3. Head(q) \in ToSet(q) /\ ToSet(Tail(q)) \subseteq ToSet(q)
      BY <2>2 DEF ToSet
    <2>4. QED
      BY <2>2, <2>3 DEF q
  <1>5. ev \in ToSet(releases)
    BY <1>1, <1>4 DEF MarkInv
  <1> DEFINE hit == ev.nonce \in poll[t].wanted
             p == [poll[t] EXCEPT !.sigs = Tail(@), !.wanted = IF hit THEN @ \ {ev.nonce} ELSE @]
             new == Mark(ev.nonce, list)
  <1>6. poll' = [poll EXCEPT ![t] = p]
    BY DEF PollReads
  <1>7. p \in Polls /\ p.sigs = Tail(poll[t].sigs)
    BY <1>3, <1>4 DEF Polls
  <1>8. Hold(t, new, history) \/ UNCHANGED <<held, history>>
    BY DEF PollReads
  <1> HIDE DEF ev, p, new, hit
  <1>9. /\ poll' \in [Tabs -> Polls]
        /\ \A u \in Tabs : ToSet(poll'[u].sigs) \subseteq ToSet(releases)
    BY <1>1, <1>4, <1>6, <1>7 DEF ListTypes, MarkInv
  <1>10. SameLookups /\ history \in Histories /\ list \in Seq(Entries)
    BY <1>1, <1>2 DEF SameLookups, ListTypes
  <1>11. CASE Hold(t, new, history)
    <2>1. /\ new \in Seq(Entries) /\ DOMAIN new = DOMAIN list
          /\ \A i \in DOMAIN list :
                /\ new[i].burn = list[i].burn /\ new[i].nonce = list[i].nonce
                /\ new[i].released => list[i].released \/ list[i].nonce = ev.nonce
      BY <1>10, MarkMarks DEF new
    <2>2. Marked(new, ToSet(releases))
      BY <1>1, <1>5, <2>1 DEF MarkInv, Marked
    <2>3. LookedUp(new, order')
      BY <1>1, <1>2, <2>1 DEF LookupInv, LookedUp
    <2>4. Follows(list, history, order) => Follows(new, history, order')
      BY <1>2, <2>1 DEF Follows, Tracks, Ranked, IsListed
    <2>5. QED
      BY <1>2, <1>9, <1>10, <1>11, <2>1, <2>2, <2>3, <2>4, HoldKeeps
  <1>12. CASE UNCHANGED <<held, history>>
    <2>1. releases' \in Seq(Seens) /\ history' \in Histories
      BY <1>1, <1>2, <1>12 DEF ListTypes
    <2>2. QED
      BY <1>2, <1>9, <1>10, <1>12, <2>1, SameLookupsFollow, QuietKeeps
  <1>13. QED
    BY <1>8, <1>11, <1>12

\* The list that earlier sessions left.
LEMMA InitList == BridgeInit => ListInv
  <1> SUFFICES ASSUME BridgeInit PROVE ListInv
    OBVIOUS
  <1> DEFINE earlier == budget.earlier
             Of(b) == {i \in DOMAIN earlier : earlier[i].order = b}
             N == Len(earlier)
             Past == [order : Orders, asset : Assets, nonce : Nat \ {0}]
  <1>1. earlier \in Seq(Past)
    BY BridgeAssumption DEF BridgeInit
  <1> HIDE DEF earlier
  <1>2. N \in Nat /\ DOMAIN earlier = 1..N /\ \A i \in 1..N : earlier[i] \in Past
    <2>1. ASSUME NEW S, NEW q \in Seq(S)
          PROVE  Len(q) \in Nat /\ DOMAIN q = 1..Len(q) /\ \A i \in 1..Len(q) : q[i] \in S
      OBVIOUS
    <2> HIDE DEF Past
    <2>2. QED
      BY <1>1, <2>1
  <1>3. /\ list = Reverse([i \in DOMAIN earlier |-> EarlierEntry(earlier[i])])
        /\ history = [stashed |-> [i \in DOMAIN earlier |-> earlier[i].order],
                      missed |-> {}, dismissed |-> {}, raced |-> FALSE]
        /\ order = [b \in Orders |-> IF Of(b) = {} THEN NoOrder
                      ELSE EarlierOrder(earlier[CHOOSE i \in Of(b) : TRUE])]
        /\ releases = <<>> /\ held = [t \in Tabs |-> NoWrite] /\ poll = [t \in Tabs |-> IdlePoll]
    BY DEF BridgeInit, earlier
  <1> HIDE DEF N
  <1>4. \A i \in 1..N : /\ earlier[i].order \in Orders /\ EarlierEntry(earlier[i]) \in Entries
                        /\ EarlierEntry(earlier[i]).burn = earlier[i].order
                        /\ ~EarlierEntry(earlier[i]).released
    BY <1>2 DEF EarlierEntry, Entries
  <1> DEFINE entries == [i \in 1..N |-> EarlierEntry(earlier[i])]
  <1>5. entries \in Seq(Entries) /\ Len(entries) = N
    BY <1>2, <1>4
  <1>6. /\ list \in Seq(Entries) /\ DOMAIN list = 1..N
        /\ \A j \in 1..N : N - j + 1 \in 1..N /\ list[j] = EarlierEntry(earlier[N - j + 1])
    <2>1. list = [j \in 1..N |-> entries[(N - j) + 1]]
      BY <1>2, <1>3, <1>5 DEF Reverse
    <2>2. \A j \in 1..N : N - j + 1 \in 1..N
      BY <1>2
    <2>3. \A j \in 1..N : list[j] = EarlierEntry(earlier[N - j + 1])
      BY <2>1, <2>2
    <2>4. list \in Seq(Entries) /\ DOMAIN list = 1..N
      <3>1. \A j \in 1..N : list[j] \in Entries
        BY <1>4, <2>2, <2>3
      <3>2. list = [j \in 1..N |-> list[j]]
        BY <2>1
      <3> HIDE DEF entries
      <3>3. QED
        BY <1>2, <3>1, <3>2
    <2>5. QED
      BY <2>2, <2>3, <2>4
  <1>7. /\ history.stashed \in Seq(Orders) /\ Len(history.stashed) = N
        /\ \A i \in 1..N : history.stashed[i] = earlier[i].order
    BY <1>2, <1>3, <1>4
  <1>8. history \in Histories /\ DOMAIN history.stashed = 1..N /\ ~history.raced
    BY <1>2, <1>3, <1>7 DEF Histories
  <1> HIDE DEF entries
  <1>9. ListTypes
    <2>1. IdlePoll \in Polls /\ <<>> \in Seq(Seens)
      BY DEF IdlePoll, Polls
    <2>2. QED
      BY <1>3, <1>6, <1>8, <2>1 DEF ListTypes
  <1>10. MarkInv
    <2>1. Marked(list, ToSet(releases))
      BY <1>4, <1>6 DEF Marked
    <2>2. \A t \in Tabs : Free(t) /\ ToSet(poll[t].sigs) = {}
      BY <1>3 DEF Free, IdlePoll, ToSet
    <2>3. QED
      BY <2>1, <2>2 DEF MarkInv
  <1>11. \A b \in Orders : /\ order[b].lookup = "done" => \E i \in 1..N : earlier[i].order = b
                           /\ (\E i \in 1..N : earlier[i].order = b) => order[b].lookup = "done"
    <2>1. \A e : EarlierOrder(e).lookup = "done"
      BY DEF EarlierOrder
    <2>2. QED
      BY <1>2, <1>3, <2>1 DEF NoOrder
  <1>12. LookupInv
    <2>1. LookedUp(list, order)
      BY <1>4, <1>6, <1>11 DEF LookedUp
    <2>2. QED
      BY <1>3, <2>1 DEF LookupInv, Free
  <1>13. Follows(list, history, order)
    <2>1. \A i \in 1..N : N - i + 1 \in 1..N /\ N - (N - i + 1) + 1 = i
      BY <1>2
    <2>2. \A b \in Orders : order[b].lookup = "done" => IsListed(b, list)
      <3>1. SUFFICES ASSUME NEW i \in 1..N PROVE IsListed(earlier[i].order, list)
        BY <1>11
      <3>2. list[N - i + 1].burn = earlier[i].order
        BY <1>4, <1>6, <2>1
      <3>3. QED
        BY <1>6, <2>1, <3>2 DEF IsListed
    <2>3. Ranked(list, history.stashed)
      <3>1. SUFFICES ASSUME NEW j \in 1..N
                     PROVE  \E p \in 1..N : history.stashed[p] = list[j].burn /\ N - p >= j - 1
        BY <1>6, <1>7, <1>8 DEF Ranked
      <3>2. N - j + 1 \in 1..N /\ N - (N - j + 1) >= j - 1
        BY <1>2
      <3>3. history.stashed[N - j + 1] = list[j].burn
        BY <1>4, <1>6, <1>7, <3>2
      <3>4. QED
        BY <3>2, <3>3
    <2>4. QED
      BY <2>2, <2>3 DEF Follows, Tracks
  <1>14. TrackInv
    BY <1>3, <1>13 DEF TrackInv, Free
  <1>15. QED
    BY <1>9, <1>10, <1>12, <1>14 DEF ListInv

\* One step for each action.
LEMMA StepList == OrderInv /\ NonceInv /\ ListInv /\ [BridgeNext]_vars => ListInv'
  <1> SUFFICES ASSUME OrderInv, NonceInv, ListInv, [BridgeNext]_vars PROVE ListInv'
    OBVIOUS
  <1>1. CASE UNCHANGED vars
    BY <1>1, ElsewhereKeeps DEF vars, listVars, SameLookups
  <1>2. CASE \E t \in Tabs, w \in Wallets \cup {"none"} : ChooseWallet(t, w)
    BY <1>2, PageKeeps
  <1>3. CASE \E r \in asked, looked \in BOOLEAN : EffectAnswered(r, looked)
    BY <1>3, PageKeeps
  <1>4. CASE \E t \in Tabs, b \in Orders, form \in Forms : Burn(t, b, form) \/ Deposit(t, b, form)
    BY <1>4, OrderKeeps
  <1>5. CASE \E b \in Orders : BurnLands(b) \/ BurnFails(b)
    BY <1>5, OrderKeeps
  <1>6. CASE (\E b \in Orders : Release(b)) \/ ForeignSteps
    BY <1>6, ReleaseKeeps
  <1>7. CASE \E b \in Orders : Stash(b) \/ StashMisses(b)
    BY <1>7, StashKeeps, MissKeeps
  <1>8. CASE \E t \in Tabs, b \in Orders : RemovePending(t, b)
    BY <1>8, RemoveKeeps
  <1>9. CASE \E t \in Tabs : TabRuns(t) \/ PollFails(t)
    BY <1>9, WriteKeeps, PollKeeps, ReadKeeps DEF TabRuns
  <1>10. QED
    BY <1>1, <1>2, <1>3, <1>4, <1>5, <1>6, <1>7, <1>8, <1>9 DEF BridgeNext, ForeignSteps

\* The invariant holds throughout.
LEMMA ListInvariant == BridgeSpec => []ListInv
  <1>1. BridgeInv => OrderInv /\ NonceInv
    BY DEF BridgeInv
  <1>2. QED
    BY <1>1, BridgeInvariant, InitList, StepList, PTL DEF BridgeSpec

\* Whatever tabs overwrite, whatever is cut, dismissed or read late: an entry
\* is shown as released only when a release with its nonce has landed.
THEOREM OnlyReleasedIsMarked == BridgeSpec => []MarkedWasReleased
  <1>1. ListInv => MarkedWasReleased
    BY DEF ListInv, MarkInv, Marked, MarkedWasReleased
  <1>2. QED
    BY <1>1, ListInvariant, PTL

\* For any cap, any number of tabs and any history of the list: a burn that
\* landed and was looked up is missing from the list only when its lookup
\* failed, the user dismissed it, two tabs wrote over each other or as many
\* younger burns as the list holds were stashed after it.
THEOREM NoBurnIsLostUnexplained == BridgeSpec => []UntrackedHasACause
  <1>1. ListInv => UntrackedHasACause
    <2> SUFFICES ASSUME ListInv, \A t \in Tabs : Free(t), ~history.raced,
                        NEW b \in Orders, order[b].lookup = "done", ~Listed(b)
                 PROVE  b \in history.missed \cup history.dismissed
                           \/ PushedOut(b, history.stashed)
      BY DEF UntrackedHasACause, PushedOut
    <2>1. Tracks(list, history, order)
      BY DEF ListInv, TrackInv, Follows
    <2>2. QED
      BY <2>1 DEF Tracks, Listed
  <1>2. QED
    BY <1>1, ListInvariant, PTL
=============================================================================
