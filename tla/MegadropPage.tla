---------------------------- MODULE MegadropPage ----------------------------
(***************************************************************************)
(* The megadrop page (frontend/app/megadrop/page.tsx) over the program of  *)
(* Megadrop.  One tab asks for the allocation, the config and the record   *)
(* of the connected wallet; the user picks tranches and claims them, inline*)
(* or over a staged buffer; and the answers come late, the wallet changes, *)
(* the config is rotated, other clients claim, and transactions land late, *)
(* fail or expire meanwhile.                                               *)
(*                                                                         *)
(* The page relays for itself: holder, fee payer and relayer are the       *)
(* connected wallet.  An answer about an allocation may come from any      *)
(* deployment of the list, for the route lets it be cached for a day.      *)
(***************************************************************************)
EXTENDS Megadrop, PageCalendar

CONSTANTS
    Users,           \* wallets that connect to the page
    Nobody,          \* no wallet is connected
    BrowserMonths,   \* yyyymm of the clocks of the users' machines
    Unlimited,       \* no bound on what others do
    InlineMax,       \* PROOF_BUFFER_THRESHOLD
    ChunkLen,        \* siblings per write: 800 bytes
    Budgets          \* bounds: steps of others, connections and claims of the page

ASSUME PageAssumption ==
    /\ Users \subseteq Holders \cap Payers
    /\ Nobody \notin Wallets
    /\ BrowserMonths \subseteq Nat \ {0}
    /\ InlineMax \in Nat
    /\ ChunkLen \in Nat \ {0}

\* The trees that the lists were built from: a holder may sign for what its leaf
\* says, and a proof that does not fit into a transaction has a buffer's length.
ASSUME ListAssumption ==
    \A r \in Roots :
        /\ Leaf[r] \in [DOMAIN Leaf[r] -> Totals]
        /\ Path[r] \in [DOMAIN Leaf[r] -> Seq(Siblings)]
        /\ \A h \in DOMAIN Leaf[r] :
              Len(Path[r][h]) <= InlineMax \/ Len(Path[r][h]) \in BufferLens

VARIABLES
    page,            \* the tab
    net,             \* transactions of the page that have not landed
    origin,          \* history: the proofs written to the buffer <<h, h>>
    budget           \* bound: what is left of the budget

pageVars == <<page, net, origin, budget>>

Foreign == {<<"foreign">>}\* in origin: another client had a hand in the buffer

ASSUME ForeignAssumption == "foreign" \notin Siblings

\* Nothing is open, read, selected or under way.
ClosedTab ==
    [who |-> Nobody, month |-> 0, hit |-> <<>>, late |-> Nobody, cfg |-> NoConfig,
     seen |-> <<>>, done |-> {}, selected |-> {}, asking |-> {},
     phase |-> "idle", order |-> <<>>, stage |-> 0]

PageInit ==
    /\ Init
    /\ page = ClosedTab
    /\ net = {}
    /\ origin = [h \in Holders |-> {}]
    /\ budget \in Budgets

Busy == page.phase # "idle"

-----------------------------------------------------------------------------
(* What the page reads.                                                    *)

\* The tab is opened, or reloaded: its state is new, and the month is that of the
\* machine's own clock (Date.now), behind or ahead of the chain's.
Visit(w, month) ==
    /\ budget.visits > 0
    /\ budget' = [budget EXCEPT !.visits = @ - 1]
    /\ page' = [ClosedTab EXCEPT !.who = w, !.month = month, !.asking = {"hit", "cfg", "done"}]
    /\ UNCHANGED <<vars, net, origin>>

\* Another wallet or none.  The effects ask again, but the selection stays, and
\* the record of the last wallet until the next is read; an answer about the
\* last wallet's allocation whose headers are in is no longer cancelled.
ChangeWallet(w) ==
    /\ budget.visits > 0 /\ page.month # 0 /\ w # page.who
    /\ budget' = [budget EXCEPT !.visits = @ - 1]
    /\ \E late \in {page.late} \cup (IF "hit" \in page.asking THEN {page.who} ELSE {}) :
          page' = [page EXCEPT
                     !.who = w, !.hit = <<>>, !.late = late,
                     !.seen = IF w = Nobody THEN <<>> ELSE @,
                     !.done = IF w = Nobody THEN {} ELSE @,
                     !.asking = (@ \ {"hit", "done"})
                                  \cup (IF w = Nobody THEN {} ELSE {"hit", "done"})]
    /\ UNCHANGED <<vars, net, origin>>

\* What some deployment answers about a wallet.
HitsOf(w) == {<<w, r>> : r \in {r \in Roots : w \in DOMAIN Leaf[r]}}

\* An allocation with its proof, or none: not in the set, or an error.
AnswerHit ==
    /\ "hit" \in page.asking
    /\ \E hit \in HitsOf(page.who) \cup {<<>>} :
          page' = [page EXCEPT !.hit = hit, !.asking = @ \ {"hit"}]
    /\ UNCHANGED <<vars, net, origin, budget>>

\* The body of an answer about an earlier wallet.
AnswerLate ==
    /\ page.late # Nobody
    /\ \E hit \in HitsOf(page.late) : page' = [page EXCEPT !.hit = hit, !.late = Nobody]
    /\ UNCHANGED <<vars, net, origin, budget>>

\* A config that is missing, or an error, is none.
ConfigReads == {config, NoConfig}

AnswerConfig ==
    /\ "cfg" \in page.asking
    /\ \E cfg \in ConfigReads :
          page' = [page EXCEPT !.cfg = cfg, !.asking = @ \ {"cfg"}]
    /\ UNCHANGED <<vars, net, origin, budget>>

\* The record of the wallet, or that there is none.
RecordRead == <<page.who, record[page.who]>>

\* The record's bitmap; a failed read counts as a record with nothing taken.
AnswerDone ==
    /\ "done" \in page.asking
    /\ \/ page' = [page EXCEPT !.seen = RecordRead,
                               !.done = Taken(page.who), !.asking = @ \ {"done"}]
       \/ page' = [page EXCEPT !.seen = <<>>, !.done = {}, !.asking = @ \ {"done"}]
    /\ UNCHANGED <<vars, net, origin, budget>>

-----------------------------------------------------------------------------
(* What the user picks.                                                    *)

Available ==
    IF page.hit = <<>> \/ page.cfg = NoConfig THEN {}
    ELSE {i \in Tranches \ page.done : ShownUnlocked(page.cfg.genesis, page.month, i)}

Toggle(i) ==
    /\ budget.claims > 0
    /\ i \in Available
    /\ page' = [page EXCEPT !.selected = IF i \in @ THEN @ \ {i} ELSE @ \cup {i}]
    /\ UNCHANGED <<vars, net, origin, budget>>

SelectAll ==
    /\ budget.claims > 0
    /\ Available # {}
    /\ page' = [page EXCEPT !.selected = Available]
    /\ UNCHANGED <<vars, net, origin, budget>>

-----------------------------------------------------------------------------
(* onClaim.                                                                *)

\* Mutant: the proof is not checked against the config.
RootsUnchecked == TRUE

\* The button's rootMismatch, and the self-check of the recomputed root.
RootsAgree == page.hit[2] = page.cfg.root

\* What the page knows of the record of the wallet, if it read it and picked
\* only what was not taken then.
Known ==
    IF page.seen # <<>> /\ page.seen[1] = page.who /\ page.selected \cap page.done = {}
    THEN <<page.seen[2]>> ELSE <<>>

\* The wallet is the connected one, the allocation and proof are the answer's.
Order ==
    [n      |-> budget.claims,
     holder |-> page.who,
     of     |-> page.hit[1],
     total  |-> Leaf[page.hit[2]][page.hit[1]],
     proof  |-> Path[page.hit[2]][page.hit[1]],
     ts     |-> page.selected,
     month  |-> page.month,
     cfg    |-> page.cfg,
     known  |-> Known]

Click ==
    /\ budget.claims > 0
    /\ ~Busy
    /\ page.who # Nobody /\ page.hit # <<>> /\ page.cfg # NoConfig
    /\ page.selected # {}
    /\ RootsAgree
    /\ page' = [page EXCEPT !.phase = "signing", !.order = Order]
    /\ budget' = [budget EXCEPT !.claims = @ - 1]
    /\ UNCHANGED <<vars, net, origin>>

Inline(o) == Len(o.proof) <= InlineMax

\* The wallet signs the message; what comes next depends on the proof's depth.
SignOrder ==
    /\ page.phase = "signing"
    /\ SignClaimMessage(page.order.holder, page.order.total, page.order.ts)
    /\ page' = [page EXCEPT !.stage = 1,
                            !.phase = IF Inline(page.order) THEN "submitting" ELSE "staging"]
    /\ UNCHANGED <<net, origin, budget>>

\* The wallet declines, or a call throws: the error is shown.
GiveUp ==
    /\ page.phase \in {"signing", "staging", "confirming", "submitting"}
    /\ page' = [page EXCEPT !.phase = "idle", !.order = <<>>, !.stage = 0]
    /\ UNCHANGED <<vars, net, origin, budget>>

NumChunks(o) == (Len(o.proof) + ChunkLen - 1) \div ChunkLen

Chunk(o, i) ==
    SubSeq(o.proof, (i - 1) * ChunkLen + 1,
           IF i * ChunkLen <= Len(o.proof) THEN i * ChunkLen ELSE Len(o.proof))

\* A transaction: its order and the stage, 0 for the claim.
Staged == [order |-> page.order, stage |-> page.stage]

\* One staging transaction; the first allocates the buffer, whatever is there.
SendStage ==
    /\ page.phase = "staging"
    /\ net' = net \cup {Staged}
    /\ page' = [page EXCEPT !.phase = "confirming"]
    /\ UNCHANGED <<vars, origin, budget>>

\* It landed; whether it failed is not looked at.
Confirmed ==
    /\ page.phase = "confirming"
    /\ Staged \notin net
    /\ page' = IF page.stage < NumChunks(page.order)
               THEN [page EXCEPT !.phase = "staging", !.stage = @ + 1]
               ELSE [page EXCEPT !.phase = "submitting"]
    /\ UNCHANGED <<vars, net, origin, budget>>

\* The claim is sent without preflight, shown as a success, and not awaited.
Submit ==
    /\ page.phase = "submitting"
    /\ net' = net \cup {[order |-> page.order, stage |-> 0]}
    /\ page' = [page EXCEPT !.phase = "idle", !.order = <<>>, !.stage = 0,
                            !.selected = {}, !.cfg = NoConfig,
                            !.asking = @ \cup {"cfg"} \cup (IF page.who = Nobody THEN {} ELSE {"done"})]
    /\ UNCHANGED <<vars, origin, budget>>

-----------------------------------------------------------------------------
(* On chain.                                                               *)

\* InitProofBuffer and the first write, in one transaction.
InitAndWrite(o) ==
    LET n == Len(o.proof)
    IN  /\ buffer[<<o.holder, o.holder>>] = NoBuffer
        /\ Rent[n] <= wallet[o.holder]
        /\ buffer' = [buffer EXCEPT ![<<o.holder, o.holder>>] =
                         WriteInto(NewBuffer(n), 0, Chunk(o, 1))]
        /\ wallet' = [wallet EXCEPT ![o.holder] = @ - Rent[n]]
        /\ UNCHANGED <<now, config, record, treasury, signed, paid>>

WriteChunk(o, i) ==
    WriteProofBuffer(o.holder, o.holder, (i - 1) * ChunkLen, Chunk(o, i))

\* The selection in ascending order.
TrancheList(o) ==
    [k \in 1..Cardinality(o.ts) |->
        CHOOSE i \in o.ts : Cardinality({j \in o.ts : j <= i}) = k]

ClaimInOne(o) ==
    ClaimMegadrop(o.holder, o.total, TrancheList(o), o.holder, o.proof)

ClaimStaged(o) ==
    ClaimMegadropFromBuffer(o.holder, o.total, TrancheList(o), o.holder, Len(o.proof))

Execute(tx) ==
    LET o == tx.order
    IN  IF tx.stage = 1 THEN InitAndWrite(o)
        ELSE IF tx.stage > 1 THEN WriteChunk(o, tx.stage)
        ELSE IF Inline(o) THEN ClaimInOne(o) ELSE ClaimStaged(o)

\* The program accepts the claim in the state as it is.
ClaimAccepted(o) ==
    LET b == buffer[<<o.holder, o.holder>>]
        n == Len(o.proof)
    IN  IF Inline(o)
        THEN CanClaim(o.holder, o.total, TrancheList(o), o.holder, o.proof)
        ELSE /\ b # NoBuffer /\ BufferReady(b, n)
             /\ CanClaim(o.holder, o.total, TrancheList(o), o.holder, StagedProof(b, n))

\* The transaction passes the checks of each of its instructions.
Executable(tx) ==
    LET o == tx.order
        b == buffer[<<o.holder, o.holder>>]
    IN  IF tx.stage = 1 THEN b = NoBuffer /\ Rent[Len(o.proof)] <= wallet[o.holder]
        ELSE IF tx.stage > 1
        THEN b # NoBuffer
             /\ (tx.stage - 1) * ChunkLen + Len(Chunk(o, tx.stage)) <= b.total_len
        ELSE ClaimAccepted(o)

\* Who had a hand in each holder's own buffer, after a step by such hands.
OriginAfter(hands) ==
    origin' = [h \in Holders |->
                 LET old == buffer[<<h, h>>]
                     new == buffer'[<<h, h>>]
                 IN  IF new = NoBuffer THEN IF old = new THEN origin[h] ELSE {}
                     ELSE IF new = old THEN origin[h] ELSE origin[h] \cup hands]

\* A transaction executes, or fails and changes nothing; a first one that
\* fails for lack of rent is remembered.
Land(tx) ==
    /\ net' = net \ {tx}
    /\ \/ Execute(tx) /\ OriginAfter({tx.order.proof})
       \/ /\ ~Executable(tx)
          /\ UNCHANGED vars
          /\ origin' = [origin EXCEPT ![tx.order.holder] =
                          IF tx.stage = 1 /\ buffer[<<tx.order.holder, tx.order.holder>>] = NoBuffer
                          THEN @ \cup Foreign ELSE @]
    /\ UNCHANGED <<page, budget>>

\* It never lands; what the page waits for does not expire unnoticed.
Expire(tx) ==
    /\ page.phase = "confirming" => tx # Staged
    /\ net' = net \ {tx}
    /\ UNCHANGED <<vars, page, origin, budget>>

\* Other clients, the admin, the clock: any step of Megadrop.
Others ==
    /\ budget.others # 0
    /\ Next
    /\ OriginAfter(Foreign)
    /\ budget' = IF budget.others = Unlimited THEN budget
                 ELSE [budget EXCEPT !.others = @ - 1]
    /\ UNCHANGED <<page, net>>

PageNext ==
    \/ \E w \in Users : ChangeWallet(w) \/ \E month \in BrowserMonths : Visit(w, month)
    \/ ChangeWallet(Nobody)
    \/ AnswerHit \/ AnswerLate \/ AnswerConfig \/ AnswerDone
    \/ \E i \in Tranches : Toggle(i)
    \/ SelectAll \/ Click \/ SignOrder \/ GiveUp
    \/ SendStage \/ Confirmed \/ Submit
    \/ \E tx \in net : Land(tx) \/ Expire(tx)
    \/ Others

PageSpec == PageInit /\ [][PageNext]_<<vars, pageVars>>

-----------------------------------------------------------------------------
(* Properties *)

\* What the order was made from still holds, the machine's clock was not ahead of
\* the chain's, and there are funds and rent.
StillFresh(o) ==
    /\ o.of = o.holder
    /\ o.cfg = config
    /\ o.month <= now
    /\ o.known = <<record[o.holder]>>
    /\ record[o.holder] # NoRecord => record[o.holder].total = o.total
    /\ TreasuryCovers(ClaimAmount(o.total, o.ts))
    /\ RecordCost(o.holder) <= wallet[o.holder]
    /\ Inline(o) \/ origin[o.holder] \subseteq {o.proof}

\* A claim that the page sent is refused only for something that it could not
\* know or does not look at: an answer about another wallet came in late, the
\* month of the user's machine is not there yet on chain, the config or the
\* record changed after they were read, the record could not be read or belongs
\* to an earlier snapshot, funds or rent are missing, or the buffer holds what
\* another proof or client left there.  In particular the
\* page's calendar, its self-check, and staging transactions that fail, expire
\* or land after the page gave up on them never spoil a claim by themselves.
RefusedHasACause ==
    \A tx \in net : tx.stage = 0 /\ StillFresh(tx.order) => ClaimAccepted(tx.order)
=============================================================================
