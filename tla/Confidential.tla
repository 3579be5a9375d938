---------------------------- MODULE Confidential ----------------------------
(***************************************************************************)
(* The confidential balance of one wallet and one mint, as the side panel  *)
(* works it (frontend/components/SecretBalancePanel.tsx with               *)
(* lib/confidential.ts, lib/confidential-transit.ts and                    *)
(* app/api/confidential/proof/route.ts).                                   *)
(*                                                                         *)
(* The page cannot decrypt the available balance.  It keeps a figure of    *)
(* its own: in localStorage (tracked) and, for the buttons, in React state *)
(* (view).  A debit proves that the ciphertext on chain, less the amount,  *)
(* holds that figure less the amount, so it only goes through when the     *)
(* figure is right and the ciphertext has not moved.                       *)
(*                                                                         *)
(* An operation is one click.  The buttons of ConfidentialControls exclude *)
(* each other (busy), so do sends (submitting), but a send and a button's  *)
(* operation run side by side.  Token-2022 and the proof program are       *)
(* outside this repository; ciphertexts are told apart by a version.       *)
(***************************************************************************)
EXTENDS Integers, FiniteSets, SequencesExt

CONSTANTS
    Buttons,     \* names for clicks on Configure, Deposit or Withdraw
    Sends,       \* names for clicks on Send
    Amounts,     \* amounts a user may enter
    Funds,       \* public tokens at the start
    Held,        \* encrypted ones at the start, known to the page: 0, or some
    MaxCredits   \* bound: encrypted transfers received

ASSUME ConfidentialAssumption ==
    /\ Amounts \subseteq Nat \ {0}
    /\ {Funds, MaxCredits} \subseteq Nat /\ Held \subseteq Nat
    /\ Buttons \cap Sends = {}

Ops == Buttons \cup Sends

VARIABLES
    acct,     \* the wallet's token account, on chain
    settled,  \* its available balance as "finalized" shows it
    tracked,  \* localStorage "ct-balance": what the page believes is available
    view,     \* the same, as React state of the buttons
    op,       \* op[o]: the operation, and its transactions
    credits   \* encrypted transfers received

vars == <<acct, settled, tracked, view, op, credits>>

Ciphertext(a) == [ver |-> a.ver, value |-> a.avail]
NoCiphertext == [ver |-> 0, value |-> 0]
NoOp == [kind |-> "none", step |-> "none", amount |-> 0, path |-> "none",
         belief |-> 0, seen |-> NoCiphertext, setups |-> <<>>,
         enc |-> "none", pub |-> "none", lost |-> FALSE, overwrote |-> FALSE,
         overtook |-> {}, claim |-> "none"]

Running(o) == op[o].step \notin {"none", "done", "failed"}
IsSend(o) == o \in Sends
Busy == \E o \in Buttons : Running(o)
Submitting == \E o \in Sends : Running(o)

ConfidentialInit ==
    /\ \E held \in Held, configured \in BOOLEAN :
          /\ held > 0 => configured
          /\ acct = [configured |-> configured, public |-> Funds, pending |-> 0,
                     avail |-> held, ver |-> 0]
          /\ settled = [ver |-> 0, value |-> held]
          /\ tracked = held
          /\ view = held
    /\ op = [o \in Ops |-> NoOp]
    /\ credits = 0

-----------------------------------------------------------------------------
(* What the page builds: an instruction is its name, the account it is     *)
(* about besides the wallet's own, and an amount.                          *)

\* deriveElGamalKeypair, deriveElGamalPubkeyFromSeed: the wallet's key is the
\* same at every click, so nothing below differs by key.
Ix(name, on, amount) == [name |-> name, on |-> on, amount |-> amount]

ReallocateIx == Ix("Reallocate", "own", 0)
ConfigureIx == Ix("ConfigureAccount", "own", 0)
DepositIx(amount) == Ix("Deposit", "own", amount)
ApplyIx == Ix("ApplyPendingBalance", "own", 0)
WithdrawIx(amount) == Ix("Withdraw", "own", amount)
TransferIx(amount) == Ix("Transfer", "own", amount)
EmptyAccountIx == Ix("EmptyAccount", "own", 0)
VerifyIx(proof) == Ix("Verify", proof, 0)
VerifyIntoIx(context) == Ix("VerifyInto", context, 0)
CreateIx(account) == Ix("CreateAccount", account, 0)
CloseIx(context) == Ix("CloseContextState", context, 0)
MemoIx == Ix("Memo", "transit", 0)
SetAuthorityIx == Ix("SetAuthority", "transit", 0)

ConfigureIxs == <<ReallocateIx, ConfigureIx, VerifyIx("pubkey validity")>>
DepositAndApplyIxs(amount) == <<DepositIx(amount), ApplyIx>>
WithdrawIxs(amount) == <<WithdrawIx(amount), VerifyIx("equality"), VerifyIx("range")>>

\* The proofs of a transfer are verified into accounts of their own first; the
\* transaction of the range proof has no room to create its account.
Proofs == {"equality", "validity", "range"}
DirectSetups == <<<<CreateIx("equality"), VerifyIntoIx("equality")>>,
                  <<CreateIx("validity"), VerifyIntoIx("validity"), CreateIx("range")>>,
                  <<VerifyIntoIx("range")>>>>
TransitSetups == <<<<CreateIx("transit"), ConfigureIx, VerifyIx("pubkey validity")>>>> \o DirectSetups
SetupTxs(o) == IF op[o].path = "transit" THEN TransitSetups ELSE DirectSetups

\* Mutant: the range account is not closed.
TwoCloses(amount) == <<TransferIx(amount), CloseIx("equality"), CloseIx("validity")>>

DirectFinal(amount) ==
    <<TransferIx(amount), CloseIx("equality"), CloseIx("validity"), CloseIx("range")>>

\* The transit account changes hands only in the transaction that fills it.
TransitFinal(amount) == DirectFinal(amount) \o <<SetAuthorityIx, MemoIx>>

IxsOf(o) ==
    LET amount == op[o].amount
    IN  CASE op[o].kind = "configure" -> ConfigureIxs
          [] op[o].kind = "deposit" -> DepositAndApplyIxs(amount)
          [] op[o].kind = "withdraw" -> WithdrawIxs(amount)
          [] op[o].path = "direct" -> DirectFinal(amount)
          [] op[o].path = "transit" -> TransitFinal(amount)

\* The accounts that instructions of one name are about.
On(name, ixs) == {ix.on : ix \in {i \in ToSet(ixs) : i.name = name}}

\* transfer_new_source_ciphertext: what the chain will compute from the
\* ciphertext that was read.
NewSource(o) == [ver |-> op[o].seen.ver, value |-> op[o].seen.value - op[o].amount]

\* The commitment that the equality and range proofs are about.
NewBalance(o) == op[o].belief - op[o].amount

EqualityHolds(o) == NewSource(o).value = NewBalance(o)
InRange(o) == NewBalance(o) >= 0

-----------------------------------------------------------------------------
(* Token-2022, the proof program and the node.                             *)

LandedSetups(o) == {i \in DOMAIN op[o].setups : op[o].setups[i] = "landed"}
Created(o) == UNION {On("CreateAccount", SetupTxs(o)[i]) : i \in LandedSetups(o)}
Verified(o) == UNION {On("VerifyInto", SetupTxs(o)[i]) : i \in LandedSetups(o)}

\* Whether the encrypted transaction of o would execute now.  A debit needs
\* the ciphertext its proofs were made for.
Accepts(o) ==
    LET current == op[o].seen.ver = acct.ver
    IN  CASE op[o].kind = "configure" -> ~acct.configured
          [] op[o].kind = "deposit" -> acct.configured /\ op[o].amount <= acct.public
          [] op[o].kind = "withdraw" ->
                acct.configured /\ current /\ EqualityHolds(o) /\ InRange(o)
          [] op[o].kind = "send" -> acct.configured /\ current /\ Verified(o) = Proofs

\* ApplyPendingBalance takes everything that is pending, also what others
\* have sent meanwhile.
Effect(ix, a) ==
    CASE ix.name = "ConfigureAccount" -> [a EXCEPT !.configured = TRUE]
      [] ix.name = "Deposit" ->
            [a EXCEPT !.public = @ - ix.amount, !.pending = @ + ix.amount]
      [] ix.name = "ApplyPendingBalance" ->
            [a EXCEPT !.avail = @ + a.pending, !.pending = 0, !.ver = @ + 1]
      [] ix.name = "Withdraw" ->
            [a EXCEPT !.public = @ + ix.amount, !.avail = @ - ix.amount, !.ver = @ + 1]
      [] ix.name = "Transfer" -> [a EXCEPT !.avail = @ - ix.amount, !.ver = @ + 1]
      [] OTHER -> a

\* The instructions of a transaction, one after the other.
Executed(o) ==
    LET ixs == IxsOf(o)
        after[n \in 0..Len(ixs)] == IF n = 0 THEN acct ELSE Effect(ixs[n], after[n - 1])
    IN  after[Len(ixs)]

EncryptedExecutes(o) ==
    /\ op[o].enc = "sent"
    /\ acct' = IF Accepts(o) THEN Executed(o) ELSE acct
    /\ op' = [op EXCEPT ![o].enc = IF Accepts(o) THEN "landed" ELSE "failed"]
    /\ UNCHANGED <<settled, tracked, view, credits>>

\* A transaction that stages proofs lands or expires.
SetupEnds(o, end) ==
    /\ \E i \in DOMAIN op[o].setups :
          /\ op[o].setups[i] = "sent"
          /\ op' = [op EXCEPT ![o].setups[i] = end]
    /\ UNCHANGED <<acct, settled, tracked, view, credits>>

EncryptedExpires(o) ==
    /\ op[o].enc = "sent"
    /\ op' = [op EXCEPT ![o].enc = "failed"]
    /\ UNCHANGED <<acct, settled, tracked, view, credits>>

PublicExecutes(o) ==
    /\ op[o].pub = "sent"
    /\ LET covered == op[o].amount <= acct.public
       IN  /\ acct' = IF covered THEN [acct EXCEPT !.public = @ - op[o].amount] ELSE acct
           /\ op' = [op EXCEPT ![o].pub = IF covered THEN "landed" ELSE "failed"]
    /\ UNCHANGED <<settled, tracked, view, credits>>

\* Someone sends an encrypted transfer to this wallet.
CreditReceived ==
    /\ acct.configured
    /\ credits < MaxCredits
    /\ \E a \in Amounts : acct' = [acct EXCEPT !.pending = @ + a]
    /\ credits' = credits + 1
    /\ UNCHANGED <<settled, tracked, view, op>>

Finalized ==
    /\ settled /= Ciphertext(acct)
    /\ settled' = Ciphertext(acct)
    /\ UNCHANGED <<acct, tracked, view, op, credits>>

-----------------------------------------------------------------------------
(* The two ways a click begins.                                            *)

\* onConfigure, onDeposit, onWithdraw: the figure is the one of the last
\* render.  Deposit's instructions need no proof, so there is nothing to read.
Click(o, kind, amount) ==
    /\ op[o] = NoOp /\ ~Busy
    /\ kind = "withdraw" => amount <= view
    /\ op' = [op EXCEPT ![o] = [NoOp EXCEPT
                !.kind = kind, !.amount = amount, !.belief = view,
                !.step = IF kind = "withdraw" THEN "reading" ELSE "proved"]]
    /\ UNCHANGED <<acct, settled, tracked, view, credits>>

\* onSend: encrypted unless the box is off, straight to the recipient's
\* account if that is configured, into a transit account otherwise.
PathOf(confidential, recipientConfigured) ==
    IF ~confidential THEN "public"
    ELSE IF recipientConfigured THEN "direct" ELSE "transit"

Send(o, amount, path) ==
    /\ op[o] = NoOp /\ ~Submitting
    /\ op' = [op EXCEPT ![o] = [NoOp EXCEPT
                !.kind = "send", !.amount = amount, !.path = path,
                !.step = IF path = "public" THEN "public" ELSE "reading"]]
    /\ UNCHANGED <<acct, settled, tracked, view, credits>>

\* Where an error takes an operation: a button reports it, a send goes on to
\* the public transfer, whatever the error was.
AfterError(o) == IF IsSend(o) THEN "public" ELSE "failed"

-----------------------------------------------------------------------------
(* Reading, proving, staging, submitting.                                  *)

\* findConfidentialTransferAccountExtension.
HasExtension(a) == a.configured

\* What an operation needs before it asks for proofs.
Refused(o, belief) == ~HasExtension(acct) \/ belief < op[o].amount

\* fetchConfidentialAccountState, then (for a send) the figure as it is stored.
\* A transit send only looks whether the account is configured.
ReadState(o) ==
    /\ op[o].step = "reading"
    /\ LET belief == IF IsSend(o) THEN tracked ELSE op[o].belief
           transit == op[o].path = "transit"
       IN  op' = [op EXCEPT ![o].belief = belief,
                            ![o].seen = IF transit THEN @ ELSE settled,
                            ![o].step = IF Refused(o, belief) THEN AfterError(o)
                                        ELSE IF transit THEN "figured" ELSE "read"]
    /\ UNCHANGED <<acct, settled, tracked, view, credits>>

\* prepareTransitSendIxsContextStateMode: the ciphertext, later than the figure.
ReadCiphertext(o) ==
    /\ op[o].step = "figured"
    /\ op' = [op EXCEPT ![o].seen = settled,
                        ![o].step = IF HasExtension(acct) THEN "read" ELSE AfterError(o)]
    /\ UNCHANGED <<acct, settled, tracked, view, credits>>

\* The route compares the ciphertext with the account when it is told the
\* account, which onWithdraw does not do, and goes on if it cannot look.
CrossChecked(o) == IsSend(o)

RouteAnswers(o, looked) ==
    (CrossChecked(o) /\ looked) => op[o].seen = Ciphertext(acct)

\* The proofs, from the route: buildWithdrawInstruction for a button,
\* buildTransferInstruction for a send.
Prove(o, looked) ==
    /\ op[o].step = "read"
    /\ InRange(o)
    /\ RouteAnswers(o, looked)
    /\ op' = [op EXCEPT ![o].step = IF IsSend(o) THEN "staging" ELSE "proved"]
    /\ UNCHANGED <<acct, settled, tracked, view, credits>>

\* The next transaction that stages proofs is simulated and sent: a proof about
\* a wrong figure does not verify.  Only a transit send waits for each.
Stage(o) ==
    LET n == Len(op[o].setups) + 1
        tx == SetupTxs(o)[n]
    IN  /\ op[o].step = "staging"
        /\ op[o].path = "transit" => LandedSetups(o) = 1..(n - 1)
        /\ "equality" \in On("VerifyInto", tx) => EqualityHolds(o)
        /\ On("VerifyInto", tx) \subseteq Created(o) \cup On("CreateAccount", tx)
        /\ op' = [op EXCEPT ![o].setups = Append(@, "sent"),
                            ![o].step = IF n = Len(SetupTxs(o)) THEN "proved" ELSE @]
        /\ UNCHANGED <<acct, settled, tracked, view, credits>>

\* Mutant: a transit send leaves the figure as it was.
FigureKept(o) == tracked

\* A transit send counts as done when it is submitted, a direct one never does.
FigureAfterSubmit(o) ==
    IF op[o].path = "transit" THEN op[o].belief - op[o].amount ELSE tracked

\* Mutant: a submitted send goes on to the public transfer.
StepAfterSubmitBoth(o) == IF IsSend(o) THEN "public" ELSE "confirming"
StepAfterSubmit(o) == IF IsSend(o) THEN "done" ELSE "confirming"

\* The wallet simulates the transaction and sends it.  overtook (observer):
\* the buttons' operations that were running when a transit send wrote the figure.
Submit(o) ==
    /\ op[o].step = "proved" /\ Accepts(o)
    /\ tracked' = FigureAfterSubmit(o)
    /\ op' = [op EXCEPT ![o].enc = "sent", ![o].step = StepAfterSubmit(o),
                ![o].overtook = IF op[o].path = "transit" THEN {b \in Buttons : Running(b)} ELSE @]
    /\ UNCHANGED <<acct, settled, view, credits>>

\* It was sent, but its answer is lost: to the page this is an error.
SubmitLost(o) ==
    /\ op[o].step = "proved" /\ Accepts(o)
    /\ op' = [op EXCEPT ![o].enc = "sent", ![o].lost = TRUE, ![o].step = AfterError(o)]
    /\ UNCHANGED <<acct, settled, tracked, view, credits>>

\* The wallet cannot sign messages, or its user declines to: no key.  Or the
\* node does not answer.
KeyRefused(o) ==
    /\ op[o].step \in {"reading", "figured"}
    /\ op' = [op EXCEPT ![o].step = AfterError(o)]
    /\ UNCHANGED <<acct, settled, tracked, view, credits>>

\* The route is down, or finds its inputs inconsistent.
ProofUnavailable(o) ==
    /\ op[o].step = "read"
    /\ op' = [op EXCEPT ![o].step = AfterError(o)]
    /\ UNCHANGED <<acct, settled, tracked, view, credits>>

\* The user declines to sign a transaction, a node fails, the simulation
\* rejects, a transaction that stages proofs has not landed yet.
NotSent(o) ==
    /\ op[o].step \in {"staging", "proved"}
    /\ op' = [op EXCEPT ![o].step = AfterError(o)]
    /\ UNCHANGED <<acct, settled, tracked, view, credits>>

-----------------------------------------------------------------------------
(* After the submission.                                                   *)

\* The figure a button's operation writes: from the last render, not from
\* what is stored by now.
FigureAfter(o) ==
    CASE op[o].kind = "configure" -> tracked
      [] op[o].kind = "deposit" -> op[o].belief + op[o].amount
      [] op[o].kind = "withdraw" -> op[o].belief - op[o].amount

\* A transit send wrote the figure after o had taken it; what is stored can be
\* the same all the same.
Overtaken(o) == \E s \in Sends : o \in op[s].overtook

\* Confirmed without an error: write, then refresh.
Confirmed(o) ==
    /\ op[o].step = "confirming" /\ op[o].enc = "landed"
    /\ tracked' = FigureAfter(o)
    /\ view' = FigureAfter(o)
    /\ op' = [op EXCEPT ![o].step = "done",
                ![o].overwrote = op[o].kind /= "configure"
                                  /\ (tracked /= op[o].belief \/ Overtaken(o))]
    /\ UNCHANGED <<acct, settled, credits>>

Rejected(o) ==
    /\ op[o].step = "confirming" /\ op[o].enc = "failed"
    /\ op' = [op EXCEPT ![o].step = "failed"]
    /\ UNCHANGED <<acct, settled, tracked, view, credits>>

\* confirmTransaction throws although the transaction has landed or still may.
ConfirmLost(o) ==
    /\ op[o].step = "confirming"
    /\ op' = [op EXCEPT ![o].step = "failed", ![o].lost = TRUE]
    /\ UNCHANGED <<acct, settled, tracked, view, credits>>

\* The public transfer of a send, without preflight; or the user declines it.
SubmitPublic(o) ==
    /\ op[o].step = "public"
    /\ op' = [op EXCEPT ![o].pub = "sent", ![o].step = "done"]
    /\ UNCHANGED <<acct, settled, tracked, view, credits>>

PublicFails(o) ==
    /\ op[o].step = "public"
    /\ op' = [op EXCEPT ![o].step = "failed"]
    /\ UNCHANGED <<acct, settled, tracked, view, credits>>

\* The panel is opened again.
Refresh ==
    /\ ~Busy /\ view /= tracked
    /\ view' = tracked
    /\ UNCHANGED <<acct, settled, tracked, op, credits>>

-----------------------------------------------------------------------------
(* The recipient of a transit account claims it (PendingClaimsRow).        *)

\* scanPendingTransitAccounts: owned by the recipient and not empty.
Scanned(o) ==
    /\ op[o].path = "transit" /\ op[o].enc = "landed"
    /\ SetAuthorityIx \in ToSet(IxsOf(o))

\* findTransitMemoForAccountV2: the seed and the amount, for who can unwrap them.
MemoFound(o) == MemoIx \in ToSet(IxsOf(o))

MigrationIxs(amount) ==
    WithdrawIxs(amount) \o <<EmptyAccountIx, VerifyIx("zero ciphertext"), ConfigureIx,
                             VerifyIx("pubkey validity"), DepositIx(amount), ApplyIx>>

\* buildWithdrawInstruction wants a commitment that is not all zeros;
\* prepareTransitClaimMigrationTx hands it 32 zero bytes.
WithdrawBuilds(newBalanceCommitment) == newBalanceCommitment /= "zero bytes"
MigrationCommitment == "zero bytes"
MigrationBuilds(o) ==
    "own" \in On("Withdraw", MigrationIxs(op[o].amount)) => WithdrawBuilds(MigrationCommitment)

\* onClaim: first what is pending is applied, and then the account is to be
\* emptied, configured for the recipient and filled again.  A refused claim may
\* be tried again.
ClaimApplies(o) ==
    /\ Scanned(o) /\ MemoFound(o)
    /\ op[o].claim \in {"none", "refused"}
    /\ op' = [op EXCEPT ![o].claim = "applied"]
    /\ UNCHANGED <<acct, settled, tracked, view, credits>>

ClaimMigrates(o) ==
    /\ op[o].claim = "applied"
    /\ op' = [op EXCEPT ![o].claim = IF MigrationBuilds(o) THEN "moved" ELSE "refused"]
    /\ UNCHANGED <<acct, settled, tracked, view, credits>>

-----------------------------------------------------------------------------
ConfidentialNext ==
    \/ \E o \in Buttons, k \in {"configure", "deposit", "withdraw"}, a \in Amounts : Click(o, k, a)
    \/ \E o \in Sends, a \in Amounts, c, r \in BOOLEAN : Send(o, a, PathOf(c, r))
    \/ \E o \in Ops, looked \in BOOLEAN : Prove(o, looked)
    \/ \E o \in Ops : ReadState(o) \/ ReadCiphertext(o) \/ Stage(o) \/ Submit(o) \/ SubmitLost(o)
    \/ \E o \in Ops : KeyRefused(o) \/ ProofUnavailable(o) \/ NotSent(o)
    \/ \E o \in Ops : Confirmed(o) \/ Rejected(o) \/ ConfirmLost(o)
    \/ \E o \in Ops : SubmitPublic(o) \/ PublicFails(o)
    \/ \E o \in Ops, end \in {"landed", "failed"} : SetupEnds(o, end)
    \/ \E o \in Ops : EncryptedExecutes(o) \/ EncryptedExpires(o) \/ PublicExecutes(o)
    \/ \E o \in Ops : ClaimApplies(o) \/ ClaimMigrates(o)
    \/ CreditReceived \/ Finalized \/ Refresh

ConfidentialSpec == ConfidentialInit /\ [][ConfidentialNext]_vars

-----------------------------------------------------------------------------
\* The shape of the state.
ConfidentialTypeOK ==
    /\ acct \in [configured : BOOLEAN, public : Nat, pending : Nat, avail : Nat, ver : Nat]
    /\ settled \in [ver : Nat, value : Nat]
    /\ {tracked, view, credits} \subseteq Nat
    /\ \A o \in Ops :
          /\ op[o].step \in {"none", "reading", "figured", "read", "staging", "proved", "confirming",
                             "public", "done", "failed"}
          /\ op[o].setups \in Seq({"sent", "landed", "failed"})
          /\ {op[o].enc, op[o].pub} \subseteq {"none", "sent", "landed", "failed"}

\* Nothing of the wallet's is running or in flight.
Quiet == \A o \in Ops : ~Running(o) /\ "sent" \notin {op[o].enc, op[o].pub} \cup ToSet(op[o].setups)

\* When all is quiet, the figure differs from what is available for one of
\* five reasons only: a direct send landed (nothing is subtracted for it), a
\* transit send was subtracted and did not land, credits of others came in, a
\* transaction landed that the page gave up on, or a button wrote what it had
\* computed from a figure that is not the one stored, or that a transit send
\* wrote again meanwhile (the same by chance: the send reads its figure well
\* before its ciphertext).
DriftHasACause ==
    (Quiet /\ tracked /= acct.avail) =>
        \/ credits > 0
        \/ \E o \in Ops :
              \/ op[o].path = "direct" /\ op[o].enc = "landed"
              \/ op[o].path = "transit" /\ op[o].enc = "failed" /\ ~op[o].lost
              \/ op[o].lost /\ op[o].enc = "landed"
              \/ op[o].overwrote

\* A send pays twice, encrypted and in public, only if the answer to its
\* encrypted transaction was lost.
PaidTwiceOnlyIfLost ==
    \A o \in Ops : (op[o].enc = "landed" /\ op[o].pub = "landed") => op[o].lost

\* The rent of a context account stays locked only if the transfer it was
\* opened for never landed.
RentLeftHasACause ==
    \A o \in Ops : op[o].enc = "landed" =>
        Created(o) \ On("CloseContextState", IxsOf(o)) \subseteq {"transit"}
=============================================================================
