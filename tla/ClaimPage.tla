----------------------------- MODULE ClaimPage -----------------------------
(***************************************************************************)
(* The claim page (frontend/app/claim/page.tsx) in several tabs, on top of *)
(* the two sponsored routes: the lookup of the connected wallet's leaf,    *)
(* the wallet's signature, and the request to the route that its proof's   *)
(* depth calls for.                                                        *)
(*                                                                         *)
(* The user changes the wallet at any time.  The lookup's effect is then   *)
(* cancelled, but the cancellation is looked at only when the answer's     *)
(* headers come in: an answer whose body is still being read is shown      *)
(* under the new wallet.                                                   *)
(*                                                                         *)
(* A tab makes one request: its button is disabled while that runs, and a  *)
(* retry is a request of another tab.                                      *)
(***************************************************************************)
EXTENDS ClaimRelay

CONSTANTS
    Visits,   \* bound: Visits[r], the wallets the tab of r connects, in order
    Nobody    \* no wallet, or a wallet without a leaf shown

ASSUME VisitsAssumption ==
    /\ Visits \in [Requests -> Seq(Wallets)]
    /\ Nobody \notin Wallets

VARIABLE page   \* page[r]: the tab that makes request r

NoPage == [visit |-> 0, who |-> Nobody, looking |-> FALSE, late |-> {}, shown |-> Nobody]

PageInit ==
    /\ RelayInit
    /\ page = [r \in Requests |-> NoPage]

\* The leaf the lookup finds for a wallet, or that it is not in the set.
LeafOf(w) == IF w \in Claimants THEN w ELSE Nobody

Turn(r, next) == page' = [page EXCEPT ![r] = next]

\* The next wallet.  The lookup starts over; the last one is cancelled unless
\* its headers are in.
Connect(r) ==
    LET t == page[r]
    IN  /\ t.visit < Len(Visits[r])
        /\ \E late \in {t.late, IF t.looking THEN t.late \cup {t.who} ELSE t.late} :
              Turn(r, [visit |-> t.visit + 1, who |-> Visits[r][t.visit + 1],
                       looking |-> TRUE, late |-> late, shown |-> Nobody])
        /\ UNCHANGED <<vars, relayVars>>

\* The answer about the connected wallet, or an error.
Look(r) ==
    /\ page[r].looking
    /\ \E leaf \in {LeafOf(page[r].who), Nobody} :
          Turn(r, [page[r] EXCEPT !.looking = FALSE, !.shown = leaf])
    /\ UNCHANGED <<vars, relayVars>>

\* The body of an answer about an earlier wallet.
LookLate(r) ==
    /\ \E w \in page[r].late :
          Turn(r, [page[r] EXCEPT !.late = @ \ {w}, !.shown = LeafOf(w)])
    /\ UNCHANGED <<vars, relayVars>>

\* The connected wallet signs for the lamports that are shown, and the proof
\* that is shown goes to the route for its depth.
OnClaim(r) ==
    LET p == page[r].who
        q == page[r].shown
    IN  /\ request[r] = Idle
        /\ p \in Claimants /\ q \in Claimants
        /\ signed' = signed \cup {ClaimMessage(p, q)}
        /\ IF Inline(q) THEN ReceiveInline(r, p, q) ELSE ReceiveBuffered(r, p, q)
        /\ UNCHANGED <<treasury, treasuryOwner, wallet, marker, buffer, paid, drained, collected>>
        /\ UNCHANGED <<tx, foreign, page>>

PageNext ==
    \/ \E r \in Requests : Connect(r) \/ Look(r) \/ LookLate(r) \/ OnClaim(r)
    \/ RelayNext /\ UNCHANGED page

\* The runtime goes on with a started invocation; nothing else is promised.
Fairness == \A r \in Requests : WF_<<vars, relayVars, page>>(HandlerStep(r) /\ UNCHANGED page)

PageSpec == PageInit /\ [][PageNext]_<<vars, relayVars, page>> /\ Fairness
=============================================================================
