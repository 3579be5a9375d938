----------------------------- MODULE ClaimRelay -----------------------------
(***************************************************************************)
(* The sponsored claims on top of the lazy-claim program: the buffered     *)
(* route (frontend/app/api/claim/relay-buffered/route.ts), whose every     *)
(* request is a serverless invocation that stages a proof in the sponsor's *)
(* buffer, one transaction at a time, and then claims from it; and the     *)
(* inline route (frontend/app/api/claim/relay/route.ts), which sends one   *)
(* claim and answers without waiting for it.  Requests for the same        *)
(* claimant (a second tab, a retry after an error) run side by side, share *)
(* the buffer and spend from the same sponsor.                             *)
(*                                                                         *)
(* Between any two steps other requests and the claimants themselves act,  *)
(* and strangers write into the sponsor's buffers, which the program lets  *)
(* anyone do; a transaction that was sent lands late, fails or expires;    *)
(* the poll for it gives up after MAX_POLL_MS; the platform kills the      *)
(* invocation.                                                             *)
(*                                                                         *)
(* A request carries the message the claimant signed, which the routes     *)
(* check against its pubkey and lamports, and the leaf index and proof of  *)
(* some leaf, which only the program checks.  Who asks for what is the     *)
(* claim page's part (ClaimPage).                                          *)
(***************************************************************************)
EXTENDS LazyClaim

CONSTANTS
    Requests,         \* invocations of POST
    Sponsor,          \* CLAIM_RELAY_SPONSOR_KEYPAIR_JSON
    LowBalance,       \* RELAY_LOW_BALANCE_LAMPORTS of the buffered route
    InlineLowBalance, \* and of the inline route
    InlineMax,        \* PROOF_BUFFER_THRESHOLD: the deepest proof sent inline
    ChunkLen,         \* siblings per write: 800 bytes
    MaxForeign        \* bound: siblings of open buffers that strangers overwrote

\* A proof as deep as q's fits into one transaction.
Inline(q) == Len(Path[q]) <= InlineMax

ASSUME RelayAssumption ==
    /\ Sponsor \in Payers
    /\ LowBalance \in Nat /\ InlineLowBalance \in Nat
    /\ InlineMax \in Nat
    /\ ChunkLen \in Nat \ {0}
    /\ MaxForeign \in Nat
    /\ \A q \in Claimants : Inline(q) \/ Len(Path[q]) \in BufferLens \ {0}

VARIABLES
    request,   \* request[r]: where invocation r is
    tx,        \* tx[r]: the transaction of r's present stage
    foreign    \* history: foreign[p], where strangers wrote into p's buffer of
               \* the sponsor since it was allocated

relayVars == <<request, tx, foreign>>

NumChunks(q) == (Len(Path[q]) + ChunkLen - 1) \div ChunkLen

\* Mutant: a chunk that does not fill up is dropped.
FullChunks(q, i) ==
    SubSeq(Path[q], (i - 1) * ChunkLen + 1,
           IF i * ChunkLen <= Len(Path[q]) THEN i * ChunkLen ELSE (i - 1) * ChunkLen)

\* planProofBufferWrites: chunk i of the proof, counted from 1.
Chunk(q, i) ==
    SubSeq(Path[q], (i - 1) * ChunkLen + 1,
           IF i * ChunkLen <= Len(Path[q]) THEN i * ChunkLen ELSE Len(Path[q]))

\* Stage i <= NumChunks writes chunk i, the one after them claims; an inline
\* request has that one only.
ClaimStage(q) == IF Inline(q) THEN 1 ELSE NumChunks(q) + 1

Idle == [phase |-> "idle"]
Running(r) == request[r].phase \in {"sending", "polling"}

-----------------------------------------------------------------------------
(* What a transaction of the sponsor does when it executes, for claimant p *)
(* and the leaf and proof of q.                                            *)

\* buildClaimMessage: what p signs, for the lamports of q's leaf.
ClaimMessage(p, q) == <<p, Leaf[q]>>

\* The precompile instruction ahead of a claim: the signature verifies.
Precompile(p, q) == ClaimMessage(p, q) \in signed

Write(p, q, i) == WriteProofBuffer(p, Sponsor, (i - 1) * ChunkLen, Chunk(q, i))

\* init_proof_buffer and the first write, in one transaction.
InitAndWrite(p, q) ==
    LET n == Len(Path[q])
    IN  /\ buffer[<<p, Sponsor>>] = NoBuffer
        /\ Rent[n] <= wallet[Sponsor]
        /\ buffer' = [buffer EXCEPT ![<<p, Sponsor>>] =
                        WriteInto(NewBuffer(n), 0, Chunk(q, 1))]
        /\ wallet' = [wallet EXCEPT ![Sponsor] = @ - Rent[n]]
        /\ UNCHANGED <<treasury, treasuryOwner, marker, signed, paid, drained, collected>>

\* The flags in the instruction are those of q's index, on whose sides no other
\* leaf leads to the root, whatever the siblings.
FlagsFit(p, q) == p = q

\* buildClaimInstructionWithSponsor: everything in the instruction's data.
ClaimInTx(p, q) ==
    Precompile(p, q) /\ FlagsFit(p, q) /\ Claim(p, Leaf[q], Sponsor, Path[q])

\* buildClaimFromBufferIxWithSponsor: the proof is in the buffer.
ClaimStaged(p, q) ==
    /\ Precompile(p, q)
    /\ FlagsFit(p, q)
    /\ ClaimFromBuffer(p, Leaf[q], Sponsor, Len(Path[q]))

Execute(r) ==
    LET p == request[r].claimant
        q == request[r].leaf
        i == request[r].stage
    IN  IF Inline(q) THEN ClaimInTx(p, q)
        ELSE IF i = ClaimStage(q) THEN ClaimStaged(p, q)
        ELSE IF i = 1 /\ ~request[r].exists THEN InitAndWrite(p, q)
        ELSE Write(p, q, i)

CanClaim(p, q, proof) ==
    Precompile(p, q) /\ FlagsFit(p, q) /\ CanFinalize(p, Leaf[q], Sponsor, proof)

\* The transaction would succeed, or does, in the state as it is: it passes the
\* checks of each of its instructions.
Executable(r) ==
    LET p == request[r].claimant
        q == request[r].leaf
        i == request[r].stage
        b == buffer[<<p, Sponsor>>]
    IN  IF Inline(q) THEN CanClaim(p, q, Path[q])
        ELSE IF i = ClaimStage(q)
        THEN /\ b # NoBuffer
             /\ BufferReady(b, Len(Path[q]))
             /\ CanClaim(p, q, StagedProof(b, Len(Path[q])))
        ELSE IF i = 1 /\ ~request[r].exists
        THEN b = NoBuffer /\ Rent[Len(Path[q])] <= wallet[Sponsor]
        ELSE b # NoBuffer /\ (i - 1) * ChunkLen + Len(Chunk(q, i)) <= b.total_len

-----------------------------------------------------------------------------
(* The handler.                                                            *)

RelayInit ==
    /\ Init
    /\ request = [r \in Requests |-> Idle]
    /\ tx = [r \in Requests |-> "none"]
    /\ foreign = [p \in Claimants |-> {}]

Move(r, changes) == request' = [request EXCEPT ![r] = changes]

\* The balance gates of the two routes.
Affords == wallet[Sponsor] >= LowBalance
AffordsInline == wallet[Sponsor] >= InlineLowBalance

Refused(p, q) == [phase |-> "failed", claimant |-> p, leaf |-> q]
Taken(p, q, found) ==
    [phase |-> "sending", claimant |-> p, leaf |-> q, stage |-> 1, exists |-> found]

\* The inline route: the message, the sponsor and its balance.
ReceiveInline(r, p, q) ==
    Move(r, IF AffordsInline THEN Taken(p, q, FALSE) ELSE Refused(p, q))

\* The buffered one also looks for the buffer; a failed look counts as absent.
ReceiveBuffered(r, p, q) ==
    \/ ~Affords /\ Move(r, Refused(p, q))
    \/ Affords /\ \E found \in {FALSE, buffer[<<p, Sponsor>>] # NoBuffer} :
                      Move(r, Taken(p, q, found))

\* What the sender does after sendRawTransaction: the inline route answers.
AfterSend(r) ==
    [request[r] EXCEPT !.phase = IF Inline(request[r].leaf) THEN "submitted" ELSE "polling"]

\* sendRawTransaction: preflight simulates the transaction first.
Send(r) ==
    /\ request[r].phase = "sending"
    /\ IF Executable(r)
       THEN Move(r, AfterSend(r)) /\ tx' = [tx EXCEPT ![r] = "inflight"]
       ELSE Move(r, [request[r] EXCEPT !.phase = "failed"]) /\ UNCHANGED tx
    /\ UNCHANGED <<vars, foreign>>

\* What strangers wrote goes with the buffer.
ForeignInOpen ==
    [p \in Claimants |-> IF buffer'[<<p, Sponsor>>] = NoBuffer THEN {} ELSE foreign[p]]

\* The cluster executes the transaction, or drops it for good.
Land(r) ==
    /\ tx[r] = "inflight"
    /\ \/ Execute(r) /\ tx' = [tx EXCEPT ![r] = "ok"] /\ foreign' = ForeignInOpen
       \/ ~Executable(r) /\ tx' = [tx EXCEPT ![r] = "err"] /\ UNCHANGED <<vars, foreign>>
    /\ UNCHANGED request

Expire(r) ==
    /\ tx[r] = "inflight"
    /\ tx' = [tx EXCEPT ![r] = "expired"]
    /\ UNCHANGED <<vars, request, foreign>>

\* Mutant: the last write is taken for the claim.
NextStageEarly(r) ==
    IF request[r].stage >= NumChunks(request[r].leaf)
    THEN [request[r] EXCEPT !.phase = "done"]
    ELSE [request[r] EXCEPT !.phase = "sending", !.stage = @ + 1]

\* After a confirmed transaction: the next one, or the answer.
NextStage(r) ==
    IF request[r].stage = ClaimStage(request[r].leaf)
    THEN [request[r] EXCEPT !.phase = "done"]
    ELSE [request[r] EXCEPT !.phase = "sending", !.stage = @ + 1]

\* One round of getSignatureStatuses that finds the transaction.
Poll(r) ==
    /\ request[r].phase = "polling"
    /\ \/ /\ tx[r] = "ok"
          /\ Move(r, NextStage(r))
          /\ tx' = [tx EXCEPT ![r] = IF NextStage(r).phase = "sending" THEN "none" ELSE @]
       \/ tx[r] = "err" /\ Move(r, [request[r] EXCEPT !.phase = "failed"]) /\ UNCHANGED tx
    /\ UNCHANGED <<vars, foreign>>

\* Mutant: the poll waits for as long as nothing comes back.
TimeOutLanded(r) == tx[r] \in {"ok", "err"}

\* MAX_POLL_MS passes; the transaction may still land afterwards.
PollExpires(r) == request[r].phase = "polling"

TimeOut(r) ==
    /\ request[r].phase = "polling"
    /\ PollExpires(r)
    /\ Move(r, [request[r] EXCEPT !.phase = "failed"])
    /\ UNCHANGED <<vars, tx, foreign>>

\* maxDuration, a crash, or an exception in an RPC call.
Kill(r) ==
    /\ Running(r)
    /\ Move(r, [request[r] EXCEPT !.phase = "failed"])
    /\ UNCHANGED <<vars, tx, foreign>>

\* Claimants also claim elsewhere: with the CLI, through another payer.
ClaimantActs ==
    /\ \/ \E p \in Claimants : SignClaimMessage(p, Leaf[p])
       \/ \E p \in Claimants, payer \in Payers \ {Sponsor} : Claim(p, Leaf[p], payer, Path[p])
    /\ UNCHANGED relayVars

\* The siblings in the sponsor's buffers that are not the sponsor's own.
Foreign == UNION {foreign[p] \X {p} : p \in Claimants}

\* process_write_proof_buffer asks for no signer: a stranger writes anything,
\* anywhere, into a buffer of the sponsor.
StrangerWrites ==
    /\ \E p \in Claimants, n \in BufferLens, bytes \in WriteChunks : \E off \in 0..n :
          /\ WriteProofBuffer(p, Sponsor, off, bytes)
          /\ foreign' = [foreign EXCEPT ![p] = @ \cup (off + 1)..(off + Len(bytes))]
    /\ Cardinality(Foreign') <= MaxForeign
    /\ UNCHANGED <<request, tx>>

HandlerStep(r) == Send(r) \/ Poll(r) \/ TimeOut(r)

\* Everything but the arrival of requests.
RelayNext ==
    \/ ClaimantActs
    \/ StrangerWrites
    \/ \E r \in Requests : HandlerStep(r) \/ Land(r) \/ Expire(r) \/ Kill(r)

-----------------------------------------------------------------------------
(* Properties *)

\* Some other request for p's claim brought the proof of another leaf.
ProofsMixed(r, p) ==
    \E o \in Requests \ {r} :
        request[o] # Idle /\ request[o].claimant = p /\ request[o].leaf # request[r].leaf

\* A buffered request that gets to its claim transaction finds a buffer that is
\* ready and holds the whole of its proof but for the siblings that strangers
\* overwrote, whatever other requests wrote, closed or allocated meanwhile,
\* unless the claimant has been paid already or another request staged the
\* proof of another leaf in the same buffer.
StagedBeforeClaim ==
    \A r \in Requests :
        Running(r) /\ ~Inline(request[r].leaf)
        /\ request[r].stage = ClaimStage(request[r].leaf)
          => LET p == request[r].claimant
                 q == request[r].leaf
             IN  \/ p \in Claimed
                 \/ ProofsMixed(r, p)
                 \/ /\ buffer[<<p, Sponsor>>] # NoBuffer
                    /\ BufferReady(buffer[<<p, Sponsor>>], Len(Path[q]))
                    /\ \A i \in 1..Len(Path[q]) :
                          \/ i \in foreign[p]
                          \/ StagedProof(buffer[<<p, Sponsor>>], Len(Path[q]))[i] = Path[q][i]

\* A request whose claim landed, answered or not.
Paying(r) == tx[r] = "ok" /\ request[r].stage = ClaimStage(request[r].leaf)

\* What is answered is true: a claim_signature is of a claim that paid; a
\* signature answered without waiting is of a claim of the claimant's own leaf,
\* which fails only because the claimant was paid by another or the money ran
\* out (the sponsor's may come back if it has a claim of its own); and of several
\* requests for a claimant at most one has a claim that pays.
AnswersAreTrue ==
    \A r \in Requests : request[r].phase \in {"done", "submitted"} =>
        LET p == request[r].claimant
        IN  /\ request[r].leaf = p
            /\ request[r].phase = "done" => Paying(r)
            /\ Paying(r) => /\ paid[p] = Leaf[p]
                            /\ \A o \in Requests \ {r} :
                                  request[o] # Idle /\ request[o].claimant = p => ~Paying(o)
            /\ tx[r] = "err" => \/ p \in Claimed
                                \/ treasury < Leaf[p]
                                \/ wallet[Sponsor] < MarkerRent \/ Sponsor \in Claimed

\* Every request that was taken up is answered: as none is taken up twice,
\* again and again there is none without its answer.
EveryRequestAnswered == []<>(\A r \in Requests : ~Running(r))

\* "If we abort mid-flow, the buffer stays open with rent locked to the
\* sponsor; a retry of the same (pubkey, sponsor) pair re-uses the buffer":
\* a buffer with no request at work can still be used by a later one.
OpenBufferReusable ==
    \A p \in Claimants :
        buffer[<<p, Sponsor>>] # NoBuffer
        /\ (\A r \in Requests : Running(r) => request[r].claimant # p)
          => p \notin Claimed
=============================================================================
