---------------------------- MODULE BondingCurve ----------------------------
(***************************************************************************)
(* The secret-pump program (programs/secret-pump): one bonding curve over  *)
(* one mint, from the mint's creation to graduation.  Curves of different  *)
(* mints share no state but the treasury that collects their fees.         *)
(*                                                                         *)
(* Who holds the tokens outside the vault does not reach the program, and  *)
(* confidential transfers hide it: holders are one number, circulating,    *)
(* and a transfer between them is a stuttering step.                       *)
(***************************************************************************)
EXTENDS Integers

CONSTANTS
    VirtualSol,           \* VIRTUAL_SOL
    VirtualTokens,        \* VIRTUAL_TOKENS
    GraduationThreshold,  \* GRADUATION_THRESHOLD_SOL
    FeeBps, BpsDenom,     \* FEE_BPS / BPS_DENOM
    MaxU64,               \* u64::MAX: the width of the counters
    SolInputs,            \* lamports a buyer may offer
    TokenInputs,          \* tokens a seller may offer
    MinOuts,              \* slippage limits
    Gifts,                \* amounts transferred without a trade
    MaxGift,              \* bound: lamports given beyond the reserves
    MaxOutside            \* bound: tokens minted before create

ASSUME VirtualAssumption ==
    /\ VirtualSol \in Nat \ {0}
    /\ VirtualTokens \in Nat \ {0}
ASSUME FeeAssumption ==
    /\ FeeBps \in Nat
    /\ BpsDenom \in Nat \ {0}
    /\ FeeBps < BpsDenom
ASSUME WidthAssumption ==
    /\ MaxU64 \in Nat
    /\ VirtualTokens <= MaxU64
ASSUME ThresholdAssumption == GraduationThreshold \in Nat \ {0}
\* Instructions carry amounts in u64.
ASSUME InputAssumption ==
    /\ SolInputs \subseteq 0..MaxU64
    /\ TokenInputs \subseteq 0..MaxU64
    /\ MinOuts \subseteq Nat
    /\ Gifts \subseteq Nat
    /\ MaxGift \in Nat

VARIABLES
    mintAuthority,  \* "creator", then "curve" once set to the curve PDA
    circulating,    \* tokens in accounts other than the vault
    created,        \* the curve PDA is initialized
    sol,            \* real_sol_reserves
    tokens,         \* real_token_reserves
    lamports,       \* lamports of the curve PDA above its rent
    vault,          \* token amount of the curve vault
    graduated,
    dispensed,      \* total_tokens_dispensed
    fees,           \* total_fees_collected
    graduations     \* history: GraduationEvents emitted

vars == <<mintAuthority, circulating, created, sol, tokens, lamports, vault,
          graduated, dispensed, fees, graduations>>

K == VirtualSol * VirtualTokens

Supply == vault + circulating

SaturatingAdd(a, b) == IF a + b < MaxU64 THEN a + b ELSE MaxU64

FeeOn(amount) == (amount * FeeBps) \div BpsDenom

IntoCurve(solIn) == solIn - FeeOn(solIn)

-----------------------------------------------------------------------------
(* quote_buy and quote_sell against reserves s and t.                      *)

\* Mutant: the price moves by the gross input, the reserves by the net one.
TokensAfterBuyGross(s, solIn) == K \div (VirtualSol + s + solIn)

\* T_new: the token reserves on the curve once the input is in.
TokensAfterBuy(s, solIn) == K \div (VirtualSol + s + IntoCurve(solIn))

TokensOut(s, t, solIn) == t - TokensAfterBuy(s, solIn)

\* InsufficientReserves and ZeroOutput are the two ways not to have
\* TokensAfterBuy < t.
CanBuy(s, t, solIn, minOut) ==
    /\ ~graduated
    /\ IntoCurve(solIn) > 0
    /\ TokensAfterBuy(s, solIn) < t
    /\ TokensOut(s, t, solIn) >= minOut
    /\ s + IntoCurve(solIn) <= MaxU64

\* Effective SOL pool on the curve once the tokens are in.
PoolAfterSell(t, tokensIn) == K \div (t + tokensIn)

\* Mutant: the pool is rounded up and the reserves forget the dust.
GrossOutRounded(s, t, tokensIn) == VirtualSol + s - (K \div (t + tokensIn + 1))

GrossOut(s, t, tokensIn) == VirtualSol + s - PoolAfterSell(t, tokensIn)

ToSeller(s, t, tokensIn) == GrossOut(s, t, tokensIn) - FeeOn(GrossOut(s, t, tokensIn))

\* Mutant: selling goes on after graduation.
CanSellGraduated(s, t, tokensIn, minOut) ==
    /\ tokensIn > 0
    /\ t + tokensIn <= VirtualTokens
    /\ GrossOut(s, t, tokensIn) \in 1..s
    /\ ToSeller(s, t, tokensIn) >= minOut

CanSell(s, t, tokensIn, minOut) ==
    /\ ~graduated
    /\ tokensIn > 0
    /\ t + tokensIn <= VirtualTokens
    /\ GrossOut(s, t, tokensIn) \in 1..s
    /\ ToSeller(s, t, tokensIn) >= minOut

-----------------------------------------------------------------------------
Init ==
    /\ mintAuthority = "creator"
    /\ circulating = 0
    /\ created = FALSE
    /\ sol = 0
    /\ tokens = 0
    /\ lamports = 0
    /\ vault = 0
    /\ graduated = FALSE
    /\ dispensed = 0
    /\ fees = 0
    /\ graduations = 0

curveVars == <<created, sol, tokens, graduated, dispensed, fees, graduations>>

\* The creator holds the mint authority until it is set to the curve PDA.
MintOutside(n) ==
    /\ mintAuthority = "creator"
    /\ circulating + n <= MaxOutside
    /\ circulating' = circulating + n
    /\ UNCHANGED <<mintAuthority, lamports, vault, curveVars>>

Burn(n) ==
    /\ n <= circulating
    /\ circulating' = circulating - n
    /\ UNCHANGED <<mintAuthority, lamports, vault, curveVars>>

SetMintAuthority ==
    /\ mintAuthority = "creator"
    /\ mintAuthority' = "curve"
    /\ UNCHANGED <<circulating, lamports, vault, curveVars>>

\* Lamports sent to the curve PDA, tokens sent to its vault, without a trade.
GiveLamports(n) ==
    /\ lamports + n <= sol + MaxGift
    /\ lamports' = lamports + n
    /\ UNCHANGED <<mintAuthority, circulating, vault, curveVars>>

GiveTokens(n) ==
    /\ created
    /\ n <= circulating
    /\ circulating' = circulating - n
    /\ vault' = vault + n
    /\ UNCHANGED <<mintAuthority, lamports, curveVars>>

\* Mutant: a mint that already has a supply is accepted.
MintReadyAnySupply == mintAuthority = "curve"

\* The checks of create on the pre-initialized mint.
MintReady == mintAuthority = "curve" /\ Supply = 0

Create ==
    /\ ~created
    /\ MintReady
    /\ created' = TRUE
    /\ vault' = VirtualTokens
    /\ sol' = 0
    /\ tokens' = VirtualTokens
    /\ graduated' = FALSE
    /\ dispensed' = 0
    /\ fees' = 0
    /\ UNCHANGED <<mintAuthority, circulating, lamports, graduations>>

Crosses(s) == s >= GraduationThreshold

Buy(solIn, minOut) ==
    LET out == TokensOut(sol, tokens, solIn)
    IN  /\ created
        /\ CanBuy(sol, tokens, solIn, minOut)
        /\ out <= vault
        /\ lamports' = lamports + IntoCurve(solIn)
        /\ vault' = vault - out
        /\ circulating' = circulating + out
        /\ sol' = sol + IntoCurve(solIn)
        /\ tokens' = tokens - out
        /\ dispensed' = SaturatingAdd(dispensed, out)
        /\ fees' = SaturatingAdd(fees, FeeOn(solIn))
        /\ graduated' = (graduated \/ Crosses(sol'))
        /\ graduations' = IF Crosses(sol') /\ ~graduated THEN graduations + 1 ELSE graduations
        /\ UNCHANGED <<mintAuthority, created>>

\* Mutant: the fee is taken on top of the gross output.
LamportsOutOnTop(s, t, n) == GrossOut(s, t, n) + FeeOn(GrossOut(s, t, n))

\* What a sell takes from the curve PDA: the seller's proceeds and the fee.
LamportsOut(s, t, n) == ToSeller(s, t, n) + FeeOn(GrossOut(s, t, n))

Sell(tokensIn, minOut) ==
    LET gross == GrossOut(sol, tokens, tokensIn)
    IN  /\ created
        /\ CanSell(sol, tokens, tokensIn, minOut)
        /\ tokensIn <= circulating
        /\ LamportsOut(sol, tokens, tokensIn) <= lamports
        /\ circulating' = circulating - tokensIn
        /\ vault' = vault + tokensIn
        /\ lamports' = lamports - LamportsOut(sol, tokens, tokensIn)
        /\ sol' = sol - gross
        /\ tokens' = tokens + tokensIn
        /\ fees' = SaturatingAdd(fees, FeeOn(gross))
        /\ UNCHANGED <<mintAuthority, created, graduated, dispensed, graduations>>

Trade ==
    \/ \E solIn \in SolInputs, minOut \in MinOuts : Buy(solIn, minOut)
    \/ \E tokensIn \in TokenInputs, minOut \in MinOuts : Sell(tokensIn, minOut)

Outside ==
    \/ \E n \in Gifts : MintOutside(n) \/ Burn(n) \/ GiveLamports(n) \/ GiveTokens(n)
    \/ SetMintAuthority

Next == Create \/ Trade \/ Outside

Spec == Init /\ [][Next]_vars

-----------------------------------------------------------------------------
(* Properties *)

TypeOK ==
    /\ mintAuthority \in {"creator", "curve"}
    /\ created \in BOOLEAN
    /\ graduated \in BOOLEAN
    /\ sol \in 0..MaxU64
    /\ tokens \in 0..MaxU64
    /\ dispensed \in 0..MaxU64
    /\ fees \in 0..MaxU64
    /\ circulating \in Nat
    /\ lamports \in Nat
    /\ vault \in Nat
    /\ graduations \in Nat

\* (V+S)*T stays within one unit of each reserve of K, however many trades
\* have rounded it: the dust of quote_buy and quote_sell does not add up.
DriftNeverAddsUp ==
    created => /\ (VirtualSol + sol) * tokens <= K
               /\ K < (VirtualSol + sol + 1) * (tokens + 1)

\* The branches that quote_buy and quote_sell take to be unreachable, or a
\* matter of dust near the edge, are unreachable after every history of trades:
\* no input makes T_new exceed T, the effective pool grow on a sell, or a sell
\* within the cap ask for more than the real reserves.
QuotesNeverBreak ==
    created =>
        /\ \A solIn \in SolInputs \ {0} : TokensAfterBuy(sol, solIn) <= tokens
        /\ \A tokensIn \in TokenInputs \ {0} :
              tokens + tokensIn <= VirtualTokens =>
                 GrossOut(sol, tokens, tokensIn) \in 0..sol

\* The recorded reserves are there: lamports on the PDA and tokens in the
\* vault cover them, whatever is given to either on the side.
ReservesBacked == lamports >= sol /\ (created => vault >= tokens)

\* No token outside the vault was minted outside the curve, so no holder is
\* ever refused by the cap on sales (tokens + tokens_in <= VIRTUAL_TOKENS).
EveryTokenSellable == created => tokens + circulating <= VirtualTokens

\* Until graduation the holders together can always leave: if nobody burned
\* or gave away tokens, selling all that circulates is accepted and takes the
\* SOL reserves to exactly zero.
HoldersCanLeave ==
    created /\ ~graduated /\ sol > 0 /\ tokens + circulating = VirtualTokens
      => /\ CanSell(sol, tokens, circulating, 0)
         /\ GrossOut(sol, tokens, circulating) = sol

\* "No money printer": whatever happened before, buying and selling back at
\* once never returns more lamports than went in, and selling and buying back
\* never returns more tokens.
RoundTripNeverProfits ==
    created =>
        /\ \A solIn \in SolInputs :
              LET out == TokensOut(sol, tokens, solIn)
                  s   == sol + IntoCurve(solIn)
                  t   == TokensAfterBuy(sol, solIn)
              IN  CanBuy(sol, tokens, solIn, 0) /\ CanSell(s, t, out, 0)
                    => ToSeller(s, t, out) <= solIn
        /\ \A tokensIn \in TokenInputs :
              LET s == sol - GrossOut(sol, tokens, tokensIn)
                  t == tokens + tokensIn
              IN  CanSell(sol, tokens, tokensIn, 0)
                    => TokensOut(s, t, ToSeller(sol, tokens, tokensIn)) <= tokensIn

\* One GraduationEvent per curve, in the trade that reaches the threshold.
GraduatesOnce ==
    /\ graduated <=> sol >= GraduationThreshold
    /\ graduations = IF graduated THEN 1 ELSE 0

\* A graduated curve never trades again.
GraduationIsFinal ==
    [][graduated => /\ UNCHANGED <<sol, tokens, graduated, graduations>>
                    /\ lamports' >= lamports
                    /\ vault' >= vault]_vars
=============================================================================
