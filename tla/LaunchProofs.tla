---------------------------- MODULE LaunchProofs ----------------------------
(***************************************************************************)
(* Proofs about the bonding curve, and about launch pages, trade pages and *)
(* wallets that trade on it.                                               *)
(*                                                                         *)
(* The first part is about BondingCurve, for every pair of virtual         *)
(* reserves, every fee below 100% and every history of trades.  The        *)
(* argument is arithmetic: floor division keeps the reserves within one    *)
(* unit of the hyperbola (V+S)*T = K, wherever on it the previous trade    *)
(* left them.                                                              *)
(*                                                                         *)
(* The second part carries the promises of the curve over to Launch, where *)
(* trades are instructions of transactions that pages compose, and proves  *)
(* what Launch adds: which instructions a page may put beside a trade, and *)
(* why an order is refused.                                                *)
(*                                                                         *)
(* The third part is about the table of trades that the cron job keeps: it *)
(* bounds, trade by trade, how far a replay of what wallets paid and got   *)
(* can drift from the reserves of the curve.                               *)
(***************************************************************************)
EXTENDS Launch, SharedLemmas, TLAPS

-----------------------------------------------------------------------------
(* Floor division.                                                         *)

\* A quotient is a floor.
LEMMA DivBounds ==
    ASSUME NEW a \in Nat, NEW b \in Nat \ {0}
    PROVE  /\ a \div b \in Nat
           /\ (a \div b) * b <= a
           /\ a < (a \div b + 1) * b
  OBVIOUS

\* Products grow with their factors.
LEMMA MulMono ==
    ASSUME NEW a \in Nat, NEW b \in Nat, NEW c \in Nat, a <= b
    PROVE  a * c <= b * c
  OBVIOUS

\* The quotient is the largest q with q * b <= a.
LEMMA DivAtLeast ==
    ASSUME NEW a \in Nat, NEW b \in Nat \ {0}, NEW q \in Nat, q * b <= a
    PROVE  q <= a \div b
  <1> DEFINE d == a \div b
  <1>1. d \in Nat /\ a < (d + 1) * b
    BY DivBounds
  <1> HIDE DEF d
  <1>2. SUFFICES ASSUME q > d PROVE FALSE
    BY <1>1 DEF d
  <1>3. (d + 1) * b <= q * b
    BY <1>1, <1>2, MulMono
  <1>4. q * b \in Nat /\ (d + 1) * b \in Nat
    BY <1>1
  <1>5. QED
    BY <1>1, <1>3, <1>4

\* A bound on the product bounds the quotient.
LEMMA DivAtMost ==
    ASSUME NEW a \in Nat, NEW b \in Nat \ {0}, NEW q \in Nat, a < (q + 1) * b
    PROVE  a \div b <= q
  <1> DEFINE d == a \div b
  <1>1. d \in Nat /\ d * b <= a
    BY DivBounds
  <1> HIDE DEF d
  <1>2. SUFFICES ASSUME d > q PROVE FALSE
    BY <1>1 DEF d
  <1>3. (q + 1) * b <= d * b
    BY <1>1, <1>2, MulMono
  <1>4. d * b \in Nat /\ (q + 1) * b \in Nat
    BY <1>1
  <1>5. QED
    BY <1>1, <1>3, <1>4

-----------------------------------------------------------------------------
(* Fees and the product K.                                                 *)

\* The constant of the curve.
LEMMA KFacts == K \in Nat /\ K = VirtualSol * VirtualTokens
  BY VirtualAssumption DEF K

\* The fee is a part of the amount, and a proper part of a positive one.
LEMMA FeeBounds ==
    ASSUME NEW amount \in Nat
    PROVE  /\ FeeOn(amount) \in 0..amount
           /\ amount > 0 => IntoCurve(amount) > 0
           /\ IntoCurve(amount) \in 0..amount
  <1> DEFINE p == amount * FeeBps
  <1>1. p \in Nat /\ BpsDenom \in Nat \ {0}
    BY FeeAssumption
  <1>2. p <= amount * BpsDenom
    BY FeeAssumption, MulMono
  <1>3. FeeOn(amount) \in Nat /\ FeeOn(amount) * BpsDenom <= p
    BY <1>1, DivBounds DEF FeeOn
  <1>4. p < (amount + 1) * BpsDenom
    <2>1. (amount + 1) * BpsDenom = amount * BpsDenom + BpsDenom
      BY <1>1
    <2>2. amount * BpsDenom \in Nat
      BY <1>1
    <2>3. QED
      BY <1>1, <1>2, <2>1, <2>2
  <1>5. FeeOn(amount) <= amount
    BY <1>1, <1>4, DivAtMost DEF FeeOn
  <1>6. ASSUME amount > 0 PROVE FeeOn(amount) <= amount - 1
    <2>1. p < amount * BpsDenom
      BY <1>6, FeeAssumption
    <2>2. QED
      BY <1>1, <1>6, <2>1, DivAtMost DEF FeeOn
  <1>7. QED
    BY <1>3, <1>5, <1>6 DEF IntoCurve

-----------------------------------------------------------------------------
(* One trade, from reserves next to the hyperbola.                         *)

NearHyperbola(s, t) ==
    /\ (VirtualSol + s) * t <= K
    /\ K < (VirtualSol + s + 1) * (t + 1)

\* A buy stays next to the hyperbola and never finds T_new above T.
LEMMA BuyStaysNear ==
    ASSUME NEW s \in Nat, NEW t \in Nat, NearHyperbola(s, t),
           NEW solIn \in Nat, IntoCurve(solIn) > 0
    PROVE  /\ TokensAfterBuy(s, solIn) \in 0..t
           /\ NearHyperbola(s + IntoCurve(solIn), TokensAfterBuy(s, solIn))
  <1> DEFINE x == IntoCurve(solIn)
             n == VirtualSol + s + x
             u == TokensAfterBuy(s, solIn)
  <1>1. x \in Nat /\ x > 0
    BY FeeBounds
  <1>2. n \in Nat \ {0} /\ n >= VirtualSol + s + 1
    BY <1>1, VirtualAssumption
  <1>3. u = K \div n
    BY DEF TokensAfterBuy
  <1>4. u \in Nat /\ u * n <= K /\ K < (u + 1) * n
    BY <1>2, <1>3, KFacts, DivBounds
  <1>5. K < (t + 1) * n
    <2>1. (VirtualSol + s + 1) * (t + 1) <= n * (t + 1)
      BY <1>2, VirtualAssumption, MulMono
    <2>2. n * (t + 1) = (t + 1) * n
      BY <1>2
    <2>3. K < (VirtualSol + s + 1) * (t + 1)
      BY DEF NearHyperbola
    <2>4. (VirtualSol + s + 1) * (t + 1) \in Nat /\ n * (t + 1) \in Nat /\ K \in Nat
      BY <1>2, VirtualAssumption, KFacts
    <2>5. QED
      BY <2>1, <2>2, <2>3, <2>4
  <1>6. u <= t
    BY <1>2, <1>3, <1>5, KFacts, DivAtMost
  <1>7. (u + 1) * n <= (n + 1) * (u + 1)
    BY <1>2, <1>4
  <1>8. VirtualSol + (s + x) = n
    BY <1>1, VirtualAssumption
  <1>9. NearHyperbola(s + x, u)
    <2>1. (VirtualSol + (s + x)) * u <= K
      BY <1>2, <1>4, <1>8
    <2>2. K < (n + 1) * (u + 1)
      BY <1>2, <1>4, <1>7, KFacts
    <2>3. QED
      BY <1>8, <2>1, <2>2 DEF NearHyperbola
  <1>10. QED
    BY <1>4, <1>6, <1>9

\* A sell within the cap stays next to the hyperbola, and takes out at most
\* the real reserves: the virtual ones are never touched.
LEMMA SellStaysNear ==
    ASSUME NEW s \in Nat, NEW t \in Nat, NearHyperbola(s, t),
           NEW y \in Nat, y > 0, t + y <= VirtualTokens
    PROVE  /\ GrossOut(s, t, y) \in 0..s
           /\ NearHyperbola(s - GrossOut(s, t, y), t + y)
  <1> DEFINE n == t + y
             e == PoolAfterSell(t, y)
  <1>1. n \in Nat \ {0} /\ n >= t + 1 /\ n <= VirtualTokens
    OBVIOUS
  <1>2. e = K \div n
    BY DEF PoolAfterSell
  <1>3. e \in Nat /\ e * n <= K /\ K < (e + 1) * n
    BY <1>1, <1>2, KFacts, DivBounds
  <1>4. e <= VirtualSol + s
    <2>1. (t + 1) * (VirtualSol + s + 1) <= n * (VirtualSol + s + 1)
      BY <1>1, VirtualAssumption, MulMono
    <2>2. K < (VirtualSol + s + 1) * (t + 1)
      BY DEF NearHyperbola
    <2>3. /\ (VirtualSol + s + 1) * (t + 1) = (t + 1) * (VirtualSol + s + 1)
          /\ n * (VirtualSol + s + 1) = (VirtualSol + s + 1) * n
          /\ (VirtualSol + s + 1) * n \in Nat /\ (t + 1) * (VirtualSol + s + 1) \in Nat
      BY <1>1, VirtualAssumption
    <2>4. K < (VirtualSol + s + 1) * n
      BY <2>1, <2>2, <2>3, KFacts
    <2>5. QED
      BY <1>1, <1>2, <2>4, KFacts, VirtualAssumption, DivAtMost
  <1>5. VirtualSol <= e
    <2>1. n * VirtualSol <= VirtualTokens * VirtualSol
      BY <1>1, VirtualAssumption, MulMono
    <2>2. VirtualSol * n <= K
      BY <1>1, <2>1, VirtualAssumption, KFacts
    <2>3. QED
      BY <1>1, <1>2, <2>2, KFacts, VirtualAssumption, DivAtLeast
  <1>6. GrossOut(s, t, y) = VirtualSol + s - e
    BY DEF GrossOut
  <1>7. GrossOut(s, t, y) \in 0..s
    BY <1>3, <1>4, <1>5, <1>6, VirtualAssumption
  <1>8. VirtualSol + (s - GrossOut(s, t, y)) = e
    BY <1>3, <1>6, VirtualAssumption
  <1>9. (e + 1) * n <= (e + 1) * (n + 1)
    BY <1>1, <1>3
  <1>10. NearHyperbola(s - GrossOut(s, t, y), n)
    <2>1. K < (e + 1) * (n + 1)
      BY <1>1, <1>3, <1>9, KFacts
    <2>2. QED
      BY <1>3, <1>8, <2>1 DEF NearHyperbola
  <1>11. QED
    BY <1>7, <1>10

-----------------------------------------------------------------------------
(* The inductive invariant.                                                *)

\* The properties of a created curve, and what create relies on before it:
\* nothing is in the curve yet, and from create on nobody else can mint.
CurveInv ==
    /\ TypeOK
    /\ created => NearHyperbola(sol, tokens) /\ mintAuthority = "curve"
    /\ ~created => sol = 0 /\ vault = 0 /\ ~graduated
    /\ ReservesBacked
    /\ EveryTokenSellable
    /\ created => vault + circulating <= VirtualTokens
    /\ GraduatesOnce

\* Before the launch there is no curve.
LEMMA CurveInit == Init => CurveInv
  <1> SUFFICES ASSUME Init PROVE CurveInv
    OBVIOUS
  <1>1. ~created /\ ~graduated /\ sol = 0 /\ graduations = 0
    BY DEF Init
  <1>2. TypeOK
    <2>1. 0 \in 0..MaxU64 /\ 0 \in Nat
      BY WidthAssumption
    <2>2. QED
      BY <2>1, Zenon DEF Init, TypeOK
  <1>3. GraduatesOnce
    BY <1>1, ThresholdAssumption DEF GraduatesOnce
  <1>4. QED
    BY <1>1, <1>2, <1>3 DEF Init, CurveInv, ReservesBacked, EveryTokenSellable

\* Saturating addition stays in 64 bits.
LEMMA SaturatingAddFits ==
    ASSUME NEW a \in Nat, NEW b \in Nat
    PROVE  SaturatingAdd(a, b) \in 0..MaxU64
  BY WidthAssumption DEF SaturatingAdd

\* A new curve is on the hyperbola.
LEMMA CreateKeeps ==
    ASSUME CurveInv, Create
    PROVE  CurveInv'
  <1>1. /\ created' /\ vault' = VirtualTokens /\ tokens' = VirtualTokens /\ sol' = 0
        /\ circulating' = 0 /\ circulating = 0 /\ mintAuthority' = "curve"
        /\ graduated' = FALSE /\ dispensed' = 0 /\ fees' = 0
        /\ lamports' = lamports /\ graduations' = graduations
    BY DEF Create, MintReady, Supply, CurveInv, TypeOK
  <1>2. NearHyperbola(0, VirtualTokens)
    <2>1. (VirtualSol + 1) * (VirtualTokens + 1) = VirtualSol * VirtualTokens + VirtualSol + VirtualTokens + 1
      BY VirtualAssumption
    <2>2. VirtualSol * VirtualTokens \in Nat
      BY VirtualAssumption
    <2>3. QED
      BY <2>1, <2>2, VirtualAssumption DEF NearHyperbola, K
  <1>3. NearHyperbola(sol', tokens')
    BY <1>1, <1>2
  <1>4. TypeOK'
    <2>1. 0 \in 0..MaxU64 /\ VirtualTokens \in 0..MaxU64 /\ 0 \in Nat /\ VirtualTokens \in Nat
      BY VirtualAssumption, WidthAssumption
    <2>2. QED
      BY <1>1, <2>1, Zenon DEF CurveInv, TypeOK
  <1>5. GraduatesOnce'
    BY <1>1, ThresholdAssumption DEF CurveInv, GraduatesOnce, Create
  <1>6. QED
    BY <1>1, <1>3, <1>4, <1>5, VirtualAssumption
       DEF CurveInv, TypeOK, ReservesBacked, EveryTokenSellable, NearHyperbola

\* A buy leaves the reserves near it,
LEMMA BuyKeeps ==
    ASSUME CurveInv, NEW solIn \in Nat, NEW minOut, Buy(solIn, minOut)
    PROVE  CurveInv'
  <1> DEFINE x == IntoCurve(solIn)
             u == TokensAfterBuy(sol, solIn)
  <1>1. /\ created /\ created' /\ ~graduated /\ x > 0
        /\ mintAuthority' = mintAuthority
        /\ lamports' = lamports + x
        /\ vault' = vault - (tokens - u) /\ tokens - u <= vault
        /\ circulating' = circulating + (tokens - u)
        /\ sol' = sol + x
        /\ tokens' = tokens - (tokens - u)
        /\ sol + x <= MaxU64
    BY DEF Buy, CanBuy, TokensOut
  <1>2. solIn \in Nat /\ sol \in Nat /\ tokens \in Nat
    BY InputAssumption DEF CurveInv, TypeOK
  <1>3. x \in Nat /\ FeeOn(solIn) \in Nat
    BY <1>2, FeeBounds
  <1>4. u \in 0..tokens /\ NearHyperbola(sol + x, u)
    BY <1>1, <1>2, BuyStaysNear DEF CurveInv
  <1>5. /\ dispensed' = SaturatingAdd(dispensed, tokens - u)
        /\ fees' = SaturatingAdd(fees, FeeOn(solIn))
        /\ graduated' = (graduated \/ Crosses(sol'))
        /\ graduations' = IF Crosses(sol') /\ ~graduated THEN graduations + 1 ELSE graduations
    BY DEF Buy, TokensOut
  <1> HIDE DEF x, u
  <1>6. tokens' = u
    BY <1>1, <1>2, <1>4
  <1>7. /\ sol' \in 0..MaxU64 /\ tokens' \in 0..MaxU64 /\ lamports' \in Nat /\ vault' \in Nat
        /\ circulating' \in Nat
    BY <1>1, <1>2, <1>3, <1>4, <1>6, WidthAssumption DEF CurveInv, TypeOK
  <1>8. dispensed' \in 0..MaxU64 /\ fees' \in 0..MaxU64
    <2>1. tokens - u \in Nat /\ dispensed \in Nat /\ fees \in Nat
      BY <1>2, <1>4 DEF CurveInv, TypeOK
    <2>2. QED
      BY <1>3, <1>5, <2>1, SaturatingAddFits
  <1>9. graduated' \in BOOLEAN /\ graduations' \in Nat
    BY <1>5 DEF CurveInv, TypeOK, Crosses
  <1>10. TypeOK'
    BY <1>1, <1>7, <1>8, <1>9 DEF CurveInv, TypeOK
  <1>11. ReservesBacked' /\ EveryTokenSellable' /\ vault' + circulating' <= VirtualTokens
    BY <1>1, <1>2, <1>3, <1>4, <1>6, VirtualAssumption
       DEF CurveInv, TypeOK, ReservesBacked, EveryTokenSellable
  <1>12. GraduatesOnce'
    <2>1. graduated' <=> Crosses(sol')
      BY <1>1, <1>5, Zenon
    <2>2. graduations = 0
      BY <1>1 DEF CurveInv, GraduatesOnce
    <2>3. graduations' = IF Crosses(sol') THEN 1 ELSE 0
      BY <1>1, <1>5, <2>2
    <2>4. QED
      BY <2>1, <2>3 DEF GraduatesOnce, Crosses
  <1>13. QED
    BY <1>1, <1>4, <1>6, <1>10, <1>11, <1>12 DEF CurveInv

\* and so does a sell,
LEMMA SellKeeps ==
    ASSUME CurveInv, NEW y \in Nat, NEW minOut, Sell(y, minOut)
    PROVE  CurveInv'
  <1> DEFINE g == GrossOut(sol, tokens, y)
  <1>1. /\ created /\ created' /\ ~graduated /\ graduated' = graduated
        /\ graduations' = graduations /\ dispensed' = dispensed
        /\ y > 0 /\ tokens + y <= VirtualTokens /\ y <= circulating
        /\ mintAuthority' = mintAuthority
        /\ circulating' = circulating - y
        /\ vault' = vault + y
        /\ lamports' = lamports - LamportsOut(sol, tokens, y)
        /\ sol' = sol - g
        /\ tokens' = tokens + y
        /\ fees' = SaturatingAdd(fees, FeeOn(g))
    BY DEF Sell, CanSell
  <1>2. y \in Nat /\ sol \in Nat /\ tokens \in Nat
    BY DEF CurveInv, TypeOK
  <1>3. g \in 0..sol /\ NearHyperbola(sol - g, tokens + y)
    BY <1>1, <1>2, SellStaysNear DEF CurveInv
  <1>4. g \in Nat /\ FeeOn(g) \in Nat
    BY <1>2, <1>3, FeeBounds
  <1>5. LamportsOut(sol, tokens, y) = g
    BY <1>4 DEF LamportsOut, ToSeller
  <1> HIDE DEF g
  <1>6. fees' \in 0..MaxU64
    BY <1>1, <1>4, SaturatingAddFits DEF CurveInv, TypeOK
  <1>7. lamports >= sol /\ lamports' = lamports - g
    BY <1>1, <1>5 DEF CurveInv, ReservesBacked
  <1>8. TypeOK'
    BY <1>1, <1>2, <1>3, <1>6, <1>7, WidthAssumption, VirtualAssumption DEF CurveInv, TypeOK
  <1>9. ReservesBacked' /\ EveryTokenSellable' /\ vault' + circulating' <= VirtualTokens
    BY <1>1, <1>2, <1>3, <1>4, <1>7, VirtualAssumption
       DEF CurveInv, TypeOK, ReservesBacked, EveryTokenSellable
  <1>10. GraduatesOnce'
    BY <1>1, <1>2, <1>3, ThresholdAssumption DEF CurveInv, GraduatesOnce
  <1>11. QED
    BY <1>1, <1>3, <1>8, <1>9, <1>10 DEF CurveInv

\* What happens outside the program keeps the invariant: tokens minted before the
\* curve exists, and gifts to its vaults.
LEMMA OutsideKeeps ==
    ASSUME CurveInv, Outside
    PROVE  CurveInv'
  <1>1. ASSUME NEW n \in Gifts, MintOutside(n)
        PROVE  CurveInv'
    <2>1. n \in Nat /\ ~created
      BY <1>1, InputAssumption DEF CurveInv, MintOutside
    <2>2. QED
      BY <1>1, <2>1 DEF MintOutside, curveVars, CurveInv, TypeOK, ReservesBacked,
                        EveryTokenSellable, GraduatesOnce
  <1>2. ASSUME NEW n \in Gifts, Burn(n)
        PROVE  CurveInv'
    <2>1. n \in Nat
      BY InputAssumption
    <2>2. QED
      BY <1>2, <2>1, VirtualAssumption
         DEF Burn, curveVars, CurveInv, TypeOK, ReservesBacked, EveryTokenSellable,
             GraduatesOnce, NearHyperbola
  <1>3. ASSUME NEW n \in Gifts, GiveLamports(n)
        PROVE  CurveInv'
    <2>1. n \in Nat
      BY InputAssumption
    <2>2. QED
      BY <1>3, <2>1
         DEF GiveLamports, curveVars, CurveInv, TypeOK, ReservesBacked, EveryTokenSellable,
             GraduatesOnce, NearHyperbola
  <1>4. ASSUME NEW n \in Gifts, GiveTokens(n)
        PROVE  CurveInv'
    <2>1. n \in Nat
      BY InputAssumption
    <2>2. QED
      BY <1>4, <2>1, VirtualAssumption
         DEF GiveTokens, curveVars, CurveInv, TypeOK, ReservesBacked, EveryTokenSellable,
             GraduatesOnce, NearHyperbola
  <1>5. ASSUME SetMintAuthority
        PROVE  CurveInv'
    BY <1>5
       DEF SetMintAuthority, curveVars, CurveInv, TypeOK, ReservesBacked, EveryTokenSellable,
           GraduatesOnce, NearHyperbola
  <1>6. QED
    BY <1>1, <1>2, <1>3, <1>4, <1>5 DEF Outside

\* One step for each instruction.
LEMMA CurveStep == CurveInv /\ [Next]_vars => CurveInv'
  <1> SUFFICES ASSUME CurveInv, [Next]_vars PROVE CurveInv'
    OBVIOUS
  <1>1. CASE UNCHANGED vars
    BY <1>1 DEF vars, CurveInv, TypeOK, ReservesBacked, EveryTokenSellable,
                GraduatesOnce, NearHyperbola
  <1>2. QED
    BY <1>1, CreateKeeps, BuyKeeps, SellKeeps, OutsideKeeps, InputAssumption DEF Next, Trade

\* The invariant holds throughout.
LEMMA CurveInvariant == Spec => []CurveInv
  BY CurveInit, CurveStep, PTL DEF Spec

\* No balance of the curve goes below zero and no counter outgrows its u64.
THEOREM CurveTypes == Spec => []TypeOK
  BY CurveInvariant, PTL DEF CurveInv

-----------------------------------------------------------------------------
(* What follows for every reachable curve.                                 *)

\* Near the hyperbola means within a unit.
LEMMA DriftFollows == CurveInv => DriftNeverAddsUp
  BY DEF CurveInv, NearHyperbola, DriftNeverAddsUp

\* Rounding never moves the reserves more than one unit off the hyperbola,
\* after any number of trades in any order.
THEOREM NoDrift == Spec => []DriftNeverAddsUp
  BY DriftFollows, CurveInvariant, PTL

\* Then no quote underflows,
LEMMA QuotesFollow == CurveInv => QuotesNeverBreak
  <1>1. ASSUME CurveInv, created
        PROVE  /\ \A solIn \in SolInputs \ {0} : TokensAfterBuy(sol, solIn) <= tokens
               /\ \A y \in TokenInputs \ {0} :
                     tokens + y <= VirtualTokens => GrossOut(sol, tokens, y) \in 0..sol
    <2>1. sol \in Nat /\ tokens \in Nat /\ NearHyperbola(sol, tokens)
      BY <1>1 DEF CurveInv, TypeOK
    <2>2. ASSUME NEW solIn \in SolInputs \ {0}
          PROVE  TokensAfterBuy(sol, solIn) <= tokens
      <3>1. solIn \in Nat /\ IntoCurve(solIn) > 0
        BY InputAssumption, FeeBounds
      <3>2. QED
        BY <2>1, <3>1, BuyStaysNear
    <2>3. ASSUME NEW y \in TokenInputs \ {0}, tokens + y <= VirtualTokens
          PROVE  GrossOut(sol, tokens, y) \in 0..sol
      <3>1. y \in Nat /\ y > 0
        BY InputAssumption
      <3>2. QED
        BY <2>1, <2>3, <3>1, SellStaysNear
    <2>4. QED
      BY <2>2, <2>3
  <1>2. QED
    BY <1>1 DEF QuotesNeverBreak

\* The error branches for a broken curve cannot be taken.
THEOREM QuotesSound == Spec => []QuotesNeverBreak
  BY QuotesFollow, CurveInvariant, PTL

\* Lamports and tokens that the curve records are really there.
THEOREM Backed == Spec => []ReservesBacked
  BY CurveInvariant, PTL DEF CurveInv

\* The cap on sales never turns away a token bought from the curve.
THEOREM Sellable == Spec => []EveryTokenSellable
  BY CurveInvariant, PTL DEF CurveInv

\* every holder can sell,
LEMMA LeavingFollows == CurveInv => HoldersCanLeave
  <1>1. ASSUME CurveInv, created, ~graduated, sol > 0,
               tokens + circulating = VirtualTokens
        PROVE  /\ CanSell(sol, tokens, circulating, 0)
               /\ GrossOut(sol, tokens, circulating) = sol
    <2>1. sol \in Nat /\ tokens \in Nat /\ circulating \in Nat /\ NearHyperbola(sol, tokens)
      BY <1>1 DEF CurveInv, TypeOK
    <2>2. circulating > 0
      <3>1. SUFFICES ASSUME circulating = 0 PROVE FALSE
        BY <2>1
      <3>2. (VirtualSol + sol) * VirtualTokens <= VirtualSol * VirtualTokens
        BY <1>1, <2>1, <3>1 DEF NearHyperbola, K
      <3>3. (VirtualSol + sol) * VirtualTokens = VirtualSol * VirtualTokens + sol * VirtualTokens
        BY <2>1, VirtualAssumption
      <3>4. sol * VirtualTokens \in Nat \ {0} /\ VirtualSol * VirtualTokens \in Nat
        BY <1>1, <2>1, VirtualAssumption
      <3>5. QED
        BY <2>1, <3>2, <3>3, <3>4
    <2>3. GrossOut(sol, tokens, circulating) \in 0..sol
      BY <1>1, <2>1, <2>2, SellStaysNear, VirtualAssumption
    <2>4. PoolAfterSell(tokens, circulating) <= VirtualSol
      <3>1. PoolAfterSell(tokens, circulating) = K \div VirtualTokens
        BY <1>1 DEF PoolAfterSell
      <3>2. K < (VirtualSol + 1) * VirtualTokens
        BY VirtualAssumption DEF K
      <3>3. QED
        BY <3>1, <3>2, KFacts, VirtualAssumption, DivAtMost
    <2>5. PoolAfterSell(tokens, circulating) \in Nat
      BY <1>1, <2>1, KFacts, VirtualAssumption, DivBounds DEF PoolAfterSell
    <2>6. GrossOut(sol, tokens, circulating) = sol
      BY <2>1, <2>3, <2>4, <2>5, VirtualAssumption DEF GrossOut
    <2>7. ToSeller(sol, tokens, circulating) >= 0
      BY <2>1, <2>6, FeeBounds DEF ToSeller
    <2>8. QED
      BY <1>1, <2>1, <2>2, <2>6, <2>7, VirtualAssumption DEF CanSell
  <1>2. QED
    BY <1>1 DEF HoldersCanLeave

\* Until graduation the holders together can sell out and empty the curve.
THEOREM CanLeave == Spec => []HoldersCanLeave
  BY LeavingFollows, CurveInvariant, PTL

\* Back on the token count it left, the pool is never below where it started.
LEMMA PoolNotBelow ==
    ASSUME NEW s \in Nat, NEW t \in Nat \ {0}, NearHyperbola(s, t)
    PROVE  VirtualSol + s <= K \div t
  BY KFacts, VirtualAssumption, DivAtLeast DEF NearHyperbola

\* and buying back what was sold wins nothing.
LEMMA RoundTripsFollow == CurveInv => RoundTripNeverProfits
  <1>1. ASSUME CurveInv, created, NEW solIn \in SolInputs,
               CanBuy(sol, tokens, solIn, 0),
               CanSell(sol + IntoCurve(solIn), TokensAfterBuy(sol, solIn),
                       TokensOut(sol, tokens, solIn), 0)
        PROVE  ToSeller(sol + IntoCurve(solIn), TokensAfterBuy(sol, solIn),
                        TokensOut(sol, tokens, solIn)) <= solIn
    <2> DEFINE x == IntoCurve(solIn)
               u == TokensAfterBuy(sol, solIn)
               g == GrossOut(sol + x, u, tokens - u)
    <2>1. sol \in Nat /\ tokens \in Nat /\ solIn \in Nat /\ NearHyperbola(sol, tokens)
      BY <1>1, InputAssumption DEF CurveInv, TypeOK
    <2>2. x > 0 /\ u < tokens
      BY <1>1 DEF CanBuy
    <2>3. u \in 0..tokens
      BY <2>1, <2>2, BuyStaysNear
    <2>4. x \in 0..solIn
      BY <2>1, FeeBounds
    <2>5. u + (tokens - u) = tokens /\ tokens \in Nat \ {0}
      BY <2>1, <2>2, <2>3
    <2>6. g = VirtualSol + (sol + x) - (K \div tokens)
      BY <2>5 DEF GrossOut, PoolAfterSell
    <2>7. VirtualSol + sol <= K \div tokens /\ K \div tokens \in Nat
      BY <2>1, <2>5, PoolNotBelow, KFacts, DivBounds
    <2>8. g \in 1..(sol + x)
      BY <1>1 DEF CanSell, TokensOut
    <2>9. g \in Nat /\ FeeOn(g) \in 0..g
      BY <2>1, <2>4, <2>8, FeeBounds
    <2>10. g <= solIn
      <3> HIDE DEF g, x, u
      <3>1. QED
        BY <2>1, <2>4, <2>6, <2>7, VirtualAssumption
    <2>11. ToSeller(sol + x, u, tokens - u) = g - FeeOn(g)
      BY DEF ToSeller
    <2>12. QED
      BY <2>1, <2>9, <2>10, <2>11 DEF TokensOut
  <1>2. ASSUME CurveInv, created, NEW y \in TokenInputs, CanSell(sol, tokens, y, 0)
        PROVE  TokensOut(sol - GrossOut(sol, tokens, y), tokens + y,
                         ToSeller(sol, tokens, y)) <= y
    <2> DEFINE g == GrossOut(sol, tokens, y)
               r == IntoCurve(ToSeller(sol, tokens, y))
               n == VirtualSol + (sol - g) + r
    <2>1. sol \in Nat /\ tokens \in Nat /\ y \in Nat /\ NearHyperbola(sol, tokens)
      BY <1>2, InputAssumption DEF CurveInv, TypeOK
    <2>2. g \in 1..sol
      BY <1>2 DEF CanSell
    <2>3. ToSeller(sol, tokens, y) \in 0..g
      BY <2>1, <2>2, FeeBounds DEF ToSeller
    <2>4. r \in 0..g
      <3>1. r \in 0..ToSeller(sol, tokens, y)
        BY <2>2, <2>3, FeeBounds
      <3>2. QED
        BY <2>2, <2>3, <3>1
    <2>5. n \in Nat \ {0} /\ n <= VirtualSol + sol
      <3> HIDE DEF g, r
      <3>1. QED
        BY <2>1, <2>2, <2>4, VirtualAssumption
    <2>6. tokens * n <= K
      <3>1. n * tokens <= (VirtualSol + sol) * tokens
        BY <2>1, <2>5, VirtualAssumption, MulMono
      <3>2. (VirtualSol + sol) * tokens <= K
        BY <2>1 DEF NearHyperbola
      <3>3. n * tokens = tokens * n /\ n * tokens \in Nat /\ (VirtualSol + sol) * tokens \in Nat
        BY <2>1, <2>5, VirtualAssumption
      <3>4. QED
        BY <3>1, <3>2, <3>3, KFacts
    <2>7. tokens <= K \div n /\ K \div n \in Nat
      BY <2>1, <2>5, <2>6, KFacts, DivAtLeast, DivBounds
    <2>8. TokensOut(sol - g, tokens + y, ToSeller(sol, tokens, y)) = tokens + y - (K \div n)
      <3>1. TokensAfterBuy(sol - g, ToSeller(sol, tokens, y)) = K \div n
        BY DEF TokensAfterBuy
      <3> HIDE DEF g, n
      <3>2. QED
        BY <2>1, <2>7, <3>1 DEF TokensOut
    <2>9. QED
      BY <2>1, <2>7, <2>8
  <1>3. QED
    BY <1>1, <1>2 DEF RoundTripNeverProfits

\* No round trip through the curve makes a profit, from any state.
THEOREM NoMoneyPrinter == Spec => []RoundTripNeverProfits
  BY RoundTripsFollow, CurveInvariant, PTL

\* The threshold graduates the curve, in one trade and one event.
THEOREM OneGraduation == Spec => []GraduatesOnce
  BY CurveInvariant, PTL DEF CurveInv

\* After graduation no trade reaches the reserves again.
THEOREM GraduationLatches == Spec => GraduationIsFinal
  <1>1. ASSUME CurveInv, [Next]_vars, graduated
        PROVE  /\ UNCHANGED <<sol, tokens, graduated, graduations>>
               /\ lamports' >= lamports
               /\ vault' >= vault
    <2>1. created /\ lamports \in Nat /\ vault \in Nat
      BY <1>1 DEF CurveInv, TypeOK
    <2>2. CASE UNCHANGED vars
      BY <2>1, <2>2 DEF vars
    <2>3. CASE Outside
      <3>1. UNCHANGED curveVars
        BY <2>3 DEF Outside, MintOutside, Burn, GiveLamports, GiveTokens, SetMintAuthority
      <3>2. lamports' >= lamports /\ vault' >= vault
        BY <2>1, <2>3, InputAssumption
           DEF Outside, MintOutside, Burn, GiveLamports, GiveTokens, SetMintAuthority
      <3>3. QED
        BY <3>1, <3>2 DEF curveVars
    <2>4. ~Create /\ ~Trade
      BY <1>1, <2>1 DEF Create, Trade, Buy, Sell, CanBuy, CanSell
    <2>5. QED
      BY <1>1, <2>2, <2>3, <2>4 DEF Next
  <1>2. CurveInv /\ [Next]_vars =>
          [graduated => /\ UNCHANGED <<sol, tokens, graduated, graduations>>
                        /\ lamports' >= lamports
                        /\ vault' >= vault]_vars
    BY <1>1
  <1>3. QED
    BY <1>2, CurveInvariant, PTL DEF Spec, GraduationIsFinal

-----------------------------------------------------------------------------
(* The instructions of an order.                                           *)

IxNames == {"CreateMint", "SetAuthority", "Create", "CreateAta", "Configure",
            "VerifyPubkeyValidity", "Buy", "Sell", "Deposit", "SeedTreasury"}
Instruction == [name : IxNames, amount : Nat, least : Nat]

\* The instructions as a set, which is all that the program reads of them.
LEMMA JoinedIxs ==
    ASSUME NEW s \in Seq(Instruction), NEW t \in Seq(Instruction)
    PROVE  /\ s \o t \in Seq(Instruction)
           /\ ToSet(s \o t) = ToSet(s) \cup ToSet(t)
  <1> DEFINE j == s \o t
  <1>1. /\ j \in Seq(Instruction) /\ Len(j) = Len(s) + Len(t)
        /\ DOMAIN s = 1..Len(s) /\ DOMAIN t = 1..Len(t) /\ DOMAIN j = 1..Len(j)
        /\ Len(s) \in Nat /\ Len(t) \in Nat
        /\ \A i \in 1..Len(s) : j[i] = s[i]
        /\ \A i \in 1..Len(t) : j[Len(s) + i] = t[i]
    OBVIOUS
  <1> HIDE DEF j
  <1>2. ASSUME NEW x \in ToSet(j)
        PROVE  x \in ToSet(s) \cup ToSet(t)
    <2>1. PICK i \in 1..Len(j) : x = j[i]
      BY <1>1, <1>2 DEF ToSet
    <2>2. CASE i <= Len(s)
      BY <1>1, <2>1, <2>2, SMTT(60) DEF ToSet
    <2>3. CASE i > Len(s)
      <3>1. i - Len(s) \in 1..Len(t) /\ i = Len(s) + (i - Len(s))
        BY <1>1, <2>1, <2>3
      <3>2. x = t[i - Len(s)]
        BY <1>1, <2>1, <3>1
      <3>3. QED
        BY <1>1, <3>1, <3>2 DEF ToSet
    <2>4. QED
      BY <1>1, <2>1, <2>2, <2>3
  <1>3. ASSUME NEW x \in ToSet(s) \cup ToSet(t)
        PROVE  x \in ToSet(j)
    <2>1. CASE x \in ToSet(s)
      <3>1. PICK i \in 1..Len(s) : x = s[i]
        BY <1>1, <2>1 DEF ToSet
      <3>2. i \in 1..Len(j) /\ j[i] = x
        BY <1>1, <3>1
      <3>3. QED
        BY <1>1, <3>2 DEF ToSet
    <2>2. CASE x \in ToSet(t)
      <3>1. PICK i \in 1..Len(t) : x = t[i]
        BY <1>1, <2>2 DEF ToSet
      <3>2. Len(s) + i \in 1..Len(j) /\ j[Len(s) + i] = x
        BY <1>1, <3>1
      <3>3. QED
        BY <1>1, <3>2 DEF ToSet
    <2>3. QED
      BY <1>3, <2>1, <2>2
  <1>4. ToSet(j) = ToSet(s) \cup ToSet(t)
    BY <1>2, <1>3
  <1>5. QED
    BY <1>1, <1>4 DEF j

\* Sequences of up to two instructions.
LEMMA ShortIxs ==
    ASSUME NEW a \in Instruction, NEW b \in Instruction
    PROVE  /\ <<>> \in Seq(Instruction) /\ ToSet(<<>>) = {}
           /\ <<a>> \in Seq(Instruction) /\ ToSet(<<a>>) = {a}
           /\ <<a, b>> \in Seq(Instruction) /\ ToSet(<<a, b>>) = {a, b}
  BY DEF ToSet

\* An order has an instruction if one of its instructions is of that name.
LEMMA HasIx ==
    ASSUME NEW r, NEW name
    PROVE  Has(r, name) <=> \E ix \in ToSet(r.ixs) : ix.name = name
  BY DEF Has, ToSet

\* The only instruction of its name is the one that counts.
LEMMA OnlyIx ==
    ASSUME NEW r, NEW ix \in ToSet(r.ixs),
           \A other \in ToSet(r.ixs) : other.name = ix.name => other = ix
    PROVE  Has(r, ix.name) /\ The(r, ix.name) = ix /\ AmountOf(r, ix.name) = ix.amount
  <1>1. Has(r, ix.name)
    BY HasIx
  <1>2. The(r, ix.name) = ix
    BY DEF The
  <1>3. QED
    BY <1>1, <1>2 DEF AmountOf

\* An instruction that is not there is of no amount.
LEMMA NoIx ==
    ASSUME NEW r, NEW name, ~Has(r, name)
    PROVE  AmountOf(r, name) = 0
  BY DEF AmountOf

\* What the assumption says of the fixed amounts.
LEMMA Amounts ==
    /\ MaxDeposit \in Nat /\ TxFee \in Nat /\ AtaRent \in Nat
    /\ LaunchRent \in Nat /\ SeedRent \in Nat /\ MaxOrders \in Nat
    /\ SlipDenom \in Nat \ {0} /\ Slips \subseteq 0..SlipDenom /\ Creator \in Users
    /\ Opened \in [Panels -> Users]
  BY LaunchAssumption

\* Seeding the treasury is added until it is funded.
LEMMA SeedIxs ==
    /\ SeedTreasuryIxs \in Seq(Instruction)
    /\ ToSet(SeedTreasuryIxs) = IF Funded THEN {} ELSE {Ix("SeedTreasury", SeedRent, 0)}
  <1>1. Ix("SeedTreasury", SeedRent, 0) \in Instruction
    BY Amounts DEF Ix, IxNames, Instruction
  <1>2. QED
    BY <1>1, ShortIxs DEF SeedTreasuryIxs

\* The instructions that BuildBuy puts together, and what the program reads
\* of them.
BuyIxs(configuring, solIn, least, deposit) ==
    SeedTreasuryIxs \o <<CreateAtaIx>> \o configuring
      \o <<BuyIx(solIn, least)>> \o DepositIxs(deposit)

\* What the program reads of the order that BuildBuy puts together.
LEMMA BuyOrder ==
    ASSUME NEW r, NEW configuring, configuring = <<>> \/ configuring = ConfigureIxs,
           NEW solIn \in Nat, NEW least \in Nat, NEW deposit \in Nat,
           r.ixs = BuyIxs(configuring, solIn, least, deposit)
    PROVE  /\ r.ixs \in Seq(Instruction)
           /\ Buys(r) /\ The(r, "Buy") = BuyIx(solIn, least) /\ AmountOf(r, "Buy") = solIn
           /\ ~Sells(r) /\ ~Launches(r)
           /\ Has(r, "Configure") <=> configuring = ConfigureIxs
           /\ AmountOf(r, "Deposit") = deposit
           /\ ~Funded => Has(r, "SeedTreasury")
           /\ AmountOf(r, "SeedTreasury") \in Nat
  <1> DEFINE seed == Ix("SeedTreasury", SeedRent, 0)
             first == Ix("Configure", 0, 0)
             second == Ix("VerifyPubkeyValidity", 0, 0)
             last == Ix("Deposit", deposit, 0)
             buy == BuyIx(solIn, least)
  <1>1. /\ seed \in Instruction /\ seed.name = "SeedTreasury" /\ seed.amount \in Nat
        /\ CreateAtaIx \in Instruction /\ CreateAtaIx.name = "CreateAta"
        /\ first \in Instruction /\ first.name = "Configure"
        /\ second \in Instruction /\ second.name = "VerifyPubkeyValidity"
        /\ last \in Instruction /\ last.name = "Deposit" /\ last.amount = deposit
        /\ buy \in Instruction /\ buy.name = "Buy" /\ buy.amount = solIn
    BY Amounts DEF Ix, IxNames, Instruction, CreateAtaIx, BuyIx
  <1>2. /\ configuring \in Seq(Instruction)
        /\ ToSet(configuring) = IF configuring = ConfigureIxs THEN {first, second} ELSE {}
    BY <1>1, ShortIxs, ZenonT(60) DEF ConfigureIxs
  <1>3. /\ DepositIxs(deposit) \in Seq(Instruction)
        /\ ToSet(DepositIxs(deposit)) = IF deposit > 0 THEN {last} ELSE {}
    BY <1>1, ShortIxs DEF DepositIxs
  <1>4. /\ <<CreateAtaIx>> \in Seq(Instruction) /\ ToSet(<<CreateAtaIx>>) = {CreateAtaIx}
        /\ <<buy>> \in Seq(Instruction) /\ ToSet(<<buy>>) = {buy}
    BY <1>1, ShortIxs
  <1> HIDE DEF seed, first, second, last, buy
  <1>5. /\ r.ixs \in Seq(Instruction)
        /\ ToSet(r.ixs) = ToSet(SeedTreasuryIxs) \cup {CreateAtaIx} \cup ToSet(configuring)
                            \cup {buy} \cup ToSet(DepositIxs(deposit))
    <2>1. r.ixs = SeedTreasuryIxs \o <<CreateAtaIx>> \o configuring \o <<buy>> \o DepositIxs(deposit)
      BY DEF BuyIxs, buy
    <2>2. /\ SeedTreasuryIxs \o <<CreateAtaIx>> \in Seq(Instruction)
          /\ ToSet(SeedTreasuryIxs \o <<CreateAtaIx>>) = ToSet(SeedTreasuryIxs) \cup {CreateAtaIx}
      BY <1>4, SeedIxs, JoinedIxs
    <2>3. /\ SeedTreasuryIxs \o <<CreateAtaIx>> \o configuring \in Seq(Instruction)
          /\ ToSet(SeedTreasuryIxs \o <<CreateAtaIx>> \o configuring)
               = ToSet(SeedTreasuryIxs) \cup {CreateAtaIx} \cup ToSet(configuring)
      BY <1>2, <2>2, JoinedIxs
    <2>4. /\ SeedTreasuryIxs \o <<CreateAtaIx>> \o configuring \o <<buy>> \in Seq(Instruction)
          /\ ToSet(SeedTreasuryIxs \o <<CreateAtaIx>> \o configuring \o <<buy>>)
               = ToSet(SeedTreasuryIxs) \cup {CreateAtaIx} \cup ToSet(configuring) \cup {buy}
      BY <1>4, <2>3, JoinedIxs
    <2>5. QED
      BY <1>3, <2>1, <2>4, JoinedIxs, ZenonT(60)
  <1>6. ToSet(r.ixs) = (IF Funded THEN {} ELSE {seed}) \cup {CreateAtaIx}
                         \cup (IF configuring = ConfigureIxs THEN {first, second} ELSE {})
                         \cup {buy} \cup (IF deposit > 0 THEN {last} ELSE {})
    BY <1>2, <1>3, <1>5, SeedIxs DEF seed
  <1>7. buy \in ToSet(r.ixs) /\ \A other \in ToSet(r.ixs) : other.name = "Buy" => other = buy
    BY <1>1, <1>6
  <1>8. ~Sells(r) /\ ~Launches(r) /\ (Has(r, "Configure") <=> configuring = ConfigureIxs)
    BY <1>1, <1>6, HasIx DEF Sells, Launches
  <1>9. AmountOf(r, "Deposit") = deposit
    <2>1. CASE deposit > 0
      <3>1. last \in ToSet(r.ixs)
        BY <1>6, <2>1
      <3>2. \A other \in ToSet(r.ixs) : other.name = "Deposit" => other = last
        BY <1>1, <1>6, <2>1
      <3>3. QED
        BY <1>1, <3>1, <3>2, OnlyIx
    <2>2. CASE ~(deposit > 0)
      <3>1. ~Has(r, "Deposit")
        BY <1>1, <1>6, <2>2, HasIx
      <3>2. QED
        BY <2>2, <3>1, NoIx
    <2>3. QED
      BY <2>1, <2>2
  <1>10. (~Funded => Has(r, "SeedTreasury")) /\ AmountOf(r, "SeedTreasury") \in Nat
    <2>1. CASE Funded
      <3>1. ~Has(r, "SeedTreasury")
        BY <1>1, <1>6, <2>1, HasIx
      <3>2. QED
        BY <2>1, <3>1, NoIx
    <2>2. CASE ~Funded
      <3>1. seed \in ToSet(r.ixs)
        BY <1>6, <2>2
      <3>2. \A other \in ToSet(r.ixs) : other.name = "SeedTreasury" => other = seed
        BY <1>1, <1>6, <2>2
      <3>3. QED
        BY <1>1, <3>1, <3>2, OnlyIx
    <2>3. QED
      BY <2>1, <2>2
  <1>11. Buys(r) /\ The(r, "Buy") = BuyIx(solIn, least) /\ AmountOf(r, "Buy") = solIn
    BY <1>1, <1>7, OnlyIx DEF Buys, buy
  <1>12. QED
    BY <1>5, <1>8, <1>9, <1>10, <1>11

\* A sell is one instruction while the treasury is funded.
LEMMA SellOrder ==
    ASSUME NEW r, NEW tokensIn \in Nat, NEW least \in Nat,
           r.ixs = SeedTreasuryIxs \o <<SellIx(tokensIn, least)>>
    PROVE  /\ r.ixs \in Seq(Instruction) /\ (Funded => Len(r.ixs) = 1)
           /\ Sells(r) /\ The(r, "Sell") = SellIx(tokensIn, least)
                /\ AmountOf(r, "Sell") = tokensIn
           /\ ~Buys(r) /\ ~Launches(r)
           /\ ~Has(r, "Configure")
           /\ AmountOf(r, "Deposit") = 0 /\ AmountOf(r, "SeedTreasury") \in Nat
           /\ ~Funded => Has(r, "SeedTreasury")
  <1> DEFINE sell == SellIx(tokensIn, least)
             seed == Ix("SeedTreasury", SeedRent, 0)
  <1>1. /\ sell \in Instruction /\ sell.name = "Sell" /\ sell.amount = tokensIn
        /\ seed.name = "SeedTreasury" /\ seed.amount \in Nat
    BY Amounts DEF Ix, IxNames, Instruction, SellIx
  <1> HIDE DEF sell, seed
  <1>2. r.ixs = SeedTreasuryIxs \o <<sell>>
    BY DEF sell
  <1>3. <<sell>> \in Seq(Instruction) /\ ToSet(<<sell>>) = {sell}
    BY <1>1, ShortIxs
  <1>4. /\ SeedTreasuryIxs \in Seq(Instruction)
        /\ ToSet(SeedTreasuryIxs) = IF Funded THEN {} ELSE {seed}
    BY SeedIxs DEF seed
  <1>5. r.ixs \in Seq(Instruction) /\ ToSet(r.ixs) = ToSet(SeedTreasuryIxs) \cup {sell}
    BY <1>2, <1>3, <1>4, JoinedIxs
  <1>6. Funded => Len(r.ixs) = 1
    BY <1>2 DEF SeedTreasuryIxs
  <1>7. /\ sell \in ToSet(r.ixs)
        /\ \A other \in ToSet(r.ixs) : other.name = "Sell" => other = sell
    BY <1>1, <1>4, <1>5
  <1>8. Sells(r) /\ The(r, "Sell") = sell /\ AmountOf(r, "Sell") = tokensIn
    BY <1>1, <1>7, OnlyIx DEF Sells
  <1>9. ~Buys(r) /\ ~Launches(r) /\ ~Has(r, "Configure") /\ ~Has(r, "Deposit")
    BY <1>1, <1>4, <1>5, HasIx DEF Buys, Launches
  <1>10. (~Funded => Has(r, "SeedTreasury")) /\ AmountOf(r, "SeedTreasury") \in Nat
    <2>1. CASE Funded
      <3>1. ~Has(r, "SeedTreasury")
        BY <1>1, <1>4, <1>5, <2>1, HasIx
      <3>2. QED
        BY <2>1, <3>1, NoIx
    <2>2. CASE ~Funded
      <3>1. /\ seed \in ToSet(r.ixs)
            /\ \A other \in ToSet(r.ixs) : other.name = "SeedTreasury" => other = seed
        BY <1>1, <1>4, <1>5, <2>2
      <3>2. QED
        BY <1>1, <3>1, OnlyIx
    <2>3. QED
      BY <2>1, <2>2
  <1>11. QED
    BY <1>5, <1>6, <1>8, <1>9, <1>10, NoIx DEF sell

\* The launch: the mint's authority, the curve and the seed buy.
LEMMA LaunchOrder ==
    ASSUME NEW r, NEW seedBuy \in Nat,
           r.ixs = MintInitIxs \o <<CreateCurveIx>> \o SeedBuyIxs(seedBuy)
    PROVE  /\ r.ixs \in Seq(Instruction)
           /\ Launches(r) /\ ~Sells(r) /\ ~Has(r, "Configure")
           /\ Buys(r) <=> seedBuy > 0
           /\ Buys(r) => /\ The(r, "Buy") = BuyIx(seedBuy, 0)
                         /\ ~Funded => Has(r, "SeedTreasury")
           /\ AmountOf(r, "Buy") = seedBuy
           /\ AmountOf(r, "Deposit") = 0 /\ AmountOf(r, "SeedTreasury") \in Nat
  <1> DEFINE seed == Ix("SeedTreasury", SeedRent, 0)
             mint == Ix("CreateMint", 0, 0)
             authority == Ix("SetAuthority", 0, 0)
             buy == BuyIx(seedBuy, 0)
  <1>1. /\ seed \in Instruction /\ seed.name = "SeedTreasury" /\ seed.amount \in Nat
        /\ CreateAtaIx \in Instruction /\ CreateAtaIx.name = "CreateAta"
        /\ CreateCurveIx \in Instruction /\ CreateCurveIx.name = "Create"
        /\ mint \in Instruction /\ mint.name = "CreateMint"
        /\ authority \in Instruction /\ authority.name = "SetAuthority"
        /\ buy \in Instruction /\ buy.name = "Buy" /\ buy.amount = seedBuy
    BY Amounts DEF Ix, IxNames, Instruction, CreateAtaIx, CreateCurveIx, BuyIx
  <1>2. /\ MintInitIxs \in Seq(Instruction) /\ ToSet(MintInitIxs) = {mint, authority}
        /\ <<CreateCurveIx>> \in Seq(Instruction) /\ ToSet(<<CreateCurveIx>>) = {CreateCurveIx}
        /\ <<CreateAtaIx, buy>> \in Seq(Instruction)
             /\ ToSet(<<CreateAtaIx, buy>>) = {CreateAtaIx, buy}
    BY <1>1, ShortIxs DEF MintInitIxs
  <1>3. /\ SeedBuyIxs(seedBuy) \in Seq(Instruction)
        /\ ToSet(SeedBuyIxs(seedBuy)) =
             IF seedBuy > 0 THEN (IF Funded THEN {} ELSE {seed}) \cup {CreateAtaIx, buy} ELSE {}
    <2>1. CASE seedBuy > 0
      <3>1. SeedBuyIxs(seedBuy) = SeedTreasuryIxs \o <<CreateAtaIx, buy>>
        BY <2>1 DEF SeedBuyIxs
      <3> HIDE DEF buy
      <3>2. QED
        BY <1>2, <2>1, <3>1, SeedIxs, JoinedIxs
    <2>2. CASE ~(seedBuy > 0)
      BY <1>1, <2>2, ShortIxs DEF SeedBuyIxs
    <2>3. QED
      BY <2>1, <2>2
  <1> HIDE DEF seed, mint, authority, buy
  <1>4. /\ r.ixs \in Seq(Instruction)
        /\ ToSet(r.ixs) = {mint, authority} \cup {CreateCurveIx} \cup ToSet(SeedBuyIxs(seedBuy))
    <2>1. /\ MintInitIxs \o <<CreateCurveIx>> \in Seq(Instruction)
          /\ ToSet(MintInitIxs \o <<CreateCurveIx>>) = {mint, authority} \cup {CreateCurveIx}
      <3>1. MintInitIxs \in Seq(Instruction) /\ <<CreateCurveIx>> \in Seq(Instruction)
        BY <1>2
      <3>2. /\ MintInitIxs \o <<CreateCurveIx>> \in Seq(Instruction)
            /\ ToSet(MintInitIxs \o <<CreateCurveIx>>)
                 = ToSet(MintInitIxs) \cup ToSet(<<CreateCurveIx>>)
        BY <3>1, JoinedIxs
      <3>3. QED
        BY <1>2, <3>2
    <2>2. QED
      BY <1>3, <2>1, JoinedIxs, ZenonT(60)
  <1>5. Launches(r) /\ ~Sells(r) /\ ~Has(r, "Configure") /\ (Buys(r) <=> seedBuy > 0)
    BY <1>1, <1>3, <1>4, HasIx DEF Launches, Sells, Buys
  <1>6. AmountOf(r, "Deposit") = 0
    BY <1>1, <1>3, <1>4, HasIx, NoIx
  <1>7. CASE seedBuy > 0
    <2>1. /\ buy \in ToSet(r.ixs)
          /\ \A other \in ToSet(r.ixs) : other.name = "Buy" => other = buy
      BY <1>1, <1>3, <1>4, <1>7
    <2>2. The(r, "Buy") = BuyIx(seedBuy, 0) /\ AmountOf(r, "Buy") = seedBuy
      BY <1>1, <2>1, OnlyIx DEF buy
    <2>3. (~Funded => Has(r, "SeedTreasury")) /\ AmountOf(r, "SeedTreasury") \in Nat
      <3>1. CASE Funded
        <4>1. ~Has(r, "SeedTreasury")
          BY <1>1, <1>3, <1>4, <3>1, HasIx
        <4>2. QED
          BY <3>1, <4>1, NoIx
      <3>2. CASE ~Funded
        <4>1. /\ seed \in ToSet(r.ixs)
              /\ \A other \in ToSet(r.ixs) : other.name = "SeedTreasury" => other = seed
          BY <1>1, <1>3, <1>4, <1>7, <3>2
        <4>2. QED
          BY <1>1, <4>1, OnlyIx
      <3>3. QED
        BY <3>1, <3>2
    <2>4. QED
      BY <1>4, <1>5, <1>6, <2>2, <2>3
  <1>8. CASE ~(seedBuy > 0)
    <2>1. ~Has(r, "SeedTreasury") /\ ~Buys(r)
      BY <1>1, <1>3, <1>4, <1>8, HasIx DEF Buys
    <2>2. QED
      BY <1>4, <1>5, <1>6, <1>8, <2>1, NoIx DEF Buys
  <1>9. QED
    BY <1>7, <1>8

-----------------------------------------------------------------------------
(* The invariant.                                                          *)

Phases == {"built", "declined", "sent", "landed", "failed", "expired"}
Reasons == {"curve", "tokens", "configure", "unconfigured", "uncovered", "rent", "treasury"}

OrderType == [panel : Panels \cup {Nothing}, user : Users, about : Users, phase : Phases,
              ixs : Seq(Instruction), refused : SUBSET Reasons,
              proceeds : Int, overhead : Int, delta : Int, after : Int]
AccountType == [exists : BOOLEAN, room : BOOLEAN, configured : BOOLEAN,
                public : Nat, pending : Nat]
ReservesType == [sol : Nat, tokens : Nat, graduated : BOOLEAN]
PanelType == [who : Users, shown : ReservesType \cup {Nothing},
              ata : {"unknown", "no", "yes", "assumed"}, about : Users]

WasDrained == drained /= Nothing

LaunchTypes ==
    /\ orders \in Seq(OrderType)
    /\ account \in [Users -> AccountType]
    /\ panel \in [Panels -> PanelType]
    /\ treasury \in {"lazyClaim", "system", "absent"}
    /\ WasDrained => drained \in 0..Len(orders)

\* What the instructions of one order say together.
Coherent(r) ==
    /\ Buys(r) => The(r, "Buy").amount \in SolInputs /\ The(r, "Buy").least \in Nat
    /\ AmountOf(r, "Buy") \in SolInputs \cup {0}
    /\ Sells(r) => The(r, "Sell").amount \in TokenInputs /\ ~Buys(r) /\ ~Launches(r)
    /\ AmountOf(r, "Sell") \in Nat
    /\ AmountOf(r, "Deposit") \in 0..MaxDeposit
    /\ AmountOf(r, "Deposit") > 0 => Buys(r) /\ AmountOf(r, "Deposit") <= The(r, "Buy").least
    /\ AmountOf(r, "SeedTreasury") \in Nat

\* A trade finds a treasury that can pay its rent, or brings what it lacks,
\* but for one that was built before the treasury was drained.
FundedFor(o) ==
    Buys(orders[o]) \/ Sells(orders[o]) =>
        Funded \/ Has(orders[o], "SeedTreasury") \/ DrainedAfter(o)

\* Whoever sees lamports on the curve sees a treasury that can pay its rent,
\* because the buy that brought them seeded it, or one that was drained since,
\* which happens once.
SeedsFirst ==
    /\ treasury = "lazyClaim" => ~WasDrained
    /\ sol > 0 => Funded \/ WasDrained
    /\ \A t \in Panels :
          panel[t].shown /= Nothing /\ panel[t].shown.sol > 0 => Funded \/ WasDrained
    /\ \A o \in DOMAIN orders : Coherent(orders[o]) /\ FundedFor(o)

LaunchInv ==
    /\ CurveInv
    /\ LaunchTypes
    /\ SeedsFirst
    /\ ExtrasAreCovered

-----------------------------------------------------------------------------
(* Steps that leave the instructions of every order as they are.           *)

\* What an order is for does not depend on what became of it.
LEMMA SameIxs ==
    ASSUME NEW r, NEW q, q.ixs = r.ixs
    PROVE  /\ \A name : Has(q, name) <=> Has(r, name)
           /\ \A name : The(q, name) = The(r, name)
           /\ \A name : AmountOf(q, name) = AmountOf(r, name)
           /\ Buys(q) <=> Buys(r)
           /\ Sells(q) <=> Sells(r)
           /\ Launches(q) <=> Launches(r)
           /\ Coherent(q) <=> Coherent(r)
           /\ TakenForConfidential(q) <=> TakenForConfidential(r)
  BY DEF Has, The, AmountOf, Buys, Sells, Launches, Coherent, TakenForConfidential

\* An order that goes on to another phase is the same order.
LEMMA OrderMoves ==
    ASSUME LaunchTypes, NEW o \in DOMAIN orders, NEW q \in OrderType,
           orders' = [orders EXCEPT ![o] = q]
    PROVE  /\ orders' \in Seq(OrderType)
           /\ DOMAIN orders' = DOMAIN orders /\ Len(orders') = Len(orders)
           /\ orders'[o] = q
           /\ \A p \in DOMAIN orders : p /= o => orders'[p] = orders[p]
  BY DEF LaunchTypes

\* An order is of the right shape.
LEMMA OrderTyped ==
    ASSUME LaunchTypes, NEW o \in DOMAIN orders
    PROVE  /\ orders[o] \in OrderType
           /\ o \in 1..Len(orders) /\ DOMAIN orders = 1..Len(orders) /\ Len(orders) \in Nat
  BY DEF LaunchTypes

\* The parts of the invariant that hold as long as instructions are kept.
LEMMA SeedsKept ==
    ASSUME SeedsFirst, DOMAIN orders' = DOMAIN orders,
           \A p \in DOMAIN orders : orders'[p].ixs = orders[p].ixs,
           drained' = drained, Funded => Funded',
           treasury' = "lazyClaim" => treasury = "lazyClaim",
           sol' > 0 => Funded' \/ WasDrained,
           \A t \in Panels : panel'[t].shown = panel[t].shown \/ panel'[t].shown = Nothing
                              \/ (panel'[t].shown.sol > 0 => Funded' \/ WasDrained)
    PROVE  SeedsFirst'
  <1>1. ASSUME NEW p \in DOMAIN orders'
        PROVE  Coherent(orders'[p]) /\ FundedFor(p)'
    <2>1. p \in DOMAIN orders /\ Coherent(orders[p]) /\ FundedFor(p)
      BY <1>1 DEF SeedsFirst
    <2>2. orders'[p].ixs = orders[p].ixs
      BY <2>1
    <2>3. /\ Coherent(orders'[p]) <=> Coherent(orders[p])
          /\ Has(orders'[p], "SeedTreasury") <=> Has(orders[p], "SeedTreasury")
          /\ Buys(orders'[p]) <=> Buys(orders[p])
          /\ Sells(orders'[p]) <=> Sells(orders[p])
      BY <2>2, SameIxs
    <2>4. DrainedAfter(p)' <=> DrainedAfter(p)
      BY DEF DrainedAfter
    <2>5. QED
      BY <2>1, <2>3, <2>4 DEF FundedFor
  <1>2. WasDrained' <=> WasDrained
    BY DEF WasDrained
  <1>3. QED
    BY <1>1, <1>2 DEF SeedsFirst

\* No order is refused, but for those that the step names.
LEMMA CoveredKept ==
    ASSUME ExtrasAreCovered, DOMAIN orders' = DOMAIN orders, drained' = drained,
           \A p \in DOMAIN orders : orders'[p].ixs = orders[p].ixs,
           \A p \in DOMAIN orders :
               \/ orders'[p].refused = orders[p].refused
               \/ /\ "uncovered" \notin orders'[p].refused
                  /\ "rent" \in orders'[p].refused => DrainedAfter(p)
    PROVE  ExtrasAreCovered'
  <1>1. ASSUME NEW p \in DOMAIN orders'
        PROVE  /\ "uncovered" \notin orders'[p].refused
               /\ "rent" \in orders'[p].refused => DrainedAfter(p)'
               /\ TakenForConfidential(orders'[p]) => DrainedBefore(p)'
    <2>1. p \in DOMAIN orders /\ orders'[p].ixs = orders[p].ixs
      BY <1>1
    <2>2. /\ "uncovered" \notin orders[p].refused
          /\ "rent" \in orders[p].refused => DrainedAfter(p)
          /\ TakenForConfidential(orders[p]) => DrainedBefore(p)
      BY <2>1 DEF ExtrasAreCovered
    <2>3. TakenForConfidential(orders'[p]) <=> TakenForConfidential(orders[p])
      BY <2>1, SameIxs
    <2>4. (DrainedAfter(p)' <=> DrainedAfter(p)) /\ (DrainedBefore(p)' <=> DrainedBefore(p))
      BY DEF DrainedAfter, DrainedBefore
    <2>5. QED
      BY <2>1, <2>2, <2>3, <2>4
  <1>2. QED
    BY <1>1 DEF ExtrasAreCovered

\* Nothing is ordered at first.
LEMMA LaunchInitHolds == LaunchInit => LaunchInv
  <1> SUFFICES ASSUME LaunchInit PROVE LaunchInv
    OBVIOUS
  <1>1. CurveInv
    BY CurveInit DEF LaunchInit
  <1>2. orders = <<>> /\ DOMAIN orders = {}
    BY DEF LaunchInit
  <1>3. LaunchTypes
    <2>1. Opened \in [Panels -> Users]
      BY Amounts
    <2>2. panel \in [Panels -> PanelType]
      BY <2>1 DEF LaunchInit, FreshPanel, PanelType
    <2>3. account \in [Users -> AccountType] /\ orders \in Seq(OrderType)
      BY <1>2 DEF LaunchInit, NoAccount, AccountType
    <2>4. QED
      BY <2>2, <2>3 DEF LaunchInit, LaunchTypes, WasDrained
  <1>4. SeedsFirst
    <2>1. \A t \in Panels : panel[t].shown = Nothing
      BY DEF LaunchInit, FreshPanel
    <2>2. QED
      BY <1>2, <2>1 DEF SeedsFirst, LaunchInit, Init, WasDrained
  <1>5. ExtrasAreCovered
    BY <1>2 DEF ExtrasAreCovered
  <1>6. QED
    BY <1>1, <1>3, <1>4, <1>5 DEF LaunchInv

\* The curve invariant is about the curve alone.
LEMMA CurveUnchanged ==
    ASSUME CurveInv, UNCHANGED vars
    PROVE  CurveInv'
  BY CurveStep

\* Steps of a page, a wallet and the cron job that touch no curve and no
\* account, and only the phase of an order.
LEMMA PhaseStep ==
    ASSUME LaunchInv, NEW o \in DOMAIN orders, NEW phase \in Phases,
           orders' = [orders EXCEPT ![o].phase = phase],
           UNCHANGED <<vars, account, treasuryVars>>,
           panel' \in [Panels -> PanelType],
           \A t \in Panels : panel'[t].shown = panel[t].shown \/ panel'[t].shown = Nothing
    PROVE  LaunchInv'
  <1> DEFINE q == [orders[o] EXCEPT !.phase = phase]
  <1>1. /\ q \in OrderType /\ orders' = [orders EXCEPT ![o] = q]
        /\ q.ixs = orders[o].ixs /\ q.refused = orders[o].refused
    BY OrderTyped DEF OrderType, LaunchInv
  <1> HIDE DEF q
  <1>2. /\ orders' \in Seq(OrderType) /\ DOMAIN orders' = DOMAIN orders
        /\ orders'[o] = q /\ \A p \in DOMAIN orders : p /= o => orders'[p] = orders[p]
    BY <1>1, OrderMoves DEF LaunchInv
  <1>3. \A p \in DOMAIN orders :
           orders'[p].ixs = orders[p].ixs /\ orders'[p].refused = orders[p].refused
    BY <1>1, <1>2
  <1>4. CurveInv' /\ sol' = sol /\ treasury' = treasury /\ drained' = drained
    BY CurveUnchanged DEF LaunchInv, vars, treasuryVars
  <1>5. Len(orders') = Len(orders) /\ (Funded' <=> Funded)
    BY <1>1, <1>4, OrderMoves DEF LaunchInv, Funded
  <1>6. LaunchTypes'
    BY <1>2, <1>4, <1>5 DEF LaunchInv, LaunchTypes, WasDrained
  <1>7. SeedsFirst'
    BY <1>2, <1>3, <1>4, <1>5, SeedsKept DEF LaunchInv, SeedsFirst
  <1>8. ExtrasAreCovered'
    BY <1>2, <1>3, <1>4, CoveredKept DEF LaunchInv
  <1>9. QED
    BY <1>4, <1>6, <1>7, <1>8 DEF LaunchInv

-----------------------------------------------------------------------------
(* Orders that are built.                                                  *)

\* A new order is checked once, when it is built.
LEMMA OrderAdded ==
    ASSUME LaunchInv, NEW r \in OrderType, orders' = Append(orders, r),
           Coherent(r), r.refused = {},
           Buys(r) \/ Sells(r) => Funded \/ Has(r, "SeedTreasury"),
           TakenForConfidential(r) => WasDrained,
           UNCHANGED <<vars, account, treasuryVars>>,
           panel' \in [Panels -> PanelType],
           \A t \in Panels : panel'[t].shown = panel[t].shown
    PROVE  LaunchInv'
  <1> DEFINE n == Len(orders)
  <1>1. /\ orders' \in Seq(OrderType) /\ DOMAIN orders = 1..n
        /\ DOMAIN orders' = 1..(n + 1) /\ Len(orders') = n + 1 /\ n \in Nat
        /\ orders'[n + 1] = r
        /\ \A p \in DOMAIN orders : orders'[p] = orders[p]
    BY DEF LaunchInv, LaunchTypes
  <1>2. \A p \in DOMAIN orders' : p \in DOMAIN orders \/ p = n + 1
    BY <1>1
  <1>3. CurveInv' /\ sol' = sol /\ treasury' = treasury /\ drained' = drained
    BY CurveUnchanged DEF LaunchInv, vars, treasuryVars
  <1>4. (Funded' <=> Funded) /\ (WasDrained' <=> WasDrained)
    BY <1>3 DEF Funded, WasDrained
  <1>5. LaunchTypes'
    <2>1. WasDrained => drained \in 0..n
      BY DEF LaunchInv, LaunchTypes
    <2>2. WasDrained' => drained' \in 0..Len(orders')
      BY <1>1, <1>3, <1>4, <2>1
    <2>3. QED
      BY <1>1, <1>3, <2>2 DEF LaunchInv, LaunchTypes
  <1>6. SeedsFirst'
    <2>1. ASSUME NEW p \in DOMAIN orders'
          PROVE  Coherent(orders'[p]) /\ FundedFor(p)'
      <3>1. CASE p \in DOMAIN orders
        <4>1. Coherent(orders[p]) /\ FundedFor(p) /\ orders'[p] = orders[p]
          BY <1>1, <3>1 DEF LaunchInv, SeedsFirst
        <4>2. DrainedAfter(p)' <=> DrainedAfter(p)
          BY <1>3 DEF DrainedAfter
        <4>3. QED
          BY <1>4, <4>1, <4>2 DEF FundedFor
      <3>2. CASE p = n + 1
        BY <1>1, <1>4, <3>2 DEF FundedFor
      <3>3. QED
        BY <1>2, <3>1, <3>2
    <2>2. QED
      BY <1>3, <1>4, <2>1 DEF LaunchInv, SeedsFirst
  <1>7. ExtrasAreCovered'
    <2>1. ASSUME NEW p \in DOMAIN orders'
          PROVE  /\ "uncovered" \notin orders'[p].refused
                 /\ "rent" \in orders'[p].refused => DrainedAfter(p)'
                 /\ TakenForConfidential(orders'[p]) => DrainedBefore(p)'
      <3>1. CASE p \in DOMAIN orders
        <4>1. (DrainedAfter(p)' <=> DrainedAfter(p)) /\ (DrainedBefore(p)' <=> DrainedBefore(p))
          BY <1>3 DEF DrainedAfter, DrainedBefore
        <4>2. QED
          BY <1>1, <3>1, <4>1 DEF LaunchInv, ExtrasAreCovered
      <3>2. CASE p = n + 1
        <4>1. orders'[p] = r
          BY <1>1, <3>2
        <4>2. WasDrained => n + 1 > drained
          BY <1>1 DEF LaunchInv, LaunchTypes
        <4>3. TakenForConfidential(r) => DrainedBefore(p)'
          BY <1>3, <3>2, <4>2 DEF DrainedBefore, WasDrained
        <4>4. QED
          BY <4>1, <4>3
      <3>3. QED
        BY <1>2, <3>1, <3>2
    <2>2. QED
      BY <2>1 DEF ExtrasAreCovered
  <1>8. QED
    BY <1>3, <1>5, <1>6, <1>7 DEF LaunchInv

\* Slippage takes a part of the quote away, never more than all of it.
LEMMA MinOutFits ==
    ASSUME NEW out \in Nat, NEW slip \in Slips
    PROVE  MinOut(out, slip) \in Nat
  <1>1. SlipDenom - slip \in Nat /\ SlipDenom \in Nat \ {0}
    BY Amounts
  <1>2. out * (SlipDenom - slip) \in Nat
    BY <1>1
  <1>3. QED
    BY <1>1, <1>2, DivBounds DEF MinOut

\* A quote for a buy fits in 64 bits.
LEMMA BuyQuote ==
    ASSUME NEW r \in ReservesType, NEW solIn \in SolInputs, NEW slip \in Slips,
           BuyQuoted(r, solIn)
    PROVE  TokensOut(r.sol, r.tokens, solIn) \in Nat /\ MinTokens(r, solIn, slip) \in Nat
  <1>1. r.sol \in Nat /\ r.tokens \in Nat /\ solIn \in Nat
    BY InputAssumption DEF ReservesType
  <1>2. VirtualSol + r.sol + IntoCurve(solIn) \in Nat \ {0}
    BY <1>1, FeeBounds, VirtualAssumption
  <1>3. TokensAfterBuy(r.sol, solIn) \in Nat
    BY <1>2, KFacts, DivBounds DEF TokensAfterBuy
  <1>4. TokensAfterBuy(r.sol, solIn) < r.tokens
    BY DEF BuyQuoted
  <1>5. TokensOut(r.sol, r.tokens, solIn) \in Nat
    BY <1>1, <1>3, <1>4 DEF TokensOut
  <1>6. QED
    BY <1>5, MinOutFits DEF MinTokens

\* And one for a sell.
LEMMA SellQuote ==
    ASSUME NEW r \in ReservesType, NEW tokensIn \in TokenInputs, NEW slip \in Slips,
           SellQuoted(r, tokensIn)
    PROVE  r.sol > 0 /\ MinSol(r, tokensIn, slip) \in Nat
  <1>1. r.sol \in Nat /\ GrossOut(r.sol, r.tokens, tokensIn) \in 1..r.sol
    BY DEF ReservesType, SellQuoted
  <1>2. GrossOut(r.sol, r.tokens, tokensIn) \in Nat
    BY <1>1
  <1>3. ToSeller(r.sol, r.tokens, tokensIn) \in Nat
    BY <1>2, FeeBounds DEF ToSeller
  <1>4. QED
    BY <1>1, <1>3, MinOutFits DEF MinSol

\* An account that is created is still an account.
LEMMA AtaTyped ==
    ASSUME LaunchTypes, NEW t \in Panels, NEW configures \in BOOLEAN, NEW probeFails \in BOOLEAN
    PROVE  AtaAfterBuy(t, configures, probeFails) \in {"unknown", "no", "yes", "assumed"}
  <1>1. panel[t].ata \in {"unknown", "no", "yes", "assumed"}
    BY DEF LaunchTypes, PanelType
  <1>2. Probed(panel[t].who) \in {"yes", "no"}
    BY DEF Probed
  <1>3. QED
    BY <1>1, <1>2, Zenon DEF AtaAfterBuy

\* What a panel learns is about the wallet that is connected.
LEMMA LearnsTyped ==
    ASSUME LaunchTypes, NEW t \in Panels, NEW ata \in {"unknown", "no", "yes", "assumed"}
    PROVE  /\ Learns(t, ata) \in [Panels -> PanelType]
           /\ \A v \in Panels : Learns(t, ata)[v].shown = panel[v].shown
           /\ \A v \in Panels : v /= t => Learns(t, ata)[v] = panel[v]
           /\ Learns(t, ata)[t].ata = ata /\ Learns(t, ata)[t].about = panel[t].who
  <1> DEFINE p == [panel[t] EXCEPT !.ata = ata, !.about = panel[t].who]
  <1>1. panel \in [Panels -> PanelType] /\ panel[t] \in PanelType
    BY DEF LaunchTypes
  <1>2. Learns(t, ata) = [panel EXCEPT ![t] = p]
    BY <1>1 DEF Learns
  <1>3. /\ p \in PanelType /\ p.shown = panel[t].shown
        /\ p.ata = ata /\ p.about = panel[t].who
    BY <1>1 DEF PanelType
  <1> HIDE DEF p
  <1>4. QED
    BY <1>1, <1>2, <1>3

\* A page builds a buy.
LEMMA BuildBuyStep ==
    ASSUME LaunchInv, NEW t \in Panels, NEW slip \in Slips, NEW confidential \in BOOLEAN,
           NEW probeFails \in BOOLEAN, NEW solIn \in SolInputs, NEW hasKeys \in BOOLEAN,
           BuildBuy(t, solIn, slip, confidential, probeFails, hasKeys)
    PROVE  LaunchInv'
  <1> DEFINE shown == panel[t].shown
             u == panel[t].who
             about == IF TakenForConfigured(t) THEN panel[t].about ELSE u
             configures == confidential /\ hasKeys /\ NeedsConfigure(t, probeFails)
             deposits == confidential /\ (NeedsConfigure(t, probeFails) => hasKeys)
             least == MinTokens(shown, solIn, slip)
             amount == IF deposits
                       THEN DepositOf(TokensOut(shown.sol, shown.tokens, solIn), least)
                       ELSE 0
             configuring == IF configures THEN ConfigureIxs ELSE <<>>
             r == Order(t, u, about, "built", BuyIxs(configuring, solIn, least, amount))
  <1>1. /\ shown /= Nothing /\ BuyQuoted(shown, solIn)
        /\ orders' = Append(orders, r)
        /\ panel' = IF confidential /\ ~TakenForConfigured(t)
                    THEN Learns(t, AtaAfterBuy(t, configures, probeFails))
                    ELSE panel
        /\ UNCHANGED <<vars, account, treasuryVars>>
    BY DEF BuildBuy, BuyIxs
  <1>2. shown \in ReservesType /\ u \in Users /\ about \in Users
    BY <1>1 DEF LaunchInv, LaunchTypes, PanelType
  <1>3. solIn \in Nat /\ least \in Nat
    BY <1>1, <1>2, BuyQuote, InputAssumption
  <1>4. amount \in 0..MaxDeposit /\ amount <= least
    <2> HIDE DEF least
    <2>1. QED
      BY <1>3, Amounts DEF DepositOf
  <1>5. configures \in BOOLEAN
    BY DEF NeedsConfigure
  <1>6. AtaAfterBuy(t, configures, probeFails) \in {"unknown", "no", "yes", "assumed"}
    BY <1>5, AtaTyped DEF LaunchInv
  <1>7. /\ panel' \in [Panels -> PanelType]
        /\ \A v \in Panels : panel'[v].shown = panel[v].shown
    <2> HIDE DEF configures
    <2>1. QED
      BY <1>1, <1>6, LearnsTyped DEF LaunchInv, LaunchTypes
  <1>8. r.ixs = BuyIxs(configuring, solIn, least, amount) /\ r.refused = {}
    BY DEF Order
  <1> HIDE DEF least, amount, configures, about, u
  <1>9. /\ r.ixs \in Seq(Instruction)
        /\ Buys(r) /\ The(r, "Buy") = BuyIx(solIn, least) /\ AmountOf(r, "Buy") = solIn
        /\ ~Sells(r) /\ ~Launches(r)
        /\ AmountOf(r, "Deposit") = amount
        /\ ~Funded => Has(r, "SeedTreasury")
        /\ AmountOf(r, "SeedTreasury") \in Nat
    <2>1. amount \in Nat
      BY <1>4, Amounts
    <2>2. r.ixs = BuyIxs(configuring, solIn, least, amount)
      BY <1>8
    <2>3. configuring = <<>> \/ configuring = ConfigureIxs
      OBVIOUS
    <2> HIDE DEF r, configuring
    <2>4. QED
      BY <1>3, <2>1, <2>2, <2>3, BuyOrder
  <1>10. The(r, "Buy").amount = solIn /\ The(r, "Buy").least = least /\ AmountOf(r, "Sell") = 0
    BY <1>9, NoIx DEF BuyIx, Ix, Sells
  <1>11. r \in OrderType
    BY <1>2, <1>8, <1>9 DEF Order, OrderType, Phases
  <1> HIDE DEF r
  <1>12. Coherent(r)
    BY <1>3, <1>4, <1>9, <1>10 DEF Coherent
  <1>13. ~TakenForConfidential(r)
    BY <1>9 DEF TakenForConfidential, Sells
  <1>14. QED
    BY <1>1, <1>7, <1>8, <1>9, <1>11, <1>12, <1>13, OrderAdded

\* A page builds a sell.
LEMMA BuildSellStep ==
    ASSUME LaunchInv, NEW t \in Panels, NEW slip \in Slips, NEW confidential \in BOOLEAN,
           NEW probeFails \in BOOLEAN, NEW tokensIn \in TokenInputs,
           BuildSell(t, tokensIn, slip, confidential, probeFails)
    PROVE  LaunchInv'
  <1> DEFINE shown == panel[t].shown
             u == panel[t].who
             least == MinSol(shown, tokensIn, slip)
             r == Order(t, u, u, "built", SeedTreasuryIxs \o <<SellIx(tokensIn, least)>>)
  <1>1. /\ shown /= Nothing /\ SellQuoted(shown, tokensIn)
        /\ orders' = Append(orders, r)
        /\ panel' = IF confidential /\ ~probeFails /\ panel[t].ata = "unknown"
                    THEN Learns(t, Probed(u))
                    ELSE panel
        /\ UNCHANGED <<vars, account, treasuryVars>>
    BY DEF BuildSell
  <1>2. shown \in ReservesType /\ u \in Users
    BY <1>1 DEF LaunchInv, LaunchTypes, PanelType
  <1>3. shown.sol > 0 /\ least \in Nat /\ tokensIn \in Nat
    BY <1>1, <1>2, SellQuote, InputAssumption
  <1>4. Funded \/ WasDrained
    BY <1>1, <1>3 DEF LaunchInv, SeedsFirst
  <1>5. /\ panel' \in [Panels -> PanelType]
        /\ \A v \in Panels : panel'[v].shown = panel[v].shown
    <2>1. Probed(u) \in {"unknown", "no", "yes", "assumed"}
      BY DEF Probed
    <2> HIDE DEF u
    <2>2. QED
      BY <1>1, <2>1, LearnsTyped DEF LaunchInv, LaunchTypes
  <1>6. r.ixs = SeedTreasuryIxs \o <<SellIx(tokensIn, least)>> /\ r.refused = {}
    BY DEF Order
  <1> HIDE DEF least, u
  <1>7. /\ r.ixs \in Seq(Instruction) /\ (Funded => Len(r.ixs) = 1)
        /\ Sells(r) /\ The(r, "Sell") = SellIx(tokensIn, least) /\ AmountOf(r, "Sell") = tokensIn
        /\ ~Buys(r) /\ ~Launches(r)
        /\ AmountOf(r, "Deposit") = 0 /\ AmountOf(r, "SeedTreasury") \in Nat
        /\ ~Funded => Has(r, "SeedTreasury")
    BY <1>3, <1>6, SellOrder
  <1>8. The(r, "Sell").amount = tokensIn /\ AmountOf(r, "Buy") = 0
    BY <1>7, NoIx DEF SellIx, Ix, Buys
  <1>9. r \in OrderType
    BY <1>2, <1>6, <1>7 DEF Order, OrderType, Phases
  <1> HIDE DEF r
  <1>10. Coherent(r)
    BY <1>3, <1>7, <1>8, Amounts DEF Coherent
  <1>11. TakenForConfidential(r) => WasDrained
    <2>1. ASSUME Funded PROVE ~(Len(r.ixs) > 1)
      <3>1. Len(r.ixs) = 1
        BY <1>7, <2>1, Zenon
      <3>2. QED
        BY <3>1
    <2>2. QED
      BY <1>4, <2>1 DEF TakenForConfidential
  <1>12. QED
    BY <1>1, <1>5, <1>6, <1>7, <1>9, <1>10, <1>11, OrderAdded

\* A page builds a launch, with a first buy or without.
LEMMA SendLaunchStep ==
    ASSUME LaunchInv, NEW seedBuy \in SolInputs, NEW big, NEW table,
           SendLaunch(seedBuy, big, table)
    PROVE  LaunchInv'
  <1> DEFINE r == Order(Nothing, Creator, Creator, "sent",
                        MintInitIxs \o <<CreateCurveIx>> \o SeedBuyIxs(seedBuy))
  <1>1. orders = <<>> /\ orders' = <<r>> /\ UNCHANGED <<vars, account, panel, treasuryVars>>
    BY DEF SendLaunch
  <1>2. /\ r.ixs = MintInitIxs \o <<CreateCurveIx>> \o SeedBuyIxs(seedBuy)
        /\ r.refused = {} /\ seedBuy \in Nat
    BY InputAssumption DEF Order
  <1>3. /\ r.ixs \in Seq(Instruction)
        /\ Launches(r) /\ ~Sells(r) /\ (Buys(r) <=> seedBuy > 0)
        /\ Buys(r) => /\ The(r, "Buy") = BuyIx(seedBuy, 0)
                      /\ ~Funded => Has(r, "SeedTreasury")
        /\ AmountOf(r, "Buy") = seedBuy
        /\ AmountOf(r, "Deposit") = 0 /\ AmountOf(r, "SeedTreasury") \in Nat
    BY <1>2, LaunchOrder
  <1>4. BuyIx(seedBuy, 0).amount = seedBuy /\ BuyIx(seedBuy, 0).least = 0
        /\ AmountOf(r, "Sell") = 0
    BY <1>3, NoIx DEF BuyIx, Ix, Sells
  <1>5. r \in OrderType
    BY <1>2, <1>3, Amounts DEF Order, OrderType, Phases
  <1> HIDE DEF r
  <1>6. Coherent(r)
    BY <1>2, <1>3, <1>4, Amounts DEF Coherent
  <1>7. ~TakenForConfidential(r)
    BY <1>3 DEF TakenForConfidential, Sells
  <1>8. orders' = Append(orders, r)
    BY <1>1
  <1>9. panel' \in [Panels -> PanelType] /\ \A t \in Panels : panel'[t].shown = panel[t].shown
    BY <1>1 DEF LaunchInv, LaunchTypes
  <1>10. QED
    BY <1>1, <1>2, <1>3, <1>5, <1>6, <1>7, <1>8, <1>9, OrderAdded

-----------------------------------------------------------------------------
(* Orders that reach the chain.                                            *)

\* The initial reserves are on the hyperbola.
LEMMA NearInitial == NearHyperbola(0, VirtualTokens)
  <1>1. (VirtualSol + 1) * (VirtualTokens + 1) = VirtualSol * VirtualTokens + VirtualSol + VirtualTokens + 1
    BY VirtualAssumption
  <1>2. VirtualSol * VirtualTokens \in Nat
    BY VirtualAssumption
  <1>3. QED
    BY <1>1, <1>2, VirtualAssumption DEF NearHyperbola, K

\* The reserves that an order meets when the curve accepts its buy.
LEMMA MetReserves ==
    ASSUME CurveInv, NEW r, Launches(r) \/ created
    PROVE  /\ At(r).sol \in Nat /\ At(r).tokens \in Nat
           /\ NearHyperbola(At(r).sol, At(r).tokens)
  <1>1. CASE Launches(r)
    <2>1. At(r).sol = 0 /\ At(r).tokens = VirtualTokens
      BY <1>1 DEF At, InitialReserves
    <2>2. QED
      BY <2>1, NearInitial, VirtualAssumption
  <1>2. CASE ~Launches(r)
    <2>1. At(r).sol = sol /\ At(r).tokens = tokens
      BY <1>2 DEF At, Reserves
    <2>2. QED
      BY <1>2, <2>1 DEF CurveInv, TypeOK
  <1>3. QED
    BY <1>1, <1>2

\* What an accepted buy returns is at least what it was promised.
LEMMA ReceivedTokens ==
    ASSUME CurveInv, NEW r, Coherent(r), CurveAccepts(r)
    PROVE  /\ Received(r) \in Nat
           /\ Buys(r) => The(r, "Buy").least <= Received(r)
  <1>1. CASE ~Buys(r)
    BY <1>1 DEF Received
  <1>2. CASE Buys(r)
    <2> DEFINE s == At(r).sol
               t == At(r).tokens
               x == The(r, "Buy").amount
    <2>1. /\ Received(r) = TokensOut(s, t, x) /\ AmountOf(r, "Buy") = x
          /\ CanBuy(s, t, x, The(r, "Buy").least)
      BY <1>2 DEF Received, CurveAccepts, AmountOf, Buys
    <2>2. s \in Nat /\ t \in Nat
      BY VirtualAssumption DEF At, InitialReserves, Reserves, CurveInv, TypeOK
    <2>3. x \in Nat /\ The(r, "Buy").least \in Nat
      <3>1. x \in SolInputs /\ The(r, "Buy").least \in Nat
        BY <1>2 DEF Coherent
      <3> HIDE DEF x
      <3>2. QED
        BY <3>1, InputAssumption
    <2> HIDE DEF s, t, x
    <2>4. VirtualSol + s + IntoCurve(x) \in Nat \ {0}
      BY <2>2, <2>3, FeeBounds, VirtualAssumption
    <2>5. TokensAfterBuy(s, x) \in Nat
      BY <2>4, KFacts, DivBounds DEF TokensAfterBuy
    <2>6. TokensAfterBuy(s, x) < t /\ TokensOut(s, t, x) >= The(r, "Buy").least
      BY <2>1 DEF CanBuy
    <2>7. TokensOut(s, t, x) = t - TokensAfterBuy(s, x)
      BY DEF TokensOut
    <2>8. QED
      BY <2>1, <2>2, <2>3, <2>5, <2>6, <2>7
  <1>3. QED
    BY <1>1, <1>2

\* The page's additions are not what a transaction is refused for, unless the
\* treasury was drained after it was built.
LEMMA NeverForTheExtras ==
    ASSUME LaunchInv, NEW o \in DOMAIN orders
    PROVE  /\ Refusals(orders[o]) \subseteq Reasons
           /\ "uncovered" \notin Refusals(orders[o])
           /\ "rent" \in Refusals(orders[o]) => DrainedAfter(o)
  <1> DEFINE r == orders[o]
             a == account[r.user]
             deposit == AmountOf(r, "Deposit")
             fails == [tokens |-> AmountOf(r, "Sell") > a.public,
                       configure |-> Has(r, "Configure") /\ (~a.room \/ a.configured),
                       unconfigured |-> deposit > 0 /\ ~(a.configured \/ Has(r, "Configure")),
                       uncovered |-> deposit > MaxDeposit \/ deposit > a.public + Received(r),
                       rent |-> ~(Funded \/ Has(r, "SeedTreasury"))
                          /\ Fee(r) \in 1..(SeedRent - 1)]
  <1>1. \/ Refusals(r) \in {{"treasury"}, {"curve"}}
        \/ CurveAccepts(r) /\ Refusals(r) = {why \in DOMAIN fails : fails[why]}
    BY Zenon DEF Refusals
  <1>2. r \in OrderType /\ a \in AccountType /\ Coherent(r) /\ FundedFor(o)
    BY OrderTyped DEF LaunchInv, LaunchTypes, SeedsFirst, OrderType
  <1>3. a.public \in Nat
    BY <1>2 DEF AccountType
  <1>4. ASSUME CurveAccepts(r) PROVE ~(deposit > MaxDeposit \/ deposit > a.public + Received(r))
    <2>1. Received(r) \in Nat /\ (Buys(r) => The(r, "Buy").least <= Received(r))
      BY <1>2, <1>4, ReceivedTokens DEF LaunchInv
    <2>2. /\ deposit \in 0..MaxDeposit
          /\ deposit > 0 => /\ Buys(r) /\ deposit <= The(r, "Buy").least
                            /\ The(r, "Buy").least \in Nat
      BY <1>2 DEF Coherent
    <2> HIDE DEF deposit, a, r
    <2>3. QED
      BY <1>3, <2>1, <2>2, Amounts
  <1>5. ASSUME ~(Funded \/ Has(r, "SeedTreasury")) /\ Fee(r) \in 1..(SeedRent - 1)
        PROVE  DrainedAfter(o)
    <2>1. CASE Buys(r) \/ Sells(r)
      BY <1>2, <1>5, <2>1 DEF FundedFor
    <2>2. CASE ~Buys(r) /\ ~Sells(r)
      <3>1. Fee(r) = FeeOn(0)
        BY <2>2, NoIx DEF Fee, Buys
      <3>2. FeeOn(0) = 0
        BY FeeBounds
      <3>3. QED
        BY <1>5, <3>1, <3>2
    <2>3. QED
      BY <2>1, <2>2
  <1>6. DOMAIN fails = Reasons \ {"curve", "treasury"}
    BY DEF Reasons
  <1>7. CurveAccepts(r) => ~fails["uncovered"]
    BY <1>4
  <1>8. fails["rent"] => DrainedAfter(o)
    BY <1>5
  <1> HIDE DEF fails, r
  <1>9. CASE Refusals(r) \in {{"treasury"}, {"curve"}}
    BY <1>9 DEF Reasons, r
  <1>10. CASE CurveAccepts(r) /\ Refusals(r) = {why \in DOMAIN fails : fails[why]}
    BY <1>6, <1>7, <1>8, <1>10 DEF r
  <1>11. QED
    BY <1>1, <1>9, <1>10

\* A transaction that reverts costs its fee.
LEMMA RevertsStep ==
    ASSUME LaunchInv, NEW o \in DOMAIN orders, Reverts(o)
    PROVE  LaunchInv'
  <1> DEFINE why == Refusals(orders[o])
             q == [orders[o] EXCEPT !.phase = "failed", !.refused = why]
  <1>1. /\ orders' = [orders EXCEPT ![o].phase = "failed", ![o].refused = why]
        /\ UNCHANGED <<vars, account, panel, treasuryVars>>
    BY DEF Reverts
  <1>2. /\ why \subseteq Reasons /\ "uncovered" \notin why
        /\ "rent" \in why => DrainedAfter(o)
    BY NeverForTheExtras
  <1> HIDE DEF why
  <1>3. orders[o] \in OrderType
    BY OrderTyped DEF LaunchInv
  <1>4. q \in OrderType /\ q.ixs = orders[o].ixs /\ q.refused = why
    BY <1>2, <1>3 DEF OrderType, Phases
  <1>5. orders' = [orders EXCEPT ![o] = q]
    BY <1>1, <1>3, OrderTyped DEF LaunchInv, LaunchTypes, OrderType
  <1> HIDE DEF q
  <1>6. /\ orders' \in Seq(OrderType) /\ DOMAIN orders' = DOMAIN orders
        /\ orders'[o] = q /\ \A p \in DOMAIN orders : p /= o => orders'[p] = orders[p]
    BY <1>4, <1>5, OrderMoves DEF LaunchInv
  <1>7. \A p \in DOMAIN orders : orders'[p].ixs = orders[p].ixs
    BY <1>4, <1>6
  <1>8. /\ CurveInv' /\ sol' = sol /\ treasury' = treasury /\ drained' = drained
        /\ (Funded' <=> Funded) /\ Len(orders') = Len(orders)
    BY <1>1, <1>4, <1>5, OrderMoves, CurveUnchanged DEF LaunchInv, vars, treasuryVars, Funded
  <1>9. LaunchTypes'
    BY <1>1, <1>6, <1>8 DEF LaunchInv, LaunchTypes, WasDrained
  <1>10. SeedsFirst'
    BY <1>1, <1>6, <1>7, <1>8, SeedsKept DEF LaunchInv, SeedsFirst
  <1>11. ExtrasAreCovered'
    BY <1>2, <1>4, <1>6, <1>7, <1>8, CoveredKept DEF LaunchInv
  <1>12. QED
    BY <1>8, <1>9, <1>10, <1>11 DEF LaunchInv

\* What the program charges and pays for a trade.
LEMMA TradeAmounts ==
    ASSUME NEW r, Coherent(r)
    PROVE  /\ AmountOf(r, "Buy") \in 0..MaxU64
           /\ Buys(r) => The(r, "Buy").amount \in Nat
           /\ Sells(r) => The(r, "Sell").amount \in Nat
  <1>1. (\A x \in SolInputs \cup {0} : x \in 0..MaxU64)
        /\ (\A x \in TokenInputs : x \in 0..MaxU64)
    BY InputAssumption, WidthAssumption
  <1>2. \A x \in 0..MaxU64 : x \in Nat
    OBVIOUS
  <1>3. /\ AmountOf(r, "Buy") \in SolInputs \cup {0}
        /\ Buys(r) => The(r, "Buy").amount \in SolInputs
        /\ Sells(r) => The(r, "Sell").amount \in TokenInputs
    BY DEF Coherent
  <1>4. QED
    BY <1>1, <1>2, <1>3

\* Created and bought into in one transaction, the curve starts out as every
\* later trade leaves it.
LEMMA LaunchKeepsCurve ==
    ASSUME CurveInv, NEW r, Coherent(r), CurveAccepts(r), Launches(r), LaunchExecutes(r)
    PROVE  CurveInv' /\ (~Buys(r) => sol' = 0)
  <1> DEFINE solIn == AmountOf(r, "Buy")
             x == IntoCurve(solIn)
             u == VirtualTokens - Received(r)
  <1>1. /\ mintAuthority' = "curve" /\ created' = TRUE
        /\ sol' = x /\ tokens' = u /\ vault' = u /\ circulating' = Received(r)
        /\ lamports' = lamports + x /\ dispensed' = Received(r) /\ fees' = FeeOn(solIn)
        /\ graduated' = Crosses(sol') /\ graduations' = IF Crosses(sol') THEN 1 ELSE 0
    BY DEF LaunchExecutes
  <1>2. solIn \in 0..MaxU64
    BY TradeAmounts
  <1>3. At(r).sol = 0 /\ At(r).tokens = VirtualTokens
    BY DEF At, InitialReserves
  <1>4. u \in 0..VirtualTokens /\ NearHyperbola(x, u) /\ x <= MaxU64
    <2>1. CASE ~Buys(r)
      <3>1. solIn = 0 /\ Received(r) = 0
        BY <2>1, NoIx DEF Received, Buys
      <3>2. x = 0
        <4>1. FeeOn(0) = 0
          BY FeeBounds
        <4>2. QED
          BY <3>1, <4>1 DEF IntoCurve
      <3>3. QED
        BY <3>1, <3>2, NearInitial, VirtualAssumption, WidthAssumption
    <2>2. CASE Buys(r)
      <3>1. /\ Received(r) = VirtualTokens - TokensAfterBuy(0, solIn)
            /\ CanBuy(0, VirtualTokens, solIn, The(r, "Buy").least)
        BY <1>3, <2>2 DEF Received, CurveAccepts, AmountOf, Buys, TokensOut
      <3>2. x > 0 /\ 0 + x <= MaxU64
        BY <3>1 DEF CanBuy
      <3>3. solIn \in Nat
        BY <1>2
      <3>4. /\ TokensAfterBuy(0, solIn) \in 0..VirtualTokens
            /\ NearHyperbola(0 + x, TokensAfterBuy(0, solIn))
        BY <3>2, <3>3, NearInitial, VirtualAssumption, BuyStaysNear
      <3>5. x \in Nat
        BY <3>3, FeeBounds
      <3> HIDE DEF solIn, x
      <3>6. u = TokensAfterBuy(0, solIn) /\ 0 + x = x
        BY <3>1, <3>4, <3>5, VirtualAssumption
      <3>7. QED
        BY <3>2, <3>4, <3>5, <3>6
    <2>3. QED
      BY <2>1, <2>2
  <1>5. x \in Nat /\ FeeOn(solIn) \in 0..MaxU64 /\ Received(r) \in Nat
    <2>1. solIn \in Nat
      BY <1>2
    <2>2. FeeOn(solIn) \in 0..solIn /\ x \in 0..solIn
      BY <2>1, FeeBounds
    <2> HIDE DEF solIn, x
    <2>3. QED
      BY <1>2, <2>1, <2>2, ReceivedTokens, WidthAssumption
  <1>6. ~Buys(r) => sol' = 0
    <2>1. FeeOn(0) = 0
      BY FeeBounds
    <2>2. QED
      BY <1>1, <2>1, NoIx DEF Buys, IntoCurve
  <1> HIDE DEF solIn, x, u
  <1>7. lamports' \in Nat /\ lamports' >= sol'
    BY <1>1, <1>5 DEF CurveInv, TypeOK
  <1>8. Received(r) <= VirtualTokens /\ u + Received(r) = VirtualTokens
    BY <1>4, <1>5, VirtualAssumption DEF u
  <1>9. graduated' \in BOOLEAN /\ graduations' \in Nat
    BY <1>1 DEF Crosses
  <1>10. TypeOK'
    BY <1>1, <1>4, <1>5, <1>7, <1>8, <1>9, WidthAssumption, VirtualAssumption DEF TypeOK
  <1>11. ReservesBacked' /\ EveryTokenSellable' /\ vault' + circulating' <= VirtualTokens
    BY <1>1, <1>4, <1>5, <1>7, <1>8, VirtualAssumption DEF ReservesBacked, EveryTokenSellable
  <1>12. GraduatesOnce'
    BY <1>1 DEF GraduatesOnce, Crosses
  <1>13. QED
    BY <1>1, <1>4, <1>6, <1>10, <1>11, <1>12 DEF CurveInv

\* The curve's own invariant, in a transaction that also does other things.
LEMMA TradeKeepsCurve ==
    ASSUME CurveInv, NEW r, Coherent(r), CurveAccepts(r), TradeExecutes(r)
    PROVE  CurveInv' /\ (~Buys(r) /\ ~Sells(r) => sol' = 0)
  <1>1. CASE Launches(r) /\ LaunchExecutes(r)
    BY <1>1, LaunchKeepsCurve
  <1>2. CASE Buys(r) /\ Buy(The(r, "Buy").amount, The(r, "Buy").least)
    <2>1. The(r, "Buy").amount \in Nat
      BY <1>2, TradeAmounts
    <2>2. QED
      BY <1>2, <2>1, BuyKeeps
  <1>3. CASE Sells(r) /\ Sell(The(r, "Sell").amount, The(r, "Sell").least)
    <2>1. The(r, "Sell").amount \in Nat
      BY <1>3, TradeAmounts
    <2>2. QED
      BY <1>3, <2>1, SellKeeps
  <1>4. QED
    BY <1>1, <1>2, <1>3 DEF TradeExecutes

\* The proceeds are a number.
LEMMA ProceedsTyped ==
    ASSUME CurveInv, NEW r, Coherent(r), CurveAccepts(r)
    PROVE  Proceeds(r) \in Nat
  <1>1. CASE Sells(r)
    <2> DEFINE g == GrossOut(sol, tokens, AmountOf(r, "Sell"))
    <2>1. g \in 1..sol /\ sol \in Nat
      BY <1>1 DEF CurveAccepts, AmountOf, Sells, CanSell, CurveInv, TypeOK
    <2>2. g \in Nat /\ Proceeds(r) = g - FeeOn(g)
      BY <1>1, <2>1 DEF Proceeds, ToSeller
    <2> HIDE DEF g
    <2>3. QED
      BY <2>2, FeeBounds
  <1>2. QED
    BY <1>1 DEF Proceeds

\* And so is what comes on top of a trade,
LEMMA OverheadTyped ==
    ASSUME NEW r, Coherent(r)
    PROVE  Overhead(r) \in Nat
  BY Amounts DEF Coherent, Overhead

\* and the difference to a wallet.
LEMMA DeltaTyped ==
    ASSUME CurveInv, NEW r, Coherent(r), CurveAccepts(r)
    PROVE  Delta(r) \in Nat
  <1>1. Proceeds(r) \in Nat /\ Overhead(r) \in Nat /\ TxFee \in Nat
    BY ProceedsTyped, OverheadTyped, Amounts
  <1>2. AmountOf(r, "Buy") \in Nat
    BY TradeAmounts
  <1>3. Signers(r) * TxFee \in Nat
    BY <1>1 DEF Signers
  <1>4. QED
    BY <1>1, <1>2, <1>3 DEF Delta, Distance

\* Nobody's balance goes below zero.
LEMMA AccountsTyped ==
    ASSUME LaunchInv, NEW o \in DOMAIN orders, Refusals(orders[o]) = {},
           CurveAccepts(orders[o]), TradeExecutes(orders[o])
    PROVE  /\ account' \in [Users -> AccountType]
           /\ \A u \in Users : account[u].configured => account'[u].configured
  <1> DEFINE r == orders[o]
             a == account[r.user]
             deposit == AmountOf(r, "Deposit")
             fails == [tokens |-> AmountOf(r, "Sell") > a.public,
                       configure |-> Has(r, "Configure") /\ (~a.room \/ a.configured),
                       unconfigured |-> deposit > 0 /\ ~(a.configured \/ Has(r, "Configure")),
                       uncovered |-> deposit > MaxDeposit \/ deposit > a.public + Received(r),
                       rent |-> ~(Funded \/ Has(r, "SeedTreasury"))
                          /\ Fee(r) \in 1..(SeedRent - 1)]
  <1>1. {why \in DOMAIN fails : fails[why]} = {}
    BY DEF Refusals
  <1>2. "tokens" \in DOMAIN fails /\ "uncovered" \in DOMAIN fails
    OBVIOUS
  <1>3. ~fails["tokens"] /\ ~fails["uncovered"]
    <2> HIDE DEF fails
    <2>1. QED
      BY <1>1, <1>2
  <1>4. ~(AmountOf(r, "Sell") > a.public) /\ ~(deposit > a.public + Received(r))
    BY <1>3
  <1>5. /\ r.user \in Users /\ a \in AccountType /\ Coherent(r)
        /\ account \in [Users -> AccountType]
    BY OrderTyped DEF LaunchInv, LaunchTypes, SeedsFirst, OrderType
  <1>6. /\ a.public \in Nat /\ deposit \in Nat /\ AmountOf(r, "Sell") \in Nat
        /\ Received(r) \in Nat
    BY <1>5, ReceivedTokens, Amounts DEF Coherent, AccountType, LaunchInv
  <1>7. Bought(a, r) \in AccountType /\ (a.configured => Bought(a, r).configured)
    <2>1. a.public + Received(r) - deposit \in Nat /\ a.pending + deposit \in Nat
      BY <1>4, <1>5, <1>6 DEF AccountType
    <2>2. Has(r, "Configure") \in BOOLEAN
      BY DEF Has
    <2> HIDE DEF r, a
    <2>3. QED
      BY <1>5, <2>1, <2>2 DEF Bought, AccountType
  <1>8. [a EXCEPT !.public = @ - AmountOf(r, "Sell")] \in AccountType
    <2>1. a.public - AmountOf(r, "Sell") \in Nat
      BY <1>4, <1>6
    <2> HIDE DEF r, a
    <2>2. QED
      BY <1>5, <2>1 DEF AccountType
  <1>9. \/ account' = account
        \/ account' = [account EXCEPT ![r.user] = Bought(a, r)]
        \/ account' = [account EXCEPT ![r.user].public = @ - AmountOf(r, "Sell")]
    BY DEF TradeExecutes
  <1> HIDE DEF r
  <1>10. CASE account' = account
    BY <1>5, <1>10
  <1>11. CASE account' = [account EXCEPT ![r.user] = Bought(a, r)]
    BY <1>5, <1>7, <1>11
  <1>12. CASE account' = [account EXCEPT ![r.user].public = @ - AmountOf(r, "Sell")]
    <2>1. account' = [account EXCEPT ![r.user] = [a EXCEPT !.public = @ - AmountOf(r, "Sell")]]
      BY <1>5, <1>12 DEF AccountType
    <2>2. [a EXCEPT !.public = @ - AmountOf(r, "Sell")].configured = a.configured
      BY <1>5 DEF AccountType
    <2>3. QED
      BY <1>5, <1>8, <2>1, <2>2
  <1>13. QED
    BY <1>9, <1>10, <1>11, <1>12

\* A transaction lands: the curve trades, the wallet pays, the rest is covered.
LEMMA LandsStep ==
    ASSUME LaunchInv, NEW o \in DOMAIN orders, Lands(o)
    PROVE  LaunchInv'
  <1> DEFINE r == orders[o]
             q == [r EXCEPT !.phase = "landed", !.proceeds = Proceeds(r),
                            !.overhead = Overhead(r), !.delta = Delta(r), !.after = sol']
  <1>1. /\ Refusals(r) = {} /\ TradeExecutes(r)
        /\ orders' = [orders EXCEPT ![o] = q]
        /\ treasury' = IF ~Funded /\ (Has(r, "SeedTreasury") \/ Fee(r) >= SeedRent)
                       THEN "system" ELSE treasury
        /\ panel' = panel /\ drained' = drained
    BY DEF Lands
  <1>2. r \in OrderType /\ Coherent(r) /\ FundedFor(o)
    BY OrderTyped DEF LaunchInv, SeedsFirst
  <1>3. CurveAccepts(r)
    BY <1>1 DEF Refusals
  <1>4. CurveInv' /\ (~Buys(r) /\ ~Sells(r) => sol' = 0)
    BY <1>1, <1>2, <1>3, TradeKeepsCurve DEF LaunchInv
  <1>5. sol' \in Int /\ Proceeds(r) \in Nat /\ Overhead(r) \in Nat /\ Delta(r) \in Nat
    BY <1>2, <1>3, <1>4, ProceedsTyped, OverheadTyped, DeltaTyped DEF CurveInv, TypeOK, LaunchInv
  <1>6. q \in OrderType /\ q.ixs = r.ixs /\ q.refused = r.refused
    <2> DEFINE p == Proceeds(r)
               h == Overhead(r)
               d == Delta(r)
               s == sol'
    <2>1. p \in Int /\ h \in Int /\ d \in Int /\ s \in Int
      BY <1>5
    <2> HIDE DEF r, p, h, d, s
    <2>2. /\ [r EXCEPT !.phase = "landed", !.proceeds = p, !.overhead = h, !.delta = d,
                       !.after = s] \in OrderType
          /\ [r EXCEPT !.phase = "landed", !.proceeds = p, !.overhead = h, !.delta = d,
                       !.after = s].ixs = r.ixs
          /\ [r EXCEPT !.phase = "landed", !.proceeds = p, !.overhead = h, !.delta = d,
                       !.after = s].refused = r.refused
      BY <1>2, <2>1 DEF OrderType, Phases
    <2>3. QED
      BY <2>2 DEF p, h, d, s
  <1> HIDE DEF q
  <1>7. /\ orders' \in Seq(OrderType) /\ DOMAIN orders' = DOMAIN orders
        /\ orders'[o] = q /\ \A p \in DOMAIN orders : p /= o => orders'[p] = orders[p]
    BY <1>1, <1>6, OrderMoves DEF LaunchInv
  <1>8. \A p \in DOMAIN orders :
           orders'[p].ixs = orders[p].ixs /\ orders'[p].refused = orders[p].refused
    BY <1>6, <1>7
  <1>9. /\ Funded => Funded'
        /\ treasury' = "lazyClaim" => treasury = "lazyClaim"
        /\ treasury' \in {"lazyClaim", "system", "absent"}
        /\ Has(r, "SeedTreasury") => Funded'
    BY <1>1 DEF Funded, LaunchInv, LaunchTypes
  <1>10. LaunchTypes'
    <2>1. account' \in [Users -> AccountType]
      BY <1>1, <1>3, AccountsTyped
    <2>2. Len(orders') = Len(orders)
      BY <1>1, <1>6, OrderMoves DEF LaunchInv
    <2>3. QED
      BY <1>1, <1>7, <1>9, <2>1, <2>2 DEF LaunchInv, LaunchTypes, WasDrained
  <1>11. SeedsFirst'
    <2>1. sol' > 0 => Funded' \/ WasDrained
      <3>1. SUFFICES ASSUME sol' > 0 PROVE Funded' \/ WasDrained
        OBVIOUS
      <3>2. Buys(r) \/ Sells(r)
        BY <1>4, <3>1
      <3>3. Funded \/ Has(r, "SeedTreasury") \/ DrainedAfter(o)
        BY <1>2, <3>2 DEF FundedFor
      <3>4. QED
        BY <1>9, <3>3 DEF DrainedAfter, WasDrained
    <2>2. \A t \in Panels : panel'[t].shown = panel[t].shown
      BY <1>1
    <2>3. QED
      BY <1>1, <1>7, <1>8, <1>9, <2>1, <2>2, SeedsKept DEF LaunchInv
  <1>12. ExtrasAreCovered'
    BY <1>1, <1>7, <1>8, CoveredKept DEF LaunchInv
  <1>13. QED
    BY <1>4, <1>10, <1>11, <1>12 DEF LaunchInv

-----------------------------------------------------------------------------
(* Every step.                                                             *)

\* What the job and stuttering leave as it is is all that LaunchInv is about.
LEMMA StillLaunch ==
    ASSUME LaunchInv, UNCHANGED <<vars, orders, account, panel, treasuryVars>>
    PROVE  LaunchInv'
  <1>1. /\ CurveInv' /\ sol' = sol /\ treasury' = treasury /\ drained' = drained
        /\ (Funded' <=> Funded)
    BY CurveUnchanged DEF LaunchInv, vars, treasuryVars, Funded
  <1>2. LaunchTypes'
    BY <1>1 DEF LaunchInv, LaunchTypes, WasDrained
  <1>3. SeedsFirst'
    BY <1>1, SeedsKept DEF LaunchInv, SeedsFirst
  <1>4. ExtrasAreCovered'
    BY <1>1, CoveredKept DEF LaunchInv
  <1>5. QED
    BY <1>1, <1>2, <1>3, <1>4 DEF LaunchInv

\* A panel shows what it showed, nothing, or the curve as it is.
LEMMA PanelOnlyStep ==
    ASSUME LaunchInv, UNCHANGED <<vars, orders, account, treasuryVars>>,
           panel' \in [Panels -> PanelType],
           \A t \in Panels : panel'[t].shown \in {panel[t].shown, Reserves}
    PROVE  LaunchInv'
  <1>1. /\ CurveInv' /\ sol' = sol /\ treasury' = treasury /\ drained' = drained
        /\ (Funded' <=> Funded)
    BY CurveUnchanged DEF LaunchInv, vars, treasuryVars, Funded
  <1>2. LaunchTypes'
    BY <1>1 DEF LaunchInv, LaunchTypes, WasDrained
  <1>3. \A t \in Panels : panel'[t].shown = panel[t].shown
                           \/ (panel'[t].shown.sol > 0 => Funded' \/ WasDrained)
    <2>1. Reserves.sol = sol
      BY DEF Reserves
    <2>2. QED
      BY <1>1, <2>1 DEF LaunchInv, SeedsFirst
  <1>4. SeedsFirst'
    BY <1>1, <1>3, SeedsKept DEF LaunchInv, SeedsFirst
  <1>5. ExtrasAreCovered'
    BY <1>1, CoveredKept DEF LaunchInv
  <1>6. QED
    BY <1>1, <1>2, <1>4, <1>5 DEF LaunchInv

\* The page reads the curve,
LEMMA CurveShownStep ==
    ASSUME LaunchInv, NEW t \in Panels, CurveShown(t)
    PROVE  LaunchInv'
  <1> DEFINE p == [FreshPanel(panel[t].who) EXCEPT !.shown = Reserves]
  <1>1. panel' = [panel EXCEPT ![t] = p] /\ UNCHANGED <<vars, orders, account, treasuryVars>>
    BY DEF CurveShown
  <1>2. panel \in [Panels -> PanelType] /\ Reserves \in ReservesType
    BY DEF LaunchInv, LaunchTypes, Reserves, ReservesType, CurveInv, TypeOK
  <1>3. p \in PanelType /\ p.shown = Reserves
    BY <1>2 DEF PanelType, FreshPanel
  <1> HIDE DEF p
  <1>4. QED
    BY <1>1, <1>2, <1>3, PanelOnlyStep

\* another wallet connects,
LEMMA ChangeWalletStep ==
    ASSUME LaunchInv, NEW t \in Panels, NEW u \in Users, ChangeWallet(t, u)
    PROVE  LaunchInv'
  <1>1. panel' = [panel EXCEPT ![t].who = u] /\ UNCHANGED <<vars, orders, account, treasuryVars>>
    BY DEF ChangeWallet
  <1>2. panel \in [Panels -> PanelType]
    BY DEF LaunchInv, LaunchTypes
  <1>3. /\ panel' \in [Panels -> PanelType]
        /\ \A v \in Panels : panel'[v].shown = panel[v].shown
    BY <1>1, <1>2 DEF PanelType
  <1>4. QED
    BY <1>1, <1>3, PanelOnlyStep

\* and the side panel changes the account.
LEMMA SidePanelStep ==
    ASSUME LaunchInv, NEW u \in Users, ConfiguredBySidePanel(u)
    PROVE  LaunchInv'
  <1>1. /\ account' = [account EXCEPT ![u].exists = TRUE, ![u].room = TRUE,
                                      ![u].configured = TRUE]
        /\ UNCHANGED <<vars, orders, panel, treasuryVars>>
    BY DEF ConfiguredBySidePanel
  <1>2. /\ CurveInv' /\ sol' = sol /\ treasury' = treasury /\ drained' = drained
        /\ (Funded' <=> Funded)
    BY <1>1, CurveUnchanged DEF LaunchInv, vars, treasuryVars, Funded
  <1>3. LaunchTypes'
    BY <1>1, <1>2 DEF LaunchInv, LaunchTypes, AccountType, WasDrained
  <1>4. SeedsFirst'
    BY <1>1, <1>2, SeedsKept DEF LaunchInv, SeedsFirst
  <1>5. ExtrasAreCovered'
    BY <1>1, <1>2, CoveredKept DEF LaunchInv
  <1>6. QED
    BY <1>2, <1>3, <1>4, <1>5 DEF LaunchInv

\* The treasury is drained: all the orders that there are were built before.
LEMMA TreasuryDrainedStep ==
    ASSUME LaunchInv, TreasuryDrained
    PROVE  LaunchInv'
  <1>1. /\ treasury = "lazyClaim" /\ treasury' = "absent" /\ drained' = Len(orders)
        /\ UNCHANGED <<vars, orders, account, panel>>
    BY DEF TreasuryDrained
  <1>2. ~WasDrained /\ CurveInv' /\ sol' = sol
    BY <1>1, CurveUnchanged DEF LaunchInv, SeedsFirst, vars
  <1>3. Len(orders) \in Nat /\ DOMAIN orders = 1..Len(orders)
    BY DEF LaunchInv, LaunchTypes
  <1>4. drained' /= Nothing
    BY <1>1, <1>3, NothingAssumption
  <1>5. WasDrained' /\ \A o \in DOMAIN orders : DrainedAfter(o)'
    BY <1>1, <1>3, <1>4 DEF WasDrained, DrainedAfter
  <1>6. LaunchTypes'
    BY <1>1, <1>3 DEF LaunchInv, LaunchTypes
  <1>7. SeedsFirst'
    <2>1. \A o \in DOMAIN orders' : Coherent(orders'[o]) /\ FundedFor(o)'
      BY <1>1, <1>5 DEF LaunchInv, SeedsFirst, FundedFor
    <2>2. QED
      BY <1>1, <1>5, <2>1 DEF SeedsFirst
  <1>8. ExtrasAreCovered'
    <2>1. \A o \in DOMAIN orders : ~TakenForConfidential(orders[o])
      BY <1>2 DEF LaunchInv, ExtrasAreCovered, DrainedBefore, WasDrained
    <2>2. QED
      BY <1>1, <1>5, <2>1 DEF LaunchInv, ExtrasAreCovered
  <1>9. QED
    BY <1>2, <1>6, <1>7, <1>8 DEF LaunchInv

\* An order is sent.
LEMMA SendOrderStep ==
    ASSUME LaunchInv, NEW o \in DOMAIN orders, NEW table, SendOrder(o, table)
    PROVE  LaunchInv'
  <1> DEFINE t == orders[o].panel
             p == FreshPanel(panel[t].who)
  <1>1. /\ orders' = [orders EXCEPT ![o].phase = "sent"]
        /\ panel' = [panel EXCEPT ![t] = p]
        /\ UNCHANGED <<vars, account, treasuryVars>>
    BY DEF SendOrder, PanelRefreshed
  <1>2. panel \in [Panels -> PanelType] /\ "sent" \in Phases
    BY DEF LaunchInv, LaunchTypes, Phases
  <1>3. t \in Panels => p \in PanelType
    BY <1>2 DEF FreshPanel, PanelType
  <1>4. p.shown = Nothing
    BY DEF FreshPanel
  <1> HIDE DEF p, t
  <1>5. /\ panel' \in [Panels -> PanelType]
        /\ \A v \in Panels : panel'[v].shown = panel[v].shown \/ panel'[v].shown = Nothing
    BY <1>1, <1>2, <1>3, <1>4
  <1>6. QED
    BY <1>1, <1>2, <1>5, PhaseStep

\* An order is declined or expires.
LEMMA PhaseOnlyStep ==
    ASSUME LaunchInv, NEW o \in DOMAIN orders, OrderDeclined(o) \/ Expires(o)
    PROVE  LaunchInv'
  <1>1. UNCHANGED <<vars, account, panel, treasuryVars>> /\ panel' \in [Panels -> PanelType]
    BY DEF OrderDeclined, Expires, LaunchInv, LaunchTypes
  <1>2. PICK phase \in Phases : orders' = [orders EXCEPT ![o].phase = phase]
    BY DEF OrderDeclined, Expires, Phases
  <1>3. \A t \in Panels : panel'[t].shown = panel[t].shown
    BY <1>1
  <1>4. QED
    BY <1>1, <1>2, <1>3, PhaseStep

\* One step for each action.
LEMMA LaunchStep == LaunchInv /\ [LaunchNext]_launchVars => LaunchInv'
  <1> SUFFICES ASSUME LaunchInv, [LaunchNext]_launchVars PROVE LaunchInv'
    OBVIOUS
  <1>1. CASE UNCHANGED launchVars
    BY <1>1, StillLaunch DEF launchVars, treasuryVars
  <1>2. ASSUME UserActs PROVE LaunchInv'
    <2>1. ASSUME NEW seedBuy \in SolInputs, NEW big \in BOOLEAN, NEW table \in Tables,
                 SendLaunch(seedBuy, big, table)
          PROVE  LaunchInv'
      BY <2>1, SendLaunchStep
    <2>2. ASSUME NEW u \in Users,
                 ConfiguredBySidePanel(u) \/ \E t \in Panels : ChangeWallet(t, u)
          PROVE  LaunchInv'
      BY <2>2, ChangeWalletStep, SidePanelStep
    <2>3. ASSUME NEW t \in Panels, CurveShown(t) PROVE LaunchInv'
      BY <2>3, CurveShownStep
    <2>4. ASSUME NEW t \in Panels, NEW slip \in Slips, NEW confidential \in BOOLEAN,
                 NEW probeFails \in BOOLEAN, NEW solIn \in SolInputs, NEW hasKeys \in BOOLEAN,
                 BuildBuy(t, solIn, slip, confidential, probeFails, hasKeys)
          PROVE  LaunchInv'
      BY <2>4, BuildBuyStep
    <2>5. ASSUME NEW t \in Panels, NEW slip \in Slips, NEW confidential \in BOOLEAN,
                 NEW probeFails \in BOOLEAN, NEW tokensIn \in TokenInputs,
                 BuildSell(t, tokensIn, slip, confidential, probeFails)
          PROVE  LaunchInv'
      BY <2>5, BuildSellStep
    <2>6. ASSUME NEW o \in DOMAIN orders,
                 OrderDeclined(o) \/ \E table \in Tables : SendOrder(o, table)
          PROVE  LaunchInv'
      BY <2>6, SendOrderStep, PhaseOnlyStep
    <2>7. QED
      BY <1>2, <2>1, <2>2, <2>3, <2>4, <2>5, <2>6 DEF UserActs
  <1>3. ASSUME NEW o \in DOMAIN orders, Lands(o) \/ Reverts(o) \/ Expires(o)
        PROVE  LaunchInv'
    BY <1>3, LandsStep, RevertsStep, PhaseOnlyStep
  <1>4. ASSUME NEW missing, NEW unwritten, IndexCurve(missing, unwritten)
        PROVE  LaunchInv'
    <2>1. UNCHANGED <<vars, orders, account, panel, treasuryVars>>
      BY <1>4 DEF IndexCurve
    <2>2. QED
      BY <2>1, StillLaunch
  <1>5. QED
    BY <1>1, <1>2, <1>3, <1>4, TreasuryDrainedStep DEF LaunchNext

\* The invariant holds throughout.
LEMMA LaunchInvariant == LaunchSpec => []LaunchInv
  BY LaunchInitHolds, LaunchStep, PTL DEF LaunchSpec

\* The deposit that the page adds to a trade is never what the transaction
\* fails for, the treasury's rent only when the treasury was drained after the
\* trade was built, and a sell carries nothing else unless it was drained
\* before.
THEOREM AdditionsNeverFail == LaunchSpec => []ExtrasAreCovered
  BY LaunchInvariant, PTL DEF LaunchInv

CurvePromises ==
    /\ DriftNeverAddsUp /\ QuotesNeverBreak
    /\ ReservesBacked /\ EveryTokenSellable
    /\ HoldersCanLeave /\ RoundTripNeverProfits

\* Bought into while it is created, traded through orders that do other things
\* in the same transaction, the curve keeps every promise of BondingCurve.
THEOREM PromisesSurviveLaunch == LaunchSpec => []CurvePromises
  <1>1. LaunchInv => CurvePromises
    BY DriftFollows, QuotesFollow, LeavingFollows, RoundTripsFollow
       DEF LaunchInv, CurveInv, CurvePromises
  <1>2. QED
    BY <1>1, LaunchInvariant, PTL

-----------------------------------------------------------------------------
(* Who is to blame for a deposit into an account that is not configured.   *)

\* In the sequence s, before order o, user u declined an order to configure the account.
CauseIn(s, o, u) ==
    \E d \in 1..(o - 1) :
        s[d].user = u /\ Has(s[d], "Configure") /\ s[d].phase = "declined"

\* In panel t, an order to configure the account of whom the panel has in mind
\* was built and is not sent.
AssumedFrom(t) ==
    \E d \in DOMAIN orders :
        /\ orders[d].panel = t /\ orders[d].user = panel[t].about
        /\ Has(orders[d], "Configure") /\ orders[d].phase \in {"built", "declined"}

\* What a panel takes for configured is, for the wallet that it learned it
\* about, or an order that would do it was built there and not sent; an order
\* that deposits without configuring inherits that, with the order it relies on
\* declined by then: it was no longer waiting for a signature when the next one
\* was built.
KnownConfigured ==
    /\ \A t \in Panels : panel[t].ata = "yes" => account[panel[t].about].configured
    /\ \A t \in Panels : panel[t].ata = "assumed" => AssumedFrom(t)
    /\ \A o \in DOMAIN orders :
          AmountOf(orders[o], "Deposit") > 0 /\ ~Has(orders[o], "Configure") =>
            account[orders[o].about].configured \/ CauseIn(orders, o, orders[o].about)
    /\ UnconfiguredHasACause

\* What a step does to an order that is there already.
OrderStep(d) ==
    /\ orders'[d].user = orders[d].user
    /\ orders'[d].about = orders[d].about
    /\ orders'[d].panel = orders[d].panel
    /\ orders'[d].ixs = orders[d].ixs
    /\ orders[d].phase = "declined" => orders'[d].phase = "declined"
    /\ \/ orders'[d].refused = orders[d].refused
       \/ "unconfigured" \in orders'[d].refused =>
             /\ AmountOf(orders[d], "Deposit") > 0
             /\ ~Has(orders[d], "Configure")
             /\ ~account[orders[d].user].configured

\* And to an order that it adds.
OrderNew(d) ==
    /\ d = Len(orders) + 1
    /\ orders'[d].refused = {}
    /\ AmountOf(orders'[d], "Deposit") > 0 /\ ~Has(orders'[d], "Configure") =>
          \/ account[orders'[d].about].configured
          \/ CauseIn(orders, d, orders'[d].about)

\* The ways in which a step changes what a panel takes for configured.
PanelStep(t) ==
    \/ /\ panel'[t].ata = panel[t].ata /\ panel'[t].about = panel[t].about
       /\ \A d \in DOMAIN orders :
             orders[d].panel = t /\ orders[d].phase = "built" =>
               orders'[d].phase \in {"built", "declined"}
    \/ panel'[t].ata \in {"unknown", "no"}
    \/ panel'[t].ata = "yes" /\ account[panel'[t].about].configured
    \/ /\ panel'[t].ata = "assumed"
       /\ Len(orders') = Len(orders) + 1
       /\ orders'[Len(orders')].panel = t
       /\ orders'[Len(orders')].user = panel'[t].about
       /\ orders'[Len(orders')].phase = "built"
       /\ Has(orders'[Len(orders')], "Configure")

CausalStep ==
    /\ Len(orders') \in Nat /\ Len(orders) <= Len(orders')
    /\ DOMAIN orders' = 1..Len(orders')
    /\ \A d \in DOMAIN orders : OrderStep(d)
    /\ \A d \in DOMAIN orders' \ DOMAIN orders : OrderNew(d)
    /\ \A d \in DOMAIN orders' : orders'[d].about \in Users
    /\ \A u \in Users : account[u].configured => account'[u].configured
    /\ \A t \in Panels : panel'[t].about \in Users /\ PanelStep(t)

\* A cause stays a cause.
LEMMA CauseKept ==
    ASSUME CausalStep, DOMAIN orders = 1..Len(orders), Len(orders) \in Nat,
           NEW o \in 1..(Len(orders) + 1), NEW u, CauseIn(orders, o, u)
    PROVE  CauseIn(orders', o, u)
  <1>1. PICK d \in 1..(o - 1) :
           orders[d].user = u /\ Has(orders[d], "Configure") /\ orders[d].phase = "declined"
    BY DEF CauseIn
  <1>2. d \in DOMAIN orders
    BY <1>1
  <1>3. /\ orders'[d].user = u /\ orders'[d].ixs = orders[d].ixs
        /\ orders'[d].phase = "declined"
    BY <1>1, <1>2 DEF CausalStep, OrderStep
  <1>4. Has(orders'[d], "Configure")
    BY <1>1, <1>3, SameIxs
  <1>5. QED
    BY <1>3, <1>4 DEF CauseIn

\* A causal step keeps what is known: whoever is taken for configured is, or has
\* a cause.
LEMMA CausesStep ==
    ASSUME LaunchInv, KnownConfigured, CausalStep
    PROVE  KnownConfigured'
  <1>1. DOMAIN orders = 1..Len(orders) /\ Len(orders) \in Nat
    BY DEF LaunchInv, LaunchTypes
  <1>2. /\ Len(orders') \in Nat /\ Len(orders) <= Len(orders') /\ DOMAIN orders' = 1..Len(orders')
        /\ \A d \in DOMAIN orders : d \in DOMAIN orders' /\ OrderStep(d)
    BY <1>1 DEF CausalStep
  <1>3. ASSUME NEW t \in Panels, panel'[t].ata = "yes"
        PROVE  account'[panel'[t].about].configured
    <2>1. panel'[t].about \in Users /\ PanelStep(t)
      BY DEF CausalStep
    <2>2. account[panel'[t].about].configured
      BY <1>3, <2>1 DEF PanelStep, KnownConfigured
    <2>3. QED
      BY <2>1, <2>2 DEF CausalStep
  <1>4. ASSUME NEW t \in Panels, panel'[t].ata = "assumed"
        PROVE  AssumedFrom(t)'
    <2>1. PanelStep(t)
      BY DEF CausalStep
    <2>2. CASE /\ panel'[t].ata = panel[t].ata /\ panel'[t].about = panel[t].about
               /\ \A d \in DOMAIN orders :
                     orders[d].panel = t /\ orders[d].phase = "built" =>
                       orders'[d].phase \in {"built", "declined"}
      <3>1. AssumedFrom(t)
        BY <1>4, <2>2 DEF KnownConfigured
      <3>2. PICK d \in DOMAIN orders :
               /\ orders[d].panel = t /\ orders[d].user = panel[t].about
               /\ Has(orders[d], "Configure") /\ orders[d].phase \in {"built", "declined"}
        BY <3>1 DEF AssumedFrom
      <3>3. /\ orders'[d].panel = t /\ orders'[d].user = panel'[t].about
            /\ orders'[d].ixs = orders[d].ixs /\ d \in DOMAIN orders'
            /\ orders'[d].phase \in {"built", "declined"}
        BY <1>2, <2>2, <3>2 DEF OrderStep
      <3>4. Has(orders'[d], "Configure")
        BY <3>2, <3>3, SameIxs
      <3>5. QED
        BY <3>3, <3>4 DEF AssumedFrom
    <2>3. CASE /\ Len(orders') = Len(orders) + 1
               /\ orders'[Len(orders')].panel = t
               /\ orders'[Len(orders')].user = panel'[t].about
               /\ orders'[Len(orders')].phase = "built"
               /\ Has(orders'[Len(orders')], "Configure")
      <3>1. Len(orders') \in DOMAIN orders'
        BY <1>1, <1>2, <2>3
      <3>2. QED
        BY <2>3, <3>1 DEF AssumedFrom
    <2>4. QED
      BY <1>4, <2>1, <2>2, <2>3 DEF PanelStep
  <1>5. ASSUME NEW o \in DOMAIN orders',
               AmountOf(orders'[o], "Deposit") > 0, ~Has(orders'[o], "Configure")
        PROVE  account'[orders'[o].about].configured
                  \/ CauseIn(orders', o, orders'[o].about)
    <2>1. orders'[o].about \in Users
      BY DEF CausalStep
    <2>2. CASE o \in DOMAIN orders
      <3>1. orders'[o].about = orders[o].about /\ orders'[o].ixs = orders[o].ixs
        BY <1>2, <2>2 DEF OrderStep
      <3>2. AmountOf(orders[o], "Deposit") > 0 /\ ~Has(orders[o], "Configure")
        BY <1>5, <3>1, SameIxs
      <3>3. account[orders[o].about].configured \/ CauseIn(orders, o, orders[o].about)
        BY <2>2, <3>2 DEF KnownConfigured
      <3>4. o \in 1..(Len(orders) + 1)
        BY <1>1, <2>2
      <3>5. CASE account[orders[o].about].configured
        BY <2>1, <3>1, <3>5 DEF CausalStep
      <3>6. CASE CauseIn(orders, o, orders[o].about)
        BY <1>1, <3>1, <3>4, <3>6, CauseKept
      <3>7. QED
        BY <3>3, <3>5, <3>6
    <2>3. CASE o \notin DOMAIN orders
      <3>1. OrderNew(o)
        BY <2>3 DEF CausalStep
      <3>2. /\ o = Len(orders) + 1
            /\ \/ account[orders'[o].about].configured
               \/ CauseIn(orders, o, orders'[o].about)
        BY <1>5, <3>1 DEF OrderNew
      <3>3. o \in 1..(Len(orders) + 1)
        BY <1>1, <3>2
      <3>4. CASE account[orders'[o].about].configured
        BY <2>1, <3>4 DEF CausalStep
      <3>5. CASE CauseIn(orders, o, orders'[o].about)
        BY <1>1, <3>3, <3>5, CauseKept
      <3>6. QED
        BY <3>2, <3>4, <3>5
    <2>4. QED
      BY <2>2, <2>3
  <1>6. ASSUME NEW o \in DOMAIN orders', "unconfigured" \in orders'[o].refused,
               orders'[o].about = orders'[o].user
        PROVE  CauseIn(orders', o, orders'[o].user)
    <2>1. o \in DOMAIN orders
      BY <1>6 DEF CausalStep, OrderNew
    <2>2. OrderStep(o) /\ o \in 1..(Len(orders) + 1)
      BY <1>1, <1>2, <2>1
    <2>3. orders'[o].user = orders[o].user /\ orders[o].about = orders[o].user
      BY <1>6, <2>2 DEF OrderStep
    <2>4. CauseIn(orders, o, orders[o].user)
      <3>1. CASE orders'[o].refused = orders[o].refused
        BY <1>6, <2>1, <2>3, <3>1 DEF KnownConfigured, UnconfiguredHasACause, CauseIn
      <3>2. CASE orders'[o].refused /= orders[o].refused
        BY <1>6, <2>1, <2>2, <2>3, <3>2 DEF KnownConfigured, OrderStep
      <3>3. QED
        BY <3>1, <3>2
    <2>5. QED
      BY <1>1, <2>2, <2>3, <2>4, CauseKept
  <1>7. UnconfiguredHasACause'
    BY <1>6 DEF UnconfiguredHasACause, CauseIn
  <1>8. KnownConfigured' <=>
           /\ \A t \in Panels : panel'[t].ata = "yes" => account'[panel'[t].about].configured
           /\ \A t \in Panels : panel'[t].ata = "assumed" => AssumedFrom(t)'
           /\ \A o \in DOMAIN orders' :
                 AmountOf(orders'[o], "Deposit") > 0 /\ ~Has(orders'[o], "Configure") =>
                   account'[orders'[o].about].configured \/ CauseIn(orders', o, orders'[o].about)
           /\ UnconfiguredHasACause'
    BY DEF KnownConfigured, CauseIn
  <1>9. QED
    BY <1>3, <1>4, <1>5, <1>7, <1>8

\* A step that moves one order on is causal when whatever the order is refused
\* for is so, and the panels change as a causal step changes them.
LEMMA MovedCausally ==
    ASSUME LaunchInv, NEW o \in DOMAIN orders, NEW q \in OrderType,
           orders' = [orders EXCEPT ![o] = q],
           q.user = orders[o].user, q.about = orders[o].about, q.panel = orders[o].panel,
           q.ixs = orders[o].ixs, orders[o].phase /= "declined",
           \/ q.refused = orders[o].refused
           \/ "unconfigured" \in q.refused =>
                 /\ AmountOf(orders[o], "Deposit") > 0
                 /\ ~Has(orders[o], "Configure")
                 /\ ~account[orders[o].user].configured,
           \A u \in Users : account[u].configured => account'[u].configured,
           \A t \in Panels :
              /\ panel'[t].about \in Users
              /\ \/ /\ panel'[t].ata = panel[t].ata /\ panel'[t].about = panel[t].about
                    /\ orders[o].panel = t /\ orders[o].phase = "built" => q.phase = "declined"
                 \/ panel'[t].ata \in {"unknown", "no"}
    PROVE  CausalStep
  <1>1. /\ orders' \in Seq(OrderType) /\ DOMAIN orders' = DOMAIN orders
        /\ Len(orders') = Len(orders)
        /\ orders'[o] = q /\ \A p \in DOMAIN orders : p /= o => orders'[p] = orders[p]
    BY OrderMoves DEF LaunchInv
  <1>2. Len(orders') \in Nat /\ DOMAIN orders' = 1..Len(orders') /\ Len(orders) <= Len(orders')
    BY <1>1
  <1>3. ASSUME NEW d \in DOMAIN orders PROVE OrderStep(d)
    BY <1>1 DEF OrderStep
  <1>4. ASSUME NEW d \in DOMAIN orders' PROVE orders'[d].about \in Users
    <2>1. orders'[d] \in OrderType
      BY <1>1
    <2>2. QED
      BY <2>1 DEF OrderType
  <1>5. ASSUME NEW t \in Panels PROVE panel'[t].about \in Users /\ PanelStep(t)
    <2>1. CASE panel'[t].ata \in {"unknown", "no"}
      BY <2>1 DEF PanelStep
    <2>2. CASE /\ panel'[t].ata = panel[t].ata /\ panel'[t].about = panel[t].about
               /\ orders[o].panel = t /\ orders[o].phase = "built" => q.phase = "declined"
      BY <1>1, <2>2 DEF PanelStep
    <2>3. QED
      BY <2>1, <2>2
  <1>6. QED
    BY <1>1, <1>2, <1>3, <1>4, <1>5 DEF CausalStep

\* A step that adds an order is causal when an order that pays in without
\* configuring the account finds it configured, or has a cause.
LEMMA AddedCausally ==
    ASSUME LaunchInv, NEW r \in OrderType, orders' = Append(orders, r), r.refused = {},
           AmountOf(r, "Deposit") > 0 /\ ~Has(r, "Configure") =>
              \/ account[r.about].configured
              \/ CauseIn(orders, Len(orders) + 1, r.about),
           account' = account,
           \A t \in Panels :
              /\ panel'[t].about \in Users
              /\ \/ panel'[t].ata = panel[t].ata /\ panel'[t].about = panel[t].about
                 \/ panel'[t].ata \in {"unknown", "no"}
                 \/ panel'[t].ata = "yes" /\ account[panel'[t].about].configured
                 \/ /\ panel'[t].ata = "assumed" /\ r.panel = t
                    /\ r.user = panel'[t].about /\ r.phase = "built" /\ Has(r, "Configure")
    PROVE  CausalStep
  <1>1. /\ orders' \in Seq(OrderType) /\ DOMAIN orders = 1..Len(orders)
        /\ Len(orders) \in Nat /\ Len(orders') = Len(orders) + 1
        /\ DOMAIN orders' = 1..Len(orders')
        /\ orders'[Len(orders')] = r
        /\ \A p \in DOMAIN orders : orders'[p] = orders[p]
    BY DEF LaunchInv, LaunchTypes
  <1>2. ASSUME NEW d \in DOMAIN orders PROVE OrderStep(d)
    BY <1>1 DEF OrderStep
  <1>3. ASSUME NEW d \in DOMAIN orders' \ DOMAIN orders PROVE OrderNew(d)
    <2>1. d = Len(orders) + 1 /\ orders'[d] = r
      BY <1>1
    <2>2. QED
      BY <2>1 DEF OrderNew
  <1>4. ASSUME NEW d \in DOMAIN orders' PROVE orders'[d].about \in Users
    <2>1. orders'[d] \in OrderType
      BY <1>1
    <2>2. QED
      BY <2>1 DEF OrderType
  <1>5. ASSUME NEW t \in Panels PROVE panel'[t].about \in Users /\ PanelStep(t)
    BY <1>1 DEF PanelStep
  <1>6. QED
    BY <1>1, <1>2, <1>3, <1>4, <1>5 DEF CausalStep

\* A step that changes no order is causal when it closes no account and lets no
\* panel take an account for configured.
LEMMA KeptCausally ==
    ASSUME LaunchInv, orders' = orders,
           \A u \in Users : account[u].configured => account'[u].configured,
           \A t \in Panels :
              /\ panel'[t].about \in Users
              /\ \/ panel'[t].ata = panel[t].ata /\ panel'[t].about = panel[t].about
                 \/ panel'[t].ata \in {"unknown", "no"}
    PROVE  CausalStep
  <1>1. DOMAIN orders = 1..Len(orders) /\ Len(orders) \in Nat
    BY DEF LaunchInv, LaunchTypes
  <1>2. ASSUME NEW d \in DOMAIN orders PROVE OrderStep(d) /\ orders'[d].about \in Users
    BY OrderTyped DEF OrderStep, OrderType, LaunchInv
  <1>3. ASSUME NEW t \in Panels PROVE PanelStep(t)
    BY DEF PanelStep
  <1>4. QED
    BY <1>1, <1>2, <1>3 DEF CausalStep

\* A buy that does not configure has seen the account configured.
LEMMA BuildBuyCausally ==
    ASSUME LaunchInv, KnownConfigured,
           NEW t \in Panels, NEW slip \in Slips, NEW confidential \in BOOLEAN,
           NEW probeFails \in BOOLEAN, NEW solIn \in SolInputs, NEW hasKeys \in BOOLEAN,
           BuildBuy(t, solIn, slip, confidential, probeFails, hasKeys)
    PROVE  CausalStep
  <1> DEFINE shown == panel[t].shown
             u == panel[t].who
             about == IF TakenForConfigured(t) THEN panel[t].about ELSE u
             configures == confidential /\ hasKeys /\ NeedsConfigure(t, probeFails)
             deposits == confidential /\ (NeedsConfigure(t, probeFails) => hasKeys)
             least == MinTokens(shown, solIn, slip)
             amount == IF deposits
                       THEN DepositOf(TokensOut(shown.sol, shown.tokens, solIn), least)
                       ELSE 0
             configuring == IF configures THEN ConfigureIxs ELSE <<>>
             r == Order(t, u, about, "built", BuyIxs(configuring, solIn, least, amount))
             ata == AtaAfterBuy(t, configures, probeFails)
  <1>1. /\ shown /= Nothing /\ BuyQuoted(shown, solIn) /\ ~Building(t)
        /\ orders' = Append(orders, r)
        /\ panel' = IF confidential /\ ~TakenForConfigured(t) THEN Learns(t, ata) ELSE panel
        /\ account' = account
    BY DEF BuildBuy, BuyIxs
  <1>2. /\ shown \in ReservesType /\ panel \in [Panels -> PanelType]
        /\ u \in Users /\ about \in Users
    BY <1>1 DEF LaunchInv, LaunchTypes, PanelType
  <1>3. solIn \in Nat /\ least \in Nat
    BY <1>1, <1>2, BuyQuote, InputAssumption
  <1>4. amount \in Nat /\ (amount > 0 => deposits)
    <2> HIDE DEF least
    <2>1. QED
      BY <1>3, Amounts DEF DepositOf
  <1>5. /\ r.ixs = BuyIxs(configuring, solIn, least, amount)
        /\ r.user = u /\ r.about = about /\ r.panel = t
        /\ r.phase = "built" /\ r.refused = {}
    BY DEF Order
  <1>6. configuring = <<>> \/ configuring = ConfigureIxs
    OBVIOUS
  <1>7. configuring = ConfigureIxs <=> configures
    BY DEF ConfigureIxs
  <1>8. orders' = Append(orders, r) /\ r \in OrderType
    <2> HIDE DEF least, amount, configuring, about, u
    <2>1. r.ixs \in Seq(Instruction)
      <3> HIDE DEF r
      <3>1. QED
        BY <1>3, <1>4, <1>5, <1>6, BuyOrder
    <2>2. QED
      BY <1>1, <1>2, <2>1 DEF Order, OrderType, Phases
  <1>9. AmountOf(r, "Deposit") = amount /\ (Has(r, "Configure") <=> configures)
    <2> HIDE DEF r, least, amount, configuring, configures
    <2>1. QED
      BY <1>3, <1>4, <1>5, <1>6, <1>7, BuyOrder
  <1>10. ASSUME AmountOf(r, "Deposit") > 0, ~Has(r, "Configure")
         PROVE  account[about].configured \/ CauseIn(orders, Len(orders) + 1, about)
    <2>1. deposits /\ ~configures
      BY <1>4, <1>9, <1>10
    <2>2. ~NeedsConfigure(t, probeFails)
      BY <2>1
    <2>3. TakenForConfigured(t) \/ account[u].configured
      BY <2>2 DEF NeedsConfigure
    <2>4. CASE panel[t].ata = "yes"
      BY <2>4 DEF KnownConfigured, TakenForConfigured
    <2>5. CASE panel[t].ata = "assumed"
      <3>1. AssumedFrom(t)
        BY <2>5 DEF KnownConfigured
      <3>2. PICK d \in DOMAIN orders :
               /\ orders[d].panel = t /\ orders[d].user = panel[t].about
               /\ Has(orders[d], "Configure") /\ orders[d].phase \in {"built", "declined"}
        BY <3>1 DEF AssumedFrom
      <3>3. d \in 1..(Len(orders) + 1 - 1)
        BY DEF LaunchInv, LaunchTypes
      <3>4. orders[d].phase = "declined"
        BY <1>1, <3>2 DEF Building
      <3>5. about = panel[t].about
        BY <2>5 DEF TakenForConfigured
      <3> HIDE DEF about
      <3>6. QED
        BY <3>2, <3>3, <3>4, <3>5 DEF CauseIn
    <2>6. CASE ~TakenForConfigured(t)
      BY <2>3, <2>6
    <2>7. QED
      BY <2>4, <2>5, <2>6 DEF TakenForConfigured
  <1>11. ASSUME NEW v \in Panels
         PROVE  /\ panel'[v].about \in Users
                /\ \/ panel'[v].ata = panel[v].ata /\ panel'[v].about = panel[v].about
                   \/ panel'[v].ata \in {"unknown", "no"}
                   \/ panel'[v].ata = "yes" /\ account[panel'[v].about].configured
                   \/ /\ panel'[v].ata = "assumed" /\ r.panel = v
                      /\ r.user = panel'[v].about /\ r.phase = "built" /\ Has(r, "Configure")
    <2>1. CASE ~confidential \/ TakenForConfigured(t)
      <3>1. panel' = panel
        BY <1>1, <2>1
      <3>2. QED
        BY <1>2, <3>1 DEF PanelType
    <2>2. CASE confidential /\ ~TakenForConfigured(t)
      <3>1. configures \in BOOLEAN
        BY DEF NeedsConfigure
      <3>2. ata \in {"unknown", "no", "yes", "assumed"}
        <4> HIDE DEF configures
        <4>1. QED
          BY <3>1, AtaTyped DEF LaunchInv
      <3>3. /\ panel' \in [Panels -> PanelType]
            /\ v /= t => panel'[v] = panel[v]
            /\ panel'[t].ata = ata /\ panel'[t].about = u
        <4> HIDE DEF ata
        <4>1. QED
          BY <1>1, <2>2, <3>2, LearnsTyped DEF LaunchInv
      <3>4. panel'[v].about \in Users
        BY <3>3 DEF PanelType
      <3>5. CASE v /= t
        BY <3>3, <3>4, <3>5
      <3>6. CASE v = t
        <4>1. CASE configures
          <5>1. ata = "assumed" /\ Has(r, "Configure")
            BY <1>9, <4>1 DEF AtaAfterBuy
          <5>2. QED
            BY <1>5, <3>3, <3>4, <3>6, <5>1
        <4>2. CASE ~configures /\ probeFails
          <5>1. ata = panel[t].ata /\ panel[t].ata \in {"unknown", "no"}
            BY <1>2, <2>2, <4>2 DEF AtaAfterBuy, TakenForConfigured, PanelType
          <5>2. QED
            BY <3>3, <3>4, <3>6, <5>1
        <4>3. CASE ~configures /\ ~probeFails
          <5>1. ata = Probed(u)
            BY <4>3 DEF AtaAfterBuy
          <5>2. QED
            BY <3>3, <3>4, <3>6, <5>1 DEF Probed
        <4>4. QED
          BY <4>1, <4>2, <4>3
      <3>7. QED
        BY <3>5, <3>6
    <2>3. QED
      BY <2>1, <2>2
  <1> HIDE DEF r, about
  <1>12. QED
    BY <1>1, <1>5, <1>8, <1>10, <1>11, AddedCausally

\* A sell needs no deposit account.
LEMMA BuildSellCausally ==
    ASSUME LaunchInv,
           NEW t \in Panels, NEW slip \in Slips, NEW confidential \in BOOLEAN,
           NEW probeFails \in BOOLEAN, NEW tokensIn \in TokenInputs,
           BuildSell(t, tokensIn, slip, confidential, probeFails)
    PROVE  CausalStep
  <1> DEFINE shown == panel[t].shown
             u == panel[t].who
             least == MinSol(shown, tokensIn, slip)
             r == Order(t, u, u, "built", SeedTreasuryIxs \o <<SellIx(tokensIn, least)>>)
  <1>1. /\ shown /= Nothing /\ SellQuoted(shown, tokensIn)
        /\ orders' = Append(orders, r)
        /\ panel' = IF confidential /\ ~probeFails /\ panel[t].ata = "unknown"
                    THEN Learns(t, Probed(u))
                    ELSE panel
        /\ account' = account
    BY DEF BuildSell
  <1>2. shown \in ReservesType /\ panel \in [Panels -> PanelType] /\ u \in Users
    BY <1>1 DEF LaunchInv, LaunchTypes, PanelType
  <1>3. least \in Nat /\ tokensIn \in Nat
    BY <1>1, <1>2, SellQuote, InputAssumption
  <1>4. r.ixs = SeedTreasuryIxs \o <<SellIx(tokensIn, least)>> /\ r.refused = {}
    BY DEF Order
  <1> HIDE DEF least
  <1>5. r.ixs \in Seq(Instruction) /\ AmountOf(r, "Deposit") = 0
    BY <1>3, <1>4, SellOrder
  <1>6. r \in OrderType
    <2> HIDE DEF u
    <2>1. QED
      BY <1>2, <1>4, <1>5 DEF Order, OrderType, Phases
  <1>7. ASSUME NEW v \in Panels
        PROVE  /\ panel'[v].about \in Users
               /\ \/ panel'[v].ata = panel[v].ata /\ panel'[v].about = panel[v].about
                  \/ panel'[v].ata \in {"unknown", "no"}
                  \/ panel'[v].ata = "yes" /\ account[panel'[v].about].configured
    <2>1. CASE panel' = panel
      BY <1>2, <2>1 DEF PanelType
    <2>2. CASE panel' = Learns(t, Probed(u))
      <3>1. Probed(u) \in {"unknown", "no", "yes", "assumed"}
        BY DEF Probed
      <3>2. /\ panel' \in [Panels -> PanelType]
            /\ v /= t => panel'[v] = panel[v]
            /\ panel'[t].ata = Probed(u) /\ panel'[t].about = u
        BY <2>2, <3>1, LearnsTyped DEF LaunchInv
      <3>3. panel'[v].about \in Users
        BY <3>2 DEF PanelType
      <3>4. QED
        BY <3>2, <3>3 DEF Probed
    <2>3. QED
      BY <1>1, <2>1, <2>2
  <1> HIDE DEF r
  <1>8. QED
    BY <1>1, <1>4, <1>5, <1>6, <1>7, AddedCausally

\* Sending the launch adds an order that deposits nothing.
LEMMA SendLaunchCausally ==
    ASSUME LaunchInv, NEW seedBuy \in SolInputs, NEW big, NEW table,
           SendLaunch(seedBuy, big, table)
    PROVE  CausalStep
  <1> DEFINE r == Order(Nothing, Creator, Creator, "sent",
                        MintInitIxs \o <<CreateCurveIx>> \o SeedBuyIxs(seedBuy))
  <1>1. orders = <<>> /\ orders' = <<r>> /\ UNCHANGED <<account, panel>>
    BY DEF SendLaunch
  <1>2. /\ r.ixs = MintInitIxs \o <<CreateCurveIx>> \o SeedBuyIxs(seedBuy)
        /\ r.refused = {} /\ seedBuy \in Nat
    BY InputAssumption DEF Order
  <1>3. r.ixs \in Seq(Instruction) /\ AmountOf(r, "Deposit") = 0
    BY <1>2, LaunchOrder
  <1>4. r \in OrderType
    BY <1>2, <1>3, Amounts DEF Order, OrderType, Phases
  <1> HIDE DEF r
  <1>5. orders' = Append(orders, r) /\ \A t \in Panels : panel'[t].about \in Users
    BY <1>1 DEF LaunchInv, LaunchTypes, PanelType
  <1>6. QED
    BY <1>1, <1>2, <1>3, <1>4, <1>5, AddedCausally

\* An order that lands is refused nothing, and may configure the account.
LEMMA LandsCausally ==
    ASSUME LaunchInv, NEW o \in DOMAIN orders, Lands(o)
    PROVE  CausalStep
  <1> DEFINE r == orders[o]
             q == orders'[o]
  <1>1. /\ r.phase = "sent" /\ Refusals(r) = {} /\ TradeExecutes(r) /\ panel' = panel
        /\ orders' = [orders EXCEPT ![o] =
                          [r EXCEPT !.phase = "landed", !.proceeds = Proceeds(r),
                                    !.overhead = Overhead(r), !.delta = Delta(r), !.after = sol']]
    BY DEF Lands
  <1>2. LaunchTypes'
    BY LandsStep DEF LaunchInv
  <1>3. r \in OrderType /\ CurveAccepts(r)
    BY <1>1, OrderTyped DEF LaunchInv, Refusals
  <1>4. /\ q = [r EXCEPT !.phase = "landed", !.proceeds = Proceeds(r),
                         !.overhead = Overhead(r), !.delta = Delta(r), !.after = sol']
        /\ orders' = [orders EXCEPT ![o] = q] /\ o \in DOMAIN orders'
    BY <1>1 DEF LaunchInv, LaunchTypes
  <1>5. q \in OrderType
    BY <1>2, <1>4 DEF LaunchTypes
  <1>6. /\ q.user = r.user /\ q.about = r.about /\ q.panel = r.panel
        /\ q.ixs = r.ixs /\ q.refused = r.refused
    BY <1>3, <1>4 DEF OrderType
  <1>7. /\ \A u \in Users : account[u].configured => account'[u].configured
        /\ \A t \in Panels : panel'[t].about \in Users
    BY <1>1, <1>3, AccountsTyped DEF LaunchInv, LaunchTypes, PanelType
  <1> HIDE DEF q
  <1>8. QED
    BY <1>1, <1>4, <1>5, <1>6, <1>7, MovedCausally

\* An order that reverts is refused for what the accounts really are.
LEMMA RevertsCausally ==
    ASSUME LaunchInv, NEW o \in DOMAIN orders, Reverts(o)
    PROVE  CausalStep
  <1> DEFINE r == orders[o]
             why == Refusals(orders[o])
             q == [orders[o] EXCEPT !.phase = "failed", !.refused = why]
  <1>1. /\ r.phase = "sent"
        /\ orders' = [orders EXCEPT ![o].phase = "failed", ![o].refused = why]
        /\ UNCHANGED <<account, panel>>
    BY DEF Reverts
  <1>2. why \subseteq Reasons
    BY NeverForTheExtras
  <1>3. ASSUME "unconfigured" \in why
        PROVE  /\ AmountOf(r, "Deposit") > 0 /\ ~Has(r, "Configure")
               /\ ~account[r.user].configured
    <2> DEFINE a == account[r.user]
               deposit == AmountOf(r, "Deposit")
               fails == [tokens |-> AmountOf(r, "Sell") > a.public,
                         configure |-> Has(r, "Configure") /\ (~a.room \/ a.configured),
                         unconfigured |-> deposit > 0 /\ ~(a.configured \/ Has(r, "Configure")),
                         uncovered |-> deposit > MaxDeposit \/ deposit > a.public + Received(r),
                         rent |-> ~(Funded \/ Has(r, "SeedTreasury"))
                                    /\ Fee(r) \in 1..(SeedRent - 1)]
    <2>1. why \in {{"treasury"}, {"curve"}, {w \in DOMAIN fails : fails[w]}}
      BY Zenon DEF Refusals
    <2>2. fails["unconfigured"] = (deposit > 0 /\ ~(a.configured \/ Has(r, "Configure")))
      OBVIOUS
    <2> HIDE DEF fails, why
    <2>3. fails["unconfigured"]
      BY <1>3, <2>1
    <2>4. QED
      BY <2>2, <2>3
  <1> HIDE DEF why
  <1>4. r \in OrderType
    BY OrderTyped DEF LaunchInv
  <1>5. /\ q \in OrderType /\ q.ixs = r.ixs /\ q.refused = why
        /\ q.user = r.user /\ q.about = r.about /\ q.panel = r.panel
        /\ \A t \in Panels : panel'[t].about \in Users
    BY <1>1, <1>2, <1>4 DEF OrderType, Phases, LaunchInv, LaunchTypes, PanelType
  <1>6. orders' = [orders EXCEPT ![o] = q]
    BY <1>1, <1>4, OrderTyped DEF LaunchInv, LaunchTypes, OrderType
  <1> HIDE DEF q
  <1>7. QED
    BY <1>1, <1>3, <1>5, <1>6, MovedCausally

\* Sending, declining and expiring change the phase of one order.
LEMMA PhaseCausally ==
    ASSUME LaunchInv, NEW o \in DOMAIN orders,
           OrderDeclined(o) \/ Expires(o) \/ \E table \in Tables : SendOrder(o, table)
    PROVE  CausalStep
  <1> DEFINE fresh == FreshPanel(panel[orders[o].panel].who)
  <1>1. PICK phase \in Phases :
           /\ orders' = [orders EXCEPT ![o].phase = phase]
           /\ orders[o].phase /= "declined"
           /\ \/ phase = "declined" /\ panel' = panel
              \/ orders[o].phase = "sent" /\ panel' = panel
              \/ panel' = [panel EXCEPT ![orders[o].panel] = fresh]
    BY DEF SendOrder, OrderDeclined, Expires, Phases, PanelRefreshed
  <1>2. account' = account
    BY DEF SendOrder, OrderDeclined, Expires
  <1> DEFINE q == [orders[o] EXCEPT !.phase = phase]
  <1>3. orders[o] \in OrderType /\ panel \in [Panels -> PanelType]
    BY OrderTyped DEF LaunchInv, LaunchTypes
  <1>4. /\ q \in OrderType /\ q.ixs = orders[o].ixs /\ q.user = orders[o].user
        /\ q.about = orders[o].about /\ q.panel = orders[o].panel
        /\ q.refused = orders[o].refused /\ q.phase = phase
    BY <1>3 DEF OrderType
  <1>5. orders' = [orders EXCEPT ![o] = q]
    BY <1>1
  <1>6. /\ fresh.ata = "unknown"
        /\ orders[o].panel \in Panels => fresh.about \in Users
    BY <1>3 DEF FreshPanel, PanelType
  <1>7. \A t \in Panels : panel[t].about \in Users
    BY <1>3 DEF PanelType
  <1> HIDE DEF q, fresh
  <1>8. ASSUME NEW t \in Panels
        PROVE  /\ panel'[t].about \in Users
               /\ \/ /\ panel'[t].ata = panel[t].ata /\ panel'[t].about = panel[t].about
                     /\ orders[o].panel = t /\ orders[o].phase = "built" => q.phase = "declined"
                  \/ panel'[t].ata \in {"unknown", "no"}
    <2>1. CASE panel' = panel /\ (phase = "declined" \/ orders[o].phase = "sent")
      BY <1>4, <1>7, <2>1
    <2>2. CASE panel' = [panel EXCEPT ![orders[o].panel] = fresh] /\ orders[o].panel = t
      BY <1>3, <1>6, <2>2
    <2>3. CASE panel' = [panel EXCEPT ![orders[o].panel] = fresh] /\ orders[o].panel /= t
      BY <1>3, <1>7, <2>3
    <2>4. QED
      BY <1>1, <2>1, <2>2, <2>3
  <1>9. QED
    BY <1>1, <1>2, <1>4, <1>5, <1>8, MovedCausally

\* A panel that is loaded again takes nothing for configured,
LEMMA ShownCausally ==
    ASSUME LaunchInv, NEW t \in Panels, CurveShown(t)
    PROVE  CausalStep
  <1> DEFINE p == [FreshPanel(panel[t].who) EXCEPT !.shown = Reserves]
  <1>1. panel \in [Panels -> PanelType] /\ \A v \in Panels : panel[v].about \in Users
    BY DEF LaunchInv, LaunchTypes, PanelType
  <1>2. orders' = orders /\ account' = account /\ panel' = [panel EXCEPT ![t] = p]
    BY DEF CurveShown
  <1>3. p.ata = "unknown" /\ p.about \in Users
    BY <1>1 DEF FreshPanel, LaunchInv, LaunchTypes, PanelType
  <1> HIDE DEF p
  <1>4. \A v \in Panels :
           /\ panel'[v].about \in Users
           /\ \/ panel'[v].ata = panel[v].ata /\ panel'[v].about = panel[v].about
              \/ panel'[v].ata \in {"unknown", "no"}
    BY <1>1, <1>2, <1>3
  <1>5. QED
    BY <1>2, <1>4, KeptCausally

\* one that gets another wallet keeps in mind whom it learned it about,
LEMMA WalletCausally ==
    ASSUME LaunchInv, NEW t \in Panels, NEW u \in Users, ChangeWallet(t, u)
    PROVE  CausalStep
  <1>1. panel \in [Panels -> PanelType] /\ panel' = [panel EXCEPT ![t].who = u]
    BY DEF LaunchInv, LaunchTypes, ChangeWallet
  <1>2. \A v \in Panels :
           /\ panel'[v].about \in Users
           /\ panel'[v].ata = panel[v].ata /\ panel'[v].about = panel[v].about
    BY <1>1 DEF PanelType
  <1>3. orders' = orders /\ account' = account
    BY DEF ChangeWallet
  <1>4. QED
    BY <1>2, <1>3, KeptCausally

\* and the side panel configures.
LEMMA SideCausally ==
    ASSUME LaunchInv, NEW u \in Users, ConfiguredBySidePanel(u)
    PROVE  CausalStep
  <1>1. /\ account \in [Users -> AccountType]
        /\ \A v \in Panels : panel[v].about \in Users
    BY DEF LaunchInv, LaunchTypes, PanelType
  <1>2. /\ panel' = panel /\ orders' = orders
        /\ account' = [account EXCEPT ![u].exists = TRUE, ![u].room = TRUE,
                                      ![u].configured = TRUE]
    BY DEF ConfiguredBySidePanel
  <1>3. \A v \in Users : account[v].configured => account'[v].configured
    BY <1>1, <1>2 DEF AccountType
  <1>4. QED
    BY <1>1, <1>2, <1>3, KeptCausally

\* One step for each action.
LEMMA KnownStep == LaunchInv /\ KnownConfigured /\ [LaunchNext]_launchVars => KnownConfigured'
  <1> SUFFICES ASSUME LaunchInv, KnownConfigured, [LaunchNext]_launchVars PROVE CausalStep
    BY CausesStep
  <1>1. CASE UNCHANGED <<orders, account, panel>>
    <2>1. \A v \in Panels : panel'[v].about \in Users
      BY <1>1 DEF LaunchInv, LaunchTypes, PanelType
    <2>2. QED
      BY <1>1, <2>1, KeptCausally
  <1>2. CASE UserActs
    <2>1. ASSUME NEW seedBuy \in SolInputs, NEW big \in BOOLEAN, NEW table \in Tables,
                 SendLaunch(seedBuy, big, table)
          PROVE  CausalStep
      BY <2>1, SendLaunchCausally
    <2>2. ASSUME NEW t \in Panels, NEW slip \in Slips, NEW confidential \in BOOLEAN,
                 NEW probeFails \in BOOLEAN, NEW solIn \in SolInputs, NEW hasKeys \in BOOLEAN,
                 BuildBuy(t, solIn, slip, confidential, probeFails, hasKeys)
          PROVE  CausalStep
      BY <2>2, BuildBuyCausally
    <2>3. ASSUME NEW t \in Panels, NEW slip \in Slips, NEW confidential \in BOOLEAN,
                 NEW probeFails \in BOOLEAN, NEW tokensIn \in TokenInputs,
                 BuildSell(t, tokensIn, slip, confidential, probeFails)
          PROVE  CausalStep
      BY <2>3, BuildSellCausally
    <2>4. QED
      BY <1>2, <2>1, <2>2, <2>3, ShownCausally, WalletCausally, SideCausally, PhaseCausally
         DEF UserActs
  <1>3. ASSUME NEW o \in DOMAIN orders, Lands(o) \/ Reverts(o) \/ Expires(o)
        PROVE  CausalStep
    BY <1>3, LandsCausally, RevertsCausally, PhaseCausally
  <1>4. (\E missing, unwritten \in SUBSET {o \in DOMAIN orders : IsTrade(o)} :
            IndexCurve(missing, unwritten))
          => UNCHANGED <<orders, account, panel>>
    BY DEF IndexCurve
  <1>5. TreasuryDrained => UNCHANGED <<orders, account, panel>>
    BY DEF TreasuryDrained
  <1>6. QED
    BY <1>1, <1>2, <1>3, <1>4, <1>5 DEF LaunchNext, launchVars

\* A deposit is refused for want of a configured account only where the panel
\* took it over from another wallet, or the same user declined to configure it
\* before.
THEOREM RefusalsHaveACause == LaunchSpec => []UnconfiguredHasACause
  <1>1. LaunchInit => KnownConfigured
    BY DEF LaunchInit, KnownConfigured, FreshPanel, UnconfiguredHasACause
  <1>2. KnownConfigured => UnconfiguredHasACause
    BY DEF KnownConfigured
  <1>3. QED
    BY <1>1, <1>2, KnownStep, LaunchInvariant, PTL DEF LaunchSpec

-----------------------------------------------------------------------------
(* The trade table: what a wallet's balance tells of a trade.  s and v are *)
(* the reserves before it, as they are and as they were replayed.          *)

\* Of a buyer who paid h besides the trade, the job takes a part of h for
\* input of the trade.
LEMMA BuyRecovered ==
    ASSUME NEW x \in Nat, NEW h \in Nat
    PROVE  /\ IntoCurve(x) \in Nat /\ IntoCurve(x + h) \in Nat
           /\ IntoCurve(x + h) - IntoCurve(x) \in 0..h
  <1> DEFINE p == x * FeeBps
             q == (x + h) * FeeBps
             d == p \div BpsDenom
             e == q \div BpsDenom
  <1>1. FeeBps \in Nat /\ BpsDenom \in Nat \ {0} /\ FeeBps <= BpsDenom
    BY FeeAssumption
  <1>2. p \in Nat /\ q \in Nat /\ p <= q
    BY <1>1, MulMono
  <1>3. d \in Nat /\ d * BpsDenom <= p /\ p < (d + 1) * BpsDenom
    BY <1>1, <1>2, DivBounds
  <1>4. FeeOn(x) = d /\ FeeOn(x + h) = e
    BY DEF FeeOn
  <1>5. q = p + h * FeeBps /\ h * FeeBps \in Nat
    BY <1>1
  <1>6. h * FeeBps <= h * BpsDenom
    <2>1. FeeBps * h <= BpsDenom * h
      BY <1>1, MulMono
    <2>2. FeeBps * h = h * FeeBps /\ BpsDenom * h = h * BpsDenom
      BY <1>1
    <2>3. QED
      BY <2>1, <2>2
  <1> HIDE DEF p, q, d
  <1>7. d <= e
    <2>1. d * BpsDenom \in Nat
      BY <1>1, <1>3
    <2>2. d * BpsDenom <= q
      BY <1>2, <1>3, <2>1
    <2>3. QED
      BY <1>1, <1>2, <1>3, <2>2, DivAtLeast
  <1>8. e <= d + h
    <2>1. (d + h + 1) * BpsDenom = (d + 1) * BpsDenom + h * BpsDenom
      BY <1>1, <1>3
    <2>2. (d + 1) * BpsDenom \in Nat /\ h * BpsDenom \in Nat
      BY <1>1, <1>3
    <2>3. q < (d + h + 1) * BpsDenom
      BY <1>2, <1>3, <1>5, <1>6, <2>1, <2>2
    <2>4. d + h \in Nat
      BY <1>3
    <2>5. QED
      BY <1>1, <1>2, <2>3, <2>4, DivAtMost
  <1>9. e \in Nat
    BY <1>1, <1>2, DivBounds
  <1> HIDE DEF e
  <1>10. IntoCurve(x) = x - d /\ IntoCurve(x + h) = x + h - e
    BY <1>3, <1>4, <1>9 DEF IntoCurve
  <1>11. IntoCurve(x) \in Nat /\ IntoCurve(x + h) \in Nat
    BY FeeBounds
  <1>12. QED
    BY <1>3, <1>7, <1>8, <1>9, <1>10, <1>11

\* What a seller paid on the side, before the fee.
BeforeFee(h) == (h * BpsDenom + BpsDenom - FeeBps - 1) \div (BpsDenom - FeeBps)

\* Of a seller who got the gross amount g less the fee and paid h besides, the
\* job recovers at most one lamport more than g, and misses it by no more than
\* h before the fee.
LEMMA SellRecovered ==
    ASSUME NEW g \in Nat, NEW h \in Nat, NEW m \in Nat, m = g - FeeOn(g) - h
    PROVE  /\ (m * BpsDenom) \div (BpsDenom - FeeBps) \in Nat
           /\ BeforeFee(h) \in Nat
           /\ (m * BpsDenom) \div (BpsDenom - FeeBps) <= g + 1
           /\ g <= (m * BpsDenom) \div (BpsDenom - FeeBps) + BeforeFee(h)
  <1> DEFINE B == BpsDenom
             D == BpsDenom - FeeBps
             f == FeeOn(g)
             r == (m * B) \div D
             x == BeforeFee(h)
             gF == g * FeeBps
             gB == g * B
             gD == g * D
             fB == f * B
             hB == h * B
             mB == m * B
             rD == r * D
             xD == x * D
  <1>1. FeeBps \in Nat /\ B \in Nat \ {0} /\ FeeBps < B /\ 2 * FeeBps <= B
    BY FeeAssumption, SmallFeeAssumption
  <1>2. D \in Nat \ {0} /\ B <= 2 * D
    BY <1>1
  <1>3. gF \in Nat /\ f \in Nat /\ fB <= gF /\ gF < (f + 1) * B
    <2>1. gF \in Nat
      BY <1>1
    <2>2. f = gF \div B
      BY DEF FeeOn
    <2> HIDE DEF gF, f
    <2>3. QED
      BY <1>1, <2>1, <2>2, DivBounds
  <1>4. gB = gF + gD /\ gB \in Nat /\ gD \in Nat
    BY <1>1, <1>2
  <1>5. fB \in Nat /\ (f + 1) * B = fB + B
    <2> HIDE DEF f
    <2>1. QED
      BY <1>1, <1>3
  <1>6. mB = gB - fB - hB /\ mB \in Nat /\ hB \in Nat
    <2> HIDE DEF f
    <2>1. m = g - f - h
      BY DEF f
    <2>2. QED
      BY <1>1, <1>3, <2>1
  <1>7. r \in Nat /\ rD <= mB /\ mB < (r + 1) * D
    <2>1. mB \in Nat
      BY <1>6
    <2> HIDE DEF mB, D
    <2>2. mB \div D \in Nat /\ (mB \div D) * D <= mB /\ mB < (mB \div D + 1) * D
      BY <1>2, <2>1, DivBounds
    <2>3. r = mB \div D
      BY DEF mB
    <2> HIDE DEF r
    <2>4. QED
      BY <2>2, <2>3
  <1>8. x \in Nat /\ xD >= hB
    <2> DEFINE n == hB + D - 1
    <2>1. n \in Nat
      BY <1>2, <1>6
    <2>2. x = n \div D
      <3>1. h * BpsDenom + BpsDenom - FeeBps - 1 = n
        BY <1>1, <1>6
      <3>2. QED
        BY <3>1 DEF BeforeFee
    <2> HIDE DEF n, D, x
    <2>3. x \in Nat /\ n < (x + 1) * D
      BY <1>2, <2>1, <2>2, DivBounds
    <2>4. (x + 1) * D = xD + D /\ xD \in Nat
      BY <1>2, <2>3
    <2> HIDE DEF xD, hB
    <2>5. QED
      BY <1>2, <1>6, <2>3, <2>4 DEF n
  <1>9. rD \in Nat /\ xD \in Nat /\ (r + 1) * D = rD + D /\ (r + x) * D = rD + xD
    <2> HIDE DEF r, x, D
    <2>1. QED
      BY <1>2, <1>7, <1>8
  <1>10. r <= g + 1
    <2>1. mB < gD + B
      <3> HIDE DEF mB, gD, gB, gF, fB, hB
      <3>1. QED
        BY <1>1, <1>3, <1>4, <1>5, <1>6
    <2>2. (g + 2) * D = gD + 2 * D
      BY <1>2
    <2>3. mB < (g + 1 + 1) * D
      <3>1. g + 1 + 1 = g + 2
        OBVIOUS
      <3> HIDE DEF mB, gD, D, B
      <3>2. QED
        BY <1>1, <1>2, <1>4, <1>6, <2>1, <2>2, <3>1
    <2> HIDE DEF mB, D
    <2>4. mB \div D <= g + 1
      BY <1>2, <1>6, <2>3, DivAtMost
    <2>5. QED
      BY <2>4 DEF mB
  <1>11. g <= r + x
    <2>1. gD < (r + x + 1) * D
      <3>1. (r + x + 1) * D = rD + xD + D
        <4> HIDE DEF r, x, D
        <4>1. QED
          BY <1>2, <1>7, <1>8
      <3> HIDE DEF r, x, D, B, mB, gD, gB, gF, fB, hB, rD, xD
      <3>2. QED
        BY <1>2, <1>3, <1>4, <1>5, <1>6, <1>7, <1>8, <1>9, <3>1
    <2>2. SUFFICES ASSUME g > r + x PROVE FALSE
      <3> HIDE DEF r, x
      <3>1. QED
        BY <1>7, <1>8, <2>2
    <2> HIDE DEF r, x, D
    <2>3. r + x + 1 <= g /\ r + x + 1 \in Nat
      BY <1>7, <1>8, <2>2
    <2>4. (r + x + 1) * D <= g * D
      BY <1>2, <2>3, MulMono
    <2>5. (r + x + 1) * D \in Nat
      BY <1>2, <2>3
    <2>6. QED
      BY <1>4, <2>1, <2>4, <2>5
  <1>12. QED
    BY <1>7, <1>8, <1>10, <1>11

-----------------------------------------------------------------------------
(* The log as the sequence e of the orders in it: what holds of its first  *)
(* p entries.                                                              *)

TradeEntry(r) == r.phase = "landed" /\ (Buys(r) \/ Sells(r))
TradesIn(e, p) == {q \in 1..p : TradeEntry(e[q])}
SellsIn(e, p) == {q \in TradesIn(e, p) : Sells(e[q])}
ExcessesIn(e, p) == [q \in TradesIn(e, p) |-> Excess(e[q])]

\* NearlyExact, of the log e.
NearIn(e, v, s, p) ==
    (\A q \in TradesIn(e, p) : Recoverable(e[q])) =>
        v - s \in -Cardinality(SellsIn(e, p))..SumFunctionOnSet(ExcessesIn(e, p), TradesIn(e, p))

\* Replayed, for an order in the log.
ReplayedBy(v, r) ==
    IF Sells(r)
    THEN IF v > GrossOf(r.delta) THEN v - GrossOf(r.delta) ELSE 0
    ELSE v + IntoCurve(SolInOf(r.delta))

\* f holds the reserves after each of the first n entries of e when the trades
\* are replayed.
Replays(f, e, n) ==
    /\ f \in [0..n -> Int]
    /\ f[0] = 0
    /\ \A p \in 1..n : f[p] = IF TradeEntry(e[p]) THEN ReplayedBy(f[p - 1], e[p]) ELSE f[p - 1]

\* Later entries do not count.
LEMMA NearSame ==
    ASSUME NEW e, NEW d, NEW p \in Nat, \A q \in 1..p : d[q] = e[q], NEW v, NEW s
    PROVE  NearIn(d, v, s, p) <=> NearIn(e, v, s, p)
  <1>1. TradesIn(d, p) = TradesIn(e, p)
    BY DEF TradesIn
  <1>2. \A q \in TradesIn(e, p) : d[q] = e[q]
    BY DEF TradesIn
  <1>3. SellsIn(d, p) = SellsIn(e, p) /\ ExcessesIn(d, p) = ExcessesIn(e, p)
    BY <1>1, <1>2 DEF SellsIn, ExcessesIn
  <1>4. QED
    BY <1>1, <1>2, <1>3 DEF NearIn

\* And neither does one that is no trade.
LEMMA NearSkips ==
    ASSUME NEW e, NEW p \in Nat, ~TradeEntry(e[p + 1]), NEW v, NEW s, NearIn(e, v, s, p)
    PROVE  NearIn(e, v, s, p + 1)
  <1>1. TradesIn(e, p + 1) = TradesIn(e, p)
    <2>1. \A q \in 1..(p + 1) : q = p + 1 \/ q \in 1..p
      OBVIOUS
    <2>2. 1..p \subseteq 1..(p + 1)
      OBVIOUS
    <2>3. QED
      BY <2>1, <2>2 DEF TradesIn
  <1>2. SellsIn(e, p + 1) = SellsIn(e, p) /\ ExcessesIn(e, p + 1) = ExcessesIn(e, p)
    BY <1>1 DEF SellsIn, ExcessesIn
  <1>3. QED
    BY <1>1, <1>2 DEF NearIn

\* What an order can add is a number.
LEMMA ExcessTyped ==
    ASSUME NEW r, r.overhead \in Nat
    PROVE  Excess(r) \in Nat
  <1> DEFINE n == r.overhead * BpsDenom + BpsDenom - FeeBps - 1
  <1>1. n \in Nat /\ BpsDenom - FeeBps \in Nat \ {0}
    BY FeeAssumption
  <1> HIDE DEF n
  <1>2. n \div (BpsDenom - FeeBps) \in Nat
    BY <1>1, DivBounds
  <1>3. r.overhead + (Signers(r) - 1) * TxFee \in Nat
    BY Amounts DEF Signers
  <1>4. QED
    BY <1>2, <1>3 DEF Excess, n

\* One more trade makes room for its own drift.
LEMMA NearGrows ==
    ASSUME NEW e, NEW p \in Nat, NEW v \in Int, NEW s \in Int, NEW w \in Int, NEW t \in Int,
           NearIn(e, v, s, p), TradeEntry(e[p + 1]),
           \A q \in 1..(p + 1) : TradeEntry(e[q]) => e[q].overhead \in Nat,
           Recoverable(e[p + 1]) =>
               \A c, x \in Nat : v - s \in (-c)..x =>
                   w - t \in (-(c + (IF Sells(e[p + 1]) THEN 1 ELSE 0)))..(x + Excess(e[p + 1]))
    PROVE  NearIn(e, w, t, p + 1)
  <1> DEFINE r == e[p + 1]
             T == TradesIn(e, p)
             U == TradesIn(e, p + 1)
             S == SellsIn(e, p)
             f == ExcessesIn(e, p)
             g == ExcessesIn(e, p + 1)
             c == Cardinality(S)
             x == SumFunctionOnSet(f, T)
  <1>1. U = T \cup {p + 1} /\ p + 1 \notin T
    <2>1. \A q : q \in 1..(p + 1) <=> q = p + 1 \/ q \in 1..p
      OBVIOUS
    <2>2. p + 1 \notin 1..p
      OBVIOUS
    <2>3. QED
      BY <2>1, <2>2 DEF TradesIn
  <1>2. IsFiniteSet(T) /\ IsFiniteSet(S) /\ S \subseteq T
    <2>1. IsFiniteSet(1..p)
      <3>1. p \in Int /\ 1 \in Int
        OBVIOUS
      <3>2. QED
        BY <3>1, FS_Interval
    <2>2. T \subseteq 1..p /\ S \subseteq 1..p /\ S \subseteq T
      BY DEF TradesIn, SellsIn
    <2> HIDE DEF T, S
    <2>3. QED
      BY <2>1, <2>2, FS_Subset
  <1>3. \A q \in U : Excess(e[q]) \in Nat
    <2>1. \A q \in U : e[q].overhead \in Nat
      BY DEF TradesIn
    <2> HIDE DEF U
    <2>2. QED
      BY <2>1, ExcessTyped
  <1>4. (\A q \in T : f[q] = Excess(e[q])) /\ (\A q \in U : g[q] = Excess(e[q]))
    BY DEF ExcessesIn
  <1> HIDE DEF T, U, S, f, g
  <1>5. x \in Nat /\ c \in Nat
    <2>1. \A q \in T : f[q] \in Nat
      BY <1>1, <1>3, <1>4
    <2>2. QED
      BY <1>2, <2>1, SumNat, FS_CardinalityType
  <1>6. SumFunctionOnSet(g, U) = x + Excess(r)
    <2>1. \A q \in T : f[q] = g[q]
      BY <1>1, <1>4
    <2>2. \A q \in T \cup {p + 1} : g[q] \in Int
      BY <1>1, <1>3, <1>4
    <2>3. SumFunctionOnSet(g, T \cup {p + 1}) = SumFunctionOnSet(g, T) + g[p + 1]
      BY <1>1, <1>2, <2>2, SumAdd
    <2>4. SumFunctionOnSet(f, T) = SumFunctionOnSet(g, T)
      BY <1>2, <2>1, SumSame
    <2>5. g[p + 1] = Excess(r)
      BY <1>1, <1>4
    <2>6. QED
      BY <1>1, <2>3, <2>4, <2>5
  <1>7. Cardinality(SellsIn(e, p + 1)) = c + (IF Sells(r) THEN 1 ELSE 0)
    <2>1. SellsIn(e, p + 1) = IF Sells(r) THEN S \cup {p + 1} ELSE S
      BY <1>1 DEF SellsIn, S, T, U
    <2>2. p + 1 \notin S
      BY <1>1, <1>2
    <2>3. Cardinality(S \cup {p + 1}) = Cardinality(S) + 1
      BY <1>2, <2>2, FS_AddElement
    <2>4. QED
      BY <1>5, <2>1, <2>3
  <1>8. SUFFICES ASSUME \A q \in U : Recoverable(e[q])
                 PROVE  w - t \in (-(c + (IF Sells(r) THEN 1 ELSE 0)))..(x + Excess(r))
    BY <1>6, <1>7 DEF NearIn, U, g
  <1>9. v - s \in (-c)..x
    BY <1>1, <1>8 DEF NearIn, T, S, f
  <1>10. Recoverable(r)
    BY <1>1, <1>8
  <1> HIDE DEF c, x
  <1>11. QED
    BY <1>5, <1>9, <1>10

-----------------------------------------------------------------------------
(* A trade changes the reserves from s to t, and the replay with them.     *)

Drifts(r, s, t) ==
    \A v \in Int :
        /\ ReplayedBy(v, r) \in Int
        /\ Recoverable(r) =>
              \A c, x \in Nat : v - s \in (-c)..x =>
                ReplayedBy(v, r) - t \in (-(c + (IF Sells(r) THEN 1 ELSE 0)))..(x + Excess(r))

\* A buyer's balance falls by the input and by what else is paid.
LEMMA BuyDrifts ==
    ASSUME NEW r, ~Sells(r), r.overhead \in Nat, NEW solIn \in Nat \ {0},
           r.delta = solIn + Signers(r) * TxFee + r.overhead, NEW s \in Int
    PROVE  Drifts(r, s, s + IntoCurve(solIn))
  <1> DEFINE h == r.overhead + (Signers(r) - 1) * TxFee
  <1>1. TxFee \in Nat /\ h \in Nat /\ r.delta = solIn + TxFee + h
    BY Amounts DEF Signers
  <1> HIDE DEF h
  <1>2. SolInOf(r.delta) = solIn + h
    <2>1. r.delta > TxFee /\ r.delta - TxFee = solIn + h
      BY <1>1
    <2>2. QED
      BY <2>1 DEF SolInOf
  <1>3. IntoCurve(solIn) \in Nat /\ IntoCurve(solIn + h) - IntoCurve(solIn) \in 0..h
        /\ IntoCurve(solIn + h) \in Nat
    BY <1>1, BuyRecovered
  <1>4. Excess(r) = h
    BY DEF Excess, h
  <1>5. \A v \in Int : ReplayedBy(v, r) = v + IntoCurve(solIn + h)
    BY <1>2 DEF ReplayedBy
  <1>6. h \in Nat
    BY <1>1
  <1>7. SUFFICES ASSUME NEW v \in Int
                 PROVE  /\ ReplayedBy(v, r) \in Int
                        /\ \A c, x \in Nat : v - s \in (-c)..x =>
                             ReplayedBy(v, r) - (s + IntoCurve(solIn))
                               \in (-(c + (IF Sells(r) THEN 1 ELSE 0)))..(x + Excess(r))
    BY DEF Drifts
  <1>8. ReplayedBy(v, r) \in Int
    BY <1>3, <1>5
  <1>9. ASSUME NEW c \in Nat, NEW x \in Nat, v - s \in (-c)..x
        PROVE  ReplayedBy(v, r) - (s + IntoCurve(solIn))
                 \in (-(c + (IF Sells(r) THEN 1 ELSE 0)))..(x + Excess(r))
    <2>1. v + IntoCurve(solIn + h) - (s + IntoCurve(solIn)) \in (-c)..(x + h)
      BY <1>3, <1>6, <1>9
    <2> DEFINE k == IF Sells(r) THEN 1 ELSE 0
    <2>2. k = 0
      OBVIOUS
    <2>3. ReplayedBy(v, r) = v + IntoCurve(solIn + h)
      BY <1>5
    <2> HIDE DEF k
    <2>4. ReplayedBy(v, r) - (s + IntoCurve(solIn)) \in (-(c + k))..(x + Excess(r))
      BY <1>3, <1>4, <1>6, <1>8, <2>1, <2>2, <2>3
    <2>5. QED
      BY <2>4 DEF k
  <1>10. QED
    BY <1>8, <1>9

\* A seller's rises by the proceeds, less what else is paid.
LEMMA SellDrifts ==
    ASSUME NEW r, Sells(r), r.overhead \in Nat, NEW g \in Nat, r.proceeds = g - FeeOn(g),
           r.delta = Distance(r.proceeds, TxFee + r.overhead),
           NEW s \in Nat, g <= s
    PROVE  Drifts(r, s, s - g)
  <1> DEFINE h == r.overhead
             a == GrossOf(r.delta)
             b == BeforeFee(h)
  <1>1. TxFee \in Nat /\ h \in Nat /\ FeeOn(g) \in 0..g
    BY Amounts, FeeBounds
  <1>2. r.proceeds \in Nat
    BY <1>1
  <1>3. r.delta \in Nat
    BY <1>1, <1>2 DEF Distance
  <1>4. a \in Nat
    <2> DEFINE n == (r.delta + TxFee) * BpsDenom
    <2>1. n \in Nat /\ BpsDenom - FeeBps \in Nat \ {0}
      BY <1>1, <1>3, FeeAssumption
    <2>2. a = n \div (BpsDenom - FeeBps)
      BY DEF GrossOf
    <2> HIDE DEF n, a
    <2>3. QED
      BY <2>1, <2>2, DivBounds
  <1>5. Excess(r) = b
    BY DEF Excess, BeforeFee
  <1>6. b \in Nat
    BY <1>1, <1>5, ExcessTyped
  <1>7. ASSUME Recoverable(r) PROVE a <= g + 1 /\ g <= a + b
    <2> DEFINE m == r.proceeds - h
    <2>1. r.proceeds >= TxFee + h
      BY <1>7 DEF Recoverable
    <2>2. m \in Nat /\ m = g - FeeOn(g) - h
      BY <1>1, <1>2, <2>1
    <2>3. r.delta + TxFee = m
      BY <1>1, <1>2, <2>1 DEF Distance
    <2>4. a = (m * BpsDenom) \div (BpsDenom - FeeBps)
      BY <2>3 DEF GrossOf
    <2> HIDE DEF a, b, m, h
    <2>5. /\ (m * BpsDenom) \div (BpsDenom - FeeBps) <= g + 1
          /\ g <= (m * BpsDenom) \div (BpsDenom - FeeBps) + BeforeFee(h)
      BY <1>1, <2>2, SellRecovered
    <2>6. QED
      BY <2>4, <2>5 DEF b
  <1>8. \A v : ReplayedBy(v, r) = IF v > a THEN v - a ELSE 0
    BY DEF ReplayedBy
  <1> HIDE DEF a, b
  <1>9. SUFFICES ASSUME NEW v \in Int
                 PROVE  /\ (IF v > a THEN v - a ELSE 0) \in Int
                        /\ Recoverable(r) =>
                             \A c, x \in Nat : v - s \in (-c)..x =>
                               (IF v > a THEN v - a ELSE 0) - (s - g) \in (-(c + 1))..(x + b)
    BY <1>5, <1>8 DEF Drifts
  <1>10. (IF v > a THEN v - a ELSE 0) \in Int
    BY <1>4
  <1>11. ASSUME Recoverable(r), NEW c \in Nat, NEW x \in Nat, v - s \in (-c)..x
         PROVE  (IF v > a THEN v - a ELSE 0) - (s - g) \in (-(c + 1))..(x + b)
    <2>1. a <= g + 1 /\ g <= a + b
      BY <1>7, <1>11
    <2>2. v - s >= -c /\ v - s <= x
      BY <1>11
    <2>3. CASE v > a
      BY <1>4, <1>6, <2>1, <2>2, <2>3
    <2>4. CASE ~(v > a)
      BY <1>4, <1>6, <2>1, <2>2, <2>4
    <2>5. QED
      BY <2>3, <2>4
  <1>12. QED
    BY <1>10, <1>11

-----------------------------------------------------------------------------
(* Replays of longer logs.                                                 *)

\* A replay of all trades among the first n entries is nearly exact after each
\* of them, and at the end, where the reserves are s.
ReplayNear(e, n, s) ==
    \E f : /\ Replays(f, e, n)
           /\ \A p \in TradesIn(e, n) : NearIn(e, f[p], e[p].after, p)
           /\ NearIn(e, f[n], s, n)

\* One more value.
Extended(f, n, w) == [p \in 0..(n + 1) |-> IF p = n + 1 THEN w ELSE f[p]]

LEMMA LongerReplay ==
    ASSUME NEW n \in Nat, NEW e, NEW d, \A q \in 1..n : d[q] = e[q], NEW f, Replays(f, e, n),
           NEW w \in Int,
           w = IF TradeEntry(d[n + 1]) THEN ReplayedBy(f[n], d[n + 1]) ELSE f[n]
    PROVE  /\ Replays(Extended(f, n, w), d, n + 1)
           /\ Extended(f, n, w)[n + 1] = w
           /\ \A p \in 1..n : Extended(f, n, w)[p] = f[p]
  <1> DEFINE g == Extended(f, n, w)
  <1>1. f \in [0..n -> Int] /\ f[0] = 0
    BY DEF Replays
  <1>2. \A p \in 0..(n + 1) : p = n + 1 \/ p \in 0..n
    OBVIOUS
  <1>3. g \in [0..(n + 1) -> Int]
    BY <1>1, <1>2 DEF Extended
  <1>4. g[0] = 0 /\ g[n + 1] = w /\ \A p \in 0..n : g[p] = f[p]
    <2>1. 0 \in 0..(n + 1) /\ n + 1 \in 0..(n + 1) /\ 0 # n + 1
      OBVIOUS
    <2>2. \A p \in 0..n : p \in 0..(n + 1) /\ p # n + 1
      OBVIOUS
    <2>3. QED
      BY <1>1, <2>1, <2>2 DEF Extended
  <1> HIDE DEF g
  <1>5. ASSUME NEW p \in 1..(n + 1)
        PROVE  g[p] = IF TradeEntry(d[p]) THEN ReplayedBy(g[p - 1], d[p]) ELSE g[p - 1]
    <2>1. CASE p = n + 1
      <3>1. p - 1 = n /\ n \in 0..n
        BY <2>1
      <3>2. QED
        BY <1>4, <2>1, <3>1
    <2>2. CASE p \in 1..n
      <3>1. p - 1 \in 0..n /\ p \in 0..n
        BY <2>2
      <3>2. d[p] = e[p] /\ g[p] = f[p] /\ g[p - 1] = f[p - 1]
        BY <1>4, <2>2, <3>1
      <3>3. f[p] = IF TradeEntry(e[p]) THEN ReplayedBy(f[p - 1], e[p]) ELSE f[p - 1]
        BY <2>2 DEF Replays
      <3>4. QED
        BY <3>2, <3>3
    <2>3. QED
      BY <2>1, <2>2
  <1>6. Replays(g, d, n + 1)
    BY <1>3, <1>4, <1>5 DEF Replays
  <1>7. \A p \in 1..n : g[p] = f[p]
    BY <1>4
  <1>8. QED
    BY <1>4, <1>6, <1>7 DEF g

\* Entries that are no trade change nothing.
LEMMA ReplaySkips ==
    ASSUME NEW n \in Nat, NEW e, NEW d, \A q \in 1..n : d[q] = e[q], NEW s,
           ~TradeEntry(d[n + 1]), ReplayNear(e, n, s)
    PROVE  ReplayNear(d, n + 1, s)
  <1>1. PICK f : /\ Replays(f, e, n)
                 /\ \A p \in TradesIn(e, n) : NearIn(e, f[p], e[p].after, p)
                 /\ NearIn(e, f[n], s, n)
    BY DEF ReplayNear
  <1> DEFINE w == f[n]
             g == Extended(f, n, w)
  <1>2. w \in Int
    BY <1>1 DEF Replays
  <1>3. Replays(g, d, n + 1) /\ g[n + 1] = w /\ \A p \in 1..n : g[p] = f[p]
    <2> HIDE DEF w
    <2>1. w = IF TradeEntry(d[n + 1]) THEN ReplayedBy(f[n], d[n + 1]) ELSE f[n]
      BY DEF w
    <2>2. QED
      BY <1>1, <1>2, <2>1, LongerReplay
  <1> HIDE DEF g
  <1>4. ASSUME NEW p \in TradesIn(d, n + 1) PROVE NearIn(d, g[p], d[p].after, p)
    <2>1. p \in 1..n
      BY <1>4 DEF TradesIn
    <2>2. p \in TradesIn(e, n) /\ d[p] = e[p] /\ g[p] = f[p] /\ \A q \in 1..p : d[q] = e[q]
      BY <1>3, <1>4, <2>1 DEF TradesIn
    <2>3. p \in Nat
      BY <2>1
    <2>4. NearIn(e, f[p], e[p].after, p)
      BY <1>1, <2>2
    <2>5. QED
      BY <2>2, <2>3, <2>4, NearSame
  <1>5. NearIn(d, g[n + 1], s, n + 1)
    <2>1. NearIn(d, w, s, n)
      BY <1>1, NearSame
    <2> HIDE DEF w
    <2>2. QED
      BY <1>3, <2>1, NearSkips
  <1>6. QED
    BY <1>3, <1>4, <1>5 DEF ReplayNear

\* A trade adds its own drift.
LEMMA ReplayGrows ==
    ASSUME NEW n \in Nat, NEW e, NEW d, \A q \in 1..n : d[q] = e[q],
           NEW s \in Int, NEW t \in Int, TradeEntry(d[n + 1]), d[n + 1].after = t,
           \A q \in 1..(n + 1) : TradeEntry(d[q]) => d[q].overhead \in Nat,
           Drifts(d[n + 1], s, t), ReplayNear(e, n, s)
    PROVE  ReplayNear(d, n + 1, t)
  <1>1. PICK f : /\ Replays(f, e, n)
                 /\ \A p \in TradesIn(e, n) : NearIn(e, f[p], e[p].after, p)
                 /\ NearIn(e, f[n], s, n)
    BY DEF ReplayNear
  <1> DEFINE v == f[n]
             w == ReplayedBy(v, d[n + 1])
             g == Extended(f, n, w)
  <1>2. v \in Int
    BY <1>1 DEF Replays
  <1>3. w \in Int
    BY <1>2 DEF Drifts
  <1>4. Replays(g, d, n + 1) /\ g[n + 1] = w /\ \A p \in 1..n : g[p] = f[p]
    <2>1. w = IF TradeEntry(d[n + 1]) THEN ReplayedBy(f[n], d[n + 1]) ELSE f[n]
      OBVIOUS
    <2> HIDE DEF w
    <2>2. QED
      BY <1>1, <1>3, <2>1, LongerReplay
  <1>5. NearIn(d, w, t, n + 1)
    <2>1. NearIn(d, v, s, n)
      BY <1>1, NearSame
    <2>2. Recoverable(d[n + 1]) =>
             \A c, x \in Nat : v - s \in (-c)..x =>
                w - t \in (-(c + (IF Sells(d[n + 1]) THEN 1 ELSE 0)))..(x + Excess(d[n + 1]))
      BY <1>2 DEF Drifts
    <2> HIDE DEF v, w
    <2>3. QED
      BY <1>2, <1>3, <2>1, <2>2, NearGrows
  <1> HIDE DEF g, w
  <1>6. ASSUME NEW p \in TradesIn(d, n + 1) PROVE NearIn(d, g[p], d[p].after, p)
    <2>1. p = n + 1 \/ p \in 1..n
      BY <1>6 DEF TradesIn
    <2>2. CASE p = n + 1
      BY <1>4, <1>5, <2>2
    <2>3. CASE p \in 1..n
      <3>1. p \in TradesIn(e, n) /\ d[p] = e[p] /\ g[p] = f[p] /\ \A q \in 1..p : d[q] = e[q]
        BY <1>4, <1>6, <2>3 DEF TradesIn
      <3>2. p \in Nat
        BY <2>3
      <3>3. NearIn(e, f[p], e[p].after, p)
        BY <1>1, <3>1
      <3>4. QED
        BY <3>1, <3>2, <3>3, NearSame
    <2>4. QED
      BY <2>1, <2>2, <2>3
  <1>7. QED
    BY <1>4, <1>5, <1>6 DEF ReplayNear

-----------------------------------------------------------------------------
(* The log and the table.                                                  *)

Executed == [p \in DOMAIN log |-> orders[log[p]]]
Settled(r) == r.phase \in {"landed", "failed"}

\* The curve is created by the first order or not at all.
LaunchFirst ==
    /\ orders = <<>> => ~created
    /\ \A o \in DOMAIN orders : Launches(orders[o]) =>
          /\ o = 1
          /\ orders[o].phase /= "built"
          /\ orders[o].phase = "sent" => ~created

\* An order is in the log once, when nothing happens to it any more.
LoggedOnce ==
    /\ log \in Seq(DOMAIN orders)
    /\ \A p \in DOMAIN log : Settled(orders[log[p]])
    /\ \A p, q \in DOMAIN log : log[p] = log[q] => p = q
    /\ \A p \in DOMAIN log : TradeEntry(Executed[p]) => Executed[p].overhead \in Nat

\* A complete row is near the reserves that its trade left.
RowExact(o) ==
    rows[o] /= Nothing /\ rows[o].complete =>
        \E p \in DOMAIN log :
            log[p] = o /\ NearIn(Executed, rows[o].sol, Executed[p].after, p)

TableInv ==
    /\ LaunchFirst
    /\ LoggedOnce
    /\ ReplayNear(Executed, Len(log), sol)
    /\ \A o \in Ids : RowExact(o)

SettledStay ==
    /\ DOMAIN orders \subseteq DOMAIN orders'
    /\ \A o \in DOMAIN orders : Settled(orders[o]) => orders'[o] = orders[o]

\* Where nothing is executed, the log tells what it told.
LEMMA LogKept ==
    ASSUME LoggedOnce, SettledStay, log' = log
    PROVE  LoggedOnce' /\ Executed' = Executed
  <1>1. log \in Seq(DOMAIN orders) /\ \A p \in DOMAIN log : log[p] \in DOMAIN orders
    BY DEF LoggedOnce
  <1>2. \A p \in DOMAIN log : orders'[log[p]] = orders[log[p]]
    BY <1>1 DEF LoggedOnce, SettledStay
  <1>3. Executed' = Executed
    BY <1>2 DEF Executed
  <1>4. log \in Seq(DOMAIN orders')
    BY <1>1 DEF SettledStay
  <1>5. QED
    BY <1>2, <1>3, <1>4 DEF LoggedOnce

\* What is executed is a new entry.
LEMMA LogGrows ==
    ASSUME LoggedOnce, SettledStay, NEW o \in DOMAIN orders, ~Settled(orders[o]),
           log' = Append(log, o), Settled(orders'[o]),
           TradeEntry(orders'[o]) => orders'[o].overhead \in Nat
    PROVE  /\ LoggedOnce'
           /\ Len(log) \in Nat /\ Len(log') = Len(log) + 1
           /\ \A q \in 1..Len(log) : log'[q] = log[q] /\ Executed'[q] = Executed[q]
           /\ Executed'[Len(log) + 1] = orders'[o]
  <1> DEFINE n == Len(log)
  <1>1. /\ log \in Seq(DOMAIN orders) /\ n \in Nat /\ DOMAIN log = 1..n
        /\ \A p \in 1..n : log[p] \in DOMAIN orders
    BY DEF LoggedOnce
  <1>2. /\ Len(log') = n + 1 /\ DOMAIN log' = 1..(n + 1) /\ log'[n + 1] = o
        /\ \A p \in 1..n : log'[p] = log[p]
        /\ log' \in Seq(DOMAIN orders)
    BY <1>1
  <1>3. \A p \in 1..(n + 1) : p = n + 1 \/ p \in 1..n
    BY <1>1
  <1>4. n + 1 \in 1..(n + 1) /\ \A p \in 1..n : p \in 1..(n + 1)
    BY <1>1
  <1>5. \A p \in 1..n : log[p] # o /\ orders'[log[p]] = orders[log[p]]
    BY <1>1 DEF LoggedOnce, SettledStay
  <1>6. Executed = [p \in 1..n |-> orders[log[p]]]
        /\ Executed' = [p \in 1..(n + 1) |-> orders'[log'[p]]]
    BY <1>1, <1>2 DEF Executed
  <1>7. (\A p \in 1..n : Executed'[p] = Executed[p]) /\ Executed'[n + 1] = orders'[o]
    BY <1>2, <1>4, <1>5, <1>6
  <1>8. log' \in Seq(DOMAIN orders')
    BY <1>2 DEF SettledStay
  <1>9. \A p \in DOMAIN log' : Settled(orders'[log'[p]])
    BY <1>1, <1>2, <1>3, <1>5 DEF LoggedOnce
  <1>10. \A p, q \in DOMAIN log' : log'[p] = log'[q] => p = q
    BY <1>1, <1>2, <1>3, <1>5 DEF LoggedOnce
  <1>11. \A p \in DOMAIN log' : TradeEntry(Executed'[p]) => Executed'[p].overhead \in Nat
    BY <1>1, <1>2, <1>3, <1>7 DEF LoggedOnce
  <1>12. LoggedOnce'
    BY <1>8, <1>9, <1>10, <1>11 DEF LoggedOnce
  <1>13. QED
    BY <1>1, <1>2, <1>7, <1>12

\* Rows stay as exact as they were.
LEMMA RowsStay ==
    ASSUME LoggedOnce, \A o \in Ids : RowExact(o), rows' = rows, DOMAIN log \subseteq DOMAIN log',
           \A q \in 1..Len(log) : log'[q] = log[q] /\ Executed'[q] = Executed[q]
    PROVE  \A o \in Ids : RowExact(o)'
  <1>1. SUFFICES ASSUME NEW o \in Ids, rows[o] /= Nothing, rows[o].complete
                 PROVE  \E p \in DOMAIN log' :
                           log'[p] = o /\ NearIn(Executed', rows[o].sol, Executed'[p].after, p)
    BY DEF RowExact
  <1>2. PICK p \in DOMAIN log : log[p] = o /\ NearIn(Executed, rows[o].sol, Executed[p].after, p)
    BY <1>1 DEF RowExact
  <1>3. Len(log) \in Nat /\ p \in 1..Len(log)
    BY DEF LoggedOnce
  <1>4. p \in Nat /\ \A q \in 1..p : q \in 1..Len(log)
    BY <1>3
  <1>5. NearIn(Executed', rows[o].sol, Executed[p].after, p)
    BY <1>2, <1>4, NearSame
  <1>6. QED
    BY <1>2, <1>3, <1>5

\* Steps before and after the execution of an order.
LEMMA QuietStep ==
    ASSUME TableInv, LaunchFirst', SettledStay, UNCHANGED <<log, rows, sol>>
    PROVE  TableInv'
  <1>1. LoggedOnce' /\ Executed' = Executed
    BY LogKept DEF TableInv
  <1>2. \A o \in Ids : RowExact(o)'
    BY <1>1, RowsStay DEF TableInv
  <1>3. QED
    BY <1>1, <1>2 DEF TableInv

\* An order moves on.
LEMMA FirstMoved ==
    ASSUME LaunchTypes, LaunchFirst, NEW o \in DOMAIN orders, NEW q \in OrderType,
           orders' = [orders EXCEPT ![o] = q],
           ~Settled(orders[o]), q.ixs = orders[o].ixs, q.phase /= "built",
           q.phase = "sent" => orders[o].phase = "built",
           created' = created \/ (Launches(q) /\ q.phase = "landed")
    PROVE  LaunchFirst' /\ SettledStay
  <1>1. /\ DOMAIN orders' = DOMAIN orders /\ orders'[o] = q
        /\ \A p \in DOMAIN orders : p /= o => orders'[p] = orders[p]
        /\ orders' /= <<>>
    BY OrderMoves DEF LaunchTypes
  <1>2. Launches(q) <=> Launches(orders[o])
    BY SameIxs
  <1>3. ASSUME NEW p \in DOMAIN orders', Launches(orders'[p])
        PROVE  p = 1 /\ orders'[p].phase /= "built" /\ (orders'[p].phase = "sent" => ~created')
    <2>1. CASE p = o
      BY <1>1, <1>2, <1>3, <2>1 DEF LaunchFirst
    <2>2. CASE p /= o
      <3>1. p \in DOMAIN orders /\ Launches(orders[p]) /\ orders'[p] = orders[p]
        BY <1>1, <1>3, <2>2
      <3>2. p = 1 /\ ~Launches(orders[o])
        BY <3>1, <2>2 DEF LaunchFirst
      <3>3. QED
        BY <1>2, <3>1, <3>2 DEF LaunchFirst
    <2>3. QED
      BY <2>1, <2>2
  <1>4. SettledStay
    BY <1>1 DEF SettledStay
  <1>5. QED
    BY <1>1, <1>3, <1>4 DEF LaunchFirst

\* An order is added.
LEMMA FirstAdded ==
    ASSUME LaunchTypes, LaunchFirst, NEW r \in OrderType, orders' = Append(orders, r),
           Launches(r) => orders = <<>> /\ r.phase = "sent", created' = created
    PROVE  LaunchFirst' /\ SettledStay
  <1>1. orders \in Seq(OrderType)
    BY DEF LaunchTypes
  <1>2. /\ DOMAIN orders' = DOMAIN orders \cup {Len(orders) + 1}
        /\ Len(orders) \in Nat /\ orders'[Len(orders) + 1] = r
        /\ \A p \in DOMAIN orders : orders'[p] = orders[p]
        /\ orders' /= <<>>
    BY <1>1
  <1>3. ASSUME NEW p \in DOMAIN orders', Launches(orders'[p])
        PROVE  p = 1 /\ orders'[p].phase /= "built" /\ (orders'[p].phase = "sent" => ~created')
    <2>1. CASE p \in DOMAIN orders
      BY <1>2, <1>3, <2>1 DEF LaunchFirst
    <2>2. CASE p = Len(orders) + 1
      <3>1. orders = <<>> /\ r.phase = "sent" /\ orders'[p] = r
        BY <1>2, <1>3, <2>2
      <3>2. Len(orders) = 0
        BY <3>1
      <3>3. QED
        BY <2>2, <3>1, <3>2 DEF LaunchFirst
    <2>3. QED
      BY <1>2, <2>1, <2>2
  <1>4. SettledStay
    BY <1>2 DEF SettledStay
  <1>5. QED
    BY <1>2, <1>3, <1>4 DEF LaunchFirst

-----------------------------------------------------------------------------
(* Every step.                                                             *)

\* Building an order executes nothing.
LEMMA AddedQuietly ==
    ASSUME LaunchInv, TableInv, NEW r \in OrderType, orders' = Append(orders, r),
           Launches(r) => orders = <<>> /\ r.phase = "sent",
           UNCHANGED <<vars, log, rows>>
    PROVE  TableInv'
  <1>1. created' = created /\ sol' = sol
    BY DEF vars
  <1>2. LaunchFirst' /\ SettledStay
    BY <1>1, FirstAdded DEF LaunchInv, TableInv
  <1>3. QED
    BY <1>1, <1>2, QuietStep

LEMMA BuildBuyTable ==
    ASSUME LaunchInv, TableInv,
           NEW t \in Panels, NEW slip \in Slips, NEW confidential \in BOOLEAN,
           NEW probeFails \in BOOLEAN, NEW solIn \in SolInputs, NEW hasKeys \in BOOLEAN,
           BuildBuy(t, solIn, slip, confidential, probeFails, hasKeys)
    PROVE  TableInv'
  <1> DEFINE shown == panel[t].shown
             u == panel[t].who
             about == IF TakenForConfigured(t) THEN panel[t].about ELSE u
             configures == confidential /\ hasKeys /\ NeedsConfigure(t, probeFails)
             deposits == confidential /\ (NeedsConfigure(t, probeFails) => hasKeys)
             least == MinTokens(shown, solIn, slip)
             amount == IF deposits
                       THEN DepositOf(TokensOut(shown.sol, shown.tokens, solIn), least)
                       ELSE 0
             configuring == IF configures THEN ConfigureIxs ELSE <<>>
             r == Order(t, u, about, "built", BuyIxs(configuring, solIn, least, amount))
  <1>1. /\ shown /= Nothing /\ BuyQuoted(shown, solIn)
        /\ orders' = Append(orders, r)
        /\ UNCHANGED <<vars, log, rows>>
    BY DEF BuildBuy, BuyIxs
  <1>2. shown \in ReservesType /\ u \in Users /\ panel[t].about \in Users
    BY <1>1 DEF LaunchInv, LaunchTypes, PanelType
  <1>3. solIn \in Nat /\ least \in Nat
    BY <1>1, <1>2, BuyQuote, InputAssumption
  <1>4. amount \in Nat
    <2> HIDE DEF least
    <2>1. QED
      BY <1>3, Amounts DEF DepositOf
  <1>5. r.ixs = BuyIxs(configuring, solIn, least, amount)
    BY DEF Order
  <1>6. configuring = <<>> \/ configuring = ConfigureIxs
    OBVIOUS
  <1>7. r.ixs \in Seq(Instruction) /\ ~Launches(r)
    <2> HIDE DEF r, least, amount, configuring
    <2>1. QED
      BY <1>3, <1>4, <1>5, <1>6, BuyOrder
  <1>8. r \in OrderType
    <2>1. about \in Users
      BY <1>2
    <2> HIDE DEF least, amount, configuring, about, u
    <2>2. QED
      BY <1>2, <1>7, <2>1 DEF Order, OrderType, Phases
  <1> HIDE DEF r
  <1>9. QED
    BY <1>1, <1>7, <1>8, AddedQuietly

LEMMA BuildSellTable ==
    ASSUME LaunchInv, TableInv,
           NEW t \in Panels, NEW slip \in Slips, NEW confidential \in BOOLEAN,
           NEW probeFails \in BOOLEAN, NEW tokensIn \in TokenInputs,
           BuildSell(t, tokensIn, slip, confidential, probeFails)
    PROVE  TableInv'
  <1> DEFINE shown == panel[t].shown
             u == panel[t].who
             least == MinSol(shown, tokensIn, slip)
             r == Order(t, u, u, "built", SeedTreasuryIxs \o <<SellIx(tokensIn, least)>>)
  <1>1. /\ shown /= Nothing /\ SellQuoted(shown, tokensIn)
        /\ orders' = Append(orders, r)
        /\ UNCHANGED <<vars, log, rows>>
    BY DEF BuildSell
  <1>2. shown \in ReservesType /\ u \in Users /\ panel[t].about \in Users
    BY <1>1 DEF LaunchInv, LaunchTypes, PanelType
  <1>3. least \in Nat /\ tokensIn \in Nat
    BY <1>1, <1>2, SellQuote, InputAssumption
  <1>4. r.ixs = SeedTreasuryIxs \o <<SellIx(tokensIn, least)>>
    BY DEF Order
  <1> HIDE DEF least, u
  <1>5. r.ixs \in Seq(Instruction) /\ ~Launches(r)
    BY <1>3, <1>4, SellOrder
  <1>6. r \in OrderType
    BY <1>2, <1>4, <1>5 DEF Order, OrderType, Phases
  <1> HIDE DEF r
  <1>7. QED
    BY <1>1, <1>5, <1>6, AddedQuietly

LEMMA SendLaunchTable ==
    ASSUME LaunchInv, TableInv, NEW seedBuy \in SolInputs, NEW big, NEW table,
           SendLaunch(seedBuy, big, table)
    PROVE  TableInv'
  <1> DEFINE r == Order(Nothing, Creator, Creator, "sent",
                        MintInitIxs \o <<CreateCurveIx>> \o SeedBuyIxs(seedBuy))
  <1>1. orders = <<>> /\ orders' = <<r>> /\ UNCHANGED <<vars, log, rows>>
    BY DEF SendLaunch
  <1>2. /\ r.ixs = MintInitIxs \o <<CreateCurveIx>> \o SeedBuyIxs(seedBuy)
        /\ r.phase = "sent" /\ seedBuy \in Nat
    BY InputAssumption DEF Order
  <1>3. r.ixs \in Seq(Instruction)
    BY <1>2, LaunchOrder
  <1>4. r \in OrderType
    BY <1>2, <1>3, Amounts DEF Order, OrderType, Phases
  <1> HIDE DEF r
  <1>5. orders' = Append(orders, r)
    BY <1>1
  <1>6. QED
    BY <1>1, <1>2, <1>4, <1>5, AddedQuietly

\* Neither does sending or giving one up.
LEMMA PhaseTable ==
    ASSUME LaunchInv, TableInv, NEW o \in DOMAIN orders,
           OrderDeclined(o) \/ Expires(o) \/ \E table \in Tables : SendOrder(o, table)
    PROVE  TableInv'
  <1>1. PICK phase \in {"sent", "declined", "expired"} :
           /\ orders' = [orders EXCEPT ![o].phase = phase]
           /\ orders[o].phase = "built" \/ orders[o].phase = "sent"
           /\ phase = "sent" => orders[o].phase = "built"
    BY DEF SendOrder, OrderDeclined, Expires
  <1>2. UNCHANGED <<vars, log, rows>>
    BY DEF SendOrder, OrderDeclined, Expires
  <1>3. created' = created /\ sol' = sol
    BY <1>2 DEF vars
  <1> DEFINE q == [orders[o] EXCEPT !.phase = phase]
  <1>4. orders[o] \in OrderType
    BY OrderTyped DEF LaunchInv
  <1>5. q \in OrderType /\ q.ixs = orders[o].ixs /\ q.phase = phase
    BY <1>4 DEF OrderType, Phases
  <1>6. orders' = [orders EXCEPT ![o] = q]
    BY <1>1
  <1>7. ~Settled(orders[o]) /\ phase /= "built"
    BY <1>1 DEF Settled
  <1> HIDE DEF q
  <1>8. LaunchFirst' /\ SettledStay
    BY <1>1, <1>3, <1>5, <1>6, <1>7, FirstMoved DEF LaunchInv, TableInv
  <1>9. QED
    BY <1>2, <1>3, <1>8, QuietStep

\* Panels and accounts are not in the table.
LEMMA StillTable ==
    ASSUME TableInv, UNCHANGED <<created, orders, log, rows, sol>>
    PROVE  TableInv'
  <1>1. LaunchFirst' /\ SettledStay
    BY DEF TableInv, LaunchFirst, SettledStay
  <1>2. QED
    BY <1>1, QuietStep

\* A transaction that fails is in the log, but no trade.
LEMMA RevertsTable ==
    ASSUME LaunchInv, TableInv, NEW o \in DOMAIN orders, Reverts(o)
    PROVE  TableInv'
  <1> DEFINE why == Refusals(orders[o])
             q == [orders[o] EXCEPT !.phase = "failed", !.refused = why]
             n == Len(log)
  <1>1. /\ orders[o].phase = "sent"
        /\ orders' = [orders EXCEPT ![o].phase = "failed", ![o].refused = why]
        /\ log' = Append(log, o)
        /\ UNCHANGED <<vars, rows>>
    BY DEF Reverts
  <1>2. why \subseteq Reasons
    BY NeverForTheExtras
  <1> HIDE DEF why
  <1>3. orders[o] \in OrderType
    BY OrderTyped DEF LaunchInv
  <1>4. q \in OrderType /\ q.ixs = orders[o].ixs /\ q.phase = "failed"
    BY <1>2, <1>3 DEF OrderType, Phases
  <1>5. orders' = [orders EXCEPT ![o] = q]
    BY <1>1, <1>3, OrderTyped DEF LaunchInv, LaunchTypes, OrderType
  <1> HIDE DEF q
  <1>6. orders'[o] = q /\ created' = created /\ sol' = sol
    BY <1>1, <1>4, <1>5, OrderMoves DEF LaunchInv, vars
  <1>7. ~Settled(orders[o]) /\ Settled(q) /\ ~TradeEntry(q)
    BY <1>1, <1>4 DEF Settled, TradeEntry
  <1>8. LaunchFirst' /\ SettledStay
    BY <1>4, <1>5, <1>6, <1>7, FirstMoved DEF LaunchInv, TableInv
  <1>9. /\ LoggedOnce'
        /\ n \in Nat /\ Len(log') = n + 1
        /\ \A p \in 1..n : log'[p] = log[p] /\ Executed'[p] = Executed[p]
        /\ Executed'[n + 1] = q
    BY <1>1, <1>6, <1>7, <1>8, LogGrows DEF TableInv
  <1>10. ReplayNear(Executed', n + 1, sol)
    BY <1>7, <1>9, ReplaySkips DEF TableInv
  <1>11. \A p \in Ids : RowExact(p)'
    <2>1. DOMAIN log \subseteq DOMAIN log'
      BY <1>9 DEF TableInv, LoggedOnce
    <2>2. QED
      BY <1>1, <1>9, <2>1, RowsStay DEF TableInv
  <1>12. QED
    BY <1>6, <1>8, <1>9, <1>10, <1>11 DEF TableInv

\* What the curve does when a transaction lands.
LEMMA LandedReserves ==
    ASSUME LaunchInv, LaunchFirst, NEW o \in DOMAIN orders, orders[o].phase = "sent",
           CurveAccepts(orders[o]), TradeExecutes(orders[o])
    PROVE  /\ created' = created \/ Launches(orders[o])
           /\ sol \in Nat /\ sol' \in Nat
           /\ ~Buys(orders[o]) /\ ~Sells(orders[o]) => sol' = sol
           /\ Sells(orders[o]) =>
                 \E g \in Nat : /\ g <= sol /\ sol' = sol - g
                                /\ Proceeds(orders[o]) = g - FeeOn(g)
           /\ Buys(orders[o]) => /\ AmountOf(orders[o], "Buy") \in Nat \ {0}
                                 /\ sol' = sol + IntoCurve(AmountOf(orders[o], "Buy"))
  <1> DEFINE r == orders[o]
             a == AmountOf(r, "Buy")
  <1>1. Coherent(r)
    BY DEF LaunchInv, SeedsFirst
  <1>2. CurveInv' /\ (~Buys(r) /\ ~Sells(r) => sol' = 0)
    BY <1>1, TradeKeepsCurve DEF LaunchInv
  <1>3. sol \in Nat /\ sol' \in Nat
    BY <1>2 DEF LaunchInv, CurveInv, TypeOK
  <1>4. Launches(r) => sol = 0
    BY DEF LaunchFirst, LaunchInv, CurveInv
  <1>5. created' = created \/ Launches(r)
    BY DEF TradeExecutes, Buy, Sell
  <1>6. ~Buys(r) /\ ~Sells(r) => sol' = sol
    BY <1>2, <1>4 DEF TradeExecutes
  <1>7. ASSUME Sells(r)
        PROVE  \E g \in Nat : g <= sol /\ sol' = sol - g /\ Proceeds(r) = g - FeeOn(g)
    <2> DEFINE y == AmountOf(r, "Sell")
               g == GrossOut(sol, tokens, y)
    <2>1. ~Buys(r) /\ ~Launches(r) /\ The(r, "Sell").amount = y
      BY <1>1, <1>7 DEF Coherent, AmountOf, Sells
    <2>2. Sell(y, The(r, "Sell").least)
      BY <2>1 DEF TradeExecutes
    <2>3. sol' = sol - g /\ g \in 1..sol
      BY <2>2 DEF Sell, CanSell
    <2>4. Proceeds(r) = g - FeeOn(g)
      BY <1>7 DEF Proceeds, ToSeller
    <2> HIDE DEF g
    <2>5. g \in Nat /\ g <= sol
      BY <1>3, <2>3
    <2>6. QED
      BY <2>3, <2>4, <2>5
  <1>8. ASSUME Buys(r) PROVE a \in Nat \ {0} /\ sol' = sol + IntoCurve(a)
    <2>1. The(r, "Buy").amount = a /\ ~Sells(r)
      BY <1>1, <1>8 DEF AmountOf, Buys, Coherent
    <2>2. a \in Nat
      BY <1>1, <1>8, <2>1, TradeAmounts
    <2>3. IntoCurve(a) > 0
      BY <1>8, <2>1 DEF CurveAccepts, CanBuy
    <2>4. IntoCurve(0) = 0
      BY FeeBounds
    <2>5. CASE Launches(r)
      <3>1. LaunchExecutes(r)
        BY <2>1, <2>5 DEF TradeExecutes
      <3>2. sol' = IntoCurve(a)
        BY <3>1 DEF LaunchExecutes
      <3>3. IntoCurve(a) \in Nat
        BY <2>2, FeeBounds
      <3> HIDE DEF a
      <3>4. QED
        BY <1>4, <2>2, <2>3, <2>4, <2>5, <3>2, <3>3
    <2>6. CASE ~Launches(r)
      <3>1. Buy(a, The(r, "Buy").least)
        BY <2>1, <2>6 DEF TradeExecutes
      <3>2. sol' = sol + IntoCurve(a)
        BY <3>1 DEF Buy
      <3> HIDE DEF a
      <3>3. QED
        BY <2>2, <2>3, <2>4, <3>2
    <2>7. QED
      BY <2>5, <2>6
  <1>9. QED
    BY <1>3, <1>5, <1>6, <1>7, <1>8

\* A trade lands: the replay follows it.
LEMMA LandsTable ==
    ASSUME LaunchInv, TableInv, NEW o \in DOMAIN orders, Lands(o)
    PROVE  TableInv'
  <1> DEFINE r == orders[o]
             q == orders'[o]
             n == Len(log)
  <1>1. /\ r.phase = "sent" /\ Refusals(r) = {} /\ TradeExecutes(r)
        /\ orders' = [orders EXCEPT ![o] =
                          [r EXCEPT !.phase = "landed", !.proceeds = Proceeds(r),
                                    !.overhead = Overhead(r), !.delta = Delta(r), !.after = sol']]
        /\ log' = Append(log, o) /\ rows' = rows
    BY DEF Lands
  <1>2. r \in OrderType /\ CurveAccepts(r) /\ Coherent(r)
    BY <1>1, OrderTyped DEF LaunchInv, Refusals, SeedsFirst
  <1>3. q = [r EXCEPT !.phase = "landed", !.proceeds = Proceeds(r),
                      !.overhead = Overhead(r), !.delta = Delta(r), !.after = sol']
    BY <1>1 DEF LaunchInv, LaunchTypes
  <1>4. LaunchTypes' /\ orders' = [orders EXCEPT ![o] = q] /\ o \in DOMAIN orders'
    BY <1>1, <1>3, LandsStep DEF LaunchInv, LaunchTypes
  <1>5. q \in OrderType
    BY <1>4 DEF LaunchTypes
  <1>6. /\ q.ixs = r.ixs /\ q.phase = "landed" /\ q.proceeds = Proceeds(r)
        /\ q.overhead = Overhead(r) /\ q.delta = Delta(r) /\ q.after = sol'
    BY <1>2, <1>3 DEF OrderType
  <1>7. /\ created' = created \/ Launches(r)
        /\ sol \in Nat /\ sol' \in Nat
        /\ ~Buys(r) /\ ~Sells(r) => sol' = sol
        /\ Sells(r) => \E g \in Nat : /\ g <= sol /\ sol' = sol - g
                                      /\ Proceeds(r) = g - FeeOn(g)
        /\ Buys(r) => /\ AmountOf(r, "Buy") \in Nat \ {0}
                      /\ sol' = sol + IntoCurve(AmountOf(r, "Buy"))
    BY <1>1, <1>2, LandedReserves DEF TableInv
  <1> HIDE DEF r, q
  <1>8. (Buys(q) <=> Buys(r)) /\ (Sells(q) <=> Sells(r)) /\ (Launches(q) <=> Launches(r))
    BY <1>6, SameIxs
  <1>9. q.overhead \in Nat
    BY <1>2, <1>6, OverheadTyped
  <1>10. ~Settled(r) /\ Settled(q)
    BY <1>1, <1>6 DEF Settled
  <1>11. LaunchFirst' /\ SettledStay
    BY <1>4, <1>5, <1>6, <1>7, <1>8, <1>10, FirstMoved DEF LaunchInv, TableInv, r
  <1>12. /\ LoggedOnce'
         /\ n \in Nat /\ Len(log') = n + 1
         /\ \A p \in 1..n : log'[p] = log[p] /\ Executed'[p] = Executed[p]
         /\ Executed'[n + 1] = q
    BY <1>1, <1>9, <1>10, <1>11, LogGrows DEF TableInv, r, q
  <1>13. ReplayNear(Executed', n + 1, sol')
    <2>1. CASE ~Buys(r) /\ ~Sells(r)
      <3>1. ~TradeEntry(q) /\ sol' = sol
        BY <1>7, <1>8, <2>1 DEF TradeEntry
      <3>2. QED
        BY <1>12, <3>1, ReplaySkips DEF TableInv
    <2>2. CASE Buys(r) \/ Sells(r)
      <3>1. TradeEntry(q)
        BY <1>6, <1>8, <2>2 DEF TradeEntry
      <3>2. Drifts(q, sol, sol')
        <4>1. CASE Sells(r)
          <5>1. PICK g \in Nat : g <= sol /\ sol' = sol - g /\ Proceeds(r) = g - FeeOn(g)
            BY <1>7, <4>1
          <5>2. q.delta = Distance(q.proceeds, TxFee + q.overhead)
            BY <1>6, <4>1 DEF Delta
          <5>3. Sells(q) /\ q.proceeds = g - FeeOn(g)
            BY <1>6, <1>8, <4>1, <5>1
          <5>4. Drifts(q, sol, sol - g)
            BY <1>7, <1>9, <5>1, <5>2, <5>3, SellDrifts
          <5>5. QED
            BY <5>1, <5>4
        <4>2. CASE Buys(r) /\ ~Sells(r)
          <5>1. q.delta = AmountOf(r, "Buy") + Signers(q) * TxFee + q.overhead
            BY <1>6, <1>8, <4>2 DEF Delta, Signers
          <5>2. Drifts(q, sol, sol + IntoCurve(AmountOf(r, "Buy")))
            BY <1>7, <1>8, <1>9, <4>2, <5>1, BuyDrifts
          <5>3. QED
            BY <1>7, <4>2, <5>2
        <4>3. QED
          BY <2>2, <4>1, <4>2
      <3>3. \A p \in 1..(n + 1) : TradeEntry(Executed'[p]) => Executed'[p].overhead \in Nat
        BY <1>12 DEF LoggedOnce
      <3>4. sol \in Int /\ sol' \in Int
        BY <1>7
      <3>5. QED
        BY <1>6, <1>12, <3>1, <3>2, <3>3, <3>4, ReplayGrows DEF TableInv
    <2>3. QED
      BY <2>1, <2>2
  <1>14. \A p \in Ids : RowExact(p)'
    <2>1. DOMAIN log \subseteq DOMAIN log'
      BY <1>12 DEF TableInv, LoggedOnce
    <2>2. QED
      BY <1>1, <1>12, <2>1, RowsStay DEF TableInv
  <1>15. QED
    BY <1>11, <1>12, <1>13, <1>14 DEF TableInv

\* ReplayOf goes from one entry of the log to the next.
LEMMA ReplaySteps ==
    ASSUME LaunchInv, LoggedOnce, NEW read
    PROVE  /\ ReplayOf(read)[0] = 0
           /\ \A p \in 1..Len(log) : ReplayOf(read)[p] =
                 IF p \in read THEN ReplayedBy(ReplayOf(read)[p - 1], Executed[p])
                 ELSE ReplayOf(read)[p - 1]
  <1> DEFINE n == Len(log)
             next(p, v) == IF p \in read THEN ReplayedBy(v, Executed[p]) ELSE v
             step == [p \in 1..n |-> [v \in Int |-> next(p, v)]]
             Is(g) == g = [p \in 0..n |-> IF p = 0 THEN InitialReserves.sol
                                          ELSE IF p \in read THEN Replayed(g[p - 1], log[p])
                                          ELSE g[p - 1]]
  <1>1. n \in Nat /\ DOMAIN log = 1..n
    BY DEF LoggedOnce
  <1>2. \A p \in 1..n : Executed[p] = orders[log[p]] /\ orders[log[p]] \in OrderType
    BY <1>1, OrderTyped DEF Executed, LoggedOnce, LaunchInv
  <1>3. \A p \in 1..n, v \in Int : next(p, v) \in Int
    <2>1. SUFFICES ASSUME NEW p \in 1..n, NEW v \in Int PROVE ReplayedBy(v, Executed[p]) \in Int
      OBVIOUS
    <2> DEFINE d == Executed[p].delta
    <2>2. d \in Int /\ TxFee \in Int
      BY <1>2, Amounts DEF OrderType
    <2>3. SolInOf(d) \in Int
      BY <2>2 DEF SolInOf
    <2>4. \A a \in Int : IntoCurve(a) \in Int /\ GrossOf(a) \in Int
      BY <2>2, FeeAssumption DEF IntoCurve, FeeOn, GrossOf
    <2> HIDE DEF d
    <2>5. IntoCurve(SolInOf(d)) \in Int /\ GrossOf(d) \in Int
      BY <2>2, <2>3, <2>4
    <2>6. QED
      BY <2>5 DEF ReplayedBy, d
  <1> HIDE DEF n, next
  <1>4. step \in [1..n -> [Int -> Int]]
    BY <1>3
  <1>5. PICK f \in [0..n -> Int] : StepsFrom(f, n, 0, step)
    <2>1. 0 \in Int
      OBVIOUS
    <2> HIDE DEF step
    <2>2. QED
      BY <1>1, <1>4, <2>1, TableOfSteps
  <1>6. \A p \in 1..n : p - 1 \in 0..n
    BY <1>1
  <1>7. \A p \in 1..n : step[p][f[p - 1]] = next(p, f[p - 1])
    BY <1>5, <1>6
  <1>8. \A p \in 1..n : \A v : (IF p \in read THEN Replayed(v, log[p]) ELSE v) = next(p, v)
    BY <1>2 DEF next, Replayed, ReplayedBy
  <1>9. f = [p \in 0..n |-> IF p = 0 THEN 0 ELSE next(p, f[p - 1])]
    <2>1. \A p \in 0..n : p # 0 => p \in 1..n
      BY <1>1
    <2> HIDE DEF step
    <2>2. QED
      BY <1>5, <1>7, <2>1 DEF StepsFrom
  <1>10. Is(f)
    <2>1. \A p \in 0..n : p # 0 => p \in 1..n
      BY <1>1
    <2>2. InitialReserves.sol = 0
      BY DEF InitialReserves
    <2>3. \A p \in 0..n : f[p] = IF p = 0 THEN InitialReserves.sol
                                 ELSE IF p \in read THEN Replayed(f[p - 1], log[p])
                                 ELSE f[p - 1]
      <3>1. SUFFICES ASSUME NEW p \in 0..n
                     PROVE  f[p] = IF p = 0 THEN InitialReserves.sol
                                   ELSE IF p \in read THEN Replayed(f[p - 1], log[p])
                                   ELSE f[p - 1]
        OBVIOUS
      <3>2. f[p] = IF p = 0 THEN 0 ELSE next(p, f[p - 1])
        BY <1>9
      <3>3. CASE p = 0
        BY <2>2, <3>2, <3>3
      <3>4. CASE p # 0
        <4>1. p \in 1..n
          BY <2>1, <3>4
        <4>2. (IF p \in read THEN Replayed(f[p - 1], log[p]) ELSE f[p - 1]) = next(p, f[p - 1])
          BY <1>8, <4>1
        <4>3. QED
          BY <3>2, <3>4, <4>2
      <3>5. QED
        BY <3>3, <3>4
    <2>4. QED
      BY <1>5, <2>3
  <1>11. ReplayOf(read) = CHOOSE g : Is(g)
    BY DEF ReplayOf, n
  <1>12. Is(ReplayOf(read))
    <2> HIDE DEF Is
    <2>1. QED
      BY <1>10, <1>11
  <1> DEFINE g == ReplayOf(read)
  <1>13. g[0] = InitialReserves.sol
    <2>1. 0 \in 0..n
      BY <1>1
    <2> HIDE DEF g
    <2>2. QED
      BY <1>12, <2>1 DEF g
  <1>14. \A p \in 1..n : g[p] = IF p \in read THEN Replayed(g[p - 1], log[p]) ELSE g[p - 1]
    <2>1. \A p \in 1..n : p \in 0..n /\ p # 0
      BY <1>1
    <2>2. Is(g)
      BY <1>12
    <2> HIDE DEF g
    <2>3. QED
      BY <2>1, <2>2
  <1>15. \A p \in 1..n : g[p] = next(p, g[p - 1])
    BY <1>8, <1>14
  <1>16. QED
    BY <1>13, <1>15 DEF InitialReserves, n, next

\* Where no trade is missing, it is the replay of all.
LEMMA CompleteReplay ==
    ASSUME LaunchInv, LoggedOnce, NEW read, NEW f, Replays(f, Executed, Len(log)),
           NEW p \in DOMAIN log, \A q \in 1..p : q \in read <=> TradeEntry(Executed[q])
    PROVE  ReplayOf(read)[p] = f[p]
  <1> DEFINE A == {q \in 0..p : ReplayOf(read)[q] = f[q]}
  <1>1. Len(log) \in Nat /\ p \in 1..Len(log) /\ p \in Nat
    BY DEF LoggedOnce
  <1>2. 0 \in A
    BY <1>1, ReplaySteps DEF Replays
  <1>3. ASSUME NEW q \in 0..(p - 1), q \in A PROVE q + 1 \in A
    <2>1. q + 1 \in 1..p /\ q + 1 \in 1..Len(log) /\ (q + 1) - 1 = q /\ q + 1 \in 0..p
      BY <1>1
    <2>2. ReplayOf(read)[q] = f[q]
      BY <1>3
    <2>3. ReplayOf(read)[q + 1] = IF q + 1 \in read THEN ReplayedBy(ReplayOf(read)[q], Executed[q + 1])
                                  ELSE ReplayOf(read)[q]
      BY <2>1, ReplaySteps
    <2>4. f[q + 1] = IF TradeEntry(Executed[q + 1]) THEN ReplayedBy(f[q], Executed[q + 1]) ELSE f[q]
      BY <2>1 DEF Replays
    <2>5. QED
      BY <2>1, <2>2, <2>3, <2>4
  <1> HIDE DEF A
  <1>4. 0..p \subseteq A
    BY <1>1, <1>2, <1>3, CountUp
  <1>5. QED
    BY <1>1, <1>4 DEF A

\* Positions and trades, by the log.
LEMMA TradesAre ==
    ASSUME LoggedOnce
    PROVE  /\ Len(log) \in Nat /\ DOMAIN log = 1..Len(log)
           /\ \A p \in DOMAIN log : Position(log[p]) = p
           /\ \A p \in DOMAIN log : Executed[p] = orders[log[p]]
           /\ \A p \in DOMAIN log : IsTrade(log[p]) <=> TradeEntry(Executed[p])
           /\ \A p \in DOMAIN log : TradesUpTo(p) = TradesIn(Executed, p)
  <1>1. Len(log) \in Nat /\ DOMAIN log = 1..Len(log)
    BY DEF LoggedOnce
  <1>2. \A p \in DOMAIN log : Position(log[p]) = p
    BY DEF LoggedOnce, Position
  <1>3. \A p \in DOMAIN log : Executed[p] = orders[log[p]]
    BY DEF Executed
  <1>4. \A p \in DOMAIN log : IsTrade(log[p]) <=> TradeEntry(Executed[p])
    BY <1>3 DEF IsTrade, TradeEntry
  <1>5. ASSUME NEW p \in DOMAIN log PROVE TradesUpTo(p) = TradesIn(Executed, p)
    <2>1. \A q \in 1..p : q \in DOMAIN log
      BY <1>1
    <2>2. QED
      BY <1>4, <2>1 DEF TradesUpTo, TradesIn
  <1>6. QED
    BY <1>1, <1>2, <1>3, <1>4, <1>5

\* The cron job writes complete rows from a replay of all trades.
LEMMA IndexTable ==
    ASSUME LaunchInv, TableInv, NEW missing, NEW unwritten, IndexCurve(missing, unwritten)
    PROVE  TableInv'
  <1> DEFINE read == Read(missing)
             n == Len(log)
  <1>1. /\ UNCHANGED <<orders, log, vars>>
        /\ rows' = [o \in Ids |->
              IF o \notin unwritten /\ \E p \in read : log[p] = o
              THEN Upserted(rows[o], RowOf(read, Position(o)))
              ELSE rows[o]]
    BY DEF IndexCurve
  <1>2. created' = created /\ sol' = sol
    BY <1>1 DEF vars
  <1>3. LaunchFirst' /\ SettledStay /\ LoggedOnce
    BY <1>1, <1>2 DEF TableInv, LaunchFirst, SettledStay
  <1>4. LoggedOnce' /\ Executed' = Executed
    BY <1>1, <1>3, LogKept
  <1>5. PICK f : /\ Replays(f, Executed, n)
                 /\ \A p \in TradesIn(Executed, n) : NearIn(Executed, f[p], Executed[p].after, p)
    BY DEF TableInv, ReplayNear
  <1>6. ASSUME NEW o \in Ids, rows'[o] /= Nothing, rows'[o].complete
        PROVE  \E p \in DOMAIN log :
                  log[p] = o /\ NearIn(Executed, rows'[o].sol, Executed[p].after, p)
    <2>1. CASE rows'[o] = rows[o]
      BY <1>6, <2>1 DEF TableInv, RowExact
    <2>2. CASE rows'[o] /= rows[o]
      <3>1. PICK p \in read : log[p] = o
        BY <1>1, <2>2
      <3>2. rows'[o] = RowOf(read, Position(o))
        BY <1>1, <2>2 DEF Upserted
      <3>3. p \in DOMAIN log /\ IsTrade(log[p]) /\ read \subseteq DOMAIN log
            /\ \A q \in read : IsTrade(log[q])
        BY DEF Read, Signatures
      <3>4. Position(o) = p /\ p \in 1..n /\ n \in Nat
        BY <1>3, <3>1, <3>3, TradesAre
      <3> HIDE DEF read
      <3>5. rows'[o].sol = ReplayOf(read)[p] /\ TradesUpTo(p) \subseteq read
        <4> DEFINE row == [sol |-> ReplayOf(read)[p], complete |-> TradesUpTo(p) \subseteq read]
        <4>1. rows'[o] = row
          BY <3>2, <3>4 DEF RowOf
        <4>2. row.sol = ReplayOf(read)[p] /\ row.complete = (TradesUpTo(p) \subseteq read)
          OBVIOUS
        <4> HIDE DEF row
        <4>3. row.complete
          BY <1>6, <4>1
        <4>4. QED
          BY <4>1, <4>2, <4>3
      <3>6. \A q \in 1..p : q \in read <=> TradeEntry(Executed[q])
        <4>1. TradesIn(Executed, p) \subseteq read
          BY <1>3, <3>3, <3>5, TradesAre
        <4>2. \A q \in read : TradeEntry(Executed[q])
          BY <1>3, <3>3, TradesAre
        <4>3. QED
          BY <4>1, <4>2 DEF TradesIn
      <3>7. rows'[o].sol = f[p]
        BY <1>3, <1>5, <3>3, <3>5, <3>6, CompleteReplay
      <3>8. p \in TradesIn(Executed, n)
        BY <1>3, <3>3, <3>4, TradesAre DEF TradesIn
      <3>9. QED
        BY <1>5, <3>1, <3>3, <3>7, <3>8
    <2>3. QED
      BY <2>1, <2>2
  <1>7. \A o \in Ids : RowExact(o)'
    BY <1>1, <1>4, <1>6 DEF RowExact
  <1>8. ReplayNear(Executed, n, sol)
    BY DEF TableInv
  <1>9. QED
    BY <1>1, <1>2, <1>3, <1>4, <1>7, <1>8 DEF TableInv

\* One step for each action.
LEMMA TableStep == LaunchInv /\ TableInv /\ [LaunchNext]_launchVars => TableInv'
  <1> SUFFICES ASSUME LaunchInv, TableInv, [LaunchNext]_launchVars PROVE TableInv'
    OBVIOUS
  <1>1. CASE UNCHANGED launchVars
    BY <1>1, StillTable DEF launchVars, vars
  <1>2. CASE UserActs
    <2>1. ASSUME NEW seedBuy \in SolInputs, NEW big \in BOOLEAN, NEW table \in Tables,
                 SendLaunch(seedBuy, big, table)
          PROVE  TableInv'
      BY <2>1, SendLaunchTable
    <2>2. ASSUME NEW t \in Panels, CurveShown(t) \/ \E u \in Users : ChangeWallet(t, u)
          PROVE  TableInv'
      <3>1. UNCHANGED <<created, orders, log, rows, sol>>
        BY <2>2 DEF CurveShown, ChangeWallet, vars
      <3>2. QED
        BY <3>1, StillTable
    <2>3. ASSUME NEW t \in Panels, NEW slip \in Slips, NEW confidential \in BOOLEAN,
                 NEW probeFails \in BOOLEAN, NEW solIn \in SolInputs, NEW hasKeys \in BOOLEAN,
                 BuildBuy(t, solIn, slip, confidential, probeFails, hasKeys)
          PROVE  TableInv'
      BY <2>3, BuildBuyTable
    <2>4. ASSUME NEW t \in Panels, NEW slip \in Slips, NEW confidential \in BOOLEAN,
                 NEW probeFails \in BOOLEAN, NEW tokensIn \in TokenInputs,
                 BuildSell(t, tokensIn, slip, confidential, probeFails)
          PROVE  TableInv'
      BY <2>4, BuildSellTable
    <2>5. ASSUME NEW o \in DOMAIN orders,
                 OrderDeclined(o) \/ \E table \in Tables : SendOrder(o, table)
          PROVE  TableInv'
      BY <2>5, PhaseTable
    <2>6. ASSUME NEW u \in Users, ConfiguredBySidePanel(u)
          PROVE  TableInv'
      <3>1. UNCHANGED <<created, orders, log, rows, sol>>
        BY <2>6 DEF ConfiguredBySidePanel, vars
      <3>2. QED
        BY <3>1, StillTable
    <2>7. QED
      BY <1>2, <2>1, <2>2, <2>3, <2>4, <2>5, <2>6 DEF UserActs
  <1>3. ASSUME NEW o \in DOMAIN orders, Lands(o) \/ Reverts(o) \/ Expires(o)
        PROVE  TableInv'
    BY <1>3, LandsTable, RevertsTable, PhaseTable
  <1>4. ASSUME NEW missing, NEW unwritten, IndexCurve(missing, unwritten)
        PROVE  TableInv'
    BY <1>4, IndexTable
  <1>5. CASE TreasuryDrained
    <2>1. UNCHANGED <<created, orders, log, rows, sol>>
      BY <1>5 DEF TreasuryDrained, vars
    <2>2. QED
      BY <2>1, StillTable
  <1>6. QED
    BY <1>1, <1>2, <1>3, <1>4, <1>5 DEF LaunchNext

\* An empty log, an empty table.
LEMMA TableInit == LaunchInit => TableInv
  <1> SUFFICES ASSUME LaunchInit PROVE TableInv
    OBVIOUS
  <1>1. /\ orders = <<>> /\ log = <<>> /\ ~created /\ sol = 0
        /\ \A o \in Ids : rows[o] = Nothing
    BY DEF LaunchInit, Init
  <1>2. LaunchFirst
    BY <1>1 DEF LaunchFirst
  <1>3. LoggedOnce
    BY <1>1 DEF LoggedOnce
  <1>4. ReplayNear(Executed, Len(log), sol)
    <2> DEFINE f == [p \in 0..0 |-> 0]
    <2>1. Len(log) = 0
      BY <1>1
    <2>2. Replays(f, Executed, 0)
      BY DEF Replays
    <2>3. TradesIn(Executed, 0) = {} /\ SellsIn(Executed, 0) = {}
      BY DEF TradesIn, SellsIn
    <2>4. NearIn(Executed, 0, 0, 0)
      BY <2>3, SumEmpty, FS_EmptySet DEF NearIn
    <2>5. f[0] = 0
      OBVIOUS
    <2> HIDE DEF f
    <2>6. QED
      BY <1>1, <2>1, <2>2, <2>3, <2>4, <2>5 DEF ReplayNear
  <1>5. \A o \in Ids : RowExact(o)
    BY <1>1 DEF RowExact
  <1>6. QED
    BY <1>2, <1>3, <1>4, <1>5 DEF TableInv

\* What the invariant says of the rows is what the property says.
LEMMA TableFollows == TableInv => RowsNearlyExact
  <1> SUFFICES ASSUME TableInv, NEW o \in Ids, rows[o] /= Nothing, rows[o].complete
               PROVE  NearlyExact(rows[o].sol, orders[o].after, Position(o))
    BY DEF RowsNearlyExact
  <1>1. PICK p \in DOMAIN log : log[p] = o /\ NearIn(Executed, rows[o].sol, Executed[p].after, p)
    BY DEF TableInv, RowExact
  <1>2. /\ LoggedOnce
        /\ Len(log) \in Nat /\ DOMAIN log = 1..Len(log)
        /\ Position(o) = p /\ Executed[p] = orders[o]
        /\ TradesUpTo(p) = TradesIn(Executed, p)
        /\ \A q \in DOMAIN log : Executed[q] = orders[log[q]]
    BY <1>1, TradesAre DEF TableInv
  <1> DEFINE before == TradesIn(Executed, p)
             sells == {q \in before : Sells(orders[log[q]])}
             excesses == [q \in before |-> Excess(orders[log[q]])]
  <1>3. \A q \in before : orders[log[q]] = Executed[q]
    <2>1. \A q \in before : q \in DOMAIN log
      BY <1>1, <1>2 DEF TradesIn
    <2>2. QED
      BY <1>2, <2>1
  <1>4. sells = SellsIn(Executed, p) /\ excesses = ExcessesIn(Executed, p)
    BY <1>3 DEF SellsIn, ExcessesIn
  <1>5. ASSUME \A q \in before : Recoverable(orders[log[q]])
        PROVE  rows[o].sol - orders[o].after
                 \in -Cardinality(sells)..SumFunctionOnSet(excesses, before)
    <2>1. \A q \in before : Recoverable(Executed[q])
      BY <1>3, <1>5
    <2> HIDE DEF sells, excesses
    <2>2. QED
      BY <1>1, <1>2, <1>4, <2>1 DEF NearIn
  <1>6. QED
    BY <1>2, <1>5 DEF NearlyExact

\* However trades and transactions that fail follow each other, and whatever
\* the cron job loses: a row written when no trade before it was missing shows
\* reserves low by at most a lamport for each sell, and high by at most what
\* the traders paid besides.
THEOREM RowsAreNearlyExact == LaunchSpec => []RowsNearlyExact
  BY TableInit, TableStep, TableFollows, LaunchInvariant, PTL DEF LaunchSpec
=============================================================================
