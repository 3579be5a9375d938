------------------------- MODULE ConfidentialProofs -------------------------
(***************************************************************************)
(* Proofs about the confidential balance for any number of clicks and      *)
(* sends, any amounts and any course of the transactions.                  *)
(*                                                                         *)
(* The page believes a balance that it keeps beside the encrypted one.     *)
(* The invariant has each operation's transactions in the order in which   *)
(* they may execute (Fits), one button and one send at a time under way,   *)
(* no ciphertext read that is newer than the account's, and, while nothing *)
(* of what Trouble lists has happened, the two balances apart by what the  *)
(* one operation in between moves.                                         *)
(***************************************************************************)
EXTENDS Confidential, SharedLemmas, TLAPS

-----------------------------------------------------------------------------
(* What the encrypted transaction of an operation does to the account.     *)

Accts == [configured : BOOLEAN, public : Int, pending : Int, avail : Int, ver : Nat]

IxNames == {"Reallocate", "ConfigureAccount", "Deposit", "ApplyPendingBalance", "Withdraw",
            "Transfer", "Verify", "CloseContextState", "SetAuthority", "Memo"}
IxPlaces == {"own", "pubkey validity", "equality", "validity", "range", "transit"}
Instructions == [name : IxNames, on : IxPlaces, amount : Nat]

\* Instructions that leave the account alone.
Inert == IxNames \ {"ConfigureAccount", "Deposit", "ApplyPendingBalance", "Withdraw", "Transfer"}

\* a is an account that holds these.
Holds(a, avail, pending, ver) ==
    a \in Accts /\ a.avail = avail /\ a.pending = pending /\ a.ver = ver

\* What each instruction does to what is encrypted.
LEMMA Effects ==
    ASSUME NEW ix \in Instructions, NEW a \in Accts
    PROVE  /\ ix.name = "ConfigureAccount" => Holds(Effect(ix, a), a.avail, a.pending, a.ver)
           /\ ix.name = "Deposit" =>
                Holds(Effect(ix, a), a.avail, a.pending + ix.amount, a.ver)
           /\ ix.name = "ApplyPendingBalance" =>
                Holds(Effect(ix, a), a.avail + a.pending, 0, a.ver + 1)
           /\ ix.name \in {"Withdraw", "Transfer"} =>
                Holds(Effect(ix, a), a.avail - ix.amount, a.pending, a.ver + 1)
           /\ ix.name \in Inert => Effect(ix, a) = a
           /\ Effect(ix, a) \in Accts
  <1>1. ix.name \in IxNames /\ ix.amount \in Int
    BY DEF Instructions
  <1>2. CASE ix.name = "ConfigureAccount"
    BY <1>2 DEF Effect, Accts, Holds, Inert
  <1>3. CASE ix.name = "Deposit"
    <2> DEFINE b == [a EXCEPT !.public = a.public - ix.amount]
               c == [b EXCEPT !.pending = a.pending + ix.amount]
    <2>1. b \in Accts /\ b.avail = a.avail /\ b.ver = a.ver
      BY <1>1 DEF Accts
    <2>2. Holds(c, a.avail, a.pending + ix.amount, a.ver)
      <3> HIDE DEF b
      <3>1. QED
        BY <1>1, <2>1 DEF Accts, Holds
    <2>3. Effect(ix, a) = c
      BY <1>3 DEF Effect
    <2>4. QED
      BY <1>3, <2>2, <2>3 DEF Holds, Inert
  <1>4. CASE ix.name = "ApplyPendingBalance"
    <2> DEFINE b == [a EXCEPT !.avail = a.avail + a.pending]
               c == [b EXCEPT !.pending = 0]
               d == [c EXCEPT !.ver = a.ver + 1]
    <2>1. b \in Accts /\ b.avail = a.avail + a.pending /\ b.ver = a.ver
      BY DEF Accts
    <2>2. c \in Accts /\ c.avail = a.avail + a.pending /\ c.ver = a.ver /\ c.pending = 0
      <3> HIDE DEF b
      <3>1. QED
        BY <2>1 DEF Accts
    <2>3. Holds(d, a.avail + a.pending, 0, a.ver + 1)
      <3> HIDE DEF c
      <3>1. QED
        BY <2>2 DEF Accts, Holds
    <2>4. Effect(ix, a) = d
      BY <1>4 DEF Effect
    <2>5. QED
      BY <1>4, <2>3, <2>4 DEF Holds, Inert
  <1>5. ASSUME NEW w \in Accts, w.avail = a.avail, w.pending = a.pending, w.ver = a.ver
        PROVE  Holds([w EXCEPT !.avail = w.avail - ix.amount, !.ver = w.ver + 1],
                     a.avail - ix.amount, a.pending, a.ver + 1)
    <2> DEFINE b == [w EXCEPT !.avail = w.avail - ix.amount]
               c == [b EXCEPT !.ver = w.ver + 1]
    <2>1. b \in Accts /\ b.avail = a.avail - ix.amount /\ b.pending = a.pending
      BY <1>1, <1>5 DEF Accts
    <2>2. Holds(c, a.avail - ix.amount, a.pending, a.ver + 1)
      <3> HIDE DEF b
      <3>1. QED
        BY <1>5, <2>1 DEF Accts, Holds
    <2>3. QED
      BY <2>2
  <1>6. CASE ix.name = "Withdraw"
    <2> DEFINE w == [a EXCEPT !.public = a.public + ix.amount]
    <2>1. /\ w \in Accts /\ w.avail = a.avail /\ w.pending = a.pending /\ w.ver = a.ver
      BY <1>1 DEF Accts
    <2>2. Effect(ix, a) = [w EXCEPT !.avail = w.avail - ix.amount, !.ver = w.ver + 1]
      BY <1>6, <2>1 DEF Effect
    <2> HIDE DEF w
    <2>3. Holds(Effect(ix, a), a.avail - ix.amount, a.pending, a.ver + 1)
      BY <1>5, <2>1, <2>2
    <2>4. QED
      BY <1>6, <2>3 DEF Holds, Inert
  <1>9. CASE ix.name = "Transfer"
    <2>1. Effect(ix, a) = [a EXCEPT !.avail = a.avail - ix.amount, !.ver = a.ver + 1]
      BY <1>9 DEF Effect
    <2>2. Holds(Effect(ix, a), a.avail - ix.amount, a.pending, a.ver + 1)
      BY <1>5, <2>1
    <2>3. QED
      BY <1>9, <2>2 DEF Holds, Inert
  <1>7. CASE ix.name \in Inert
    BY <1>7 DEF Effect, Inert, IxNames
  <1>8. QED
    BY <1>1, <1>2, <1>3, <1>4, <1>6, <1>9, <1>7 DEF Inert

\* after is the account after each of the instructions ixs.
Runs(after, ixs) ==
    after = [n \in 0..Len(ixs) |-> IF n = 0 THEN acct ELSE Effect(ixs[n], after[n - 1])]

\* Some function runs through the instructions, so the choice in Executed is one.
LEMMA RunExists ==
    ASSUME acct \in Accts, NEW ixs \in Seq(Instructions)
    PROVE  \E after : Runs(after, ixs)
  <1> DEFINE N == Len(ixs)
             next(n, a) == Effect(ixs[n], a)
             step == [n \in 1..N |-> [a \in Accts |-> next(n, a)]]
  <1>1. N \in Nat
    OBVIOUS
  <1>2. \A n \in 1..N, a \in Accts : next(n, a) \in Accts
    <2>1. \A n \in 1..N : ixs[n] \in Instructions
      OBVIOUS
    <2>2. QED
      BY <2>1, Effects
  <1> HIDE DEF N, next
  <1>3. step \in [1..N -> [Accts -> Accts]]
    BY <1>2
  <1>4. PICK f \in [0..N -> Accts] : StepsFrom(f, N, acct, step)
    <2> HIDE DEF step
    <2>1. QED
      BY <1>1, <1>3, TableOfSteps
  <1>5. \A n \in 1..N : n - 1 \in 0..N
    BY <1>1
  <1>6. \A n \in 1..N : step[n][f[n - 1]] = next(n, f[n - 1])
    BY <1>4, <1>5
  <1>7. f = [n \in 0..N |-> IF n = 0 THEN acct ELSE next(n, f[n - 1])]
    <2>1. \A n \in 0..N : n # 0 => n \in 1..N
      BY <1>1
    <2> HIDE DEF step
    <2>2. QED
      BY <1>4, <1>6, <2>1 DEF StepsFrom
  <1>8. QED
    BY <1>4, <1>7 DEF N, next, Runs

\* The account after n instructions.
After(ixs, n) == (CHOOSE after : Runs(after, ixs))[n]

\* Executed applies the instructions to the account one after the other.
LEMMA ExecutedRuns ==
    ASSUME acct \in Accts, NEW o, IxsOf(o) \in Seq(Instructions)
    PROVE  /\ Executed(o) = After(IxsOf(o), Len(IxsOf(o)))
           /\ After(IxsOf(o), 0) = acct
           /\ \A n \in 1..Len(IxsOf(o)) : After(IxsOf(o), n) = Effect(IxsOf(o)[n], After(IxsOf(o), n - 1))
  <1> DEFINE ixs == IxsOf(o)
             f == CHOOSE after : Runs(after, ixs)
  <1>1. Executed(o) = f[Len(ixs)]
    BY DEF Executed, Runs
  <1>2. Runs(f, ixs)
    <2> HIDE DEF ixs
    <2>1. \E after : Runs(after, ixs)
      BY RunExists DEF ixs
    <2>2. QED
      BY <2>1
  <1>3. Len(ixs) \in Nat
    OBVIOUS
  <1> HIDE DEF f, ixs
  <1>4. f[0] = acct
    BY <1>2, <1>3 DEF Runs
  <1>5. ASSUME NEW n \in 1..Len(ixs) PROVE f[n] = Effect(ixs[n], f[n - 1])
    <2>1. n \in 0..Len(ixs) /\ n # 0
      BY <1>3
    <2>2. f[n] = IF n = 0 THEN acct ELSE Effect(ixs[n], f[n - 1])
      BY <1>2, <2>1, Zenon DEF Runs
    <2>3. QED
      BY <2>1, <2>2
  <1>6. QED
    BY <1>1, <1>4, <1>5 DEF f, ixs, After

\* ix is an instruction of that name and amount.
Stands(ix, name, n) == ix \in Instructions /\ ix.name = name /\ ix.amount = n

\* What an instruction is made of is what it says.
LEMMA Named ==
    ASSUME NEW name \in IxNames, NEW on \in IxPlaces, NEW n \in Nat
    PROVE  Stands(Ix(name, on, n), name, n)
  BY DEF Ix, Instructions, Stands

\* The instructions the page builds, by name and amount.
LEMMA NamedIxs ==
    ASSUME NEW n \in Nat
    PROVE  /\ Stands(ReallocateIx, "Reallocate", 0)
           /\ Stands(ConfigureIx, "ConfigureAccount", 0)
           /\ Stands(DepositIx(n), "Deposit", n)
           /\ Stands(ApplyIx, "ApplyPendingBalance", 0)
           /\ Stands(WithdrawIx(n), "Withdraw", n)
           /\ Stands(TransferIx(n), "Transfer", n)
           /\ Stands(SetAuthorityIx, "SetAuthority", 0)
           /\ Stands(MemoIx, "Memo", 0)
           /\ \A on \in IxPlaces : Stands(VerifyIx(on), "Verify", 0)
           /\ \A on \in IxPlaces : Stands(CloseIx(on), "CloseContextState", 0)
  <1>1. Stands(ReallocateIx, "Reallocate", 0)
    BY Named DEF ReallocateIx, IxNames, IxPlaces
  <1>2. Stands(ConfigureIx, "ConfigureAccount", 0)
    BY Named DEF ConfigureIx, IxNames, IxPlaces
  <1>3. Stands(DepositIx(n), "Deposit", n)
    BY Named DEF DepositIx, IxNames, IxPlaces
  <1>4. Stands(ApplyIx, "ApplyPendingBalance", 0)
    BY Named DEF ApplyIx, IxNames, IxPlaces
  <1>5. Stands(WithdrawIx(n), "Withdraw", n)
    BY Named DEF WithdrawIx, IxNames, IxPlaces
  <1>6. Stands(TransferIx(n), "Transfer", n)
    BY Named DEF TransferIx, IxNames, IxPlaces
  <1>7. Stands(SetAuthorityIx, "SetAuthority", 0)
    BY Named DEF SetAuthorityIx, IxNames, IxPlaces
  <1>8. Stands(MemoIx, "Memo", 0)
    BY Named DEF MemoIx, IxNames, IxPlaces
  <1>9. \A on \in IxPlaces : Stands(VerifyIx(on), "Verify", 0)
    BY Named DEF VerifyIx, IxNames
  <1>10. \A on \in IxPlaces : Stands(CloseIx(on), "CloseContextState", 0)
    BY Named DEF CloseIx, IxNames
  <1>11. QED
    BY <1>1, <1>2, <1>3, <1>4, <1>5, <1>6, <1>7, <1>8, <1>9, <1>10

\* The account after the first of the instructions.
LEMMA FirstSteps ==
    ASSUME acct \in Accts, NEW o, NEW ixs, IxsOf(o) = ixs, ixs \in Seq(Instructions)
    PROVE  /\ Executed(o) = After(ixs, Len(ixs))
           /\ Len(ixs) >= 1 => After(ixs, 1) = Effect(ixs[1], acct)
           /\ Len(ixs) >= 2 => After(ixs, 2) = Effect(ixs[2], After(ixs, 1))
           /\ Len(ixs) >= 3 => After(ixs, 3) = Effect(ixs[3], After(ixs, 2))
  <1>1. /\ Executed(o) = After(ixs, Len(ixs)) /\ After(ixs, 0) = acct
        /\ \A n \in 1..Len(ixs) : After(ixs, n) = Effect(ixs[n], After(ixs, n - 1))
    BY ExecutedRuns
  <1>2. Len(ixs) \in Nat /\ 1 - 1 = 0 /\ 2 - 1 = 1 /\ 3 - 1 = 2
    OBVIOUS
  <1>3. Len(ixs) >= 1 => 1 \in 1..Len(ixs)
    BY <1>2
  <1>4. Len(ixs) >= 2 => 2 \in 1..Len(ixs)
    BY <1>2
  <1>5. Len(ixs) >= 3 => 3 \in 1..Len(ixs)
    BY <1>2
  <1>6. Len(ixs) >= 1 => After(ixs, 1) = Effect(ixs[1], After(ixs, 1 - 1))
    BY <1>1, <1>3
  <1>7. Len(ixs) >= 2 => After(ixs, 2) = Effect(ixs[2], After(ixs, 2 - 1))
    BY <1>1, <1>4
  <1>8. Len(ixs) >= 3 => After(ixs, 3) = Effect(ixs[3], After(ixs, 3 - 1))
    BY <1>1, <1>5
  <1>9. QED
    BY <1>1, <1>2, <1>6, <1>7, <1>8

\* Configuring touches nothing that is encrypted.
LEMMA ConfigureExecuted ==
    ASSUME acct \in Accts, NEW o, op[o].kind = "configure", op[o].path = "none"
    PROVE  Holds(Executed(o), acct.avail, acct.pending, acct.ver)
  <1> DEFINE ixs == ConfigureIxs
             a == Effect(ConfigureIx, acct)
             v == VerifyIx("pubkey validity")
  <1>1. IxsOf(o) = ixs
    BY DEF IxsOf
  <1>2. /\ ReallocateIx \in Instructions /\ ReallocateIx.name = "Reallocate"
        /\ ConfigureIx \in Instructions /\ ConfigureIx.name = "ConfigureAccount"
        /\ v \in Instructions /\ v.name = "Verify"
    BY NamedIxs DEF IxPlaces, Stands
  <1>3. ixs = <<ReallocateIx, ConfigureIx, v>>
    BY DEF ConfigureIxs
  <1> HIDE DEF v, ixs
  <1>4. /\ ixs \in Seq(Instructions) /\ Len(ixs) = 3
        /\ ixs[1] = ReallocateIx /\ ixs[2] = ConfigureIx /\ ixs[3] = v
    BY <1>2, <1>3
  <1>5. /\ Executed(o) = After(ixs, 3) /\ After(ixs, 1) = Effect(ReallocateIx, acct)
        /\ After(ixs, 2) = Effect(ConfigureIx, After(ixs, 1))
        /\ After(ixs, 3) = Effect(v, After(ixs, 2))
    <2>1. Len(ixs) >= 1 /\ Len(ixs) >= 2 /\ Len(ixs) >= 3
      BY <1>4
    <2>2. QED
      BY <1>1, <1>4, <2>1, FirstSteps, Zenon
  <1>6. After(ixs, 1) = acct
    BY <1>2, <1>5, Effects DEF Inert, IxNames
  <1>7. After(ixs, 2) = a
    BY <1>5, <1>6
  <1>8. Holds(a, acct.avail, acct.pending, acct.ver)
    BY <1>2, Effects
  <1> HIDE DEF a
  <1>9. Effect(v, a) = a
    BY <1>2, <1>8, Effects DEF Holds, Inert, IxNames
  <1>10. QED
    BY <1>5, <1>7, <1>8, <1>9

\* A deposit also takes what was pending before it.
LEMMA DepositExecuted ==
    ASSUME acct \in Accts, NEW o, op[o].kind = "deposit", op[o].path = "none",
           op[o].amount \in Nat
    PROVE  Holds(Executed(o), acct.avail + acct.pending + op[o].amount, 0, acct.ver + 1)
  <1> DEFINE n == op[o].amount
             ixs == DepositAndApplyIxs(n)
             a == Effect(DepositIx(n), acct)
  <1>1. IxsOf(o) = ixs
    BY DEF IxsOf
  <1>2. /\ DepositIx(n) \in Instructions /\ DepositIx(n).name = "Deposit"
          /\ DepositIx(n).amount = n
        /\ ApplyIx \in Instructions /\ ApplyIx.name = "ApplyPendingBalance"
    BY NamedIxs DEF Stands
  <1>3. /\ ixs \in Seq(Instructions) /\ Len(ixs) = 2
        /\ ixs[1] = DepositIx(n) /\ ixs[2] = ApplyIx
    BY <1>2 DEF DepositAndApplyIxs
  <1> HIDE DEF ixs
  <1>4. /\ Executed(o) = After(ixs, 2) /\ After(ixs, 1) = a
        /\ After(ixs, 2) = Effect(ApplyIx, After(ixs, 1))
    BY <1>1, <1>3, FirstSteps, SMTT(60)
  <1> HIDE DEF n
  <1>5. Holds(a, acct.avail, acct.pending + n, acct.ver)
    BY <1>2, Effects
  <1> HIDE DEF a
  <1>6. Holds(Effect(ApplyIx, a), a.avail + a.pending, 0, a.ver + 1)
    BY <1>2, <1>5, Effects DEF Holds
  <1>7. a.avail + a.pending = acct.avail + acct.pending + n /\ a.ver = acct.ver
    BY <1>5 DEF Holds, Accts, n
  <1>8. QED
    BY <1>4, <1>6, <1>7 DEF n

\* A withdrawal takes its amount and makes a new ciphertext.
LEMMA WithdrawExecuted ==
    ASSUME acct \in Accts, NEW o, op[o].kind = "withdraw", op[o].path = "none",
           op[o].amount \in Nat
    PROVE  Holds(Executed(o), acct.avail - op[o].amount, acct.pending, acct.ver + 1)
  <1> DEFINE n == op[o].amount
             ixs == WithdrawIxs(n)
             a == Effect(WithdrawIx(n), acct)
             v == VerifyIx("equality")
             w == VerifyIx("range")
  <1>1. IxsOf(o) = ixs
    BY DEF IxsOf
  <1>2. /\ WithdrawIx(n) \in Instructions /\ WithdrawIx(n).name = "Withdraw"
          /\ WithdrawIx(n).amount = n
        /\ v \in Instructions /\ v.name = "Verify" /\ w \in Instructions /\ w.name = "Verify"
    BY NamedIxs DEF IxPlaces, Stands
  <1>3. ixs = <<WithdrawIx(n), v, w>>
    BY DEF WithdrawIxs
  <1> HIDE DEF ixs, v, w
  <1>4. /\ ixs \in Seq(Instructions) /\ Len(ixs) = 3
        /\ ixs[1] = WithdrawIx(n) /\ ixs[2] = v /\ ixs[3] = w
    BY <1>2, <1>3
  <1>5. /\ Executed(o) = After(ixs, 3) /\ After(ixs, 1) = a
        /\ After(ixs, 2) = Effect(v, After(ixs, 1)) /\ After(ixs, 3) = Effect(w, After(ixs, 2))
    <2>1. Len(ixs) >= 1 /\ Len(ixs) >= 2 /\ Len(ixs) >= 3
      BY <1>4
    <2>2. QED
      BY <1>1, <1>4, <2>1, FirstSteps, Zenon
  <1>6. Holds(a, acct.avail - n, acct.pending, acct.ver + 1)
    BY <1>2, Effects
  <1> HIDE DEF a
  <1>7. Effect(v, a) = a /\ Effect(w, a) = a
    BY <1>2, <1>6, Effects DEF Holds, Inert, IxNames
  <1>8. QED
    BY <1>5, <1>6, <1>7

\* A transaction whose first instruction is the transfer and whose others do
\* nothing to the account.
LEMMA TransferFirst ==
    ASSUME acct \in Accts, NEW o, NEW n \in Nat,
           IxsOf(o) \in Seq(Instructions), Len(IxsOf(o)) \in {4, 6},
           IxsOf(o)[1] = TransferIx(n),
           \A i \in 2..Len(IxsOf(o)) : IxsOf(o)[i].name \in Inert
    PROVE  Holds(Executed(o), acct.avail - n, acct.pending, acct.ver + 1)
  <1> DEFINE ixs == IxsOf(o)
             a == Effect(TransferIx(n), acct)
  <1>1. TransferIx(n) \in Instructions /\ TransferIx(n).name = "Transfer"
        /\ TransferIx(n).amount = n
    BY NamedIxs DEF Stands
  <1>2. /\ Executed(o) = After(ixs, Len(ixs)) /\ After(ixs, 0) = acct
        /\ \A i \in 1..Len(ixs) : After(ixs, i) = Effect(ixs[i], After(ixs, i - 1))
    BY ExecutedRuns
  <1>3. \A i \in 1..Len(ixs) : ixs[i] \in Instructions
    OBVIOUS
  <1>4. Len(ixs) \in {4, 6} /\ ixs[1] = TransferIx(n)
        /\ \A i \in 2..Len(ixs) : ixs[i].name \in Inert
    OBVIOUS
  <1> HIDE DEF ixs
  <1>5. After(ixs, 1) = a
    BY <1>4, FirstSteps DEF ixs
  <1>6. Holds(a, acct.avail - n, acct.pending, acct.ver + 1)
    BY <1>1, Effects
  <1> HIDE DEF a
  <1>7. ASSUME NEW i \in 2..Len(ixs), After(ixs, i - 1) = a
        PROVE  After(ixs, i) = a
    <2>1. i \in 1..Len(ixs)
      BY <1>4
    <2>2. After(ixs, i) = Effect(ixs[i], a)
      BY <1>2, <1>7, <2>1
    <2>3. ixs[i] \in Instructions /\ ixs[i].name \in Inert
      BY <1>3, <1>4, <2>1
    <2>4. QED
      BY <1>6, <2>2, <2>3, Effects DEF Holds
  <1>11. Len(ixs) \in Nat /\ Len(ixs) >= 4
    <2>1. CASE Len(ixs) = 4
      BY <2>1
    <2>2. CASE Len(ixs) = 6
      BY <2>2
    <2>3. QED
      BY <1>4, <2>1, <2>2
  <1>8. After(ixs, 4) = a
    <2>1. 2 \in 2..Len(ixs) /\ 2 - 1 = 1
      BY <1>11
    <2>2. 3 \in 2..Len(ixs) /\ 3 - 1 = 2
      BY <1>11
    <2>3. 4 \in 2..Len(ixs) /\ 4 - 1 = 3
      BY <1>11
    <2>4. After(ixs, 2) = a
      BY <1>5, <1>7, <2>1
    <2>5. After(ixs, 3) = a
      BY <1>7, <2>2, <2>4
    <2>6. QED
      BY <1>7, <2>3, <2>5
  <1>9. After(ixs, Len(ixs)) = a
    <2>1. CASE Len(ixs) = 4
      BY <1>8, <2>1
    <2>2. CASE Len(ixs) = 6
      <3>1. 5 \in 2..Len(ixs) /\ 5 - 1 = 4
        BY <2>2
      <3>2. 6 \in 2..Len(ixs) /\ 6 - 1 = 5
        BY <2>2
      <3>3. After(ixs, 5) = a
        BY <1>7, <1>8, <3>1
      <3>4. QED
        BY <1>7, <2>2, <3>2, <3>3
    <2>3. QED
      BY <1>4, <2>1, <2>2
  <1>10. QED
    BY <1>2, <1>6, <1>9

\* Four instructions, and four with two more after them.
LEMMA FourAndTwo ==
    ASSUME NEW p \in Instructions, NEW q \in Instructions, NEW r \in Instructions,
           NEW s \in Instructions, NEW t \in Instructions, NEW u \in Instructions,
           NEW four, four = <<p, q, r, s>>, NEW six, six = four \o <<t, u>>
    PROVE  /\ four \in Seq(Instructions) /\ Len(four) = 4
           /\ four[1] = p /\ four[2] = q /\ four[3] = r /\ four[4] = s
           /\ six \in Seq(Instructions) /\ Len(six) = 6
           /\ six[1] = p /\ six[2] = q /\ six[3] = r /\ six[4] = s /\ six[5] = t /\ six[6] = u
  <1>1. /\ four \in Seq(Instructions) /\ Len(four) = 4
        /\ four[1] = p /\ four[2] = q /\ four[3] = r /\ four[4] = s
    OBVIOUS
  <1> DEFINE two == <<t, u>>
  <1>2. two \in Seq(Instructions) /\ Len(two) = 2 /\ two[1] = t /\ two[2] = u
    OBVIOUS
  <1>3. six = four \o two
    OBVIOUS
  <1> HIDE DEF two
  <1>4. six \in Seq(Instructions) /\ Len(six) = 4 + 2
    BY <1>1, <1>2, <1>3
  <1>5. \A i \in 1..6 : six[i] = IF i <= 4 THEN four[i] ELSE two[i - 4]
    BY <1>1, <1>2, <1>3
  <1>6. six[1] = four[1] /\ six[2] = four[2] /\ six[3] = four[3] /\ six[4] = four[4]
    BY <1>5
  <1>7. six[5] = two[1] /\ six[6] = two[2]
    <2>1. 5 - 4 = 1 /\ 6 - 4 = 2
      OBVIOUS
    <2>2. six[5] = two[5 - 4] /\ six[6] = two[6 - 4]
      BY <1>5
    <2>3. QED
      BY <2>1, <2>2
  <1>8. QED
    BY <1>1, <1>2, <1>4, <1>6, <1>7

\* So does a send, whatever it closes and hands over besides.
LEMMA SendExecuted ==
    ASSUME acct \in Accts, NEW o, op[o].kind = "send", op[o].path \in {"direct", "transit"},
           op[o].amount \in Nat
    PROVE  Holds(Executed(o), acct.avail - op[o].amount, acct.pending, acct.ver + 1)
  <1> DEFINE n == op[o].amount
             e == CloseIx("equality")
             v == CloseIx("validity")
             r == CloseIx("range")
             four == <<TransferIx(n), e, v, r>>
             six == four \o <<SetAuthorityIx, MemoIx>>
  <1>1. /\ TransferIx(n) \in Instructions
        /\ e \in Instructions /\ e.name = "CloseContextState"
        /\ v \in Instructions /\ v.name = "CloseContextState"
        /\ r \in Instructions /\ r.name = "CloseContextState"
        /\ SetAuthorityIx \in Instructions /\ SetAuthorityIx.name = "SetAuthority"
        /\ MemoIx \in Instructions /\ MemoIx.name = "Memo"
    BY NamedIxs DEF IxPlaces, Stands
  <1>2. /\ TransferIx(n) \in Instructions /\ e.name \in Inert /\ v.name \in Inert
        /\ r.name \in Inert /\ SetAuthorityIx.name \in Inert /\ MemoIx.name \in Inert
    BY <1>1 DEF Inert, IxNames
  <1>3. /\ op[o].path = "direct" => IxsOf(o) = four
        /\ op[o].path = "transit" => IxsOf(o) = six
    BY DEF IxsOf, DirectFinal, TransitFinal
  <1> HIDE DEF e, v, r
  <1>4. /\ four \in Seq(Instructions) /\ Len(four) = 4
        /\ four[1] = TransferIx(n) /\ four[2] = e /\ four[3] = v /\ four[4] = r
        /\ six \in Seq(Instructions) /\ Len(six) = 6
        /\ six[1] = TransferIx(n) /\ six[2] = e /\ six[3] = v /\ six[4] = r
        /\ six[5] = SetAuthorityIx /\ six[6] = MemoIx
    BY <1>1, FourAndTwo
  <1> HIDE DEF four, six
  <1>5. CASE op[o].path = "direct"
    <2>1. \A i \in 2..4 : four[i].name \in Inert
      <3>1. \A i \in 2..4 : i = 2 \/ i = 3 \/ i = 4
        OBVIOUS
      <3>2. QED
        BY <1>2, <1>4, <3>1
    <2>2. QED
      BY <1>3, <1>4, <1>5, <2>1, TransferFirst
  <1>6. CASE op[o].path = "transit"
    <2>1. \A i \in 2..6 : six[i].name \in Inert
      <3>1. \A i \in 2..6 : i = 2 \/ i = 3 \/ i = 4 \/ i = 5 \/ i = 6
        OBVIOUS
      <3>2. QED
        BY <1>2, <1>4, <3>1
    <2>2. QED
      BY <1>3, <1>4, <1>6, <2>1, TransferFirst
  <1>7. QED
    BY <1>5, <1>6
-----------------------------------------------------------------------------
(* One operation: how far it is and what became of its transactions.       *)

Steps == {"none", "reading", "figured", "read", "staging", "proved", "confirming", "public",
          "done", "failed"}
Ends == {"none", "sent", "landed", "failed"}
Records == [kind : {"none", "configure", "deposit", "withdraw", "send"}, step : Steps,
            amount : Nat, path : {"none", "public", "direct", "transit"}, belief : Int,
            seen : [ver : Nat, value : Int], setups : Seq({"sent", "landed", "failed"}),
            enc : Ends, pub : Ends, lost : BOOLEAN, overwrote : BOOLEAN,
            overtook : SUBSET Buttons, claim : {"none", "applied", "moved", "refused"}]

\* What a click on o may be.
Meant(o, r) ==
    /\ r.kind \in IF IsSend(o) THEN {"none", "send"}
                  ELSE {"none", "configure", "deposit", "withdraw"}
    /\ r.path \in IF r.kind = "send" THEN {"public", "direct", "transit"} ELSE {"none"}
    /\ r.kind # "none" => r.amount > 0

\* Which transactions an operation can have at each of its steps.
Paced(o, r) ==
    /\ r.kind = "none" => r.step = "none"
    /\ r.step \in {"none", "reading", "figured", "read", "staging", "proved"} =>
          r.enc = "none" /\ r.pub = "none" /\ ~r.lost
    /\ r.overwrote => r.step = "done"
    /\ r.step = "confirming" => ~IsSend(o) /\ ~r.lost
    /\ r.step = "public" => IsSend(o) /\ r.pub = "none" /\ (r.enc = "none" \/ r.lost)
    /\ r.pub # "none" => r.step = "done" /\ (r.enc = "none" \/ r.lost)
    /\ r.path = "public" => r.enc = "none" /\ r.step \in {"public", "done", "failed"}
    /\ (IsSend(o) /\ r.enc # "none" /\ ~r.lost) => r.step = "done"
    /\ (~IsSend(o) /\ r.enc = "sent") => (r.step = "confirming" \/ r.lost)

\* The transactions that stage the proofs, and what the first of them says.
TxsOf(r) == IF r.path = "transit" THEN TransitSetups ELSE DirectSetups
Agrees(r) == r.seen.value = r.belief

Staged(o, r) ==
    /\ r.step = "staging" => IsSend(o) /\ Len(r.setups) < Len(TxsOf(r))
    /\ (r.step \in {"none", "reading", "figured", "read"} \/ ~IsSend(o)) => r.setups = <<>>
    /\ Len(r.setups) <= Len(TxsOf(r))
    /\ \A i \in DOMAIN r.setups : "equality" \in On("VerifyInto", TxsOf(r)[i]) => Agrees(r)

Fits(o, r) == Meant(o, r) /\ Paced(o, r) /\ Staged(o, r) /\ r.seen.ver <= acct.ver

Live(r) == r.step \notin {"none", "done", "failed"}

\* Buttons exclude each other, and so do sends.
OneAtATime ==
    \A o, p \in Ops : ((IsSend(o) <=> IsSend(p)) /\ Live(op[o]) /\ Live(op[p])) => o = p

\* Nobody moves the figure back: a version stands for one value.
Ciphers ==
    /\ settled.ver <= acct.ver
    /\ settled.ver = acct.ver => settled.value = acct.avail
    /\ credits = 0 => acct.pending = 0

Types ==
    /\ acct \in Accts
    /\ settled \in [ver : Nat, value : Int]
    /\ tracked \in Int /\ view \in Int /\ credits \in Nat
    /\ op \in [Ops -> Records]

\* A transit send whose subtraction is ahead of the chain; a button whose
\* transaction is ahead of the figure.
InFlight(r) == r.path = "transit" /\ r.enc = "sent" /\ ~r.lost
Unwritten(r) == r.kind \in {"deposit", "withdraw"} /\ r.step = "confirming" /\ r.enc = "landed"
Moves(r) == InFlight(r) \/ Unwritten(r)
Shift(r) == IF r.kind = "withdraw" THEN 0 - r.amount ELSE r.amount

Cause(r) ==
    \/ r.path = "direct" /\ r.enc = "landed"
    \/ r.path = "transit" /\ r.enc = "failed" /\ ~r.lost
    \/ r.lost /\ r.enc = "landed"
    \/ r.overwrote

\* Drift has a cause, or is bound to have one: what is in flight is outdated, a
\* button that a send has overtaken is going to write, or of two sends in
\* flight one at most will land.
Trouble ==
    \/ credits > 0
    \/ \E o \in Ops :
          \/ Cause(op[o])
          \/ InFlight(op[o]) /\ op[o].seen.ver # acct.ver
          \/ Unwritten(op[o]) /\ Overtaken(o)
    \/ \E o, p \in Ops : o # p /\ InFlight(op[o]) /\ InFlight(op[p])

Balanced ==
    \/ acct.avail = tracked /\ \A o \in Ops : ~Moves(op[o])
    \/ \E o \in Ops :
          /\ Moves(op[o]) /\ acct.avail = tracked + Shift(op[o])
          /\ \A p \in Ops : Moves(op[p]) => p = o

\* The ciphertext that a send has read is still the one on chain, and its
\* figure is what the ciphertext holds: then it is what is available, though
\* not always what is stored by now.
Reads(r) ==
    /\ r.kind = "send" /\ r.step \in {"read", "staging", "proved"}
    /\ r.seen.ver = acct.ver /\ Agrees(r)

ReadsRight == \A o \in Ops : Reads(op[o]) => op[o].belief = acct.avail

DriftInv == ~Trouble => Balanced /\ ReadsRight

ConfidentialInv ==
    /\ Types
    /\ \A o \in Ops : Fits(o, op[o])
    /\ OneAtATime
    /\ Ciphers
    /\ DriftInv

\* The staging transactions, one by one.
LEMMA Setups ==
    /\ Len(DirectSetups) = 3 /\ Len(TransitSetups) = 4
    /\ \A i \in 1..3 : TransitSetups[i + 1] = DirectSetups[i]
    /\ TransitSetups[1] = <<CreateIx("transit"), ConfigureIx, VerifyIx("pubkey validity")>>
    /\ DirectSetups[1] = <<CreateIx("equality"), VerifyIntoIx("equality")>>
    /\ DirectSetups[2] = <<CreateIx("validity"), VerifyIntoIx("validity"), CreateIx("range")>>
    /\ DirectSetups[3] = <<VerifyIntoIx("range")>>
  <1> DEFINE a == <<CreateIx("transit"), ConfigureIx, VerifyIx("pubkey validity")>>
             b == <<CreateIx("equality"), VerifyIntoIx("equality")>>
             c == <<CreateIx("validity"), VerifyIntoIx("validity"), CreateIx("range")>>
             d == <<VerifyIntoIx("range")>>
  <1>1. DirectSetups = <<b, c, d>>
    BY DEF DirectSetups
  <1>2. TransitSetups = <<a>> \o <<b, c, d>>
    BY DEF TransitSetups, DirectSetups
  <1> HIDE DEF a, b, c, d
  <1> DEFINE dir == <<b, c, d>>
             one == <<a>>
             all == one \o dir
             S == {a, b, c, d}
  <1>3. dir \in Seq(S) /\ Len(dir) = 3 /\ dir[1] = b /\ dir[2] = c /\ dir[3] = d
    OBVIOUS
  <1>4. one \in Seq(S) /\ Len(one) = 1 /\ one[1] = a
    OBVIOUS
  <1> HIDE DEF S, dir, one
  <1>5. /\ Len(all) = Len(one) + Len(dir)
        /\ \A i \in 1..Len(one) : all[i] = one[i]
        /\ \A i \in 1..Len(dir) : all[i + Len(one)] = dir[i]
    <2>1. ASSUME NEW q \in Seq(S), NEW r \in Seq(S)
          PROVE  /\ Len(q \o r) = Len(q) + Len(r)
                 /\ \A i \in 1..Len(q) : (q \o r)[i] = q[i]
                 /\ \A i \in 1..Len(r) : (q \o r)[i + Len(q)] = r[i]
      OBVIOUS
    <2>2. QED
      BY <1>3, <1>4, <2>1
  <1> HIDE DEF all
  <1>6. Len(all) = 4 /\ all[1] = a /\ \A i \in 1..3 : all[i + 1] = dir[i]
    BY <1>3, <1>4, <1>5
  <1>7. TransitSetups = all /\ DirectSetups = dir
    BY <1>1, <1>2 DEF all, one, dir
  <1>8. QED
    BY <1>3, <1>6, <1>7 DEF a, b, c, d

\* A record with its step and the ends of its transactions set.
Like(r, q, step, enc, pub, lost, overwrote) ==
    /\ r \in Records
    /\ r.kind = q.kind /\ r.amount = q.amount /\ r.path = q.path
    /\ r.step = step /\ r.enc = enc /\ r.pub = pub /\ r.lost = lost /\ r.overwrote = overwrote
    /\ r.belief = q.belief /\ r.seen = q.seen /\ r.setups = q.setups /\ r.overtook = q.overtook

\* Setting one field leaves the others, and is a record again.
LEMMA OneField ==
    ASSUME NEW q \in Records
    PROVE  /\ \A s \in Steps : Like([q EXCEPT !.step = s], q, s, q.enc, q.pub, q.lost, q.overwrote)
           /\ \A e \in Ends : Like([q EXCEPT !.enc = e], q, q.step, e, q.pub, q.lost, q.overwrote)
           /\ \A e \in Ends : Like([q EXCEPT !.pub = e], q, q.step, q.enc, e, q.lost, q.overwrote)
           /\ \A b \in BOOLEAN : Like([q EXCEPT !.lost = b], q, q.step, q.enc, q.pub, b, q.overwrote)
           /\ \A b \in BOOLEAN : Like([q EXCEPT !.overwrote = b], q, q.step, q.enc, q.pub, q.lost, b)
           /\ \A c \in {"none", "applied", "moved", "refused"} :
                Like([q EXCEPT !.claim = c], q, q.step, q.enc, q.pub, q.lost, q.overwrote)
  <1>1. \A s \in Steps : Like([q EXCEPT !.step = s], q, s, q.enc, q.pub, q.lost, q.overwrote)
    BY DEF Like, Records
  <1>2. \A e \in Ends : Like([q EXCEPT !.enc = e], q, q.step, e, q.pub, q.lost, q.overwrote)
    BY DEF Like, Records
  <1>3. \A e \in Ends : Like([q EXCEPT !.pub = e], q, q.step, q.enc, e, q.lost, q.overwrote)
    BY DEF Like, Records
  <1>4. \A b \in BOOLEAN : Like([q EXCEPT !.lost = b], q, q.step, q.enc, q.pub, b, q.overwrote)
    BY DEF Like, Records
  <1>5. \A b \in BOOLEAN : Like([q EXCEPT !.overwrote = b], q, q.step, q.enc, q.pub, q.lost, b)
    BY DEF Like, Records
  <1>6. \A c \in {"none", "applied", "moved", "refused"} :
           Like([q EXCEPT !.claim = c], q, q.step, q.enc, q.pub, q.lost, q.overwrote)
    BY DEF Like, Records
  <1>7. QED
    BY <1>1, <1>2, <1>3, <1>4, <1>5, <1>6
-----------------------------------------------------------------------------
(* A step that changes one operation and not what the figure is about.     *)

\* A step of o is a step of nobody else.
LEMMA Turned ==
    ASSUME op \in [Ops -> Records], NEW o \in Ops, NEW r \in Records, op' = [op EXCEPT ![o] = r]
    PROVE  /\ op' \in [Ops -> Records] /\ op'[o] = r
           /\ \A p \in Ops : p # o => op'[p] = op[p]
  OBVIOUS

\* Nobody of o's kind is at work but o itself.
Free(o, r) ==
    Live(r) => Live(op[o]) \/ \A p \in Ops : (IsSend(o) <=> IsSend(p)) => ~Live(op[p])

\* Nobody comes to work beside another of its kind.
LEMMA OneAtATimeKept ==
    ASSUME OneAtATime, NEW o \in Ops, NEW r, op'[o] = r,
           \A p \in Ops : p # o => op'[p] = op[p], Free(o, r)
    PROVE  OneAtATime'
  <1> SUFFICES ASSUME NEW p \in Ops, NEW q \in Ops, IsSend(p) <=> IsSend(q),
                      Live(op'[p]), Live(op'[q])
               PROVE  p = q
    BY DEF OneAtATime, IsSend
  <1>1. CASE p # o /\ q # o
    BY <1>1 DEF OneAtATime
  <1>2. CASE p = o /\ q # o
    <2>1. Live(op[q]) /\ Live(r)
      BY <1>2
    <2>2. Live(op[o])
      BY <1>2, <2>1 DEF Free
    <2>3. QED
      BY <1>2, <2>1, <2>2 DEF OneAtATime
  <1>3. CASE p # o /\ q = o
    <2>1. Live(op[p]) /\ Live(r)
      BY <1>3
    <2>2. Live(op[o])
      BY <1>3, <2>1 DEF Free
    <2>3. QED
      BY <1>3, <2>1, <2>2 DEF OneAtATime
  <1>4. QED
    BY <1>1, <1>2, <1>3

\* What one operation may be, all of them are.
LEMMA FitsKept ==
    ASSUME op \in [Ops -> Records], \A p \in Ops : Fits(p, op[p]), NEW o \in Ops,
           NEW r \in Records,
           op'[o] = r, \A p \in Ops : p # o => op'[p] = op[p],
           acct.ver \in Nat, acct'.ver \in Nat, acct'.ver >= acct.ver,
           Meant(o, r), Paced(o, r), Staged(o, r), r.seen.ver <= acct.ver
    PROVE  (\A p \in Ops : Fits(p, op[p]))'
  <1> SUFFICES ASSUME NEW p \in Ops
               PROVE  /\ Meant(p, op'[p]) /\ Paced(p, op'[p]) /\ Staged(p, op'[p])
                      /\ op'[p].seen.ver <= acct'.ver
    BY DEF Fits, Meant, Paced, Staged, IsSend, TxsOf, Agrees
  <1>1. op'[p].seen.ver \in Nat /\ op'[p].seen.ver <= acct.ver
    BY DEF Fits, Records
  <1>2. op'[p].seen.ver <= acct'.ver
    BY <1>1
  <1>3. QED
    BY <1>2 DEF Fits

\* What of an operation the figure depends on has not changed.
Steady(q, r) ==
    /\ ~Cause(q)
    /\ InFlight(q) <=> InFlight(r)
    /\ Unwritten(q) <=> Unwritten(r)
    /\ Moves(q) => Shift(r) = Shift(q) /\ r.seen = q.seen
    /\ r.overtook = q.overtook

\* And neither has what it has read; or the figure is off for a cause.
Calm(q, r) ==
    Cause(r) \/ (Steady(q, r) /\ (Reads(r) => Reads(q) /\ r.belief = q.belief))

\* The balance stays right, or gets a cause, when an operation moves on.
LEMMA SteadyBalance ==
    ASSUME DriftInv, NEW o \in Ops, NEW r, op'[o] = r, \A p \in Ops : p # o => op'[p] = op[p],
           acct'.avail = acct.avail, acct'.ver = acct.ver, tracked' = tracked, credits' = credits,
           Steady(op[o], r), ~Trouble'
    PROVE  /\ ~Trouble /\ Balanced'
           /\ \A p \in Ops : Moves(op'[p]) <=> Moves(op[p])
  <1>1. /\ \A p \in Ops : ~Cause(op'[p]) /\ ~(InFlight(op'[p]) /\ op'[p].seen.ver # acct.ver)
                           /\ ~(Unwritten(op'[p]) /\ Overtaken(p)')
        /\ \A v, w \in Ops : v # w => ~(InFlight(op'[v]) /\ InFlight(op'[w]))
    BY DEF Trouble, Cause, InFlight, Unwritten
  <1>2. /\ ~Cause(op[o]) /\ (InFlight(op[o]) <=> InFlight(r))
          /\ (Unwritten(op[o]) <=> Unwritten(r))
        /\ Moves(op[o]) => Shift(r) = Shift(op[o]) /\ r.seen = op[o].seen
        /\ r.overtook = op[o].overtook
    BY DEF Steady
  <1>3. /\ \A p \in Ops : /\ InFlight(op'[p]) <=> InFlight(op[p])
                          /\ Unwritten(op'[p]) <=> Unwritten(op[p])
                          /\ op'[p].overtook = op[p].overtook
        /\ \A p \in Ops : Moves(op'[p]) <=> Moves(op[p])
    BY <1>2 DEF Moves
  <1>4. ~Trouble
    <2>1. ~(credits > 0)
      BY DEF Trouble
    <2>2. ASSUME NEW p \in Ops
          PROVE  ~Cause(op[p]) /\ ~(InFlight(op[p]) /\ op[p].seen.ver # acct.ver)
      <3>1. CASE p # o
        BY <1>1, <3>1
      <3>2. CASE p = o
        BY <1>1, <1>2, <3>2 DEF Moves
      <3>3. QED
        BY <3>1, <3>2
    <2>3. \A p \in Ops : Overtaken(p)' <=> Overtaken(p)
      BY <1>3 DEF Overtaken, Ops
    <2>4. QED
      BY <1>1, <1>3, <2>1, <2>2, <2>3 DEF Trouble
  <1>5. \/ acct.avail = tracked /\ \A p \in Ops : ~Moves(op'[p])
        \/ \E w \in Ops :
              /\ Moves(op'[w]) /\ acct.avail = tracked + Shift(op'[w])
              /\ \A p \in Ops : Moves(op'[p]) => p = w
    <2>1. \A p \in Ops : Moves(op[p]) => Shift(op'[p]) = Shift(op[p])
      BY <1>2
    <2>2. Balanced
      BY <1>4 DEF DriftInv
    <2>3. QED
      BY <1>3, <2>1, <2>2 DEF Balanced
  <1>6. Balanced'
    BY <1>5 DEF Balanced, Moves, InFlight, Unwritten, Shift
  <1>7. QED
    BY <1>3, <1>4, <1>6

\* And so does what the sends have read.
LEMMA CalmDrift ==
    ASSUME DriftInv, NEW o \in Ops, NEW r, op'[o] = r, \A p \in Ops : p # o => op'[p] = op[p],
           acct'.avail = acct.avail, acct'.ver = acct.ver, tracked' = tracked, credits' = credits,
           Calm(op[o], r)
    PROVE  DriftInv'
  <1> SUFFICES ASSUME ~Trouble' PROVE (Balanced /\ ReadsRight)'
    BY DEF DriftInv
  <1>1. ~Cause(r)
    BY DEF Trouble, Cause
  <1>2. Steady(op[o], r) /\ (Reads(r) => Reads(op[o]) /\ r.belief = op[o].belief)
    BY <1>1 DEF Calm
  <1>3. ~Trouble /\ Balanced' /\ \A p \in Ops : Moves(op'[p]) <=> Moves(op[p])
    BY <1>2, SteadyBalance
  <1>4. ReadsRight
    BY <1>3 DEF DriftInv
  <1>5. ASSUME NEW p \in Ops, Reads(op'[p]) PROVE op'[p].belief = acct.avail
    <2>1. Reads(op[p]) /\ op'[p].belief = op[p].belief
      BY <1>2, <1>5
    <2>2. QED
      BY <1>4, <2>1 DEF ReadsRight
  <1>6. ReadsRight'
    BY <1>5 DEF ReadsRight, Reads, Agrees
  <1>7. QED
    BY <1>3, <1>6

\* The invariant from its parts, for a step of one operation.
LEMMA OneStep ==
    ASSUME ConfidentialInv, NEW o \in Ops, NEW r \in Records, op' = [op EXCEPT ![o] = r],
           acct' \in Accts, acct'.ver >= acct.ver,
           settled' = settled, tracked' \in Int, view' \in Int, credits' = credits,
           Meant(o, r), Paced(o, r), Staged(o, r), r.seen.ver <= acct.ver,
           Free(o, r), Ciphers', DriftInv'
    PROVE  ConfidentialInv'
  <1>1. op' \in [Ops -> Records] /\ op'[o] = r /\ \A p \in Ops : p # o => op'[p] = op[p]
    BY Turned DEF ConfidentialInv, Types
  <1>2. Types'
    BY <1>1 DEF ConfidentialInv, Types, Accts
  <1>3. (\A p \in Ops : Fits(p, op[p]))'
    <2>1. acct.ver \in Nat /\ acct'.ver \in Nat
      BY DEF ConfidentialInv, Types, Accts
    <2>2. QED
      BY <1>1, <2>1, FitsKept DEF ConfidentialInv, Types
  <1>4. OneAtATime'
    BY <1>1, OneAtATimeKept DEF ConfidentialInv
  <1>5. QED
    BY <1>2, <1>3, <1>4 DEF ConfidentialInv

\* A step that neither the balance nor the figure takes notice of.
LEMMA CalmStep ==
    ASSUME ConfidentialInv, NEW o \in Ops, NEW r \in Records, op' = [op EXCEPT ![o] = r],
           acct' \in Accts, acct'.avail = acct.avail, acct'.ver = acct.ver,
           acct'.pending = acct.pending,
           settled' = settled, tracked' = tracked, view' \in Int, credits' = credits,
           Meant(o, r), Paced(o, r), Staged(o, r), r.seen.ver <= acct.ver,
           Free(o, r), Calm(op[o], r)
    PROVE  ConfidentialInv'
  <1>1. op'[o] = r /\ \A p \in Ops : p # o => op'[p] = op[p]
    BY Turned DEF ConfidentialInv, Types
  <1>2. Ciphers'
    BY DEF ConfidentialInv, Ciphers
  <1>3. DriftInv'
    BY <1>1, CalmDrift DEF ConfidentialInv
  <1>4. acct'.ver >= acct.ver /\ tracked' \in Int
    BY DEF ConfidentialInv, Types, Accts
  <1>5. QED
    BY <1>2, <1>3, <1>4, OneStep
-----------------------------------------------------------------------------
(* The steps of which only the operation itself takes notice.              *)

\* Steps at which the staging transactions are over, or have not begun.
Goes(o, step) ==
    \/ step = op[o].step
    \/ step \in {"proved", "confirming", "public", "done", "failed"}
    \/ step = "staging" /\ op[o].step = "read" /\ IsSend(o)

\* A record whose stage alone has changed is still one the page can have.
LEMMA LikeFits ==
    ASSUME ConfidentialInv, NEW o \in Ops, NEW r, NEW step, NEW enc, NEW pub, NEW lost, NEW over,
           Like(r, op[o], step, enc, pub, lost, over), Goes(o, step)
    PROVE  r \in Records /\ Meant(o, r) /\ Staged(o, r) /\ r.seen.ver <= acct.ver
  <1>1. r \in Records
    BY DEF Like
  <1>2. Fits(o, op[o])
    BY DEF ConfidentialInv
  <1>3. Meant(o, r)
    BY <1>2 DEF Fits, Meant, Like
  <1>4. r.seen.ver <= acct.ver
    BY <1>2 DEF Fits, Like
  <1>5. Staged(o, r)
    <2>1. /\ TxsOf(r) = TxsOf(op[o]) /\ (Agrees(r) <=> Agrees(op[o]))
          /\ r.setups = op[o].setups /\ r.step = step
      BY DEF Like, TxsOf, Agrees
    <2>2. Staged(o, op[o])
      BY <1>2 DEF Fits
    <2>3. CASE step = op[o].step \/ step \in {"proved", "confirming", "public", "done", "failed"}
      BY <2>1, <2>2, <2>3 DEF Staged
    <2>4. CASE step = "staging" /\ op[o].step = "read" /\ IsSend(o)
      <3>1. op[o].setups = <<>>
        BY <2>2, <2>4 DEF Staged
      <3>2. Len(r.setups) = 0 /\ DOMAIN r.setups = {}
        BY <2>1, <3>1
      <3>3. Len(TxsOf(r)) \in {3, 4}
        BY Setups DEF TxsOf
      <3> DEFINE m == Len(r.setups)
                 n == Len(TxsOf(r))
      <3>4. m < n /\ m <= n
        <4>1. m = 0 /\ n \in {3, 4}
          BY <3>2, <3>3
        <4> HIDE DEF m, n
        <4>2. QED
          BY <4>1
      <3>5. r.step = "staging" /\ IsSend(o)
        BY <2>1, <2>4
      <3>6. QED
        BY <3>2, <3>4, <3>5 DEF Staged
    <2>5. QED
      BY <2>3, <2>4 DEF Goes
  <1>6. QED
    BY <1>1, <1>3, <1>4, <1>5

\* The same as CalmStep, for a change of the stage.
LEMMA LikeStep ==
    ASSUME ConfidentialInv, NEW o \in Ops, NEW r, NEW step, NEW enc, NEW pub, NEW lost, NEW over,
           Like(r, op[o], step, enc, pub, lost, over), op' = [op EXCEPT ![o] = r],
           acct' \in Accts, acct'.avail = acct.avail, acct'.ver = acct.ver,
           acct'.pending = acct.pending,
           settled' = settled, tracked' = tracked, view' \in Int, credits' = credits,
           Paced(o, r), Goes(o, step), Free(o, r), Calm(op[o], r)
    PROVE  ConfidentialInv'
  <1>1. r \in Records /\ Meant(o, r) /\ Staged(o, r) /\ r.seen.ver <= acct.ver
    BY LikeFits
  <1>2. QED
    BY <1>1, CalmStep

\* What Inv says of one operation.
LEMMA OfOne ==
    ASSUME ConfidentialInv, NEW o \in Ops
    PROVE  /\ op[o] \in Records /\ Meant(o, op[o]) /\ Paced(o, op[o]) /\ Staged(o, op[o])
           /\ op[o].seen.ver <= acct.ver /\ acct \in Accts /\ op \in [Ops -> Records]
           /\ view \in Int
  BY DEF ConfidentialInv, Types, Fits

\* KeyRefused, ProofUnavailable, NotSent.
LEMMA GivesUp ==
    ASSUME ConfidentialInv, NEW o \in Ops,
           op[o].step \in {"reading", "figured", "read", "staging", "proved"},
           op' = [op EXCEPT ![o].step = AfterError(o)],
           UNCHANGED <<acct, settled, tracked, view, credits>>
    PROVE  ConfidentialInv'
  <1> DEFINE q == op[o]
             r == [q EXCEPT !.step = AfterError(o)]
  <1>1. q \in Records /\ Meant(o, q) /\ Paced(o, q) /\ acct \in Accts /\ view \in Int
    BY OfOne
  <1>2. Like(r, q, AfterError(o), q.enc, q.pub, q.lost, q.overwrote)
    BY <1>1, OneField DEF AfterError, Steps
  <1>3. op' = [op EXCEPT ![o] = r]
    OBVIOUS
  <1> HIDE DEF r
  <1>4. Paced(o, r)
    BY <1>1, <1>2 DEF Paced, Like, AfterError
  <1>5. Calm(q, r)
    BY <1>1, <1>2 DEF Calm, Steady, Paced, Like, AfterError, Cause, InFlight, Unwritten, Moves,
       Reads
  <1>6. Free(o, r)
    BY DEF Free, Live
  <1>7. Goes(o, AfterError(o))
    BY DEF Goes, AfterError
  <1>8. QED
    BY <1>1, <1>2, <1>3, <1>4, <1>5, <1>6, <1>7, LikeStep

\* The route answered.
LEMMA ProveKeeps ==
    ASSUME ConfidentialInv, NEW o \in Ops, NEW looked \in BOOLEAN, Prove(o, looked)
    PROVE  ConfidentialInv'
  <1> DEFINE q == op[o]
             s == IF IsSend(o) THEN "staging" ELSE "proved"
             r == [q EXCEPT !.step = s]
  <1>1. q \in Records /\ Meant(o, q) /\ Paced(o, q) /\ acct \in Accts /\ view \in Int
    BY OfOne
  <1>2. Like(r, q, s, q.enc, q.pub, q.lost, q.overwrote)
    BY <1>1, OneField DEF Steps
  <1>3. op' = [op EXCEPT ![o] = r] /\ UNCHANGED <<acct, settled, tracked, view, credits>>
    BY DEF Prove
  <1> HIDE DEF r
  <1>4. Paced(o, r)
    BY <1>1, <1>2 DEF Paced, Like, Prove
  <1>5. Calm(q, r)
    BY <1>1, <1>2 DEF Calm, Steady, Paced, Like, Cause, InFlight, Unwritten, Moves, Reads,
       Agrees, Prove
  <1>6. Free(o, r)
    BY DEF Free, Live, Prove
  <1>7. Goes(o, s)
    BY DEF Goes, Prove
  <1>8. QED
    BY <1>1, <1>2, <1>3, <1>4, <1>5, <1>6, <1>7, LikeStep

\* A submission whose figure stays: a button's, or a direct send's.
LEMMA PlainSubmitKeeps ==
    ASSUME ConfidentialInv, NEW o \in Ops, Submit(o), op[o].path # "transit"
    PROVE  ConfidentialInv'
  <1> DEFINE q == op[o]
             r1 == [q EXCEPT !.enc = "sent"]
             r2 == [r1 EXCEPT !.step = StepAfterSubmit(o)]
             r == [r2 EXCEPT !.overtook = q.overtook]
  <1>1. q \in Records /\ Meant(o, q) /\ Paced(o, q) /\ acct \in Accts /\ view \in Int
    BY OfOne
  <1>2. Like(r1, q, q.step, "sent", q.pub, q.lost, q.overwrote)
    BY <1>1, OneField DEF Ends
  <1>3. op' = [op EXCEPT ![o] = r]
    BY DEF Submit
  <1> HIDE DEF r1
  <1>4. Like(r2, r1, StepAfterSubmit(o), r1.enc, r1.pub, r1.lost, r1.overwrote)
    <2>1. StepAfterSubmit(o) \in Steps /\ r1 \in Records
      BY <1>2 DEF StepAfterSubmit, Steps, Like
    <2>2. QED
      BY <2>1, OneField
  <1> HIDE DEF r2
  <1>5. Like(r, q, StepAfterSubmit(o), "sent", q.pub, q.lost, q.overwrote)
    <2>1. Like(r2, q, StepAfterSubmit(o), "sent", q.pub, q.lost, q.overwrote)
      BY <1>2, <1>4 DEF Like
    <2>2. q.overtook \in SUBSET Buttons
      BY <1>1 DEF Records
    <2>3. QED
      BY <2>1, <2>2 DEF Like, Records
  <1> HIDE DEF r
  <1>6. Paced(o, r)
    BY <1>1, <1>5 DEF Paced, Like, StepAfterSubmit, Submit
  <1>7. Calm(q, r)
    BY <1>1, <1>5 DEF Calm, Steady, Paced, Meant, Like, StepAfterSubmit, Submit, Cause,
       InFlight, Unwritten,
                      Moves, Reads
  <1>8. Free(o, r) /\ Goes(o, StepAfterSubmit(o))
    BY DEF Free, Live, Goes, Submit, StepAfterSubmit
  <1>9. UNCHANGED <<acct, settled, tracked, view, credits>>
    BY DEF Submit, FigureAfterSubmit
  <1>10. QED
    BY <1>1, <1>3, <1>5, <1>6, <1>7, <1>8, <1>9, LikeStep

\* A submission whose answer is lost is none the page counts on.
LEMMA SubmitLostKeeps ==
    ASSUME ConfidentialInv, NEW o \in Ops, SubmitLost(o)
    PROVE  ConfidentialInv'
  <1> DEFINE q == op[o]
             r1 == [q EXCEPT !.enc = "sent"]
             r2 == [r1 EXCEPT !.lost = TRUE]
             r == [r2 EXCEPT !.step = AfterError(o)]
  <1>1. q \in Records /\ Meant(o, q) /\ Paced(o, q) /\ acct \in Accts /\ view \in Int
    BY OfOne
  <1>2. Like(r1, q, q.step, "sent", q.pub, q.lost, q.overwrote)
    BY <1>1, OneField DEF Ends
  <1>3. op' = [op EXCEPT ![o] = r]
    BY DEF SubmitLost
  <1> HIDE DEF r1
  <1>4. Like(r2, r1, r1.step, r1.enc, r1.pub, TRUE, r1.overwrote)
    BY <1>2, OneField DEF Like
  <1> HIDE DEF r2
  <1>5. Like(r, r2, AfterError(o), r2.enc, r2.pub, r2.lost, r2.overwrote)
    <2>1. AfterError(o) \in Steps /\ r2 \in Records
      BY <1>4 DEF AfterError, Steps, Like
    <2>2. QED
      BY <2>1, OneField
  <1> HIDE DEF r
  <1>6. Like(r, q, AfterError(o), "sent", q.pub, TRUE, q.overwrote)
    BY <1>2, <1>4, <1>5 DEF Like
  <1>7. Paced(o, r)
    BY <1>1, <1>6 DEF Paced, Like, AfterError, SubmitLost
  <1>8. Calm(q, r)
    BY <1>1, <1>6 DEF Calm, Steady, Paced, Meant, Like, AfterError, SubmitLost, Cause,
       InFlight, Unwritten,
                      Moves, Reads
  <1>9. Free(o, r) /\ Goes(o, AfterError(o))
    BY DEF Free, Live, Goes, SubmitLost, AfterError
  <1>10. UNCHANGED <<acct, settled, tracked, view, credits>>
    BY DEF SubmitLost
  <1>11. QED
    BY <1>1, <1>3, <1>6, <1>7, <1>8, <1>9, <1>10, LikeStep

\* A button's transaction failed: nothing was written for it.
LEMMA RejectedKeeps ==
    ASSUME ConfidentialInv, NEW o \in Ops, Rejected(o)
    PROVE  ConfidentialInv'
  <1> DEFINE q == op[o]
             r == [q EXCEPT !.step = "failed"]
  <1>1. q \in Records /\ Meant(o, q) /\ Paced(o, q) /\ acct \in Accts /\ view \in Int
    BY OfOne
  <1>2. Like(r, q, "failed", q.enc, q.pub, q.lost, q.overwrote)
    BY <1>1, OneField DEF Steps
  <1>3. op' = [op EXCEPT ![o] = r] /\ UNCHANGED <<acct, settled, tracked, view, credits>>
    BY DEF Rejected
  <1> HIDE DEF r
  <1>4. Paced(o, r)
    BY <1>1, <1>2 DEF Paced, Like, Rejected
  <1>5. Calm(q, r)
    BY <1>1, <1>2 DEF Calm, Steady, Paced, Meant, Like, Rejected, Cause, InFlight, Unwritten,
       Moves, Reads
  <1>6. Free(o, r) /\ Goes(o, "failed")
    BY <1>2 DEF Free, Live, Goes, Like
  <1>7. QED
    BY <1>1, <1>2, <1>3, <1>4, <1>5, <1>6, LikeStep

\* The page gives up on a transaction that may still land.
LEMMA ConfirmLostKeeps ==
    ASSUME ConfidentialInv, NEW o \in Ops, ConfirmLost(o)
    PROVE  ConfidentialInv'
  <1> DEFINE q == op[o]
             r1 == [q EXCEPT !.step = "failed"]
             r == [r1 EXCEPT !.lost = TRUE]
  <1>1. q \in Records /\ Meant(o, q) /\ Paced(o, q) /\ acct \in Accts /\ view \in Int
    BY OfOne
  <1>2. Like(r1, q, "failed", q.enc, q.pub, q.lost, q.overwrote)
    BY <1>1, OneField DEF Steps
  <1>3. op' = [op EXCEPT ![o] = r] /\ UNCHANGED <<acct, settled, tracked, view, credits>>
    BY DEF ConfirmLost
  <1> HIDE DEF r1
  <1>4. Like(r, r1, r1.step, r1.enc, r1.pub, TRUE, r1.overwrote)
    BY <1>2, OneField DEF Like
  <1> HIDE DEF r
  <1>5. Like(r, q, "failed", q.enc, q.pub, TRUE, q.overwrote)
    BY <1>2, <1>4 DEF Like
  <1>6. Paced(o, r)
    BY <1>1, <1>5 DEF Paced, Like, ConfirmLost
  <1>7. Calm(q, r)
    BY <1>1, <1>5 DEF Calm, Steady, Paced, Meant, Like, ConfirmLost, Cause, InFlight,
       Unwritten, Moves, Reads
  <1>8. Free(o, r) /\ Goes(o, "failed")
    BY <1>5 DEF Free, Live, Goes, Like
  <1>9. QED
    BY <1>1, <1>3, <1>5, <1>6, <1>7, <1>8, LikeStep

\* The public transfer does not touch what is encrypted,
LEMMA SubmitPublicKeeps ==
    ASSUME ConfidentialInv, NEW o \in Ops, SubmitPublic(o)
    PROVE  ConfidentialInv'
  <1> DEFINE q == op[o]
             r1 == [q EXCEPT !.pub = "sent"]
             r == [r1 EXCEPT !.step = "done"]
  <1>1. q \in Records /\ Meant(o, q) /\ Paced(o, q) /\ acct \in Accts /\ view \in Int
    BY OfOne
  <1>2. Like(r1, q, q.step, q.enc, "sent", q.lost, q.overwrote)
    BY <1>1, OneField DEF Ends
  <1>3. op' = [op EXCEPT ![o] = r] /\ UNCHANGED <<acct, settled, tracked, view, credits>>
    BY DEF SubmitPublic
  <1> HIDE DEF r1
  <1>4. Like(r, r1, "done", r1.enc, r1.pub, r1.lost, r1.overwrote)
    BY <1>2, OneField DEF Like, Steps
  <1> HIDE DEF r
  <1>5. Like(r, q, "done", q.enc, "sent", q.lost, q.overwrote)
    BY <1>2, <1>4 DEF Like
  <1>6. Paced(o, r)
    BY <1>1, <1>5 DEF Paced, Like, SubmitPublic
  <1>7. Calm(q, r)
    BY <1>1, <1>5 DEF Calm, Steady, Paced, Meant, Like, SubmitPublic, Cause, InFlight,
       Unwritten, Moves, Reads,
                      Shift
  <1>8. Free(o, r) /\ Goes(o, "done")
    BY <1>5 DEF Free, Live, Goes, Like
  <1>9. QED
    BY <1>1, <1>3, <1>5, <1>6, <1>7, <1>8, LikeStep

\* nor does its failure,
LEMMA PublicFailsKeeps ==
    ASSUME ConfidentialInv, NEW o \in Ops, PublicFails(o)
    PROVE  ConfidentialInv'
  <1> DEFINE q == op[o]
             r == [q EXCEPT !.step = "failed"]
  <1>1. q \in Records /\ Meant(o, q) /\ Paced(o, q) /\ acct \in Accts /\ view \in Int
    BY OfOne
  <1>2. Like(r, q, "failed", q.enc, q.pub, q.lost, q.overwrote)
    BY <1>1, OneField DEF Steps
  <1>3. op' = [op EXCEPT ![o] = r] /\ UNCHANGED <<acct, settled, tracked, view, credits>>
    BY DEF PublicFails
  <1> HIDE DEF r
  <1>4. Paced(o, r)
    BY <1>1, <1>2 DEF Paced, Like, PublicFails
  <1>5. Calm(q, r)
    BY <1>1, <1>2 DEF Calm, Steady, Paced, Meant, Like, PublicFails, Cause, InFlight,
       Unwritten, Moves, Reads,
                      Shift
  <1>6. Free(o, r) /\ Goes(o, "failed")
    BY <1>2 DEF Free, Live, Goes, Like
  <1>7. QED
    BY <1>1, <1>2, <1>3, <1>4, <1>5, <1>6, LikeStep

\* A transaction that will not land: a transit send has been subtracted for nothing.
LEMMA ExpiresKeeps ==
    ASSUME ConfidentialInv, NEW o \in Ops, op[o].enc = "sent",
           op' = [op EXCEPT ![o].enc = "failed"],
           UNCHANGED <<acct, settled, tracked, view, credits>>
    PROVE  ConfidentialInv'
  <1> DEFINE q == op[o]
             r == [q EXCEPT !.enc = "failed"]
  <1>1. q \in Records /\ Meant(o, q) /\ Paced(o, q) /\ acct \in Accts /\ view \in Int
    BY OfOne
  <1>2. Like(r, q, q.step, "failed", q.pub, q.lost, q.overwrote)
    BY <1>1, OneField DEF Ends
  <1>3. op' = [op EXCEPT ![o] = r]
    OBVIOUS
  <1> HIDE DEF r
  <1>4. Paced(o, r)
    BY <1>1, <1>2 DEF Paced, Like
  <1>5. Calm(q, r)
    BY <1>1, <1>2 DEF Calm, Steady, Paced, Meant, Like, Cause, InFlight, Unwritten, Moves,
       Reads, Shift
  <1>6. Free(o, r) /\ Goes(o, q.step)
    BY <1>2 DEF Free, Goes, Live, Like
  <1>7. QED
    BY <1>1, <1>2, <1>3, <1>4, <1>5, <1>6, LikeStep

\* nor its landing.
LEMMA PublicExecutesKeeps ==
    ASSUME ConfidentialInv, NEW o \in Ops, PublicExecutes(o)
    PROVE  ConfidentialInv'
  <1> DEFINE q == op[o]
             e == IF q.amount <= acct.public THEN "landed" ELSE "failed"
             r == [q EXCEPT !.pub = e]
  <1>1. q \in Records /\ Meant(o, q) /\ Paced(o, q) /\ acct \in Accts /\ view \in Int
    BY OfOne
  <1>2. Like(r, q, q.step, q.enc, e, q.lost, q.overwrote)
    BY <1>1, OneField DEF Ends
  <1>3. op' = [op EXCEPT ![o] = r] /\ UNCHANGED <<settled, tracked, view, credits>>
    BY DEF PublicExecutes
  <1>4. /\ acct' \in Accts /\ acct'.avail = acct.avail /\ acct'.ver = acct.ver
        /\ acct'.pending = acct.pending
    <2>1. q.amount \in Int
      BY <1>1 DEF Records
    <2>2. acct' = acct \/ acct' = [acct EXCEPT !.public = acct.public - q.amount]
      BY DEF PublicExecutes
    <2>3. QED
      BY <1>1, <2>1, <2>2 DEF Accts
  <1> HIDE DEF r
  <1>5. Paced(o, r)
    BY <1>1, <1>2 DEF Paced, Like, PublicExecutes
  <1>6. Calm(q, r)
    BY <1>1, <1>2 DEF Calm, Steady, Paced, Meant, Like, Cause, InFlight, Unwritten, Moves,
       Reads, Shift, Agrees
  <1>7. Free(o, r) /\ Goes(o, q.step)
    BY <1>2 DEF Free, Goes, Live, Like
  <1>8. QED
    BY <1>1, <1>2, <1>3, <1>4, <1>5, <1>6, <1>7, LikeStep

\* A claim by the recipient is not about this wallet's balance.
LEMMA ClaimKeeps ==
    ASSUME ConfidentialInv, NEW o \in Ops, ClaimApplies(o) \/ ClaimMigrates(o)
    PROVE  ConfidentialInv'
  <1> DEFINE q == op[o]
  <1>1. q \in Records /\ Meant(o, q) /\ Paced(o, q) /\ acct \in Accts /\ view \in Int
    BY OfOne
  <1>2. PICK c \in {"none", "applied", "moved", "refused"} : op' = [op EXCEPT ![o].claim = c]
    BY DEF ClaimApplies, ClaimMigrates
  <1>3. UNCHANGED <<acct, settled, tracked, view, credits>>
    BY DEF ClaimApplies, ClaimMigrates
  <1> DEFINE r == [q EXCEPT !.claim = c]
  <1>4. Like(r, q, q.step, q.enc, q.pub, q.lost, q.overwrote)
    BY <1>1, OneField
  <1>5. op' = [op EXCEPT ![o] = r]
    BY <1>2
  <1> HIDE DEF r
  <1>6. Paced(o, r)
    BY <1>1, <1>4 DEF Paced, Like
  <1>7. Calm(q, r)
    BY <1>1, <1>4 DEF Calm, Steady, Like, Cause, InFlight, Unwritten, Moves, Reads, Shift, Agrees
  <1>8. Free(o, r) /\ Goes(o, q.step)
    BY <1>4 DEF Free, Goes, Live, Like
  <1>9. QED
    BY <1>1, <1>3, <1>4, <1>5, <1>6, <1>7, <1>8, LikeStep
-----------------------------------------------------------------------------
(* Clicks, and the transactions that stage proofs.                         *)

\* A record that has just begun.
Begun(r, kind, step, amount, path) ==
    /\ r \in Records
    /\ r.kind = kind /\ r.step = step /\ r.amount = amount /\ r.path = path
    /\ r.enc = "none" /\ r.pub = "none" /\ ~r.lost /\ ~r.overwrote
    /\ r.setups = <<>> /\ r.seen.ver = 0 /\ r.overtook = {}

\* A click begins with nothing read and nothing sent.
LEMMA BeganKeeps ==
    ASSUME ConfidentialInv, NEW o \in Ops, op[o] = NoOp,
           NEW kind, NEW step, NEW amount \in Amounts, NEW path, NEW r,
           Begun(r, kind, step, amount, path),
           op' = [op EXCEPT ![o] = r], UNCHANGED <<acct, settled, tracked, view, credits>>,
           \/ /\ ~IsSend(o) /\ kind \in {"configure", "deposit", "withdraw"} /\ path = "none"
              /\ step \in {"reading", "proved"}
           \/ /\ IsSend(o) /\ kind = "send" /\ path \in {"public", "direct", "transit"}
              /\ step = IF path = "public" THEN "public" ELSE "reading",
           \A p \in Ops : (IsSend(o) <=> IsSend(p)) => ~Live(op[p])
    PROVE  ConfidentialInv'
  <1>1. amount > 0
    BY ConfidentialAssumption
  <1>2. acct.ver \in Nat /\ acct \in Accts /\ view \in Int
    BY OfOne DEF Accts
  <1>3. Meant(o, r)
    BY <1>1 DEF Meant, Begun
  <1>4. Paced(o, r)
    BY DEF Paced, Begun
  <1>5. Staged(o, r)
    <2>1. r.setups = <<>> /\ r.step # "staging"
      BY DEF Begun
    <2>2. Len(r.setups) = 0 /\ DOMAIN r.setups = {}
      BY <2>1
    <2>3. Len(TxsOf(r)) \in {3, 4}
      BY Setups DEF TxsOf
    <2> DEFINE n == Len(TxsOf(r))
    <2>4. 0 <= n
      BY <2>3
    <2>5. QED
      BY <2>1, <2>2, <2>4 DEF Staged
  <1>6. Calm(op[o], r)
    BY DEF Calm, Steady, Begun, NoOp, Cause, InFlight, Unwritten, Moves, Reads
  <1>7. Free(o, r)
    BY DEF Free
  <1>8. r \in Records /\ r.seen.ver <= acct.ver
    BY <1>2 DEF Begun
  <1>9. QED
    BY <1>2, <1>3, <1>4, <1>5, <1>6, <1>7, <1>8, CalmStep

\* Before the click.
LEMMA NoOpIsRecord == NoOp \in Records
  <1>1. NoCiphertext \in [ver : Nat, value : Int]
    BY DEF NoCiphertext
  <1>2. <<>> \in Seq({"sent", "landed", "failed"})
    OBVIOUS
  <1>3. QED
    BY <1>1, <1>2 DEF NoOp, Records, Steps, Ends

\* A button waits for no other button to be at work (busy).
LEMMA ClickKeeps ==
    ASSUME ConfidentialInv, NEW o \in Buttons, NEW kind \in {"configure", "deposit", "withdraw"},
           NEW amount \in Amounts, Click(o, kind, amount)
    PROVE  ConfidentialInv'
  <1> DEFINE step == IF kind = "withdraw" THEN "reading" ELSE "proved"
             r1 == [NoOp EXCEPT !.kind = kind]
             r2 == [r1 EXCEPT !.amount = amount]
             r3 == [r2 EXCEPT !.belief = view]
             r == [r3 EXCEPT !.step = step]
  <1>1. o \in Ops /\ ~IsSend(o) /\ amount \in Nat /\ view \in Int
    BY ConfidentialAssumption DEF Ops, IsSend, ConfidentialInv, Types
  <1>2. Begun(NoOp, "none", "none", 0, "none")
    BY NoOpIsRecord DEF NoOp, NoCiphertext, Begun
  <1>3. Begun(r1, kind, "none", 0, "none")
    BY <1>2 DEF Begun, Records
  <1>4. op' = [op EXCEPT ![o] = r] /\ op[o] = NoOp
        /\ UNCHANGED <<acct, settled, tracked, view, credits>>
    BY DEF Click
  <1> HIDE DEF r1
  <1>5. Begun(r2, kind, "none", amount, "none")
    BY <1>1, <1>3 DEF Begun, Records
  <1> HIDE DEF r2
  <1>6. Begun(r3, kind, "none", amount, "none")
    BY <1>1, <1>5 DEF Begun, Records
  <1> HIDE DEF r3
  <1>7. Begun(r, kind, step, amount, "none")
    BY <1>6 DEF Begun, Records, Steps
  <1> HIDE DEF r
  <1>8. \A p \in Ops : (IsSend(o) <=> IsSend(p)) => ~Live(op[p])
    BY <1>1 DEF Ops, IsSend, Live, Click, Busy, Running
  <1>9. step \in {"reading", "proved"}
    OBVIOUS
  <1> HIDE DEF step
  <1>10. QED
    BY <1>1, <1>4, <1>7, <1>8, <1>9, BeganKeeps

\* A send waits for no other send to be (submitting).
LEMMA SendKeeps ==
    ASSUME ConfidentialInv, NEW o \in Sends, NEW amount \in Amounts,
           NEW path \in {"public", "direct", "transit"}, Send(o, amount, path)
    PROVE  ConfidentialInv'
  <1> DEFINE step == IF path = "public" THEN "public" ELSE "reading"
             r1 == [NoOp EXCEPT !.kind = "send"]
             r2 == [r1 EXCEPT !.amount = amount]
             r3 == [r2 EXCEPT !.path = path]
             r == [r3 EXCEPT !.step = step]
  <1>1. o \in Ops /\ IsSend(o) /\ amount \in Nat
    BY ConfidentialAssumption DEF Ops, IsSend
  <1>2. Begun(NoOp, "none", "none", 0, "none")
    BY NoOpIsRecord DEF NoOp, NoCiphertext, Begun
  <1>3. Begun(r1, "send", "none", 0, "none")
    BY <1>2 DEF Begun, Records
  <1>4. op' = [op EXCEPT ![o] = r] /\ op[o] = NoOp
        /\ UNCHANGED <<acct, settled, tracked, view, credits>>
    BY DEF Send
  <1> HIDE DEF r1
  <1>5. Begun(r2, "send", "none", amount, "none")
    BY <1>1, <1>3 DEF Begun, Records
  <1> HIDE DEF r2
  <1>6. Begun(r3, "send", "none", amount, path)
    BY <1>1, <1>5 DEF Begun, Records
  <1> HIDE DEF r3
  <1>7. Begun(r, "send", step, amount, path)
    BY <1>6 DEF Begun, Records, Steps
  <1> HIDE DEF r
  <1>8. \A p \in Ops : (IsSend(o) <=> IsSend(p)) => ~Live(op[p])
    BY <1>1 DEF Ops, IsSend, Live, Send, Submitting, Running
  <1>9. QED
    BY <1>1, <1>4, <1>7, <1>8, BeganKeeps

\* A record with its staging transactions set.
Restaged(r, q, step, setups) ==
    /\ r \in Records
    /\ r.kind = q.kind /\ r.amount = q.amount /\ r.path = q.path
    /\ r.step = step /\ r.enc = q.enc /\ r.pub = q.pub /\ r.lost = q.lost
         /\ r.overwrote = q.overwrote
    /\ r.belief = q.belief /\ r.seen = q.seen /\ r.setups = setups /\ r.overtook = q.overtook

\* The transactions that stage proofs do not touch the balance.
LEMMA RestagedKeeps ==
    ASSUME ConfidentialInv, NEW o \in Ops, NEW r, NEW step, NEW setups,
           Restaged(r, op[o], step, setups), op' = [op EXCEPT ![o] = r],
           UNCHANGED <<acct, settled, tracked, view, credits>>,
           step = op[o].step \/ (op[o].step = "staging" /\ step = "proved"), Staged(o, r)
    PROVE  ConfidentialInv'
  <1> DEFINE q == op[o]
  <1>1. q \in Records /\ Meant(o, q) /\ Paced(o, q) /\ acct \in Accts /\ q.seen.ver <= acct.ver
        /\ view \in Int
    BY OfOne
  <1>2. r \in Records /\ r.seen.ver <= acct.ver
    BY <1>1 DEF Restaged
  <1>3. Meant(o, r)
    BY <1>1 DEF Meant, Restaged
  <1>4. Paced(o, r)
    BY <1>1 DEF Paced, Restaged
  <1>5. Calm(q, r)
    BY <1>1 DEF Calm, Steady, Restaged, Paced, Cause, InFlight, Unwritten, Moves, Reads, Shift,
       Agrees
  <1>6. Free(o, r)
    BY DEF Free, Live, Restaged
  <1>7. QED
    BY <1>1, <1>2, <1>3, <1>4, <1>5, <1>6, CalmStep

\* One more of them: the one with the equality proof only if the figure is right.
LEMMA StageKeeps ==
    ASSUME ConfidentialInv, NEW o \in Ops, Stage(o)
    PROVE  ConfidentialInv'
  <1> DEFINE q == op[o]
             n == Len(q.setups) + 1
             s == Append(q.setups, "sent")
             step == IF n = Len(SetupTxs(o)) THEN "proved" ELSE q.step
             r1 == [q EXCEPT !.setups = s]
             r == [r1 EXCEPT !.step = step]
  <1>1. q \in Records /\ Staged(o, q) /\ q.step = "staging"
    BY OfOne DEF Stage
  <1>2. q.setups \in Seq({"sent", "landed", "failed"})
    BY <1>1 DEF Records
  <1>3. s \in Seq({"sent", "landed", "failed"}) /\ Len(s) = n /\ DOMAIN s = 1..n
        /\ DOMAIN q.setups = 1..Len(q.setups) /\ Len(q.setups) \in Nat
    BY <1>2
  <1>4. op' = [op EXCEPT ![o] = r] /\ UNCHANGED <<acct, settled, tracked, view, credits>>
    BY DEF Stage
  <1>5. "equality" \in On("VerifyInto", SetupTxs(o)[n]) => Agrees(q)
    <2>1. "equality" \in On("VerifyInto", SetupTxs(o)[n]) => EqualityHolds(o)
      BY DEF Stage
    <2>2. q.seen.value \in Int /\ q.amount \in Int /\ q.belief \in Int
      BY <1>1 DEF Records
    <2>3. QED
      BY <2>1, <2>2 DEF EqualityHolds, NewSource, NewBalance, Agrees
  <1>6. SetupTxs(o) = TxsOf(q)
    BY DEF SetupTxs, TxsOf
  <1> HIDE DEF s
  <1>7. r1 \in Records /\ Restaged(r1, q, q.step, s)
    BY <1>1, <1>3 DEF Records, Restaged
  <1> HIDE DEF r1
  <1>8. step \in Steps
    BY <1>1 DEF Steps
  <1> HIDE DEF step
  <1>9. Restaged(r, r1, step, r1.setups)
    BY <1>7, <1>8 DEF Records, Restaged
  <1> HIDE DEF r
  <1>10. Restaged(r, q, step, s)
    BY <1>7, <1>9 DEF Restaged
  <1>11. Staged(o, r)
    <2>1. TxsOf(r) = TxsOf(q) /\ (Agrees(r) <=> Agrees(q)) /\ r.setups = s /\ r.step = step
      BY <1>10 DEF Restaged, TxsOf, Agrees
    <2>2. Len(TxsOf(q)) \in Nat
      <3>1. Len(TxsOf(q)) \in {3, 4}
        BY Setups DEF TxsOf
      <3>2. QED
        BY <3>1
    <2>3. IsSend(o) /\ Len(q.setups) < Len(TxsOf(q))
      BY <1>1 DEF Staged
    <2>4. n <= Len(TxsOf(q))
      BY <1>3, <2>2, <2>3
    <2>5. step = "staging" => n < Len(TxsOf(q))
      <3>1. step = "staging" => n # Len(TxsOf(q))
        BY <1>6 DEF step
      <3>2. QED
        BY <1>3, <2>2, <2>4, <3>1
    <2>6. \A i \in 1..n : "equality" \in On("VerifyInto", TxsOf(q)[i]) => Agrees(q)
      <3>1. \A i \in 1..Len(q.setups) : "equality" \in On("VerifyInto", TxsOf(q)[i]) => Agrees(q)
        BY <1>1, <1>3 DEF Staged
      <3>2. \A i \in 1..n : i = n \/ i \in 1..Len(q.setups)
        BY <1>3
      <3>3. QED
        BY <1>5, <1>6, <3>1, <3>2
    <2>7. step \in {"staging", "proved"}
      BY <1>1 DEF step
    <2>8. QED
      BY <1>3, <2>1, <2>3, <2>4, <2>5, <2>6, <2>7 DEF Staged
  <1>12. step = q.step \/ (q.step = "staging" /\ step = "proved")
    BY <1>1 DEF step
  <1>13. QED
    BY <1>4, <1>10, <1>11, <1>12, RestagedKeeps

\* One of them lands or expires.
LEMMA SetupEndsKeeps ==
    ASSUME ConfidentialInv, NEW o \in Ops, NEW end \in {"landed", "failed"}, SetupEnds(o, end)
    PROVE  ConfidentialInv'
  <1> DEFINE q == op[o]
  <1>1. q \in Records /\ Staged(o, q)
    BY OfOne
  <1>2. q.setups \in Seq({"sent", "landed", "failed"})
    BY <1>1 DEF Records
  <1>3. PICK i \in DOMAIN q.setups : op' = [op EXCEPT ![o].setups[i] = end]
    BY DEF SetupEnds
  <1>4. UNCHANGED <<acct, settled, tracked, view, credits>>
    BY DEF SetupEnds
  <1> DEFINE s == [q.setups EXCEPT ![i] = end]
             r == [q EXCEPT !.setups = s]
  <1>5. s \in Seq({"sent", "landed", "failed"}) /\ Len(s) = Len(q.setups)
        /\ DOMAIN s = DOMAIN q.setups
    BY <1>2
  <1>6. op' = [op EXCEPT ![o] = r]
    BY <1>3
  <1>7. s = <<>> <=> q.setups = <<>>
    BY <1>2, <1>5
  <1> HIDE DEF s
  <1>8. Restaged(r, q, q.step, s)
    BY <1>1, <1>5 DEF Records, Restaged
  <1> HIDE DEF r
  <1>9. Staged(o, r)
    <2>1. TxsOf(r) = TxsOf(q) /\ (Agrees(r) <=> Agrees(q)) /\ r.setups = s /\ r.step = q.step
      BY <1>8 DEF Restaged, TxsOf, Agrees
    <2>2. QED
      BY <1>1, <1>5, <1>7, <2>1 DEF Staged
  <1>10. QED
    BY <1>4, <1>6, <1>8, <1>9, RestagedKeeps
-----------------------------------------------------------------------------
(* The steps that read the figure, write it, or change what it is of.      *)

\* A record that is the same but for what has been read.
ReadFrom(r, q) ==
    /\ r \in Records
    /\ r.kind = q.kind /\ r.amount = q.amount /\ r.path = q.path
    /\ r.enc = q.enc /\ r.pub = q.pub /\ r.lost = q.lost /\ r.overwrote = q.overwrote
    /\ r.setups = q.setups /\ r.overtook = q.overtook

\* Whatever the figure was read from, and whenever: if it is what the current
\* ciphertext holds, it is what is available.
LEMMA ReadingKeeps ==
    ASSUME ConfidentialInv, NEW o \in Ops, op[o].step \in {"reading", "figured"},
           NEW r, ReadFrom(r, op[o]), op' = [op EXCEPT ![o] = r],
           r.step \in {"figured", "read", "public", "failed"}, r.seen \in {op[o].seen, settled},
           r.step = "read" => r.seen = settled, r.step = "public" => IsSend(o),
           UNCHANGED <<acct, settled, tracked, view, credits>>
    PROVE  ConfidentialInv'
  <1> DEFINE q == op[o]
  <1>1. /\ q \in Records /\ Meant(o, q) /\ Paced(o, q) /\ Staged(o, q) /\ acct \in Accts
        /\ q.seen.ver <= acct.ver /\ view \in Int /\ op \in [Ops -> Records]
    BY OfOne
  <1>2. /\ tracked \in Int /\ settled.ver <= acct.ver
        /\ settled.ver = acct.ver => settled.value = acct.avail
    BY DEF ConfidentialInv, Types, Ciphers
  <1>3. r \in Records /\ Meant(o, r) /\ r.seen.ver <= acct.ver
    BY <1>1, <1>2 DEF Meant, ReadFrom
  <1>4. Paced(o, r)
    BY <1>1 DEF Paced, ReadFrom
  <1>5. Staged(o, r)
    <2>1. r.setups = <<>> /\ r.step # "staging"
      BY <1>1 DEF Staged, ReadFrom
    <2>2. Len(r.setups) = 0 /\ DOMAIN r.setups = {}
      BY <2>1
    <2>3. Len(TxsOf(r)) \in {3, 4}
      BY Setups DEF TxsOf
    <2> DEFINE n == Len(TxsOf(r))
    <2>4. 0 <= n
      BY <2>3
    <2>5. QED
      BY <2>1, <2>2, <2>4 DEF Staged
  <1>6. Free(o, r)
    BY DEF Free, Live
  <1>7. Steady(q, r)
    BY <1>1 DEF Steady, ReadFrom, Paced, Cause, InFlight, Unwritten, Moves
  <1>8. op'[o] = r /\ \A p \in Ops : p # o => op'[p] = op[p]
    BY <1>1, <1>3, Turned
  <1>9. DriftInv'
    <2> SUFFICES ASSUME ~Trouble' PROVE (Balanced /\ ReadsRight)'
      BY DEF DriftInv
    <2>1. ~Trouble /\ Balanced'
      BY <1>7, <1>8, SteadyBalance DEF ConfidentialInv
    <2>2. ReadsRight
      BY <2>1 DEF ConfidentialInv, DriftInv
    <2>3. ASSUME NEW p \in Ops, Reads(op'[p]) PROVE op'[p].belief = acct.avail
      <3>1. CASE p # o
        BY <1>8, <2>2, <2>3, <3>1 DEF ReadsRight
      <3>2. CASE p = o
        <4>1. r.seen = settled /\ r.seen.ver = acct.ver /\ r.seen.value = r.belief
          BY <1>8, <2>3, <3>2 DEF Reads, Agrees
        <4>2. QED
          BY <1>2, <1>8, <3>2, <4>1
      <3>3. QED
        BY <3>1, <3>2
    <2>4. ReadsRight'
      BY <2>3 DEF ReadsRight, Reads, Agrees
    <2>5. QED
      BY <2>1, <2>4
  <1>10. Ciphers'
    BY DEF ConfidentialInv, Ciphers
  <1>11. acct' \in Accts /\ acct'.ver >= acct.ver
    BY <1>1 DEF Accts
  <1>12. QED
    BY <1>1, <1>2, <1>3, <1>4, <1>5, <1>6, <1>9, <1>10, <1>11, OneStep

\* The account, and for a send the figure.
LEMMA ReadStateKeeps ==
    ASSUME ConfidentialInv, NEW o \in Ops, ReadState(o)
    PROVE  ConfidentialInv'
  <1> DEFINE q == op[o]
             transit == q.path = "transit"
             b == IF IsSend(o) THEN tracked ELSE q.belief
             c == IF transit THEN q.seen ELSE settled
             s == IF Refused(o, b) THEN AfterError(o) ELSE IF transit THEN "figured" ELSE "read"
             r1 == [q EXCEPT !.belief = b]
             r2 == [r1 EXCEPT !.seen = c]
             r == [r2 EXCEPT !.step = s]
  <1>1. q \in Records /\ q.step = "reading"
    BY OfOne DEF ReadState
  <1>2. settled \in [ver : Nat, value : Int] /\ tracked \in Int
    BY DEF ConfidentialInv, Types
  <1>3. op' = [op EXCEPT ![o] = r] /\ UNCHANGED <<acct, settled, tracked, view, credits>>
    BY DEF ReadState
  <1>4. b \in Int /\ c \in [ver : Nat, value : Int] /\ c \in {q.seen, settled}
    BY <1>1, <1>2 DEF Records
  <1>5. /\ s \in {"figured", "read", "public", "failed"} /\ s \in Steps
        /\ s = "public" => IsSend(o)
        /\ s = "read" => c = settled
    BY DEF AfterError, Steps
  <1> HIDE DEF b, c, s
  <1>6. ReadFrom(r1, q) /\ r1.seen = q.seen
    BY <1>1, <1>4 DEF Records, ReadFrom
  <1> HIDE DEF r1
  <1>7. ReadFrom(r2, q) /\ r2.seen = c
    BY <1>4, <1>6 DEF Records, ReadFrom
  <1> HIDE DEF r2
  <1>8. ReadFrom(r, q) /\ r.seen = c /\ r.step = s
    BY <1>5, <1>7 DEF Records, ReadFrom
  <1> HIDE DEF r
  <1>9. QED
    BY <1>1, <1>3, <1>4, <1>5, <1>8, ReadingKeeps

\* The ciphertext of a transit send.
LEMMA ReadCiphertextKeeps ==
    ASSUME ConfidentialInv, NEW o \in Ops, ReadCiphertext(o)
    PROVE  ConfidentialInv'
  <1> DEFINE q == op[o]
             s == IF HasExtension(acct) THEN "read" ELSE AfterError(o)
             r1 == [q EXCEPT !.seen = settled]
             r == [r1 EXCEPT !.step = s]
  <1>1. q \in Records /\ q.step = "figured" /\ settled \in [ver : Nat, value : Int]
    BY OfOne DEF ReadCiphertext, ConfidentialInv, Types
  <1>2. op' = [op EXCEPT ![o] = r] /\ UNCHANGED <<acct, settled, tracked, view, credits>>
    BY DEF ReadCiphertext
  <1>3. /\ s \in {"figured", "read", "public", "failed"} /\ s \in Steps
        /\ s = "public" => IsSend(o)
    BY DEF AfterError, Steps
  <1> HIDE DEF s
  <1>4. ReadFrom(r1, q) /\ r1.seen = settled
    BY <1>1 DEF Records, ReadFrom
  <1> HIDE DEF r1
  <1>5. ReadFrom(r, q) /\ r.seen = settled /\ r.step = s
    BY <1>3, <1>4 DEF Records, ReadFrom
  <1> HIDE DEF r
  <1>6. QED
    BY <1>1, <1>2, <1>3, <1>5, ReadingKeeps

\* A record that a transit send leaves when it is submitted.
Submitted(r, q, over) ==
    /\ r \in Records
    /\ r.kind = q.kind /\ r.amount = q.amount /\ r.path = q.path
    /\ r.step = "done" /\ r.enc = "sent" /\ r.pub = q.pub /\ r.lost = q.lost
         /\ r.overwrote = q.overwrote
    /\ r.belief = q.belief /\ r.seen = q.seen /\ r.setups = q.setups /\ r.overtook = over

\* A transit send: what it takes for available is, and less by the amount from
\* now on.  If the figure that is stored was not, a button has yet to write it,
\* and has been overtaken.
LEMMA TransitSubmitKeeps ==
    ASSUME ConfidentialInv, NEW o \in Ops, Submit(o), op[o].path = "transit"
    PROVE  ConfidentialInv'
  <1> DEFINE q == op[o]
             over == {b \in Buttons : Running(b)}
             r1 == [q EXCEPT !.enc = "sent"]
             r2 == [r1 EXCEPT !.step = StepAfterSubmit(o)]
             r == [r2 EXCEPT !.overtook = over]
  <1>1. /\ q \in Records /\ Meant(o, q) /\ Paced(o, q) /\ Staged(o, q) /\ acct \in Accts
        /\ view \in Int /\ op \in [Ops -> Records] /\ q.step = "proved"
    BY OfOne DEF Submit
  <1>2. q.kind = "send" /\ IsSend(o)
    BY <1>1 DEF Meant
  <1>3. StepAfterSubmit(o) = "done"
    BY <1>2 DEF StepAfterSubmit
  <1>4. Like(r1, q, q.step, "sent", q.pub, q.lost, q.overwrote)
    BY <1>1, OneField DEF Ends
  <1>5. op' = [op EXCEPT ![o] = r]
    BY DEF Submit
  <1> HIDE DEF r1
  <1>6. Like(r2, r1, "done", r1.enc, r1.pub, r1.lost, r1.overwrote)
    <2>1. r1 \in Records /\ "done" \in Steps
      BY <1>4 DEF Like, Steps
    <2>2. QED
      BY <1>3, <2>1, OneField
  <1> HIDE DEF r2
  <1>7. Like(r2, q, "done", "sent", q.pub, q.lost, q.overwrote) /\ Submitted(r, q, over)
    <2>1. Like(r2, q, "done", "sent", q.pub, q.lost, q.overwrote)
      BY <1>4, <1>6 DEF Like
    <2>2. over \in SUBSET Buttons
      OBVIOUS
    <2> HIDE DEF over
    <2>3. QED
      BY <2>1, <2>2 DEF Like, Records, Submitted
  <1> HIDE DEF r
  <1>8. /\ UNCHANGED <<acct, settled, view, credits>> /\ tracked' = q.belief - q.amount
        /\ q.belief \in Int /\ q.amount \in Int
    BY <1>1 DEF Submit, FigureAfterSubmit, Records
  <1>9. r \in Records /\ Meant(o, r) /\ Staged(o, r) /\ r.seen.ver <= acct.ver
    <2>1. Meant(o, r2) /\ Staged(o, r2) /\ r2.seen.ver <= acct.ver
      BY <1>7, LikeFits DEF Goes
    <2>2. /\ r2.kind = r.kind /\ r2.path = r.path /\ r2.amount = r.amount /\ r2.step = r.step
          /\ r2.setups = r.setups /\ r2.seen = r.seen /\ r2.belief = r.belief
      BY <1>7 DEF Like, Submitted
    <2>3. TxsOf(r) = TxsOf(r2) /\ (Agrees(r) <=> Agrees(r2))
      BY <2>2 DEF TxsOf, Agrees
    <2>4. QED
      BY <1>7, <2>1, <2>2, <2>3 DEF Meant, Staged, Submitted
  <1>10. Paced(o, r)
    BY <1>1, <1>2, <1>7 DEF Paced, Submitted
  <1>11. Free(o, r)
    BY <1>7 DEF Free, Live, Submitted
  <1>12. op'[o] = r /\ \A p \in Ops : p # o => op'[p] = op[p]
    BY <1>1, <1>5, <1>9, Turned
  <1>13. q.seen.ver = acct.ver /\ Agrees(q)
    <2>1. q.seen.ver = acct.ver /\ Verified(o) = Proofs
      BY <1>2 DEF Submit, Accepts
    <2>2. "equality" \in Verified(o)
      BY <2>1 DEF Proofs
    <2>3. PICK i \in LandedSetups(o) : "equality" \in On("VerifyInto", SetupTxs(o)[i])
      BY <2>2 DEF Verified
    <2>4. i \in DOMAIN q.setups /\ SetupTxs(o) = TxsOf(q)
      BY DEF LandedSetups, SetupTxs, TxsOf
    <2>5. QED
      BY <1>1, <2>1, <2>3, <2>4 DEF Staged
  <1>14. DriftInv'
    <2> SUFFICES ASSUME ~Trouble' PROVE (Balanced /\ ReadsRight)'
      BY DEF DriftInv
    <2>1. /\ ~(credits > 0)
          /\ \A p \in Ops : ~Cause(op'[p]) /\ ~(Unwritten(op'[p]) /\ Overtaken(p)')
          /\ \A v, w \in Ops : v # w => ~(InFlight(op'[v]) /\ InFlight(op'[w]))
      BY <1>8 DEF Trouble, Cause, InFlight, Unwritten
    <2>2. ~Cause(q) /\ ~Moves(q)
      <3>1. q.enc = "none" /\ ~q.overwrote
        BY <1>1 DEF Paced
      <3>2. QED
        BY <3>1 DEF Cause, Moves, InFlight, Unwritten
    <2>3. r.enc = "sent" /\ ~r.lost /\ r.path = "transit" /\ r.kind = "send"
          /\ r.amount = q.amount
      BY <1>1, <1>2, <1>7 DEF Submitted, Paced
    <2>4. InFlight(r) /\ Moves(r) /\ Shift(r) = q.amount
      BY <2>3 DEF Moves, InFlight, Shift
    <2>5. ASSUME NEW p \in Ops, p # o PROVE ~InFlight(op[p]) /\ ~Unwritten(op[p])
      <3>1. ~InFlight(op[p])
        BY <1>12, <2>1, <2>4, <2>5
      <3>2. ASSUME Unwritten(op[p]) PROVE FALSE
        <4>1. Meant(p, op[p]) /\ op[p].kind \in {"deposit", "withdraw"}
          BY <3>2, OfOne DEF Unwritten
        <4>2. p \in Buttons /\ Running(p)
          BY <3>2, <4>1 DEF Meant, Unwritten, Running, IsSend, Ops
        <4>3. p \in op'[o].overtook
          BY <1>7, <1>12, <4>2 DEF Submitted, over
        <4>4. Overtaken(p)'
          BY <1>2, <4>3 DEF Overtaken, IsSend
        <4>5. QED
          BY <1>12, <2>1, <2>5, <3>2, <4>4
      <3>3. QED
        BY <3>1, <3>2
    <2>6. \A p \in Ops : ~Moves(op[p])
      BY <2>2, <2>5 DEF Moves
    <2>7. Balanced /\ ReadsRight
      <3>1. \A p \in Ops : ~Cause(op[p])
        BY <1>12, <2>1, <2>2
      <3>2. \A p \in Ops : ~InFlight(op[p]) /\ ~Unwritten(op[p])
        BY <2>6 DEF Moves
      <3>3. ~Trouble
        BY <2>1, <3>1, <3>2 DEF Trouble
      <3>4. QED
        BY <3>3 DEF ConfidentialInv, DriftInv
    <2>8. Reads(q)
      BY <1>1, <1>2, <1>13 DEF Reads
    <2>9. acct.avail = tracked' + Shift(r)
      BY <1>8, <2>4, <2>7, <2>8 DEF ReadsRight
    <2>10. \A p \in Ops : Moves(op'[p]) => p = o
      BY <1>12, <2>6
    <2>11. Balanced'
      BY <1>8, <1>12, <2>4, <2>9, <2>10 DEF Balanced, Moves, InFlight, Unwritten, Shift
    <2>12. ASSUME NEW p \in Ops, Reads(op'[p]) PROVE FALSE
      <3>1. p # o
        BY <1>7, <1>12, <2>12 DEF Reads, Submitted
      <3>2. Reads(op[p])
        BY <1>12, <2>12, <3>1
      <3>3. op[p].kind = "send" /\ Live(op[p]) /\ Live(q)
        BY <1>1, <3>2 DEF Reads, Live
      <3>4. IsSend(p)
        BY <3>3, OfOne DEF Meant
      <3>5. QED
        BY <1>2, <3>1, <3>3, <3>4 DEF ConfidentialInv, OneAtATime
    <2>13. ReadsRight'
      BY <1>8, <2>12 DEF ReadsRight, Reads, Agrees
    <2>14. QED
      BY <2>11, <2>13
  <1>15. Ciphers'
    BY <1>8 DEF ConfidentialInv, Ciphers
  <1>16. acct' \in Accts /\ acct'.ver >= acct.ver /\ tracked' \in Int
    BY <1>1, <1>8 DEF Accts
  <1>17. QED
    BY <1>1, <1>5, <1>8, <1>9, <1>10, <1>11, <1>14, <1>15, <1>16, OneStep

\* A button writes its figure: it was of the figure that is stored, or it
\* overwrites one it did not know.
LEMMA ConfirmedKeeps ==
    ASSUME ConfidentialInv, NEW o \in Ops, Confirmed(o)
    PROVE  ConfidentialInv'
  <1> DEFINE q == op[o]
             over == q.kind /= "configure" /\ (tracked /= q.belief \/ Overtaken(o))
             r1 == [q EXCEPT !.step = "done"]
             r == [r1 EXCEPT !.overwrote = over]
  <1>1. /\ q \in Records /\ Meant(o, q) /\ Paced(o, q) /\ acct \in Accts /\ tracked \in Int
        /\ op \in [Ops -> Records] /\ q.step = "confirming" /\ q.enc = "landed"
    BY OfOne DEF Confirmed, ConfidentialInv, Types
  <1>2. /\ q.kind \in {"configure", "deposit", "withdraw"} /\ ~IsSend(o) /\ q.path = "none"
        /\ ~q.lost /\ ~q.overwrote /\ q.pub = "none"
    BY <1>1 DEF Meant, Paced
  <1>3. Like(r1, q, "done", q.enc, q.pub, q.lost, q.overwrote)
    BY <1>1, OneField DEF Steps
  <1>4. op' = [op EXCEPT ![o] = r] /\ tracked' = FigureAfter(o) /\ view' = FigureAfter(o)
        /\ UNCHANGED <<acct, settled, credits>>
    BY DEF Confirmed
  <1> HIDE DEF r1
  <1>5. Like(r, r1, r1.step, r1.enc, r1.pub, r1.lost, over)
    <2>1. over \in BOOLEAN /\ r1 \in Records
      BY <1>3 DEF Like
    <2> HIDE DEF over
    <2>2. QED
      BY <2>1, OneField
  <1> HIDE DEF r
  <1>6. Like(r, q, "done", q.enc, q.pub, q.lost, over)
    BY <1>3, <1>5 DEF Like
  <1>7. Paced(o, r)
    BY <1>1, <1>2, <1>6 DEF Paced, Like
  <1>8. Free(o, r) /\ Goes(o, "done")
    BY <1>6 DEF Free, Live, Goes, Like
  <1>9. q.belief \in Int /\ q.amount \in Int
    BY <1>1 DEF Records
  <1>10. CASE q.kind = "configure"
    <2>1. tracked' = tracked /\ view' \in Int
      BY <1>1, <1>4, <1>10 DEF FigureAfter
    <2>2. Calm(q, r)
      BY <1>2, <1>6, <1>10 DEF Calm, Steady, Like, Cause, InFlight, Unwritten, Moves, Reads
    <2>3. QED
      BY <1>1, <1>4, <1>6, <1>7, <1>8, <2>1, <2>2, LikeStep
  <1>11. CASE q.kind \in {"deposit", "withdraw"}
    <2>1. tracked' = q.belief + Shift(q) /\ Shift(q) \in Int /\ view' = tracked'
      BY <1>4, <1>9, <1>11 DEF FigureAfter, Shift
    <2>2. r \in Records /\ Meant(o, r) /\ Staged(o, r) /\ r.seen.ver <= acct.ver
      BY <1>6, <1>8, LikeFits
    <2>3. op'[o] = r /\ \A p \in Ops : p # o => op'[p] = op[p]
      BY <1>1, <1>4, <2>2, Turned
    <2>4. DriftInv'
      <3> SUFFICES ASSUME ~Trouble' PROVE (Balanced /\ ReadsRight)'
        BY DEF DriftInv
      <3>1. /\ ~(credits > 0)
            /\ \A p \in Ops : ~Cause(op'[p]) /\ ~(InFlight(op'[p]) /\ op'[p].seen.ver # acct.ver)
                               /\ ~(Unwritten(op'[p]) /\ Overtaken(p)')
            /\ \A v, w \in Ops : v # w => ~(InFlight(op'[v]) /\ InFlight(op'[w]))
        BY <1>4 DEF Trouble, Cause, InFlight, Unwritten
      <3>2. ~Cause(q) /\ ~InFlight(q) /\ Unwritten(q)
        BY <1>1, <1>2, <1>11 DEF Cause, InFlight, Unwritten
      <3>3. tracked = q.belief /\ ~Overtaken(o)
        <4>1. ~Cause(r)
          BY <2>3, <3>1
        <4>2. r.overwrote = over
          BY <1>6 DEF Like
        <4>3. ~over
          BY <4>1, <4>2 DEF Cause
        <4>4. QED
          BY <1>11, <4>3
      <3>4. Balanced /\ ReadsRight
        <4>1. \A p \in Ops : op'[p].overtook = op[p].overtook
          BY <1>6, <2>3 DEF Like
        <4>2. \A p \in Ops : Overtaken(p)' <=> Overtaken(p)
          BY <4>1 DEF Overtaken, Ops
        <4>3. \A p \in Ops : ~Cause(op[p]) /\ ~(InFlight(op[p]) /\ op[p].seen.ver # acct.ver)
                             /\ ~(Unwritten(op[p]) /\ Overtaken(p))
          BY <2>3, <3>1, <3>2, <3>3, <4>2
        <4>4. \A v, w \in Ops : v # w => ~(InFlight(op[v]) /\ InFlight(op[w]))
          BY <2>3, <3>1, <3>2
        <4>5. ~Trouble
          BY <3>1, <4>3, <4>4 DEF Trouble
        <4>6. QED
          BY <4>5 DEF ConfidentialInv, DriftInv
      <3>5. Moves(q)
        BY <3>2 DEF Moves
      <3>6. acct.avail = tracked + Shift(q) /\ \A p \in Ops : Moves(op[p]) => p = o
        BY <3>4, <3>5 DEF Balanced
      <3>8. acct.avail = tracked'
        BY <2>1, <3>3, <3>6
      <3>9. ~Moves(r)
        BY <1>6, <1>1 DEF Moves, InFlight, Unwritten, Like
      <3>10. \A p \in Ops : ~Moves(op'[p])
        BY <2>3, <3>6, <3>9
      <3>11. Balanced'
        BY <1>4, <3>8, <3>10 DEF Balanced, Moves, InFlight, Unwritten
      <3>12. ASSUME NEW p \in Ops, Reads(op'[p]) PROVE op'[p].belief = acct.avail
        <4>1. p # o
          BY <1>6, <2>3, <3>12 DEF Reads, Like
        <4>2. Reads(op[p])
          BY <2>3, <3>12, <4>1
        <4>3. QED
          BY <2>3, <3>4, <4>1, <4>2 DEF ReadsRight
      <3>13. ReadsRight'
        BY <1>4, <3>12 DEF ReadsRight, Reads, Agrees
      <3>14. QED
        BY <3>11, <3>13
    <2>5. Ciphers'
      BY <1>4 DEF ConfidentialInv, Ciphers
    <2>6. acct' \in Accts /\ acct'.ver >= acct.ver /\ tracked' \in Int /\ view' \in Int
      BY <1>1, <1>4, <1>9, <2>1 DEF Accts
    <2>7. QED
      BY <1>4, <1>7, <1>8, <2>2, <2>4, <2>5, <2>6, OneStep
  <1>12. QED
    BY <1>2, <1>10, <1>11
-----------------------------------------------------------------------------
(* The encrypted transaction executes.                                     *)

\* What the available balance gains once o's transaction has landed, if
\* nobody else sent anything.
Gain(r) == IF r.kind = "deposit" THEN r.amount ELSE 0 - r.amount

\* A new ciphertext: what was read of the old one is outdated.
LEMMA NewVersionDrift ==
    ASSUME ConfidentialInv, NEW o \in Ops, NEW r,
           Like(r, op[o], op[o].step, "landed", op[o].pub, op[o].lost, op[o].overwrote),
           op'[o] = r, \A p \in Ops : p # o => op'[p] = op[p],
           op[o].enc = "sent", op[o].kind \in {"deposit", "withdraw", "send"},
           op[o].kind = "send" => op[o].seen.ver = acct.ver,
           acct'.ver = acct.ver + 1, tracked' = tracked, credits' = credits,
           credits = 0 => acct'.avail = acct.avail + Gain(op[o])
    PROVE  DriftInv'
  <1> DEFINE q == op[o]
  <1>1. /\ q \in Records /\ Meant(o, q) /\ Paced(o, q) /\ acct.ver \in Nat /\ acct.avail \in Int
        /\ q.amount \in Int /\ credits \in Nat /\ tracked \in Int
    BY OfOne DEF Accts, Records, ConfidentialInv, Types
  <1> SUFFICES ASSUME ~Trouble' PROVE (Balanced /\ ReadsRight)'
    BY DEF DriftInv
  <1>2. /\ credits = 0
        /\ \A p \in Ops : ~Cause(op'[p]) /\ ~(InFlight(op'[p]) /\ op'[p].seen.ver # acct'.ver)
                           /\ ~(Unwritten(op'[p]) /\ Overtaken(p)')
    BY <1>1 DEF Trouble, Cause, InFlight, Unwritten
  <1>3. ~(r.path = "direct") /\ ~q.lost /\ ~q.overwrote /\ r.enc = "landed" /\ r.path = q.path
        /\ r.kind = q.kind /\ r.amount = q.amount /\ r.step = q.step /\ r.lost = q.lost
    <2>1. ~Cause(r)
      BY <1>2
    <2>2. QED
      BY <2>1 DEF Like, Cause
  <1>4. \A p \in Ops : op[p].seen.ver \in Nat /\ op[p].seen.ver <= acct.ver
        /\ op[p].seen.ver # acct'.ver
    <2>1. \A p \in Ops : op[p].seen.ver \in Nat /\ op[p].seen.ver <= acct.ver
      BY OfOne DEF Records
    <2>2. QED
      BY <1>1, <2>1
  <1>5. \A p \in Ops : p # o => ~InFlight(op[p]) /\ ~Cause(op[p])
    BY <1>2, <1>4
  <1>6. ~Cause(q) /\ (InFlight(q) => q.seen.ver = acct.ver)
    BY <1>1, <1>3 DEF Cause, InFlight, Meant
  <1>7. ~Trouble
    <2>1. \A p \in Ops : op'[p].overtook = op[p].overtook
      BY DEF Like
    <2>2. \A p \in Ops : Overtaken(p)' <=> Overtaken(p)
      BY <2>1 DEF Overtaken, Ops
    <2>3. ~Unwritten(q)
      BY DEF Unwritten
    <2>4. \A p \in Ops : ~(Unwritten(op[p]) /\ Overtaken(p))
      BY <1>2, <2>2, <2>3
    <2>5. \A v, w \in Ops : v # w => ~(InFlight(op[v]) /\ InFlight(op[w]))
      BY <1>5
    <2>6. \A p \in Ops : ~Cause(op[p]) /\ ~(InFlight(op[p]) /\ op[p].seen.ver # acct.ver)
      BY <1>5, <1>6
    <2>7. QED
      BY <1>2, <2>4, <2>5, <2>6 DEF Trouble
  <1>8. Balanced
    BY <1>7 DEF ConfidentialInv, DriftInv
  <1>9. acct'.avail = acct.avail + Gain(q)
    BY <1>2
  <1>10. ~InFlight(r)
    BY <1>3 DEF InFlight
  <1>11. Balanced'
    <2>1. CASE q.kind = "send"
      <3>1. InFlight(q)
        BY <1>1, <1>3, <2>1 DEF Meant, Paced, InFlight
      <3>2. acct.avail = tracked + Shift(q) /\ \A p \in Ops : Moves(op[p]) => p = o
        BY <1>8, <3>1 DEF Balanced, Moves
      <3>3. acct'.avail = tracked
        BY <1>1, <1>9, <2>1, <3>2 DEF Gain, Shift
      <3>4. ~Moves(r)
        BY <1>3, <1>10, <2>1 DEF Moves, Unwritten
      <3>5. \A p \in Ops : ~Moves(op'[p])
        BY <3>2, <3>4
      <3>6. QED
        BY <3>3, <3>5 DEF Balanced, Moves, InFlight, Unwritten
    <2>2. CASE q.kind \in {"deposit", "withdraw"}
      <3>1. ~IsSend(o) /\ q.step = "confirming" /\ ~InFlight(q) /\ Live(q)
        BY <1>1, <1>3, <2>2 DEF Meant, Paced, InFlight, Live
      <3>2. ASSUME NEW p \in Ops, Unwritten(op[p]) PROVE FALSE
        <4>1. p # o
          BY <3>2 DEF Unwritten
        <4>2. ~IsSend(p) /\ Live(op[p])
          BY <3>2, OfOne DEF Unwritten, Meant, Live
        <4>3. QED
          BY <3>1, <4>1, <4>2 DEF ConfidentialInv, OneAtATime
      <3>3. \A p \in Ops : ~Moves(op[p])
        BY <1>5, <3>1, <3>2 DEF Moves
      <3>4. acct.avail = tracked
        BY <1>8, <3>3 DEF Balanced
      <3>5. Moves(r) /\ Shift(r) = Gain(q)
        BY <1>3, <2>2, <3>1 DEF Moves, Unwritten, Shift, Gain
      <3>6. acct'.avail = tracked' + Shift(r)
        BY <1>9, <3>4, <3>5
      <3>7. \A p \in Ops : Moves(op'[p]) => p = o
        BY <3>3
      <3>8. QED
        BY <3>5, <3>6, <3>7 DEF Balanced, Moves, InFlight, Unwritten, Shift
    <2>3. QED
      BY <2>1, <2>2
  <1>12. ReadsRight'
    <2>1. \A p \in Ops : op'[p].seen.ver # acct'.ver
      BY <1>4 DEF Like
    <2>2. QED
      BY <2>1 DEF ReadsRight, Reads
  <1>13. QED
    BY <1>11, <1>12

\* The chain executes the encrypted transaction, or rejects it.
LEMMA ExecutesKeeps ==
    ASSUME ConfidentialInv, NEW o \in Ops, EncryptedExecutes(o)
    PROVE  ConfidentialInv'
  <1> DEFINE q == op[o]
             r == [q EXCEPT !.enc = "landed"]
  <1>1. /\ q \in Records /\ Meant(o, q) /\ Paced(o, q) /\ acct \in Accts /\ view \in Int
        /\ op \in [Ops -> Records] /\ q.enc = "sent"
             /\ UNCHANGED <<settled, tracked, view, credits>>
    BY OfOne DEF EncryptedExecutes
  <1>2. CASE ~Accepts(o)
    <2>1. acct' = acct /\ op' = [op EXCEPT ![o].enc = "failed"]
      BY <1>2 DEF EncryptedExecutes
    <2>2. QED
      BY <1>1, <2>1, ExpiresKeeps
  <1>3. CASE Accepts(o)
    <2>1. acct' = Executed(o) /\ op' = [op EXCEPT ![o].enc = "landed"]
      BY <1>3 DEF EncryptedExecutes
    <2>2. Like(r, q, q.step, "landed", q.pub, q.lost, q.overwrote)
      BY <1>1, OneField DEF Ends
    <2>3. op' = [op EXCEPT ![o] = r]
      BY <2>1
    <2> HIDE DEF r
    <2>4. Paced(o, r)
      BY <1>1, <2>2 DEF Paced, Like
    <2>5. Free(o, r) /\ Goes(o, q.step)
      BY <2>2 DEF Free, Goes, Live, Like
    <2>6. q.kind \in {"configure", "deposit", "withdraw", "send"} /\ q.amount \in Nat
      BY <1>1 DEF Meant, Paced, Records
    <2>7. CASE q.kind = "configure"
      <3>1. Holds(acct', acct.avail, acct.pending, acct.ver)
        BY <1>1, <2>1, <2>7, ConfigureExecuted DEF Meant
      <3>2. Calm(q, r)
        BY <1>1, <2>2, <2>7 DEF Calm, Steady, Meant, Like, Cause, InFlight, Unwritten, Moves,
           Reads
      <3>3. QED
        BY <1>1, <2>2, <2>3, <2>4, <2>5, <3>1, <3>2, LikeStep DEF Holds
    <2>8. CASE q.kind \in {"deposit", "withdraw", "send"}
      <3>1. /\ acct' \in Accts /\ acct'.ver = acct.ver + 1
            /\ credits = 0 => acct'.avail = acct.avail + Gain(q) /\ acct'.pending = 0
        <4>1. acct.avail \in Int /\ acct.pending \in Int /\ (credits = 0 => acct.pending = 0)
          BY <1>1 DEF Accts, ConfidentialInv, Ciphers
        <4>2. CASE q.kind = "deposit"
          <5>1. Holds(acct', acct.avail + acct.pending + q.amount, 0, acct.ver + 1)
            BY <1>1, <2>1, <2>6, <4>2, DepositExecuted DEF Meant
          <5>2. QED
            BY <2>6, <4>1, <4>2, <5>1 DEF Holds, Gain
        <4>3. CASE q.kind = "withdraw"
          <5>1. Holds(acct', acct.avail - q.amount, acct.pending, acct.ver + 1)
            BY <1>1, <2>1, <2>6, <4>3, WithdrawExecuted DEF Meant
          <5>2. QED
            BY <2>6, <4>1, <4>3, <5>1 DEF Holds, Gain
        <4>4. CASE q.kind = "send"
          <5>1. q.path \in {"direct", "transit"}
            BY <1>1, <4>4 DEF Meant, Paced
          <5>2. Holds(acct', acct.avail - q.amount, acct.pending, acct.ver + 1)
            BY <1>1, <2>1, <2>6, <4>4, <5>1, SendExecuted
          <5>3. QED
            BY <2>6, <4>1, <4>4, <5>2 DEF Holds, Gain
        <4>5. QED
          BY <2>8, <4>2, <4>3, <4>4
      <3>2. q.kind = "send" => q.seen.ver = acct.ver
        BY <1>3 DEF Accepts
      <3>3. r \in Records /\ Meant(o, r) /\ Staged(o, r) /\ r.seen.ver <= acct.ver
        BY <2>2, <2>5, LikeFits
      <3>4. op'[o] = r /\ \A p \in Ops : p # o => op'[p] = op[p]
        BY <1>1, <2>3, <3>3, Turned
      <3>5. DriftInv'
        BY <1>1, <2>2, <2>8, <3>1, <3>2, <3>4, NewVersionDrift
      <3>6. acct.ver \in Nat /\ acct'.ver >= acct.ver
        BY <1>1, <3>1 DEF Accts
      <3>7. Ciphers'
        BY <1>1, <3>1, <3>6 DEF ConfidentialInv, Ciphers, Types
      <3>8. tracked' \in Int /\ view' \in Int
        BY <1>1 DEF ConfidentialInv, Types
      <3>9. QED
        BY <1>1, <2>3, <2>4, <2>5, <3>1, <3>3, <3>5, <3>6, <3>7, <3>8, OneStep
    <2>9. QED
      BY <2>6, <2>7, <2>8
  <1>4. QED
    BY <1>2, <1>3

-----------------------------------------------------------------------------
(* The steps that change no operation.                                     *)

\* Credits of others are a cause at once.
LEMMA CreditKeeps ==
    ASSUME ConfidentialInv, CreditReceived
    PROVE  ConfidentialInv'
  <1>1. PICK a \in Amounts : acct' = [acct EXCEPT !.pending = @ + a]
    BY DEF CreditReceived
  <1>2. a \in Int /\ acct \in Accts /\ credits \in Nat /\ credits' = credits + 1
        /\ UNCHANGED <<settled, tracked, view, op>>
    BY ConfidentialAssumption DEF CreditReceived, ConfidentialInv, Types
  <1>3. acct' \in Accts /\ acct'.avail = acct.avail /\ acct'.ver = acct.ver
    BY <1>1, <1>2 DEF Accts
  <1>4. credits' \in Nat /\ credits' > 0
    BY <1>2
  <1>5. Types'
    BY <1>2, <1>3, <1>4 DEF ConfidentialInv, Types
  <1>6. (\A o \in Ops : Fits(o, op[o]))'
    BY <1>2, <1>3 DEF ConfidentialInv, Fits, Meant, Paced, Staged, IsSend, TxsOf, Agrees
  <1>7. OneAtATime'
    BY <1>2 DEF ConfidentialInv, OneAtATime, IsSend, Live
  <1>8. Ciphers'
    BY <1>2, <1>3, <1>4 DEF ConfidentialInv, Ciphers
  <1>9. DriftInv'
    BY <1>4 DEF DriftInv, Trouble
  <1>10. QED
    BY <1>5, <1>6, <1>7, <1>8, <1>9 DEF ConfidentialInv

\* Finality and rendering follow what there is.
LEMMA AroundKeeps ==
    ASSUME ConfidentialInv, UNCHANGED <<acct, tracked, op, credits>>,
           view' \in Int, settled' \in {settled, Ciphertext(acct)}
    PROVE  ConfidentialInv'
  <1>1. acct \in Accts /\ settled \in [ver : Nat, value : Int]
    BY DEF ConfidentialInv, Types
  <1>2. Ciphertext(acct) \in [ver : Nat, value : Int] /\ Ciphertext(acct).ver = acct.ver
        /\ Ciphertext(acct).value = acct.avail /\ acct.ver \in Nat
    BY <1>1 DEF Ciphertext, Accts
  <1>3. Types'
    BY <1>1, <1>2 DEF ConfidentialInv, Types
  <1>4. (\A o \in Ops : Fits(o, op[o]))'
    BY DEF ConfidentialInv, Fits, Meant, Paced, Staged, IsSend, TxsOf, Agrees
  <1>5. OneAtATime'
    BY DEF ConfidentialInv, OneAtATime, IsSend, Live
  <1>6. Ciphers'
    BY <1>1, <1>2 DEF ConfidentialInv, Ciphers
  <1>7. DriftInv'
    BY DEF ConfidentialInv, DriftInv, Trouble, Balanced, ReadsRight, Reads, Agrees, Moves,
       InFlight,
           Unwritten, Shift, Cause, Overtaken
  <1>8. QED
    BY <1>3, <1>4, <1>5, <1>6, <1>7 DEF ConfidentialInv

-----------------------------------------------------------------------------
(* The theorems.                                                           *)

\* Nothing is under way at first.
LEMMA InitHolds == ConfidentialInit => ConfidentialInv
  <1> SUFFICES ASSUME ConfidentialInit PROVE ConfidentialInv
    OBVIOUS
  <1>1. PICK held \in Held, configured \in BOOLEAN :
           /\ acct = [configured |-> configured, public |-> Funds, pending |-> 0,
                      avail |-> held, ver |-> 0]
           /\ settled = [ver |-> 0, value |-> held]
           /\ tracked = held /\ view = held
    BY DEF ConfidentialInit
  <1>2. op = [o \in Ops |-> NoOp] /\ credits = 0
    BY DEF ConfidentialInit
  <1>3. held \in Int /\ Funds \in Int
    BY ConfidentialAssumption
  <1>4. acct \in Accts /\ acct.avail = held /\ acct.ver = 0 /\ acct.pending = 0
    BY <1>1, <1>3 DEF Accts
  <1>5. Types
    BY <1>1, <1>2, <1>3, <1>4, NoOpIsRecord DEF Types
  <1>6. /\ NoOp.kind = "none" /\ NoOp.path = "none" /\ NoOp.step = "none" /\ NoOp.setups = <<>>
        /\ NoOp.enc = "none" /\ NoOp.pub = "none" /\ ~NoOp.lost /\ ~NoOp.overwrote
             /\ NoOp.seen.ver = 0
    BY DEF NoOp, NoCiphertext
  <1>7. ASSUME NEW o \in Ops PROVE Fits(o, op[o])
    <2>1. op[o] = NoOp
      BY <1>2
    <2>2. Meant(o, NoOp) /\ Paced(o, NoOp)
      BY <1>6 DEF Meant, Paced
    <2>3. Staged(o, NoOp)
      <3>1. Len(NoOp.setups) = 0 /\ DOMAIN NoOp.setups = {}
        BY <1>6
      <3>2. Len(TxsOf(NoOp)) \in {3, 4}
        BY Setups DEF TxsOf
      <3> DEFINE n == Len(TxsOf(NoOp))
      <3>3. 0 <= n
        BY <3>2
      <3>4. QED
        BY <1>6, <3>1, <3>3 DEF Staged
    <2>4. QED
      BY <1>4, <1>6, <2>1, <2>2, <2>3 DEF Fits
  <1>8. OneAtATime
    BY <1>2, <1>6 DEF OneAtATime, Live
  <1>9. Ciphers
    BY <1>1, <1>4 DEF Ciphers
  <1>10. DriftInv
    BY <1>1, <1>2, <1>4, <1>6 DEF DriftInv, Balanced, ReadsRight, Reads, Moves, InFlight,
       Unwritten
  <1>11. QED
    BY <1>5, <1>7, <1>8, <1>9, <1>10 DEF ConfidentialInv

\* One step for each action.
LEMMA NextKeeps == ConfidentialInv /\ [ConfidentialNext]_vars => ConfidentialInv'
  <1> SUFFICES ASSUME ConfidentialInv, [ConfidentialNext]_vars PROVE ConfidentialInv'
    OBVIOUS
  <1>1. CASE \E o \in Buttons, k \in {"configure", "deposit", "withdraw"}, a \in Amounts :
               Click(o, k, a)
    BY <1>1, ClickKeeps
  <1>2. CASE \E o \in Sends, a \in Amounts, c, r \in BOOLEAN : Send(o, a, PathOf(c, r))
    <2>1. \A c, r \in BOOLEAN : PathOf(c, r) \in {"public", "direct", "transit"}
      BY DEF PathOf
    <2>2. QED
      BY <1>2, <2>1, SendKeeps
  <1>3. CASE \E o \in Ops, looked \in BOOLEAN : Prove(o, looked)
    BY <1>3, ProveKeeps
  <1>4. CASE \E o \in Ops : ReadState(o) \/ ReadCiphertext(o)
    BY <1>4, ReadStateKeeps, ReadCiphertextKeeps
  <1>5. CASE \E o \in Ops : Stage(o)
    BY <1>5, StageKeeps
  <1>6. CASE \E o \in Ops : Submit(o)
    BY <1>6, PlainSubmitKeeps, TransitSubmitKeeps
  <1>7. CASE \E o \in Ops : SubmitLost(o)
    BY <1>7, SubmitLostKeeps
  <1>8. CASE \E o \in Ops : KeyRefused(o) \/ ProofUnavailable(o) \/ NotSent(o)
    BY <1>8, GivesUp DEF KeyRefused, ProofUnavailable, NotSent
  <1>9. CASE \E o \in Ops : Confirmed(o)
    BY <1>9, ConfirmedKeeps
  <1>10. CASE \E o \in Ops : Rejected(o)
    BY <1>10, RejectedKeeps
  <1>11. CASE \E o \in Ops : ConfirmLost(o)
    BY <1>11, ConfirmLostKeeps
  <1>12. CASE \E o \in Ops : SubmitPublic(o)
    BY <1>12, SubmitPublicKeeps
  <1>13. CASE \E o \in Ops : PublicFails(o)
    BY <1>13, PublicFailsKeeps
  <1>14. CASE \E o \in Ops, end \in {"landed", "failed"} : SetupEnds(o, end)
    BY <1>14, SetupEndsKeeps
  <1>15. CASE \E o \in Ops : EncryptedExecutes(o)
    BY <1>15, ExecutesKeeps
  <1>16. CASE \E o \in Ops : EncryptedExpires(o)
    BY <1>16, ExpiresKeeps DEF EncryptedExpires
  <1>17. CASE \E o \in Ops : PublicExecutes(o)
    BY <1>17, PublicExecutesKeeps
  <1>18. CASE \E o \in Ops : ClaimApplies(o) \/ ClaimMigrates(o)
    BY <1>18, ClaimKeeps
  <1>19. CASE CreditReceived
    BY <1>19, CreditKeeps
  <1>20. view \in Int /\ tracked \in Int
    BY DEF ConfidentialInv, Types
  <1>21. CASE Finalized
    BY <1>20, <1>21, AroundKeeps DEF Finalized
  <1>22. CASE Refresh
    BY <1>20, <1>22, AroundKeeps DEF Refresh
  <1>23. CASE UNCHANGED vars
    BY <1>20, <1>23, AroundKeeps DEF vars
  <1>24. QED
    BY <1>1, <1>2, <1>3, <1>4, <1>5, <1>6, <1>7, <1>8, <1>9, <1>10, <1>11, <1>12, <1>13, <1>14,
       <1>15, <1>16, <1>17, <1>18, <1>19, <1>21, <1>22, <1>23 DEF ConfidentialNext

\* The invariant holds throughout.
LEMMA AlwaysInv == ConfidentialSpec => []ConfidentialInv
  BY InitHolds, NextKeeps, PTL DEF ConfidentialSpec

\* The page's figure differs from the balance, once all is quiet, for one of
\* the five named causes only (onSend, the buttons of ConfidentialControls).
THEOREM DriftIsExplained == ConfidentialSpec => []DriftHasACause
  <1>1. ConfidentialInv => DriftHasACause
    <2> SUFFICES ASSUME ConfidentialInv, Quiet, tracked # acct.avail, ~(credits > 0)
                 PROVE  \E o \in Ops : Cause(op[o])
      BY DEF DriftHasACause, Cause
    <2>1. ASSUME NEW o \in Ops PROVE ~Moves(op[o]) /\ ~InFlight(op[o]) /\ ~Unwritten(op[o])
      <3>1. ~Running(o) /\ op[o].enc # "sent"
        BY DEF Quiet
      <3>2. QED
        BY <3>1 DEF Moves, InFlight, Unwritten, Running
    <2>2. ~Balanced
      BY <2>1 DEF Balanced
    <2>3. Trouble
      BY <2>2 DEF ConfidentialInv, DriftInv
    <2>4. QED
      BY <2>1, <2>3 DEF Trouble
  <1>2. QED
    BY <1>1, AlwaysInv, PTL

\* A send is paid in both ways only after an answer was lost (onSend's catch).
THEOREM TwiceIsLost == ConfidentialSpec => []PaidTwiceOnlyIfLost
  <1>1. ConfidentialInv => PaidTwiceOnlyIfLost
    BY OfOne DEF PaidTwiceOnlyIfLost, Paced
  <1>2. QED
    BY <1>1, AlwaysInv, PTL
-----------------------------------------------------------------------------
(* The accounts that are opened for the proofs, and those that are closed. *)

Opened == {"transit", "equality", "validity", "range"}

\* The transactions that stage proofs open no others.
LEMMA OpenedBySetups ==
    ASSUME NEW r, NEW i \in 1..Len(TxsOf(r))
    PROVE  On("CreateAccount", TxsOf(r)[i]) \subseteq Opened
  <1> DEFINE Only(tx) == \A j \in DOMAIN tx : tx[j].name = "CreateAccount" => tx[j].on \in Opened
  <1>1. /\ \A x : CreateIx(x).name = "CreateAccount" /\ CreateIx(x).on = x
        /\ \A x : VerifyIx(x).name = "Verify" /\ VerifyIntoIx(x).name = "VerifyInto"
        /\ ConfigureIx.name = "ConfigureAccount"
    BY DEF CreateIx, VerifyIx, VerifyIntoIx, ConfigureIx, Ix
  <1>2. Only(<<CreateIx("transit"), ConfigureIx, VerifyIx("pubkey validity")>>)
    <2> DEFINE c == CreateIx("transit")
               v == VerifyIx("pubkey validity")
    <2>1. c.on \in Opened /\ v.name = "Verify" /\ ConfigureIx.name = "ConfigureAccount"
      BY <1>1 DEF Opened
    <2> HIDE DEF c, v
    <2>2. Only(<<c, ConfigureIx, v>>)
      BY <2>1
    <2>3. QED
      BY <2>2 DEF c, v
  <1>3. Only(<<CreateIx("equality"), VerifyIntoIx("equality")>>)
    BY <1>1 DEF Opened
  <1>4. Only(<<CreateIx("validity"), VerifyIntoIx("validity"), CreateIx("range")>>)
    BY <1>1 DEF Opened
  <1>5. Only(<<VerifyIntoIx("range")>>)
    BY <1>1 DEF Opened
  <1> HIDE DEF Only
  <1>6. \A k \in 1..3 : Only(DirectSetups[k])
    <2>1. \A k \in 1..3 : k = 1 \/ k = 2 \/ k = 3
      OBVIOUS
    <2>2. QED
      BY <1>3, <1>4, <1>5, <2>1, Setups
  <1>7. \A k \in 1..4 : Only(TransitSetups[k])
    <2>1. \A k \in 1..4 : k = 1 \/ (k - 1 \in 1..3 /\ (k - 1) + 1 = k)
      OBVIOUS
    <2>2. \A k \in 1..3 : Only(TransitSetups[k + 1])
      BY <1>6, Setups
    <2>3. Only(TransitSetups[1])
      BY <1>2, Setups
    <2>4. ASSUME NEW k \in 1..4, k # 1 PROVE Only(TransitSetups[k])
      <3> DEFINE m == k - 1
      <3>1. m \in 1..3 /\ m + 1 = k
        BY <2>4
      <3> HIDE DEF m
      <3>2. QED
        BY <2>2, <3>1
    <2>5. QED
      BY <2>3, <2>4
  <1>8. Only(TxsOf(r)[i])
    <2>1. CASE r.path = "transit"
      BY <1>7, <2>1, Setups DEF TxsOf
    <2>2. CASE r.path # "transit"
      BY <1>6, <2>2, Setups DEF TxsOf
    <2>3. QED
      BY <2>1, <2>2
  <1>9. QED
    BY <1>8 DEF On, ToSet, Only

\* The transfer closes all but the transit account.
LEMMA ClosedBySend ==
    ASSUME NEW o, op[o].kind = "send", op[o].path \in {"direct", "transit"}, op[o].amount \in Nat
    PROVE  Opened \ On("CloseContextState", IxsOf(o)) \subseteq {"transit"}
  <1> DEFINE t == TransferIx(op[o].amount)
             e == CloseIx("equality")
             v == CloseIx("validity")
             r == CloseIx("range")
             four == <<t, e, v, r>>
             six == four \o <<SetAuthorityIx, MemoIx>>
             ixs == IxsOf(o)
  <1>1. /\ t \in Instructions /\ e \in Instructions /\ v \in Instructions /\ r \in Instructions
        /\ SetAuthorityIx \in Instructions /\ MemoIx \in Instructions
    BY NamedIxs DEF IxPlaces, Stands
  <1>2. /\ op[o].path = "direct" => ixs = four
        /\ op[o].path = "transit" => ixs = six
    BY DEF IxsOf, DirectFinal, TransitFinal
  <1>3. /\ e.name = "CloseContextState" /\ e.on = "equality"
        /\ v.name = "CloseContextState" /\ v.on = "validity"
        /\ r.name = "CloseContextState" /\ r.on = "range"
    BY DEF CloseIx, Ix
  <1> HIDE DEF t, e, v, r, ixs
  <1>4. /\ four \in Seq(Instructions) /\ Len(four) = 4 /\ four[2] = e /\ four[3] = v
          /\ four[4] = r
        /\ six \in Seq(Instructions) /\ Len(six) = 6 /\ six[2] = e /\ six[3] = v /\ six[4] = r
    BY <1>1, FourAndTwo
  <1> HIDE DEF four, six
  <1>5. ixs[2] = e /\ ixs[3] = v /\ ixs[4] = r /\ 2 \in DOMAIN ixs /\ 3 \in DOMAIN ixs
        /\ 4 \in DOMAIN ixs
    BY <1>2, <1>4
  <1>6. {e, v, r} \subseteq ToSet(ixs)
    BY <1>5 DEF ToSet
  <1>7. {"equality", "validity", "range"} \subseteq On("CloseContextState", ixs)
    BY <1>3, <1>6 DEF On
  <1>8. QED
    BY <1>7 DEF Opened, ixs

\* No context account outlives the transfer it was opened for: only the
\* transit account stays (buildTransferInstruction's closing instructions).
THEOREM RentIsReturned == ConfidentialSpec => []RentLeftHasACause
  <1>1. ConfidentialInv => RentLeftHasACause
    <2> SUFFICES ASSUME ConfidentialInv, NEW o \in Ops, op[o].enc = "landed"
                 PROVE  Created(o) \ On("CloseContextState", IxsOf(o)) \subseteq {"transit"}
      BY DEF RentLeftHasACause
    <2>1. op[o] \in Records /\ Meant(o, op[o]) /\ Paced(o, op[o]) /\ Staged(o, op[o])
      BY OfOne
    <2>2. op[o].setups \in Seq({"sent", "landed", "failed"}) /\ op[o].amount \in Nat
      BY <2>1 DEF Records
    <2>3. CASE op[o].kind = "send"
      <3>1. op[o].path \in {"direct", "transit"}
        BY <2>1, <2>3 DEF Meant, Paced
      <3>2. ASSUME NEW x \in Created(o) PROVE x \in Opened
        <4>1. PICK i \in LandedSetups(o) : x \in On("CreateAccount", SetupTxs(o)[i])
          BY DEF Created
        <4>2. SetupTxs(o) = TxsOf(op[o])
          BY DEF SetupTxs, TxsOf
        <4>3. i \in 1..Len(op[o].setups) /\ Len(op[o].setups) \in Nat
          BY <2>2, <4>1 DEF LandedSetups
        <4>4. Len(TxsOf(op[o])) \in {3, 4} /\ Len(op[o].setups) <= Len(TxsOf(op[o]))
          BY <2>1, Setups DEF Staged, TxsOf
        <4>5. i \in 1..Len(TxsOf(op[o]))
          BY <4>3, <4>4
        <4>6. QED
          BY <4>1, <4>2, <4>5, OpenedBySetups
      <3>3. QED
        BY <2>2, <2>3, <3>1, <3>2, ClosedBySend
    <2>4. CASE op[o].kind # "send"
      <3>1. ~IsSend(o)
        BY <2>1, <2>4 DEF Meant, Paced
      <3>2. op[o].setups = <<>>
        BY <2>1, <3>1 DEF Staged
      <3>3. LandedSetups(o) = {}
        BY <3>2 DEF LandedSetups
      <3>4. Created(o) = {}
        BY <3>3 DEF Created
      <3>5. QED
        BY <3>4
    <2>5. QED
      BY <2>3, <2>4
  <1>2. QED
    BY <1>1, AlwaysInv, PTL
=============================================================================
