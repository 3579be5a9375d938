---------------------------- MODULE SharedLemmas ----------------------------
(***************************************************************************)
(* Facts that the proofs of several components rest on.  All are about     *)
(* data: what overwriting a part of a function gives, how a sequence is cut*)
(* into chunks, that a recursion over positions has a solution, and how a  *)
(* sum over a finite set follows its summands, and what places an order    *)
(* gives to the members of a finite set.  Where the argument is an         *)
(* induction, it is made by a smallest counterexample among the subsets of *)
(* a finite set.                                                           *)
(***************************************************************************)
EXTENDS Integers, Sequences, Functions, Selections, FiniteSetTheorems, TLAPS

\* Part of a table is overwritten with a sequence, as a write to a proof
\* buffer does.
LEMMA Overwritten ==
    ASSUME NEW n \in Nat, NEW S, NEW data \in [1..n -> S],
           NEW off \in Nat, NEW bytes \in Seq(S), off + Len(bytes) <= n
    PROVE  [i \in 1..n |-> IF off < i /\ i <= off + Len(bytes) THEN bytes[i - off] ELSE data[i]]
             \in [1..n -> S]
  <1>1. Len(bytes) \in Nat /\ \A k \in 1..Len(bytes) : bytes[k] \in S
    OBVIOUS
  <1>2. \A i \in 1..n : off < i /\ i <= off + Len(bytes) => i - off \in 1..Len(bytes)
    BY <1>1
  <1>3. QED
    BY <1>1, <1>2

-----------------------------------------------------------------------------
(* Chunks: a sequence of n elements is written c at a time.                *)

ChunksOf(n, c) == (n + c - 1) \div c

\* How many elements the first k chunks hold.
Reach(n, c, k) == IF k * c <= n THEN k * c ELSE n

ChunkAt(s, c, i) ==
    SubSeq(s, (i - 1) * c + 1, IF i * c <= Len(s) THEN i * c ELSE Len(s))

\* Floor division.
LEMMA QuotientBounds ==
    ASSUME NEW a \in Nat, NEW b \in Nat \ {0}
    PROVE  /\ a \div b \in Nat
           /\ (a \div b) * b <= a
           /\ a < (a \div b + 1) * b
  OBVIOUS

\* Products of naturals are naturals.
LEMMA Products ==
    ASSUME NEW a \in Nat, NEW b \in Nat, NEW c \in Nat, a <= b
    PROVE  a * c \in Nat /\ b * c \in Nat /\ a * c <= b * c
  OBVIOUS

\* Quotient and remainder.
LEMMA Divided ==
    ASSUME NEW a \in Nat, NEW n \in Nat \ {0}
    PROVE  a \div n \in Nat /\ (a % n) \in 0..n /\ a = n * (a \div n) + (a % n)
  <1>1. a = n * (a \div n) + (a % n) /\ (a % n) \in 0..(n - 1)
    OBVIOUS
  <1>2. a \div n \in Nat
    BY QuotientBounds
  <1>3. QED
    BY <1>1, <1>2

\* Quotients keep the order of what is divided.
LEMMA QuotientsGrow ==
    ASSUME NEW a \in Nat, NEW b \in Nat, NEW d \in Nat \ {0}, a <= b
    PROVE  a \div d <= b \div d
  <1> DEFINE u == a \div d
             v == b \div d
  <1>1. /\ u \in Nat /\ u * d <= a
        /\ v \in Nat /\ b < (v + 1) * d
    BY QuotientBounds
  <1> HIDE DEF u, v
  <1>2. SUFFICES ASSUME v + 1 <= u PROVE FALSE
    BY <1>1 DEF u, v
  <1>3. (v + 1) * d <= u * d /\ u * d \in Nat /\ (v + 1) * d \in Nat
    BY <1>1, <1>2, Products
  <1>4. QED
    BY <1>1, <1>3

\* A product of a sum.
LEMMA Distributed ==
    ASSUME NEW a \in Int, NEW b \in Int, NEW c \in Int
    PROVE  c * (a + b) = c * a + c * b /\ c * a \in Int /\ c * b \in Int
  OBVIOUS

\* A list that is a table over 1..k has length k.
LEMMA LengthOf ==
    ASSUME NEW s, NEW k \in Nat, s = [i \in 1..k |-> s[i]]
    PROVE  Len(s) = k /\ DOMAIN s = 1..k
  OBVIOUS

\* The chunks cover the sequence and none of them starts past its end.
LEMMA ChunksCover ==
    ASSUME NEW n \in Nat, NEW c \in Nat \ {0}
    PROVE  /\ ChunksOf(n, c) \in Nat
           /\ \A k \in Nat : ChunksOf(n, c) <= k => Reach(n, c, k) = n
           /\ \A i \in 1..ChunksOf(n, c) : (i - 1) * c < n
           /\ n # 0 => ChunksOf(n, c) # 0
  <1> DEFINE d == (n + c - 1) \div c
  <1>1. n + c - 1 \in Nat
    OBVIOUS
  <1>2. d \in Nat /\ d * c <= n + c - 1 /\ n + c - 1 < (d + 1) * c
    BY <1>1, QuotientBounds
  <1>3. ChunksOf(n, c) = d
    BY DEF ChunksOf
  <1> HIDE DEF d
  <1>4. d * c \in Nat /\ (d + 1) * c = d * c + c
    BY <1>2
  <1>5. n <= d * c
    BY <1>2, <1>4
  <1>6. ASSUME NEW k \in Nat, d <= k PROVE Reach(n, c, k) = n
    <2>1. d * c <= k * c /\ k * c \in Nat
      BY <1>2, <1>6, Products
    <2>2. n <= k * c
      BY <1>4, <1>5, <2>1
    <2>3. QED
      BY <2>1, <2>2 DEF Reach
  <1>7. ASSUME NEW i \in 1..d PROVE (i - 1) * c < n
    <2>1. i - 1 \in Nat /\ i \in Nat /\ i <= d
      BY <1>2
    <2>2. i * c <= d * c /\ i * c \in Nat
      BY <1>2, <2>1, Products
    <2>3. (i - 1) * c = i * c - c
      BY <2>1
    <2>4. QED
      BY <1>2, <1>4, <2>2, <2>3
  <1>8. n # 0 => d # 0
    BY <1>5
  <1>9. QED
    BY <1>2, <1>3, <1>6, <1>7, <1>8

\* Chunk i holds the elements after those of the chunks before it.
LEMMA ChunkHolds ==
    ASSUME NEW S, NEW s \in Seq(S), NEW c \in Nat \ {0}, NEW i \in 1..ChunksOf(Len(s), c)
    PROVE  LET off == Reach(Len(s), c, i - 1)
               end == Reach(Len(s), c, i)
           IN  /\ (i - 1) * c \in Nat /\ off = (i - 1) * c
               /\ ChunkAt(s, c, i) \in Seq(S)
               /\ off + Len(ChunkAt(s, c, i)) = end
               /\ end \in Nat /\ end <= Len(s) /\ off <= end
               /\ \A j \in Nat : off < j /\ j <= end => ChunkAt(s, c, i)[j - off] = s[j]
  <1> DEFINE n == Len(s)
             off == (i - 1) * c
             end == Reach(n, c, i)
  <1>1. n \in Nat
    OBVIOUS
  <1>2. i \in Nat \ {0} /\ i - 1 \in Nat /\ ChunksOf(n, c) \in Nat
    BY <1>1, ChunksCover
  <1>3. off \in Nat /\ off < n
    <2>1. (i - 1) * c < n
      BY <1>1, ChunksCover
    <2>2. (i - 1) * c \in Nat
      BY <1>2, Products
    <2>3. QED
      BY <2>1, <2>2
  <1>4. i * c = off + c /\ i * c \in Nat
    BY <1>2
  <1>5. end \in Nat /\ off < end /\ end <= n
    <2> HIDE DEF off
    <2>1. QED
      BY <1>1, <1>3, <1>4 DEF Reach
  <1>6. Reach(n, c, i - 1) = off
    BY <1>3 DEF Reach
  <1>7. ChunkAt(s, c, i) = SubSeq(s, off + 1, end)
    BY DEF ChunkAt, Reach
  <1> HIDE DEF off, end
  <1>8. off + 1 \in 1..n /\ end \in 1..n
    BY <1>1, <1>3, <1>5
  <1>9. SubSeq(s, off + 1, end) \in Seq(S) /\ Len(SubSeq(s, off + 1, end)) = end - off
    BY <1>1, <1>3, <1>5, <1>8
  <1>10. ASSUME NEW j \in Nat, off < j, j <= end
         PROVE  SubSeq(s, off + 1, end)[j - off] = s[j]
    BY <1>1, <1>3, <1>5, <1>8, <1>10
  <1>11. off + (end - off) = end
    BY <1>3, <1>5
  <1>12. QED
    BY <1>1, <1>3, <1>5, <1>6, <1>7, <1>9, <1>10, <1>11 DEF off, end

-----------------------------------------------------------------------------
(* Recursion over positions.                                               *)

\* Every collection of subsets of a finite set has a member that contains no
\* other.
LEMMA SmallestSubset ==
    ASSUME NEW S, IsFiniteSet(S), NEW C, C \subseteq SUBSET S, C # {}
    PROVE  \E T \in C : \A U \in C : U \subseteq T => U = T
  <1>1. IsWellFoundedOn(StrictSubsetOrdering(S), FiniteSubsetsOf(S))
    BY FS_StrictSubsetOrderingWellFounded
  <1>2. FiniteSubsetsOf(S) = SUBSET S
    BY FS_FiniteSubsetsOfFinite
  <1>3. PICK T \in C : \A U \in C : ~ (<<U, T>> \in StrictSubsetOrdering(S))
    BY <1>1, <1>2, WFMin
  <1>4. QED
    BY <1>3 DEF StrictSubsetOrdering

\* A set of numbers that holds 0, and with every number below N the next one,
\* holds 0..N.
LEMMA CountUp ==
    ASSUME NEW N \in Nat, NEW A, 0 \in A, \A n \in 0..(N - 1) : n \in A => n + 1 \in A
    PROVE  0..N \subseteq A
  <1> DEFINE Left == {n \in 0..N : n \notin A}
  <1>1. SUFFICES ASSUME Left # {} PROVE FALSE
    OBVIOUS
  <1> DEFINE Heads == {1..n : n \in Left}
  <1>2. PICK T \in Heads : \A U \in Heads : U \subseteq T => U = T
    <2>1. Heads # {}
      BY <1>1
    <2>2. Heads \subseteq SUBSET (1..N)
      OBVIOUS
    <2>3. IsFiniteSet(1..N)
      BY FS_Interval
    <2> DEFINE D == 1..N
    <2> HIDE DEF Heads, D
    <2>4. \E T \in Heads : \A U \in Heads : U \subseteq T => U = T
      <3>1. IsFiniteSet(D) /\ Heads \subseteq SUBSET D
        BY <2>2, <2>3 DEF D
      <3>2. QED
        BY <2>1, <3>1, SmallestSubset
    <2>5. QED
      BY <2>4
  <1>3. PICK n \in Left : T = 1..n
    OBVIOUS
  <1>4. n \in 1..N /\ n - 1 \in 0..(N - 1)
    OBVIOUS
  <1>5. n - 1 \notin Left
    <2>1. 1..(n - 1) # 1..n
      BY <1>4
    <2>2. 1..(n - 1) \subseteq 1..n /\ 1..n \subseteq 1..N
      BY <1>4
    <2>3. n - 1 \in Left => 1..(n - 1) \in Heads
      OBVIOUS
    <2>4. QED
      BY <1>2, <1>3, <2>1, <2>2, <2>3
  <1>6. QED
    BY <1>4, <1>5

\* f starts at base and each of its values is made from the one before.
StepsFrom(f, N, base, step) ==
    f = [n \in 0..N |-> IF n = 0 THEN base ELSE step[n][f[n - 1]]]

\* A table computed from each of its entries to the next exists.
LEMMA TableOfSteps ==
    ASSUME NEW N \in Nat, NEW S, NEW base \in S, NEW step \in [1..N -> [S -> S]]
    PROVE  \E f \in [0..N -> S] : StepsFrom(f, N, base, step)
  <1> USE DEF StepsFrom
  <1> DEFINE Is(f, m) == StepsFrom(f, m, base, step)
             A == {m \in 0..N : \E f \in [0..m -> S] : Is(f, m)}
  <1>1. 0 \in A
    <2> DEFINE f == [n \in 0..0 |-> base]
    <2>1. f \in [0..0 -> S] /\ Is(f, 0)
      OBVIOUS
    <2> HIDE DEF f
    <2>2. QED
      BY <2>1
  <1>2. ASSUME NEW m \in 0..(N - 1), m \in A PROVE m + 1 \in A
    <2>1. PICK f \in [0..m -> S] : Is(f, m)
      BY <1>2
    <2> DEFINE g == [n \in 0..(m + 1) |-> IF n \in 0..m THEN f[n] ELSE step[m + 1][f[m]]]
    <2>2. g \in [0..(m + 1) -> S]
      BY <2>1
    <2>3. \A n \in 0..(m + 1) : g[n] = IF n = 0 THEN base ELSE step[n][g[n - 1]]
      <3>1. SUFFICES ASSUME NEW n \in 0..(m + 1)
                     PROVE  g[n] = IF n = 0 THEN base ELSE step[n][g[n - 1]]
        OBVIOUS
      <3>2. CASE n = m + 1
        BY <3>2
      <3>3. CASE n \in 0..m
        <4>1. f[n] = IF n = 0 THEN base ELSE step[n][f[n - 1]]
          BY <2>1, <3>3
        <4>2. n # 0 => n - 1 \in 0..m
          BY <3>3
        <4>3. QED
          BY <3>3, <4>1, <4>2
      <3>4. QED
        BY <3>2, <3>3
    <2>4. Is(g, m + 1)
      BY <2>2, <2>3
    <2> HIDE DEF g, Is
    <2>5. QED
      BY <2>2, <2>4
  <1> HIDE DEF A
  <1>3. 0..N \subseteq A
    BY <1>1, <1>2, CountUp
  <1>4. QED
    BY <1>3 DEF A

-----------------------------------------------------------------------------
(* Sums over finite sets.  SumFunctionOnSet(f, S) takes its summands in an *)
(* order that CHOOSE fixes; below, it is the value of a table over the     *)
(* subsets of S, whose equations hold because a least subset at which they *)
(* fail would be the empty one.                                            *)

Pick(s) == CHOOSE x \in s : TRUE

\* g is the table of the sums of f over the subsets of S.
IsTable(g, f, S) ==
    g = [s \in SUBSET S |-> IF s = {} THEN 0 ELSE f[Pick(s)] + g[s \ {Pick(s)}]]

Table(f, S) == CHOOSE g : IsTable(g, f, S)

\* The sum of a sequence is the last entry of its table.
LEMMA SumIsTable ==
    ASSUME NEW f, NEW S
    PROVE  SumFunctionOnSet(f, S) = Table(f, S)[S]
  BY DEF SumFunctionOnSet, FoldFunctionOnSet, MapThenFoldSet, Table, IsTable, Pick

\* Two tables agree wherever both are defined.
LEMMA TablesAgree ==
    ASSUME NEW f, NEW S, IsFiniteSet(S), NEW A \in SUBSET S, NEW B \in SUBSET S,
           NEW g, IsTable(g, f, A), NEW h, IsTable(h, f, B),
           NEW T \in SUBSET (A \cap B)
    PROVE  g[T] = h[T]
  <1> DEFINE C == {U \in SUBSET (A \cap B) : g[U] # h[U]}
  <1>1. SUFFICES ASSUME C # {}
                 PROVE  FALSE
    OBVIOUS
  <1>2. PICK U \in C : \A V \in C : V \subseteq U => V = U
    <2>1. C \subseteq SUBSET S
      OBVIOUS
    <2> HIDE DEF C
    <2>2. QED
      BY <1>1, <2>1, SmallestSubset
  <1>3. U # {}
    BY <1>2 DEF IsTable
  <1>4. Pick(U) \in U
    BY <1>3 DEF Pick
  <1>5. U \ {Pick(U)} \notin C
    BY <1>2, <1>4
  <1>6. g[U \ {Pick(U)}] = h[U \ {Pick(U)}]
    BY <1>5
  <1>7. g[U] = h[U]
    <2>1. g[U] = f[Pick(U)] + g[U \ {Pick(U)}]
      BY <1>3 DEF IsTable
    <2>2. h[U] = f[Pick(U)] + h[U \ {Pick(U)}]
      BY <1>3 DEF IsTable
    <2>3. QED
      BY <1>6, <2>1, <2>2
  <1>8. QED
    BY <1>2, <1>7

\* The recursion behind the sum has a solution.
LEMMA TableExists ==
    ASSUME NEW f, NEW S, IsFiniteSet(S)
    PROVE  IsTable(Table(f, S), f, S)
  <1> DEFINE C == {U \in SUBSET S : ~ IsTable(Table(f, U), f, U)}
  <1>1. SUFFICES ASSUME C # {}
                 PROVE  FALSE
    OBVIOUS
  <1>2. PICK T \in C : \A V \in C : V \subseteq T => V = T
    <2>1. C \subseteq SUBSET S
      OBVIOUS
    <2> HIDE DEF C
    <2>2. QED
      BY <1>1, <2>1, SmallestSubset
  <1>3. \A U \in SUBSET T : U # T => IsTable(Table(f, U), f, U)
    BY <1>2
  <1> DEFINE below(s) == IF s = {} THEN 0
                         ELSE f[Pick(s)] + Table(f, s \ {Pick(s)})[s \ {Pick(s)}]
             g == [s \in SUBSET T |-> below(s)]
  <1>4. ASSUME NEW s \in SUBSET T, s # {}
        PROVE  g[s \ {Pick(s)}] = Table(f, s \ {Pick(s)})[s \ {Pick(s)}]
    <2> DEFINE r == s \ {Pick(s)}
    <2>1. Pick(s) \in s
      BY <1>4 DEF Pick
    <2>2. r \in SUBSET T /\ r # T
      BY <2>1
    <2>3. IsTable(Table(f, r), f, r)
      BY <1>3, <2>2
    <2>4. CASE r = {}
      BY <2>2, <2>3, <2>4 DEF IsTable
    <2>5. CASE r # {}
      <3>1. Pick(r) \in r
        BY <2>5 DEF Pick
      <3>2. r \ {Pick(r)} \in SUBSET T /\ r \ {Pick(r)} # T
        BY <2>2, <3>1
      <3>3. IsTable(Table(f, r \ {Pick(r)}), f, r \ {Pick(r)})
        BY <1>3, <3>2
      <3>4. Table(f, r)[r \ {Pick(r)}] = Table(f, r \ {Pick(r)})[r \ {Pick(r)}]
        <4> DEFINE q == r \ {Pick(r)}
        <4>1. r \in SUBSET S /\ q \in SUBSET S /\ q \in SUBSET (r \cap q)
          BY <2>2
        <4> HIDE DEF r, q
        <4>2. QED
          BY <2>3, <3>3, <4>1, TablesAgree, IsFiniteSet(S)
      <3>5. Table(f, r)[r] = f[Pick(r)] + Table(f, r)[r \ {Pick(r)}]
        BY <2>3, <2>5 DEF IsTable
      <3>6. g[r] = f[Pick(r)] + Table(f, r \ {Pick(r)})[r \ {Pick(r)}]
        BY <2>2, <2>5
      <3>7. QED
        BY <3>4, <3>5, <3>6
    <2>6. QED
      BY <2>4, <2>5
  <1>5. IsTable(g, f, T)
    BY <1>4 DEF IsTable
  <1>6. IsTable(Table(f, T), f, T)
    BY <1>5 DEF Table
  <1>7. QED
    BY <1>2, <1>6

\* Over nothing, the sum is zero.
LEMMA SumEmpty == \A f : SumFunctionOnSet(f, {}) = 0
  <1>1. SUFFICES ASSUME NEW f PROVE SumFunctionOnSet(f, {}) = 0
    OBVIOUS
  <1>2. IsTable(Table(f, {}), f, {})
    BY TableExists, FS_EmptySet
  <1>3. Table(f, {})[{}] = 0
    BY <1>2 DEF IsTable
  <1>4. QED
    BY <1>3, SumIsTable

\* The element that is picked first can be taken out of a sum.
LEMMA SumPick ==
    ASSUME NEW f, NEW S, IsFiniteSet(S), S # {}
    PROVE  SumFunctionOnSet(f, S) = f[Pick(S)] + SumFunctionOnSet(f, S \ {Pick(S)})
  <1> DEFINE r == S \ {Pick(S)}
  <1>1. IsTable(Table(f, S), f, S)
    BY TableExists
  <1>2. Table(f, S)[S] = f[Pick(S)] + Table(f, S)[r]
    BY <1>1 DEF IsTable
  <1>3. IsFiniteSet(r)
    BY FS_RemoveElement
  <1>4. IsTable(Table(f, r), f, r)
    BY <1>3, TableExists
  <1>5. r \in SUBSET S /\ S \in SUBSET S /\ r \in SUBSET (S \cap r)
    OBVIOUS
  <1>6. SumFunctionOnSet(f, S) = Table(f, S)[S] /\ SumFunctionOnSet(f, r) = Table(f, r)[r]
    BY SumIsTable
  <1> HIDE DEF r
  <1>7. Table(f, S)[r] = Table(f, r)[r]
    BY <1>1, <1>4, <1>5, TablesAgree
  <1>8. QED
    BY <1>2, <1>6, <1>7 DEF r

\* A sum of integers is an integer.
LEMMA SumInt ==
    ASSUME NEW f, NEW S, IsFiniteSet(S), \A x \in S : f[x] \in Int
    PROVE  SumFunctionOnSet(f, S) \in Int
  <1> DEFINE C == {U \in SUBSET S : SumFunctionOnSet(f, U) \notin Int}
  <1>1. SUFFICES ASSUME C # {} PROVE FALSE
    OBVIOUS
  <1>2. PICK T \in C : \A V \in C : V \subseteq T => V = T
    <2>1. C \subseteq SUBSET S
      OBVIOUS
    <2> HIDE DEF C
    <2>2. QED
      BY <1>1, <2>1, SmallestSubset
  <1>3. IsFiniteSet(T)
    BY FS_Subset
  <1>4. T # {}
    BY SumEmpty
  <1>5. Pick(T) \in T
    BY <1>4 DEF Pick
  <1>6. T \ {Pick(T)} \notin C
    BY <1>2, <1>5
  <1>7. SumFunctionOnSet(f, T \ {Pick(T)}) \in Int
    BY <1>6
  <1>8. SumFunctionOnSet(f, T) = f[Pick(T)] + SumFunctionOnSet(f, T \ {Pick(T)})
    BY <1>3, <1>4, SumPick
  <1>9. QED
    BY <1>5, <1>7, <1>8

\* A sum of naturals is a natural.
LEMMA SumNat ==
    ASSUME NEW f, NEW S, IsFiniteSet(S), \A x \in S : f[x] \in Nat
    PROVE  SumFunctionOnSet(f, S) \in Nat
  <1> DEFINE C == {U \in SUBSET S : SumFunctionOnSet(f, U) \notin Nat}
  <1>1. SUFFICES ASSUME C # {} PROVE FALSE
    OBVIOUS
  <1>2. PICK T \in C : \A V \in C : V \subseteq T => V = T
    <2>1. C \subseteq SUBSET S
      OBVIOUS
    <2> HIDE DEF C
    <2>2. QED
      BY <1>1, <2>1, SmallestSubset
  <1>3. IsFiniteSet(T)
    BY FS_Subset
  <1>4. T # {}
    BY SumEmpty
  <1>5. Pick(T) \in T
    BY <1>4 DEF Pick
  <1>6. T \ {Pick(T)} \notin C
    BY <1>2, <1>5
  <1>7. SumFunctionOnSet(f, T \ {Pick(T)}) \in Nat
    BY <1>6
  <1>8. SumFunctionOnSet(f, T) = f[Pick(T)] + SumFunctionOnSet(f, T \ {Pick(T)})
    BY <1>3, <1>4, SumPick
  <1>9. QED
    BY <1>5, <1>7, <1>8

\* Any element can be taken out of a sum of integers.
LEMMA SumTake ==
    ASSUME NEW f, NEW S, IsFiniteSet(S), \A x \in S : f[x] \in Int,
           NEW x \in S
    PROVE  SumFunctionOnSet(f, S) = f[x] + SumFunctionOnSet(f, S \ {x})
  <1> DEFINE C == {U \in SUBSET S : \E y \in U :
                      SumFunctionOnSet(f, U) # f[y] + SumFunctionOnSet(f, U \ {y})}
  <1>1. SUFFICES ASSUME C # {} PROVE FALSE
    OBVIOUS
  <1>2. PICK T \in C : \A V \in C : V \subseteq T => V = T
    <2>1. C \subseteq SUBSET S
      OBVIOUS
    <2> HIDE DEF C
    <2>2. QED
      BY <1>1, <2>1, SmallestSubset
  <1>3. PICK y \in T : SumFunctionOnSet(f, T) # f[y] + SumFunctionOnSet(f, T \ {y})
    OBVIOUS
  <1> DEFINE p == Pick(T)
             both == (T \ {p}) \ {y}
  <1>4. IsFiniteSet(T) /\ IsFiniteSet(T \ {p}) /\ IsFiniteSet(T \ {y}) /\ IsFiniteSet(both)
    BY FS_Subset
  <1>5. p \in T
    BY <1>3 DEF Pick
  <1>6. SumFunctionOnSet(f, T) = f[p] + SumFunctionOnSet(f, T \ {p})
    BY <1>3, <1>4, SumPick
  <1>7. p # y
    BY <1>3, <1>6
  <1>8. T \ {p} \notin C /\ T \ {y} \notin C
    BY <1>2, <1>3, <1>5
  <1>9. SumFunctionOnSet(f, T \ {p}) = f[y] + SumFunctionOnSet(f, both)
    BY <1>3, <1>7, <1>8
  <1>10. SumFunctionOnSet(f, T \ {y}) = f[p] + SumFunctionOnSet(f, both)
    <2>1. (T \ {y}) \ {p} = both
      OBVIOUS
    <2>2. QED
      BY <1>5, <1>7, <1>8, <2>1
  <1>11. f[p] \in Int /\ f[y] \in Int /\ SumFunctionOnSet(f, both) \in Int
    BY <1>3, <1>4, <1>5, SumInt
  <1>12. QED
    BY <1>3, <1>6, <1>9, <1>10, <1>11

\* An element that is added adds its value.
LEMMA SumAdd ==
    ASSUME NEW f, NEW S, IsFiniteSet(S), NEW x, x \notin S,
           \A y \in S \cup {x} : f[y] \in Int
    PROVE  SumFunctionOnSet(f, S \cup {x}) = SumFunctionOnSet(f, S) + f[x]
  <1>1. IsFiniteSet(S \cup {x})
    BY FS_AddElement
  <1>2. (S \cup {x}) \ {x} = S
    OBVIOUS
  <1>3. SumFunctionOnSet(f, S) \in Int
    BY SumInt
  <1>4. SumFunctionOnSet(f, S \cup {x}) = f[x] + SumFunctionOnSet(f, S)
    BY <1>1, <1>2, SumTake
  <1>5. QED
    BY <1>3, <1>4

\* Functions with the same values on a set have the same sum over it.
LEMMA SumSame ==
    ASSUME NEW f, NEW g, NEW S, IsFiniteSet(S), \A x \in S : f[x] = g[x]
    PROVE  SumFunctionOnSet(f, S) = SumFunctionOnSet(g, S)
  <1> DEFINE C == {U \in SUBSET S : SumFunctionOnSet(f, U) # SumFunctionOnSet(g, U)}
  <1>1. SUFFICES ASSUME C # {} PROVE FALSE
    OBVIOUS
  <1>2. PICK T \in C : \A V \in C : V \subseteq T => V = T
    <2>1. C \subseteq SUBSET S
      OBVIOUS
    <2> HIDE DEF C
    <2>2. QED
      BY <1>1, <2>1, SmallestSubset
  <1>3. IsFiniteSet(T)
    BY FS_Subset
  <1>4. T # {}
    BY SumEmpty
  <1>5. Pick(T) \in T
    BY <1>4 DEF Pick
  <1>6. T \ {Pick(T)} \notin C
    BY <1>2, <1>5
  <1>7. SumFunctionOnSet(f, T \ {Pick(T)}) = SumFunctionOnSet(g, T \ {Pick(T)})
    BY <1>6
  <1>8. /\ SumFunctionOnSet(f, T) = f[Pick(T)] + SumFunctionOnSet(f, T \ {Pick(T)})
        /\ SumFunctionOnSet(g, T) = g[Pick(T)] + SumFunctionOnSet(g, T \ {Pick(T)})
    BY <1>3, <1>4, SumPick
  <1>9. QED
    BY <1>5, <1>7, <1>8

\* Changing one value changes the sum by as much.
LEMMA SumChange ==
    ASSUME NEW f, NEW g, NEW S, IsFiniteSet(S), NEW x \in S,
           \A y \in S : f[y] \in Int, g[x] \in Int,
           \A y \in S \ {x} : g[y] = f[y]
    PROVE  SumFunctionOnSet(g, S) = SumFunctionOnSet(f, S) - f[x] + g[x]
  <1>1. IsFiniteSet(S \ {x})
    BY FS_RemoveElement
  <1>2. SumFunctionOnSet(f, S \ {x}) = SumFunctionOnSet(g, S \ {x})
    BY <1>1, SumSame
  <1>3. SumFunctionOnSet(f, S) = f[x] + SumFunctionOnSet(f, S \ {x})
    BY SumTake
  <1>4. SumFunctionOnSet(g, S) = g[x] + SumFunctionOnSet(g, S \ {x})
    <2>1. \A y \in S : g[y] \in Int
      OBVIOUS
    <2>2. QED
      BY <2>1, SumTake
  <1>5. SumFunctionOnSet(f, S \ {x}) \in Int
    BY <1>1, SumInt
  <1>6. QED
    BY <1>2, <1>3, <1>4, <1>5

-----------------------------------------------------------------------------
(* Sums that are compared, and places in an order.                         *)

\* Multiples that are ordered at every element are ordered as sums.
LEMMA SumWeighed ==
    ASSUME NEW f, NEW g, NEW S, IsFiniteSet(S), NEW p \in Int, NEW q \in Int,
           \A x \in S : f[x] \in Int /\ g[x] \in Int /\ p * f[x] <= q * g[x]
    PROVE  p * SumFunctionOnSet(f, S) <= q * SumFunctionOnSet(g, S)
  <1> DEFINE C == {U \in SUBSET S :
                      ~ (p * SumFunctionOnSet(f, U) <= q * SumFunctionOnSet(g, U))}
  <1>1. SUFFICES ASSUME C # {} PROVE FALSE
    OBVIOUS
  <1>2. PICK T \in C : \A V \in C : V \subseteq T => V = T
    <2>1. C \subseteq SUBSET S
      OBVIOUS
    <2> HIDE DEF C
    <2>2. QED
      BY <1>1, <2>1, SmallestSubset
  <1> DEFINE x == Pick(T)
             R == T \ {x}
  <1>3. IsFiniteSet(T) /\ IsFiniteSet(R)
    BY FS_Subset
  <1>4. T # {}
    <2>1. SUFFICES ASSUME T = {} PROVE FALSE
      OBVIOUS
    <2>2. SumFunctionOnSet(f, T) = 0 /\ SumFunctionOnSet(g, T) = 0
      BY <2>1, SumEmpty
    <2>3. ~ (p * SumFunctionOnSet(f, T) <= q * SumFunctionOnSet(g, T))
      OBVIOUS
    <2>4. ~ (p * 0 <= q * 0)
      BY <2>2, <2>3
    <2>5. QED
      BY <2>4
  <1>5. x \in T /\ x \in S
    BY <1>4 DEF Pick
  <1>6. R \notin C
    BY <1>2, <1>5
  <1>7. p * SumFunctionOnSet(f, R) <= q * SumFunctionOnSet(g, R)
    BY <1>6
  <1>8. /\ SumFunctionOnSet(f, T) = f[x] + SumFunctionOnSet(f, R)
        /\ SumFunctionOnSet(g, T) = g[x] + SumFunctionOnSet(g, R)
    BY <1>3, <1>4, SumPick
  <1>9. SumFunctionOnSet(f, R) \in Int /\ SumFunctionOnSet(g, R) \in Int
    BY <1>3, SumInt
  <1>10. f[x] \in Int /\ g[x] \in Int /\ p * f[x] <= q * g[x]
    BY <1>5
  <1> DEFINE sf == SumFunctionOnSet(f, R)
             sg == SumFunctionOnSet(g, R)
             fx == f[x]
             gx == g[x]
  <1>11. sf \in Int /\ sg \in Int /\ fx \in Int /\ gx \in Int /\ p * fx <= q * gx /\ p * sf <= q * sg
    BY <1>7, <1>9, <1>10
  <1>12. ~ (p * (fx + sf) <= q * (gx + sg))
    BY <1>8
  <1> HIDE DEF sf, sg, fx, gx
  <1>13. p * (fx + sf) = p * fx + p * sf /\ q * (gx + sg) = q * gx + q * sg
    BY <1>11, Distributed
  <1>14. p * fx \in Int /\ p * sf \in Int /\ q * gx \in Int /\ q * sg \in Int
    BY <1>11
  <1>15. QED
    BY <1>11, <1>12, <1>13, <1>14

\* A sum of nothings.
LEMMA SumZero ==
    ASSUME NEW f, NEW S, IsFiniteSet(S), \A x \in S : f[x] = 0
    PROVE  SumFunctionOnSet(f, S) = 0
  <1>1. PICK p \in Int, q \in Int : p = 1 /\ q = 0
    OBVIOUS
  <1>2. \A x \in S : f[x] \in Int /\ p * f[x] <= q * f[x]
    BY <1>1
  <1>3. p * SumFunctionOnSet(f, S) <= q * SumFunctionOnSet(f, S)
    BY <1>2, SumWeighed
  <1>4. SumFunctionOnSet(f, S) \in Nat
    BY SumNat
  <1>5. QED
    BY <1>1, <1>3, <1>4

\* h[x] is f[x] with q and g[x] on top.
Raised(f, g, h, q, S) ==
    \A x \in S : f[x] \in Int /\ g[x] \in Int /\ h[x] = f[x] + q + g[x]

\* What every element gets on top, and what some of them do.
LEMMA SumRaised ==
    ASSUME NEW f, NEW g, NEW h, NEW S, IsFiniteSet(S), NEW q \in Int,
           Raised(f, g, h, q, S)
    PROVE  SumFunctionOnSet(h, S) =
               SumFunctionOnSet(f, S) + Cardinality(S) * q + SumFunctionOnSet(g, S)
  <1> DEFINE C == {U \in SUBSET S : SumFunctionOnSet(h, U) #
                      SumFunctionOnSet(f, U) + Cardinality(U) * q + SumFunctionOnSet(g, U)}
  <1>1. SUFFICES ASSUME C # {} PROVE FALSE
    OBVIOUS
  <1>2. PICK T \in C : \A V \in C : V \subseteq T => V = T
    <2>1. C \subseteq SUBSET S
      OBVIOUS
    <2> HIDE DEF C
    <2>2. QED
      BY <1>1, <2>1, SmallestSubset
  <1> DEFINE x == Pick(T)
             R == T \ {x}
  <1>3. IsFiniteSet(T) /\ IsFiniteSet(R)
    BY FS_Subset
  <1>4. T # {}
    <2>1. SUFFICES ASSUME T = {} PROVE FALSE
      OBVIOUS
    <2>2. /\ SumFunctionOnSet(f, T) = 0 /\ SumFunctionOnSet(g, T) = 0
          /\ SumFunctionOnSet(h, T) = 0 /\ Cardinality(T) = 0
      BY <2>1, SumEmpty, FS_EmptySet
    <2>3. SumFunctionOnSet(h, T) #
              SumFunctionOnSet(f, T) + Cardinality(T) * q + SumFunctionOnSet(g, T)
      OBVIOUS
    <2>4. 0 # 0 + 0 * q + 0
      BY <2>2, <2>3
    <2>5. QED
      BY <2>4
  <1>5. x \in T /\ x \in S
    BY <1>4 DEF Pick
  <1>6. R \notin C
    BY <1>2, <1>5
  <1>7. SumFunctionOnSet(h, R) =
            SumFunctionOnSet(f, R) + Cardinality(R) * q + SumFunctionOnSet(g, R)
    BY <1>6
  <1>8. /\ SumFunctionOnSet(f, T) = f[x] + SumFunctionOnSet(f, R)
        /\ SumFunctionOnSet(g, T) = g[x] + SumFunctionOnSet(g, R)
        /\ SumFunctionOnSet(h, T) = h[x] + SumFunctionOnSet(h, R)
    BY <1>3, <1>4, SumPick
  <1>9. SumFunctionOnSet(f, R) \in Int /\ SumFunctionOnSet(g, R) \in Int
    <2>1. \A y \in R : f[y] \in Int /\ g[y] \in Int
      BY DEF Raised
    <2>2. QED
      BY <1>3, <2>1, SumInt
  <1>10. f[x] \in Int /\ g[x] \in Int /\ h[x] = f[x] + q + g[x]
    BY <1>5 DEF Raised
  <1>11. Cardinality(T) = Cardinality(R) + 1 /\ Cardinality(R) \in Nat
    <2>1. Cardinality(R) = Cardinality(T) - 1
      BY <1>3, <1>5, FS_RemoveElement
    <2>2. Cardinality(R) \in Nat /\ Cardinality(T) \in Nat
      BY <1>3, FS_CardinalityType
    <2>3. QED
      BY <2>1, <2>2
  <1>12. SumFunctionOnSet(h, T) #
            SumFunctionOnSet(f, T) + Cardinality(T) * q + SumFunctionOnSet(g, T)
    OBVIOUS
  <1> DEFINE sf == SumFunctionOnSet(f, R)
             sg == SumFunctionOnSet(g, R)
             n == Cardinality(R)
  <1>13. /\ sf \in Int /\ sg \in Int /\ n \in Nat
         /\ (f[x] + q + g[x]) + (sf + n * q + sg) # (f[x] + sf) + (n + 1) * q + (g[x] + sg)
    BY <1>7, <1>8, <1>9, <1>10, <1>11, <1>12
  <1> HIDE DEF sf, sg, n
  <1>14. (n + 1) * q = n * q + q /\ n * q \in Int
    BY <1>13
  <1>15. QED
    BY <1>10, <1>13, <1>14

\* b[x] are the elements of S that come before x, in some order of S.
OrdersBy(b, S) ==
    /\ b \in [S -> SUBSET S]
    /\ \A x \in S : x \notin b[x] /\ \A y \in b[x] : b[y] \subseteq b[x]
    /\ \A x, y \in S : x = y \/ x \in b[y] \/ y \in b[x]

\* Who comes later has more before it.
LEMMA PlacesGrow ==
    ASSUME NEW S, IsFiniteSet(S), NEW b, OrdersBy(b, S), NEW y \in S, NEW x \in b[y]
    PROVE  Cardinality(b[x]) < Cardinality(b[y])
  <1>1. x \in S /\ b[x] \subseteq b[y] /\ x \notin b[x] /\ b[y] \subseteq S
    BY DEF OrdersBy
  <1>2. IsFiniteSet(b[y])
    BY <1>1, FS_Subset
  <1>3. /\ IsFiniteSet(b[x])
        /\ Cardinality(b[x]) <= Cardinality(b[y])
        /\ Cardinality(b[y]) = Cardinality(b[x]) => b[y] = b[x]
    BY <1>1, <1>2, FS_Subset
  <1>4. Cardinality(b[x]) \in Nat /\ Cardinality(b[y]) \in Nat
    BY <1>2, <1>3, FS_CardinalityType
  <1>5. QED
    BY <1>1, <1>3, <1>4

\* Every place from the first to the last is taken, by one element.
HasPlaces(b, S) ==
    /\ Cardinality(S) \in Nat
    /\ \A x \in S : Cardinality(b[x]) \in 0..(Cardinality(S) - 1)
    /\ \A k \in 0..(Cardinality(S) - 1) : \E x \in S : Cardinality(b[x]) = k
    /\ \A x, y \in S : Cardinality(b[x]) = Cardinality(b[y]) => x = y

LEMMA PlacesTaken ==
    ASSUME NEW S, IsFiniteSet(S), NEW b, OrdersBy(b, S)
    PROVE  HasPlaces(b, S)
  <1> DEFINE n == Cardinality(S)
             D == 0..(n - 1)
             place == [x \in S |-> Cardinality(b[x])]
  <1>1. n \in Nat
    BY FS_CardinalityType
  <1>2. ASSUME NEW x \in S PROVE Cardinality(b[x]) \in D
    <2>1. b[x] \subseteq S \ {x}
      BY DEF OrdersBy
    <2>2. IsFiniteSet(S \ {x}) /\ Cardinality(S \ {x}) = n - 1
      BY FS_RemoveElement
    <2>3. IsFiniteSet(b[x]) /\ Cardinality(b[x]) <= n - 1
      BY <2>1, <2>2, FS_Subset
    <2>4. Cardinality(b[x]) \in Nat
      BY <2>3, FS_CardinalityType
    <2>5. QED
      BY <1>1, <2>3, <2>4
  <1>3. ASSUME NEW x \in S, NEW y \in S, Cardinality(b[x]) = Cardinality(b[y]) PROVE x = y
    <2>1. x \in b[y] => Cardinality(b[x]) < Cardinality(b[y])
      BY PlacesGrow
    <2>2. y \in b[x] => Cardinality(b[y]) < Cardinality(b[x])
      BY PlacesGrow
    <2>3. Cardinality(b[x]) \in Int /\ Cardinality(b[y]) \in Int
      BY <1>2
    <2>4. x = y \/ x \in b[y] \/ y \in b[x]
      BY DEF OrdersBy
    <2>5. QED
      BY <1>3, <2>1, <2>2, <2>3, <2>4
  <1>4. IsFiniteSet(D) /\ Cardinality(D) = n
    <2>1. 0 \in Int /\ n - 1 \in Int
      BY <1>1
    <2>2. IsFiniteSet(D) /\ Cardinality(D) = IF 0 > n - 1 THEN 0 ELSE (n - 1) - 0 + 1
      BY <2>1, FS_Interval
    <2>3. QED
      BY <1>1, <2>2
  <1>5. place \in Injection(S, D)
    BY <1>2, <1>3 DEF Injection, IsInjective
  <1> HIDE DEF D
  <1>6. place \in Surjection(S, D)
    BY <1>4, <1>5, FS_Injection
  <1>7. \A k \in D : \E x \in S : place[x] = k
    BY <1>6 DEF Surjection
  <1>8. QED
    BY <1>1, <1>2, <1>3, <1>7 DEF D, HasPlaces

\* As many elements as r have one of the first r places.
LEMMA FirstPlaces ==
    ASSUME NEW S, IsFiniteSet(S), NEW b, OrdersBy(b, S), NEW r \in 0..Cardinality(S),
           NEW g, \A x \in S : g[x] = IF Cardinality(b[x]) < r THEN 1 ELSE 0
    PROVE  SumFunctionOnSet(g, S) = r
  <1> DEFINE N == Cardinality(S)
             first(m) == [x \in S |-> IF Cardinality(b[x]) < m THEN 1 ELSE 0]
             A == {m \in 0..N : SumFunctionOnSet(first(m), S) = m}
  <1>1. /\ N \in Nat
        /\ \A x \in S : Cardinality(b[x]) \in 0..(N - 1)
        /\ \A k \in 0..(N - 1) : \E x \in S : Cardinality(b[x]) = k
        /\ \A x, y \in S : Cardinality(b[x]) = Cardinality(b[y]) => x = y
    BY PlacesTaken DEF HasPlaces
  <1>2. 0 \in A
    <2> DEFINE z == first(0)
    <2>1. \A x \in S : z[x] = 0
      BY <1>1
    <2>2. SumFunctionOnSet(z, S) = 0
      <3> HIDE DEF z
      <3>1. QED
        BY <2>1, SumZero
    <2>3. QED
      BY <1>1, <2>2
  <1>3. ASSUME NEW m \in 0..(N - 1), m \in A PROVE m + 1 \in A
    <2>1. PICK x \in S : Cardinality(b[x]) = m
      BY <1>1
    <2> DEFINE f == first(m)
               h == first(m + 1)
    <2>2. \A y \in S : f[y] \in Int
      OBVIOUS
    <2>3. m \in Int /\ f[x] = 0 /\ h[x] = 1
      BY <1>1, <2>1
    <2>4. \A y \in S \ {x} : h[y] = f[y]
      <3>1. SUFFICES ASSUME NEW y \in S \ {x} PROVE h[y] = f[y]
        OBVIOUS
      <3>2. Cardinality(b[y]) # m /\ Cardinality(b[y]) \in Int
        BY <1>1, <2>1
      <3>3. Cardinality(b[y]) < m + 1 <=> Cardinality(b[y]) < m
        BY <2>3, <3>2
      <3>4. QED
        BY <3>3
    <2>5. SumFunctionOnSet(f, S) = m
      BY <1>3
    <2>6. SumFunctionOnSet(h, S) = SumFunctionOnSet(f, S) - f[x] + h[x]
      <3> HIDE DEF f, h
      <3>1. h[x] \in Int
        BY <2>3
      <3>2. QED
        BY <2>1, <2>2, <2>4, <3>1, SumChange
    <2>7. SumFunctionOnSet(h, S) = m + 1
      <3> HIDE DEF f, h
      <3>1. QED
        BY <2>3, <2>5, <2>6
    <2>8. m + 1 \in 0..N
      BY <1>1
    <2>9. QED
      BY <2>7, <2>8
  <1>4. r \in A
    <2> HIDE DEF A
    <2>1. 0..N \subseteq A
      BY <1>1, <1>2, <1>3, CountUp
    <2>2. QED
      BY <2>1
  <1>5. SumFunctionOnSet(first(r), S) = r
    BY <1>4
  <1>6. \A x \in S : first(r)[x] = g[x]
    OBVIOUS
  <1> DEFINE fr == first(r)
  <1>7. SumFunctionOnSet(fr, S) = r /\ \A x \in S : fr[x] = g[x]
    BY <1>5, <1>6
  <1> HIDE DEF fr
  <1>8. QED
    BY <1>7, SumSame

-----------------------------------------------------------------------------
(* Sums over lists.                                                        *)

\* The sum of a list with one more member.
LEMMA SumNext ==
    ASSUME NEW f, NEW k \in Nat, \A i \in 1..(k + 1) : f[i] \in Int
    PROVE  /\ SumFunctionOnSet(f, 1..(k + 1)) = SumFunctionOnSet(f, 1..k) + f[k + 1]
           /\ SumFunctionOnSet(f, 1..k) \in Int
  <1> DEFINE S == 1..k
             x == k + 1
  <1>1. IsFiniteSet(S)
    BY FS_Interval
  <1>2. 1..(k + 1) = S \cup {x} /\ x \notin S
    OBVIOUS
  <1>3. \A y \in S \cup {x} : f[y] \in Int
    BY <1>2
  <1> HIDE DEF S, x
  <1>4. SumFunctionOnSet(f, S \cup {x}) = SumFunctionOnSet(f, S) + f[x]
    BY <1>1, <1>2, <1>3, SumAdd
  <1>5. SumFunctionOnSet(f, S) \in Int
    BY <1>1, <1>3, SumInt
  <1>6. QED
    BY <1>2, <1>4, <1>5 DEF S, x

\* at numbers the elements of P from 1 to m.
Numbers(at, m, P) ==
    /\ at \in [1..m -> P]
    /\ \A k, l \in 1..m : at[k] = at[l] => k = l
    /\ \A x \in P : \E k \in 1..m : at[k] = x

\* g has the integers that f has on P, numbered.
Relabels(g, f, at, m, P) ==
    /\ \A x \in P : f[x] \in Int
    /\ \A k \in 1..m : g[k] = f[at[k]]

\* The sum over a list whose members are those of a set, each once.
LEMMA SumListed ==
    ASSUME NEW m \in Nat, NEW P, IsFiniteSet(P), NEW at, Numbers(at, m, P),
           NEW f, NEW g, Relabels(g, f, at, m, P)
    PROVE  SumFunctionOnSet(g, 1..m) = SumFunctionOnSet(f, P)
  <1>0. /\ at \in [1..m -> P]
        /\ \A k, l \in 1..m : at[k] = at[l] => k = l
        /\ \A x \in P : \E k \in 1..m : at[k] = x
    BY DEF Numbers
  <1>00. (\A x \in P : f[x] \in Int) /\ (\A k \in 1..m : g[k] = f[at[k]])
    BY DEF Relabels
  <1> DEFINE Image(j) == {at[k] : k \in 1..j}
             A == {j \in 0..m : SumFunctionOnSet(g, 1..j) = SumFunctionOnSet(f, Image(j))}
  <1>1. 0 \in A
    <2>1. 1..0 = {} /\ Image(0) = {} /\ 0 \in 0..m
      OBVIOUS
    <2>2. SumFunctionOnSet(g, {}) = 0 /\ SumFunctionOnSet(f, {}) = 0
      BY SumEmpty
    <2>3. QED
      BY <2>1, <2>2
  <1>2. ASSUME NEW j \in 0..(m - 1), j \in A PROVE j + 1 \in A
    <2>1. j \in Nat /\ j + 1 \in 1..m /\ 1..j \subseteq 1..m
      OBVIOUS
    <2>2. \A i \in 1..(j + 1) : i \in 1..m /\ g[i] \in Int
      BY <1>0, <1>00, <2>1
    <2>3. SumFunctionOnSet(g, 1..(j + 1)) = SumFunctionOnSet(g, 1..j) + g[j + 1]
      BY <2>1, <2>2, SumNext
    <2>4. Image(j + 1) = Image(j) \cup {at[j + 1]}
      <3>1. 1..(j + 1) = 1..j \cup {j + 1}
        BY <2>1
      <3>2. QED
        BY <3>1
    <2>5. at[j + 1] \notin Image(j)
      <3>1. \A k \in 1..j : k \in 1..m /\ k # j + 1
        BY <2>1
      <3>2. QED
        BY <1>0, <2>1, <3>1
    <2>6. Image(j) \subseteq P /\ at[j + 1] \in P
      BY <1>0, <2>1
    <2> DEFINE I == Image(j)
               x == at[j + 1]
    <2>7. IsFiniteSet(I)
      BY <2>6, FS_Subset
    <2>8. x \notin I /\ \A y \in I \cup {x} : f[y] \in Int
      BY <1>00, <2>5, <2>6
    <2>9. SumFunctionOnSet(f, I \cup {x}) = SumFunctionOnSet(f, I) + f[x]
      <3> HIDE DEF I, x
      <3>1. QED
        BY <2>7, <2>8, SumAdd
    <2>10. g[j + 1] = f[x]
      BY <1>00, <2>1
    <2>11. SumFunctionOnSet(f, Image(j + 1)) = SumFunctionOnSet(f, Image(j)) + g[j + 1]
      BY <2>4, <2>9, <2>10
    <2>12. SumFunctionOnSet(g, 1..j) = SumFunctionOnSet(f, Image(j))
      BY <1>2
    <2>13. SumFunctionOnSet(g, 1..(j + 1)) = SumFunctionOnSet(f, Image(j + 1)) /\ j + 1 \in 0..m
      BY <2>1, <2>3, <2>11, <2>12
    <2> HIDE DEF Image
    <2>14. QED
      BY <2>13
  <1> HIDE DEF A
  <1>3. m \in A
    <2>1. 0..m \subseteq A
      BY <1>1, <1>2, CountUp
    <2>2. QED
      BY <2>1
  <1>4. Image(m) = P
    BY <1>0
  <1>5. QED
    BY <1>3, <1>4 DEF A

\* What is zero need not be added.
LEMMA SumWhere ==
    ASSUME NEW Q, IsFiniteSet(Q), NEW P \in SUBSET Q, NEW f, \A x \in Q : f[x] \in Int,
           \A x \in Q \ P : f[x] = 0
    PROVE  SumFunctionOnSet(f, Q) = SumFunctionOnSet(f, P)
  <1> DEFINE Z == Q \ P
             C == {R \in SUBSET Z : SumFunctionOnSet(f, P \cup R) # SumFunctionOnSet(f, P)}
  <1>1. SUFFICES ASSUME C # {} PROVE FALSE
    <2>1. P \cup Z = Q /\ Z \in SUBSET Z
      OBVIOUS
    <2>2. SumFunctionOnSet(f, P \cup Z) # SumFunctionOnSet(f, P) => Z \in C
      BY <2>1
    <2> HIDE DEF Z, C
    <2>3. QED
      BY <2>1, <2>2
  <1>2. IsFiniteSet(Z) /\ C \subseteq SUBSET Z
    BY FS_Subset
  <1>3. PICK R \in C : \A U \in C : U \subseteq R => U = R
    <2> HIDE DEF C, Z
    <2>1. \E R \in C : \A U \in C : U \subseteq R => U = R
      BY <1>1, <1>2, SmallestSubset
    <2>2. QED
      BY <2>1
  <1>4. R # {}
    <2>1. P \cup {} = P
      OBVIOUS
    <2>2. QED
      BY <2>1
  <1>5. PICK x \in R : TRUE
    BY <1>4
  <1>6. SumFunctionOnSet(f, P \cup (R \ {x})) = SumFunctionOnSet(f, P)
    <2>1. R \ {x} \notin C
      BY <1>3, <1>5
    <2>2. R \ {x} \in SUBSET Z
      OBVIOUS
    <2>3. QED
      BY <2>1, <2>2
  <1> DEFINE B == P \cup (R \ {x})
  <1>7. B \cup {x} = P \cup R /\ x \notin B /\ B \cup {x} \subseteq Q /\ f[x] = 0
    BY <1>5
  <1>8. IsFiniteSet(B)
    BY <1>7, FS_Subset
  <1>9. SumFunctionOnSet(f, B \cup {x}) = SumFunctionOnSet(f, B) + f[x]
    <2> HIDE DEF B
    <2>1. QED
      BY <1>7, <1>8, SumAdd
  <1>10. SumFunctionOnSet(f, B) \in Int
    <2> HIDE DEF B
    <2>1. QED
      BY <1>7, <1>8, SumInt
  <1>11. SumFunctionOnSet(f, P \cup R) # SumFunctionOnSet(f, P)
    BY <1>3
  <1>12. SumFunctionOnSet(f, P \cup R) = SumFunctionOnSet(f, B) + 0
    BY <1>7, <1>9
  <1> HIDE DEF C
  <1>13. QED
    BY <1>6, <1>10, <1>11, <1>12

\* A list that continues another.
Continues(g, f, m, h, n) ==
    /\ \A k \in 1..m : f[k] \in Int /\ g[k] = f[k]
    /\ \A k \in 1..n : h[k] \in Int /\ g[m + k] = h[k]

\* The sum over a list joined to another.
LEMMA SumJoined ==
    ASSUME NEW m \in Nat, NEW n \in Nat, NEW f, NEW h, NEW g, Continues(g, f, m, h, n)
    PROVE  SumFunctionOnSet(g, 1..(m + n)) = SumFunctionOnSet(f, 1..m) + SumFunctionOnSet(h, 1..n)
  <1>0. /\ \A k \in 1..m : f[k] \in Int /\ g[k] = f[k]
        /\ \A k \in 1..n : h[k] \in Int /\ g[m + k] = h[k]
    BY DEF Continues
  <1> DEFINE A == {j \in 0..n : SumFunctionOnSet(g, 1..(m + j))
                                  = SumFunctionOnSet(f, 1..m) + SumFunctionOnSet(h, 1..j)}
  <1>1. \A i \in 1..(m + n) : g[i] \in Int
    <2>1. ASSUME NEW i \in 1..(m + n) PROVE g[i] \in Int
      <3>1. CASE i <= m
        BY <1>0, <3>1
      <3>2. CASE i > m
        <4>1. i - m \in 1..n /\ m + (i - m) = i
          BY <3>2
        <4>2. QED
          BY <1>0, <4>1
      <3>3. QED
        BY <3>1, <3>2
    <2>2. QED
      BY <2>1
  <1>2. SumFunctionOnSet(f, 1..m) \in Int
    <2> DEFINE S == 1..m
    <2>1. IsFiniteSet(S) /\ \A x \in S : f[x] \in Int
      BY <1>0, FS_Interval
    <2> HIDE DEF S
    <2>2. SumFunctionOnSet(f, S) \in Int
      BY <2>1, SumInt
    <2>3. QED
      BY <2>2 DEF S
  <1>3. 0 \in A
    <2>1. SumFunctionOnSet(g, 1..m) = SumFunctionOnSet(f, 1..m)
      <3> DEFINE S == 1..m
      <3>1. IsFiniteSet(S) /\ \A x \in S : g[x] = f[x]
        BY <1>0, FS_Interval
      <3> HIDE DEF S
      <3>2. SumFunctionOnSet(g, S) = SumFunctionOnSet(f, S)
        BY <3>1, SumSame
      <3>3. QED
        BY <3>2 DEF S
    <2>2. 1..0 = {} /\ m + 0 = m /\ 0 \in 0..n
      OBVIOUS
    <2>3. SumFunctionOnSet(h, {}) = 0
      BY SumEmpty
    <2>4. QED
      BY <1>2, <2>1, <2>2, <2>3
  <1>4. ASSUME NEW j \in 0..(n - 1), j \in A PROVE j + 1 \in A
    <2>1. j \in Nat /\ m + j \in Nat /\ j + 1 \in 0..n /\ (m + j) + 1 = m + (j + 1)
      OBVIOUS
    <2>2. \A i \in 1..((m + j) + 1) : g[i] \in Int
      BY <1>1, <2>1
    <2>3. /\ SumFunctionOnSet(g, 1..((m + j) + 1)) = SumFunctionOnSet(g, 1..(m + j)) + g[(m + j) + 1]
          /\ SumFunctionOnSet(g, 1..(m + j)) \in Int
      BY <2>1, <2>2, SumNext
    <2>4. \A i \in 1..(j + 1) : h[i] \in Int
      BY <1>0, <2>1
    <2>5. /\ SumFunctionOnSet(h, 1..(j + 1)) = SumFunctionOnSet(h, 1..j) + h[j + 1]
          /\ SumFunctionOnSet(h, 1..j) \in Int
      BY <2>1, <2>4, SumNext
    <2>6. g[m + (j + 1)] = h[j + 1] /\ h[j + 1] \in Int
      BY <1>0, <2>1
    <2>7. QED
      BY <1>2, <1>4, <2>1, <2>3, <2>5, <2>6
  <1> HIDE DEF A
  <1>5. n \in A
    <2>1. 0..n \subseteq A
      BY <1>3, <1>4, CountUp
    <2>2. QED
      BY <2>1
  <1>6. QED
    BY <1>5 DEF A

-----------------------------------------------------------------------------
(* Filtered lists.                                                         *)

\* t lists the members of s at the places, each once and in their order.
Lists(t, s, places, m) ==
    /\ m \in Nat /\ m = Cardinality(places) /\ (places = {} <=> m = 0)
    /\ t = [k \in 1..m |-> t[k]] /\ Len(t) = m
    /\ \E at \in [1..m -> places] :
          /\ \A k \in 1..m : t[k] = s[at[k]]
          /\ \A k \in 1..m : Cardinality({j \in places : j < at[k]}) = k - 1
          /\ \A i \in places : \E k \in 1..m : at[k] = i

\* A filter lists what it lets through.
LEMMA ThoseAre ==
    ASSUME NEW n \in Nat, NEW places \in SUBSET (1..n), NEW s
    PROVE  Lists(Those(s, places), s, places, Cardinality(places))
  <1> DEFINE t == Those(s, places)
             m == Cardinality(places)
             b == [i \in places |-> {j \in places : j < i}]
             place(k) == CHOOSE i \in places : Cardinality({j \in places : j < i}) = k - 1
             at == [k \in 1..m |-> place(k)]
  <1>1. IsFiniteSet(places)
    <2>1. IsFiniteSet(1..n)
      BY FS_Interval
    <2> DEFINE D == 1..n
    <2>2. IsFiniteSet(D) /\ places \subseteq D
      BY <2>1
    <2> HIDE DEF D
    <2>3. QED
      BY <2>2, FS_Subset
  <1>2. m \in Nat /\ (places = {} <=> m = 0)
    <2>1. Cardinality(places) \in Nat /\ (Cardinality(places) = 0 <=> places = {})
      BY <1>1, FS_CardinalityType, FS_EmptySet
    <2>2. QED
      BY <2>1
  <1>3. /\ b \in [places -> SUBSET places]
        /\ \A i, j \in places : j \in b[i] <=> j < i
        /\ \A i \in places : b[i] = {j \in places : j < i}
        /\ \A i \in places : i \in Nat
    OBVIOUS
  <1> HIDE DEF b
  <1>4. OrdersBy(b, places)
    <2>1. ASSUME NEW x \in places PROVE x \notin b[x] /\ \A y \in b[x] : b[y] \subseteq b[x]
      <3>1. x \notin b[x]
        BY <1>3
      <3>2. ASSUME NEW y \in b[x], NEW z \in b[y] PROVE z \in b[x]
        <4>1. y \in places
          BY <1>3
        <4>2. z \in places
          BY <1>3, <4>1
        <4>3. y < x /\ z < y /\ x \in Nat /\ y \in Nat /\ z \in Nat
          BY <1>3, <3>2, <4>1, <4>2
        <4>4. z < x
          BY <4>3
        <4>5. QED
          BY <1>3, <4>2, <4>4
      <3>3. QED
        BY <3>1, <3>2
    <2>2. ASSUME NEW x \in places, NEW y \in places PROVE x = y \/ x \in b[y] \/ y \in b[x]
      BY <1>3
    <2>3. QED
      BY <1>3, <2>1, <2>2 DEF OrdersBy
  <1>5. /\ \A x \in places : Cardinality(b[x]) \in 0..(Cardinality(places) - 1)
        /\ \A k \in 0..(Cardinality(places) - 1) : \E x \in places : Cardinality(b[x]) = k
        /\ \A x, y \in places : Cardinality(b[x]) = Cardinality(b[y]) => x = y
    <2>1. HasPlaces(b, places)
      BY <1>1, <1>4, PlacesTaken
    <2>2. QED
      BY <2>1 DEF HasPlaces
  <1>8. ASSUME NEW k \in 1..m
        PROVE  place(k) \in places /\ Cardinality({j \in places : j < place(k)}) = k - 1
    <2>1. k - 1 \in 0..(m - 1)
      BY <1>2
    <2>2. PICK x \in places : Cardinality(b[x]) = k - 1
      BY <1>5, <2>1
    <2>3. Cardinality({j \in places : j < x}) = k - 1
      BY <1>3, <2>2
    <2>4. QED
      BY <2>3
  <1>9. t = [k \in 1..m |-> s[place(k)]]
    BY DEF Those
  <1> HIDE DEF place, t
  <1>10. /\ at \in [1..m -> places]
         /\ \A k \in 1..m : at[k] = place(k)
    BY <1>8
  <1> HIDE DEF at
  <1>11. \A k \in 1..m : t[k] = s[at[k]]
    BY <1>9, <1>10
  <1>12. \A k \in 1..m : Cardinality({j \in places : j < at[k]}) = k - 1
    BY <1>8, <1>10
  <1>13. ASSUME NEW i \in places PROVE \E k \in 1..m : at[k] = i
    <2> DEFINE k == Cardinality(b[i]) + 1
    <2>1. Cardinality(b[i]) \in 0..(m - 1)
      BY <1>5
    <2>2. k \in 1..m /\ k - 1 = Cardinality(b[i])
      BY <1>2, <2>1
    <2> HIDE DEF k, m
    <2>3. at[k] \in places /\ Cardinality({j \in places : j < at[k]}) = k - 1
      BY <1>10, <1>12, <2>2
    <2>4. Cardinality(b[at[k]]) = Cardinality(b[i])
      BY <1>3, <2>2, <2>3
    <2>5. at[k] = i
      BY <1>5, <2>3, <2>4
    <2>6. QED
      BY <2>2, <2>5
  <1>14. t = [k \in 1..m |-> t[k]]
    BY <1>9
  <1>15. Len(t) = m
    <2> HIDE DEF m
    <2>1. QED
      BY <1>2, <1>14, LengthOf
  <1>16. QED
    <2> HIDE DEF m
    <2>1. \E f \in [1..m -> places] :
             /\ \A k \in 1..m : t[k] = s[f[k]]
             /\ \A k \in 1..m : Cardinality({j \in places : j < f[k]}) = k - 1
             /\ \A i \in places : \E k \in 1..m : f[k] = i
      BY <1>10, <1>11, <1>12, <1>13
    <2>2. Lists(t, s, places, m)
      BY <1>2, <1>14, <1>15, <2>1 DEF m, Lists
    <2>3. QED
      BY <2>2 DEF m, t
=============================================================================
