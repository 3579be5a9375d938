--------------------------- MODULE MatcherProofs ---------------------------
(***************************************************************************)
(* Proofs about the batch matcher, for any kinds of intents, any batch and *)
(* any market makers of linear impact: that it clears fairly and that      *)
(* replays agree.  The first is an invariant of the loop that crosses the  *)
(* two sides, with a measure that shows that the loop ends; the second     *)
(* follows a batch in two orders through grouping, sorting and pricing, up *)
(* to lists that only differ where intents are alike.  Of a market maker   *)
(* nothing is used but that its prices are naturals (PriceIsNat).          *)
(***************************************************************************)
EXTENDS IntentBatch, SharedLemmas, SequenceTheorems, TLAPS

-----------------------------------------------------------------------------
(* What is picked of a list, in whatever order.                            *)

\* What the matcher takes for an intent.
Intent == [signer : Nat, in_mint : Nat, in_amount : Nat, out_mint : Nat, nonce : Nat]

\* t lists the members of s at the places in P, each once, in any order.
Picks(t, s, P) ==
    /\ t \in Seq(Intent)
    /\ \E at : Numbers(at, Len(t), P) /\ \A k \in 1..Len(t) : t[k] = s[at[k]]

\* A filter picks what it lets through.
LEMMA ThosePick ==
    ASSUME NEW s \in Seq(Intent), NEW places \in SUBSET (1..Len(s))
    PROVE  Picks(Those(s, places), s, places)
  <1> DEFINE t == Those(s, places)
             m == Cardinality(places)
             n == Len(s)
  <1>1. n \in Nat /\ places \in SUBSET (1..n) /\ \A i \in 1..n : s[i] \in Intent
    OBVIOUS
  <1> HIDE DEF n
  <1>2. Lists(t, s, places, m)
    BY <1>1, ThoseAre
  <1> HIDE DEF t, m
  <1>3. /\ m \in Nat /\ t = [k \in 1..m |-> t[k]] /\ Len(t) = m
        /\ \E at \in [1..m -> places] :
              /\ \A k \in 1..m : t[k] = s[at[k]]
              /\ \A k \in 1..m : Cardinality({j \in places : j < at[k]}) = k - 1
              /\ \A i \in places : \E k \in 1..m : at[k] = i
    BY <1>2 DEF Lists
  <1>4. PICK at \in [1..m -> places] :
              /\ \A k \in 1..m : t[k] = s[at[k]]
              /\ \A k \in 1..m : Cardinality({j \in places : j < at[k]}) = k - 1
              /\ \A i \in places : \E k \in 1..m : at[k] = i
    BY <1>3
  <1>5. ASSUME NEW k \in 1..m, NEW l \in 1..m, at[k] = at[l] PROVE k = l
    <2>1. k - 1 = l - 1
      BY <1>4, <1>5
    <2>2. QED
      BY <2>1
  <1>6. \A k \in 1..m : t[k] \in Intent
    <2>1. ASSUME NEW k \in 1..m PROVE t[k] \in Intent
      <3>1. at[k] \in 1..n
        BY <1>1
      <3>2. t[k] = s[at[k]]
        BY <1>4
      <3>3. s[at[k]] \in Intent
        BY ONLY <1>1, <3>1
      <3>4. QED
        BY ONLY <3>2, <3>3
    <2>2. QED
      BY <2>1
  <1>7. t \in Seq(Intent)
    <2> HIDE DEF m
    <2>1. m \in Nat /\ t = [k \in 1..m |-> t[k]]
      BY <1>3
    <2>2. t \in [1..m -> Intent]
      BY ONLY <2>1, <1>6
    <2>3. QED
      BY ONLY <2>1, <2>2, SeqDef
  <1>8. Numbers(at, m, places) /\ \A k \in 1..m : t[k] = s[at[k]]
    BY <1>4, <1>5 DEF Numbers
  <1>9. Picks(t, s, places)
    BY <1>3, <1>7, <1>8 DEF Picks
  <1>10. QED
    BY <1>9 DEF t

\* The places in P where t is in T.
Where(t, P, T) == {p \in P : t[p] \in T}

\* What is picked of what was picked.
LEMMA PicksOfPicks ==
    ASSUME NEW s, NEW P, NEW t, Picks(t, s, P), NEW T \in SUBSET Intent,
           NEW u, Picks(u, t, Where(t, 1..Len(t), T))
    PROVE  Picks(u, s, Where(s, P, T))
  <1> DEFINE Q == {k \in 1..Len(t) : t[k] \in T}
             R == {p \in P : s[p] \in T}
             m == Len(t)
             n == Len(u)
  <1>01. PICK a : Numbers(a, m, P) /\ \A k \in 1..m : t[k] = s[a[k]]
    BY DEF Picks
  <1>1. /\ a \in [1..m -> P]
        /\ \A k \in 1..m : t[k] = s[a[k]]
        /\ \A k, l \in 1..m : a[k] = a[l] => k = l
        /\ \A p \in P : \E k \in 1..m : a[k] = p
    BY <1>01 DEF Numbers
  <1>001. Where(t, 1..Len(t), T) = Q /\ Where(s, P, T) = R
    BY DEF Where
  <1>02. PICK b : Numbers(b, n, Q) /\ \A k \in 1..n : u[k] = t[b[k]]
    BY <1>001 DEF Picks
  <1>2. /\ b \in [1..n -> Q]
        /\ \A k \in 1..n : u[k] = t[b[k]]
        /\ \A k, l \in 1..n : b[k] = b[l] => k = l
        /\ \A q \in Q : \E k \in 1..n : b[k] = q
    BY <1>02 DEF Numbers
  <1>3. u \in Seq(Intent)
    BY DEF Picks
  <1>4. \A q \in Q : q \in 1..m /\ t[q] \in T
    OBVIOUS
  <1> HIDE DEF n, m
  <1> DEFINE c == [k \in 1..n |-> a[b[k]]]
  <1>5. \A k \in 1..n : b[k] \in 1..m /\ c[k] = a[b[k]] /\ a[b[k]] \in P /\ t[b[k]] \in T
    BY <1>1, <1>2, <1>4
  <1>6. \A k \in 1..n : u[k] = s[c[k]] /\ c[k] \in R
    BY <1>1, <1>2, <1>5
  <1>7. c \in [1..n -> R]
    BY <1>6
  <1>8. ASSUME NEW k \in 1..n, NEW l \in 1..n, c[k] = c[l] PROVE k = l
    <2>1. a[b[k]] = a[b[l]] /\ b[k] \in 1..m /\ b[l] \in 1..m
      BY <1>5, <1>8
    <2>2. b[k] = b[l]
      BY <1>1, <2>1
    <2>3. QED
      BY <1>2, <2>2
  <1>9. ASSUME NEW p \in R PROVE \E k \in 1..n : c[k] = p
    <2>1. PICK q \in 1..m : a[q] = p
      BY <1>1
    <2>2. q \in Q
      <3>1. t[q] = s[p]
        BY <1>1, <2>1
      <3>2. QED
        BY <3>1 DEF m
    <2>3. PICK k \in 1..n : b[k] = q
      BY <1>2, <2>2
    <2>4. c[k] = p
      BY <1>5, <2>1, <2>3
    <2>5. QED
      BY <2>4
  <1> HIDE DEF c, R
  <1>10. Numbers(c, n, R) /\ \A k \in 1..n : u[k] = s[c[k]]
    BY <1>6, <1>7, <1>8, <1>9 DEF Numbers
  <1>11. Picks(u, s, R)
    BY <1>3, <1>10 DEF Picks, n
  <1>12. QED
    BY <1>001, <1>11

\* What is picked of a list in another order is picked of the list.
LEMMA PicksReordered ==
    ASSUME NEW s, NEW n \in Nat, NEW f \in [1..n -> 1..n],
           \A i \in 1..n : \E j \in 1..n : f[j] = i,
           NEW T, NEW r, r = [i \in 1..n |-> s[f[i]]], NEW t, Picks(t, r, Where(r, 1..n, T))
    PROVE  Picks(t, s, Where(s, 1..n, T))
  <1> DEFINE S == 1..n
             Q == {i \in S : s[f[i]] \in T}
             R == {i \in S : s[i] \in T}
             m == Len(t)
  <1>1. IsFiniteSet(S)
    BY FS_Interval
  <1>2. \A i, j \in S : f[i] = f[j] => i = j
    <2> HIDE DEF S
    <2>1. f \in Surjection(S, S)
      BY DEF Surjection, S
    <2>2. f \in Injection(S, S)
      BY <1>1, <2>1, FS_SurjSameCardinalityImpliesInj
    <2>3. QED
      BY <2>2 DEF Injection, IsInjective
  <1>001. Where(r, 1..n, T) = Q /\ Where(s, 1..n, T) = R
    BY DEF Where
  <1>03. PICK b : Numbers(b, m, Q) /\ \A k \in 1..m : t[k] = r[b[k]]
    BY <1>001 DEF Picks
  <1>3. /\ b \in [1..m -> Q]
        /\ \A k \in 1..m : t[k] = r[b[k]]
        /\ \A k, l \in 1..m : b[k] = b[l] => k = l
        /\ \A q \in Q : \E k \in 1..m : b[k] = q
    BY <1>03 DEF Numbers
  <1>4. t \in Seq(Intent)
    BY DEF Picks
  <1>5. \A q \in Q : q \in S /\ s[f[q]] \in T /\ f[q] \in S
    OBVIOUS
  <1> HIDE DEF m
  <1> DEFINE c == [k \in 1..m |-> f[b[k]]]
  <1>6. \A k \in 1..m : b[k] \in S /\ c[k] = f[b[k]] /\ c[k] \in R /\ t[k] = s[c[k]]
    BY <1>3, <1>5
  <1>7. c \in [1..m -> R]
    BY <1>6
  <1>8. ASSUME NEW k \in 1..m, NEW l \in 1..m, c[k] = c[l] PROVE k = l
    <2>1. f[b[k]] = f[b[l]] /\ b[k] \in S /\ b[l] \in S
      BY <1>6, <1>8
    <2> HIDE DEF S
    <2>2. b[k] = b[l]
      BY <1>2, <2>1
    <2>3. QED
      BY <1>3, <2>2
  <1>9. ASSUME NEW p \in R PROVE \E k \in 1..m : c[k] = p
    <2>1. PICK q \in S : f[q] = p
      OBVIOUS
    <2>2. q \in Q
      BY <2>1
    <2>3. PICK k \in 1..m : b[k] = q
      BY <1>3, <2>2
    <2>4. c[k] = p
      BY <1>6, <2>1, <2>3
    <2>5. QED
      BY <2>4
  <1> HIDE DEF c, R
  <1>10. Numbers(c, m, R) /\ \A k \in 1..m : t[k] = s[c[k]]
    BY <1>6, <1>7, <1>8, <1>9 DEF Numbers
  <1>11. Picks(t, s, R)
    BY <1>4, <1>10 DEF Picks, m
  <1>12. QED
    BY <1>001, <1>11

\* A sum over intents, weighed, and the same over the places they were picked at.
Total(t, w) == SumFunctionOnSet([k \in 1..Len(t) |-> w[t[k]]], 1..Len(t))

\* The two sums are the same, whatever order the members were picked in.
LEMMA PickSum ==
    ASSUME NEW s \in Seq(Intent), NEW P \in SUBSET (1..Len(s)), NEW t, Picks(t, s, P),
           NEW w \in [Intent -> Int]
    PROVE  Total(t, w) = SumFunctionOnSet([i \in 1..Len(s) |-> w[s[i]]], P)
  <1> DEFINE m == Len(t)
             f == [i \in 1..Len(s) |-> w[s[i]]]
             g == [k \in 1..m |-> w[t[k]]]
             D == 1..Len(s)
  <1>1. t \in Seq(Intent) /\ m \in Nat /\ Len(s) \in Nat
    BY DEF Picks
  <1>2. IsFiniteSet(D) /\ P \in SUBSET D
    BY <1>1, FS_Interval
  <1>3. IsFiniteSet(P)
    <2> HIDE DEF D
    <2>1. QED
      BY <1>2, FS_Subset
  <1>4. PICK at : Numbers(at, m, P) /\ \A k \in 1..m : t[k] = s[at[k]]
    BY DEF Picks
  <1>5. \A x \in P : f[x] \in Int
    BY <1>1
  <1>6. \A k \in 1..m : g[k] = f[at[k]]
    <2>1. \A k \in 1..m : at[k] \in P
      BY <1>4 DEF Numbers
    <2>2. QED
      BY <1>4, <2>1
  <1> HIDE DEF m, f, g
  <1>7. Relabels(g, f, at, m, P) /\ Numbers(at, m, P) /\ IsFiniteSet(P) /\ m \in Nat
    BY <1>1, <1>3, <1>4, <1>5, <1>6 DEF Relabels
  <1>71. SumFunctionOnSet(g, 1..m) = SumFunctionOnSet(f, P)
    BY ONLY <1>7, SumListed
  <1>8. QED
    BY <1>71 DEF Total, m, f, g

-----------------------------------------------------------------------------
(* Sorting by size (size_priority).                                        *)

\* By size and signer, as an order.
SameKey(a, b) == a.in_amount = b.in_amount /\ a.signer = b.signer

\* BySize is a strict weak order: ties, and only they, have one key.
LEMMA BySizeOrders ==
    ASSUME NEW a \in Intent, NEW b \in Intent, NEW c \in Intent
    PROVE  /\ ~(BySize(a, b) /\ BySize(b, a))
           /\ BySize(a, b) /\ BySize(b, c) => BySize(a, c)
           /\ BySize(a, b) /\ ~BySize(c, b) => BySize(a, c)
           /\ ~BySize(b, a) /\ BySize(b, c) => BySize(a, c)
           /\ ~BySize(a, b) /\ ~BySize(b, a) <=> SameKey(a, b)
  <1>1. /\ a.in_amount \in Nat /\ a.signer \in Nat
        /\ b.in_amount \in Nat /\ b.signer \in Nat
        /\ c.in_amount \in Nat /\ c.signer \in Nat
    BY DEF Intent
  <1>4. ~(BySize(a, b) /\ BySize(b, a))
    BY <1>1 DEF BySize, SameKey
  <1>5. BySize(a, b) /\ BySize(b, c) => BySize(a, c)
    BY <1>1 DEF BySize, SameKey
  <1>6. BySize(a, b) /\ ~BySize(c, b) => BySize(a, c)
    BY <1>1 DEF BySize, SameKey
  <1>7. ~BySize(b, a) /\ BySize(b, c) => BySize(a, c)
    BY <1>1 DEF BySize, SameKey
  <1>8. ~BySize(a, b) /\ ~BySize(b, a) <=> SameKey(a, b)
    BY <1>1 DEF BySize, SameKey
  <1>9. QED
    BY <1>4, <1>5, <1>6, <1>7, <1>8

\* No later one goes before an earlier one.
Sized(u) == \A k, l \in 1..Len(u) : k < l => ~BySize(u[l], u[k])

\* The stable sort picks all, largest first.
LEMMA SizePicks ==
    ASSUME NEW s \in Seq(Intent)
    PROVE  Picks(SizePriority(s), s, 1..Len(s)) /\ Sized(SizePriority(s))
  <1> DEFINE n == Len(s)
             S == 1..n
             u == SizePriority(s)
             Goes(i, j) == BySize(s[i], s[j]) \/ (~BySize(s[j], s[i]) /\ i < j)
             b == [j \in S |-> {i \in S : Goes(i, j)}]
             at(k) == CHOOSE j \in S : Cardinality({i \in S : Goes(i, j)}) = k - 1
  <1>1. n \in Nat /\ DOMAIN s = S /\ \A i \in S : s[i] \in Intent /\ i \in Nat
    OBVIOUS
  <1>2. IsFiniteSet(S) /\ Cardinality(S) = n
    <2> HIDE DEF n
    <2>1. IsFiniteSet(1..n) /\ Cardinality(1..n) = IF 1 > n THEN 0 ELSE n - 1 + 1
      BY <1>1, FS_Interval
    <2>2. QED
      BY <1>1, <2>1
  <1>3. u = [k \in S |-> s[at(k)]]
    BY <1>1 DEF SizePriority
  <1>4. /\ b \in [S -> SUBSET S]
        /\ \A i, j \in S : i \in b[j] <=> Goes(i, j)
        /\ \A j \in S : b[j] = {i \in S : Goes(i, j)}
    OBVIOUS
  <1>5. ASSUME NEW x \in S, NEW y \in S, NEW z \in S
        PROVE  /\ ~Goes(x, x)
               /\ Goes(z, y) /\ Goes(y, x) => Goes(z, x)
               /\ x = y \/ Goes(x, y) \/ Goes(y, x)
    <2>1. s[x] \in Intent /\ s[y] \in Intent /\ s[z] \in Intent
          /\ x \in Nat /\ y \in Nat /\ z \in Nat
      BY <1>1
    <2>2. ~BySize(s[x], s[x])
      BY <2>1, BySizeOrders
    <2>3. /\ BySize(s[z], s[y]) /\ BySize(s[y], s[x]) => BySize(s[z], s[x])
          /\ BySize(s[z], s[y]) /\ ~BySize(s[x], s[y]) => BySize(s[z], s[x])
          /\ ~BySize(s[y], s[z]) /\ BySize(s[y], s[x]) => BySize(s[z], s[x])
      BY <2>1, BySizeOrders
    <2>4. BySize(s[x], s[z]) /\ ~BySize(s[y], s[z]) => BySize(s[x], s[y])
      BY <2>1, BySizeOrders
    <2>5. /\ ~(BySize(s[x], s[y]) /\ BySize(s[y], s[x]))
          /\ ~(BySize(s[x], s[z]) /\ BySize(s[z], s[x]))
          /\ ~(BySize(s[z], s[y]) /\ BySize(s[y], s[z]))
      BY <2>1, BySizeOrders
    <2>6. (z < y /\ y < x => z < x) /\ ~(x < x) /\ (x = y \/ x < y \/ y < x)
      BY <2>1
    <2>7. QED
      BY <2>2, <2>3, <2>4, <2>5, <2>6
  <1> HIDE DEF Goes, b, S, n
  <1>6. OrdersBy(b, S)
    <2>1. ASSUME NEW x \in S PROVE x \notin b[x] /\ \A y \in b[x] : b[y] \subseteq b[x]
      <3>1. ASSUME NEW y \in b[x], NEW z \in b[y] PROVE z \in b[x]
        <4>1. y \in S /\ z \in S
          BY <1>4
        <4>2. Goes(y, x) /\ Goes(z, y)
          BY <1>4, <4>1
        <4>3. Goes(z, x)
          BY <1>5, <4>1, <4>2
        <4>4. QED
          BY <1>4, <4>1, <4>3
      <3>2. QED
        BY <1>4, <1>5, <3>1
    <2>2. ASSUME NEW x \in S, NEW y \in S PROVE x = y \/ x \in b[y] \/ y \in b[x]
      BY <1>4, <1>5
    <2>3. QED
      BY <1>4, <2>1, <2>2 DEF OrdersBy
  <1>7. /\ \A j \in S : Cardinality(b[j]) \in 0..(n - 1)
        /\ \A k \in 0..(n - 1) : \E j \in S : Cardinality(b[j]) = k
        /\ \A i, j \in S : Cardinality(b[i]) = Cardinality(b[j]) => i = j
    <2>1. /\ \A j \in S : Cardinality(b[j]) \in 0..(Cardinality(S) - 1)
          /\ \A k \in 0..(Cardinality(S) - 1) : \E j \in S : Cardinality(b[j]) = k
          /\ \A i, j \in S : Cardinality(b[i]) = Cardinality(b[j]) => i = j
      BY <1>2, <1>6, PlacesTaken DEF HasPlaces
    <2>2. QED
      BY <1>2, <2>1
  <1>8. ASSUME NEW k \in S
        PROVE  at(k) \in S /\ Cardinality(b[at(k)]) = k - 1 /\ u[k] = s[at(k)]
    <2>1. k - 1 \in 0..(n - 1)
      BY <1>1 DEF S
    <2>2. PICK j \in S : Cardinality(b[j]) = k - 1
      BY <1>7, <2>1
    <2>3. Cardinality({i \in S : Goes(i, j)}) = k - 1
      BY <1>4, <2>2
    <2>4. at(k) \in S /\ Cardinality({i \in S : Goes(i, at(k))}) = k - 1
      BY <2>3
    <2>5. u[k] = s[at(k)]
      BY <1>3
    <2> HIDE DEF at
    <2>6. QED
      BY <1>4, <2>4, <2>5
  <1> HIDE DEF at, u
  <1>9. u = [k \in S |-> u[k]] /\ \A k \in S : u[k] \in Intent
    BY <1>1, <1>3, <1>8
  <1>10. u \in Seq(Intent) /\ Len(u) = n
    BY <1>1, <1>9 DEF S
  <1> DEFINE a == [k \in S |-> at(k)]
  <1>11. \A k \in S : a[k] \in S /\ Cardinality(b[a[k]]) = k - 1 /\ u[k] = s[a[k]]
    BY <1>8
  <1>12. a \in [S -> S]
    BY <1>8
  <1> HIDE DEF a
  <1>13. Numbers(a, n, S)
    <2>1. ASSUME NEW k \in S, NEW l \in S, a[k] = a[l] PROVE k = l
      <3>1. k - 1 = l - 1 /\ k \in Nat /\ l \in Nat
        BY <1>1, <1>11, <2>1
      <3>2. QED
        BY <3>1
    <2>2. ASSUME NEW x \in S PROVE \E k \in S : a[k] = x
      <3> DEFINE k == Cardinality(b[x]) + 1
      <3>1. Cardinality(b[x]) \in 0..(n - 1)
        BY <1>7
      <3>2. k \in S /\ k - 1 = Cardinality(b[x])
        BY <1>1, <3>1 DEF S
      <3> HIDE DEF k
      <3>3. a[k] = x
        BY <1>7, <1>11, <3>2
      <3>4. QED
        BY <3>2, <3>3
    <2>3. QED
      BY <1>12, <2>1, <2>2 DEF Numbers, S
  <1>14. Picks(u, s, S)
    BY <1>10, <1>11, <1>13 DEF Picks, S
  <1>15. ASSUME NEW k \in S, NEW l \in S, k < l PROVE ~BySize(u[l], u[k])
    <2>1. a[k] \in S /\ a[l] \in S /\ u[k] = s[a[k]] /\ u[l] = s[a[l]]
          /\ Cardinality(b[a[k]]) = k - 1 /\ Cardinality(b[a[l]]) = l - 1
      BY <1>11
    <2>2. k \in Nat /\ l \in Nat
      BY <1>1
    <2>3. a[l] \notin b[a[k]]
      <3>1. a[l] \in b[a[k]] => Cardinality(b[a[l]]) < Cardinality(b[a[k]])
        BY <1>2, <1>6, <2>1, PlacesGrow
      <3>2. QED
        BY <1>15, <2>1, <2>2, <3>1
    <2>4. ~Goes(a[l], a[k])
      BY <1>4, <2>1, <2>3
    <2>5. QED
      BY <2>1, <2>4 DEF Goes
  <1>16. Sized(u)
    BY <1>10, <1>15 DEF Sized, S
  <1>17. QED
    BY <1>14, <1>16 DEF u, S, n

\* As many numbers as elements.
LEMMA CountNumbers ==
    ASSUME NEW m \in Nat, NEW P, NEW at, Numbers(at, m, P)
    PROVE  Cardinality(P) = m
  <1>1. /\ at \in [1..m -> P]
        /\ \A k, l \in 1..m : at[k] = at[l] => k = l
        /\ \A x \in P : \E k \in 1..m : at[k] = x
    BY DEF Numbers
  <1> DEFINE S == 1..m
  <1>2. at \in Bijection(S, P)
    BY <1>1 DEF Bijection, Injection, Surjection, IsInjective
  <1>3. ExistsBijection(1..m, P)
    BY <1>2 DEF ExistsBijection
  <1>4. QED
    BY <1>3, FS_CountingElements

\* u is a sorted list of the members of s that a numbers.
SortedList(u, s, a, n, P) ==
    /\ Numbers(a, n, P)
    /\ \A k \in 1..n : u[k] = s[a[k]] /\ u[k] \in Intent
    /\ \A k, l \in 1..n : k < l => ~BySize(u[l], u[k])

\* Of two sorted lists of the same intents, neither has at a place one that goes
\* before the other's: too many would go before that.
LEMMA NoneFirst ==
    ASSUME NEW n \in Nat, NEW P, IsFiniteSet(P), NEW s,
           NEW u, NEW a, SortedList(u, s, a, n, P), NEW v, NEW b, SortedList(v, s, b, n, P),
           NEW k \in 1..n
    PROVE  ~BySize(u[k], v[k])
  <1>1. SUFFICES ASSUME BySize(u[k], v[k]) PROVE FALSE
    OBVIOUS
  <1>2. /\ a \in [1..n -> P]
        /\ \A i, j \in 1..n : a[i] = a[j] => i = j
        /\ b \in [1..n -> P]
        /\ \A x \in P : \E j \in 1..n : b[j] = x
        /\ \A i \in 1..n : u[i] = s[a[i]] /\ u[i] \in Intent /\ v[i] = s[b[i]] /\ v[i] \in Intent
        /\ \A i, j \in 1..n : i < j => ~BySize(u[j], u[i]) /\ ~BySize(v[j], v[i])
    BY DEF Numbers, SortedList
  <1> DEFINE S == 1..k
             T == 1..(k - 1)
             back(x) == CHOOSE j \in 1..n : b[j] = x
             f == [i \in S |-> back(a[i])]
  <1>3. \A x \in P : back(x) \in 1..n /\ b[back(x)] = x
    BY <1>2
  <1>4. S \subseteq 1..n /\ k \in Nat /\ k - 1 \in Nat /\ \A i \in S : i \in 1..n /\ a[i] \in P
    BY <1>2
  <1> HIDE DEF back
  <1>5. ASSUME NEW i \in S PROVE f[i] \in T /\ f[i] \in 1..n /\ b[f[i]] = a[i]
    <2>1. f[i] \in 1..n /\ b[f[i]] = a[i] /\ i \in 1..n
      BY <1>3, <1>4
    <2> HIDE DEF f
    <2>2. v[f[i]] = u[i]
      <3>1. v[f[i]] = s[b[f[i]]] /\ u[i] = s[a[i]]
        BY <1>2, <2>1
      <3>2. QED
        BY <2>1, <3>1
    <2>3. BySize(u[i], v[k])
      <3>1. CASE i = k
        BY <1>1, <3>1
      <3>2. CASE i # k
        <4>1. i < k
          BY <1>4, <3>2
        <4>2. ~BySize(u[k], u[i])
          BY <1>2, <2>1, <4>1
        <4>3. u[i] \in Intent /\ u[k] \in Intent /\ v[k] \in Intent
          BY <1>2, <2>1
        <4>4. QED
          BY <1>1, <4>2, <4>3, BySizeOrders
      <3>3. QED
        BY <3>1, <3>2
    <2>4. ~(k < f[i])
      <3>1. k < f[i] => ~BySize(v[f[i]], v[k])
        BY <1>2, <2>1
      <3>2. QED
        BY <2>2, <2>3, <3>1
    <2>5. f[i] # k
      <3>1. v[k] \in Intent
        BY <1>2
      <3>2. ~BySize(v[k], v[k])
        BY <3>1, BySizeOrders
      <3>3. QED
        BY <2>2, <2>3, <3>2
    <2>6. f[i] \in T
      BY <1>4, <2>1, <2>4, <2>5
    <2>7. QED
      BY <2>1, <2>6
  <1>6. f \in [S -> T]
    BY <1>5
  <1>7. ASSUME NEW i \in S, NEW j \in S, f[i] = f[j] PROVE i = j
    <2>1. a[i] = a[j]
      BY <1>5, <1>7
    <2>2. QED
      BY <1>2, <1>4, <2>1
  <1>8. /\ IsFiniteSet(S) /\ Cardinality(S) = k
        /\ IsFiniteSet(T) /\ Cardinality(T) = k - 1
    <2>1. IsFiniteSet(1..k) /\ Cardinality(1..k) = IF 1 > k THEN 0 ELSE k - 1 + 1
      BY <1>4, FS_Interval
    <2>2. IsFiniteSet(1..(k - 1)) /\ Cardinality(1..(k - 1)) = IF 1 > k - 1 THEN 0 ELSE (k - 1) - 1 + 1
      BY <1>4, FS_Interval
    <2>3. QED
      BY <1>4, <2>1, <2>2
  <1> HIDE DEF S, T, f
  <1>9. Cardinality(T) < Cardinality(S)
    BY <1>4, <1>8
  <1>10. \E x, y \in S : x # y /\ f[x] = f[y]
    BY <1>6, <1>8, <1>9, FS_PigeonHole
  <1>11. QED
    BY <1>7, <1>10

\* Two sorted lists of the same intents have the same keys at every place.
LEMMA SameKeys ==
    ASSUME NEW s \in Seq(Intent), NEW P \in SUBSET (1..Len(s)),
           NEW u, Picks(u, s, P), Sized(u), NEW v, Picks(v, s, P), Sized(v)
    PROVE  Len(u) = Len(v) /\ \A k \in 1..Len(u) : SameKey(u[k], v[k])
  <1> DEFINE n == Len(u)
             D == 1..Len(s)
  <1>1. u \in Seq(Intent) /\ v \in Seq(Intent) /\ n \in Nat /\ Len(v) \in Nat
    BY DEF Picks
  <1>2. IsFiniteSet(P)
    <2>1. IsFiniteSet(D) /\ P \in SUBSET D
      BY FS_Interval
    <2> HIDE DEF D
    <2>2. QED
      BY <2>1, FS_Subset
  <1>3. PICK a : Numbers(a, n, P) /\ \A k \in 1..n : u[k] = s[a[k]]
    BY DEF Picks
  <1>4. PICK b : Numbers(b, Len(v), P) /\ \A k \in 1..Len(v) : v[k] = s[b[k]]
    BY DEF Picks
  <1>5. n = Cardinality(P) /\ Len(v) = Cardinality(P)
    BY <1>1, <1>3, <1>4, CountNumbers
  <1>6. /\ \A k \in 1..n : u[k] \in Intent /\ v[k] \in Intent
        /\ \A k, l \in 1..n : k < l => ~BySize(u[l], u[k])
        /\ \A k, l \in 1..n : k < l => ~BySize(v[l], v[k])
        /\ Numbers(b, n, P) /\ \A k \in 1..n : v[k] = s[b[k]]
    BY <1>1, <1>4, <1>5 DEF Sized
  <1> HIDE DEF n
  <1>7. ASSUME NEW k \in 1..n PROVE ~BySize(u[k], v[k]) /\ ~BySize(v[k], u[k])
    <2>1. SortedList(u, s, a, n, P) /\ SortedList(v, s, b, n, P)
      BY <1>3, <1>6 DEF SortedList
    <2>2. ~BySize(u[k], v[k])
      BY <1>1, <1>2, <2>1, NoneFirst
    <2>3. ~BySize(v[k], u[k])
      BY <1>1, <1>2, <2>1, NoneFirst
    <2>4. QED
      BY <2>2, <2>3
  <1>8. ASSUME NEW k \in 1..n PROVE SameKey(u[k], v[k])
    BY <1>6, <1>7, BySizeOrders
  <1>9. QED
    BY <1>5, <1>8 DEF n

-----------------------------------------------------------------------------
(* What a cross costs.                                                     *)

\* Multiples of a positive number are ordered as what they are multiples of.
LEMMA Cancelled ==
    ASSUME NEW a \in Nat, NEW b \in Nat, NEW c \in Nat \ {0}
    PROVE  /\ c * a <= c * b => a <= b
           /\ c * a < c * b => a < b
           /\ a * c = c * a /\ c * a \in Nat
  <1>1. c * a \in Nat /\ c * b \in Nat /\ a * c = c * a
    OBVIOUS
  <1>2. ASSUME b < a PROVE c * b < c * a
    <2>1. b + 1 <= a /\ b + 1 \in Nat
      BY <1>2
    <2>2. (b + 1) * c <= a * c
      BY <2>1, Products
    <2>3. (b + 1) * c = b * c + c
      OBVIOUS
    <2>4. QED
      BY <2>2, <2>3
  <1>3. a = b => c * a = c * b
    OBVIOUS
  <1>4. QED
    BY <1>1, <1>2, <1>3

\* What a cross of so many base units costs at a price: at least its worth, less
\* than a quote unit more, and no more than the buyer has if that buys so many.
LEMMA CrossCosts ==
    ASSUME NEW bid \in Nat, NEW price \in Nat, NEW base \in Nat \ {0},
           base <= QuoteToBase(bid, price)
    PROVE  LET q == BaseToQuoteCeil(base, price)
           IN  /\ q \in Nat \ {0} /\ q <= bid
               /\ q * One >= base * price
               /\ (q - 1) * One < base * price
               /\ base = QuoteToBase(bid, price) => QuoteToBase(bid - q, price) = 0
  <1> DEFINE cap == (bid * One) \div price
             worth == base * price
             w == worth \div One
             r == (worth % One)
             q == BaseToQuoteCeil(base, price)
  <1>1. One \in Nat \ {0}
    BY MatcherAssumption
  <1>2. price # 0 /\ base <= cap
    BY DEF QuoteToBase
  <1>3. bid * One \in Nat /\ worth \in Nat
    BY <1>1
  <1>4. cap \in Nat /\ bid * One < (cap + 1) * price /\ cap * price <= bid * One
    BY <1>2, <1>3, QuotientBounds
  <1>5. w \in Nat /\ r \in 0..One /\ worth = One * w + r
    BY <1>1, <1>3, Divided
  <1>6. r < One
    BY <1>1, <1>3
  <1>7. q = w + (IF r # 0 THEN 1 ELSE 0)
    BY DEF BaseToQuoteCeil
  <1>8. worth <= cap * price /\ worth > 0
    <2>1. base * price <= cap * price
      BY <1>2, <1>4, Products
    <2>2. 1 * price <= base * price
      <3>1. 1 \in Nat /\ 1 <= base
        OBVIOUS
      <3>2. QED
        BY <3>1, Products
    <2>3. 1 * price = price
      OBVIOUS
    <2>4. QED
      BY <1>2, <2>1, <2>2, <2>3
  <1> HIDE DEF q, w, r, worth, cap
  <1>9. q \in Nat
    BY <1>5, <1>7
  <1>10. One * q = One * w + (IF r # 0 THEN One ELSE 0)
    <2>1. CASE r # 0
      <3>1. One * (w + 1) = One * w + One * 1
        BY <1>1, <1>5, Distributed
      <3>2. One * 1 = One
        BY <1>1
      <3>3. QED
        BY <1>7, <2>1, <3>1, <3>2
    <2>2. CASE r = 0
      <3>1. q = w /\ One * w \in Nat
        BY <1>1, <1>5, <1>7, <2>2
      <3>2. QED
        BY <2>2, <3>1
    <2>3. QED
      BY <2>1, <2>2
  <1>11. /\ One * q \in Nat /\ q * One = One * q /\ One * w \in Nat
         /\ One * bid \in Nat /\ One * bid = bid * One
    BY <1>1, <1>5, <1>9
  <1>12. One * q >= worth /\ One * q < worth + One
    BY <1>1, <1>5, <1>6, <1>10, <1>11
  <1>13. q # 0
    <2>1. One * 0 = 0
      BY <1>1
    <2>2. QED
      BY <1>3, <1>8, <1>12, <2>1
  <1>14. (q - 1) * One = One * q - One
    BY <1>1, <1>9, <1>13
  <1>15. q <= bid
    <2>1. worth <= One * bid
      BY <1>3, <1>4, <1>8, <1>11
    <2>2. One * q < One * bid + One
      BY <1>1, <1>3, <1>11, <1>12, <2>1
    <2>3. One * (bid + 1) = One * bid + One
      BY <1>1
    <2>4. One * q < One * (bid + 1)
      BY <2>2, <2>3
    <2>5. bid + 1 \in Nat
      OBVIOUS
    <2>6. q < bid + 1
      BY <1>1, <1>9, <2>4, <2>5, Cancelled
    <2>7. QED
      BY <1>9, <2>6
  <1>16. ASSUME base = cap PROVE QuoteToBase(bid - q, price) = 0
    <2>1. (bid - q) * One = bid * One - q * One /\ bid - q \in Nat
      BY <1>1, <1>9, <1>15
    <2>2. (cap + 1) * price = cap * price + price /\ cap * price \in Nat
      BY <1>4
    <2>3. worth = cap * price
      BY <1>16 DEF worth
    <2> DEFINE rest == (bid - q) * One
    <2>4. rest \in Nat
      BY <1>1, <2>1
    <2>5. rest < price
      BY <1>3, <1>4, <1>11, <1>12, <2>1, <2>2, <2>3
    <2> HIDE DEF rest
    <2>6. rest \div price = 0
      BY <1>2, <2>4, <2>5
    <2>7. QED
      BY <1>2, <2>6 DEF QuoteToBase, rest
  <1>17. base = QuoteToBase(bid, price) => base = cap
    BY <1>2 DEF QuoteToBase, cap
  <1>18. QED
    BY <1>1, <1>3, <1>9, <1>11, <1>12, <1>13, <1>14, <1>15, <1>16, <1>17 DEF q, worth

\* A price or an amount makes a number of base units.
LEMMA BaseIsNat ==
    ASSUME NEW a \in Nat, NEW price \in Nat
    PROVE  QuoteToBase(a, price) \in Nat /\ QuoteToBase(0, price) = 0
  <1>1. a * One \in Nat /\ 0 * One = 0
    BY MatcherAssumption
  <1>2. CASE price = 0
    BY <1>2 DEF QuoteToBase
  <1>3. CASE price # 0
    <2>1. (a * One) \div price \in Nat /\ 0 \div price = 0
      BY <1>1, <1>3
    <2>2. QED
      BY <1>1, <1>3, <2>1 DEF QuoteToBase
  <1>4. QED
    BY <1>2, <1>3

-----------------------------------------------------------------------------
(* The loop of clear_pair, and its invariant: takers are counted, what was *)
(* taken is in hand, crossed or in the residual, every cross is fairly     *)
(* priced, and a buyer who could still buy was given up for want of sells. *)

\* What the loop writes down of a cross (Match), and the state it passes on.
Crossing == [buyer : Nat, seller : Nat, base_amount : Nat, quote_amount : Nat]

LoopState == [bought : Nat, sold : Nat, bid : Nat, ask : Nat,
              matches : Seq(Crossing), residual : Seq(Intent), done : BOOLEAN]

\* What a signer brings of a mint, pays and delivers, as weights of intents and
\* of matches.
Brings(x, mint) ==
    [i \in Intent |-> IF i.signer = x /\ i.in_mint = mint THEN i.in_amount ELSE 0]
Pays(x) == [m \in Crossing |-> IF m.buyer = x THEN m.quote_amount ELSE 0]
Delivers(x) == [m \in Crossing |-> IF m.seller = x THEN m.base_amount ELSE 0]

\* They are weights, of intents and of matches.
LEMMA Weights ==
    ASSUME NEW x, NEW mint
    PROVE  /\ Brings(x, mint) \in [Intent -> Int] /\ Pays(x) \in [Crossing -> Int]
           /\ Delivers(x) \in [Crossing -> Int]
  BY DEF Brings, Pays, Delivers, Intent, Crossing

\* The weight of the first k members.
Upto(t, w, k) == SumFunctionOnSet([i \in 1..Len(t) |-> w[t[i]]], 1..k)

\* One member more.
LEMMA UptoNext ==
    ASSUME NEW S, NEW t \in Seq(S), NEW w \in [S -> Int], NEW k \in Nat, k < Len(t)
    PROVE  /\ Upto(t, w, k + 1) = Upto(t, w, k) + w[t[k + 1]]
           /\ Upto(t, w, k) \in Int /\ w[t[k + 1]] \in Int
  <1> DEFINE f == [i \in 1..Len(t) |-> w[t[i]]]
  <1>1. \A i \in 1..Len(t) : t[i] \in S /\ f[i] = w[t[i]] /\ f[i] \in Int
    OBVIOUS
  <1>2. \A i \in 1..(k + 1) : i \in 1..Len(t)
    OBVIOUS
  <1> HIDE DEF f
  <1>3. \A i \in 1..(k + 1) : f[i] \in Int
    BY <1>1, <1>2
  <1>4. /\ SumFunctionOnSet(f, 1..(k + 1)) = SumFunctionOnSet(f, 1..k) + f[k + 1]
        /\ SumFunctionOnSet(f, 1..k) \in Int
    BY <1>3, SumNext
  <1>5. k + 1 \in 1..Len(t)
    OBVIOUS
  <1>6. f[k + 1] = w[t[k + 1]] /\ f[k + 1] \in Int
    BY <1>1, <1>5
  <1>7. QED
    BY <1>4, <1>6 DEF Upto, f

\* No member at all.
LEMMA UptoNone == ASSUME NEW t, NEW w PROVE Upto(t, w, 0) = 0
  <1>1. 1..0 = {}
    OBVIOUS
  <1>2. QED
    BY <1>1, SumEmpty DEF Upto

\* A list joined to another.
LEMMA TotalJoined ==
    ASSUME NEW S, NEW t \in Seq(S), NEW u \in Seq(S), NEW w \in [S -> Int]
    PROVE  Total(t \o u, w) = Total(t, w) + Total(u, w) /\ Total(t, w) \in Int
  <1> DEFINE m == Len(t)
             n == Len(u)
             v == t \o u
             f == [k \in 1..m |-> w[t[k]]]
             h == [k \in 1..n |-> w[u[k]]]
             g == [k \in 1..(m + n) |-> w[v[k]]]
  <1>1. m \in Nat /\ n \in Nat /\ Len(v) = m + n
    OBVIOUS
  <1>2. \A k \in 1..m : k \in 1..(m + n) /\ v[k] = t[k] /\ t[k] \in S
    BY <1>1
  <1>3. \A k \in 1..n : m + k \in 1..(m + n) /\ v[m + k] = u[k] /\ u[k] \in S
    BY <1>1
  <1>4. \A k \in 1..m : f[k] \in Int /\ g[k] = f[k]
    BY <1>2
  <1>5. \A k \in 1..n : h[k] \in Int /\ g[m + k] = h[k]
    BY <1>3
  <1> HIDE DEF f, g, h
  <1>51. Continues(g, f, m, h, n)
    BY <1>4, <1>5 DEF Continues
  <1>6. SumFunctionOnSet(g, 1..(m + n)) = SumFunctionOnSet(f, 1..m) + SumFunctionOnSet(h, 1..n)
    <2> HIDE DEF m, n
    <2>1. QED
      BY <1>1, <1>51, SumJoined
  <1>7. SumFunctionOnSet(f, 1..m) \in Int
    <2> DEFINE D == 1..m
    <2>1. IsFiniteSet(D)
      BY <1>1, FS_Interval
    <2>2. \A k \in D : f[k] \in Int
      BY <1>4
    <2> HIDE DEF D
    <2>3. SumFunctionOnSet(f, D) \in Int
      BY <2>1, <2>2, SumInt
    <2>4. QED
      BY <2>3 DEF D
  <1>8. Total(v, w) = SumFunctionOnSet(g, 1..(m + n))
    BY <1>1 DEF Total, g
  <1>9. QED
    BY <1>6, <1>7, <1>8 DEF Total, f, h

\* One more member.
LEMMA TotalAppend ==
    ASSUME NEW S, NEW t \in Seq(S), NEW e \in S, NEW w \in [S -> Int]
    PROVE  Total(Append(t, e), w) = Total(t, w) + w[e] /\ Total(t, w) \in Int
  <1> DEFINE u == Append(t, e)
             k == Len(t)
  <1>1. u \in Seq(S) /\ k \in Nat /\ Len(u) = k + 1 /\ u[k + 1] = e
        /\ \A i \in 1..k : u[i] = t[i] /\ t[i] \in S
    OBVIOUS
  <1> HIDE DEF u
  <1>2. Upto(u, w, k + 1) = Upto(u, w, k) + w[u[k + 1]] /\ Upto(u, w, k) \in Int
    BY <1>1, UptoNext
  <1>3. Upto(u, w, k) = Total(t, w)
    <2> DEFINE f == [i \in 1..Len(u) |-> w[u[i]]]
               g == [i \in 1..k |-> w[t[i]]]
               D == 1..k
    <2>1. IsFiniteSet(D)
      BY <1>1, FS_Interval
    <2>2. \A i \in D : f[i] = g[i]
      BY <1>1
    <2> HIDE DEF f, g, D
    <2>3. SumFunctionOnSet(f, D) = SumFunctionOnSet(g, D)
      BY <2>1, <2>2, SumSame
    <2>4. QED
      BY <2>3 DEF Upto, Total, f, g, D
  <1>4. Total(u, w) = Upto(u, w, k + 1)
    BY <1>1 DEF Total, Upto
  <1>5. QED
    BY <1>1, <1>2, <1>3, <1>4 DEF u

\* A total is a number.
LEMMA TotalInt ==
    ASSUME NEW S, NEW t \in Seq(S), NEW w \in [S -> Int]
    PROVE  Total(t, w) \in Int
  BY TotalJoined

\* The two sides of a pair, as the loop gets them.
Sides(bids, asks, pair) ==
    /\ bids \in Seq(Intent) /\ asks \in Seq(Intent)
    /\ \A k \in 1..Len(bids) : IsBuy(bids[k], pair)
    /\ \A k \in 1..Len(asks) : IsSell(asks[k], pair)
    /\ Sized(asks)

\* What is in hand of the last that was taken.
InHand(side, k, left, x) == IF k > 0 /\ side[k].signer = x THEN left ELSE 0

\* How far the sides were taken; what is in hand, and what was matched, was taken;
\* and the loop ends only when a side is used up.
Counted(s, bids, asks) ==
    /\ s.bought <= Len(bids) /\ s.sold <= Len(asks)
    /\ s.bid > 0 => s.bought > 0
    /\ s.ask > 0 => s.sold > 0
    /\ s.matches # <<>> => s.sold > 0
    /\ s.done => s.bid = 0 /\ (s.bought = Len(bids) \/ (s.ask = 0 /\ s.sold = Len(asks)))

\* What was taken is in hand, in the residual, or crossed.
Balanced(s, bids, asks, pair) ==
    \A x \in Nat :
        /\ Upto(bids, Brings(x, pair[2]), s.bought)
             = InHand(bids, s.bought, s.bid, x) + Total(s.residual, Brings(x, pair[2]))
               + Total(s.matches, Pays(x))
        /\ Upto(asks, Brings(x, pair[1]), s.sold)
             = InHand(asks, s.sold, s.ask, x) + Total(s.matches, Delivers(x))

\* A match at the price, rounded up by less than one quote unit.
FairAt(m, price) ==
    /\ m.base_amount > 0
    /\ m.quote_amount * One >= m.base_amount * price
    /\ (m.quote_amount - 1) * One < m.base_amount * price

\* So it is of every match yet.
Priced(s, price) == \A k \in 1..Len(s.matches) : FairAt(s.matches[k], price)

\* Of the sells nothing is left.
SoldOut(s, asks) ==
    s.ask = 0 /\ \A j \in 1..Len(asks) : j > s.sold => asks[j].in_amount = 0

\* A buy that could still be crossed was given up for want of sells only.
Barred(s, asks, pair, price) ==
    \A k \in 1..Len(s.residual) :
        /\ IsBuy(s.residual[k], pair)
        /\ QuoteToBase(s.residual[k].in_amount, price) > 0 => SoldOut(s, asks)

\* The invariant of the loop of clear_pair.
LoopOK(bids, asks, pair, price) ==
    {s \in LoopState : /\ Counted(s, bids, asks)
                       /\ Balanced(s, bids, asks, pair)
                       /\ Priced(s, price)
                       /\ Barred(s, asks, pair, price)}

\* It holds before the first pass.
LEMMA StartOK ==
    ASSUME NEW bids, NEW asks, NEW pair, NEW price, Sides(bids, asks, pair)
    PROVE  LoopStart \in LoopOK(bids, asks, pair, price)
  <1> DEFINE s == LoopStart
  <1>1. /\ s.bought = 0 /\ s.sold = 0 /\ s.bid = 0 /\ s.ask = 0
        /\ s.matches = <<>> /\ s.residual = <<>> /\ s.done = FALSE
    BY DEF LoopStart
  <1>2. s \in LoopState
    BY DEF LoopStart, LoopState
  <1>3. Len(bids) \in Nat /\ Len(asks) \in Nat /\ 1..Len(<<>>) = {}
    BY DEF Sides
  <1> HIDE DEF s
  <1>4. Counted(s, bids, asks)
    BY <1>1, <1>3 DEF Counted
  <1>5. ASSUME NEW w PROVE Total(<<>>, w) = 0
    BY <1>3, SumEmpty DEF Total
  <1>6. Balanced(s, bids, asks, pair)
    BY <1>1, <1>5, UptoNone DEF Balanced, InHand
  <1>7. Priced(s, price) /\ Barred(s, asks, pair, price)
    BY <1>1, <1>3 DEF Priced, Barred
  <1>8. QED
    BY <1>2, <1>4, <1>6, <1>7 DEF LoopOK, s

\* The next buyer, when one is left.
LEMMA BuyerTaken ==
    ASSUME NEW bids, NEW asks, NEW pair, NEW price, Sides(bids, asks, pair),
           NEW s \in LoopOK(bids, asks, pair, price), ~s.done,
           s.bid > 0 \/ s.bought # Len(bids)
    PROVE  LET b == NextBuyer(s, bids)
           IN  /\ b \in LoopOK(bids, asks, pair, price) /\ ~b.done
               /\ b.bought > 0 /\ b.ask = s.ask /\ b.sold = s.sold
  <1> DEFINE b == NextBuyer(s, bids)
             k == s.bought + 1
  <1>1. s \in LoopState /\ Counted(s, bids, asks) /\ Balanced(s, bids, asks, pair)
        /\ Priced(s, price) /\ Barred(s, asks, pair, price)
    BY DEF LoopOK
  <1>2. CASE s.bid > 0
    <2>1. b = s
      BY <1>2 DEF NextBuyer
    <2>2. s.bought > 0
      BY <1>1, <1>2 DEF Counted
    <2>3. QED
      BY <2>1, <2>2
  <1>3. CASE ~(s.bid > 0)
    <2>1. /\ s.bought \in Nat /\ s.sold \in Nat /\ s.bid = 0 /\ s.ask \in Nat
          /\ s.matches \in Seq(Crossing) /\ s.residual \in Seq(Intent) /\ s.done \in BOOLEAN
      BY <1>1, <1>3 DEF LoopState
    <2>2. s.bought < Len(bids) /\ Len(bids) \in Nat /\ k \in 1..Len(bids) /\ k \in Nat
      BY <1>1, <1>3, <2>1 DEF Counted, Sides
    <2>3. bids \in Seq(Intent) /\ bids[k] \in Intent /\ IsBuy(bids[k], pair)
      BY <2>2 DEF Sides
    <2>4. bids[k].in_amount \in Nat /\ bids[k].in_mint = pair[2]
      BY <2>3 DEF Intent, IsBuy
    <2>5. /\ b.bought = k /\ b.bid = bids[k].in_amount /\ b.sold = s.sold /\ b.ask = s.ask
          /\ b.matches = s.matches /\ b.residual = s.residual /\ b.done = s.done
          /\ b \in LoopState
      BY <1>1, <1>3, <2>1, <2>2, <2>4 DEF NextBuyer, LoopState
    <2> HIDE DEF b
    <2>6. Counted(b, bids, asks)
      BY <1>1, <2>1, <2>2, <2>4, <2>5 DEF Counted
    <2>7. Balanced(b, bids, asks, pair)
      <3>1. ASSUME NEW x \in Nat
            PROVE  Upto(bids, Brings(x, pair[2]), k)
                     = InHand(bids, k, b.bid, x) + Total(s.residual, Brings(x, pair[2]))
                       + Total(s.matches, Pays(x))
        <4> DEFINE w == Brings(x, pair[2])
                   rest == Total(s.residual, w)
                   paid == Total(s.matches, Pays(x))
        <4>01. w \in [Intent -> Int]
          BY Weights
        <4>1. Upto(bids, w, k) = Upto(bids, w, s.bought) + w[bids[k]] /\ w[bids[k]] \in Int
          <5> HIDE DEF w
          <5>1. QED
            BY <2>1, <2>2, <2>3, <4>01, UptoNext
        <4>2. Upto(bids, w, s.bought) = InHand(bids, s.bought, s.bid, x) + rest + paid
          BY <1>1 DEF Balanced
        <4>3. InHand(bids, s.bought, s.bid, x) = 0
          BY <2>1 DEF InHand
        <4>4. w[bids[k]] = InHand(bids, k, b.bid, x)
          BY <2>2, <2>3, <2>4, <2>5 DEF InHand, Brings
        <4>5. rest \in Int /\ paid \in Int
          BY <2>1, Weights, TotalInt
        <4> HIDE DEF w, rest, paid
        <4>6. Upto(bids, w, k) = InHand(bids, k, b.bid, x) + rest + paid
          BY <4>1, <4>2, <4>3, <4>4, <4>5
        <4>7. QED
          BY <4>6 DEF w, rest, paid
      <3>2. QED
        BY <1>1, <2>5, <3>1 DEF Balanced
    <2>8. Priced(b, price) /\ Barred(b, asks, pair, price)
      BY <1>1, <2>5 DEF Priced, Barred, SoldOut
    <2>9. b \in LoopOK(bids, asks, pair, price)
      BY <2>5, <2>6, <2>7, <2>8 DEF LoopOK
    <2>10. QED
      BY <2>1, <2>2, <2>5, <2>9 DEF b
  <1>4. QED
    BY <1>2, <1>3

\* The next seller, when one is left.
LEMMA SellerTaken ==
    ASSUME NEW bids, NEW asks, NEW pair, NEW price, Sides(bids, asks, pair),
           NEW s \in LoopOK(bids, asks, pair, price), ~s.done,
           s.ask > 0 \/ s.sold # Len(asks)
    PROVE  LET b == NextSeller(s, asks)
           IN  /\ b \in LoopOK(bids, asks, pair, price) /\ ~b.done
               /\ b.sold > 0 /\ b.bid = s.bid /\ b.bought = s.bought
               /\ b.ask = 0 => SoldOut(b, asks)
  <1> DEFINE b == NextSeller(s, asks)
             k == s.sold + 1
  <1>1. s \in LoopState /\ Counted(s, bids, asks) /\ Balanced(s, bids, asks, pair)
        /\ Priced(s, price) /\ Barred(s, asks, pair, price)
    BY DEF LoopOK
  <1>2. CASE s.ask > 0
    <2>1. b = s /\ s.ask # 0
      BY <1>1, <1>2 DEF NextSeller, LoopState
    <2>2. s.sold > 0
      BY <1>1, <1>2 DEF Counted
    <2>3. QED
      BY <2>1, <2>2
  <1>3. CASE ~(s.ask > 0)
    <2>1. /\ s.bought \in Nat /\ s.sold \in Nat /\ s.ask = 0 /\ s.bid \in Nat
          /\ s.matches \in Seq(Crossing) /\ s.residual \in Seq(Intent) /\ s.done \in BOOLEAN
      BY <1>1, <1>3 DEF LoopState
    <2>2. s.sold < Len(asks) /\ Len(asks) \in Nat /\ k \in 1..Len(asks) /\ k \in Nat
      BY <1>1, <1>3, <2>1 DEF Counted, Sides
    <2>3. asks \in Seq(Intent) /\ asks[k] \in Intent /\ IsSell(asks[k], pair)
      BY <2>2 DEF Sides
    <2>4. asks[k].in_amount \in Nat /\ asks[k].in_mint = pair[1]
      BY <2>3 DEF Intent, IsSell
    <2>5. /\ b.sold = k /\ b.ask = asks[k].in_amount /\ b.bought = s.bought /\ b.bid = s.bid
          /\ b.matches = s.matches /\ b.residual = s.residual /\ b.done = s.done
          /\ b \in LoopState
      BY <1>1, <1>3, <2>1, <2>2, <2>4 DEF NextSeller, LoopState
    <2> HIDE DEF b
    <2>6. Counted(b, bids, asks)
      BY <1>1, <2>1, <2>2, <2>4, <2>5 DEF Counted
    <2>7. Balanced(b, bids, asks, pair)
      <3>1. ASSUME NEW x \in Nat
            PROVE  Upto(asks, Brings(x, pair[1]), k)
                     = InHand(asks, k, b.ask, x) + Total(s.matches, Delivers(x))
        <4> DEFINE w == Brings(x, pair[1])
                   delivered == Total(s.matches, Delivers(x))
        <4>1. w \in [Intent -> Int]
          BY Weights
        <4>2. Upto(asks, w, k) = Upto(asks, w, s.sold) + w[asks[k]] /\ w[asks[k]] \in Int
          <5> HIDE DEF w
          <5>1. QED
            BY <2>1, <2>2, <2>3, <4>1, UptoNext
        <4>3. Upto(asks, w, s.sold) = InHand(asks, s.sold, s.ask, x) + delivered
          BY <1>1 DEF Balanced
        <4>4. InHand(asks, s.sold, s.ask, x) = 0
          BY <2>1 DEF InHand
        <4>5. w[asks[k]] = InHand(asks, k, b.ask, x)
          BY <2>2, <2>3, <2>4, <2>5 DEF InHand, Brings
        <4>6. delivered \in Int
          BY <2>1, Weights, TotalInt
        <4> HIDE DEF w, delivered
        <4>7. Upto(asks, w, k) = InHand(asks, k, b.ask, x) + delivered
          BY <4>2, <4>3, <4>4, <4>5, <4>6
        <4>8. QED
          BY <4>7 DEF w, delivered
      <3>2. QED
        BY <1>1, <2>5, <3>1 DEF Balanced
    <2>8. SoldOut(s, asks) => b.ask = 0 /\ \A j \in 1..Len(asks) : j > k => asks[j].in_amount = 0
      BY <2>1, <2>2, <2>5 DEF SoldOut
    <2>9. Priced(b, price) /\ Barred(b, asks, pair, price)
      BY <1>1, <2>5, <2>8 DEF Priced, Barred, SoldOut
    <2>10. ASSUME b.ask = 0 PROVE SoldOut(b, asks)
      <3>1. ASSUME NEW j \in 1..Len(asks), j > k PROVE asks[j].in_amount = 0
        <4>1. ~BySize(asks[j], asks[k])
          BY <2>2, <3>1 DEF Sides, Sized
        <4>2. asks[j].in_amount \in Nat
          <5>1. asks[j] \in Intent
            BY <2>3
          <5>2. QED
            BY <5>1 DEF Intent
        <4>3. asks[k].in_amount = 0
          BY <2>5, <2>10
        <4>4. ~(asks[j].in_amount > asks[k].in_amount)
          BY <4>1 DEF BySize
        <4>5. QED
          BY <4>2, <4>3, <4>4
      <3>2. QED
        BY <2>5, <2>10, <3>1 DEF SoldOut
    <2>11. b \in LoopOK(bids, asks, pair, price)
      BY <2>5, <2>6, <2>7, <2>9 DEF LoopOK
    <2>12. b.sold > 0
      BY <2>1, <2>5
    <2>13. QED
      BY <2>5, <2>10, <2>11, <2>12 DEF b
  <1>4. QED
    BY <1>2, <1>3

\* A buyer that is given up: what it has left buys nothing, or nothing is left
\* to buy.
LEMMA BuyerGivenUp ==
    ASSUME NEW bids, NEW asks, NEW pair, NEW price, Sides(bids, asks, pair),
           NEW s \in LoopOK(bids, asks, pair, price), ~s.done, s.bought > 0,
           QuoteToBase(s.bid, price) > 0 => SoldOut(s, asks)
    PROVE  LET b == PassedOver(s, bids)
           IN  /\ b \in LoopOK(bids, asks, pair, price) /\ ~b.done
               /\ b.bid = 0 /\ b.bought = s.bought /\ b.ask = s.ask /\ b.sold = s.sold
  <1> DEFINE b == PassedOver(s, bids)
             k == s.bought
             e == Remainder(bids[k], s.bid)
  <1>1. s \in LoopState /\ Counted(s, bids, asks) /\ Balanced(s, bids, asks, pair)
        /\ Priced(s, price) /\ Barred(s, asks, pair, price)
    BY DEF LoopOK
  <1>2. /\ s.bought \in Nat /\ s.sold \in Nat /\ s.bid \in Nat /\ s.ask \in Nat
        /\ s.matches \in Seq(Crossing) /\ s.residual \in Seq(Intent) /\ s.done \in BOOLEAN
    BY <1>1 DEF LoopState
  <1>3. k \in 1..Len(bids) /\ bids \in Seq(Intent) /\ bids[k] \in Intent /\ IsBuy(bids[k], pair)
    <2>1. k <= Len(bids) /\ Len(bids) \in Nat
      BY <1>1 DEF Counted, Sides
    <2>2. k \in 1..Len(bids)
      BY <1>2, <2>1
    <2>3. QED
      BY <2>2 DEF Sides
  <1>4. /\ e \in Intent /\ e.in_amount = s.bid /\ e.signer = bids[k].signer
        /\ e.in_mint = pair[2] /\ e.out_mint = pair[1]
    BY <1>2, <1>3 DEF Remainder, Intent, IsBuy, MadeUp
  <1>41. b = [s EXCEPT !.bid = 0, !.residual = Append(s.residual, e)]
    BY DEF PassedOver
  <1> HIDE DEF e, b
  <1>42. Append(s.residual, e) \in Seq(Intent)
    BY <1>2, <1>4
  <1>5. /\ b.sold = s.sold /\ b.ask = s.ask /\ b.bought = s.bought /\ b.bid = 0
        /\ b.matches = s.matches /\ b.residual = Append(s.residual, e) /\ b.done = s.done
        /\ b \in LoopState
    BY <1>1, <1>2, <1>41, <1>42 DEF LoopState
  <1>6. Counted(b, bids, asks)
    BY <1>1, <1>2, <1>5 DEF Counted
  <1>7. Balanced(b, bids, asks, pair)
    <2>1. ASSUME NEW x \in Nat
          PROVE  Upto(bids, Brings(x, pair[2]), k)
                   = InHand(bids, k, 0, x) + Total(b.residual, Brings(x, pair[2]))
                     + Total(s.matches, Pays(x))
      <3> DEFINE w == Brings(x, pair[2])
                 rest == Total(s.residual, w)
                 paid == Total(s.matches, Pays(x))
      <3>1. w \in [Intent -> Int]
        BY Weights
      <3>2. Total(b.residual, w) = rest + w[e] /\ rest \in Int
        <4> HIDE DEF w
        <4>1. QED
          BY <1>2, <1>4, <1>5, <3>1, TotalAppend
      <3>3. Upto(bids, w, k) = InHand(bids, k, s.bid, x) + rest + paid
        BY <1>1 DEF Balanced
      <3>4. InHand(bids, k, 0, x) = 0 /\ InHand(bids, k, s.bid, x) = w[e] /\ w[e] \in Int
        BY <1>2, <1>4 DEF InHand, Brings
      <3>5. paid \in Int
        BY <1>2, Weights, TotalInt
      <3> HIDE DEF w, rest, paid
      <3>6. Upto(bids, w, k) = InHand(bids, k, 0, x) + Total(b.residual, w) + paid
        BY <3>2, <3>3, <3>4, <3>5
      <3>7. QED
        BY <3>6 DEF w, paid
    <2>2. QED
      BY <1>1, <1>5, <2>1 DEF Balanced
  <1>8. Priced(b, price)
    BY <1>1, <1>5 DEF Priced
  <1>9. Barred(b, asks, pair, price)
    <2>1. SoldOut(s, asks) => SoldOut(b, asks)
      BY <1>5 DEF SoldOut
    <2>2. ASSUME NEW i \in 1..Len(b.residual)
          PROVE  IsBuy(b.residual[i], pair)
                 /\ (QuoteToBase(b.residual[i].in_amount, price) > 0 => SoldOut(b, asks))
      <3>1. Len(s.residual) \in Nat /\ Len(b.residual) = Len(s.residual) + 1
        BY <1>2, <1>5
      <3>2. CASE i <= Len(s.residual)
        <4>1. i \in 1..Len(s.residual) /\ b.residual[i] = s.residual[i]
          BY <1>2, <1>5, <3>1, <3>2
        <4>2. QED
          BY <1>1, <2>1, <4>1 DEF Barred
      <3>3. CASE i > Len(s.residual)
        <4>1. b.residual[i] = e
          BY <1>2, <1>5, <3>1, <3>3
        <4>2. IsBuy(e, pair) /\ (QuoteToBase(e.in_amount, price) > 0 => SoldOut(b, asks))
          BY <1>4, <2>1 DEF IsBuy
        <4>3. QED
          BY <4>1, <4>2
      <3>4. QED
        BY <3>1, <3>2, <3>3
    <2>3. QED
      BY <2>2 DEF Barred
  <1>10. b \in LoopOK(bids, asks, pair, price)
    BY <1>5, <1>6, <1>7, <1>8, <1>9 DEF LoopOK
  <1>11. QED
    BY <1>5, <1>10 DEF b

\* A cross of what both have.
LEMMA BothCrossed ==
    ASSUME NEW bids, NEW asks, NEW pair, NEW price \in Nat, Sides(bids, asks, pair),
           NEW s \in LoopOK(bids, asks, pair, price), ~s.done, s.bought > 0,
           NEW base \in Nat \ {0}, base <= QuoteToBase(s.bid, price), base <= s.ask,
           NEW quote, quote = BaseToQuoteCeil(base, price)
    PROVE  LET b == Crossed(s, bids, asks, base, quote)
           IN  /\ b \in LoopOK(bids, asks, pair, price) /\ ~b.done
               /\ b.bid = s.bid - quote /\ b.ask = s.ask - base
               /\ b.bought = s.bought /\ b.sold = s.sold
  <1> DEFINE b == Crossed(s, bids, asks, base, quote)
             k == s.bought
             l == s.sold
             m == [buyer |-> bids[k].signer, seller |-> asks[l].signer,
                   base_amount |-> base, quote_amount |-> quote]
  <1>1. s \in LoopState /\ Counted(s, bids, asks) /\ Balanced(s, bids, asks, pair)
        /\ Priced(s, price) /\ Barred(s, asks, pair, price)
    BY DEF LoopOK
  <1>2. /\ s.bought \in Nat /\ s.sold \in Nat /\ s.bid \in Nat /\ s.ask \in Nat
        /\ s.matches \in Seq(Crossing) /\ s.residual \in Seq(Intent) /\ s.done \in BOOLEAN
    BY <1>1 DEF LoopState
  <1>3. /\ quote \in Nat \ {0} /\ quote <= s.bid
        /\ quote * One >= base * price
        /\ (quote - 1) * One < base * price
    BY <1>2, CrossCosts
  <1>4. k \in 1..Len(bids) /\ bids[k] \in Intent /\ l \in 1..Len(asks) /\ asks[l] \in Intent
    <2>1. s.ask > 0
      BY <1>2
    <2>2. k <= Len(bids) /\ Len(bids) \in Nat /\ l <= Len(asks) /\ Len(asks) \in Nat /\ l > 0
      BY <1>1, <2>1 DEF Counted, Sides
    <2>3. k \in 1..Len(bids) /\ l \in 1..Len(asks)
      BY <1>2, <2>2
    <2>4. QED
      BY <2>3 DEF Sides
  <1>5. /\ m \in Crossing /\ m.buyer = bids[k].signer /\ m.seller = asks[l].signer
        /\ m.base_amount = base /\ m.quote_amount = quote
    BY <1>3, <1>4 DEF Crossing, Intent
  <1>6. b = [s EXCEPT !.bid = s.bid - quote, !.ask = s.ask - base,
                      !.matches = Append(s.matches, m)]
    BY DEF Crossed
  <1> HIDE DEF m, b
  <1>7. Append(s.matches, m) \in Seq(Crossing) /\ s.bid - quote \in Nat /\ s.ask - base \in Nat
    BY <1>2, <1>3, <1>5
  <1>8. /\ b.sold = s.sold /\ b.ask = s.ask - base /\ b.bought = s.bought
        /\ b.bid = s.bid - quote /\ b.matches = Append(s.matches, m)
        /\ b.residual = s.residual /\ b.done = s.done /\ b \in LoopState
    BY <1>1, <1>2, <1>6, <1>7 DEF LoopState
  <1>9. Counted(b, bids, asks)
    BY <1>1, <1>2, <1>4, <1>8 DEF Counted
  <1>10. ASSUME NEW x \in Nat
         PROVE  Upto(bids, Brings(x, pair[2]), k)
                  = InHand(bids, k, b.bid, x) + Total(s.residual, Brings(x, pair[2]))
                    + Total(b.matches, Pays(x))
    <2> DEFINE w == Pays(x)
               rest == Total(s.residual, Brings(x, pair[2]))
               paid == Total(s.matches, w)
    <2>1. w \in [Crossing -> Int]
      BY Weights
    <2>2. Total(b.matches, w) = paid + w[m] /\ paid \in Int
      <3> HIDE DEF w
      <3>1. QED
        BY <1>2, <1>5, <1>8, <2>1, TotalAppend
    <2>3. Upto(bids, Brings(x, pair[2]), k) = InHand(bids, k, s.bid, x) + rest + paid
      BY <1>1 DEF Balanced
    <2>4. /\ InHand(bids, k, s.bid, x) = InHand(bids, k, b.bid, x) + w[m]
          /\ InHand(bids, k, b.bid, x) \in Int /\ w[m] \in Int
      <3>1. w[m] = IF bids[k].signer = x THEN quote ELSE 0
        BY <1>5 DEF Pays
      <3>2. InHand(bids, k, s.bid, x) = (IF bids[k].signer = x THEN s.bid ELSE 0)
        BY <1>2 DEF InHand
      <3>3. InHand(bids, k, b.bid, x) = (IF bids[k].signer = x THEN s.bid - quote ELSE 0)
        BY <1>2, <1>8 DEF InHand
      <3> HIDE DEF w
      <3>4. QED
        BY <1>2, <1>3, <3>1, <3>2, <3>3
    <2>5. rest \in Int
      BY <1>2, Weights, TotalInt
    <2> HIDE DEF w, rest, paid
    <2>6. Upto(bids, Brings(x, pair[2]), k) = InHand(bids, k, b.bid, x) + rest + Total(b.matches, w)
      BY <2>2, <2>3, <2>4, <2>5
    <2>7. QED
      BY <2>6 DEF w, rest
  <1>11. ASSUME NEW x \in Nat
         PROVE  Upto(asks, Brings(x, pair[1]), l)
                  = InHand(asks, l, b.ask, x) + Total(b.matches, Delivers(x))
    <2> DEFINE w == Delivers(x)
               delivered == Total(s.matches, w)
    <2>1. w \in [Crossing -> Int]
      BY Weights
    <2>2. Total(b.matches, w) = delivered + w[m] /\ delivered \in Int
      <3> HIDE DEF w
      <3>1. QED
        BY <1>2, <1>5, <1>8, <2>1, TotalAppend
    <2>3. Upto(asks, Brings(x, pair[1]), l) = InHand(asks, l, s.ask, x) + delivered
      BY <1>1 DEF Balanced
    <2>4. /\ InHand(asks, l, s.ask, x) = InHand(asks, l, b.ask, x) + w[m]
          /\ InHand(asks, l, b.ask, x) \in Int /\ w[m] \in Int
      <3>1. w[m] = IF asks[l].signer = x THEN base ELSE 0
        BY <1>5 DEF Delivers
      <3>2. InHand(asks, l, s.ask, x) = (IF asks[l].signer = x THEN s.ask ELSE 0)
        BY <1>2, <1>4 DEF InHand
      <3>3. InHand(asks, l, b.ask, x) = (IF asks[l].signer = x THEN s.ask - base ELSE 0)
        BY <1>2, <1>4, <1>8 DEF InHand
      <3> HIDE DEF w
      <3>4. QED
        BY <1>2, <3>1, <3>2, <3>3
    <2> HIDE DEF w, delivered
    <2>5. Upto(asks, Brings(x, pair[1]), l) = InHand(asks, l, b.ask, x) + Total(b.matches, w)
      BY <2>2, <2>3, <2>4
    <2>6. QED
      BY <2>5 DEF w
  <1>12. Balanced(b, bids, asks, pair)
    BY <1>8, <1>10, <1>11 DEF Balanced
  <1>13. Priced(b, price)
    <2>1. FairAt(m, price)
      BY <1>3, <1>5 DEF FairAt
    <2>2. ASSUME NEW i \in 1..Len(b.matches) PROVE FairAt(b.matches[i], price)
      <3>1. Len(s.matches) \in Nat /\ Len(b.matches) = Len(s.matches) + 1
        BY <1>2, <1>8
      <3>2. CASE i <= Len(s.matches)
        <4>1. i \in 1..Len(s.matches) /\ b.matches[i] = s.matches[i]
          BY <1>2, <1>8, <3>1, <3>2
        <4>2. QED
          BY <1>1, <4>1 DEF Priced
      <3>3. CASE i > Len(s.matches)
        <4>1. b.matches[i] = m
          BY <1>2, <1>8, <3>1, <3>3
        <4>2. QED
          BY <2>1, <4>1
      <3>4. QED
        BY <3>1, <3>2, <3>3
    <2>3. QED
      BY <2>2 DEF Priced
  <1>14. Barred(b, asks, pair, price)
    <2>1. ~SoldOut(s, asks)
      BY <1>2 DEF SoldOut
    <2>2. QED
      BY <1>1, <1>8, <2>1 DEF Barred
  <1>15. b \in LoopOK(bids, asks, pair, price)
    BY <1>8, <1>9, <1>12, <1>13, <1>14 DEF LoopOK
  <1>16. QED
    BY <1>8, <1>15 DEF b

\* Work that is left: what is not taken yet, and what is in hand.
BidEffort(bid, price) == IF bid = 0 THEN 0 ELSE IF QuoteToBase(bid, price) > 0 THEN 2 ELSE 1
AskEffort(ask) == IF ask = 0 THEN 0 ELSE 1
Effort(s, bids, asks, price) ==
    2 * (Len(bids) - s.bought) + (Len(asks) - s.sold)
      + BidEffort(s.bid, price) + AskEffort(s.ask)

\* Nothing in hand, and nothing else, is no effort.
LEMMA Efforts ==
    ASSUME NEW bid, NEW ask, NEW price
    PROVE  /\ BidEffort(bid, price) \in 0..2 /\ (BidEffort(bid, price) = 0 <=> bid = 0)
           /\ AskEffort(ask) \in 0..1 /\ (AskEffort(ask) = 0 <=> ask = 0)
  BY DEF BidEffort, AskEffort

\* A buyer and a seller who meet: one of them is done with, or the buyer has
\* less left than buys anything.
LEMMA PairMet ==
    ASSUME NEW bids, NEW asks, NEW pair, NEW price \in Nat, Sides(bids, asks, pair),
           NEW s \in LoopOK(bids, asks, pair, price), ~s.done, s.bought > 0,
           s.ask = 0 => SoldOut(s, asks)
    PROVE  LET b == Meet(s, bids, asks, price)
           IN  /\ b \in LoopOK(bids, asks, pair, price) /\ ~b.done
               /\ Effort(b, bids, asks, price) <= Effort(s, bids, asks, price)
               /\ s.bid > 0 /\ s.ask > 0
                    => Effort(b, bids, asks, price) < Effort(s, bids, asks, price)
  <1> DEFINE can   == QuoteToBase(s.bid, price)
             base  == Lesser(can, s.ask)
             ceil  == BaseToQuoteCeil(base, price)
             quote == Lesser(ceil, s.bid)
             b     == Meet(s, bids, asks, price)
             E(t)  == Effort(t, bids, asks, price)
  <1>1. s \in LoopState /\ Counted(s, bids, asks)
    BY DEF LoopOK
  <1>2. /\ s.bought \in Nat /\ s.sold \in Nat /\ s.bid \in Nat /\ s.ask \in Nat
        /\ Len(bids) \in Nat /\ Len(asks) \in Nat
    BY <1>1 DEF LoopState, Sides
  <1>3. can \in Nat /\ (s.bid = 0 => can = 0)
    BY <1>2, BaseIsNat
  <1> HIDE DEF can
  <1>4. base \in Nat /\ base <= can /\ base <= s.ask /\ (base = can \/ base = s.ask)
    BY <1>2, <1>3 DEF Lesser
  <1> HIDE DEF base
  <1>5. base # 0 => ceil \in Nat \ {0} /\ ceil <= s.bid /\ quote = ceil
                    /\ (base = can => QuoteToBase(s.bid - ceil, price) = 0)
    <2>1. SUFFICES ASSUME base # 0
                   PROVE  ceil \in Nat \ {0} /\ ceil <= s.bid /\ quote = ceil
                          /\ (base = can => QuoteToBase(s.bid - ceil, price) = 0)
      OBVIOUS
    <2>2. /\ ceil \in Nat \ {0} /\ ceil <= s.bid
          /\ (base = can => QuoteToBase(s.bid - ceil, price) = 0)
      BY <1>2, <1>3, <1>4, <2>1, CrossCosts DEF can
    <2>3. QED
      BY <1>2, <2>2 DEF Lesser
  <1>6. b = IF base = 0 \/ quote = 0 THEN PassedOver(s, bids)
            ELSE Crossed(s, bids, asks, base, quote)
    BY DEF Meet, base, can
  <1> HIDE DEF ceil, quote, b
  <1>7. CASE base = 0
    <2>1. can > 0 => SoldOut(s, asks)
      BY <1>2, <1>3, <1>4, <1>7
    <2>2. b = PassedOver(s, bids)
      BY <1>6, <1>7
    <2>3. /\ b \in LoopOK(bids, asks, pair, price) /\ ~b.done
          /\ b.bid = 0 /\ b.bought = s.bought /\ b.ask = s.ask /\ b.sold = s.sold
      BY <2>1, <2>2, BuyerGivenUp DEF can
    <2>4. /\ BidEffort(b.bid, price) = 0 /\ BidEffort(s.bid, price) \in 0..2
          /\ (s.bid > 0 => BidEffort(s.bid, price) > 0) /\ AskEffort(b.ask) = AskEffort(s.ask)
          /\ AskEffort(s.ask) \in 0..1
      BY <1>2, <2>3, Efforts
    <2> DEFINE taken == 2 * (Len(bids) - s.bought) + (Len(asks) - s.sold)
               u == BidEffort(s.bid, price)
               v == AskEffort(s.ask)
    <2>04. E(b) = taken + 0 + v /\ E(s) = taken + u + v
      BY <2>3, <2>4 DEF Effort
    <2>05. taken \in Int /\ u \in 0..2 /\ v \in 0..1 /\ (s.bid > 0 => u > 0)
      BY <1>2, <2>4
    <2> HIDE DEF taken, u, v, E
    <2>5. E(b) <= E(s) /\ (s.bid > 0 => E(b) < E(s))
      BY <2>04, <2>05
    <2>6. QED
      BY <2>3, <2>5 DEF b, E
  <1>8. CASE base # 0
    <2>1. b = Crossed(s, bids, asks, base, quote) /\ quote = ceil
      BY <1>2, <1>5, <1>6, <1>8
    <2>2. /\ b \in LoopOK(bids, asks, pair, price) /\ ~b.done
          /\ b.bid = s.bid - quote /\ b.ask = s.ask - base
          /\ b.bought = s.bought /\ b.sold = s.sold
      BY <1>4, <1>8, <2>1, BothCrossed DEF can, ceil
    <2>3. can > 0 /\ s.bid > 0 /\ s.ask > 0
      BY <1>2, <1>3, <1>4, <1>8
    <2>4. BidEffort(s.bid, price) = 2 /\ AskEffort(s.ask) = 1
      BY <1>2, <2>3 DEF BidEffort, AskEffort, can
    <2>5. BidEffort(b.bid, price) \in 0..2 /\ AskEffort(b.ask) \in 0..1
      BY Efforts
    <2>6. CASE base = s.ask
      <3>1. AskEffort(b.ask) = 0
        BY <1>2, <2>2, <2>6 DEF AskEffort
      <3>2. E(b) < E(s) /\ E(b) <= E(s)
        <4> DEFINE taken == 2 * (Len(bids) - s.bought) + (Len(asks) - s.sold)
                   u == BidEffort(b.bid, price)
        <4>1. taken \in Int /\ u \in 0..2
          BY <1>2, <2>5
        <4>2. E(b) = taken + u + 0 /\ E(s) = taken + 2 + 1
          BY <2>2, <2>4, <3>1 DEF Effort
        <4> HIDE DEF taken, u, E
        <4>3. QED
          BY <4>1, <4>2
      <3>3. QED
        BY <2>2, <3>2 DEF b
    <2>7. CASE base = can
      <3>1. QuoteToBase(b.bid, price) = 0
        BY <1>5, <1>8, <2>1, <2>2, <2>7
      <3>2. BidEffort(b.bid, price) \in 0..1
        BY <3>1 DEF BidEffort
      <3>3. E(b) < E(s) /\ E(b) <= E(s)
        <4> DEFINE taken == 2 * (Len(bids) - s.bought) + (Len(asks) - s.sold)
                   u == BidEffort(b.bid, price)
                   v == AskEffort(b.ask)
        <4>1. taken \in Int /\ u \in 0..1 /\ v \in 0..1
          BY <1>2, <2>5, <3>2
        <4>2. E(b) = taken + u + v /\ E(s) = taken + 2 + 1
          BY <2>2, <2>4 DEF Effort
        <4> HIDE DEF taken, u, v, E
        <4>3. QED
          BY <4>1, <4>2
      <3>4. QED
        BY <2>2, <3>3 DEF b
    <2>8. QED
      BY <1>4, <2>6, <2>7
  <1>9. QED
    BY <1>7, <1>8

-----------------------------------------------------------------------------
(* A pass, and the whole loop: each pass but the last leaves less to do.   *)

\* The loop may end when a side is used up.
LEMMA LoopEnds ==
    ASSUME NEW bids, NEW asks, NEW pair, NEW price,
           NEW s \in LoopOK(bids, asks, pair, price), s.bid = 0,
           s.bought = Len(bids) \/ (s.ask = 0 /\ s.sold = Len(asks))
    PROVE  [s EXCEPT !.done = TRUE] \in LoopOK(bids, asks, pair, price)
  <1> DEFINE b == [s EXCEPT !.done = TRUE]
  <1>1. s \in LoopState /\ Counted(s, bids, asks) /\ Balanced(s, bids, asks, pair)
        /\ Priced(s, price) /\ Barred(s, asks, pair, price)
    BY DEF LoopOK
  <1>2. /\ b.bought = s.bought /\ b.sold = s.sold /\ b.bid = s.bid /\ b.ask = s.ask
        /\ b.matches = s.matches /\ b.residual = s.residual /\ b.done = TRUE
        /\ b \in LoopState
    BY <1>1 DEF LoopState
  <1> HIDE DEF b
  <1>3. Counted(b, bids, asks)
    BY <1>1, <1>2 DEF Counted
  <1>4. Balanced(b, bids, asks, pair)
    BY <1>1, <1>2 DEF Balanced
  <1>5. Priced(b, price) /\ Barred(b, asks, pair, price)
    BY <1>1, <1>2 DEF Priced, Barred, SoldOut
  <1>6. b \in LoopOK(bids, asks, pair, price)
    BY <1>2, <1>3, <1>4, <1>5 DEF LoopOK
  <1>7. QED
    BY <1>6 DEF b

\* A pass of the loop keeps what LoopOK says, and ends the loop or gets on.
LEMMA PassKeeps ==
    ASSUME NEW bids, NEW asks, NEW pair, NEW price \in Nat, Sides(bids, asks, pair),
           NEW s \in LoopOK(bids, asks, pair, price)
    PROVE  LET b == OnePass(s, bids, asks, price)
           IN  /\ b \in LoopOK(bids, asks, pair, price)
               /\ ~b.done => ~s.done /\ Effort(b, bids, asks, price) < Effort(s, bids, asks, price)
  <1> DEFINE OK == LoopOK(bids, asks, pair, price)
             p == OnePass(s, bids, asks, price)
             b == NextBuyer(s, bids)
             c == NextSeller(b, asks)
             E(t) == Effort(t, bids, asks, price)
             r == IF b.bid > 0 THEN PassedOver(b, bids) ELSE b
  <1>0. \A t \in OK : /\ t.bought \in Nat /\ t.sold \in Nat /\ t.bid \in Nat /\ t.ask \in Nat
                      /\ t.bought <= Len(bids) /\ t.sold <= Len(asks)
                      /\ t.done \in BOOLEAN /\ t \in LoopState
                      /\ E(t) \in Int
    <2>1. ASSUME NEW t \in OK
          PROVE  /\ t.bought \in Nat /\ t.sold \in Nat /\ t.bid \in Nat /\ t.ask \in Nat
                 /\ t.bought <= Len(bids) /\ t.sold <= Len(asks)
                 /\ t.done \in BOOLEAN /\ t \in LoopState
      BY DEF LoopOK, LoopState, Counted
    <2>2. ASSUME NEW t \in OK PROVE E(t) \in Int
      <3>1. BidEffort(t.bid, price) \in 0..2 /\ AskEffort(t.ask) \in 0..1
        BY Efforts
      <3>2. Len(bids) \in Nat /\ Len(asks) \in Nat
        BY DEF Sides
      <3>3. t.bought \in Nat /\ t.sold \in Nat
        BY <2>1
      <3> DEFINE u == BidEffort(t.bid, price)
                 v == AskEffort(t.ask)
      <3>4. E(t) = 2 * (Len(bids) - t.bought) + (Len(asks) - t.sold) + u + v
        BY DEF Effort
      <3>5. u \in Int /\ v \in Int
        BY <3>1
      <3> DEFINE y == Len(bids) - t.bought
                 z == Len(asks) - t.sold
      <3>6. y \in Int /\ z \in Int
        BY <3>2, <3>3
      <3>7. E(t) = 2 * y + z + u + v
        BY <3>4
      <3> HIDE DEF u, v, y, z, E
      <3>8. QED
        BY ONLY <3>5, <3>6, <3>7
    <2>3. QED
      BY <2>1, <2>2
  <1>00. Len(bids) \in Nat /\ Len(asks) \in Nat
    BY DEF Sides
  <1>1. CASE s.done
    <2>1. p = s
      BY <1>1 DEF OnePass
    <2>2. QED
      BY <1>1, <2>1
  <1>2. CASE ~s.done /\ s.bid = 0 /\ s.bought = Len(bids)
    <2>1. p = [s EXCEPT !.done = TRUE]
      BY <1>2 DEF OnePass
    <2>2. p \in OK
      BY <1>2, <2>1, LoopEnds
    <2>3. p.done
      BY <1>0, <2>1 DEF LoopState
    <2>4. QED
      BY <2>2, <2>3
  <1>3. CASE ~s.done /\ ~(s.bid = 0 /\ s.bought = Len(bids))
    <2>1. /\ b \in OK /\ ~b.done /\ b.bought > 0 /\ b.ask = s.ask /\ b.sold = s.sold
      BY <1>0, <1>3, BuyerTaken
    <2>2. E(b) <= E(s) /\ (b.bid = 0 => E(b) < E(s))
      <3>1. CASE s.bid > 0
        <4>1. b = s
          BY <3>1 DEF NextBuyer
        <4>2. QED
          BY <1>0, <3>1, <4>1
      <3>2. CASE ~(s.bid > 0)
        <4>1. s.bid = 0 /\ b.bought = s.bought + 1
          BY <1>0, <3>2 DEF NextBuyer, LoopState
        <4>2. /\ BidEffort(s.bid, price) = 0 /\ AskEffort(b.ask) = AskEffort(s.ask)
              /\ BidEffort(b.bid, price) \in 0..2 /\ AskEffort(s.ask) \in 0..1
              /\ (b.bid = 0 => BidEffort(b.bid, price) = 0)
          BY <2>1, <4>1, Efforts
        <4>3. b.bought \in Nat /\ s.bought \in Nat /\ s.sold \in Nat /\ b.sold = s.sold
          BY <1>0, <2>1
        <4> DEFINE taken == 2 * (Len(bids) - s.bought) + (Len(asks) - s.sold)
                   u == BidEffort(b.bid, price)
                   v == AskEffort(s.ask)
        <4>4. taken \in Int /\ u \in 0..2 /\ v \in 0..1 /\ (b.bid = 0 => u = 0)
          BY <1>00, <4>2, <4>3
        <4>5. E(b) = (taken - 2) + u + v
          BY <1>00, <4>1, <4>2, <4>3 DEF Effort
        <4>6. E(s) = taken + 0 + v
          BY <4>2 DEF Effort
        <4> HIDE DEF b, taken, u, v, E
        <4>7. QED
          BY <4>4, <4>5, <4>6
      <3>3. QED
        BY <3>1, <3>2
    <2>3. p = IF b.ask = 0 /\ b.sold = Len(asks) THEN Unmet(b, bids)
              ELSE Meet(c, bids, asks, price)
      BY <1>3 DEF OnePass
    <2> HIDE DEF b
    <2>4. CASE b.ask = 0 /\ b.sold = Len(asks)
      <3>1. p = [r EXCEPT !.done = TRUE]
        BY <2>3, <2>4 DEF Unmet
      <3>2. SoldOut(b, asks)
        BY <1>00, <2>4 DEF SoldOut
      <3>3. r \in OK /\ r.bid = 0 /\ r.ask = 0 /\ r.sold = Len(asks)
        <4>1. CASE b.bid > 0
          <5>1. r = PassedOver(b, bids)
            BY <4>1
          <5>2. QED
            BY <2>1, <2>4, <3>2, <5>1, BuyerGivenUp
        <4>2. CASE ~(b.bid > 0)
          <5>1. r = b /\ b.bid = 0
            BY <1>0, <2>1, <4>2
          <5>2. QED
            BY <2>1, <2>4, <5>1
        <4>3. QED
          BY <4>1, <4>2
      <3> HIDE DEF r, p
      <3>4. p \in OK
        BY <3>1, <3>3, LoopEnds
      <3>5. p.done
        BY <1>0, <3>1, <3>3 DEF LoopState
      <3>6. QED
        BY <3>4, <3>5 DEF p
    <2>5. CASE ~(b.ask = 0 /\ b.sold = Len(asks))
      <3>1. p = Meet(c, bids, asks, price)
        BY <2>3, <2>5
      <3>2. /\ c \in OK /\ ~c.done /\ c.bid = b.bid /\ c.bought = b.bought
            /\ (c.ask = 0 => SoldOut(c, asks))
        BY <1>0, <2>1, <2>5, SellerTaken
      <3>3. E(c) <= E(b) /\ (c.ask = 0 => E(c) < E(b))
        <4>1. CASE b.ask > 0
          <5>1. c = b
            BY <4>1 DEF NextSeller
          <5>2. QED
            BY <1>0, <2>1, <4>1, <5>1
        <4>2. CASE ~(b.ask > 0)
          <5>1. b.ask = 0 /\ c.sold = b.sold + 1
            BY <1>0, <2>1, <4>2 DEF NextSeller, LoopState
          <5>2. /\ AskEffort(b.ask) = 0 /\ BidEffort(b.bid, price) = BidEffort(c.bid, price)
                /\ BidEffort(b.bid, price) \in 0..2 /\ AskEffort(c.ask) \in 0..1
                /\ (c.ask = 0 => AskEffort(c.ask) = 0)
            BY <3>2, <5>1, Efforts
          <5>3. b.bought \in Nat /\ b.sold \in Nat /\ c.bought = b.bought
            BY <1>0, <2>1, <3>2
          <5> DEFINE taken == 2 * (Len(bids) - b.bought) + (Len(asks) - b.sold)
                     u == BidEffort(b.bid, price)
                     v == AskEffort(c.ask)
          <5>4. taken \in Int /\ u \in 0..2 /\ v \in 0..1 /\ (c.ask = 0 => v = 0)
            BY <1>00, <5>2, <5>3
          <5>5. E(c) = (taken - 1) + u + v
            BY <1>00, <5>1, <5>2, <5>3 DEF Effort
          <5>6. E(b) = taken + u + 0
            BY <5>2 DEF Effort
          <5> HIDE DEF c, taken, u, v, E
          <5>7. QED
            BY <5>4, <5>5, <5>6
        <4>3. QED
          BY <4>1, <4>2
      <3> HIDE DEF c, p
      <3>4. /\ p \in OK /\ ~p.done /\ E(p) <= E(c)
            /\ (c.bid > 0 /\ c.ask > 0 => E(p) < E(c))
        BY <2>1, <3>1, <3>2, PairMet
      <3>5. E(p) < E(s)
        <4>1. c.bid \in Nat /\ c.ask \in Nat
          BY <1>0, <3>2
        <4>2. E(p) \in Int /\ E(c) \in Int /\ E(b) \in Int /\ E(s) \in Int
          BY <1>0, <2>1, <3>2, <3>4
        <4> HIDE DEF E
        <4>3. QED
          BY <2>2, <3>2, <3>3, <3>4, <4>1, <4>2
      <3>6. QED
        BY <1>3, <3>4, <3>5 DEF p
    <2>6. QED
      BY <2>4, <2>5
  <1>4. QED
    BY <1>1, <1>2, <1>3

\* The loop, pass by pass.
IsLoop(f, bids, asks, price) ==
    f = [k \in 0..Passes(bids, asks) |->
            IF k = 0 THEN LoopStart ELSE OnePass(f[k - 1], bids, asks, price)]

\* Every state that the loop goes through is one that its invariant allows.
LEMMA LoopRuns ==
    ASSUME NEW bids, NEW asks, NEW pair, NEW price \in Nat, Sides(bids, asks, pair)
    PROVE  \E f : /\ IsLoop(f, bids, asks, price)
                  /\ f \in [0..Passes(bids, asks) -> LoopOK(bids, asks, pair, price)]
                  /\ Cross(bids, asks, price) = f[Passes(bids, asks)]
  <1> DEFINE N == Passes(bids, asks)
             S == LoopOK(bids, asks, pair, price)
             step == [k \in 1..N |-> [s \in S |-> OnePass(s, bids, asks, price)]]
  <1>1. N \in Nat
    BY DEF Passes, Sides
  <1>2. LoopStart \in S
    BY StartOK
  <1>3. \A s \in S : OnePass(s, bids, asks, price) \in S
    BY PassKeeps
  <1> HIDE DEF N, S
  <1>4. step \in [1..N -> [S -> S]]
    BY <1>3
  <1>5. \E f \in [0..N -> S] : StepsFrom(f, N, LoopStart, step)
    <2> HIDE DEF step
    <2>1. QED
      BY <1>1, <1>2, <1>4, TableOfSteps
  <1>6. PICK f \in [0..N -> S] : StepsFrom(f, N, LoopStart, step)
    BY <1>5
  <1>7. \A k \in 0..N : f[k] = IF k = 0 THEN LoopStart ELSE OnePass(f[k - 1], bids, asks, price)
    <2>1. ASSUME NEW k \in 0..N
          PROVE  f[k] = IF k = 0 THEN LoopStart ELSE OnePass(f[k - 1], bids, asks, price)
      <3>1. f[k] = IF k = 0 THEN LoopStart ELSE step[k][f[k - 1]]
        BY <1>6 DEF StepsFrom
      <3>2. CASE k = 0
        BY <3>1, <3>2
      <3>3. CASE k # 0
        <4>1. k \in 1..N /\ k - 1 \in 0..N
          BY <1>1, <3>3
        <4>2. step[k][f[k - 1]] = OnePass(f[k - 1], bids, asks, price)
          BY <4>1
        <4>3. QED
          BY <3>1, <3>3, <4>2
      <3>4. QED
        BY <3>2, <3>3
    <2>2. QED
      BY <2>1
  <1>8. IsLoop(f, bids, asks, price)
    BY <1>7 DEF IsLoop, N
  <1> DEFINE g == CHOOSE g : IsLoop(g, bids, asks, price)
  <1>9. IsLoop(g, bids, asks, price)
    BY <1>8
  <1>10. Cross(bids, asks, price) = g[N]
    BY DEF Cross, IsLoop, N
  <1> HIDE DEF g
  <1>11. \A k \in 0..N : g[k] = f[k]
    <2> DEFINE A == {k \in 0..N : g[k] = f[k]}
    <2>1. \A k \in 0..N : g[k] = IF k = 0 THEN LoopStart ELSE OnePass(g[k - 1], bids, asks, price)
      BY <1>9 DEF IsLoop, N
    <2>2. 0 \in A
      <3>1. 0 \in 0..N
        BY <1>1
      <3>2. QED
        BY <1>7, <2>1, <3>1
    <2>3. ASSUME NEW k \in 0..(N - 1), k \in A PROVE k + 1 \in A
      <3>1. k + 1 \in 0..N /\ k + 1 # 0 /\ (k + 1) - 1 = k
        BY <1>1
      <3>2. f[k + 1] = OnePass(f[k], bids, asks, price)
        BY <1>7, <3>1
      <3>3. g[k + 1] = OnePass(g[k], bids, asks, price)
        BY <2>1, <3>1
      <3>4. QED
        BY <2>3, <3>1, <3>2, <3>3
    <2> HIDE DEF A
    <2>4. 0..N \subseteq A
      BY <1>1, <2>2, <2>3, CountUp
    <2>5. QED
      BY <2>4 DEF A
  <1>12. Cross(bids, asks, price) = f[N]
    BY <1>1, <1>10, <1>11
  <1>13. QED
    BY <1>6, <1>8, <1>12 DEF N, S

\* The loop ends within its passes.
LEMMA LoopDone ==
    ASSUME NEW bids, NEW asks, NEW pair, NEW price \in Nat, Sides(bids, asks, pair)
    PROVE  /\ Cross(bids, asks, price) \in LoopOK(bids, asks, pair, price)
           /\ Cross(bids, asks, price).done
  <1> DEFINE N == Passes(bids, asks)
             S == LoopOK(bids, asks, pair, price)
             E(t) == Effort(t, bids, asks, price)
             end == Cross(bids, asks, price)
  <1>1. N \in Nat /\ N > 0 /\ Len(bids) \in Nat /\ Len(asks) \in Nat
        /\ N = 2 * Len(bids) + Len(asks) + 1
    BY DEF Passes, Sides
  <1>2. PICK f : /\ IsLoop(f, bids, asks, price)
                 /\ f \in [0..N -> S]
                 /\ end = f[N]
    BY LoopRuns
  <1>3. \A k \in 0..N : f[k] = IF k = 0 THEN LoopStart ELSE OnePass(f[k - 1], bids, asks, price)
    BY <1>2 DEF IsLoop
  <1>4. \A t \in S : E(t) \in Nat
    <2>1. ASSUME NEW t \in S PROVE E(t) \in Nat
      <3> DEFINE u == BidEffort(t.bid, price)
                 v == AskEffort(t.ask)
      <3>1. t.bought \in Nat /\ t.sold \in Nat /\ t.bought <= Len(bids) /\ t.sold <= Len(asks)
        BY DEF LoopOK, LoopState, Counted
      <3>2. u \in 0..2 /\ v \in 0..1
        BY Efforts
      <3>3. E(t) = 2 * (Len(bids) - t.bought) + (Len(asks) - t.sold) + u + v
        BY DEF Effort
      <3>4. Len(bids) - t.bought \in Nat /\ Len(asks) - t.sold \in Nat
        BY <1>1, <3>1
      <3> DEFINE p == Len(bids) - t.bought
                 q == Len(asks) - t.sold
      <3>5. E(t) = 2 * p + q + u + v /\ p \in Nat /\ q \in Nat
        BY <3>3, <3>4
      <3> HIDE DEF u, v, E, p, q
      <3>6. QED
        BY <3>2, <3>5
    <2>2. QED
      BY <2>1
  <1>5. E(LoopStart) = N - 1
    <2>1. LoopStart.bought = 0 /\ LoopStart.sold = 0 /\ LoopStart.bid = 0 /\ LoopStart.ask = 0
      BY DEF LoopStart
    <2>2. BidEffort(LoopStart.bid, price) = 0 /\ AskEffort(LoopStart.ask) = 0
      BY <2>1, Efforts
    <2>3. QED
      BY <1>1, <2>1, <2>2 DEF Effort
  <1> DEFINE A == {k \in 0..N : ~f[k].done => E(f[k]) <= (N - 1) - k}
  <1>6. 0 \in A
    <2>1. 0 \in 0..N /\ f[0] = LoopStart
      BY <1>1, <1>3
    <2>2. E(f[0]) <= (N - 1) - 0
      BY <1>1, <1>5, <2>1
    <2> HIDE DEF E, N
    <2>3. QED
      BY <2>1, <2>2
  <1>7. ASSUME NEW k \in 0..(N - 1), k \in A PROVE k + 1 \in A
    <2>1. k \in 0..N /\ k + 1 \in 0..N /\ k + 1 # 0 /\ (k + 1) - 1 = k
      BY <1>1
    <2>2. f[k] \in S /\ f[k + 1] \in S /\ f[k + 1] = OnePass(f[k], bids, asks, price)
      BY <1>2, <1>3, <2>1
    <2>3. ~f[k + 1].done => ~f[k].done /\ E(f[k + 1]) < E(f[k])
      BY <2>2, PassKeeps
    <2>4. E(f[k]) \in Nat /\ E(f[k + 1]) \in Nat
      BY <1>4, <2>2
    <2> HIDE DEF E, S, N
    <2>5. ~f[k].done => E(f[k]) <= (N - 1) - k
      BY <1>7
    <2>6. ~f[k + 1].done => E(f[k + 1]) <= (N - 1) - (k + 1)
      BY <1>1, <2>1, <2>3, <2>4, <2>5
    <2>7. QED
      BY <2>1, <2>6
  <1>8. N \in A
    <2> HIDE DEF A, N
    <2>1. 0..N \subseteq A
      BY <1>1, <1>6, <1>7, CountUp
    <2>2. QED
      BY <1>1, <2>1
  <1>9. f[N] \in S /\ E(f[N]) \in Nat
    BY <1>1, <1>2, <1>4
  <1>10. f[N].done
    <2> HIDE DEF E, S, N
    <2>1. ~f[N].done => E(f[N]) <= (N - 1) - N
      BY <1>8
    <2>2. QED
      BY <1>1, <1>9, <2>1
  <1>11. QED
    BY <1>2, <1>9, <1>10

\* What a list has beyond its first k.
LEMMA TailTotal ==
    ASSUME NEW S, NEW t \in Seq(S), NEW w \in [S -> Int], NEW k \in Nat, k <= Len(t)
    PROVE  LET u == SubSeq(t, k + 1, Len(t))
           IN  u \in Seq(S) /\ Total(t, w) = Upto(t, w, k) + Total(u, w)
               /\ Upto(t, w, k) \in Int
  <1> DEFINE n == Len(t) - k
             u == SubSeq(t, k + 1, Len(t))
             g == [i \in 1..Len(t) |-> w[t[i]]]
             h == [i \in 1..n |-> w[u[i]]]
             D == 1..k
  <1>1. n \in Nat /\ Len(t) = k + n /\ Len(t) \in Nat
    OBVIOUS
  <1>2. u \in Seq(S) /\ Len(u) = n /\ \A i \in 1..n : u[i] = t[k + i]
    <2>1. k + 1 \in 1..(Len(t) + 1) /\ Len(t) \in 0..Len(t)
      BY <1>1
    <2>01. \A i \in (k + 1)..Len(t) : t[i] \in S
      OBVIOUS
    <2>2. /\ u \in Seq(S)
          /\ Len(u) = IF k + 1 <= Len(t) THEN Len(t) - (k + 1) + 1 ELSE 0
          /\ \A i \in 1..(Len(t) - (k + 1) + 1) : u[i] = t[(k + 1) + i - 1]
      BY <2>1, <2>01, SubSeqProperties
    <2> HIDE DEF u
    <2>03. Len(t) - (k + 1) + 1 = n
      BY <1>1
    <2>3. Len(u) = n
      <3>1. CASE k + 1 <= Len(t)
        BY <2>2, <2>03, <3>1
      <3>2. CASE ~(k + 1 <= Len(t))
        <4> HIDE DEF n
        <4>1. n = 0
          BY <1>1, <3>2
        <4>2. QED
          BY <2>2, <3>2, <4>1
      <3>3. QED
        BY <3>1, <3>2
    <2>4. ASSUME NEW i \in 1..n PROVE u[i] = t[k + i]
      <3>1. u[i] = t[(k + 1) + i - 1]
        BY <2>2, <2>03
      <3>2. (k + 1) + i - 1 = k + i
        BY <1>1
      <3>3. QED
        BY <3>1, <3>2
    <2>5. QED
      BY <2>2, <2>3, <2>4
  <1>3. \A i \in 1..k : g[i] \in Int
    BY <1>1
  <1>4. \A i \in 1..n : h[i] \in Int /\ g[k + i] = h[i]
    <2>1. ASSUME NEW i \in 1..n PROVE h[i] \in Int /\ g[k + i] = h[i]
      <3> HIDE DEF u
      <3>1. k + i \in 1..Len(t)
        <4> HIDE DEF n
        <4>1. QED
          BY ONLY <1>1, k \in Nat, i \in 1..n
      <3>01. u[i] = t[k + i]
        BY ONLY <1>2, i \in 1..n
      <3>2. t[k + i] \in S
        BY <3>1
      <3>3. QED
        BY <3>01, <3>2
    <2>2. QED
      BY <2>1
  <1> HIDE DEF g, h, u, n
  <1>5. Continues(g, g, k, h, n)
    BY <1>3, <1>4 DEF Continues
  <1>6. SumFunctionOnSet(g, 1..(k + n)) = SumFunctionOnSet(g, 1..k) + SumFunctionOnSet(h, 1..n)
    BY <1>1, <1>5, SumJoined
  <1>7. SumFunctionOnSet(g, D) \in Int
    <2>1. IsFiniteSet(D) /\ \A i \in D : g[i] \in Int
      BY <1>3, FS_Interval
    <2> HIDE DEF D
    <2>2. QED
      BY <2>1, SumInt
  <1>8. Total(u, w) = SumFunctionOnSet(h, 1..n)
    BY <1>2 DEF Total, h
  <1>9. Total(t, w) = SumFunctionOnSet(g, 1..(k + n)) /\ Upto(t, w, k) = SumFunctionOnSet(g, 1..k)
    BY <1>1 DEF Total, Upto, g
  <1>10. QED
    BY <1>2, <1>6, <1>7, <1>8, <1>9 DEF u

\* A list on which a weight is nothing.
LEMMA TotalNone ==
    ASSUME NEW S, NEW t \in Seq(S), NEW w, \A x \in S : w[x] = 0
    PROVE  Total(t, w) = 0
  <1> DEFINE D == 1..Len(t)
             f == [k \in D |-> w[t[k]]]
  <1>0. IsFiniteSet(D)
    BY FS_Interval
  <1>1. \A k \in D : f[k] = 0
    <2>1. \A k \in D : t[k] \in S
      OBVIOUS
    <2>2. QED
      BY <2>1
  <1> HIDE DEF D, f
  <1>2. SumFunctionOnSet(f, D) = 0
    BY <1>0, <1>1, SumZero
  <1>3. QED
    BY <1>2 DEF Total, D, f

-----------------------------------------------------------------------------
(* What is left over.                                                      *)

\* The buys and the sells of a pair.
Buys(pair) == {x \in Intent : IsBuy(x, pair)}
Sells(pair) == {x \in Intent : IsSell(x, pair)}

\* What a buyer brings is nothing to a sell, nor what a seller brings to a buy,
\* unless the pair is of one mint; then there is no sell.
LEMMA OtherSide ==
    ASSUME NEW pair, NEW x
    PROVE  /\ \A i \in Sells(pair) : Brings(x, pair[2])[i] = 0
           /\ pair[1] # pair[2] => \A i \in Buys(pair) : Brings(x, pair[1])[i] = 0
           /\ pair[1] = pair[2] => Sells(pair) = {}
  BY DEF Sells, Buys, IsSell, IsBuy, Brings

\* What may be left over.
Kept(s, asks, pair, price) ==
    {x \in Intent :
        \/ IsBuy(x, pair) /\ (QuoteToBase(x.in_amount, price) > 0 => SoldOut(s, asks))
        \/ IsSell(x, pair) /\ (x.in_amount > 0 => ~SoldOut(s, asks))}

\* The sides hold buys and sells.
LEMMA SidesTyped ==
    ASSUME NEW bids, NEW asks, NEW pair, Sides(bids, asks, pair)
    PROVE  bids \in Seq(Buys(pair)) /\ asks \in Seq(Sells(pair))
  <1>1. \A k \in 1..Len(bids) : bids[k] \in Buys(pair)
    <2>1. ASSUME NEW k \in 1..Len(bids) PROVE bids[k] \in Buys(pair)
      BY DEF Sides, Buys
    <2>2. QED
      BY <2>1
  <1>2. \A k \in 1..Len(asks) : asks[k] \in Sells(pair)
    <2>1. ASSUME NEW k \in 1..Len(asks) PROVE asks[k] \in Sells(pair)
      BY DEF Sides, Sells
    <2>2. QED
      BY <2>1
  <1>3. QED
    BY <1>1, <1>2 DEF Sides

\* The four parts of what is left over.
LastAsk(s, asks) == IF s.ask > 0 THEN <<Remainder(asks[s.sold], s.ask)>> ELSE <<>>
AsksAfter(s, asks) == SubSeq(asks, s.sold + 1, Len(asks))
BidsAfter(s, bids) == SubSeq(bids, s.bought + 1, Len(bids))

\* The remainder of the last seller.
LEMMA LastAskIs ==
    ASSUME NEW bids, NEW asks, NEW pair, NEW price, Sides(bids, asks, pair),
           NEW s \in LoopOK(bids, asks, pair, price), s.ask > 0
    PROVE  LET e == Remainder(asks[s.sold], s.ask)
           IN  /\ e \in Sells(pair) /\ e.in_amount = s.ask /\ s.sold > 0
               /\ e.signer = asks[s.sold].signer /\ e.in_mint = pair[1]
  <1> DEFINE k == s.sold
             e == Remainder(asks[k], s.ask)
  <1>1. s \in LoopState /\ Counted(s, bids, asks)
    BY DEF LoopOK
  <1>2. k \in Nat /\ s.ask \in Nat /\ k > 0 /\ k <= Len(asks) /\ Len(asks) \in Nat
    BY <1>1 DEF LoopState, Counted, Sides
  <1>3. k \in 1..Len(asks)
    BY <1>2
  <1>4. asks[k] \in Intent /\ IsSell(asks[k], pair)
    BY <1>3 DEF Sides
  <1>5. /\ e \in Intent /\ e.in_amount = s.ask /\ e.signer = asks[k].signer
        /\ e.in_mint = asks[k].in_mint /\ e.out_mint = asks[k].out_mint
    BY <1>2, <1>4 DEF Remainder, Intent, MadeUp
  <1> HIDE DEF e
  <1>6. IsSell(e, pair) /\ e.in_mint = pair[1]
    BY <1>4, <1>5 DEF IsSell, IsBuy
  <1>7. QED
    BY <1>2, <1>5, <1>6 DEF Sells, e

\* The parts, each of members that may be left over.
LEMMA PartsKept ==
    ASSUME NEW bids, NEW asks, NEW pair, NEW price, Sides(bids, asks, pair),
           NEW s \in LoopOK(bids, asks, pair, price), s.done
    PROVE  LET K == Kept(s, asks, pair, price)
           IN  /\ s.residual \in Seq(K) /\ LastAsk(s, asks) \in Seq(K)
               /\ AsksAfter(s, asks) \in Seq(K) /\ BidsAfter(s, bids) \in Seq(K)
  <1> DEFINE K == Kept(s, asks, pair, price)
  <1>1. s \in LoopState /\ Counted(s, bids, asks) /\ Barred(s, asks, pair, price)
    BY DEF LoopOK
  <1>2. /\ s.bought \in Nat /\ s.sold \in Nat /\ s.bid \in Nat /\ s.ask \in Nat
        /\ s.residual \in Seq(Intent) /\ Len(bids) \in Nat /\ Len(asks) \in Nat
        /\ s.bought <= Len(bids) /\ s.sold <= Len(asks)
        /\ (s.bought = Len(bids) \/ (s.ask = 0 /\ s.sold = Len(asks)))
        /\ bids \in Seq(Intent) /\ asks \in Seq(Intent)
    BY <1>1 DEF LoopState, Counted, Sides
  <1>3. s.residual \in Seq(K)
    <2>1. ASSUME NEW i \in 1..Len(s.residual) PROVE s.residual[i] \in K
      <3>1. s.residual[i] \in Intent
        BY <1>2
      <3>2. QED
        BY <1>1, <3>1 DEF Barred, Kept
    <2> DEFINE q == s.residual
    <2>2. q \in Seq(Intent) /\ \A i \in 1..Len(q) : q[i] \in K
      BY <1>2, <2>1
    <2> HIDE DEF K, q
    <2>3. q \in Seq(K)
      BY <2>2
    <2>4. QED
      BY <2>3 DEF q
  <1>4. LastAsk(s, asks) \in Seq(K)
    <2>1. CASE s.ask > 0
      <3> DEFINE e == Remainder(asks[s.sold], s.ask)
      <3>1. e \in Sells(pair)
        BY <2>1, LastAskIs
      <3>2. ~SoldOut(s, asks)
        BY <1>2, <2>1 DEF SoldOut
      <3>3. e \in K
        BY <3>1, <3>2 DEF Kept, Sells
      <3>4. LastAsk(s, asks) = <<e>>
        BY <2>1 DEF LastAsk
      <3> HIDE DEF e, K
      <3>5. QED
        BY <3>3, <3>4
    <2>2. CASE ~(s.ask > 0)
      <3>1. LastAsk(s, asks) = <<>>
        BY <2>2 DEF LastAsk
      <3> HIDE DEF K
      <3>2. QED
        BY <3>1
    <2>3. QED
      BY <2>1, <2>2
  <1>5. AsksAfter(s, asks) \in Seq(K)
    <2>1. ASSUME NEW i \in (s.sold + 1)..Len(asks) PROVE asks[i] \in K
      <3>1. i \in 1..Len(asks) /\ i > s.sold
        BY <1>2
      <3>2. asks[i] \in Intent /\ IsSell(asks[i], pair)
        BY <3>1 DEF Sides
      <3>3. asks[i].in_amount > 0 => ~SoldOut(s, asks)
        BY <3>1 DEF SoldOut
      <3>4. QED
        BY <3>2, <3>3 DEF Kept
    <2> HIDE DEF K
    <2>2. s.sold + 1 \in Int /\ Len(asks) \in Int
      BY <1>2
    <2>3. QED
      BY <2>1, <2>2, SubSeqProperties DEF AsksAfter
  <1>6. BidsAfter(s, bids) \in Seq(K)
    <2>1. ASSUME NEW i \in (s.bought + 1)..Len(bids) PROVE bids[i] \in K
      <3>1. i \in 1..Len(bids) /\ i > s.bought /\ s.bought # Len(bids)
        BY <1>2
      <3>2. bids[i] \in Intent /\ IsBuy(bids[i], pair)
        BY <3>1 DEF Sides
      <3>3. SoldOut(s, asks)
        BY <1>2, <3>1 DEF SoldOut
      <3>4. QED
        BY <3>2, <3>3 DEF Kept
    <2> HIDE DEF K
    <2>2. s.bought + 1 \in Int /\ Len(bids) \in Int
      BY <1>2
    <2>3. QED
      BY <2>1, <2>2, SubSeqProperties DEF BidsAfter
  <1>7. QED
    BY <1>3, <1>4, <1>5, <1>6

\* What is left over, as the code joins it.
LEMMA LeftoverJoined ==
    ASSUME NEW s, NEW bids, NEW asks, NEW S, s.residual \in Seq(S), LastAsk(s, asks) \in Seq(S),
           AsksAfter(s, asks) \in Seq(S), BidsAfter(s, bids) \in Seq(S)
    PROVE  /\ Leftover(s, bids, asks) \in Seq(S)
           /\ \A w \in [S -> Int] :
                 Total(Leftover(s, bids, asks), w)
                   = Total(s.residual, w) + Total(LastAsk(s, asks), w)
                     + Total(AsksAfter(s, asks), w) + Total(BidsAfter(s, bids), w)
  <1> DEFINE a == s.residual
             b == LastAsk(s, asks)
             c == AsksAfter(s, asks)
             d == BidsAfter(s, bids)
             r == Leftover(s, bids, asks)
  <1>1. r = ((a \o b) \o c) \o d
    BY DEF Leftover, LastAsk, AsksAfter, BidsAfter
  <1> HIDE DEF a, b, c, d, r
  <1>2. a \in Seq(S) /\ b \in Seq(S) /\ c \in Seq(S) /\ d \in Seq(S)
    BY DEF a, b, c, d
  <1>3. a \o b \in Seq(S) /\ (a \o b) \o c \in Seq(S)
    BY <1>2
  <1>4. r \in Seq(S)
    BY <1>1, <1>2, <1>3
  <1>5. ASSUME NEW w \in [S -> Int]
        PROVE  Total(r, w) = Total(a, w) + Total(b, w) + Total(c, w) + Total(d, w)
    <2>1. Total(a \o b, w) = Total(a, w) + Total(b, w) /\ Total(a, w) \in Int
      BY <1>2, TotalJoined
    <2>2. Total((a \o b) \o c, w) = Total(a \o b, w) + Total(c, w)
      BY ONLY <1>2, <1>3, TotalJoined, w \in [S -> Int]
    <2>3. Total(r, w) = Total((a \o b) \o c, w) + Total(d, w)
      BY ONLY <1>1, <1>2, <1>3, TotalJoined, w \in [S -> Int]
    <2>4. QED
      BY <2>1, <2>2, <2>3
  <1>6. QED
    BY <1>4, <1>5 DEF a, b, c, d, r

\* A list of members of a set is one of a larger set.
LEMMA SeqWider ==
    ASSUME NEW S, NEW T, S \subseteq T, NEW t \in Seq(S)
    PROVE  t \in Seq(T)
  OBVIOUS

\* What a signer brings is what is left over and what it paid or delivered.
LEMMA LeftoverAdds ==
    ASSUME NEW bids, NEW asks, NEW pair, NEW price, Sides(bids, asks, pair),
           NEW s \in LoopOK(bids, asks, pair, price), s.done, NEW x \in Nat
    PROVE  LET r == Leftover(s, bids, asks)
           IN  /\ Total(bids, Brings(x, pair[2]))
                    = Total(r, Brings(x, pair[2])) + Total(s.matches, Pays(x))
               /\ pair[1] # pair[2] =>
                     Total(asks, Brings(x, pair[1]))
                       = Total(r, Brings(x, pair[1])) + Total(s.matches, Delivers(x))
               /\ pair[1] = pair[2] => s.matches = <<>>
  <1> DEFINE v == Brings(x, pair[2])
             w == Brings(x, pair[1])
             a == s.residual
             b == LastAsk(s, asks)
             c == AsksAfter(s, asks)
             d == BidsAfter(s, bids)
             r == Leftover(s, bids, asks)
             K == Kept(s, asks, pair, price)
             paid == Total(s.matches, Pays(x))
             delivered == Total(s.matches, Delivers(x))
  <1>1. s \in LoopState /\ Counted(s, bids, asks) /\ Balanced(s, bids, asks, pair)
        /\ Barred(s, asks, pair, price)
    BY DEF LoopOK
  <1>2. /\ s.bought \in Nat /\ s.sold \in Nat /\ s.bid = 0 /\ s.ask \in Nat
        /\ s.matches \in Seq(Crossing) /\ a \in Seq(Intent)
        /\ Len(bids) \in Nat /\ Len(asks) \in Nat
        /\ s.bought <= Len(bids) /\ s.sold <= Len(asks)
        /\ bids \in Seq(Intent) /\ asks \in Seq(Intent)
    BY <1>1 DEF LoopState, Counted, Sides
  <1>3. v \in [Intent -> Int] /\ w \in [Intent -> Int] /\ paid \in Int /\ delivered \in Int
    BY <1>2, Weights, TotalInt
  <1>4. b \in Seq(Intent) /\ c \in Seq(Intent) /\ d \in Seq(Intent)
    <2>1. b \in Seq(K) /\ c \in Seq(K) /\ d \in Seq(K)
      BY PartsKept
    <2>2. K \subseteq Intent
      BY DEF Kept
    <2> HIDE DEF K, b, c, d
    <2>3. QED
      BY <2>1, <2>2, SeqWider
  <1>5. \A u \in [Intent -> Int] : Total(r, u) = Total(a, u) + Total(b, u) + Total(c, u) + Total(d, u)
    BY <1>2, <1>4, LeftoverJoined
  <1>6. a \in Seq(Buys(pair))
    <2>1. \A i \in 1..Len(a) : a[i] \in Buys(pair)
      <3>1. ASSUME NEW i \in 1..Len(a) PROVE a[i] \in Buys(pair)
        <4>1. a[i] \in Intent
          BY <1>2
        <4>2. IsBuy(a[i], pair)
          BY <1>1 DEF Barred
        <4>3. QED
          BY <4>1, <4>2 DEF Buys
      <3>2. QED
        BY <3>1
    <2> DEFINE B == Buys(pair)
    <2>02. a \in Seq(Intent) /\ \A i \in 1..Len(a) : a[i] \in B
      BY <1>2, <2>1
    <2> HIDE DEF a, B
    <2>3. a \in Seq(B)
      BY ONLY <2>02
    <2>2. QED
      BY <2>3 DEF B
  <1>7. bids \in Seq(Buys(pair)) /\ asks \in Seq(Sells(pair))
    BY SidesTyped
  <1>8. c \in Seq(Sells(pair)) /\ d \in Seq(Buys(pair))
    <2>1. /\ \A i \in (s.sold + 1)..Len(asks) : asks[i] \in Sells(pair)
          /\ \A i \in (s.bought + 1)..Len(bids) : bids[i] \in Buys(pair)
      BY <1>2, <1>7
    <2>2. s.sold + 1 \in Int /\ s.bought + 1 \in Int /\ Len(bids) \in Int /\ Len(asks) \in Int
      BY <1>2
    <2>3. c \in Seq(Sells(pair))
      BY <2>1, <2>2, SubSeqProperties DEF AsksAfter
    <2>4. d \in Seq(Buys(pair))
      BY <2>1, <2>2, SubSeqProperties DEF BidsAfter
    <2>5. QED
      BY <2>3, <2>4
  <1>9. b \in Seq(Sells(pair))
    <2>1. CASE s.ask > 0
      <3>1. Remainder(asks[s.sold], s.ask) \in Sells(pair)
        BY <2>1, LastAskIs
      <3>2. b = <<Remainder(asks[s.sold], s.ask)>>
        BY <2>1 DEF LastAsk
      <3> HIDE DEF b
      <3>3. QED
        BY <3>1, <3>2
    <2>2. CASE ~(s.ask > 0)
      <3>1. b = <<>>
        BY <2>2 DEF LastAsk
      <3> HIDE DEF b
      <3>2. QED
        BY <3>1
    <2>3. QED
      BY <2>1, <2>2
  <1>10. /\ Upto(bids, v, s.bought) = InHand(bids, s.bought, s.bid, x) + Total(a, v) + paid
         /\ Upto(asks, w, s.sold) = InHand(asks, s.sold, s.ask, x) + delivered
    BY <1>1 DEF Balanced
  <1>11. Total(bids, v) = Total(r, v) + paid
    <2>1. Total(b, v) = 0 /\ Total(c, v) = 0
      <3>1. \A i \in Sells(pair) : v[i] = 0
        BY OtherSide
      <3> HIDE DEF v, b, c
      <3>2. QED
        BY <1>8, <1>9, <3>1, TotalNone
    <2>2. InHand(bids, s.bought, s.bid, x) = 0
      BY <1>2 DEF InHand
    <2>3. Total(bids, v) = Upto(bids, v, s.bought) + Total(d, v)
      <3> HIDE DEF v
      <3>1. Total(bids, v) = Upto(bids, v, s.bought) + Total(SubSeq(bids, s.bought + 1, Len(bids)), v)
        <4> DEFINE k == s.bought
        <4>1. bids \in Seq(Intent) /\ v \in [Intent -> Int] /\ k \in Nat /\ k <= Len(bids)
          BY <1>2, <1>3
        <4> HIDE DEF k
        <4>2. Total(bids, v) = Upto(bids, v, k) + Total(SubSeq(bids, k + 1, Len(bids)), v)
          BY ONLY <4>1, TailTotal
        <4>3. QED
          BY <4>2 DEF k
      <3>2. d = SubSeq(bids, s.bought + 1, Len(bids))
        BY DEF BidsAfter
      <3> HIDE DEF d
      <3>3. QED
        BY <3>1, <3>2
    <2>4. Total(a, v) \in Int /\ Total(d, v) \in Int
      <3> HIDE DEF v, a, d
      <3>1. QED
        BY <1>2, <1>3, <1>4, TotalInt
    <2>5. Total(r, v) = Total(a, v) + Total(b, v) + Total(c, v) + Total(d, v)
      BY <1>3, <1>5
    <2> HIDE DEF v, a, b, c, d, r, paid
    <2>6. QED
      BY <1>3, <1>10, <2>1, <2>2, <2>3, <2>4, <2>5
  <1>12. ASSUME pair[1] # pair[2] PROVE Total(asks, w) = Total(r, w) + delivered
    <2>1. Total(a, w) = 0 /\ Total(d, w) = 0
      <3>1. \A i \in Buys(pair) : w[i] = 0
        BY <1>12, OtherSide
      <3> HIDE DEF w, a, d
      <3>2. QED
        BY <1>6, <1>8, <3>1, TotalNone
    <2>2. Total(asks, w) = Upto(asks, w, s.sold) + Total(c, w)
      <3> HIDE DEF w
      <3>1. Total(asks, w) = Upto(asks, w, s.sold) + Total(SubSeq(asks, s.sold + 1, Len(asks)), w)
        <4> DEFINE k == s.sold
        <4>1. asks \in Seq(Intent) /\ w \in [Intent -> Int] /\ k \in Nat /\ k <= Len(asks)
          BY <1>2, <1>3
        <4> HIDE DEF k
        <4>2. Total(asks, w) = Upto(asks, w, k) + Total(SubSeq(asks, k + 1, Len(asks)), w)
          BY ONLY <4>1, TailTotal
        <4>3. QED
          BY <4>2 DEF k
      <3>2. c = SubSeq(asks, s.sold + 1, Len(asks))
        BY DEF AsksAfter
      <3> HIDE DEF c
      <3>3. QED
        BY <3>1, <3>2
    <2>3. Total(b, w) = InHand(asks, s.sold, s.ask, x) /\ Total(b, w) \in Int
      <3>1. CASE s.ask > 0
        <4> DEFINE e == Remainder(asks[s.sold], s.ask)
        <4>1. /\ e \in Sells(pair) /\ e.in_amount = s.ask /\ s.sold > 0
              /\ e.signer = asks[s.sold].signer /\ e.in_mint = pair[1]
          BY <3>1, LastAskIs
        <4>2. b = Append(<<>>, e) /\ <<>> \in Seq(Intent) /\ e \in Intent
          <5>1. b = <<e>>
            BY <3>1 DEF LastAsk
          <5>2. e \in Intent
            BY <4>1 DEF Sells
          <5> HIDE DEF e, b
          <5>3. QED
            BY <5>1, <5>2
        <4> HIDE DEF e, b
        <4>3. Total(b, w) = Total(<<>>, w) + w[e]
          <5> HIDE DEF w
          <5>1. QED
            BY <1>3, <4>2, TotalAppend
        <4>4. Total(<<>>, w) = 0
          <5>1. Len(<<>>) = 0 /\ 1..0 = {}
            OBVIOUS
          <5> HIDE DEF w
          <5>2. QED
            BY <5>1, SumEmpty DEF Total
        <4>5. w[e] = InHand(asks, s.sold, s.ask, x) /\ w[e] \in Int
          BY <1>2, <4>1, <4>2 DEF Brings, InHand
        <4> HIDE DEF w
        <4>6. QED
          BY <4>3, <4>4, <4>5
      <3>2. CASE ~(s.ask > 0)
        <4>1. b = <<>> /\ s.ask = 0
          BY <1>2, <3>2 DEF LastAsk
        <4>2. Total(<<>>, w) = 0
          <5>1. Len(<<>>) = 0 /\ 1..0 = {}
            OBVIOUS
          <5> HIDE DEF w
          <5>2. QED
            BY <5>1, SumEmpty DEF Total
        <4>3. InHand(asks, s.sold, s.ask, x) = 0
          BY <4>1 DEF InHand
        <4> HIDE DEF w, b
        <4>4. QED
          BY <4>1, <4>2, <4>3
      <3>3. QED
        BY <3>1, <3>2
    <2>4. Total(c, w) \in Int
      <3> HIDE DEF w, c
      <3>1. QED
        BY <1>3, <1>4, TotalInt
    <2>5. Total(r, w) = Total(a, w) + Total(b, w) + Total(c, w) + Total(d, w)
      BY <1>3, <1>5
    <2> HIDE DEF w, a, b, c, d, r, delivered
    <2>6. QED
      BY <1>3, <1>10, <2>1, <2>2, <2>3, <2>4, <2>5
  <1>13. ASSUME pair[1] = pair[2] PROVE s.matches = <<>>
    <2>1. Len(asks) = 0
      <3>1. Sells(pair) = {}
        BY <1>13, OtherSide
      <3>2. \A i \in 1..Len(asks) : asks[i] \in {}
        BY <1>7, <3>1
      <3>3. Len(asks) # 0 => 1 \in 1..Len(asks)
        BY <1>2
      <3>4. QED
        BY <3>2, <3>3
    <2>2. s.sold = 0
      BY <1>2, <2>1
    <2>3. QED
      BY <1>1, <2>2 DEF Counted
  <1>14. QED
    BY <1>11, <1>12, <1>13

-----------------------------------------------------------------------------
(* The sides and the price of a pair.                                      *)

\* What a market maker is.
AmmType == [spot : Nat, impact : Nat]

\* Amounts add up to an amount.
LEMMA SumOfNats ==
    ASSUME NEW n \in Nat, NEW f, f = [i \in 1..n |-> f[i]], \A i \in 1..n : f[i] \in Nat
    PROVE  SumOver(f) \in Nat
  <1> DEFINE D == 1..n
  <1>00. n \in Int /\ D = 1..n
    OBVIOUS
  <1>0. IsFiniteSet(D)
    <2> HIDE DEF D
    <2>1. QED
      BY ONLY <1>00, FS_Interval
  <1>1. IsFiniteSet(D) /\ DOMAIN f = D /\ \A i \in D : f[i] \in Nat
    BY <1>0
  <1> HIDE DEF D
  <1>2. SumFunctionOnSet(f, D) \in Nat
    BY <1>1, SumNat
  <1>3. QED
    BY <1>1, <1>2 DEF SumOver

\* The price that clears a pair is a price.
LEMMA PriceIsNat ==
    ASSUME NEW buys \in Seq(Intent), NEW sells \in Seq(Intent), NEW m \in AmmType
    PROVE  ClearingPrice(buys, sells, m) \in Nat
  <1> DEFINE pre == SpotPrice(m)
             f == [i \in DOMAIN buys |-> QuoteToBase(buys[i].in_amount, pre)]
             g == [i \in DOMAIN sells |-> sells[i].in_amount]
             demanded == SumOver(f)
             offered == SumOver(g)
             post == IF demanded > offered THEN PostPrice(m, demanded - offered, "buy")
                     ELSE PostPrice(m, offered - demanded, "sell")
  <1>1. pre \in Nat /\ m.spot \in Nat /\ m.impact \in Nat
    BY DEF SpotPrice, AmmType
  <1>2. demanded \in Nat
    <2> DEFINE n == Len(buys)
    <2>1. n \in Nat /\ f = [i \in 1..n |-> f[i]]
      OBVIOUS
    <2>2. ASSUME NEW i \in 1..n PROVE f[i] \in Nat
      <3>0. buys[i] \in Intent
        OBVIOUS
      <3>1. buys[i].in_amount \in Nat
        BY <3>0 DEF Intent
      <3>2. QuoteToBase(buys[i].in_amount, pre) \in Nat
        BY <1>1, <3>1, BaseIsNat
      <3>3. QED
        BY <3>2
    <2> HIDE DEF f, n
    <2>3. QED
      BY <2>1, <2>2, SumOfNats
  <1>3. offered \in Nat
    <2> DEFINE n == Len(sells)
    <2>1. n \in Nat /\ g = [i \in 1..n |-> g[i]]
      OBVIOUS
    <2>2. ASSUME NEW i \in 1..n PROVE g[i] \in Nat
      <3>1. sells[i] \in Intent
        OBVIOUS
      <3>2. sells[i].in_amount \in Nat
        BY <3>1 DEF Intent
      <3>3. QED
        BY <3>2
    <2> HIDE DEF g, n
    <2>3. QED
      BY <2>1, <2>2, SumOfNats
  <1> HIDE DEF demanded, offered, f, g
  <1>4. post \in Nat
    <2>1. ASSUME NEW net \in Nat, NEW side PROVE PostPrice(m, net, side) \in Nat
      <3> DEFINE p == m.impact * net
      <3>1. p \in Nat
        BY <1>1
      <3>2. PostPrice(m, net, side)
              = IF side = "buy" THEN m.spot + p ELSE IF p < m.spot THEN m.spot - p ELSE 0
        BY DEF PostPrice
      <3> HIDE DEF p
      <3>3. QED
        BY <1>1, <3>1, <3>2
    <2>2. CASE demanded > offered
      <3>1. demanded - offered \in Nat
        BY <1>2, <1>3, <2>2
      <3>2. PostPrice(m, demanded - offered, "buy") \in Nat
        BY <2>1, <3>1
      <3>3. QED
        BY <2>2, <3>2
    <2>3. CASE ~(demanded > offered)
      <3>1. offered - demanded \in Nat
        BY <1>2, <1>3, <2>3
      <3>2. PostPrice(m, offered - demanded, "sell") \in Nat
        BY <2>1, <3>1
      <3>3. QED
        BY <2>3, <3>2
    <2>4. QED
      BY <2>2, <2>3
  <1>5. ClearingPrice(buys, sells, m) = Midpoint(pre, post)
    BY DEF ClearingPrice, demanded, offered, f, g
  <1> HIDE DEF pre, post
  <1>6. Midpoint(pre, post) \in Nat
    <2>1. pre \div 2 \in Nat /\ post \div 2 \in Nat /\ (pre % 2) \in 0..1 /\ (post % 2) \in 0..1
      BY <1>1, <1>4
    <2>2. ((pre % 2) + (post % 2)) \div 2 \in Nat
      <3>1. (pre % 2) + (post % 2) \in Nat
        BY <2>1
      <3>2. QED
        BY <3>1, QuotientBounds
    <2>3. QED
      BY <2>1, <2>2 DEF Midpoint
  <1>7. QED
    BY <1>5, <1>6

\* What is picked of a list where a weight is not nothing has all of it.
LEMMA PickTotal ==
    ASSUME NEW s \in Seq(Intent), NEW P \in SUBSET (1..Len(s)), NEW t, Picks(t, s, P),
           NEW w \in [Intent -> Int], \A i \in (1..Len(s)) \ P : w[s[i]] = 0
    PROVE  Total(s, w) = Total(t, w)
  <1> DEFINE D == 1..Len(s)
             f == [i \in 1..Len(s) |-> w[s[i]]]
  <1>1. IsFiniteSet(D) /\ P \in SUBSET D
    BY FS_Interval
  <1>2. (\A i \in D : f[i] \in Int) /\ \A i \in D \ P : f[i] = 0
    OBVIOUS
  <1>3. Total(t, w) = SumFunctionOnSet(f, P)
    BY PickSum
  <1> HIDE DEF D, f
  <1>4. SumFunctionOnSet(f, D) = SumFunctionOnSet(f, P)
    BY <1>1, <1>2, SumWhere
  <1>5. QED
    BY <1>3, <1>4 DEF Total, D, f

\* A filter, then the sort, pick what the filter lets through.
LEMMA SortPicks ==
    ASSUME NEW s \in Seq(Intent), NEW P \in SUBSET (1..Len(s))
    PROVE  LET t == SizePriority(Those(s, P))
           IN  Those(s, P) \in Seq(Intent) /\ Picks(t, s, P) /\ Sized(t) /\ t \in Seq(Intent)
               /\ \A k \in 1..Len(t) : \E p \in P : t[k] = s[p]
  <1> DEFINE u == Those(s, P)
             t == SizePriority(u)
  <1>1. Picks(u, s, P) /\ u \in Seq(Intent)
    BY ThosePick DEF Picks
  <1> HIDE DEF u
  <1>2. Picks(t, u, 1..Len(u)) /\ Sized(t)
    BY <1>1, SizePicks
  <1>3. Where(u, 1..Len(u), Intent) = 1..Len(u)
    <2>1. \A k \in 1..Len(u) : u[k] \in Intent
      BY <1>1
    <2>2. QED
      BY <2>1 DEF Where
  <1>4. Where(s, P, Intent) = P
    <2>1. \A p \in P : s[p] \in Intent
      OBVIOUS
    <2>2. QED
      BY <2>1 DEF Where
  <1> HIDE DEF t
  <1>5. Picks(t, u, Where(u, 1..Len(u), Intent)) /\ Intent \in SUBSET Intent
    BY <1>2, <1>3
  <1>6. Picks(t, s, Where(s, P, Intent))
    BY <1>1, <1>5, PicksOfPicks
  <1>7. Picks(t, s, P)
    BY <1>4, <1>6
  <1>8. t \in Seq(Intent) /\ \A k \in 1..Len(t) : \E p \in P : t[k] = s[p]
    <2>1. PICK a : Numbers(a, Len(t), P) /\ \A k \in 1..Len(t) : t[k] = s[a[k]]
      BY <1>7 DEF Picks
    <2>2. \A k \in 1..Len(t) : a[k] \in P
      BY <2>1 DEF Numbers
    <2>3. QED
      BY <1>7, <2>1, <2>2 DEF Picks
  <1>9. QED
    BY <1>1, <1>2, <1>7, <1>8 DEF t, u

\* The properties' sums, as sums of weights.
LEMMA BroughtIs ==
    ASSUME NEW s \in Seq(Intent), NEW x, NEW mint
    PROVE  Brought(s, x, mint) = Total(s, Brings(x, mint))
  <1> DEFINE n == Len(s)
             w == Brings(x, mint)
             f == [i \in 1..n |->
                      IF s[i].signer = x /\ s[i].in_mint = mint THEN s[i].in_amount ELSE 0]
             g == [k \in 1..n |-> w[s[k]]]
  <1>1. DOMAIN s = 1..n /\ \A i \in 1..n : s[i] \in Intent
    OBVIOUS
  <1>2. \A i \in 1..n : w[s[i]] = f[i]
    BY <1>1 DEF Brings
  <1>3. f = g
    BY <1>2
  <1>4. Brought(s, x, mint) = SumOver(f)
    BY <1>1 DEF Brought
  <1>5. SumOver(f) = SumFunctionOnSet(f, 1..n)
    BY DEF SumOver
  <1>6. Total(s, w) = SumFunctionOnSet(g, 1..n)
    BY DEF Total
  <1> HIDE DEF f, g, w, n
  <1>7. Brought(s, x, mint) = Total(s, w)
    BY <1>3, <1>4, <1>5, <1>6
  <1>8. QED
    BY <1>7 DEF w

\* What a buyer pays.
LEMMA PaidIs ==
    ASSUME NEW s \in Seq(Crossing), NEW x
    PROVE  Paid(s, x) = Total(s, Pays(x))
  <1> DEFINE n == Len(s)
             w == Pays(x)
             f == [i \in 1..n |-> IF s[i].buyer = x THEN s[i].quote_amount ELSE 0]
             g == [k \in 1..n |-> w[s[k]]]
  <1>1. DOMAIN s = 1..n /\ \A i \in 1..n : s[i] \in Crossing
    OBVIOUS
  <1>2. \A i \in 1..n : w[s[i]] = f[i]
    BY <1>1 DEF Pays
  <1>3. f = g
    BY <1>2
  <1>4. Paid(s, x) = SumOver(f)
    BY <1>1 DEF Paid
  <1>5. SumOver(f) = SumFunctionOnSet(f, 1..n)
    BY DEF SumOver
  <1>6. Total(s, w) = SumFunctionOnSet(g, 1..n)
    BY DEF Total
  <1> HIDE DEF f, g, w, n
  <1>7. Paid(s, x) = Total(s, w)
    BY <1>3, <1>4, <1>5, <1>6
  <1>8. QED
    BY <1>7 DEF w

\* What a seller delivers.
LEMMA DeliveredIs ==
    ASSUME NEW s \in Seq(Crossing), NEW x
    PROVE  Delivered(s, x) = Total(s, Delivers(x))
  <1> DEFINE n == Len(s)
             w == Delivers(x)
             f == [i \in 1..n |-> IF s[i].seller = x THEN s[i].base_amount ELSE 0]
             g == [k \in 1..n |-> w[s[k]]]
  <1>1. DOMAIN s = 1..n /\ \A i \in 1..n : s[i] \in Crossing
    OBVIOUS
  <1>2. \A i \in 1..n : w[s[i]] = f[i]
    BY <1>1 DEF Delivers
  <1>3. f = g
    BY <1>2
  <1>4. Delivered(s, x) = SumOver(f)
    BY <1>1 DEF Delivered
  <1>5. SumOver(f) = SumFunctionOnSet(f, 1..n)
    BY DEF SumOver
  <1>6. Total(s, w) = SumFunctionOnSet(g, 1..n)
    BY DEF Total
  <1> HIDE DEF f, g, w, n
  <1>7. Delivered(s, x) = Total(s, w)
    BY <1>3, <1>4, <1>5, <1>6
  <1>8. QED
    BY <1>7 DEF w

\* g is the intents of one pair.
OfPair(g, pair) ==
    g \in Seq(Intent) /\ \A i \in 1..Len(g) : IsBuy(g[i], pair) \/ IsSell(g[i], pair)

\* A group is of its pair: each of its intents is a buy or a sell (classify_pair).
LEMMA GroupIsOfPair ==
    ASSUME NEW s \in Seq(Intent), NEW pair
    PROVE  OfPair(Group(s, pair), pair)
  <1> DEFINE P == {i \in DOMAIN s : ClassifyPair(s[i]) = pair}
             g == Those(s, P)
  <1>1. P \in SUBSET (1..Len(s))
    OBVIOUS
  <1>2. \A p \in P : ClassifyPair(s[p]) = pair
    OBVIOUS
  <1> HIDE DEF P
  <1>3. Picks(g, s, P)
    BY <1>1, ThosePick
  <1> HIDE DEF g
  <1>4. PICK a : Numbers(a, Len(g), P) /\ \A k \in 1..Len(g) : g[k] = s[a[k]]
    BY <1>3 DEF Picks
  <1>5. ASSUME NEW k \in 1..Len(g) PROVE IsBuy(g[k], pair) \/ IsSell(g[k], pair)
    <2>1. a[k] \in P
      BY <1>4 DEF Numbers
    <2>2. ClassifyPair(g[k]) = pair
      BY <1>2, <1>4, <2>1
    <2> DEFINE y == g[k]
    <2>3. pair = <<y.out_mint, y.in_mint>> \/ pair = <<y.in_mint, y.out_mint>>
      BY <2>2 DEF ClassifyPair
    <2>4. QED
      BY <2>3 DEF IsBuy, IsSell
  <1>6. OfPair(g, pair)
    BY <1>3, <1>5 DEF OfPair, Picks
  <1>7. QED
    BY <1>6 DEF Group, g, P

\* The sides of a pair's intents.
BuysOf(g, pair) == {i \in DOMAIN g : IsBuy(g[i], pair)}
SellsOf(g, pair) == {i \in DOMAIN g : IsSell(g[i], pair)}
BidsOf(g, pair) == SizePriority(Those(g, BuysOf(g, pair)))
AsksOf(g, pair) == SizePriority(Those(g, SellsOf(g, pair)))
PriceOf(g, pair, m) == ClearingPrice(Those(g, BuysOf(g, pair)), Those(g, SellsOf(g, pair)), m)
EndOf(g, pair, m) == Cross(BidsOf(g, pair), AsksOf(g, pair), PriceOf(g, pair, m))

\* What clear_pair returns.
LEMMA ClearPairIs ==
    ASSUME NEW g, NEW pair, NEW m
    PROVE  LET r == ClearPair(pair, g, m)
           IN  /\ r.price = PriceOf(g, pair, m)
               /\ r.matches = EndOf(g, pair, m).matches
               /\ r.residual = Leftover(EndOf(g, pair, m), BidsOf(g, pair), AsksOf(g, pair))
  BY DEF ClearPair, PriceOf, EndOf, BidsOf, AsksOf, BuysOf, SellsOf

\* The sides are what the loop expects.
LEMMA SidesOf ==
    ASSUME NEW g, NEW pair, OfPair(g, pair), NEW m \in AmmType
    PROVE  /\ Sides(BidsOf(g, pair), AsksOf(g, pair), pair)
           /\ Picks(BidsOf(g, pair), g, BuysOf(g, pair))
           /\ Picks(AsksOf(g, pair), g, SellsOf(g, pair))
           /\ Sized(BidsOf(g, pair))
           /\ PriceOf(g, pair, m) \in Nat
  <1> DEFINE P == BuysOf(g, pair)
             Q == SellsOf(g, pair)
             bids == SizePriority(Those(g, P))
             asks == SizePriority(Those(g, Q))
  <1>1. g \in Seq(Intent) /\ P \in SUBSET (1..Len(g)) /\ Q \in SUBSET (1..Len(g))
        /\ (\A p \in P : IsBuy(g[p], pair)) /\ (\A q \in Q : IsSell(g[q], pair))
    BY DEF OfPair, BuysOf, SellsOf
  <1> HIDE DEF P, Q
  <1>2. Those(g, P) \in Seq(Intent) /\ Picks(bids, g, P) /\ Sized(bids) /\ bids \in Seq(Intent)
        /\ \A k \in 1..Len(bids) : \E p \in P : bids[k] = g[p]
    BY <1>1, SortPicks
  <1>3. Those(g, Q) \in Seq(Intent) /\ Picks(asks, g, Q) /\ Sized(asks) /\ asks \in Seq(Intent)
        /\ \A k \in 1..Len(asks) : \E q \in Q : asks[k] = g[q]
    BY <1>1, SortPicks
  <1>4. ClearingPrice(Those(g, P), Those(g, Q), m) \in Nat
    BY <1>2, <1>3, PriceIsNat
  <1> HIDE DEF bids, asks
  <1>5. \A k \in 1..Len(bids) : IsBuy(bids[k], pair)
    BY <1>1, <1>2
  <1>6. \A k \in 1..Len(asks) : IsSell(asks[k], pair)
    BY <1>1, <1>3
  <1>7. Sides(bids, asks, pair)
    BY <1>2, <1>3, <1>5, <1>6 DEF Sides
  <1>8. QED
    BY <1>2, <1>3, <1>4, <1>7 DEF bids, asks, P, Q, BidsOf, AsksOf, PriceOf

-----------------------------------------------------------------------------
(* Every batch is cleared fairly.                                          *)

\* What is brought of a mint is brought by the side that gives it.
LEMMA SideTotals ==
    ASSUME NEW g, NEW pair, OfPair(g, pair), NEW m \in AmmType, NEW x
    PROVE  /\ Total(g, Brings(x, pair[2])) = Total(BidsOf(g, pair), Brings(x, pair[2]))
           /\ pair[1] # pair[2] =>
                 Total(g, Brings(x, pair[1])) = Total(AsksOf(g, pair), Brings(x, pair[1]))
  <1> DEFINE v == Brings(x, pair[2])
             w == Brings(x, pair[1])
             P == BuysOf(g, pair)
             Q == SellsOf(g, pair)
             D == 1..Len(g)
  <1>1. g \in Seq(Intent) /\ \A i \in D : IsBuy(g[i], pair) \/ IsSell(g[i], pair)
    BY DEF OfPair
  <1>2. P \in SUBSET D /\ Q \in SUBSET D
        /\ (\A i \in D : IsBuy(g[i], pair) => i \in P)
        /\ (\A i \in D : IsSell(g[i], pair) => i \in Q)
    BY <1>1 DEF BuysOf, SellsOf
  <1>3. v \in [Intent -> Int] /\ w \in [Intent -> Int]
    BY Weights
  <1>4. Picks(BidsOf(g, pair), g, P) /\ Picks(AsksOf(g, pair), g, Q)
    BY SidesOf
  <1>5. \A i \in D \ P : v[g[i]] = 0
    <2>1. ASSUME NEW i \in D \ P PROVE v[g[i]] = 0
      <3>1. g[i] \in Intent /\ IsSell(g[i], pair)
        BY <1>1, <1>2
      <3>2. g[i] \in Sells(pair)
        BY <3>1 DEF Sells
      <3>3. QED
        BY <3>2, OtherSide
    <2>2. QED
      BY <2>1
  <1>6. ASSUME pair[1] # pair[2] PROVE \A i \in D \ Q : w[g[i]] = 0
    <2>1. ASSUME NEW i \in D \ Q PROVE w[g[i]] = 0
      <3>1. g[i] \in Intent /\ IsBuy(g[i], pair)
        BY <1>1, <1>2
      <3>2. g[i] \in Buys(pair)
        BY <3>1 DEF Buys
      <3>3. QED
        BY <1>6, <3>2, OtherSide
    <2>2. QED
      BY <2>1
  <1> HIDE DEF v, w, P, Q
  <1>7. Total(g, v) = Total(BidsOf(g, pair), v)
    BY <1>1, <1>2, <1>3, <1>4, <1>5, PickTotal
  <1>8. ASSUME pair[1] # pair[2] PROVE Total(g, w) = Total(AsksOf(g, pair), w)
    <2>1. \A i \in D \ Q : w[g[i]] = 0
      BY <1>6, <1>8
    <2>2. QED
      BY <1>1, <1>2, <1>3, <1>4, <2>1, PickTotal
  <1>9. QED
    BY <1>7, <1>8 DEF v, w

\* A pair is cleared fairly.
LEMMA PairCleared ==
    ASSUME NEW g, NEW pair, OfPair(g, pair), NEW m \in AmmType,
           NEW r, r = ClearPair(pair, g, m)
    PROVE  /\ \A x \in Nat :
                 /\ Brought(g, x, pair[2]) = Brought(r.residual, x, pair[2]) + Paid(r.matches, x)
                 /\ Brought(g, x, pair[1])
                      = Brought(r.residual, x, pair[1]) + Delivered(r.matches, x)
           /\ \A i \in DOMAIN r.matches : FairAt(r.matches[i], r.price)
           /\ ~ \E i, j \in DOMAIN r.residual :
                   /\ IsBuy(r.residual[i], pair)
                   /\ QuoteToBase(r.residual[i].in_amount, r.price) > 0
                   /\ IsSell(r.residual[j], pair) /\ r.residual[j].in_amount > 0
  <1> DEFINE bids == BidsOf(g, pair)
             asks == AsksOf(g, pair)
             price == PriceOf(g, pair, m)
             end == EndOf(g, pair, m)
             left == Leftover(end, bids, asks)
             K == Kept(end, asks, pair, price)
  <1>1. r.price = price /\ r.matches = end.matches /\ r.residual = left
    BY ClearPairIs
  <1>2. Sides(bids, asks, pair) /\ price \in Nat /\ g \in Seq(Intent)
    BY SidesOf DEF OfPair
  <1>3. end \in LoopOK(bids, asks, pair, price) /\ end.done
    BY <1>2, LoopDone DEF EndOf
  <1> HIDE DEF bids, asks, price, end
  <1>4. end.matches \in Seq(Crossing) /\ Priced(end, price)
    BY <1>3 DEF LoopOK, LoopState
  <1>5. left \in Seq(K)
    <2>1. /\ end.residual \in Seq(K) /\ LastAsk(end, asks) \in Seq(K)
          /\ AsksAfter(end, asks) \in Seq(K) /\ BidsAfter(end, bids) \in Seq(K)
      BY <1>2, <1>3, PartsKept
    <2> HIDE DEF K
    <2>2. QED
      BY <2>1, LeftoverJoined
  <1>6. left \in Seq(Intent)
    <2>1. K \subseteq Intent
      BY DEF Kept
    <2> HIDE DEF K, left
    <2>2. QED
      BY <1>5, <2>1, SeqWider
  <1>7. ASSUME NEW x \in Nat
        PROVE  /\ Brought(g, x, pair[2]) = Brought(left, x, pair[2]) + Paid(end.matches, x)
               /\ Brought(g, x, pair[1]) = Brought(left, x, pair[1]) + Delivered(end.matches, x)
    <2> DEFINE v == Brings(x, pair[2])
               w == Brings(x, pair[1])
               paid == Total(end.matches, Pays(x))
               delivered == Total(end.matches, Delivers(x))
    <2>1. /\ Total(bids, v) = Total(left, v) + paid
          /\ pair[1] # pair[2] => Total(asks, w) = Total(left, w) + delivered
          /\ pair[1] = pair[2] => end.matches = <<>>
      BY <1>2, <1>3, LeftoverAdds
    <2>2. Total(g, v) = Total(bids, v) /\ (pair[1] # pair[2] => Total(g, w) = Total(asks, w))
      BY SideTotals DEF bids, asks
    <2>3. Brought(g, x, pair[2]) = Total(g, v) /\ Brought(g, x, pair[1]) = Total(g, w)
      BY <1>2, BroughtIs
    <2>4. Brought(left, x, pair[2]) = Total(left, v) /\ Brought(left, x, pair[1]) = Total(left, w)
      BY <1>6, BroughtIs
    <2>5. Paid(end.matches, x) = paid /\ Delivered(end.matches, x) = delivered
      BY <1>4, PaidIs, DeliveredIs
    <2>6. ASSUME pair[1] = pair[2] PROVE Total(g, w) = Total(left, w) + delivered
      <3>1. Total(<<>>, Pays(x)) = 0 /\ Total(<<>>, Delivers(x)) = 0
        <4>1. Len(<<>>) = 0 /\ 1..0 = {}
          OBVIOUS
        <4>2. QED
          BY <4>1, SumEmpty DEF Total
      <3>2. paid = 0 /\ delivered = 0
        BY <2>1, <2>6, <3>1
      <3>3. v = w
        BY <2>6
      <3>4. Total(g, v) = Total(left, v) + paid
        BY <2>1, <2>2
      <3> HIDE DEF v, w, paid, delivered
      <3>5. QED
        BY <3>2, <3>3, <3>4
    <2> HIDE DEF v, w, paid, delivered, left
    <2>7. Total(g, v) = Total(left, v) + paid
      BY <2>1, <2>2
    <2>8. Total(g, w) = Total(left, w) + delivered
      BY <2>1, <2>2, <2>6
    <2>9. QED
      BY <2>3, <2>4, <2>5, <2>7, <2>8
  <1>8. \A i \in DOMAIN end.matches : FairAt(end.matches[i], price)
    <2>1. DOMAIN end.matches = 1..Len(end.matches)
      BY <1>4
    <2>2. QED
      BY <1>4, <2>1 DEF Priced
  <1>9. ~ \E i, j \in DOMAIN left :
              /\ IsBuy(left[i], pair) /\ QuoteToBase(left[i].in_amount, price) > 0
              /\ IsSell(left[j], pair) /\ left[j].in_amount > 0
    <2> HIDE DEF left, K
    <2>1. SUFFICES ASSUME NEW i \in DOMAIN left, NEW j \in DOMAIN left,
                          IsBuy(left[i], pair), QuoteToBase(left[i].in_amount, price) > 0,
                          IsSell(left[j], pair), left[j].in_amount > 0
                   PROVE  FALSE
      OBVIOUS
    <2>2. left[i] \in K /\ left[j] \in K
      BY <1>5
    <2>3. SoldOut(end, asks)
      BY <2>1, <2>2 DEF K, Kept, IsSell
    <2>4. ~SoldOut(end, asks)
      BY <2>1, <2>2 DEF K, Kept, IsSell
    <2>5. QED
      BY <2>3, <2>4
  <1> HIDE DEF left
  <1>10. QED
    BY <1>1, <1>7, <1>8, <1>9

\* The batch and its market maker are ones the bounds allow.
BatchOK ==
    /\ batch \in Seq([kind : DOMAIN IntentKinds, nonce : Nat])
    /\ amm \in AmmType

\* Intents are only added, of kinds there are.
LEMMA BatchIsOK == BatchSpec => []BatchOK
  <1>1. BatchInit => BatchOK
    BY BatchAssumption DEF BatchInit, BatchOK, AmmType
  <1>2. BatchOK /\ [AddIntent]_batchVars => BatchOK'
    <2>1. SUFFICES ASSUME BatchOK, [AddIntent]_batchVars PROVE BatchOK'
      OBVIOUS
    <2> DEFINE T == [kind : DOMAIN IntentKinds, nonce : Nat]
    <2>2. CASE AddIntent
      <3>1. PICK k \in DOMAIN IntentKinds :
                batch' = Append(batch, [kind |-> k, nonce |-> Len(batch) + 1])
        BY <2>2 DEF AddIntent
      <3>2. batch \in Seq(T) /\ amm' = amm
        BY <2>1, <2>2 DEF BatchOK, AddIntent
      <3>3. [kind |-> k, nonce |-> Len(batch) + 1] \in T
        BY <3>2
      <3> HIDE DEF T
      <3>4. batch' \in Seq(T)
        BY <3>1, <3>2, <3>3
      <3>5. QED
        BY <2>1, <3>2, <3>4 DEF BatchOK, T
    <2>3. CASE UNCHANGED batchVars
      BY <2>1, <2>3 DEF BatchOK, batchVars
    <2>4. QED
      BY <2>1, <2>2, <2>3
  <1>3. QED
    BY <1>1, <1>2, PTL DEF BatchSpec

\* The intents of a batch are intents.
LEMMA IntentsTyped ==
    ASSUME BatchOK
    PROVE  intents \in Seq(Intent) /\ Len(intents) = Len(batch)
  <1> DEFINE T == [kind : DOMAIN IntentKinds, nonce : Nat]
             U == [signer : Nat, in_mint : Nat, out_mint : Nat, in_amount : Nat]
             n == Len(batch)
             e(i) == [signer    |-> IntentKinds[batch[i].kind].signer,
                      in_mint   |-> IntentKinds[batch[i].kind].in_mint,
                      in_amount |-> IntentKinds[batch[i].kind].in_amount,
                      out_mint  |-> IntentKinds[batch[i].kind].out_mint,
                      nonce     |-> batch[i].nonce]
  <1>1. batch \in Seq(T) /\ n \in Nat /\ DOMAIN batch = 1..n
    BY DEF BatchOK
  <1>2. IntentKinds \in Seq(U)
    BY BatchAssumption
  <1>3. ASSUME NEW i \in 1..n PROVE e(i) \in Intent
    <2>1. batch[i] \in T
      <3> HIDE DEF T, n
      <3>1. QED
        BY <1>1
    <2>2. batch[i].kind \in DOMAIN IntentKinds /\ batch[i].nonce \in Nat
      BY <2>1
    <2>3. IntentKinds[batch[i].kind] \in U
      <3> HIDE DEF U
      <3>1. QED
        BY <1>2, <2>2
    <2>4. QED
      BY <2>2, <2>3 DEF Intent
  <1>4. intents = [i \in 1..n |-> e(i)]
    BY <1>1 DEF intents
  <1> HIDE DEF e, n
  <1>5. intents \in Seq(Intent) /\ Len(intents) = n
    BY <1>1, <1>3, <1>4
  <1>6. QED
    BY <1>5 DEF n

\* The property, at any state of the invariant.
LEMMA ClearedFairly ==
    ASSUME BatchOK
    PROVE  ClearsFairly
  <1> DEFINE cleared == BatchMatch(intents, amm)
  <1>1. intents \in Seq(Intent) /\ amm \in AmmType
    BY IntentsTyped DEF BatchOK
  <1>2. ASSUME NEW pair \in DOMAIN cleared
        PROVE  LET r     == cleared[pair]
                   group == Group(intents, pair)
               IN  /\ \A i \in DOMAIN group :
                         LET s == group[i].signer
                         IN  /\ Brought(group, s, pair[2])
                                   = Brought(r.residual, s, pair[2]) + Paid(r.matches, s)
                             /\ Brought(group, s, pair[1])
                                   = Brought(r.residual, s, pair[1]) + Delivered(r.matches, s)
                   /\ \A i \in DOMAIN r.matches :
                         LET m == r.matches[i]
                         IN  /\ m.base_amount > 0
                             /\ m.quote_amount * One >= m.base_amount * r.price
                             /\ (m.quote_amount - 1) * One < m.base_amount * r.price
                   /\ ~ \E i, j \in DOMAIN r.residual :
                           LET x == r.residual[i]
                               y == r.residual[j]
                           IN  /\ IsBuy(x, pair) /\ QuoteToBase(x.in_amount, r.price) > 0
                               /\ IsSell(y, pair) /\ y.in_amount > 0
    <2> DEFINE g == Group(intents, pair)
               r == cleared[pair]
    <2>1. r = ClearPair(pair, g, amm)
      BY DEF BatchMatch
    <2>2. OfPair(g, pair)
      BY <1>1, GroupIsOfPair
    <2> HIDE DEF g, r
    <2>3. /\ \A x \in Nat :
                 /\ Brought(g, x, pair[2]) = Brought(r.residual, x, pair[2]) + Paid(r.matches, x)
                 /\ Brought(g, x, pair[1])
                      = Brought(r.residual, x, pair[1]) + Delivered(r.matches, x)
          /\ \A i \in DOMAIN r.matches : FairAt(r.matches[i], r.price)
          /\ ~ \E i, j \in DOMAIN r.residual :
                   /\ IsBuy(r.residual[i], pair)
                   /\ QuoteToBase(r.residual[i].in_amount, r.price) > 0
                   /\ IsSell(r.residual[j], pair) /\ r.residual[j].in_amount > 0
      BY <1>1, <2>1, <2>2, PairCleared
    <2>4. ASSUME NEW i \in DOMAIN g PROVE g[i].signer \in Nat
      <3>1. g[i] \in Intent
        BY <2>2 DEF OfPair
      <3>2. QED
        BY <3>1 DEF Intent
    <2>5. \A i \in DOMAIN g :
              /\ Brought(g, g[i].signer, pair[2])
                   = Brought(r.residual, g[i].signer, pair[2]) + Paid(r.matches, g[i].signer)
              /\ Brought(g, g[i].signer, pair[1])
                   = Brought(r.residual, g[i].signer, pair[1]) + Delivered(r.matches, g[i].signer)
      BY <2>3, <2>4
    <2>6. QED
      BY <2>3, <2>5 DEF g, r, FairAt
  <1>3. QED
    BY <1>2 DEF ClearsFairly

\* ClearsFairly, for any kinds of intents and any batch of them (clear_pair of
\* batch.rs): of every mint, a signer spends in crosses and keeps in the residual
\* just what it brought; every cross is at the clearing price, rounded up by less
\* than one quote unit; and nobody is left over who could still trade with
\* somebody else left over.
THEOREM BatchesClearFairly == BatchSpec => []ClearsFairly
  <1>1. BatchOK => ClearsFairly
    BY ClearedFairly
  <1>2. QED
    BY <1>1, BatchIsOK, PTL

-----------------------------------------------------------------------------
(* Replays.  The loop does not tell intents apart that differ in their     *)
(* nonce, and sorting puts like intents at like places.                    *)

\* Two lists of a side that differ in their nonces at most.
Alike(t, u) ==
    /\ t \in Seq(Intent) /\ u \in Seq(Intent) /\ Len(u) = Len(t)
    /\ \A k \in 1..Len(t) : Like(t[k], u[k])

\* Like intents agree on all but the nonce.
LEMMA LikeIs ==
    ASSUME NEW x \in Intent, NEW y \in Intent
    PROVE  Like(x, y) <=> /\ x.signer = y.signer /\ x.in_mint = y.in_mint
                          /\ x.in_amount = y.in_amount /\ x.out_mint = y.out_mint
  <1>1. Like(x, y) => /\ x.signer = y.signer /\ x.in_mint = y.in_mint
                      /\ x.in_amount = y.in_amount /\ x.out_mint = y.out_mint
    <2>1. ASSUME Like(x, y)
          PROVE  /\ x.signer = y.signer /\ x.in_mint = y.in_mint
                 /\ x.in_amount = y.in_amount /\ x.out_mint = y.out_mint
      <3> DEFINE a == [x EXCEPT !.nonce = MadeUp]
                 b == [y EXCEPT !.nonce = MadeUp]
      <3>1. a = b
        BY <2>1 DEF Like
      <3>2. a.signer = x.signer /\ a.in_mint = x.in_mint /\ a.in_amount = x.in_amount
            /\ a.out_mint = x.out_mint
        BY DEF Intent
      <3>3. b.signer = y.signer /\ b.in_mint = y.in_mint /\ b.in_amount = y.in_amount
            /\ b.out_mint = y.out_mint
        BY DEF Intent
      <3> HIDE DEF a, b
      <3>4. QED
        BY <3>1, <3>2, <3>3
    <2>2. QED
      BY <2>1
  <1>2. ASSUME /\ x.signer = y.signer /\ x.in_mint = y.in_mint
               /\ x.in_amount = y.in_amount /\ x.out_mint = y.out_mint
        PROVE  Like(x, y)
    BY <1>2 DEF Like, Intent
  <1>3. QED
    BY <1>1, <1>2

\* What is made up of like intents is the same.
LEMMA RemaindersSame ==
    ASSUME NEW x \in Intent, NEW y \in Intent, Like(x, y), NEW amount
    PROVE  Remainder(x, amount) = Remainder(y, amount)
  <1>1. /\ x.signer = y.signer /\ x.in_mint = y.in_mint
        /\ x.in_amount = y.in_amount /\ x.out_mint = y.out_mint
    BY LikeIs
  <1>2. QED
    BY <1>1 DEF Remainder, Intent

\* The loop does not tell like lists apart.
LEMMA PassSame ==
    ASSUME NEW bids, NEW asks, NEW pair, NEW price \in Nat, Sides(bids, asks, pair),
           NEW s \in LoopOK(bids, asks, pair, price),
           NEW bids2, Alike(bids, bids2), NEW asks2, Alike(asks, asks2)
    PROVE  OnePass(s, bids2, asks2, price) = OnePass(s, bids, asks, price)
  <1> DEFINE OK == LoopOK(bids, asks, pair, price)
             b == NextBuyer(s, bids)
             c == NextSeller(b, asks)
  <1>1. /\ Len(bids) \in Nat /\ Len(asks) \in Nat /\ Len(bids2) = Len(bids) /\ Len(asks2) = Len(asks)
        /\ \A k \in 1..Len(bids) : bids[k] \in Intent /\ bids2[k] \in Intent
                                   /\ Like(bids[k], bids2[k])
        /\ \A k \in 1..Len(asks) : asks[k] \in Intent /\ asks2[k] \in Intent
                                   /\ Like(asks[k], asks2[k])
    BY DEF Sides, Alike
  <1>2. /\ \A k \in 1..Len(bids) :
              /\ bids2[k].in_amount = bids[k].in_amount /\ bids2[k].signer = bids[k].signer
              /\ \A amount : Remainder(bids2[k], amount) = Remainder(bids[k], amount)
        /\ \A k \in 1..Len(asks) :
              asks2[k].in_amount = asks[k].in_amount /\ asks2[k].signer = asks[k].signer
    BY <1>1, LikeIs, RemaindersSame
  <1>3. \A t \in OK : /\ t.bought \in Nat /\ t.sold \in Nat /\ t.bid \in Nat /\ t.ask \in Nat
                      /\ t.bought <= Len(bids) /\ t.sold <= Len(asks)
    BY DEF LoopOK, LoopState, Counted
  <1>4. ASSUME NEW t \in OK, t.bought > 0 PROVE PassedOver(t, bids2) = PassedOver(t, bids)
    <2>1. t.bought \in 1..Len(bids)
      BY <1>1, <1>3, <1>4
    <2>2. Remainder(bids2[t.bought], t.bid) = Remainder(bids[t.bought], t.bid)
      BY <1>2, <2>1
    <2>3. QED
      BY <2>2 DEF PassedOver
  <1>5. ASSUME NEW t \in OK, t.bought > 0, t.sold > 0
        PROVE  Meet(t, bids2, asks2, price) = Meet(t, bids, asks, price)
    <2>1. t.bought \in 1..Len(bids) /\ t.sold \in 1..Len(asks)
      BY <1>1, <1>3, <1>5
    <2>2. /\ bids2[t.bought].signer = bids[t.bought].signer
          /\ asks2[t.sold].signer = asks[t.sold].signer
      BY <1>2, <2>1
    <2>3. \A base, quote : Crossed(t, bids2, asks2, base, quote) = Crossed(t, bids, asks, base, quote)
      BY <2>2 DEF Crossed
    <2>4. PassedOver(t, bids2) = PassedOver(t, bids)
      BY <1>4, <1>5
    <2>5. QED
      BY <2>3, <2>4 DEF Meet
  <1>6. CASE s.done
    BY <1>6 DEF OnePass
  <1>7. CASE ~s.done /\ s.bid = 0 /\ s.bought = Len(bids)
    BY <1>1, <1>7 DEF OnePass
  <1>8. CASE ~s.done /\ ~(s.bid = 0 /\ s.bought = Len(bids))
    <2>1. s.bid > 0 \/ s.bought # Len(bids)
      BY <1>3, <1>8
    <2>2. b \in OK /\ ~b.done /\ b.bought > 0
      BY <1>8, <2>1, BuyerTaken
    <2>3. NextBuyer(s, bids2) = b
      <3>1. CASE s.bid > 0
        BY <3>1 DEF NextBuyer
      <3>2. CASE ~(s.bid > 0)
        <4>1. s.bought + 1 \in 1..Len(bids)
          BY <1>1, <1>3, <2>1, <3>2
        <4>2. bids2[s.bought + 1].in_amount = bids[s.bought + 1].in_amount
          BY <1>2, <4>1
        <4>3. QED
          BY <3>2, <4>2 DEF NextBuyer
      <3>3. QED
        BY <3>1, <3>2
    <2>4. OnePass(s, bids, asks, price)
            = IF b.ask = 0 /\ b.sold = Len(asks) THEN Unmet(b, bids)
              ELSE Meet(c, bids, asks, price)
      BY <1>8 DEF OnePass
    <2>5. OnePass(s, bids2, asks2, price)
            = IF b.ask = 0 /\ b.sold = Len(asks) THEN Unmet(b, bids2)
              ELSE Meet(NextSeller(b, asks2), bids2, asks2, price)
      <3> HIDE DEF b
      <3>1. QED
        BY <1>1, <1>8, <2>3 DEF OnePass
    <2> HIDE DEF b
    <2>6. Unmet(b, bids2) = Unmet(b, bids)
      <3>1. PassedOver(b, bids2) = PassedOver(b, bids)
        BY <1>4, <2>2
      <3>2. QED
        BY <3>1 DEF Unmet
    <2>7. CASE b.ask = 0 /\ b.sold = Len(asks)
      BY <2>4, <2>5, <2>6, <2>7
    <2>8. CASE ~(b.ask = 0 /\ b.sold = Len(asks))
      <3>1. b.ask > 0 \/ b.sold # Len(asks)
        BY <1>3, <2>2, <2>8
      <3>2. c \in OK /\ c.sold > 0 /\ c.bought = b.bought
        BY <2>2, <3>1, SellerTaken
      <3>3. NextSeller(b, asks2) = c
        <4>1. CASE b.ask > 0
          BY <4>1 DEF NextSeller
        <4>2. CASE ~(b.ask > 0)
          <5>1. b.sold + 1 \in 1..Len(asks)
            BY <1>1, <1>3, <2>2, <3>1, <4>2
          <5>2. asks2[b.sold + 1].in_amount = asks[b.sold + 1].in_amount
            BY <1>2, <5>1
          <5>3. QED
            BY <4>2, <5>2 DEF NextSeller
        <4>3. QED
          BY <4>1, <4>2
      <3> HIDE DEF c
      <3>4. Meet(c, bids2, asks2, price) = Meet(c, bids, asks, price)
        BY <1>5, <2>2, <3>2
      <3>5. QED
        BY <2>4, <2>5, <2>8, <3>3, <3>4
    <2>9. QED
      BY <2>7, <2>8
  <1>9. QED
    BY <1>6, <1>7, <1>8

\* Nor does the whole loop.
LEMMA CrossSame ==
    ASSUME NEW bids, NEW asks, NEW pair, NEW price \in Nat, Sides(bids, asks, pair),
           NEW bids2, Alike(bids, bids2), NEW asks2, Alike(asks, asks2), Sides(bids2, asks2, pair)
    PROVE  Cross(bids2, asks2, price) = Cross(bids, asks, price)
  <1> DEFINE N == Passes(bids, asks)
             S == LoopOK(bids, asks, pair, price)
  <1>1. N \in Nat /\ Passes(bids2, asks2) = N
    BY DEF Passes, Sides, Alike
  <1>2. PICK f : /\ IsLoop(f, bids, asks, price) /\ f \in [0..N -> S]
                 /\ Cross(bids, asks, price) = f[N]
    BY LoopRuns
  <1>03. PICK g : /\ IsLoop(g, bids2, asks2, price)
                  /\ Cross(bids2, asks2, price) = g[Passes(bids2, asks2)]
    BY LoopRuns
  <1>3. IsLoop(g, bids2, asks2, price) /\ Cross(bids2, asks2, price) = g[N]
    BY <1>1, <1>03
  <1>4. /\ \A k \in 0..N : f[k] = IF k = 0 THEN LoopStart ELSE OnePass(f[k - 1], bids, asks, price)
        /\ \A k \in 0..N : g[k] = IF k = 0 THEN LoopStart ELSE OnePass(g[k - 1], bids2, asks2, price)
    BY <1>1, <1>2, <1>3 DEF IsLoop
  <1> DEFINE A == {k \in 0..N : g[k] = f[k]}
  <1> HIDE DEF N, S
  <1>5. 0 \in A
    <2>1. 0 \in 0..N
      BY <1>1
    <2>2. QED
      BY <1>4, <2>1
  <1>6. ASSUME NEW k \in 0..(N - 1), k \in A PROVE k + 1 \in A
    <2>1. k \in 0..N /\ k + 1 \in 0..N /\ k + 1 # 0 /\ (k + 1) - 1 = k
      BY <1>1
    <2>2. f[k] \in S /\ g[k] = f[k]
      BY <1>2, <1>6, <2>1
    <2>3. f[k + 1] = OnePass(f[k], bids, asks, price)
      BY <1>4, <2>1
    <2>4. g[k + 1] = OnePass(f[k], bids2, asks2, price)
      BY <1>4, <2>1, <2>2
    <2>5. OnePass(f[k], bids2, asks2, price) = OnePass(f[k], bids, asks, price)
      BY <2>2, PassSame DEF S
    <2>6. QED
      BY <2>1, <2>3, <2>4, <2>5
  <1> HIDE DEF A
  <1>7. 0..N \subseteq A
    BY <1>1, <1>5, <1>6, CountUp
  <1>8. g[N] = f[N]
    BY <1>1, <1>7 DEF A
  <1>9. QED
    BY <1>2, <1>3, <1>8

\* A list is alike to itself.
LEMMA AlikeSame == ASSUME NEW t \in Seq(Intent) PROVE Alike(t, t)
  BY DEF Alike, Like

\* Lists that are alike, joined.
LEMMA AlikeJoined ==
    ASSUME NEW t, NEW u, Alike(t, u), NEW v, NEW w, Alike(v, w)
    PROVE  Alike(t \o v, u \o w)
  <1> DEFINE m == Len(t)
             n == Len(v)
             a == t \o v
             b == u \o w
  <1>1. t \in Seq(Intent) /\ u \in Seq(Intent) /\ v \in Seq(Intent) /\ w \in Seq(Intent)
        /\ Len(u) = m /\ Len(w) = n
        /\ (\A k \in 1..m : Like(t[k], u[k])) /\ (\A k \in 1..n : Like(v[k], w[k]))
    BY DEF Alike
  <1>2. m \in Nat /\ n \in Nat
    BY <1>1
  <1>3. a \in Seq(Intent) /\ b \in Seq(Intent) /\ Len(a) = m + n /\ Len(b) = m + n
    BY <1>1
  <1>4. ASSUME NEW k \in 1..(m + n) PROVE Like(a[k], b[k])
    <2>1. CASE k <= m
      <3>1. k \in 1..m /\ a[k] = t[k] /\ b[k] = u[k]
        BY <1>1, <1>2, <2>1
      <3>2. QED
        BY <1>1, <3>1
    <2>2. CASE k > m
      <3>1. k - m \in 1..n
        BY <1>2, <2>2
      <3>2. a[k] = v[k - m]
        BY <1>1, <1>2, <2>2
      <3>3. b[k] = w[k - m]
        BY <1>1, <1>2, <2>2
      <3>4. QED
        BY <1>1, <3>1, <3>2, <3>3
    <2>3. k <= m \/ k > m
      BY <1>2
    <2>4. QED
      BY <2>1, <2>2, <2>3
  <1>5. QED
    BY <1>3, <1>4 DEF Alike

\* Lists that are alike, without their first k.
LEMMA AlikeTails ==
    ASSUME NEW t, NEW u, Alike(t, u), NEW k \in Nat, k <= Len(t)
    PROVE  Alike(SubSeq(t, k + 1, Len(t)), SubSeq(u, k + 1, Len(u)))
  <1> DEFINE n == Len(t)
             a == SubSeq(t, k + 1, n)
             b == SubSeq(u, k + 1, n)
             m == n - (k + 1) + 1
  <1>1. t \in Seq(Intent) /\ u \in Seq(Intent) /\ Len(u) = n /\ n \in Nat
        /\ \A i \in 1..n : Like(t[i], u[i])
    BY DEF Alike
  <1>2. \A i \in (k + 1)..n : t[i] \in Intent /\ u[i] \in Intent
    BY <1>1
  <1>3. k + 1 \in Int /\ n \in Int
    BY <1>1
  <1> HIDE DEF n
  <1>4. /\ a \in Seq(Intent)
        /\ Len(a) = IF k + 1 <= n THEN m ELSE 0
        /\ \A i \in 1..m : a[i] = t[(k + 1) + i - 1]
    BY <1>2, <1>3, SubSeqProperties
  <1>5. /\ b \in Seq(Intent)
        /\ Len(b) = IF k + 1 <= n THEN m ELSE 0
        /\ \A i \in 1..m : b[i] = u[(k + 1) + i - 1]
    BY <1>2, <1>3, SubSeqProperties
  <1> HIDE DEF a, b
  <1>6. ASSUME NEW i \in 1..Len(a) PROVE Like(a[i], b[i])
    <2>1. CASE k + 1 <= n
      <3>1. i \in 1..m
        BY <1>4, <2>1
      <3>2. (k + 1) + i - 1 \in 1..n
        BY <1>1, <3>1
      <3> DEFINE j == (k + 1) + i - 1
      <3>3. a[i] = t[j] /\ b[i] = u[j] /\ j \in 1..n
        BY <1>4, <1>5, <3>1, <3>2
      <3> HIDE DEF j
      <3>4. QED
        BY <1>1, <3>3
    <2>2. CASE ~(k + 1 <= n)
      <3>1. Len(a) = 0
        BY <1>4, <2>2
      <3>2. QED
        BY <3>1
    <2>3. QED
      BY <2>1, <2>2
  <1>7. Len(b) = Len(a)
    BY <1>4, <1>5
  <1>8. Alike(a, b)
    BY <1>4, <1>5, <1>6, <1>7 DEF Alike
  <1>9. QED
    BY <1>1, <1>8 DEF a, b, n

\* What is left over of like lists is alike.
LEMMA LeftoverAlike ==
    ASSUME NEW bids, NEW asks, NEW pair, NEW price, Sides(bids, asks, pair),
           NEW bids2, Alike(bids, bids2), NEW asks2, Alike(asks, asks2),
           NEW s \in LoopOK(bids, asks, pair, price), s.done
    PROVE  Alike(Leftover(s, bids, asks), Leftover(s, bids2, asks2))
  <1> DEFINE K == Kept(s, asks, pair, price)
             a == s.residual
             b == LastAsk(s, asks)
  <1>1. /\ s.bought \in Nat /\ s.sold \in Nat /\ s.ask \in Nat
        /\ s.bought <= Len(bids) /\ s.sold <= Len(asks) /\ a \in Seq(Intent)
        /\ Len(bids) \in Nat /\ Len(asks) \in Nat
    BY DEF LoopOK, LoopState, Counted, Sides
  <1>2. b \in Seq(Intent)
    <2>1. b \in Seq(K)
      BY PartsKept
    <2>2. K \subseteq Intent
      BY DEF Kept
    <2> HIDE DEF K, b
    <2>3. QED
      BY <2>1, <2>2, SeqWider
  <1>3. LastAsk(s, asks2) = b
    <2>1. CASE s.ask > 0
      <3>1. s.sold \in 1..Len(asks)
        <4>1. s.sold > 0
          BY <2>1, LastAskIs
        <4>2. QED
          BY <1>1, <4>1
      <3>2. asks[s.sold] \in Intent /\ asks2[s.sold] \in Intent /\ Like(asks[s.sold], asks2[s.sold])
        BY <3>1 DEF Alike
      <3>3. Remainder(asks[s.sold], s.ask) = Remainder(asks2[s.sold], s.ask)
        BY <3>2, RemaindersSame
      <3>4. QED
        BY <3>3 DEF LastAsk
    <2>2. CASE ~(s.ask > 0)
      BY <2>2 DEF LastAsk
    <2>3. QED
      BY <2>1, <2>2
  <1>4. Alike(a, a) /\ Alike(b, b)
    BY <1>1, <1>2, AlikeSame
  <1>5. Alike(AsksAfter(s, asks), AsksAfter(s, asks2))
    BY <1>1, AlikeTails DEF AsksAfter
  <1>6. Alike(BidsAfter(s, bids), BidsAfter(s, bids2))
    BY <1>1, AlikeTails DEF BidsAfter
  <1>7. Leftover(s, bids, asks) = ((a \o b) \o AsksAfter(s, asks)) \o BidsAfter(s, bids)
    BY DEF Leftover, LastAsk, AsksAfter, BidsAfter
  <1>8. Leftover(s, bids2, asks2) = ((a \o b) \o AsksAfter(s, asks2)) \o BidsAfter(s, bids2)
    <2>1. Leftover(s, bids2, asks2)
            = ((a \o LastAsk(s, asks2)) \o AsksAfter(s, asks2)) \o BidsAfter(s, bids2)
      BY DEF Leftover, LastAsk, AsksAfter, BidsAfter
    <2>2. QED
      BY <1>3, <2>1
  <1> HIDE DEF a, b
  <1>9. Alike(a \o b, a \o b)
    BY <1>4, AlikeJoined
  <1>10. Alike((a \o b) \o AsksAfter(s, asks), (a \o b) \o AsksAfter(s, asks2))
    BY <1>5, <1>9, AlikeJoined
  <1>11. Alike(((a \o b) \o AsksAfter(s, asks)) \o BidsAfter(s, bids),
               ((a \o b) \o AsksAfter(s, asks2)) \o BidsAfter(s, bids2))
    BY <1>6, <1>10, AlikeJoined
  <1>12. QED
    BY <1>7, <1>8, <1>11

\* No two of s are alike.
Unlike(s) == ~ \E i, j \in DOMAIN s : i # j /\ Like(s[i], s[j])

\* Two ways to pick and sort the same intents of one side.
LEMMA SortsAlike ==
    ASSUME NEW s \in Seq(Intent), NEW P \in SUBSET (1..Len(s)),
           NEW u, Picks(u, s, P), Sized(u), NEW v, Picks(v, s, P), Sized(v),
           \A x, y \in {s[p] : p \in P} : x.in_mint = y.in_mint /\ x.out_mint = y.out_mint
    PROVE  Alike(u, v) /\ (Unlike(s) => u = v)
  <1>1. Len(u) = Len(v) /\ \A k \in 1..Len(u) : SameKey(u[k], v[k])
    BY SameKeys
  <1>2. u \in Seq(Intent) /\ v \in Seq(Intent) /\ Len(u) \in Nat
    BY DEF Picks
  <1>3. PICK a : Numbers(a, Len(u), P) /\ \A k \in 1..Len(u) : u[k] = s[a[k]]
    BY DEF Picks
  <1>4. PICK b : Numbers(b, Len(v), P) /\ \A k \in 1..Len(v) : v[k] = s[b[k]]
    BY DEF Picks
  <1>5. ASSUME NEW k \in 1..Len(u)
        PROVE  Like(u[k], v[k]) /\ (Unlike(s) => u[k] = v[k])
    <2>1. a[k] \in P /\ b[k] \in P /\ u[k] = s[a[k]] /\ v[k] = s[b[k]]
      BY <1>1, <1>3, <1>4 DEF Numbers
    <2>2. u[k].in_mint = v[k].in_mint /\ u[k].out_mint = v[k].out_mint
      BY <2>1
    <2>3. u[k].in_amount = v[k].in_amount /\ u[k].signer = v[k].signer
      BY <1>1 DEF SameKey
    <2>4. u[k] \in Intent /\ v[k] \in Intent
      BY <1>1, <1>2
    <2>5. Like(u[k], v[k])
      BY <2>2, <2>3, <2>4, LikeIs
    <2>6. ASSUME Unlike(s) PROVE u[k] = v[k]
      <3>1. a[k] \in DOMAIN s /\ b[k] \in DOMAIN s
        <4>1. a[k] \in 1..Len(s) /\ b[k] \in 1..Len(s)
          BY <2>1
        <4>2. DOMAIN s = 1..Len(s)
          OBVIOUS
        <4>3. QED
          BY <4>1, <4>2
      <3>2. Like(s[a[k]], s[b[k]])
        BY <2>1, <2>5
      <3>3. a[k] = b[k]
        BY <2>6, <3>1, <3>2 DEF Unlike
      <3>4. QED
        BY <2>1, <3>3
    <2>7. QED
      BY <2>5, <2>6
  <1>6. Alike(u, v)
    BY <1>1, <1>2, <1>5 DEF Alike
  <1>7. ASSUME Unlike(s) PROVE u = v
    <2>1. \A k \in 1..Len(u) : u[k] = v[k]
      BY <1>5, <1>7
    <2>2. u = [k \in 1..Len(u) |-> u[k]] /\ v = [k \in 1..Len(u) |-> v[k]]
      BY <1>1, <1>2
    <2>3. QED
      BY <2>1, <2>2
  <1>8. QED
    BY <1>6, <1>7

-----------------------------------------------------------------------------
(* What a pair picks of the intents does not depend on their order.        *)

\* The intents of a pair, and what its group picks.
OfPairs(pair) == {x \in Intent : ClassifyPair(x) = pair}

LEMMA GroupPicks ==
    ASSUME NEW s \in Seq(Intent), NEW pair
    PROVE  Picks(Group(s, pair), s, Where(s, 1..Len(s), OfPairs(pair)))
  <1> DEFINE P == {i \in DOMAIN s : ClassifyPair(s[i]) = pair}
  <1>1. P = Where(s, 1..Len(s), OfPairs(pair))
    <2>1. DOMAIN s = 1..Len(s) /\ \A i \in 1..Len(s) : s[i] \in Intent
      OBVIOUS
    <2>2. QED
      BY <2>1 DEF Where, OfPairs
  <1>2. P \in SUBSET (1..Len(s))
    OBVIOUS
  <1> HIDE DEF P
  <1>3. Picks(Those(s, P), s, P)
    BY <1>2, ThosePick
  <1>4. Group(s, pair) = Those(s, P)
    BY DEF Group, P
  <1>5. QED
    BY <1>1, <1>3, <1>4

\* What the sides of a pair pick of all the intents.
LEMMA SidesPick ==
    ASSUME NEW s \in Seq(Intent), NEW P, NEW g, Picks(g, s, P), NEW pair, OfPair(g, pair)
    PROVE  /\ Picks(Those(g, BuysOf(g, pair)), s, Where(s, P, Buys(pair)))
           /\ Picks(Those(g, SellsOf(g, pair)), s, Where(s, P, Sells(pair)))
           /\ Picks(BidsOf(g, pair), s, Where(s, P, Buys(pair)))
           /\ Picks(AsksOf(g, pair), s, Where(s, P, Sells(pair)))
           /\ Sized(BidsOf(g, pair)) /\ Sized(AsksOf(g, pair))
  <1> DEFINE D == 1..Len(g)
  <1>1. g \in Seq(Intent) /\ DOMAIN g = D /\ \A i \in D : g[i] \in Intent
    BY DEF OfPair
  <1>2. BuysOf(g, pair) = Where(g, D, Buys(pair)) /\ SellsOf(g, pair) = Where(g, D, Sells(pair))
    BY <1>1 DEF BuysOf, SellsOf, Where, Buys, Sells
  <1>3. Buys(pair) \in SUBSET Intent /\ Sells(pair) \in SUBSET Intent
    BY DEF Buys, Sells
  <1>4. BuysOf(g, pair) \in SUBSET D /\ SellsOf(g, pair) \in SUBSET D
    BY <1>1 DEF BuysOf, SellsOf
  <1>5. /\ Picks(Those(g, BuysOf(g, pair)), g, BuysOf(g, pair))
        /\ Picks(Those(g, SellsOf(g, pair)), g, SellsOf(g, pair))
    BY <1>1, <1>4, ThosePick
  <1>6. /\ Picks(BidsOf(g, pair), g, BuysOf(g, pair)) /\ Sized(BidsOf(g, pair))
        /\ Picks(AsksOf(g, pair), g, SellsOf(g, pair)) /\ Sized(AsksOf(g, pair))
    BY <1>1, <1>4, SortPicks DEF BidsOf, AsksOf
  <1> DEFINE b == Those(g, BuysOf(g, pair))
             c == Those(g, SellsOf(g, pair))
             d == BidsOf(g, pair)
             e == AsksOf(g, pair)
             B == Buys(pair)
             C == Sells(pair)
  <1>7. /\ Picks(b, g, Where(g, 1..Len(g), B)) /\ Picks(c, g, Where(g, 1..Len(g), C))
        /\ Picks(d, g, Where(g, 1..Len(g), B)) /\ Picks(e, g, Where(g, 1..Len(g), C))
    BY <1>2, <1>5, <1>6
  <1> HIDE DEF b, c, d, e, B, C
  <1>8. B \in SUBSET Intent /\ C \in SUBSET Intent
    BY <1>3 DEF B, C
  <1>9. Picks(b, s, Where(s, P, B)) /\ Picks(d, s, Where(s, P, B))
    BY <1>7, <1>8, PicksOfPicks
  <1>10. Picks(c, s, Where(s, P, C)) /\ Picks(e, s, Where(s, P, C))
    BY <1>7, <1>8, PicksOfPicks
  <1>11. QED
    BY <1>6, <1>9, <1>10 DEF b, c, d, e, B, C

\* An amount summed over what is picked depends on the places only.
LEMMA SumsSame ==
    ASSUME NEW s \in Seq(Intent), NEW P \in SUBSET (1..Len(s)),
           NEW t, Picks(t, s, P), NEW u, Picks(u, s, P), NEW w \in [Intent -> Int]
    PROVE  Total(t, w) = Total(u, w)
  <1>1. Total(t, w) = SumFunctionOnSet([i \in 1..Len(s) |-> w[s[i]]], P)
    BY PickSum
  <1>2. Total(u, w) = SumFunctionOnSet([i \in 1..Len(s) |-> w[s[i]]], P)
    BY PickSum
  <1>3. QED
    BY <1>1, <1>2

\* What buys would buy at a price, and what sells offer, as weights.
BuysAt(price) == [x \in Intent |-> QuoteToBase(x.in_amount, price)]
Offers == [x \in Intent |-> x.in_amount]

\* What clear_pair sums to know the net flow, as totals of the weights.
LEMMA DemandIs ==
    ASSUME NEW t \in Seq(Intent), NEW price \in Nat
    PROVE  /\ SumOver([i \in DOMAIN t |-> QuoteToBase(t[i].in_amount, price)]) = Total(t, BuysAt(price))
           /\ SumOver([i \in DOMAIN t |-> t[i].in_amount]) = Total(t, Offers)
           /\ BuysAt(price) \in [Intent -> Int] /\ Offers \in [Intent -> Int]
  <1> DEFINE n == Len(t)
             f == [i \in 1..n |-> QuoteToBase(t[i].in_amount, price)]
             g == [k \in 1..n |-> BuysAt(price)[t[k]]]
             f2 == [i \in 1..n |-> t[i].in_amount]
             g2 == [k \in 1..n |-> Offers[t[k]]]
  <1>1. DOMAIN t = 1..n /\ \A i \in 1..n : t[i] \in Intent
    OBVIOUS
  <1>2. f = g
    <2>1. \A i \in 1..n : BuysAt(price)[t[i]] = f[i]
      BY <1>1 DEF BuysAt
    <2>2. QED
      BY <2>1
  <1>3. f2 = g2
    <2>1. \A i \in 1..n : Offers[t[i]] = f2[i]
      BY <1>1 DEF Offers
    <2>2. QED
      BY <2>1
  <1>4. SumOver(f) = SumFunctionOnSet(f, 1..n) /\ SumOver(f2) = SumFunctionOnSet(f2, 1..n)
    BY DEF SumOver
  <1>5. Total(t, BuysAt(price)) = SumFunctionOnSet(g, 1..n) /\ Total(t, Offers) = SumFunctionOnSet(g2, 1..n)
    BY DEF Total
  <1>6. BuysAt(price) \in [Intent -> Int]
    <2>1. ASSUME NEW x \in Intent PROVE QuoteToBase(x.in_amount, price) \in Int
      <3>1. x.in_amount \in Nat
        BY DEF Intent
      <3>2. QuoteToBase(x.in_amount, price) \in Nat
        BY <3>1, BaseIsNat
      <3>3. QED
        BY <3>2
    <2>2. QED
      BY <2>1 DEF BuysAt
  <1>7. Offers \in [Intent -> Int]
    BY DEF Offers, Intent
  <1>8. /\ SumOver([i \in DOMAIN t |-> QuoteToBase(t[i].in_amount, price)]) = SumOver(f)
        /\ SumOver([i \in DOMAIN t |-> t[i].in_amount]) = SumOver(f2)
    BY <1>1
  <1> HIDE DEF f, g, f2, g2, n
  <1>9. QED
    BY <1>2, <1>3, <1>4, <1>5, <1>6, <1>7, <1>8

\* So the clearing price depends on the places only.
LEMMA PriceSame ==
    ASSUME NEW s \in Seq(Intent), NEW P \in SUBSET (1..Len(s)), NEW Q \in SUBSET (1..Len(s)),
           NEW b, Picks(b, s, P), NEW b2, Picks(b2, s, P),
           NEW c, Picks(c, s, Q), NEW c2, Picks(c2, s, Q), NEW m \in AmmType
    PROVE  ClearingPrice(b2, c2, m) = ClearingPrice(b, c, m)
  <1> DEFINE pre == SpotPrice(m)
  <1>1. pre \in Nat
    BY DEF SpotPrice, AmmType
  <1>2. b \in Seq(Intent) /\ b2 \in Seq(Intent) /\ c \in Seq(Intent) /\ c2 \in Seq(Intent)
    BY DEF Picks
  <1> HIDE DEF pre
  <1>3. SumOver([i \in DOMAIN b2 |-> QuoteToBase(b2[i].in_amount, pre)])
          = SumOver([i \in DOMAIN b |-> QuoteToBase(b[i].in_amount, pre)])
    <2> DEFINE w == BuysAt(pre)
    <2>01. w \in [Intent -> Int]
      BY <1>1, <1>2, DemandIs
    <2>1. Total(b2, w) = Total(b, w)
      <3> HIDE DEF w
      <3>1. QED
        BY <2>01, SumsSame
    <2>2. /\ SumOver([i \in DOMAIN b2 |-> QuoteToBase(b2[i].in_amount, pre)]) = Total(b2, BuysAt(pre))
          /\ SumOver([i \in DOMAIN b |-> QuoteToBase(b[i].in_amount, pre)]) = Total(b, BuysAt(pre))
      BY <1>1, <1>2, DemandIs
    <2>3. QED
      BY <2>1, <2>2
  <1>4. SumOver([i \in DOMAIN c2 |-> c2[i].in_amount]) = SumOver([i \in DOMAIN c |-> c[i].in_amount])
    <2>01. Offers \in [Intent -> Int]
      BY <1>1, <1>2, DemandIs
    <2>1. Total(c2, Offers) = Total(c, Offers)
      BY <2>01, SumsSame
    <2>2. /\ SumOver([i \in DOMAIN c2 |-> c2[i].in_amount]) = Total(c2, Offers)
          /\ SumOver([i \in DOMAIN c |-> c[i].in_amount]) = Total(c, Offers)
      BY <1>1, <1>2, DemandIs
    <2>3. QED
      BY <2>1, <2>2
  <1>5. QED
    BY <1>3, <1>4 DEF ClearingPrice, pre

\* Two groups of the same intents are cleared the same.
LEMMA PairReplayed ==
    ASSUME NEW s \in Seq(Intent), NEW P \in SUBSET (1..Len(s)), NEW pair, NEW m \in AmmType,
           NEW g, Picks(g, s, P), OfPair(g, pair), NEW h, Picks(h, s, P), OfPair(h, pair),
           NEW r, r = ClearPair(pair, g, m), NEW o, o = ClearPair(pair, h, m)
    PROVE  /\ o.price = r.price /\ o.matches = r.matches
           /\ Alike(r.residual, o.residual) /\ (Unlike(s) => o.residual = r.residual)
  <1> DEFINE B == Where(s, P, Buys(pair))
             C == Where(s, P, Sells(pair))
             bids == BidsOf(g, pair)
             asks == AsksOf(g, pair)
             price == PriceOf(g, pair, m)
             end == EndOf(g, pair, m)
             bids2 == BidsOf(h, pair)
             asks2 == AsksOf(h, pair)
  <1>1. B \in SUBSET (1..Len(s)) /\ C \in SUBSET (1..Len(s))
        /\ (\A p \in B : s[p] \in Buys(pair)) /\ (\A p \in C : s[p] \in Sells(pair))
    BY DEF Where
  <1>2. \A x, y \in {s[p] : p \in B} : x.in_mint = y.in_mint /\ x.out_mint = y.out_mint
    BY <1>1 DEF Buys, IsBuy
  <1>3. \A x, y \in {s[p] : p \in C} : x.in_mint = y.in_mint /\ x.out_mint = y.out_mint
    BY <1>1 DEF Sells, IsSell
  <1>4. /\ Picks(Those(g, BuysOf(g, pair)), s, B) /\ Picks(Those(g, SellsOf(g, pair)), s, C)
        /\ Picks(bids, s, B) /\ Picks(asks, s, C) /\ Sized(bids) /\ Sized(asks)
    BY SidesPick
  <1>5. /\ Picks(Those(h, BuysOf(h, pair)), s, B) /\ Picks(Those(h, SellsOf(h, pair)), s, C)
        /\ Picks(bids2, s, B) /\ Picks(asks2, s, C) /\ Sized(bids2) /\ Sized(asks2)
    BY SidesPick
  <1> HIDE DEF B, C
  <1>6. PriceOf(h, pair, m) = price
    BY <1>1, <1>4, <1>5, PriceSame DEF PriceOf
  <1>7. /\ Sides(bids, asks, pair) /\ Sides(bids2, asks2, pair) /\ price \in Nat
    BY SidesOf
  <1>8. end = Cross(bids, asks, price) /\ EndOf(h, pair, m) = Cross(bids2, asks2, price)
    BY <1>6 DEF EndOf
  <1>9. /\ r.price = price /\ r.matches = end.matches /\ r.residual = Leftover(end, bids, asks)
        /\ o.price = price /\ o.matches = EndOf(h, pair, m).matches
        /\ o.residual = Leftover(EndOf(h, pair, m), bids2, asks2)
    BY <1>6, ClearPairIs
  <1> HIDE DEF bids, asks, bids2, asks2, price, end
  <1>10. Alike(bids, bids2) /\ (Unlike(s) => bids = bids2)
    BY <1>1, <1>2, <1>4, <1>5, SortsAlike
  <1>11. Alike(asks, asks2) /\ (Unlike(s) => asks = asks2)
    BY <1>1, <1>3, <1>4, <1>5, SortsAlike
  <1>12. EndOf(h, pair, m) = end
    BY <1>7, <1>8, <1>10, <1>11, CrossSame
  <1>13. end \in LoopOK(bids, asks, pair, price) /\ end.done
    BY <1>7, <1>8, LoopDone
  <1>14. Alike(Leftover(end, bids, asks), Leftover(end, bids2, asks2))
    BY <1>7, <1>10, <1>11, <1>13, LeftoverAlike
  <1>15. QED
    BY <1>9, <1>10, <1>11, <1>12, <1>14

\* A pair's group of the intents in another order is picked of the intents.
LEMMA ReorderedGroup ==
    ASSUME NEW s \in Seq(Intent), NEW n, n = Len(s), NEW f \in [1..n -> 1..n],
           \A i \in 1..n : \E j \in 1..n : f[j] = i, NEW q, q = [i \in 1..n |-> s[f[i]]], NEW pair
    PROVE  q \in Seq(Intent) /\ Picks(Group(q, pair), s, Where(s, 1..n, OfPairs(pair)))
  <1>1. n \in Nat
    OBVIOUS
  <1>2. q \in Seq(Intent) /\ Len(q) = n
    <2>1. \A i \in 1..n : f[i] \in 1..n /\ s[f[i]] \in Intent
      OBVIOUS
    <2>2. \A i \in 1..n : q[i] \in Intent
      BY <2>1
    <2>3. q = [i \in 1..n |-> q[i]]
      OBVIOUS
    <2>4. QED
      BY <1>1, <2>2, <2>3
  <1>3. Picks(Group(q, pair), q, Where(q, 1..n, OfPairs(pair)))
    BY <1>2, GroupPicks
  <1> DEFINE T == OfPairs(pair)
             g == Group(q, pair)
  <1> HIDE DEF T, g
  <1>4. Picks(g, q, Where(q, 1..n, T))
    BY <1>3 DEF T, g
  <1>5. Picks(g, s, Where(s, 1..n, T))
    BY <1>1, <1>4, PicksReordered
  <1>6. QED
    BY <1>2, <1>5 DEF T, g

\* The property, at any state of the invariant.
LEMMA Replayed ==
    ASSUME BatchOK
    PROVE  ReplayInvariant
  <1> DEFINE s == intents
             n == Len(s)
             alike == \E i, j \in DOMAIN intents : i # j /\ Like(intents[i], intents[j])
  <1>1. s \in Seq(Intent) /\ amm \in AmmType /\ n \in Nat /\ DOMAIN batch = 1..n
        /\ DOMAIN intents = 1..n
    <2>1. intents \in Seq(Intent) /\ Len(intents) = Len(batch)
      BY IntentsTyped
    <2>2. DOMAIN batch = 1..Len(batch)
      BY DEF BatchOK
    <2>3. QED
      BY <2>1, <2>2 DEF BatchOK
  <1>2. alike <=> ~Unlike(intents)
    BY DEF Unlike
  <1>3. ASSUME NEW f \in Orders
        PROVE  LET result == BatchMatch(intents, amm)
                   other == BatchMatch([i \in DOMAIN batch |-> intents[f[i]]], amm)
               IN  /\ DOMAIN other = DOMAIN result
                   /\ \A pair \in DOMAIN result :
                         LET r == result[pair]
                             o == other[pair]
                         IN  /\ o.price = r.price
                             /\ o.matches = r.matches
                             /\ DOMAIN o.residual = DOMAIN r.residual
                             /\ \A i \in DOMAIN r.residual : Like(o.residual[i], r.residual[i])
                             /\ ~alike => o.residual = r.residual
    <2> DEFINE q == [i \in DOMAIN batch |-> intents[f[i]]]
               result == BatchMatch(intents, amm)
               other == BatchMatch(q, amm)
    <2>1. f \in [1..n -> 1..n] /\ \A i \in 1..n : \E j \in 1..n : f[j] = i
      BY <1>1 DEF Orders
    <2>2. q = [i \in 1..n |-> s[f[i]]]
      BY <1>1
    <2> HIDE DEF s, n, q
    <2>3. \A pair : q \in Seq(Intent) /\ Picks(Group(q, pair), s, Where(s, 1..n, OfPairs(pair)))
      BY <1>1, <2>1, <2>2, ReorderedGroup DEF n
    <2>4. DOMAIN q = 1..n /\ DOMAIN s = 1..n
      BY <1>1, <2>2 DEF s
    <2>5. DOMAIN result = {ClassifyPair(s[i]) : i \in 1..n}
      BY <2>4 DEF BatchMatch, s
    <2>6. DOMAIN other = {ClassifyPair(q[i]) : i \in 1..n}
      BY <2>4 DEF BatchMatch
    <2>7. {ClassifyPair(q[i]) : i \in 1..n} = {ClassifyPair(s[i]) : i \in 1..n}
      <3>1. \A i \in 1..n : q[i] = s[f[i]] /\ f[i] \in 1..n
        BY <2>1, <2>2
      <3>2. ASSUME NEW i \in 1..n
            PROVE  ClassifyPair(q[i]) \in {ClassifyPair(s[j]) : j \in 1..n}
        <4>1. ClassifyPair(q[i]) = ClassifyPair(s[f[i]]) /\ f[i] \in 1..n
          BY <3>1
        <4>2. QED
          BY <4>1
      <3>3. ASSUME NEW i \in 1..n
            PROVE  ClassifyPair(s[i]) \in {ClassifyPair(q[j]) : j \in 1..n}
        <4>1. PICK j \in 1..n : f[j] = i
          BY <2>1
        <4>2. ClassifyPair(q[j]) = ClassifyPair(s[i])
          BY <3>1, <4>1
        <4>3. QED
          BY <4>2
      <3>4. QED
        BY <3>2, <3>3
    <2>8. ASSUME NEW pair \in DOMAIN result
          PROVE  LET r == result[pair]
                     o == other[pair]
                 IN  /\ o.price = r.price
                     /\ o.matches = r.matches
                     /\ DOMAIN o.residual = DOMAIN r.residual
                     /\ \A i \in DOMAIN r.residual : Like(o.residual[i], r.residual[i])
                     /\ ~alike => o.residual = r.residual
      <3> DEFINE g == Group(s, pair)
                 h == Group(q, pair)
                 r == result[pair]
                 o == other[pair]
                 P == Where(s, 1..n, OfPairs(pair))
      <3>1. r = ClearPair(pair, g, amm)
        BY DEF BatchMatch, s
      <3>2. o = ClearPair(pair, h, amm)
        <4>1. pair \in DOMAIN other
          BY <2>5, <2>6, <2>7
        <4>2. QED
          BY <4>1 DEF BatchMatch
      <3>3. Picks(g, s, P) /\ OfPair(g, pair)
        BY <1>1, GroupPicks, GroupIsOfPair DEF n, s
      <3>4. Picks(h, s, P) /\ OfPair(h, pair)
        BY <2>3, GroupIsOfPair
      <3>5. P \in SUBSET (1..Len(s)) /\ s \in Seq(Intent) /\ amm \in AmmType
        BY <1>1 DEF Where, n, s
      <3> HIDE DEF g, h, r, o, P
      <3>6. /\ o.price = r.price /\ o.matches = r.matches
            /\ Alike(r.residual, o.residual) /\ (Unlike(s) => o.residual = r.residual)
        BY <3>1, <3>2, <3>3, <3>4, <3>5, PairReplayed
      <3> DEFINE u == r.residual
                 v == o.residual
      <3>7. u \in Seq(Intent) /\ v \in Seq(Intent) /\ Len(v) = Len(u)
            /\ \A k \in 1..Len(u) : Like(u[k], v[k])
        BY <3>6 DEF Alike
      <3>8. DOMAIN v = DOMAIN u /\ \A i \in DOMAIN u : Like(v[i], u[i])
        <4> HIDE DEF u, v
        <4>1. DOMAIN u = 1..Len(u) /\ DOMAIN v = 1..Len(v)
          BY <3>7
        <4>2. \A i \in 1..Len(u) : Like(v[i], u[i])
          BY <3>7 DEF Like
        <4>3. QED
          BY <3>7, <4>1, <4>2
      <3>9. ~alike => v = u
        BY <1>2, <3>6 DEF s
      <3> HIDE DEF u, v
      <3>10. /\ o.price = r.price /\ o.matches = r.matches
             /\ DOMAIN o.residual = DOMAIN r.residual
             /\ \A i \in DOMAIN r.residual : Like(o.residual[i], r.residual[i])
             /\ ~alike => o.residual = r.residual
        BY <3>6, <3>8, <3>9 DEF u, v
      <3>11. QED
        BY <3>10 DEF o, r
    <2> HIDE DEF result, other
    <2>9. QED
      BY <2>5, <2>6, <2>7, <2>8 DEF result, other, q
  <1>4. QED
    BY <1>3 DEF ReplayInvariant

\* ReplayInvariant, for any batch ("Replay invariant: same input set => same
\* output regardless of order", batch.rs): in whatever order its intents come,
\* price and crosses are the same, and so is the residual, but for which of
\* several like intents is the one left over.
THEOREM ReplaysAgree == BatchSpec => []ReplayInvariant
  <1>1. BatchOK => ReplayInvariant
    BY Replayed
  <1>2. QED
    BY <1>1, BatchIsOK, PTL
=============================================================================
