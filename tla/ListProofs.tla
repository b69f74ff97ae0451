------------------------------ MODULE ListProofs -----------------------------
(***************************************************************************)
(* What Retain does, for every list and every set.  Its recursion is       *)
(* unfolded, and followed, with the least number for which it fails.       *)
(***************************************************************************)
EXTENDS Lists, WellFoundedInduction, TLAPS

(* A set of numbers has a least one.                                       *)
LEMMA LeastNumber ==
    ASSUME NEW T \in SUBSET Nat, T # {}
    PROVE  \E x \in T : \A y \in T : x <= y
<1> DEFINE Less == {p \in Nat \X Nat : p[1] < p[2]}
<1>1. IsWellFoundedOn(Less, Nat)
  BY NatLessThanWellFounded DEF OpToRel
<1>2. PICK x \in T : \A y \in T : <<y, x>> \notin Less
  BY <1>1, WFMin
<1>3. ASSUME NEW y \in T PROVE x <= y
  <2>1. ~ (y < x)
    BY <1>2
  <2> QED
    BY <2>1
<1> QED
  BY <1>3

LEMMA Downwards ==
    ASSUME NEW T \in SUBSET Nat, 0 \in T, \A n \in Nat : n \in T => n + 1 \in T
    PROVE  T = Nat
<1> SUFFICES ASSUME Nat \ T # {} PROVE FALSE
  OBVIOUS
<1>1. PICK x \in Nat \ T : \A y \in Nat \ T : x <= y
  BY LeastNumber
<1>2. x # 0 /\ x - 1 \in Nat /\ x - 1 \notin Nat \ T
  BY <1>1
<1> QED
  BY <1>2

(* The first k steps of the recursion, as a function.                      *)
Unfolds(list, S, k, f) ==
    f = [i \in 0 .. k |-> IF i = 0 THEN <<>>
                          ELSE IF list[i] \in S THEN Append(f[i - 1], list[i])
                          ELSE f[i - 1]]

LEMMA UnfoldsExist ==
    ASSUME NEW list, NEW S, NEW k \in Nat PROVE \E f : Unfolds(list, S, k, f)
<1> DEFINE T == {n \in Nat : \E f : Unfolds(list, S, n, f)}
<1>1. 0 \in T
  <2> DEFINE f == [i \in 0 .. 0 |-> <<>>]
  <2>1. \A i \in 0 .. 0 : i = 0
    OBVIOUS
  <2>2. Unfolds(list, S, 0, f)
    BY <2>1 DEF Unfolds
  <2> QED
    BY <2>2
<1>2. ASSUME NEW n \in Nat, n \in T PROVE n + 1 \in T
  <2>1. PICK f : Unfolds(list, S, n, f)
    BY <1>2
  <2> DEFINE last == IF list[n + 1] \in S THEN Append(f[n], list[n + 1]) ELSE f[n]
             g == [i \in 0 .. n + 1 |-> IF i <= n THEN f[i] ELSE last]
             step == [i \in 0 .. n + 1 |-> IF i = 0 THEN <<>>
                          ELSE IF list[i] \in S THEN Append(g[i - 1], list[i])
                          ELSE g[i - 1]]
  <2>2. \A i \in 0 .. n + 1 : g[i] = IF i <= n THEN f[i] ELSE last
    OBVIOUS
  <2>3. \A i \in 0 .. n : f[i] = IF i = 0 THEN <<>>
                          ELSE IF list[i] \in S THEN Append(f[i - 1], list[i])
                          ELSE f[i - 1]
    BY <2>1 DEF Unfolds
  <2> HIDE DEF last
  <2>4. ASSUME NEW i \in 0 .. n + 1 PROVE g[i] = step[i]
    <3>1. CASE i = 0
      BY <2>2, <2>3, <3>1
    <3>2. CASE i \in 1 .. n
      <4>1. g[i] = f[i] /\ g[i - 1] = f[i - 1]
        BY <2>2, <3>2
      <4>2. step[i] = IF list[i] \in S THEN Append(g[i - 1], list[i]) ELSE g[i - 1]
        BY <3>2
      <4> QED
        BY <2>3, <3>2, <4>1, <4>2
    <3>3. CASE i = n + 1
      <4>1. g[i] = last /\ g[i - 1] = f[n]
        BY <2>2, <3>3
      <4>2. step[i] = IF list[i] \in S THEN Append(g[i - 1], list[i]) ELSE g[i - 1]
        BY <3>3
      <4> QED
        BY <3>3, <4>1, <4>2 DEF last
    <3> QED
      BY <3>1, <3>2, <3>3
  <2>5. g = step
    BY <2>4
  <2>6. Unfolds(list, S, n + 1, g)
    BY <2>5 DEF Unfolds
  <2> QED
    BY <2>6
<1>3. T = Nat
  BY <1>1, <1>2, Downwards
<1> QED
  BY <1>3

LEMMA RetainUnfolds ==
    ASSUME NEW list, NEW S, Len(list) \in Nat
    PROVE  \E f : Unfolds(list, S, Len(list), f) /\ Retain(list, S) = f[Len(list)]
<1> DEFINE f == CHOOSE f : Unfolds(list, S, Len(list), f)
<1>1. Unfolds(list, S, Len(list), f)
  BY UnfoldsExist
<1>2. Retain(list, S) = f[Len(list)]
  BY DEF Retain, Unfolds
<1> QED
  BY <1>1, <1>2

(* r is what of the first n elements is in S: g says where each was.       *)
Picks(g, r, list, S, n) ==
    /\ g \in [1 .. Len(r) -> 1 .. n]
    /\ \A i \in 1 .. Len(r) : /\ r[i] = list[g[i]] /\ list[g[i]] \in S
                              /\ g[i] + (Len(r) - i) <= n
    /\ \A i, j \in 1 .. Len(r) : i < j => g[i] < g[j]
    /\ \A k \in 1 .. n : list[k] \in S => \E i \in 1 .. Len(r) : g[i] = k

LEMMA PicksNothing ==
    ASSUME NEW list, NEW S PROVE \E g : Picks(g, <<>>, list, S, 0)
<1> DEFINE g == [i \in 1 .. 0 |-> 0]
<1>1. Picks(g, <<>>, list, S, 0)
  BY DEF Picks
<1> QED
  BY <1>1

LEMMA PicksOn ==
    ASSUME NEW T, NEW list \in Seq(T), NEW S, NEW n \in Nat, n + 1 <= Len(list),
           NEW r \in Seq(T), Len(r) <= n, NEW g, Picks(g, r, list, S, n), list[n + 1] \notin S
    PROVE  Picks(g, r, list, S, n + 1)
<1>1. g \in [1 .. Len(r) -> 1 .. n + 1]
  BY DEF Picks
<1>2. \A i \in 1 .. Len(r) : g[i] + (Len(r) - i) <= n + 1
  <2> TAKE i \in 1 .. Len(r)
  <2>1. g[i] \in 1 .. n /\ g[i] + (Len(r) - i) <= n
    BY DEF Picks
  <2> QED
    BY <2>1
<1>3. \A k \in 1 .. n + 1 : list[k] \in S => k \in 1 .. n
  OBVIOUS
<1> QED
  BY <1>1, <1>2, <1>3 DEF Picks

LEMMA PicksOneMore ==
    ASSUME NEW T, NEW list \in Seq(T), NEW S, NEW n \in Nat, n + 1 <= Len(list),
           NEW r \in Seq(T), Len(r) <= n, NEW g, Picks(g, r, list, S, n), list[n + 1] \in S
    PROVE  \E h : Picks(h, Append(r, list[n + 1]), list, S, n + 1)
<1> DEFINE q == Append(r, list[n + 1])
           h == [i \in 1 .. Len(r) + 1 |-> IF i <= Len(r) THEN g[i] ELSE n + 1]
<1>1. /\ Len(r) \in Nat /\ Len(q) = Len(r) + 1 /\ q[Len(r) + 1] = list[n + 1]
      /\ \A i \in 1 .. Len(r) : q[i] = r[i]
  OBVIOUS
<1>2. \A i \in 1 .. Len(r) : g[i] \in 1 .. n
  BY DEF Picks
<1>3. /\ h \in [1 .. Len(q) -> 1 .. n + 1]
      /\ h[Len(r) + 1] = n + 1 /\ \A i \in 1 .. Len(r) : h[i] = g[i]
  BY <1>1, <1>2
<1> HIDE DEF q, h
<1>4. \A i \in 1 .. Len(r) + 1 : i \in 1 .. Len(r) \/ i = Len(r) + 1
  BY <1>1
<1>5. ASSUME NEW i \in 1 .. Len(q)
      PROVE  q[i] = list[h[i]] /\ list[h[i]] \in S /\ h[i] + (Len(q) - i) <= n + 1
  <2>1. CASE i \in 1 .. Len(r)
    <3>1. g[i] + (Len(r) - i) <= n /\ g[i] \in Nat
      BY <1>2, <2>1 DEF Picks
    <3>2. q[i] = list[h[i]] /\ list[h[i]] \in S
      BY <1>1, <1>3, <2>1 DEF Picks
    <3>3. h[i] = g[i]
      BY <1>3, <2>1
    <3> QED
      BY <1>1, <2>1, <3>1, <3>2, <3>3
  <2>2. CASE i = Len(r) + 1
    BY <1>1, <1>3, <2>2
  <2> QED
    BY <1>1, <1>4, <2>1, <2>2
<1>6. ASSUME NEW i \in 1 .. Len(q), NEW j \in 1 .. Len(q), i < j PROVE h[i] < h[j]
  <2>1. i \in 1 .. Len(r)
    BY <1>1, <1>6
  <2>2. CASE j \in 1 .. Len(r)
    BY <1>3, <1>6, <2>1, <2>2 DEF Picks
  <2>3. CASE j = Len(r) + 1
    BY <1>2, <1>3, <2>1, <2>3
  <2> QED
    BY <1>1, <1>4, <2>2, <2>3
<1>7. ASSUME NEW k \in 1 .. n + 1, list[k] \in S PROVE \E i \in 1 .. Len(q) : h[i] = k
  <2>1. CASE k \in 1 .. n
    <3>1. PICK i \in 1 .. Len(r) : g[i] = k
      BY <1>7, <2>1 DEF Picks
    <3>2. i \in 1 .. Len(q) /\ h[i] = k
      BY <1>1, <1>3, <3>1
    <3> QED
      BY <3>2
  <2>2. CASE k = n + 1
    BY <1>1, <1>3, <2>2
  <2> QED
    BY <2>1, <2>2
<1>8. Picks(h, q, list, S, n + 1)
  BY <1>3, <1>5, <1>6, <1>7 DEF Picks
<1> QED
  BY <1>8 DEF q

(* What is retained are those elements that are in the set, in their       *)
(* order: g says where they were.  None gets farther from the end.         *)
LEMMA RetainPicks ==
    ASSUME NEW T, NEW list \in Seq(T), NEW S
    PROVE  /\ Retain(list, S) \in Seq(T)
           /\ Len(Retain(list, S)) <= Len(list)
           /\ \E g : Picks(g, Retain(list, S), list, S, Len(list))
<1> DEFINE L == Len(list)
           Done(f, n) == /\ f[n] \in Seq(T) /\ Len(f[n]) <= n
                         /\ \E g : Picks(g, f[n], list, S, n)
<1>1. L \in Nat /\ \A k \in 1 .. L : list[k] \in T
  OBVIOUS
<1>2. PICK f : Unfolds(list, S, L, f) /\ Retain(list, S) = f[L]
  BY <1>1, RetainUnfolds
<1>3. \A i \in 0 .. L : f[i] = IF i = 0 THEN <<>>
                               ELSE IF list[i] \in S THEN Append(f[i - 1], list[i])
                               ELSE f[i - 1]
  BY <1>2 DEF Unfolds
<1> DEFINE D == {n \in Nat : n <= L => Done(f, n)}
<1>4. 0 \in D
  <2>1. f[0] = <<>>
    BY <1>1, <1>3
  <2>2. f[0] \in Seq(T) /\ Len(f[0]) <= 0
    BY <2>1
  <2>3. \E g : Picks(g, f[0], list, S, 0)
    BY <2>1, PicksNothing, Zenon
  <2> QED
    BY <2>2, <2>3
<1>5. ASSUME NEW n \in Nat, n \in D, n + 1 <= L PROVE Done(f, n + 1)
  <2>1. Done(f, n)
    BY <1>1, <1>5
  <2>2. PICK g : Picks(g, f[n], list, S, n)
    BY <2>1
  <2>3. f[n + 1] = IF list[n + 1] \in S THEN Append(f[n], list[n + 1]) ELSE f[n]
    BY <1>1, <1>3, <1>5
  <2>4. list[n + 1] \in T
    BY <1>1, <1>5
  <2>5. CASE list[n + 1] \in S
    <3>1. \E h : Picks(h, Append(f[n], list[n + 1]), list, S, n + 1)
      BY <1>5, <2>1, <2>2, <2>5, PicksOneMore
    <3>2. Append(f[n], list[n + 1]) \in Seq(T) /\ Len(Append(f[n], list[n + 1])) <= n + 1
      BY <2>1, <2>4
    <3> QED
      BY <2>3, <2>5, <3>1, <3>2
  <2>6. CASE list[n + 1] \notin S
    <3>1. Picks(g, f[n], list, S, n + 1)
      BY <1>5, <2>1, <2>2, <2>6, PicksOn
    <3> QED
      BY <2>1, <2>3, <2>6, <3>1
  <2> QED
    BY <2>5, <2>6
<1>6. D = Nat
  <2> HIDE DEF Done
  <2>1. ASSUME NEW n \in Nat, n \in D PROVE n + 1 \in D
    BY <1>5, <2>1
  <2> HIDE DEF D
  <2>2. D \in SUBSET Nat
    BY DEF D
  <2> QED
    BY <1>4, <2>1, <2>2, Downwards
<1>7. Done(f, L)
  BY <1>1, <1>6
<1> QED
  BY <1>2, <1>7
=============================================================================
