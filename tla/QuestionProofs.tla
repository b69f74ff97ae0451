--------------------------- MODULE QuestionProofs ---------------------------
(***************************************************************************)
(* Proofs about Matching, Queries and Replies: the loop of glob ends, and  *)
(* finds out whether the text fits the pattern, for any text without a     *)
(* star and any pattern; any message has the same verdict wherever it is   *)
(* asked for, for any groups, whatever their conditions compare; who turns *)
(* the pages of a query sees what stays in the store, for any store and    *)
(* any query; and any reply to a notification is taken for what it is.     *)
(*                                                                         *)
(* What the loop keeps (LoopInv) is said with FitsFrom: without a star,    *)
(* whether the whole fits is whether the rest fits.  With one, it is       *)
(* whether what follows the star fits from starHi or from a later place.   *)
(*                                                                         *)
(* Of the pages: as long as the oldest go, a message that stays gets no    *)
(* closer to the start of the list; so the pages cannot pass it by.        *)
(*                                                                         *)
(* Of the replies: what has come of a body in chunks is a body only when   *)
(* all has come (DechunkMeans), so a reply tells what was meant or nothing *)
(* (ExchangeMeans); and each attempt ends with an exchange that has not    *)
(* sent on (FollowMeans).  TryInv is what is known between two attempts.   *)
(***************************************************************************)
EXTENDS Questions, ListProofs, FiniteSetTheorems, SequenceTheorems

-----------------------------------------------------------------------------
(* What fits: an empty pattern, one that starts with a character, and one  *)
(* that starts with a star.                                                *)

LEMMA FitsAtEnd ==
    ASSUME NEW h \in Seq(STRING), NEW p \in Seq(STRING), NEW k \in 1 .. Len(h) + 1
    PROVE  FitsFrom(h, p, k, Len(p) + 1) <=> k = Len(h) + 1
<1> DEFINE M == Len(p)
           cut == [i \in M + 1 .. M + 1 |-> k]
<1>1. M \in Nat /\ Len(h) \in Nat
  OBVIOUS
<1>2. ASSUME k = Len(h) + 1 PROVE FitsFrom(h, p, k, M + 1)
  <2>1. cut \in [M + 1 .. M + 1 -> 1 .. Len(h) + 1] /\ cut[M + 1] = k
    BY <1>1
  <2>2. \A i \in M + 1 .. M : FALSE
    BY <1>1
  <2> HIDE DEF cut
  <2> QED
    BY <1>2, <2>1, <2>2 DEF FitsFrom
<1>3. ASSUME FitsFrom(h, p, k, M + 1) PROVE k = Len(h) + 1
  BY <1>3 DEF FitsFrom
<1> QED
  BY <1>2, <1>3

LEMMA FitsPiece ==
    ASSUME NEW h \in Seq(STRING), NEW p \in Seq(STRING), NEW k \in 1 .. Len(h) + 1,
           NEW j \in 1 .. Len(p)
    PROVE  FitsFrom(h, p, k, j) <=>
               \E n \in 1 .. Len(h) + 1 : Piece(h, p[j], k, n) /\ FitsFrom(h, p, n, j + 1)
<1> DEFINE L == Len(h)  M == Len(p)
           From(i) == i .. M + 1
           To == 1 .. L + 1
<1>1. /\ M \in Nat /\ L \in Nat
      /\ j \in From(j) /\ j + 1 \in From(j) /\ M + 1 \in From(j + 1) /\ j \notin From(j + 1)
      /\ \A i \in From(j + 1) : i \in From(j)
      /\ \A i \in j + 1 .. M : i \in From(j + 1) /\ i + 1 \in From(j + 1) /\ i \in j .. M
      /\ \A i \in j .. M : i = j \/ i \in j + 1 .. M
  OBVIOUS
<1> HIDE DEF From, To
<1>2. ASSUME FitsFrom(h, p, k, j)
      PROVE  \E n \in To : Piece(h, p[j], k, n) /\ FitsFrom(h, p, n, j + 1)
  <2>1. PICK cut \in [From(j) -> To] : /\ cut[j] = k /\ cut[M + 1] = L + 1
                                       /\ \A i \in j .. M : Piece(h, p[i], cut[i], cut[i + 1])
    BY <1>2 DEF FitsFrom, From, To
  <2> DEFINE rest == [i \in From(j + 1) |-> cut[i]]
  <2>2. rest \in [From(j + 1) -> To] /\ \A i \in From(j + 1) : rest[i] = cut[i]
    BY <1>1
  <2> HIDE DEF rest
  <2>3. ASSUME NEW i \in j + 1 .. M PROVE Piece(h, p[i], rest[i], rest[i + 1])
    <3>1. rest[i] = cut[i] /\ rest[i + 1] = cut[i + 1] /\ i \in j .. M
      BY <1>1, <2>2
    <3>2. Piece(h, p[i], cut[i], cut[i + 1])
      BY <2>1, <3>1
    <3> QED
      BY <3>1, <3>2
  <2>4. j \in j .. M /\ cut[j + 1] \in To
    BY <1>1
  <2>5. Piece(h, p[j], k, cut[j + 1])
    BY <2>1, <2>4
  <2>6. rest[j + 1] = cut[j + 1] /\ rest[M + 1] = L + 1
    BY <1>1, <2>1, <2>2 DEF From
  <2>7. FitsFrom(h, p, cut[j + 1], j + 1)
    BY <2>2, <2>3, <2>6 DEF FitsFrom, From, To
  <2> QED
    BY <2>4, <2>5, <2>7
<1>3. ASSUME NEW n \in To, Piece(h, p[j], k, n), FitsFrom(h, p, n, j + 1) PROVE FitsFrom(h, p, k, j)
  <2>1. PICK rest \in [From(j + 1) -> To] :
              /\ rest[j + 1] = n /\ rest[M + 1] = L + 1
              /\ \A i \in j + 1 .. M : Piece(h, p[i], rest[i], rest[i + 1])
    BY <1>3 DEF FitsFrom, From, To
  <2> DEFINE cut == [i \in From(j) |-> IF i = j THEN k ELSE rest[i]]
  <2>2. \A i \in From(j) : i # j => i \in From(j + 1)
    BY DEF From
  <2>3. k \in To
    BY DEF To
  <2>4. /\ cut \in [From(j) -> To] /\ cut[j] = k
        /\ \A i \in From(j + 1) : cut[i] = rest[i]
    BY <1>1, <2>2, <2>3
  <2> HIDE DEF cut
  <2>5. cut[M + 1] = L + 1 /\ cut[j + 1] = n
    BY <1>1, <2>1, <2>4 DEF From
  <2>6. ASSUME NEW i \in j .. M PROVE Piece(h, p[i], cut[i], cut[i + 1])
    <3>1. CASE i = j
      BY <1>3, <2>4, <2>5, <3>1
    <3>2. CASE i \in j + 1 .. M
      <4>1. cut[i] = rest[i] /\ cut[i + 1] = rest[i + 1]
        BY <1>1, <2>4, <3>2
      <4>2. Piece(h, p[i], rest[i], rest[i + 1])
        BY <2>1, <3>2
      <4> QED
        BY <4>1, <4>2
    <3> QED
      BY <1>1, <3>1, <3>2
  <2> QED
    BY <2>4, <2>5, <2>6 DEF FitsFrom, From, To
<1> QED
  BY <1>2, <1>3 DEF To

LEMMA FitsCharacter ==
    ASSUME NEW h \in Seq(STRING), NEW p \in Seq(STRING), NEW k \in 1 .. Len(h) + 1,
           NEW j \in 1 .. Len(p), p[j] # "*"
    PROVE  FitsFrom(h, p, k, j) <=> k <= Len(h) /\ h[k] = p[j] /\ FitsFrom(h, p, k + 1, j + 1)
<1>1. \A n : Piece(h, p[j], k, n) <=> n = k + 1 /\ h[k] = p[j]
  BY DEF Piece
<1>2. k + 1 \in 1 .. Len(h) + 1 <=> k <= Len(h)
  OBVIOUS
<1> QED
  BY <1>1, <1>2, FitsPiece

LEMMA FitsStar ==
    ASSUME NEW h \in Seq(STRING), NEW p \in Seq(STRING), NEW k \in 1 .. Len(h) + 1,
           NEW j \in 1 .. Len(p), p[j] = "*"
    PROVE  FitsFrom(h, p, k, j) <=> \E i \in k .. Len(h) + 1 : FitsFrom(h, p, i, j + 1)
<1>1. \A n : Piece(h, p[j], k, n) <=> k <= n
  BY DEF Piece
<1>2. \A n : n \in 1 .. Len(h) + 1 /\ k <= n <=> n \in k .. Len(h) + 1
  OBVIOUS
<1> QED
  BY <1>1, <1>2, FitsPiece

(* Nothing fits a pattern if it is made of stars.                          *)
LEMMA NothingFitsStars ==
    ASSUME NEW h \in Seq(STRING), NEW p \in Seq(STRING), NEW j \in 1 .. Len(p) + 1
    PROVE  FitsFrom(h, p, Len(h) + 1, j) <=> \A i \in j .. Len(p) : p[i] = "*"
<1> DEFINE L == Len(h)  M == Len(p)
<1>1. M \in Nat /\ L \in Nat
  OBVIOUS
<1>2. ASSUME \A i \in j .. M : p[i] = "*" PROVE FitsFrom(h, p, L + 1, j)
  <2> DEFINE cut == [i \in j .. M + 1 |-> L + 1]
  <2>1. cut \in [j .. M + 1 -> 1 .. L + 1] /\ \A i \in j .. M + 1 : cut[i] = L + 1
    BY <1>1
  <2> HIDE DEF cut
  <2>2. cut[j] = L + 1 /\ cut[M + 1] = L + 1
    BY <1>1, <2>1
  <2>3. \A i \in j .. M : Piece(h, p[i], cut[i], cut[i + 1])
    BY <1>1, <1>2, <2>1 DEF Piece
  <2> QED
    BY <2>1, <2>2, <2>3 DEF FitsFrom
<1>3. ASSUME FitsFrom(h, p, L + 1, j) PROVE \A i \in j .. M : p[i] = "*"
  <2> DEFINE T == {n \in Nat : j + n <= M + 1 => FitsFrom(h, p, L + 1, j + n)}
  <2>1. ASSUME NEW i \in j .. M, FitsFrom(h, p, L + 1, i)
        PROVE  p[i] = "*" /\ FitsFrom(h, p, L + 1, i + 1)
    <3>1. i \in 1 .. M /\ L + 1 \in 1 .. L + 1 /\ ~ (L + 1 <= L)
      BY <1>1
    <3>2. p[i] = "*"
      BY <2>1, <3>1, FitsCharacter
    <3>3. PICK n \in L + 1 .. L + 1 : FitsFrom(h, p, n, i + 1)
      BY <2>1, <3>1, <3>2, FitsStar
    <3>4. n = L + 1
      BY <1>1
    <3> QED
      BY <3>2, <3>3, <3>4
  <2>2. 0 \in T
    BY <1>3
  <2>3. ASSUME NEW n \in Nat, n \in T PROVE n + 1 \in T
    <3> SUFFICES ASSUME j + (n + 1) <= M + 1 PROVE FitsFrom(h, p, L + 1, j + (n + 1))
      OBVIOUS
    <3>1. j + n \in j .. M /\ (j + n) + 1 = j + (n + 1)
      BY <1>1
    <3>2. FitsFrom(h, p, L + 1, j + n)
      BY <2>3, <3>1
    <3>3. FitsFrom(h, p, L + 1, (j + n) + 1)
      BY <2>1, <3>1, <3>2
    <3> QED
      BY <3>1, <3>3
  <2>4. T = Nat
    <3>1. T \in SUBSET Nat
      OBVIOUS
    <3> HIDE DEF T
    <3> QED
      BY <2>2, <2>3, <3>1, Downwards
  <2>5. ASSUME NEW i \in j .. M PROVE p[i] = "*"
    <3>1. i - j \in Nat /\ j + (i - j) = i /\ i <= M + 1
      BY <1>1
    <3>2. FitsFrom(h, p, L + 1, j + (i - j))
      BY <2>4, <3>1
    <3> QED
      BY <2>1, <3>1, <3>2
  <2> QED
    BY <2>5
<1> QED
  BY <1>2, <1>3

-----------------------------------------------------------------------------
(* The loop.                                                               *)

Loop(h, p) ==
    [hi : 1 .. Len(h) + 1, pi : 1 .. Len(p) + 1, star : 0 .. Len(p), starHi : 0 .. Len(h) + 1,
     lost : BOOLEAN]

(* What follows the star, from a place that it may stand up to.            *)
AfterStar(h, p, s, k) == FitsFrom(h, p, k, s.star + 1)

(* What has fitted since the star, at another place than where it did.     *)
Since(s) == s.pi - s.star - 1

WithStar(h, p, s) ==
    /\ s.star < s.pi /\ p[s.star] = "*" /\ s.starHi >= 1 /\ s.hi = s.starHi + Since(s)
    /\ Fits(h, p) <=> \E k \in s.starHi .. Len(h) + 1 : AfterStar(h, p, s, k)
    /\ \A k \in s.starHi .. Len(h) + 1 :
          AfterStar(h, p, s, k) =>
              k + Since(s) <= Len(h) + 1 /\ FitsFrom(h, p, k + Since(s), s.pi)
    /\ FitsFrom(h, p, s.hi, s.pi) => AfterStar(h, p, s, s.starHi)

LoopInv(h, p, s) ==
    /\ s \in Loop(h, p)
    /\ s.lost => ~ Fits(h, p)
    /\ ~ s.lost /\ s.star = 0 => s.starHi = 0 /\ (Fits(h, p) <=> FitsFrom(h, p, s.hi, s.pi))
    /\ ~ s.lost /\ s.star # 0 => WithStar(h, p, s)

(* It grows with each pass, and cannot grow for ever.                      *)
Height(h, s) == s.star + s.starHi * (Len(h) + 2) + s.hi

LEMMA PlusOne ==
    \A a \in Int, b \in Nat : (a + b) + 1 = a + (b + 1)
  OBVIOUS

LEMMA Distributes ==
    \A a, b, w \in Nat : (a + b) * w = a * w + b * w /\ a * w \in Nat /\ b * w \in Nat
  OBVIOUS

LEMMA PassOnCharacter ==
    ASSUME NEW h \in Seq(STRING), NEW p \in Seq(STRING), "*" \notin ToSet(h), NEW s,
           LoopInv(h, p, s), ~ Over(h, s), s.pi <= Len(p), p[s.pi] = h[s.hi]
    PROVE  LoopInv(h, p, Pass(h, p, s)) /\ Height(h, Pass(h, p, s)) >= Height(h, s) + 1
<1> DEFINE L == Len(h)  M == Len(p)  t == Pass(h, p, s)
<1>1. /\ s \in Loop(h, p) /\ ~ s.lost /\ s.hi \in 1 .. L /\ s.pi \in 1 .. M /\ L \in Nat /\ M \in Nat
      /\ s.star \in 0 .. M /\ s.starHi \in 0 .. L + 1
  BY DEF LoopInv, Loop, Over
<1>2. t = At(s.hi + 1, s.pi + 1, s.star, s.starHi)
  BY DEF Pass
<1>3. t \in Loop(h, p) /\ ~ t.lost /\ t.hi = s.hi + 1 /\ t.pi = s.pi + 1 /\ t.star = s.star /\ t.starHi = s.starHi
  <2>2. s.hi + 1 \in 1 .. L + 1 /\ s.pi + 1 \in 1 .. M + 1
    BY <1>1
  <2> HIDE DEF t
  <2> QED
    BY <1>1, <1>2, <2>2 DEF Loop, At
<1> HIDE DEF t
<1>4. h[s.hi] \in ToSet(h)
  BY <1>1 DEF ToSet
<1>5. p[s.pi] # "*"
  BY <1>4
<1>6. FitsFrom(h, p, s.hi, s.pi) <=> FitsFrom(h, p, s.hi + 1, s.pi + 1)
  <2>1. s.hi \in 1 .. L + 1 /\ s.hi <= L
    BY <1>1
  <2> QED
    BY <1>1, <1>5, <2>1, FitsCharacter
<1>7. ASSUME s.star = 0 PROVE LoopInv(h, p, t)
  BY <1>1, <1>3, <1>6, <1>7 DEF LoopInv
<1>8. ASSUME s.star # 0 PROVE LoopInv(h, p, t)
  <2>1. WithStar(h, p, s)
    BY <1>1, <1>8 DEF LoopInv
  <2>2. Since(s) \in Nat /\ Since(t) = Since(s) + 1
    <3>1. s.star < s.pi
      BY <2>1 DEF WithStar
    <3>2. s.star \in Int /\ s.pi \in Int /\ t.pi = s.pi + 1 /\ t.star = s.star
      BY <1>1, <1>3
    <3> QED
      BY ONLY <3>1, <3>2 DEF Since
  <2>3. \A k : AfterStar(h, p, t, k) <=> AfterStar(h, p, s, k)
    BY <1>3 DEF AfterStar
  <2>4. ASSUME NEW k \in s.starHi .. L + 1, AfterStar(h, p, s, k)
        PROVE  k + Since(t) <= L + 1 /\ FitsFrom(h, p, k + Since(t), t.pi)
    <3>1. k + Since(s) <= L + 1 /\ FitsFrom(h, p, k + Since(s), s.pi)
      BY <2>1, <2>4 DEF WithStar
    <3>2. k + Since(s) \in 1 .. L + 1
      BY <1>1, <2>1, <2>2, <3>1 DEF WithStar
    <3>3. k + Since(s) <= L /\ FitsFrom(h, p, (k + Since(s)) + 1, s.pi + 1)
      BY <1>1, <1>5, <3>1, <3>2, FitsCharacter
    <3>4. (k + Since(s)) + 1 = k + Since(t)
      BY <1>1, <2>2
    <3> QED
      BY <1>1, <1>3, <2>2, <3>3, <3>4
  <2>5. WithStar(h, p, t)
    <3>1. t.star < t.pi /\ p[t.star] = "*" /\ t.starHi >= 1 /\ t.hi = t.starHi + Since(t)
      <4>1. s.star < s.pi /\ s.starHi >= 1 /\ s.hi = s.starHi + Since(s)
        BY <2>1 DEF WithStar
      <4>2. s.star \in Int /\ s.pi \in Int /\ s.hi \in Int /\ s.starHi \in Int
        BY <1>1
      <4>3. t.hi = s.hi + 1 /\ t.pi = s.pi + 1 /\ t.star = s.star /\ t.starHi = s.starHi
        BY <1>3
      <4>4. t.star < t.pi /\ t.starHi >= 1
        BY ONLY <4>1, <4>2, <4>3
      <4>5. t.hi = t.starHi + Since(t)
        <5>1. (s.starHi + Since(s)) + 1 = s.starHi + (Since(s) + 1)
          BY ONLY <2>2, <4>2, PlusOne, Zenon
        <5> QED
          BY ONLY <2>2, <4>1, <4>3, <5>1
      <4>6. p[t.star] = "*"
        BY <2>1, <4>3 DEF WithStar
      <4> QED
        BY <4>4, <4>5, <4>6
    <3>2. Fits(h, p) <=> \E k \in t.starHi .. L + 1 : AfterStar(h, p, t, k)
      BY <1>3, <2>1, <2>3 DEF WithStar
    <3>3. FitsFrom(h, p, t.hi, t.pi) => AfterStar(h, p, t, t.starHi)
      BY <1>3, <1>6, <2>1, <2>3 DEF WithStar
    <3>4. \A k \in t.starHi .. L + 1 :
             AfterStar(h, p, t, k) => k + Since(t) <= L + 1 /\ FitsFrom(h, p, k + Since(t), t.pi)
      BY <1>3, <2>3, <2>4
    <3> QED
      BY <3>1, <3>2, <3>3, <3>4 DEF WithStar
  <2> QED
    BY <1>3, <1>8, <2>5 DEF LoopInv
<1>9. Height(h, t) = Height(h, s) + 1
  <2> DEFINE high == s.starHi * (L + 2)
  <2>1. high \in Nat
    BY <1>1
  <2>2. Height(h, s) = s.star + high + s.hi /\ Height(h, t) = s.star + high + (s.hi + 1)
    BY <1>3 DEF Height
  <2>3. s.star \in Int /\ s.hi \in Int
    BY <1>1
  <2> HIDE DEF high
  <2> QED
    BY ONLY <2>1, <2>2, <2>3
<1>10. Height(h, s) \in Int
  BY <1>1 DEF Height
<1>11. LoopInv(h, p, t)
  BY <1>7, <1>8
<1> QED
  BY <1>9, <1>10, <1>11 DEF t

LEMMA PassOnStar ==
    ASSUME NEW h \in Seq(STRING), NEW p \in Seq(STRING), NEW s,
           LoopInv(h, p, s), ~ Over(h, s), s.pi <= Len(p), p[s.pi] # h[s.hi], p[s.pi] = "*"
    PROVE  LoopInv(h, p, Pass(h, p, s)) /\ Height(h, Pass(h, p, s)) >= Height(h, s) + 1
<1> DEFINE L == Len(h)  M == Len(p)  t == Pass(h, p, s)
<1>1. /\ s \in Loop(h, p) /\ ~ s.lost /\ s.hi \in 1 .. L /\ s.pi \in 1 .. M /\ L \in Nat /\ M \in Nat
      /\ s.star \in 0 .. M /\ s.starHi \in 0 .. L + 1
  BY DEF LoopInv, Loop, Over
<1>2. t = At(s.hi, s.pi + 1, s.pi, s.hi)
  BY DEF Pass
<1>3. t \in Loop(h, p) /\ ~ t.lost /\ t.hi = s.hi /\ t.pi = s.pi + 1 /\ t.star = s.pi /\ t.starHi = s.hi
  <2>2. s.hi \in 1 .. L + 1 /\ s.pi + 1 \in 1 .. M + 1 /\ s.pi \in 0 .. M /\ s.hi \in 0 .. L + 1
    BY <1>1
  <2> HIDE DEF t
  <2> QED
    BY <1>1, <1>2, <2>2 DEF Loop, At
<1> HIDE DEF t
<1>4. FitsFrom(h, p, s.hi, s.pi) <=> \E k \in s.hi .. L + 1 : FitsFrom(h, p, k, s.pi + 1)
  <2>1. s.hi \in 1 .. L + 1
    BY <1>1
  <2> QED
    BY <1>1, <2>1, FitsStar
<1>5. Fits(h, p) <=> FitsFrom(h, p, s.hi, s.pi)
  <2>1. CASE s.star = 0
    BY <1>1, <2>1 DEF LoopInv
  <2>2. CASE s.star # 0
    <3>1. WithStar(h, p, s)
      BY <1>1, <2>2 DEF LoopInv
    <3>2. Since(s) \in Nat
      BY <1>1, <3>1 DEF Since, WithStar
    <3>3. ASSUME Fits(h, p) PROVE FitsFrom(h, p, s.hi, s.pi)
      <4>1. PICK k \in s.starHi .. L + 1 : AfterStar(h, p, s, k)
        BY <3>1, <3>3 DEF WithStar
      <4>2. k + Since(s) <= L + 1 /\ FitsFrom(h, p, k + Since(s), s.pi)
        BY <3>1, <4>1 DEF WithStar
      <4>3. k + Since(s) \in s.hi .. L + 1 /\ k + Since(s) \in 1 .. L + 1
        BY <1>1, <3>1, <3>2, <4>2 DEF WithStar
      <4>4. PICK i \in k + Since(s) .. L + 1 : FitsFrom(h, p, i, s.pi + 1)
        BY <1>1, <4>2, <4>3, FitsStar
      <4>5. i \in s.hi .. L + 1
        BY <1>1, <4>3
      <4> QED
        BY <1>4, <4>4, <4>5
    <3>4. ASSUME FitsFrom(h, p, s.hi, s.pi) PROVE Fits(h, p)
      <4>1. AfterStar(h, p, s, s.starHi) /\ s.starHi \in s.starHi .. L + 1
        BY <1>1, <3>1, <3>4 DEF WithStar
      <4> QED
        BY <3>1, <4>1 DEF WithStar
    <3> QED
      BY <3>3, <3>4
  <2> QED
    BY <2>1, <2>2
<1>6. Since(t) = 0
  BY <1>1, <1>3 DEF Since
<1>7. WithStar(h, p, t)
  <2>1. \A k : AfterStar(h, p, t, k) <=> FitsFrom(h, p, k, s.pi + 1)
    BY <1>3 DEF AfterStar
  <2>2. t.star < t.pi /\ p[t.star] = "*" /\ t.starHi >= 1 /\ t.hi = t.starHi + Since(t)
    BY <1>1, <1>3, <1>6
  <2>3. \A k \in t.starHi .. L + 1 : k + Since(t) = k /\ k <= L + 1
    BY <1>1, <1>3, <1>6
  <2>4. Fits(h, p) <=> \E k \in t.starHi .. L + 1 : AfterStar(h, p, t, k)
    BY <1>3, <1>4, <1>5, <2>1
  <2>5. FitsFrom(h, p, t.hi, t.pi) => AfterStar(h, p, t, t.starHi)
    BY <1>3, <2>1
  <2>6. \A k \in t.starHi .. L + 1 :
           AfterStar(h, p, t, k) => k + Since(t) <= L + 1 /\ FitsFrom(h, p, k + Since(t), t.pi)
    BY <1>3, <2>1, <2>3
  <2> QED
    BY <2>2, <2>4, <2>5, <2>6 DEF WithStar
<1>8. s.star < s.pi /\ s.starHi <= s.hi
  <2>1. CASE s.star = 0
    BY <1>1, <2>1 DEF LoopInv
  <2>2. CASE s.star # 0
    BY <1>1, <2>2 DEF LoopInv, WithStar, Since
  <2> QED
    BY <2>1, <2>2
<1>9. Height(h, t) >= Height(h, s) + 1
  <2> DEFINE more == s.hi - s.starHi
             was  == s.starHi * (L + 2)
             plus == more * (L + 2)
  <2>1. more \in Nat /\ s.hi = s.starHi + more
    BY <1>1, <1>8
  <2>2. was \in Nat /\ plus \in Nat
    BY <1>1, <2>1
  <2>3. s.hi * (L + 2) = was + plus
    BY <1>1, <2>1
  <2>4. Height(h, s) = s.star + was + s.hi /\ Height(h, t) = s.pi + (was + plus) + s.hi
    BY <1>3, <2>3 DEF Height
  <2> HIDE DEF was, plus
  <2> QED
    BY <1>1, <1>8, <2>2, <2>4
<1>10. LoopInv(h, p, t)
  BY <1>1, <1>3, <1>7 DEF LoopInv
<1> QED
  BY <1>9, <1>10 DEF t

LEMMA PassBack ==
    ASSUME NEW h \in Seq(STRING), NEW p \in Seq(STRING), NEW s,
           LoopInv(h, p, s), ~ Over(h, s),
           ~ (s.pi <= Len(p) /\ p[s.pi] = h[s.hi]), ~ (s.pi <= Len(p) /\ p[s.pi] = "*")
    PROVE  /\ LoopInv(h, p, Pass(h, p, s))
           /\ Pass(h, p, s).lost \/ Height(h, Pass(h, p, s)) >= Height(h, s) + 1
<1> DEFINE L == Len(h)  M == Len(p)  t == Pass(h, p, s)
<1>1. /\ s \in Loop(h, p) /\ ~ s.lost /\ s.hi \in 1 .. L /\ s.pi \in 1 .. M + 1 /\ L \in Nat /\ M \in Nat
      /\ s.star \in 0 .. M /\ s.starHi \in 0 .. L + 1
  BY DEF LoopInv, Loop, Over
<1>2. ~ FitsFrom(h, p, s.hi, s.pi)
  <2>1. s.hi \in 1 .. L + 1 /\ s.hi # L + 1
    BY <1>1
  <2>2. CASE s.pi = M + 1
    BY <2>1, <2>2, FitsAtEnd
  <2>3. CASE s.pi \in 1 .. M
    <3>1. p[s.pi] # "*" /\ p[s.pi] # h[s.hi]
      BY <1>1, <2>3
    <3> QED
      BY <2>1, <2>3, <3>1, FitsCharacter
  <2> QED
    BY <1>1, <2>2, <2>3
<1>3. CASE s.star = 0
  <2>1. t = [s EXCEPT !.lost = TRUE]
    BY <1>3 DEF Pass
  <2>2. t \in Loop(h, p) /\ t.lost
    BY <1>1, <2>1 DEF Loop
  <2>3. ~ Fits(h, p)
    BY <1>1, <1>2, <1>3 DEF LoopInv
  <2> HIDE DEF t
  <2>4. LoopInv(h, p, t)
    BY <2>2, <2>3 DEF LoopInv
  <2> QED
    BY <2>2, <2>4 DEF t
<1>4. CASE s.star # 0
  <2>1. WithStar(h, p, s)
    BY <1>1, <1>4 DEF LoopInv
  <2>2. Since(s) \in Nat /\ s.starHi <= s.hi /\ s.starHi >= 1
    <3>1. s.star < s.pi /\ s.starHi >= 1 /\ s.hi = s.starHi + Since(s)
      BY <2>1 DEF WithStar
    <3>2. s.star \in Int /\ s.pi \in Int /\ s.hi \in Int /\ s.starHi \in Int
      BY <1>1
    <3>3. Since(s) \in Nat
      BY ONLY <3>1, <3>2 DEF Since
    <3> QED
      BY ONLY <3>1, <3>2, <3>3
  <2>3. t = At(s.starHi + 1, s.star + 1, s.star, s.starHi + 1)
    BY <1>4 DEF Pass
  <2>4. /\ t \in Loop(h, p) /\ ~ t.lost /\ t.hi = s.starHi + 1 /\ t.pi = s.star + 1
        /\ t.star = s.star /\ t.starHi = s.starHi + 1
    <3>2. s.starHi + 1 \in 1 .. L + 1 /\ s.star + 1 \in 1 .. M + 1 /\ s.starHi + 1 \in 0 .. L + 1
      BY <1>1, <2>2
    <3> HIDE DEF t
    <3> QED
      BY <1>1, <2>3, <3>2 DEF Loop, At
  <2> HIDE DEF t
  <2>5. ~ AfterStar(h, p, s, s.starHi)
    <3>1. s.starHi \in s.starHi .. L + 1 /\ s.hi = s.starHi + Since(s)
      BY <1>1, <2>1, <2>2 DEF WithStar
    <3> QED
      BY <1>2, <2>1, <3>1 DEF WithStar
  <2>6. Since(t) = 0
    BY <1>1, <2>4 DEF Since
  <2>7. \A k : AfterStar(h, p, t, k) <=> AfterStar(h, p, s, k)
    BY <2>4 DEF AfterStar
  <2>8. \A k : AfterStar(h, p, s, k) <=> FitsFrom(h, p, k, t.pi)
    BY <2>4 DEF AfterStar
  <2>9. \A k \in s.starHi .. L + 1 : k = s.starHi \/ k \in t.starHi .. L + 1
    BY <1>1, <2>4
  <2>10. \A k \in t.starHi .. L + 1 : k \in s.starHi .. L + 1 /\ k + Since(t) = k /\ k <= L + 1
    BY <1>1, <2>4, <2>6
  <2>11. WithStar(h, p, t)
    <3>1. t.star < t.pi /\ p[t.star] = "*" /\ t.starHi >= 1 /\ t.hi = t.starHi + Since(t)
      <4>1. s.star \in Int /\ s.starHi \in Int /\ s.starHi >= 1
        BY <1>1, <2>2
      <4>2. p[t.star] = "*"
        BY <2>1, <2>4 DEF WithStar
      <4> QED
        BY ONLY <2>4, <2>6, <4>1, <4>2
    <3>2. Fits(h, p) <=> \E k \in t.starHi .. L + 1 : AfterStar(h, p, t, k)
      <4>1. Fits(h, p) <=> \E k \in s.starHi .. L + 1 : AfterStar(h, p, s, k)
        BY <2>1 DEF WithStar
      <4> QED
        BY <2>5, <2>7, <2>9, <2>10, <4>1
    <3>3. FitsFrom(h, p, t.hi, t.pi) => AfterStar(h, p, t, t.starHi)
      BY <2>4, <2>7, <2>8
    <3>4. \A k \in t.starHi .. L + 1 :
             AfterStar(h, p, t, k) => k + Since(t) <= L + 1 /\ FitsFrom(h, p, k + Since(t), t.pi)
      BY <2>7, <2>8, <2>10
    <3> QED
      BY <3>1, <3>2, <3>3, <3>4 DEF WithStar
  <2>12. Height(h, t) >= Height(h, s) + 1
    <3> DEFINE was == s.starHi * (L + 2)
    <3>1. was \in Nat /\ (s.starHi + 1) * (L + 2) = was + (L + 2)
      BY <1>1
    <3>2. Height(h, s) = s.star + was + s.hi /\ Height(h, t) = s.star + (was + (L + 2)) + (s.starHi + 1)
      BY <2>4, <3>1 DEF Height
    <3>3. s.star \in Int /\ s.starHi \in Int /\ s.hi \in Int /\ L \in Int /\ s.hi <= L /\ s.starHi >= 0
      BY <1>1
    <3>4. was \in Nat
      BY <1>1
    <3> HIDE DEF was
    <3> QED
      BY ONLY <3>2, <3>3, <3>4
  <2>13. LoopInv(h, p, t)
    BY <1>1, <1>4, <2>4, <2>11 DEF LoopInv
  <2> QED
    BY <2>12, <2>13 DEF t
<1> QED
  BY <1>3, <1>4

LEMMA PassKeeps ==
    ASSUME NEW h \in Seq(STRING), NEW p \in Seq(STRING), "*" \notin ToSet(h), NEW s,
           LoopInv(h, p, s)
    PROVE  /\ LoopInv(h, p, Pass(h, p, s))
           /\ Over(h, Pass(h, p, s)) \/ Height(h, Pass(h, p, s)) >= Height(h, s) + 1
<1>1. CASE Over(h, s)
  <2>1. Pass(h, p, s) = s
    BY <1>1 DEF Pass
  <2> QED
    BY <1>1, <2>1
<1>2. CASE ~ Over(h, s)
  <2>1. CASE s.pi <= Len(p) /\ p[s.pi] = h[s.hi]
    BY <1>2, <2>1, PassOnCharacter
  <2>2. CASE ~ (s.pi <= Len(p) /\ p[s.pi] = h[s.hi]) /\ s.pi <= Len(p) /\ p[s.pi] = "*"
    BY <1>2, <2>2, PassOnStar
  <2>3. CASE ~ (s.pi <= Len(p) /\ p[s.pi] = h[s.hi]) /\ ~ (s.pi <= Len(p) /\ p[s.pi] = "*")
    BY <1>2, <2>3, PassBack DEF Over
  <2> QED
    BY <2>1, <2>2, <2>3
<1> QED
  BY <1>1, <1>2

-----------------------------------------------------------------------------
(* All of its passes.                                                      *)

(* The first k passes, as a function.                                      *)
Runs(h, p, k, f) ==
    f = [n \in 0 .. k |-> IF n = 0 THEN At(1, 1, 0, 0) ELSE Pass(h, p, f[n - 1])]

LEMMA RunsExist ==
    ASSUME NEW h, NEW p, NEW k \in Nat PROVE \E f : Runs(h, p, k, f)
<1> DEFINE T == {n \in Nat : \E f : Runs(h, p, n, f)}
<1>1. 0 \in T
  <2> DEFINE f == [n \in 0 .. 0 |-> At(1, 1, 0, 0)]
  <2>1. \A n \in 0 .. 0 : n = 0
    OBVIOUS
  <2>2. Runs(h, p, 0, f)
    BY <2>1 DEF Runs
  <2> QED
    BY <2>2
<1>2. ASSUME NEW n \in Nat, n \in T PROVE n + 1 \in T
  <2>1. PICK f : Runs(h, p, n, f)
    BY <1>2
  <2> DEFINE g == [i \in 0 .. n + 1 |-> IF i <= n THEN f[i] ELSE Pass(h, p, f[n])]
             step == [i \in 0 .. n + 1 |-> IF i = 0 THEN At(1, 1, 0, 0) ELSE Pass(h, p, g[i - 1])]
  <2>2. \A i \in 0 .. n + 1 : g[i] = IF i <= n THEN f[i] ELSE Pass(h, p, f[n])
    OBVIOUS
  <2>3. \A i \in 0 .. n : f[i] = IF i = 0 THEN At(1, 1, 0, 0) ELSE Pass(h, p, f[i - 1])
    BY <2>1 DEF Runs
  <2>4. ASSUME NEW i \in 0 .. n + 1 PROVE g[i] = step[i]
    <3>1. CASE i = 0
      BY <2>2, <2>3, <3>1
    <3>2. CASE i \in 1 .. n
      <4>1. g[i] = f[i] /\ g[i - 1] = f[i - 1] /\ i # 0
        BY <2>2, <3>2
      <4>2. step[i] = Pass(h, p, g[i - 1])
        BY <3>2
      <4>3. f[i] = Pass(h, p, f[i - 1])
        BY <2>3, <3>2
      <4> QED
        BY <4>1, <4>2, <4>3
    <3>3. CASE i = n + 1
      <4>1. g[i] = Pass(h, p, f[n]) /\ g[i - 1] = f[n]
        BY <2>2, <3>3
      <4>2. step[i] = Pass(h, p, g[i - 1])
        BY <3>3
      <4> QED
        BY <4>1, <4>2
    <3> QED
      BY <3>1, <3>2, <3>3
  <2>5. g = step
    BY <2>4
  <2>6. Runs(h, p, n + 1, g)
    BY <2>5 DEF Runs
  <2> QED
    BY <2>6
<1>3. T = Nat
  BY <1>1, <1>2, Downwards
<1> QED
  BY <1>3

LEMMA LastPassRuns ==
    ASSUME NEW h, NEW p, Passes(h, p) \in Nat
    PROVE  \E f : Runs(h, p, Passes(h, p), f) /\ LastPass(h, p) = f[Passes(h, p)]
<1> DEFINE f == CHOOSE f : Runs(h, p, Passes(h, p), f)
<1>1. Runs(h, p, Passes(h, p), f)
  BY RunsExist
<1>2. LastPass(h, p) = f[Passes(h, p)]
  BY DEF LastPass, Runs
<1> QED
  BY <1>1, <1>2

(* A loop that is not over has not come as high as it could.               *)
LEMMA HeightBound ==
    ASSUME NEW h \in Seq(STRING), NEW p \in Seq(STRING), NEW s, LoopInv(h, p, s), ~ Over(h, s)
    PROVE  Height(h, s) \in Nat /\ Height(h, s) < Passes(h, p)
<1> DEFINE L == Len(h)  M == Len(p)  was == s.starHi * (L + 2)
<1>1. /\ ~ s.lost /\ s.hi \in 1 .. L /\ s.pi \in 1 .. M + 1 /\ L \in Nat /\ M \in Nat
      /\ s.star \in 0 .. M /\ s.starHi \in 0 .. L + 1
  BY DEF LoopInv, Loop, Over
<1>2. s.starHi \in 0 .. L
  <2>1. CASE s.star = 0
    BY <1>1, <2>1 DEF LoopInv
  <2>2. CASE s.star # 0
    <3>1. s.star < s.pi /\ s.hi = s.starHi + Since(s)
      BY <1>1, <2>2 DEF LoopInv, WithStar
    <3>2. s.star \in Int /\ s.pi \in Int /\ s.hi \in Int /\ s.starHi \in Int
      BY <1>1
    <3>3. Since(s) \in Nat
      BY ONLY <3>1, <3>2 DEF Since
    <3> QED
      BY <1>1, <3>1, <3>2, <3>3
  <2> QED
    BY <2>1, <2>2
<1>3. was \in Nat /\ was <= L * (L + 2)
  <2>1. \E more \in Nat : L = s.starHi + more
    <3>1. L - s.starHi \in Nat /\ L = s.starHi + (L - s.starHi)
      BY <1>1, <1>2
    <3> QED
      BY <3>1
  <2>2. PICK more \in Nat : L = s.starHi + more
    BY <2>1
  <2>3. L * (L + 2) = was + more * (L + 2) /\ was \in Nat /\ more * (L + 2) \in Nat
    <3> DEFINE w == L + 2
    <3>1. s.starHi \in Nat /\ w \in Nat
      BY <1>1, <1>2
    <3> HIDE DEF w
    <3>2. (s.starHi + more) * w = s.starHi * w + more * w /\ s.starHi * w \in Nat /\ more * w \in Nat
      BY <2>2, <3>1, Distributes
    <3>3. L * w = s.starHi * w + more * w
      BY <2>2, <3>2, Zenon
    <3> QED
      BY <3>2, <3>3, Zenon DEF w
  <2> QED
    BY <2>3
<1>4. (L + 2) * (L + 2) = L * (L + 2) + (L + 2) + (L + 2) /\ L * (L + 2) \in Nat
  BY <1>1
<1>5. Height(h, s) = s.star + was + s.hi
  BY DEF Height
<1>6. Passes(h, p) = M + (L * (L + 2) + (L + 2) + (L + 2))
  BY <1>4 DEF Passes
<1>7. s.star \in Nat /\ s.star <= M /\ s.hi \in Nat /\ s.hi <= L /\ L \in Nat /\ M \in Nat
  BY <1>1
<1> DEFINE most == L * (L + 2)
<1>8. was \in Nat /\ most \in Nat /\ was <= most /\ Passes(h, p) = M + (most + (L + 2) + (L + 2))
  BY <1>3, <1>4, <1>6
<1> HIDE DEF was, most
<1> QED
  BY ONLY <1>5, <1>7, <1>8

(* match_.rs, glob: for any text without a star and any pattern, the loop  *)
(* ends, and it says whether the text is what the pattern says.            *)
THEOREM GlobMeans ==
    ASSUME NEW h \in Seq(STRING), NEW p \in Seq(STRING), "*" \notin ToSet(h)
    PROVE  Glob(h, p) <=> Fits(h, p)
<1> DEFINE L == Len(h)  M == Len(p)  N == Passes(h, p)
<1>1. L \in Nat /\ M \in Nat /\ N \in Nat
  BY DEF Passes
<1>2. PICK at : Runs(h, p, N, at) /\ LastPass(h, p) = at[N]
  BY <1>1, LastPassRuns
<1>3. \A n \in 0 .. N : at[n] = IF n = 0 THEN At(1, 1, 0, 0) ELSE Pass(h, p, at[n - 1])
  BY <1>2 DEF Runs
<1> DEFINE Goes(n) == LoopInv(h, p, at[n]) /\ (Over(h, at[n]) \/ Height(h, at[n]) >= n + 1)
           T == {n \in Nat : n <= N => Goes(n)}
<1>4. 0 \in T
  <2>1. at[0] = At(1, 1, 0, 0)
    BY <1>1, <1>3
  <2>2. At(1, 1, 0, 0) \in Loop(h, p)
    BY <1>1 DEF At, Loop
  <2>3. /\ At(1, 1, 0, 0).hi = 1 /\ At(1, 1, 0, 0).pi = 1 /\ At(1, 1, 0, 0).star = 0
        /\ At(1, 1, 0, 0).starHi = 0 /\ ~ At(1, 1, 0, 0).lost
    BY DEF At
  <2>4. LoopInv(h, p, At(1, 1, 0, 0))
    BY <2>2, <2>3 DEF LoopInv, Fits
  <2>5. Height(h, At(1, 1, 0, 0)) >= 0 + 1
    BY <1>1, <2>3 DEF Height
  <2> QED
    BY <2>1, <2>4, <2>5
<1>5. ASSUME NEW n \in Nat, n \in T PROVE n + 1 \in T
  <2> SUFFICES ASSUME n + 1 <= N PROVE Goes(n + 1)
    OBVIOUS
  <2>1. Goes(n)
    BY <1>1, <1>5
  <2>2. at[n + 1] = Pass(h, p, at[n])
    BY <1>1, <1>3
  <2>3. /\ LoopInv(h, p, at[n + 1])
        /\ Over(h, at[n + 1]) \/ Height(h, at[n + 1]) >= Height(h, at[n]) + 1
    BY <2>1, <2>2, PassKeeps
  <2>4. CASE Over(h, at[n])
    <3>1. at[n + 1] = at[n]
      BY <2>2, <2>4 DEF Pass
    <3> QED
      BY <2>3, <2>4, <3>1
  <2>5. CASE ~ Over(h, at[n])
    <3>1. Height(h, at[n]) \in Nat /\ Height(h, at[n]) >= n + 1
      BY <2>1, <2>5, HeightBound
    <3>2. Over(h, at[n + 1]) \/ (Height(h, at[n + 1]) \in Nat /\ Height(h, at[n + 1]) >= Height(h, at[n]) + 1)
      BY <2>3, HeightBound
    <3>3. Over(h, at[n + 1]) \/ Height(h, at[n + 1]) >= (n + 1) + 1
      BY <3>1, <3>2
    <3> QED
      BY <2>3, <3>3
  <2> QED
    BY <2>4, <2>5
<1>6. Goes(N)
  <2>1. T \in SUBSET Nat
    OBVIOUS
  <2> HIDE DEF Goes
  <2>2. T = Nat
    <3> HIDE DEF T
    <3> QED
      BY <1>4, <1>5, <2>1, Downwards
  <2> QED
    BY <1>1, <2>2
<1> DEFINE s == LastPass(h, p)
<1>7. LoopInv(h, p, s) /\ Over(h, s)
  <2>1. LoopInv(h, p, s) /\ (Over(h, s) \/ Height(h, s) >= N + 1)
    BY <1>2, <1>6
  <2>2. ASSUME ~ Over(h, s) PROVE FALSE
    <3>1. Height(h, s) \in Nat /\ Height(h, s) < N
      BY <2>1, <2>2, HeightBound
    <3> QED
      BY <1>1, <2>1, <2>2, <3>1
  <2> QED
    BY <2>1, <2>2
<1>8. Glob(h, p) <=> ~ s.lost /\ s.hi > L /\ \A i \in s.pi .. M : p[i] = "*"
  BY DEF Glob
<1> HIDE DEF s
<1>9. CASE s.lost
  BY <1>7, <1>8, <1>9 DEF LoopInv
<1>10. CASE ~ s.lost
  <2>1. s.hi = L + 1 /\ s.hi > L /\ s.pi \in 1 .. M + 1 /\ s.star \in 0 .. M /\ s.starHi \in 0 .. L + 1
    BY <1>1, <1>7, <1>10 DEF LoopInv, Loop, Over
  <2>2. Glob(h, p) <=> FitsFrom(h, p, s.hi, s.pi)
    BY <1>8, <1>10, <2>1, NothingFitsStars
  <2>3. CASE s.star = 0
    BY <1>7, <1>10, <2>2, <2>3 DEF LoopInv
  <2>4. CASE s.star # 0
    <3>1. WithStar(h, p, s)
      BY <1>7, <1>10, <2>4 DEF LoopInv
    <3>2. s.star < s.pi /\ s.hi = s.starHi + Since(s) /\ s.starHi >= 1
      BY <3>1 DEF WithStar
    <3>3. s.star \in Int /\ s.pi \in Int /\ s.hi \in Int /\ s.starHi \in Int
      BY <1>1, <2>1
    <3>4. Since(s) \in Nat
      BY ONLY <3>2, <3>3 DEF Since
    <3>5. ASSUME FitsFrom(h, p, s.hi, s.pi) PROVE Fits(h, p)
      <4>1. AfterStar(h, p, s, s.starHi) /\ s.starHi \in s.starHi .. L + 1
        BY <1>1, <2>1, <3>1, <3>5 DEF WithStar
      <4> QED
        BY <3>1, <4>1 DEF WithStar
    <3>6. ASSUME Fits(h, p) PROVE FitsFrom(h, p, s.hi, s.pi)
      <4>1. PICK k \in s.starHi .. L + 1 : AfterStar(h, p, s, k)
        BY <3>1, <3>6 DEF WithStar
      <4>2. k + Since(s) <= L + 1 /\ FitsFrom(h, p, k + Since(s), s.pi)
        BY <3>1, <4>1 DEF WithStar
      <4>3. k \in Int /\ k >= s.starHi
        BY <2>1
      <4>4. k + Since(s) = s.hi
        BY <1>1, <2>1, <3>2, <3>3, <3>4, <4>2, <4>3
      <4> QED
        BY <4>2, <4>4
    <3> QED
      BY <2>2, <3>5, <3>6
  <2> QED
    BY <2>3, <2>4
<1> QED
  BY <1>9, <1>10

-----------------------------------------------------------------------------
(* Groups, rules and the access list: what a condition compares is of no   *)
(* consequence (Test stays as it is), but what it is asked about.          *)

LEMMA RetainFirst ==
    ASSUME NEW T, NEW list \in Seq(T), NEW S
    PROVE  /\ Retain(list, S) # <<>> => Retain(list, S)[1] \in S
           /\ (\E x \in ToSet(list) : x \in S) => Retain(list, S) # <<>>
<1> DEFINE r == Retain(list, S)
<1>1. r \in Seq(T)
  BY RetainPicks
<1>2. PICK g : Picks(g, r, list, S, Len(list))
  BY RetainPicks
<1> HIDE DEF r
<1>3. ASSUME r # <<>> PROVE r[1] \in S
  <2>1. 1 \in 1 .. Len(r)
    BY <1>1, <1>3
  <2> QED
    BY <1>2, <2>1 DEF Picks
<1>4. ASSUME NEW x \in ToSet(list), x \in S PROVE r # <<>>
  <2>1. PICK k \in 1 .. Len(list) : list[k] = x
    BY DEF ToSet
  <2>2. \E i \in 1 .. Len(r) : g[i] = k
    BY <1>2, <1>4, <2>1 DEF Picks
  <2> QED
    BY <2>2
<1> QED
  BY <1>3, <1>4 DEF r

(* Two targets that a condition cannot tell apart.                         *)
Alike(t, u, fields) ==
    /\ "rcpt" \in fields => t.rcpt = u.rcpt
    /\ "header" \in fields => t.headers = u.headers
    /\ \A f \in fields : f \notin {"rcpt", "header"} => t[f] = u[f]

LEMMA HoldsAlike ==
    ASSUME NEW c, NEW t, NEW u, NEW fields, c.field \in fields, Alike(t, u, fields)
    PROVE  Holds(c, t) <=> Holds(c, u)
<1>1. CASE c.field = "rcpt"
  <2>1. t.rcpt = u.rcpt
    BY <1>1 DEF Alike
  <2> QED
    BY <1>1, <2>1 DEF Holds
<1>2. CASE c.field = "header"
  <2>1. t.headers = u.headers
    BY <1>2 DEF Alike
  <2>2. Extract(c, t) = Extract(c, u)
    BY <1>2, <2>1 DEF Extract
  <2> QED
    BY <1>2, <2>2 DEF Holds
<1>3. CASE c.field \notin {"rcpt", "header"}
  <2>1. Extract(c, t) = Extract(c, u)
    BY <1>3 DEF Extract, Alike
  <2> QED
    BY <1>3, <2>1 DEF Holds
<1> QED
  BY <1>1, <1>2, <1>3

LEMMA MatchesAlike ==
    ASSUME NEW m, NEW t, NEW u, NEW fields, \A c \in ToSet(m.conditions) : c.field \in fields,
           Alike(t, u, fields)
    PROVE  Matches(m, t) <=> Matches(m, u)
<1>1. \A c \in ToSet(m.conditions) : Holds(c, t) <=> Holds(c, u)
  BY HoldsAlike
<1> QED
  BY <1>1 DEF Matches

LEMMA ClassifyAlike ==
    ASSUME NEW groups, NEW t, NEW u,
           \A g \in ToSet(groups) : g.enabled => (Matches(g.matcher, t) <=> Matches(g.matcher, u))
    PROVE  Classify(groups, t) = Classify(groups, u)
<1> DEFINE Fit(v) == {g \in ToSet(groups) : g.enabled /\ ~ Unconditional(g.matcher) /\ Matches(g.matcher, v)}
<1>1. Fit(t) = Fit(u)
  OBVIOUS
<1> QED
  BY <1>1 DEF Classify

LEMMA AskedFields ==
    ASSUME NEW matchers, NEW m \in matchers, NEW fields, ~ Asks(matchers, fields),
           \A c \in ToSet(m.conditions) : c.field \in Field
    PROVE  \A c \in ToSet(m.conditions) : c.field \in Field \ fields
  BY DEF Asks

-----------------------------------------------------------------------------
(* What the preview keeps.                                                 *)

(* Characters that are told apart.                                         *)
LEMMA Characters ==
    /\ Space \in White /\ LineEnd \in White /\ "~" \notin White
    /\ \A c : Small(c) \in White <=> c \in White
    /\ Small(Space) = Space
<1>1. /\ "~" # " " /\ "~" # "\n" /\ "a" # " " /\ "a" # "\n" /\ "b" # " " /\ "b" # "\n"
      /\ "A" # " " /\ "A" # "\n" /\ "B" # " " /\ "B" # "\n"
  BY Zenon
<1>2. "~" \notin White /\ "a" \notin White /\ "b" \notin White /\ "A" \notin White /\ "B" \notin White
  BY <1>1, Zenon DEF White, Space, LineEnd
<1>3. Space # "A" /\ Space # "B"
  BY <1>1, Zenon DEF Space
<1>4. Space \in White /\ LineEnd \in White
  BY Zenon DEF White
<1>5. ASSUME NEW c PROVE Small(c) \in White <=> c \in White
  <2>1. CASE c = "A"
    BY <1>2, <2>1 DEF Small
  <2>2. CASE c = "B"
    BY <1>2, <2>2 DEF Small
  <2>3. CASE c # "A" /\ c # "B"
    BY <2>3 DEF Small
  <2> QED
    BY <2>1, <2>2, <2>3
<1>6. Small(Space) = Space
  BY <1>3 DEF Small
<1> QED
  BY <1>2, <1>4, <1>5, <1>6

(* at are the places of the text that are in S, in their order.            *)
PlacesOf(at, S) ==
    /\ at \in Seq(Nat)
    /\ \A i \in 1 .. Len(at) : at[i] \in S
    /\ \A i, j \in 1 .. Len(at) : i < j => at[i] < at[j]
    /\ \A k \in S : \E i \in 1 .. Len(at) : at[i] = k

LEMMA RetainedPlaces ==
    ASSUME NEW text, Len(text) \in Nat, DOMAIN text = 1 .. Len(text),
           NEW S \in SUBSET (1 .. Len(text))
    PROVE  /\ PlacesOf(Retain([i \in DOMAIN text |-> i], S), S)
           /\ Len(Retain([i \in DOMAIN text |-> i], S)) <= Len(text)
<1> DEFINE L   == Len(text)
           all == [i \in DOMAIN text |-> i]
           at  == Retain(all, S)
<1>1. all \in Seq(Nat) /\ Len(all) = L /\ \A i \in 1 .. L : all[i] = i
  OBVIOUS
<1> HIDE DEF all
<1>2. at \in Seq(Nat) /\ Len(at) <= L
  BY <1>1, RetainPicks
<1>3. PICK g : Picks(g, at, all, S, L)
  BY <1>1, RetainPicks
<1> HIDE DEF at
<1>4. /\ \A i \in 1 .. Len(at) : g[i] \in 1 .. L /\ at[i] = all[g[i]] /\ all[g[i]] \in S
      /\ \A i, j \in 1 .. Len(at) : i < j => g[i] < g[j]
      /\ \A k \in 1 .. L : all[k] \in S => \E i \in 1 .. Len(at) : g[i] = k
  BY <1>3 DEF Picks
<1>5. \A i \in 1 .. Len(at) : at[i] = g[i] /\ at[i] \in S
  BY <1>1, <1>4
<1>6. \A i, j \in 1 .. Len(at) : i < j => at[i] < at[j]
  BY <1>4, <1>5
<1>7. ASSUME NEW k \in S PROVE \E i \in 1 .. Len(at) : at[i] = k
  BY <1>1, <1>4, <1>5
<1>8. PlacesOf(at, S)
  BY <1>2, <1>5, <1>6, <1>7 DEF PlacesOf
<1> QED
  BY <1>2, <1>8 DEF at, all

Letters == STRING \cup White \cup {"a", "b"}

KeptPlaces(text) == Retain([i \in DOMAIN text |-> i], Kept(text) \cup Joints(text))

LEMMA OneLineShape ==
    ASSUME NEW text \in Seq(STRING)
    PROVE  /\ PlacesOf(KeptPlaces(text), Kept(text) \cup Joints(text))
           /\ Len(KeptPlaces(text)) <= Len(text)
           /\ OneLine(text) \in Seq(Letters)
           /\ Len(OneLine(text)) = Len(KeptPlaces(text))
           /\ \A n \in 1 .. Len(KeptPlaces(text)) :
                 OneLine(text)[n] = IF KeptPlaces(text)[n] \in Kept(text) THEN text[KeptPlaces(text)[n]]
                                    ELSE Space
<1> DEFINE at == KeptPlaces(text)  S == Kept(text) \cup Joints(text)
<1>1. Len(text) \in Nat /\ DOMAIN text = 1 .. Len(text) /\ \A i \in 1 .. Len(text) : text[i] \in STRING
  OBVIOUS
<1>2. S \in SUBSET (1 .. Len(text)) /\ Kept(text) \subseteq 1 .. Len(text)
  BY <1>1 DEF Kept, Joints
<1>3. PlacesOf(at, S) /\ Len(at) <= Len(text)
  BY <1>1, <1>2, RetainedPlaces DEF KeptPlaces
<1>4. Len(at) \in Nat /\ DOMAIN at = 1 .. Len(at)
  BY <1>3 DEF PlacesOf
<1>5. OneLine(text) = [n \in 1 .. Len(at) |-> IF at[n] \in Kept(text) THEN text[at[n]] ELSE Space]
  BY <1>4 DEF OneLine, KeptPlaces
<1>6. Space \in Letters /\ STRING \subseteq Letters
  BY Characters DEF Letters
<1> HIDE DEF at
<1>7. \A n \in 1 .. Len(at) : (IF at[n] \in Kept(text) THEN text[at[n]] ELSE Space) \in Letters
  BY <1>1, <1>2, <1>6
<1>8. OneLine(text) \in Seq(Letters) /\ Len(OneLine(text)) = Len(at)
  BY <1>4, <1>5, <1>7
<1>9. \A n \in 1 .. Len(at) : OneLine(text)[n] = IF at[n] \in Kept(text) THEN text[at[n]] ELSE Space
  BY <1>5
<1> QED
  BY <1>3, <1>8, <1>9 DEF at

(* A character that is not white is kept.                                  *)
LEMMA NotWhiteIsKept ==
    ASSUME NEW text \in Seq(STRING), NEW i \in 1 .. Len(text), text[i] \notin White
    PROVE  i \in Kept(text)
<1>1. DOMAIN text = 1 .. Len(text) /\ i \in i .. i /\ \A k \in i .. i : k = i
  OBVIOUS
<1>2. text[i] # LineEnd
  BY Characters
<1> QED
  BY <1>1, <1>2 DEF Kept

LEMMA BlankPreview ==
    ASSUME NEW text \in Seq(STRING), PreviewChars \in Nat
    PROVE  Blank(Preview(text)) <=> Blank(text)
<1> DEFINE at == KeptPlaces(text)  one == OneLine(text)  L == Len(text)  K == Len(at)
<1>1. /\ PlacesOf(at, Kept(text) \cup Joints(text)) /\ one \in Seq(Letters) /\ Len(one) = K
      /\ \A n \in 1 .. K : one[n] = IF at[n] \in Kept(text) THEN text[at[n]] ELSE Space
  BY OneLineShape
<1>2. L \in Nat /\ DOMAIN text = 1 .. L /\ DOMAIN one = 1 .. K /\ K \in Nat
  BY <1>1
<1> HIDE DEF at, one
<1>3. ASSUME Blank(text) PROVE Blank(Preview(text))
  <2>1. \A i \in 1 .. L : text[i] \in White
    BY <1>2, <1>3 DEF Blank, ToSet
  <2>2. Kept(text) = {}
    BY <1>2, <2>1 DEF Kept
  <2>3. Joints(text) = {}
    BY <2>2 DEF Joints
  <2>4. K = 0
    BY <1>1, <1>2, <2>2, <2>3 DEF PlacesOf
  <2>5. Preview(text) = one /\ DOMAIN one = 1 .. 0
    BY <1>2, <1>1, <2>4 DEF Preview, one
  <2>6. ToSet(one) = {}
    BY <2>5 DEF ToSet
  <2> QED
    BY <2>5, <2>6 DEF Blank
<1>4. ASSUME ~ Blank(text) PROVE ~ Blank(Preview(text))
  <2>1. PICK i \in 1 .. L : text[i] \notin White
    BY <1>2, <1>4 DEF Blank, ToSet
  <2>2. i \in Kept(text)
    BY <2>1, NotWhiteIsKept
  <2>3. PICK n \in 1 .. K : at[n] = i
    BY <1>1, <2>2 DEF PlacesOf
  <2>4. one[n] = text[i] /\ n \in DOMAIN one
    BY <1>1, <1>2, <2>2, <2>3
  <2>5. one[n] \in ToSet(one)
    BY <2>4 DEF ToSet
  <2>6. CASE Len(one) <= PreviewChars
    <3>1. Preview(text) = one
      BY <2>6 DEF Preview, one
    <3> QED
      BY <2>1, <2>4, <2>5, <3>1 DEF Blank
  <2>7. CASE ~ (Len(one) <= PreviewChars)
    <3> DEFINE cut == SubSeq(one, 1, PreviewChars)
    <3>1. Preview(text) = Append(cut, "~")
      BY <2>7 DEF Preview, one
    <3>2. cut \in Seq(Letters) /\ Len(cut) \in Nat
      BY <1>1, <1>2, <2>7
    <3> HIDE DEF cut
    <3>3. Len(cut) + 1 \in DOMAIN Append(cut, "~") /\ Append(cut, "~")[Len(cut) + 1] = "~"
      BY <3>2
    <3>4. "~" \in ToSet(Append(cut, "~"))
      BY <3>3 DEF ToSet
    <3> QED
      BY <3>1, <3>4, Characters DEF Blank
  <2> QED
    BY <2>6, <2>7
<1> QED
  BY <1>3, <1>4

(* All places, in their order, are the numbers.                            *)
LEMMA AllPlaces ==
    ASSUME NEW L \in Nat, NEW at, PlacesOf(at, 1 .. L), Len(at) <= L
    PROVE  Len(at) = L /\ \A n \in 1 .. L : at[n] = n
<1>1. Len(at) \in Nat /\ \A i \in 1 .. Len(at) : at[i] \in Nat
  BY DEF PlacesOf
<1> DEFINE T == {n \in Nat : n <= L => (n <= Len(at) /\ (n >= 1 => at[n] = n))}
<1>2. 0 \in T
  BY <1>1
<1>3. ASSUME NEW n \in Nat, n \in T PROVE n + 1 \in T
  <2> SUFFICES ASSUME n + 1 <= L PROVE n + 1 <= Len(at) /\ at[n + 1] = n + 1
    OBVIOUS
  <2>1. n <= Len(at) /\ (n >= 1 => at[n] = n)
    BY <1>3
  <2>2. PICK i \in 1 .. Len(at) : at[i] = n + 1
    <3>1. n + 1 \in 1 .. L
      OBVIOUS
    <3> QED
      BY <3>1 DEF PlacesOf
  <2>3. i > n
    <3> SUFFICES ASSUME i <= n PROVE FALSE
      OBVIOUS
    <3>1. n \in 1 .. Len(at) /\ at[n] = n
      BY <1>1, <2>1
    <3>2. i < n => at[i] < at[n]
      BY <3>1 DEF PlacesOf
    <3> QED
      BY <1>1, <2>2, <3>1, <3>2
  <2>4. n + 1 \in 1 .. Len(at)
    BY <1>1, <2>3
  <2>5. i = n + 1
    <3> SUFFICES ASSUME i > n + 1 PROVE FALSE
      BY <2>3
    <3>1. at[n + 1] < n + 1 /\ at[n + 1] \in 1 .. L
      BY <2>2, <2>4 DEF PlacesOf
    <3>2. n >= 1 => at[n] < at[n + 1]
      BY <2>1, <2>4 DEF PlacesOf
    <3> QED
      BY <2>1, <3>1, <3>2
  <2> QED
    BY <2>2, <2>4, <2>5
<1>4. T = Nat
  <2> HIDE DEF T
  <2>1. T \in SUBSET Nat
    BY DEF T
  <2> QED
    BY <1>2, <1>3, <2>1, Downwards
<1> QED
  BY <1>1, <1>4

(* A plain text that fits is its own preview.                              *)
LEMMA PlainPreview ==
    ASSUME NEW text \in Seq(STRING), PreviewChars \in Nat, Plain(text), Len(text) <= PreviewChars
    PROVE  Preview(text) = text
<1> DEFINE at == KeptPlaces(text)  one == OneLine(text)  L == Len(text)
<1>1. /\ PlacesOf(at, Kept(text) \cup Joints(text)) /\ Len(at) <= L
      /\ one \in Seq(Letters) /\ Len(one) = Len(at)
      /\ \A n \in 1 .. Len(at) : one[n] = IF at[n] \in Kept(text) THEN text[at[n]] ELSE Space
  BY OneLineShape
<1>2. L \in Nat /\ DOMAIN text = 1 .. L
  OBVIOUS
<1> HIDE DEF at, one
<1>3. Kept(text) = 1 .. L
  <2>1. Kept(text) \subseteq 1 .. L
    BY <1>2 DEF Kept
  <2>2. ASSUME NEW i \in 1 .. L PROVE i \in Kept(text)
    <3>1. L # 0 /\ text # <<>>
      BY <1>2
    <3>2. text[1] \notin White /\ text[L] \notin White /\ LineEnd \notin ToSet(text)
      BY <3>1 DEF Plain
    <3>3. 1 \in DOMAIN text /\ L \in DOMAIN text /\ 1 <= i /\ i <= L
      BY <1>2, <3>1
    <3>4. \A k \in 1 .. L : text[k] # LineEnd
      BY <1>2, <3>2 DEF ToSet
    <3> QED
      BY <1>2, <3>2, <3>3, <3>4 DEF Kept
  <2> QED
    BY <2>1, <2>2
<1>4. Joints(text) = {}
  BY <1>2, <1>3 DEF Joints
<1>5. PlacesOf(at, 1 .. L)
  <2>1. Kept(text) \cup Joints(text) = 1 .. L
    BY <1>3, <1>4
  <2> QED
    BY <1>1, <2>1
<1>6. Len(at) = L /\ \A n \in 1 .. L : at[n] = n
  BY <1>1, <1>2, <1>5, AllPlaces
<1>7. Len(one) = L /\ \A n \in 1 .. L : one[n] = text[n]
  BY <1>1, <1>3, <1>6
<1>8. one = text
  BY <1>1, <1>2, <1>7
<1> QED
  BY <1>1, <1>2, <1>6, <1>8 DEF Preview, one

-----------------------------------------------------------------------------
(* A word is where the text has it, and nowhere else.                      *)

LEMMA WithinMeans ==
    ASSUME NEW h \in Seq(Letters), NEW n \in Seq(Letters)
    PROVE  Within(h, n) <=> \E i \in 0 .. Len(h) - Len(n) : \A j \in 1 .. Len(n) : h[i + j] = n[j]
<1>1. Len(h) \in Nat /\ Len(n) \in Nat
  OBVIOUS
<1>2. ASSUME NEW i \in 0 .. Len(h) - Len(n)
      PROVE  SubSeq(h, i + 1, i + Len(n)) = n <=> \A j \in 1 .. Len(n) : h[i + j] = n[j]
  <2> DEFINE s == SubSeq(h, i + 1, i + Len(n))
  <2>1. s \in Seq(Letters) /\ Len(s) = Len(n) /\ \A j \in 1 .. Len(n) : s[j] = h[i + j]
    BY <1>1, <1>2
  <2> HIDE DEF s
  <2>2. s = n <=> \A j \in 1 .. Len(n) : s[j] = n[j]
    <3>1. ASSUME \A j \in 1 .. Len(n) : s[j] = n[j] PROVE s = n
      BY <2>1, <3>1
    <3>2. (s = n) \in BOOLEAN
      OBVIOUS
    <3> QED
      BY <3>1
  <2>3. s = n <=> \A j \in 1 .. Len(n) : h[i + j] = n[j]
    BY <2>1, <2>2
  <2> QED
    BY <2>3 DEF s
<1> QED
  BY <1>2 DEF Within

(* Between two kept places that follow on each other lies nothing.         *)
LEMMA KeptTogether ==
    ASSUME NEW text \in Seq(STRING), NEW i \in Nat, i \in 1 .. Len(KeptPlaces(text)),
           i + 1 \in 1 .. Len(KeptPlaces(text)),
           KeptPlaces(text)[i] \in Kept(text), KeptPlaces(text)[i + 1] \in Kept(text)
    PROVE  KeptPlaces(text)[i + 1] = KeptPlaces(text)[i] + 1
<1> DEFINE at == KeptPlaces(text)  p == at[i]  q == at[i + 1]
<1>1. PlacesOf(at, Kept(text) \cup Joints(text)) /\ DOMAIN text = 1 .. Len(text)
  BY OneLineShape
<1>0. i \in 1 .. Len(at) /\ i + 1 \in 1 .. Len(at) /\ p \in Kept(text) /\ q \in Kept(text)
  OBVIOUS
<1> SUFFICES ASSUME q # p + 1 PROVE FALSE
  OBVIOUS
<1> HIDE DEF at
<1>2. p \in Nat /\ q \in Nat /\ p < q
  <2>1. /\ at \in Seq(Nat)
        /\ \A a, b \in 1 .. Len(at) : a < b => at[a] < at[b]
    BY <1>1 DEF PlacesOf
  <2>2. i < i + 1
    OBVIOUS
  <2>3. p < q
    BY <1>0, <2>1, <2>2
  <2> QED
    BY <1>0, <2>1, <2>3
<1>3. p \in 1 .. Len(text) /\ q \in 1 .. Len(text)
  BY <1>0, <1>1 DEF Kept
<1>4. q - 1 \in 1 .. Len(text) /\ p < q - 1 /\ q - 1 < q /\ (q - 1) + 1 = q
  <2>1. Len(text) \in Nat
    OBVIOUS
  <2> HIDE DEF p, q
  <2> QED
    BY <1>2, <1>3, <2>1
<1>5. q - 1 \in Kept(text) \cup Joints(text)
  <2> HIDE DEF p, q
  <2> QED
    BY <1>0, <1>1, <1>4 DEF Joints
<1>6. PICK k \in 1 .. Len(at) : at[k] = q - 1
  BY <1>1, <1>5 DEF PlacesOf
<1>7. \A a, b \in 1 .. Len(at) : a < b => at[a] < at[b]
  BY <1>1 DEF PlacesOf
<1>8. Len(at) \in Nat
  BY <1>1 DEF PlacesOf
<1>9. k # i /\ k # i + 1
  BY <1>2, <1>4, <1>6
<1>10. ~ (k < i)
  BY <1>0, <1>2, <1>4, <1>6, <1>7
<1>11. ~ (i + 1 < k)
  BY <1>0, <1>2, <1>4, <1>6, <1>7
<1> QED
  BY <1>8, <1>9, <1>10, <1>11

(* h is the text as it is compared, k what is compared of its preview.     *)
Shortened(text, h, k) ==
    /\ h \in Seq(Letters) /\ k \in Seq(Letters)
    /\ Len(h) = Len(text) /\ Len(k) = Len(KeptPlaces(text))
    /\ \A i \in 1 .. Len(text) : h[i] \in White <=> text[i] \in White
    /\ \A i \in 1 .. Len(k) : k[i] = IF KeptPlaces(text)[i] \in Kept(text) THEN h[KeptPlaces(text)[i]]
                                     ELSE Space

LEMMA WordInPreview ==
    ASSUME NEW text \in Seq(STRING), NEW h, NEW k, Shortened(text, h, k),
           NEW n \in Seq(Letters), \A j \in 1 .. Len(n) : n[j] \notin White, Within(k, n)
    PROVE  Within(h, n)
<1> DEFINE at == KeptPlaces(text)  M == Len(n)  L == Len(text)  K == Len(at)
<1>1. PlacesOf(at, Kept(text) \cup Joints(text)) /\ Kept(text) \subseteq 1 .. L
  BY OneLineShape DEF Kept
<1>2. K \in Nat /\ L \in Nat /\ M \in Nat
  BY <1>1 DEF PlacesOf
<1>3. PICK i \in 0 .. K - M : \A j \in 1 .. M : k[i + j] = n[j]
  <2>1. k \in Seq(Letters) /\ Len(k) = K
    BY DEF Shortened
  <2>2. \E i \in 0 .. Len(k) - Len(n) : \A j \in 1 .. Len(n) : k[i + j] = n[j]
    <3>1. Within(k, n) <=> \E i \in 0 .. Len(k) - Len(n) : \A j \in 1 .. Len(n) : k[i + j] = n[j]
      BY <2>1, WithinMeans
    <3> QED
      BY <3>1
  <2> HIDE DEF at
  <2> QED
    BY <2>1, <2>2
<1>4. ASSUME NEW j \in 1 .. M PROVE i + j \in 1 .. K /\ at[i + j] \in Kept(text) /\ h[at[i + j]] = n[j]
  <2>1. i + j \in 1 .. K
    BY <1>2, <1>3
  <2>2. k[i + j] = n[j] /\ n[j] \notin White
    BY <1>3
  <2>3. k[i + j] = IF at[i + j] \in Kept(text) THEN h[at[i + j]] ELSE Space
    BY <2>1 DEF Shortened
  <2> QED
    BY <2>1, <2>2, <2>3, Characters
<1> HIDE DEF at
<1>5. CASE M = 0
  <2>1. 0 \in 0 .. L - M /\ \A j \in 1 .. M : h[0 + j] = n[j]
    BY <1>2, <1>5
  <2>2. 0 \in 0 .. Len(h) - Len(n)
    BY <2>1 DEF Shortened
  <2> QED
    BY <2>1, <2>2, WithinMeans DEF Shortened
<1>6. CASE M # 0
  <2> DEFINE d == at[i + 1] - 1
             T == {m \in Nat : m < M => at[i + (m + 1)] = d + (m + 1)}
  <2>1. 1 \in 1 .. M /\ at[i + 1] \in 1 .. L /\ i \in Nat
    BY <1>1, <1>2, <1>3, <1>4, <1>6
  <2>2. 0 \in T
    BY <2>1
  <2>3. ASSUME NEW m \in Nat, m \in T PROVE m + 1 \in T
    <3> SUFFICES ASSUME m + 1 < M PROVE at[i + ((m + 1) + 1)] = d + ((m + 1) + 1)
      OBVIOUS
    <3>1. at[i + (m + 1)] = d + (m + 1)
      BY <1>2, <2>3
    <3>2. m + 1 \in 1 .. M /\ m + 2 \in 1 .. M /\ i + (m + 2) = (i + (m + 1)) + 1 /\ i + (m + 1) \in Nat
      BY <1>2, <2>1
    <3>3. at[(i + (m + 1)) + 1] = at[i + (m + 1)] + 1
      <4>1. i + (m + 1) \in 1 .. K /\ at[i + (m + 1)] \in Kept(text)
        BY <1>4, <3>2
      <4>2. (i + (m + 1)) + 1 \in 1 .. K /\ at[(i + (m + 1)) + 1] \in Kept(text)
        BY <1>4, <3>2
      <4> QED
        BY <3>2, <4>1, <4>2, KeptTogether DEF at
    <3>4. i + ((m + 1) + 1) = (i + (m + 1)) + 1
      BY <2>1
    <3>5. at[i + ((m + 1) + 1)] = (d + (m + 1)) + 1
      BY <3>1, <3>3, <3>4
    <3>6. d \in Int
      BY <2>1
    <3> HIDE DEF d
    <3> QED
      BY <3>5, <3>6
  <2>4. T = Nat
    <3> HIDE DEF T
    <3>1. T \in SUBSET Nat
      BY DEF T
    <3> QED
      BY <2>2, <2>3, <3>1, Downwards
  <2>5. ASSUME NEW j \in 1 .. M PROVE at[i + j] = d + j /\ h[d + j] = n[j] /\ d + j \in 1 .. L
    <3>1. j - 1 \in Nat /\ j - 1 < M /\ (j - 1) + 1 = j
      BY <1>2
    <3>2. at[i + j] = d + j
      BY <2>4, <3>1
    <3> QED
      BY <1>1, <1>4, <3>2
  <2>6. d \in 0 .. L - M
    <3>1. d + M \in 1 .. L
      BY <1>2, <1>6, <2>5
    <3> QED
      BY <1>2, <2>1, <3>1
  <2>7. d \in 0 .. Len(h) - Len(n)
    BY <2>6 DEF Shortened
  <2> HIDE DEF d
  <2> QED
    BY <2>5, <2>7, WithinMeans DEF Shortened
<1> QED
  BY <1>5, <1>6

LEMMA WordInText ==
    ASSUME NEW text \in Seq(STRING), NEW h, NEW k, Shortened(text, h, k),
           NEW n \in Seq(Letters), \A j \in 1 .. Len(n) : n[j] \notin White, Within(h, n)
    PROVE  Within(k, n)
<1> DEFINE at == KeptPlaces(text)  M == Len(n)  L == Len(text)  K == Len(at)
<1>1. PlacesOf(at, Kept(text) \cup Joints(text))
  BY OneLineShape
<1>2. K \in Nat /\ L \in Nat /\ M \in Nat /\ Len(h) = L /\ Len(k) = K
  BY <1>1 DEF PlacesOf, Shortened
<1>3. PICK d \in 0 .. L - M : \A j \in 1 .. M : h[d + j] = n[j]
  <2>1. h \in Seq(Letters) /\ Len(h) = L
    BY DEF Shortened
  <2>2. \E d \in 0 .. Len(h) - Len(n) : \A j \in 1 .. Len(n) : h[d + j] = n[j]
    <3>1. Within(h, n) <=> \E d \in 0 .. Len(h) - Len(n) : \A j \in 1 .. Len(n) : h[d + j] = n[j]
      BY <2>1, WithinMeans
    <3> QED
      BY <3>1
  <2> QED
    BY <2>1, <2>2
<1>4. ASSUME NEW j \in 1 .. M PROVE d + j \in Kept(text) /\ \E q \in 1 .. K : at[q] = d + j
  <2>1. d + j \in 1 .. L
    BY <1>2, <1>3
  <2>2. text[d + j] \notin White
    BY <1>3, <2>1 DEF Shortened
  <2>3. d + j \in Kept(text)
    BY <2>1, <2>2, NotWhiteIsKept
  <2> QED
    BY <1>1, <2>3 DEF PlacesOf
<1>5. \A a, b \in 1 .. K : a < b => at[a] < at[b]
  BY <1>1 DEF PlacesOf
<1> HIDE DEF at
<1>6. CASE M = 0
  <2>1. 0 \in 0 .. K - M /\ \A j \in 1 .. M : k[0 + j] = n[j]
    BY <1>2, <1>6
  <2>2. 0 \in 0 .. Len(k) - Len(n)
    BY <1>2, <2>1
  <2> QED
    BY <2>1, <2>2, WithinMeans DEF Shortened
<1>7. CASE M # 0
  <2>1. PICK s \in 1 .. K : at[s] = d + 1
    BY <1>2, <1>4, <1>7
  <2> DEFINE i == s - 1
             T == {m \in Nat : m < M => (i + (m + 1) <= K /\ at[i + (m + 1)] = d + (m + 1))}
  <2>2. i \in Nat /\ d \in Nat
    BY <1>2, <1>3, <2>1
  <2>3. 0 \in T
    BY <1>2, <2>1
  <2>4. ASSUME NEW m \in Nat, m \in T PROVE m + 1 \in T
    <3> SUFFICES ASSUME m + 1 < M
                 PROVE  i + ((m + 1) + 1) <= K /\ at[i + ((m + 1) + 1)] = d + ((m + 1) + 1)
      OBVIOUS
    <3> DEFINE u == i + (m + 1)
    <3>1. u \in 1 .. K /\ at[u] = d + (m + 1) /\ u + 1 = i + ((m + 1) + 1)
      BY <1>2, <2>2, <2>4
    <3>2. PICK q \in 1 .. K : at[q] = d + (m + 2)
      <4>1. m + 2 \in 1 .. M
        BY <1>2
      <4> QED
        BY <1>4, <4>1
    <3> HIDE DEF u
    <3>3. q > u
      BY <1>2, <1>5, <2>2, <3>1, <3>2
    <3>4. u + 1 \in 1 .. K
      BY <1>2, <3>1, <3>3
    <3>5. q = u + 1
      <4> SUFFICES ASSUME u + 1 < q PROVE FALSE
        BY <1>2, <3>1, <3>3
      <4>1. at[u] < at[u + 1] /\ at[u + 1] < at[q]
        BY <1>2, <1>5, <3>1, <3>4
      <4>2. at[u + 1] \in Nat
        BY <1>1, <3>4 DEF PlacesOf, at
      <4> QED
        BY <2>2, <3>1, <3>2, <4>1, <4>2
    <3> QED
      BY <1>2, <2>2, <3>1, <3>2, <3>4, <3>5
  <2>5. T = Nat
    <3> HIDE DEF T
    <3>1. T \in SUBSET Nat
      BY DEF T
    <3> QED
      BY <2>3, <2>4, <3>1, Downwards
  <2>6. ASSUME NEW j \in 1 .. M PROVE i + j \in 1 .. K /\ k[i + j] = n[j]
    <3>1. j - 1 \in Nat /\ j - 1 < M /\ (j - 1) + 1 = j
      BY <1>2
    <3>2. i + j <= K /\ at[i + j] = d + j
      BY <2>5, <3>1
    <3>3. i + j \in 1 .. K
      BY <1>2, <2>2, <3>2
    <3>4. k[i + j] = h[d + j]
      BY <1>2, <1>4, <3>2, <3>3 DEF Shortened, at
    <3> QED
      BY <1>3, <3>3, <3>4
  <2>7. i \in 0 .. Len(k) - Len(n)
    <3>1. i + M \in 1 .. K
      BY <1>2, <1>7, <2>6
    <3> QED
      BY <1>2, <2>2, <3>1
  <2> HIDE DEF i
  <2> QED
    BY <2>6, <2>7, WithinMeans DEF Shortened
<1> QED
  BY <1>6, <1>7

(* A condition on the body that can be answered from the preview is.       *)
LEMMA PreviewAnswers ==
    ASSUME NEW c, NEW text \in Seq(STRING), PreviewChars \in Nat, c.value \in Seq(STRING),
           c.field = "body", Answerable(c, text)
    PROVE  Test(c, Preview(text)) <=> Test(c, text)
<1>1. CASE c.op \in {"empty", "not_empty"}
  BY <1>1, BlankPreview DEF Test
<1>2. CASE Len(text) <= PreviewChars /\ Plain(text)
  BY <1>2, PlainPreview
<1>3. CASE /\ Len(text) <= PreviewChars /\ c.op \in {"contains", "not_contains"}
           /\ ToSet(c.value) \cap White = {}
  <2> DEFINE one == OneLine(text)  at == KeptPlaces(text)
             h == IF c.cs THEN text ELSE Lower(text)
             k == IF c.cs THEN one ELSE Lower(one)
             n == IF c.cs THEN c.value ELSE Lower(c.value)
  <2>1. /\ one \in Seq(Letters) /\ Len(one) = Len(at) /\ Len(at) <= Len(text)
        /\ PlacesOf(at, Kept(text) \cup Joints(text))
        /\ \A i \in 1 .. Len(at) : one[i] = IF at[i] \in Kept(text) THEN text[at[i]] ELSE Space
    BY OneLineShape
  <2>2. Preview(text) = one
    BY <1>3, <2>1 DEF Preview
  <2>3. Kept(text) \subseteq 1 .. Len(text)
    BY DEF Kept
  <2>0. text \in Seq(Letters) /\ c.value \in Seq(Letters)
    BY DEF Letters
  <2> HIDE DEF one, at
  <2>4. ASSUME NEW x \in Seq(Letters)
        PROVE  Lower(x) \in Seq(Letters) /\ Len(Lower(x)) = Len(x) /\ \A i \in 1 .. Len(x) : Lower(x)[i] = Small(x[i])
    <3>1. \A y \in Letters : Small(y) \in Letters
      BY DEF Small, Letters
    <3>2. Lower(x) = [i \in 1 .. Len(x) |-> Small(x[i])]
      BY DEF Lower
    <3>3. \A i \in 1 .. Len(x) : Small(x[i]) \in Letters
      BY <3>1
    <3> QED
      BY <3>2, <3>3
  <2>5. Shortened(text, h, k)
    <3>1. h \in Seq(Letters) /\ k \in Seq(Letters) /\ Len(h) = Len(text) /\ Len(k) = Len(at)
      BY <2>0, <2>1, <2>4
    <3>2. \A i \in 1 .. Len(text) : h[i] \in White <=> text[i] \in White
      BY <2>0, <2>4, Characters
    <3>3. ASSUME NEW i \in 1 .. Len(at) PROVE k[i] = IF at[i] \in Kept(text) THEN h[at[i]] ELSE Space
      BY <2>0, <2>1, <2>3, <2>4, Characters
    <3> QED
      BY <3>1, <3>2, <3>3 DEF Shortened, at
  <2>6. n \in Seq(Letters) /\ \A j \in 1 .. Len(n) : n[j] \notin White
    <3>1. \A j \in 1 .. Len(c.value) : c.value[j] \notin White
      BY <1>3 DEF ToSet
    <3> QED
      BY <2>0, <2>4, <3>1, Characters
  <2> HIDE DEF h, k, n
  <2>7. Within(k, n) <=> Within(h, n)
    BY <2>5, <2>6, WordInPreview, WordInText
  <2>8. CASE c.op = "contains"
    BY <2>2, <2>7, <2>8 DEF Test, h, k, n
  <2>9. CASE c.op = "not_contains"
    BY <2>2, <2>7, <2>9 DEF Test, h, k, n
  <2> QED
    BY <1>3, <2>8, <2>9
<1> QED
  BY <1>1, <1>2, <1>3 DEF Answerable

-----------------------------------------------------------------------------
(* The history sorted again.                                               *)

LEMMA HoldsAtRegroup ==
    ASSUME NEW c, NEW mail, PreviewChars \in Nat, mail.text \in Seq(STRING),
           c.value \in Seq(STRING), c.field \in Field, Answerable(c, mail.text)
    PROVE  Holds(c, AtRegroup(Meta(mail))) <=> Holds(c, AtIntake(mail))
<1> DEFINE t == AtRegroup(Meta(mail))  u == AtIntake(mail)  fields == Field \ {"header", "body"}
<1>1. /\ t.rcpt = u.rcpt /\ t.from = u.from /\ t.from_user = u.from_user
      /\ t.from_domain = u.from_domain /\ t.from_name = u.from_name /\ t.subject = u.subject
      /\ t.peer_ip = u.peer_ip /\ t.group = u.group /\ t.auth_user = u.auth_user
      /\ t.body = Preview(mail.text) /\ u.body = mail.text
  BY DEF AtRegroup, AtIntake, Meta
<1> HIDE DEF t, u
<1>2. c.field # "header"
  BY DEF Answerable
<1>3. CASE c.field = "body"
  <2>1. Extract(c, t) = Preview(mail.text) /\ Extract(c, u) = mail.text
    BY <1>1, <1>3 DEF Extract
  <2>2. Test(c, Preview(mail.text)) <=> Test(c, mail.text)
    BY <1>3, PreviewAnswers
  <2>3. Holds(c, t) = Test(c, Extract(c, t)) /\ Holds(c, u) = Test(c, Extract(c, u))
    BY <1>3 DEF Holds
  <2> QED
    BY <2>1, <2>2, <2>3 DEF t, u
<1>4. CASE c.field # "body"
  <2>1. Alike(t, u, fields)
    BY <1>1 DEF Alike, Field
  <2>2. c.field \in fields
    BY <1>2, <1>4
  <2> HIDE DEF fields
  <2> QED
    BY <2>1, <2>2, HoldsAlike DEF t, u
<1> QED
  BY <1>3, <1>4

(* A group that is in question has the fields that there are.              *)
LEMMA GroupStays ==
    ASSUME NEW groups, NEW mail, PreviewChars \in Nat, mail.text \in Seq(STRING),
           \A g \in ToSet(groups) : \A c \in ToSet(g.matcher.conditions) :
               c.field \in Field /\ c.value \in Seq(STRING)
    PROVE  StaysInGroup(groups, mail)
<1> SUFFICES ASSUME \A m \in MatchersOf(groups) : \A c \in ToSet(m.conditions) : Answerable(c, mail.text)
             PROVE  Classify(groups, AtRegroup(Meta(mail))) = Classify(groups, AtIntake(mail))
  BY DEF StaysInGroup
<1> DEFINE t == AtRegroup(Meta(mail))  u == AtIntake(mail)
<1>1. ASSUME NEW g \in ToSet(groups), g.enabled PROVE Matches(g.matcher, t) <=> Matches(g.matcher, u)
  <2>1. g.matcher \in MatchersOf(groups)
    BY <1>1 DEF MatchersOf
  <2>2. \A c \in ToSet(g.matcher.conditions) : Holds(c, t) <=> Holds(c, u)
    BY <2>1, HoldsAtRegroup
  <2> HIDE DEF t, u
  <2> QED
    BY <2>2 DEF Matches
<1> QED
  BY <1>1, ClassifyAlike

LEMMA RuleSeesTheSame ==
    ASSUME NEW m, NEW mail, \A c \in ToSet(m.conditions) : c.field \in Field
    PROVE  RuleAgrees(m, mail, <<>>)
<1> SUFFICES ASSUME ~ Asks({m}, {"rcpt", "header", "group"})
             PROVE  Matches(m, AtRules(mail, <<>>)) = Matches(m, AtIntake(mail))
  BY DEF RuleAgrees
<1> DEFINE t == AtRules(mail, <<>>)  u == AtIntake(mail)
           fields == Field \ {"rcpt", "header", "group"}
<1>1. \A c \in ToSet(m.conditions) : c.field \in fields
  BY AskedFields
<1>2. /\ t.from = u.from /\ t.from_user = u.from_user
      /\ t.from_domain = u.from_domain /\ t.from_name = u.from_name /\ t.subject = u.subject
      /\ t.peer_ip = u.peer_ip /\ t.auth_user = u.auth_user /\ t.body = u.body
  BY DEF AtRules, AtIntake
<1> HIDE DEF t, u
<1>3. Alike(t, u, fields)
  BY <1>2 DEF Alike, Field
<1>4. Matches(m, t) <=> Matches(m, u)
  BY <1>1, <1>3, MatchesAlike
<1>5. Matches(m, t) \in BOOLEAN /\ Matches(m, u) \in BOOLEAN
  BY DEF Matches
<1> QED
  BY <1>4, <1>5 DEF t, u

LEMMA CatchAllTakesTheRest ==
    ASSUME NEW groups, groups \in Seq(ToSet(groups)), NEW t,
           \A a, b \in ToSet(groups) : a.id = b.id => a = b
    PROVE  CatchAllIsLast(groups, t)
<1> SUFFICES ASSUME NEW g \in ToSet(groups), g.id = Classify(groups, t), Unconditional(g.matcher),
                    NEW o \in ToSet(groups), o.enabled, ~ Unconditional(o.matcher),
                    Matches(o.matcher, t)
             PROVE  FALSE
  BY DEF CatchAllIsLast
<1> DEFINE S   == {x \in ToSet(groups) : x.enabled /\ ~ Unconditional(x.matcher) /\ Matches(x.matcher, t)}
           fit == Retain(groups, S)
<1>1. o \in S
  OBVIOUS
<1>2. fit # <<>> /\ fit[1] \in S
  BY <1>1, RetainFirst
<1>3. Classify(groups, t) = fit[1].id
  BY <1>2 DEF Classify
<1> HIDE DEF fit
<1>4. fit[1] = g
  BY <1>2, <1>3
<1> QED
  BY <1>2, <1>4

LEMMA AccessExact ==
    ASSUME NEW groups, NEW t PROVE AccessIsExact(groups, t)
<1> SUFFICES ASSUME NEW m \in MatchersOf(groups)
             PROVE  /\ Accepts([mode |-> "off", matcher |-> m], t)
                    /\ Unconditional(m) => /\ Accepts([mode |-> "whitelist", matcher |-> m], t)
                                           /\ Accepts([mode |-> "blacklist", matcher |-> m], t)
                    /\ ~ Unconditional(m) => Accepts([mode |-> "whitelist", matcher |-> m], t)
                                              # Accepts([mode |-> "blacklist", matcher |-> m], t)
  BY DEF AccessIsExact
<1>1. Matches(m, t) \in BOOLEAN /\ Unconditional(m) \in BOOLEAN
  BY DEF Matches, Unconditional
<1> QED
  BY <1>1 DEF Accepts

-----------------------------------------------------------------------------
(* The list that is sorted: who comes before whom, and where.              *)

Known(S) ==
    /\ IsFiniteSet(S)
    /\ \A m \in S : m.id \in Nat /\ m.ts \in Int
    /\ \A a, b \in S : a.id = b.id => a = b

LEMMA KnownHits ==
    ASSUME NEW q, NEW index, Known(index)
    PROVE  Known(Hits(q, index))
<1>1. Hits(q, index) \in SUBSET index
  BY DEF Hits
<1>2. IsFiniteSet(Hits(q, index))
  BY <1>1, FS_Subset DEF Known
<1> QED
  BY <1>1, <1>2 DEF Known

LEMMA BeforeOrders ==
    ASSUME NEW q, NEW S, Known(S), NEW a \in S, NEW b \in S, NEW c \in S
    PROVE  /\ ~ Before(q, a, a)
           /\ a # b => Before(q, a, b) \/ Before(q, b, a)
           /\ Before(q, a, b) /\ Before(q, b, c) => Before(q, a, c)
<1>1. /\ a.id \in Nat /\ b.id \in Nat /\ c.id \in Nat
      /\ a.ts \in Int /\ b.ts \in Int /\ c.ts \in Int
      /\ a # b => a.id # b.id
  BY DEF Known
<1> QED
  BY <1>1 DEF Before, Earlier

LEMMA PlaceType ==
    ASSUME NEW q, NEW S, Known(S), NEW m \in S
    PROVE  Place(q, S, m) \in 1 .. Cardinality(S)
<1> DEFINE first == {x \in S : Before(q, x, m)}
<1>1. IsFiniteSet(S) /\ Cardinality(S) \in Nat
  BY FS_CardinalityType DEF Known
<1>2. first \in SUBSET S /\ m \notin first
  BY BeforeOrders
<1>3. IsFiniteSet(first) /\ Cardinality(first) <= Cardinality(S) /\ Cardinality(first) # Cardinality(S)
  BY <1>1, <1>2, FS_Subset
<1>4. Cardinality(first) \in Nat
  BY <1>3, FS_CardinalityType
<1> QED
  BY <1>1, <1>3, <1>4 DEF Place

LEMMA PlaceOrders ==
    ASSUME NEW q, NEW S, Known(S), NEW a \in S, NEW b \in S, Before(q, a, b)
    PROVE  Place(q, S, a) < Place(q, S, b)
<1> DEFINE to(m) == {x \in S : Before(q, x, m)}
<1>1. IsFiniteSet(S) /\ to(a) \in SUBSET S /\ to(b) \in SUBSET S
  BY DEF Known
<1>2. IsFiniteSet(to(a)) /\ IsFiniteSet(to(b)) /\ Cardinality(to(a)) \in Nat /\ Cardinality(to(b)) \in Nat
  BY <1>1, FS_Subset, FS_CardinalityType
<1>3. a \in to(b) /\ a \notin to(a)
  BY BeforeOrders
<1>4. to(a) \in SUBSET to(b)
  BY BeforeOrders
<1>5. Cardinality(to(a)) <= Cardinality(to(b)) /\ Cardinality(to(a)) # Cardinality(to(b))
  BY <1>2, <1>3, <1>4, FS_Subset
<1> QED
  BY <1>2, <1>5 DEF Place

(* Everybody has a place of their own, and every place is taken.           *)
LEMMA PlacesTaken ==
    ASSUME NEW q, NEW S, Known(S), NEW n \in 1 .. Cardinality(S)
    PROVE  \E m \in S : Place(q, S, m) = n /\ \A x \in S : Place(q, S, x) = n => x = m
<1> DEFINE C == 1 .. Cardinality(S)
           f == [m \in S |-> Place(q, S, m)]
<1>1. IsFiniteSet(S) /\ Cardinality(S) \in Nat
  BY FS_CardinalityType DEF Known
<1>2. IsFiniteSet(C) /\ Cardinality(C) = Cardinality(S)
  BY <1>1, FS_Interval
<1>3. f \in [S -> C]
  BY PlaceType
<1>4. ASSUME NEW a \in S, NEW b \in S, Place(q, S, a) = Place(q, S, b) PROVE a = b
  <2>1. Place(q, S, a) \in Nat /\ Place(q, S, b) \in Nat
    BY <1>1, PlaceType
  <2>2. ~ Before(q, a, b) /\ ~ Before(q, b, a)
    BY <1>4, <2>1, PlaceOrders
  <2> QED
    BY <2>2, BeforeOrders
<1>5. f \in Injection(S, C)
  BY <1>3, <1>4 DEF Injection, IsInjective
<1>6. f \in Surjection(S, C)
  BY <1>2, <1>5, FS_Injection
<1>7. PICK m \in S : f[m] = n
  BY <1>6 DEF Surjection
<1> QED
  BY <1>4, <1>7

LEMMA SortedList ==
    ASSUME NEW q, NEW index, Known(index)
    PROVE  /\ Sorted(q, index) \in [1 .. Cardinality(Hits(q, index)) -> Hits(q, index)]
           /\ Cardinality(Hits(q, index)) \in Nat
           /\ \A n \in 1 .. Cardinality(Hits(q, index)) : Place(q, Hits(q, index), Sorted(q, index)[n]) = n
           /\ \A m \in Hits(q, index) :
                 /\ Place(q, Hits(q, index), m) \in 1 .. Cardinality(Hits(q, index))
                 /\ Sorted(q, index)[Place(q, Hits(q, index), m)] = m
<1> DEFINE S == Hits(q, index)  N == Cardinality(S)
<1>1. Known(S) /\ N \in Nat
  BY KnownHits, FS_CardinalityType DEF Known
<1>2. Sorted(q, index) = [n \in 1 .. N |-> CHOOSE m \in S : Place(q, S, m) = n]
  BY DEF Sorted
<1> HIDE DEF S
<1>3. ASSUME NEW n \in 1 .. N PROVE Sorted(q, index)[n] \in S /\ Place(q, S, Sorted(q, index)[n]) = n
  <2>1. \E m \in S : Place(q, S, m) = n
    BY <1>1, PlacesTaken
  <2>2. Sorted(q, index)[n] = CHOOSE m \in S : Place(q, S, m) = n
    BY <1>2
  <2> QED
    BY <2>1, <2>2
<1>4. ASSUME NEW m \in S PROVE Place(q, S, m) \in 1 .. N /\ Sorted(q, index)[Place(q, S, m)] = m
  <2>1. Place(q, S, m) \in 1 .. N
    BY <1>1, PlaceType
  <2>2. PICK x \in S : \A y \in S : Place(q, S, y) = Place(q, S, m) => y = x
    BY <1>1, <2>1, PlacesTaken
  <2> QED
    BY <1>3, <2>1, <2>2
<1>5. Sorted(q, index) \in [1 .. N -> S]
  BY <1>2, <1>3
<1> QED
  BY <1>1, <1>3, <1>4, <1>5 DEF S

-----------------------------------------------------------------------------
(* The pages.                                                              *)

(* A page is what the list of this many has after the offset, up to a      *)
(* limit: it is empty just when there is nothing left.                     *)
IsPage(page, list, total, offset) ==
    /\ page.total = total
    /\ DOMAIN page.items = 1 .. Len(page.items) /\ Len(page.items) \in Nat /\ Len(page.items) <= MaxLimit
    /\ offset >= total => page.items = <<>>
    /\ offset < total => Len(page.items) >= 1 /\ offset + Len(page.items) <= total
    /\ \A j \in 1 .. Len(page.items) :
          offset + j \in 1 .. total /\ page.items[j] = list[offset + j]

LEMMA PageType ==
    ASSUME QueriesAssumption, NEW q, NEW index, Known(index), NEW offset \in Nat
    PROVE  /\ IsPage(Page(q, offset, index), Sorted(q, index), Cardinality(Hits(q, index)), offset)
           /\ Len(Page(q, offset, index).items) \in Nat
           /\ Cardinality(Hits(q, index)) \in Nat
<1> DEFINE list  == Sorted(q, index)
           total == Cardinality(Hits(q, index))
           size  == Clamp(Number(q.limit))
           upTo  == IF offset + size < total THEN offset + size ELSE total
           items == SubSeq(list, offset + 1, upTo)
<1>1. total \in Nat /\ list \in [1 .. total -> Hits(q, index)]
  BY SortedList
<1>2. list \in Seq(Hits(q, index)) /\ Len(list) = total
  BY <1>1
<1>3. size \in 1 .. MaxLimit /\ MaxLimit \in Nat
  <2>1. Number(q.limit) \in Nat
    BY DEF Number
  <2> QED
    BY <2>1 DEF Clamp, QueriesAssumption
<1>4. Number(offset) = offset
  BY DEF Number
<1>5. Page(q, offset, index) = [items |-> items, total |-> total]
  BY <1>2, <1>4 DEF Page
<1> HIDE DEF list, total, size
<1>6. CASE offset >= total
  <2>1. items = <<>>
    BY <1>1, <1>2, <1>3, <1>6
  <2> HIDE DEF items
  <2> QED
    BY <1>1, <1>3, <1>5, <1>6, <2>1 DEF list, total, IsPage
<1>7. CASE offset < total
  <2>1. upTo \in Nat /\ offset + 1 <= upTo /\ upTo <= total /\ upTo <= offset + size
    BY <1>1, <1>3, <1>7
  <2> HIDE DEF upTo
  <2>2. /\ Len(items) = upTo - offset
        /\ DOMAIN items = 1 .. upTo - offset
        /\ \A j \in 1 .. upTo - offset : items[j] = list[offset + j]
    BY <1>2, <2>1
  <2> HIDE DEF items
  <2>3. \A j \in 1 .. upTo - offset : offset + j \in 1 .. total
    BY <1>1, <2>1
  <2>4. upTo - offset \in Nat /\ upTo - offset <= MaxLimit /\ upTo - offset >= 1 /\ offset + (upTo - offset) <= total
    BY <1>1, <1>3, <2>1
  <2> QED
    BY <1>1, <1>5, <1>7, <2>2, <2>3, <2>4 DEF list, total, IsPage
<1> QED
  BY <1>1, <1>6, <1>7

(* The first k offsets, as a function.                                     *)
Turns(q, indexes, k, f) ==
    f = [n \in 0 .. k |-> IF n = 0 THEN 0 ELSE Onward(q, f[n - 1], indexes[n])]

LEMMA TurnsExist ==
    ASSUME NEW q, NEW indexes, NEW k \in Nat PROVE \E f : Turns(q, indexes, k, f)
<1> DEFINE T == {n \in Nat : \E f : Turns(q, indexes, n, f)}
<1>1. 0 \in T
  <2> DEFINE f == [n \in 0 .. 0 |-> 0]
  <2>1. \A n \in 0 .. 0 : n = 0
    OBVIOUS
  <2>2. Turns(q, indexes, 0, f)
    BY <2>1 DEF Turns
  <2> QED
    BY <2>2
<1>2. ASSUME NEW n \in Nat, n \in T PROVE n + 1 \in T
  <2>1. PICK f : Turns(q, indexes, n, f)
    BY <1>2
  <2> DEFINE last == Onward(q, f[n], indexes[n + 1])
             g == [i \in 0 .. n + 1 |-> IF i <= n THEN f[i] ELSE last]
             step == [i \in 0 .. n + 1 |-> IF i = 0 THEN 0 ELSE Onward(q, g[i - 1], indexes[i])]
  <2>2. \A i \in 0 .. n + 1 : g[i] = IF i <= n THEN f[i] ELSE last
    OBVIOUS
  <2>3. \A i \in 0 .. n : f[i] = IF i = 0 THEN 0 ELSE Onward(q, f[i - 1], indexes[i])
    BY <2>1 DEF Turns
  <2> HIDE DEF last
  <2>4. ASSUME NEW i \in 0 .. n + 1 PROVE g[i] = step[i]
    <3>1. CASE i = 0
      BY <2>2, <2>3, <3>1
    <3>2. CASE i \in 1 .. n
      <4>1. g[i] = f[i] /\ g[i - 1] = f[i - 1] /\ i # 0
        BY <2>2, <3>2
      <4>2. step[i] = Onward(q, g[i - 1], indexes[i])
        BY <3>2
      <4>3. f[i] = Onward(q, f[i - 1], indexes[i])
        BY <2>3, <3>2
      <4> QED
        BY <4>1, <4>2, <4>3
    <3>3. CASE i = n + 1
      <4>1. g[i] = last /\ g[i - 1] = f[n]
        BY <2>2, <3>3
      <4>2. step[i] = Onward(q, g[i - 1], indexes[i])
        BY <3>3
      <4> QED
        BY <3>3, <4>1, <4>2 DEF last
    <3> QED
      BY <3>1, <3>2, <3>3
  <2>5. g = step
    BY <2>4
  <2>6. Turns(q, indexes, n + 1, g)
    BY <2>5 DEF Turns
  <2> QED
    BY <2>6
<1>3. T = Nat
  BY <1>1, <1>2, Downwards
<1> QED
  BY <1>3

LEMMA OffsetsUnfold ==
    ASSUME NEW q, NEW indexes, Len(indexes) \in Nat
    PROVE  /\ Offsets(q, indexes)[0] = 0
           /\ \A k \in 1 .. Len(indexes) :
                 Offsets(q, indexes)[k] = Offsets(q, indexes)[k - 1] + Len(Turn(q, indexes, k).items)
<1> DEFINE f == Offsets(q, indexes)
<1>1. f = CHOOSE g : Turns(q, indexes, Len(indexes), g)
  BY DEF Offsets, Turns
<1>2. Turns(q, indexes, Len(indexes), f)
  BY <1>1, TurnsExist
<1> HIDE DEF f
<1>3. f = [n \in 0 .. Len(indexes) |-> IF n = 0 THEN 0 ELSE Onward(q, f[n - 1], indexes[n])]
  BY <1>2 DEF Turns
<1>4. f[0] = 0
  BY <1>3
<1>5. ASSUME NEW k \in 1 .. Len(indexes) PROVE f[k] = f[k - 1] + Len(Turn(q, indexes, k).items)
  <2>1. f[k] = Onward(q, f[k - 1], indexes[k])
    BY <1>3
  <2> QED
    BY <2>1 DEF Onward, Turn, f
<1> QED
  BY <1>4, <1>5 DEF f

LEMMA OffsetsType ==
    ASSUME QueriesAssumption, NEW q, NEW indexes, Len(indexes) \in Nat,
           \A k \in 1 .. Len(indexes) : Known(indexes[k])
    PROVE  \A k \in 0 .. Len(indexes) : Offsets(q, indexes)[k] \in Nat
<1> DEFINE f == Offsets(q, indexes)
           T == {n \in Nat : n <= Len(indexes) => f[n] \in Nat}
<1>1. 0 \in T
  BY OffsetsUnfold
<1>2. ASSUME NEW n \in Nat, n \in T PROVE n + 1 \in T
  <2> SUFFICES ASSUME n + 1 <= Len(indexes) PROVE f[n + 1] \in Nat
    OBVIOUS
  <2>1. n + 1 \in 1 .. Len(indexes) /\ (n + 1) - 1 = n /\ f[n] \in Nat
    BY <1>2
  <2>2. f[n + 1] = f[n] + Len(Turn(q, indexes, n + 1).items)
    BY <2>1, OffsetsUnfold
  <2>3. Turn(q, indexes, n + 1) = Page(q, f[n], indexes[n + 1])
    BY <2>1 DEF Turn
  <2>4. Len(Turn(q, indexes, n + 1).items) \in Nat
    BY <2>1, <2>3, PageType
  <2> QED
    BY <2>1, <2>2, <2>4
<1>3. T = Nat
  <2> HIDE DEF f
  <2>1. T \in SUBSET Nat
    OBVIOUS
  <2> HIDE DEF T
  <2> QED
    BY <1>1, <1>2, <2>1, Downwards
<1> QED
  BY <1>3

(* What the k-th page is, and where it ends.                               *)
LEMMA TurnType ==
    ASSUME QueriesAssumption, NEW q, NEW indexes, Len(indexes) \in Nat,
           \A k \in 1 .. Len(indexes) : Known(indexes[k]), NEW k \in 1 .. Len(indexes)
    PROVE  /\ Offsets(q, indexes)[k - 1] \in Nat
           /\ Offsets(q, indexes)[k] = Offsets(q, indexes)[k - 1] + Len(Turn(q, indexes, k).items)
           /\ Cardinality(Hits(q, indexes[k])) \in Nat
           /\ IsPage(Turn(q, indexes, k), Sorted(q, indexes[k]),
                     Cardinality(Hits(q, indexes[k])), Offsets(q, indexes)[k - 1])
<1>1. k - 1 \in 0 .. Len(indexes)
  OBVIOUS
<1>2. Offsets(q, indexes)[k - 1] \in Nat
  BY <1>1, OffsetsType
<1>3. Offsets(q, indexes)[k] = Offsets(q, indexes)[k - 1] + Len(Turn(q, indexes, k).items)
  BY OffsetsUnfold
<1>4. Turn(q, indexes, k) = Page(q, Offsets(q, indexes)[k - 1], indexes[k])
  BY DEF Turn
<1>5. Known(indexes[k])
  OBVIOUS
<1> QED
  BY <1>2, <1>3, <1>4, <1>5, PageType

(* While the newest come first, whoever is before a message stays before   *)
(* it when the oldest go: its place does not come closer.                  *)
LEMMA PlaceStays ==
    ASSUME NEW q, q.sort = "desc", NEW old, NEW new, Known(old), Known(new),
           NEW m, m \in Hits(q, old), m \in Hits(q, new),
           \A gone \in old \ new : Earlier(gone, m)
    PROVE  Place(q, Hits(q, old), m) <= Place(q, Hits(q, new), m)
<1> DEFINE to(S) == {x \in S : Before(q, x, m)}
<1>1. IsFiniteSet(Hits(q, old)) /\ IsFiniteSet(Hits(q, new))
  BY KnownHits DEF Known
<1>2. ASSUME NEW x \in to(Hits(q, old)) PROVE x \in to(Hits(q, new))
  <2>1. x \in old /\ m \in old /\ Before(q, x, m) /\ AboutMeta(q, x) /\ AboutBody(q, x)
    BY DEF Hits
  <2>2. Earlier(m, x)
    BY <2>1 DEF Before
  <2>3. m.id \in Nat /\ m.ts \in Int /\ x.id \in Nat /\ x.ts \in Int
    BY <2>1 DEF Known
  <2>4. ~ Earlier(x, m)
    BY <2>2, <2>3 DEF Earlier
  <2>5. x \in new
    BY <2>1, <2>4
  <2> QED
    BY <2>1, <2>5 DEF Hits
<1>3. /\ IsFiniteSet(to(Hits(q, new))) /\ to(Hits(q, old)) \in SUBSET to(Hits(q, new))
  <2>1. to(Hits(q, new)) \in SUBSET Hits(q, new)
    OBVIOUS
  <2> QED
    BY <1>1, <1>2, <2>1, FS_Subset
<1>4. /\ IsFiniteSet(to(Hits(q, old)))
      /\ Cardinality(to(Hits(q, old))) <= Cardinality(to(Hits(q, new)))
  BY <1>3, FS_Subset
<1>5. Cardinality(to(Hits(q, old))) \in Nat /\ Cardinality(to(Hits(q, new))) \in Nat
  BY <1>3, <1>4, FS_CardinalityType
<1> QED
  BY <1>4, <1>5 DEF Place

(* What is after the offset and not on the page is after the page.         *)
LEMMA BeyondThePage ==
    ASSUME NEW q, NEW index, Known(index), NEW offset \in Nat, NEW page,
           IsPage(page, Sorted(q, index), Cardinality(Hits(q, index)), offset),
           NEW m \in Hits(q, index), offset < Place(q, Hits(q, index), m)
    PROVE  /\ page.items # <<>>
           /\ m \notin ToSet(page.items) => offset + Len(page.items) < Place(q, Hits(q, index), m)
<1> DEFINE at == Place(q, Hits(q, index), m)
           total == Cardinality(Hits(q, index))
           size == Len(page.items)
           list == Sorted(q, index)
<1>1. total \in Nat /\ at \in 1 .. total /\ list[at] = m
  BY SortedList
<1>2. /\ DOMAIN page.items = 1 .. size /\ size \in Nat
      /\ offset < total => size >= 1
      /\ \A j \in 1 .. size : page.items[j] = list[offset + j]
  BY DEF IsPage
<1>3. offset < at
  OBVIOUS
<1> HIDE DEF at, total, list
<1>4. size >= 1
  BY <1>1, <1>2, <1>3
<1>5. page.items # <<>>
  BY <1>4
<1>6. ASSUME at <= offset + size PROVE m \in ToSet(page.items)
  <2>1. at - offset \in 1 .. size /\ offset + (at - offset) = at
    BY <1>1, <1>2, <1>3, <1>6
  <2>2. page.items[at - offset] = m
    BY <1>1, <1>2, <2>1
  <2> QED
    BY <1>2, <2>1, <2>2 DEF ToSet
<1>7. m \notin ToSet(page.items) => offset + size < at
  BY <1>1, <1>2, <1>6
<1> QED
  BY <1>5, <1>7 DEF at

(* Who has not seen a message that stays has it still ahead; an empty page *)
(* has nothing ahead.                                                      *)
LEMMA NothingIsMissed ==
    ASSUME QueriesAssumption, NEW q, NEW indexes, Len(indexes) \in Nat, indexes # <<>>,
           DOMAIN indexes = 1 .. Len(indexes), Len(indexes) >= 1,
           \A k \in 1 .. Len(indexes) : Known(indexes[k])
    PROVE  PagesMissNothing(q, indexes)
<1> DEFINE n == Len(indexes)
           all == {m \in indexes[1] : \A k \in DOMAIN indexes : m \in indexes[k]}
           pages == [k \in DOMAIN indexes |-> Turn(q, indexes, k)]
           offset(k) == Offsets(q, indexes)[k]
           at(k, m) == Place(q, Hits(q, indexes[k]), m)
<1>1. ASSUME NEW k \in 1 .. n PROVE Len(pages[k].items) <= MaxLimit
  <2>1. IsPage(Turn(q, indexes, k), Sorted(q, indexes[k]), Cardinality(Hits(q, indexes[k])), offset(k - 1))
    BY TurnType
  <2> QED
    BY <2>1 DEF IsPage
<1>2. ASSUME q.sort = "desc", OldestGo(indexes), LastIsEmpty(q, indexes),
             NEW m \in Hits(q, all), \A k \in 1 .. n : m \notin ToSet(Turn(q, indexes, k).items)
      PROVE  FALSE
  <2>1. \A k \in 1 .. n : m \in Hits(q, indexes[k]) /\ m \in indexes[k]
    BY DEF Hits
  <2> DEFINE T == {k \in Nat : k + 1 <= n => offset(k) < at(k + 1, m)}
  <2>2. 0 \in T
    <3>1. 1 \in 1 .. n /\ offset(0) = 0
      BY OffsetsUnfold
    <3>2. at(1, m) \in 1 .. Cardinality(Hits(q, indexes[1])) /\ Cardinality(Hits(q, indexes[1])) \in Nat
      BY <2>1, <3>1, SortedList
    <3> HIDE DEF at, offset
    <3>3. offset(0) < at(0 + 1, m)
      BY <3>1, <3>2
    <3> QED
      BY <3>3
  <2>3. ASSUME NEW i \in Nat, i \in T PROVE i + 1 \in T
    <3> SUFFICES ASSUME i + 2 <= n PROVE offset(i + 1) < at(i + 2, m)
      OBVIOUS
    <3> DEFINE k == i + 1
    <3>1. k \in 1 .. n /\ k + 1 \in 1 .. n /\ k \in 1 .. n - 1 /\ k - 1 = i /\ k + 1 = i + 2
      OBVIOUS
    <3>2. offset(k - 1) < at(k, m)
      BY <2>3, <3>1
    <3> HIDE DEF k
    <3>3. /\ offset(k - 1) \in Nat /\ offset(k) = offset(k - 1) + Len(Turn(q, indexes, k).items)
          /\ IsPage(Turn(q, indexes, k), Sorted(q, indexes[k]), Cardinality(Hits(q, indexes[k])), offset(k - 1))
      BY <3>1, TurnType
    <3>4. offset(k) < at(k, m)
      <4>1. offset(k - 1) + Len(Turn(q, indexes, k).items) < at(k, m)
        BY <1>2, <2>1, <3>1, <3>2, <3>3, BeyondThePage
      <4> QED
        BY <3>3, <4>1
    <3>5. at(k, m) <= at(k + 1, m)
      <4>1. \A gone \in indexes[k] \ indexes[k + 1] : Earlier(gone, m)
        BY <1>2, <2>1, <3>1 DEF OldestGo
      <4> QED
        BY <1>2, <2>1, <3>1, <4>1, PlaceStays
    <3>6. /\ at(k, m) \in 1 .. Cardinality(Hits(q, indexes[k])) /\ Cardinality(Hits(q, indexes[k])) \in Nat
          /\ at(k + 1, m) \in 1 .. Cardinality(Hits(q, indexes[k + 1]))
          /\ Cardinality(Hits(q, indexes[k + 1])) \in Nat
      BY <2>1, <3>1, SortedList
    <3>7. offset(k) \in Nat
      BY <3>1, OffsetsType
    <3> HIDE DEF at, offset
    <3>8. offset(k) < at(k + 1, m)
      BY <3>4, <3>5, <3>6, <3>7
    <3> QED
      BY <3>1, <3>8 DEF k
  <2>4. T = Nat
    <3> HIDE DEF at, offset
    <3>1. T \in SUBSET Nat
      OBVIOUS
    <3> HIDE DEF T
    <3> QED
      BY <2>2, <2>3, <3>1, Downwards
  <2>5. n - 1 \in Nat /\ n \in 1 .. n /\ (n - 1) + 1 = n
    OBVIOUS
  <2>6. offset(n - 1) < at(n, m)
    <3>1. n - 1 \in T
      BY <2>4, <2>5
    <3> QED
      BY <2>5, <3>1
  <2>7. /\ offset(n - 1) \in Nat
        /\ IsPage(Turn(q, indexes, n), Sorted(q, indexes[n]), Cardinality(Hits(q, indexes[n])), offset(n - 1))
    BY <2>5, TurnType
  <2>8. Turn(q, indexes, n).items # <<>>
    BY <2>1, <2>5, <2>6, <2>7, BeyondThePage
  <2> QED
    BY <1>2, <2>8 DEF LastIsEmpty
<1>3. ASSUME q.sort = "desc", OldestGo(indexes), LastIsEmpty(q, indexes), NEW m \in Hits(q, all)
      PROVE  \E k \in DOMAIN indexes : m \in ToSet(pages[k].items)
  BY <1>2, <1>3
<1> QED
  BY <1>1, <1>3 DEF PagesMissNothing

(* While nothing changes, the list is all of the hits, in order, and each  *)
(* page is the part of it from its offset on.                              *)
LEMMA TheListInOrder ==
    ASSUME NEW q, NEW index, Known(index)
    PROVE  /\ DOMAIN Sorted(q, index) = 1 .. Cardinality(Hits(q, index))
           /\ Cardinality(Hits(q, index)) \in Nat
           /\ ToSet(Sorted(q, index)) = Hits(q, index)
           /\ \A i, j \in DOMAIN Sorted(q, index) :
                 i < j => Before(q, Sorted(q, index)[i], Sorted(q, index)[j])
<1> DEFINE list == Sorted(q, index)
           S == Hits(q, index)
           total == Cardinality(S)
<1>1. /\ list \in [1 .. total -> S] /\ total \in Nat
      /\ \A i \in 1 .. total : Place(q, S, list[i]) = i
      /\ \A m \in S : Place(q, S, m) \in 1 .. total /\ list[Place(q, S, m)] = m
  BY SortedList
<1>2. Known(S)
  BY KnownHits
<1> HIDE DEF list, total
<1>3. ToSet(list) = S
  <2>1. \A m \in S : \E i \in 1 .. total : list[i] = m
    BY <1>1
  <2> HIDE DEF S
  <2> QED
    BY <1>1, <2>1 DEF ToSet
<1>4. ASSUME NEW i \in 1 .. total, NEW j \in 1 .. total, i < j PROVE Before(q, list[i], list[j])
  <2>1. list[i] \in S /\ list[j] \in S /\ Place(q, S, list[i]) = i /\ Place(q, S, list[j]) = j
    BY <1>1
  <2>2. i \in Int /\ j \in Int
    BY <1>1
  <2>3. list[i] # list[j]
    BY <1>4, <2>1, <2>2
  <2>4. ~ Before(q, list[j], list[i])
    BY <1>2, <1>4, <2>1, <2>2, PlaceOrders
  <2> QED
    BY <1>2, <2>1, <2>3, <2>4, BeforeOrders
<1> QED
  BY <1>1, <1>3, <1>4 DEF list, total

LEMMA AllOnPages ==
    ASSUME QueriesAssumption, NEW q, NEW index, Known(index), NEW n \in Nat, n >= 1
    PROVE  PagesAreTheList(q, index, n)
<1> DEFINE indexes == [k \in 1 .. n |-> index]
           list == Sorted(q, index)
           total == Cardinality(Hits(q, index))
           before == [k \in 1 .. n |-> Offsets(q, indexes)[k - 1]]
           pages == [k \in 1 .. n |-> Turn(q, indexes, k)]
           offset(k) == Offsets(q, indexes)[k]
           size(k) == Len(Turn(q, indexes, k).items)
<1>1. /\ DOMAIN list = 1 .. total /\ total \in Nat /\ ToSet(list) = Hits(q, index)
      /\ \A i, j \in DOMAIN list : i < j => Before(q, list[i], list[j])
  BY TheListInOrder
<1>2. Len(indexes) = n /\ Len(indexes) \in Nat /\ \A k \in 1 .. n : indexes[k] = index
  <2>1. indexes \in Seq({index})
    OBVIOUS
  <2> QED
    OBVIOUS
<1> HIDE DEF indexes
<1>3. ASSUME NEW k \in 1 .. n
      PROVE  /\ offset(k - 1) \in Nat /\ offset(k) = offset(k - 1) + size(k)
             /\ IsPage(Turn(q, indexes, k), list, total, offset(k - 1))
  <2>1. k \in 1 .. Len(indexes) /\ indexes[k] = index
    BY <1>2
  <2>2. \A i \in 1 .. Len(indexes) : Known(indexes[i])
    BY <1>2
  <2> QED
    BY <1>2, <2>1, <2>2, TurnType
<1>4. offset(0) = 0
  BY <1>2, OffsetsUnfold
<1> HIDE DEF list, total, offset
<1>5. ASSUME NEW k \in 1 .. n PROVE pages[k].total = total
  BY <1>3 DEF IsPage
<1>6. ASSUME NEW k \in 1 .. n, NEW j \in DOMAIN pages[k].items
      PROVE  before[k] + j \in DOMAIN list /\ pages[k].items[j] = list[before[k] + j]
  <2>1. pages[k] = Turn(q, indexes, k) /\ before[k] = offset(k - 1)
    BY DEF offset
  <2> QED
    BY <1>1, <1>3, <1>6, <2>1 DEF IsPage
<1>7. ASSUME LastIsEmpty(q, indexes), NEW i \in DOMAIN list
      PROVE  \E k \in 1 .. n : \E j \in DOMAIN pages[k].items : before[k] + j = i
  <2> DEFINE On(m) == \E k \in 1 .. n : \E j \in DOMAIN pages[k].items : before[k] + j = m
             T == {k \in Nat : k <= n /\ i <= offset(k) => On(i)}
  <2>1. i \in 1 .. total /\ i \in Nat /\ i >= 1
    BY <1>1, <1>7
  <2>2. 0 \in T
    BY <1>4, <2>1
  <2>3. ASSUME NEW k \in Nat, k \in T PROVE k + 1 \in T
    <3> SUFFICES ASSUME k + 1 <= n, i <= offset(k + 1) PROVE On(i)
      OBVIOUS
    <3>1. k + 1 \in 1 .. n /\ (k + 1) - 1 = k
      OBVIOUS
    <3>2. /\ offset(k) \in Nat /\ offset(k + 1) = offset(k) + size(k + 1)
          /\ DOMAIN Turn(q, indexes, k + 1).items = 1 .. size(k + 1) /\ size(k + 1) \in Nat
      BY <1>3, <3>1 DEF IsPage
    <3>3. CASE i <= offset(k)
      BY <2>3, <3>1, <3>3
    <3>4. CASE i > offset(k)
      <4> HIDE DEF size
      <4>1. i - offset(k) \in 1 .. size(k + 1) /\ offset(k) + (i - offset(k)) = i
        BY <2>1, <3>2, <3>4
      <4>2. before[k + 1] = offset(k) /\ pages[k + 1] = Turn(q, indexes, k + 1)
        BY <3>1 DEF offset
      <4> HIDE DEF before, pages
      <4> QED
        BY <3>1, <3>2, <4>1, <4>2
    <3> HIDE DEF On
    <3> QED
      BY <2>1, <3>2, <3>3, <3>4
  <2>4. T = Nat
    <3> HIDE DEF On
    <3>1. T \in SUBSET Nat
      OBVIOUS
    <3> HIDE DEF T
    <3> QED
      BY <2>2, <2>3, <3>1, Downwards
  <2>5. n \in 1 .. n /\ n - 1 \in Nat /\ n - 1 <= n
    OBVIOUS
  <2>6. Turn(q, indexes, n).items = <<>>
    BY <1>2, <1>7 DEF LastIsEmpty
  <2>7. size(n) = 0
    BY <2>6
  <2>8. offset(n - 1) \in Nat /\ (offset(n - 1) < total => size(n) >= 1)
    BY <1>3, <2>5 DEF IsPage
  <2> HIDE DEF size
  <2>9. i <= offset(n - 1)
    BY <1>1, <2>1, <2>7, <2>8
  <2>10. n - 1 \in T
    BY <2>4, <2>5
  <2> HIDE DEF On
  <2>11. On(i)
    BY <2>5, <2>9, <2>10
  <2> QED
    BY <2>11 DEF On
<1>8. PagesAreTheList(q, index, n)
  BY <1>1, <1>5, <1>6, <1>7 DEF PagesAreTheList, list, total, indexes
<1> QED
  BY <1>8

-----------------------------------------------------------------------------
(* The replies: first the wire, piece by piece.                            *)

Size(n) == [size |-> n]

(* What can be on the wire.                                                *)
Stuff(m) == {"head", "{", m.fields, "}", " "} \cup {Size(n) : n \in Nat}

Join(S, a, b) ==
    /\ a \o b \in Seq(S) /\ Len(a \o b) = Len(a) + Len(b)
    /\ \A i \in 1 .. Len(a) : (a \o b)[i] = a[i]
    /\ \A i \in 1 .. Len(b) : (a \o b)[Len(a) + i] = b[i]

LEMMA Joins ==
    ASSUME NEW S, NEW a \in Seq(S), NEW b \in Seq(S) PROVE Join(S, a, b)
<1>1. Len(a) \in Nat /\ Len(b) \in Nat
  BY LenProperties
<1>2. /\ a \o b \in Seq(S) /\ Len(a \o b) = Len(a) + Len(b)
      /\ \A i \in 1 .. Len(a) + Len(b) : (a \o b)[i] = IF i <= Len(a) THEN a[i] ELSE b[i - Len(a)]
  BY ConcatProperties
<1>3. ASSUME NEW i \in 1 .. Len(b) PROVE (a \o b)[Len(a) + i] = b[i]
  <2>1. Len(a) + i \in 1 .. Len(a) + Len(b) /\ ~ Len(a) + i <= Len(a) /\ (Len(a) + i) - Len(a) = i
    BY <1>1
  <2> QED
    BY <1>2, <2>1
<1> QED
  BY <1>1, <1>2, <1>3 DEF Join

LEMMA OnePiece ==
    ASSUME NEW S, NEW e \in S
    PROVE  <<e>> \in Seq(S) /\ Len(<<e>>) = 1 /\ <<e>>[1] = e
  OBVIOUS

LEMMA ThreePieces ==
    ASSUME NEW S, NEW a \in S, NEW b \in S, NEW c \in S
    PROVE  <<a, b, c>> \in Seq(S) /\ Len(<<a, b, c>>) = 3 /\ <<a, b, c>>[2] = b
  OBVIOUS

LEMMA ManyPieces ==
    ASSUME NEW S, NEW e \in S, NEW n \in Nat
    PROVE  [i \in 1 .. n |-> e] \in Seq(S) /\ Len([i \in 1 .. n |-> e]) = n
<1> DEFINE f == [i \in 1 .. n |-> e]
<1>1. f \in [1 .. n -> S] /\ DOMAIN f = 1 .. n
  OBVIOUS
<1> HIDE DEF f
<1>2. f \in Seq(S) /\ Len(f) = n
  BY <1>1
<1> QED
  BY <1>2 DEF f

LEMMA PieceBody ==
    ASSUME NEW m, m.blanks \in Nat
    PROVE  Pieces(m) \in Seq(Stuff(m)) /\ Len(Pieces(m)) = 3 + m.blanks /\ Pieces(m)[2] = m.fields
<1> DEFINE S == Stuff(m)
           pad == [i \in 1 .. m.blanks |-> " "]
           json == <<"{", m.fields, "}">>
<1>1. "{" \in S /\ m.fields \in S /\ "}" \in S /\ " " \in S
  BY DEF Stuff
<1> HIDE DEF S
<1>2. pad \in Seq(S) /\ Len(pad) = m.blanks
  BY <1>1, ManyPieces
<1>3. json \in Seq(S) /\ Len(json) = 3 /\ json[2] = m.fields
  BY <1>1, ThreePieces
<1>4. Pieces(m) = json \o pad
  BY DEF Pieces
<1> HIDE DEF pad, json
<1>5. Join(S, json, pad)
  <2>1. json \in Seq(S) /\ pad \in Seq(S)
    BY <1>2, <1>3
  <2> QED
    BY ONLY <2>1, Joins
<1>6. (json \o pad)[2] = json[2]
  BY <1>3, <1>5 DEF Join
<1> QED
  BY <1>2, <1>3, <1>4, <1>5, <1>6 DEF S, Join

LEMMA WirePlain ==
    ASSUME NEW m, m.blanks \in Nat, ~ m.chunked
    PROVE  /\ Wire(m) \in Seq(Stuff(m)) /\ Len(Wire(m)) = 4 + m.blanks
           /\ Wire(m)[3] = m.fields
<1> DEFINE head == <<"head">>  body == Pieces(m)
<1>1. body \in Seq(Stuff(m)) /\ Len(body) = 3 + m.blanks /\ body[2] = m.fields
  BY PieceBody
<1>2. head \in Seq(Stuff(m)) /\ Len(head) = 1
  <2>1. "head" \in Stuff(m)
    BY DEF Stuff
  <2> QED
    BY <2>1, OnePiece
<1>3. Wire(m) = head \o body
  BY DEF Wire
<1> HIDE DEF head, body
<1>4. Join(Stuff(m), head, body)
  <2>1. head \in Seq(Stuff(m)) /\ body \in Seq(Stuff(m))
    BY <1>1, <1>2
  <2> QED
    BY ONLY <2>1, Joins
<1>5. 2 \in 1 .. Len(body) /\ Len(head) + 2 = 3 /\ Len(head) + Len(body) = 4 + m.blanks
  BY <1>1, <1>2
<1>6. (head \o body)[3] = body[2]
  BY <1>4, <1>5 DEF Join
<1> QED
  BY <1>1, <1>3, <1>4, <1>5, <1>6 DEF Join

LEMMA WireChunked ==
    ASSUME NEW m, m.blanks \in Nat, m.chunked
    PROVE  /\ Wire(m) \in Seq(Stuff(m)) /\ Len(Wire(m)) = 7 + m.blanks
           /\ Wire(m)[2] = Size(2) /\ Wire(m)[4] = m.fields
           /\ Wire(m)[5] = Size(1 + m.blanks) /\ Wire(m)[7 + m.blanks] = Size(0)
<1> DEFINE S == Stuff(m)
           body == Pieces(m)
           rest == SubSeq(body, 3, Len(body))
           first == SubSeq(body, 1, 2)
           head == <<"head">>
           a == <<Size(2)>>
           c == <<Size(Len(rest))>>
           z == <<Size(0)>>
           b == a \o first
           d == b \o c
           e == d \o rest
           g == e \o z
<1>1. body \in Seq(S) /\ Len(body) = 3 + m.blanks /\ body[2] = m.fields
  BY PieceBody
<1>2. \A i \in 1 .. Len(body) : body[i] \in S
  BY <1>1, ElementOfSeq
<1>3. \A n \in Nat : Size(n) \in S
  BY DEF Stuff
<1>4. "head" \in S
  BY DEF Stuff
<1>5. Wire(m) = head \o g
  BY DEF Wire, Size
<1> HIDE DEF S, body
<1>6. rest \in Seq(S) /\ Len(rest) = 1 + m.blanks
  <2>1. \A i \in 3 .. Len(body) : body[i] \in S
    BY <1>1, <1>2
  <2>2. rest \in Seq(S) /\ Len(rest) = IF 3 <= Len(body) THEN Len(body) - 3 + 1 ELSE 0
    BY <1>1, <2>1, SubSeqProperties
  <2> QED
    BY <1>1, <2>2
<1>7. first \in Seq(S) /\ Len(first) = 2 /\ first[2] = m.fields
  <2>1. \A i \in 1 .. 2 : body[i] \in S
    BY <1>1, <1>2
  <2>2. first \in Seq(S) /\ Len(first) = (IF 1 <= 2 THEN 2 - 1 + 1 ELSE 0)
        /\ \A i \in 1 .. 2 - 1 + 1 : first[i] = body[1 + i - 1]
    BY <2>1, SubSeqProperties
  <2> QED
    BY <1>1, <2>2
<1>8. head \in Seq(S) /\ Len(head) = 1
  BY <1>4, OnePiece
<1>9. /\ a \in Seq(S) /\ Len(a) = 1 /\ a[1] = Size(2)
      /\ c \in Seq(S) /\ Len(c) = 1 /\ c[1] = Size(1 + m.blanks)
      /\ z \in Seq(S) /\ Len(z) = 1 /\ z[1] = Size(0)
  <2>1. Size(2) \in S /\ Size(Len(rest)) \in S /\ Size(0) \in S /\ Len(rest) = 1 + m.blanks
    BY <1>3, <1>6
  <2> QED
    BY <2>1, OnePiece
<1> HIDE DEF head, a, c, z, rest, first
<1>10. b \in Seq(S) /\ Len(b) = 3 /\ b[1] = Size(2) /\ b[3] = m.fields
  <2>1. 1 \in 1 .. Len(a) /\ 2 \in 1 .. Len(first) /\ Len(a) + 2 = 3
    BY <1>7, <1>9
  <2>2. Join(S, a, first)
    <3>1. a \in Seq(S) /\ first \in Seq(S)
      BY <1>7, <1>9
    <3> QED
      BY ONLY <3>1, Joins
  <2> QED
    BY <1>7, <1>9, <2>1, <2>2 DEF Join
<1> HIDE DEF b
<1>11. d \in Seq(S) /\ Len(d) = 4 /\ d[1] = Size(2) /\ d[3] = m.fields /\ d[4] = Size(1 + m.blanks)
  <2>1. 1 \in 1 .. Len(b) /\ 3 \in 1 .. Len(b) /\ 1 \in 1 .. Len(c) /\ Len(b) + 1 = 4
    BY <1>9, <1>10
  <2>2. Join(S, b, c)
    <3>1. b \in Seq(S) /\ c \in Seq(S)
      BY <1>9, <1>10
    <3> QED
      BY ONLY <3>1, Joins
  <2> QED
    BY <1>9, <1>10, <2>1, <2>2 DEF Join
<1> HIDE DEF d
<1>12. e \in Seq(S) /\ Len(e) = 5 + m.blanks /\ e[1] = Size(2) /\ e[3] = m.fields /\ e[4] = Size(1 + m.blanks)
  <2>1. 1 \in 1 .. Len(d) /\ 3 \in 1 .. Len(d) /\ 4 \in 1 .. Len(d) /\ Len(d) + Len(rest) = 5 + m.blanks
    BY <1>6, <1>11
  <2>2. Join(S, d, rest)
    <3>1. d \in Seq(S) /\ rest \in Seq(S)
      BY <1>6, <1>11
    <3> QED
      BY ONLY <3>1, Joins
  <2> QED
    BY <1>6, <1>11, <2>1, <2>2 DEF Join
<1> HIDE DEF e
<1>13. /\ g \in Seq(S) /\ Len(g) = 6 + m.blanks /\ g[1] = Size(2) /\ g[3] = m.fields /\ g[4] = Size(1 + m.blanks)
       /\ g[6 + m.blanks] = Size(0)
  <2>1. /\ 1 \in 1 .. Len(e) /\ 3 \in 1 .. Len(e) /\ 4 \in 1 .. Len(e) /\ 1 \in 1 .. Len(z)
        /\ Len(e) + 1 = 6 + m.blanks
    BY <1>9, <1>12
  <2>2. Join(S, e, z)
    <3>1. e \in Seq(S) /\ z \in Seq(S)
      BY <1>9, <1>12
    <3> QED
      BY ONLY <3>1, Joins
  <2> QED
    BY <1>9, <1>12, <2>1, <2>2 DEF Join
<1> HIDE DEF g
<1>14. /\ 1 \in 1 .. Len(g) /\ 3 \in 1 .. Len(g) /\ 4 \in 1 .. Len(g) /\ 6 + m.blanks \in 1 .. Len(g)
       /\ Len(head) + 1 = 2 /\ Len(head) + 3 = 4 /\ Len(head) + 4 = 5
       /\ Len(head) + (6 + m.blanks) = 7 + m.blanks
  BY <1>8, <1>13
<1>15. Join(S, head, g)
  <2>1. head \in Seq(S) /\ g \in Seq(S)
    BY <1>8, <1>13
  <2> QED
    BY ONLY <2>1, Joins
<1>16. /\ Wire(m)[2] = g[1] /\ Wire(m)[4] = g[3] /\ Wire(m)[5] = g[4] /\ Wire(m)[7 + m.blanks] = g[6 + m.blanks]
       /\ Wire(m) \in Seq(S) /\ Len(Wire(m)) = 7 + m.blanks
  BY <1>5, <1>8, <1>13, <1>14, <1>15 DEF Join
<1> QED
  BY <1>13, <1>16 DEF S

-----------------------------------------------------------------------------
(* The loop of dechunk.                                                    *)

(* Its first k passes, as a function.                                      *)
Reads(buf, k, f) ==
    f = [n \in 0 .. k |-> IF n = 0 THEN Chunks(buf, <<>>, "no") ELSE Chunk(f[n - 1])]

LEMMA ReadsExist ==
    ASSUME NEW buf, NEW k \in Nat PROVE \E f : Reads(buf, k, f)
<1> DEFINE T == {n \in Nat : \E f : Reads(buf, n, f)}
<1>1. 0 \in T
  <2> DEFINE f == [n \in 0 .. 0 |-> Chunks(buf, <<>>, "no")]
  <2>1. \A n \in 0 .. 0 : n = 0
    OBVIOUS
  <2>2. Reads(buf, 0, f)
    BY <2>1 DEF Reads
  <2> QED
    BY <2>2
<1>2. ASSUME NEW n \in Nat, n \in T PROVE n + 1 \in T
  <2>1. PICK f : Reads(buf, n, f)
    BY <1>2
  <2> DEFINE last == Chunk(f[n])
             g == [i \in 0 .. n + 1 |-> IF i <= n THEN f[i] ELSE last]
             step == [i \in 0 .. n + 1 |-> IF i = 0 THEN Chunks(buf, <<>>, "no") ELSE Chunk(g[i - 1])]
  <2>2. \A i \in 0 .. n + 1 : g[i] = IF i <= n THEN f[i] ELSE last
    OBVIOUS
  <2>3. \A i \in 0 .. n : f[i] = IF i = 0 THEN Chunks(buf, <<>>, "no") ELSE Chunk(f[i - 1])
    BY <2>1 DEF Reads
  <2> HIDE DEF last
  <2>4. ASSUME NEW i \in 0 .. n + 1 PROVE g[i] = step[i]
    <3>1. CASE i = 0
      BY <2>2, <2>3, <3>1
    <3>2. CASE i \in 1 .. n
      <4>1. g[i] = f[i] /\ g[i - 1] = f[i - 1] /\ i # 0
        BY <2>2, <3>2
      <4>2. step[i] = Chunk(g[i - 1])
        BY <3>2
      <4>3. f[i] = Chunk(f[i - 1])
        BY <2>3, <3>2
      <4> QED
        BY <4>1, <4>2, <4>3
    <3>3. CASE i = n + 1
      <4>1. g[i] = last /\ g[i - 1] = f[n]
        BY <2>2, <3>3
      <4>2. step[i] = Chunk(g[i - 1])
        BY <3>3
      <4> QED
        BY <4>1, <4>2 DEF last
    <3> QED
      BY <3>1, <3>2, <3>3
  <2>5. g = step
    BY <2>4
  <2>6. Reads(buf, n + 1, g)
    BY <2>5 DEF Reads
  <2> QED
    BY <2>6
<1>3. T = Nat
  BY <1>1, <1>2, Downwards
<1> QED
  BY <1>3

LEMMA LastChunkReads ==
    ASSUME NEW buf, Len(buf) + 1 \in Nat
    PROVE  \E f : /\ LastChunk(buf) = f[Len(buf) + 1] /\ f[0] = Chunks(buf, <<>>, "no")
                  /\ \A n \in 1 .. Len(buf) + 1 : f[n] = Chunk(f[n - 1])
<1> DEFINE f == CHOOSE f : Reads(buf, Len(buf) + 1, f)
<1>1. Reads(buf, Len(buf) + 1, f)
  BY ReadsExist
<1>2. LastChunk(buf) = f[Len(buf) + 1]
  BY DEF LastChunk, Reads
<1> HIDE DEF f
<1>3. f[0] = Chunks(buf, <<>>, "no") /\ \A n \in 1 .. Len(buf) + 1 : f[n] = Chunk(f[n - 1])
  BY <1>1 DEF Reads
<1> QED
  BY <1>2, <1>3

LEMMA StaysOver ==
    ASSUME NEW f, NEW n \in Nat, NEW k \in 0 .. n, f[k].end # "no",
           \A i \in 1 .. n : f[i] = Chunk(f[i - 1])
    PROVE  f[n] = f[k]
<1> DEFINE T == {i \in Nat : k + i <= n => f[k + i] = f[k]}
<1>1. 0 \in T
  OBVIOUS
<1>2. ASSUME NEW i \in Nat, i \in T PROVE i + 1 \in T
  <2> SUFFICES ASSUME k + (i + 1) <= n PROVE f[k + (i + 1)] = f[k]
    OBVIOUS
  <2>1. k + (i + 1) \in 1 .. n /\ (k + (i + 1)) - 1 = k + i /\ k + i <= n
    OBVIOUS
  <2>2. f[k + (i + 1)] = Chunk(f[k + i]) /\ f[k + i] = f[k]
    BY <1>2, <2>1
  <2> QED
    BY <2>2 DEF Chunk
<1>3. T = Nat
  BY <1>1, <1>2, Downwards
<1>4. n - k \in Nat /\ k + (n - k) = n /\ k + (n - k) <= n
  OBVIOUS
<1>5. n - k \in T
  BY <1>3, <1>4
<1>6. f[k + (n - k)] = f[k]
  BY <1>4, <1>5
<1> QED
  BY <1>4, <1>6


(* A chunk is taken whole, or the loop has come to a bad end.              *)
BadEnd(s) == s.end \notin {"no", "done"}

Taken(S, s, n, t) ==
    /\ Len(s.out) + n <= MaxBody /\ n < Len(s.left) /\ t = Chunks(t.left, t.out, "no")
    /\ t.left \in Seq(S) /\ Len(t.left) = Len(s.left) - n - 1
    /\ \A i \in 1 .. Len(t.left) : t.left[i] = s.left[n + 1 + i]
    /\ t.out \in Seq(S) /\ Len(t.out) = Len(s.out) + n
    /\ \A i \in 1 .. Len(s.out) : t.out[i] = s.out[i]
    /\ \A i \in 1 .. n : t.out[Len(s.out) + i] = s.left[1 + i]

LEMMA TakesChunk ==
    ASSUME NEW S, NEW left \in Seq(S), NEW out \in Seq(S), NEW n \in Nat \ {0}, MaxBody \in Nat,
           left # <<>>, left[1] = Size(n), NEW s, s = Chunks(left, out, "no"), NEW t, t = Chunk(s)
    PROVE  IF Len(out) + n <= MaxBody /\ n < Len(left) THEN Taken(S, s, n, t) ELSE BadEnd(t)
<1> DEFINE data == SubSeq(left, 2, n + 1)
           more == SubSeq(left, n + 2, Len(left))
<1>1. Len(left) \in Nat /\ Len(out) \in Nat /\ \A i \in 1 .. Len(left) : left[i] \in S
  BY ElementOfSeq, LenProperties
<1>2. s.left = left /\ s.out = out /\ s.end = "no" /\ Head(left).size = n
  BY DEF Chunks, Size
<1>3. CASE Len(out) + n > MaxBody
  <2>1. t.end = "oversize"
    BY <1>1, <1>2, <1>3 DEF Chunk, Chunks
  <2> QED
    BY <1>1, <1>3, <2>1 DEF BadEnd
<1>4. CASE Len(out) + n <= MaxBody /\ Len(left) <= n
  <2>1. t.end = "truncated"
    BY <1>1, <1>2, <1>4 DEF Chunk, Chunks
  <2> QED
    BY <1>1, <1>4, <2>1 DEF BadEnd
<1>5. CASE Len(out) + n <= MaxBody /\ n < Len(left)
  <2>1. t = Chunks(more, out \o data, "no")
    <3>1. Data(s) = data /\ AfterData(s) = more
      BY <1>2 DEF Data, AfterData
    <3>2. ~ Len(out) + n > MaxBody /\ ~ Len(left) <= n /\ n # 0
      BY <1>1, <1>5
    <3> HIDE DEF data, more
    <3> QED
      BY <1>2, <3>1, <3>2 DEF Chunk
  <2>2. data \in Seq(S) /\ Len(data) = n /\ \A i \in 1 .. n : data[i] = left[1 + i]
    <3>1. \A i \in 2 .. n + 1 : left[i] \in S
      BY <1>1, <1>5
    <3>2. /\ data \in Seq(S) /\ Len(data) = IF 2 <= n + 1 THEN n + 1 - 2 + 1 ELSE 0
          /\ \A i \in 1 .. n + 1 - 2 + 1 : data[i] = left[2 + i - 1]
      BY <3>1, SubSeqProperties
    <3> QED
      BY <3>2
  <2>3. /\ more \in Seq(S) /\ Len(more) = Len(left) - n - 1
        /\ \A i \in 1 .. Len(more) : more[i] = left[n + 1 + i]
    <3>1. \A i \in n + 2 .. Len(left) : left[i] \in S
      BY <1>1, <1>5
    <3>2. /\ more \in Seq(S) /\ Len(more) = IF n + 2 <= Len(left) THEN Len(left) - (n + 2) + 1 ELSE 0
          /\ \A i \in 1 .. Len(left) - (n + 2) + 1 : more[i] = left[n + 2 + i - 1]
      BY <1>1, <3>1, SubSeqProperties
    <3> QED
      BY <1>1, <1>5, <3>2
  <2>4. t.left = more /\ t.out = out \o data /\ t = Chunks(t.left, t.out, "no")
    BY <2>1 DEF Chunks
  <2> HIDE DEF data, more
  <2>5. Join(S, out, data)
    BY ONLY <2>2, Joins, out \in Seq(S)
  <2>6. /\ Len(s.out) + n <= MaxBody /\ n < Len(s.left) /\ t = Chunks(t.left, t.out, "no")
        /\ t.left \in Seq(S) /\ Len(t.left) = Len(s.left) - n - 1
        /\ \A i \in 1 .. Len(t.left) : t.left[i] = s.left[n + 1 + i]
    BY <1>2, <1>5, <2>3, <2>4
  <2>7. /\ t.out \in Seq(S) /\ Len(t.out) = Len(s.out) + n
        /\ \A i \in 1 .. Len(s.out) : t.out[i] = s.out[i]
    BY <1>2, <2>2, <2>4, <2>5 DEF Join
  <2>8. \A i \in 1 .. n : t.out[Len(s.out) + i] = s.left[1 + i]
    <3> SUFFICES ASSUME NEW i \in 1 .. n PROVE t.out[Len(s.out) + i] = s.left[1 + i]
      OBVIOUS
    <3>1. (out \o data)[Len(out) + i] = data[i] /\ data[i] = left[1 + i]
      BY <2>2, <2>5 DEF Join
    <3>2. t.out = out \o data /\ s.out = out /\ s.left = left
      BY <1>2, <2>4
    <3> QED
      BY ONLY <3>1, <3>2
  <2>9. Taken(S, s, n, t)
    BY <2>6, <2>7, <2>8 DEF Taken
  <2> QED
    BY <1>5, <2>9
<1> QED
  BY <1>1, <1>3, <1>4, <1>5

LEMMA DechunkFails ==
    ASSUME NEW buf, Len(buf) \in Nat, NEW f, LastChunk(buf) = f[Len(buf) + 1],
           \A n \in 1 .. Len(buf) + 1 : f[n] = Chunk(f[n - 1]),
           NEW k \in 0 .. Len(buf) + 1, BadEnd(f[k])
    PROVE  Failed(Dechunk(buf))
<1>1. f[Len(buf) + 1] = f[k]
  BY StaysOver DEF BadEnd
<1>2. Dechunk(buf) = Error(f[k].end)
  BY <1>1 DEF Dechunk, BodyOf, BadEnd
<1> QED
  BY <1>2 DEF Failed, Error

LEMMA NothingLeft ==
    ASSUME NEW S, NEW s, s.end = "no", s.left \in Seq(S), Len(s.left) = 0 PROVE BadEnd(Chunk(s))
<1>1. s.left = <<>>
  BY EmptySeq
<1>2. Chunk(s) = Chunks(s.left, s.out, "unterminated")
  BY <1>1 DEF Chunk
<1> QED
  BY <1>2 DEF BadEnd, Chunks

(* What has come of a body in chunks.                                      *)
Framed(m, buf) ==
    /\ buf \in Seq(Stuff(m)) /\ Len(buf) <= 6 + m.blanks
    /\ 1 <= Len(buf) => buf[1] = Size(2)
    /\ 3 <= Len(buf) => buf[3] = m.fields
    /\ 4 <= Len(buf) => buf[4] = Size(1 + m.blanks)
    /\ 6 + m.blanks <= Len(buf) => buf[6 + m.blanks] = Size(0)

Fully(m, buf) == Len(buf) = 6 + m.blanks /\ 3 + m.blanks <= MaxBody

LEMMA DechunkMeans ==
    ASSUME NEW m, m.blanks \in Nat, NEW buf, Framed(m, buf), MaxBody \in Nat
    PROVE  IF Fully(m, buf)
           THEN /\ ~ Failed(Dechunk(buf))
                /\ Len(Dechunk(buf).body) = 3 + m.blanks /\ Dechunk(buf).body[2] = m.fields
           ELSE Failed(Dechunk(buf))
<1> DEFINE S == Stuff(m)  L == Len(buf)  b == m.blanks
<1>1. buf \in Seq(S) /\ L \in Nat /\ L <= 6 + b
  BY LenProperties DEF Framed
<1>2. <<>> \in Seq(S) /\ Len(<<>>) = 0
  OBVIOUS
<1> HIDE DEF S
<1>3. PICK f : /\ LastChunk(buf) = f[L + 1] /\ f[0] = Chunks(buf, <<>>, "no")
               /\ \A n \in 1 .. L + 1 : f[n] = Chunk(f[n - 1])
  BY <1>1, LastChunkReads
<1>4. f[0].left = buf /\ f[0].out = <<>> /\ f[0].end = "no"
  BY <1>3 DEF Chunks
<1>5. /\ f[1] = Chunk(f[0])
      /\ 1 <= L => f[2] = Chunk(f[1])
      /\ 2 <= L => f[3] = Chunk(f[2])
  BY <1>1, <1>3
<1>6. \A k \in 0 .. L + 1 : BadEnd(f[k]) => Failed(Dechunk(buf))
  BY <1>1, <1>3, DechunkFails
<1>7. CASE L = 0
  <2>1. BadEnd(f[1])
    BY <1>1, <1>4, <1>5, <1>7, NothingLeft
  <2> QED
    BY <1>1, <1>6, <1>7, <2>1 DEF Fully
<1>8. CASE L >= 1
  <2>1. buf # <<>> /\ buf[1] = Size(2)
    BY <1>1, <1>2, <1>8 DEF Framed
  <2>2. IF 2 <= MaxBody /\ 2 < L THEN Taken(S, f[0], 2, f[1]) ELSE BadEnd(f[1])
    <3>1. /\ buf \in Seq(S) /\ <<>> \in Seq(S) /\ 2 \in Nat \ {0} /\ MaxBody \in Nat
          /\ buf # <<>> /\ buf[1] = Size(2) /\ f[0] = Chunks(buf, <<>>, "no") /\ f[1] = Chunk(f[0])
      BY <1>1, <1>2, <1>3, <1>5, <2>1
    <3>2. IF Len(<<>>) + 2 <= MaxBody /\ 2 < Len(buf) THEN Taken(S, f[0], 2, f[1]) ELSE BadEnd(f[1])
      BY ONLY <3>1, TakesChunk
    <3> QED
      BY <1>2, <3>2
  <2>3. CASE ~ (2 <= MaxBody /\ 2 < L)
    BY <1>1, <1>6, <2>2, <2>3 DEF Fully
  <2>4. CASE 2 <= MaxBody /\ 2 < L
    <3> DEFINE left == f[1].left  out == f[1].out
    <3>1. Taken(S, f[0], 2, f[1])
      BY <2>2, <2>4
    <3>2. /\ left \in Seq(S) /\ Len(left) = L - 3
          /\ \A i \in 1 .. L - 3 : left[i] = buf[3 + i]
      BY <1>1, <1>4, <3>1 DEF Taken
    <3>7. f[1] = Chunks(left, out, "no") /\ f[1].end = "no"
      BY <3>1 DEF Taken, Chunks
    <3>3. out \in Seq(S) /\ Len(out) = 2 /\ out[2] = m.fields
      <4>1. out \in Seq(S) /\ Len(out) = 2 /\ out[2] = buf[3]
        BY <1>2, <1>4, <3>1 DEF Taken
      <4> QED
        BY <2>4, <4>1 DEF Framed
    <3> HIDE DEF left, out
    <3>4. CASE L = 3
      <4>1. BadEnd(f[2])
        BY <1>5, <3>2, <3>4, <3>7, NothingLeft DEF left
      <4> QED
        BY <1>1, <1>6, <3>4, <4>1 DEF Fully
    <3>5. CASE L > 3
      <4>1. left # <<>> /\ left[1] = Size(1 + b)
        <5>2. 1 \in 1 .. L - 3 /\ 3 + 1 = 4 /\ L - 3 # 0
          BY <1>1, <3>5
        <5>1. left[1] = buf[4] /\ Len(left) # 0
          BY ONLY <3>2, <5>2
        <5> QED
          BY <1>1, <1>2, <3>5, <5>1 DEF Framed
      <4>2. IF 3 + b <= MaxBody /\ 4 + b < L THEN Taken(S, f[1], 1 + b, f[2]) ELSE BadEnd(f[2])
        <5>1. /\ left \in Seq(S) /\ out \in Seq(S) /\ 1 + b \in Nat \ {0} /\ MaxBody \in Nat
              /\ left # <<>> /\ left[1] = Size(1 + b) /\ f[1] = Chunks(left, out, "no") /\ f[2] = Chunk(f[1])
          BY <1>1, <1>5, <3>2, <3>3, <3>5, <3>7, <4>1
        <5>2. IF Len(out) + (1 + b) <= MaxBody /\ 1 + b < Len(left) THEN Taken(S, f[1], 1 + b, f[2]) ELSE BadEnd(f[2])
          BY ONLY <5>1, TakesChunk
        <5> QED
          BY <1>1, <3>2, <3>3, <5>2
      <4>3. CASE ~ (3 + b <= MaxBody /\ 4 + b < L)
        BY <1>1, <1>6, <3>5, <4>2, <4>3 DEF Fully
      <4>4. CASE 3 + b <= MaxBody /\ 4 + b < L
        <5> DEFINE left2 == f[2].left  out2 == f[2].out
        <5>1. Taken(S, f[1], 1 + b, f[2])
          BY <4>2, <4>4
        <5>6. f[2].end = "no"
          BY <5>1 DEF Taken, Chunks
        <5>2. left2 \in Seq(S) /\ Len(left2) = L - (5 + b) /\ (1 <= Len(left2) => left2[1] = left[3 + b])
          <6>1. /\ left2 \in Seq(S) /\ Len(left2) = Len(left) - (1 + b) - 1
                /\ \A i \in 1 .. Len(left2) : left2[i] = left[(1 + b) + 1 + i]
            BY <5>1 DEF Taken, left
          <6>2. (1 + b) + 1 + 1 = 3 + b /\ (L - 3) - (1 + b) - 1 = L - (5 + b) /\ L - (5 + b) \in Int
            BY <1>1
          <6>3. L - (5 + b) >= 1 => 1 \in 1 .. L - (5 + b)
            BY <6>2
          <6>4. Len(left2) = L - (5 + b)
            BY ONLY <3>2, <6>1, <6>2
          <6>5. ASSUME 1 <= Len(left2) PROVE left2[1] = left[3 + b]
            BY ONLY <6>1, <6>2, <6>3, <6>4, <6>5
          <6> QED
            BY ONLY <6>1, <6>4, <6>5
        <5>3. out2 \in Seq(S) /\ Len(out2) = 3 + b /\ out2[2] = m.fields
          BY <3>3, <5>1 DEF Taken, out
        <5> HIDE DEF left2, out2
        <5>4. CASE L = 5 + b
          <6>1. f[3] = Chunk(f[2])
            BY <1>5, <3>5
          <6>2. BadEnd(f[3])
            <7>1. Len(left2) = 0
              BY <5>2, <5>4
            <7> QED
              BY <5>2, <5>6, <6>1, <7>1, NothingLeft DEF left2
          <6> QED
            BY <1>1, <1>6, <5>4, <6>2 DEF Fully
        <5>5. CASE L = 6 + b
          <6>1. f[3] = Chunk(f[2])
            BY <1>5, <3>5
          <6>2. left2 # <<>> /\ left2[1] = Size(0)
            <7>1. L - (5 + b) = 1 /\ 3 + b \in 1 .. L - 3 /\ 3 + (3 + b) = 6 + b
              BY <5>5
            <7>2. Len(left2) = 1 /\ left2[1] = left[3 + b]
              BY ONLY <5>2, <7>1
            <7>3. left[3 + b] = buf[6 + b]
              BY ONLY <3>2, <7>1
            <7>4. buf[6 + b] = Size(0)
              BY <5>5 DEF Framed
            <7>5. left2 # <<>>
              BY ONLY <1>2, <7>2
            <7> QED
              BY ONLY <7>2, <7>3, <7>4, <7>5
          <6>3. f[3] = Chunks(left2, out2, "done")
            <7>1. Head(left2).size = 0
              BY <5>2, <6>2 DEF Size
            <7> QED
              BY <5>6, <6>1, <6>2, <7>1 DEF Chunk, left2, out2
          <6>4. f[L + 1] = f[3]
            <7>1. f[3].end # "no" /\ 3 \in 0 .. L + 1 /\ L + 1 \in Nat
              BY <1>1, <5>5, <6>3 DEF Chunks
            <7> QED
              BY <1>3, <7>1, StaysOver
          <6>5. Dechunk(buf) = [body |-> out2]
            BY <1>3, <6>3, <6>4 DEF Dechunk, BodyOf, Chunks
          <6>6. ~ Failed(Dechunk(buf)) /\ Dechunk(buf).body = out2
            BY <6>5 DEF Failed
          <6> QED
            BY <4>4, <5>3, <5>5, <6>6 DEF Fully
        <5>7. L = 5 + b \/ L = 6 + b
          BY <1>1, <4>4
        <5> QED
          BY ONLY <5>4, <5>5, <5>7
      <4> QED
        BY <4>3, <4>4
    <3>6. L = 3 \/ L > 3
      <4>1. \A k \in Nat : 2 < k => k = 3 \/ k > 3
        OBVIOUS
      <4> QED
        BY <1>1, <2>4, <4>1
    <3> QED
      BY ONLY <3>4, <3>5, <3>6
  <2> QED
    BY <2>3, <2>4
<1> QED
  BY <1>1, <1>7, <1>8

-----------------------------------------------------------------------------
(* One exchange.                                                           *)

Arriving(m) == IF m.pieces < Len(Wire(m)) THEN m.pieces ELSE Len(Wire(m))

LEMMA WireType ==
    ASSUME NEW m, m.blanks \in Nat, m.chunked \in BOOLEAN
    PROVE  Wire(m) \in Seq(Stuff(m)) /\ Len(Wire(m)) \in Nat /\ Len(Wire(m)) >= 4
<1>1. CASE m.chunked
  BY <1>1, WireChunked
<1>2. CASE ~ m.chunked
  BY <1>2, WirePlain
<1> QED
  BY <1>1, <1>2

LEMMA WhatArrives ==
    ASSUME NEW m, m.blanks \in Nat, m.chunked \in BOOLEAN, m.pieces \in Nat
    PROVE  /\ Arriving(m) \in Nat /\ Arriving(m) <= Len(Wire(m))
           /\ m.pieces >= Len(Wire(m)) <=> Arriving(m) = Len(Wire(m))
           /\ Arrived(m) \in Seq(Stuff(m)) /\ Len(Arrived(m)) = Arriving(m)
           /\ \A i \in 1 .. Arriving(m) : Arrived(m)[i] = Wire(m)[i]
<1> DEFINE w == Wire(m)  k == Arriving(m)  S == Stuff(m)
<1>1. w \in Seq(S) /\ Len(w) \in Nat
  BY WireType
<1>2. k \in Nat /\ k <= Len(w) /\ (m.pieces >= Len(w) <=> k = Len(w))
  BY <1>1 DEF Arriving
<1>3. Arrived(m) = SubSeq(w, 1, k)
  BY DEF Arrived, Arriving
<1> HIDE DEF w, k, S
<1>4. \A i \in 1 .. k : w[i] \in S
  BY <1>1, <1>2, ElementOfSeq
<1>5. /\ SubSeq(w, 1, k) \in Seq(S) /\ Len(SubSeq(w, 1, k)) = IF 1 <= k THEN k - 1 + 1 ELSE 0
      /\ \A i \in 1 .. k - 1 + 1 : SubSeq(w, 1, k)[i] = w[1 + i - 1]
  BY <1>2, <1>4, SubSeqProperties
<1>6. Len(SubSeq(w, 1, k)) = k
  BY <1>2, <1>5
<1>7. \A i \in 1 .. k : SubSeq(w, 1, k)[i] = w[i]
  BY <1>2, <1>5
<1> QED
  BY <1>2, <1>3, <1>5, <1>6, <1>7 DEF w, k, S

LEMMA BodyArrives ==
    ASSUME NEW m, m.blanks \in Nat, m.chunked \in BOOLEAN, m.pieces \in Nat, Arrived(m) # <<>>
    PROVE  /\ Arriving(m) >= 1
           /\ Tail(Arrived(m)) \in Seq(Stuff(m)) /\ Len(Tail(Arrived(m))) = Arriving(m) - 1
           /\ \A i \in 1 .. Arriving(m) - 1 : Tail(Arrived(m))[i] = Wire(m)[i + 1]
<1> DEFINE a == Arrived(m)  k == Arriving(m)  S == Stuff(m)  t == Tail(a)
<1>1. k \in Nat /\ a \in Seq(S) /\ Len(a) = k /\ \A i \in 1 .. k : a[i] = Wire(m)[i]
  BY WhatArrives
<1> HIDE DEF a, k, S
<1>2. t \in Seq(S) /\ Len(t) = Len(a) - 1 /\ \A i \in 1 .. Len(t) : t[i] = a[i + 1]
  BY <1>1, HeadTailProperties DEF a
<1>3. k # 0
  BY <1>1, EmptySeq DEF a
<1> HIDE DEF t
<1>4. ASSUME NEW i \in 1 .. k - 1 PROVE t[i] = Wire(m)[i + 1]
  <2>1. i \in 1 .. Len(t) /\ i + 1 \in 1 .. k
    BY <1>1, <1>2
  <2> QED
    BY <1>1, <1>2, <2>1
<1> QED
  BY <1>1, <1>2, <1>3, <1>4 DEF a, k, S, t

LEMMA ChunksArrive ==
    ASSUME NEW m, m.blanks \in Nat, m.chunked \in BOOLEAN, m.pieces \in Nat, Arrived(m) # <<>>, m.chunked
    PROVE  Framed(m, Tail(Arrived(m)))
<1> DEFINE t == Tail(Arrived(m))  k == Arriving(m)  b == m.blanks  w == Wire(m)
<1>1. /\ k >= 1 /\ t \in Seq(Stuff(m)) /\ Len(t) = k - 1
      /\ \A i \in 1 .. k - 1 : t[i] = w[i + 1]
  BY BodyArrives
<1>2. /\ Len(w) = 7 + b /\ w[2] = Size(2) /\ w[4] = m.fields
      /\ w[5] = Size(1 + b) /\ w[7 + b] = Size(0)
  BY WireChunked
<1>3. k \in Nat /\ k <= 7 + b
  BY <1>2, WhatArrives
<1> HIDE DEF t, k, w
<1>4. /\ 1 <= k - 1 => 1 \in 1 .. k - 1
      /\ 3 <= k - 1 => 3 \in 1 .. k - 1
      /\ 4 <= k - 1 => 4 \in 1 .. k - 1
      /\ 6 + b <= k - 1 => 6 + b \in 1 .. k - 1
      /\ 1 + 1 = 2 /\ 3 + 1 = 4 /\ 4 + 1 = 5 /\ (6 + b) + 1 = 7 + b /\ k - 1 <= 6 + b
  BY <1>3
<1>5. /\ 1 <= Len(t) => t[1] = Size(2)
      /\ 3 <= Len(t) => t[3] = m.fields
      /\ 4 <= Len(t) => t[4] = Size(1 + b)
      /\ 6 + b <= Len(t) => t[6 + b] = Size(0)
      /\ Len(t) <= 6 + b
  BY ONLY <1>1, <1>2, <1>4
<1> QED
  BY <1>1, <1>5 DEF Framed, t

LEMMA ReplyOf ==
    ASSUME NEW m, NEW body, ~ Failed(body)
    PROVE  LET reply == WithBody(m, body)
           IN  /\ ~ Failed(reply) /\ reply.status = m.status /\ reply.body = body.body
               /\ reply.location # Nowhere => reply.status \in 300 .. 399
<1>1. WithBody(m, body) = [status |-> m.status, body |-> body.body,
                           location |-> IF m.status \in 300 .. 399 THEN m.location ELSE Nowhere]
  BY DEF WithBody
<1> QED
  BY <1>1 DEF Failed

(* What a reply tells of who has sent it: all, if it has come whole.       *)
Tells(m, reply) ==
    ~ Failed(reply) =>
        /\ m.comes = "reply" /\ m.ends # "open" /\ reply.status = m.status
        /\ reply.location # Nowhere => reply.status \in 300 .. 399
        /\ IF Whole(m) THEN Json(reply.body) = m.fields ELSE ~ m.chunked

LEMMA PlainReply ==
    ASSUME NEW m, Met(m), m.comes = "reply", m.ends # "open", ~ m.chunked, Arrived(m) # <<>>
    PROVE  ~ Failed(ParseResponse(m)) /\ Tells(m, ParseResponse(m))
<1> DEFINE t == Tail(Arrived(m))
           body == [body |-> t]
<1>1. m.blanks \in Nat /\ m.pieces \in Nat /\ m.chunked \in BOOLEAN
  BY DEF Met
<1>2. ParseResponse(m) = WithBody(m, body)
  BY DEF ParseResponse
<1>3. ~ Failed(body) /\ body.body = t
  BY DEF Failed
<1>4. ASSUME Whole(m) PROVE Json(t) = m.fields
  <2>1. Len(Wire(m)) = 4 + m.blanks /\ Wire(m)[3] = m.fields
    BY <1>1, WirePlain
  <2>2. Arriving(m) = 4 + m.blanks
    BY <1>1, <1>4, <2>1, WhatArrives DEF Whole
  <2>3. Len(t) = Arriving(m) - 1 /\ \A i \in 1 .. Arriving(m) - 1 : t[i] = Wire(m)[i + 1]
    BY <1>1, BodyArrives
  <2> HIDE DEF t
  <2>4. (4 + m.blanks) - 1 = 3 + m.blanks /\ 2 \in 1 .. 3 + m.blanks /\ 2 + 1 = 3 /\ ~ 3 + m.blanks < 3
    BY <1>1
  <2>5. Len(t) = 3 + m.blanks /\ t[2] = m.fields
    BY ONLY <2>1, <2>2, <2>3, <2>4
  <2> QED
    BY <2>4, <2>5 DEF Json
<1> HIDE DEF t, body
<1>5. /\ ~ Failed(WithBody(m, body)) /\ WithBody(m, body).status = m.status /\ WithBody(m, body).body = t
      /\ WithBody(m, body).location # Nowhere => WithBody(m, body).status \in 300 .. 399
  BY <1>3, ReplyOf
<1> QED
  BY <1>2, <1>4, <1>5 DEF Tells

LEMMA ChunkedReply ==
    ASSUME NEW m, Met(m), m.comes = "reply", m.ends # "open", m.chunked, Arrived(m) # <<>>,
           MaxBody \in Nat, Arriving(m) <= MaxBody
    PROVE  (Whole(m) => ~ Failed(ParseResponse(m))) /\ Tells(m, ParseResponse(m))
<1> DEFINE t == Tail(Arrived(m))
           body == Dechunk(t)
<1>1. m.blanks \in Nat /\ m.pieces \in Nat /\ m.chunked \in BOOLEAN
  BY DEF Met
<1>2. ParseResponse(m) = WithBody(m, body)
  BY DEF ParseResponse
<1>3. IF Fully(m, t) THEN ~ Failed(body) /\ Len(body.body) = 3 + m.blanks /\ body.body[2] = m.fields
                     ELSE Failed(body)
  BY <1>1, ChunksArrive, DechunkMeans
<1>4. Whole(m) <=> Fully(m, t)
  <2>1. Len(Wire(m)) = 7 + m.blanks
    BY <1>1, WireChunked
  <2>2. /\ Arriving(m) \in Nat /\ (m.pieces >= Len(Wire(m)) <=> Arriving(m) = Len(Wire(m)))
        /\ Len(t) = Arriving(m) - 1
    BY <1>1, WhatArrives, BodyArrives
  <2> HIDE DEF t
  <2>3. Fully(m, t) <=> Arriving(m) = 7 + m.blanks
    BY <1>1, <2>2 DEF Fully
  <2>4. Whole(m) <=> Arriving(m) = 7 + m.blanks
    BY <1>1, <2>1, <2>2 DEF Whole
  <2> QED
    BY <2>3, <2>4
<1> HIDE DEF t, body
<1>5. CASE Fully(m, t)
  <2>1. ~ Failed(body) /\ Len(body.body) = 3 + m.blanks /\ body.body[2] = m.fields
    BY <1>3, <1>5
  <2>2. /\ ~ Failed(WithBody(m, body)) /\ WithBody(m, body).status = m.status
        /\ WithBody(m, body).body = body.body
        /\ WithBody(m, body).location # Nowhere => WithBody(m, body).status \in 300 .. 399
    BY <2>1, ReplyOf
  <2>3. Json(body.body) = m.fields
    <3>1. ~ 3 + m.blanks < 3
      BY <1>1
    <3> QED
      BY <2>1, <3>1 DEF Json
  <2> QED
    BY <1>2, <1>4, <1>5, <2>2, <2>3 DEF Tells
<1>6. CASE ~ Fully(m, t)
  <2>1. Failed(body) /\ WithBody(m, body) = body
    BY <1>3, <1>6 DEF WithBody
  <2> QED
    BY <1>2, <1>4, <1>6, <2>1 DEF Tells
<1> QED
  BY <1>5, <1>6

LEMMA ExchangeMeans ==
    ASSUME NEW url, NEW m, Met(m), MaxBody \in Nat
    PROVE  /\ Whole(m) => url = BadUrl \/ ~ Failed(Exchange(url, m))
           /\ url = BadUrl => Exchange(url, m) = Error("badurl")
           /\ Tells(m, Exchange(url, m))
<1> DEFINE reply == Exchange(url, m)
<1>1. \A what : Failed(Error(what))
  BY DEF Failed, Error
<1>2. CASE url = BadUrl
  <2>1. reply = Error("badurl")
    BY <1>2 DEF Exchange
  <2> QED
    BY <1>1, <1>2, <2>1 DEF Tells
<1>3. CASE url # BadUrl /\ m.comes # "reply"
  <2>1. reply = Error(m.comes)
    BY <1>3 DEF Exchange
  <2> QED
    BY <1>1, <1>3, <2>1 DEF Tells, Whole
<1>4. CASE url # BadUrl /\ m.comes = "reply"
  <2>1. m.blanks \in Nat /\ m.pieces \in Nat /\ m.chunked \in BOOLEAN
    BY <1>4 DEF Met
  <2>2. /\ Arriving(m) \in Nat /\ (m.pieces >= Len(Wire(m)) <=> Arriving(m) = Len(Wire(m)))
        /\ Len(Arrived(m)) = Arriving(m) /\ Len(Wire(m)) \in Nat /\ Len(Wire(m)) >= 4
    BY <2>1, WhatArrives, WireType
  <2>3. Whole(m) => m.pieces # 0 /\ Arriving(m) # 0 /\ Arriving(m) <= MaxBody
    BY <2>1, <2>2 DEF Whole
  <2>4. CASE ~ Arriving(m) > MaxBody /\ m.ends = "open"
    <3>1. reply = Error("timeout")
      BY <1>4, <2>2, <2>4 DEF Exchange
    <3> QED
      BY <1>1, <1>4, <2>4, <3>1 DEF Tells, Whole
  <2>7. CASE ~ Arriving(m) > MaxBody /\ m.ends = "abrupt" /\ m.pieces = 0
    <3>1. reply = Error("io")
      BY <1>4, <2>2, <2>7 DEF Exchange
    <3> QED
      BY <1>1, <1>4, <2>3, <2>7, <3>1 DEF Tells
  <2>5. CASE Arriving(m) > MaxBody
    <3>1. reply = Error("oversize")
      BY <1>4, <2>2, <2>5 DEF Exchange
    <3>2. ~ Whole(m)
      BY <2>2, <2>3, <2>5
    <3> QED
      BY <1>1, <1>4, <3>1, <3>2 DEF Tells
  <2>6. CASE /\ ~ Arriving(m) > MaxBody /\ m.ends # "open"
             /\ ~ (m.ends = "abrupt" /\ m.pieces = 0)
    <3>1. reply = ParseResponse(m)
      BY <1>4, <2>2, <2>6 DEF Exchange
    <3>2. CASE Arrived(m) = <<>>
      <4>1. reply = Error("incomplete")
        BY <3>1, <3>2 DEF ParseResponse
      <4>2. ~ Whole(m)
        BY <2>2, <2>3, <3>2
      <4> QED
        BY <1>1, <1>4, <4>1, <4>2 DEF Tells
    <3>3. CASE Arrived(m) # <<>> /\ m.chunked
      <4>1. Arriving(m) <= MaxBody
        BY <2>2, <2>6
      <4> QED
        BY <1>4, <2>6, <3>1, <3>3, <4>1, ChunkedReply
    <3>4. CASE Arrived(m) # <<>> /\ ~ m.chunked
      BY <1>4, <2>6, <3>1, <3>4, PlainReply
    <3> QED
      BY <3>2, <3>3, <3>4
  <2> QED
    BY <2>4, <2>5, <2>6, <2>7
<1> QED
  BY <1>2, <1>3, <1>4

-----------------------------------------------------------------------------
(* Redirects.                                                              *)
(* Its first k exchanges, as a function.                                   *)
Hops(script, from, request, k, f) ==
    f = [n \in 0 .. k |-> IF n = 0 THEN Begins(from, request) ELSE Hop(script, f[n - 1])]

LEMMA HopsExist ==
    ASSUME NEW script, NEW from, NEW request, NEW k \in Nat PROVE \E f : Hops(script, from, request, k, f)
<1> DEFINE T == {n \in Nat : \E f : Hops(script, from, request, n, f)}
<1>1. 0 \in T
  <2> DEFINE f == [n \in 0 .. 0 |-> Begins(from, request)]
  <2>1. \A n \in 0 .. 0 : n = 0
    OBVIOUS
  <2>2. Hops(script, from, request, 0, f)
    BY <2>1 DEF Hops
  <2> QED
    BY <2>2
<1>2. ASSUME NEW n \in Nat, n \in T PROVE n + 1 \in T
  <2>1. PICK f : Hops(script, from, request, n, f)
    BY <1>2
  <2> DEFINE last == Hop(script, f[n])
             g == [i \in 0 .. n + 1 |-> IF i <= n THEN f[i] ELSE last]
             step == [i \in 0 .. n + 1 |-> IF i = 0 THEN Begins(from, request) ELSE Hop(script, g[i - 1])]
  <2>2. \A i \in 0 .. n + 1 : g[i] = IF i <= n THEN f[i] ELSE last
    OBVIOUS
  <2>3. \A i \in 0 .. n : f[i] = IF i = 0 THEN Begins(from, request) ELSE Hop(script, f[i - 1])
    BY <2>1 DEF Hops
  <2> HIDE DEF last
  <2>4. ASSUME NEW i \in 0 .. n + 1 PROVE g[i] = step[i]
    <3>1. CASE i = 0
      BY <2>2, <2>3, <3>1
    <3>2. CASE i \in 1 .. n
      <4>1. g[i] = f[i] /\ g[i - 1] = f[i - 1] /\ i # 0
        BY <2>2, <3>2
      <4>2. step[i] = Hop(script, g[i - 1])
        BY <3>2
      <4>3. f[i] = Hop(script, f[i - 1])
        BY <2>3, <3>2
      <4> QED
        BY <4>1, <4>2, <4>3
    <3>3. CASE i = n + 1
      <4>1. g[i] = last /\ g[i - 1] = f[n]
        BY <2>2, <3>3
      <4>2. step[i] = Hop(script, g[i - 1])
        BY <3>3
      <4> QED
        BY <4>1, <4>2 DEF last
    <3> QED
      BY <3>1, <3>2, <3>3
  <2>5. g = step
    BY <2>4
  <2>6. Hops(script, from, request, n + 1, g)
    BY <2>5 DEF Hops
  <2> QED
    BY <2>6
<1>3. T = Nat
  BY <1>1, <1>2, Downwards
<1> QED
  BY <1>3

LEMMA LastLegHops ==
    ASSUME NEW script, NEW from, NEW request, MaxRedirects + 1 \in Nat
    PROVE  \E f : /\ LastLeg(script, from, request) = f[MaxRedirects + 1] /\ f[0] = Begins(from, request)
                  /\ \A n \in 1 .. MaxRedirects + 1 : f[n] = Hop(script, f[n - 1])
<1> DEFINE f == CHOOSE f : Hops(script, from, request, MaxRedirects + 1, f)
<1>1. Hops(script, from, request, MaxRedirects + 1, f)
  BY HopsExist
<1>2. LastLeg(script, from, request) = f[MaxRedirects + 1]
  BY DEF LastLeg, Hops
<1> HIDE DEF f
<1>3. f[0] = Begins(from, request) /\ \A n \in 1 .. MaxRedirects + 1 : f[n] = Hop(script, f[n - 1])
  BY <1>1 DEF Hops
<1> QED
  BY <1>2, <1>3

LEMMA MeetsMet ==
    ASSUME NEW script, script \in Seq(ToSet(script)), script # <<>>, \A m \in ToSet(script) : Met(m),
           NEW n \in Nat \ {0}
    PROVE  Met(Meets(script, n))
<1> DEFINE i == IF n < Len(script) THEN n ELSE Len(script)
<1>1. Len(script) \in Nat /\ Len(script) # 0
  BY LenProperties, EmptySeq
<1>2. i \in 1 .. Len(script)
  BY <1>1
<1>3. Meets(script, n) = script[i]
  BY DEF Meets
<1> HIDE DEF i
<1>4. script[i] \in ToSet(script)
  BY <1>2, ElementOfSeq
<1> QED
  BY <1>3, <1>4

(* One that sends on to another has replied.                               *)
Forwards(m) == m.comes = "reply" /\ m.status \in 300 .. 399

Told(request, content) == request.content = content \/ request.method = "GET"

LegInv(script, from, content, leg) ==
    /\ leg.n \in Nat /\ leg.n >= from
    /\ \A i \in from .. leg.n - 1 : Forwards(Meets(script, i))
    /\ Told(leg.request, content)
    /\ leg.over \in BOOLEAN
    /\ leg.over => \E url : leg.result = Exchange(url, Meets(script, leg.n))

LEMMA HopKeeps ==
    ASSUME NEW script, \A n \in Nat \ {0} : Met(Meets(script, n)), MaxBody \in Nat,
           NEW from \in Nat \ {0}, NEW content, NEW leg, LegInv(script, from, content, leg)
    PROVE  /\ LegInv(script, from, content, Hop(script, leg))
           /\ ~ Hop(script, leg).over => ~ leg.over /\ Hop(script, leg).n = leg.n + 1
<1> DEFINE next == Hop(script, leg)
           m == Meets(script, leg.n)
           reply == Exchange(leg.request.url, m)
<1>1. leg.n \in Nat \ {0} /\ leg.n >= from /\ leg.over \in BOOLEAN
  BY DEF LegInv
<1>2. CASE leg.over
  <2>1. next = leg
    BY <1>2 DEF Hop
  <2> QED
    BY <1>2, <2>1
<1>3. CASE ~ leg.over /\ SendsOn(reply)
  <2> DEFINE after == AfterRedirect(leg.request, reply.status, reply.location)
  <2>1. next = Begins(leg.n + 1, after)
    BY <1>3 DEF Hop, AfterReply
  <2>2. next.n = leg.n + 1 /\ next.request = after /\ next.over = FALSE
    BY <2>1 DEF Leg, Begins
  <2>3. Forwards(m)
    <3>1. Met(m)
      BY <1>1
    <3>2. Tells(m, reply)
      BY <3>1, ExchangeMeans
    <3> QED
      BY <1>3, <3>2 DEF Tells, SendsOn, Forwards
  <2>4. Told(after, content)
    <3>1. Told(leg.request, content)
      BY DEF LegInv
    <3>2. /\ after.method = (IF reply.status \in 301 .. 303 THEN "GET" ELSE leg.request.method)
          /\ after.content = (IF reply.status \in 301 .. 303 THEN {} ELSE leg.request.content)
      BY DEF AfterRedirect
    <3> HIDE DEF after, reply
    <3> QED
      BY <3>1, <3>2 DEF Told
  <2> HIDE DEF next, after, reply
  <2>5. \A i \in from .. (leg.n + 1) - 1 : i \in from .. leg.n - 1 \/ i = leg.n
    BY <1>1
  <2>6. \A i \in from .. next.n - 1 : Forwards(Meets(script, i))
    BY <2>2, <2>3, <2>5 DEF LegInv
  <2>7. next.n \in Nat /\ next.n >= from
    BY <1>1, <2>2
  <2> QED
    BY <1>3, <2>2, <2>4, <2>6, <2>7 DEF LegInv, next
<1>4. CASE ~ leg.over /\ ~ SendsOn(reply)
  <2>1. next = Leg(leg.n, leg.request, TRUE, reply)
    BY <1>4 DEF Hop, AfterReply
  <2>2. next.n = leg.n /\ next.request = leg.request /\ next.over = TRUE /\ next.result = reply
    BY <2>1 DEF Leg
  <2>3. \E url : next.result = Exchange(url, Meets(script, next.n))
    BY <2>2
  <2> HIDE DEF next
  <2> QED
    BY <2>2, <2>3 DEF LegInv, next
<1> QED
  BY <1>1, <1>2, <1>3, <1>4

(* What has been asked, from the first to the last: all but the last have  *)
(* sent on, and the last as well if it is given up.                        *)
LEMMA FollowMeans ==
    ASSUME NEW script, \A n \in Nat \ {0} : Met(Meets(script, n)), MaxBody \in Nat, MaxRedirects \in Nat,
           NEW from \in Nat \ {0}, NEW request
    PROVE  LET sent == Follow(script, from, request)
           IN  /\ sent.n \in Nat /\ sent.n >= from
               /\ \A i \in from .. sent.n - 1 : Forwards(Meets(script, i))
               /\ Told(sent.request, request.content)
               /\ \/ sent.result = Error("redirects") /\ Forwards(Meets(script, sent.n))
                  \/ \E url : sent.result = Exchange(url, Meets(script, sent.n))
<1> DEFINE K == MaxRedirects + 1
           sent == Follow(script, from, request)
           content == request.content
<1>1. PICK f : /\ LastLeg(script, from, request) = f[K] /\ f[0] = Begins(from, request)
               /\ \A n \in 1 .. K : f[n] = Hop(script, f[n - 1])
  BY LastLegHops
<1> DEFINE Good(n) == LegInv(script, from, content, f[n]) /\ (~ f[n].over => f[n].n = from + n)
           T == {n \in Nat : n <= K => Good(n)}
<1>2. 0 \in T
  <2>1. f[0].n = from /\ f[0].request = request /\ f[0].over = FALSE
    BY <1>1 DEF Leg, Begins
  <2>2. \A i \in from .. from - 1 : FALSE
    OBVIOUS
  <2>3. LegInv(script, from, content, f[0])
    <3>1. f[0].n \in Nat /\ f[0].n >= from
      BY <2>1
    <3>2. \A i \in from .. f[0].n - 1 : Forwards(Meets(script, i))
      BY <2>1, <2>2
    <3>3. Told(f[0].request, content) /\ f[0].over \in BOOLEAN /\ ~ f[0].over
      BY <2>1 DEF Told
    <3> QED
      BY ONLY <3>1, <3>2, <3>3 DEF LegInv
  <2> QED
    BY <2>1, <2>3
<1>3. ASSUME NEW n \in Nat, n \in T PROVE n + 1 \in T
  <2> SUFFICES ASSUME n + 1 <= K PROVE Good(n + 1)
    OBVIOUS
  <2>1. n + 1 \in 1 .. K /\ (n + 1) - 1 = n /\ n <= K
    OBVIOUS
  <2>2. f[n + 1] = Hop(script, f[n]) /\ Good(n)
    BY <1>1, <1>3, <2>1
  <2>3. LegInv(script, from, content, f[n + 1]) /\ (~ f[n + 1].over => ~ f[n].over /\ f[n + 1].n = f[n].n + 1)
    <3> HIDE DEF content
    <3>1. /\ LegInv(script, from, content, Hop(script, f[n]))
          /\ ~ Hop(script, f[n]).over => ~ f[n].over /\ Hop(script, f[n]).n = f[n].n + 1
      BY <2>2, HopKeeps
    <3> QED
      BY <2>2, <3>1
  <2>4. ~ f[n + 1].over => f[n + 1].n = from + (n + 1)
    BY <2>2, <2>3
  <2> QED
    BY <2>3, <2>4
<1>4. T = Nat
  BY <1>2, <1>3, Downwards
<1>5. K \in Nat /\ K >= 1 /\ K <= K
  OBVIOUS
<1> DEFINE last == f[K]
<1>6. LegInv(script, from, content, last) /\ (~ last.over => last.n = from + K)
  BY <1>4, <1>5
<1>7. sent = IF last.over THEN last ELSE Leg(last.n - 1, last.request, TRUE, Error("redirects"))
  BY <1>1 DEF Follow, NoFurther
<1> HIDE DEF last, K, sent
<1>8. CASE last.over
  BY <1>6, <1>7, <1>8 DEF LegInv, sent
<1>9. CASE ~ last.over
  <2>1. sent.n = last.n - 1 /\ sent.request = last.request /\ sent.result = Error("redirects")
    BY <1>7, <1>9 DEF Leg
  <2>2. sent.n \in Nat /\ sent.n >= from /\ sent.n \in from .. last.n - 1
    BY <1>5, <1>6, <1>9, <2>1
  <2>3. Forwards(Meets(script, sent.n)) /\ Told(sent.request, content)
    BY <1>6, <2>1, <2>2 DEF LegInv
  <2>4. \A i \in from .. sent.n - 1 : i \in from .. last.n - 1
    BY <1>6, <2>1, <2>2
  <2>5. \A i \in from .. sent.n - 1 : Forwards(Meets(script, i))
    BY <1>6, <2>4 DEF LegInv
  <2> QED
    BY <2>1, <2>2, <2>3, <2>5 DEF sent
<1> QED
  BY <1>8, <1>9

-----------------------------------------------------------------------------
(* The attempts.                                                           *)
(* Its first k attempts, as a function.                                    *)
Tries(kind, payload, script, k, f) ==
    f = [n \in 0 .. k |-> IF n = 0 THEN NotYet ELSE Try(kind, payload, script, f[n - 1])]

LEMMA TriesExist ==
    ASSUME NEW kind, NEW payload, NEW script, NEW k \in Nat PROVE \E f : Tries(kind, payload, script, k, f)
<1> DEFINE T == {n \in Nat : \E f : Tries(kind, payload, script, n, f)}
<1>1. 0 \in T
  <2> DEFINE f == [n \in 0 .. 0 |-> NotYet]
  <2>1. \A n \in 0 .. 0 : n = 0
    OBVIOUS
  <2>2. Tries(kind, payload, script, 0, f)
    BY <2>1 DEF Tries
  <2> QED
    BY <2>2
<1>2. ASSUME NEW n \in Nat, n \in T PROVE n + 1 \in T
  <2>1. PICK f : Tries(kind, payload, script, n, f)
    BY <1>2
  <2> DEFINE last == Try(kind, payload, script, f[n])
             g == [i \in 0 .. n + 1 |-> IF i <= n THEN f[i] ELSE last]
             step == [i \in 0 .. n + 1 |-> IF i = 0 THEN NotYet ELSE Try(kind, payload, script, g[i - 1])]
  <2>2. \A i \in 0 .. n + 1 : g[i] = IF i <= n THEN f[i] ELSE last
    OBVIOUS
  <2>3. \A i \in 0 .. n : f[i] = IF i = 0 THEN NotYet ELSE Try(kind, payload, script, f[i - 1])
    BY <2>1 DEF Tries
  <2> HIDE DEF last
  <2>4. ASSUME NEW i \in 0 .. n + 1 PROVE g[i] = step[i]
    <3>1. CASE i = 0
      BY <2>2, <2>3, <3>1
    <3>2. CASE i \in 1 .. n
      <4>1. g[i] = f[i] /\ g[i - 1] = f[i - 1] /\ i # 0
        BY <2>2, <3>2
      <4>2. step[i] = Try(kind, payload, script, g[i - 1])
        BY <3>2
      <4>3. f[i] = Try(kind, payload, script, f[i - 1])
        BY <2>3, <3>2
      <4> QED
        BY <4>1, <4>2, <4>3
    <3>3. CASE i = n + 1
      <4>1. g[i] = last /\ g[i - 1] = f[n]
        BY <2>2, <3>3
      <4>2. step[i] = Try(kind, payload, script, g[i - 1])
        BY <3>3
      <4> QED
        BY <4>1, <4>2 DEF last
    <3> QED
      BY <3>1, <3>2, <3>3
  <2>5. g = step
    BY <2>4
  <2>6. Tries(kind, payload, script, n + 1, g)
    BY <2>5 DEF Tries
  <2> QED
    BY <2>6
<1>3. T = Nat
  BY <1>1, <1>2, Downwards
<1> QED
  BY <1>3

LEMMA DeliverTries ==
    ASSUME NEW kind, NEW payload, NEW script, Attempts \in Nat
    PROVE  \E f : /\ Deliver(kind, payload, script) = f[Attempts] /\ f[0] = NotYet
                  /\ \A n \in 1 .. Attempts : f[n] = Try(kind, payload, script, f[n - 1])
<1> DEFINE f == CHOOSE f : Tries(kind, payload, script, Attempts, f)
<1>1. Tries(kind, payload, script, Attempts, f)
  BY TriesExist
<1>2. Deliver(kind, payload, script) = f[Attempts]
  BY DEF Deliver, Tries
<1> HIDE DEF f
<1>3. f[0] = NotYet /\ \A n \in 1 .. Attempts : f[n] = Try(kind, payload, script, f[n - 1])
  BY <1>1 DEF Tries
<1> QED
  BY <1>2, <1>3

LEMMA AllIsBuilt ==
    ASSUME NEW kind, NEW payload, kind # "aliyunsms"
    PROVE  {payload.title, payload.body} \ {<<>>} \subseteq Build(kind, payload).content
<1>1. Build(kind, payload).content = Content(kind, payload)
  BY DEF Build
<1>2. CASE kind \in {"ntfy", "bark", "serverchan"}
  BY <1>1, <1>2 DEF Content
<1>3. CASE kind \notin {"ntfy", "bark", "serverchan"}
  <2>1. Content(kind, payload) = ToSet(Joined(payload))
    BY <1>3 DEF Content
  <2>2. ASSUME NEW x \in {payload.title, payload.body}, x # <<>> PROVE x \in ToSet(Joined(payload))
    <3>1. CASE payload.title = <<>>
      <4>1. Joined(payload) = <<payload.body>> /\ x = payload.body
        BY <2>2, <3>1 DEF Joined
      <4>2. 1 \in DOMAIN <<payload.body>> /\ <<payload.body>>[1] = payload.body
        OBVIOUS
      <4> QED
        BY ONLY <4>1, <4>2 DEF ToSet
    <3>2. CASE payload.title # <<>> /\ payload.body = <<>>
      <4>1. Joined(payload) = <<payload.title>> /\ x = payload.title
        BY <2>2, <3>2 DEF Joined
      <4>2. 1 \in DOMAIN <<payload.title>> /\ <<payload.title>>[1] = payload.title
        OBVIOUS
      <4> QED
        BY ONLY <4>1, <4>2 DEF ToSet
    <3>3. CASE payload.title # <<>> /\ payload.body # <<>>
      <4> DEFINE s == <<payload.title, payload.body>>
      <4>1. Joined(payload) = s
        BY <3>3 DEF Joined
      <4>2. 1 \in DOMAIN s /\ s[1] = payload.title /\ 2 \in DOMAIN s /\ s[2] = payload.body
        OBVIOUS
      <4> HIDE DEF s
      <4> QED
        BY <2>2, <4>1, <4>2 DEF ToSet
    <3> QED
      BY <3>1, <3>2, <3>3
  <2> QED
    BY <1>1, <2>1, <2>2
<1> QED
  BY <1>2, <1>3

(* It has come whole, and says yes or no for good.                         *)
Verdict(kind, m) == Whole(m) /\ (TakenBy(kind, m) \/ m.status \in 400 .. 428)

LEMMA ForwardsIsNone ==
    ASSUME NEW kind, NEW m, Met(m), Forwards(m) PROVE ~ Verdict(kind, m)
  BY DEF Met, Forwards, Verdict, TakenBy, Works

(* Whoever has sent a verdict is not asked again.                          *)
LEMMA VerdictEnds ==
    ASSUME NEW kind, NEW m, Met(m), MaxBody \in Nat, NEW url, Verdict(kind, m),
           NEW result, result = Exchange(url, m)
    PROVE  (~ Failed(result) /\ Check(kind, result)) \/ ~ Retryable(result)
<1>1. Whole(m) /\ m.comes = "reply" /\ m.status \in Nat
  BY DEF Verdict, Whole, Met
<1>2. Tells(m, result) /\ (url = BadUrl \/ ~ Failed(result)) /\ (url = BadUrl => result = Error("badurl"))
  BY <1>1, ExchangeMeans
<1>3. CASE url = BadUrl
  <2>1. Failed(result) /\ result.error = "badurl"
    BY <1>2, <1>3 DEF Failed, Error
  <2> QED
    BY <2>1 DEF Retryable
<1>4. CASE ~ Failed(result)
  <2>1. result.status = m.status /\ Json(result.body) = m.fields
    BY <1>1, <1>2, <1>4 DEF Tells
  <2>2. CASE TakenBy(kind, m)
    BY <1>4, <2>1, <2>2 DEF TakenBy, Check
  <2>3. CASE m.status \in 400 .. 428
    <3>1. ~ IsRetryableStatus(m.status)
      BY <1>1, <2>3 DEF IsRetryableStatus
    <3> QED
      BY <1>4, <2>1, <3>1 DEF Retryable
  <2> QED
    BY <2>2, <2>3 DEF Verdict
<1> QED
  BY <1>2, <1>3, <1>4

(* It is taken for an acceptance only as far as it tells.                  *)
Accepting(kind, m) ==
    m.ends # "open" /\ (TakenBy(kind, m) \/ (Works(m.status) /\ ~ m.chunked /\ ~ Whole(m)))

LEMMA AcceptedIsMeant ==
    ASSUME NEW kind, NEW m, Met(m), MaxBody \in Nat, NEW url, NEW result, result = Exchange(url, m),
           ~ Failed(result), Check(kind, result)
    PROVE  Accepting(kind, m)
<1>1. Tells(m, result)
  BY ExchangeMeans
<1>2. result.status = m.status /\ m.ends # "open" /\ IF Whole(m) THEN Json(result.body) = m.fields ELSE ~ m.chunked
  BY <1>1 DEF Tells
<1> QED
  BY <1>2 DEF Accepting, TakenBy, Check

(* What is known between two attempts.                                     *)
TryInv(kind, script, content, out) ==
    /\ out.met \in Nat /\ out.retryable \in BOOLEAN /\ out.ok \in BOOLEAN
    /\ \A i \in 1 .. out.met - 1 : ~ Verdict(kind, Meets(script, i))
    /\ out.retryable => \A i \in 1 .. out.met : ~ Verdict(kind, Meets(script, i))
    /\ out.ok => Accepting(kind, Meets(script, out.met)) /\ Told(out.request, content)

LEMMA TryKeeps ==
    ASSUME NEW kind, NEW payload, NEW script, \A n \in Nat \ {0} : Met(Meets(script, n)),
           MaxBody \in Nat, MaxRedirects \in Nat,
           NEW out, TryInv(kind, script, Build(kind, payload).content, out)
    PROVE  TryInv(kind, script, Build(kind, payload).content, Try(kind, payload, script, out))
<1> DEFINE request == Build(kind, payload)
           content == request.content
           from == out.met + 1
           sent == Follow(script, from, request)
           result == sent.result
           ok == ~ Failed(result) /\ Check(kind, result)
           next == Try(kind, payload, script, out)
<1>1. out.met \in Nat /\ out.retryable \in BOOLEAN
  BY DEF TryInv
<1>2. CASE ~ out.retryable
  <2>1. next = out
    BY <1>2 DEF Try
  <2> QED
    BY <2>1
<1>3. CASE out.retryable
  <2>1. next = [ok |-> ok, attempts |-> out.attempts + 1, met |-> sent.n, request |-> sent.request,
                retryable |-> ~ ok /\ Retryable(result)]
    BY <1>3 DEF Try, AfterTry
  <2>2. from \in Nat \ {0}
    BY <1>1
  <2>3. /\ sent.n \in Nat /\ sent.n >= from
        /\ \A i \in from .. sent.n - 1 : Forwards(Meets(script, i))
        /\ Told(sent.request, content)
        /\ \/ result = Error("redirects") /\ Forwards(Meets(script, sent.n))
           \/ \E url : result = Exchange(url, Meets(script, sent.n))
    BY <2>2, FollowMeans
  <2>4. \A i \in 1 .. out.met : ~ Verdict(kind, Meets(script, i))
    BY <1>3 DEF TryInv
  <2> DEFINE m == Meets(script, sent.n)
  <2> HIDE DEF next, sent, content, from
  <2>5. Met(m)
    <3>1. sent.n \in Nat \ {0}
      BY <2>2, <2>3
    <3> QED
      BY <3>1
  <2>6. /\ next.ok = ok /\ next.met = sent.n /\ next.request = sent.request
        /\ next.retryable = (~ ok /\ Retryable(result))
    BY <2>1
  <2>7. \A i \in 1 .. sent.n - 1 : ~ Verdict(kind, Meets(script, i))
    <3> SUFFICES ASSUME NEW i \in 1 .. sent.n - 1 PROVE ~ Verdict(kind, Meets(script, i))
      OBVIOUS
    <3>1. CASE i \in 1 .. out.met
      BY <2>4, <3>1
    <3>2. CASE i \in from .. sent.n - 1
      <4>1. Forwards(Meets(script, i)) /\ i \in Nat \ {0}
        BY <2>2, <2>3, <3>2
      <4> QED
        BY <4>1, ForwardsIsNone
    <3>3. i \in 1 .. out.met \/ i \in from .. sent.n - 1
      BY <1>1, <2>3 DEF from
    <3> QED
      BY <3>1, <3>2, <3>3
  <2>8. ASSUME ~ ok, Retryable(result) PROVE ~ Verdict(kind, m)
    <3>1. CASE Forwards(m)
      BY <2>5, <3>1, ForwardsIsNone
    <3>2. CASE \E url : result = Exchange(url, m)
      <4>1. PICK url : result = Exchange(url, m)
        BY <3>2
      <4> QED
        BY <2>5, <2>8, <4>1, VerdictEnds
    <3> QED
      BY <2>3, <3>1, <3>2
  <2>9. ASSUME ok PROVE Accepting(kind, m)
    <3>1. ~ Failed(result) /\ Check(kind, result)
      BY <2>9
    <3>2. PICK url : result = Exchange(url, m)
      BY <2>3, <3>1 DEF Failed, Error
    <3> QED
      BY <2>5, <3>1, <3>2, AcceptedIsMeant
  <2> HIDE DEF ok, result, m
  <2>10. next.met \in Nat /\ next.retryable \in BOOLEAN /\ next.ok \in BOOLEAN
    BY <2>3, <2>6 DEF ok
  <2>11. \A i \in 1 .. next.met - 1 : ~ Verdict(kind, Meets(script, i))
    BY <2>6, <2>7
  <2>12. ASSUME next.retryable PROVE \A i \in 1 .. next.met : ~ Verdict(kind, Meets(script, i))
    <3>1. ~ Verdict(kind, Meets(script, sent.n))
      BY <2>6, <2>8, <2>12 DEF m
    <3>2. \A i \in 1 .. sent.n : i \in 1 .. sent.n - 1 \/ i = sent.n
      BY <2>3
    <3> QED
      BY <2>6, <2>7, <3>1, <3>2
  <2>13. ASSUME next.ok PROVE Accepting(kind, Meets(script, next.met)) /\ Told(next.request, content)
    BY <2>3, <2>6, <2>9, <2>13 DEF m
  <2> QED
    BY <2>10, <2>11, <2>12, <2>13 DEF TryInv, next, content
<1> QED
  BY <1>1, <1>2, <1>3

LEMMA DeliverMeans ==
    ASSUME NEW kind, NEW payload, NEW script, \A n \in Nat \ {0} : Met(Meets(script, n)), RepliesAssumption
    PROVE  TryInv(kind, script, Build(kind, payload).content, Deliver(kind, payload, script))
<1> DEFINE content == Build(kind, payload).content
<1>1. Attempts \in Nat /\ MaxRedirects \in Nat /\ MaxBody \in Nat
  BY DEF RepliesAssumption
<1>2. PICK f : /\ Deliver(kind, payload, script) = f[Attempts] /\ f[0] = NotYet
               /\ \A n \in 1 .. Attempts : f[n] = Try(kind, payload, script, f[n - 1])
  BY <1>1, DeliverTries
<1> DEFINE T == {n \in Nat : n <= Attempts => TryInv(kind, script, content, f[n])}
<1>3. 0 \in T
  <2>1. f[0].met = 0 /\ f[0].retryable = TRUE /\ f[0].ok = FALSE
    BY <1>2 DEF NotYet
  <2>2. (\A i \in 1 .. 0 : FALSE) /\ (\A i \in 1 .. 0 - 1 : FALSE)
    OBVIOUS
  <2>3. f[0].met \in Nat /\ f[0].retryable \in BOOLEAN /\ f[0].ok \in BOOLEAN /\ ~ f[0].ok
    <3>1. f[0].met \in Nat
      BY ONLY <2>1
    <3>2. f[0].retryable \in BOOLEAN /\ f[0].ok \in BOOLEAN /\ ~ f[0].ok
      BY ONLY <2>1, Zenon
    <3> QED
      BY ONLY <3>1, <3>2
  <2>4. /\ \A i \in 1 .. f[0].met : ~ Verdict(kind, Meets(script, i))
        /\ \A i \in 1 .. f[0].met - 1 : ~ Verdict(kind, Meets(script, i))
    BY ONLY <2>1, <2>2
  <2>5. TryInv(kind, script, content, f[0])
    BY ONLY <2>3, <2>4 DEF TryInv
  <2> QED
    BY <2>5
<1>4. ASSUME NEW n \in Nat, n \in T PROVE n + 1 \in T
  <2> SUFFICES ASSUME n + 1 <= Attempts PROVE TryInv(kind, script, content, f[n + 1])
    OBVIOUS
  <2>1. n + 1 \in 1 .. Attempts /\ (n + 1) - 1 = n /\ n <= Attempts
    BY <1>1
  <2>2. f[n + 1] = Try(kind, payload, script, f[n]) /\ TryInv(kind, script, content, f[n])
    BY <1>2, <1>4, <2>1
  <2> QED
    BY <1>1, <2>2, TryKeeps
<1>5. T = Nat
  BY <1>3, <1>4, Downwards
<1>6. Attempts <= Attempts
  BY <1>1
<1> QED
  BY <1>1, <1>2, <1>5, <1>6

LEMMA Judged ==
    ASSUME NEW kind, NEW payload, NEW script, script \in Seq(ToSet(script)), script # <<>>,
           \A m \in ToSet(script) : Met(m), RepliesAssumption
    PROVE  /\ SuccessIsMeant(kind, payload, script)
           /\ NothingAfterTheVerdict(kind, payload, script)
           /\ AcceptedIsTold(kind, payload, script)
<1> DEFINE out == Deliver(kind, payload, script)
           content == Build(kind, payload).content
<1>1. \A n \in Nat \ {0} : Met(Meets(script, n))
  BY MeetsMet
<1>2. TryInv(kind, script, content, out)
  BY <1>1, DeliverMeans
<1>3. kind = "aliyunsms" \/ {payload.title, payload.body} \ {<<>>} \subseteq content
  BY AllIsBuilt
<1> HIDE DEF out, content
<1>4. SuccessIsMeant(kind, payload, script)
  BY <1>2 DEF TryInv, Accepting, SuccessIsMeant, out
<1>5. NothingAfterTheVerdict(kind, payload, script)
  BY <1>2 DEF TryInv, Verdict, NothingAfterTheVerdict, out
<1>6. AcceptedIsTold(kind, payload, script)
  <2>1. out.ok => Told(out.request, content)
    BY <1>2 DEF TryInv
  <2> QED
    BY <1>3, <2>1 DEF Told, AcceptedIsTold, out
<1> QED
  BY <1>4, <1>5, <1>6

-----------------------------------------------------------------------------
(* The theorems.                                                           *)

(* Whatever is asked is one of the questions.                              *)
Asked == asked = Nothing \/ asked \in Patterns \/ asked \in Sortings \/ asked \in Pagings
         \/ asked \in Deliveries

LEMMA AskedInit == Init => Asked
  BY DEF Init, Asked

LEMMA AskedNext == Asked /\ [AskAny]_asked => Asked'
  BY DEF AskAny, Ask, Asked

(* s2l-store/src/match_.rs, state.rs and pipeline.rs: whatever the         *)
(* messages, the groups and the patterns, a condition that what is kept of *)
(* a message can answer means the same at intake, when the history is      *)
(* sorted again, and for a rule.                                           *)
THEOREM VerdictsTheorem == QuestionsSpec => []SameVerdicts
<1>1. ASSUME Asked PROVE SameVerdicts
  <2>1. CASE asked = Nothing
    BY <2>1 DEF SameVerdicts, Nothing
  <2>2. CASE asked \in Patterns
    <3>1. asked.about = "pattern" /\ asked.text \in Seq(STRING) /\ asked.pattern \in Seq(STRING)
      BY <2>2, QuestionsAssumption
    <3>2. GlobAgrees(asked.text, asked.pattern)
      <4>1. "*" \notin ToSet(asked.text) => (Glob(asked.text, asked.pattern) <=> Fits(asked.text, asked.pattern))
        BY <3>1, GlobMeans
      <4>2. Glob(asked.text, asked.pattern) \in BOOLEAN /\ Fits(asked.text, asked.pattern) \in BOOLEAN
        BY DEF Glob, Fits, FitsFrom
      <4> QED
        BY <4>1, <4>2 DEF GlobAgrees
    <3> QED
      BY <3>1, <3>2 DEF SameVerdicts
  <2>3. CASE asked \in Sortings
    <3>1. Sorting(asked)
      BY <2>3, QuestionsAssumption
    <3>2. /\ asked.about = "sorting" /\ asked.groups \in Seq(ToSet(asked.groups))
          /\ asked.mail.text \in Seq(STRING) /\ PreviewChars \in Nat
          /\ \A a, b \in ToSet(asked.groups) : a.id = b.id => a = b
          /\ \A g \in ToSet(asked.groups) : \A c \in ToSet(g.matcher.conditions) :
                c.field \in Field /\ c.value \in Seq(STRING)
      BY <3>1, QuestionsAssumption DEF Sorting, PreviewAssumption
    <3>3. StaysInGroup(asked.groups, asked.mail)
      BY <3>2, GroupStays
    <3>4. CatchAllIsLast(asked.groups, AtIntake(asked.mail))
      BY <3>2, CatchAllTakesTheRest
    <3>5. \A g \in ToSet(asked.groups) : RuleAgrees(g.matcher, asked.mail, <<>>)
      BY <3>2, RuleSeesTheSame
    <3>6. AccessIsExact(asked.groups, AtIntake(asked.mail))
      BY AccessExact
    <3> QED
      BY <3>2, <3>3, <3>4, <3>5, <3>6 DEF SameVerdicts
  <2>4. CASE asked \in Pagings
    BY <2>4, QuestionsAssumption DEF Paging, SameVerdicts
  <2>5. CASE asked \in Deliveries
    BY <2>5, QuestionsAssumption DEF Delivering, SameVerdicts
  <2> QED
    BY <1>1, <2>1, <2>2, <2>3, <2>4, <2>5 DEF Asked
<1> QED
  BY <1>1, AskedInit, AskedNext, PTL DEF QuestionsSpec

(* lib.rs, query: whatever the messages, the query and the limits, the     *)
(* pages turned until one is empty leave out no message that stays; while  *)
(* nothing changes, they are the whole list, once and in order.            *)
THEOREM PagesTheorem == QuestionsSpec => []PagesCoverOnce
<1>1. ASSUME Asked PROVE PagesCoverOnce
  <2>1. CASE asked = Nothing
    BY <2>1 DEF PagesCoverOnce, Nothing
  <2>2. CASE asked \in Patterns
    BY <2>2, QuestionsAssumption DEF PagesCoverOnce
  <2>3. CASE asked \in Sortings
    BY <2>3, QuestionsAssumption DEF Sorting, PagesCoverOnce
  <2>4. CASE asked \in Pagings
    <3> DEFINE n == Len(asked.indexes)
    <3>1. Paging(asked) /\ QueriesAssumption
      BY <2>4, QuestionsAssumption
    <3>2. /\ n \in Nat /\ n >= 1 /\ DOMAIN asked.indexes = 1 .. n /\ asked.indexes # <<>>
          /\ \A k \in 1 .. n : asked.indexes[k] \in ToSet(asked.indexes)
      BY <3>1 DEF Paging
    <3>3. \A index \in ToSet(asked.indexes) : Known(index)
      BY <3>1 DEF Paging, Known
    <3>4. \A k \in 1 .. n : Known(asked.indexes[k])
      BY <3>2, <3>3
    <3>5. PagesMissNothing(asked.query, asked.indexes)
      BY <3>1, <3>2, <3>4, NothingIsMissed
    <3>6. PagesAreTheList(asked.query, asked.indexes[1], n)
      BY <3>1, <3>2, <3>4, AllOnPages
    <3> QED
      BY <3>5, <3>6 DEF PagesCoverOnce
  <2>5. CASE asked \in Deliveries
    BY <2>5, QuestionsAssumption DEF Delivering, PagesCoverOnce
  <2> QED
    BY <1>1, <2>1, <2>2, <2>3, <2>4, <2>5 DEF Asked
<1> QED
  BY <1>1, AskedInit, AskedNext, PTL DEF QuestionsSpec

(* http.rs, providers.rs and lib.rs (deliver): whatever the message, the   *)
(* kind and what the exchanges meet, a notification counts as delivered    *)
(* only if who was asked last has taken it, as far as its reply tells, and *)
(* has been told in full; and after a verdict that has come whole on a     *)
(* connection that has ended nothing is sent again.                        *)
THEOREM RepliesTheorem == QuestionsSpec => []RepliesJudged
<1>1. ASSUME Asked PROVE RepliesJudged
  <2>1. CASE asked = Nothing
    BY <2>1 DEF RepliesJudged, Nothing
  <2>2. CASE asked \in Patterns
    BY <2>2, QuestionsAssumption DEF RepliesJudged
  <2>3. CASE asked \in Sortings
    BY <2>3, QuestionsAssumption DEF Sorting, RepliesJudged
  <2>4. CASE asked \in Pagings
    BY <2>4, QuestionsAssumption DEF Paging, RepliesJudged
  <2>5. CASE asked \in Deliveries
    <3>1. Delivering(asked) /\ RepliesAssumption
      BY <2>5, QuestionsAssumption
    <3>2. /\ asked.script \in Seq(ToSet(asked.script)) /\ asked.script # <<>>
          /\ \A m \in ToSet(asked.script) : Met(m)
      BY <3>1 DEF Delivering
    <3> QED
      BY <3>1, <3>2, Judged DEF RepliesJudged
  <2> QED
    BY <1>1, <2>1, <2>2, <2>3, <2>4, <2>5 DEF Asked
<1> QED
  BY <1>1, AskedInit, AskedNext, PTL DEF QuestionsSpec
=============================================================================
