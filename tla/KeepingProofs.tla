---------------------------- MODULE KeepingProofs ----------------------------
(***************************************************************************)
(* Of MCHost, the parts that handle what is somebody's: a wing carried     *)
(* whole into another workspace, for any size of its pages, and the files  *)
(* of a user and an agent under the installer, for any command lines and   *)
(* any bounds; and with them the shape of every part.                      *)
(***************************************************************************)
EXTENDS HostProofs

-----------------------------------------------------------------------------
(* What of a sequence is among some values, in its order: the recursive    *)
(* function is there, and what it gives.                                   *)
Picked(s, those) ==
    LET picked[n \in 0..Len(s)] ==
            IF n = 0 THEN <<>>
            ELSE IF s[n] \in those THEN Append(picked[n - 1], s[n]) ELSE picked[n - 1]
    IN  picked[Len(s)]

Picks(s, T, k, m) == 
    k = [n \in 0..m |-> IF n = 0 THEN <<>>
            ELSE IF s[n] \in T THEN Append(k[n - 1], s[n]) ELSE k[n - 1]]

LEMMA Counting == ASSUME NEW P \in SUBSET Nat, 0 \in P, \A n \in P : n + 1 \in P PROVE P = Nat
<1> SUFFICES ASSUME P # Nat PROVE FALSE
  OBVIOUS
<1>1. PICK n \in Nat \ P : \A m \in Nat \ P : ~(m < n)
  <2> DEFINE R == OpToRel(<, Nat)
  <2>1. IsWellFoundedOn(R, Nat)
    BY NatLessThanWellFounded
  <2>2. \A x, y \in Nat : x < y => <<x, y>> \in R
    BY DEF OpToRel
  <2> HIDE DEF R
  <2> DEFINE T == Nat \ P
  <2>3. T \subseteq Nat /\ T # {}
    OBVIOUS
  <2> HIDE DEF T
  <2>4. PICK n \in T : \A m \in T : ~(<<m, n>> \in R)
    BY <2>1, <2>3, WFMin
  <2> QED BY <2>2, <2>3, <2>4 DEF T
<1>2. n # 0 /\ n - 1 \in Nat /\ n - 1 < n
  OBVIOUS
<1>3. n - 1 \in P
  BY <1>1, <1>2
<1>4. n - 1 + 1 = n
  OBVIOUS
<1> QED BY <1>1, <1>3, <1>4

LEMMA PicksExist == ASSUME NEW s, NEW T PROVE \A m \in Nat : \E k : Picks(s, T, k, m)
<1> DEFINE P == {m \in Nat : \E k : Picks(s, T, k, m)}
<1>1. 0 \in P
  <2> DEFINE k == [n \in 0..0 |-> <<>>]
  <2>1. Picks(s, T, k, 0)
    BY DEF Picks
  <2> QED BY <2>1
<1>2. ASSUME NEW m \in P PROVE m + 1 \in P
  <2>1. PICK k : Picks(s, T, k, m)
    OBVIOUS
  <2> DEFINE e == IF s[m+1] \in T THEN Append(k[m], s[m+1]) ELSE k[m]
  <2> DEFINE j == [n \in 0..m+1 |-> IF n = m + 1 THEN e ELSE k[n]]
  <2>2. \A n \in 0..m : j[n] = k[n]
    OBVIOUS
  <2>3. j[m+1] = e
    OBVIOUS
  <2>5. j = [n \in 0..m+1 |-> j[n]]
    OBVIOUS
  <2> HIDE DEF e, j
  <2>4. Picks(s, T, j, m+1)
    <3>1. \A n \in 0..m : k[n] = IF n = 0 THEN <<>>
            ELSE IF s[n] \in T THEN Append(k[n - 1], s[n]) ELSE k[n - 1]
      BY <2>1 DEF Picks
    <3>2. \A n \in 0..m+1 : j[n] = IF n = 0 THEN <<>>
            ELSE IF s[n] \in T THEN Append(j[n - 1], s[n]) ELSE j[n - 1]
      <4> TAKE n \in 0..m+1
      <4>1. CASE n = m+1
        BY <4>1, <2>2, <2>3 DEF e
      <4>2. CASE n \in 0..m
        BY <4>2, <2>2, <3>1
      <4> QED BY <4>1, <4>2
    <3> QED BY <2>5, <3>2 DEF Picks
  <2> QED BY <2>4
<1> QED
  <2> HIDE DEF P
  <2>1. P = Nat BY <1>1, <1>2, Counting DEF P
  <2> QED BY <2>1 DEF P

LEMMA PickedIs == ASSUME NEW S, NEW s \in Seq(S), NEW T
  PROVE \E k : Picks(s, T, k, Len(s)) /\ Picked(s, T) = k[Len(s)]
<1> DEFINE k == CHOOSE k : Picks(s, T, k, Len(s))
<1>1. Picks(s, T, k, Len(s))
  BY PicksExist
<1>2. Picked(s, T) = k[Len(s)]
  BY Zenon DEF Picked, Picks
<1> QED BY <1>1, <1>2

LEMMA PicksAt ==
    ASSUME NEW s, NEW T, NEW k, NEW m \in Nat, Picks(s, T, k, m)
    PROVE  /\ k[0] = <<>>
           /\ \A n \in 0..m : n + 1 <= m =>
                k[n + 1] = IF s[n + 1] \in T THEN Append(k[n], s[n + 1]) ELSE k[n]
<1>1. \A n \in 0..m : k[n] = IF n = 0 THEN <<>>
            ELSE IF s[n] \in T THEN Append(k[n - 1], s[n]) ELSE k[n - 1]
  BY DEF Picks
<1>2. k[0] = <<>>
  BY <1>1
<1>3. ASSUME NEW n \in 0..m, n + 1 <= m
      PROVE  k[n + 1] = IF s[n + 1] \in T THEN Append(k[n], s[n + 1]) ELSE k[n]
  <2>1. n + 1 \in 0..m /\ n + 1 # 0 /\ n + 1 - 1 = n
    BY <1>3
  <2> QED BY <1>1, <2>1
<1> QED BY <1>2, <1>3

(* It has nothing but what is picked, and all of that.                     *)
LEMMA PickedAre ==
    ASSUME NEW S, NEW s \in Seq(S), NEW T
    PROVE  /\ Picked(s, T) \in Seq(S) /\ Len(Picked(s, T)) <= Len(s)
           /\ \A i \in DOMAIN Picked(s, T) : Picked(s, T)[i] \in T /\ \E j \in DOMAIN s : s[j] = Picked(s, T)[i]
           /\ \A j \in DOMAIN s : s[j] \in T => \E i \in DOMAIN Picked(s, T) : Picked(s, T)[i] = s[j]
           /\ (\E j \in DOMAIN s : s[j] \notin T) => Len(Picked(s, T)) < Len(s)
           /\ (\A j \in DOMAIN s : s[j] \in T) => Picked(s, T) = s
<1>1. PICK k : Picks(s, T, k, Len(s)) /\ Picked(s, T) = k[Len(s)]
  BY PickedIs
<1>2. Len(s) \in Nat /\ DOMAIN s = 1..Len(s)
  OBVIOUS
<1>3. /\ k[0] = <<>>
      /\ \A n \in 0..Len(s) : n + 1 <= Len(s) =>
           k[n + 1] = IF s[n + 1] \in T THEN Append(k[n], s[n + 1]) ELSE k[n]
  BY <1>1, <1>2, PicksAt
<1> DEFINE So(n) ==
        /\ k[n] \in Seq(S) /\ Len(k[n]) <= n
        /\ \A i \in 1..Len(k[n]) : k[n][i] \in T /\ \E j \in 1..n : s[j] = k[n][i]
        /\ \A j \in 1..n : s[j] \in T => \E i \in 1..Len(k[n]) : k[n][i] = s[j]
        /\ (\E j \in 1..n : s[j] \notin T) => Len(k[n]) < n
        /\ (\A j \in 1..n : s[j] \in T) => Len(k[n]) = n /\ \A j \in 1..n : k[n][j] = s[j]
<1>4. So(0)
  BY <1>3
<1>5. ASSUME NEW n \in Nat, n + 1 <= Len(s), So(n) PROVE So(n + 1)
  <2>1. n \in 0..Len(s) /\ n + 1 \in 1..Len(s) /\ s[n + 1] \in S
    BY <1>2, <1>5
  <2>2. k[n] \in Seq(S) /\ Len(k[n]) \in Nat /\ Len(k[n]) <= n
    BY <1>5
  <2>3. CASE s[n + 1] \in T
    <3>1. k[n + 1] = Append(k[n], s[n + 1])
      BY <1>3, <1>5, <2>1, <2>3
    <3>2. /\ k[n + 1] \in Seq(S) /\ Len(k[n + 1]) = Len(k[n]) + 1
          /\ \A i \in 1..Len(k[n]) : k[n + 1][i] = k[n][i]
          /\ k[n + 1][Len(k[n]) + 1] = s[n + 1]
      BY <2>1, <2>2, <3>1, AppendProperties
    <3>3. \A j \in 1..n + 1 : j \in 1..n \/ j = n + 1
      OBVIOUS
    <3>4. \A i \in 1..Len(k[n + 1]) : i \in 1..Len(k[n]) \/ i = Len(k[n]) + 1
      BY <2>2, <3>2
    <3>9. n + 1 \in 1..n + 1 /\ \A j \in 1..n : j \in 1..n + 1
      OBVIOUS
    <3>5. \A i \in 1..Len(k[n + 1]) : k[n + 1][i] \in T /\ \E j \in 1..n + 1 : s[j] = k[n + 1][i]
      <4> SUFFICES ASSUME NEW i \in 1..Len(k[n + 1])
                   PROVE  k[n + 1][i] \in T /\ \E j \in 1..n + 1 : s[j] = k[n + 1][i]
        OBVIOUS
      <4>1. CASE i \in 1..Len(k[n])
        <5>1. k[n][i] \in T /\ \E j \in 1..n : s[j] = k[n][i]
          BY <1>5, <4>1
        <5> QED BY <3>2, <3>9, <4>1, <5>1
      <4>2. CASE i = Len(k[n]) + 1
        BY <2>3, <3>2, <3>9, <4>2
      <4> QED BY <3>4, <4>1, <4>2
    <3>6. \A j \in 1..n + 1 : s[j] \in T => \E i \in 1..Len(k[n + 1]) : k[n + 1][i] = s[j]
      BY <1>5, <2>2, <2>3, <3>2, <3>3
    <3>7. (\E j \in 1..n + 1 : s[j] \notin T) => Len(k[n + 1]) < n + 1
      BY <1>5, <2>2, <2>3, <3>2, <3>3
    <3>8. (\A j \in 1..n + 1 : s[j] \in T) =>
            Len(k[n + 1]) = n + 1 /\ \A j \in 1..n + 1 : k[n + 1][j] = s[j]
      BY <1>5, <2>2, <2>3, <3>2, <3>3
    <3> QED BY <2>2, <3>2, <3>5, <3>6, <3>7, <3>8
  <2>4. CASE s[n + 1] \notin T
    <3>1. k[n + 1] = k[n]
      BY <1>3, <1>5, <2>1, <2>4
    <3> QED BY <1>5, <2>2, <2>4, <3>1
  <2> QED BY <2>3, <2>4
<1> DEFINE P == {n \in Nat : n <= Len(s) => So(n)}
<1> HIDE DEF So
<1>6. P = Nat
  <2>1. 0 \in P
    BY <1>4
  <2>2. \A n \in P : n + 1 \in P
    BY <1>2, <1>5
  <2> HIDE DEF P
  <2>3. P \in SUBSET Nat
    BY DEF P
  <2> QED BY <2>1, <2>2, <2>3, Counting
<1>7. So(Len(s))
  BY <1>2, <1>6
<1>8. (\A j \in DOMAIN s : s[j] \in T) => k[Len(s)] = s
  BY <1>2, <1>7, SeqEqual DEF So
<1> DEFINE p == k[Len(s)]
<1>9. /\ p \in Seq(S) /\ Len(p) <= Len(s)
      /\ \A i \in 1..Len(p) : p[i] \in T /\ \E j \in 1..Len(s) : s[j] = p[i]
      /\ \A j \in 1..Len(s) : s[j] \in T => \E i \in 1..Len(p) : p[i] = s[j]
      /\ (\E j \in 1..Len(s) : s[j] \notin T) => Len(p) < Len(s)
  BY <1>7 DEF So
<1> HIDE DEF p
<1>10. DOMAIN p = 1..Len(p)
  BY <1>9
<1>11. Picked(s, T) = p
  BY <1>1 DEF p
<1>12. (\A j \in DOMAIN s : s[j] \in T) => p = s
  BY <1>8 DEF p
<1> QED
  BY <1>2, <1>9, <1>10, <1>11, <1>12

(* The picked of a whole are those of its parts.                           *)
LEMMA PickedConcat ==
    ASSUME NEW S, NEW s \in Seq(S), NEW t \in Seq(S), NEW T
    PROVE  Picked(s \o t, T) = Picked(s, T) \o Picked(t, T)
<1>1. PICK k : Picks(s, T, k, Len(s)) /\ Picked(s, T) = k[Len(s)]
  BY PickedIs
<1>2. PICK l : Picks(t, T, l, Len(t)) /\ Picked(t, T) = l[Len(t)]
  BY PickedIs
<1> DEFINE u == s \o t
<1>3. /\ u \in Seq(S) /\ Len(u) = Len(s) + Len(t) /\ Len(s) \in Nat /\ Len(t) \in Nat
      /\ \A i \in 1..Len(s) : u[i] = s[i]
      /\ \A j \in 1..Len(t) : u[Len(s) + j] = t[j]
  BY ConcatProperties
<1> HIDE DEF u
<1>4. PICK m : Picks(u, T, m, Len(u)) /\ Picked(u, T) = m[Len(u)]
  BY <1>3, PickedIs
<1>5. /\ k[0] = <<>> /\ l[0] = <<>> /\ m[0] = <<>>
      /\ \A n \in 0..Len(s) : n + 1 <= Len(s) =>
           k[n + 1] = IF s[n + 1] \in T THEN Append(k[n], s[n + 1]) ELSE k[n]
      /\ \A n \in 0..Len(t) : n + 1 <= Len(t) =>
           l[n + 1] = IF t[n + 1] \in T THEN Append(l[n], t[n + 1]) ELSE l[n]
      /\ \A n \in 0..Len(u) : n + 1 <= Len(u) =>
           m[n + 1] = IF u[n + 1] \in T THEN Append(m[n], u[n + 1]) ELSE m[n]
  <2>1. Len(u) \in Nat
    BY <1>3
  <2>2. /\ k[0] = <<>>
        /\ \A n \in 0..Len(s) : n + 1 <= Len(s) =>
             k[n + 1] = IF s[n + 1] \in T THEN Append(k[n], s[n + 1]) ELSE k[n]
    BY <1>1, <1>3, PicksAt
  <2>3. /\ l[0] = <<>>
        /\ \A n \in 0..Len(t) : n + 1 <= Len(t) =>
             l[n + 1] = IF t[n + 1] \in T THEN Append(l[n], t[n + 1]) ELSE l[n]
    BY <1>2, <1>3, PicksAt
  <2>4. /\ m[0] = <<>>
        /\ \A n \in 0..Len(u) : n + 1 <= Len(u) =>
             m[n + 1] = IF u[n + 1] \in T THEN Append(m[n], u[n + 1]) ELSE m[n]
    <3> DEFINE q == Len(u)
    <3>1. q \in Nat /\ Picks(u, T, m, q)
      BY <1>4, <2>1
    <3> HIDE DEF q
    <3>2. /\ m[0] = <<>>
          /\ \A n \in 0..q : n + 1 <= q =>
               m[n + 1] = IF u[n + 1] \in T THEN Append(m[n], u[n + 1]) ELSE m[n]
      BY ONLY <3>1, PicksAt
    <3> QED BY <3>2 DEF q
  <2> QED BY <2>2, <2>3, <2>4
<1> DEFINE P == {n \in Nat : n <= Len(s) => m[n] = k[n]}
<1>6. P = Nat
  <2>1. 0 \in P
    BY <1>5
  <2>2. ASSUME NEW n \in P PROVE n + 1 \in P
    <3> SUFFICES ASSUME n + 1 <= Len(s) PROVE m[n + 1] = k[n + 1]
      OBVIOUS
    <3>1. n \in 0..Len(s) /\ n \in 0..Len(u) /\ n + 1 <= Len(u) /\ n + 1 \in 1..Len(s)
      BY <1>3
    <3>2. m[n] = k[n] /\ u[n + 1] = s[n + 1]
      BY <1>3, <3>1
    <3> QED BY <1>5, <3>1, <3>2
  <2> HIDE DEF P
  <2>3. P \in SUBSET Nat
    BY DEF P
  <2> QED BY <2>1, <2>2, <2>3, Counting
<1>7. m[Len(s)] = Picked(s, T) /\ Picked(s, T) \in Seq(S)
  BY <1>1, <1>3, <1>6, PickedAre
<1> DEFINE So(n) == l[n] \in Seq(S) /\ m[Len(s) + n] = Picked(s, T) \o l[n]
<1> DEFINE Q == {n \in Nat : n <= Len(t) => So(n)}
<1>8. Q = Nat
  <2>1. So(0)
    BY <1>3, <1>5, <1>7, ConcatEmptySeq
  <2>2. ASSUME NEW n \in Nat, n + 1 <= Len(t), So(n) PROVE So(n + 1)
    <3>1. /\ n \in 0..Len(t) /\ t[n + 1] \in S /\ Len(s) + n \in 0..Len(u)
          /\ Len(s) + n + 1 <= Len(u) /\ u[Len(s) + n + 1] = t[n + 1]
      <4>1. n \in 0..Len(t) /\ Len(s) + n \in 0..Len(u) /\ Len(s) + n + 1 <= Len(u) /\ n + 1 \in 1..Len(t)
        BY <1>3, <2>2
      <4>2. Len(s) + n + 1 = Len(s) + (n + 1)
        BY <1>3
      <4>3. t[n + 1] \in S
        BY <4>1
      <4>4. u[Len(s) + (n + 1)] = t[n + 1]
        BY <1>3, <4>1
      <4> QED BY <4>1, <4>2, <4>3, <4>4
    <3>2. /\ l[n + 1] = IF t[n + 1] \in T THEN Append(l[n], t[n + 1]) ELSE l[n]
          /\ m[Len(s) + n + 1] = IF t[n + 1] \in T THEN Append(m[Len(s) + n], t[n + 1]) ELSE m[Len(s) + n]
      BY <1>5, <2>2, <3>1
    <3>3. CASE t[n + 1] \in T
      <4>0. l[n] \in Seq(S) /\ m[Len(s) + n] = Picked(s, T) \o l[n] /\ <<t[n + 1]>> \in Seq(S)
        BY <2>2, <3>1
      <4>7. m[Len(s) + n] \in Seq(S)
        BY <1>7, <4>0, ConcatProperties
      <4>1. l[n + 1] = l[n] \o <<t[n + 1]>> /\ l[n + 1] \in Seq(S)
        <5>1. l[n + 1] = Append(l[n], t[n + 1])
          BY <3>2, <3>3
        <5>2. Append(l[n], t[n + 1]) = l[n] \o <<t[n + 1]>>
          BY <3>1, <4>0, AppendIsConcat
        <5> QED BY <4>0, <5>1, <5>2, ConcatProperties
      <4>2. m[Len(s) + n + 1] = (Picked(s, T) \o l[n]) \o <<t[n + 1]>>
        <5>1. m[Len(s) + n + 1] = Append(m[Len(s) + n], t[n + 1])
          BY <3>2, <3>3
        <5>2. Append(m[Len(s) + n], t[n + 1]) = m[Len(s) + n] \o <<t[n + 1]>>
          BY <3>1, <4>7, AppendIsConcat
        <5> QED BY <4>0, <5>1, <5>2
      <4>3. m[Len(s) + n + 1] = Picked(s, T) \o (l[n] \o <<t[n + 1]>>)
        <5> DEFINE a == Picked(s, T)
        <5> DEFINE b == l[n]
        <5> DEFINE c == <<t[n + 1]>>
        <5>1. a \in Seq(S) /\ b \in Seq(S) /\ c \in Seq(S)
          BY <1>7, <4>0
        <5> HIDE DEF a, b, c
        <5>2. (a \o b) \o c = a \o (b \o c)
          BY <5>1, ConcatAssociative
        <5> QED BY <4>2, <5>2, Zenon DEF a, b, c
      <4>4. Len(s) + (n + 1) = Len(s) + n + 1
        BY <1>3
      <4> QED BY <4>1, <4>3, <4>4
    <3>4. CASE t[n + 1] \notin T
      <4>4. Len(s) + (n + 1) = Len(s) + n + 1
        BY <1>3
      <4> QED BY <2>2, <3>2, <3>4, <4>4
    <3> QED BY <3>3, <3>4
  <2> HIDE DEF So
  <2>4. 0 \in Q
    BY <2>1
  <2>5. \A n \in Q : n + 1 \in Q
    BY <1>3, <2>2
  <2> HIDE DEF Q
  <2>3. Q \in SUBSET Nat
    BY DEF Q
  <2> QED BY <2>3, <2>4, <2>5, Counting
<1>9. m[Len(u)] = Picked(s, T) \o l[Len(t)]
  <2> HIDE DEF So
  <2>1. So(Len(t))
    BY <1>3, <1>8
  <2> QED BY <1>3, <2>1 DEF So
<1> QED
  BY <1>2, <1>4, <1>9 DEF u

(* What one more brings to the picked, and what is picked twice.           *)
LEMMA PickedAppend ==
    ASSUME NEW S, NEW s \in Seq(S), NEW x \in S, NEW T
    PROVE  /\ Append(s, x) \in Seq(S)
           /\ Picked(Append(s, x), T) = IF x \in T THEN Append(Picked(s, T), x) ELSE Picked(s, T)
<1> DEFINE e == <<x>>
<1>1. /\ e \in Seq(S) /\ Len(e) = 1 /\ e[1] = x
      /\ Append(s, x) = s \o e /\ Append(s, x) \in Seq(S)
  BY AppendIsConcat
<1> HIDE DEF e
<1>2. PICK k : Picks(e, T, k, Len(e)) /\ Picked(e, T) = k[Len(e)]
  BY <1>1, PickedIs
<1>3. Picks(e, T, k, 1) /\ Picked(e, T) = k[1]
  BY <1>1, <1>2
<1>4. /\ k[0] = <<>>
      /\ \A n \in 0..1 : n + 1 <= 1 =>
           k[n + 1] = IF e[n + 1] \in T THEN Append(k[n], e[n + 1]) ELSE k[n]
  BY <1>3, PicksAt
<1>5. k[1] = IF x \in T THEN Append(<<>>, x) ELSE <<>>
  <2>1. 0 \in 0..1 /\ 0 + 1 <= 1 /\ 0 + 1 = 1
    OBVIOUS
  <2> QED BY <1>1, <1>4, <2>1
<1>6. Append(<<>>, x) = e
  BY <1>1, SeqEqual DEF e
<1>7. Picked(s, T) \in Seq(S)
  BY PickedAre
<1>8. Picked(Append(s, x), T) = Picked(s, T) \o Picked(e, T)
  BY <1>1, PickedConcat
<1>9. CASE x \in T
  <2>1. Picked(Append(s, x), T) = Picked(s, T) \o e
    BY <1>3, <1>5, <1>6, <1>8, <1>9
  <2> DEFINE p == Picked(s, T)
  <2> HIDE DEF p
  <2>2. p \in Seq(S)
    BY <1>7 DEF p
  <2>3. Append(p, x) = p \o e
    BY <2>2, AppendIsConcat DEF e
  <2> QED BY <1>1, <1>9, <2>1, <2>3 DEF p
<1>10. CASE x \notin T
  BY <1>1, <1>3, <1>5, <1>7, <1>8, <1>10, ConcatEmptySeq
<1> QED BY <1>9, <1>10

LEMMA PickedTwice ==
    ASSUME NEW S, NEW s \in Seq(S), NEW T, NEW U, U \subseteq T
    PROVE  Picked(Picked(s, T), U) = Picked(s, U)
<1>1. PICK k : Picks(s, T, k, Len(s)) /\ Picked(s, T) = k[Len(s)]
  BY PickedIs
<1>2. PICK l : Picks(s, U, l, Len(s)) /\ Picked(s, U) = l[Len(s)]
  BY PickedIs
<1>3. Len(s) \in Nat
  OBVIOUS
<1>4. /\ k[0] = <<>>
      /\ \A n \in 0..Len(s) : n + 1 <= Len(s) =>
           k[n + 1] = IF s[n + 1] \in T THEN Append(k[n], s[n + 1]) ELSE k[n]
  BY <1>1, <1>3, PicksAt
<1>5. /\ l[0] = <<>>
      /\ \A n \in 0..Len(s) : n + 1 <= Len(s) =>
           l[n + 1] = IF s[n + 1] \in U THEN Append(l[n], s[n + 1]) ELSE l[n]
  BY <1>2, <1>3, PicksAt
<1> DEFINE So(n) == k[n] \in Seq(S) /\ Picked(k[n], U) = l[n]
<1>6. So(0)
  <2>1. <<>> \in Seq(S) /\ \A j \in DOMAIN <<>> : <<>>[j] \in U
    OBVIOUS
  <2>2. \A e \in Seq(S) : (\A j \in DOMAIN e : e[j] \in U) => Picked(e, U) = e
    BY PickedAre
  <2>3. Picked(<<>>, U) = <<>>
    BY <2>1, <2>2
  <2> QED BY <1>4, <1>5, <2>1, <2>3
<1>7. ASSUME NEW n \in Nat, n + 1 <= Len(s), So(n) PROVE So(n + 1)
  <2>1. n \in 0..Len(s) /\ n + 1 \in 1..Len(s)
    BY <1>3, <1>7
  <2>2. s[n + 1] \in S
    BY <2>1
  <2>3. /\ k[n + 1] = IF s[n + 1] \in T THEN Append(k[n], s[n + 1]) ELSE k[n]
        /\ l[n + 1] = IF s[n + 1] \in U THEN Append(l[n], s[n + 1]) ELSE l[n]
    BY <1>4, <1>5, <1>7, <2>1
  <2> DEFINE p == k[n]
  <2> DEFINE x == s[n + 1]
  <2> HIDE DEF p, x
  <2>4. p \in Seq(S) /\ x \in S /\ Picked(p, U) = l[n]
    BY <1>7, <2>2 DEF p, x
  <2>5. /\ Append(p, x) \in Seq(S)
        /\ Picked(Append(p, x), U) = IF x \in U THEN Append(Picked(p, U), x) ELSE Picked(p, U)
    BY <2>4, PickedAppend
  <2>6. /\ k[n + 1] = IF x \in T THEN Append(p, x) ELSE p
        /\ l[n + 1] = IF x \in U THEN Append(l[n], x) ELSE l[n]
    BY <2>3 DEF p, x
  <2> QED BY <2>4, <2>5, <2>6
<1> DEFINE P == {n \in Nat : n <= Len(s) => So(n)}
<1> HIDE DEF So
<1>8. P = Nat
  <2>1. 0 \in P
    BY <1>6
  <2>2. \A n \in P : n + 1 \in P
    BY <1>3, <1>7
  <2> HIDE DEF P
  <2>3. P \in SUBSET Nat
    BY DEF P
  <2> QED BY <2>1, <2>2, <2>3, Counting
<1>9. So(Len(s))
  BY <1>3, <1>8
<1> QED BY <1>1, <1>2, <1>9 DEF So

-----------------------------------------------------------------------------
(* Wing transfers.  A drawer is at the place of those newer than it.       *)
Texts == {TextOf[d] : d \in DrawerIds}
TransferTypes ==
    /\ way \in {"copy", "export"} /\ wing \subseteq DrawerIds /\ vectors \subseteq wing
    /\ closets \subseteq {11} /\ closetVectors \subseteq closets
    /\ carrying \in {"begin", "paging", "paged", "closets", "done", "failed"}
    /\ offset \in Nat /\ next \in Nat \ {0}
    /\ listed \in Seq({11}) /\ manifest \in Nat /\ out \in Seq(DrawerIds)
    /\ dest \in [drawers : SUBSET Texts, closets : SUBSET {11}, graph : SUBSET Texts]
    /\ skipped \in Nat /\ wingChanges \in Nat /\ (way = "export" => skipped = 0)

Rank(d) == Cardinality({e \in wing : Transfer!Newer(e, d)})
Carried(d) == skipped = 0 => /\ way = "export" => \E i \in 1..Len(out) : out[i] = d
                             /\ way = "copy" => (\E i \in 1..Len(out) : out[i] = d) /\ TextOf[d] \in dest.drawers
Paged(d) == carrying \in {"paged", "closets", "done"} \/ (carrying = "paging" /\ Rank(d) < offset)
AllCarried == gone = {} => \A d \in wing \ new : Paged(d) => Carried(d)

(* Of a wing nobody wrote to: each drawer once, as many as were promised.  *)
EachOnce ==
    wingChanges = 0 /\ way = "export" =>
        /\ carrying = "paging" => Len(out) = offset
        /\ carrying \in {"paging", "paged", "closets", "done"} => manifest = Cardinality(wing) + Len(listed)
        /\ carrying \in {"paged", "closets", "done"} => Len(out) = Cardinality(wing)
        /\ \A i \in 1..Len(out) : out[i] \in wing /\ Rank(out[i]) = i - 1

ListedTo(n) == {listed[i] : i \in {j \in 1..Len(listed) : j < n}}
ClosetsCarried ==
    /\ carrying \in {"begin", "paging", "paged"} => next = 1 /\ dest.closets = {}
    /\ way = "copy" /\ skipped = 0 /\ carrying = "closets" => dest.closets = ListedTo(next)
    /\ way = "copy" /\ skipped = 0 /\ carrying = "done" =>
         dest.closets = ListedTo(Len(listed) + 1) /\ dest.graph = dest.drawers
    /\ dest.closets \subseteq ListedTo(Len(listed) + 1)
    /\ carrying = "begin" => out = <<>> /\ skipped = 0 /\ offset = 0 /\ listed = <<>>

TransferInv == TransferTypes /\ AllCarried /\ EachOnce /\ ClosetsCarried

LEMMA DrawersOrdered ==
    /\ DrawerIds = 1..4 /\ IsFiniteSet(DrawerIds)
    /\ \A a, b \in DrawerIds : Transfer!Newer(a, b) => ~Transfer!Newer(b, a)
    /\ \A a \in DrawerIds : ~Transfer!Newer(a, a)
<1>1. DrawerIds = 1..4
  BY DEF DrawerIds, TextOf
<1>2. \A a \in 1..4 : FiledWhen[a] \in Int
  BY DEF FiledWhen
<1>3. IsFiniteSet(1..4)
  <2>1. 1 \in Int /\ 4 \in Int
    OBVIOUS
  <2> QED BY ONLY <2>1, FS_Interval, Zenon
<1> QED
  BY <1>1, <1>2, <1>3 DEF Transfer!Newer

LEMMA SameCount == \A S : Transfer!Cardinality(S) = Cardinality(S)
BY Zenon DEF Transfer!Cardinality, Cardinality

LEMMA ListIs ==
    ASSUME wing \subseteq DrawerIds, NEW all \in Transfer!List
    PROVE  /\ all \in Seq(wing) /\ all \in Seq(DrawerIds)
           /\ Len(all) = Cardinality(wing) /\ Len(all) \in Nat
           /\ \A d \in wing : \E i \in 1..Len(all) : all[i] = d
           /\ \A i \in 1..Len(all) : all[i] \in wing /\ Rank(all[i]) = i - 1
<1> DEFINE n == Cardinality(wing)
<1>1. IsFiniteSet(wing) /\ n \in Nat
  BY DrawersOrdered, FS_Subset, FS_CardinalityType
<1>2. Transfer!Cardinality(wing) = n
  BY SameCount
<1> HIDE DEF n
<1>3. /\ all \in [1..n -> wing]
      /\ \A i, j \in 1..n : i # j => all[i] # all[j]
      /\ \A i, j \in 1..n : i < j => Transfer!Newer(all[i], all[j])
  BY <1>2 DEF Transfer!List, Transfer!SetToSeqs
<1>4. all \in Seq(wing) /\ Len(all) = n /\ all \in Seq(DrawerIds)
  BY <1>1, <1>3
<1>5. \A d \in wing : \E i \in 1..n : all[i] = d
  <2>1. all \in Injection(1..n, wing)
    BY <1>3 DEF Injection, IsInjective
  <2>2. IsFiniteSet(1..n) /\ Cardinality(1..n) = n
    BY <1>1, FS_Interval
  <2>3. all \in Surjection(1..n, wing)
    BY <1>1, <2>1, <2>2, FS_Injection DEF n
  <2> QED BY <2>3 DEF Surjection
<1>6. ASSUME NEW i \in 1..n PROVE Rank(all[i]) = i - 1
  <2> DEFINE N == {e \in wing : Transfer!Newer(e, all[i])}
  <2>1. \A j \in 1..n : all[j] \in N <=> j < i
    <3> TAKE j \in 1..n
    <3>1. all[i] \in DrawerIds /\ all[j] \in DrawerIds /\ all[j] \in wing
      BY <1>3
    <3>2. CASE j < i
      BY <1>3, <3>1, <3>2
    <3>3. CASE i < j
      BY <1>3, <3>1, <3>3, DrawersOrdered
    <3>4. CASE i = j
      BY <3>1, <3>4, DrawersOrdered
    <3> QED BY <1>1, <3>2, <3>3, <3>4
  <2> DEFINE f == [j \in 1..i-1 |-> all[j]]
  <2>2. f \in Bijection(1..i-1, N)
    <3>1. \A j \in 1..i-1 : j \in 1..n /\ j < i
      BY <1>1
    <3>2. f \in [1..i-1 -> N]
      BY <2>1, <3>1
    <3>3. \A a, b \in 1..i-1 : f[a] = f[b] => a = b
      BY <1>3, <3>1
    <3>4. ASSUME NEW e \in N PROVE \E j \in 1..i-1 : f[j] = e
      <4>1. PICK j \in 1..n : all[j] = e
        BY <1>5
      <4>2. j \in 1..i-1
        BY <1>1, <2>1, <4>1
      <4> QED BY <4>1, <4>2
    <3> HIDE DEF f, N
    <3> QED BY <3>2, <3>3, <3>4 DEF Bijection, Injection, Surjection, IsInjective
  <2>3. i - 1 \in Nat /\ i - 1 \in Int /\ 1 \in Int
    BY <1>1
  <2>4. ExistsBijection(1..i-1, N)
    BY <2>2, Zenon DEF ExistsBijection
  <2>5. Cardinality(N) = i - 1
    BY <2>3, <2>4, FS_CountingElements
  <2> QED BY <2>5 DEF Rank
<1> QED
  BY <1>1, <1>3, <1>4, <1>5, <1>6 DEF n

LEMMA FromPicked == \A s, T : Transfer!Kept(s, T) = Picked(s, T)
BY Zenon DEF Transfer!Kept, Picked

LEMMA TransferMin == ASSUME NEW a \in Int, NEW b \in Int
    PROVE Transfer!Min({a, b}) = IF a <= b THEN a ELSE b
<1> DEFINE m == IF a <= b THEN a ELSE b
<1>1. m \in {a, b} /\ \A y \in {a, b} : m <= y
  OBVIOUS
<1>2. \A x \in {a, b} : (\A y \in {a, b} : x <= y) => x = m
  OBVIOUS
<1> QED BY <1>1, <1>2 DEF Transfer!Min

LEMMA PageIs ==
    ASSUME offset \in Nat, NEW all \in Seq(DrawerIds)
    PROVE  /\ Transfer!Page(all) \in Seq(DrawerIds) /\ Len(Transfer!Page(all)) \in Nat
           /\ Len(Transfer!Page(all)) = IF Len(all) <= offset THEN 0
                                        ELSE IF offset + PageRows <= Len(all) THEN PageRows
                                        ELSE Len(all) - offset
           /\ \A i \in 1..Len(Transfer!Page(all)) :
                offset + i \in 1..Len(all) /\ Transfer!Page(all)[i] = all[offset + i]
<1>1. PageRows \in Nat \ {0} /\ Len(all) \in Nat
  BY HostAssumption DEF HostBounded
<1> DEFINE m == IF offset + PageRows <= Len(all) THEN offset + PageRows ELSE Len(all)
<1>2. Transfer!Min({offset + PageRows, Len(all)}) = m
  BY <1>1, TransferMin
<1>3. m \in Nat /\ m <= Len(all) /\ \A i \in offset + 1..m : i \in 1..Len(all)
  BY <1>1
<1> DEFINE p == SubSeq(all, offset + 1, m)
<1>4. Transfer!Page(all) = p
  BY <1>2, Zenon DEF Transfer!Page
<1>5. \A i \in offset + 1..m : all[i] \in DrawerIds
  BY <1>3
<1>6. /\ p \in Seq(DrawerIds)
      /\ Len(p) = IF offset + 1 <= m THEN m - (offset + 1) + 1 ELSE 0
      /\ \A i \in 1..m - (offset + 1) + 1 : p[i] = all[offset + 1 + i - 1]
  <2> HIDE DEF m
  <2>1. m \in Int /\ offset + 1 \in Int
    BY <1>3
  <2> QED BY <1>5, <2>1, SubSeqProperties
<1> HIDE DEF p
<1>7. Len(p) = IF Len(all) <= offset THEN 0 ELSE IF offset + PageRows <= Len(all) THEN PageRows ELSE Len(all) - offset
  BY <1>1, <1>6
<1>8. \A i \in 1..Len(p) : /\ i \in 1..m - (offset + 1) + 1 /\ offset + 1 + i - 1 = offset + i
                           /\ offset + i \in 1..Len(all)
  BY <1>1, <1>6, <1>7
<1> HIDE DEF m
<1> QED BY <1>4, <1>6, <1>7, <1>8

LEMMA TransferRuns ==
    ASSUME part = "transfer", [MCNext]_hostVars
    PROVE  [Transfer!Next]_(Transfer!vars)
BY DEF MCNext, hostVars, transferring, Transfer!vars

LEMMA TransferHolds == TransferInv => Transfer!TransferIsWhole
<1> SUFFICES ASSUME TransferInv, carrying = "done" PROVE Transfer!TransferIsWhole
  BY DEF Transfer!TransferIsWhole
<1> DEFINE outs == Transfer!ToSet(out)
<1>1. outs = {out[i] : i \in 1..Len(out)} /\ Transfer!ToSet(listed) = ListedTo(Len(listed) + 1)
  <2>1. DOMAIN out = 1..Len(out) /\ DOMAIN listed = 1..Len(listed) /\ Len(listed) \in Nat
    BY DEF TransferInv, TransferTypes
  <2>2. {j \in 1..Len(listed) : j < Len(listed) + 1} = 1..Len(listed)
    BY <2>1
  <2> QED BY <2>1, <2>2 DEF Transfer!ToSet, ListedTo
<1>2. ASSUME gone = {}, NEW d \in wing \ new
      PROVE  Carried(d)
  BY <1>2 DEF TransferInv, AllCarried, Paged
<1>3. ASSUME gone = {}, NEW d \in wing \ new
      PROVE  d \in outs \/ (way = "copy" /\ (d \notin vectors \/ skipped > 0))
  <2>1. Carried(d)
    BY <1>2, <1>3
  <2> QED BY <1>1, <2>1 DEF Carried, TransferInv, TransferTypes
<1>4. ASSUME wingChanges = 0, way = "export"
      PROVE  Transfer!IsInjective(out) /\ manifest = Len(out) + Len(listed)
  <2>1. /\ Len(out) = Cardinality(wing) /\ manifest = Cardinality(wing) + Len(listed)
        /\ \A i \in 1..Len(out) : Rank(out[i]) = i - 1
    BY <1>4 DEF TransferInv, EachOnce
  <2>2. DOMAIN out = 1..Len(out)
    BY DEF TransferInv, TransferTypes
  <2>3. ASSUME NEW a \in 1..Len(out), NEW b \in 1..Len(out), out[a] = out[b] PROVE a = b
    <3>1. Rank(out[a]) = a - 1 /\ Rank(out[b]) = b - 1
      BY <2>1
    <3>2. Rank(out[a]) = Rank(out[b])
      BY <2>3
    <3> QED BY <3>1, <3>2
  <2> QED BY <2>1, <2>2, <2>3 DEF Transfer!IsInjective
<1>5. ASSUME way = "copy", gone = {}, skipped = 0
      PROVE  /\ {TextOf[d] : d \in wing \ new} \subseteq dest.drawers
             /\ dest.closets = Transfer!ToSet(listed) /\ dest.graph = dest.drawers
  <2>1. \A d \in wing \ new : TextOf[d] \in dest.drawers
    BY <1>2, <1>5 DEF Carried
  <2> QED BY <1>1, <1>5, <2>1 DEF TransferInv, ClosetsCarried
<1> QED
  BY <1>3, <1>4, <1>5 DEF Transfer!TransferIsWhole

LEMMA TransferStarts ==
    ASSUME Transfer!Init
    PROVE  TransferInv
<1>1. TransferTypes
  BY DEF Transfer!Init, TransferTypes, Texts
<1>2. carrying = "begin" /\ out = <<>> /\ Len(out) = 0 /\ offset = 0 /\ next = 1 /\ dest.closets = {}
      /\ skipped = 0 /\ listed = <<>>
  BY DEF Transfer!Init
<1>3. \A i \in 1..Len(out) : FALSE
  BY <1>2
<1> QED
  BY <1>1, <1>2, <1>3 DEF TransferInv, AllCarried, Paged, EachOnce, ClosetsCarried

(* The closets come to be listed, each once.                               *)
LEMMA ClosetsListed ==
    ASSUME closets \subseteq {11}
    PROVE  /\ Transfer!SetToSeq(closets) \in Seq({11})
           /\ Transfer!Cardinality(closets) = Len(Transfer!SetToSeq(closets))
<1> DEFINE n == Cardinality(closets)
<1>1. IsFiniteSet(closets) /\ n \in Nat /\ ExistsBijection(1..n, closets)
  <2>1. IsFiniteSet({11})
    BY FS_Singleton
  <2>2. IsFiniteSet(closets)
    BY <2>1, FS_Subset
  <2> QED BY <2>2, FS_CardinalityType
<1>2. Transfer!Cardinality(closets) = n
  BY SameCount
<1> HIDE DEF n
<1>3. \E f \in [1..n -> closets] : Transfer!IsInjective(f)
  <2>1. PICK f : f \in Bijection(1..n, closets)
    BY <1>1 DEF ExistsBijection
  <2> QED BY <2>1 DEF Bijection, Injection, IsInjective, Transfer!IsInjective
<1>4. Transfer!SetToSeq(closets) \in [1..n -> closets]
  BY <1>2, <1>3 DEF Transfer!SetToSeq
<1> DEFINE q == Transfer!SetToSeq(closets)
<1>5. q \in [1..n -> closets]
  BY <1>4
<1> HIDE DEF q
<1>6. q \in [1..n -> {11}]
  BY <1>5
<1>7. q \in Seq({11}) /\ Len(q) = n
  BY ONLY <1>1, <1>6
<1> QED
  BY <1>2, <1>7, Zenon DEF q

LEMMA BeginKeeps ==
    ASSUME TransferInv, Transfer!Promise \/ Transfer!BeginCopy
    PROVE  TransferInv'
<1>1. /\ way' = way /\ offset' = offset /\ next' = next /\ out' = out /\ dest' = dest /\ skipped' = skipped
      /\ UNCHANGED <<wing, vectors, closets, closetVectors, wingChanges, gone, new>>
      /\ carrying = "begin" /\ carrying' \in {"paging", "failed"}
      /\ \/ /\ carrying' = "paging" /\ way = "export" /\ listed' = Transfer!SetToSeq(closets)
            /\ manifest' = Transfer!Cardinality(wing) + Transfer!Cardinality(closets)
         \/ carrying' = "failed" /\ listed' = listed /\ manifest' = manifest
         \/ way = "copy" /\ listed' = listed /\ manifest' = manifest
  BY DEF Transfer!Promise, Transfer!BeginCopy, Transfer!wing
<1>2. /\ out = <<>> /\ offset = 0 /\ skipped = 0 /\ next = 1 /\ dest.closets = {} /\ listed = <<>>
  BY <1>1 DEF TransferInv, ClosetsCarried
<1>3. IsFiniteSet(wing) /\ Cardinality(wing) \in Nat
  BY DrawersOrdered, FS_Subset, FS_CardinalityType DEF TransferInv, TransferTypes
<1>4. /\ listed' \in Seq({11}) /\ manifest' \in Nat
      /\ (carrying' = "paging" /\ way = "export") => manifest' = Cardinality(wing) + Len(listed')
  <2>1. /\ Transfer!SetToSeq(closets) \in Seq({11})
        /\ Transfer!Cardinality(closets) = Len(Transfer!SetToSeq(closets))
        /\ Len(Transfer!SetToSeq(closets)) \in Nat
    BY ClosetsListed DEF TransferInv, TransferTypes
  <2>2. Transfer!Cardinality(wing) = Cardinality(wing)
    BY SameCount
  <2> QED BY <1>1, <1>3, <2>1, <2>2 DEF TransferInv, TransferTypes
<1>5. TransferTypes'
  BY <1>1, <1>4 DEF TransferInv, TransferTypes
<1>6. AllCarried'
  <2>1. \A d : Rank(d)' = Rank(d)
    BY <1>1 DEF Rank
  <2>2. ASSUME NEW d \in wing PROVE Rank(d) \in Nat
    <3>1. {e \in wing : Transfer!Newer(e, d)} \in SUBSET wing
      OBVIOUS
    <3> QED BY <1>3, <3>1, FS_Subset, FS_CardinalityType DEF Rank
  <2> QED BY <1>1, <1>2, <2>1, <2>2 DEF AllCarried, Paged
<1>7. EachOnce'
  <2>1. Len(out) = 0 /\ \A i \in 1..Len(out) : FALSE
    BY <1>2
  <2> QED BY <1>1, <1>2, <1>4, <2>1 DEF EachOnce
<1>8. ClosetsCarried'
  BY <1>1, <1>2 DEF ClosetsCarried
<1> QED BY <1>5, <1>6, <1>7, <1>8 DEF TransferInv

(* A page carries what stood at its places, or counts it as skipped.       *)
LEMMA PageCarried ==
    ASSUME TransferTypes, NEW all \in Transfer!List,
           NEW carried, carried = Transfer!Kept(Transfer!Page(all), IF way = "export" THEN DrawerIds ELSE vectors)
    PROVE  /\ carried \in Seq(DrawerIds) /\ Len(carried) <= Len(Transfer!Page(all)) /\ Len(carried) \in Nat
           /\ way = "export" => carried = Transfer!Page(all)
           /\ \A i \in 1..Len(Transfer!Page(all)) :
                \/ Len(carried) < Len(Transfer!Page(all))
                \/ \E j \in 1..Len(carried) : carried[j] = all[offset + i]
<1> DEFINE p == Transfer!Page(all)
<1> DEFINE T == IF way = "export" THEN DrawerIds ELSE vectors
<1>1. all \in Seq(DrawerIds)
  BY ListIs DEF TransferTypes
<1>2. /\ p \in Seq(DrawerIds) /\ Len(p) \in Nat
      /\ \A i \in 1..Len(p) : p[i] = all[offset + i]
  BY <1>1, PageIs DEF TransferTypes
<1>3. carried = Picked(p, T)
  BY FromPicked
<1> HIDE DEF p
<1>4. DOMAIN p = 1..Len(p)
  BY <1>2
<1>5. way = "export" => \A j \in DOMAIN p : p[j] \in T
  BY <1>2, <1>4
<1> HIDE DEF T
<1>6. /\ Picked(p, T) \in Seq(DrawerIds) /\ Len(Picked(p, T)) <= Len(p)
      /\ \A j \in DOMAIN p : p[j] \in T => \E i \in DOMAIN Picked(p, T) : Picked(p, T)[i] = p[j]
      /\ (\E j \in DOMAIN p : p[j] \notin T) => Len(Picked(p, T)) < Len(p)
      /\ (\A j \in DOMAIN p : p[j] \in T) => Picked(p, T) = p
  BY <1>2, PickedAre
<1>7. /\ carried \in Seq(DrawerIds) /\ Len(carried) <= Len(p) /\ Len(carried) \in Nat
      /\ DOMAIN carried = 1..Len(carried)
  BY <1>3, <1>6
<1>8. way = "export" => carried = p
  BY <1>3, <1>5, <1>6
<1>9. ASSUME NEW i \in 1..Len(p), ~(Len(carried) < Len(p))
      PROVE  \E j \in 1..Len(carried) : carried[j] = all[offset + i]
  <2>1. i \in DOMAIN p /\ p[i] \in T
    BY <1>3, <1>4, <1>6, <1>9
  <2>2. \E j \in DOMAIN carried : carried[j] = p[i]
    BY <1>3, <1>6, <2>1
  <2> QED BY <1>2, <1>7, <2>2
<1> QED
  BY <1>7, <1>8, <1>9 DEF p

LEMMA NextPageIs ==
    ASSUME TransferTypes, Transfer!NextPage
    PROVE  /\ carrying = "paging"
           /\ UNCHANGED <<way, wing, vectors, closets, closetVectors, wingChanges, gone, new,
                          next, listed, manifest>>
           /\ \E all \in Transfer!List, page \in Seq(DrawerIds), carried \in Seq(DrawerIds) :
                /\ Len(page) = IF Len(all) <= offset THEN 0
                               ELSE IF offset + PageRows <= Len(all) THEN PageRows ELSE Len(all) - offset
                /\ \A i \in 1..Len(page) : offset + i \in 1..Len(all) /\ page[i] = all[offset + i]
                /\ Len(carried) <= Len(page) /\ (way = "export" => carried = page)
                /\ \A i \in 1..Len(page) : Len(carried) < Len(page) \/ \E j \in 1..Len(carried) : carried[j] = all[offset + i]
                /\ out' = out \o carried
                /\ dest' = IF way = "copy"
                           THEN [dest EXCEPT !.drawers = @ \cup {TextOf[d] : d \in {carried[j] : j \in 1..Len(carried)}}]
                           ELSE dest
                /\ skipped' = skipped + Len(page) - Len(carried)
                /\ \/ Len(page) < PageRows /\ carrying' = "paged" /\ offset' = offset
                   \/ ~(Len(page) < PageRows) /\ carrying' = carrying /\ offset' = offset + PageRows
<1>1. /\ carrying = "paging"
      /\ UNCHANGED <<way, wing, vectors, closets, closetVectors, wingChanges, gone, new,
                     next, listed, manifest>>
  BY DEF Transfer!NextPage, Transfer!wing
<1>2. PICK all \in Transfer!List :
        LET page == Transfer!Page(all)
            carried == Transfer!Kept(page, IF way = "export" THEN DrawerIds ELSE vectors) IN
        /\ out' = out \o carried
        /\ dest' = IF way = "copy"
                   THEN [dest EXCEPT !.drawers = @ \cup {TextOf[d] : d \in Transfer!ToSet(carried)}]
                   ELSE dest
        /\ skipped' = skipped + Len(page) - Len(carried)
        /\ IF Len(page) < PageRows
           THEN carrying' = "paged" /\ UNCHANGED offset
           ELSE offset' = offset + PageRows /\ UNCHANGED carrying
  BY Zenon DEF Transfer!NextPage
<1> DEFINE page == Transfer!Page(all)
<1> DEFINE carried == Transfer!Kept(page, IF way = "export" THEN DrawerIds ELSE vectors)
<1>3. /\ out' = out \o carried
      /\ dest' = IF way = "copy"
                 THEN [dest EXCEPT !.drawers = @ \cup {TextOf[d] : d \in Transfer!ToSet(carried)}]
                 ELSE dest
      /\ skipped' = skipped + Len(page) - Len(carried)
      /\ \/ Len(page) < PageRows /\ carrying' = "paged" /\ offset' = offset
         \/ ~(Len(page) < PageRows) /\ carrying' = carrying /\ offset' = offset + PageRows
  BY <1>2, Zenon
<1>4. /\ carried \in Seq(DrawerIds) /\ Len(carried) <= Len(page)
      /\ way = "export" => carried = page
      /\ \A i \in 1..Len(page) :
           Len(carried) < Len(page) \/ \E j \in 1..Len(carried) : carried[j] = all[offset + i]
  BY PageCarried
<1>5. all \in Seq(DrawerIds) /\ offset \in Nat
  BY ListIs DEF TransferTypes
<1>6. /\ page \in Seq(DrawerIds)
      /\ Len(page) = IF Len(all) <= offset THEN 0
                     ELSE IF offset + PageRows <= Len(all) THEN PageRows ELSE Len(all) - offset
      /\ \A i \in 1..Len(page) : offset + i \in 1..Len(all) /\ page[i] = all[offset + i]
  BY <1>5, PageIs
<1> HIDE DEF page, carried
<1>7. Transfer!ToSet(carried) = {carried[j] : j \in 1..Len(carried)}
  <2>1. DOMAIN carried = 1..Len(carried)
    BY <1>4
  <2> QED BY <2>1 DEF Transfer!ToSet
<1>8. dest' = IF way = "copy"
              THEN [dest EXCEPT !.drawers = @ \cup {TextOf[d] : d \in {carried[j] : j \in 1..Len(carried)}}]
              ELSE dest
  BY <1>3, <1>7, Zenon
<1> QED
  BY <1>1, <1>3, <1>4, <1>6, <1>8

LEMMA NextPageKeeps ==
    ASSUME TransferInv, Transfer!NextPage
    PROVE  TransferInv'
<1>0. TransferTypes
  BY DEF TransferInv
<1>1. /\ carrying = "paging"
      /\ UNCHANGED <<way, wing, vectors, closets, closetVectors, wingChanges, gone, new,
                     next, listed, manifest>>
  BY <1>0, NextPageIs
<1>2. PICK all \in Transfer!List, page \in Seq(DrawerIds), carried \in Seq(DrawerIds) :
        /\ Len(page) = IF Len(all) <= offset THEN 0
                       ELSE IF offset + PageRows <= Len(all) THEN PageRows ELSE Len(all) - offset
        /\ \A i \in 1..Len(page) : offset + i \in 1..Len(all) /\ page[i] = all[offset + i]
        /\ Len(carried) <= Len(page) /\ (way = "export" => carried = page)
        /\ \A i \in 1..Len(page) : Len(carried) < Len(page) \/ \E j \in 1..Len(carried) : carried[j] = all[offset + i]
        /\ out' = out \o carried
        /\ dest' = IF way = "copy"
                   THEN [dest EXCEPT !.drawers = @ \cup {TextOf[d] : d \in {carried[j] : j \in 1..Len(carried)}}]
                   ELSE dest
        /\ skipped' = skipped + Len(page) - Len(carried)
        /\ \/ Len(page) < PageRows /\ carrying' = "paged" /\ offset' = offset
           \/ ~(Len(page) < PageRows) /\ carrying' = carrying /\ offset' = offset + PageRows
  BY <1>0, NextPageIs
<1>15. Len(page) = IF Len(all) <= offset THEN 0
                   ELSE IF offset + PageRows <= Len(all) THEN PageRows ELSE Len(all) - offset
  BY <1>2
<1>16. \/ Len(page) < PageRows /\ carrying' = "paged" /\ offset' = offset
       \/ ~(Len(page) < PageRows) /\ carrying' = carrying /\ offset' = offset + PageRows
  BY <1>2
<1>17. \A i \in 1..Len(page) : page[i] = all[offset + i]
  BY <1>2
<1>18. \A i \in 1..Len(page) : Len(carried) < Len(page) \/ \E j \in 1..Len(carried) : carried[j] = all[offset + i]
  BY <1>2
<1>3. /\ PageRows \in Nat \ {0} /\ offset \in Nat /\ skipped \in Nat
      /\ Len(page) \in Nat /\ Len(carried) \in Nat
  BY <1>0, HostAssumption DEF HostBounded, TransferTypes
<1>4. /\ all \in Seq(DrawerIds) /\ Len(all) = Cardinality(wing) /\ Len(all) \in Nat
      /\ \A d \in wing : \E i \in 1..Len(all) : all[i] = d
      /\ \A i \in 1..Len(all) : all[i] \in wing /\ Rank(all[i]) = i - 1
  BY <1>0, ListIs DEF TransferTypes
<1>5. /\ out \in Seq(DrawerIds) /\ Len(out) \in Nat /\ out' \in Seq(DrawerIds)
      /\ Len(out') = Len(out) + Len(carried)
      /\ \A i \in 1..Len(out) : out'[i] = out[i]
      /\ \A j \in 1..Len(carried) : out'[Len(out) + j] = carried[j]
  <2>1. out \in Seq(DrawerIds) /\ Len(out) \in Nat
    BY <1>0 DEF TransferTypes
  <2>2. /\ out \o carried \in Seq(DrawerIds) /\ Len(out \o carried) = Len(out) + Len(carried)
        /\ \A i \in 1..Len(out) : (out \o carried)[i] = out[i]
        /\ \A j \in 1..Len(carried) : (out \o carried)[Len(out) + j] = carried[j]
    BY <2>1, ConcatProperties
  <2> QED BY <1>2, <2>1, <2>2
<1> DEFINE brought == {TextOf[d] : d \in {carried[j] : j \in 1..Len(carried)}}
<1>6. brought \subseteq Texts
  <2>1. \A j \in 1..Len(carried) : carried[j] \in DrawerIds
    BY <1>2
  <2> QED BY <2>1 DEF Texts
<1>7. /\ way = "copy" => dest'.drawers = dest.drawers \cup brought
      /\ dest'.closets = dest.closets /\ dest'.graph = dest.graph
      /\ way = "export" => dest' = dest
      /\ dest' \in [drawers : SUBSET Texts, closets : SUBSET {11}, graph : SUBSET Texts]
  <2> HIDE DEF brought
  <2>1. dest \in [drawers : SUBSET Texts, closets : SUBSET {11}, graph : SUBSET Texts]
    BY <1>0 DEF TransferTypes
  <2>2. dest' = IF way = "copy" THEN [dest EXCEPT !.drawers = @ \cup brought] ELSE dest
    BY <1>2, Zenon DEF brought
  <2>3. CASE way = "copy"
    <3>1. dest' = [drawers |-> dest.drawers \cup brought, closets |-> dest.closets, graph |-> dest.graph]
      BY <2>1, <2>2, <2>3
    <3> QED BY <1>6, <2>1, <2>3, <3>1
  <2>4. CASE way # "copy"
    BY <2>1, <2>2, <2>4
  <2> QED BY <2>3, <2>4
<1>8. /\ skipped' \in Nat /\ (skipped' = 0 => skipped = 0 /\ Len(carried) = Len(page))
      /\ way = "export" => skipped' = 0 /\ skipped = 0
  <2>1. way = "export" => skipped = 0 /\ Len(carried) = Len(page)
    BY <1>0, <1>2 DEF TransferTypes
  <2> QED BY <1>2, <1>3, <2>1
<1>9. TransferTypes'
  <2>1. offset' \in Nat /\ carrying' \in {"paging", "paged"}
    BY <1>1, <1>2, <1>3
  <2> QED BY <1>0, <1>1, <1>5, <1>7, <1>8, <2>1 DEF TransferTypes
<1>10. \A d : Rank(d)' = Rank(d)
  BY <1>1 DEF Rank
<1>11. ASSUME NEW i \in 1..Len(page), skipped' = 0
       PROVE  \E j \in 1..Len(carried) : carried[j] = all[offset + i]
  <2>1. ~(Len(carried) < Len(page))
    BY <1>3, <1>8, <1>11
  <2> QED BY <1>18, <2>1
<1>12. AllCarried'
  <2> SUFFICES ASSUME gone = {}, NEW d \in wing \ new, Paged(d)', skipped' = 0
               PROVE  /\ \E i \in 1..Len(out') : out'[i] = d
                      /\ way = "copy" => TextOf[d] \in dest'.drawers
    BY <1>1 DEF AllCarried, Carried
  <2>1. skipped = 0 /\ carrying' # "done" /\ carrying' # "closets"
    BY <1>1, <1>2, <1>8
  <2>2. CASE Rank(d) < offset
    <3>1. Carried(d)
      BY <1>1, <2>2 DEF TransferInv, AllCarried, Paged
    <3>2. PICK i \in 1..Len(out) : out[i] = d
      BY <2>1, <3>1, <1>0 DEF Carried, TransferTypes
    <3>3. i \in 1..Len(out') /\ out'[i] = d
      BY <1>3, <1>5, <3>2
    <3>4. way = "copy" => TextOf[d] \in dest'.drawers
      BY <1>7, <2>1, <3>1 DEF Carried
    <3> QED BY <3>3, <3>4
  <2>3. CASE ~(Rank(d) < offset)
    <3>1. PICK r \in 1..Len(all) : all[r] = d
      BY <1>4
    <3>2. Rank(d) = r - 1
      BY <1>4, <3>1
    <3>3. r - offset \in 1..Len(page)
      <4>1. r > offset /\ r <= Len(all)
        BY <1>3, <1>4, <2>3, <3>1, <3>2
      <4>2. CASE Len(page) < PageRows
        BY <1>3, <1>4, <1>15, <4>1, <4>2
      <4>3. CASE ~(Len(page) < PageRows)
        <5>1. carrying' = "paging" /\ offset' = offset + PageRows
          BY <1>1, <1>2, <4>3
        <5>2. r - 1 < offset + PageRows
          BY <1>10, <3>2, <5>1 DEF Paged
        <5> QED BY <1>3, <1>4, <1>15, <4>1, <4>3, <5>2
      <4> QED BY <4>2, <4>3
    <3>4. offset + (r - offset) = r
      BY <1>3
    <3>5. PICK j \in 1..Len(carried) : carried[j] = d
      BY <1>11, <3>1, <3>3, <3>4
    <3>6. Len(out) + j \in 1..Len(out') /\ out'[Len(out) + j] = d
      BY <1>3, <1>5, <3>5
    <3>7. TextOf[d] \in brought
      BY <3>5
    <3> HIDE DEF brought
    <3> QED BY <1>7, <3>6, <3>7
  <2> QED BY <2>2, <2>3
<1>13. EachOnce'
  <2> SUFFICES ASSUME wingChanges = 0, way = "export"
               PROVE  /\ carrying' = "paging" => Len(out') = offset'
                      /\ manifest = Cardinality(wing) + Len(listed)
                      /\ carrying' = "paged" => Len(out') = Cardinality(wing)
                      /\ \A i \in 1..Len(out') : out'[i] \in wing /\ Rank(out'[i]) = i - 1
    BY <1>1, <1>2, <1>10 DEF EachOnce
  <2>1. /\ Len(out) = offset /\ manifest = Cardinality(wing) + Len(listed)
        /\ \A i \in 1..Len(out) : out[i] \in wing /\ Rank(out[i]) = i - 1
    BY <1>1 DEF TransferInv, EachOnce
  <2>2. carried = page /\ Len(out') = offset + Len(page)
    BY <1>2, <1>5, <2>1
  <2>3. offset <= Len(all)
    <3> SUFFICES ASSUME offset > Len(all) PROVE FALSE
      BY <1>3, <1>4
    <3>1. offset \in 1..Len(out)
      BY <1>3, <1>4, <2>1
    <3>2. out[offset] \in wing /\ Rank(out[offset]) = offset - 1
      BY <2>1, <3>1
    <3>3. PICK r \in 1..Len(all) : all[r] = out[offset]
      BY <1>4, <3>2
    <3>4. r - 1 = offset - 1
      BY <1>4, <3>2, <3>3
    <3> QED BY <1>3, <1>4, <3>4
  <2>4. \/ carrying' = "paging" /\ offset' = offset + Len(page)
        \/ carrying' = "paged" /\ offset + Len(page) = Len(all)
    BY <1>1, <1>3, <1>4, <1>15, <1>16, <2>3
  <2>5. ASSUME NEW i \in 1..Len(out') PROVE out'[i] \in wing /\ Rank(out'[i]) = i - 1
    <3>1. CASE i \in 1..Len(out)
      BY <1>5, <2>1, <3>1
    <3>2. CASE i \notin 1..Len(out)
      <4>1. i - offset \in 1..Len(page) /\ offset + (i - offset) = i
        BY <1>3, <1>5, <2>1, <2>2, <3>2
      <4>2. out'[i] = all[i] /\ i \in 1..Len(all)
        <5>1. out'[Len(out) + (i - offset)] = page[i - offset]
          BY <1>5, <2>2, <4>1
        <5>2. page[i - offset] = all[i]
          BY <1>17, <4>1
        <5>3. i \in 1..Len(all)
          BY <1>3, <1>4, <1>15, <2>3, <4>1
        <5> QED BY <2>1, <4>1, <5>1, <5>2, <5>3
      <4> QED BY <1>4, <4>2
    <3> QED BY <3>1, <3>2
  <2> QED BY <1>4, <2>1, <2>2, <2>4, <2>5
<1>14. ClosetsCarried'
  <2>1. ListedTo(Len(listed) + 1)' = ListedTo(Len(listed) + 1) /\ carrying' \in {"paging", "paged"}
    BY <1>1, <1>2 DEF ListedTo
  <2> QED BY <1>1, <1>7, <2>1 DEF TransferInv, ClosetsCarried
<1> QED BY <1>9, <1>12, <1>13, <1>14 DEF TransferInv

LEMMA EndKeepsTransfer ==
    ASSUME TransferInv, Transfer!ListClosets \/ Transfer!Done \/ Transfer!Fail
    PROVE  TransferInv'
<1>0. TransferTypes
  BY DEF TransferInv
<1>1. /\ UNCHANGED <<way, wing, vectors, closets, closetVectors, wingChanges, gone, new,
                     offset, next, manifest, out, skipped>>
      /\ \/ /\ carrying = "paged" /\ carrying' = "closets" /\ dest' = dest
            /\ listed' = IF way = "copy" THEN Transfer!SetToSeq(closets) ELSE listed
         \/ /\ carrying = "closets" /\ carrying' = "done" /\ listed' = listed /\ next > Len(listed)
            /\ dest' = IF way = "copy" THEN [dest EXCEPT !.graph = dest.drawers] ELSE dest
         \/ carrying' = "failed" /\ listed' = listed /\ dest' = dest
  BY DEF Transfer!ListClosets, Transfer!Done, Transfer!Fail, Transfer!wing
<1>2. listed' \in Seq({11}) /\ Len(listed) \in Nat /\ (way = "export" => listed' = listed)
  <2>1. Transfer!SetToSeq(closets) \in Seq({11})
    BY <1>0, ClosetsListed DEF TransferTypes
  <2> QED BY <1>0, <1>1, <2>1 DEF TransferTypes
<1>3. /\ dest'.drawers = dest.drawers /\ dest'.closets = dest.closets
      /\ dest' \in [drawers : SUBSET Texts, closets : SUBSET {11}, graph : SUBSET Texts]
      /\ carrying' = "done" /\ way = "copy" => dest'.graph = dest'.drawers
  <2>1. dest \in [drawers : SUBSET Texts, closets : SUBSET {11}, graph : SUBSET Texts]
    BY <1>0 DEF TransferTypes
  <2>2. CASE dest' = dest /\ carrying' # "done"
    BY <2>1, <2>2
  <2>3. CASE carrying' = "done" /\ dest' = IF way = "copy" THEN [dest EXCEPT !.graph = dest.drawers] ELSE dest
    <3>1. CASE way = "copy"
      <4>1. dest' = [drawers |-> dest.drawers, closets |-> dest.closets, graph |-> dest.drawers]
        BY <2>1, <2>3, <3>1
      <4> QED BY <2>1, <4>1
    <3>2. CASE way # "copy"
      BY <2>1, <2>3, <3>2
    <3> QED BY <3>1, <3>2
  <2> QED BY <1>1, <2>2, <2>3
<1>4. TransferTypes'
  BY <1>0, <1>1, <1>2, <1>3 DEF TransferTypes
<1>5. AllCarried'
  <2>1. \A d : Carried(d)' = Carried(d)
    BY <1>1, <1>3 DEF Carried
  <2>2. \A d : Paged(d)' => Paged(d)
    BY <1>1 DEF Paged
  <2> QED BY <1>1, <2>1, <2>2 DEF TransferInv, AllCarried
<1>6. EachOnce'
  <2>1. \A d : Rank(d)' = Rank(d)
    BY <1>1 DEF Rank
  <2>2. way = "export" => Len(listed') = Len(listed)
    BY <1>2
  <2> QED BY <1>1, <2>1, <2>2 DEF TransferInv, EachOnce
<1>7. ClosetsCarried'
  <2>1. CASE carrying = "paged"
    <3>1. next = 1 /\ dest.closets = {}
      BY <2>1 DEF TransferInv, ClosetsCarried
    <3>2. ListedTo(next)' = {}
      <4>1. {j \in 1..Len(listed') : j < 1} = {}
        BY <1>2
      <4> QED BY <1>1, <3>1, <4>1 DEF ListedTo
    <3> QED BY <1>1, <1>3, <2>1, <3>1, <3>2 DEF ClosetsCarried
  <2>2. CASE carrying # "paged"
    <3>0. listed' = listed
      BY <1>1, <2>2
    <3>1. \A n : n' = n => ListedTo(n)' = ListedTo(n)
      BY <3>0 DEF ListedTo
    <3>2. ListedTo(Len(listed) + 1)' = ListedTo(Len(listed) + 1) /\ ListedTo(next)' = ListedTo(next)
      BY <1>1, <3>0 DEF ListedTo
    <3>3. next > Len(listed) => ListedTo(next) = ListedTo(Len(listed) + 1)
      <4>1. next > Len(listed) => {j \in 1..Len(listed) : j < next} = {j \in 1..Len(listed) : j < Len(listed) + 1}
        BY <1>0, <1>2 DEF TransferTypes
      <4> QED BY <4>1 DEF ListedTo
    <3> QED BY <1>1, <1>3, <2>2, <3>0, <3>2, <3>3 DEF TransferInv, ClosetsCarried
  <2> QED BY <2>1, <2>2
<1> QED BY <1>4, <1>5, <1>6, <1>7 DEF TransferInv

LEMMA CopyClosetsKeeps ==
    ASSUME TransferInv, Transfer!CopyClosets
    PROVE  TransferInv'
<1>0. TransferTypes /\ ClosetBatch \in Nat \ {0} /\ Len(listed) \in Nat /\ next \in Nat \ {0}
  BY HostAssumption DEF HostBounded, TransferInv, TransferTypes
<1> DEFINE last_ == IF next + ClosetBatch - 1 <= Len(listed) THEN next + ClosetBatch - 1 ELSE Len(listed)
<1> DEFINE batch == Transfer!ToSet(SubSeq(listed, next, last_))
<1> DEFINE carried == IF way = "copy" THEN batch \cap closetVectors ELSE batch
<1>1. /\ UNCHANGED <<way, wing, vectors, closets, closetVectors, wingChanges, gone, new,
                     carrying, offset, listed, manifest, out>>
      /\ carrying = "closets" /\ next <= Len(listed) /\ next' = next + ClosetBatch
  BY DEF Transfer!CopyClosets, Transfer!wing
<1>2. /\ dest' = IF way = "copy" THEN [dest EXCEPT !.closets = @ \cup carried] ELSE dest
      /\ skipped' = skipped + Transfer!Cardinality(batch \ carried)
  <2>1. Transfer!Min({next + ClosetBatch - 1, Len(listed)}) = last_
    BY <1>0, TransferMin
  <2> HIDE DEF last_
  <2> QED BY <2>1, Zenon DEF Transfer!CopyClosets
<1>3. batch = {listed[i] : i \in {j \in 1..Len(listed) : next <= j /\ j < next + ClosetBatch}}
  <2>1. last_ \in Nat /\ last_ <= Len(listed) /\ next <= last_
    BY <1>0, <1>1
  <2>2. {j \in 1..Len(listed) : next <= j /\ j < next + ClosetBatch} = next..last_
    BY <1>0
  <2> HIDE DEF last_
  <2> DEFINE s == SubSeq(listed, next, last_)
  <2>3. \A i \in next..last_ : listed[i] \in {11}
    BY <1>0, <2>1 DEF TransferTypes
  <2>4. /\ s \in Seq({11}) /\ Len(s) = last_ - next + 1
        /\ \A i \in 1..last_ - next + 1 : s[i] = listed[next + i - 1]
    <3>1. next \in Int /\ last_ \in Int /\ next <= last_
      BY <1>0, <2>1
    <3> QED BY <2>3, <3>1, SubSeqProperties
  <2>5. DOMAIN s = 1..last_ - next + 1
    BY <2>4
  <2> HIDE DEF s
  <2>6. \A i \in 1..last_ - next + 1 : next + i - 1 \in next..last_
    BY <1>0, <2>1
  <2>7. \A i \in next..last_ : i - next + 1 \in 1..last_ - next + 1 /\ next + (i - next + 1) - 1 = i
    BY <1>0, <2>1
  <2>8. Transfer!ToSet(s) = {listed[i] : i \in next..last_}
    BY <2>4, <2>5, <2>6, <2>7 DEF Transfer!ToSet
  <2> QED BY <2>2, <2>8 DEF s
<1> HIDE DEF batch
<1>4. ListedTo(next)' = ListedTo(next) \cup batch /\ ListedTo(Len(listed) + 1)' = ListedTo(Len(listed) + 1)
  <2>1. {j \in 1..Len(listed) : j < next + ClosetBatch}
          = {j \in 1..Len(listed) : j < next} \cup {j \in 1..Len(listed) : next <= j /\ j < next + ClosetBatch}
    BY <1>0
  <2> QED BY <1>1, <1>3, <2>1 DEF ListedTo
<1>5. batch \subseteq ListedTo(Len(listed) + 1) /\ batch \subseteq {11} /\ carried \subseteq batch
  <2>1. \A j \in 1..Len(listed) : listed[j] = 11 /\ j < Len(listed) + 1
    BY <1>0 DEF TransferTypes
  <2> QED BY <1>3, <2>1 DEF ListedTo
<1> HIDE DEF carried
<1>6. /\ Transfer!Cardinality(batch \ carried) \in Nat
      /\ Transfer!Cardinality(batch \ carried) = 0 => carried = batch
      /\ way = "export" => Transfer!Cardinality(batch \ carried) = 0
  <2>1. IsFiniteSet(batch \ carried)
    <3>1. IsFiniteSet({11}) /\ (batch \ carried) \in SUBSET {11}
      BY <1>5, FS_Singleton
    <3> QED BY <3>1, FS_Subset
  <2>2. /\ Cardinality(batch \ carried) \in Nat
        /\ Cardinality(batch \ carried) = 0 <=> batch \ carried = {}
    BY <2>1, FS_CardinalityType, FS_EmptySet
  <2>3. way = "export" => batch \ carried = {}
    BY DEF carried
  <2> QED BY <1>5, <2>2, <2>3, SameCount
<1>7. /\ dest'.drawers = dest.drawers /\ dest'.closets = IF way = "copy" THEN dest.closets \cup carried ELSE dest.closets
      /\ dest'.graph = dest.graph
      /\ dest' \in [drawers : SUBSET Texts, closets : SUBSET {11}, graph : SUBSET Texts]
  <2>1. dest \in [drawers : SUBSET Texts, closets : SUBSET {11}, graph : SUBSET Texts]
    BY <1>0 DEF TransferTypes
  <2>3. CASE way = "copy"
    <3>1. dest' = [drawers |-> dest.drawers, closets |-> dest.closets \cup carried, graph |-> dest.graph]
      BY <1>2, <2>1, <2>3
    <3> QED BY <1>5, <2>1, <2>3, <3>1
  <2>4. CASE way # "copy"
    BY <1>2, <2>1, <2>4
  <2> QED BY <2>3, <2>4
<1>8. skipped' \in Nat /\ (skipped' = 0 => skipped = 0 /\ carried = batch) /\ (way = "export" => skipped' = 0)
  <2>1. skipped \in Nat /\ (way = "export" => skipped = 0)
    BY <1>0 DEF TransferTypes
  <2> QED BY <1>2, <1>6, <2>1
<1>9. TransferTypes'
  BY <1>0, <1>1, <1>7, <1>8 DEF TransferTypes
<1>10. AllCarried'
  <2>1. \A d : Carried(d) => Carried(d)'
    BY <1>1, <1>7, <1>8 DEF Carried
  <2>2. \A d : Paged(d)' => Paged(d)
    BY <1>1 DEF Paged
  <2> QED BY <1>1, <2>1, <2>2 DEF TransferInv, AllCarried
<1>11. EachOnce'
  <2>1. \A d : Rank(d)' = Rank(d)
    BY <1>1 DEF Rank
  <2> QED BY <1>1, <2>1 DEF TransferInv, EachOnce
<1>12. ClosetsCarried'
  <2> DEFINE all == ListedTo(Len(listed) + 1)
  <2>1. dest.closets \subseteq all /\ all' = all /\ batch \subseteq all /\ carried \subseteq all
    BY <1>4, <1>5 DEF TransferInv, ClosetsCarried
  <2> HIDE DEF all
  <2>2. dest'.closets \subseteq all
    BY <1>7, <2>1
  <2>3. way = "copy" /\ skipped' = 0 => dest'.closets = ListedTo(next)'
    <3> SUFFICES ASSUME way = "copy", skipped' = 0 PROVE dest'.closets = ListedTo(next)'
      OBVIOUS
    <3>1. dest.closets = ListedTo(next) /\ carried = batch
      BY <1>1, <1>8 DEF TransferInv, ClosetsCarried
    <3> QED BY <1>4, <1>7, <3>1
  <2> QED BY <1>1, <2>1, <2>2, <2>3 DEF ClosetsCarried, all
<1> QED BY <1>9, <1>10, <1>11, <1>12 DEF TransferInv

LEMMA ChangeKeepsTransfer ==
    ASSUME TransferInv, Transfer!Change
    PROVE  TransferInv'
<1>0. TransferTypes
  BY DEF TransferInv
<1>1. /\ UNCHANGED <<way, closets, closetVectors, carrying, offset, next, listed, manifest, out, dest, skipped>>
      /\ wingChanges' = wingChanges + 1 /\ carrying \in {"paging", "paged"}
      /\ \/ \E d \in DrawerIds \ (wing \cup gone) :
              wing' = wing \cup {d} /\ new' = new \cup {d} /\ vectors' = vectors /\ gone' = gone
         \/ \E d \in wing : wing' = wing \ {d} /\ vectors' = vectors \ {d} /\ gone' = gone \cup {d} /\ new' = new
         \/ \E d \in wing \ vectors : vectors' = vectors \cup {d} /\ wing' = wing /\ gone' = gone /\ new' = new
  BY DEF Transfer!Change
<1>2. TransferTypes' /\ wingChanges' # 0
  BY <1>0, <1>1 DEF TransferTypes
<1>3. ClosetsCarried'
  <2>1. ListedTo(Len(listed) + 1)' = ListedTo(Len(listed) + 1) /\ ListedTo(next)' = ListedTo(next)
    BY <1>1 DEF ListedTo
  <2> QED BY <1>1, <2>1 DEF TransferInv, ClosetsCarried
<1>4. AllCarried'
  <2> SUFFICES ASSUME gone' = {}, NEW d \in wing' \ new', Paged(d)' PROVE Carried(d)'
    BY DEF AllCarried
  <2>1. gone = {} /\ d \in wing \ new /\ wing \subseteq wing'
    BY <1>1
  <2>2. Rank(d) \in Nat /\ Rank(d)' \in Nat /\ Rank(d) <= Rank(d)'
    <3> DEFINE N == {e \in wing : Transfer!Newer(e, d)}
    <3> DEFINE M == {e \in wing' : Transfer!Newer(e, d)}
    <3>1. IsFiniteSet(M)
      <4>1. M \in SUBSET DrawerIds
        BY <1>2 DEF TransferTypes
      <4> QED BY <4>1, DrawersOrdered, FS_Subset
    <3>2. N \in SUBSET M
      BY <2>1
    <3> HIDE DEF M, N
    <3>3. IsFiniteSet(N) /\ Cardinality(N) <= Cardinality(M)
      BY <3>1, <3>2, FS_Subset
    <3>4. Cardinality(N) \in Nat /\ Cardinality(M) \in Nat
      BY <3>1, <3>3, FS_CardinalityType
    <3>5. Rank(d) = Cardinality(N)
      BY DEF Rank, N
    <3>6. Rank(d)' = Cardinality(M)
      BY DEF Rank, M
    <3> QED BY <3>3, <3>4, <3>5, <3>6
  <2>3. Paged(d)
    BY <1>0, <1>1, <2>2 DEF Paged, TransferTypes
  <2>4. Carried(d)' = Carried(d)
    BY <1>1 DEF Carried
  <2> QED BY <2>1, <2>3, <2>4 DEF TransferInv, AllCarried
<1>5. EachOnce'
  BY <1>2 DEF EachOnce
<1> QED BY <1>2, <1>3, <1>4, <1>5 DEF TransferInv

LEMMA TransferSteps ==
    ASSUME TransferInv, [Transfer!Next]_(Transfer!vars)
    PROVE  TransferInv'
<1>1. CASE UNCHANGED Transfer!vars
  <2>1. UNCHANGED <<way, wing, vectors, closets, closetVectors, carrying, offset, next, listed,
                    manifest, out, dest, skipped, wingChanges, gone, new>>
    BY <1>1 DEF Transfer!vars
  <2>2. \A d : Rank(d)' = Rank(d) /\ Carried(d)' = Carried(d)
    BY <2>1 DEF Rank, Carried
  <2>3. ListedTo(Len(listed) + 1)' = ListedTo(Len(listed) + 1) /\ ListedTo(next)' = ListedTo(next)
    BY <2>1 DEF ListedTo
  <2>4. TransferTypes' /\ AllCarried'
    BY <2>1, <2>2 DEF TransferInv, TransferTypes, AllCarried, Paged
  <2>5. EachOnce' /\ ClosetsCarried'
    BY <2>1, <2>2, <2>3 DEF TransferInv, EachOnce, ClosetsCarried
  <2> QED BY <2>4, <2>5 DEF TransferInv
<1> QED
  BY <1>1, BeginKeeps, NextPageKeeps, EndKeepsTransfer, CopyClosetsKeeps, ChangeKeepsTransfer
     DEF Transfer!Next

(* A wing that nothing is deleted from meanwhile is exported or copied      *)
(* without missing a drawer that stood: pages that shift repeat drawers and *)
(* skip none.  One that nobody writes to is exported each drawer once, as   *)
(* many as were promised, and a copy that skipped nothing has every text,   *)
(* every closet and a graph of all.  An import that ran to its end reports  *)
(* no less than it left out, and leaves out nothing that the store took.    *)
(* For any size of the pages and the batches (palace/copywing.go,           *)
(* wingbundle, importer.go).                                               *)
TransferAt == part = "transfer" => TransferInv
THEOREM WingsMoveWhole == MCSpec => []WingMovesWhole
<1>1. MCInit => TransferAt
  BY TransferStarts DEF MCInit, TransferAt
<1>2. TransferAt /\ [MCNext]_hostVars => TransferAt'
  <2> SUFFICES ASSUME TransferAt, [MCNext]_hostVars, part' = "transfer" PROVE TransferInv'
    BY DEF TransferAt
  <2>1. part = "transfer"
    BY DEF MCNext, hostVars
  <2> QED
    BY <2>1, TransferRuns, TransferSteps DEF TransferAt
<1>3. TransferAt /\ (part = "import" => Import!ImportFilesAll) => WingMovesWhole
  BY TransferHolds DEF TransferAt, WingMovesWhole
<1> HIDE DEF TransferAt
<1> QED
  BY <1>1, <1>2, <1>3, ImportsFileAll, PTL DEF MCSpec

-----------------------------------------------------------------------------
(* What a memory file holds: words, the managed block, which may have lost *)
(* its end, and words.                                                     *)
Words == {"words"}
Bodies == {"import", "v1", "v2"}
Open(b) == <<"begin", b>>
Block(b) == <<"begin", b, "end">>
Text(c) == \E a \in Seq(Words), z \in Seq(Words), b \in Bodies :
             c = a \/ c = a \o (Open(b) \o z) \/ c = a \o (Block(b) \o z)

(* Nothing is picked of what has none; all of what has only that.          *)
LEMMA PickedNone ==
    ASSUME NEW S, NEW s \in Seq(S), NEW T, \A i \in 1..Len(s) : s[i] \notin T
    PROVE  Picked(s, T) = <<>>
<1> DEFINE p == Picked(s, T)
<1>1. /\ p \in Seq(S)
      /\ \A i \in DOMAIN p : p[i] \in T /\ \E j \in DOMAIN s : s[j] = p[i]
  BY PickedAre
<1>2. DOMAIN s = 1..Len(s)
  OBVIOUS
<1> HIDE DEF p
<1>3. DOMAIN p = {}
  BY <1>1, <1>2
<1>4. p = <<>>
  BY <1>1, <1>3
<1> QED BY <1>4 DEF p

LEMMA PickedAll ==
    ASSUME NEW S, NEW s \in Seq(S), NEW T, \A i \in 1..Len(s) : s[i] \in T
    PROVE  Picked(s, T) = s
<1>1. DOMAIN s = 1..Len(s)
  OBVIOUS
<1>2. \A i \in DOMAIN s : s[i] \in T
  BY <1>1
<1> QED BY <1>2, PickedAre

LEMMA WordsAre == ASSUME NEW a \in Seq(Words)
    PROVE  /\ a \in Seq(Written) /\ Len(a) \in Nat
           /\ \A i \in 1..Len(a) : a[i] = "words"
<1>1. Words \subseteq Written
  BY DEF Words, Written
<1>2. \A i \in 1..Len(a) : a[i] \in Words
  OBVIOUS
<1> QED BY <1>1, <1>2 DEF Words

LEMMA BlocksAre == ASSUME NEW b \in Bodies
    PROVE  /\ Open(b) \in Seq(Written) /\ Len(Open(b)) = 2 /\ Open(b)[1] = "begin" /\ Open(b)[2] = b
           /\ Block(b) \in Seq(Written) /\ Len(Block(b)) = 3
           /\ Block(b)[1] = "begin" /\ Block(b)[2] = b /\ Block(b)[3] = "end"
           /\ b \notin {"words", "begin", "end"}
<1>1. "begin" \in Written /\ "end" \in Written /\ b \in Written
  BY DEF Bodies, Written
<1>2. Open(b) \in Seq(Written) /\ Block(b) \in Seq(Written)
  BY <1>1 DEF Open, Block
<1> QED BY <1>2 DEF Open, Block, Bodies

LEMMA Joined ==
    ASSUME NEW s \in Seq(Written), NEW t \in Seq(Written)
    PROVE  /\ s \o t \in Seq(Written) /\ Len(s \o t) = Len(s) + Len(t)
           /\ \A i \in 1..Len(s) : (s \o t)[i] = s[i]
           /\ \A i \in 1..Len(t) : (s \o t)[Len(s) + i] = t[i]
BY ConcatProperties

(* A text cut at its block, with what is at each place.                    *)
LEMMA Spelled ==
    ASSUME NEW a \in Seq(Words), NEW z \in Seq(Words), NEW h \in Seq(Written)
    PROVE  /\ a \o (h \o z) \in Seq(Written) /\ Len(h) \in Nat
           /\ Len(a \o (h \o z)) = Len(a) + Len(h) + Len(z)
           /\ \A i \in 1..Len(a) : (a \o (h \o z))[i] = "words"
           /\ \A i \in 1..Len(h) : (a \o (h \o z))[Len(a) + i] = h[i]
           /\ \A i \in 1..Len(z) : (a \o (h \o z))[Len(a) + Len(h) + i] = "words"
           /\ a \o (h \o z) = (a \o h) \o z
<1> DEFINE m == a \o (h \o z)
<1>1. /\ a \in Seq(Written) /\ z \in Seq(Written) /\ Len(a) \in Nat /\ Len(z) \in Nat
      /\ \A i \in 1..Len(a) : a[i] = "words"
      /\ \A i \in 1..Len(z) : z[i] = "words"
  BY WordsAre
<1> DEFINE t == h \o z
<1>2. /\ t \in Seq(Written) /\ Len(t) = Len(h) + Len(z) /\ Len(h) \in Nat
      /\ \A i \in 1..Len(h) : t[i] = h[i]
      /\ \A i \in 1..Len(z) : t[Len(h) + i] = z[i]
  BY <1>1, ConcatProperties
<1>10. m = a \o t
  OBVIOUS
<1> HIDE DEF t, m
<1>3. /\ a \o t \in Seq(Written) /\ Len(a \o t) = Len(a) + Len(t)
      /\ \A i \in 1..Len(a) : (a \o t)[i] = a[i]
      /\ \A i \in 1..Len(t) : (a \o t)[Len(a) + i] = t[i]
  BY <1>1, <1>2, Joined
<1>4. m = a \o t
  BY <1>10
<1>5. \A i \in 1..Len(h) : i \in 1..Len(t)
  BY <1>1, <1>2
<1>6. \A i \in 1..Len(z) : Len(h) + i \in 1..Len(t) /\ Len(a) + (Len(h) + i) = Len(a) + Len(h) + i
  BY <1>1, <1>2
<1>7. m = (a \o h) \o z
  BY <1>1, ConcatAssociative DEF m
<1>8. Len(m) = Len(a) + Len(h) + Len(z)
  BY <1>1, <1>2, <1>3, <1>4
<1>9. \A i \in 1..Len(z) : m[Len(a) + Len(h) + i] = "words"
  <2> TAKE i \in 1..Len(z)
  <2>1. m[Len(a) + (Len(h) + i)] = t[Len(h) + i]
    BY <1>3, <1>4, <1>6
  <2> QED BY <1>1, <1>2, <1>6, <2>1
<1>11. /\ m \in Seq(Written) /\ Len(h) \in Nat
       /\ \A i \in 1..Len(a) : m[i] = "words"
       /\ \A i \in 1..Len(h) : m[Len(a) + i] = h[i]
  BY <1>1, <1>2, <1>3, <1>4, <1>5
<1> QED BY <1>7, <1>8, <1>9, <1>11 DEF m

LEMMA IndexIs ==
    ASSUME NEW m \in Seq(Written), NEW t
    PROVE  /\ \A i \in 1..Len(m) : m[i] = t /\ (\A j \in 1..Len(m) : j < i => m[j] # t)
                => Installer!Index(m, t) = i
           /\ (\A j \in 1..Len(m) : m[j] # t) => Installer!Index(m, t) = 0
<1> DEFINE I == {i \in 1..Len(m) : m[i] = t}
<1>1. Installer!Index(m, t) = IF I # {} THEN Installer!Min(I) ELSE 0
  BY Zenon DEF Installer!Index
<1>2. ASSUME NEW i \in 1..Len(m), m[i] = t, \A j \in 1..Len(m) : j < i => m[j] # t
      PROVE  Installer!Index(m, t) = i
  <2>1. i \in I /\ \A j \in I : i <= j
    BY <1>2
  <2>2. \A x \in I : (\A y \in I : x <= y) => x = i
    BY <2>1
  <2> HIDE DEF I
  <2>3. Installer!Min(I) = i
    BY <2>1, <2>2 DEF Installer!Min
  <2> QED BY <1>1, <2>1, <2>3
<1>3. (\A j \in 1..Len(m) : m[j] # t) => Installer!Index(m, t) = 0
  <2>1. (\A j \in 1..Len(m) : m[j] # t) => I = {}
    OBVIOUS
  <2> HIDE DEF I
  <2> QED BY <1>1, <2>1
<1> QED BY <1>2, <1>3

(* Where the markers are.                                                  *)
LEMMA Marked ==
    ASSUME NEW a \in Seq(Words), NEW z \in Seq(Words), NEW b \in Bodies
    PROVE  /\ a \in Seq(Written) /\ Installer!Index(a, "begin") = 0 /\ Installer!Index(a, "end") = 0
           /\ LET m == a \o (Open(b) \o z) IN
              /\ m \in Seq(Written) /\ Installer!Index(m, "begin") = Len(a) + 1 /\ Installer!Index(m, "end") = 0
           /\ LET m == a \o (Block(b) \o z) IN
              /\ m \in Seq(Written) /\ Installer!Index(m, "begin") = Len(a) + 1
              /\ Installer!Index(m, "end") = Len(a) + 3
<1>1. /\ a \in Seq(Written) /\ Len(a) \in Nat /\ Len(z) \in Nat
      /\ \A i \in 1..Len(a) : a[i] = "words"
  BY WordsAre
<1>2. Installer!Index(a, "begin") = 0 /\ Installer!Index(a, "end") = 0
  BY <1>1, IndexIs
<1>3. /\ Open(b) \in Seq(Written) /\ Len(Open(b)) = 2 /\ Open(b)[1] = "begin" /\ Open(b)[2] = b
      /\ Block(b) \in Seq(Written) /\ Len(Block(b)) = 3
      /\ Block(b)[1] = "begin" /\ Block(b)[2] = b /\ Block(b)[3] = "end"
      /\ b # "begin" /\ b # "end"
  BY BlocksAre
<1>4. ASSUME NEW m, m = a \o (Open(b) \o z)
      PROVE  m \in Seq(Written) /\ Installer!Index(m, "begin") = Len(a) + 1 /\ Installer!Index(m, "end") = 0
  <2>1. /\ m \in Seq(Written) /\ Len(m) = Len(a) + 2 + Len(z)
        /\ \A i \in 1..Len(a) : m[i] = "words"
        /\ \A i \in 1..2 : m[Len(a) + i] = Open(b)[i]
        /\ \A i \in 1..Len(z) : m[Len(a) + 2 + i] = "words"
    <3> DEFINE h == Open(b)
    <3>1. h \in Seq(Written) /\ Len(h) = 2 /\ m = a \o (h \o z)
      BY <1>3, <1>4
    <3> HIDE DEF h
    <3>3. /\ a \o (h \o z) \in Seq(Written)
          /\ Len(a \o (h \o z)) = Len(a) + Len(h) + Len(z)
          /\ \A i \in 1..Len(a) : (a \o (h \o z))[i] = "words"
          /\ \A i \in 1..Len(h) : (a \o (h \o z))[Len(a) + i] = h[i]
          /\ \A i \in 1..Len(z) : (a \o (h \o z))[Len(a) + Len(h) + i] = "words"
      BY <3>1, Spelled, Zenon
    <3>2. /\ m \in Seq(Written) /\ Len(m) = Len(a) + Len(h) + Len(z)
          /\ \A i \in 1..Len(a) : m[i] = "words"
          /\ \A i \in 1..Len(h) : m[Len(a) + i] = h[i]
          /\ \A i \in 1..Len(z) : m[Len(a) + Len(h) + i] = "words"
      BY <3>1, <3>3, Zenon
    <3> QED BY <3>1, <3>2 DEF h
  <2>2. m[Len(a) + 1] = "begin" /\ m[Len(a) + 2] = b
    BY <1>3, <2>1
  <2>3. ASSUME NEW j \in 1..Len(m) PROVE m[j] # "end" /\ (j < Len(a) + 1 => m[j] # "begin")
    <3>1. j \in 1..Len(a) \/ j = Len(a) + 1 \/ j = Len(a) + 2 \/ j - Len(a) - 2 \in 1..Len(z)
      BY <1>1, <2>1
    <3>2. CASE j - Len(a) - 2 \in 1..Len(z)
      <4>1. Len(a) + 2 + (j - Len(a) - 2) = j
        BY <1>1
      <4>2. m[j] = "words"
        BY <2>1, <3>2, <4>1
      <4> QED BY <1>1, <3>2, <4>2
    <3> QED BY <1>1, <1>3, <2>1, <2>2, <3>1, <3>2
  <2>4. Len(a) + 1 \in 1..Len(m)
    BY <1>1, <2>1
  <2>5. Installer!Index(m, "begin") = Len(a) + 1
    <3>1. \A i \in 1..Len(m) : m[i] = "begin" /\ (\A j \in 1..Len(m) : j < i => m[j] # "begin")
            => Installer!Index(m, "begin") = i
      BY <2>1, IndexIs
    <3> QED BY <2>2, <2>3, <2>4, <3>1
  <2>6. Installer!Index(m, "end") = 0
    <3>1. (\A j \in 1..Len(m) : m[j] # "end") => Installer!Index(m, "end") = 0
      BY <2>1, IndexIs
    <3> QED BY <2>3, <3>1
  <2> QED BY <2>1, <2>5, <2>6
<1>5. ASSUME NEW m, m = a \o (Block(b) \o z)
      PROVE  m \in Seq(Written) /\ Installer!Index(m, "begin") = Len(a) + 1 /\ Installer!Index(m, "end") = Len(a) + 3
  <2>1. /\ m \in Seq(Written) /\ Len(m) = Len(a) + 3 + Len(z)
        /\ \A i \in 1..Len(a) : m[i] = "words"
        /\ \A i \in 1..3 : m[Len(a) + i] = Block(b)[i]
    <3> DEFINE h == Block(b)
    <3>1. h \in Seq(Written) /\ Len(h) = 3 /\ m = a \o (h \o z)
      BY <1>3, <1>5
    <3> HIDE DEF h
    <3>3. /\ a \o (h \o z) \in Seq(Written)
          /\ Len(a \o (h \o z)) = Len(a) + Len(h) + Len(z)
          /\ \A i \in 1..Len(a) : (a \o (h \o z))[i] = "words"
          /\ \A i \in 1..Len(h) : (a \o (h \o z))[Len(a) + i] = h[i]
          /\ \A i \in 1..Len(z) : (a \o (h \o z))[Len(a) + Len(h) + i] = "words"
      BY <3>1, Spelled, Zenon
    <3>2. /\ m \in Seq(Written) /\ Len(m) = Len(a) + Len(h) + Len(z)
          /\ \A i \in 1..Len(a) : m[i] = "words"
          /\ \A i \in 1..Len(h) : m[Len(a) + i] = h[i]
      BY <3>1, <3>3, Zenon
    <3> QED BY <3>1, <3>2 DEF h
  <2>2. m[Len(a) + 1] = "begin" /\ m[Len(a) + 2] = b /\ m[Len(a) + 3] = "end"
    BY <1>3, <2>1
  <2>3. ASSUME NEW j \in 1..Len(m) PROVE (j < Len(a) + 3 => m[j] # "end") /\ (j < Len(a) + 1 => m[j] # "begin")
    <3>1. j \in 1..Len(a) \/ j = Len(a) + 1 \/ j = Len(a) + 2 \/ j >= Len(a) + 3
      BY <1>1, <2>1
    <3> QED BY <1>1, <1>3, <2>1, <2>2, <3>1
  <2>4. Len(a) + 1 \in 1..Len(m) /\ Len(a) + 3 \in 1..Len(m)
    BY <1>1, <2>1
  <2>5. Installer!Index(m, "begin") = Len(a) + 1
    <3>1. \A i \in 1..Len(m) : m[i] = "begin" /\ (\A j \in 1..Len(m) : j < i => m[j] # "begin")
            => Installer!Index(m, "begin") = i
      BY <2>1, IndexIs
    <3> QED BY <2>2, <2>3, <2>4, <3>1
  <2>6. Installer!Index(m, "end") = Len(a) + 3
    <3>1. \A i \in 1..Len(m) : m[i] = "end" /\ (\A j \in 1..Len(m) : j < i => m[j] # "end")
            => Installer!Index(m, "end") = i
      BY <2>1, IndexIs
    <3> QED BY <2>2, <2>3, <2>4, <3>1
  <2> QED BY <2>1, <2>5, <2>6
<1> QED BY <1>1, <1>2, <1>4, <1>5

LEMMA Joins == \A s, t, u \in Seq(Written) : (s \o t) \o u = s \o (t \o u)
BY ConcatAssociative

LEMMA PickedJoined == \A s, t \in Seq(Written) : Picked(s \o t, Words) = Picked(s, Words) \o Picked(t, Words)
BY PickedConcat

LEMMA WordsPicked ==
    ASSUME NEW a \in Seq(Words), NEW z \in Seq(Words), NEW h \in Seq(Written), Picked(h, Words) = <<>>
    PROVE  Picked(a \o (h \o z), Words) = a \o z
<1>1. a \in Seq(Written) /\ z \in Seq(Written)
  BY WordsAre
<1>2. Picked(a, Words) = a /\ Picked(z, Words) = z
  BY PickedAll
<1> DEFINE t == h \o z
<1>3. t \in Seq(Written)
  BY <1>1, Joined
<1>4. Picked(t, Words) = <<>> \o z
  <2>1. Picked(t, Words) = Picked(h, Words) \o Picked(z, Words)
    BY <1>1, PickedJoined
  <2> QED BY <1>2, <2>1
<1>5. <<>> \o z = z
  BY <1>1, ConcatEmptySeq
<1> HIDE DEF t
<1>6. Picked(a \o t, Words) = Picked(a, Words) \o Picked(t, Words)
  BY <1>1, <1>3, PickedJoined
<1> QED BY <1>2, <1>4, <1>5, <1>6 DEF t

LEMMA BlockPicked ==
    ASSUME NEW a \in Seq(Words), NEW z \in Seq(Words), NEW b \in Bodies
    PROVE  Picked(a \o (Block(b) \o z), Words) = a \o z
<1> DEFINE h == Block(b)
<1>1. h \in Seq(Written) /\ Len(h) = 3 /\ h[1] = "begin" /\ h[2] = b /\ h[3] = "end" /\ b # "words"
  BY BlocksAre
<1> HIDE DEF h
<1>2. \A i \in 1..Len(h) : h[i] \notin Words
  BY <1>1 DEF Words
<1>3. Picked(h, Words) = <<>>
  BY <1>1, <1>2, PickedNone
<1>4. Picked(a \o (h \o z), Words) = a \o z
  BY <1>1, <1>3, WordsPicked
<1> QED BY <1>4 DEF h

(* A block is replaced where it is, the words around it stay.              *)
LEMMA BlockReplaced ==
    ASSUME NEW a \in Seq(Words), NEW z \in Seq(Words), NEW b \in Bodies, NEW body \in Bodies
    PROVE  Installer!ManagedBlock(a \o (Block(b) \o z), body) = a \o (Block(body) \o z)
<1> DEFINE h == Block(b)
<1> DEFINE m == a \o (h \o z)
<1>1. /\ a \in Seq(Written) /\ z \in Seq(Written) /\ Len(a) \in Nat /\ Len(z) \in Nat
      /\ \A i \in 1..Len(a) : a[i] = "words"
      /\ \A i \in 1..Len(z) : z[i] = "words"
  BY WordsAre
<1>2. h \in Seq(Written) /\ Len(h) = 3
  BY BlocksAre
<1>3. Installer!Index(m, "begin") = Len(a) + 1 /\ Installer!Index(m, "end") = Len(a) + 3
  BY Marked
<1> HIDE DEF h
<1>4. /\ m \in Seq(Written) /\ Len(m) = Len(a) + Len(h) + Len(z)
      /\ \A i \in 1..Len(a) : m[i] = "words"
      /\ \A i \in 1..Len(z) : m[Len(a) + Len(h) + i] = "words"
  BY <1>2, Spelled
<1> HIDE DEF m
<1> DEFINE p == Len(a) + 1 - 1
<1> DEFINE q == Len(a) + 3 + 1
<1>5. Len(a) + 1 # 0 /\ p = Len(a) /\ q = Len(a) + 4
  BY <1>1
<1>12. Installer!Index(m, "begin") # 0 /\ Installer!Index(m, "begin") - 1 = p /\ Installer!Index(m, "end") + 1 = q
  BY <1>3, <1>5
<1> HIDE DEF p, q
<1>6. Installer!ManagedBlock(m, body) = SubSeq(m, 1, p) \o <<"begin", body, "end">> \o SubSeq(m, q, Len(m))
  <2>2. Installer!ManagedBlock(m, body) =
          SubSeq(m, 1, Installer!Index(m, "begin") - 1) \o <<"begin", body, "end">>
            \o SubSeq(m, Installer!Index(m, "end") + 1, Len(m))
    BY <1>12, Zenon DEF Installer!ManagedBlock
  <2> QED BY <1>12, <2>2
<1>7. SubSeq(m, 1, p) = a
  <2>1. 1 \in Int /\ p \in Int /\ \A i \in 1..p : m[i] \in Written
    BY <1>1, <1>4, <1>5
  <2>2. /\ SubSeq(m, 1, p) \in Seq(Written) /\ Len(SubSeq(m, 1, p)) = IF 1 <= p THEN p - 1 + 1 ELSE 0
        /\ \A i \in 1..p - 1 + 1 : SubSeq(m, 1, p)[i] = m[1 + i - 1]
    BY <2>1, SubSeqProperties
  <2> DEFINE s == SubSeq(m, 1, p)
  <2> HIDE DEF s
  <2>3. Len(s) = Len(a) /\ s \in Seq(Written)
    BY <1>1, <1>5, <2>2 DEF s
  <2>4. \A i \in 1..Len(a) : s[i] = a[i]
    <3> TAKE i \in 1..Len(a)
    <3>1. i \in 1..p - 1 + 1 /\ 1 + i - 1 = i
      BY <1>1, <1>5
    <3> QED BY <1>1, <1>4, <2>2, <3>1 DEF s
  <2>5. s = a
    BY <1>1, <2>3, <2>4, SeqEqual
  <2> QED BY <2>5 DEF s
<1>8. SubSeq(m, q, Len(m)) = z
  <2>1. q \in Int /\ Len(m) \in Int /\ \A i \in q..Len(m) : m[i] \in Written
    BY <1>1, <1>4, <1>5
  <2>2. /\ SubSeq(m, q, Len(m)) \in Seq(Written)
        /\ Len(SubSeq(m, q, Len(m))) = IF q <= Len(m) THEN Len(m) - q + 1 ELSE 0
        /\ \A i \in 1..Len(m) - q + 1 : SubSeq(m, q, Len(m))[i] = m[q + i - 1]
    BY <2>1, SubSeqProperties
  <2> DEFINE s == SubSeq(m, q, Len(m))
  <2> HIDE DEF s
  <2>3. Len(s) = Len(z) /\ s \in Seq(Written)
    BY <1>1, <1>2, <1>4, <1>5, <2>2 DEF s
  <2>4. \A i \in 1..Len(z) : s[i] = z[i]
    <3> TAKE i \in 1..Len(z)
    <3>1. i \in 1..Len(m) - q + 1 /\ q + i - 1 = Len(a) + Len(h) + i
      BY <1>1, <1>2, <1>4, <1>5
    <3>2. s[i] = m[q + i - 1]
      BY <2>2, <3>1 DEF s
    <3> QED BY <1>1, <1>4, <3>1, <3>2
  <2>5. s = z
    BY <1>1, <2>3, <2>4, SeqEqual
  <2> QED BY <2>5 DEF s
<1>9. Block(body) \in Seq(Written)
  BY BlocksAre
<1>10. (a \o Block(body)) \o z = a \o (Block(body) \o z)
  BY <1>1, <1>9, Joins
<1>11. Installer!ManagedBlock(m, body) = (a \o Block(body)) \o z
  BY <1>6, <1>7, <1>8, Zenon DEF Block
<1> QED BY <1>10, <1>11, Zenon DEF m, h

LEMMA BlockAppended ==
    ASSUME NEW a \in Seq(Words), NEW body \in Bodies
    PROVE  Installer!ManagedBlock(a, body) = a \o (Block(body) \o <<>>)
<1>1. Installer!Index(a, "begin") = 0 /\ a \in Seq(Written)
  BY Marked
<1>2. Installer!ManagedBlock(a, body) = a \o <<"begin", body, "end">>
  BY <1>1, Zenon DEF Installer!ManagedBlock
<1>3. Block(body) \in Seq(Written)
  BY BlocksAre
<1>4. Block(body) \o <<>> = Block(body)
  BY <1>3, ConcatEmptySeq
<1> QED BY <1>2, <1>4, Zenon DEF Block

(* Refreshing the block leaves the words as they are, and is the same when  *)
(* it is done again.                                                       *)
Managed(c, body) == \E a \in Seq(Words), z \in Seq(Words) : c = a \o (Block(body) \o z)

LEMMA ManagedIs ==
    ASSUME NEW c, NEW body \in Bodies, Managed(c, body)
    PROVE  Text(c) /\ Installer!ManagedBlock(c, body) = c
<1>1. PICK a \in Seq(Words), z \in Seq(Words) : c = a \o (Block(body) \o z)
  BY DEF Managed
<1>2. Text(c)
  BY <1>1 DEF Text
<1> QED BY <1>1, <1>2, BlockReplaced

LEMMA TextManaged ==
    ASSUME NEW c, Text(c), Installer!Balanced(c), NEW body \in Bodies
    PROVE  /\ Managed(Installer!ManagedBlock(c, body), body)
           /\ Picked(Installer!ManagedBlock(c, body), Words) = Picked(c, Words)
<1>1. PICK a \in Seq(Words), z \in Seq(Words), b \in Bodies :
        c = a \/ c = a \o (Open(b) \o z) \/ c = a \o (Block(b) \o z)
  BY DEF Text
<1>2. a \in Seq(Written) /\ z \in Seq(Written) /\ <<>> \in Seq(Words)
  BY WordsAre
<1>3. CASE c = a
  <2>1. Installer!ManagedBlock(c, body) = a \o (Block(body) \o <<>>)
    BY <1>3, BlockAppended
  <2>2. Picked(a \o (Block(body) \o <<>>), Words) = a \o <<>>
    BY <1>2, BlockPicked
  <2>3. a \o <<>> = a
    BY <1>2, ConcatEmptySeq
  <2>4. Picked(a, Words) = a
    BY PickedAll
  <2> QED BY <1>2, <1>3, <2>1, <2>2, <2>3, <2>4 DEF Managed
<1>4. CASE c = a \o (Open(b) \o z)
  <2>1. Installer!Index(c, "begin") = Len(a) + 1 /\ Installer!Index(c, "end") = 0 /\ Len(a) \in Nat
    BY <1>4, Marked, WordsAre
  <2> QED BY <2>1 DEF Installer!Balanced
<1>5. CASE c = a \o (Block(b) \o z)
  <2>1. Installer!ManagedBlock(c, body) = a \o (Block(body) \o z)
    BY <1>5, BlockReplaced
  <2>2. Picked(a \o (Block(body) \o z), Words) = a \o z /\ Picked(c, Words) = a \o z
    BY <1>5, BlockPicked
  <2> QED BY <2>1, <2>2 DEF Managed
<1> QED BY <1>1, <1>3, <1>4, <1>5

LEMMA TextIs == ASSUME NEW c, Text(c) PROVE c \in Seq(Written)
<1>1. PICK a \in Seq(Words), z \in Seq(Words), b \in Bodies :
        c = a \/ c = a \o (Open(b) \o z) \/ c = a \o (Block(b) \o z)
  BY DEF Text
<1> QED BY <1>1, Marked

LEMMA TextEmpty == Text(<<>>)
<1>1. <<>> \in Seq(Words) /\ "v2" \in Bodies
  BY DEF Bodies
<1> QED BY <1>1 DEF Text

(* The user's own words go to the end; a block that loses its end stays    *)
(* open.                                                                   *)
LEMMA AppendJoined ==
    \A s, t \in Seq(Written), x \in Written : Append(s \o t, x) = s \o Append(t, x)
<1> TAKE s, t \in Seq(Written), x \in Written
<1>1. s \o t \in Seq(Written)
  BY Joined
<1>2. Append(s \o t, x) = (s \o t) \o <<x>>
  BY <1>1, AppendIsConcat
<1>3. Append(t, x) = t \o <<x>>
  BY AppendIsConcat
<1>4. <<x>> \in Seq(Written)
  OBVIOUS
<1>5. (s \o t) \o <<x>> = s \o (t \o <<x>>)
  BY <1>4, Joins
<1> QED BY <1>2, <1>3, <1>5

LEMMA WordsAppended ==
    ASSUME NEW a \in Seq(Words), NEW z \in Seq(Words), NEW h \in Seq(Written)
    PROVE  /\ Append(a, "words") \in Seq(Words) /\ Append(z, "words") \in Seq(Words)
           /\ Append(a \o (h \o z), "words") = a \o (h \o Append(z, "words"))
<1>1. "words" \in Words /\ "words" \in Written /\ a \in Seq(Written) /\ z \in Seq(Written)
  BY WordsAre DEF Words, Written
<1>2. Append(a, "words") \in Seq(Words) /\ Append(z, "words") \in Seq(Words)
  BY <1>1, AppendProperties
<1> DEFINE t == h \o z
<1>3. t \in Seq(Written) /\ Append(t, "words") = h \o Append(z, "words")
  BY <1>1, Joined, AppendJoined
<1> HIDE DEF t
<1>4. Append(a \o t, "words") = a \o Append(t, "words")
  BY <1>1, <1>3, AppendJoined
<1> QED BY <1>2, <1>3, <1>4 DEF t

LEMMA TextWords == ASSUME NEW c, Text(c) PROVE Text(Append(c, "words"))
<1>1. PICK a \in Seq(Words), z \in Seq(Words), b \in Bodies :
        c = a \/ c = a \o (Open(b) \o z) \/ c = a \o (Block(b) \o z)
  BY DEF Text
<1> DEFINE g == Open(b)
<1> DEFINE h == Block(b)
<1>2. g \in Seq(Written) /\ h \in Seq(Written)
  BY BlocksAre
<1>3. c = a \/ c = a \o (g \o z) \/ c = a \o (h \o z)
  BY <1>1
<1> DEFINE y == Append(z, "words")
<1> HIDE DEF g, h
<1>4. /\ Append(a, "words") \in Seq(Words) /\ y \in Seq(Words)
      /\ Append(a \o (g \o z), "words") = a \o (g \o y)
      /\ Append(a \o (h \o z), "words") = a \o (h \o y)
  BY <1>2, WordsAppended
<1> HIDE DEF y
<1>5. \/ Append(c, "words") = Append(a, "words")
      \/ Append(c, "words") = a \o (g \o y)
      \/ Append(c, "words") = a \o (h \o y)
  BY <1>3, <1>4
<1> QED BY <1>4, <1>5 DEF Text, g, h

LEMMA PickedApart == \A s, t \in Seq(Written) : \A T : Picked(s \o t, T) = Picked(s, T) \o Picked(t, T)
BY PickedConcat

LEMMA BlockOpened ==
    ASSUME NEW b \in Bodies, NEW T, "begin" \in T, b \in T, "end" \notin T
    PROVE  Picked(Block(b), T) = Open(b)
<1> DEFINE g == Open(b)
<1>1. /\ g \in Seq(Written) /\ Len(g) = 2 /\ g[1] = "begin" /\ g[2] = b
  BY BlocksAre
<1>2. Block(b) = Append(g, "end")
  BY DEF Block, Open
<1>3. "end" \in Written
  BY DEF Written
<1> HIDE DEF g
<1>4. Picked(Append(g, "end"), T) = Picked(g, T)
  BY <1>1, <1>3, PickedAppend
<1>5. \A i \in 1..Len(g) : g[i] \in T
  BY <1>1
<1>6. Picked(g, T) = g
  BY <1>1, <1>5, PickedAll
<1> QED BY <1>2, <1>4, <1>6 DEF g

LEMMA TextLost ==
    ASSUME NEW c, Text(c), Installer!Index(c, "end") > 0
    PROVE  Text(Picked(c, Installer!Range(c) \ {"end"}))
<1>1. PICK a \in Seq(Words), z \in Seq(Words), b \in Bodies :
        c = a \/ c = a \o (Open(b) \o z) \/ c = a \o (Block(b) \o z)
  BY DEF Text
<1>2. c = a \o (Block(b) \o z)
  <2>1. Installer!Index(a, "end") = 0 /\ Installer!Index(a \o (Open(b) \o z), "end") = 0
    BY Marked
  <2>2. Installer!Index(c, "end") # 0
    OBVIOUS
  <2> QED BY <1>1, <2>1, <2>2, Zenon
<1> DEFINE T == Installer!Range(c) \ {"end"}
<1> DEFINE h == Block(b)
<1>3. /\ h \in Seq(Written) /\ Len(h) = 3 /\ h[1] = "begin" /\ h[2] = b /\ h[3] = "end"
      /\ b # "end" /\ Open(b) \in Seq(Written)
  BY BlocksAre
<1>4. /\ a \in Seq(Written) /\ z \in Seq(Written) /\ Len(a) \in Nat /\ Len(z) \in Nat
      /\ \A i \in 1..Len(a) : a[i] = "words"
      /\ \A i \in 1..Len(z) : z[i] = "words"
  BY WordsAre
<1>5. c = a \o (h \o z)
  BY <1>2
<1> HIDE DEF h
<1>6. /\ c \in Seq(Written) /\ Len(c) = Len(a) + Len(h) + Len(z)
      /\ \A i \in 1..Len(a) : c[i] = "words"
      /\ \A i \in 1..Len(h) : c[Len(a) + i] = h[i]
      /\ \A i \in 1..Len(z) : c[Len(a) + Len(h) + i] = "words"
  <2> DEFINE m == a \o (h \o z)
  <2>3. h \in Seq(Written)
    BY <1>3
  <2>1. /\ m \in Seq(Written) /\ Len(m) = Len(a) + Len(h) + Len(z)
        /\ \A i \in 1..Len(a) : m[i] = "words"
        /\ \A i \in 1..Len(h) : m[Len(a) + i] = h[i]
        /\ \A i \in 1..Len(z) : m[Len(a) + Len(h) + i] = "words"
    BY <2>3, Spelled, Zenon
  <2>2. c = m
    BY <1>5
  <2> HIDE DEF m
  <2> QED BY <2>1, <2>2
<1>7. \A i \in 1..Len(c) : c[i] \in Installer!Range(c)
  <2>1. DOMAIN c = 1..Len(c)
    BY <1>6
  <2> QED BY <2>1, Zenon DEF Installer!Range
<1>8. "begin" \in T /\ b \in T /\ "end" \notin T
  <2>1. Len(a) + 1 \in 1..Len(c) /\ Len(a) + 2 \in 1..Len(c)
    BY <1>3, <1>4, <1>6
  <2>2. c[Len(a) + 1] = "begin" /\ c[Len(a) + 2] = b
    BY <1>3, <1>6
  <2> QED BY <1>3, <1>7, <2>1, <2>2
<1>9. \A i \in 1..Len(a) : a[i] \in T
  <2> TAKE i \in 1..Len(a)
  <2>1. i \in 1..Len(c)
    BY <1>3, <1>4, <1>6
  <2> QED BY <1>4, <1>6, <1>7, <2>1
<1>10. \A i \in 1..Len(z) : z[i] \in T
  <2> TAKE i \in 1..Len(z)
  <2>1. Len(a) + Len(h) + i \in 1..Len(c)
    BY <1>3, <1>4, <1>6
  <2> QED BY <1>4, <1>6, <1>7, <2>1
<1> HIDE DEF T
<1>11. Picked(a, T) = a /\ Picked(z, T) = z
  BY <1>9, <1>10, PickedAll
<1>12. Picked(h, T) = Open(b)
  BY <1>8, BlockOpened DEF h
<1> DEFINE t == h \o z
<1>13. t \in Seq(Written) /\ Picked(t, T) = Open(b) \o z
  <2>1. Picked(h \o z, T) = Picked(h, T) \o Picked(z, T)
    BY <1>3, <1>4, PickedApart
  <2> QED BY <1>3, <1>4, <1>11, <1>12, <2>1, Joined
<1> HIDE DEF t
<1>14. Picked(a \o t, T) = Picked(a, T) \o Picked(t, T)
  BY <1>4, <1>13, PickedApart
<1>15. Picked(c, T) = a \o (Open(b) \o z)
  BY <1>5, <1>11, <1>13, <1>14 DEF t
<1> QED BY <1>15 DEF Text, T

(* The hooks that may be registered, and what registering ours does.       *)
HookTokens == {Installer!Own} \cup (Installer!Dir \X {"script", "hooks/script"})

LEMMA HooksAre == HookTokens \subseteq Written /\ \A d \in Installer!Dir :
    /\ Installer!Script(d) \in HookTokens /\ Installer!Legacy(d) \in HookTokens
    /\ Installer!Own \in HookTokens /\ Installer!Script(d) # Installer!Own
<1>1. Installer!Own = <<"user", "hook">>
  BY DEF Installer!Own
<1>2. HookTokens \subseteq Written
  BY <1>1 DEF HookTokens, Written
<1>3. \A d \in Installer!Dir :
    /\ Installer!Script(d) \in HookTokens /\ Installer!Legacy(d) \in HookTokens
    /\ Installer!Own \in HookTokens /\ Installer!Script(d) # Installer!Own
  BY <1>1 DEF HookTokens, Installer!Script, Installer!Legacy
<1> QED BY <1>2, <1>3

LEMMA InstallerKept == \A s, T : Installer!Kept(s, T) = Picked(s, T)
BY Zenon DEF Installer!Kept, Picked

LEMMA HooksEnsured ==
    ASSUME NEW d \in Installer!Dir, NEW s \in Seq(HookTokens)
    PROVE  /\ Installer!EnsureStopHook(d, s) \in Seq(HookTokens)
           /\ Picked(Installer!EnsureStopHook(d, s), {Installer!Own}) = Picked(s, {Installer!Own})
<1> DEFINE O == {Installer!Own}
<1> DEFINE p == Picked(s, Installer!Spared(d))
<1>1. O \subseteq Installer!Spared(d)
  BY DEF Installer!Spared
<1>2. p \in Seq(HookTokens) /\ Picked(p, O) = Picked(s, O)
  BY <1>1, PickedAre, PickedTwice
<1>3. Installer!DropStopHook(d, s) = p
  BY InstallerKept, Zenon DEF Installer!DropStopHook
<1> HIDE DEF p
<1>4. \/ Installer!EnsureStopHook(d, s) = p
      \/ Installer!EnsureStopHook(d, s) = Append(p, Installer!Script(d))
  BY <1>3, Zenon DEF Installer!EnsureStopHook
<1>5. Installer!Script(d) \in HookTokens /\ Installer!Script(d) \notin O
  BY HooksAre
<1> HIDE DEF O
<1>6. Append(p, Installer!Script(d)) \in Seq(HookTokens) /\ Picked(Append(p, Installer!Script(d)), O) = Picked(p, O)
  BY <1>2, <1>5, PickedAppend
<1> QED BY <1>2, <1>4, <1>6 DEF O

(* The files by their names: whose they are, and which are the kit's own.   *)
KitFiles == {"commands", "prompts", ".claude.json", "config.toml", "extension", "protocol", "script",
             "hooks/script", "env", "marker", "companion"}

LEMMA NamesAre ==
    /\ Installer!Dir = {"claude", "codex", "pi", "sandbox"}
    /\ Installer!Memories = {"CLAUDE.md", "AGENTS.md"}
    /\ Installer!Hooks = {"settings.json", "hooks.json"}
    /\ Installer!Auths = {".credentials.json", "auth.json"}
<1>1. Installer!Dir = {"claude", "codex", "pi", "sandbox"}
  BY DEF Installer!Dir, Kits
<1>2. /\ Installer!MemoryFile("claude") = "CLAUDE.md" /\ Installer!MemoryFile("codex") = "AGENTS.md"
      /\ Installer!MemoryFile("pi") = "AGENTS.md"
  BY DEF Installer!MemoryFile
<1>3. /\ Installer!HooksFile("claude") = "settings.json" /\ Installer!HooksFile("codex") = "hooks.json"
  BY DEF Installer!HooksFile
<1>4. /\ Installer!AuthFile("claude") = ".credentials.json" /\ Installer!AuthFile("codex") = "auth.json"
      /\ Installer!AuthFile("pi") = "auth.json"
  BY DEF Installer!AuthFile
<1>5. {k \in Kits : Installer!HasHooks(k)} = {"claude", "codex"}
  BY DEF Kits, Installer!HasHooks
<1>6. Installer!Memories = {"CLAUDE.md", "AGENTS.md"}
  BY <1>2 DEF Installer!Memories, Kits
<1>7. Installer!Hooks = {"settings.json", "hooks.json"}
  BY <1>3, <1>5 DEF Installer!Hooks, Kits
<1>8. Installer!Auths = {".credentials.json", "auth.json"}
  BY <1>4 DEF Installer!Auths, Kits
<1> QED BY <1>1, <1>6, <1>7, <1>8

LEMMA FilesOf ==
    /\ Installer!Theirs = Installer!Memories \cup Installer!Hooks \cup Installer!Auths
    /\ Installer!Theirs \cap KitFiles = {} /\ Installer!File = Installer!Theirs \cup KitFiles
    /\ \A k \in Kits :
         /\ k \in Installer!Dir /\ Installer!CommandsDir(k) \in KitFiles /\ Installer!ServerFile(k) \in KitFiles
         /\ Installer!MemoryFile(k) \in Installer!Memories /\ Installer!AuthFile(k) \in Installer!Auths
         /\ Installer!HasHooks(k) => Installer!HooksFile(k) \in Installer!Hooks
<1>1. /\ Installer!CommandsDir("claude") = "commands" /\ Installer!CommandsDir("codex") = "prompts"
      /\ Installer!CommandsDir("pi") = "prompts"
  BY DEF Installer!CommandsDir
<1>2. Installer!ServerFile("claude") = ".claude.json"
  BY Zenon DEF Installer!ServerFile
<1>3. "codex" # "claude" /\ "pi" # "claude" /\ "pi" # "codex"
  OBVIOUS
<1>4. Installer!ServerFile("codex") = "config.toml"
  BY <1>3, Zenon DEF Installer!ServerFile
<1>5. Installer!ServerFile("pi") = "extension"
  BY <1>3, Zenon DEF Installer!ServerFile
<1>6. {Installer!CommandsDir(k) : k \in Kits} = {"commands", "prompts"}
  BY <1>1 DEF Kits
<1>7. {Installer!ServerFile(k) : k \in Kits} = {".claude.json", "config.toml", "extension"}
  BY <1>2, <1>4, <1>5 DEF Kits
<1>8. Installer!File = Installer!Theirs \cup KitFiles
  BY <1>6, <1>7, Zenon DEF Installer!File, Installer!Theirs, KitFiles
<1>9. Installer!Theirs = Installer!Memories \cup Installer!Hooks \cup Installer!Auths
  BY DEF Installer!Theirs
<1>10. Installer!Theirs \cap KitFiles = {}
  BY <1>9, NamesAre DEF KitFiles
<1>11. ASSUME NEW k \in Kits
       PROVE  /\ k \in Installer!Dir
              /\ Installer!CommandsDir(k) \in KitFiles /\ Installer!ServerFile(k) \in KitFiles
              /\ Installer!MemoryFile(k) \in Installer!Memories /\ Installer!AuthFile(k) \in Installer!Auths
              /\ Installer!HasHooks(k) => Installer!HooksFile(k) \in Installer!Hooks
  <2>1. k \in Installer!Dir /\ Installer!MemoryFile(k) \in Installer!Memories /\ Installer!AuthFile(k) \in Installer!Auths
    BY DEF Installer!Dir, Installer!Memories, Installer!Auths
  <2>2. Installer!CommandsDir(k) \in KitFiles /\ Installer!ServerFile(k) \in KitFiles
    BY <1>1, <1>2, <1>4, <1>5 DEF Kits, KitFiles
  <2>3. Installer!HasHooks(k) => Installer!HooksFile(k) \in Installer!Hooks
    BY DEF Installer!Hooks
  <2> QED BY <2>1, <2>2, <2>3
<1> QED BY <1>8, <1>9, <1>10, <1>11

(* What a file of the user's may hold, and what of it is theirs.            *)
MayHold(f, c) ==
    /\ f \in Installer!Memories => c = Absent \/ Text(c)
    /\ f \in Installer!Hooks => c \in {Absent, Damaged} \/ c \in Seq(HookTokens)
    /\ f \in Installer!Auths => c \in {Absent, Link} \/ c \in Seq(Written)

LEMMA HeldIsWritten == \A c : Text(c) \/ c \in Seq(HookTokens) => c \in Seq(Written)
<1>1. \A c : c \in Seq(HookTokens) => c \in Seq(Written)
  BY HooksAre
<1> QED BY <1>1, TextIs

LEMMA MarksAre == /\ Absent # Damaged /\ Absent # Link /\ Damaged # Link
                  /\ \A c \in Seq(Written) : c \notin {Absent, Link, Damaged}
BY MarksAssumption DEF MarksApart

LEMMA PartOfMemory ==
    ASSUME NEW f \in Installer!Memories, NEW c
    PROVE  /\ c \in {Absent, Link, Damaged} => Installer!UserPart(f, c) = <<>>
           /\ c \in Seq(Written) => Installer!UserPart(f, c) = Picked(c, Words)
<1>1. c \in {Absent, Link, Damaged} => Installer!UserPart(f, c) = <<>>
  BY Zenon DEF Installer!UserPart
<1>3. f \notin Installer!Hooks
  BY NamesAre
<1>2. c \notin {Absent, Link, Damaged} => Installer!UserPart(f, c) = Installer!Kept(c, {"words"})
  BY <1>3, Zenon DEF Installer!UserPart
<1> QED BY <1>1, <1>2, MarksAre, InstallerKept DEF Words

LEMMA PartOfHooks ==
    ASSUME NEW f \in Installer!Hooks, NEW c
    PROVE  /\ c \in {Absent, Link, Damaged} => Installer!UserPart(f, c) = <<>>
           /\ c \in Seq(Written) => Installer!UserPart(f, c) = Picked(c, {Installer!Own})
<1>1. c \in {Absent, Link, Damaged} => Installer!UserPart(f, c) = <<>>
  BY Zenon DEF Installer!UserPart
<1>3. f \notin Installer!Memories
  BY NamesAre
<1>2. c \notin {Absent, Link, Damaged} => Installer!UserPart(f, c) = Installer!Kept(c, {Installer!Own})
  BY <1>3, Zenon DEF Installer!UserPart
<1> QED BY <1>1, <1>2, MarksAre, InstallerKept

LEMMA PartOfLogin ==
    ASSUME NEW f \in Installer!Auths, NEW c
    PROVE  /\ c \in {Absent, Link, Damaged} => Installer!UserPart(f, c) = <<>>
           /\ c \in Seq(Written) => Installer!UserPart(f, c) = c
<1>1. c \in {Absent, Link, Damaged} => Installer!UserPart(f, c) = <<>>
  BY Zenon DEF Installer!UserPart
<1>3. f \notin Installer!Memories /\ f \notin Installer!Hooks
  BY NamesAre
<1>2. c \notin {Absent, Link, Damaged} => Installer!UserPart(f, c) = c
  BY <1>3, Zenon DEF Installer!UserPart
<1> QED BY <1>1, <1>2, MarksAre

(* Nothing, or an emptied file, holds nothing of the user's.                *)
LEMMA EmptyPart ==
    ASSUME NEW f \in Installer!Theirs, NEW c, c \in {Absent, <<>>}
    PROVE  Installer!UserPart(f, c) = <<>> /\ MayHold(f, c)
<1>1. <<>> \in Seq(Written) /\ <<>> \in Seq(HookTokens)
  OBVIOUS
<1>2. Picked(<<>>, Words) = <<>> /\ Picked(<<>>, {Installer!Own}) = <<>>
  <2>1. <<>> \in Seq(Written) /\ Len(<<>>) = 0 /\ 1..0 = {}
    OBVIOUS
  <2> DEFINE e == <<>>
  <2>2. e \in Seq(Written) /\ \A T : \A i \in 1..Len(e) : e[i] \notin T
    BY <2>1
  <2> HIDE DEF e
  <2>3. \A T : Picked(e, T) = <<>>
    BY <2>2, PickedNone
  <2> QED BY <2>3 DEF e
<1>3. Installer!UserPart(f, c) = <<>>
  <2>1. CASE f \in Installer!Memories
    BY <1>1, <1>2, <2>1, PartOfMemory
  <2>2. CASE f \in Installer!Hooks
    BY <1>1, <1>2, <2>2, PartOfHooks
  <2>3. CASE f \in Installer!Auths
    BY <1>1, <1>2, <2>3, PartOfLogin
  <2> QED BY <2>1, <2>2, <2>3, FilesOf
<1>4. MayHold(f, c)
  BY <1>1, TextEmpty DEF MayHold
<1> QED BY <1>3, <1>4

(* The installer's invariant.  What it is about to write to a file of the   *)
(* user's holds what it read of theirs, and that is put aside before the    *)
(* file is opened; unless they wrote meanwhile, what it read was theirs, or *)
(* a kill had cut it off and it was put aside earlier.                      *)
Owed(d, f) == mine[d][f] = <<>> \/ Installer!Saved(d, f)
UserFiles == \A d \in Installer!Dir, f \in Installer!Theirs : MayHold(f, files[d][f])
UserFile == Installer!Memories \cup Installer!Hooks
AtRewrite == run # Absent /\ todo # <<>> /\ \E k \in Kits : Head(todo) \in {<<"stop", k>>, <<"memory", k>>}
AtCopy == run # Absent /\ todo # <<>> /\ \E k \in Kits : Head(todo) = <<"seed", k>>
Replacement == [dir : Installer!Dir, file : UserFile, seen : Seq(Written) \cup {Absent},
                content : Seq(Written), stage : {"read", "saved", "open"}, edited : BOOLEAN]
Sound(f, c, n) == MayHold(f, n) /\ Installer!UserPart(f, n) = Installer!UserPart(f, c)
PutAside(d, f, c) == c \in {Absent, <<>>} \/ \E b \in backups : b.dir = d /\ b.file = f /\ b.content = c
StillTheirs(d, f, n) ==
    \/ Installer!UserPart(f, n) = mine[d][f]
    \/ <<d, f>> \in torn /\ Owed(d, f)
    \/ <<d, f>> \in overtaken
Untouched(d, f) == Installer!UserPart(f, files[d][f]) = mine[d][f]
Replacing ==
    /\ AtRewrite /\ writing \in Replacement
    /\ Sound(writing.file, writing.seen, writing.content)
    /\ writing.stage = "read" \/ PutAside(writing.dir, writing.file, writing.seen)
    /\ writing.stage = "open" \/ writing.edited \/ files[writing.dir][writing.file] = writing.seen
    /\ writing.stage = "open" /\ ~writing.edited => StillTheirs(writing.dir, writing.file, writing.content)
    /\ writing.stage = "open" /\ writing.edited => Untouched(writing.dir, writing.file)
CopyFields == [dir : Installer!Dir, file : Installer!File, stage : {"copy"}, edited : BOOLEAN]
Copying ==
    /\ AtCopy /\ copying # <<>>
    /\ [dir |-> writing.dir, file |-> writing.file, stage |-> writing.stage, edited |-> writing.edited] \in CopyFields
    /\ writing = [dir |-> writing.dir, file |-> writing.file, seen |-> writing.seen, content |-> writing.content,
                  stage |-> "copy", edited |-> writing.edited]
    /\ writing.file \in Installer!Theirs => MayHold(writing.file, writing.content)
KeptAt(d, f) ==
    \/ Installer!UserPart(f, files[d][f]) = mine[d][f]
    \/ /\ f \in Installer!Auths \/ <<d, f>> \in torn \/ Installer!BeingWritten(d, f)
       /\ Owed(d, f)
    \/ <<d, f>> \in overtaken
UserInv ==
    /\ Installer!TypeOK /\ edits \in Nat
    /\ DOMAIN mine = Installer!Dir /\ \A d \in Installer!Dir : DOMAIN mine[d] = Installer!Theirs
    /\ UserFiles
    /\ writing # Absent => Replacing \/ Copying
    /\ \A d \in Installer!Dir, f \in Installer!Theirs : KeptAt(d, f)

LEMMA UserKeeps == UserInv => Installer!UserKept
BY DEF UserInv, KeptAt, Installer!UserKept, Owed

(* What a command line is, and where it installs.                          *)
LEMMA AskedAre ==
    ASSUME NEW r \in Installs
    PROVE  r.release \in Bodies /\ r.into \in {"global", "sandbox"} /\ r # Absent
<1>1. PICK c \in Asks : r = Commands[c]
  BY DEF Installs
<1>2. c \in DOMAIN Commands
  BY <1>1, HostAssumption DEF HostBounded
<1>3. c \in {"copy", "global", "socket", "all", "refresh", "shared"}
  BY <1>2 DEF Commands
<1>4. r.release = "v2" /\ r.into \in {"global", "sandbox"}
  <2>1. /\ Install.release = "v2" /\ Install.into = "sandbox"
        /\ \A f \in {"agent", "into", "copy", "share", "token", "local", "socket", "recommended", "verb",
                     "release"} : f \in DOMAIN Install
    BY DEF Install
  <2> HIDE DEF Install
  <2>2. Commands["copy"].release = "v2" /\ Commands["copy"].into = "sandbox"
    BY <2>1 DEF Commands
  <2>3. Commands["global"].release = "v2" /\ Commands["global"].into = "global"
    BY <2>1 DEF Commands
  <2>4. Commands["socket"].release = "v2" /\ Commands["socket"].into = "sandbox"
    BY <2>1 DEF Commands
  <2>5. Commands["all"].release = "v2" /\ Commands["all"].into = "sandbox"
    BY <2>1 DEF Commands
  <2>6. Commands["refresh"].release = "v2" /\ Commands["refresh"].into = "sandbox"
    BY <2>1 DEF Commands
  <2>7. Commands["shared"].release = "v2" /\ Commands["shared"].into = "sandbox"
    BY <2>1 DEF Commands
  <2> QED BY <1>1, <1>3, <2>2, <2>3, <2>4, <2>5, <2>6, <2>7
<1>5. r # Absent
  BY MarksAssumption DEF MarksApart
<1> QED BY <1>4, <1>5 DEF Bodies

LEMMA HereIs ==
    ASSUME UserInv, run # Absent, NEW k \in Kits
    PROVE  Installer!Here(k) \in Installer!Dir /\ run \in Installs /\ run.release \in Bodies
<1>1. run \in Installs
  BY DEF UserInv, Installer!TypeOK
<1> QED BY <1>1, AskedAre, FilesOf, NamesAre DEF Installer!Here, Installer!Target

(* At another step than the three that write the user's files, none of      *)
(* them is being written.                                                  *)
AsideSteps == {"share", "link", "commands", "script", "clear", "protocol", "register", "recommended"}

LEMMA NotWriting ==
    ASSUME UserInv, NEW k \in Kits, NEW s \in AsideSteps, Installer!At(s, k)
    PROVE  writing = Absent
<1>1. Head(todo) = <<s, k>>
  BY DEF Installer!At
<1>2. \A j \in Kits : Head(todo) \notin {<<"stop", j>>, <<"memory", j>>, <<"seed", j>>}
  BY <1>1 DEF AsideSteps
<1> QED BY <1>2 DEF UserInv, Replacing, Copying, AtRewrite, AtCopy

NotOpen == writing = Absent \/ writing.stage # "open"

LEMMA NoneOpen == NotOpen => \A d, f : ~Installer!BeingWritten(d, f)
BY DEF NotOpen, Installer!BeingWritten

(* A step that leaves the user's files alone.                              *)
LEMMA AsideKeeps ==
    ASSUME UserInv, NotOpen, writing' = Absent,
           mine' = mine, torn' = torn, overtaken' = overtaken, backups' = backups, edits' = edits,
           alone' \in BOOLEAN,
           run' \in Installs \cup {Absent}, copying' \in Seq(Installer!File), runs' \in 0..MaxRuns,
           DOMAIN files' = Installer!Dir, \A d \in Installer!Dir : DOMAIN files'[d] = Installer!File,
           \A d \in Installer!Dir, f \in Installer!Theirs : files'[d][f] = files[d][f]
    PROVE  UserInv'
<1>1. ASSUME NEW d \in Installer!Dir, NEW f \in Installer!Theirs PROVE KeptAt(d, f)' /\ MayHold(f, files[d][f])'
  <2>1. files'[d][f] = files[d][f] /\ mine'[d][f] = mine[d][f]
    OBVIOUS
  <2>2. KeptAt(d, f) /\ MayHold(f, files[d][f]) /\ ~Installer!BeingWritten(d, f)
    BY NoneOpen DEF UserInv, UserFiles
  <2>3. KeptAt(d, f)'
    BY <2>1, <2>2 DEF KeptAt, Owed, Installer!Saved
  <2> QED BY <2>1, <2>2, <2>3 DEF MayHold
<1>2. Installer!TypeOK'
  BY DEF UserInv, Installer!TypeOK
<1> QED BY <1>1, <1>2 DEF UserInv, UserFiles

(* A change of one file leaves the others as they are.                     *)
LEMMA FilePut ==
    ASSUME UserInv, NEW d \in Installer!Dir, NEW f \in Installer!Theirs, NEW c,
           Installer!Put(d, f, c)
    PROVE  /\ DOMAIN files' = Installer!Dir /\ \A e \in Installer!Dir : DOMAIN files'[e] = Installer!File
           /\ files'[d][f] = c
           /\ \A e \in Installer!Dir, g \in Installer!Theirs : ~(e = d /\ g = f) => files'[e][g] = files[e][g]
<1>1. DOMAIN files = Installer!Dir /\ \A e \in Installer!Dir : DOMAIN files[e] = Installer!File
  BY DEF UserInv, Installer!TypeOK
<1>2. Installer!Theirs \subseteq Installer!File
  BY FilesOf
<1> QED BY <1>1, <1>2 DEF Installer!Put

LEMMA OtherKept ==
    ASSUME UserInv, NEW e \in Installer!Dir, NEW g \in Installer!Theirs,
           files'[e][g] = files[e][g], backups \subseteq backups', mine'[e][g] = mine[e][g],
           <<e, g>> \in torn => <<e, g>> \in torn',
           <<e, g>> \in overtaken => <<e, g>> \in overtaken',
           Installer!BeingWritten(e, g) => Installer!BeingWritten(e, g)'
    PROVE  KeptAt(e, g)' /\ MayHold(g, files'[e][g])
<1>1. KeptAt(e, g) /\ MayHold(g, files[e][g])
  BY DEF UserInv, UserFiles
<1>2. Owed(e, g) => Owed(e, g)'
  BY DEF Owed, Installer!Saved
<1> QED BY <1>1, <1>2 DEF KeptAt

(* A step that writes nothing but the kit's own files.                     *)
LEMMA KitSteps ==
    ASSUME UserInv, NEW k \in Kits, NEW s \in AsideSteps, Installer!At(s, k), Installer!Plain,
           DOMAIN files' = Installer!Dir, \A d \in Installer!Dir : DOMAIN files'[d] = Installer!File,
           \A d \in Installer!Dir, f \in Installer!Theirs : files'[d][f] = files[d][f]
    PROVE  UserInv'
<1>1. writing = Absent
  BY NotWriting
<1>2. run \in Installs \cup {Absent} /\ copying \in Seq(Installer!File) /\ runs \in 0..MaxRuns /\ alone \in BOOLEAN
  BY DEF UserInv, Installer!TypeOK
<1>3. UNCHANGED <<run, copying, writing, backups, alone, mine, torn, overtaken, runs, edits>>
  BY DEF Installer!Plain, Installer!Others
<1>4. NotOpen
  BY <1>1 DEF NotOpen
<1> QED BY <1>1, <1>2, <1>3, <1>4, AsideKeeps

LEMMA KitPut ==
    ASSUME UserInv, NEW d \in Installer!Dir, NEW f \in KitFiles, NEW c, Installer!Put(d, f, c)
    PROVE  /\ DOMAIN files' = Installer!Dir /\ \A e \in Installer!Dir : DOMAIN files'[e] = Installer!File
           /\ \A e \in Installer!Dir, g \in Installer!Theirs : files'[e][g] = files[e][g]
<1>1. DOMAIN files = Installer!Dir /\ \A e \in Installer!Dir : DOMAIN files[e] = Installer!File
  BY DEF UserInv, Installer!TypeOK
<1>2. files' = [files EXCEPT ![d][f] = c]
  BY DEF Installer!Put
<1>3. \A g \in Installer!Theirs : g # f /\ g \in Installer!File
  BY FilesOf
<1> QED BY <1>1, <1>2, <1>3

LEMMA KitPutTwo ==
    ASSUME UserInv, NEW d \in Installer!Dir, NEW f \in KitFiles, NEW g \in KitFiles, NEW b, NEW c,
           files' = [files EXCEPT ![d][f] = b, ![d][g] = c]
    PROVE  /\ DOMAIN files' = Installer!Dir /\ \A e \in Installer!Dir : DOMAIN files'[e] = Installer!File
           /\ \A e \in Installer!Dir, h \in Installer!Theirs : files'[e][h] = files[e][h]
<1>1. DOMAIN files = Installer!Dir /\ \A e \in Installer!Dir : DOMAIN files[e] = Installer!File
  BY DEF UserInv, Installer!TypeOK
<1>3. \A h \in Installer!Theirs : h # f /\ h # g /\ h \in Installer!File
  BY FilesOf
<1> QED BY <1>1, <1>3

LEMMA WritesKit ==
    ASSUME UserInv, NEW k \in Kits,
           \/ Installer!WriteCommands(k) \/ Installer!WriteHook(k)
           \/ Installer!ClearLegacyHook(k) /\ files' # files
           \/ Installer!WriteProtocol(k)
    PROVE  UserInv'
<1> DEFINE d == Installer!Here(k)
<1>1. PICK s \in {"commands", "script", "clear", "protocol"}, f \in KitFiles :
        \E c : Installer!At(s, k) /\ Installer!Put(d, f, c) /\ Installer!Plain
  <2>1. CASE Installer!WriteCommands(k)
    BY <2>1, FilesOf DEF Installer!WriteCommands
  <2>2. CASE Installer!WriteHook(k)
    BY <2>2 DEF Installer!WriteHook, KitFiles
  <2>3. CASE Installer!ClearLegacyHook(k) /\ files' # files
    BY <2>3 DEF Installer!ClearLegacyHook, KitFiles
  <2>4. CASE Installer!WriteProtocol(k)
    BY <2>4 DEF Installer!WriteProtocol, KitFiles
  <2> QED BY <2>1, <2>2, <2>3, <2>4
<1>2. run # Absent
  BY <1>1 DEF Installer!At
<1>3. d \in Installer!Dir
  BY <1>2, HereIs
<1>4. PICK c : Installer!Put(d, f, c)
  BY <1>1
<1> HIDE DEF d
<1>5. /\ DOMAIN files' = Installer!Dir /\ \A e \in Installer!Dir : DOMAIN files'[e] = Installer!File
      /\ \A e \in Installer!Dir, g \in Installer!Theirs : files'[e][g] = files[e][g]
  BY <1>3, <1>4, KitPut
<1>6. Installer!At(s, k) /\ s \in AsideSteps
  BY <1>1 DEF AsideSteps
<1>7. Installer!Plain
  BY <1>1
<1> QED BY <1>5, <1>6, <1>7, KitSteps

LEMMA Registers ==
    ASSUME UserInv, NEW k \in Kits,
           \/ Installer!Unregister(k) \/ Installer!Register(k) \/ Installer!RegisterPi(k)
    PROVE  UserInv'
<1> DEFINE d == Installer!Here(k)
<1>1. /\ Installer!At("register", k) /\ Installer!Plain
      /\ \E f \in KitFiles, g \in KitFiles : \E b, c : files' = [files EXCEPT ![d][f] = b, ![d][g] = c]
  <2>1. CASE Installer!Unregister(k)
    BY <2>1, FilesOf DEF Installer!Unregister, KitFiles
  <2>2. CASE Installer!Register(k)
    <3>1. Installer!At("register", k) /\ Installer!Plain
      BY <2>2, Zenon DEF Installer!Register
    <3>2. \E x : files' = [files EXCEPT ![d][Installer!ServerFile(k)] = x,
                   ![d]["env"] = IF k = "codex" /\ run.token # Absent /\ ~run.socket
                                 THEN [token |-> run.token, url |-> FALSE] ELSE @]
      BY <2>2, Zenon DEF Installer!Register
    <3>3. Installer!ServerFile(k) \in KitFiles /\ "env" \in KitFiles
      BY FilesOf DEF KitFiles
    <3>4. \E x, y : files' = [files EXCEPT ![d][Installer!ServerFile(k)] = x, ![d]["env"] = y]
      BY <3>2, Zenon
    <3> HIDE DEF d
    <3> QED BY <3>1, <3>3, <3>4, Zenon
  <2>3. CASE Installer!RegisterPi(k)
    BY <2>3 DEF Installer!RegisterPi, KitFiles
  <2> QED BY <2>1, <2>2, <2>3
<1>2. run # Absent
  BY <1>1 DEF Installer!At
<1>3. d \in Installer!Dir
  BY <1>2, HereIs
<1>6. PICK f \in KitFiles, g \in KitFiles : \E b, c : files' = [files EXCEPT ![d][f] = b, ![d][g] = c]
  BY <1>1
<1>4. PICK b, c : files' = [files EXCEPT ![d][f] = b, ![d][g] = c]
  BY <1>6
<1> HIDE DEF d
<1>5. /\ DOMAIN files' = Installer!Dir /\ \A e \in Installer!Dir : DOMAIN files'[e] = Installer!File
      /\ \A e \in Installer!Dir, h \in Installer!Theirs : files'[e][h] = files[e][h]
  BY <1>3, <1>4, KitPutTwo
<1>8. "register" \in AsideSteps
  BY DEF AsideSteps
<1> QED BY <1>1, <1>5, <1>8, KitSteps

LEMMA LeavesFiles ==
    ASSUME UserInv, NEW k \in Kits,
           \/ Installer!NothingToShare(k) \/ Installer!LinkFails(k)
           \/ Installer!ClearLegacyHook(k) /\ files' = files
           \/ Installer!SkipServer(k) \/ Installer!RegisterFails(k)
           \/ \E landed \in BOOLEAN : Installer!Recommended(k, landed)
    PROVE  UserInv'
<1>1. DOMAIN files = Installer!Dir /\ \A d \in Installer!Dir : DOMAIN files[d] = Installer!File
  BY DEF UserInv, Installer!TypeOK
<1>2. ASSUME NEW s \in AsideSteps, Installer!At(s, k), files' = files, Installer!Plain
      PROVE  UserInv'
  BY <1>1, <1>2, KitSteps
<1>8. {"share", "link", "clear", "register", "recommended"} \subseteq AsideSteps
  BY DEF AsideSteps
<1>5. CASE Installer!NothingToShare(k) \/ Installer!LinkFails(k)
  <2>1. files' = files /\ Installer!Plain /\ (Installer!At("share", k) \/ Installer!At("link", k))
    BY <1>5 DEF Installer!NothingToShare, Installer!LinkFails
  <2> QED BY <1>2, <1>8, <2>1
<1>6. CASE \/ Installer!SkipServer(k) \/ Installer!RegisterFails(k)
           \/ Installer!ClearLegacyHook(k) /\ files' = files
  <2>1. files' = files /\ Installer!Plain /\ (Installer!At("register", k) \/ Installer!At("clear", k))
    BY <1>6 DEF Installer!SkipServer, Installer!RegisterFails, Installer!ClearLegacyHook
  <2> QED BY <1>2, <1>8, <2>1
<1>7. ASSUME NEW landed \in BOOLEAN, Installer!Recommended(k, landed) PROVE UserInv'
  <2>1. Installer!At("recommended", k) /\ Installer!Plain
    BY <1>7 DEF Installer!Recommended
  <2>3. files' = files \/ Installer!Put(Installer!Here(k), "companion", "registered")
    BY <1>7 DEF Installer!Recommended
  <2>4. CASE files' = files
    BY <1>2, <1>8, <2>1, <2>4
  <2>5. CASE Installer!Put(Installer!Here(k), "companion", "registered")
    <3>1. run # Absent
      BY <2>1 DEF Installer!At
    <3>2. Installer!Here(k) \in Installer!Dir /\ "companion" \in KitFiles
      BY <3>1, HereIs DEF KitFiles
    <3>3. /\ DOMAIN files' = Installer!Dir /\ \A e \in Installer!Dir : DOMAIN files'[e] = Installer!File
          /\ \A e \in Installer!Dir, g \in Installer!Theirs : files'[e][g] = files[e][g]
      BY <2>5, <3>2, KitPut
    <3> QED BY <1>8, <2>1, <3>3, KitSteps
  <2> QED BY <2>3, <2>4, <2>5
<1> QED BY <1>5, <1>6, <1>7

(* While a directory is copied, no file is open but one that is copied.     *)
LEMMA AtSeed ==
    ASSUME UserInv, NEW k \in Kits, Installer!At("seed", k)
    PROVE  NotOpen /\ (writing # Absent => Copying)
<1>1. Head(todo) = <<"seed", k>>
  BY DEF Installer!At
<1>2. \A j \in Kits : Head(todo) \notin {<<"stop", j>>, <<"memory", j>>}
  BY <1>1
<1>3. writing # Absent => Copying
  BY <1>2 DEF UserInv, Replacing, AtRewrite
<1>4. Copying => writing.stage = "copy"
  BY DEF Copying
<1> QED BY <1>3, <1>4 DEF NotOpen

LEMMA Seeds ==
    ASSUME UserInv, NEW k \in Kits, Installer!Seed(k) \/ Installer!SeedBreaksOff(k)
    PROVE  UserInv'
<1>1. /\ DOMAIN files = Installer!Dir /\ \A d \in Installer!Dir : DOMAIN files[d] = Installer!File
      /\ run \in Installs \cup {Absent} /\ runs \in 0..MaxRuns /\ copying \in Seq(Installer!File)
      /\ alone \in BOOLEAN
  BY DEF UserInv, Installer!TypeOK
<1>2. NotOpen
  BY AtSeed DEF Installer!Seed, Installer!SeedBreaksOff
<1>3. CASE Installer!Seed(k)
  <2>1. writing = Absent /\ UNCHANGED <<files, run, writing, backups, alone, mine, torn, overtaken, runs, edits>>
    BY <1>3 DEF Installer!Seed, Installer!Others
  <2> DEFINE T == {f \in Installer!File : files[k][f] # Absent}
  <2>3. copying' = Installer!Kept(Installer!Walk, T) \/ copying' = copying
    BY <1>3 DEF Installer!Seed
  <2>4. Installer!Kept(Installer!Walk, T) \in Seq(Installer!File)
    <3> DEFINE w == Installer!Walk
    <3> DEFINE S == KitFiles \cup {".credentials.json", "AGENTS.md", "CLAUDE.md", "auth.json", "hooks.json", "settings.json"}
    <3>1. w \in Seq(S)
      BY DEF Installer!Walk, KitFiles
    <3> DEFINE p == Picked(w, T)
    <3> HIDE DEF w, T, S
    <3>2. p \in Seq(S) /\ \A i \in DOMAIN p : p[i] \in T
      BY <3>1, PickedAre
    <3> HIDE DEF p
    <3>3. \A i \in 1..Len(p) : p[i] \in Installer!File
      BY <3>2 DEF T
    <3>4. p \in Seq(Installer!File)
      BY <3>2, <3>3
    <3> QED BY <3>4, InstallerKept DEF p, w
  <2> HIDE DEF T
  <2>5. copying' \in Seq(Installer!File)
    BY <1>1, <2>3, <2>4
  <2> QED BY <1>1, <1>2, <2>1, <2>5, AsideKeeps
<1>4. CASE Installer!SeedBreaksOff(k)
  <2>1. /\ UNCHANGED <<files, run, backups, alone, mine, torn, overtaken, runs, edits>>
        /\ copying' = <<>> /\ writing' = Absent
    BY <1>4 DEF Installer!SeedBreaksOff, Installer!Others
  <2>3. copying' \in Seq(Installer!File)
    BY <2>1
  <2> QED BY <1>1, <1>2, <2>1, <2>3, AsideKeeps
<1> QED BY <1>3, <1>4

(* A new command, the end of one, and one that is killed.                  *)
LEMMA Commanded ==
    ASSUME UserInv, (\E r \in Installs : Installer!Begin(r)) \/ Installer!Done
    PROVE  UserInv'
<1>1. /\ DOMAIN files = Installer!Dir /\ \A d \in Installer!Dir : DOMAIN files[d] = Installer!File
      /\ run \in Installs \cup {Absent} /\ runs \in 0..MaxRuns /\ copying \in Seq(Installer!File)
      /\ alone \in BOOLEAN
  BY DEF UserInv, Installer!TypeOK
<1>4. run = Absent \/ todo = <<>> => writing = Absent
  BY DEF UserInv, Replacing, Copying, AtRewrite, AtCopy
<1>5. writing = Absent => NotOpen
  BY DEF NotOpen
<1>2. ASSUME NEW r \in Installs, Installer!Begin(r) PROVE UserInv'
  <2>1. run = Absent /\ runs < MaxRuns /\ run' = r /\ runs' = runs + 1 /\ alone' = TRUE
        /\ UNCHANGED <<files, copying, writing, backups, mine, torn, overtaken, edits>>
    BY <1>2 DEF Installer!Begin
  <2>3. runs' \in 0..MaxRuns
    <3>1. MaxRuns \in Nat
      BY HostAssumption DEF HostBounded
    <3> QED BY <1>1, <2>1, <3>1
  <2> QED BY <1>1, <1>4, <1>5, <2>1, <2>3, AsideKeeps
<1>3. CASE Installer!Done
  <2>1. todo = <<>> /\ run' = Absent
        /\ UNCHANGED <<files, copying, writing, backups, alone, mine, torn, overtaken, runs, edits>>
    BY <1>3 DEF Installer!Done
  <2> QED BY <1>1, <1>4, <1>5, <2>1, AsideKeeps
<1> QED BY <1>2, <1>3

LEMMA Killed == ASSUME UserInv, Installer!Stop PROVE UserInv'
<1>1. /\ run' = Absent /\ todo' = <<>> /\ copying' = <<>> /\ writing' = Absent
      /\ torn' = IF writing # Absent /\ writing.stage = "open"
                   THEN torn \cup {<<writing.dir, writing.file>>} ELSE torn
      /\ UNCHANGED <<files, backups, alone, mine, overtaken, runs, edits>>
  BY DEF Installer!Stop, Installer!Quit
<1>2. Installer!TypeOK'
  <2>1. copying' \in Seq(Installer!File)
    BY <1>1
  <2>2. writing # Absent /\ writing.stage = "open"
          => <<writing.dir, writing.file>> \in Installer!Dir \X Installer!Theirs
    <3> SUFFICES ASSUME writing # Absent, writing.stage = "open"
                 PROVE  <<writing.dir, writing.file>> \in Installer!Dir \X Installer!Theirs
      OBVIOUS
    <3>1. Copying => writing.stage = "copy"
      BY DEF Copying
    <3>2. writing \in Replacement
      BY <3>1 DEF UserInv, Replacing
    <3> QED BY <3>2, FilesOf DEF Replacement, UserFile
  <2>3. torn' \subseteq Installer!Dir \X Installer!Theirs
    BY <1>1, <2>2 DEF UserInv, Installer!TypeOK
  <2> QED BY <1>1, <2>1, <2>3 DEF UserInv, Installer!TypeOK
<1>3. ASSUME NEW d \in Installer!Dir, NEW f \in Installer!Theirs PROVE KeptAt(d, f)'
  <2>1. KeptAt(d, f)
    BY DEF UserInv
  <2>2. files'[d][f] = files[d][f] /\ mine'[d][f] = mine[d][f] /\ (<<d, f>> \in torn => <<d, f>> \in torn')
    BY <1>1
  <2>3. Owed(d, f) => Owed(d, f)'
    BY <1>1 DEF Owed, Installer!Saved
  <2>4. Installer!BeingWritten(d, f) => <<d, f>> \in torn'
    BY <1>1 DEF Installer!BeingWritten
  <2> QED BY <1>1, <2>1, <2>2, <2>3, <2>4 DEF KeptAt
<1>4. UserFiles'
  BY <1>1 DEF UserInv, UserFiles, MayHold
<1> QED BY <1>1, <1>2, <1>3, <1>4 DEF UserInv

(* What is to be written holds what the file held of the user's.           *)
LEMMA Rewritten ==
    ASSUME UserInv, run # Absent, writing = Absent, todo # <<>>,
           NEW k \in Kits, Head(todo) \in {<<"stop", k>>, <<"memory", k>>},
           NEW d \in Installer!Dir, NEW f \in UserFile, NEW n \in Seq(Written), MayHold(f, n),
           files[d][f] \in Seq(Written) \cup {Absent},
           Installer!UserPart(f, n) = Installer!UserPart(f, files[d][f]),
           Installer!Rewrite(d, f, n), Installer!Others, UNCHANGED <<files, copying, backups, clean>>
    PROVE  UserInv'
<1>1. /\ DOMAIN files = Installer!Dir /\ \A e \in Installer!Dir : DOMAIN files[e] = Installer!File
      /\ run \in Installs \cup {Absent} /\ runs \in 0..MaxRuns /\ copying \in Seq(Installer!File)
      /\ alone \in BOOLEAN
  BY DEF UserInv, Installer!TypeOK
<1>2. f \in Installer!Theirs
  BY FilesOf DEF UserFile
<1>5. UNCHANGED <<files, copying, backups, run, alone, mine, torn, overtaken, runs, edits>>
  BY DEF Installer!Others
<1>6. NotOpen
  BY DEF NotOpen
<1> DEFINE c == files[d][f]
<1>3. CASE n = c
  <2>1. writing' = writing
    BY <1>3 DEF Installer!Rewrite
  <2> QED BY <1>1, <1>5, <1>6, <2>1, AsideKeeps
<1>4. CASE n # c
  <2>1. /\ writing' = [dir |-> d, file |-> f, seen |-> c, content |-> n, stage |-> "read", edited |-> FALSE]
        /\ todo' = todo
    BY <1>4 DEF Installer!Rewrite
  <2>2. /\ writing'.dir = d /\ writing'.file = f /\ writing'.seen = c /\ writing'.content = n
        /\ writing'.stage = "read" /\ writing'.edited = FALSE
    BY <2>1
  <2>3. writing' \in Replacement
    BY <2>1 DEF Replacement
  <2>4. AtRewrite'
    BY <1>5, <2>1 DEF AtRewrite
  <2>5. Sound(f, c, n)
    BY DEF Sound
  <2>6. Sound(writing'.file, writing'.seen, writing'.content)
    BY <2>2, <2>5
  <2>7. Sound(writing.file, writing.seen, writing.content)'
    BY <2>6 DEF Sound, MayHold
  <2>8. files'[writing'.dir][writing'.file] = writing'.seen
    BY <1>5, <2>2
  <2>9. Replacing'
    BY <2>2, <2>3, <2>4, <2>7, <2>8 DEF Replacing
  <2>10. \A e \in Installer!Dir, g \in Installer!Theirs : KeptAt(e, g)'
    <3> SUFFICES ASSUME NEW e \in Installer!Dir, NEW g \in Installer!Theirs PROVE KeptAt(e, g)'
      OBVIOUS
    <3>1. ~Installer!BeingWritten(e, g)
      BY <1>6, NoneOpen
    <3> QED BY <1>5, <3>1, OtherKept
  <2>11. UserFiles'
    BY <1>5 DEF UserInv, UserFiles, MayHold
  <2>12. Installer!TypeOK'
    BY <1>5 DEF UserInv, Installer!TypeOK
  <2> QED BY <1>5, <2>9, <2>10, <2>11, <2>12 DEF UserInv
<1> QED BY <1>3, <1>4

(* What is being written, by its parts.                                    *)
LEMMA Replaces ==
    ASSUME UserInv, writing # Absent, writing.stage # "copy"
    PROVE  /\ Replacing
           /\ \E d \in Installer!Dir, f \in UserFile, c \in Seq(Written) \cup {Absent}, n \in Seq(Written) :
                writing.dir = d /\ writing.file = f /\ writing.seen = c /\ writing.content = n /\ Sound(f, c, n)
<1>1. Replacing
  BY DEF UserInv, Copying
<1>2. writing \in Replacement /\ Sound(writing.file, writing.seen, writing.content)
  BY <1>1 DEF Replacing
<1>3. /\ writing.dir \in Installer!Dir /\ writing.file \in UserFile
      /\ writing.seen \in Seq(Written) \cup {Absent} /\ writing.content \in Seq(Written)
  BY <1>2 DEF Replacement
<1> QED BY <1>1, <1>2, <1>3, Zenon

(* What was read is put aside, before anything is written.                 *)
LEMMA BacksUp == ASSUME UserInv, Installer!BackUp PROVE UserInv'
<1>1. /\ writing # Absent /\ writing.stage = "read" /\ writing' = [writing EXCEPT !.stage = "saved"]
      /\ backups' = IF writing.seen \in {Absent, <<>>} THEN backups
                    ELSE backups \cup {[dir |-> writing.dir, file |-> writing.file, content |-> writing.seen]}
      /\ UNCHANGED <<files, todo, copying, run, alone, mine, torn, overtaken, runs, edits>>
  BY DEF Installer!BackUp, Installer!Others
<1>2. Replacing
  BY <1>1, Replaces
<1>3. PICK d \in Installer!Dir, f \in UserFile, c \in Seq(Written) \cup {Absent}, n \in Seq(Written) :
        writing.dir = d /\ writing.file = f /\ writing.seen = c /\ writing.content = n /\ Sound(f, c, n)
  BY <1>1, Replaces
<1>4. writing \in Replacement
  BY <1>2 DEF Replacing
<1>5. /\ writing' \in Replacement
      /\ writing'.dir = d /\ writing'.file = f /\ writing'.seen = c /\ writing'.content = n
      /\ writing'.stage = "saved" /\ writing'.edited = writing.edited
  BY <1>1, <1>3, <1>4 DEF Replacement
<1>6. PutAside(d, f, c)'
  <2>1. CASE c \in {Absent, <<>>}
    BY <2>1 DEF PutAside
  <2>2. CASE c \notin {Absent, <<>>}
    <3> DEFINE b == [dir |-> d, file |-> f, content |-> c]
    <3>1. b \in backups' /\ b.dir = d /\ b.file = f /\ b.content = c
      BY <1>1, <1>3, <2>2
    <3> HIDE DEF b
    <3> QED BY <3>1 DEF PutAside
  <2> QED BY <2>1, <2>2
<1>7. writing.edited \/ files[d][f] = c
  BY <1>1, <1>2, <1>3 DEF Replacing
<1>8. Replacing'
  <2>1. AtRewrite'
    BY <1>1, <1>2 DEF Replacing, AtRewrite
  <2>2. Sound(writing.file, writing.seen, writing.content)'
    <3>1. Sound(writing'.file, writing'.seen, writing'.content)
      BY <1>3, <1>5
    <3> QED BY <3>1 DEF Sound, MayHold
  <2>3. PutAside(writing.dir, writing.file, writing.seen)'
    BY <1>5, <1>6 DEF PutAside
  <2>4. writing'.edited \/ files'[writing'.dir][writing'.file] = writing'.seen
    BY <1>1, <1>5, <1>7
  <2> QED BY <1>5, <2>1, <2>2, <2>3, <2>4 DEF Replacing
<1>9. backups \subseteq backups'
  BY <1>1
<1>10. \A e \in Installer!Dir, g \in Installer!Theirs : KeptAt(e, g)'
  <2> SUFFICES ASSUME NEW e \in Installer!Dir, NEW g \in Installer!Theirs PROVE KeptAt(e, g)'
    OBVIOUS
  <2>1. ~Installer!BeingWritten(e, g)
    BY <1>1 DEF Installer!BeingWritten
  <2> QED BY <1>1, <1>9, <2>1, OtherKept
<1>11. UserFiles'
  BY <1>1 DEF UserInv, UserFiles, MayHold
<1>12. Installer!TypeOK'
  BY <1>1 DEF UserInv, Installer!TypeOK
<1> QED BY <1>1, <1>8, <1>10, <1>11, <1>12 DEF UserInv

(* The file is emptied: what it held is put aside, unless the user wrote    *)
(* since it was read.                                                      *)
LEMMA Truncates == ASSUME UserInv, Installer!Truncate PROVE UserInv'
<1>1. /\ writing # Absent /\ writing.stage = "saved"
      /\ Installer!Put(writing.dir, writing.file, <<>>)
      /\ writing' = [writing EXCEPT !.stage = "open", !.edited = FALSE]
      /\ overtaken' = IF writing.edited THEN overtaken \cup {<<writing.dir, writing.file>>} ELSE overtaken
      /\ UNCHANGED <<run, todo, copying, backups, alone, mine, torn, runs, edits>>
  BY DEF Installer!Truncate, Installer!Overtaken
<1>2. Replacing
  BY <1>1, Replaces
<1>3. PICK d \in Installer!Dir, f \in UserFile, c \in Seq(Written) \cup {Absent}, n \in Seq(Written) :
        writing.dir = d /\ writing.file = f /\ writing.seen = c /\ writing.content = n /\ Sound(f, c, n)
  BY <1>1, Replaces
<1>4. writing \in Replacement
  BY <1>2 DEF Replacing
<1>5. /\ writing' \in Replacement
      /\ writing'.dir = d /\ writing'.file = f /\ writing'.seen = c /\ writing'.content = n
      /\ writing'.stage = "open" /\ writing'.edited = FALSE
  BY <1>1, <1>3, <1>4 DEF Replacement
<1>6. /\ f \in Installer!Theirs /\ f \notin Installer!Auths
  BY FilesOf, NamesAre DEF UserFile
<1> DEFINE x == <<>>
<1>7. Installer!Put(d, f, x) /\ MayHold(f, x) /\ Installer!UserPart(f, <<>>) = <<>> /\ Installer!UserPart(f, Absent) = <<>>
  BY <1>1, <1>3, <1>6, EmptyPart
<1> HIDE DEF x
<1>8. /\ DOMAIN files' = Installer!Dir /\ \A e \in Installer!Dir : DOMAIN files'[e] = Installer!File
      /\ files'[d][f] = x
      /\ \A e \in Installer!Dir, g \in Installer!Theirs : ~(e = d /\ g = f) => files'[e][g] = files[e][g]
  BY <1>6, <1>7, FilePut
<1>9. overtaken \subseteq overtaken'
  BY <1>1
<1>10. ASSUME NEW e \in Installer!Dir, NEW g \in Installer!Theirs, ~(e = d /\ g = f)
       PROVE  KeptAt(e, g)' /\ MayHold(g, files'[e][g])
  <2>1. mine'[e][g] = mine[e][g] /\ files'[e][g] = files[e][g] /\ torn' = torn /\ backups' = backups
    BY <1>1, <1>8, <1>10
  <2>2. ~Installer!BeingWritten(e, g)
    BY <1>1 DEF Installer!BeingWritten
  <2> QED BY <1>9, <2>1, <2>2, OtherKept
<1>11. PutAside(d, f, c) /\ (writing.edited \/ files[d][f] = c)
  BY <1>1, <1>2, <1>3 DEF Replacing
<1>12. ~writing.edited => Owed(d, f) \/ <<d, f>> \in overtaken
  <2> SUFFICES ASSUME ~writing.edited, <<d, f>> \notin overtaken, ~Owed(d, f) PROVE FALSE
    OBVIOUS
  <2>1. KeptAt(d, f)
    BY <1>6 DEF UserInv
  <2>2. Installer!UserPart(f, c) = mine[d][f] /\ mine[d][f] # <<>>
    BY <1>11, <2>1 DEF KeptAt, Owed
  <2>3. c \notin {Absent, <<>>}
    BY <1>7, <2>2
  <2>4. Installer!Saved(d, f)
    BY <1>11, <2>2, <2>3 DEF PutAside, Installer!Saved
  <2> QED BY <2>4 DEF Owed
<1>13. KeptAt(d, f)'
  <2>1. CASE writing.edited
    BY <1>1, <1>3, <2>1 DEF KeptAt
  <2>2. CASE ~writing.edited
    <3>1. writing' # Absent
      BY <1>5, MarksAssumption, FilesOf DEF MarksApart, Replacement, UserFile
    <3>2. Installer!BeingWritten(d, f)'
      BY <1>5, <3>1 DEF Installer!BeingWritten
    <3>3. Owed(d, f)' \/ <<d, f>> \in overtaken'
      BY <1>1, <1>9, <1>12, <2>2 DEF Owed, Installer!Saved
    <3> QED BY <3>2, <3>3 DEF KeptAt
  <2> QED BY <2>1, <2>2
<1>14. StillTheirs(d, f, n)'
  <2>1. CASE writing.edited
    BY <1>1, <1>3, <2>1 DEF StillTheirs
  <2>2. CASE ~writing.edited
    <3>1. Installer!UserPart(f, n) = Installer!UserPart(f, files[d][f])
      BY <1>3, <1>11, <2>2 DEF Sound
    <3>2. KeptAt(d, f) /\ ~Installer!BeingWritten(d, f)
      BY <1>1, <1>6 DEF UserInv, Installer!BeingWritten
    <3>3. StillTheirs(d, f, n)
      BY <1>6, <3>1, <3>2 DEF StillTheirs, KeptAt
    <3> QED BY <1>1, <1>9, <3>3 DEF StillTheirs, Owed, Installer!Saved
  <2> QED BY <2>1, <2>2
<1>15. Replacing'
  <2>1. AtRewrite'
    BY <1>1, <1>2 DEF Replacing, AtRewrite
  <2>2. Sound(writing.file, writing.seen, writing.content)'
    <3>1. Sound(writing'.file, writing'.seen, writing'.content)
      BY <1>3, <1>5
    <3> QED BY <3>1 DEF Sound, MayHold
  <2>3. PutAside(writing.dir, writing.file, writing.seen)'
    BY <1>1, <1>5, <1>11 DEF PutAside
  <2>4. StillTheirs(writing.dir, writing.file, writing.content)'
    BY <1>5, <1>14 DEF StillTheirs, Owed, Installer!Saved
  <2> QED BY <1>5, <2>1, <2>2, <2>3, <2>4 DEF Replacing
<1>16. \A e \in Installer!Dir, g \in Installer!Theirs : KeptAt(e, g)'
  BY <1>10, <1>13
<1>17. UserFiles'
  <2>1. \A e \in Installer!Dir, g \in Installer!Theirs : MayHold(g, files'[e][g])
    BY <1>7, <1>8, <1>10
  <2> QED BY <2>1 DEF UserFiles, MayHold
<1>18. Installer!TypeOK'
  BY <1>1, <1>8 DEF UserInv, Installer!TypeOK
<1> QED BY <1>1, <1>15, <1>16, <1>17, <1>18 DEF UserInv

(* A file that was emptied or created is written.                          *)
LEMMA WrittenOut == ASSUME UserInv, Installer!WriteOut PROVE UserInv'
<1>1. /\ writing # Absent /\ writing' = Absent
      /\ UNCHANGED <<run, backups, alone, torn, runs, edits>>
  BY DEF Installer!WriteOut
<1>2. writing.stage \in {"open", "copy"}
  BY DEF Installer!WriteOut
<1>3. /\ DOMAIN files = Installer!Dir /\ \A e \in Installer!Dir : DOMAIN files[e] = Installer!File
      /\ run \in Installs \cup {Absent} /\ runs \in 0..MaxRuns /\ copying \in Seq(Installer!File)
      /\ alone \in BOOLEAN /\ torn \subseteq Installer!Dir \X Installer!Theirs
  BY DEF UserInv, Installer!TypeOK
<1>4. DOMAIN mine = Installer!Dir /\ \A e \in Installer!Dir : DOMAIN mine[e] = Installer!Theirs
  BY DEF UserInv
<1>5. copying' \in Seq(Installer!File)
  <2>1. CASE writing.stage # "copy"
    BY <1>3, <2>1 DEF Installer!WriteOut
  <2>2. CASE writing.stage = "copy"
    <3>1. copying' = Tail(copying)
      BY <2>2 DEF Installer!WriteOut, Installer!Visited
    <3>2. copying # <<>>
      BY <1>1, <2>2 DEF UserInv, Replacing, Replacement, Copying
    <3> QED BY <1>3, <3>1, <3>2
  <2> QED BY <2>1, <2>2
<1>6. writing.dir \in Installer!Dir /\ writing.file \in Installer!File
  <2>1. CASE Replacing
    BY <2>1, FilesOf DEF Replacing, Replacement, UserFile
  <2>2. CASE Copying
    BY <2>2 DEF Copying, CopyFields
  <2> QED BY <1>1, <2>1, <2>2 DEF UserInv
<1>7. PICK d \in Installer!Dir, f \in Installer!File : d = writing.dir /\ f = writing.file
  BY <1>6
<1>8. PICK n : n = writing.content
  OBVIOUS
<1>9. f \in Installer!Theirs => MayHold(f, n)
  <2>1. CASE Replacing
    BY <1>7, <1>8, <2>1 DEF Replacing, Sound
  <2>2. CASE Copying
    BY <1>7, <1>8, <2>2 DEF Copying
  <2> QED BY <1>1, <2>1, <2>2 DEF UserInv
<1>10. ASSUME NEW e \in Installer!Dir, NEW g \in Installer!Theirs, ~(e = d /\ g = f)
       PROVE  ~Installer!BeingWritten(e, g)
  BY <1>7, <1>10 DEF Installer!BeingWritten
<1>11. CASE /\ Installer!Put(d, f, n)
            /\ overtaken' = IF writing.edited THEN overtaken \cup {<<d, f>>} ELSE overtaken
            /\ mine' = IF writing.stage = "copy" /\ f \in Installer!Theirs /\ ~writing.edited
                         THEN [mine EXCEPT ![d][f] = Installer!UserPart(f, n)] ELSE mine
  <2>1. /\ DOMAIN files' = Installer!Dir /\ \A e \in Installer!Dir : DOMAIN files'[e] = Installer!File
        /\ files'[d][f] = n
        /\ \A e \in Installer!Dir, g \in Installer!Theirs : ~(e = d /\ g = f) => files'[e][g] = files[e][g]
    <3>1. Installer!Theirs \subseteq Installer!File
      BY FilesOf
    <3> QED BY <1>3, <1>11, <3>1 DEF Installer!Put
  <2>2. /\ DOMAIN mine' = Installer!Dir /\ \A e \in Installer!Dir : DOMAIN mine'[e] = Installer!Theirs
        /\ \A e \in Installer!Dir, g \in Installer!Theirs : ~(e = d /\ g = f) => mine'[e][g] = mine[e][g]
    BY <1>4, <1>11
  <2>3. overtaken \subseteq overtaken'
    BY <1>11
  <2>4. ASSUME NEW e \in Installer!Dir, NEW g \in Installer!Theirs, ~(e = d /\ g = f)
        PROVE  KeptAt(e, g)' /\ MayHold(g, files'[e][g])
    <3>1. mine'[e][g] = mine[e][g] /\ files'[e][g] = files[e][g] /\ torn' = torn /\ backups' = backups
      BY <1>1, <2>1, <2>2, <2>4
    <3> QED BY <1>10, <2>3, <2>4, <3>1, OtherKept
  <2>5. f \in Installer!Theirs => KeptAt(d, f)'
    <3> SUFFICES ASSUME f \in Installer!Theirs PROVE KeptAt(d, f)'
      OBVIOUS
    <3>1. CASE writing.edited
      BY <1>11, <3>1 DEF KeptAt
    <3>2. CASE ~writing.edited /\ writing.stage = "copy"
      <4>1. mine' = [mine EXCEPT ![d][f] = Installer!UserPart(f, n)]
        BY <1>11, <3>2
      <4>2. mine'[d][f] = Installer!UserPart(f, n)
        BY <1>4, <4>1
      <4> QED BY <2>1, <4>2 DEF KeptAt
    <3>3. CASE ~writing.edited /\ writing.stage = "open"
      <4>1. Replacing
        BY <1>1, <3>3, Replaces
      <4>2. StillTheirs(d, f, n)
        BY <1>7, <1>8, <3>3, <4>1 DEF Replacing
      <4>3. mine' = mine
        BY <1>11, <3>3
      <4> QED BY <1>1, <2>1, <2>3, <4>2, <4>3 DEF StillTheirs, KeptAt, Owed, Installer!Saved
    <3> QED BY <1>2, <3>1, <3>2, <3>3
  <2>6. \A e \in Installer!Dir, g \in Installer!Theirs : KeptAt(e, g)'
    BY <2>4, <2>5
  <2>7. UserFiles'
    <3>1. \A e \in Installer!Dir, g \in Installer!Theirs : MayHold(g, files'[e][g])
      BY <1>9, <2>1, <2>4
    <3> QED BY <3>1 DEF UserFiles, MayHold
  <2>8. Installer!TypeOK'
    BY <1>1, <1>3, <1>5, <2>1 DEF UserInv, Installer!TypeOK
  <2> QED BY <1>1, <2>2, <2>6, <2>7, <2>8 DEF UserInv
<1>12. CASE writing.edited /\ UNCHANGED <<files, overtaken, mine>>
  <2>1. ASSUME NEW e \in Installer!Dir, NEW g \in Installer!Theirs PROVE KeptAt(e, g)'
    <3>1. CASE ~Installer!BeingWritten(e, g)
      BY <1>1, <1>12, <3>1, OtherKept
    <3>2. CASE Installer!BeingWritten(e, g)
      <4>1. writing.stage = "open" /\ e = writing.dir /\ g = writing.file
        BY <3>2 DEF Installer!BeingWritten
      <4>2. Replacing
        BY <1>1, <4>1, Replaces
      <4>3. Untouched(e, g)
        BY <1>12, <4>1, <4>2 DEF Replacing
      <4> QED BY <1>12, <4>3 DEF Untouched, KeptAt
    <3> QED BY <3>1, <3>2
  <2>2. UserFiles'
    BY <1>12 DEF UserInv, UserFiles, MayHold
  <2>3. Installer!TypeOK'
    BY <1>1, <1>3, <1>5, <1>12 DEF UserInv, Installer!TypeOK
  <2> QED BY <1>1, <1>12, <2>1, <2>2, <2>3 DEF UserInv
<1>13. \/ /\ Installer!Put(d, f, n)
          /\ overtaken' = IF writing.edited THEN overtaken \cup {<<d, f>>} ELSE overtaken
          /\ mine' = IF writing.stage = "copy" /\ f \in Installer!Theirs /\ ~writing.edited
                       THEN [mine EXCEPT ![d][f] = Installer!UserPart(f, n)] ELSE mine
       \/ writing.edited /\ UNCHANGED <<files, overtaken, mine>>
  BY <1>7, <1>8 DEF Installer!WriteOut, Installer!Overtaken
<1> QED BY <1>11, <1>12, <1>13

(* A file of the user's that their global directory has and the target     *)
(* lacks is created, to be filled with what that one holds.                *)
LEMMA Copies ==
    ASSUME UserInv, NEW k \in Kits, Installer!CopyRegular(k)
    PROVE  UserInv'
<1> DEFINE d == Installer!Here(k)
<1> DEFINE f == Head(copying)
<1>1. /\ Installer!At("seed", k) /\ copying # <<>> /\ writing = Absent
      /\ UNCHANGED <<run, backups, alone, mine, torn, overtaken, runs, edits>>
  BY DEF Installer!CopyRegular, Installer!Others
<1>5. /\ DOMAIN files = Installer!Dir /\ \A e \in Installer!Dir : DOMAIN files[e] = Installer!File
      /\ run \in Installs \cup {Absent} /\ runs \in 0..MaxRuns /\ copying \in Seq(Installer!File)
      /\ alone \in BOOLEAN
  BY DEF UserInv, Installer!TypeOK
<1>2. \/ copying' = Tail(copying) /\ UNCHANGED <<files, writing>>
      \/ /\ files[d][f] = Absent /\ Installer!Put(d, f, <<>>)
         /\ writing' = [dir |-> d, file |-> f, seen |-> Absent, content |-> files[k][f],
                        stage |-> "copy", edited |-> FALSE]
         /\ UNCHANGED <<todo, copying>>
  BY DEF Installer!CopyRegular, Installer!Visited
<1>3. d \in Installer!Dir /\ k \in Installer!Dir /\ f \in Installer!File
  BY <1>1, <1>5, HereIs, FilesOf DEF Installer!At
<1>4. PICK e0 \in Installer!Dir, f0 \in Installer!File : e0 = d /\ f0 = f
  BY <1>3
<1>9. PICK c : c = files[k][f]
  OBVIOUS
<1>6. NotOpen
  BY <1>1 DEF NotOpen
<1>7. CASE copying' = Tail(copying) /\ UNCHANGED <<files, writing>>
  <2>1. copying' \in Seq(Installer!File)
    BY <1>1, <1>5, <1>7
  <2> QED BY <1>1, <1>5, <1>6, <1>7, <2>1, AsideKeeps
<1>8. CASE /\ files[d][f] = Absent /\ Installer!Put(d, f, <<>>)
           /\ writing' = [dir |-> d, file |-> f, seen |-> Absent, content |-> files[k][f],
                          stage |-> "copy", edited |-> FALSE]
           /\ UNCHANGED <<todo, copying>>
  <2> DEFINE x == <<>>
  <2>1. /\ files[e0][f0] = Absent /\ Installer!Put(e0, f0, x) /\ UNCHANGED <<todo, copying>>
        /\ writing' = [dir |-> e0, file |-> f0, seen |-> Absent, content |-> c, stage |-> "copy", edited |-> FALSE]
    BY <1>4, <1>8, <1>9
  <2>2. f0 \in Installer!Theirs => /\ MayHold(f0, x) /\ Installer!UserPart(f0, x) = <<>>
                                   /\ Installer!UserPart(f0, Absent) = <<>>
    BY EmptyPart
  <2> HIDE DEF x, d, f
  <2>3. /\ DOMAIN files' = Installer!Dir /\ \A e \in Installer!Dir : DOMAIN files'[e] = Installer!File
        /\ files'[e0][f0] = x
        /\ \A e \in Installer!Dir, g \in Installer!Theirs : ~(e = e0 /\ g = f0) => files'[e][g] = files[e][g]
    <3>1. Installer!Theirs \subseteq Installer!File
      BY FilesOf
    <3> QED BY <1>5, <2>1, <3>1 DEF Installer!Put
  <2>4. ASSUME NEW e \in Installer!Dir, NEW g \in Installer!Theirs
        PROVE  KeptAt(e, g)' /\ MayHold(g, files'[e][g])
    <3>1. ~Installer!BeingWritten(e, g) /\ KeptAt(e, g)
      BY <1>6, NoneOpen DEF UserInv
    <3>2. CASE ~(e = e0 /\ g = f0)
      <4>1. files'[e][g] = files[e][g]
        BY <2>3, <3>2
      <4> QED BY <1>1, <3>1, <4>1, OtherKept
    <3>3. CASE e = e0 /\ g = f0
      <4>1. Installer!UserPart(g, files'[e][g]) = Installer!UserPart(g, files[e][g]) /\ MayHold(g, files'[e][g])
        BY <2>1, <2>2, <2>3, <3>3
      <4>2. Owed(e, g) => Owed(e, g)'
        BY <1>1 DEF Owed, Installer!Saved
      <4> QED BY <1>1, <3>1, <4>1, <4>2 DEF KeptAt
    <3> QED BY <3>2, <3>3
  <2>5. f0 \in Installer!Theirs => MayHold(f0, c)
    BY <1>3, <1>4, <1>9 DEF UserInv, UserFiles
  <2>6. Copying'
    <3>1. AtCopy'
      BY <1>1, <2>1 DEF AtCopy, Installer!At
    <3>2. /\ writing'.dir = e0 /\ writing'.file = f0 /\ writing'.content = c /\ writing'.stage = "copy"
          /\ writing'.edited = FALSE /\ writing'.seen = Absent
      BY <2>1
    <3>3. MayHold(writing.file, writing.content)' <=> MayHold(f0, c)
      BY <3>2 DEF MayHold
    <3>4. [dir |-> writing'.dir, file |-> writing'.file, stage |-> writing'.stage, edited |-> writing'.edited] \in CopyFields
      BY <3>2 DEF CopyFields
    <3> QED BY <1>1, <2>1, <2>5, <3>1, <3>2, <3>3, <3>4 DEF Copying
  <2>7. UserFiles'
    <3>1. \A e \in Installer!Dir, g \in Installer!Theirs : MayHold(g, files'[e][g])
      BY <2>4
    <3> QED BY <3>1 DEF UserFiles, MayHold
  <2>8. Installer!TypeOK'
    BY <1>1, <2>1, <2>3 DEF UserInv, Installer!TypeOK
  <2> QED BY <1>1, <2>4, <2>6, <2>7, <2>8 DEF UserInv
<1> QED BY <1>2, <1>7, <1>8

(* A credential that is replaced by a link is put aside first.              *)
LEMMA PutsAside == ASSUME UserInv, NEW k \in Kits, Installer!MoveAside(k) PROVE UserInv'
<1>1. PICK d \in Installer!Dir, f \in Installer!Auths : d = Installer!Here(k) /\ f = Installer!AuthFile(k)
  <2>1. Installer!At("share", k)
    BY DEF Installer!MoveAside
  <2> QED BY <2>1, HereIs, FilesOf DEF Installer!At
<1>2. PICK c : c = files[d][f]
  OBVIOUS
<1>3. /\ Installer!At("share", k) /\ c \notin {Absent, Link}
      /\ backups' = backups \cup {[dir |-> d, file |-> f, content |-> c]}
      /\ Installer!Put(d, f, Absent)
      /\ UNCHANGED <<run, copying, writing, alone, mine, torn, overtaken, runs, edits>>
  BY <1>1, <1>2 DEF Installer!MoveAside, Installer!Others
<1>4. writing = Absent /\ f \in Installer!Theirs
  BY <1>3, NotWriting, FilesOf DEF AsideSteps
<1>5. MayHold(f, Absent) /\ Installer!UserPart(f, Absent) = <<>>
  BY <1>4, EmptyPart
<1>7. backups \subseteq backups'
  BY <1>3
<1>9. /\ DOMAIN files' = Installer!Dir /\ \A e \in Installer!Dir : DOMAIN files'[e] = Installer!File
      /\ files'[d][f] = Absent
      /\ \A e \in Installer!Dir, g \in Installer!Theirs : ~(e = d /\ g = f) => files'[e][g] = files[e][g]
  BY <1>1, <1>3, <1>4, FilePut
<1>6. ASSUME NEW e \in Installer!Dir, NEW g \in Installer!Theirs, ~(e = d /\ g = f)
      PROVE  KeptAt(e, g)' /\ MayHold(g, files'[e][g])
  <2>1. mine'[e][g] = mine[e][g] /\ files'[e][g] = files[e][g] /\ torn' = torn /\ overtaken' = overtaken
    BY <1>3, <1>6, <1>9
  <2>2. ~Installer!BeingWritten(e, g)
    BY <1>4 DEF Installer!BeingWritten
  <2> QED BY <1>7, <2>1, <2>2, OtherKept
<1>10. Owed(d, f)' \/ <<d, f>> \in overtaken'
  <2>1. CASE Owed(d, f)
    BY <1>3, <1>7, <2>1 DEF Owed, Installer!Saved
  <2>3. CASE <<d, f>> \in overtaken
    BY <1>3, <2>3
  <2>2. CASE ~Owed(d, f) /\ <<d, f>> \notin overtaken
    <3>1. Installer!UserPart(f, c) = mine[d][f]
      BY <1>2, <1>4, <2>2 DEF UserInv, KeptAt
    <3> DEFINE b == [dir |-> d, file |-> f, content |-> c]
    <3>2. b \in backups' /\ b.dir = d /\ b.file = f /\ b.content = c
      BY <1>3
    <3> HIDE DEF b
    <3> QED BY <1>3, <3>1, <3>2 DEF Owed, Installer!Saved
  <2> QED BY <2>1, <2>2, <2>3
<1>11. \A e \in Installer!Dir, g \in Installer!Theirs : KeptAt(e, g)'
  <2>1. KeptAt(d, f)'
    BY <1>1, <1>10 DEF KeptAt
  <2> QED BY <1>6, <2>1
<1>13. UserFiles'
  <2>1. \A e \in Installer!Dir, g \in Installer!Theirs : MayHold(g, files'[e][g])
    BY <1>5, <1>6, <1>9
  <2> QED BY <2>1 DEF UserFiles, MayHold
<1>12. Installer!TypeOK'
  BY <1>3, <1>9 DEF UserInv, Installer!TypeOK
<1> QED BY <1>3, <1>4, <1>11, <1>12, <1>13 DEF UserInv

LEMMA Links == ASSUME UserInv, NEW k \in Kits, Installer!LinkSharedAuth(k) PROVE UserInv'
<1>1. PICK d \in Installer!Dir, f \in Installer!Auths : d = Installer!Here(k) /\ f = Installer!AuthFile(k)
  <2>1. Installer!At("share", k) \/ Installer!At("link", k)
    BY DEF Installer!LinkSharedAuth
  <2> QED BY <2>1, HereIs, FilesOf DEF Installer!At
<1>2. /\ Installer!At("share", k) \/ Installer!At("link", k)
      /\ files[d][f] \in {Absent, Link}
      /\ \/ files' = [files EXCEPT ![d][f] = Link, ![d]["marker"] = {f}]
         \/ Installer!Put(d, f, Link)
      /\ Installer!Plain
  BY <1>1 DEF Installer!LinkSharedAuth
<1>3. writing = Absent /\ f \in Installer!Theirs /\ "marker" \in KitFiles
  <2>1. "share" \in AsideSteps /\ "link" \in AsideSteps
    BY DEF AsideSteps
  <2> QED BY <1>2, <2>1, NotWriting, FilesOf DEF KitFiles
<1>4. /\ DOMAIN files = Installer!Dir /\ \A e \in Installer!Dir : DOMAIN files[e] = Installer!File
      /\ Installer!Theirs \subseteq Installer!File /\ "marker" \notin Installer!Theirs
  BY <1>3, FilesOf DEF UserInv, Installer!TypeOK
<1>5. /\ DOMAIN files' = Installer!Dir /\ \A e \in Installer!Dir : DOMAIN files'[e] = Installer!File
      /\ files'[d][f] = Link
      /\ \A e \in Installer!Dir, g \in Installer!Theirs : <<e, g>> # <<d, f>> => files'[e][g] = files[e][g]
  <2>1. CASE files' = [files EXCEPT ![d][f] = Link, ![d]["marker"] = {f}]
    BY <1>3, <1>4, <2>1
  <2>2. CASE Installer!Put(d, f, Link)
    BY <1>3, <1>4, <2>2 DEF Installer!Put
  <2> QED BY <1>2, <2>1, <2>2
<1>6. Installer!UserPart(f, Link) = Installer!UserPart(f, files[d][f]) /\ MayHold(f, Link)
  BY <1>2, PartOfLogin, NamesAre DEF MayHold
<1>7. UNCHANGED <<run, copying, writing, backups, alone, mine, torn, overtaken, runs, edits>>
  BY <1>2 DEF Installer!Plain, Installer!Others
<1>8. ASSUME NEW e \in Installer!Dir, NEW g \in Installer!Theirs
      PROVE  KeptAt(e, g)' /\ MayHold(g, files'[e][g])
  <2>1. KeptAt(e, g) /\ MayHold(g, files[e][g])
    BY DEF UserInv, UserFiles
  <2>2. Installer!UserPart(g, files'[e][g]) = Installer!UserPart(g, files[e][g]) /\ MayHold(g, files'[e][g])
    <3>1. CASE <<e, g>> = <<d, f>>
      BY <1>5, <1>6, <3>1
    <3>2. CASE <<e, g>> # <<d, f>>
      BY <1>5, <2>1, <3>2
    <3> QED BY <3>1, <3>2
  <2>3. Owed(e, g) => Owed(e, g)'
    BY <1>7 DEF Owed, Installer!Saved
  <2> QED BY <1>7, <2>1, <2>2, <2>3 DEF KeptAt, Installer!BeingWritten
<1>9. UserFiles'
  BY <1>8 DEF UserFiles, MayHold
<1>10. Installer!TypeOK'
  BY <1>5, <1>7 DEF UserInv, Installer!TypeOK
<1> QED BY <1>3, <1>7, <1>8, <1>9, <1>10 DEF UserInv

(* The two files of the user's that a run rewrites.                        *)
LEMMA RegistersHook == ASSUME UserInv, NEW k \in Kits, Installer!RegisterStopHook(k) PROVE UserInv'
<1>1. PICK d : d = Installer!Here(k)
  OBVIOUS
<1>2. PICK f : f = Installer!HooksFile(k)
  OBVIOUS
<1>3. PICK c : c = files[d][f]
  OBVIOUS
<1>4. PICK s : s = IF c = Absent THEN <<>> ELSE c
  OBVIOUS
<1>5. PICK n : n = Installer!EnsureStopHook(d, s)
  OBVIOUS
<1>6. /\ Installer!At("stop", k) /\ writing = Absent /\ c # Damaged
      /\ Installer!Rewrite(d, f, n) /\ Installer!Others /\ UNCHANGED <<files, copying, backups, clean>>
  BY <1>1, <1>2, <1>3, <1>4, <1>5, Zenon DEF Installer!RegisterStopHook
<1>7. run # Absent /\ todo # <<>> /\ Head(todo) \in {<<"stop", k>>, <<"memory", k>>}
  BY <1>6 DEF Installer!At
<1>8. d \in Installer!Dir /\ f \in Installer!Hooks /\ f \in UserFile /\ f \in Installer!Theirs
  <2>1. f \in {"settings.json", "hooks.json"}
    BY <1>2 DEF Installer!HooksFile
  <2> QED BY <1>1, <1>7, <2>1, HereIs, NamesAre, FilesOf DEF UserFile
<1>9. s \in Seq(HookTokens) /\ Installer!UserPart(f, c) = Picked(s, {Installer!Own})
  <2>1. MayHold(f, c)
    BY <1>3, <1>8 DEF UserInv, UserFiles
  <2>2. CASE c = Absent
    <3>1. Installer!UserPart(f, c) = <<>> /\ s = <<>>
      BY <1>4, <1>8, <2>2, PartOfHooks
    <3> DEFINE e == <<>>
    <3>2. e \in Seq(HookTokens) /\ \A i \in 1..Len(e) : e[i] \notin {Installer!Own}
      OBVIOUS
    <3> HIDE DEF e
    <3>3. Picked(e, {Installer!Own}) = <<>>
      BY <3>2, PickedNone
    <3> QED BY <3>1, <3>2, <3>3 DEF e
  <2>3. CASE c # Absent
    <3>1. c \in Seq(HookTokens) /\ s = c
      BY <1>4, <1>6, <1>8, <2>1, <2>3 DEF MayHold
    <3>2. c \in Seq(Written)
      BY <3>1, HeldIsWritten
    <3> QED BY <1>8, <3>1, <3>2, PartOfHooks
  <2> QED BY <2>2, <2>3
<1>10. n \in Seq(HookTokens) /\ Picked(n, {Installer!Own}) = Picked(s, {Installer!Own})
  BY <1>5, <1>8, <1>9, HooksEnsured
<1>11. n \in Seq(Written) /\ MayHold(f, n)
  BY <1>8, <1>10, HeldIsWritten, NamesAre DEF MayHold
<1>12. Installer!UserPart(f, n) = Installer!UserPart(f, files[d][f])
  BY <1>3, <1>8, <1>9, <1>10, <1>11, PartOfHooks
<1>13. files[d][f] \in Seq(Written) \cup {Absent}
  <2>1. MayHold(f, c)
    BY <1>3, <1>8 DEF UserInv, UserFiles
  <2>2. c = Absent \/ c \in Seq(HookTokens)
    BY <1>6, <1>8, <2>1 DEF MayHold
  <2> QED BY <1>3, <2>2, HeldIsWritten
<1> QED BY <1>6, <1>7, <1>8, <1>11, <1>12, <1>13, Rewritten

LEMMA RegistersBlock == ASSUME UserInv, NEW k \in Kits, Installer!RegisterMemoryBootstrap(k) PROVE UserInv'
<1>1. PICK d : d = Installer!Here(k)
  OBVIOUS
<1>2. PICK f : f = Installer!MemoryFile(k)
  OBVIOUS
<1>3. PICK c : c = files[d][f]
  OBVIOUS
<1>4. PICK m : m = IF c = Absent THEN <<>> ELSE c
  OBVIOUS
<1>5. PICK body : body = IF k = "claude" THEN "import" ELSE run.release
  OBVIOUS
<1>6. PICK n : n = Installer!ManagedBlock(m, body)
  OBVIOUS
<1>7. /\ Installer!At("memory", k) /\ writing = Absent /\ Installer!Balanced(m)
      /\ Installer!Rewrite(d, f, n) /\ Installer!Others /\ UNCHANGED <<files, copying, backups, clean>>
  BY <1>1, <1>2, <1>3, <1>4, <1>5, <1>6, Zenon DEF Installer!RegisterMemoryBootstrap
<1>8. run # Absent /\ todo # <<>> /\ Head(todo) \in {<<"stop", k>>, <<"memory", k>>}
  BY <1>7 DEF Installer!At
<1>9. d \in Installer!Dir /\ f \in Installer!Memories /\ f \in UserFile /\ f \in Installer!Theirs /\ body \in Bodies
  BY <1>1, <1>2, <1>5, <1>8, HereIs, FilesOf DEF UserFile, Bodies
<1>10. Text(m) /\ Installer!UserPart(f, c) = Picked(m, Words)
  <2>1. MayHold(f, c)
    BY <1>3, <1>9 DEF UserInv, UserFiles
  <2>2. CASE c = Absent
    <3>1. Installer!UserPart(f, c) = <<>> /\ m = <<>>
      BY <1>4, <1>9, <2>2, PartOfMemory
    <3> DEFINE e == <<>>
    <3>2. e \in Seq(Words) /\ \A i \in 1..Len(e) : e[i] \notin Words
      OBVIOUS
    <3> HIDE DEF e
    <3>3. Picked(e, Words) = <<>>
      BY <3>2, PickedNone
    <3> QED BY <3>1, <3>3, TextEmpty DEF e
  <2>3. CASE c # Absent
    <3>1. Text(c) /\ m = c
      BY <1>4, <1>9, <2>1, <2>3 DEF MayHold
    <3>2. c \in Seq(Written)
      BY <3>1, HeldIsWritten
    <3> QED BY <1>9, <3>1, <3>2, PartOfMemory
  <2> QED BY <2>2, <2>3
<1>11. Managed(n, body) /\ Picked(n, Words) = Picked(m, Words)
  BY <1>6, <1>7, <1>9, <1>10, TextManaged
<1>12. Text(n)
  BY <1>9, <1>11, ManagedIs
<1>13. n \in Seq(Written) /\ MayHold(f, n)
  BY <1>9, <1>12, HeldIsWritten, NamesAre DEF MayHold
<1>14. Installer!UserPart(f, n) = Installer!UserPart(f, files[d][f])
  BY <1>3, <1>9, <1>10, <1>11, <1>13, PartOfMemory
<1>15. files[d][f] \in Seq(Written) \cup {Absent}
  <2>1. MayHold(f, c)
    BY <1>3, <1>9 DEF UserInv, UserFiles
  <2>2. c = Absent \/ Text(c)
    BY <1>9, <2>1 DEF MayHold
  <2> QED BY <1>3, <2>2, HeldIsWritten
<1> QED BY <1>7, <1>8, <1>9, <1>13, <1>14, <1>15, Rewritten

(* What the user or an agent writes is theirs from then on.                *)
LEMMA Edits ==
    ASSUME UserInv, NEW d \in Installer!Dir, NEW f \in Installer!Theirs, NEW c, MayHold(f, c),
           Installer!Edit(d, f, c)
    PROVE  UserInv'
<1>1. /\ edits < MaxEdits /\ Installer!Put(d, f, c)
      /\ mine' = [mine EXCEPT ![d][f] = Installer!UserPart(f, c)]
      /\ torn' = torn \ {<<d, f>>} /\ overtaken' = overtaken \ {<<d, f>>}
      /\ edits' = edits + 1 /\ alone' = FALSE
      /\ UNCHANGED <<run, todo, copying, backups, runs>>
  BY DEF Installer!Edit
<1>2. \/ /\ writing # Absent /\ writing.dir = d /\ writing.file = f
         /\ writing' = [writing EXCEPT !.edited = TRUE]
      \/ /\ writing = Absent \/ writing.dir # d \/ writing.file # f
         /\ writing' = writing
  BY DEF Installer!Edit
<1>3. /\ DOMAIN files' = Installer!Dir /\ \A e \in Installer!Dir : DOMAIN files'[e] = Installer!File
      /\ files'[d][f] = c
      /\ \A e \in Installer!Dir, g \in Installer!Theirs : ~(e = d /\ g = f) => files'[e][g] = files[e][g]
  BY <1>1, FilePut
<1>4. DOMAIN mine = Installer!Dir /\ \A e \in Installer!Dir : DOMAIN mine[e] = Installer!Theirs
  BY DEF UserInv
<1>5. /\ DOMAIN mine' = Installer!Dir /\ \A e \in Installer!Dir : DOMAIN mine'[e] = Installer!Theirs
      /\ mine'[d][f] = Installer!UserPart(f, c)
      /\ \A e \in Installer!Dir, g \in Installer!Theirs : ~(e = d /\ g = f) => mine'[e][g] = mine[e][g]
  BY <1>1, <1>4
<1>6. ASSUME NEW e \in Installer!Dir, NEW g \in Installer!Theirs, ~(e = d /\ g = f)
      PROVE  KeptAt(e, g)' /\ MayHold(g, files'[e][g])
  <2>1. /\ mine'[e][g] = mine[e][g] /\ files'[e][g] = files[e][g] /\ backups \subseteq backups'
        /\ (<<e, g>> \in torn => <<e, g>> \in torn')
        /\ (<<e, g>> \in overtaken => <<e, g>> \in overtaken')
    BY <1>1, <1>3, <1>5, <1>6
  <2>2. Installer!BeingWritten(e, g) => writing' = writing
    BY <1>2, <1>6 DEF Installer!BeingWritten
  <2>3. Installer!BeingWritten(e, g) => Installer!BeingWritten(e, g)'
    BY <2>2 DEF Installer!BeingWritten
  <2> QED BY <2>1, <2>3, OtherKept
<1>7. KeptAt(d, f)'
  BY <1>3, <1>5 DEF KeptAt
<1>8. \A e \in Installer!Dir, g \in Installer!Theirs : KeptAt(e, g)'
  BY <1>6, <1>7
<1>9. UserFiles'
  <2>1. \A e \in Installer!Dir, g \in Installer!Theirs : MayHold(g, files'[e][g])
    BY <1>3, <1>6
  <2> QED BY <2>1 DEF UserFiles, MayHold
<1>10. edits' \in 0..MaxEdits
  <2>1. MaxEdits \in Nat /\ edits \in 0..MaxEdits
    BY HostAssumption DEF HostBounded, UserInv, Installer!TypeOK
  <2> QED BY <1>1, <2>1
<1>11. Installer!TypeOK'
  BY <1>1, <1>3, <1>10 DEF UserInv, Installer!TypeOK
<1>12. ASSUME Replacing, writing' = writing, ~(writing.dir = d /\ writing.file = f) PROVE Replacing'
  <2>1. writing \in Replacement /\ writing.dir \in Installer!Dir /\ writing.file \in Installer!Theirs
    BY <1>12, FilesOf DEF Replacing, Replacement, UserFile
  <2>2. PICK e \in Installer!Dir, g \in Installer!Theirs : e = writing.dir /\ g = writing.file
    BY <2>1
  <2>3. files'[e][g] = files[e][g] /\ mine'[e][g] = mine[e][g]
    BY <1>3, <1>5, <1>12, <2>2
  <2>4. AtRewrite'
    BY <1>1, <1>12 DEF Replacing, AtRewrite
  <2>5. Sound(writing.file, writing.seen, writing.content)'
    BY <1>12 DEF Replacing, Sound, MayHold
  <2>6. writing.stage = "read" \/ PutAside(writing.dir, writing.file, writing.seen)'
    BY <1>1, <1>12 DEF Replacing, PutAside
  <2>7. writing.stage = "open" \/ writing.edited \/ files'[writing.dir][writing.file] = writing.seen
    BY <1>12, <2>2, <2>3 DEF Replacing
  <2>8. ASSUME writing.stage = "open", ~writing.edited PROVE StillTheirs(writing.dir, writing.file, writing.content)'
    <3>1. PICK n : n = writing.content
      OBVIOUS
    <3>2. StillTheirs(e, g, n)
      BY <1>12, <2>2, <2>8, <3>1 DEF Replacing
    <3>3. <<e, g>> # <<d, f>>
      BY <1>12, <2>2
    <3>4. Owed(e, g) => Owed(e, g)'
      BY <1>1, <2>3 DEF Owed, Installer!Saved
    <3>5. StillTheirs(e, g, n)'
      BY <1>1, <2>3, <3>2, <3>3, <3>4 DEF StillTheirs
    <3> QED BY <1>12, <2>2, <3>1, <3>5 DEF StillTheirs, Owed, Installer!Saved
  <2>9. writing.stage = "open" /\ writing.edited => Untouched(writing.dir, writing.file)'
    BY <1>12, <2>2, <2>3 DEF Replacing, Untouched
  <2> QED BY <1>12, <2>1, <2>4, <2>5, <2>6, <2>7, <2>8, <2>9 DEF Replacing
<1>13. ASSUME Copying, writing' = writing PROVE Copying'
  BY <1>1, <1>13 DEF Copying, AtCopy, MayHold
<1>14. ASSUME Replacing, writing.dir = d, writing.file = f, writing' = [writing EXCEPT !.edited = TRUE]
       PROVE  Replacing'
  <2>1. writing \in Replacement
    BY <1>14 DEF Replacing
  <2>2. PICK z, n : z = writing.seen /\ n = writing.content
    OBVIOUS
  <2>3. /\ writing' \in Replacement /\ writing'.dir = d /\ writing'.file = f /\ writing'.seen = z
        /\ writing'.content = n /\ writing'.stage = writing.stage /\ writing'.edited = TRUE
    BY <1>14, <2>1, <2>2 DEF Replacement
  <2>4. AtRewrite'
    BY <1>1, <1>14 DEF Replacing, AtRewrite
  <2>5. Sound(writing.file, writing.seen, writing.content)'
    <3>1. Sound(writing'.file, writing'.seen, writing'.content)
      BY <1>14, <2>2, <2>3 DEF Replacing
    <3> QED BY <3>1 DEF Sound, MayHold
  <2>6. writing'.stage = "read" \/ PutAside(writing.dir, writing.file, writing.seen)'
    <3>1. writing.stage = "read" \/ PutAside(d, f, z)
      BY <1>14, <2>2 DEF Replacing
    <3>2. PutAside(d, f, z) => PutAside(d, f, z)'
      BY <1>1 DEF PutAside
    <3>4. PutAside(writing.dir, writing.file, writing.seen)' <=> PutAside(d, f, z)'
      BY <2>3 DEF PutAside
    <3> QED BY <2>3, <3>1, <3>2, <3>4
  <2>7. Untouched(writing.dir, writing.file)'
    BY <1>3, <1>5, <2>3 DEF Untouched
  <2> QED BY <2>3, <2>4, <2>5, <2>6, <2>7 DEF Replacing
<1>15. ASSUME Copying, writing' = [writing EXCEPT !.edited = TRUE] PROVE Copying'
  <2>1. PICK e, g, z, n, o : e = writing.dir /\ g = writing.file /\ z = writing.seen /\ n = writing.content /\ o = writing.edited
    OBVIOUS
  <2>2. writing = [dir |-> e, file |-> g, seen |-> z, content |-> n, stage |-> "copy", edited |-> o]
    BY <1>15, <2>1 DEF Copying
  <2>3. writing' = [dir |-> e, file |-> g, seen |-> z, content |-> n, stage |-> "copy", edited |-> TRUE]
    BY <1>15, <2>2
  <2>4. /\ writing'.dir = e /\ writing'.file = g /\ writing'.seen = z /\ writing'.content = n
        /\ writing'.stage = "copy" /\ writing'.edited = TRUE
    BY <2>3
  <2>5. e \in Installer!Dir /\ g \in Installer!File /\ (g \in Installer!Theirs => MayHold(g, n))
    BY <1>15, <2>1 DEF Copying, CopyFields
  <2>6. AtCopy'
    BY <1>1, <1>15 DEF Copying, AtCopy
  <2>7. [dir |-> writing'.dir, file |-> writing'.file, stage |-> writing'.stage, edited |-> writing'.edited] \in CopyFields
    BY <2>4, <2>5 DEF CopyFields
  <2>8. writing'.file \in Installer!Theirs => MayHold(writing.file, writing.content)'
    BY <2>4, <2>5 DEF MayHold
  <2>9. copying' # <<>>
    BY <1>1, <1>15 DEF Copying
  <2> QED BY <2>3, <2>4, <2>6, <2>7, <2>8, <2>9 DEF Copying
<1>16. writing' # Absent => Replacing' \/ Copying'
  <2>1. writing # Absent => Replacing \/ Copying
    BY DEF UserInv
  <2> QED BY <1>2, <1>12, <1>13, <1>14, <1>15, <2>1
<1> QED BY <1>1, <1>5, <1>8, <1>9, <1>10, <1>11, <1>16 DEF UserInv

LEMMA ContentIs ==
    ASSUME UserInv, NEW d \in Installer!Dir
    PROVE  /\ \A f \in Installer!Memories : Text(Installer!Content(d, f))
           /\ \A f \in Installer!Hooks : Installer!Content(d, f) \in Seq(HookTokens)
<1>1. \A f \in Installer!Theirs : MayHold(f, files[d][f])
  BY DEF UserInv, UserFiles
<1>2. \A f : Installer!Content(d, f) = IF files[d][f] \in {Absent, Damaged} THEN <<>> ELSE files[d][f]
  BY DEF Installer!Content
<1>3. ASSUME NEW f \in Installer!Memories PROVE Text(Installer!Content(d, f))
  <2>1. files[d][f] = Absent \/ Text(files[d][f])
    BY <1>1, FilesOf DEF MayHold
  <2> QED BY <1>2, <2>1, TextEmpty
<1>4. ASSUME NEW f \in Installer!Hooks PROVE Installer!Content(d, f) \in Seq(HookTokens)
  <2>1. files[d][f] \in {Absent, Damaged} \/ files[d][f] \in Seq(HookTokens)
    BY <1>1, FilesOf DEF MayHold
  <2>2. <<>> \in Seq(HookTokens)
    OBVIOUS
  <2> QED BY <1>2, <2>1, <2>2
<1> QED BY <1>3, <1>4

LEMMA EditSteps ==
    ASSUME UserInv, NEW d \in EditedByHand,
           \/ \E f \in Installer!Memories \cap EditedFiles : Installer!WriteWords(d, f) \/ Installer!LoseMarker(d, f)
           \/ \E f \in Installer!Hooks \cap EditedFiles : Installer!AddHook(d, f) \/ Installer!Damage(d, f)
           \/ \E f \in Installer!Auths \cap EditedFiles : Installer!Login(d, f)
    PROVE  UserInv'
<1>1. d \in Installer!Dir
  BY NamesAre DEF EditedByHand
<1>2. ASSUME NEW f \in Installer!Memories, NEW c, Text(c), Installer!Edit(d, f, c) PROVE UserInv'
  <2>1. MayHold(f, c) /\ f \in Installer!Theirs
    BY <1>2, NamesAre, FilesOf DEF MayHold
  <2> QED BY <1>1, <1>2, <2>1, Edits
<1>3. ASSUME NEW f \in Installer!Hooks, NEW c, c = Damaged \/ c \in Seq(HookTokens), Installer!Edit(d, f, c) PROVE UserInv'
  <2>1. MayHold(f, c) /\ f \in Installer!Theirs
    BY <1>3, NamesAre, FilesOf DEF MayHold
  <2> QED BY <1>1, <1>3, <2>1, Edits
<1>4. ASSUME NEW f \in Installer!Auths, NEW c, c \in Seq(Written), Installer!Edit(d, f, c) PROVE UserInv'
  <2>1. MayHold(f, c) /\ f \in Installer!Theirs
    BY <1>4, NamesAre, FilesOf DEF MayHold
  <2> QED BY <1>1, <1>4, <2>1, Edits
<1>5. ASSUME NEW f \in Installer!Memories, Installer!WriteWords(d, f) PROVE UserInv'
  <2>1. PICK c : c = Installer!Content(d, f)
    OBVIOUS
  <2>2. Text(Append(c, "words"))
    BY <1>1, <2>1, ContentIs, TextWords
  <2>3. Installer!Edit(d, f, Append(c, "words"))
    BY <1>5, <2>1 DEF Installer!WriteWords
  <2> QED BY <1>2, <2>2, <2>3
<1>6. ASSUME NEW f \in Installer!Memories, Installer!LoseMarker(d, f) PROVE UserInv'
  <2>1. PICK c : c = Installer!Content(d, f)
    OBVIOUS
  <2>2. PICK l : l = Picked(c, Installer!Range(c) \ {"end"})
    OBVIOUS
  <2>3. Installer!Index(c, "end") > 0 /\ Installer!Edit(d, f, Installer!Kept(c, Installer!Range(c) \ {"end"}))
    BY <1>6, <2>1 DEF Installer!LoseMarker
  <2>4. Installer!Edit(d, f, l)
    BY <2>2, <2>3, InstallerKept
  <2>5. Text(c)
    BY <1>1, <2>1, ContentIs
  <2>6. Text(l)
    BY <2>2, <2>3, <2>5, TextLost
  <2> QED BY <1>2, <2>4, <2>6
<1>7. ASSUME NEW f \in Installer!Hooks, Installer!AddHook(d, f) PROVE UserInv'
  <2>1. PICK c : c = Installer!Content(d, f)
    OBVIOUS
  <2>2. c \in Seq(HookTokens) /\ Installer!Own \in HookTokens
    BY <1>1, <2>1, ContentIs, HooksAre
  <2>3. Append(c, Installer!Own) \in Seq(HookTokens)
    BY <2>2, AppendProperties
  <2>4. Installer!Edit(d, f, Append(c, Installer!Own))
    BY <1>7, <2>1 DEF Installer!AddHook
  <2> QED BY <1>3, <2>3, <2>4
<1>8. ASSUME NEW f \in Installer!Hooks, Installer!Damage(d, f) PROVE UserInv'
  BY <1>3, <1>8 DEF Installer!Damage
<1>9. ASSUME NEW f \in Installer!Auths, Installer!Login(d, f) PROVE UserInv'
  <2>1. "login" \in Written /\ d \in Written /\ edits \in Written
    BY <1>1 DEF Written, UserInv
  <2> DEFINE c == <<"login", d, edits>>
  <2>2. c \in Seq(Written) /\ Installer!Edit(d, f, c)
    BY <1>9, <2>1 DEF Installer!Login
  <2>3. PICK x : x = c
    OBVIOUS
  <2> HIDE DEF c
  <2> QED BY <1>4, <2>2, <2>3
<1> QED BY <1>5, <1>6, <1>7, <1>8, <1>9

LEMMA OldText == Text(<<"words", "begin", "v1", "end">>)
<1> DEFINE a == <<"words">>
<1> DEFINE z == <<>>
<1>1. a \in Seq(Words) /\ z \in Seq(Words) /\ "v1" \in Bodies
  BY DEF Words, Bodies
<1>2. Block("v1") \o z = <<"begin", "v1", "end">>
  BY SMT DEF Block
<1>4. <<"words">> \o <<"begin", "v1", "end">> = <<"words", "begin", "v1", "end">>
  <2> DEFINE s == <<"words">>
  <2> DEFINE t == <<"begin", "v1", "end">>
  <2> DEFINE o == <<"words", "begin", "v1", "end">>
  <2>1. /\ s \in Seq(Written) /\ t \in Seq(Written) /\ o \in Seq(Written)
        /\ Len(s) = 1 /\ s[1] = "words"
        /\ Len(t) = 3 /\ t[1] = "begin" /\ t[2] = "v1" /\ t[3] = "end"
        /\ Len(o) = 4 /\ o[1] = "words" /\ o[2] = "begin" /\ o[3] = "v1" /\ o[4] = "end"
    <3>1. {"words", "begin", "v1", "end"} \subseteq Written
      BY DEF Written
    <3> QED BY <3>1
  <2> HIDE DEF s, t, o
  <2>2. /\ s \o t \in Seq(Written) /\ Len(s \o t) = 4
        /\ (s \o t)[1] = s[1] /\ (s \o t)[1 + 1] = t[1]
        /\ (s \o t)[1 + 2] = t[2] /\ (s \o t)[1 + 3] = t[3]
    <3>1. /\ s \o t \in Seq(Written) /\ Len(s \o t) = Len(s) + Len(t)
          /\ \A i \in 1..Len(s) : (s \o t)[i] = s[i]
          /\ \A i \in 1..Len(t) : (s \o t)[Len(s) + i] = t[i]
      BY <2>1, Joined
    <3>2. 1 \in 1..1 /\ 1 \in 1..3 /\ 2 \in 1..3 /\ 3 \in 1..3 /\ 1 + 3 = 4
      OBVIOUS
    <3> QED BY <2>1, <3>1, <3>2
  <2>3. \A i \in 1..4 : (s \o t)[i] = o[i]
    <3> TAKE i \in 1..4
    <3>1. i = 1 \/ i = 1 + 1 \/ i = 1 + 2 \/ i = 1 + 3
      OBVIOUS
    <3> QED BY <2>1, <2>2, <3>1
  <2>4. s \o t = o
    BY <2>1, <2>2, <2>3, SeqEqual
  <2> QED BY <2>4 DEF s, t, o
<1>3. <<"words", "begin", "v1", "end">> = a \o (Block("v1") \o z)
  BY <1>2, <1>4
<1> QED BY <1>1, <1>3 DEF Text

LEMMA OldFiles ==
    ASSUME NEW d \in Installer!Dir, NEW f \in Installer!Theirs
    PROVE  MayHold(f, Installer!Older(d)[f]) /\ MayHold(f, Installer!Fresh[f])
<1>1. f \in Installer!File
  BY FilesOf
<1>2. MayHold(f, Installer!Fresh[f])
  BY <1>1, EmptyPart DEF Installer!Fresh
<1>6. CASE f \notin Installer!Of(d)
  <2>1. f # "hooks/script"
    BY NamesAre, FilesOf
  <2>2. Installer!Older(d)[f] = Absent
    BY <1>1, <1>6, <2>1, Zenon DEF Installer!Older
  <2> QED BY <1>2, <2>2, EmptyPart
<1>3. CASE f \in Installer!Of(d) \cap Installer!Hooks
  <2>1. Installer!Older(d)[f] = <<Installer!Own, Installer!Legacy(d)>>
    <3>1. f # "hooks/script" /\ f \notin Installer!Memories /\ f \notin Installer!Auths
      BY <1>3, NamesAre
    <3> QED BY <1>1, <1>3, <3>1, Zenon DEF Installer!Older
  <2>2. <<Installer!Own, Installer!Legacy(d)>> \in Seq(HookTokens)
    BY HooksAre
  <2> QED BY <1>2, <1>3, <2>1, <2>2, NamesAre DEF MayHold
<1>4. CASE f \in Installer!Of(d) \cap Installer!Memories
  <2>1. Installer!Older(d)[f] = <<"words", "begin", "v1", "end">>
    <3>1. f # "hooks/script" /\ f \notin Installer!Hooks /\ f \notin Installer!Auths
      BY <1>4, NamesAre
    <3> QED BY <1>1, <1>4, <3>1, Zenon DEF Installer!Older
  <2> QED BY <1>2, <1>4, <2>1, OldText, NamesAre DEF MayHold
<1>5. CASE f \in Installer!Of(d) \cap Installer!Auths
  <2>1. Installer!Older(d)[f] = <<"login", d>>
    <3>1. f # "hooks/script" /\ f \notin Installer!Memories /\ f \notin Installer!Hooks
      BY <1>5, NamesAre
    <3> QED BY <1>1, <1>5, <3>1, Zenon DEF Installer!Older
  <2>2. "login" \in Written /\ d \in Written
    BY DEF Written
  <2>3. <<"login", d>> \in Seq(Written)
    BY <2>2
  <2> QED BY <1>2, <1>5, <2>1, <2>3, NamesAre DEF MayHold
<1> QED BY <1>3, <1>4, <1>5, <1>6, FilesOf

LEMMA UserStarts == ASSUME Installer!Init PROVE UserInv
<1>1. PICK old \in Earlier :
        files = [d \in Installer!Dir |-> IF d \in old THEN Installer!Older(d) ELSE Installer!Fresh]
  BY DEF Installer!Init
<1>2. /\ run = Absent /\ copying = <<>> /\ writing = Absent /\ torn = {} /\ runs = 0 /\ edits = 0 /\ alone = TRUE
      /\ mine = [d \in Installer!Dir |-> [f \in Installer!Theirs |-> Installer!UserPart(f, files[d][f])]]
  BY DEF Installer!Init
<1>3. DOMAIN files = Installer!Dir /\ \A d \in Installer!Dir : DOMAIN files[d] = Installer!File
  BY <1>1 DEF Installer!Older, Installer!Fresh
<1>4. \A d \in Installer!Dir : files[d] \in {Installer!Older(d), Installer!Fresh}
  BY <1>1
<1>5. UserFiles
  BY <1>4, OldFiles DEF UserFiles
<1>6. \A d \in Installer!Dir, f \in Installer!Theirs : KeptAt(d, f)
  BY <1>2 DEF KeptAt
<1>7. 0 \in 0..MaxRuns /\ 0 \in 0..MaxEdits
  BY HostAssumption DEF HostBounded
<1>8. Installer!TypeOK
  BY <1>2, <1>3, <1>7 DEF Installer!TypeOK
<1> QED BY <1>2, <1>5, <1>6, <1>8 DEF UserInv

LEMMA InstallerSteps == ASSUME UserInv, [Installer!Next]_(Installer!vars) PROVE UserInv'
<1>1. CASE UNCHANGED Installer!vars
  <2>1. /\ UNCHANGED <<files, run, todo, copying, writing, backups, alone, mine, torn, overtaken, runs, edits>>
    BY <1>1 DEF Installer!vars
  <2>2. UserFiles' /\ Installer!TypeOK'
    BY <2>1 DEF UserInv, UserFiles, MayHold, Installer!TypeOK
  <2>3. \A d \in Installer!Dir, f \in Installer!Theirs : KeptAt(d, f)'
    <3> SUFFICES ASSUME NEW d \in Installer!Dir, NEW f \in Installer!Theirs PROVE KeptAt(d, f)'
      OBVIOUS
    <3>1. KeptAt(d, f)
      BY DEF UserInv
    <3>2. Owed(d, f) => Owed(d, f)'
      BY <2>1 DEF Owed, Installer!Saved
    <3>3. Installer!BeingWritten(d, f) => Installer!BeingWritten(d, f)'
      BY <2>1 DEF Installer!BeingWritten
    <3> QED BY <2>1, <3>1, <3>2, <3>3 DEF KeptAt
  <2>4. Replacing => Replacing'
    BY <2>1 DEF Replacing, AtRewrite, Sound, MayHold, PutAside, StillTheirs, Untouched, Owed, Installer!Saved
  <2>5. Copying => Copying'
    BY <2>1 DEF Copying, AtCopy, MayHold
  <2> QED BY <2>1, <2>2, <2>3, <2>4, <2>5 DEF UserInv
<1>2. CASE \/ \E r \in Installs : Installer!Begin(r)
           \/ Installer!Done \/ Installer!Stop
           \/ Installer!BackUp \/ Installer!Truncate \/ Installer!WriteOut
  BY <1>2, Commanded, Killed, BacksUp, Truncates, WrittenOut
<1>3. CASE \E k \in Kits :
         \/ Installer!Seed(k) \/ Installer!SeedBreaksOff(k) \/ Installer!CopyRegular(k)
         \/ Installer!NothingToShare(k) \/ Installer!MoveAside(k) \/ Installer!LinkSharedAuth(k) \/ Installer!LinkFails(k)
         \/ Installer!WriteCommands(k) \/ Installer!WriteHook(k) \/ Installer!ClearLegacyHook(k) \/ Installer!RegisterStopHook(k)
         \/ Installer!WriteProtocol(k) \/ Installer!RegisterMemoryBootstrap(k)
         \/ Installer!SkipServer(k) \/ Installer!Unregister(k) \/ Installer!Register(k) \/ Installer!RegisterPi(k)
         \/ Installer!RegisterFails(k)
         \/ \E landed \in BOOLEAN : Installer!Recommended(k, landed)
  BY <1>3, WritesKit, Registers, LeavesFiles, Seeds, Copies, PutsAside, Links, RegistersHook, RegistersBlock
<1>4. CASE \E d \in EditedByHand :
         \/ \E f \in Installer!Memories \cap EditedFiles : Installer!WriteWords(d, f) \/ Installer!LoseMarker(d, f)
         \/ \E f \in Installer!Hooks \cap EditedFiles : Installer!AddHook(d, f) \/ Installer!Damage(d, f)
         \/ \E f \in Installer!Auths \cap EditedFiles : Installer!Login(d, f)
  BY <1>4, EditSteps
<1> QED BY <1>1, <1>2, <1>3, <1>4 DEF Installer!Next

LEMMA InstallerRuns ==
    ASSUME part = "installer", [MCNext]_hostVars PROVE part' = part /\ [Installer!Next]_(Installer!vars)
BY DEF MCNext, hostVars, installing, Installer!vars

UserAt == part = "installer" => UserInv

(* The installer (clients/claude-code/settings.go, memory.go,              *)
(* sharedauth.go) keeps what the user wrote, whatever is installed, copied, *)
(* shared or killed, or has put it aside; but for an edit that fell between *)
(* its read of a file and its write, which alone is lost.                  *)
THEOREM UsersKeepTheirs == MCSpec => [](part = "installer" => Installer!UserKept)
<1>1. MCInit => UserAt
  BY UserStarts DEF MCInit, UserAt
<1>2. UserAt /\ [MCNext]_hostVars => UserAt'
  <2> SUFFICES ASSUME UserAt, [MCNext]_hostVars, part' = "installer" PROVE UserInv'
    BY DEF UserAt
  <2>1. part = "installer"
    BY DEF MCNext, hostVars
  <2> QED BY <2>1, InstallerRuns, InstallerSteps DEF UserAt
<1>3. UserAt => (part = "installer" => Installer!UserKept)
  BY UserKeeps DEF UserAt
<1> QED BY <1>1, <1>2, <1>3, PTL DEF MCSpec

-----------------------------------------------------------------------------
(* The transfer and the installer remember what their invariants say.      *)
LEMMA TransferShape == ASSUME TransferInv PROVE Transfer!TypeOK
<1>1. /\ carrying \in {"begin", "paging", "paged", "closets", "done", "failed"}
      /\ vectors \subseteq wing /\ wing \subseteq DrawerIds /\ closetVectors \subseteq closets
      /\ out \in Seq(DrawerIds) /\ listed \in Seq({11})
  BY DEF TransferInv, TransferTypes
<1>2. Transfer!ToSet(out) \subseteq DrawerIds
  BY <1>1 DEF Transfer!ToSet
<1>3. dest.closets \subseteq Transfer!ToSet(listed)
  <2>1. dest.closets \subseteq ListedTo(Len(listed) + 1)
    BY DEF TransferInv, ClosetsCarried
  <2>2. DOMAIN listed = 1..Len(listed)
    BY <1>1
  <2> QED BY <2>1, <2>2 DEF ListedTo, Transfer!ToSet
<1> QED BY <1>1, <1>2, <1>3 DEF Transfer!TypeOK

LEMMA TransferTyped == MCSpec => [](part = "transfer" => Transfer!TypeOK)
<1>1. MCInit => TransferAt
  BY TransferStarts DEF MCInit, TransferAt
<1>2. TransferAt /\ [MCNext]_hostVars => TransferAt'
  <2> SUFFICES ASSUME TransferAt, [MCNext]_hostVars, part' = "transfer" PROVE TransferInv'
    BY DEF TransferAt
  <2>1. part = "transfer"
    BY DEF MCNext, hostVars
  <2> QED BY <2>1, TransferRuns, TransferSteps DEF TransferAt
<1>3. TransferAt => (part = "transfer" => Transfer!TypeOK)
  BY TransferShape DEF TransferAt
<1> QED BY <1>1, <1>2, <1>3, PTL DEF MCSpec

LEMMA InstallerTyped == MCSpec => [](part = "installer" => Installer!TypeOK)
<1>1. MCInit => UserAt
  BY UserStarts DEF MCInit, UserAt
<1>2. UserAt /\ [MCNext]_hostVars => UserAt'
  <2> SUFFICES ASSUME UserAt, [MCNext]_hostVars, part' = "installer" PROVE UserInv'
    BY DEF UserAt
  <2>1. part = "installer"
    BY DEF MCNext, hostVars
  <2> QED BY <2>1, InstallerRuns, InstallerSteps DEF UserAt
<1>3. UserAt => (part = "installer" => Installer!TypeOK)
  BY DEF UserAt, UserInv
<1> QED BY <1>1, <1>2, <1>3, PTL DEF MCSpec

(* Every reachable state of whichever part runs has its declared shape.    *)
THEOREM HostTypeCorrect == MCSpec => []HostTypeOK
<1>1. MCInit => part \in Parts
  BY DEF MCInit
<1>2. part \in Parts /\ [MCNext]_hostVars => (part \in Parts)'
  BY DEF MCNext, hostVars
<1>3. /\ part \in Parts
      /\ part = "server" => TypeOK
      /\ part = "tools" => Tools!TypeOK
      /\ part = "export" => Export!TypeOK
      /\ part = "proxy" => Proxy!TypeOK
      /\ part = "installer" => Installer!TypeOK
      /\ Launcher!TypeOK
      /\ part = "update" => Update!TypeOK
      /\ part = "transfer" => Transfer!TypeOK
      /\ part = "import" => Import!TypeOK
      => HostTypeOK
  <2>1. part \in Parts => part \in {"server", "tools", "export", "proxy", "installer", "launcher",
                                    "update", "transfer", "import"}
    BY HostAssumption DEF HostBounded
  <2>2. CASE part = "server"
    BY <2>2, Zenon DEF HostTypeOK
  <2>3. CASE part = "tools"
    BY <2>3, Zenon DEF HostTypeOK
  <2>4. CASE part = "export"
    BY <2>4, Zenon DEF HostTypeOK
  <2>5. CASE part = "proxy"
    BY <2>5, Zenon DEF HostTypeOK
  <2>6. CASE part = "installer"
    BY <2>6, Zenon DEF HostTypeOK
  <2>7. CASE part = "launcher"
    BY <2>7, Zenon DEF HostTypeOK
  <2>8. CASE part = "update"
    BY <2>8, Zenon DEF HostTypeOK
  <2>9. CASE part = "transfer"
    BY <2>9, Zenon DEF HostTypeOK
  <2>10. CASE part = "import"
    BY <2>10, Zenon DEF HostTypeOK
  <2> QED
    BY <2>1, <2>2, <2>3, <2>4, <2>5, <2>6, <2>7, <2>8, <2>9, <2>10, Zenon
<1> QED
  BY <1>1, <1>2, <1>3, ServerTyped, ToolsTyped, ExportTyped, ProxyTyped, InstallerTyped,
     LauncherTyped, UpdateTyped, TransferTyped, ImportTyped, PTL DEF MCSpec
=============================================================================
