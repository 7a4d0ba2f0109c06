----------------------------- MODULE Induction -----------------------------
(***************************************************************************)
(* Induction over the natural numbers, stated for sets: the least number   *)
(* of a set, from the fact that < is well-founded, and what follows.  With *)
(* it, what the recursive function behind FlattenSeq computes.             *)
(***************************************************************************)
EXTENDS Integers, SequencesExt, SequenceTheorems, TLAPS, WellFoundedInduction

(* A non-empty set of natural numbers has a least element.                 *)
LEMMA LeastNumber ==
  ASSUME NEW T, T \subseteq Nat, T # {}
  PROVE  \E x \in T : \A y \in T : x <= y
<1> DEFINE R == OpToRel(<, Nat)
<1>1. IsWellFoundedOn(R, Nat)
  BY NatLessThanWellFounded
<1> HIDE DEF R
<1>2. PICK x \in T : \A y \in T : ~(<<y, x>> \in R)
  BY <1>1, WFMin
<1>3. \A y \in T : ~(y < x)
  BY <1>2 DEF R, OpToRel
<1>. QED
  BY <1>3

(* A set that holds 0 and, with every number up to N, the next one holds   *)
(* all numbers up to N.                                                    *)
LEMMA InductionUpTo ==
  ASSUME NEW N \in Nat, NEW T, 0 \in T, \A n \in 0..N : n \in T /\ n < N => n + 1 \in T
  PROVE  0..N \subseteq T
<1> SUFFICES ASSUME NEW m \in 0..N, m \notin T PROVE FALSE
  OBVIOUS
<1> DEFINE U == 0..N \ T
<1>1. PICK x \in U : \A y \in U : x <= y
  <2>1. U \subseteq Nat /\ U # {}
    OBVIOUS
  <2>. QED
    BY <2>1, LeastNumber
<1>2. x # 0 /\ x - 1 \in 0..N /\ x - 1 \notin U
  BY <1>1
<1>. QED
  BY <1>1, <1>2

-----------------------------------------------------------------------------
(* w is u followed by v, said by positions.                                *)
EndToEnd(u, v, w) ==
  /\ Len(w) = Len(u) + Len(v)
  /\ \A j \in 1..Len(u) : w[j] = u[j]
  /\ \A j \in 1..Len(v) : w[Len(u) + j] = v[j]

(* So is u \o v.                                                           *)
LEMMA ConcatIsEndToEnd ==
  ASSUME NEW S, NEW u \in Seq(S), NEW v \in Seq(S)
  PROVE  EndToEnd(u, v, u \o v)
BY DEF EndToEnd

(* g is the recursive function that FlattenSeq(s) evaluates: its value at  *)
(* i is the first i elements of s end to end.                              *)
Building(s, g) == g = [i \in 1..Len(s) |-> IF i = 1 THEN s[i] ELSE g[i - 1] \o s[i]]

(* There is such a function for every sequence of sequences: if there is   *)
(* one for the first k elements, it can be continued.                      *)
LEMMA BuildingExists ==
  ASSUME NEW S, NEW s \in Seq(Seq(S))
  PROVE  \E g \in [1..Len(s) -> Seq(S)] : Building(s, g)
<1> DEFINE N == Len(s)
           Upto(k, g) == \A i \in 1..k : g[i] = IF i = 1 THEN s[i] ELSE g[i - 1] \o s[i]
           T == {k \in 0..N : \E g \in [1..k -> Seq(S)] : Upto(k, g)}
<1>0. N \in Nat /\ \A i \in 1..N : s[i] \in Seq(S)
  OBVIOUS
<1>1. 0 \in T
  <2>1. [i \in 1..0 |-> <<>>] \in [1..0 -> Seq(S)] /\ Upto(0, [i \in 1..0 |-> <<>>])
    OBVIOUS
  <2>2. \E g \in [1..0 -> Seq(S)] : Upto(0, g)
    BY <2>1
  <2>3. 0 \in 0..N
    BY <1>0
  <2> HIDE DEF Upto, N
  <2>. QED
    BY <2>2, <2>3
<1>2. ASSUME NEW k \in 0..N, k \in T, k < N PROVE k + 1 \in T
  <2>1. PICK g \in [1..k -> Seq(S)] : Upto(k, g)
    BY <1>2
  <2>. DEFINE e == IF k = 0 THEN s[1] ELSE g[k] \o s[k + 1]
              h == [i \in 1..k + 1 |-> IF i = k + 1 THEN e ELSE g[i]]
  <2>2. e \in Seq(S)
    <3>1. CASE k = 0
      BY <3>1, <1>0, <1>2
    <3>2. CASE k # 0
      <4>1. g[k] \in Seq(S) /\ s[k + 1] \in Seq(S)
        BY <3>2, <1>0, <1>2, <2>1
      <4>. QED
        BY <4>1, <3>2
    <3>. QED
      BY <3>1, <3>2
  <2>3. h \in [1..k + 1 -> Seq(S)]
    BY <2>2, <2>1, <1>0
  <2>4. ASSUME NEW i \in 1..k + 1 PROVE h[i] = IF i = 1 THEN s[i] ELSE h[i - 1] \o s[i]
    <3>1. CASE i = k + 1
      BY <3>1, <1>0
    <3>2. CASE i # k + 1
      <4>1. h[i] = g[i] /\ (i # 1 => h[i - 1] = g[i - 1]) /\ i \in 1..k
        BY <3>2, <1>0
      <4>. QED
        BY <4>1, <2>1
    <3>. QED
      BY <3>1, <3>2
  <2>5. Upto(k + 1, h)
    BY <2>4
  <2> HIDE DEF h, Upto
  <2>6. k + 1 \in 0..N
    BY <1>2, <1>0
  <2>. QED
    BY <2>3, <2>5, <2>6
<1>3. N \in T
  <2> HIDE DEF T
  <2>1. 0..N \subseteq T
    BY <1>0, <1>1, <1>2, InductionUpTo
  <2>. QED
    BY <2>1, <1>0
<1>4. PICK g \in [1..N -> Seq(S)] : Upto(N, g)
  BY <1>3
<1>5. g = [i \in 1..N |-> IF i = 1 THEN s[i] ELSE g[i - 1] \o s[i]]
  BY <1>4
<1>. QED
  BY <1>5 DEF Building

(* FlattenSeq is the last value of that function.                          *)
LEMMA FlattenIsBuilt ==
  ASSUME NEW S, NEW s \in Seq(Seq(S)), s # <<>>
  PROVE  \E g \in [1..Len(s) -> Seq(S)] : Building(s, g) /\ FlattenSeq(s) = g[Len(s)]
<1> DEFINE h == CHOOSE g : Building(s, g)
           N == Len(s)
           T == {m \in 0..N : m # 0 => h[m] \in Seq(S)}
<1>1. \E g : Building(s, g)
  BY BuildingExists
<1>2. Building(s, h)
  BY <1>1, Zenon
<1>3. N \in Nat /\ N # 0 /\ \A i \in 1..N : s[i] \in Seq(S)
  OBVIOUS
<1>4. FlattenSeq(s) = h[N]
  BY <1>3 DEF FlattenSeq, Building
<1> HIDE DEF h
<1>5. \A i \in 1..N : h[i] = IF i = 1 THEN s[i] ELSE h[i - 1] \o s[i]
  BY <1>2 DEF Building
<1>a. h = [i \in 1..N |-> h[i]]
  BY <1>2 DEF Building
<1>6. 0 \in T
  BY <1>3
<1> HIDE DEF N
<1>7. ASSUME NEW m \in 0..N, m \in T, m < N PROVE m + 1 \in T
  <2>1. m + 1 \in 1..N /\ m + 1 \in 0..N /\ m + 1 - 1 = m
    BY <1>3, <1>7
  <2>2. h[m + 1] \in Seq(S)
    <3>1. CASE m = 0
      <4>1. m + 1 = 1 /\ h[1] = s[1]
        BY <2>1, <3>1, <1>5
      <4>. QED
        BY <4>1, <2>1, <1>3
    <3>2. CASE m # 0
      <4>1. h[m] \in Seq(S) /\ s[m + 1] \in Seq(S)
        BY <3>2, <2>1, <1>7, <1>3
      <4>2. m + 1 # 1
        BY <3>2
      <4>3. h[m + 1] = h[m] \o s[m + 1]
        <5> SUFFICES ASSUME NEW i \in 1..N, i = m + 1 PROVE h[i] = h[m] \o s[i]
          BY <2>1
        <5>1. h[i] = IF i = 1 THEN s[i] ELSE h[i - 1] \o s[i]
          BY <1>5
        <5>2. i # 1 /\ i - 1 = m
          BY <4>2, <2>1
        <5>. QED
          BY <5>1, <5>2, Zenon
      <4> HIDE DEF T
      <4>. QED
        BY <4>1, <4>3
    <3>. QED
      BY <3>1, <3>2
  <2>. QED
    BY <2>1, <2>2
<1>8. 0..N \subseteq T
  <2> HIDE DEF T, N
  <2>. QED
    BY <1>3, <1>6, <1>7, InductionUpTo
<1>9. ASSUME NEW i \in 1..N PROVE h[i] \in Seq(S)
  <2>1. i \in 0..N /\ i # 0
    BY <1>3
  <2>. QED
    BY <2>1, <1>8
<1>10. h \in [1..N -> Seq(S)]
  BY <1>a, <1>9
<1>. QED
  BY <1>2, <1>4, <1>10 DEF N

(* pre[k] is where the elements of s from k + 1 on begin in FlattenSeq(s). *)
Layout(s, pre) ==
  /\ pre \in [0..Len(s) -> Nat] /\ pre[0] = 0
  /\ \A k \in 1..Len(s) : pre[k] = pre[k - 1] + Len(s[k])
  /\ Len(FlattenSeq(s)) = pre[Len(s)]
  /\ \A k \in 1..Len(s) :
       /\ pre[k] <= pre[Len(s)]
       /\ \A j \in 1..Len(s[k]) : FlattenSeq(s)[pre[k - 1] + j] = s[k][j]

(* FlattenSeq puts the elements of s end to end.                           *)
LEMMA FlattenLayout ==
  ASSUME NEW S, NEW s \in Seq(Seq(S))
  PROVE  FlattenSeq(s) \in Seq(S) /\ \E pre : Layout(s, pre)
<1>1. CASE s = <<>>
  <2>1. FlattenSeq(s) = <<>> /\ Len(s) = 0
    BY <1>1 DEF FlattenSeq
  <2>2. Layout(s, [k \in 0..0 |-> 0])
    BY <2>1 DEF Layout
  <2>. QED
    BY <2>1, <2>2
<1>2. CASE s # <<>>
  <2>1. PICK g \in [1..Len(s) -> Seq(S)] : Building(s, g) /\ FlattenSeq(s) = g[Len(s)]
    BY <1>2, FlattenIsBuilt
  <2> DEFINE N == Len(s)
             pre == [k \in 0..N |-> IF k = 0 THEN 0 ELSE Len(g[k])]
             Laid(m) == \A k \in 1..m : /\ pre[k] <= pre[m]
                                        /\ \A j \in 1..Len(s[k]) : g[m][pre[k - 1] + j] = s[k][j]
             T == {m \in 0..N : Laid(m)}
  <2>d. N \in Nat /\ N # 0 /\ \A i \in 1..N : s[i] \in Seq(S)
    BY <1>2
  <2>e. \A i \in 1..N : g[i] \in Seq(S)
    BY <2>1
  <2>2. N \in Nat /\ N # 0 /\ \A i \in 1..N : s[i] \in Seq(S) /\ g[i] \in Seq(S)
    BY <2>d, <2>e
  <2>3. \A i \in 1..N : g[i] = IF i = 1 THEN s[i] ELSE g[i - 1] \o s[i]
    BY <2>1 DEF Building
  <2>a. \A i \in 1..N : Len(g[i]) \in Nat /\ Len(s[i]) \in Nat
    BY <2>2
  <2>b. pre \in [0..N -> Nat] /\ pre[0] = 0 /\ \A i \in 1..N : pre[i] = Len(g[i])
    BY <2>2, <2>a
  <2> HIDE DEF pre, N
  <2>c. ASSUME NEW i \in 1..N
        PROVE  /\ pre[i] = pre[i - 1] + Len(s[i])
               /\ \A j \in 1..pre[i - 1] : i # 1 => g[i][j] = g[i - 1][j]
               /\ \A j \in 1..Len(s[i]) : g[i][pre[i - 1] + j] = s[i][j]
    <3>1. CASE i = 1
      <4>1. g[i] = s[i] /\ pre[i - 1] = 0 /\ pre[i] = Len(s[i]) /\ Len(s[i]) \in Nat
        BY <3>1, <2>3, <2>b, <2>a, <2>2
      <4>. QED
        BY <4>1, <3>1
    <3>2. CASE i # 1
      <4>1. i - 1 \in 1..N
        BY <3>2, <2>2
      <4>2. g[i - 1] \in Seq(S) /\ s[i] \in Seq(S) /\ g[i] = g[i - 1] \o s[i]
        BY <4>1, <3>2, <2>2, <2>3
      <4>3. pre[i] = Len(g[i]) /\ pre[i - 1] = Len(g[i - 1])
        BY <4>1, <2>b
      <4>4. EndToEnd(g[i - 1], s[i], g[i])
        BY <4>2, ConcatIsEndToEnd
      <4>. QED
        BY <4>3, <4>4 DEF EndToEnd
    <3>. QED
      BY <3>1, <3>2
  <2>4. 0 \in T
    BY <2>2
  <2>5. ASSUME NEW m \in 0..N, m \in T, m < N PROVE m + 1 \in T
    <3>1. m + 1 \in 1..N /\ Laid(m) /\ m + 1 - 1 = m /\ m + 1 \in 0..N
      BY <2>5, <2>2
    <3>2. /\ pre[m + 1] = pre[m] + Len(s[m + 1]) /\ Len(s[m + 1]) \in Nat
          /\ pre[m] \in Nat /\ pre[m + 1] \in Nat
      <4>1. pre[m + 1] = pre[m] + Len(s[m + 1])
        BY <3>1, <2>c
      <4>2. Len(s[m + 1]) \in Nat
        BY <3>1, <2>a
      <4>3. pre[m] \in Nat /\ pre[m + 1] \in Nat
        BY <3>1, <2>b
      <4>. QED
        BY <4>1, <4>2, <4>3
    <3>3. ASSUME NEW k \in 1..m + 1
          PROVE  /\ pre[k] <= pre[m + 1]
                 /\ \A j \in 1..Len(s[k]) : g[m + 1][pre[k - 1] + j] = s[k][j]
      <4>1. CASE k = m + 1
        <5>1. \A j \in 1..Len(s[k]) : g[k][pre[k - 1] + j] = s[k][j]
          BY <4>1, <3>1, <2>c
        <5>. QED
          BY <5>1, <4>1, <3>2
      <4>2. CASE k # m + 1
        <5>1. k \in 1..m /\ k \in 1..N /\ k - 1 \in 0..N /\ m # 0
          BY <4>2, <3>1, <2>2
        <5>2. /\ pre[k] <= pre[m] /\ pre[k] = pre[k - 1] + Len(s[k]) /\ Len(s[k]) \in Nat
              /\ pre[k] \in Nat /\ pre[k - 1] \in Nat
          BY <5>1, <3>1, <2>c, <2>a, <2>b
        <5>3. \A j \in 1..pre[m] : g[m + 1][j] = g[m][j]
          <6>1. m + 1 # 1
            BY <5>1
          <6>. QED
            BY <6>1, <2>c, <3>1
        <5>4. ASSUME NEW j \in 1..Len(s[k]) PROVE g[m + 1][pre[k - 1] + j] = s[k][j]
          <6>0. j \in Nat /\ 1 <= j /\ j <= Len(s[k])
            BY <5>2
          <6>a. pre[k - 1] + j <= pre[k]
            BY <5>2, <6>0
          <6>b. pre[k] <= pre[m] /\ pre[k - 1] + j \in Nat /\ 1 <= pre[k - 1] + j
            BY <5>2, <6>0
          <6>1. pre[k - 1] + j \in 1..pre[m]
            <7> DEFINE x == pre[k - 1] + j  y == pre[k]  z == pre[m]
            <7>1. x <= y /\ y <= z /\ x \in Nat /\ y \in Nat /\ z \in Nat /\ 1 <= x
              BY <6>a, <6>b, <5>2, <3>2
            <7> HIDE DEF x, y, z
            <7>2. x \in 1..z
              BY <7>1
            <7>. QED
              BY <7>2 DEF x, z
          <6>2. g[m][pre[k - 1] + j] = s[k][j]
            BY <5>1, <3>1
          <6>. QED
            BY <6>1, <6>2, <5>3
        <5>5. pre[k] <= pre[m + 1]
          BY <5>2, <3>2
        <5>. QED
          BY <5>4, <5>5
      <4>. QED
        BY <4>1, <4>2
    <3>. QED
      BY <3>1, <3>3
  <2>6. Laid(N)
    <3>1. 0..N \subseteq T
      <4> HIDE DEF T
      <4>. QED
        BY <2>2, <2>4, <2>5, InductionUpTo
    <3>2. N \in 0..N
      BY <2>2
    <3> HIDE DEF Laid
    <3>. QED
      BY <3>1, <3>2
  <2>7. FlattenSeq(s) = g[N] /\ g[N] \in Seq(S) /\ Len(g[N]) = pre[N]
    BY <2>1, <2>2, <2>b DEF N
  <2>8. Layout(s, pre)
    BY <2>6, <2>7, <2>b, <2>c DEF Layout, N
  <2>. QED
    BY <2>7, <2>8
<1>. QED
  BY <1>1, <1>2

(* One element more at the end of s is its bytes at the end.               *)
LEMMA FlattenAppend ==
  ASSUME NEW S, NEW s \in Seq(Seq(S)), NEW e \in Seq(S)
  PROVE  FlattenSeq(Append(s, e)) = FlattenSeq(s) \o e
<1> DEFINE t == Append(s, e)
           N == Len(s)
<1>1. /\ t \in Seq(Seq(S)) /\ t # <<>> /\ Len(t) = N + 1 /\ N \in Nat
      /\ (\A i \in 1..N : t[i] = s[i]) /\ t[N + 1] = e
  BY AppendProperties
<1> HIDE DEF t
<1>2. PICK h \in [1..Len(t) -> Seq(S)] : Building(t, h) /\ FlattenSeq(t) = h[Len(t)]
  BY <1>1, FlattenIsBuilt
<1>3. \A i \in 1..N + 1 : h[i] = IF i = 1 THEN t[i] ELSE h[i - 1] \o t[i]
  BY <1>1, <1>2 DEF Building
<1>4. CASE s = <<>>
  <2>1. N = 0 /\ FlattenSeq(s) = <<>>
    BY <1>4 DEF FlattenSeq
  <2>2. FlattenSeq(t) = e
    BY <2>1, <1>1, <1>2, <1>3
  <2>3. <<>> \o e = e
    BY ConcatEmptySeq
  <2>. QED
    BY <2>1, <2>2, <2>3 DEF t
<1>5. CASE s # <<>>
  <2>1. PICK g \in [1..N -> Seq(S)] : Building(s, g) /\ FlattenSeq(s) = g[N]
    BY <1>5, FlattenIsBuilt
  <2>2. \A i \in 1..N : g[i] = IF i = 1 THEN s[i] ELSE g[i - 1] \o s[i]
    BY <2>1 DEF Building
  <2>3. N # 0
    BY <1>5
  <2> DEFINE T == {m \in 0..N : m # 0 => h[m] = g[m]}
  <2> HIDE DEF N
  <2>4. 0 \in T
    BY <1>1
  <2>5. ASSUME NEW m \in 0..N, m \in T, m < N PROVE m + 1 \in T
    <3>1. m + 1 \in 1..N /\ m + 1 \in 1..N + 1 /\ m + 1 \in 0..N /\ m + 1 - 1 = m
      BY <2>5, <1>1
    <3>3. ASSUME NEW i \in 1..N, i \in 1..N + 1, i = m + 1 PROVE h[i] = g[i]
      <4>1. /\ h[i] = IF i = 1 THEN t[i] ELSE h[i - 1] \o t[i]
            /\ g[i] = IF i = 1 THEN s[i] ELSE g[i - 1] \o s[i]
        BY <3>3, <1>3, <2>2
      <4>2. t[i] = s[i] /\ (i # 1 => h[i - 1] = g[i - 1])
        BY <3>3, <3>1, <1>1, <2>5
      <4>. QED
        BY <4>1, <4>2, Zenon
    <3>4. h[m + 1] = g[m + 1]
      BY <3>1, <3>3
    <3>. QED
      BY <3>1, <3>4
  <2>6. 0..N \subseteq T
    <3> HIDE DEF T
    <3>. QED
      BY <1>1, <2>4, <2>5, InductionUpTo
  <2>7. h[N] = g[N]
    BY <2>3, <2>6, <1>1
  <2>8. h[N + 1] = h[N] \o e
    <3>1. N + 1 \in 1..N + 1 /\ N + 1 # 1 /\ N + 1 - 1 = N
      BY <2>3, <1>1
    <3>2. ASSUME NEW i \in 1..N + 1, i = N + 1 PROVE h[i] = h[N] \o e
      <4>1. h[i] = IF i = 1 THEN t[i] ELSE h[i - 1] \o t[i]
        BY <1>3
      <4>2. i # 1 /\ i - 1 = N /\ t[i] = e
        BY <3>1, <3>2, <1>1
      <4>. QED
        BY <4>1, <4>2, Zenon
    <3>. QED
      BY <3>1, <3>2
  <2>. QED
    BY <2>1, <2>7, <2>8, <1>1, <1>2 DEF t
<1>. QED
  BY <1>4, <1>5

(* Nothing comes from empty sequences.                                     *)
LEMMA FlattenEmpties ==
  ASSUME NEW S, NEW s \in Seq(Seq(S)), \A i \in 1..Len(s) : s[i] = <<>>
  PROVE  FlattenSeq(s) = <<>>
<1>1. PICK pre : Layout(s, pre)
  BY FlattenLayout
<1> DEFINE N == Len(s)
           T == {m \in 0..N : pre[m] = 0}
<1>2. /\ N \in Nat /\ pre[0] = 0 /\ Len(FlattenSeq(s)) = pre[N]
      /\ \A k \in 1..N : pre[k] = pre[k - 1] + Len(s[k])
  BY <1>1 DEF Layout
<1>3. \A k \in 1..N : Len(s[k]) = 0
  OBVIOUS
<1> HIDE DEF N
<1>4. ASSUME NEW m \in 0..N, m \in T, m < N PROVE m + 1 \in T
  <2>1. m + 1 \in 1..N /\ m + 1 \in 0..N /\ m + 1 - 1 = m /\ pre[m] = 0
    BY <1>2, <1>4
  <2>. QED
    BY <2>1, <1>2, <1>3
<1>5. 0 \in T
  BY <1>2
<1> HIDE DEF T
<1>6. 0..N \subseteq T
  BY <1>2, <1>4, <1>5, InductionUpTo
<1>7. N \in T
  BY <1>2, <1>6
<1>8. Len(FlattenSeq(s)) = 0
  BY <1>2, <1>7 DEF T
<1>9. FlattenSeq(s) \in Seq(S)
  BY FlattenLayout
<1>. QED
  BY <1>8, <1>9, EmptySeq

=============================================================================
