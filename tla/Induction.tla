------------------------------- MODULE Induction -------------------------------
(***************************************************************************)
(* Induction on the natural numbers, from the fact that they are well      *)
(* founded, and what it shows about the operators of the community modules *)
(* that are defined by recursion.                                          *)
(***************************************************************************)
EXTENDS Integers, Sequences, SequencesExt, SequenceTheorems, WellFoundedInduction, TLAPS

\* A set of natural numbers has a least one.
LEMMA LeastOf ==
    ASSUME NEW T, T \subseteq Nat, T # {}
    PROVE  \E n \in T : \A m \in T : n <= m
  <1>. DEFINE R == OpToRel(<, Nat)
  <1>1. IsWellFoundedOn(R, Nat)  BY NatLessThanWellFounded
  <1>2. \A i, j \in Nat : i < j => <<i, j>> \in R  BY DEF OpToRel
  <1>. HIDE DEF R
  <1>3. \E x \in T : \A y \in T : ~ (<<y, x>> \in R)  BY <1>1, WFMin
  <1>4. PICK x \in T : \A y \in T : ~ (<<y, x>> \in R)  BY <1>3
  <1>5. ASSUME NEW y \in T PROVE x <= y
    <2>1. x \in Nat /\ y \in Nat /\ ~(<<y, x>> \in R)  BY <1>4
    <2>2. ~(y < x)  BY <1>2, <2>1
    <2>. QED  BY <2>1, <2>2
  <1>. QED  BY <1>5

\* Induction up to n, for the numbers that a set S holds.
LEMMA Induct ==
    ASSUME NEW n \in Nat, NEW S, 0 \in S, \A i \in 0..n - 1 : i \in S => i + 1 \in S
    PROVE  \A i \in 0..n : i \in S
  <1>. SUFFICES ASSUME (0..n) \ S # {} PROVE FALSE
    OBVIOUS
  <1>1. PICK i \in (0..n) \ S : \A j \in (0..n) \ S : i <= j
    <2>1. (0..n) \ S \subseteq Nat  OBVIOUS
    <2>. QED  BY <2>1, LeastOf
  <1>2. i # 0 /\ i - 1 \in 0..n - 1 /\ i - 1 \in 0..n /\ (i - 1) + 1 = i /\ ~(i <= i - 1)
    OBVIOUS
  <1>3. i - 1 \in S  BY <1>1, <1>2
  <1>. QED  BY <1>2, <1>3

\* The least of them is Min.
LEMMA MinIsLeast ==
    ASSUME NEW T, T \subseteq Nat, T # {}
    PROVE  Min(T) \in T /\ \A m \in T : Min(T) <= m
  <1>. QED  BY LeastOf DEF Min

\* A set of natural numbers with a bound has a greatest one, which is Max.
LEMMA MaxIsGreatest ==
    ASSUME NEW T, T \subseteq Nat, T # {}, NEW b \in Nat, \A m \in T : m <= b
    PROVE  Max(T) \in T /\ \A m \in T : m <= Max(T)
  <1>. DEFINE U == {b - m : m \in T}
  <1>1. U \subseteq Nat /\ U # {}
    <2>1. \A m \in T : b - m \in Nat  OBVIOUS
    <2>2. U # {}  OBVIOUS
    <2>. QED  BY <2>1, <2>2
  <1>2. PICK n \in U : \A m \in U : n <= m  BY <1>1, LeastOf
  <1>3. PICK g \in T : n = b - g  BY <1>2
  <1>4. ASSUME NEW m \in T PROVE g >= m
    <2>1. n <= b - m  BY <1>2
    <2>. QED  BY <1>3, <2>1
  <1>. QED  BY <1>4 DEF Max

\* Finitely many natural numbers have a bound.
LEMMA HaveBound ==
    ASSUME NEW n \in Nat, NEW f, \A i \in 0..n - 1 : f[i] \in Nat
    PROVE  \E b \in Nat : \A i \in 0..n - 1 : f[i] <= b
  <1>. DEFINE S == {k \in 0..n : \E b \in Nat : \A i \in 0..k - 1 : f[i] <= b}
  <1>1. 0 \in S
    <2>1. \A i \in 0..0 - 1 : f[i] <= 0  OBVIOUS
    <2>. QED  BY <2>1
  <1>2. ASSUME NEW k \in 0..n - 1, k \in S PROVE k + 1 \in S
    <2>1. PICK b \in Nat : \A i \in 0..k - 1 : f[i] <= b  BY <1>2
    <2>2. PICK c \in Nat : b <= c /\ f[k] <= c
      <3>1. f[k] \in Nat  OBVIOUS
      <3>. QED  BY <3>1
    <2>3. ASSUME NEW i \in 0..(k + 1) - 1 PROVE f[i] <= c
      <3>1. CASE i = k  BY <2>2, <3>1
      <3>2. CASE i # k
        <4>1. i \in 0..k - 1 /\ i \in 0..n - 1  BY <3>2
        <4>2. f[i] <= b /\ f[i] \in Nat  BY <2>1, <4>1
        <4>. QED  BY <2>2, <4>2
      <3>. QED  BY <3>1, <3>2
    <2>. QED  BY <2>3
  <1>. HIDE DEF S
  <1>3. n \in 0..n /\ \A i \in 0..n - 1 : i \in S => i + 1 \in S  BY <1>2
  <1>4. n \in S  BY <1>1, <1>3, Induct
  <1>. QED  BY <1>4 DEF S

\* The recursion in FlattenSeq has a solution.
LEMMA PrefixesJoin ==
    ASSUME NEW p, NEW n \in Nat \ {0}
    PROVE  \E f : f = [i \in 1..n |-> IF i = 1 THEN p[i] ELSE f[i - 1] \o p[i]]
  <1>. DEFINE Is(f, k) == f = [i \in 1..k |-> IF i = 1 THEN p[i] ELSE f[i - 1] \o p[i]]
              S == {k \in Nat : k = 0 \/ \E f : Is(f, k)}
  <1>1. 0 \in S  OBVIOUS
  <1>2. ASSUME NEW k \in 0..n - 1, k \in S PROVE k + 1 \in S
    <2>1. CASE k = 0
      <3>. DEFINE g == [i \in 1..1 |-> p[1]]
      <3>1. g = [i \in 1..1 |-> IF i = 1 THEN p[i] ELSE g[i - 1] \o p[i]]  OBVIOUS
      <3>2. Is(g, k + 1)  BY <2>1, <3>1
      <3>. HIDE DEF g, Is
      <3>. QED  BY <3>2
    <2>2. CASE k # 0
      <3>1. PICK f : Is(f, k)  BY <1>2, <2>2
      <3>. DEFINE g == [i \in 1..k + 1 |-> IF i = k + 1 THEN f[k] \o p[k + 1] ELSE f[i]]
                  h == [i \in 1..k + 1 |-> IF i = 1 THEN p[i] ELSE g[i - 1] \o p[i]]
      <3>2. \A i \in 1..k + 1 : g[i] = h[i]
        <4>1. \A i \in 1..k : f[i] = IF i = 1 THEN p[i] ELSE f[i - 1] \o p[i]  BY <3>1
        <4>2. \A i \in 1..k + 1 : i # 1 => g[i - 1] = f[i - 1]  OBVIOUS
        <4>3. \A i \in 1..k + 1 : i # 1 => h[i] = f[i - 1] \o p[i]  BY <4>2
        <4>. QED  BY <2>2, <4>1, <4>3
      <3>3. g = h
        <4>1. g = [i \in 1..k + 1 |-> g[i]] /\ h = [i \in 1..k + 1 |-> h[i]]  OBVIOUS
        <4>. HIDE DEF g, h
        <4>. QED  BY <3>2, <4>1
      <3>4. Is(g, k + 1)  BY <3>3
      <3>. HIDE DEF g, Is
      <3>. QED  BY <3>4
    <2>. QED  BY <2>1, <2>2
  <1>. HIDE DEF S
  <1>3. n \in S  BY <1>1, <1>2, Induct
  <1>. QED  BY <1>3 DEF S

\* FlattenSeq joins the members of p one by one.
LEMMA FlattenIs ==
    ASSUME NEW p, NEW n \in Nat \ {0}, Len(p) = n
    PROVE  \E f : /\ f = [i \in 1..n |-> IF i = 1 THEN p[i] ELSE f[i - 1] \o p[i]]
                  /\ FlattenSeq(p) = f[n]
  <1>. DEFINE f == CHOOSE f : f = [i \in 1..n |-> IF i = 1 THEN p[i] ELSE f[i - 1] \o p[i]]
  <1>1. f = [i \in 1..n |-> IF i = 1 THEN p[i] ELSE f[i - 1] \o p[i]]  BY PrefixesJoin
  <1>2. FlattenSeq(p) = f[n]  BY DEF FlattenSeq
  <1>. HIDE DEF f
  <1>. QED  BY <1>1, <1>2

LEMMA FlattenNone == FlattenSeq(<<>>) = <<>>
  BY EmptySeq DEF FlattenSeq

LEMMA FlattenType ==
    ASSUME NEW S, NEW p \in Seq(Seq(S))
    PROVE  FlattenSeq(p) \in Seq(S)
  <1>1. CASE p = <<>>  BY <1>1, FlattenNone, EmptySeq
  <1>2. CASE p # <<>>
    <2>. DEFINE n == Len(p)
    <2>1. n \in Nat \ {0} /\ \A i \in 1..n : p[i] \in Seq(S)
      BY <1>2, EmptySeq, LenProperties
    <2>2. PICK f : /\ f = [i \in 1..n |-> IF i = 1 THEN p[i] ELSE f[i - 1] \o p[i]]
                   /\ FlattenSeq(p) = f[n]
      BY <2>1, FlattenIs
    <2>. DEFINE T == {i \in Nat : i = 0 \/ f[i] \in Seq(S)}
    <2>3. 0 \in T  OBVIOUS
    <2>4. ASSUME NEW i \in 0..n - 1, i \in T PROVE i + 1 \in T
      <3>0. i + 1 \in 1..n /\ (i + 1 = 1 <=> i = 0) /\ (i + 1) - 1 = i  BY <2>1
      <3>1. f[i + 1] = IF i = 0 THEN p[1] ELSE f[i] \o p[i + 1]  BY <2>2, <3>0
      <3>2. f[i + 1] \in Seq(S)  BY <2>1, <2>4, <3>1, ConcatProperties
      <3>. QED  BY <2>1, <3>2
    <2>. HIDE DEF T, n
    <2>5. n \in T
      <3>1. n \in Nat /\ n \in 0..n  BY <2>1
      <3>2. \A i \in 0..n - 1 : i \in T => i + 1 \in T  BY <2>4
      <3>. QED  BY <2>3, <3>1, <3>2, Induct
    <2>. QED  BY <2>1, <2>2, <2>5 DEF T
  <1>. QED  BY <1>1, <1>2

LEMMA FlattenConcat ==
    ASSUME NEW S, NEW p \in Seq(Seq(S)), NEW q \in Seq(Seq(S))
    PROVE  FlattenSeq(p \o q) = FlattenSeq(p) \o FlattenSeq(q)
  <1>0. FlattenSeq(p) \in Seq(S) /\ FlattenSeq(q) \in Seq(S)  BY FlattenType
  <1>1. CASE p = <<>>
    <2>1. p \o q = q  BY <1>1, ConcatEmptySeq
    <2>2. FlattenSeq(p) \o FlattenSeq(q) = FlattenSeq(q)
      BY <1>0, <1>1, FlattenNone, ConcatEmptySeq
    <2>. QED  BY <2>1, <2>2
  <1>2. CASE q = <<>>
    <2>1. p \o q = p  BY <1>2, ConcatEmptySeq
    <2>2. FlattenSeq(p) \o FlattenSeq(q) = FlattenSeq(p)
      BY <1>0, <1>2, FlattenNone, ConcatEmptySeq
    <2>. QED  BY <2>1, <2>2
  <1>3. CASE p # <<>> /\ q # <<>>
    <2>. DEFINE m == Len(p)
                n == Len(q)
                r == p \o q
    <2>1. /\ m \in Nat \ {0} /\ n \in Nat \ {0} /\ m + n \in Nat \ {0}
          /\ \A i \in 1..m : p[i] \in Seq(S)
          /\ \A i \in 1..n : q[i] \in Seq(S)
      BY <1>3, EmptySeq, LenProperties
    <2>2. /\ Len(r) = m + n
          /\ \A i \in 1..m : r[i] = p[i]
          /\ \A i \in 1..n : r[m + i] = q[i]
      BY <2>1, ConcatProperties
    <2>. HIDE DEF m, n, r
    <2>3. PICK f : /\ f = [i \in 1..m |-> IF i = 1 THEN p[i] ELSE f[i - 1] \o p[i]]
                   /\ FlattenSeq(p) = f[m]
      BY <2>1, FlattenIs DEF m
    <2>4. PICK g : /\ g = [i \in 1..n |-> IF i = 1 THEN q[i] ELSE g[i - 1] \o q[i]]
                   /\ FlattenSeq(q) = g[n]
      BY <2>1, FlattenIs DEF n
    <2>5. PICK h : /\ h = [i \in 1..m + n |-> IF i = 1 THEN r[i] ELSE h[i - 1] \o r[i]]
                   /\ FlattenSeq(r) = h[m + n]
      BY <2>1, <2>2, FlattenIs
    <2>6. h[m] = f[m] /\ f[m] \in Seq(S)
      <3>. DEFINE T == {i \in Nat : i = 0 \/ h[i] = f[i]}
      <3>1. 0 \in T  OBVIOUS
      <3>2. ASSUME NEW i \in 0..m - 1, i \in T PROVE i + 1 \in T
        <4>0. /\ i + 1 \in 1..m /\ i + 1 \in 1..m + n
              /\ (i + 1 = 1 <=> i = 0) /\ (i + 1) - 1 = i
          BY <2>1
        <4>1. /\ h[i + 1] = IF i = 0 THEN r[1] ELSE h[i] \o r[i + 1]
              /\ f[i + 1] = IF i = 0 THEN p[1] ELSE f[i] \o p[i + 1]
          BY <2>3, <2>5, <4>0
        <4>. QED  BY <2>1, <2>2, <3>2, <4>0, <4>1
      <3>. HIDE DEF T
      <3>3. m \in T
        <4>1. m \in Nat /\ m \in 0..m  BY <2>1
        <4>2. \A i \in 0..m - 1 : i \in T => i + 1 \in T  BY <3>2
        <4>. QED  BY <3>1, <4>1, <4>2, Induct
      <3>. QED  BY <1>0, <2>1, <2>3, <3>3 DEF T
    <2>7. h[m + n] = f[m] \o g[n]
      <3>. DEFINE T == {i \in Nat : i = 0 \/ (g[i] \in Seq(S) /\ h[m + i] = f[m] \o g[i])}
      <3>1. 0 \in T  OBVIOUS
      <3>2. ASSUME NEW i \in 0..n - 1, i \in T PROVE i + 1 \in T
        <4>0. i + 1 \in 1..n /\ m + (i + 1) \in 1..m + n /\ m + (i + 1) # 1
              /\ m + (i + 1) - 1 = m + i /\ (i + 1 = 1 <=> i = 0) /\ (i + 1) - 1 = i
          BY <2>1
        <4>1. /\ h[m + (i + 1)] = h[m + i] \o q[i + 1]
              /\ g[i + 1] = IF i = 0 THEN q[1] ELSE g[i] \o q[i + 1]
          <5>1. r[m + (i + 1)] = q[i + 1]  BY <2>2, <4>0
          <5>2. h[m + (i + 1)] = h[m + i] \o r[m + (i + 1)]
            <6>. DEFINE j == m + (i + 1)
            <6>1. j \in 1..m + n /\ j # 1 /\ j - 1 = m + i  BY <2>1
            <6>. HIDE DEF j
            <6>2. h[j] = h[m + i] \o r[j]  BY <2>5, <6>1
            <6>. QED  BY <6>2 DEF j
          <5>3. g[i + 1] = IF i = 0 THEN q[1] ELSE g[i] \o q[i + 1]  BY <2>4, <4>0
          <5>. QED  BY <5>1, <5>2, <5>3
        <4>2. q[i + 1] \in Seq(S)  BY <2>1, <4>0
        <4>3. CASE i = 0
          <5>1. g[i + 1] = q[i + 1] /\ h[m + (i + 1)] = f[m] \o q[i + 1]
            <6>1. m + i = m /\ i + 1 = 1  BY <2>1, <4>3
            <6>. QED  BY <2>6, <4>1, <4>3, <6>1
          <5>2. i + 1 \in Nat  OBVIOUS
          <5>. QED  BY <4>2, <5>1, <5>2
        <4>4. CASE i # 0
          <5>1. g[i] \in Seq(S) /\ h[m + i] = f[m] \o g[i]  BY <3>2, <4>4
          <5>2. g[i + 1] \in Seq(S)  BY <4>1, <4>2, <4>4, <5>1, ConcatProperties
          <5>3. (f[m] \o g[i]) \o q[i + 1] = f[m] \o (g[i] \o q[i + 1])
            <6>1. \A a, b, c \in Seq(S) : (a \o b) \o c = a \o (b \o c)
              BY ConcatAssociative
            <6>. QED  BY <2>6, <4>2, <5>1, <6>1
          <5>4. h[m + (i + 1)] = f[m] \o g[i + 1]  BY <4>1, <4>4, <5>1, <5>3
          <5>5. i + 1 \in Nat  OBVIOUS
          <5>. QED  BY <5>2, <5>4, <5>5
        <4>. QED  BY <4>3, <4>4
      <3>. HIDE DEF T
      <3>3. n \in T
        <4>1. n \in Nat /\ n \in 0..n  BY <2>1
        <4>2. \A i \in 0..n - 1 : i \in T => i + 1 \in T  BY <3>2
        <4>. QED  BY <3>1, <4>1, <4>2, Induct
      <3>. QED  BY <2>1, <3>3 DEF T
    <2>. QED  BY <2>3, <2>4, <2>5, <2>6, <2>7 DEF r
  <1>. QED  BY <1>1, <1>2, <1>3

=============================================================================
