------------------------ MODULE CloudWatchLogger_proofs ------------------------
(***************************************************************************)
(* Proofs about CloudWatchLogger, for any messages and limits, any number  *)
(* of runs and calls of flush(), and any number of failures.               *)
(***************************************************************************)
EXTENDS CloudWatchLogger, LeastElement, SequenceTheorems

-----------------------------------------------------------------------------
(* Sums.                                                                   *)

LEMMA SumsStep ==
  ASSUME NEW s \in Seq(Nat)
  PROVE  /\ Sums(s) \in [0 .. Len(s) -> Nat] /\ Sums(s)[0] = 0
         /\ \A n \in 1 .. Len(s) : Sums(s)[n] = Sums(s)[n - 1] + s[n]
  <1> DEFINE m == Len(s)
             step == [p \in (1 .. m) \X Nat |-> p[2] + s[p[1]]]
             Sum(f) == f = [n \in 0 .. m |-> IF n = 0 THEN 0 ELSE f[n - 1] + s[n]]
  <1>1. m \in Nat /\ step \in [(1 .. m) \X Nat -> Nat] /\ 0 \in Nat
    OBVIOUS
  <1> HIDE DEF step, m
  <1>2. PICK f : IsRecursive(f, m, Nat, 0, step)
    <2>1. step \in RecursiveSteps(m, Nat)
      BY <1>1 DEF RecursiveSteps
    <2> QED BY <1>1, <2>1, RecursionExists
  <1>3. ASSUME NEW n \in 1 .. m PROVE f[n] = f[n - 1] + s[n]
    <2>1. n - 1 \in 0 .. m /\ f[n - 1] \in Nat
      BY <1>1, <1>2 DEF IsRecursive
    <2> QED BY <1>2, <2>1 DEF step, IsRecursive
  <1>4. Sum(f)
    BY <1>1, <1>2, <1>3 DEF IsRecursive
  <1>5. Sums(s) = CHOOSE g : Sum(g)
    BY DEF Sums, m
  <1> HIDE DEF Sum
  <1>6. Sum(Sums(s))
    BY <1>4, <1>5
  <1> DEFINE g == Sums(s)
             T == {n \in Nat : n <= m => g[n] \in Nat}
  <1> HIDE DEF g
  <1>7. g = [n \in 0 .. m |-> IF n = 0 THEN 0 ELSE g[n - 1] + s[n]]
    BY <1>6 DEF Sum, g
  <1>8. \A n \in Nat : n \in T => n + 1 \in T
    <2>1. ASSUME NEW n \in Nat, n \in T, n + 1 <= m PROVE g[n + 1] \in Nat
      <3>1. n + 1 \in 1 .. m /\ (n + 1) - 1 = n /\ s[n + 1] \in Nat
        BY <1>1, <2>1 DEF m
      <3>2. g[n + 1] = g[n] + s[n + 1]
        <4>1. n + 1 \in 0 .. m /\ n + 1 # 0
          BY <1>1, <3>1
        <4>2. g[n + 1] = g[(n + 1) - 1] + s[n + 1]
          BY <1>7, <4>1
        <4> QED BY <3>1, <4>2
      <3>3. g[n] \in Nat
        BY <1>1, <2>1
      <3> QED BY <3>1, <3>2, <3>3
    <2> QED BY <2>1
  <1>9. 0 \in T
    BY <1>1, <1>7
  <1> HIDE DEF T
  <1>10. \A n \in Nat : n \in T
    BY <1>8, <1>9, Induction
  <1>11. \A n \in 0 .. m : g[n] \in Nat
    BY <1>1, <1>10 DEF T
  <1>12. g[0] = 0 /\ \A n \in 1 .. m : g[n] = g[n - 1] + s[n]
    BY <1>1, <1>7
  <1>13. g \in [0 .. m -> Nat]
    BY <1>7, <1>11
  <1> QED BY <1>12, <1>13 DEF g, m

(* Sums grow with the number and the size of what is added.                *)
LEMMA SumsGrow ==
  ASSUME NEW s \in Seq(Nat), NEW i \in 0 .. Len(s), NEW n \in i .. Len(s)
  PROVE  Sums(s)[i] <= Sums(s)[n]
  <1> DEFINE m == Len(s)
             f == Sums(s)
             T == {k \in Nat : i + k <= m => f[i] <= f[i + k]}
  <1>1. m \in Nat /\ i \in 0 .. m /\ n \in i .. m /\ \A k \in 1 .. m : s[k] \in Nat
    OBVIOUS
  <1>2. f \in [0 .. m -> Nat] /\ \A k \in 1 .. m : f[k] = f[k - 1] + s[k]
    BY SumsStep
  <1> HIDE DEF m, f
  <1>3. 0 \in T
    BY <1>1, <1>2
  <1>4. ASSUME NEW k \in Nat, k \in T, i + (k + 1) <= m PROVE f[i] <= f[i + (k + 1)]
    <2>1. i + k \in 0 .. m /\ i + (k + 1) \in 1 .. m /\ (i + (k + 1)) - 1 = i + k
      BY <1>1, <1>4
    <2>2. f[i + (k + 1)] = f[i + k] + s[i + (k + 1)]
      BY <1>2, <2>1
    <2>3. f[i] \in Nat /\ f[i + k] \in Nat /\ s[i + (k + 1)] \in Nat
      BY <1>1, <1>2, <2>1
    <2>4. f[i] <= f[i + k]
      BY <1>4, <2>1
    <2> QED BY <2>2, <2>3, <2>4
  <1>5. \A k \in Nat : k \in T => k + 1 \in T
    BY <1>4
  <1> HIDE DEF T
  <1>6. n - i \in Nat /\ n - i \in T
    <2>1. n - i \in Nat
      BY <1>1
    <2> QED BY <1>3, <1>5, <2>1, Induction
  <1> QED BY <1>1, <1>6 DEF T, f

LEMMA SumsCompare ==
  ASSUME NEW s \in Seq(Nat), NEW t \in Seq(Nat), NEW n \in 0 .. Len(s), n <= Len(t),
         \A k \in 1 .. n : s[k] <= t[k]
  PROVE  Sums(s)[n] <= Sums(t)[n]
  <1> DEFINE f == Sums(s)
             g == Sums(t)
             T == {k \in Nat : k <= n => f[k] <= g[k]}
  <1>1. n \in Nat /\ \A k \in 1 .. n : s[k] \in Nat /\ t[k] \in Nat
    OBVIOUS
  <1>2. /\ \A k \in 0 .. n : f[k] \in Nat /\ g[k] \in Nat
        /\ f[0] = 0 /\ g[0] = 0
        /\ \A k \in 1 .. n : f[k] = f[k - 1] + s[k] /\ g[k] = g[k - 1] + t[k]
    <2>1. n <= Len(s) /\ Len(s) \in Nat /\ Len(t) \in Nat
      OBVIOUS
    <2>2. \A k \in 0 .. n : k \in 0 .. Len(s) /\ k \in 0 .. Len(t)
      BY <2>1
    <2>3. \A k \in 1 .. n : k \in 1 .. Len(s) /\ k \in 1 .. Len(t)
      BY <2>1
    <2>4. /\ f \in [0 .. Len(s) -> Nat] /\ f[0] = 0
          /\ \A k \in 1 .. Len(s) : f[k] = f[k - 1] + s[k]
      BY SumsStep
    <2>5. /\ g \in [0 .. Len(t) -> Nat] /\ g[0] = 0
          /\ \A k \in 1 .. Len(t) : g[k] = g[k - 1] + t[k]
      BY SumsStep
    <2> HIDE DEF f, g
    <2> QED BY <2>2, <2>3, <2>4, <2>5
  <1> HIDE DEF f, g
  <1>3. 0 \in T
    BY <1>1, <1>2
  <1>4. ASSUME NEW k \in Nat, k \in T, k + 1 <= n PROVE f[k + 1] <= g[k + 1]
    <2>1. k \in 0 .. n /\ k + 1 \in 1 .. n /\ (k + 1) - 1 = k
      BY <1>1, <1>4
    <2>2. f[k + 1] = f[k] + s[k + 1] /\ g[k + 1] = g[k] + t[k + 1]
      BY <1>2, <2>1
    <2>3. /\ f[k] \in Nat /\ g[k] \in Nat
          /\ s[k + 1] \in Nat /\ t[k + 1] \in Nat /\ s[k + 1] <= t[k + 1]
      BY <1>1, <1>2, <2>1
    <2>4. f[k] <= g[k]
      BY <1>4, <2>1
    <2> DEFINE a == f[k]
               b == g[k]
               c == s[k + 1]
               d == t[k + 1]
    <2>5. a + c <= b + d
      <3> HIDE DEF a, b, c, d
      <3>1. a \in Nat /\ b \in Nat /\ c \in Nat /\ d \in Nat /\ a <= b /\ c <= d
        BY <2>3, <2>4 DEF a, b, c, d
      <3> QED BY <3>1
    <2> QED BY <2>2, <2>5
  <1>5. \A k \in Nat : k \in T => k + 1 \in T
    BY <1>4
  <1> HIDE DEF T
  <1>6. n \in T
    BY <1>1, <1>3, <1>5, Induction
  <1> QED BY <1>1, <1>6 DEF T, f, g

-----------------------------------------------------------------------------
(* FlattenSeq.                                                             *)

LEMMA ConcatRegroup ==
  \A S : \A s, t, u \in Seq(S) : s \o (t \o u) = (s \o t) \o u
  OBVIOUS

IsFlatten(f, ss, S) ==
  /\ f \in [0 .. Len(ss) -> Seq(S)]
  /\ f[0] = <<>>
  /\ \A n \in 1 .. Len(ss) : f[n] = f[n - 1] \o ss[n]

LEMMA FlattenExists ==
  ASSUME NEW S, NEW ss \in Seq(Seq(S))
  PROVE  \E f : IsFlatten(f, ss, S)
  <1> DEFINE m == Len(ss)
             Q == Seq(S)
             step == [p \in (1 .. m) \X Q |-> p[2] \o ss[p[1]]]
  <1>1. m \in Nat /\ <<>> \in Q /\ \A n \in 1 .. m : ss[n] \in Q
    OBVIOUS
  <1>2. \A s, t \in Q : s \o t \in Q
    OBVIOUS
  <1> HIDE DEF m, Q
  <1>3. step \in RecursiveSteps(m, Q)
    BY <1>1, <1>2 DEF RecursiveSteps
  <1>4. \A n \in 1 .. m : \A q \in Q : step[<<n, q>>] = q \o ss[n]
    OBVIOUS
  <1> HIDE DEF step
  <1>5. PICK f : IsRecursive(f, m, Q, <<>>, step)
    BY <1>1, <1>3, RecursionExists
  <1>6. \A n \in 1 .. m : f[n] = f[n - 1] \o ss[n]
    <2>1. \A n \in 1 .. m : n - 1 \in 0 .. m
      BY <1>1
    <2> QED BY <1>4, <1>5, <2>1 DEF IsRecursive
  <1>7. IsFlatten(f, ss, S)
    BY <1>5, <1>6 DEF IsRecursive, IsFlatten, m, Q
  <1> QED BY <1>7

LEMMA FlattenIs ==
  ASSUME NEW S, NEW ss \in Seq(Seq(S)), NEW f, IsFlatten(f, ss, S)
  PROVE  FlattenSeq(ss) = f[Len(ss)]
  <1> DEFINE m == Len(ss)
             Flat(g) == g = [i \in 1 .. m |-> IF i = 1 THEN ss[i] ELSE g[i - 1] \o ss[i]]
             h == [i \in 1 .. m |-> f[i]]
             G == CHOOSE g : Flat(g)
  <1>1. m \in Nat /\ \A n \in 1 .. m : ss[n] \in Seq(S)
    OBVIOUS
  <1>2. CASE m = 0
    BY <1>2 DEF FlattenSeq, IsFlatten
  <1>3. CASE m # 0
    <2>1. f[0] = <<>> /\ \A n \in 1 .. m : f[n] = f[n - 1] \o ss[n]
      BY DEF IsFlatten
    <2> HIDE DEF m
    <2>2. ASSUME NEW i \in 1 .. m
          PROVE  h[i] = IF i = 1 THEN ss[i] ELSE h[i - 1] \o ss[i]
      <3>1. CASE i = 1
        <4>0. 1 \in 1 .. m /\ 1 - 1 = 0
          BY <2>2, <3>1
        <4>1. f[1] = f[0] \o ss[1] /\ ss[1] \in Seq(S)
          BY <1>1, <2>1, <4>0
        <4>2. f[1] = ss[1]
          BY <2>1, <4>1, ConcatEmptySeq
        <4> QED BY <2>2, <3>1, <4>2
      <3>2. CASE i # 1
        <4>1. i - 1 \in 1 .. m
          BY <1>1, <2>2, <3>2
        <4>2. h[i - 1] = f[i - 1] /\ h[i] = f[i]
          BY <2>2, <4>1
        <4> QED BY <2>1, <2>2, <3>2, <4>2
      <3> QED BY <3>1, <3>2
    <2>3. Flat(h)
      BY <2>2
    <2>4. Flat(G)
      <3> HIDE DEF Flat, h
      <3> QED BY <2>3
    <2>5. FlattenSeq(ss) = G[m]
      BY <1>3 DEF FlattenSeq, m
    <2> HIDE DEF G
    <2> HIDE DEF h
    <2>5a. ASSUME NEW g, Flat(g)
           PROVE  g[1] = ss[1] /\ \A i \in 2 .. m : g[i] = g[i - 1] \o ss[i]
      <3>1. 1 \in 1 .. m /\ \A i \in 2 .. m : i \in 1 .. m /\ i # 1
        BY <1>1, <1>3
      <3>2. g = [i \in 1 .. m |-> IF i = 1 THEN ss[i] ELSE g[i - 1] \o ss[i]]
        BY <2>5a
      <3>3. \A i \in 1 .. m : g[i] = IF i = 1 THEN ss[i] ELSE g[i - 1] \o ss[i]
        BY <3>2, Zenon
      <3> QED BY <3>1, <3>3
    <2> HIDE DEF Flat
    <2>6. G[1] = ss[1] /\ \A i \in 2 .. m : G[i] = G[i - 1] \o ss[i]
      BY <2>4, <2>5a
    <2>7. h[1] = ss[1] /\ \A i \in 2 .. m : h[i] = h[i - 1] \o ss[i]
      BY <2>3, <2>5a
    <2> DEFINE T == {n \in Nat : n + 1 <= m => G[n + 1] = h[n + 1]}
    <2>8. 0 \in T
      BY <2>6, <2>7
    <2>9. ASSUME NEW n \in Nat, n \in T, (n + 1) + 1 <= m
          PROVE  G[(n + 1) + 1] = h[(n + 1) + 1]
      <3>1. (n + 1) + 1 \in 2 .. m /\ ((n + 1) + 1) - 1 = n + 1 /\ n + 1 <= m
        BY <1>1, <2>9
      <3>2. G[n + 1] = h[n + 1]
        BY <2>9, <3>1
      <3> QED BY <2>6, <2>7, <3>1, <3>2
    <2>10. \A n \in Nat : n \in T => n + 1 \in T
      BY <2>9
    <2> HIDE DEF T
    <2>11. \A n \in Nat : n \in T
      BY <2>8, <2>10, Induction
    <2>12. m - 1 \in Nat /\ (m - 1) + 1 = m /\ m \in 1 .. m
      BY <1>1, <1>3
    <2>13. G[m] = h[m]
      <3>1. m - 1 \in T
        BY <2>11, <2>12
      <3>2. m - 1 + 1 <= m => G[(m - 1) + 1] = h[(m - 1) + 1]
        BY <3>1 DEF T
      <3> QED BY <1>1, <2>12, <3>2
    <2> QED BY <2>5, <2>12, <2>13 DEF h, m
  <1> QED BY <1>2, <1>3

LEMMA FlattenType ==
  ASSUME NEW S, NEW ss \in Seq(Seq(S))
  PROVE  FlattenSeq(ss) \in Seq(S)
  <1>1. PICK f : IsFlatten(f, ss, S)
    BY FlattenExists
  <1>2. FlattenSeq(ss) = f[Len(ss)]
    BY <1>1, FlattenIs
  <1> QED BY <1>1, <1>2 DEF IsFlatten

LEMMA FlattenConcat ==
  ASSUME NEW S, NEW a \in Seq(Seq(S)), NEW b \in Seq(Seq(S))
  PROVE  FlattenSeq(a \o b) = FlattenSeq(a) \o FlattenSeq(b)
  <1>1. PICK f : IsFlatten(f, a, S)
    BY FlattenExists
  <1>2. PICK g : IsFlatten(g, b, S)
    BY FlattenExists
  <1> DEFINE k == Len(a)
             m == Len(b)
             x == f[k]
             h == [n \in 0 .. k + m |-> IF n <= k THEN f[n] ELSE x \o g[n - k]]
             c == a \o b
  <1>3. k \in Nat /\ m \in Nat /\ c \in Seq(Seq(S)) /\ Len(c) = k + m
    BY ConcatProperties
  <1>4. \A n \in 1 .. k + m : c[n] = IF n <= k THEN a[n] ELSE b[n - k]
    BY ConcatProperties
  <1>5. /\ f \in [0 .. k -> Seq(S)] /\ f[0] = <<>>
        /\ \A n \in 1 .. k : f[n] = f[n - 1] \o a[n]
    BY <1>1 DEF IsFlatten
  <1>6. /\ g \in [0 .. m -> Seq(S)] /\ g[0] = <<>>
        /\ \A n \in 1 .. m : g[n] = g[n - 1] \o b[n]
    BY <1>2 DEF IsFlatten
  <1>6a. \A n \in 1 .. m : b[n] \in Seq(S)
    OBVIOUS
  <1> HIDE DEF k, m, c
  <1>7. x \in Seq(S)
    BY <1>3, <1>5
  <1>8. h \in [0 .. k + m -> Seq(S)]
    <2>1. ASSUME NEW n \in 0 .. k + m PROVE h[n] \in Seq(S)
      <3>1. CASE n <= k
        BY <1>3, <1>5, <3>1
      <3>2. CASE ~ (n <= k)
        <4>1. n - k \in 0 .. m
          BY <1>3, <3>2
        <4>2. g[n - k] \in Seq(S)
          BY <1>6, <4>1
        <4>3. x \o g[n - k] \in Seq(S)
          BY <1>7, <4>2, ConcatProperties
        <4> QED BY <3>2, <4>3
      <3> QED BY <3>1, <3>2
    <2> QED BY <2>1
  <1>9. \A n \in 0 .. k : h[n] = f[n]
    BY <1>3
  <1>10. \A n \in 0 .. m : h[k + n] = x \o g[n]
    <2>1. ASSUME NEW n \in 0 .. m PROVE h[k + n] = x \o g[n]
      <3>1. CASE n = 0
        <4>1. x \o <<>> = x
          BY <1>7, ConcatEmptySeq
        <4>2. h[k + n] = x
          BY <1>3, <3>1
        <4> QED BY <1>6, <3>1, <4>1, <4>2
      <3>2. CASE n # 0
        <4>1. k + n \in 0 .. k + m /\ ~ (k + n <= k) /\ (k + n) - k = n
          BY <1>3, <3>2
        <4> QED BY <4>1
      <3> QED BY <3>1, <3>2
    <2> QED BY <2>1
  <1> HIDE DEF h
  <1>11. ASSUME NEW n \in 1 .. k + m PROVE h[n] = h[n - 1] \o c[n]
    <2>1. CASE n <= k
      <3>1. n \in 1 .. k /\ n \in 0 .. k /\ n - 1 \in 0 .. k
        BY <1>3, <2>1
      <3>2. c[n] = a[n]
        BY <1>4, <2>1
      <3> QED BY <1>5, <1>9, <3>1, <3>2
    <2>2. CASE ~ (n <= k)
      <3> DEFINE j == n - k
      <3>1. j \in 1 .. m /\ j \in 0 .. m /\ j - 1 \in 0 .. m /\ n = k + j /\ n - 1 = k + (j - 1)
        BY <1>3, <2>2
      <3>2. c[n] = b[j]
        BY <1>4, <2>2
      <3> HIDE DEF j
      <3>3. h[n] = x \o g[j] /\ h[n - 1] = x \o g[j - 1]
        BY <1>10, <3>1
      <3>4. g[j] = g[j - 1] \o b[j] /\ g[j - 1] \in Seq(S) /\ b[j] \in Seq(S)
        BY <1>6, <1>6a, <3>1
      <3> DEFINE y == g[j - 1]
                 z == b[j]
      <3> HIDE DEF x, y, z
      <3>5. y \in Seq(S) /\ z \in Seq(S) /\ g[j] = y \o z
        BY <3>4 DEF y, z
      <3>6. x \o (y \o z) = (x \o y) \o z
        <4>1. x \in Seq(S) /\ y \in Seq(S) /\ z \in Seq(S)
          BY <1>7, <3>5
        <4> QED BY <4>1, ConcatRegroup
      <3> QED BY <3>2, <3>3, <3>5, <3>6 DEF y, z
    <2> QED BY <2>1, <2>2
  <1>12. h[0] = <<>>
    BY <1>3, <1>5, <1>9
  <1>13. IsFlatten(h, c, S)
    BY <1>3, <1>8, <1>11, <1>12 DEF IsFlatten
  <1>14. FlattenSeq(c) = h[k + m]
    BY <1>3, <1>13, FlattenIs
  <1>15. FlattenSeq(a) = x /\ FlattenSeq(b) = g[m]
    BY <1>1, <1>2, FlattenIs DEF k, m
  <1>16. h[k + m] = x \o g[m]
    <2>1. m \in 0 .. m
      BY <1>3
    <2> QED BY <1>10, <2>1
  <1> QED BY <1>14, <1>15, <1>16 DEF c

LEMMA FlattenFew ==
  ASSUME NEW S, NEW s \in Seq(S)
  PROVE  FlattenSeq(<<>>) = <<>> /\ FlattenSeq(<<s>>) = s
  <1>1. IsFlatten([n \in 0 .. 0 |-> <<>>], <<>>, S)
    BY DEF IsFlatten
  <1>2. IsFlatten([n \in 0 .. 1 |-> IF n = 0 THEN <<>> ELSE s], <<s>>, S)
    <2>1. <<>> \o s = s
      BY ConcatEmptySeq
    <2> QED BY <2>1 DEF IsFlatten
  <1>3. <<>> \in Seq(Seq(S)) /\ <<s>> \in Seq(Seq(S)) /\ Len(<<>>) = 0 /\ Len(<<s>>) = 1
    OBVIOUS
  <1> DEFINE f == [n \in 0 .. 0 |-> <<>>]
             g == [n \in 0 .. 1 |-> IF n = 0 THEN <<>> ELSE s]
  <1>4. f[0] = <<>> /\ g[1] = s
    OBVIOUS
  <1> HIDE DEF f, g
  <1>5. FlattenSeq(<<>>) = f[0]
    BY <1>1, <1>3, FlattenIs DEF f
  <1>6. FlattenSeq(<<s>>) = g[1]
    BY <1>2, <1>3, FlattenIs DEF g
  <1> QED BY <1>4, <1>5, <1>6

(* Sequences that are made of a sequence for each element of another.      *)
SeqMaps(E, U) == [E -> Seq(U)]
ConcatMap(h, s) == FlattenSeq([k \in DOMAIN s |-> h[s[k]]])

LEMMA ConcatMapIs ==
  ASSUME NEW E, NEW U, NEW h \in SeqMaps(E, U), NEW s \in Seq(E), NEW t \in Seq(E)
  PROVE  /\ ConcatMap(h, s) \in Seq(U)
         /\ ConcatMap(h, s \o t) = ConcatMap(h, s) \o ConcatMap(h, t)
         /\ ConcatMap(h, <<>>) = <<>>
         /\ \A e \in E : ConcatMap(h, <<e>>) = h[e]
  <1> DEFINE Map(x) == [n \in DOMAIN x |-> h[x[n]]]
             c == s \o t
             C == Seq(U)
             p == Map(s)
             q == Map(t)
             r == Map(c)
             k == Len(s)
             m == Len(t)
  <1>0. ASSUME NEW x \in Seq(E)
        PROVE  Map(x) \in Seq(C) /\ Len(Map(x)) = Len(x)
                 /\ \A n \in 1 .. Len(x) : Map(x)[n] = h[x[n]]
    <2>1. DOMAIN x = 1 .. Len(x) /\ Len(x) \in Nat /\ \A n \in 1 .. Len(x) : x[n] \in E
      OBVIOUS
    <2>2. \A e \in E : h[e] \in C
      BY DEF SeqMaps
    <2> DEFINE y == Map(x)
               l == Len(x)
    <2>3. l \in Nat /\ y \in [1 .. l -> C] /\ \A n \in 1 .. l : y[n] = h[x[n]]
      BY <2>1, <2>2
    <2> HIDE DEF y, l
    <2>4. y \in Seq(C) /\ Len(y) = l
      BY <2>3
    <2> QED BY <2>3, <2>4 DEF y, l
  <1>1. c \in Seq(E) /\ Len(c) = k + m /\ k \in Nat /\ m \in Nat
         /\ \A n \in 1 .. k + m : c[n] = IF n <= k THEN s[n] ELSE t[n - k]
    BY ConcatProperties
  <1>2. p \in Seq(C) /\ Len(p) = k /\ \A n \in 1 .. k : p[n] = h[s[n]]
    BY <1>0
  <1>3. q \in Seq(C) /\ Len(q) = m /\ \A n \in 1 .. m : q[n] = h[t[n]]
    BY <1>0
  <1>4. r \in Seq(C) /\ Len(r) = k + m /\ \A n \in 1 .. k + m : r[n] = h[c[n]]
    <2> HIDE DEF Map, c
    <2> QED BY <1>0, <1>1
  <1>5. ConcatMap(h, s) = FlattenSeq(p) /\ ConcatMap(h, t) = FlattenSeq(q)
          /\ ConcatMap(h, c) = FlattenSeq(r)
    BY DEF ConcatMap
  <1> HIDE DEF c, C, p, q, r, k, m
  <1>6. /\ p \o q \in Seq(C) /\ Len(p \o q) = k + m
        /\ \A n \in 1 .. k + m : (p \o q)[n] = IF n <= k THEN p[n] ELSE q[n - k]
    <2>1. /\ p \o q \in Seq(C) /\ Len(p \o q) = Len(p) + Len(q)
          /\ \A n \in 1 .. Len(p) + Len(q) : (p \o q)[n] = IF n <= Len(p) THEN p[n] ELSE q[n - Len(p)]
      BY <1>2, <1>3, ConcatProperties
    <2> QED BY <1>2, <1>3, <2>1
  <1>7. \A n \in 1 .. k + m : r[n] = (p \o q)[n]
    <2>1. ASSUME NEW n \in 1 .. k + m, n <= k PROVE r[n] = (p \o q)[n]
      <3>1. n \in 1 .. k
        BY <1>1, <2>1
      <3>2. r[n] = h[s[n]] /\ p[n] = h[s[n]]
        BY <1>1, <1>2, <1>4, <2>1, <3>1
      <3>3. (p \o q)[n] = p[n]
        BY <1>6, <2>1
      <3> QED BY <3>2, <3>3
    <2>2. ASSUME NEW n \in 1 .. k + m, ~ (n <= k) PROVE r[n] = (p \o q)[n]
      <3>1. n - k \in 1 .. m
        BY <1>1, <2>2
      <3> QED BY <1>1, <1>3, <1>4, <1>6, <2>2, <3>1
    <2> QED BY <2>1, <2>2
  <1>8. r = p \o q
    <2> DEFINE d == p \o q
    <2>1. d \in Seq(C) /\ Len(d) = k + m /\ \A n \in 1 .. k + m : r[n] = d[n]
      BY <1>6, <1>7
    <2> HIDE DEF d
    <2>2. r = d
      BY <1>4, <2>1, SeqEqual
    <2> QED BY <2>2 DEF d
  <1>9. FlattenSeq(p \o q) = FlattenSeq(p) \o FlattenSeq(q) /\ FlattenSeq(p) \in Seq(U)
    BY <1>2, <1>3, FlattenConcat, FlattenType DEF C
  <1>10. ConcatMap(h, <<>>) = <<>>
    <2>1. <<>> \in Seq(U) /\ [n \in DOMAIN <<>> |-> h[<<>>[n]]] = <<>>
      OBVIOUS
    <2>2. FlattenSeq(<<>>) = <<>>
      BY <2>1, FlattenFew
    <2> QED BY <2>1, <2>2 DEF ConcatMap
  <1>11. ASSUME NEW e \in E PROVE ConcatMap(h, <<e>>) = h[e]
    <2>1. h[e] \in Seq(U)
      BY DEF SeqMaps
    <2>2. [n \in DOMAIN <<e>> |-> h[<<e>>[n]]] = <<h[e]>>
      OBVIOUS
    <2>3. FlattenSeq(<<h[e]>>) = h[e]
      BY <2>1, FlattenFew
    <2> QED BY <2>2, <2>3 DEF ConcatMap
  <1> QED BY <1>5, <1>8, <1>9, <1>10, <1>11 DEF c

-----------------------------------------------------------------------------
(* Messages, and the parts that they are cut into.                         *)

CodeUnit == {"one", "two", "three", "high", "low"}

LEMMA Limits ==
  /\ MaxMessage \in Nat /\ MaxMessage >= 4
  /\ Overhead \in Nat /\ MaxBatch \in Nat
  /\ MaxMessage + Overhead <= MaxBatch
  BY ConstantsAssumption DEF ConstantsAssumption

LEMMA MessageIs ==
  ASSUME NEW e \in 1 .. Len(Messages)
  PROVE  /\ e \in DOMAIN Messages
         /\ Messages[e] \in Seq(CodeUnit)
         /\ Len(Messages[e]) \in Nat /\ Len(Messages[e]) >= 1
         /\ DOMAIN Messages[e] = 1 .. Len(Messages[e])
         /\ \A n \in 1 .. Len(Messages[e]) : Messages[e][n] \in CodeUnit
  <1>1. e \in DOMAIN Messages /\ Messages[e] \in Seq(CodeUnit) \ {<<>>}
    BY ConstantsAssumption DEF ConstantsAssumption, CodeUnit
  <1> DEFINE s == Messages[e]
  <1> HIDE DEF s
  <1>2. s \in Seq(CodeUnit) /\ s # <<>>
    BY <1>1 DEF s
  <1>3. Len(s) \in Nat /\ Len(s) >= 1 /\ DOMAIN s = 1 .. Len(s)
          /\ \A n \in 1 .. Len(s) : s[n] \in CodeUnit
    BY <1>2
  <1> QED BY <1>1, <1>3 DEF s

LEMMA CountedIs ==
  ASSUME NEW e \in 1 .. Len(Messages)
  PROVE  /\ Counted[e] \in [0 .. Len(Messages[e]) -> Nat]
         /\ Counted[e][0] = 0
         /\ \A n \in 1 .. Len(Messages[e]) :
              /\ CodePointLength[Messages[e][n]] \in 1 .. 4
              /\ Counted[e][n] = Counted[e][n - 1] + CodePointLength[Messages[e][n]]
         /\ \A i \in 0 .. Len(Messages[e]) : \A n \in i .. Len(Messages[e]) :
              Counted[e][i] <= Counted[e][n]
  <1> DEFINE m == Len(Messages[e])
             s == [n \in DOMAIN Messages[e] |-> CodePointLength[Messages[e][n]]]
  <1>1. m \in Nat /\ DOMAIN Messages[e] = 1 .. m /\ \A n \in 1 .. m : Messages[e][n] \in CodeUnit
    BY MessageIs
  <1>2. \A u \in CodeUnit : CodePointLength[u] \in 1 .. 4
    BY DEF CodeUnit, CodePointLength
  <1>3. Counted[e] = Sums(s)
    BY MessageIs DEF Counted
  <1> HIDE DEF m
  <1>4. \A n \in 1 .. m : s[n] = CodePointLength[Messages[e][n]] /\ s[n] \in 1 .. 4
    BY <1>1, <1>2
  <1>5. s \in Seq(Nat) /\ Len(s) = m
    <2>1. s \in [1 .. m -> Nat]
      BY <1>1, <1>4
    <2> QED BY <1>1, <2>1
  <1> HIDE DEF s
  <1>6. /\ Sums(s) \in [0 .. m -> Nat] /\ Sums(s)[0] = 0
        /\ \A n \in 1 .. m : Sums(s)[n] = Sums(s)[n - 1] + s[n]
    BY <1>5, SumsStep
  <1>7. \A i \in 0 .. m : \A n \in i .. m : Sums(s)[i] <= Sums(s)[n]
    BY <1>5, SumsGrow
  <1> QED BY <1>3, <1>4, <1>6, <1>7 DEF m

(* A part is never empty: byteSubString takes a code unit at least.        *)
LEMMA PartEnds ==
  ASSUME NEW e \in 1 .. Len(Messages), NEW i \in Nat, i < Len(Messages[e])
  PROVE  /\ ByteSubString(e, i) \in i + 1 .. Len(Messages[e])
         /\ Counted[e][ByteSubString(e, i)] - Counted[e][i] \in 1 .. MaxMessage
  <1> DEFINE m == Len(Messages[e])
             f == Counted[e]
             T == {n \in i .. m : f[n] - f[i] <= MaxMessage}
             T1 == {k \in Nat : m - k \in T}
             b == ByteSubString(e, i)
  <1>1. m \in Nat /\ i \in 0 .. m /\ i + 1 \in 1 .. m /\ (i + 1) - 1 = i
    BY MessageIs
  <1>2. /\ f \in [0 .. m -> Nat]
        /\ f[i + 1] - f[i] \in 1 .. 4
    <2>1. CodePointLength[Messages[e][i + 1]] \in 1 .. 4
             /\ f[i + 1] = f[i] + CodePointLength[Messages[e][i + 1]]
      BY <1>1, CountedIs
    <2>2. f \in [0 .. m -> Nat] /\ f[i] \in Nat
      BY <1>1, CountedIs
    <2> QED BY <2>1, <2>2
  <1>3. \A n \in i + 1 .. m : f[i + 1] <= f[n]
    BY <1>1, CountedIs
  <1>4. MaxMessage \in Nat /\ MaxMessage >= 4
    BY ConstantsAssumption DEF ConstantsAssumption
  <1>5. b = Max(T)
    BY DEF ByteSubString
  <1> HIDE DEF m, f, b
  <1>6. m - (i + 1) \in T1
    <2>1. m - (m - (i + 1)) = i + 1 /\ m - (i + 1) \in Nat /\ i + 1 \in i .. m
      BY <1>1
    <2> QED BY <1>2, <1>4, <2>1
  <1>7. PICK k \in T1 : \A j \in T1 : k <= j
    <2> HIDE DEF T1
    <2>1. T1 \subseteq Nat
      BY DEF T1
    <2> QED BY <1>6, <2>1, LeastExists
  <1>8. m - k \in T /\ \A n \in T : m - k >= n
    <2>1. ASSUME NEW n \in T PROVE m - k >= n
      <3>1. m - n \in Nat /\ m - (m - n) = n
        BY <1>1
      <3>2. m - n \in T1
        BY <3>1
      <3> HIDE DEF T1
      <3>3. k <= m - n /\ k \in Nat
        BY <1>7, <3>2 DEF T1
      <3> QED BY <1>1, <3>3
    <2> QED BY <1>7, <2>1
  <1>9. b \in T /\ \A n \in T : b >= n
    <2> HIDE DEF T
    <2> QED BY <1>5, <1>8 DEF Max
  <1>10. i + 1 \in T
    BY <1>1, <1>2, <1>4
  <1>11. b \in i + 1 .. m
    BY <1>1, <1>9, <1>10
  <1>12. f[i + 1] <= f[b] /\ f[b] \in Nat /\ f[i] \in Nat /\ f[i + 1] \in Nat
    BY <1>1, <1>2, <1>3, <1>11
  <1>13. f[b] - f[i] <= MaxMessage
    BY <1>9
  <1>14. f[b] - f[i] \in 1 .. MaxMessage
    <2> DEFINE x == f[i]
               y == f[i + 1]
               z == f[b]
    <2>1. x \in Nat /\ y \in Nat /\ z \in Nat /\ y - x \in 1 .. 4 /\ y <= z /\ z - x <= MaxMessage
      BY <1>2, <1>12, <1>13
    <2> HIDE DEF x, y, z
    <2>2. z - x \in 1 .. MaxMessage
      BY <1>4, <2>1
    <2> QED BY <2>2 DEF x, z
  <1> QED BY <1>11, <1>14 DEF b, m, f

(* A part of a message, with the bytes that byteSubString counted for it.  *)
GoodChunk ==
  {c \in Chunk : /\ c.from <= c.to /\ c.to <= Len(Messages[c.event])
                 /\ c.byteLength = Counted[c.event][c.to] - Counted[c.event][c.from - 1]
                                    + Overhead}

Before(c, d) == \/ c.event < d.event
                \/ c.event = d.event /\ c.to < d.from

Ordered(s) == \A i, j \in DOMAIN s : i < j => Before(s[i], s[j])

LEMMA PartGood ==
  ASSUME NEW e \in 1 .. Len(Messages), NEW i \in Nat, i < Len(Messages[e])
  PROVE  Part(e, i, ByteSubString(e, i)) \in GoodChunk
  <1> DEFINE b == ByteSubString(e, i)
             m == Len(Messages[e])
             d == Counted[e][b] - Counted[e][i]
             c == Part(e, i, b)
  <1>1. b \in i + 1 .. m /\ d \in 1 .. MaxMessage /\ m \in Nat
    BY PartEnds, MessageIs
  <1>2. MaxMessage \in Nat /\ Overhead \in Nat
    BY ConstantsAssumption DEF ConstantsAssumption
  <1> HIDE DEF b, m
  <1>3. c = [event |-> e, from |-> i + 1, to |-> b, byteLength |-> d + Overhead]
    BY DEF Part
  <1>4. c.event = e /\ c.from = i + 1 /\ c.to = b /\ c.byteLength = d + Overhead
    BY <1>3
  <1> HIDE DEF d
  <1>5. i + 1 \in Nat \ {0} /\ b \in Nat \ {0} /\ i + 1 <= b /\ b <= m /\ (i + 1) - 1 = i
    BY <1>1
  <1>6. d + Overhead \in Overhead + 1 .. Overhead + MaxMessage
    BY <1>1, <1>2
  <1>7. c \in Chunk
    BY <1>3, <1>5, <1>6 DEF Chunk
  <1>8. c.from - 1 = i
    BY <1>4, <1>5
  <1>9. c.byteLength = Counted[c.event][c.to] - Counted[c.event][c.from - 1] + Overhead
    BY <1>4, <1>8 DEF d
  <1> HIDE DEF c
  <1>10. c.from <= c.to /\ c.to <= Len(Messages[c.event])
    BY <1>4, <1>5 DEF m
  <1>11. c \in GoodChunk
    BY <1>7, <1>9, <1>10 DEF GoodChunk
  <1> QED BY <1>11 DEF c, b

LEMMA GoodChunkIs ==
  ASSUME NEW c \in GoodChunk
  PROVE  /\ c.event \in 1 .. Len(Messages)
         /\ c.from \in Nat \ {0} /\ c.to \in Nat \ {0} /\ c.from <= c.to
         /\ c.to <= Len(Messages[c.event])
         /\ c.byteLength \in Nat /\ c.byteLength <= MaxMessage + Overhead
         /\ c.byteLength = Counted[c.event][c.to] - Counted[c.event][c.from - 1] + Overhead
  <1>1. MaxMessage \in Nat /\ Overhead \in Nat
    BY ConstantsAssumption DEF ConstantsAssumption
  <1>2. c \in Chunk /\ c.from <= c.to /\ c.to <= Len(Messages[c.event])
         /\ c.byteLength = Counted[c.event][c.to] - Counted[c.event][c.from - 1] + Overhead
    BY DEF GoodChunk
  <1>3. /\ c.event \in 1 .. Len(Messages) /\ c.from \in Nat \ {0} /\ c.to \in Nat \ {0}
        /\ c.byteLength \in Overhead + 1 .. Overhead + MaxMessage
    BY <1>2 DEF Chunk
  <1>4. c.byteLength \in Nat /\ c.byteLength <= MaxMessage + Overhead
    <2> DEFINE x == c.byteLength
    <2>1. x \in Overhead + 1 .. Overhead + MaxMessage
      BY <1>3
    <2> HIDE DEF x
    <2>2. x \in Nat /\ x <= MaxMessage + Overhead
      BY <1>1, <2>1
    <2> QED BY <2>2 DEF x
  <1> QED BY <1>2, <1>3, <1>4

-----------------------------------------------------------------------------
(* The text of chunks.                                                     *)

CodeUnits == Nat \X Nat

LEMMA UnitsType ==
  ASSUME NEW e, NEW i \in Nat, NEW n \in Nat, i <= n
  PROVE  Units(e, i, n) \in Seq({e} \X Nat) /\ Len(Units(e, i, n)) = n - i
  <1> DEFINE m == n - i
             u == [k \in 1 .. m |-> <<e, i + k>>]
  <1>1. m \in Nat
    OBVIOUS
  <1> HIDE DEF m
  <1>2. \A k \in 1 .. m : <<e, i + k>> \in {e} \X Nat
    <2>1. \A k \in 1 .. m : i + k \in Nat
      BY <1>1
    <2> QED BY <2>1
  <1>3. u \in [1 .. m -> {e} \X Nat]
    BY <1>2
  <1> HIDE DEF u
  <1>4. u \in Seq({e} \X Nat) /\ Len(u) = m
    BY <1>1, <1>3
  <1> QED BY <1>4 DEF Units, u, m

LEMMA UnitsConcat ==
  ASSUME NEW e, NEW i \in Nat, NEW n \in Nat, NEW m \in Nat, i <= n, n <= m
  PROVE  Units(e, i, m) = Units(e, i, n) \o Units(e, n, m)
  <1> DEFINE U == {e} \X Nat
             a == Units(e, i, n)
             b == Units(e, n, m)
             c == Units(e, i, m)
  <1>1. a \in Seq(U) /\ Len(a) = n - i /\ b \in Seq(U) /\ Len(b) = m - n
          /\ c \in Seq(U) /\ Len(c) = m - i
    <2>1. i <= m
      OBVIOUS
    <2> QED BY <2>1, UnitsType
  <1>2. /\ \A k \in 1 .. n - i : a[k] = <<e, i + k>>
        /\ \A k \in 1 .. m - n : b[k] = <<e, n + k>>
        /\ \A k \in 1 .. m - i : c[k] = <<e, i + k>>
    BY DEF Units
  <1> HIDE DEF U, a, b, c
  <1> DEFINE d == a \o b
  <1>3. d \in Seq(U) /\ Len(d) = m - i
    <2>1. Len(d) = (n - i) + (m - n) /\ d \in Seq(U)
      BY <1>1, ConcatProperties
    <2> QED BY <2>1
  <1>4. ASSUME NEW k \in 1 .. m - i PROVE d[k] = c[k]
    <2>1. CASE k <= n - i
      <3>1. k \in 1 .. n - i /\ k \in 1 .. (n - i) + (m - n)
        BY <2>1
      <3>2. d[k] = a[k]
        BY <1>1, <2>1, <3>1, ConcatProperties
      <3> QED BY <1>2, <3>1, <3>2
    <2>2. CASE ~ (k <= n - i)
      <3>1. k - (n - i) \in 1 .. m - n /\ k \in 1 .. (n - i) + (m - n) /\ n + (k - (n - i)) = i + k
        BY <2>2
      <3>2. d[k] = b[k - (n - i)]
        <4>1. \A j \in 1 .. Len(a) + Len(b) : d[j] = IF j <= Len(a) THEN a[j] ELSE b[j - Len(a)]
          BY <1>1, ConcatProperties
        <4>2. k \in 1 .. Len(a) + Len(b) /\ ~ (k <= Len(a)) /\ k - Len(a) = k - (n - i)
          BY <1>1, <2>2, <3>1
        <4> QED BY <4>1, <4>2
      <3>3. b[k - (n - i)] = <<e, n + (k - (n - i))>>
        BY <1>2, <3>1
      <3> QED BY <1>2, <3>1, <3>2, <3>3
    <2> QED BY <2>1, <2>2
  <1> HIDE DEF d
  <1>5. d = c
    BY <1>1, <1>3, <1>4, SeqEqual
  <1> QED BY <1>5 DEF a, b, c, d

TextMap == [c \in GoodChunk |-> Units(c.event, c.from - 1, c.to)]

LEMMA TextMapType == TextMap \in SeqMaps(GoodChunk, CodeUnits)
  <1>1. ASSUME NEW c \in GoodChunk
        PROVE  Units(c.event, c.from - 1, c.to) \in Seq(CodeUnits)
    <2>1. /\ c.event \in Nat /\ c.from - 1 \in Nat /\ c.to \in Nat
          /\ c.from - 1 <= c.to
      BY GoodChunkIs
    <2>2. Units(c.event, c.from - 1, c.to) \in Seq({c.event} \X Nat)
      BY <2>1, UnitsType
    <2>3. {c.event} \X Nat \subseteq CodeUnits
      BY <2>1 DEF CodeUnits
    <2> QED BY <2>2, <2>3, SeqMonotonic
  <1> QED BY <1>1 DEF TextMap, SeqMaps

LEMMA TextIs ==
  ASSUME NEW s \in Seq(GoodChunk)
  PROVE  Text(s) = ConcatMap(TextMap, s)
  <1>1. \A k \in DOMAIN s : s[k] \in GoodChunk
    OBVIOUS
  <1>2. \A k \in DOMAIN s :
          TextMap[s[k]] = Units(s[k].event, s[k].from - 1, s[k].to)
    BY <1>1 DEF TextMap
  <1>3. [k \in DOMAIN s |-> TextMap[s[k]]]
          = [k \in DOMAIN s |-> Units(s[k].event, s[k].from - 1, s[k].to)]
    BY <1>2
  <1> QED BY <1>3 DEF Text, ConcatMap

LEMMA TextConcat ==
  ASSUME NEW s \in Seq(GoodChunk), NEW t \in Seq(GoodChunk)
  PROVE  /\ Text(s) \in Seq(CodeUnits)
         /\ Text(s \o t) = Text(s) \o Text(t)
         /\ Text(<<>>) = <<>>
         /\ \A c \in GoodChunk : Text(<<c>>) = Units(c.event, c.from - 1, c.to)
  <1>1. s \o t \in Seq(GoodChunk) /\ <<>> \in Seq(GoodChunk)
          /\ \A c \in GoodChunk : <<c>> \in Seq(GoodChunk)
    BY ConcatProperties
  <1>2. /\ ConcatMap(TextMap, s) \in Seq(CodeUnits)
        /\ ConcatMap(TextMap, s \o t) = ConcatMap(TextMap, s) \o ConcatMap(TextMap, t)
        /\ ConcatMap(TextMap, <<>>) = <<>>
        /\ \A c \in GoodChunk : ConcatMap(TextMap, <<c>>) = TextMap[c]
    BY TextMapType, ConcatMapIs
  <1>3. \A c \in GoodChunk : TextMap[c] = Units(c.event, c.from - 1, c.to)
    BY DEF TextMap
  <1>4. /\ Text(s) = ConcatMap(TextMap, s) /\ Text(t) = ConcatMap(TextMap, t)
        /\ Text(s \o t) = ConcatMap(TextMap, s \o t) /\ Text(<<>>) = ConcatMap(TextMap, <<>>)
        /\ \A c \in GoodChunk : Text(<<c>>) = ConcatMap(TextMap, <<c>>)
    BY <1>1, TextIs
  <1> QED BY <1>2, <1>3, <1>4

-----------------------------------------------------------------------------
(* The parts of a message.                                                 *)

(* What the parts from code unit i on can be.                              *)
Rests(e, i) ==
  {s \in Seq(GoodChunk) :
     /\ \A k \in DOMAIN s : s[k].event = e /\ i < s[k].from
     /\ Ordered(s)
     /\ Text(s) = Units(e, i, Len(Messages[e]))}

IsBackwards(f, m, next, first) ==
  f = [i \in 0 .. m |-> IF i = m THEN <<>> ELSE first[i] \o f[next[i]]]

LEMMA BackwardsExists ==
  ASSUME NEW m \in Nat, NEW next, \A i \in 0 .. m - 1 : next[i] \in i + 1 .. m, NEW first
  PROVE  \E f : IsBackwards(f, m, next, first)
  <1> DEFINE Until(k, f) ==
               f = [i \in m - k .. m |-> IF i = m THEN <<>> ELSE first[i] \o f[next[i]]]
             T == {k \in Nat : k <= m => \E f : Until(k, f)}
  <1>1. 0 \in T
    <2> DEFINE f == [i \in m - 0 .. m |-> <<>>]
    <2>1. \A i \in m - 0 .. m : i = m
      OBVIOUS
    <2>2. Until(0, f)
      BY <2>1
    <2> QED BY <2>2
  <1> HIDE DEF T
  <1>2. ASSUME NEW k \in Nat, k + 1 <= m, NEW f, Until(k, f) PROVE \E g : Until(k + 1, g)
    <2>1. k + 1 <= m /\ f = [i \in m - k .. m |-> IF i = m THEN <<>> ELSE first[i] \o f[next[i]]]
      BY <1>2
    <2> HIDE DEF Until
    <2> DEFINE n == m - (k + 1)
               g == [i \in n .. m |-> IF i = n THEN first[n] \o f[next[n]] ELSE f[i]]
    <2>2. n \in 0 .. m - 1 /\ m - k = n + 1
      <3>1. k + 1 <= m
        BY <2>1
      <3> QED BY <3>1
    <2>3. \A i \in n + 1 .. m : f[i] = IF i = m THEN <<>> ELSE first[i] \o f[next[i]]
      BY <2>1, <2>2
    <2> HIDE DEF n
    <2>4. \A i \in n + 1 .. m : g[i] = f[i]
      BY <2>2
    <2>5. g[n] = first[n] \o f[next[n]]
      <3>1. n \in n .. m
        BY <2>2
      <3> QED BY <3>1, Zenon
    <2>6. \A i \in n .. m : i # m => next[i] \in n + 1 .. m
      <3>1. \A i \in n .. m : i # m => i \in 0 .. m - 1 /\ i + 1 >= n + 1
        BY <2>2
      <3> QED BY <2>2, <3>1
    <2> DEFINE h == [i \in n .. m |-> IF i = m THEN <<>> ELSE first[i] \o g[next[i]]]
    <2>7. ASSUME NEW i \in n .. m PROVE g[i] = h[i]
      <3>0. h[i] = IF i = m THEN <<>> ELSE first[i] \o g[next[i]]
        OBVIOUS
      <3> HIDE DEF g, h
      <3>1. CASE i = n
        <4>1. i # m /\ g[next[i]] = f[next[i]]
          BY <2>2, <2>4, <2>6, <3>1
        <4> QED BY <2>5, <3>0, <3>1, <4>1
      <3>2. CASE i # n
        <4>1. i \in n + 1 .. m
          BY <2>2, <3>2
        <4>2. g[i] = f[i]
          BY <2>4, <4>1
        <4>3. CASE i = m
          BY <2>3, <3>0, <4>1, <4>2, <4>3
        <4>4. CASE i # m
          <5>1. g[next[i]] = f[next[i]]
            BY <2>4, <2>6, <4>4
          <5> QED BY <2>3, <3>0, <4>1, <4>2, <4>4, <5>1
        <4> QED BY <4>3, <4>4
      <3> QED BY <3>1, <3>2
    <2>8. g = h
      BY <2>7
    <2>9. Until(k + 1, g)
      BY <2>8 DEF n, Until
    <2> QED BY <2>9
  <1> HIDE DEF Until
  <1>3. \A k \in Nat : k \in T => k + 1 \in T
    <2>1. ASSUME NEW k \in Nat, k \in T, k + 1 <= m PROVE \E g : Until(k + 1, g)
      <3>1. k <= m
        BY <2>1
      <3>2. PICK f : Until(k, f)
        BY <2>1, <3>1 DEF T
      <3> QED BY <1>2, <2>1, <3>2
    <2> QED BY <2>1 DEF T
  <1>4. m \in T
    BY <1>1, <1>3, Induction
  <1>5. PICK f : Until(m, f)
    <2>1. m <= m
      OBVIOUS
    <2> QED BY <1>4, <2>1 DEF T
  <1>6. m - m = 0
    OBVIOUS
  <1> QED BY <1>5, <1>6 DEF Until, IsBackwards

LEMMA RestLonger ==
  ASSUME NEW e \in 1 .. Len(Messages), NEW i \in Nat, i < Len(Messages[e]),
         NEW s \in Rests(e, ByteSubString(e, i))
  PROVE  <<Part(e, i, ByteSubString(e, i))>> \o s \in Rests(e, i)
  <1> DEFINE b == ByteSubString(e, i)
             m == Len(Messages[e])
             p == Part(e, i, b)
             a == <<p>>
             t == a \o s
  <1>1. b \in i + 1 .. m /\ m \in Nat /\ p \in GoodChunk
    BY PartEnds, PartGood, MessageIs
  <1>2. p.event = e /\ p.from = i + 1 /\ p.to = b
    BY DEF Part
  <1>3. /\ s \in Seq(GoodChunk) /\ Ordered(s) /\ Text(s) = Units(e, b, m)
        /\ \A k \in DOMAIN s : s[k].event = e /\ b < s[k].from
    BY DEF Rests
  <1> HIDE DEF b, m, p
  <1>4. a \in Seq(GoodChunk) /\ Len(a) = 1 /\ a[1] = p
    BY <1>1
  <1> HIDE DEF a
  <1>5. /\ t \in Seq(GoodChunk) /\ Len(t) = 1 + Len(s) /\ Len(s) \in Nat
        /\ \A k \in 1 .. 1 + Len(s) : t[k] = IF k <= 1 THEN a[k] ELSE s[k - 1]
    <2>1. /\ t \in Seq(GoodChunk) /\ Len(t) = Len(a) + Len(s)
          /\ \A k \in 1 .. Len(a) + Len(s) : t[k] = IF k <= Len(a) THEN a[k] ELSE s[k - Len(a)]
      BY <1>3, <1>4, ConcatProperties
    <2>2. Len(s) \in Nat
      BY <1>3
    <2> HIDE DEF t
    <2> QED BY <1>4, <2>1, <2>2
  <1>6. t[1] = p /\ \A k \in 2 .. Len(t) : t[k] = s[k - 1] /\ k - 1 \in DOMAIN s
    <2>1. 1 \in 1 .. 1 + Len(s) /\ DOMAIN s = 1 .. Len(s)
      BY <1>3, <1>5
    <2>2. \A k \in 2 .. 1 + Len(s) : k \in 1 .. 1 + Len(s) /\ ~ (k <= 1) /\ k - 1 \in 1 .. Len(s)
      BY <1>5
    <2> QED BY <1>4, <1>5, <2>1, <2>2
  <1>7. DOMAIN t = 1 .. Len(t) /\ \A k \in DOMAIN t : k = 1 \/ k \in 2 .. Len(t)
    <2>1. DOMAIN t = 1 .. Len(t)
      BY <1>5
    <2> QED BY <1>5, <2>1
  <1> HIDE DEF t
  <1>8. ASSUME NEW k \in DOMAIN t PROVE t[k].event = e /\ i < t[k].from
    <2>1. CASE k = 1
      BY <1>2, <1>6, <2>1
    <2>2. CASE k \in 2 .. Len(t)
      <3>1. t[k] \in GoodChunk /\ t[k].event = e /\ b < t[k].from
        BY <1>3, <1>5, <1>6, <2>2
      <3>2. t[k].from \in Nat
        BY <3>1, GoodChunkIs
      <3> QED BY <1>1, <3>1, <3>2
    <2> QED BY <1>7, <2>1, <2>2
  <1>9. ASSUME NEW j \in DOMAIN t, NEW k \in DOMAIN t, j < k PROVE Before(t[j], t[k])
    <2>1. k \in 2 .. Len(t) /\ k - 1 \in DOMAIN s /\ t[k] = s[k - 1]
      BY <1>5, <1>6, <1>7, <1>9
    <2>2. CASE j = 1
      BY <1>2, <1>3, <1>6, <2>1, <2>2 DEF Before
    <2>3. CASE j \in 2 .. Len(t)
      <3>1. j - 1 \in DOMAIN s /\ t[j] = s[j - 1] /\ j - 1 < k - 1
        BY <1>6, <1>9, <2>1, <2>3
      <3> QED BY <1>3, <2>1, <3>1 DEF Ordered
    <2> QED BY <1>7, <2>2, <2>3
  <1>10. Text(t) = Units(e, i, m)
    <2>1. Text(t) = Text(a) \o Text(s)
      BY <1>3, <1>4, TextConcat DEF t
    <2>2. Text(a) = Units(e, i, b)
      <3>1. Text(<<p>>) = Units(p.event, p.from - 1, p.to)
        BY <1>1, <1>3, TextConcat
      <3>2. (i + 1) - 1 = i
        BY <1>1
      <3> QED BY <1>2, <3>1, <3>2 DEF a
    <2>3. Units(e, i, m) = Units(e, i, b) \o Units(e, b, m)
      <3>1. b \in Nat /\ i <= b /\ b <= m
        BY <1>1
      <3> QED BY <1>1, <3>1, UnitsConcat
    <2> QED BY <1>3, <2>1, <2>2, <2>3
  <1>11. t \in Rests(e, i)
    BY <1>5, <1>8, <1>9, <1>10 DEF Rests, Ordered, m
  <1> QED BY <1>11 DEF t, a, p, b

LEMMA PartsAre ==
  ASSUME NEW e \in 1 .. Len(Messages)
  PROVE  Parts(e) \in Rests(e, 0)
  <1> DEFINE m == Len(Messages[e])
             next == [i \in 0 .. m |-> ByteSubString(e, i)]
             first == [i \in 0 .. m |-> <<Part(e, i, ByteSubString(e, i))>>]
             Rest(f) == f = [i \in 0 .. m |-> IF i = m THEN <<>>
                                              ELSE <<Part(e, i, ByteSubString(e, i))>>
                                                     \o f[ByteSubString(e, i)]]
             rest == CHOOSE f : Rest(f)
  <1>1. m \in Nat /\ \A i \in 0 .. m - 1 : next[i] \in i + 1 .. m
    <2>1. m \in Nat
      BY MessageIs
    <2>2. ASSUME NEW i \in 0 .. m - 1 PROVE next[i] \in i + 1 .. m
      <3>1. i \in Nat /\ i < m /\ i \in 0 .. m
        BY <2>1
      <3> QED BY <3>1, PartEnds
    <2> QED BY <2>1, <2>2
  <1>2. \E f : Rest(f)
    <2>1. PICK f : IsBackwards(f, m, next, first)
      <3> HIDE DEF m, next, first
      <3> QED BY <1>1, BackwardsExists
    <2>2. \A i \in 0 .. m : /\ first[i] = <<Part(e, i, ByteSubString(e, i))>>
                            /\ next[i] = ByteSubString(e, i)
      OBVIOUS
    <2> HIDE DEF m, next, first
    <2>3. Rest(f)
      BY <2>1, <2>2 DEF IsBackwards
    <2> QED BY <2>3
  <1>3. Rest(rest)
    <2> HIDE DEF Rest
    <2> QED BY <1>2
  <1>4. Parts(e) = rest[0]
    BY DEF Parts
  <1> HIDE DEF rest
  <1>5. rest[m] = <<>>
    <2>1. m \in 0 .. m
      BY <1>1
    <2> QED BY <1>3, <2>1, Zenon
  <1>6. \A i \in 0 .. m : i # m =>
          rest[i] = <<Part(e, i, ByteSubString(e, i))>> \o rest[ByteSubString(e, i)]
    BY <1>3, Zenon
  <1> HIDE DEF Rest
  <1> DEFINE T == {k \in Nat : k <= m => \A i \in m - k .. m : rest[i] \in Rests(e, i)}
  <1>7. <<>> \in Rests(e, m)
    <2>1. <<>> \in Seq(GoodChunk) /\ Ordered(<<>>) /\ DOMAIN <<>> = {}
      BY DEF Ordered
    <2>3. Text(<<>>) = <<>>
      BY <2>1, TextConcat
    <2>4. Units(e, m, m) = <<>>
      <3>1. m - m = 0
        BY <1>1
      <3> QED BY <3>1 DEF Units
    <2> QED BY <2>1, <2>3, <2>4 DEF Rests
  <1>8. 0 \in T
    <2>1. \A i \in m - 0 .. m : i = m
      BY <1>1
    <2> QED BY <1>5, <1>7, <2>1
  <1>9. ASSUME NEW k \in Nat, k + 1 <= m, \A i \in m - k .. m : rest[i] \in Rests(e, i),
               NEW i \in m - (k + 1) .. m
        PROVE  rest[i] \in Rests(e, i)
    <2>1. CASE i \in m - k .. m
      BY <1>9, <2>1
    <2>2. CASE i \notin m - k .. m
      <3>1. i \in 0 .. m - 1 /\ i \in 0 .. m /\ i \in Nat /\ i < m /\ i # m /\ i + 1 = m - k
        BY <1>1, <1>9, <2>2
      <3> DEFINE b == ByteSubString(e, i)
      <3>2. b \in m - k .. m
        BY <3>1, PartEnds
      <3> HIDE DEF b
      <3>3. rest[b] \in Rests(e, b)
        BY <1>9, <3>2
      <3>4. <<Part(e, i, b)>> \o rest[b] \in Rests(e, i)
        BY <3>1, <3>3, RestLonger DEF b
      <3> QED BY <1>6, <3>1, <3>4 DEF b
    <2> QED BY <2>1, <2>2
  <1>10. \A k \in Nat : k \in T => k + 1 \in T
    <2>1. \A k \in Nat : k + 1 <= m => k <= m
      BY <1>1
    <2> QED BY <1>9, <2>1
  <1> HIDE DEF T
  <1>11. m \in T
    BY <1>1, <1>8, <1>10, Induction
  <1>12. 0 \in m - m .. m /\ m <= m
    BY <1>1
  <1> QED BY <1>4, <1>11, <1>12 DEF T

-----------------------------------------------------------------------------
(* The chunks of events.                                                   *)

Events == 1 .. Len(Messages)

LEMMA ChunksIs ==
  /\ Chunks \in SeqMaps(Events, GoodChunk)
  /\ \A e \in Events :
       /\ Chunks[e] \in Seq(GoodChunk) /\ Chunks[e] # <<>> /\ Ordered(Chunks[e])
       /\ \A k \in DOMAIN Chunks[e] : Chunks[e][k].event = e
       /\ Text(Chunks[e]) = Units(e, 0, Len(Messages[e]))
  <1>1. ASSUME NEW e \in Events
        PROVE  /\ Chunks[e] \in Seq(GoodChunk) /\ Chunks[e] # <<>> /\ Ordered(Chunks[e])
               /\ \A k \in DOMAIN Chunks[e] : Chunks[e][k].event = e
               /\ Text(Chunks[e]) = Units(e, 0, Len(Messages[e]))
    <2> DEFINE s == Parts(e)
    <2>1. Chunks[e] = s
      BY MessageIs DEF Chunks, Events
    <2>2. s \in Rests(e, 0)
      BY PartsAre DEF Events
    <2> HIDE DEF s
    <2>3. /\ s \in Seq(GoodChunk) /\ Ordered(s) /\ \A k \in DOMAIN s : s[k].event = e
          /\ Text(s) = Units(e, 0, Len(Messages[e]))
      BY <2>2 DEF Rests
    <2>4. s # <<>>
      <3>1. Len(Messages[e]) \in Nat /\ Len(Messages[e]) >= 1
        BY MessageIs DEF Events
      <3>2. Len(Units(e, 0, Len(Messages[e]))) = Len(Messages[e])
        <4> DEFINE m == Len(Messages[e])
        <4>1. m \in Nat /\ 0 \in Nat /\ 0 <= m
          BY <3>1
        <4> HIDE DEF m
        <4>2. Len(Units(e, 0, m)) = m - 0
          BY <4>1, UnitsType
        <4>3. Len(Units(e, 0, m)) = m
          BY <4>1, <4>2
        <4> QED BY <4>3 DEF m
      <3>3. Text(<<>>) = <<>> /\ Len(<<>>) = 0
        BY <2>3, TextConcat
      <3> QED BY <2>3, <3>1, <3>2, <3>3
    <2> QED BY <2>1, <2>3, <2>4
  <1>2. DOMAIN Chunks = Events /\ Chunks = [e \in DOMAIN Chunks |-> Chunks[e]]
    BY ConstantsAssumption DEF ConstantsAssumption, Chunks, Events
  <1>3. Chunks \in [Events -> Seq(GoodChunk)]
    BY <1>1, <1>2
  <1> QED BY <1>1, <1>3 DEF SeqMaps

LEMMA AllChunksIs ==
  ASSUME NEW s \in Seq(Events), NEW t \in Seq(Events)
  PROVE  /\ AllChunks(s) \in Seq(GoodChunk)
         /\ AllChunks(s \o t) = AllChunks(s) \o AllChunks(t)
         /\ AllChunks(<<>>) = <<>>
         /\ \A e \in Events : AllChunks(<<e>>) = Chunks[e]
  <1>1. \A q : AllChunks(q) = ConcatMap(Chunks, q)
    BY DEF AllChunks, ConcatMap
  <1>2. /\ ConcatMap(Chunks, s) \in Seq(GoodChunk)
        /\ ConcatMap(Chunks, s \o t) = ConcatMap(Chunks, s) \o ConcatMap(Chunks, t)
        /\ ConcatMap(Chunks, <<>>) = <<>>
        /\ \A e \in Events : ConcatMap(Chunks, <<e>>) = Chunks[e]
    BY ChunksIs, ConcatMapIs
  <1> QED BY <1>1, <1>2

TextsOf == [e \in Events |-> Units(e, 0, Len(Messages[e]))]

LEMMA TextOfIs ==
  ASSUME NEW s \in Seq(Events), NEW t \in Seq(Events)
  PROVE  /\ TextOf(s) \in Seq(CodeUnits)
         /\ TextOf(s \o t) = TextOf(s) \o TextOf(t)
         /\ TextOf(<<>>) = <<>>
         /\ \A e \in Events : TextOf(<<e>>) = Units(e, 0, Len(Messages[e]))
  <1>1. ASSUME NEW q \in Seq(Events) PROVE TextOf(q) = ConcatMap(TextsOf, q)
    <2>1. \A k \in DOMAIN q : q[k] \in Events
      OBVIOUS
    <2>2. \A k \in DOMAIN q : TextsOf[q[k]] = Units(q[k], 0, Len(Messages[q[k]]))
      BY <2>1 DEF TextsOf
    <2>3. [k \in DOMAIN q |-> TextsOf[q[k]]]
            = [k \in DOMAIN q |-> Units(q[k], 0, Len(Messages[q[k]]))]
      BY <2>2
    <2> QED BY <2>3 DEF TextOf, ConcatMap
  <1>2. TextsOf \in SeqMaps(Events, CodeUnits)
    <2>1. ASSUME NEW e \in Events PROVE Units(e, 0, Len(Messages[e])) \in Seq(CodeUnits)
      <3>1. /\ Text(Chunks[e]) = Units(e, 0, Len(Messages[e]))
            /\ Chunks[e] \in Seq(GoodChunk)
        BY ChunksIs
      <3>2. Text(Chunks[e]) \in Seq(CodeUnits)
        BY <3>1, TextConcat
      <3> QED BY <3>1, <3>2
    <2> QED BY <2>1 DEF TextsOf, SeqMaps
  <1>3. /\ ConcatMap(TextsOf, s) \in Seq(CodeUnits)
        /\ ConcatMap(TextsOf, s \o t) = ConcatMap(TextsOf, s) \o ConcatMap(TextsOf, t)
        /\ ConcatMap(TextsOf, <<>>) = <<>>
        /\ \A e \in Events : ConcatMap(TextsOf, <<e>>) = TextsOf[e]
    BY <1>2, ConcatMapIs
  <1>4. s \o t \in Seq(Events) /\ <<>> \in Seq(Events) /\ \A e \in Events : <<e>> \in Seq(Events)
    BY ConcatProperties
  <1>5. /\ TextOf(s) = ConcatMap(TextsOf, s) /\ TextOf(t) = ConcatMap(TextsOf, t)
        /\ TextOf(s \o t) = ConcatMap(TextsOf, s \o t)
        /\ TextOf(<<>>) = ConcatMap(TextsOf, <<>>)
        /\ \A e \in Events : TextOf(<<e>>) = ConcatMap(TextsOf, <<e>>)
    BY <1>1, <1>4
  <1>6. \A e \in Events : TextsOf[e] = Units(e, 0, Len(Messages[e]))
    BY DEF TextsOf
  <1> QED BY <1>3, <1>5, <1>6

(* Induction for the sequences of a set.                                   *)
LEMMA SeqInduction ==
  ASSUME NEW E, NEW Q, <<>> \in Q,
         \A s \in Seq(E) : \A e \in E : s \in Q => s \o <<e>> \in Q
  PROVE  \A s \in Seq(E) : s \in Q
  <1> SUFFICES ASSUME NEW s \in Seq(E) PROVE s \in Q
    OBVIOUS
  <1> DEFINE m == Len(s)
             T == {n \in Nat : n <= m => SubSeq(s, 1, n) \in Q}
  <1>1. m \in Nat /\ \A n \in 1 .. m : s[n] \in E
    OBVIOUS
  <1>2. 0 \in T
    <2>1. SubSeq(s, 1, 0) = <<>>
      BY SubSeqEmpty
    <2> QED BY <2>1
  <1>3. ASSUME NEW n \in Nat, n + 1 <= m, SubSeq(s, 1, n) \in Q PROVE SubSeq(s, 1, n + 1) \in Q
    <2>1. n + 1 \in 1 .. m /\ 1 \in 1 .. m /\ n + 1 \in 1 .. Len(s) /\ (n + 1) - 1 = n
      BY <1>1, <1>3
    <2>2. SubSeq(s, 1, n + 1) = SubSeq(s, 1, (n + 1) - 1) \o <<s[n + 1]>>
      BY <2>1, SubSeqRecursiveSecond
    <2>3. SubSeq(s, 1, n) \in Seq(E)
      <3>1. \A i \in 1 .. n : s[i] \in E
        BY <1>1, <1>3
      <3> QED BY <3>1, SubSeqProperties
    <2> QED BY <1>1, <1>3, <2>1, <2>2, <2>3
  <1>4. \A n \in Nat : n \in T => n + 1 \in T
    <2>1. \A n \in Nat : n + 1 <= m => n <= m
      BY <1>1
    <2> QED BY <1>3, <2>1
  <1> HIDE DEF T
  <1>5. m \in T
    BY <1>1, <1>2, <1>4, Induction
  <1>6. SubSeq(s, 1, m) \in Q
    BY <1>1, <1>5 DEF T
  <1>7. SubSeq(s, 1, Len(s)) = s
    BY SubSeqFull
  <1> QED BY <1>6, <1>7

(* Cutting the messages loses nothing of them.                             *)
LEMMA TextKept ==
  ASSUME NEW s \in Seq(Events)
  PROVE  Text(AllChunks(s)) = TextOf(s)
  <1> DEFINE Q == {q \in Seq(Events) : Text(AllChunks(q)) = TextOf(q)}
  <1>1. <<>> \in Q
    <2>1. <<>> \in Seq(Events) /\ AllChunks(<<>>) = <<>> /\ TextOf(<<>>) = <<>>
      BY AllChunksIs, TextOfIs
    <2>2. <<>> \in Seq(GoodChunk)
      OBVIOUS
    <2>3. Text(<<>>) = <<>>
      BY <2>2, TextConcat
    <2> QED BY <2>1, <2>3
  <1>2. ASSUME NEW q \in Seq(Events), NEW e \in Events, Text(AllChunks(q)) = TextOf(q)
        PROVE  q \o <<e>> \in Seq(Events) /\ Text(AllChunks(q \o <<e>>)) = TextOf(q \o <<e>>)
    <2>1. <<e>> \in Seq(Events) /\ q \o <<e>> \in Seq(Events)
      BY ConcatProperties
    <2>2. /\ AllChunks(q \o <<e>>) = AllChunks(q) \o AllChunks(<<e>>)
          /\ AllChunks(<<e>>) = Chunks[e]
          /\ AllChunks(q) \in Seq(GoodChunk)
      BY <2>1, AllChunksIs
    <2>3. /\ TextOf(q \o <<e>>) = TextOf(q) \o TextOf(<<e>>)
          /\ TextOf(<<e>>) = Units(e, 0, Len(Messages[e]))
      BY <2>1, TextOfIs
    <2>4. Chunks[e] \in Seq(GoodChunk) /\ Text(Chunks[e]) = Units(e, 0, Len(Messages[e]))
      BY ChunksIs
    <2>5. Text(AllChunks(q) \o Chunks[e]) = Text(AllChunks(q)) \o Text(Chunks[e])
      BY <2>2, <2>4, TextConcat
    <2> QED BY <1>2, <2>1, <2>2, <2>3, <2>4, <2>5
  <1>3. \A q \in Seq(Events) : \A e \in Events : q \in Q => q \o <<e>> \in Q
    BY <1>2
  <1> HIDE DEF Q
  <1>4. s \in Q
    BY <1>1, <1>3, SeqInduction
  <1> QED BY <1>4 DEF Q

LEMMA SomeChunks ==
  ASSUME NEW s \in Seq(Events), s # <<>>
  PROVE  AllChunks(s) # <<>>
  <1> DEFINE e == Head(s)
             t == Tail(s)
  <1>1. e \in Events /\ t \in Seq(Events) /\ s = <<e>> \o t /\ <<e>> \in Seq(Events)
    <2>1. Len(s) \in Nat \ {0}
      BY EmptySeq
    <2>2. e \in Events /\ t \in Seq(Events)
      BY HeadTailProperties
    <2>3. e = s[1] /\ t = SubSeq(s, 2, Len(s))
      BY TailIsSubSeq
    <2>4. 1 \in 1 .. Len(s) /\ Len(s) \in 1 .. Len(s) /\ 1 + 1 = 2
      BY <2>1
    <2>5. SubSeq(s, 1, Len(s)) = <<s[1]>> \o SubSeq(s, 1 + 1, Len(s))
      BY <2>4, SubSeqRecursiveFirst
    <2>6. SubSeq(s, 1, Len(s)) = s
      BY SubSeqFull
    <2> QED BY <2>2, <2>3, <2>4, <2>5, <2>6
  <1> HIDE DEF e, t
  <1>2. AllChunks(s) = Chunks[e] \o AllChunks(t) /\ AllChunks(t) \in Seq(GoodChunk)
    BY <1>1, AllChunksIs
  <1>3. Chunks[e] \in Seq(GoodChunk) /\ Chunks[e] # <<>>
    BY <1>1, ChunksIs
  <1> DEFINE x == Chunks[e]
             y == AllChunks(t)
  <1> HIDE DEF x, y
  <1>4. x \in Seq(GoodChunk) /\ y \in Seq(GoodChunk) /\ x # <<>> => x \o y # <<>>
    BY ConcatEqualIffEmpty
  <1> QED BY <1>2, <1>3, <1>4 DEF x, y

-----------------------------------------------------------------------------
(* The inductive invariant.                                                *)

Bytes(chunks) == Sums([k \in DOMAIN chunks |-> chunks[k].byteLength])[Len(chunks)]

(* Good chunks of the first events.                                        *)
UpTo(n) == {c \in GoodChunk : c.event <= n}

(* What is logged and not yet handed to CloudWatch, when run r goes on.    *)
Pending(r) == input[r] \o prepared[r] \o AllChunks(logEvents)

Alone(r) == \A q \in Runs \ {r} : at[q] = "idle"

Phases == {"idle", "describe", "createGroup", "createStream", "put"}

(* Only a run that puts a request has chunks: a request that fits, which   *)
(* it has only after both steps of the setup.                              *)
RunInv(r) ==
  /\ at[r] # "put" => input[r] = <<>> /\ prepared[r] = <<>>
  /\ at[r] = "put" => /\ input[r] # <<>> /\ Bytes(input[r]) <= MaxBatch
                      /\ logGroupVerified /\ logStreamCreated

(* One run goes on at a time, and processing says so.                      *)
RunsInv ==
  /\ at \in [Runs -> Phases]
  /\ input \in [Runs -> Seq(GoodChunk)] /\ prepared \in [Runs -> Seq(GoodChunk)]
  /\ processing = (\E r \in Runs : at[r] # "idle")
  /\ \A q, r \in Runs : at[q] # "idle" /\ at[r] # "idle" => q = r
  /\ \A r \in Runs : RunInv(r)

(* Chunks are neither lost nor put twice, and stay in order.               *)
Conserved(r) ==
  /\ sent \o Pending(r) = AllChunks(Logged)
  /\ stored \o Pending(r) \in Seq(UpTo(logged))
  /\ Ordered(stored \o Pending(r))

First(n) == [e \in 1 .. n |-> e]

(* The events logged before a flush() that returned were handed over.      *)
FlushInv ==
  \A f \in Flushes : flush[f] = "done" => IsPrefix(AllChunks(First(mark[f])), sent)

RestInv ==
  /\ logged \in 0 .. Len(Messages) /\ logEvents \in Seq(1 .. logged)
  /\ logGroupVerified \in BOOLEAN /\ logStreamCreated \in BOOLEAN
  /\ timers \in 0 .. logged
  /\ group \in BOOLEAN
  /\ sent \in Seq(GoodChunk) /\ stored \in Seq(GoodChunk)
  /\ flush \in [Flushes -> {"idle", "waiting", "done", "late"}]
  /\ mark \in [Flushes -> 0 .. logged]
  /\ failures \in 0 .. MaxFailures
  /\ setupFailed \in BOOLEAN
  /\ FlushInv

LoggerInv ==
  /\ RestInv
  /\ RunsInv
  /\ \A r \in Runs : Alone(r) => Conserved(r)

-----------------------------------------------------------------------------
(* Sequences that are ordered, and prefixes.                               *)

LEMMA OrderedConcat ==
  ASSUME NEW s \in Seq(GoodChunk), NEW t \in Seq(GoodChunk)
  PROVE  Ordered(s \o t) <=> /\ Ordered(s) /\ Ordered(t)
                             /\ \A i \in DOMAIN s : \A j \in DOMAIN t : Before(s[i], t[j])
  <1> DEFINE k == Len(s)
             m == Len(t)
             c == s \o t
  <1>1. k \in Nat /\ m \in Nat /\ DOMAIN s = 1 .. k /\ DOMAIN t = 1 .. m
    OBVIOUS
  <1>2. DOMAIN c = 1 .. k + m /\ \A n \in 1 .. k + m : c[n] = IF n <= k THEN s[n] ELSE t[n - k]
    <2>1. c \in Seq(GoodChunk) /\ Len(c) = k + m
            /\ \A n \in 1 .. k + m : c[n] = IF n <= k THEN s[n] ELSE t[n - k]
      BY ConcatProperties
    <2>2. DOMAIN c = 1 .. Len(c)
      BY <2>1, LenProperties
    <2> QED BY <2>1, <2>2
  <1> HIDE DEF k, m, c
  <1>3. /\ \A n \in 1 .. k : n \in DOMAIN c /\ c[n] = s[n]
        /\ \A n \in 1 .. m : n + k \in DOMAIN c /\ c[n + k] = t[n]
    <2>1. ASSUME NEW n \in 1 .. k PROVE n \in DOMAIN c /\ c[n] = s[n]
      <3>1. n \in 1 .. k + m /\ n <= k
        BY <1>1
      <3> QED BY <1>2, <3>1
    <2>2. ASSUME NEW n \in 1 .. m PROVE n + k \in DOMAIN c /\ c[n + k] = t[n]
      <3>1. n + k \in 1 .. k + m /\ ~ (n + k <= k) /\ (n + k) - k = n
        BY <1>1
      <3> QED BY <1>2, <3>1
    <2> QED BY <2>1, <2>2
  <1>4. ASSUME Ordered(c)
        PROVE  /\ Ordered(s) /\ Ordered(t)
               /\ \A i \in DOMAIN s : \A j \in DOMAIN t : Before(s[i], t[j])
    <2>1. Ordered(s)
      BY <1>1, <1>3, <1>4 DEF Ordered
    <2>2. ASSUME NEW i \in DOMAIN t, NEW j \in DOMAIN t, i < j PROVE Before(t[i], t[j])
      <3>1. i + k < j + k
        BY <1>1, <2>2
      <3>2. i + k \in DOMAIN c /\ j + k \in DOMAIN c /\ c[i + k] = t[i] /\ c[j + k] = t[j]
        BY <1>1, <1>3
      <3> QED BY <1>4, <3>1, <3>2 DEF Ordered
    <2>3. ASSUME NEW i \in DOMAIN s, NEW j \in DOMAIN t PROVE Before(s[i], t[j])
      <3>1. i < j + k
        BY <1>1
      <3>2. i \in DOMAIN c /\ j + k \in DOMAIN c /\ c[i] = s[i] /\ c[j + k] = t[j]
        BY <1>1, <1>3
      <3> QED BY <1>4, <3>1, <3>2 DEF Ordered
    <2> QED BY <2>1, <2>2, <2>3 DEF Ordered
  <1>5. ASSUME Ordered(s), Ordered(t),
               \A i \in DOMAIN s : \A j \in DOMAIN t : Before(s[i], t[j]),
               NEW i \in DOMAIN c, NEW j \in DOMAIN c, i < j
        PROVE  Before(c[i], c[j])
    <2>1. i \in 1 .. k + m /\ j \in 1 .. k + m
      BY <1>2
    <2>2. CASE j <= k
      <3>1. i \in 1 .. k /\ j \in 1 .. k
        BY <1>1, <1>5, <2>1, <2>2
      <3> QED BY <1>1, <1>3, <1>5, <3>1 DEF Ordered
    <2>3. CASE i <= k /\ ~ (j <= k)
      <3>1. i \in 1 .. k /\ j - k \in 1 .. m /\ (j - k) + k = j
        BY <1>1, <2>1, <2>3
      <3> QED BY <1>1, <1>3, <1>5, <3>1
    <2>4. CASE ~ (i <= k)
      <3>1. i - k \in 1 .. m /\ j - k \in 1 .. m /\ (j - k) + k = j /\ (i - k) + k = i
              /\ i - k < j - k
        BY <1>1, <1>5, <2>1, <2>4
      <3>2. c[i] = t[i - k] /\ c[j] = t[j - k]
        BY <1>3, <3>1
      <3> QED BY <1>1, <1>5, <3>1, <3>2 DEF Ordered
    <2> QED BY <1>1, <1>5, <2>1, <2>2, <2>3, <2>4
  <1> QED BY <1>4, <1>5 DEF c, Ordered

(* What remains when a part is taken out of the middle.                    *)
LEMMA OrderedWithout ==
  ASSUME NEW s \in Seq(GoodChunk), NEW t \in Seq(GoodChunk), NEW u \in Seq(GoodChunk),
         Ordered(s \o (t \o u))
  PROVE  Ordered(s \o u)
  <1> DEFINE c == t \o u
  <1>1. c \in Seq(GoodChunk) /\ Len(c) = Len(t) + Len(u) /\ Len(t) \in Nat /\ Len(u) \in Nat
          /\ \A n \in 1 .. Len(t) + Len(u) : c[n] = IF n <= Len(t) THEN t[n] ELSE u[n - Len(t)]
    BY ConcatProperties
  <1>2. DOMAIN c = 1 .. Len(c) /\ DOMAIN u = 1 .. Len(u)
    BY <1>1, LenProperties
  <1>3. Ordered(c) => Ordered(u)
    BY OrderedConcat
  <1> HIDE DEF c
  <1>4. /\ Ordered(s) /\ Ordered(c)
        /\ \A i \in DOMAIN s : \A j \in DOMAIN c : Before(s[i], c[j])
    BY <1>1, OrderedConcat DEF c
  <1>5. ASSUME NEW j \in DOMAIN u PROVE j + Len(t) \in DOMAIN c /\ c[j + Len(t)] = u[j]
    <2>1. j \in 1 .. Len(u)
      BY <1>2
    <2>2. j + Len(t) \in 1 .. Len(t) + Len(u) /\ ~ (j + Len(t) <= Len(t)) /\ (j + Len(t)) - Len(t) = j
      BY <1>1, <2>1
    <2> QED BY <1>1, <1>2, <2>2
  <1>6. \A i \in DOMAIN s : \A j \in DOMAIN u : Before(s[i], u[j])
    BY <1>4, <1>5
  <1> QED BY <1>3, <1>4, <1>6, OrderedConcat

LEMMA UpToWithout ==
  ASSUME NEW s \in Seq(GoodChunk), NEW t \in Seq(GoodChunk), NEW u \in Seq(GoodChunk),
         NEW C, s \o (t \o u) \in Seq(C)
  PROVE  s \o u \in Seq(C)
  <1> DEFINE c == t \o u
             d == s \o c
  <1>1. c \in Seq(GoodChunk) /\ Len(c) = Len(t) + Len(u)
          /\ \A n \in 1 .. Len(t) + Len(u) : c[n] = IF n <= Len(t) THEN t[n] ELSE u[n - Len(t)]
    BY ConcatProperties
  <1>2. Len(s) \in Nat /\ Len(t) \in Nat /\ Len(u) \in Nat
    OBVIOUS
  <1> HIDE DEF c
  <1>3. Len(d) = Len(s) + Len(c)
          /\ \A n \in 1 .. Len(s) + Len(c) : d[n] = IF n <= Len(s) THEN s[n] ELSE c[n - Len(s)]
    <2>1. s \in Seq(GoodChunk) /\ c \in Seq(GoodChunk)
      BY <1>1
    <2> QED BY <2>1, ConcatProperties
  <1>4. \A n \in 1 .. Len(d) : d[n] \in C
    BY ElementOfSeq DEF c
  <1> HIDE DEF d
  <1>5. ASSUME NEW n \in 1 .. Len(s) PROVE s[n] \in C
    <2>1. n \in 1 .. Len(s) + Len(c) /\ n <= Len(s)
      BY <1>1, <1>2
    <2> QED BY <1>3, <1>4, <2>1
  <1>6. ASSUME NEW n \in 1 .. Len(u) PROVE u[n] \in C
    <2>1. n + Len(t) \in 1 .. Len(t) + Len(u) /\ ~ (n + Len(t) <= Len(t))
            /\ (n + Len(t)) - Len(t) = n
      BY <1>2
    <2>2. c[n + Len(t)] = u[n]
      BY <1>1, <2>1
    <2> DEFINE k == n + Len(t)
    <2>3. k \in Nat /\ k \in 1 .. Len(c)
      BY <1>1, <1>2, <2>1
    <2> HIDE DEF k
    <2>4. k + Len(s) \in 1 .. Len(s) + Len(c) /\ ~ (k + Len(s) <= Len(s))
            /\ (k + Len(s)) - Len(s) = k
      BY <1>1, <1>2, <2>3
    <2>5. d[k + Len(s)] = c[k]
      BY <1>3, <2>4
    <2> QED BY <1>3, <1>4, <2>2, <2>4, <2>5 DEF k
  <1>7. s \in Seq(C)
    BY <1>2, <1>5
  <1>8. u \in Seq(C)
    BY <1>2, <1>6
  <1> QED BY <1>7, <1>8, ConcatProperties

LEMMA PrefixIs ==
  ASSUME NEW S, NEW s \in Seq(S), NEW t \in Seq(S)
  PROVE  IsPrefix(s, s \o t) /\ (IsPrefix(s, t) => \E u \in Seq(S) : t = s \o u)
  <1>1. IsPrefix(s, s \o t)
    <2> DEFINE c == s \o t
               k == Len(s)
    <2>1. c \in Seq(S) /\ k \in Nat /\ k <= Len(c) /\ Len(c) \in Nat
            /\ \A n \in 1 .. k : c[n] = s[n]
      <3>1. Len(c) = k + Len(t) /\ Len(t) \in Nat /\ k \in Nat /\ c \in Seq(S)
              /\ \A n \in 1 .. k + Len(t) : c[n] = IF n <= k THEN s[n] ELSE t[n - k]
        BY ConcatProperties
      <3> HIDE DEF c, k
      <3> QED BY <3>1
    <2> HIDE DEF c, k
    <2>2. \A n \in 1 .. k : 1 + n - 1 = n /\ n \in 1 .. k - 1 + 1
      BY <2>1
    <2>3. [n \in 1 .. k |-> c[n]] = [n \in 1 .. k |-> s[n]]
      BY <2>1
    <2>4. SubSeq(c, 1, k) = [n \in 1 .. k |-> c[n]] /\ SubSeq(s, 1, k) = [n \in 1 .. k |-> s[n]]
      BY <2>1, <2>2
    <2> QED BY <2>1, <2>3, <2>4 DEF IsPrefix, c, k
  <1>2. ASSUME IsPrefix(s, t) PROVE \E u \in Seq(S) : t = s \o u
    <2> DEFINE k == Len(s)
               m == Len(t)
               u == SubSeq(t, k + 1, m)
    <2>1. k \in Nat /\ m \in Nat /\ k <= m /\ SubSeq(s, 1, k) = SubSeq(t, 1, k)
      BY <1>2 DEF IsPrefix
    <2>2. SubSeq(s, 1, k) = s /\ SubSeq(t, 1, m) = t
      BY SubSeqFull
    <2>3. u \in Seq(S)
      <3>1. \A i \in k + 1 .. m : t[i] \in S
        BY <2>1
      <3> HIDE DEF k, m
      <3>2. k + 1 \in Int /\ m \in Int
        BY <2>1
      <3> QED BY <3>1, <3>2, SubSeqProperties
    <2>4. SubSeq(t, 1, k) \o u = SubSeq(t, 1, m)
      <3>1. 1 \in 1 .. Len(t) + 1 /\ k \in 1 - 1 .. Len(t) /\ m \in k .. Len(t)
        BY <2>1
      <3> HIDE DEF k, m
      <3> QED BY <3>1, ConcatAdjacentSubSeq
    <2> QED BY <2>1, <2>2, <2>3, <2>4
  <1> QED BY <1>1, <1>2

-----------------------------------------------------------------------------
(* Batches.                                                                *)

ByteLengths(chunks) == [k \in DOMAIN chunks |-> chunks[k].byteLength]

LEMMA ByteLengthsIs ==
  ASSUME NEW s \in Seq(GoodChunk)
  PROVE  /\ ByteLengths(s) \in Seq(Nat) /\ Len(ByteLengths(s)) = Len(s)
         /\ \A k \in 1 .. Len(s) :
              ByteLengths(s)[k] = s[k].byteLength /\ s[k].byteLength <= MaxMessage + Overhead
  <1> DEFINE b == ByteLengths(s)
             m == Len(s)
  <1>1. m \in Nat /\ DOMAIN s = 1 .. m /\ \A k \in 1 .. m : s[k] \in GoodChunk
    OBVIOUS
  <1>2. \A k \in 1 .. m : s[k].byteLength \in Nat /\ s[k].byteLength <= MaxMessage + Overhead
    BY <1>1, GoodChunkIs
  <1>3. b \in [1 .. m -> Nat] /\ \A k \in 1 .. m : b[k] = s[k].byteLength
    BY <1>1, <1>2 DEF ByteLengths
  <1> HIDE DEF b, m
  <1>4. b \in Seq(Nat) /\ Len(b) = m
    BY <1>1, <1>3
  <1> QED BY <1>2, <1>3, <1>4 DEF b, m

(* A request takes a chunk at least, and no more than it can hold.         *)
LEMMA BatchIs ==
  ASSUME NEW chunks \in Seq(GoodChunk), chunks # <<>>
  PROVE  /\ BatchLength(chunks) \in 1 .. Len(chunks)
         /\ Sums(ByteLengths(chunks))[BatchLength(chunks)] <= MaxBatch
  <1> DEFINE m == Len(chunks)
             bytes == Sums(ByteLengths(chunks))
             Fits(n) == bytes[n] <= MaxBatch /\ (n = m \/ bytes[n + 1] > MaxBatch)
             T == {n \in 0 .. m : n = m \/ bytes[n + 1] > MaxBatch}
             b == CHOOSE n \in 0 .. m : Fits(n)
  <1>1. m \in Nat /\ m >= 1
    <2>1. m \in Nat \ {0}
      BY EmptySeq
    <2> QED BY <2>1
  <1>2. /\ bytes \in [0 .. m -> Nat] /\ bytes[0] = 0
        /\ bytes[1] <= MaxMessage + Overhead /\ bytes[1] \in Nat
    <2> DEFINE s == ByteLengths(chunks)
    <2>1. s \in Seq(Nat) /\ Len(s) = m /\ s[1] <= MaxMessage + Overhead
      <3>1. 1 \in 1 .. m
        BY <1>1
      <3> QED BY <3>1, ByteLengthsIs
    <2> HIDE DEF s
    <2>2. /\ Sums(s) \in [0 .. m -> Nat] /\ Sums(s)[0] = 0
          /\ \A n \in 1 .. m : Sums(s)[n] = Sums(s)[n - 1] + s[n]
      BY <2>1, SumsStep
    <2>3. 1 \in 1 .. m /\ 1 - 1 = 0 /\ s[1] \in Nat /\ 1 \in 0 .. m
      BY <1>1, <2>1
    <2>4. Sums(s)[1] = s[1]
      BY <2>2, <2>3
    <2> QED BY <2>1, <2>2, <2>3, <2>4 DEF s
  <1>3. BatchLength(chunks) = b
    BY DEF BatchLength, ByteLengths
  <1>4. MaxMessage + Overhead <= MaxBatch /\ MaxMessage + Overhead \in Nat
    BY ConstantsAssumption DEF ConstantsAssumption
  <1> HIDE DEF m, bytes, b
  <1>5. PICK n \in T : \A k \in T : n <= k
    <2>1. m \in T /\ T \subseteq Nat
      BY <1>1
    <2> HIDE DEF T
    <2> QED BY <2>1, LeastExists
  <1>6. n \in 0 .. m /\ Fits(n)
    <2>1. n \in 0 .. m /\ (n = m \/ bytes[n + 1] > MaxBatch)
      BY <1>5
    <2>2. CASE n = 0
      <3>1. 0 <= MaxBatch
        BY Limits
      <3> QED BY <1>2, <2>1, <2>2, <3>1
    <2>3. CASE n # 0
      <3>1. n - 1 \in 0 .. m /\ ~ (n <= n - 1) /\ (n - 1) + 1 = n
        BY <1>1, <2>1, <2>3
      <3>2. n - 1 \notin T
        <4> HIDE DEF T
        <4> QED BY <1>5, <3>1
      <3>3. ~ (bytes[n] > MaxBatch)
        BY <3>1, <3>2
      <3>4. bytes[n] \in Nat
        BY <1>2, <2>1
      <3>5. bytes[n] <= MaxBatch
        BY <3>3, <3>4, Limits
      <3> QED BY <2>1, <3>5
    <2> QED BY <2>2, <2>3
  <1>7. b \in 0 .. m /\ Fits(b)
    <2> HIDE DEF Fits
    <2> QED BY <1>6 DEF b
  <1>8. b # 0
    <2>1. ASSUME b = 0 PROVE FALSE
      <3>1. bytes[0 + 1] > MaxBatch
        BY <1>1, <1>7, <2>1
      <3>2. 0 + 1 = 1
        OBVIOUS
      <3>3. bytes[1] > MaxBatch
        BY <3>1, <3>2
      <3> DEFINE x == bytes[1]
      <3>4. x \in Nat /\ x > MaxBatch /\ x <= MaxMessage + Overhead
        BY <1>2, <3>3
      <3> HIDE DEF x
      <3> QED BY <1>4, <3>4, Limits
    <2> QED BY <2>1
  <1> QED BY <1>1, <1>3, <1>7, <1>8 DEF m, bytes

LEMMA BatchSplits ==
  ASSUME NEW chunks \in Seq(GoodChunk), chunks # <<>>, NEW s, NEW t,
         s = SubSeq(chunks, 1, BatchLength(chunks)),
         t = SubSeq(chunks, BatchLength(chunks) + 1, Len(chunks))
  PROVE  /\ s \in Seq(GoodChunk) /\ t \in Seq(GoodChunk) /\ s \o t = chunks
         /\ s # <<>> /\ Bytes(s) <= MaxBatch
  <1> DEFINE n == BatchLength(chunks)
             m == Len(chunks)
  <1>1. n \in 1 .. m /\ m \in Nat /\ \A k \in 1 .. m : chunks[k] \in GoodChunk
    BY BatchIs
  <1> HIDE DEF n
  <1>2. s \in Seq(GoodChunk) /\ Len(s) = n /\ \A k \in 1 .. n : s[k] = chunks[k]
    <2>1. s = SubSeq(chunks, 1, n) /\ \A k \in 1 .. n : chunks[k] \in GoodChunk
      BY <1>1 DEF n
    <2>2. 1 \in Int /\ n \in Int /\ 1 <= n /\ n - 1 + 1 = n /\ \A k \in 1 .. n : 1 + k - 1 = k
      BY <1>1
    <2>3. /\ s \in Seq(GoodChunk) /\ Len(s) = n - 1 + 1
          /\ \A k \in 1 .. n - 1 + 1 : s[k] = chunks[1 + k - 1]
      <3>1. \A k \in 1 .. n : chunks[k] \in GoodChunk
        BY <2>1
      <3>2. 1 \in Int /\ n \in Int
        BY <2>2
      <3> HIDE DEF m
      <3>3. /\ SubSeq(chunks, 1, n) \in Seq(GoodChunk)
            /\ Len(SubSeq(chunks, 1, n)) = IF 1 <= n THEN n - 1 + 1 ELSE 0
            /\ \A k \in 1 .. n - 1 + 1 : SubSeq(chunks, 1, n)[k] = chunks[1 + k - 1]
        BY <3>1, <3>2, SubSeqProperties
      <3> DEFINE u == SubSeq(chunks, 1, n)
      <3>4. u \in Seq(GoodChunk) /\ Len(u) = n - 1 + 1 /\ s = u
        BY <2>1, <2>2, <3>3
      <3>5. \A k \in 1 .. n - 1 + 1 : u[k] = chunks[1 + k - 1]
        BY <3>3
      <3> HIDE DEF u
      <3> QED BY <3>4, <3>5
    <2> QED BY <2>2, <2>3
  <1>3. t \in Seq(GoodChunk)
    <2>1. t = SubSeq(chunks, n + 1, m)
      BY DEF n
    <2>2. n + 1 \in Int /\ m \in Int /\ \A k \in n + 1 .. m : chunks[k] \in GoodChunk
      BY <1>1
    <2> HIDE DEF m
    <2> QED BY <2>1, <2>2, SubSeqProperties
  <1>4. s \o t = chunks
    <2>1. 1 \in 1 .. Len(chunks) + 1 /\ n \in 1 - 1 .. Len(chunks) /\ m \in n .. Len(chunks)
      BY <1>1
    <2> HIDE DEF m
    <2>2. SubSeq(chunks, 1, n) \o SubSeq(chunks, n + 1, m) = SubSeq(chunks, 1, m)
      BY <2>1, ConcatAdjacentSubSeq
    <2>3. SubSeq(chunks, 1, m) = chunks
      BY SubSeqFull DEF m
    <2> QED BY <2>2, <2>3 DEF n, m
  <1>5. s # <<>>
    BY <1>1, <1>2
  <1>6. Bytes(s) <= MaxBatch
    <2> DEFINE a == ByteLengths(s)
               b == ByteLengths(chunks)
    <2>1. a \in Seq(Nat) /\ Len(a) = n /\ \A k \in 1 .. n : a[k] = s[k].byteLength
      BY <1>2, ByteLengthsIs
    <2>2. b \in Seq(Nat) /\ Len(b) = m /\ \A k \in 1 .. m : b[k] = chunks[k].byteLength
      BY ByteLengthsIs
    <2>3. Bytes(s) = Sums(a)[n]
      BY <1>2 DEF Bytes, ByteLengths
    <2> HIDE DEF a, b, m
    <2>4. /\ \A k \in 1 .. n : a[k] <= b[k] /\ k \in 1 .. m
          /\ n \in 0 .. Len(a) /\ n <= Len(b)
      <3>1. \A k \in 1 .. n : k \in 1 .. m
        BY <1>1
      <3>2. \A k \in 1 .. n : a[k] = b[k] /\ a[k] \in Nat
        <4>1. \A k \in 1 .. n : a[k] \in Nat
          BY <2>1
        <4>2. \A k \in 1 .. n : a[k] = chunks[k].byteLength
          BY <1>2, <2>1
        <4> QED BY <2>2, <3>1, <4>1, <4>2
      <3>3. \A k \in 1 .. n : a[k] <= b[k]
        BY <3>2
      <3> QED BY <1>1, <2>1, <2>2, <3>1, <3>3
    <2>5. Sums(a)[n] <= Sums(b)[n]
      BY <2>1, <2>2, <2>4, SumsCompare
    <2>6. Sums(b)[n] <= MaxBatch
      BY BatchIs DEF b, n
    <2>7. Sums(a)[n] \in Nat /\ Sums(b)[n] \in Nat
      <3>1. Sums(a) \in [0 .. n -> Nat] /\ Sums(b) \in [0 .. m -> Nat]
        BY <2>1, <2>2, SumsStep
      <3> QED BY <1>1, <3>1
    <2> DEFINE x == Sums(a)[n]
               y == Sums(b)[n]
    <2>8. x \in Nat /\ y \in Nat /\ x <= y /\ y <= MaxBatch
      BY <2>5, <2>6, <2>7
    <2> HIDE DEF x, y
    <2>9. x <= MaxBatch
      BY <2>8, Limits
    <2> QED BY <2>3, <2>9 DEF x
  <1> QED BY <1>2, <1>3, <1>4, <1>5, <1>6

-----------------------------------------------------------------------------
(* What a run does.                                                        *)

(* The other runs stay as they are.                                        *)
Framed(r) ==
  /\ at' \in [Runs -> Phases]
  /\ input' \in [Runs -> Seq(GoodChunk)] /\ prepared' \in [Runs -> Seq(GoodChunk)]
  /\ \A q \in Runs \ {r} :
       at'[q] = at[q] /\ input'[q] = input[q] /\ prepared'[q] = prepared[q]

LEMMA QueueChunks ==
  ASSUME RestInv
  PROVE  /\ logEvents \in Seq(Events) /\ AllChunks(logEvents) \in Seq(GoodChunk)
         /\ logEvents # <<>> => AllChunks(logEvents) # <<>>
         /\ AllChunks(<<>>) = <<>>
         /\ Logged \in Seq(Events) /\ Logged = First(logged)
  <1>1. logged \in 0 .. Len(Messages) /\ logEvents \in Seq(1 .. logged) /\ Len(Messages) \in Nat
    BY ConstantsAssumption DEF RestInv, ConstantsAssumption
  <1>2. 1 .. logged \subseteq Events
    BY <1>1 DEF Events
  <1>3. logEvents \in Seq(Events)
    BY <1>1, <1>2, SeqMonotonic
  <1>4. Logged \in Seq(Events) /\ Logged = First(logged)
    <2>1. logged \in Nat /\ \A e \in 1 .. logged : e \in Events
      BY <1>1, <1>2
    <2>2. Logged \in [1 .. logged -> Events]
      BY <2>1 DEF Logged
    <2> QED BY <2>1, <2>2 DEF Logged, First
  <1> QED BY <1>3, <1>4, AllChunksIs, SomeChunks

LEMMA FirstIs ==
  ASSUME NEW n \in 0 .. Len(Messages)
  PROVE  First(n) \in Seq(Events)
  <1>1. n \in Nat /\ \A e \in 1 .. n : e \in Events
    BY ConstantsAssumption DEF ConstantsAssumption, Events
  <1>2. First(n) \in [1 .. n -> Events]
    BY <1>1 DEF First
  <1> QED BY <1>1, <1>2

LEMMA FillStep ==
  ASSUME RestInv, RunsInv, NEW r \in Runs, NEW chunks \in Seq(GoodChunk), chunks # <<>>,
         FillRequest(r, chunks)
  PROVE  /\ Framed(r) /\ at'[r] = "put"
         /\ input'[r] \o prepared'[r] = chunks
         /\ input'[r] # <<>> /\ Bytes(input'[r]) <= MaxBatch
  <1> DEFINE n == BatchLength(chunks)
             s == SubSeq(chunks, 1, n)
             t == SubSeq(chunks, n + 1, Len(chunks))
  <1>1. /\ input' = [input EXCEPT ![r] = s] /\ prepared' = [prepared EXCEPT ![r] = t]
        /\ at' = [at EXCEPT ![r] = "put"]
    BY DEF FillRequest
  <1>2. s \in Seq(GoodChunk) /\ t \in Seq(GoodChunk) /\ s \o t = chunks
         /\ s # <<>> /\ Bytes(s) <= MaxBatch
    BY BatchSplits
  <1> HIDE DEF s, t
  <1>3. /\ at \in [Runs -> Phases] /\ "put" \in Phases
        /\ input \in [Runs -> Seq(GoodChunk)] /\ prepared \in [Runs -> Seq(GoodChunk)]
    BY DEF RunsInv, Phases
  <1>4. at'[r] = "put" /\ input'[r] = s /\ prepared'[r] = t
    BY <1>1, <1>3
  <1>5. Framed(r)
    BY <1>1, <1>2, <1>3 DEF Framed
  <1> QED BY <1>2, <1>4, <1>5

LEMMA EndStep ==
  ASSUME RestInv, RunsInv, NEW r \in Runs, EndRun(r)
  PROVE  Framed(r) /\ at'[r] = "idle" /\ input'[r] = <<>> /\ prepared'[r] = <<>>
           /\ logEvents' = logEvents
  <1>1. /\ at \in [Runs -> Phases] /\ "idle" \in Phases /\ <<>> \in Seq(GoodChunk)
        /\ input \in [Runs -> Seq(GoodChunk)] /\ prepared \in [Runs -> Seq(GoodChunk)]
    BY DEF RunsInv, Phases
  <1> QED BY <1>1 DEF Framed, EndRun

LEMMA AwaitStep ==
  ASSUME RestInv, RunsInv, NEW r \in Runs, NEW request \in Phases, Await(r, request)
  PROVE  Framed(r) /\ at'[r] = request /\ input'[r] = input[r] /\ prepared'[r] = prepared[r]
           /\ logEvents' = logEvents
  <1>1. /\ at \in [Runs -> Phases]
        /\ input \in [Runs -> Seq(GoodChunk)] /\ prepared \in [Runs -> Seq(GoodChunk)]
    BY DEF RunsInv
  <1> QED BY <1>1 DEF Framed, Await

(* The loop moves chunks from the queue to the run, and none else.         *)
LEMMA LoopStep ==
  ASSUME RestInv, RunsInv, NEW r \in Runs, Loop(r),
         prepared[r] = <<>>, at[r] # "put" => input[r] = <<>>,
         at[r] = "put" => logGroupVerified' /\ logStreamCreated'
  PROVE  /\ Framed(r) /\ RunInv(r)'
         /\ processing' = (at'[r] # "idle")
         /\ Pending(r)' = AllChunks(logEvents)
         /\ logEvents' \in {logEvents, <<>>}
  <1> DEFINE all == AllChunks(logEvents)
  <1>1. /\ all \in Seq(GoodChunk) /\ (logEvents # <<>> => all # <<>>) /\ AllChunks(<<>>) = <<>>
        /\ <<>> \o <<>> = <<>> /\ <<>> \o all = all
    BY QueueChunks, ConcatEmptySeq
  <1>2. Pending(r)' = input'[r] \o prepared'[r] \o AllChunks(logEvents')
    BY DEF Pending
  <1> HIDE DEF all
  <1>3. CASE logEvents = <<>>
    <2>1. EndRun(r) /\ processing' = FALSE
      BY <1>3 DEF Loop
    <2>2. Framed(r) /\ at'[r] = "idle" /\ input'[r] = <<>> /\ prepared'[r] = <<>>
            /\ logEvents' = logEvents
      BY <2>1, EndStep
    <2>3. RunInv(r)'
      BY <2>2 DEF RunInv
    <2> QED BY <1>1, <1>2, <1>3, <2>1, <2>2, <2>3 DEF all
  <1>4. CASE logEvents # <<>> /\ (~ logGroupVerified' \/ ~ logStreamCreated')
    <2>1. PICK request \in {"describe", "createStream"} : Await(r, request)
      BY <1>4 DEF Loop
    <2>2. request \in Phases /\ request # "idle" /\ request # "put"
      BY DEF Phases
    <2>3. Framed(r) /\ at'[r] = request /\ input'[r] = input[r] /\ prepared'[r] = prepared[r]
            /\ logEvents' = logEvents
      BY <2>1, <2>2, AwaitStep
    <2>4. input'[r] = <<>> /\ prepared'[r] = <<>>
      BY <1>4, <2>3
    <2>5. RunInv(r)'
      BY <2>2, <2>3, <2>4 DEF RunInv
    <2>6. processing' = TRUE
      BY <1>4 DEF Loop
    <2> QED BY <1>1, <1>2, <2>2, <2>3, <2>4, <2>5, <2>6 DEF all
  <1>5. CASE logEvents # <<>> /\ logGroupVerified' /\ logStreamCreated'
    <2>1. FillRequest(r, all) /\ logEvents' = <<>> /\ processing' = TRUE
      BY <1>5 DEF Loop, TakeQueue, all
    <2>2. /\ Framed(r) /\ at'[r] = "put"
          /\ input'[r] \o prepared'[r] = all
          /\ input'[r] # <<>> /\ Bytes(input'[r]) <= MaxBatch
      BY <1>1, <1>5, <2>1, FillStep
    <2>3. RunInv(r)'
      BY <1>5, <2>2 DEF RunInv
    <2>4. all \o <<>> = all
      BY <1>1, ConcatEmptySeq
    <2>5. Pending(r)' = all
      BY <1>1, <1>2, <2>1, <2>2, <2>4
    <2> QED BY <2>1, <2>2, <2>3, <2>5 DEF all
  <1> QED BY <1>3, <1>4, <1>5

-----------------------------------------------------------------------------
(* The invariant holds initially and is preserved.                         *)

LEMMA PendingIs ==
  ASSUME RestInv, RunsInv, NEW r \in Runs
  PROVE  /\ input[r] \in Seq(GoodChunk) /\ prepared[r] \in Seq(GoodChunk)
         /\ AllChunks(logEvents) \in Seq(GoodChunk)
         /\ Pending(r) \in Seq(GoodChunk)
         /\ Pending(r) = input[r] \o (prepared[r] \o AllChunks(logEvents))
         /\ at[r] # "put" => Pending(r) = AllChunks(logEvents)
  <1> DEFINE x == input[r]
             y == prepared[r]
             z == AllChunks(logEvents)
  <1>1. x \in Seq(GoodChunk) /\ y \in Seq(GoodChunk) /\ z \in Seq(GoodChunk)
    BY QueueChunks DEF RunsInv
  <1>2. at[r] # "put" => x = <<>> /\ y = <<>>
    BY DEF RunsInv, RunInv
  <1>3. Pending(r) = (x \o y) \o z
    BY DEF Pending
  <1> HIDE DEF x, y, z
  <1>4. (x \o y) \o z \in Seq(GoodChunk) /\ x \o (y \o z) = (x \o y) \o z
    BY <1>1, ConcatProperties, ConcatRegroup
  <1>5. <<>> \o <<>> = <<>> /\ <<>> \o z = z
    BY <1>1, ConcatEmptySeq
  <1> QED BY <1>1, <1>2, <1>3, <1>4, <1>5 DEF x, y, z

LEMMA AloneOf ==
  ASSUME RunsInv
  PROVE  /\ \A r \in Runs : at[r] # "idle" => processing /\ Alone(r)
         /\ \A r \in Runs : ~ processing => at[r] = "idle" /\ Alone(r)
         /\ \E r \in Runs : Alone(r)
  <1>1. \A r \in Runs : at[r] # "idle" => processing /\ Alone(r)
    BY DEF RunsInv, Alone
  <1>2. \A r \in Runs : ~ processing => at[r] = "idle" /\ Alone(r)
    BY DEF RunsInv, Alone
  <1>3. Runs # {} /\ processing \in BOOLEAN
    BY ConstantsAssumption DEF ConstantsAssumption, RunsInv
  <1>4. \E r \in Runs : Alone(r)
    <2>1. CASE processing
      BY <1>1, <2>1 DEF RunsInv
    <2>2. CASE ~ processing
      BY <1>2, <1>3, <2>2
    <2> QED BY <1>3, <2>1, <2>2
  <1> QED BY <1>1, <1>2, <1>4

(* What remains to be shown of a step during which at most run r goes on.  *)
LEMMA InvStep ==
  ASSUME LoggerInv, NEW r \in Runs, Alone(r),
         RestInv', Framed(r), RunInv(r)', processing' = (at'[r] # "idle"), Conserved(r)'
  PROVE  LoggerInv'
  <1>1. \A q \in Runs \ {r} : at'[q] = "idle" /\ input'[q] = <<>> /\ prepared'[q] = <<>>
    <2>1. \A q \in Runs \ {r} : at[q] = "idle" /\ input[q] = <<>> /\ prepared[q] = <<>>
      BY DEF Alone, LoggerInv, RunsInv, RunInv
    <2>2. \A q \in Runs \ {r} :
            at'[q] = at[q] /\ input'[q] = input[q] /\ prepared'[q] = prepared[q]
      BY DEF Framed
    <2> QED BY <2>1, <2>2
  <1>2. \A q \in Runs : RunInv(q)'
    BY <1>1 DEF RunInv
  <1>3. RunsInv'
    BY <1>1, <1>2 DEF RunsInv, Framed
  <1>4. ASSUME NEW q \in Runs, Alone(q)' PROVE Conserved(q)'
    <2>1. CASE q = r
      BY <2>1
    <2>2. CASE q # r
      <3>1. at'[r] = "idle"
        BY <1>4, <2>2 DEF Alone
      <3>2. input'[r] = <<>> /\ prepared'[r] = <<>>
        BY <3>1 DEF RunInv
      <3>3. Pending(q)' = Pending(r)'
        BY <1>1, <2>2, <3>2 DEF Pending
      <3> QED BY <3>3 DEF Conserved
    <2> QED BY <2>1, <2>2
  <1> QED BY <1>3, <1>4 DEF LoggerInv

LEMMA InvInit ==
  ASSUME Init
  PROVE  LoggerInv
  <1>1. RestInv
    <2>1. 0 \in 0 .. Len(Messages) /\ <<>> \in Seq(1 .. 0) /\ <<>> \in Seq(GoodChunk)
            /\ 0 \in 0 .. MaxFailures /\ GroupExists \in BOOLEAN
      BY ConstantsAssumption DEF ConstantsAssumption
    <2>2. FlushInv
      BY DEF Init, FlushInv
    <2>3. /\ flush \in [Flushes -> {"idle", "waiting", "done", "late"}]
          /\ mark \in [Flushes -> 0 .. logged] /\ timers \in 0 .. logged
      BY DEF Init
    <2>4. /\ logged \in 0 .. Len(Messages) /\ logEvents \in Seq(1 .. logged)
          /\ sent \in Seq(GoodChunk) /\ stored \in Seq(GoodChunk)
          /\ failures \in 0 .. MaxFailures
      BY <2>1 DEF Init
    <2> QED BY <2>1, <2>2, <2>3, <2>4 DEF Init, RestInv
  <1>2. RunsInv
    <2>1. \A r \in Runs : at[r] = "idle" /\ input[r] = <<>> /\ prepared[r] = <<>>
      BY DEF Init
    <2>2. /\ at \in [Runs -> Phases] /\ input \in [Runs -> Seq(GoodChunk)]
          /\ prepared \in [Runs -> Seq(GoodChunk)] /\ processing = FALSE
      BY DEF Init, Phases
    <2> QED BY <2>1, <2>2 DEF RunsInv, RunInv
  <1>3. ASSUME NEW r \in Runs PROVE Conserved(r)
    <2>1. AllChunks(logEvents) = <<>> /\ AllChunks(<<>>) = <<>>
      BY <1>1, QueueChunks DEF Init
    <2>2. Pending(r) = <<>>
      BY <1>1, <1>2, <2>1, PendingIs DEF Init
    <2>3. Logged = <<>>
      BY DEF Init, Logged
    <2>4. <<>> \o <<>> = <<>> /\ <<>> \in Seq(UpTo(logged)) /\ Ordered(<<>>)
      BY DEF Ordered
    <2> QED BY <2>1, <2>2, <2>3, <2>4 DEF Init, Conserved
  <1> QED BY <1>1, <1>2, <1>3 DEF LoggerInv

(* Steps of a run that neither log nor put.                                *)
LEMMA LoopInv ==
  ASSUME LoggerInv, NEW r \in Runs, Alone(r), at[r] # "put", Loop(r),
         logGroupVerified' \in BOOLEAN, logStreamCreated' \in BOOLEAN,
         group' \in BOOLEAN, timers' \in 0 .. timers, failures' = failures,
         UNCHANGED <<logged, sent, stored, flush, mark, setupFailed>>
  PROVE  LoggerInv'
  <1>1. RestInv /\ RunsInv /\ Conserved(r) /\ input[r] = <<>> /\ prepared[r] = <<>>
    BY DEF LoggerInv, RunsInv, RunInv
  <1>2. /\ Framed(r) /\ RunInv(r)'
        /\ processing' = (at'[r] # "idle")
        /\ Pending(r)' = AllChunks(logEvents)
        /\ logEvents' \in {logEvents, <<>>}
    BY <1>1, LoopStep
  <1>3. RestInv'
    <2>1. logEvents' \in Seq(1 .. logged)
      <3>1. logEvents \in Seq(1 .. logged) /\ <<>> \in Seq(1 .. logged)
        BY <1>1 DEF RestInv
      <3> QED BY <1>2, <3>1
    <2>2. timers' \in 0 .. logged
      BY <1>1 DEF RestInv
    <2>3. FlushInv'
      BY <1>1 DEF RestInv, FlushInv
    <2> QED BY <1>1, <2>1, <2>2, <2>3 DEF RestInv
  <1>4. Conserved(r)'
    <2>1. Pending(r)' = Pending(r)
      BY <1>1, <1>2, PendingIs
    <2> QED BY <1>1, <2>1 DEF Conserved, Logged
  <1> QED BY <1>2, <1>3, <1>4, InvStep

(* Steps that leave the runs and the chunks alone.                         *)
LEMMA QuietInv ==
  ASSUME LoggerInv, RestInv',
         UNCHANGED <<logged, logEvents, logGroupVerified, logStreamCreated, processing, at,
                     prepared, input, sent, stored>>
  PROVE  LoggerInv'
  <1>1. RunsInv'
    BY DEF LoggerInv, RunsInv, RunInv
  <1>2. ASSUME NEW r \in Runs, Alone(r)' PROVE Conserved(r)'
    <2>1. Conserved(r)
      BY <1>2 DEF LoggerInv, Alone
    <2> QED BY <2>1 DEF Conserved, Pending, Logged
  <1> QED BY <1>1, <1>2 DEF LoggerInv

LEMMA FlushSteps ==
  ASSUME LoggerInv, NEW f \in Flushes, CallFlush(f) \/ FlushReturns(f) \/ FlushLate(f)
  PROVE  LoggerInv'
  <1>1. RestInv /\ RunsInv
    BY DEF LoggerInv
  <1>2. CASE CallFlush(f)
    <2>1. /\ flush' = [flush EXCEPT ![f] = "waiting"] /\ mark' = [mark EXCEPT ![f] = logged]
          /\ UNCHANGED <<logged, logEvents, logGroupVerified, logStreamCreated, processing,
                         timers, at, prepared, input, group, sent, stored, failures,
                         setupFailed>>
      BY <1>2 DEF CallFlush
    <2>2. logged \in 0 .. logged
      BY <1>1 DEF RestInv
    <2>3. FlushInv'
      <3>1. \A g \in Flushes : flush'[g] = "done" => flush[g] = "done" /\ mark'[g] = mark[g]
        BY <1>1, <2>1 DEF RestInv
      <3> QED BY <1>1, <2>1, <3>1 DEF RestInv, FlushInv
    <2>4. RestInv'
      BY <1>1, <2>1, <2>2, <2>3 DEF RestInv
    <2> QED BY <2>1, <2>4, QuietInv
  <1>3. CASE FlushReturns(f)
    <2>1. /\ flush' = [flush EXCEPT ![f] = "done"] /\ Drained
          /\ UNCHANGED <<logged, logEvents, logGroupVerified, logStreamCreated, processing,
                         timers, at, prepared, input, group, sent, stored, mark, failures,
                         setupFailed>>
      BY <1>3 DEF FlushReturns
    <2>2. sent = AllChunks(Logged)
      <3>1. PICK r \in Runs : at[r] = "idle" /\ Alone(r)
        BY <1>1, <2>1, AloneOf DEF Drained
      <3>2. Pending(r) = <<>>
        BY <1>1, <2>1, <3>1, PendingIs, QueueChunks DEF Drained
      <3>3. sent \o Pending(r) = AllChunks(Logged) /\ sent \in Seq(GoodChunk)
        BY <1>1, <3>1 DEF LoggerInv, Conserved, RestInv
      <3> QED BY <3>2, <3>3, ConcatEmptySeq
    <2>3. IsPrefix(AllChunks(First(mark[f])), sent)
      <3> DEFINE m == mark[f]
                 t == [k \in 1 .. logged - m |-> m + k]
      <3>1. m \in 0 .. logged /\ logged \in 0 .. Len(Messages) /\ Len(Messages) \in Nat
        BY <1>1, ConstantsAssumption DEF RestInv, ConstantsAssumption
      <3> HIDE DEF m
      <3>2. First(m) \in Seq(Events) /\ Len(First(m)) = m
             /\ \A n \in 1 .. m : First(m)[n] = n
        <4>1. First(m) \in [1 .. m -> Events]
          BY <3>1 DEF First, Events
        <4> QED BY <3>1, <4>1 DEF First
      <3>3. t \in Seq(Events) /\ Len(t) = logged - m
        <4>1. t \in [1 .. logged - m -> Events] /\ logged - m \in Nat
          BY <3>1 DEF Events
        <4> QED BY <4>1
      <3>4. \A n \in 1 .. logged - m : t[n] = m + n
        OBVIOUS
      <3> HIDE DEF t
      <3> DEFINE c == First(m) \o t
      <3>5. c \in Seq(Events) /\ Len(c) = logged /\ \A n \in 1 .. logged : c[n] = n
        <4>1. /\ c \in Seq(Events) /\ Len(c) = Len(First(m)) + Len(t)
              /\ \A n \in 1 .. Len(First(m)) + Len(t) :
                   c[n] = IF n <= Len(First(m)) THEN First(m)[n] ELSE t[n - Len(First(m))]
          BY <3>2, <3>3, ConcatProperties
        <4> HIDE DEF c
        <4>2. Len(c) = logged /\ \A n \in 1 .. logged : c[n] = IF n <= m THEN First(m)[n] ELSE t[n - m]
          BY <3>1, <3>2, <3>3, <4>1
        <4>3. ASSUME NEW n \in 1 .. logged PROVE c[n] = n
          <5>1. CASE n <= m
            <6>1. n \in 1 .. m
              BY <3>1, <5>1
            <6> QED BY <3>2, <4>2, <5>1, <6>1
          <5>2. CASE ~ (n <= m)
            <6>1. n - m \in 1 .. logged - m /\ m + (n - m) = n
              BY <3>1, <5>2
            <6> QED BY <3>4, <4>2, <5>2, <6>1
          <5> QED BY <5>1, <5>2
        <4> QED BY <4>1, <4>2, <4>3
      <3> HIDE DEF c
      <3>6. c = Logged
        <4>1. Logged \in Seq(Events) /\ Len(Logged) = logged
               /\ \A n \in 1 .. logged : Logged[n] = n
          BY <1>1, <3>1, QueueChunks DEF Logged
        <4> QED BY <3>5, <4>1, SeqEqual
      <3>7. AllChunks(First(m) \o t) = AllChunks(First(m)) \o AllChunks(t)
              /\ AllChunks(First(m)) \in Seq(GoodChunk) /\ AllChunks(t) \in Seq(GoodChunk)
        BY <3>2, <3>3, AllChunksIs
      <3>8. IsPrefix(AllChunks(First(m)), AllChunks(First(m)) \o AllChunks(t))
        BY <3>7, PrefixIs
      <3> QED BY <2>2, <3>6, <3>7, <3>8 DEF c, m
    <2>4. FlushInv'
      <3>1. \A g \in Flushes : flush'[g] = "done" => g = f \/ flush[g] = "done"
        BY <1>1, <2>1 DEF RestInv
      <3> QED BY <1>1, <2>1, <2>3, <3>1 DEF RestInv, FlushInv
    <2>5. RestInv'
      BY <1>1, <2>1, <2>4 DEF RestInv
    <2> QED BY <2>1, <2>5, QuietInv
  <1>4. CASE FlushLate(f)
    <2>1. /\ flush' = [flush EXCEPT ![f] = "late"]
          /\ UNCHANGED <<logged, logEvents, logGroupVerified, logStreamCreated, processing,
                         timers, at, prepared, input, group, sent, stored, mark, failures,
                         setupFailed>>
      BY <1>4 DEF FlushLate
    <2>2. FlushInv'
      <3>1. \A g \in Flushes : flush'[g] = "done" => flush[g] = "done"
        BY <1>1, <2>1 DEF RestInv
      <3> QED BY <1>1, <2>1, <3>1 DEF RestInv, FlushInv
    <2>3. RestInv'
      BY <1>1, <2>1, <2>2 DEF RestInv
    <2> QED BY <2>1, <2>3, QuietInv
  <1> QED BY <1>2, <1>3, <1>4

LEMMA OtherCreatesGroupStep ==
  ASSUME LoggerInv, OtherCreatesGroup
  PROVE  LoggerInv'
  <1>1. /\ group' = TRUE
        /\ UNCHANGED <<logged, logEvents, logGroupVerified, logStreamCreated, processing,
                       timers, at, prepared, input, sent, stored, flush, mark, failures,
                       setupFailed>>
    BY DEF OtherCreatesGroup, flushVars
  <1>2. RestInv'
    BY <1>1 DEF LoggerInv, RestInv, FlushInv
  <1> QED BY <1>1, <1>2, QuietInv

LEMMA TimerStep ==
  ASSUME LoggerInv, NEW r \in Runs, Timer(r)
  PROVE  LoggerInv'
  <1>1. /\ RestInv /\ RunsInv /\ at[r] = "idle" /\ timers > 0 /\ timers' = timers - 1
        /\ UNCHANGED <<logged, logGroupVerified, logStreamCreated, group, sent, stored,
                       flush, mark, failures, setupFailed>>
    BY DEF LoggerInv, Timer, flushVars
  <1>2. timers' \in 0 .. timers /\ timers' \in 0 .. logged
    BY <1>1 DEF RestInv
  <1>3. CASE MayStart
    <2>1. Loop(r) /\ Alone(r)
      BY <1>1, <1>3, AloneOf DEF Timer, MayStart
    <2>2. logGroupVerified' \in BOOLEAN /\ logStreamCreated' \in BOOLEAN /\ group' \in BOOLEAN
      BY <1>1 DEF RestInv
    <2> QED BY <1>1, <1>2, <2>1, <2>2, LoopInv
  <1>4. CASE ~ MayStart
    <2>1. UNCHANGED <<at, logEvents, prepared, input, processing>>
      BY <1>4 DEF Timer
    <2>2. RestInv'
      BY <1>1, <1>2, <2>1 DEF RestInv, FlushInv
    <2> QED BY <1>1, <2>1, <2>2, QuietInv
  <1> QED BY <1>3, <1>4

LEMMA DescribeStep ==
  ASSUME LoggerInv, NEW r \in Runs, Describe(r)
  PROVE  LoggerInv'
  <1>1. /\ RestInv /\ RunsInv /\ at[r] = "describe" /\ logGroupVerified' = group
        /\ UNCHANGED <<logged, logStreamCreated, timers, group, sent, stored, flush, mark,
                       failures, setupFailed>>
    BY DEF LoggerInv, Describe, flushVars
  <1>2. Alone(r) /\ processing
    BY <1>1, AloneOf
  <1>3. timers' \in 0 .. timers /\ group \in BOOLEAN /\ logStreamCreated' \in BOOLEAN
    BY <1>1 DEF RestInv
  <1>4. CASE group
    <2>1. Loop(r)
      BY <1>4 DEF Describe
    <2> QED BY <1>1, <1>2, <1>3, <2>1, LoopInv
  <1>5. CASE ~ group
    <2>1. Await(r, "createGroup") /\ processing' = processing /\ "createGroup" \in Phases
      BY <1>5 DEF Describe, Phases
    <2>2. Framed(r) /\ at'[r] = "createGroup" /\ input'[r] = input[r]
            /\ prepared'[r] = prepared[r] /\ logEvents' = logEvents
      BY <1>1, <2>1, AwaitStep
    <2>3. RestInv'
      BY <1>1, <1>3, <2>2 DEF RestInv, FlushInv
    <2>4. RunInv(r)' /\ processing' = (at'[r] # "idle")
      <3>1. input[r] = <<>> /\ prepared[r] = <<>> /\ processing \in BOOLEAN
        BY <1>1 DEF RunsInv, RunInv
      <3> QED BY <1>2, <2>1, <2>2, <3>1 DEF RunInv
    <2>5. Conserved(r)'
      BY <1>1, <1>2, <2>2 DEF LoggerInv, Conserved, Pending, Logged
    <2> QED BY <1>2, <2>2, <2>3, <2>4, <2>5, InvStep
  <1> QED BY <1>3, <1>4, <1>5

LEMMA CreateLogGroupStep ==
  ASSUME LoggerInv, NEW r \in Runs, CreateLogGroup(r)
  PROVE  LoggerInv'
  <1>1. /\ RestInv /\ RunsInv /\ at[r] = "createGroup" /\ group' = TRUE
        /\ logGroupVerified' = TRUE /\ Loop(r)
        /\ UNCHANGED <<logged, logStreamCreated, timers, sent, stored, flush, mark,
                       failures, setupFailed>>
    BY DEF LoggerInv, CreateLogGroup, flushVars
  <1>2. Alone(r)
    BY <1>1, AloneOf
  <1>3. timers' \in 0 .. timers /\ logStreamCreated' \in BOOLEAN
    BY <1>1 DEF RestInv
  <1> QED BY <1>1, <1>2, <1>3, LoopInv

LEMMA CreateLogStreamStep ==
  ASSUME LoggerInv, NEW r \in Runs, CreateLogStream(r)
  PROVE  LoggerInv'
  <1>1. /\ RestInv /\ RunsInv /\ at[r] = "createStream"
        /\ logStreamCreated' = TRUE /\ Loop(r)
        /\ UNCHANGED <<logged, logGroupVerified, timers, group, sent, stored, flush, mark,
                       failures, setupFailed>>
    BY DEF LoggerInv, CreateLogStream, flushVars
  <1>2. Alone(r)
    BY <1>1, AloneOf
  <1>3. timers' \in 0 .. timers /\ logGroupVerified' \in BOOLEAN /\ group' \in BOOLEAN
    BY <1>1 DEF RestInv
  <1> QED BY <1>1, <1>2, <1>3, LoopInv

LEMMA SetupFailsStep ==
  ASSUME LoggerInv, NEW r \in Runs, SetupFails(r)
  PROVE  LoggerInv'
  <1>1. /\ RestInv /\ RunsInv /\ at[r] \in {"describe", "createGroup", "createStream"}
        /\ EndRun(r) /\ processing' = FALSE /\ setupFailed' = TRUE
        /\ failures' = failures \/ (failures < MaxFailures /\ failures' = failures + 1)
        /\ group' \in {group, TRUE}
        /\ UNCHANGED <<logged, logGroupVerified, logStreamCreated, timers, sent, stored,
                       flush, mark>>
    BY DEF LoggerInv, SetupFails, flushVars
  <1>2. Alone(r)
    BY <1>1, AloneOf
  <1>3. Framed(r) /\ at'[r] = "idle" /\ input'[r] = <<>> /\ prepared'[r] = <<>>
          /\ logEvents' = logEvents
    BY <1>1, EndStep
  <1>4. failures' \in 0 .. MaxFailures
    BY <1>1, ConstantsAssumption DEF RestInv, ConstantsAssumption
  <1>5. RestInv'
    BY <1>1, <1>3, <1>4 DEF RestInv, FlushInv
  <1>6. RunInv(r)' /\ processing' = (at'[r] # "idle")
    BY <1>1, <1>3 DEF RunInv
  <1>7. Conserved(r)'
    <2>1. input[r] = <<>> /\ prepared[r] = <<>>
      BY <1>1 DEF RunsInv, RunInv
    <2> QED BY <1>1, <1>2, <1>3, <2>1 DEF LoggerInv, Conserved, Pending, Logged
  <1> QED BY <1>2, <1>3, <1>5, <1>6, <1>7, InvStep

(* A batch leaves the run, and the store has it or not.                    *)
LEMMA PutLogEventsStep ==
  ASSUME LoggerInv, NEW r \in Runs, PutLogEvents(r)
  PROVE  LoggerInv'
  <1> DEFINE x == input[r]
             y == prepared[r]
             z == AllChunks(logEvents)
  <1>1. /\ RestInv /\ RunsInv /\ at[r] = "put" /\ sent' = sent \o x
        /\ \/ stored' = stored \o x /\ failures' = failures
           \/ stored' = stored /\ failures < MaxFailures /\ failures' = failures + 1
        /\ UNCHANGED <<logged, logGroupVerified, logStreamCreated, timers, group, flush, mark,
                       setupFailed>>
    BY DEF LoggerInv, PutLogEvents, flushVars
  <1>2. Alone(r) /\ processing /\ Conserved(r) /\ logGroupVerified /\ logStreamCreated
    BY <1>1, AloneOf DEF LoggerInv, RunsInv, RunInv
  <1>3. x \in Seq(GoodChunk) /\ y \in Seq(GoodChunk) /\ z \in Seq(GoodChunk)
          /\ Pending(r) = x \o (y \o z)
    BY <1>1, PendingIs
  <1>4. /\ Framed(r) /\ RunInv(r)'
        /\ processing' = (at'[r] # "idle")
        /\ Pending(r)' = y \o z
        /\ logEvents' \in {logEvents, <<>>}
    <2>1. CASE y = <<>>
      <3>1. Loop(r)
        BY <2>1 DEF PutLogEvents
      <3>2. <<>> \o z = z
        BY <1>3, ConcatEmptySeq
      <3>3. /\ Framed(r) /\ RunInv(r)'
            /\ processing' = (at'[r] # "idle")
            /\ Pending(r)' = AllChunks(logEvents)
            /\ logEvents' \in {logEvents, <<>>}
        BY <1>1, <1>2, <2>1, <3>1, LoopStep
      <3> QED BY <2>1, <3>2, <3>3
    <2>2. CASE y # <<>>
      <3>1. FillRequest(r, <<>> \o y) /\ logEvents' = logEvents /\ processing' = processing
        BY <2>2 DEF PutLogEvents, KeepInput
      <3>2. <<>> \o y = y
        BY <1>3, ConcatEmptySeq
      <3>3. FillRequest(r, y)
        BY <3>1, <3>2
      <3>4. /\ Framed(r) /\ at'[r] = "put" /\ input'[r] \o prepared'[r] = y
            /\ input'[r] # <<>> /\ Bytes(input'[r]) <= MaxBatch
        <4> HIDE DEF y
        <4> QED BY <1>1, <1>3, <2>2, <3>3, FillStep
      <3>5. RunInv(r)'
        BY <1>1, <1>2, <3>4 DEF RunInv
      <3>6. Pending(r)' = y \o z
        BY <3>1, <3>4 DEF Pending
      <3>7. processing' = TRUE
        BY <1>1, <1>2, <3>1 DEF RunsInv
      <3> QED BY <3>1, <3>4, <3>5, <3>6, <3>7
    <2> QED BY <2>1, <2>2
  <1>5. /\ sent \in Seq(GoodChunk) /\ stored \in Seq(GoodChunk)
        /\ sent \o (x \o (y \o z)) = AllChunks(Logged)
        /\ stored \o (x \o (y \o z)) \in Seq(UpTo(logged))
        /\ Ordered(stored \o (x \o (y \o z)))
    BY <1>1, <1>2, <1>3 DEF Conserved, RestInv
  <1> HIDE DEF x, y, z
  <1> DEFINE w == y \o z
  <1>6. w \in Seq(GoodChunk)
    BY <1>3, ConcatProperties
  <1>7. Pending(r)' = w
    BY <1>4
  <1>8. /\ sent \o (x \o w) = AllChunks(Logged)
        /\ stored \o (x \o w) \in Seq(UpTo(logged))
        /\ Ordered(stored \o (x \o w))
    BY <1>5
  <1> HIDE DEF w
  <1>9. (sent \o x) \o w = sent \o (x \o w) /\ (stored \o x) \o w = stored \o (x \o w)
    <2>1. sent \in Seq(GoodChunk) /\ stored \in Seq(GoodChunk) /\ x \in Seq(GoodChunk)
      BY <1>3, <1>5
    <2>2. sent \o (x \o w) = (sent \o x) \o w
      BY <1>6, <2>1, ConcatRegroup
    <2>3. stored \o (x \o w) = (stored \o x) \o w
      BY <1>6, <2>1, ConcatRegroup
    <2> QED BY <2>2, <2>3
  <1>10. sent \o x \in Seq(GoodChunk) /\ stored \o x \in Seq(GoodChunk)
    BY <1>3, <1>5, ConcatProperties
  <1>11. stored \o w \in Seq(UpTo(logged)) /\ Ordered(stored \o w)
    <2>1. Ordered(stored \o w)
      BY <1>3, <1>5, <1>6, <1>8, OrderedWithout
    <2>2. stored \o w \in Seq(UpTo(logged))
      BY <1>3, <1>5, <1>6, <1>8, UpToWithout
    <2> QED BY <2>1, <2>2
  <1>12. Conserved(r)'
    <2>1. sent' \o Pending(r)' = AllChunks(Logged)
      BY <1>1, <1>7, <1>8, <1>9
    <2>2. stored' \o Pending(r)' \in Seq(UpTo(logged)) /\ Ordered(stored' \o Pending(r)')
      BY <1>1, <1>7, <1>8, <1>9, <1>11
    <2> QED BY <1>1, <2>1, <2>2 DEF Conserved, Logged
  <1>13. RestInv'
    <2>1. failures' \in 0 .. MaxFailures
      BY <1>1, ConstantsAssumption DEF RestInv, ConstantsAssumption
    <2>2. logEvents' \in Seq(1 .. logged)
      <3>1. logEvents \in Seq(1 .. logged) /\ <<>> \in Seq(1 .. logged)
        BY <1>1 DEF RestInv
      <3> QED BY <1>4, <3>1
    <2>3. sent' \in Seq(GoodChunk) /\ stored' \in Seq(GoodChunk)
      BY <1>1, <1>5, <1>10
    <2>4. FlushInv'
      <3>1. ASSUME NEW f \in Flushes, flush[f] = "done"
            PROVE  IsPrefix(AllChunks(First(mark[f])), sent \o x)
        <4> DEFINE p == AllChunks(First(mark[f]))
        <4>1. IsPrefix(p, sent) /\ p \in Seq(GoodChunk)
          <5>1. First(mark[f]) \in Seq(Events)
            <6>1. mark[f] \in 0 .. logged /\ logged \in 0 .. Len(Messages)
              BY <1>1 DEF RestInv
            <6> QED BY <6>1, FirstIs
          <5> QED BY <1>1, <3>1, <5>1, AllChunksIs DEF RestInv, FlushInv
        <4> HIDE DEF p
        <4>2. PICK u \in Seq(GoodChunk) : sent = p \o u
          <5>1. sent \in Seq(GoodChunk)
            BY <1>5
          <5>2. IsPrefix(p, sent) => \E u \in Seq(GoodChunk) : sent = p \o u
            BY <4>1, <5>1, PrefixIs
          <5> QED BY <4>1, <5>2
        <4>3. sent \o x = p \o (u \o x) /\ u \o x \in Seq(GoodChunk)
          <5>1. x \in Seq(GoodChunk) /\ p \in Seq(GoodChunk)
            BY <1>3, <4>1
          <5>2. p \o (u \o x) = (p \o u) \o x
            BY <5>1, ConcatRegroup
          <5>3. u \o x \in Seq(GoodChunk)
            BY <5>1, ConcatProperties
          <5> QED BY <4>2, <5>2, <5>3
        <4>4. IsPrefix(p, p \o (u \o x))
          BY <4>1, <4>3, PrefixIs
        <4> QED BY <4>3, <4>4 DEF p
      <3> QED BY <1>1, <3>1 DEF FlushInv
    <2> QED BY <1>1, <2>1, <2>2, <2>3, <2>4 DEF RestInv
  <1> QED BY <1>2, <1>4, <1>12, <1>13, InvStep

(* The chunks of a new event follow all others.                            *)
LEMMA OrderedLonger ==
  ASSUME NEW n \in Nat, NEW e \in Events, n < e,
         NEW s \in Seq(GoodChunk), s \in Seq(UpTo(n)), Ordered(s)
  PROVE  s \o Chunks[e] \in Seq(UpTo(e)) /\ Ordered(s \o Chunks[e])
  <1> DEFINE t == Chunks[e]
  <1>1. t \in Seq(GoodChunk) /\ Ordered(t) /\ \A k \in DOMAIN t : t[k].event = e
    BY ChunksIs
  <1> HIDE DEF t
  <1>2. UpTo(n) \subseteq UpTo(e)
    <2>1. ASSUME NEW c \in GoodChunk, c.event <= n PROVE c.event <= e
      <3>1. c.event \in Nat /\ e \in Nat
        BY GoodChunkIs DEF Events
      <3> QED BY <2>1, <3>1
    <2> QED BY <2>1 DEF UpTo
  <1>3. s \in Seq(UpTo(e))
    BY <1>2, SeqMonotonic
  <1>4. t \in Seq(UpTo(e))
    <2>1. Len(t) \in Nat /\ DOMAIN t = 1 .. Len(t) /\ \A k \in 1 .. Len(t) : t[k] \in GoodChunk
      BY <1>1
    <2>2. \A k \in 1 .. Len(t) : t[k] \in UpTo(e)
      BY <1>1, <2>1 DEF UpTo, Events
    <2>3. t \in [1 .. Len(t) -> UpTo(e)]
      <3>1. t = [k \in DOMAIN t |-> t[k]]
        BY <1>1
      <3> QED BY <2>1, <2>2, <3>1
    <2> QED BY <2>1, <2>3
  <1>5. s \o t \in Seq(UpTo(e))
    BY <1>3, <1>4, ConcatProperties
  <1>6. \A i \in DOMAIN s : \A j \in DOMAIN t : Before(s[i], t[j])
    <2>1. ASSUME NEW i \in DOMAIN s PROVE s[i].event < e
      <3>1. s[i] \in UpTo(n)
        BY ElementOfSeq
      <3>2. s[i].event \in Nat /\ s[i].event <= n
        BY <3>1, GoodChunkIs DEF UpTo
      <3> DEFINE k == s[i].event
      <3>3. k \in Nat /\ k <= n /\ e \in Nat
        BY <3>2 DEF Events
      <3> HIDE DEF k
      <3>4. k < e
        BY <3>3
      <3> QED BY <3>4 DEF k
    <2> QED BY <1>1, <2>1 DEF Before
  <1>7. Ordered(s \o t)
    BY <1>1, <1>6, OrderedConcat
  <1> QED BY <1>5, <1>7 DEF t

LEMMA LogStep ==
  ASSUME LoggerInv, Log
  PROVE  LoggerInv'
  <1> DEFINE e == logged + 1
             t == Chunks[e]
  <1>1. /\ RestInv /\ RunsInv /\ logged < Len(Messages) /\ logged' = e
        /\ logEvents' = Append(logEvents, e) /\ timers' = timers + 1 /\ setupFailed' = FALSE
        /\ UNCHANGED <<logGroupVerified, logStreamCreated, processing, at, prepared, input,
                       group, sent, stored, flush, mark, failures>>
    BY DEF LoggerInv, Log, flushVars
  <1>2. logged \in Nat /\ e \in Events /\ logged < e /\ Len(Messages) \in Nat
          /\ e \in 0 .. Len(Messages)
    BY <1>1, ConstantsAssumption DEF RestInv, Events, ConstantsAssumption
  <1>3. RestInv'
    <2>1. logEvents' \in Seq(1 .. logged')
      <3>1. 1 .. logged \subseteq 1 .. e /\ e \in 1 .. e
        BY <1>2
      <3>2. logEvents \in Seq(1 .. e)
        BY <1>1, <3>1, SeqMonotonic DEF RestInv
      <3> HIDE DEF e
      <3>3. Append(logEvents, e) \in Seq(1 .. e)
        BY <3>1, <3>2, AppendProperties
      <3> QED BY <1>1, <3>3
    <2>2. timers' \in 0 .. logged' /\ mark' \in [Flushes -> 0 .. logged']
      <3>1. timers \in 0 .. logged /\ mark \in [Flushes -> 0 .. logged]
        BY <1>1 DEF RestInv
      <3>2. 0 .. logged \subseteq 0 .. e
        BY <1>2
      <3>3. timers + 1 \in 0 .. e
        BY <1>2, <3>1
      <3>4. mark \in [Flushes -> 0 .. e]
        BY <3>1, <3>2
      <3> QED BY <1>1, <3>3, <3>4
    <2>3. FlushInv'
      BY <1>1 DEF RestInv, FlushInv
    <2> QED BY <1>1, <1>2, <2>1, <2>2, <2>3 DEF RestInv
  <1>4. PICK r \in Runs : Alone(r)
    BY <1>1, AloneOf
  <1>5. Conserved(r)
    BY <1>4 DEF LoggerInv
  <1> DEFINE w == Pending(r)
             x == input[r] \o prepared[r]
             z == AllChunks(logEvents)
  <1>6. w \in Seq(GoodChunk) /\ sent \in Seq(GoodChunk) /\ stored \in Seq(GoodChunk)
          /\ t \in Seq(GoodChunk) /\ x \in Seq(GoodChunk) /\ z \in Seq(GoodChunk) /\ w = x \o z
    <2>1. input[r] \in Seq(GoodChunk) /\ prepared[r] \in Seq(GoodChunk) /\ z \in Seq(GoodChunk)
      BY <1>1, PendingIs
    <2>2. x \in Seq(GoodChunk)
      BY <2>1, ConcatProperties
    <2> QED BY <1>1, <1>2, <2>1, <2>2, ChunksIs, PendingIs DEF RestInv, Pending
  <1>7. AllChunks(logEvents') = z \o t
    <2>1. logEvents \in Seq(Events) /\ <<e>> \in Seq(Events)
      BY <1>1, <1>2, QueueChunks
    <2> HIDE DEF e
    <2>2. Append(logEvents, e) = logEvents \o <<e>>
      BY <1>2, <2>1, AppendProperties
    <2>3. AllChunks(logEvents \o <<e>>) = AllChunks(logEvents) \o AllChunks(<<e>>)
            /\ AllChunks(<<e>>) = Chunks[e]
      BY <1>2, <2>1, AllChunksIs
    <2> QED BY <1>1, <2>2, <2>3
  <1>8. AllChunks(Logged)' = AllChunks(Logged) \o t
    <2>1. Logged \in Seq(Events) /\ <<e>> \in Seq(Events)
      BY <1>1, <1>2, QueueChunks
    <2>2. Logged' = Logged \o <<e>>
      <3>1. Logged' = [k \in 1 .. e |-> k] /\ Logged = [k \in 1 .. logged |-> k]
        BY <1>1 DEF Logged
      <3> DEFINE a == [k \in 1 .. e |-> k]
                 b == [k \in 1 .. logged |-> k]
      <3>2. a \in Seq(Nat) /\ Len(a) = e /\ b \in Seq(Nat) /\ Len(b) = logged
        BY <1>2
      <3>3. b \o <<e>> = a
        BY <1>2
      <3> QED BY <3>1, <3>3
    <2> HIDE DEF e
    <2>3. AllChunks(Logged \o <<e>>) = AllChunks(Logged) \o AllChunks(<<e>>)
            /\ AllChunks(<<e>>) = Chunks[e]
      BY <1>2, <2>1, AllChunksIs
    <2>4. AllChunks(Logged)' = AllChunks(Logged')
      BY DEF AllChunks
    <2> QED BY <2>2, <2>3, <2>4
  <1>9. /\ sent \o w = AllChunks(Logged)
        /\ stored \o w \in Seq(UpTo(logged)) /\ Ordered(stored \o w)
    BY <1>5 DEF Conserved
  <1>10. Pending(r)' = x \o AllChunks(logEvents')
    BY <1>1 DEF Pending, AllChunks
  <1> HIDE DEF t, w, x, z
  <1>11. Pending(r)' = w \o t
    <2>1. x \o (z \o t) = (x \o z) \o t
      BY <1>6, ConcatRegroup
    <2> QED BY <1>6, <1>7, <1>10, <2>1
  <1>12. sent \o (w \o t) = (sent \o w) \o t /\ stored \o (w \o t) = (stored \o w) \o t
    <2>0. sent \in Seq(GoodChunk) /\ stored \in Seq(GoodChunk) /\ w \in Seq(GoodChunk)
            /\ t \in Seq(GoodChunk)
      BY <1>6
    <2>1. sent \o (w \o t) = (sent \o w) \o t
      BY <2>0, ConcatRegroup
    <2>2. stored \o (w \o t) = (stored \o w) \o t
      BY <2>0, ConcatRegroup
    <2> QED BY <2>1, <2>2
  <1>13. (stored \o w) \o t \in Seq(UpTo(e)) /\ Ordered((stored \o w) \o t)
    <2>1. stored \o w \in Seq(GoodChunk)
      BY <1>6, ConcatProperties
    <2> HIDE DEF e
    <2> QED BY <1>2, <1>9, <2>1, OrderedLonger DEF t
  <1>14. Conserved(r)'
    <2>1. sent' \o Pending(r)' = AllChunks(Logged)'
      BY <1>1, <1>8, <1>9, <1>11, <1>12
    <2>2. stored' \o Pending(r)' \in Seq(UpTo(logged')) /\ Ordered(stored' \o Pending(r)')
      BY <1>1, <1>11, <1>12, <1>13
    <2> QED BY <2>1, <2>2 DEF Conserved, UpTo
  <1>15. Framed(r) /\ RunInv(r)' /\ processing' = (at'[r] # "idle")
    <2>1. Framed(r)
      BY <1>1 DEF RunsInv, Framed
    <2>2. RunInv(r)'
      BY <1>1 DEF RunsInv, RunInv
    <2>3. processing = (at[r] # "idle")
      BY <1>1, <1>4 DEF RunsInv, Alone
    <2> QED BY <1>1, <2>1, <2>2, <2>3
  <1> QED BY <1>3, <1>4, <1>14, <1>15, InvStep

LEMMA InvNext ==
  ASSUME LoggerInv, [Next]_vars
  PROVE  LoggerInv'
  <1>1. CASE Log
    BY <1>1, LogStep
  <1>2. ASSUME NEW r \in Runs, RunStep(r) \/ SetupFails(r) PROVE LoggerInv'
    <2>1. Timer(r) \/ Describe(r) \/ CreateLogGroup(r) \/ CreateLogStream(r)
            \/ PutLogEvents(r) \/ SetupFails(r)
      BY <1>2 DEF RunStep
    <2> QED BY <2>1, TimerStep, DescribeStep, CreateLogGroupStep, CreateLogStreamStep,
               PutLogEventsStep, SetupFailsStep
  <1>3. CASE OtherCreatesGroup
    BY <1>3, OtherCreatesGroupStep
  <1>4. ASSUME NEW f \in Flushes, CallFlush(f) \/ FlushReturns(f) \/ FlushLate(f)
        PROVE  LoggerInv'
    BY <1>4, FlushSteps
  <1>5. CASE UNCHANGED vars
    <2>1. UNCHANGED <<logged, logEvents, logGroupVerified, logStreamCreated, processing, at,
                      prepared, input, sent, stored, timers, group, flush, mark, failures,
                      setupFailed>>
      BY <1>5 DEF vars
    <2>2. RestInv'
      BY <2>1 DEF LoggerInv, RestInv, FlushInv
    <2> QED BY <2>1, <2>2, QuietInv
  <1> QED BY <1>1, <1>2, <1>3, <1>4, <1>5 DEF Next

(* All of the invariant, for any messages, limits, runs and failures.      *)
THEOREM LoggerInvariant == Spec => []LoggerInv
  <1>1. Init => LoggerInv
    BY InvInit
  <1>2. LoggerInv /\ [Next]_vars => LoggerInv'
    BY InvNext
  <1> QED BY <1>1, <1>2, PTL DEF Spec

-----------------------------------------------------------------------------
(* The bytes of chunks in UTF-8, against those that byteSubString counts.  *)

Low(e, n) == IF Messages[e][n] = "low" THEN 3 ELSE 0
High(e, n) == IF Messages[e][n] = "high" THEN 1 ELSE 0

LEMMA Utf8Is ==
  ASSUME NEW e \in 1 .. Len(Messages)
  PROVE  /\ Utf8[e] \in [0 .. Len(Messages[e]) -> Nat]
         /\ \A n \in 1 .. Len(Messages[e]) :
              /\ Counted[e][n] - Counted[e][n - 1] = Utf8[e][n] - Utf8[e][n - 1] + Low(e, n)
              /\ Utf8[e][n] - Utf8[e][n - 1] >= High(e, n)
         /\ \A i \in 0 .. Len(Messages[e]) : \A n \in i .. Len(Messages[e]) :
              Utf8[e][i] <= Utf8[e][n]
  <1> DEFINE m == Len(Messages[e])
             bytes == [one |-> 1, two |-> 2, three |-> 3, high |-> 4, low |-> 0]
             s == [n \in DOMAIN Messages[e] |-> bytes[Messages[e][n]]]
  <1>1. m \in Nat /\ DOMAIN Messages[e] = 1 .. m /\ \A n \in 1 .. m : Messages[e][n] \in CodeUnit
    BY MessageIs
  <1>2. \A u \in CodeUnit :
          /\ bytes[u] \in Nat
          /\ CodePointLength[u] = bytes[u] + (IF u = "low" THEN 3 ELSE 0)
          /\ bytes[u] >= (IF u = "high" THEN 1 ELSE 0)
    BY DEF CodeUnit, CodePointLength
  <1>3. Utf8[e] = Sums(s)
    BY MessageIs DEF Utf8
  <1> HIDE DEF m, bytes
  <1>4. \A n \in 1 .. m :
          /\ s[n] = bytes[Messages[e][n]] /\ s[n] \in Nat
          /\ CodePointLength[Messages[e][n]] = s[n] + Low(e, n)
          /\ s[n] >= High(e, n)
    BY <1>1, <1>2 DEF Low, High
  <1>5. s \in Seq(Nat) /\ Len(s) = m
    <2>1. s \in [1 .. m -> Nat]
      BY <1>1, <1>4
    <2> QED BY <1>1, <2>1
  <1> HIDE DEF s
  <1>6. /\ Sums(s) \in [0 .. m -> Nat]
        /\ \A n \in 1 .. m : Sums(s)[n] = Sums(s)[n - 1] + s[n]
    BY <1>5, SumsStep
  <1>7. \A i \in 0 .. m : \A n \in i .. m : Sums(s)[i] <= Sums(s)[n]
    BY <1>5, SumsGrow
  <1>8. ASSUME NEW n \in 1 .. m
        PROVE  /\ Counted[e][n] - Counted[e][n - 1] = Utf8[e][n] - Utf8[e][n - 1] + Low(e, n)
               /\ Utf8[e][n] - Utf8[e][n - 1] >= High(e, n)
    <2> DEFINE a == Counted[e][n]
               b == Counted[e][n - 1]
               c == Sums(s)[n]
               d == Sums(s)[n - 1]
               u == s[n]
               l == Low(e, n)
               h == High(e, n)
    <2>1. n - 1 \in 0 .. m /\ n \in 0 .. m
      BY <1>1
    <2>2. a \in Nat /\ b \in Nat /\ a = b + CodePointLength[Messages[e][n]]
      BY <2>1, CountedIs DEF m
    <2>3. c \in Nat /\ d \in Nat /\ c = d + u
      BY <1>6, <2>1
    <2>4. u \in Nat /\ l \in Nat /\ h \in Nat /\ u >= h
      BY <1>4 DEF Low, High
    <2>5. a = b + (u + l)
      BY <1>4, <2>2
    <2> HIDE DEF a, b, c, d, u, l, h
    <2>6. a - b = c - d + l /\ c - d >= h
      BY <2>2, <2>3, <2>4, <2>5
    <2> QED BY <1>3, <2>6 DEF a, b, c, d, l, h
  <1> QED BY <1>3, <1>6, <1>7, <1>8 DEF m

(* Up to any code unit, byteSubString counts no less than a part has, and  *)
(* this difference never shrinks.                                          *)
LEMMA ExcessGrows ==
  ASSUME NEW e \in 1 .. Len(Messages),
         NEW i \in 0 .. Len(Messages[e]), NEW n \in i .. Len(Messages[e])
  PROVE  Utf8[e][n] - Utf8[e][i] <= Counted[e][n] - Counted[e][i]
  <1> DEFINE m == Len(Messages[e])
             f == Counted[e]
             g == Utf8[e]
             T == {k \in Nat : i + k <= m => g[i + k] - g[i] <= f[i + k] - f[i]}
  <1>1. m \in Nat /\ i \in 0 .. m /\ n \in i .. m
    BY MessageIs
  <1>2. /\ f \in [0 .. m -> Nat] /\ g \in [0 .. m -> Nat]
        /\ \A k \in 1 .. m : f[k] - f[k - 1] = g[k] - g[k - 1] + Low(e, k)
    BY CountedIs, Utf8Is
  <1>3. \A k \in 1 .. m : Low(e, k) \in Nat
    BY DEF Low
  <1> HIDE DEF m, f, g
  <1>4. 0 \in T
    <2>1. i + 0 = i /\ f[i] \in Nat /\ g[i] \in Nat
      BY <1>1, <1>2
    <2>2. g[i] - g[i] <= f[i] - f[i]
      <3> DEFINE x == f[i]
                 y == g[i]
      <3>1. x \in Nat /\ y \in Nat
        BY <2>1
      <3> HIDE DEF x, y
      <3>2. y - y <= x - x
        BY <3>1
      <3> QED BY <3>2 DEF x, y
    <2> QED BY <2>1, <2>2
  <1>5. ASSUME NEW k \in Nat, i + (k + 1) <= m, g[i + k] - g[i] <= f[i + k] - f[i]
        PROVE  g[i + (k + 1)] - g[i] <= f[i + (k + 1)] - f[i]
    <2> DEFINE j == i + (k + 1)
               a == f[j]
               b == f[i + k]
               c == f[i]
               u == g[j]
               v == g[i + k]
               w == g[i]
               l == Low(e, j)
    <2>1. j \in 1 .. m /\ j - 1 = i + k /\ i + k \in 0 .. m /\ j \in 0 .. m
      BY <1>1, <1>5
    <2>2. a \in Nat /\ b \in Nat /\ c \in Nat /\ u \in Nat /\ v \in Nat /\ w \in Nat
      BY <1>1, <1>2, <2>1
    <2>3. l \in Nat
      BY <1>3, <2>1
    <2>4. a - b = u - v + l
      <3> HIDE DEF j
      <3> QED BY <1>2, <2>1
    <2>5. v - w <= b - c
      BY <1>5
    <2> HIDE DEF a, b, c, u, v, w, l, j
    <2>6. u - w <= a - c
      BY <2>2, <2>3, <2>4, <2>5
    <2> QED BY <2>6 DEF a, c, u, w, j
  <1>6. \A k \in Nat : k \in T => k + 1 \in T
    <2>1. \A k \in Nat : i + (k + 1) <= m => i + k <= m
      BY <1>1
    <2> QED BY <1>5, <2>1
  <1> HIDE DEF T
  <1>7. n - i \in Nat /\ i + (n - i) = n
    BY <1>1
  <1>8. n - i \in T
    BY <1>4, <1>6, <1>7, Induction
  <1> QED BY <1>1, <1>7, <1>8 DEF T, f, g

LEMMA Utf8Fits ==
  ASSUME NEW c \in GoodChunk
  PROVE  /\ Utf8Length(c) \in Nat /\ Utf8Length(c) <= MaxMessage
         /\ Utf8Length(c) + Overhead <= c.byteLength
  <1> DEFINE e == c.event
             i == c.from
             n == c.to
             m == Len(Messages[e])
             f == Counted[e]
             g == Utf8[e]
  <1>1. /\ e \in 1 .. Len(Messages) /\ i \in Nat \ {0} /\ n \in Nat \ {0} /\ i <= n /\ n <= m
        /\ c.byteLength \in Nat /\ c.byteLength <= MaxMessage + Overhead
        /\ c.byteLength = f[n] - f[i - 1] + Overhead
    BY GoodChunkIs
  <1>2. m \in Nat
    BY <1>1, MessageIs
  <1>3. Utf8Length(c) = g[n] - g[i - 1] + Low(e, i) - High(e, n)
    BY DEF Utf8Length, Low, High
  <1> HIDE DEF e, i, n, m
  <1>4. /\ i \in 1 .. m /\ n \in 1 .. m /\ n \in i .. m /\ i \in 0 .. m /\ n \in 0 .. m
        /\ i - 1 \in 0 .. m /\ n - 1 \in 0 .. m /\ n - 1 \in i - 1 .. m
    BY <1>1, <1>2
  <1>5. /\ f \in [0 .. m -> Nat] /\ g \in [0 .. m -> Nat]
        /\ f[i] - f[i - 1] = g[i] - g[i - 1] + Low(e, i)
        /\ g[n] - g[n - 1] >= High(e, n)
        /\ g[i - 1] <= g[n - 1]
    BY <1>1, <1>4, CountedIs, Utf8Is DEF m
  <1>6. g[n] - g[i] <= f[n] - f[i]
    BY <1>1, <1>4, ExcessGrows DEF m
  <1> DEFINE f0 == f[i - 1]
             f1 == f[i]
             f2 == f[n]
             g0 == g[i - 1]
             g1 == g[i]
             g2 == g[n]
             g3 == g[n - 1]
             l == Low(e, i)
             h == High(e, n)
             b == c.byteLength
  <1>7. /\ f0 \in Nat /\ f1 \in Nat /\ f2 \in Nat /\ g0 \in Nat /\ g1 \in Nat
        /\ g2 \in Nat /\ g3 \in Nat
    BY <1>4, <1>5
  <1>8. l \in Nat /\ h \in Nat
    BY DEF Low, High
  <1>9. /\ f1 - f0 = g1 - g0 + l /\ g2 - g3 >= h /\ g0 <= g3 /\ g2 - g1 <= f2 - f1
        /\ b \in Nat /\ b <= MaxMessage + Overhead /\ b = f2 - f0 + Overhead
        /\ Utf8Length(c) = g2 - g0 + l - h
    BY <1>1, <1>3, <1>5, <1>6
  <1> HIDE DEF f0, f1, f2, g0, g1, g2, g3, l, h, b
  <1>10. /\ g2 - g0 + l - h \in Nat /\ g2 - g0 + l - h <= f2 - f0
         /\ f2 - f0 <= MaxMessage
    BY <1>7, <1>8, <1>9, Limits
  <1> DEFINE x == g2 - g0 + l - h
  <1>11. x \in Nat /\ x <= MaxMessage /\ x + Overhead <= b
    BY <1>7, <1>9, <1>10, Limits
  <1> QED BY <1>9, <1>11 DEF b

-----------------------------------------------------------------------------
(* The properties.                                                         *)

LEMMA InvTypeOK == LoggerInv /\ stream \in BOOLEAN => TypeOK
  <1> SUFFICES ASSUME LoggerInv, stream \in BOOLEAN PROVE TypeOK
    OBVIOUS
  <1>1. GoodChunk \subseteq Chunk
    BY DEF GoodChunk
  <1>2. Seq(GoodChunk) \subseteq Seq(Chunk)
    BY <1>1, SeqMonotonic
  <1>3. logged \in 0 .. Len(Messages) /\ Len(Messages) \in Nat
    BY ConstantsAssumption DEF LoggerInv, RestInv, ConstantsAssumption
  <1>4. logEvents \in Seq(1 .. Len(Messages))
    BY QueueChunks DEF LoggerInv, Events
  <1>5. timers \in 0 .. Len(Messages) /\ mark \in [Flushes -> 0 .. Len(Messages)]
    <2>1. 0 .. logged \subseteq 0 .. Len(Messages)
      BY <1>3
    <2>2. timers \in 0 .. logged /\ mark \in [Flushes -> 0 .. logged]
      BY DEF LoggerInv, RestInv
    <2> QED BY <2>1, <2>2
  <1>6. /\ at \in [Runs -> {"idle", "describe", "createGroup", "createStream", "put"}]
        /\ processing \in BOOLEAN
    BY DEF LoggerInv, RunsInv, Phases
  <1>7. /\ input \in [Runs -> Seq(Chunk)] /\ prepared \in [Runs -> Seq(Chunk)]
        /\ sent \in Seq(Chunk) /\ stored \in Seq(Chunk)
    BY <1>2 DEF LoggerInv, RunsInv, RestInv
  <1> QED BY <1>3, <1>4, <1>5, <1>6, <1>7 DEF LoggerInv, RestInv, TypeOK

LEMMA InvNothingLost == LoggerInv => NothingLostInside
  <1> SUFFICES ASSUME LoggerInv PROVE NothingLostInside
    OBVIOUS
  <1>1. RestInv /\ RunsInv
    BY DEF LoggerInv
  <1>2. PICK r \in Runs : Alone(r)
    BY <1>1, AloneOf
  <1>3. \A q \in Runs \ {r} : input[q] = <<>> /\ prepared[q] = <<>>
    BY <1>1, <1>2 DEF Alone, RunsInv, RunInv
  <1> DEFINE x == input[r]
             y == prepared[r]
             z == AllChunks(logEvents)
             w == (sent \o x) \o y
  <1>4. x \in Seq(GoodChunk) /\ y \in Seq(GoodChunk) /\ z \in Seq(GoodChunk)
          /\ sent \in Seq(GoodChunk) /\ Pending(r) = x \o (y \o z)
    BY <1>1, PendingIs DEF RestInv
  <1>5. sent \o Pending(r) = AllChunks(Logged)
    BY <1>2 DEF LoggerInv, Conserved
  <1>6. Text(z) = TextOf(logEvents) /\ Text(AllChunks(Logged)) = TextOf(Logged)
    BY <1>1, QueueChunks, TextKept
  <1> HIDE DEF x, y, z
  <1>7. sent \o x \in Seq(GoodChunk) /\ w \in Seq(GoodChunk) /\ y \o z \in Seq(GoodChunk)
    BY <1>4, ConcatProperties
  <1>8. sent \o (x \o (y \o z)) = w \o z
    <2> DEFINE a == sent \o x
               b == y \o z
    <2>1. a \in Seq(GoodChunk) /\ b \in Seq(GoodChunk)
      BY <1>7
    <2>2. a \o (y \o z) = (a \o y) \o z
      <3>1. y \in Seq(GoodChunk) /\ z \in Seq(GoodChunk)
        BY <1>4
      <3> HIDE DEF a
      <3> QED BY <2>1, <3>1, ConcatRegroup
    <2>3. sent \o (x \o b) = (sent \o x) \o b
      <3> HIDE DEF b
      <3>1. sent \in Seq(GoodChunk) /\ x \in Seq(GoodChunk)
        BY <1>4
      <3> QED BY <2>1, <3>1, ConcatRegroup
    <2> QED BY <2>2, <2>3
  <1> HIDE DEF w
  <1>9. Text(w \o z) = Text(w) \o Text(z)
    BY <1>4, <1>7, TextConcat
  <1>10. Text(w) \o TextOf(logEvents) = TextOf(Logged)
    BY <1>4, <1>5, <1>6, <1>8, <1>9
  <1> QED BY <1>3, <1>10 DEF NothingLostInside, w, x, y

LEMMA InvStoredInOrder == LoggerInv => StoredInOrder
  <1> SUFFICES ASSUME LoggerInv PROVE StoredInOrder
    OBVIOUS
  <1>1. RestInv /\ RunsInv
    BY DEF LoggerInv
  <1>2. PICK r \in Runs : Alone(r)
    BY <1>1, AloneOf
  <1>3. Ordered(stored \o Pending(r))
    BY <1>2 DEF LoggerInv, Conserved
  <1>4. stored \in Seq(GoodChunk) /\ Pending(r) \in Seq(GoodChunk)
    BY <1>1, PendingIs DEF RestInv
  <1>5. Ordered(stored)
    BY <1>3, <1>4, OrderedConcat
  <1> QED BY <1>5 DEF Ordered, Before, StoredInOrder

LEMMA InvRequestsFit == LoggerInv => RequestsFit
  <1> SUFFICES ASSUME LoggerInv, NEW r \in Runs, at[r] = "put"
      PROVE  /\ input[r] # <<>>
             /\ \A k \in DOMAIN input[r] : Utf8Length(input[r][k]) <= MaxMessage
             /\ Sums([k \in DOMAIN input[r] |-> Utf8Length(input[r][k]) + Overhead])[Len(input[r])]
                  <= MaxBatch
    BY DEF RequestsFit
  <1> DEFINE s == input[r]
             m == Len(s)
             a == [k \in DOMAIN s |-> Utf8Length(s[k]) + Overhead]
             b == ByteLengths(s)
  <1>1. s \in Seq(GoodChunk) /\ s # <<>> /\ Bytes(s) <= MaxBatch
    BY DEF LoggerInv, RunsInv, RunInv
  <1> HIDE DEF s
  <1>2. m \in Nat /\ DOMAIN s = 1 .. m /\ \A k \in 1 .. m : s[k] \in GoodChunk
    BY <1>1
  <1>3. \A k \in 1 .. m : /\ Utf8Length(s[k]) \in Nat /\ Utf8Length(s[k]) <= MaxMessage
                          /\ Utf8Length(s[k]) + Overhead <= s[k].byteLength
    BY <1>2, Utf8Fits
  <1>4. b \in Seq(Nat) /\ Len(b) = m /\ \A k \in 1 .. m : b[k] = s[k].byteLength
    BY <1>1, ByteLengthsIs
  <1>5. Bytes(s) = Sums(b)[m]
    BY DEF Bytes, ByteLengths
  <1> HIDE DEF m, b
  <1>6. \A k \in 1 .. m : a[k] = Utf8Length(s[k]) + Overhead /\ a[k] \in Nat
    BY <1>2, <1>3, Limits
  <1>7. a \in Seq(Nat) /\ Len(a) = m
    <2>1. a \in [1 .. m -> Nat]
      BY <1>2, <1>6
    <2> HIDE DEF a
    <2> QED BY <1>2, <2>1
  <1> HIDE DEF a
  <1>8. Sums(a)[m] <= Sums(b)[m]
    <2>1. m \in 0 .. Len(a) /\ m <= Len(b) /\ \A k \in 1 .. m : a[k] <= b[k]
      BY <1>2, <1>3, <1>4, <1>6, <1>7
    <2> QED BY <1>4, <1>7, <2>1, SumsCompare
  <1>9. Sums(a)[m] \in Nat /\ Sums(b)[m] \in Nat
    <2>1. Sums(a) \in [0 .. m -> Nat] /\ Sums(b) \in [0 .. m -> Nat]
      BY <1>4, <1>7, SumsStep
    <2> QED BY <1>2, <2>1
  <1>10. Sums(a)[m] <= MaxBatch
    <2> DEFINE x == Sums(a)[m]
               y == Sums(b)[m]
    <2>1. x \in Nat /\ y \in Nat /\ x <= y /\ y <= MaxBatch
      BY <1>1, <1>5, <1>8, <1>9
    <2> HIDE DEF x, y
    <2>2. x <= MaxBatch
      BY <2>1, Limits
    <2> QED BY <2>2 DEF x
  <1> QED BY <1>1, <1>2, <1>3, <1>10 DEF s, m, a

LEMMA InvFlushComplete == LoggerInv => FlushComplete
  <1> SUFFICES ASSUME LoggerInv, NEW f \in Flushes, flush[f] = "done"
      PROVE  IsPrefix(TextOf([e \in 1 .. mark[f] |-> e]), Text(sent))
    BY DEF FlushComplete
  <1> DEFINE q == First(mark[f])
             p == AllChunks(q)
  <1>1. q \in Seq(Events) /\ sent \in Seq(GoodChunk)
    <2>1. mark[f] \in 0 .. logged /\ logged \in 0 .. Len(Messages) /\ sent \in Seq(GoodChunk)
      BY DEF LoggerInv, RestInv
    <2> QED BY <2>1, FirstIs
  <1>2. IsPrefix(p, sent)
    BY DEF LoggerInv, RestInv, FlushInv
  <1>3. q = [e \in 1 .. mark[f] |-> e]
    BY DEF First
  <1> HIDE DEF q
  <1>4. p \in Seq(GoodChunk) /\ Text(p) = TextOf(q)
    BY <1>1, AllChunksIs, TextKept
  <1> HIDE DEF p
  <1>5. PICK u \in Seq(GoodChunk) : sent = p \o u
    BY <1>1, <1>2, <1>4, PrefixIs
  <1>6. Text(sent) = Text(p) \o Text(u) /\ Text(p) \in Seq(CodeUnits) /\ Text(u) \in Seq(CodeUnits)
    BY <1>4, <1>5, TextConcat
  <1> DEFINE x == Text(p)
             y == Text(u)
  <1> HIDE DEF x, y
  <1>7. IsPrefix(x, x \o y)
    BY <1>6, PrefixIs DEF x, y
  <1> QED BY <1>3, <1>4, <1>6, <1>7 DEF x, y

(* Whether the stream exists is a Boolean.                                 *)
StreamInv == stream \in BOOLEAN

LEMMA StreamInvariant == Spec => []StreamInv
  <1>1. Init => StreamInv
    BY DEF Init, StreamInv
  <1>2. StreamInv /\ [Next]_vars => StreamInv'
    <2> SUFFICES ASSUME StreamInv, [Next]_vars PROVE stream' \in BOOLEAN
      BY DEF StreamInv
    <2> USE DEF StreamInv
    <2>1. CASE Log \/ OtherCreatesGroup \/ UNCHANGED vars
      BY <2>1 DEF Log, OtherCreatesGroup, vars
    <2>2. ASSUME NEW r \in Runs, RunStep(r) \/ SetupFails(r) PROVE stream' \in BOOLEAN
      BY <2>2
      DEF RunStep, Timer, Describe, CreateLogGroup, CreateLogStream, PutLogEvents, SetupFails
    <2>3. ASSUME NEW f \in Flushes, CallFlush(f) \/ FlushReturns(f) \/ FlushLate(f)
          PROVE  stream' \in BOOLEAN
      BY <2>3 DEF CallFlush, FlushReturns, FlushLate
    <2> QED BY <2>1, <2>2, <2>3 DEF Next
  <1> QED BY <1>1, <1>2, PTL DEF Spec

(* Every variable of the logger has its type: what is prepared, sent and   *)
(* stored are parts of messages, with bytes within the limits.             *)
THEOREM LoggerTypes == Spec => []TypeOK
  <1>1. LoggerInv /\ StreamInv => TypeOK
    BY InvTypeOK DEF StreamInv
  <1> QED BY <1>1, LoggerInvariant, StreamInvariant, PTL

(* Cutting, batching, the requests that fail and the runs that overlap     *)
(* neither lose nor repeat a code unit before it is handed to CloudWatch.  *)
THEOREM LoggerKeepsText == Spec => []NothingLostInside
  BY LoggerInvariant, InvNothingLost, PTL

(* The log stream is in the order of logging, whatever requests fail.      *)
THEOREM LoggerKeepsOrder == Spec => []StoredInOrder
  BY LoggerInvariant, InvStoredInOrder, PTL

(* Requests are never empty and never too large in bytes.                  *)
THEOREM LoggerRequestsFit == Spec => []RequestsFit
  BY LoggerInvariant, InvRequestsFit, PTL

(* A flush() that returns in time has what was logged before it handed     *)
(* over.                                                                   *)
THEOREM LoggerFlushes == Spec => []FlushComplete
  BY LoggerInvariant, InvFlushComplete, PTL
=============================================================================
