------------------------ MODULE InsertConsumeProofs ------------------------
(***************************************************************************)
(* What insertConsume leaves of the uses of a value, for any number of     *)
(* uses and any threads that copy them, as long as the number of a thread  *)
(* is one digit.                                                           *)
(***************************************************************************)
EXTENDS InsertConsume, BasicFacts, FiniteSetTheorems, TLAPS

\* The threads are numbered with one digit, so the last digit of a function's
\* name tells its thread (CodeTransformation.cpp:707).
OneDigit == MAX_THREAD <= 10

-----------------------------------------------------------------------------
(* Taking the elements that exist                                           *)

Takes(s, m, g) ==
    g = [n \in 0 .. m |->
            IF n = 0 THEN <<>>
            ELSE IF Existing(s[n]) THEN Append(g[n - 1], s[n]) ELSE g[n - 1]]

LEMMA TakesExist == ASSUME NEW s, NEW m \in Nat PROVE \E g : Takes(s, m, g)
<1> DEFINE T == {n \in 0 .. m : \E g : Takes(s, n, g)}
<1>1. 0 \in T
  <2>1. Takes(s, 0, [k \in 0 .. 0 |-> <<>>])
    BY DEF Takes
  <2> QED BY <2>1
<1>2. ASSUME NEW n \in 0 .. m - 1, n \in T PROVE n + 1 \in T
  <2>1. PICK g : Takes(s, n, g)
    BY <1>2
  <2> DEFINE h == [k \in 0 .. n + 1 |->
                      IF k = n + 1
                      THEN IF Existing(s[k]) THEN Append(g[k - 1], s[k]) ELSE g[k - 1]
                      ELSE g[k]]
  <2>2. n \in Nat /\ n + 1 \in 0 .. m
    OBVIOUS
  <2>3. \A k \in 0 .. n : g[k] = IF k = 0 THEN <<>>
                                 ELSE IF Existing(s[k]) THEN Append(g[k - 1], s[k]) ELSE g[k - 1]
    BY <2>1 DEF Takes
  <2>4. ASSUME NEW k \in 0 .. n + 1
        PROVE  h[k] = IF k = 0 THEN <<>>
                      ELSE IF Existing(s[k]) THEN Append(h[k - 1], s[k]) ELSE h[k - 1]
    <3>1. k # 0 => k - 1 \in 0 .. n + 1 /\ k - 1 # n + 1
      BY <2>2
    <3>2. k # 0 => h[k - 1] = g[k - 1]
      BY <3>1
    <3>3. CASE k = n + 1
      BY <2>2, <3>2, <3>3
    <3>4. CASE k # n + 1
      <4>1. k \in 0 .. n /\ h[k] = g[k]
        BY <2>2, <3>4
      <4> QED BY <2>3, <3>2, <4>1
    <3> QED BY <3>3, <3>4
  <2>5. Takes(s, n + 1, h)
    BY <2>4 DEF Takes
  <2> QED BY <2>2, <2>5
<1> HIDE DEF T
<1>3. m \in T
  <2>1. 0 .. m \subseteq T
    BY <1>1, <1>2, UpTo
  <2> QED BY <2>1
<1> QED BY <1>3 DEF T

\* What is taken are the elements that exist, and what holds of any two
\* elements of the sequence in their order holds of those taken.
LEMMA TakenFacts ==
  ASSUME NEW X, NEW s \in Seq(X), NEW R,
         \A j, k \in 1 .. Len(s) : j < k => <<s[j], s[k]>> \in R
  PROVE  /\ ThoseExisting(s) \in Seq(X)
         /\ Listed(ThoseExisting(s)) = {x \in Listed(s) : Existing(x)}
         /\ \A j, k \in 1 .. Len(ThoseExisting(s)) :
               j < k => <<ThoseExisting(s)[j], ThoseExisting(s)[k]>> \in R
<1> DEFINE m == Len(s)
           g == CHOOSE h : Takes(s, m, h)
           Upto(n) == {s[i] : i \in 1 .. n}
           T == {n \in 0 .. m : /\ g[n] \in Seq(X)
                                /\ Listed(g[n]) = {x \in Upto(n) : Existing(x)}
                                /\ \A j, k \in 1 .. Len(g[n]) : j < k => <<g[n][j], g[n][k]>> \in R}
<1>0. m \in Nat
  OBVIOUS
<1>1. Takes(s, m, g)
  BY <1>0, TakesExist
<1>2. ThoseExisting(s) = g[m]
  BY DEF ThoseExisting, Takes
<1> HIDE DEF g
<1>3. \A n \in 0 .. m : g[n] = IF n = 0 THEN <<>>
                               ELSE IF Existing(s[n]) THEN Append(g[n - 1], s[n]) ELSE g[n - 1]
  BY <1>1 DEF Takes
<1>4. 0 \in T
  <2>1. g[0] = <<>> /\ 0 \in 0 .. m
    BY <1>0, <1>3
  <2>2. Upto(0) = {} /\ Listed(<<>>) = {} /\ Len(<<>>) = 0 /\ 1 .. 0 = {}
    BY EmptyFacts
  <2>3. <<>> \in Seq(X) /\ {x \in {} : Existing(x)} = {}
    OBVIOUS
  <2> HIDE DEF Upto
  <2> QED BY <2>1, <2>2, <2>3
<1>5. ASSUME NEW n \in 0 .. m - 1, n \in T PROVE n + 1 \in T
  <2> DEFINE r == g[n]
             x == s[n + 1]
  <2>1. n \in Nat /\ n + 1 \in 1 .. m /\ n + 1 \in 0 .. m /\ n + 1 # 0 /\ (n + 1) - 1 = n
    BY <1>0
  <2>2. x \in X
    BY <2>1
  <2>3. /\ r \in Seq(X) /\ Listed(r) = {y \in Upto(n) : Existing(y)}
        /\ \A j, k \in 1 .. Len(r) : j < k => <<r[j], r[k]>> \in R
    BY <1>5
  <2>4. Upto(n + 1) = Upto(n) \cup {x}
    <3>1. \A i : i \in 1 .. n + 1 <=> i \in 1 .. n \/ i = n + 1
      BY <2>1
    <3> QED BY <3>1
  <2>5. g[n + 1] = IF Existing(x) THEN Append(r, x) ELSE r
    BY <1>3, <2>1
  <2>6. \A y \in Upto(n) : <<y, x>> \in R
    <3>1. \A i \in 1 .. n : i \in 1 .. m /\ i < n + 1
      BY <2>1
    <3> QED BY <2>1, <3>1
  <2> HIDE DEF r, x, T, Upto, m
  <2>7. CASE ~Existing(x)
    <3>1. Listed(r) = {y \in Upto(n + 1) : Existing(y)}
      BY <2>3, <2>4, <2>7
    <3> QED BY <2>1, <2>3, <2>5, <2>7, <3>1 DEF T
  <2>8. CASE Existing(x)
    <3>1. /\ Append(r, x) \in Seq(X) /\ Len(r) \in Nat /\ Len(Append(r, x)) = Len(r) + 1
          /\ \A k \in 1 .. Len(r) : Append(r, x)[k] = r[k]
          /\ Append(r, x)[Len(r) + 1] = x
      BY <2>2, <2>3
    <3>2. Listed(Append(r, x)) = Listed(r) \cup {x}
      BY <2>2, <2>3, AppendFacts
    <3>3. Listed(Append(r, x)) = {y \in Upto(n + 1) : Existing(y)}
      BY <2>3, <2>4, <2>8, <3>2
    <3>4. ASSUME NEW j \in 1 .. Len(Append(r, x)), NEW k \in 1 .. Len(Append(r, x)), j < k
          PROVE  <<Append(r, x)[j], Append(r, x)[k]>> \in R
      <4>1. j \in 1 .. Len(r) /\ (k \in 1 .. Len(r) \/ k = Len(r) + 1)
        BY <3>1, <3>4
      <4>2. r[j] \in Upto(n)
        BY <2>3, <4>1 DEF Listed
      <4> QED BY <2>3, <2>6, <3>1, <3>4, <4>1, <4>2
    <3> QED BY <2>1, <2>5, <2>8, <3>1, <3>3, <3>4 DEF T
  <2> QED BY <2>7, <2>8
<1>6. m \in T
  <2> HIDE DEF T, m
  <2>1. 0 .. m \subseteq T
    BY <1>0, <1>4, <1>5, UpTo
  <2> QED BY <1>0, <2>1
<1>7. Upto(m) = Listed(s)
  BY DEF Listed
<1> QED BY <1>2, <1>6, <1>7
-----------------------------------------------------------------------------
(* The two lists at the start                                               *)

LEMMA Grid ==
  ASSUME NEW b \in Nat, NEW m \in Nat, NEW n \in 1 .. b * m
  PROVE  /\ (n - 1) \div b \in 0 .. m - 1
         /\ (n - 1) % b \in 0 .. b - 1
         /\ n - 1 = b * ((n - 1) \div b) + ((n - 1) % b)
<1>1. b # 0 /\ n - 1 \in Nat /\ n - 1 < b * m
  OBVIOUS
<1> DEFINE q == (n - 1) \div b
           r == (n - 1) % b
<1>2. q \in Nat /\ r \in 0 .. b - 1 /\ n - 1 = b * q + r
  BY <1>1
<1> HIDE DEF q, r
<1>3. q < m
  <2> SUFFICES ASSUME m <= q PROVE FALSE
    BY <1>2
  <2>1. b * m <= b * q
    BY <1>2
  <2> QED BY <1>1, <1>2, <2>1
<1> QED BY <1>2, <1>3 DEF q, r

LEMMA GridOnto ==
  ASSUME NEW b \in Nat, NEW m \in Nat, NEW q \in 0 .. m - 1, NEW r \in 0 .. b - 1
  PROVE  \E n \in 1 .. b * m : (n - 1) \div b = q /\ (n - 1) % b = r
<1> DEFINE n == b * q + r + 1
<1>1. n \in 1 .. b * m /\ n - 1 = b * q + r
  OBVIOUS
<1>2. (b * q + r) \div b = q /\ (b * q + r) % b = r
  OBVIOUS
<1> QED BY <1>1, <1>2

\* The threads copy the instructions in program order.
Ordered == \A n \in Uses : order[n] = n

\* What two elements of the lists are to each other: not the same, and of one
\* thread the later use comes first.
Downwards == {p \in (Uses \X Later) \X (Uses \X Later) :
                 /\ p[1] # p[2]
                 /\ Ordered /\ p[1][2] = p[2][2] => p[1][1] > p[2][1]}

IsDown(s) == \A j, k \in 1 .. Len(s) : j < k => <<s[j], s[k]>> \in Downwards

LEMMA Sizes == /\ NumUses \in Nat /\ NumUses > 0 /\ MAX_THREAD - 1 \in Nat
               /\ NumUses * (MAX_THREAD - 1) \in Nat
               /\ NumUses * (MAX_THREAD - 1) = (MAX_THREAD - 1) * NumUses
  BY UsesAssumption

LEMMA NewestFirstFacts ==
  ASSUME Init
  PROVE  /\ NewestFirst \in Seq(Uses \X Later)
         /\ Clones \subseteq Listed(NewestFirst)
         /\ IsDown(NewestFirst)
<1> DEFINE N == NumUses
           M == MAX_THREAD - 1
           q(n) == (n - 1) \div N
           r(n) == (n - 1) % N
           s == NewestFirst
<1>1. N \in Nat /\ N > 0 /\ M \in Nat /\ N * M \in Nat
  BY Sizes
<1>2. order \in [Uses -> Uses] /\ \A v \in Uses : \E n \in Uses : order[n] = v
  BY DEF Init
<1>3. \A n \in 1 .. N * M : /\ q(n) \in 0 .. M - 1 /\ r(n) \in 0 .. N - 1
                            /\ n - 1 = N * q(n) + r(n)
  BY <1>1, Grid
<1>4. \A a \in 0 .. M - 1, b \in 0 .. N - 1 : \E n \in 1 .. N * M : q(n) = a /\ r(n) = b
  BY <1>1, GridOnto
<1>5. \A n \in 1 .. N * M : s[n] = <<order[N - r(n)], M - q(n)>>
  BY DEF NewestFirst
<1>6. DOMAIN s = 1 .. N * M
  BY DEF NewestFirst
<1> HIDE DEF q, r, s
<1>7. \A n \in 1 .. N * M : N - r(n) \in Uses /\ M - q(n) \in Later
  BY <1>1, <1>3 DEF Uses, Later
<1>8. \A n \in 1 .. N * M : s[n] \in Uses \X Later
  BY <1>2, <1>5, <1>7
<1>9. s \in Seq(Uses \X Later) /\ Len(s) = N * M
  <2> HIDE DEF N, M
  <2>1. s = [n \in 1 .. N * M |-> s[n]]
    BY <1>6 DEF s, NewestFirst, N, M
  <2>2. s \in [1 .. N * M -> Uses \X Later]
    BY <1>8, <2>1
  <2> QED BY <1>1, <2>2
<1>10. ASSUME NEW c \in Clones PROVE c \in Listed(s)
  <2>1. c[1] \in Uses /\ c[2] \in Later /\ c = <<c[1], c[2]>>
    BY DEF Clones
  <2>2. PICK v \in Uses : order[v] = c[1]
    BY <1>2, <2>1
  <2>3. M - c[2] \in 0 .. M - 1 /\ N - v \in 0 .. N - 1
    BY <1>1, <2>1, <2>2 DEF Uses, Later
  <2>4. PICK n \in 1 .. N * M : q(n) = M - c[2] /\ r(n) = N - v
    BY <1>4, <2>3
  <2>5. N - r(n) = v /\ M - q(n) = c[2]
    BY <1>1, <2>1, <2>4 DEF Uses, Later
  <2>6. s[n] = c
    BY <1>5, <2>1, <2>2, <2>5
  <2> QED BY <1>9, <2>6 DEF Listed
<1>11. order \in Injection(Uses, Uses)
  <2>1. order \in Surjection(Uses, Uses)
    BY <1>2 DEF Surjection
  <2>2. IsFiniteSet(Uses)
    BY <1>1, FS_Interval DEF Uses
  <2> QED BY <2>1, <2>2, FS_SurjSameCardinalityImpliesInj
<1>12. \A a, b \in Uses : order[a] = order[b] => a = b
  BY <1>11 DEF Injection, IsInjective
<1>13. ASSUME NEW j \in 1 .. N * M, NEW k \in 1 .. N * M, j < k
       PROVE  <<s[j], s[k]>> \in Downwards
  <2>1. /\ s[j] = <<order[N - r(j)], M - q(j)>> /\ s[k] = <<order[N - r(k)], M - q(k)>>
        /\ N - r(j) \in Uses /\ N - r(k) \in Uses /\ s[j] \in Uses \X Later
        /\ s[k] \in Uses \X Later
    BY <1>5, <1>7, <1>8
  <2>2. /\ q(j) \in Int /\ q(k) \in Int /\ r(j) \in Int /\ r(k) \in Int
        /\ j - 1 = N * q(j) + r(j) /\ k - 1 = N * q(k) + r(k)
    BY <1>3
  <2>3. M - q(j) = M - q(k) => r(j) < r(k)
    BY <1>1, <1>13, <2>2
  <2>4. s[j] # s[k]
    <3> SUFFICES ASSUME s[j] = s[k] PROVE FALSE
      OBVIOUS
    <3>0. <<order[N - r(j)], M - q(j)>> = <<order[N - r(k)], M - q(k)>>
      BY <2>1
    <3>1. M - q(j) = M - q(k) /\ order[N - r(j)] = order[N - r(k)]
      BY <3>0, Zenon
    <3>2. N - r(j) = N - r(k)
      BY <1>12, <2>1, <3>1
    <3> QED BY <1>1, <2>2, <2>3, <3>1, <3>2
  <2>5. ASSUME Ordered, s[j][2] = s[k][2] PROVE s[j][1] > s[k][1]
    <3>1. r(j) < r(k)
      BY <2>1, <2>3, <2>5
    <3>2. s[j][1] = N - r(j) /\ s[k][1] = N - r(k)
      BY <2>1, <2>5 DEF Ordered
    <3> QED BY <1>1, <2>2, <3>1, <3>2
  <2> QED BY <2>1, <2>4, <2>5 DEF Downwards
<1>14. IsDown(s)
  BY <1>9, <1>13 DEF IsDown
<1> QED BY <1>9, <1>10, <1>14 DEF s

LEMMA UseByUseFacts ==
  /\ UseByUse \in Seq(Uses \X Later)
  /\ Clones \subseteq Listed(UseByUse)
  /\ IsDown(UseByUse)
<1> DEFINE N == NumUses
           M == MAX_THREAD - 1
           q(n) == (n - 1) \div M
           r(n) == (n - 1) % M
           s == UseByUse
<1>1. N \in Nat /\ N > 0 /\ M \in Nat /\ N * M \in Nat /\ N * M = M * N
  BY Sizes
<1>3. \A n \in 1 .. N * M : /\ q(n) \in 0 .. N - 1 /\ r(n) \in 0 .. M - 1
                            /\ n - 1 = M * q(n) + r(n)
  <2> HIDE DEF N, M
  <2> QED BY <1>1, Grid
<1>4. \A a \in 0 .. N - 1, b \in 0 .. M - 1 : \E n \in 1 .. N * M : q(n) = a /\ r(n) = b
  <2> TAKE a \in 0 .. N - 1, b \in 0 .. M - 1
  <2> HIDE DEF N, M
  <2>1. \E n \in 1 .. M * N : (n - 1) \div M = a /\ (n - 1) % M = b
    BY <1>1, GridOnto
  <2>2. PICK n \in 1 .. M * N : (n - 1) \div M = a /\ (n - 1) % M = b
    BY <2>1
  <2>3. n \in 1 .. N * M /\ q(n) = a /\ r(n) = b
    BY <1>1, <2>2
  <2> QED BY <2>3
<1>5. \A n \in 1 .. N * M : s[n] = <<N - q(n), 1 + r(n)>>
  BY DEF UseByUse
<1>6. DOMAIN s = 1 .. N * M
  BY DEF UseByUse
<1> HIDE DEF q, r, s
<1>7. \A n \in 1 .. N * M : N - q(n) \in Uses /\ 1 + r(n) \in Later
  BY <1>1, <1>3 DEF Uses, Later
<1>8. \A n \in 1 .. N * M : s[n] \in Uses \X Later
  BY <1>5, <1>7
<1>9. s \in Seq(Uses \X Later) /\ Len(s) = N * M
  <2> HIDE DEF N, M
  <2>1. s = [n \in 1 .. N * M |-> s[n]]
    BY <1>6 DEF s, UseByUse, N, M
  <2>2. s \in [1 .. N * M -> Uses \X Later]
    BY <1>8, <2>1
  <2> QED BY <1>1, <2>2
<1>10. ASSUME NEW c \in Clones PROVE c \in Listed(s)
  <2>1. c[1] \in Uses /\ c[2] \in Later /\ c = <<c[1], c[2]>>
    BY DEF Clones
  <2>3. N - c[1] \in 0 .. N - 1 /\ c[2] - 1 \in 0 .. M - 1
    BY <1>1, <2>1 DEF Uses, Later
  <2>4. PICK n \in 1 .. N * M : q(n) = N - c[1] /\ r(n) = c[2] - 1
    BY <1>4, <2>3
  <2>5. N - q(n) = c[1] /\ 1 + r(n) = c[2]
    BY <1>1, <2>1, <2>4 DEF Uses, Later
  <2>6. s[n] = c
    BY <1>5, <2>1, <2>5
  <2> QED BY <1>9, <2>6 DEF Listed
<1>13. ASSUME NEW j \in 1 .. N * M, NEW k \in 1 .. N * M, j < k
       PROVE  <<s[j], s[k]>> \in Downwards
  <2>1. /\ s[j] = <<N - q(j), 1 + r(j)>> /\ s[k] = <<N - q(k), 1 + r(k)>>
        /\ s[j] \in Uses \X Later /\ s[k] \in Uses \X Later
    BY <1>5, <1>8
  <2>2. /\ q(j) \in Int /\ q(k) \in Int /\ r(j) \in Int /\ r(k) \in Int
        /\ j - 1 = M * q(j) + r(j) /\ k - 1 = M * q(k) + r(k)
    BY <1>3
  <2>3. 1 + r(j) = 1 + r(k) => q(j) < q(k)
    <3> SUFFICES ASSUME r(j) = r(k), q(k) <= q(j) PROVE FALSE
      BY <2>2
    <3>1. M * q(k) <= M * q(j)
      BY <1>1, <2>2
    <3> HIDE DEF M
    <3>2. M * q(k) \in Int /\ M * q(j) \in Int
      BY <1>1, <2>2
    <3> QED BY <1>13, <2>2, <3>1, <3>2
  <2> QED BY <1>1, <2>1, <2>2, <2>3 DEF Downwards
<1>14. IsDown(s)
  BY <1>9, <1>13 DEF IsDown
<1> QED BY <1>9, <1>10, <1>14 DEF s
-----------------------------------------------------------------------------
(* Taking an element out of a list                                          *)

Without(s, n) == SubSeq(s, 1, n - 1) \o SubSeq(s, n + 1, Len(s))

LEMMA WithoutFacts ==
  ASSUME NEW s \in Seq(Uses \X Later), NEW n \in 1 .. Len(s), IsDown(s)
  PROVE  /\ Without(s, n) \in Seq(Uses \X Later)
         /\ IsDown(Without(s, n))
         /\ Listed(Without(s, n)) = Listed(s) \ {s[n]}
<1> DEFINE X == Uses \X Later
           t == Without(s, n)
           At(k) == IF k < n THEN k ELSE k + 1
<1>1. /\ t \in Seq(X) /\ Len(s) \in Nat /\ Len(t) = Len(s) - 1
      /\ \A k \in 1 .. Len(s) - 1 : t[k] = s[At(k)]
  <2> DEFINE a == SubSeq(s, 1, n - 1)
             b == SubSeq(s, n + 1, Len(s))
  <2>1. /\ a \in Seq(X) /\ Len(a) = n - 1
        /\ \A k \in 1 .. n - 1 : a[k] = s[k]
    OBVIOUS
  <2>2. /\ b \in Seq(X) /\ Len(b) = Len(s) - n
        /\ \A k \in 1 .. Len(s) - n : b[k] = s[n + k]
    OBVIOUS
  <2> HIDE DEF a, b, X
  <2>3. /\ a \o b \in Seq(X) /\ Len(a \o b) = (n - 1) + (Len(s) - n)
        /\ \A k \in 1 .. (n - 1) + (Len(s) - n) :
              (a \o b)[k] = IF k <= n - 1 THEN a[k] ELSE b[k - (n - 1)]
    <3>1. /\ a \o b \in Seq(X) /\ Len(a \o b) = Len(a) + Len(b)
          /\ \A k \in 1 .. Len(a) + Len(b) :
                (a \o b)[k] = IF k <= Len(a) THEN a[k] ELSE b[k - Len(a)]
      BY <2>1, <2>2, ConcatProperties
    <3> QED BY <2>1, <2>2, <3>1
  <2>4. t = a \o b
    BY DEF Without, a, b
  <2> HIDE DEF t
  <2>5. Len(s) \in Nat /\ (n - 1) + (Len(s) - n) = Len(s) - 1 /\ n \in 1 .. Len(s)
    BY DEF X
  <2>6. ASSUME NEW k \in 1 .. Len(s) - 1 PROVE t[k] = s[At(k)]
    <3>1. CASE k < n
      BY <2>1, <2>3, <2>4, <2>5, <3>1
    <3>2. CASE ~(k < n)
      <4>1. k - (n - 1) \in 1 .. Len(s) - n /\ n + (k - (n - 1)) = k + 1 /\ ~(k <= n - 1)
        BY <2>5, <3>2
      <4>2. t[k] = b[k - (n - 1)]
        BY <2>3, <2>4, <2>5, <4>1
      <4> QED BY <2>2, <3>2, <4>1, <4>2
    <3> QED BY <3>1, <3>2
  <2> QED BY <2>3, <2>4, <2>5, <2>6
<1> HIDE DEF t
<1>2. /\ \A k \in 1 .. Len(t) : At(k) \in 1 .. Len(s) /\ At(k) # n
      /\ \A j, k \in 1 .. Len(t) : j < k => At(j) < At(k)
      /\ \A i \in 1 .. Len(s) : i # n => \E k \in 1 .. Len(t) : i = At(k)
  <2>1. n \in Nat
    OBVIOUS
  <2>2. ASSUME NEW i \in 1 .. Len(s), i # n PROVE \E k \in 1 .. Len(t) : i = At(k)
    <3>1. CASE i < n
      <4>1. i \in 1 .. Len(t) /\ i = At(i)
        BY <1>1, <3>1
      <4> QED BY <4>1
    <3>2. CASE ~(i < n)
      <4>1. i - 1 \in 1 .. Len(t) /\ i = At(i - 1)
        BY <1>1, <2>2, <3>2
      <4> QED BY <4>1
    <3> QED BY <3>1, <3>2
  <2> QED BY <1>1, <2>1, <2>2
<1> HIDE DEF At
<1>3. IsDown(t)
  BY <1>1, <1>2 DEF IsDown
<1>4. \A i \in 1 .. Len(s) : i # n => s[i] # s[n]
  <2> SUFFICES ASSUME NEW i \in 1 .. Len(s), i # n PROVE s[i] # s[n]
    OBVIOUS
  <2>1. i < n \/ n < i
    BY <1>1
  <2>2. <<s[i], s[n]>> \in Downwards \/ <<s[n], s[i]>> \in Downwards
    BY <2>1 DEF IsDown
  <2> QED BY <2>2 DEF Downwards
<1>5. Listed(t) = Listed(s) \ {s[n]}
  <2>1. Listed(t) \subseteq Listed(s) \ {s[n]}
    BY <1>1, <1>2, <1>4 DEF Listed
  <2>2. Listed(s) \ {s[n]} \subseteq Listed(t)
    <3> SUFFICES ASSUME NEW i \in 1 .. Len(s), s[i] # s[n] PROVE s[i] \in Listed(t)
      BY DEF Listed
    <3>1. PICK k \in 1 .. Len(t) : i = At(k)
      BY <1>2
    <3>2. t[k] = s[i]
      BY <1>1, <3>1
    <3> QED BY <3>2 DEF Listed
  <2> QED BY <2>1, <2>2
<1> QED BY <1>1, <1>3, <1>5 DEF t

LEMMA TailIsWithout ==
  ASSUME NEW X, NEW s \in Seq(X), s # <<>>
  PROVE  Tail(s) = Without(s, 1) /\ 1 \in 1 .. Len(s)
<1>1. Len(s) \in Nat /\ Len(s) # 0 /\ 1 \in 1 .. Len(s)
  OBVIOUS
<1> DEFINE b == SubSeq(s, 1 + 1, Len(s))
           a == SubSeq(s, 1, 1 - 1)
<1>2. a = <<>>
  OBVIOUS
<1>3. b = Tail(s) /\ b \in Seq(X)
  OBVIOUS
<1> HIDE DEF a, b
<1>4. a \o b = b
  BY <1>2, <1>3
<1> QED BY <1>1, <1>3, <1>4 DEF Without, a, b
-----------------------------------------------------------------------------
(* The invariant                                                            *)

InThread(s, t) == {c \in Listed(s) : c[2] = t}

\* A copy is in the list of the old value until it reads a consume, and no
\* consume is read twice.
ReadInv ==
    /\ users \in Seq(Uses \X Later) /\ IsDown(users) /\ Listed(users) \subseteq Clones
    /\ calls \in Seq(Uses \X Later) /\ IsDown(calls) /\ Listed(calls) \subseteq Clones
    /\ source \in [Clones -> Clones \cup {<<>>}]
    /\ \A c \in Clones : source[c] = <<>> <=> c \in Listed(users)
    /\ \A c \in Clones : source[c] # <<>> => /\ source[c][2] = c[2]
                                             /\ source[c] \notin Listed(calls)
    /\ \A c, d \in Clones : source[c] # <<>> /\ source[c] = source[d] => c = d

\* A thread has a copy with the old value for every call to come; the same
\* ones when the copies are in program order.
CountInv ==
    ~crashed =>
       /\ \A t \in Later : Cardinality(InThread(users, t)) = Cardinality(InThread(calls, t))
       /\ Ordered => Listed(users) = Listed(calls)

OrderInv == Ordered => \A c \in Clones : source[c] \in {<<>>, c}

UsesInv == ReadInv /\ CountInv /\ OrderInv

LEMMA NotEmpty == \A c \in Uses \X Later : c # <<>>
  OBVIOUS

LEMMA ClonesFinite ==
  /\ Clones \subseteq Uses \X Later
  /\ \A S \in SUBSET Clones : IsFiniteSet(S) /\ Cardinality(S) \in Nat
<1>1. IsFiniteSet(Uses) /\ IsFiniteSet(Later)
  BY Sizes, FS_Interval DEF Uses, Later
<1>2. IsFiniteSet(Uses \X Later)
  BY <1>1, FS_Product
<1>3. Clones \subseteq Uses \X Later
  BY DEF Clones
<1>4. ASSUME NEW S \in SUBSET Clones PROVE IsFiniteSet(S) /\ Cardinality(S) \in Nat
  <2>1. S \in SUBSET (Uses \X Later)
    BY <1>3
  <2> QED BY <1>2, <2>1, FS_Subset, FS_CardinalityType
<1> QED BY <1>3, <1>4

LEMMA UsesStart == Init => UsesInv
<1> SUFFICES ASSUME Init PROVE UsesInv
  OBVIOUS
<1>1. users = ThoseExisting(NewestFirst) /\ calls = ThoseExisting(UseByUse)
  BY DEF Init
<1>2. /\ users \in Seq(Uses \X Later) /\ IsDown(users)
      /\ Listed(users) = {c \in Listed(NewestFirst) : Existing(c)}
  <2>1. NewestFirst \in Seq(Uses \X Later) /\ IsDown(NewestFirst)
    BY NewestFirstFacts
  <2> QED BY <1>1, <2>1, TakenFacts DEF IsDown
<1>3. /\ calls \in Seq(Uses \X Later) /\ IsDown(calls)
      /\ Listed(calls) = {c \in Listed(UseByUse) : Existing(c)}
  <2>1. UseByUse \in Seq(Uses \X Later) /\ IsDown(UseByUse)
    BY UseByUseFacts
  <2> QED BY <1>1, <2>1, TakenFacts DEF IsDown
<1>4. \A s \in Seq(Uses \X Later) :
         Clones \subseteq Listed(s) => {c \in Listed(s) : Existing(c)} = Clones
  BY DEF Clones, Existing, Listed
<1>5. Listed(users) = Clones
  BY <1>2, <1>4, NewestFirstFacts
<1>6. Listed(calls) = Clones
  BY <1>3, <1>4, UseByUseFacts
<1>7. source \in [Clones -> Clones \cup {<<>>}] /\ \A c \in Clones : source[c] = <<>>
  BY DEF Init
<1>8. ReadInv
  BY <1>2, <1>3, <1>5, <1>6, <1>7 DEF ReadInv
<1>9. CountInv
  BY <1>5, <1>6 DEF CountInv, InThread
<1> QED BY <1>7, <1>8, <1>9 DEF UsesInv, OrderInv

\* A call finds a user in its thread, the one with the most recent use.
LEMMA CallFinds ==
  ASSUME OneDigit, ReadInv, CountInv, ~crashed, calls # <<>>
  PROVE  /\ calls[1] \in Clones /\ calls[1] \in Listed(calls)
         /\ \A n \in 1 .. Len(users) : Found(n) <=> users[n][2] = calls[1][2]
         /\ \E n \in Walked : Found(n)
<1> DEFINE a == calls[1]
           t == a[2]
<1>1. a \in Clones /\ a \in Listed(calls)
  <2>1. 1 \in 1 .. Len(calls)
    BY TailIsWithout DEF ReadInv
  <2>2. a \in Listed(calls)
    BY <2>1 DEF Listed
  <2> QED BY <2>2 DEF ReadInv
<1>2. t \in Later
  BY <1>1, ClonesFinite
<1>3. DOMAIN users = 1 .. Len(users) /\ Len(users) \in Nat
  BY DEF ReadInv
<1>4. ASSUME NEW n \in 1 .. Len(users) PROVE users[n] \in Clones /\ (Found(n) <=> users[n][2] = t)
  <2>1. users[n] \in Clones
    BY DEF Listed, ReadInv
  <2>2. users[n][2] \in Later
    BY <2>1, ClonesFinite
  <2>3. users[n][2] % 10 = users[n][2]
    BY <2>2, UsesAssumption DEF Later, OneDigit
  <2> QED BY <1>3, <2>1, <2>3 DEF Found
<1>5. \E n \in 1 .. Len(users) : Found(n)
  <2> SUFFICES ASSUME \A n \in 1 .. Len(users) : ~Found(n) PROVE FALSE
    OBVIOUS
  <2>1. InThread(users, t) = {}
    BY <1>4 DEF InThread, Listed
  <2>2. Cardinality(InThread(calls, t)) = 0
    BY <1>2, <2>1, FS_EmptySet DEF CountInv
  <2>3. InThread(calls, t) \in SUBSET Clones /\ a \in InThread(calls, t)
    BY <1>1 DEF InThread, ReadInv
  <2> QED BY <2>2, <2>3, ClonesFinite, FS_EmptySet
<1>6. \E n \in Walked : Found(n)
  <2> DEFINE T == {n \in 1 .. Len(users) : Found(n)}
  <2>1. T \subseteq Nat /\ T # {}
    BY <1>3, <1>5
  <2>2. PICK n \in T : \A k \in T : n <= k
    BY <2>1, SmallestMember
  <2>3. \A k \in 1 .. n - 1 : k \in 1 .. Len(users) /\ ~(n <= k)
    BY <1>3, <2>2
  <2>4. n \in Walked
    BY <1>3, <2>2, <2>3 DEF Walked
  <2> QED BY <2>2, <2>4
<1> QED BY <1>1, <1>4, <1>6

\* In program order it is the copy the consume was placed before.
LEMMA CallFindsOwn ==
  ASSUME OneDigit, ReadInv, CountInv, ~crashed, calls # <<>>, Ordered,
         NEW n \in Walked, Found(n)
  PROVE  users[n] = calls[1]
<1> DEFINE a == calls[1]
<1>1. /\ a \in Listed(calls) /\ Listed(users) = Listed(calls)
      /\ \A k \in 1 .. Len(users) : Found(k) <=> users[k][2] = a[2]
      /\ DOMAIN users = 1 .. Len(users) /\ Len(users) \in Nat
  BY CallFinds DEF CountInv, ReadInv
<1>2. n \in 1 .. Len(users) /\ users[n][2] = a[2] /\ \A k \in 1 .. n - 1 : ~Found(k)
  BY <1>1 DEF Walked
<1>3. PICK m \in 1 .. Len(users) : users[m] = a
  BY <1>1 DEF Listed
<1>4. n <= m
  <2>1. Found(m)
    BY <1>1, <1>3
  <2>2. m \notin 1 .. n - 1
    BY <1>2, <2>1
  <2> QED BY <1>2, <1>3, <2>2
<1> SUFFICES ASSUME n # m PROVE FALSE
  BY <1>3
<1>5. n < m
  BY <1>2, <1>3, <1>4
<1>6. /\ users[n] \in Uses \X Later /\ a \in Uses \X Later
      /\ users[n] # a /\ users[n][1] > a[1]
  <2>1. <<users[n], users[m]>> \in Downwards
    BY <1>2, <1>3, <1>5 DEF ReadInv, IsDown
  <2>2. /\ users[n] \in Uses \X Later /\ users[m] \in Uses \X Later
        /\ users[n] # users[m]
        /\ users[n][2] = users[m][2] => users[n][1] > users[m][1]
    BY <2>1 DEF Downwards
  <2> QED BY <1>2, <1>3, <2>2
<1>7. PICK j \in 1 .. Len(calls) : users[n] = calls[j]
  <2>1. users[n] \in Listed(calls)
    BY <1>1, <1>2 DEF Listed
  <2> QED BY <2>1 DEF Listed
<1>8. 1 \in 1 .. Len(calls) /\ 1 < j
  BY <1>6, <1>7, TailIsWithout DEF ReadInv
<1>9. <<a, users[n]>> \in Downwards
  BY <1>7, <1>8 DEF ReadInv, IsDown
<1>10. a[1] > users[n][1]
  <2>1. a[2] = users[n][2] => a[1] > users[n][1]
    BY <1>9 DEF Downwards
  <2> QED BY <1>2, <2>1
<1>11. a[1] \in Int /\ users[n][1] \in Int
  BY <1>6 DEF Uses
<1> QED BY <1>6, <1>10, <1>11
-----------------------------------------------------------------------------
(* insertConsume keeps it                                                   *)

LEMMA CallKeeps == OneDigit /\ UsesInv /\ insertConsume => UsesInv'
<1> SUFFICES ASSUME OneDigit, UsesInv, insertConsume PROVE UsesInv'
  OBVIOUS
<1> DEFINE a == calls[1]
           t == a[2]
           X == Uses \X Later
<1>1. /\ ~crashed /\ calls # <<>> /\ calls' = Tail(calls)
      /\ UNCHANGED <<order, copies, folded>>
  BY DEF insertConsume
<1>2. ReadInv /\ CountInv /\ OrderInv
  BY DEF UsesInv
<1>3. /\ Clones' = Clones /\ (Ordered <=> Ordered') /\ Downwards' = Downwards
      /\ \A s : IsDown(s)' <=> IsDown(s)
  BY <1>1 DEF Clones, Ordered, Downwards, IsDown
<1>4. /\ a \in Clones /\ a \in Listed(calls) /\ t \in Later
      /\ \A n \in 1 .. Len(users) : Found(n) <=> users[n][2] = t
      /\ \E n \in Walked : Found(n)
  BY <1>1, <1>2, CallFinds, ClonesFinite
<1>5. /\ calls' \in Seq(X) /\ IsDown(calls')
      /\ Listed(calls') = Listed(calls) \ {a}
  <2>1. calls' = Without(calls, 1) /\ 1 \in 1 .. Len(calls)
    BY <1>1, <1>2, TailIsWithout DEF ReadInv
  <2> QED BY <1>2, <2>1, WithoutFacts DEF ReadInv
<1>6. CASE crashed'
  <2>1. UNCHANGED <<users, source>>
    BY <1>6 DEF insertConsume
  <2>2. ReadInv'
    BY <1>2, <1>3, <1>5, <2>1 DEF ReadInv
  <2>3. CountInv' /\ OrderInv'
    BY <1>2, <1>3, <1>6, <2>1 DEF CountInv, OrderInv
  <2> QED BY <2>2, <2>3 DEF UsesInv
<1>7. CASE ~crashed'
  <2>1. PICK n \in Walked : /\ Found(n)
                            /\ source' = [source EXCEPT ![users[n]] = a]
                            /\ users' = Without(users, n)
    <3>1. {k \in Walked : Found(k)} # {}
      BY <1>4
    <3>2. \E n \in {k \in Walked : Found(k)} :
             /\ source' = [source EXCEPT ![users[n]] = a]
             /\ users' = Without(users, n)
      BY <1>7, <3>1 DEF insertConsume, Without
    <3> QED BY <3>2
  <2> DEFINE b == users[n]
  <2>2. n \in 1 .. Len(users) /\ b \in Listed(users) /\ b \in Clones
    <3>1. n \in 1 .. Len(users)
      BY <1>2 DEF Walked, ReadInv
    <3> QED BY <1>2, <3>1 DEF Listed, ReadInv
  <2>3. b[2] = t
    BY <1>4, <2>1, <2>2
  <2>4. Ordered => b = a
    BY <1>1, <1>2, <2>1, CallFindsOwn
  <2>5. /\ users' \in Seq(X) /\ IsDown(users')
        /\ Listed(users') = Listed(users) \ {b}
    BY <1>2, <2>1, <2>2, WithoutFacts DEF ReadInv
  <2>6. a # <<>>
    BY <1>4, ClonesFinite, NotEmpty
  <2> HIDE DEF a, b, t, X
  <2>7. /\ source' \in [Clones -> Clones \cup {<<>>}]
        /\ source'[b] = a
        /\ \A c \in Clones \ {b} : source'[c] = source[c]
    <3>1. source \in [Clones -> Clones \cup {<<>>}]
      BY <1>2 DEF ReadInv
    <3> QED BY <1>4, <2>1, <2>2, <3>1 DEF b
  <2>8. ReadInv'
    <3>1. \A c \in Clones : source'[c] = <<>> <=> c \in Listed(users')
      BY <1>2, <2>2, <2>5, <2>6, <2>7 DEF ReadInv
    <3>2. \A c \in Clones : source'[c] # <<>> => /\ source'[c][2] = c[2]
                                                 /\ source'[c] \notin Listed(calls')
      <4> SUFFICES ASSUME NEW c \in Clones, source'[c] # <<>>
                   PROVE  source'[c][2] = c[2] /\ source'[c] \notin Listed(calls')
        OBVIOUS
      <4>1. CASE c = b
        BY <1>5, <2>3, <2>7, <4>1 DEF t
      <4>2. CASE c # b
        BY <1>2, <1>5, <2>7, <4>2 DEF ReadInv
      <4> QED BY <4>1, <4>2
    <3>3. ASSUME NEW c \in Clones, NEW d \in Clones, source'[c] # <<>>, source'[c] = source'[d]
          PROVE  c = d
      <4>1. \A e \in Clones \ {b} : source'[e] # <<>> => source'[e] # a
        BY <1>2, <1>4, <2>7 DEF ReadInv
      <4>2. CASE c = b \/ d = b
        BY <2>6, <2>7, <3>3, <4>1, <4>2
      <4>3. CASE c # b /\ d # b
        BY <1>2, <2>7, <3>3, <4>3 DEF ReadInv
      <4> QED BY <4>2, <4>3
    <3>4. /\ Listed(users') \subseteq Clones /\ Listed(calls') \subseteq Clones
          /\ users' \in Seq(Uses \X Later) /\ calls' \in Seq(Uses \X Later)
      BY <1>2, <1>5, <2>5 DEF ReadInv, X
    <3> QED BY <1>3, <1>5, <2>5, <2>7, <3>1, <3>2, <3>3, <3>4 DEF ReadInv
  <2>9. CountInv'
    <3>1. ASSUME NEW s \in Later
          PROVE  Cardinality(InThread(users', s)) = Cardinality(InThread(calls', s))
      <4>1. /\ IsFiniteSet(InThread(users, s)) /\ IsFiniteSet(InThread(calls, s))
            /\ Cardinality(InThread(users, s)) = Cardinality(InThread(calls, s))
        <5>1. InThread(users, s) \in SUBSET Clones /\ InThread(calls, s) \in SUBSET Clones
          BY <1>2 DEF InThread, ReadInv
        <5> QED BY <1>1, <1>2, <5>1, ClonesFinite DEF CountInv
      <4>2. CASE s # t
        <5>1. InThread(users', s) = InThread(users, s) /\ InThread(calls', s) = InThread(calls, s)
          BY <1>5, <2>3, <2>5, <4>2 DEF InThread, t
        <5> QED BY <4>1, <5>1
      <4>3. CASE s = t
        <5>1. /\ InThread(users', s) = InThread(users, s) \ {b} /\ b \in InThread(users, s)
              /\ InThread(calls', s) = InThread(calls, s) \ {a} /\ a \in InThread(calls, s)
          BY <1>4, <1>5, <2>2, <2>3, <2>5, <4>3 DEF InThread, t
        <5>2. /\ Cardinality(InThread(users, s) \ {b}) = Cardinality(InThread(users, s)) - 1
              /\ Cardinality(InThread(calls, s) \ {a}) = Cardinality(InThread(calls, s)) - 1
          BY <4>1, <5>1, FS_RemoveElement
        <5>3. Cardinality(InThread(users', s)) = Cardinality(InThread(users, s)) - 1
          BY <5>1, <5>2
        <5>4. Cardinality(InThread(calls', s)) = Cardinality(InThread(calls, s)) - 1
          BY <5>1, <5>2
        <5> QED BY <4>1, <5>3, <5>4
      <4> QED BY <4>2, <4>3
    <3>2. Ordered => Listed(users') = Listed(calls')
      BY <1>1, <1>2, <1>5, <2>4, <2>5 DEF CountInv
    <3> QED BY <1>3, <3>1, <3>2 DEF CountInv, InThread
  <2>10. OrderInv'
    BY <1>2, <1>3, <2>4, <2>7 DEF OrderInv
  <2> QED BY <2>8, <2>9, <2>10 DEF UsesInv
<1> QED BY <1>6, <1>7

LEMMA UsesAlways == ASSUME OneDigit PROVE Spec => []UsesInv
<1>1. UsesInv /\ [insertConsume]_useVars => UsesInv'
  <2> SUFFICES ASSUME UsesInv, [insertConsume]_useVars PROVE UsesInv'
    OBVIOUS
  <2>1. CASE UNCHANGED useVars
    <3>1. UNCHANGED <<order, copies, folded, users, source, calls, crashed>>
      BY <2>1 DEF useVars
    <3>2. Clones' = Clones /\ (Ordered' <=> Ordered)
      BY <3>1 DEF Clones, Ordered
    <3>3. \A t : InThread(users, t)' = InThread(users, t) /\ InThread(calls, t)' = InThread(calls, t)
      BY <3>1 DEF InThread
    <3>4. ReadInv'
      <4>1. (IsDown(users)' <=> IsDown(users)) /\ (IsDown(calls)' <=> IsDown(calls))
        <5>1. Downwards' = Downwards
          BY <3>2 DEF Downwards
        <5> QED BY <3>1, <5>1 DEF IsDown
      <4> QED BY <3>1, <3>2, <4>1 DEF UsesInv, ReadInv
    <3>5. CountInv'
      BY <3>1, <3>2, <3>3 DEF UsesInv, CountInv
    <3>6. OrderInv'
      BY <3>1, <3>2 DEF UsesInv, OrderInv
    <3> QED BY <3>4, <3>5, <3>6 DEF UsesInv
  <2> QED BY <2>1, CallKeeps
<1> QED BY <1>1, UsesStart, PTL DEF Spec

-----------------------------------------------------------------------------
\* CodeTransformation.cpp:696-717, 828-833: when the calls are over no copy is
\* left with the value of the loop that is deleted then, in whatever order the
\* threads copied the dependents.
THEOREM EveryUseIsReplaced == ASSUME OneDigit PROVE Spec => []AllReplaced
<1>1. UsesInv => AllReplaced
  <2> SUFFICES ASSUME UsesInv, calls = <<>>, ~crashed, NEW c \in Clones, source[c] = <<>>
               PROVE  FALSE
    BY DEF AllReplaced, Done
  <2>1. c[2] \in Later /\ c \in InThread(users, c[2])
    BY ClonesFinite DEF UsesInv, ReadInv, InThread
  <2>2. InThread(calls, c[2]) = {}
    BY EmptyFacts DEF InThread
  <2>3. Cardinality(InThread(users, c[2])) = 0
    BY <2>1, <2>2, FS_EmptySet DEF UsesInv, CountInv
  <2>4. InThread(users, c[2]) \in SUBSET Clones
    BY DEF InThread, UsesInv, ReadInv
  <2> QED BY <2>1, <2>3, <2>4, ClonesFinite, FS_EmptySet
<1> QED BY <1>1, UsesAlways, PTL

\* CodeTransformation.cpp:705-711: a copy is made to read a consume of its own
\* thread, and no two copies the same one.
THEOREM ConsumesAreNotShared == ASSUME OneDigit PROVE Spec => []ThreadsApart
<1>1. UsesInv => ThreadsApart
  BY DEF UsesInv, ReadInv, ThreadsApart
<1> QED BY <1>1, UsesAlways, PTL

\* CodeTransformation.cpp:275-401, 705-711: when the threads copy the
\* dependents in program order each copy reads the consume placed before it.
THEOREM ProgramOrderSuffices == ASSUME OneDigit PROVE Spec => []OwnInProgramOrder
<1>1. UsesInv => OwnInProgramOrder
  BY DEF UsesInv, OrderInv, Ordered, OwnInProgramOrder, OwnConsume
<1> QED BY <1>1, UsesAlways, PTL
=============================================================================
