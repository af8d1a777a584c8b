----------------------------- MODULE BasicFacts -----------------------------
(***************************************************************************)
(* Facts about numbers and sequences that several proofs need.             *)
(***************************************************************************)
EXTENDS Integers, WellFoundedInduction, SequenceTheorems, TLAPS

Listed(s) == {s[k] : k \in 1 .. Len(s)}
Distinct(s) == \A j, k \in 1 .. Len(s) : s[j] = s[k] => j = k

\* A set of numbers that is not empty has a least member.
LEMMA SmallestMember ==
  ASSUME NEW T, T \subseteq Nat, T # {}
  PROVE  \E x \in T : \A y \in T : x <= y
<1> DEFINE Less == {ss \in Nat \X Nat : ss[1] < ss[2]}
<1>1. OpToRel(<, Nat) = Less
  BY Zenon DEF OpToRel
<1>2. PICK x \in T : \A y \in T : <<y, x>> \notin Less
  <2> HIDE DEF Less
  <2> QED BY <1>1, NatLessThanWellFounded, WFMin
<1>3. ASSUME NEW y \in T PROVE x <= y
  <2>1. <<y, x>> \notin {ss \in Nat \X Nat : ss[1] < ss[2]}
    BY <1>2
  <2>2. <<y, x>> \in Nat \X Nat
    OBVIOUS
  <2>3. ~(y < x)
    BY <2>1, <2>2
  <2>4. x \in Int /\ y \in Int
    OBVIOUS
  <2> QED BY <2>3, <2>4
<1> QED BY <1>2, <1>3

\* Induction, with what is shown of a number as a set.
LEMMA UpTo ==
  ASSUME NEW m \in Nat, NEW T, 0 \in T, \A n \in 0 .. m - 1 : n \in T => n + 1 \in T
  PROVE  0 .. m \subseteq T
<1> DEFINE Bad == (0 .. m) \ T
<1> SUFFICES ASSUME Bad # {} PROVE FALSE
  OBVIOUS
<1>1. PICK n \in Bad : \A k \in Bad : n <= k
  <2>1. Bad \subseteq Nat
    OBVIOUS
  <2> QED BY <2>1, SmallestMember
<1>2. n - 1 \in 0 .. m - 1 /\ n - 1 \in 0 .. m /\ (n - 1) + 1 = n /\ ~(n <= n - 1)
  BY <1>1
<1>3. n - 1 \in T
  BY <1>1, <1>2
<1> QED BY <1>1, <1>2, <1>3

\* A function of the numbers up to m given by recursion, the step as a function
\* of the number and of the value before: there is one.
Follows(g, m, x, F) == g = [n \in 0 .. m |-> IF n = 0 THEN x ELSE F[n][g[n - 1]]]

LEMMA RecursionExists ==
  ASSUME NEW X, NEW x \in X, NEW F \in [Nat -> [X -> X]], NEW m \in Nat
  PROVE  \E g \in [0 .. m -> X] : Follows(g, m, x, F)
<1> DEFINE Rec(n, g) == \A k \in 0 .. n : g[k] = IF k = 0 THEN x ELSE F[k][g[k - 1]]
           T == {n \in Nat : \E g \in [0 .. n -> X] : Rec(n, g)}
<1>1. 0 \in T
  <2>1. [k \in 0 .. 0 |-> x] \in [0 .. 0 -> X] /\ Rec(0, [k \in 0 .. 0 |-> x])
    OBVIOUS
  <2> QED BY <2>1
<1>2. ASSUME NEW n \in 0 .. m - 1, n \in T PROVE n + 1 \in T
  <2>1. n \in Nat /\ n + 1 \in Nat /\ (n + 1) - 1 = n /\ n + 1 # 0
    OBVIOUS
  <2>2. PICK g \in [0 .. n -> X] : Rec(n, g)
    BY <1>2
  <2> DEFINE h == [k \in 0 .. n + 1 |-> IF k = n + 1 THEN F[n + 1][g[n]] ELSE g[k]]
  <2>3. /\ h[n + 1] = F[n + 1][g[n]] /\ F[n + 1][g[n]] \in X
        /\ \A k \in 0 .. n : h[k] = g[k] /\ g[k] \in X
    <3>1. g[n] \in X
      BY <2>1
    <3>2. F[n + 1][g[n]] \in X
      BY <2>1, <3>1
    <3>3. n + 1 \in 0 .. n + 1 /\ \A k \in 0 .. n : k \in 0 .. n + 1 /\ k # n + 1
      BY <2>1
    <3> QED BY <3>2, <3>3
  <2>4. \A k \in 0 .. n + 1 : k \in 0 .. n \/ k = n + 1
    BY <2>1
  <2>5. h \in [0 .. n + 1 -> X]
    BY <2>3, <2>4
  <2> HIDE DEF h
  <2>6. ASSUME NEW k \in 0 .. n + 1
        PROVE  h[k] = IF k = 0 THEN x ELSE F[k][h[k - 1]]
    <3>1. CASE k \in 0 .. n
      <4>1. k # 0 => k - 1 \in 0 .. n
        BY <3>1
      <4> QED BY <2>2, <2>3, <3>1, <4>1
    <3>2. CASE k = n + 1
      <4>1. n \in 0 .. n
        BY <2>1
      <4> QED BY <2>1, <2>3, <3>2, <4>1
    <3> QED BY <2>4, <3>1, <3>2
  <2>7. Rec(n + 1, h)
    BY <2>6
  <2> QED BY <2>1, <2>5, <2>7
<1> HIDE DEF T
<1>3. m \in T
  <2>1. 0 .. m \subseteq T
    BY <1>1, <1>2, UpTo
  <2> QED BY <2>1
<1> USE DEF T
<1>4. PICK g \in [0 .. m -> X] : Rec(m, g)
  BY <1>3
<1>5. Follows(g, m, x, F)
  BY <1>4 DEF Follows
<1> QED BY <1>5

-----------------------------------------------------------------------------
(* A sequence of distinct elements as a stack                               *)

LEMMA PushFacts ==
  ASSUME NEW S, NEW s \in Seq(S), NEW x \in S, Distinct(s), x \notin Listed(s)
  PROVE  /\ Append(s, x) \in Seq(S)
         /\ Append(s, x) # <<>>
         /\ Len(Append(s, x)) = Len(s) + 1
         /\ \A k \in 1 .. Len(s) : Append(s, x)[k] = s[k]
         /\ Append(s, x)[Len(s) + 1] = x
         /\ Distinct(Append(s, x))
         /\ Listed(Append(s, x)) = Listed(s) \cup {x}
<1> DEFINE t == Append(s, x)
<1>1. /\ t \in Seq(S) /\ Len(t) = Len(s) + 1 /\ Len(s) \in Nat
      /\ \A k \in 1 .. Len(s) : t[k] = s[k]
      /\ t[Len(s) + 1] = x
  OBVIOUS
<1> HIDE DEF t
<1>2. t # <<>>
  BY <1>1
<1>3. \A k \in 1 .. Len(t) : k \in 1 .. Len(s) \/ k = Len(s) + 1
  BY <1>1
<1>4. Distinct(t)
  BY <1>1, <1>3 DEF Distinct, Listed
<1>5. Listed(t) = Listed(s) \cup {x}
  <2>1. \A k \in 1 .. Len(s) : k \in 1 .. Len(t)
    BY <1>1
  <2>2. Len(s) + 1 \in 1 .. Len(t)
    BY <1>1
  <2>3. Listed(t) \subseteq Listed(s) \cup {x}
    BY <1>1, <1>3 DEF Listed
  <2>4. Listed(s) \subseteq Listed(t)
    BY <1>1, <2>1 DEF Listed
  <2>5. x \in Listed(t)
    BY <1>1, <2>2 DEF Listed
  <2> QED BY <2>3, <2>4, <2>5
<1> QED BY <1>1, <1>2, <1>4, <1>5 DEF t

LEMMA PopFacts ==
  ASSUME NEW S, NEW s \in Seq(S), s # <<>>, Distinct(s)
  PROVE  /\ SubSeq(s, 1, Len(s) - 1) \in Seq(S)
         /\ SubSeq(s, 1, Len(s) - 1) = <<>> <=> Len(s) = 1
         /\ Len(SubSeq(s, 1, Len(s) - 1)) = Len(s) - 1
         /\ \A k \in 1 .. Len(s) - 1 : SubSeq(s, 1, Len(s) - 1)[k] = s[k]
         /\ Distinct(SubSeq(s, 1, Len(s) - 1))
         /\ s[Len(s)] \in S
         /\ s[Len(s)] \in Listed(s)
         /\ Listed(SubSeq(s, 1, Len(s) - 1)) = Listed(s) \ {s[Len(s)]}
<1> DEFINE n == Len(s)
           t == SubSeq(s, 1, n - 1)
<1>1. n \in Nat /\ n >= 1
  OBVIOUS
<1>2. /\ t \in Seq(S) /\ Len(t) = n - 1
      /\ \A k \in 1 .. n - 1 : t[k] = s[k]
  <2>1. 1 \in Int /\ n - 1 \in Int /\ \A i \in 1 .. n - 1 : s[i] \in S
    BY <1>1
  <2> HIDE DEF n
  <2>2. /\ t \in Seq(S)
        /\ Len(t) = IF 1 <= n - 1 THEN (n - 1) - 1 + 1 ELSE 0
        /\ \A k \in 1 .. (n - 1) - 1 + 1 : t[k] = s[1 + k - 1]
    BY <2>1, SubSeqProperties
  <2> QED BY <1>1, <2>2
<1>3. n \in 1 .. n /\ s[n] \in S
  BY <1>1
<1> HIDE DEF t
<1>4. t = <<>> <=> n = 1
  BY <1>1, <1>2
<1>5. \A k \in 1 .. n : k \in 1 .. n - 1 \/ k = n
  BY <1>1
<1>6. \A k \in 1 .. n - 1 : k \in 1 .. n /\ k # n
  BY <1>1
<1>7. Distinct(t)
  BY <1>2, <1>6 DEF Distinct
<1>8. s[n] \in Listed(s)
  BY <1>3 DEF Listed
<1>9. Listed(t) \subseteq Listed(s) \ {s[n]}
  BY <1>2, <1>3, <1>6 DEF Listed, Distinct
<1>10. Listed(s) \ {s[n]} \subseteq Listed(t)
  BY <1>2, <1>5 DEF Listed
<1> QED BY <1>2, <1>3, <1>4, <1>7, <1>8, <1>9, <1>10 DEF t

LEMMA AppendFacts ==
  ASSUME NEW S, NEW s \in Seq(S), NEW x \in S, NEW n \in 0 .. Len(s)
  PROVE  /\ Append(s, x) \in Seq(S)
         /\ n \in 0 .. Len(Append(s, x))
         /\ Listed(Append(s, x)) = Listed(s) \cup {x}
<1> DEFINE t == Append(s, x)
<1>1. /\ t \in Seq(S) /\ Len(t) = Len(s) + 1 /\ Len(s) \in Nat
      /\ \A k \in 1 .. Len(s) : t[k] = s[k]
      /\ t[Len(s) + 1] = x
  OBVIOUS
<1> HIDE DEF t
<1>2. /\ \A k \in 1 .. Len(t) : k \in 1 .. Len(s) \/ k = Len(s) + 1
      /\ \A k \in 1 .. Len(s) : k \in 1 .. Len(t)
      /\ Len(s) + 1 \in 1 .. Len(t)
  BY <1>1
<1>3. Listed(t) = Listed(s) \cup {x}
  BY <1>1, <1>2 DEF Listed
<1> QED BY <1>1, <1>3 DEF t

LEMMA EmptyFacts == Listed(<<>>) = {} /\ Distinct(<<>>)
  BY DEF Listed, Distinct
=============================================================================
