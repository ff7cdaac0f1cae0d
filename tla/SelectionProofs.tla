--------------------------- MODULE SelectionProofs --------------------------
(***************************************************************************)
(* What At returns, for every sequence and every set of positions: the     *)
(* elements at these positions, each once and in their order.              *)
(*                                                                         *)
(* At is a recursive function, and the library's induction theorems speak  *)
(* of any predicate P(_), which no prover here can instantiate. WFMin of   *)
(* WellFoundedInduction speaks of sets instead, and induction over sets of *)
(* numbers follows from it: the steps of an induction say that a set holds *)
(* 0 and, with each number, the next.                                      *)
(***************************************************************************)
EXTENDS Selection, WellFoundedInduction, SequenceTheorems, FunctionTheorems,
        FiniteSetTheorems, TLAPS

\* A set of numbers that is not empty has a least one.
LEMMA LeastNumber ==
  ASSUME NEW T, T \subseteq Nat, T # {}
  PROVE  \E x \in T : \A y \in T : x <= y
<1> DEFINE R == OpToRel(<, Nat)
<1>1. IsWellFoundedOn(R, Nat)
  BY NatLessThanWellFounded
<1> HIDE DEF R
<1>2. PICK x \in T : \A y \in T : ~(<<y, x>> \in R)
  BY <1>1, WFMin
<1>3. ASSUME NEW y \in T PROVE x <= y
  <2>1. x \in Nat /\ y \in Nat
    OBVIOUS
  <2>2. y < x => <<y, x>> \in R
    BY <2>1 DEF R, OpToRel
  <2> QED BY <1>2, <2>1, <2>2
<1> QED BY <1>3

\* Induction over the naturals, for a set.
LEMMA SetInduction ==
  ASSUME NEW S, 0 \in S, \A n \in S \cap Nat : n + 1 \in S
  PROVE  Nat \subseteq S
<1> SUFFICES ASSUME Nat \ S # {} PROVE FALSE
  OBVIOUS
<1>1. PICK x \in Nat \ S : \A y \in Nat \ S : x <= y
  <2>1. Nat \ S \subseteq Nat
    OBVIOUS
  <2> QED BY <2>1, LeastNumber
<1>2. x - 1 \in Nat /\ (x - 1) + 1 = x /\ ~(x <= x - 1)
  BY <1>1
<1>3. x - 1 \in S
  BY <1>1, <1>2
<1> QED BY <1>1, <1>2, <1>3

-----------------------------------------------------------------------------
\* What is kept of the first n elements.
Keeps(kept, s, I, N) ==
  kept = [n \in 0..N |->
            IF n = 0 THEN <<>>
            ELSE IF n \in I THEN Append(kept[n - 1], s[n])
            ELSE kept[n - 1]]

\* The recursion has a solution, for however many elements.
LEMMA KeptExists == \A s, I : \A N \in Nat : \E kept : Keeps(kept, s, I, N)
<1> SUFFICES ASSUME NEW s, NEW I PROVE \A N \in Nat : \E kept : Keeps(kept, s, I, N)
  OBVIOUS
<1> DEFINE S == {N \in Nat : \E kept : Keeps(kept, s, I, N)}
<1>1. 0 \in S
  <2>1. Keeps([n \in 0..0 |-> <<>>], s, I, 0)
    BY DEF Keeps
  <2> QED BY <2>1
<1>2. ASSUME NEW N \in S \cap Nat PROVE N + 1 \in S
  <2>1. PICK g : Keeps(g, s, I, N)
    OBVIOUS
  <2> DEFINE h == [n \in 0..(N + 1) |->
                     IF n <= N THEN g[n]
                     ELSE IF N + 1 \in I THEN Append(g[N], s[N + 1]) ELSE g[N]]
  <2>2. \A n \in 0..N : h[n] = g[n]
    OBVIOUS
  <2>3. ASSUME NEW n \in 0..(N + 1)
        PROVE  h[n] = IF n = 0 THEN <<>>
                      ELSE IF n \in I THEN Append(h[n - 1], s[n]) ELSE h[n - 1]
    <3>1. CASE n = 0
      BY <2>1, <2>2, <3>1 DEF Keeps
    <3>2. CASE n \in 1..N
      <4>1. n - 1 \in 0..N /\ n \in 0..N /\ n # 0
        BY <3>2
      <4>2. h[n] = g[n] /\ h[n - 1] = g[n - 1]
        BY <4>1, <2>2
      <4>3. g[n] = IF n \in I THEN Append(g[n - 1], s[n]) ELSE g[n - 1]
        BY <4>1, <2>1 DEF Keeps
      <4> HIDE DEF h
      <4> QED BY <4>1, <4>2, <4>3
    <3>3. CASE n = N + 1
      <4>1. n # 0 /\ n - 1 = N /\ N \in 0..N /\ ~(n <= N)
        BY <3>3
      <4>2. h[n] = IF N + 1 \in I THEN Append(g[N], s[N + 1]) ELSE g[N]
        BY <4>1
      <4>3. h[n - 1] = g[N]
        BY <4>1, <2>2
      <4> HIDE DEF h
      <4> QED BY <3>3, <4>1, <4>2, <4>3
    <3> QED BY <3>1, <3>2, <3>3
  <2>4. Keeps(h, s, I, N + 1)
    <3> DEFINE r == [n \in 0..(N + 1) |->
                       IF n = 0 THEN <<>>
                       ELSE IF n \in I THEN Append(h[n - 1], s[n]) ELSE h[n - 1]]
    <3>1. DOMAIN h = 0..(N + 1) /\ h = [n \in DOMAIN h |-> h[n]]
      OBVIOUS
    <3> HIDE DEF h
    <3>2. h = r
      BY <2>3, <3>1
    <3> QED BY <3>2 DEF Keeps
  <2> HIDE DEF h
  <2> QED BY <2>4
<1>3. Nat \subseteq S
  <2> HIDE DEF S
  <2> QED BY <1>1, <1>2, SetInduction
<1> QED BY <1>3

-----------------------------------------------------------------------------
\* t holds the elements of s at the positions J in their order: its k-th is
\* the one at e[k].
Picks(e, t, s, J) ==
  /\ e \in [1..Len(t) -> J]
  /\ \A k \in 1..Len(t) : t[k] = s[e[k]]
  /\ \A j, k \in 1..Len(t) : j < k => e[j] < e[k]
  /\ \A i \in J : \E k \in 1..Len(t) : e[k] = i

\* One more element behind the others.
LEMMA PicksMore ==
  ASSUME NEW S, NEW s \in Seq(S), NEW n \in Nat, n + 1 \in DOMAIN s,
         NEW J, J \subseteq 1..n, NEW t \in Seq(S), NEW e, Picks(e, t, s, J)
  PROVE  \E f : Picks(f, Append(t, s[n + 1]), s, J \cup {n + 1})
<1> DEFINE u == Append(t, s[n + 1])
           f == [k \in 1..(Len(t) + 1) |-> IF k <= Len(t) THEN e[k] ELSE n + 1]
           K == J \cup {n + 1}
<1>1. s[n + 1] \in S
  BY ElementOfSeq, LenProperties
<1>2. Len(u) = Len(t) + 1 /\ Len(t) \in Nat /\ (\A k \in 1..Len(t) : u[k] = t[k])
      /\ u[Len(t) + 1] = s[n + 1]
  BY <1>1, AppendProperties, LenProperties
<1>3. \A k \in 1..Len(t) : f[k] = e[k] /\ e[k] \in J
  BY <1>2 DEF Picks
<1>4. f[Len(t) + 1] = n + 1 /\ DOMAIN f = 1..(Len(t) + 1)
  BY <1>2
<1> HIDE DEF f, u
<1>5. f \in [1..Len(u) -> K]
  <2>1. \A k \in 1..(Len(t) + 1) : f[k] \in K
    BY <1>2, <1>3, <1>4
  <2>2. f = [k \in 1..(Len(t) + 1) |-> f[k]]
    BY DEF f
  <2> QED BY <1>2, <1>4, <2>1, <2>2
<1>6. \A k \in 1..Len(u) : u[k] = s[f[k]]
  BY <1>2, <1>3, <1>4 DEF Picks
<1>7. ASSUME NEW j \in 1..Len(u), NEW k \in 1..Len(u), j < k PROVE f[j] < f[k]
  <2>1. CASE k <= Len(t)
    BY <1>2, <1>3, <1>7, <2>1 DEF Picks
  <2>2. CASE k = Len(t) + 1
    <3>1. j \in 1..Len(t)
      BY <1>2, <1>7, <2>2
    <3>2. f[j] \in 1..n
      BY <1>3, <3>1
    <3> QED BY <1>4, <2>2, <3>2
  <2> QED BY <1>2, <2>1, <2>2
<1>8. ASSUME NEW i \in K PROVE \E k \in 1..Len(u) : f[k] = i
  <2>1. CASE i \in J
    BY <1>2, <1>3, <2>1 DEF Picks
  <2>2. CASE i = n + 1
    BY <1>2, <1>4, <2>2
  <2> QED BY <2>1, <2>2
<1>9. Picks(f, u, s, K)
  BY <1>5, <1>6, <1>7, <1>8 DEF Picks
<1> QED BY <1>9 DEF u

\* At returns the elements at the positions it is given, in their order.
LEMMA AtPicks ==
  ASSUME NEW S, NEW s \in Seq(S), NEW I
  PROVE  At(s, I) \in Seq(S) /\ \E e : Picks(e, At(s, I), s, I \cap DOMAIN s)
<1> DEFINE kept == CHOOSE k : Keeps(k, s, I, Len(s))
           Good(n) == kept[n] \in Seq(S) /\ \E e : Picks(e, kept[n], s, I \cap 1..n)
           N == {n \in Nat : n <= Len(s) => Good(n)}
<1>1. Len(s) \in Nat /\ DOMAIN s = 1..Len(s)
  BY LenProperties
<1>2. Keeps(kept, s, I, Len(s))
  BY <1>1, KeptExists
<1>3. At(s, I) = kept[Len(s)]
  BY DEF At, Keeps
<1> HIDE DEF kept, Good
<1>4. 0 \in N
  <2>1. kept[0] = <<>>
    BY <1>1, <1>2 DEF Keeps
  <2>2. Len(<<>>) = 0 /\ <<>> \in Seq(S) /\ 1..0 = {}
    BY EmptySeq
  <2>3. Picks(<<>>, <<>>, s, {})
    BY DEF Picks
  <2>4. I \cap 1..0 = {}
    BY <2>2
  <2>5. Good(0)
    BY <2>1, <2>2, <2>3, <2>4 DEF Good
  <2> QED BY <2>5
<1>5. ASSUME NEW n \in N \cap Nat PROVE n + 1 \in N
  <2> SUFFICES ASSUME n + 1 <= Len(s) PROVE Good(n + 1)
    OBVIOUS
  <2>1. n \in Nat /\ n + 1 \in 0..Len(s) /\ n + 1 \in 1..Len(s) /\ n \in 0..Len(s)
    BY <1>1
  <2>2. Good(n)
    BY <1>1, <2>1
  <2>3. /\ kept[n] \in Seq(S)
        /\ \E e : Picks(e, kept[n], s, I \cap 1..n)
    BY <2>2 DEF Good
  <2>4. kept[n + 1] = IF n + 1 \in I THEN Append(kept[n], s[n + 1]) ELSE kept[n]
    <3>1. n + 1 # 0 /\ (n + 1) - 1 = n
      BY <2>1
    <3> QED BY <1>2, <2>1, <3>1 DEF Keeps
  <2>5. 1..(n + 1) = (1..n) \cup {n + 1}
    BY <2>1
  <2>6. CASE n + 1 \in I
    <3>1. I \cap 1..(n + 1) = (I \cap 1..n) \cup {n + 1}
      BY <2>5, <2>6
    <3>2. \E f : Picks(f, Append(kept[n], s[n + 1]), s, (I \cap 1..n) \cup {n + 1})
      <4>1. PICK e : Picks(e, kept[n], s, I \cap 1..n)
        BY <2>3
      <4>2. I \cap 1..n \subseteq 1..n /\ n + 1 \in DOMAIN s
        BY <1>1, <2>1
      <4> QED BY <2>1, <2>3, <4>1, <4>2, PicksMore
    <3>3. s[n + 1] \in S
      BY <2>1, ElementOfSeq
    <3>4. Append(kept[n], s[n + 1]) \in Seq(S)
      BY <2>3, <3>3, AppendProperties
    <3> QED BY <2>4, <2>6, <3>1, <3>2, <3>4 DEF Good
  <2>7. CASE n + 1 \notin I
    <3>1. I \cap 1..(n + 1) = I \cap 1..n
      BY <2>5, <2>7
    <3> QED BY <2>3, <2>4, <2>7, <3>1 DEF Good
  <2> QED BY <2>6, <2>7
<1>6. Nat \subseteq N
  <2> HIDE DEF N
  <2> QED BY <1>4, <1>5, SetInduction
<1>7. Good(Len(s))
  BY <1>1, <1>6
<1> QED BY <1>1, <1>3, <1>7 DEF Good

\* Everything that is kept was there, and everything chosen is kept.
LEMMA AtElements ==
  ASSUME NEW S, NEW s \in Seq(S), NEW I
  PROVE  /\ \A k \in DOMAIN At(s, I) : \E i \in I \cap DOMAIN s : At(s, I)[k] = s[i]
         /\ \A i \in I \cap DOMAIN s : \E k \in DOMAIN At(s, I) : At(s, I)[k] = s[i]
<1>1. PICK e : Picks(e, At(s, I), s, I \cap DOMAIN s)
  BY AtPicks
<1>2. At(s, I) \in Seq(S)
  BY AtPicks
<1>3. DOMAIN At(s, I) = 1..Len(At(s, I))
  BY <1>2, LenProperties
<1> QED BY <1>1, <1>3 DEF Picks

\* Positions that are picked in order are picked once.
LEMMA PicksOnce ==
  ASSUME NEW e, NEW t, NEW s, NEW J, Len(t) \in Nat, J \subseteq Int, Picks(e, t, s, J)
  PROVE  e \in Bijection(1..Len(t), J)
<1>1. e \in [1..Len(t) -> J]
  BY DEF Picks
<1>2. ASSUME NEW j \in 1..Len(t), NEW k \in 1..Len(t), e[j] = e[k] PROVE j = k
  <2>1. e[j] \in Int /\ e[k] \in Int
    BY <1>1
  <2>2. ~(j < k) /\ ~(k < j)
    BY <1>2, <2>1 DEF Picks
  <2> QED BY <2>2
<1>3. \A i \in J : \E k \in 1..Len(t) : e[k] = i
  BY DEF Picks
<1> QED BY <1>1, <1>2, <1>3, Fun_IsBij

LEMMA UpTo == \A n \in Nat : IsFiniteSet(1..n) /\ Cardinality(1..n) = n
<1> SUFFICES ASSUME NEW n \in Nat PROVE IsFiniteSet(1..n) /\ Cardinality(1..n) = n
  OBVIOUS
<1>1. 1 \in Int /\ n \in Int
  OBVIOUS
<1>2. IsFiniteSet(1..n) /\ Cardinality(1..n) = IF 1 > n THEN 0 ELSE n - 1 + 1
  BY <1>1, FS_Interval
<1> QED BY <1>2

\* As many elements are kept as positions are chosen.
LEMMA AtLength ==
  ASSUME NEW S, NEW s \in Seq(S), NEW I
  PROVE  Len(At(s, I)) = Cardinality(I \cap DOMAIN s) /\ IsFiniteSet(I \cap DOMAIN s)
<1>1. PICK e : Picks(e, At(s, I), s, I \cap DOMAIN s)
  BY AtPicks
<1>2. At(s, I) \in Seq(S) /\ Len(At(s, I)) \in Nat
  BY AtPicks, LenProperties
<1>3. DOMAIN s = 1..Len(s) /\ Len(s) \in Nat
  BY LenProperties
<1>4. e \in Bijection(1..Len(At(s, I)), I \cap DOMAIN s)
  BY <1>1, <1>2, <1>3, PicksOnce
<1>5. IsFiniteSet(1..Len(At(s, I))) /\ Cardinality(1..Len(At(s, I))) = Len(At(s, I))
  BY <1>2, UpTo
<1> QED BY <1>4, <1>5, FS_Bijection DEF ExistsBijection

\* What is kept and what is left over make up the whole.
LEMMA AtComplement ==
  ASSUME NEW S, NEW s \in Seq(S), NEW I, NEW J, DOMAIN s \ I = J \cap DOMAIN s
  PROVE  Len(At(s, I)) + Len(At(s, J)) = Len(s)
<1> DEFINE D == DOMAIN s
<1>1. D = 1..Len(s) /\ Len(s) \in Nat
  BY LenProperties
<1>2. IsFiniteSet(D) /\ Cardinality(D) = Len(s)
  BY <1>1, UpTo
<1>3. Cardinality(D) = Cardinality(D \cap I) + Cardinality(D \ I)
  <2>1. Cardinality(D \ I) = Cardinality(D) - Cardinality(D \cap I)
    BY <1>2, FS_Difference
  <2>2. Cardinality(D) \in Nat /\ Cardinality(D \cap I) \in Nat
    BY <1>2, FS_CardinalityType, FS_Subset
  <2> QED BY <2>1, <2>2
<1>4. Len(At(s, I)) = Cardinality(D \cap I) /\ Len(At(s, J)) = Cardinality(D \ I)
  <2>1. D \cap I = I \cap D /\ D \ I = J \cap D
    OBVIOUS
  <2> QED BY <2>1, AtLength
<1> QED BY <1>2, <1>3, <1>4

-----------------------------------------------------------------------------
\* The recursion, step by step.
Steps(kept, s, I) ==
  /\ At(s, I) = kept[Len(s)] /\ kept[0] = <<>>
  /\ \A n \in Nat : n + 1 <= Len(s) =>
       kept[n + 1] = IF n + 1 \in I THEN Append(kept[n], s[n + 1]) ELSE kept[n]

LEMMA AtSteps ==
  ASSUME NEW s, Len(s) \in Nat, NEW I
  PROVE  \E kept : Steps(kept, s, I)
<1> DEFINE kept == CHOOSE k : Keeps(k, s, I, Len(s))
<1>1. Keeps(kept, s, I, Len(s))
  BY KeptExists
<1>2. At(s, I) = kept[Len(s)]
  BY DEF At, Keeps
<1> HIDE DEF kept
<1>3. kept[0] = <<>>
  BY <1>1 DEF Keeps
<1>4. ASSUME NEW n \in Nat, n + 1 <= Len(s)
      PROVE  kept[n + 1] = IF n + 1 \in I THEN Append(kept[n], s[n + 1]) ELSE kept[n]
  <2>1. n + 1 # 0 /\ (n + 1) - 1 = n /\ n + 1 \in 0..Len(s)
    BY <1>4
  <2> QED BY <1>1, <2>1 DEF Keeps
<1> QED BY <1>2, <1>3, <1>4 DEF Steps

\* A later position has its element behind the others.
LEMMA AtMore ==
  ASSUME NEW s, Len(s) \in Nat, NEW p \in Nat, p + 1 <= Len(s), NEW I, I \subseteq 1..p
  PROVE  At(s, I \cup {p + 1}) = Append(At(s, I), s[p + 1])
<1> DEFINE J == I \cup {p + 1}
<1>1. PICK f : Steps(f, s, I)
  BY AtSteps
<1>2. PICK g : Steps(g, s, J)
  BY AtSteps
<1> DEFINE N == {n \in Nat : n <= Len(s) =>
                   g[n] = IF n <= p THEN f[n] ELSE Append(f[n], s[p + 1])}
<1>3. 0 \in N
  BY <1>1, <1>2 DEF Steps
<1>4. ASSUME NEW n \in N \cap Nat PROVE n + 1 \in N
  <2> SUFFICES ASSUME n + 1 <= Len(s)
               PROVE  g[n + 1] = IF n + 1 <= p THEN f[n + 1] ELSE Append(f[n + 1], s[p + 1])
    OBVIOUS
  <2>1. g[n] = IF n <= p THEN f[n] ELSE Append(f[n], s[p + 1])
    OBVIOUS
  <2>2. f[n + 1] = IF n + 1 \in I THEN Append(f[n], s[n + 1]) ELSE f[n]
    BY <1>1 DEF Steps
  <2>3. g[n + 1] = IF n + 1 \in J THEN Append(g[n], s[n + 1]) ELSE g[n]
    BY <1>2 DEF Steps
  <2>4. CASE n + 1 <= p
    <3>1. n <= p /\ (n + 1 \in J <=> n + 1 \in I)
      BY <2>4
    <3> QED BY <2>1, <2>2, <2>3, <2>4, <3>1
  <2>5. CASE n = p
    <3>1. n + 1 \in J /\ n + 1 \notin I /\ n <= p /\ ~(n + 1 <= p)
      BY <2>5
    <3> QED BY <2>1, <2>2, <2>3, <2>5, <3>1
  <2>6. CASE n > p
    <3>1. n + 1 \notin J /\ n + 1 \notin I /\ ~(n <= p) /\ ~(n + 1 <= p)
      BY <2>6
    <3> QED BY <2>1, <2>2, <2>3, <3>1
  <2> QED BY <2>4, <2>5, <2>6
<1>5. Nat \subseteq N
  <2> HIDE DEF N
  <2> QED BY <1>3, <1>4, SetInduction
<1>6. g[Len(s)] = Append(f[Len(s)], s[p + 1])
  <2>1. ~(Len(s) <= p) /\ Len(s) \in N
    BY <1>5
  <2> QED BY <2>1
<1> QED BY <1>1, <1>2, <1>6 DEF Steps

\* Of no positions there is nothing.
LEMMA AtNone == ASSUME NEW s, Len(s) \in Nat PROVE At(s, {}) = <<>>
<1>1. PICK f : Steps(f, s, {})
  BY AtSteps
<1> DEFINE N == {n \in Nat : n <= Len(s) => f[n] = <<>>}
<1>2. 0 \in N
  BY <1>1 DEF Steps
<1>3. ASSUME NEW n \in N \cap Nat PROVE n + 1 \in N
  BY <1>1 DEF Steps
<1>4. Nat \subseteq N
  <2> HIDE DEF N
  <2> QED BY <1>2, <1>3, SetInduction
<1> QED BY <1>1, <1>4 DEF Steps

=============================================================================
