-------------------------- MODULE RepoIndexProofs ---------------------------
(***************************************************************************)
(* The index holds what was read, its context keeps to the repository's    *)
(* limit and leaves nothing out within it, and the tools answer with whole *)
(* definitions and within bounds: for any tarball, any diff, any calls of  *)
(* the model and any values of the caps.                                   *)
(*                                                                         *)
(* First what the model's operators return: sums over finite sets, the     *)
(* first few of a set in order, the bytes of lines and the body of a       *)
(* definition. Then an invariant for each stage of the review: the files   *)
(* and symbols (Base), the tarball (Indexed), the loop over the            *)
(* identifiers (ContextInv), the answers (AnswerInv).                      *)
(***************************************************************************)
EXTENDS RepoIndex, SelectionProofs

(* Sums over a finite set.                                                 *)

\* An element of s, as the folds choose it.
Some(s) == CHOOSE x \in s : TRUE

\* The partial sums by which SumFunctionOnSet is defined, one for each subset
\* of S.
Sums(sums, w, S) ==
  sums = [s \in SUBSET S |-> IF s = {} THEN 0 ELSE w[Some(s)] + sums[s \ {Some(s)}]]

\* The sum over S is the last of them, if there are any.
LEMMA SumIs ==
  ASSUME NEW w, NEW S, \E sums : Sums(sums, w, S)
  PROVE  \E sums : Sums(sums, w, S) /\ SumFunctionOnSet(w, S) = sums[S]
<1> DEFINE it == CHOOSE sums : sums = [s \in SUBSET S |->
                    IF s = {} THEN 0 ELSE w[Some(s)] + sums[s \ {Some(s)}]]
<1>1. Sums(it, w, S)
  BY DEF Sums
<1>2. SumFunctionOnSet(w, S) = it[S]
  BY DEF SumFunctionOnSet, FoldFunctionOnSet, MapThenFoldSet, Some
<1> QED BY <1>1, <1>2

\* A part of a finite set has fewer elements.
LEMMA Smaller ==
  ASSUME NEW S, IsFiniteSet(S), NEW s \in SUBSET S, NEW t \in SUBSET s
  PROVE  /\ IsFiniteSet(t) /\ Cardinality(s) \in Nat /\ Cardinality(t) \in Nat
         /\ t # s => Cardinality(t) < Cardinality(s)
<1>1. IsFiniteSet(s) /\ Cardinality(s) \in Nat
  BY FS_Subset, FS_CardinalityType
<1>2. IsFiniteSet(t) /\ Cardinality(t) \in Nat /\ Cardinality(t) <= Cardinality(s)
      /\ (Cardinality(t) = Cardinality(s) => t = s)
  BY <1>1, FS_Subset, FS_CardinalityType
<1> QED BY <1>1, <1>2

\* What is chosen is in the set, and the rest is a smaller one.
LEMMA SomeIsIn ==
  ASSUME NEW s, s # {}
  PROVE  Some(s) \in s /\ s \ {Some(s)} \in SUBSET s /\ s \ {Some(s)} # s
BY DEF Some

\* Induction over the subsets of a finite set.
LEMMA SubsetInduction ==
  ASSUME NEW S, IsFiniteSet(S), NEW G,
         \A s \in SUBSET S : (\A t \in SUBSET s : t # s => t \in G) => s \in G
  PROVE  SUBSET S \subseteq G
<1> DEFINE N == {Cardinality(s) : s \in (SUBSET S) \ G}
<1> SUFFICES ASSUME (SUBSET S) \ G # {} PROVE FALSE
  OBVIOUS
<1>1. N \subseteq Nat /\ N # {}
  <2>1. \A s \in SUBSET S : Cardinality(s) \in Nat
    BY FS_Subset, FS_CardinalityType
  <2> QED BY <2>1
<1>2. PICK n \in N : \A m \in N : n <= m
  <2> HIDE DEF N
  <2> QED BY <1>1, LeastNumber
<1>3. PICK s \in (SUBSET S) \ G : n = Cardinality(s)
  OBVIOUS
<1>4. ASSUME NEW t \in SUBSET s, t # s PROVE t \in G
  <2>1. Cardinality(t) < Cardinality(s) /\ Cardinality(s) \in Nat /\ Cardinality(t) \in Nat
    BY <1>4, Smaller
  <2>2. t \in SUBSET S
    OBVIOUS
  <2>3. CASE t \notin G
    <3>1. Cardinality(t) \in N
      BY <2>2, <2>3
    <3>2. n <= Cardinality(t)
      <4> HIDE DEF N
      <4> QED BY <1>2, <3>1
    <3> QED BY <1>3, <2>1, <3>2
  <2> QED BY <2>3
<1> HIDE DEF N
<1>5. s \in SUBSET S /\ s \notin G
  BY <1>3
<1>6. s \in G
  BY <1>4, <1>5
<1> QED BY <1>5, <1>6

\* The recursion has a solution over every finite set: one that is right for
\* all subsets of up to n elements gives one for up to n + 1.
LEMMA SumsExist ==
  ASSUME NEW w, NEW S, IsFiniteSet(S)
  PROVE  \E sums : Sums(sums, w, S)
<1> DEFINE Of(g, s) == IF s = {} THEN 0 ELSE w[Some(s)] + g[s \ {Some(s)}]
           Good(g, n) == \A s \in SUBSET S : Cardinality(s) <= n => g[s] = Of(g, s)
           N == {n \in Nat : \E g : g = [s \in SUBSET S |-> g[s]] /\ Good(g, n)}
<1>1. 0 \in N
  <2>1. Good([s \in SUBSET S |-> 0], 0)
    <3>1. ASSUME NEW s \in SUBSET S, Cardinality(s) <= 0 PROVE s = {}
      <4>1. IsFiniteSet(s) /\ Cardinality(s) \in Nat
        BY FS_Subset, FS_CardinalityType
      <4>2. Cardinality(s) = 0
        BY <3>1, <4>1
      <4> QED BY <4>1, <4>2, FS_EmptySet
    <3> QED BY <3>1
  <2> HIDE DEF Good
  <2>2. [s \in SUBSET S |-> 0] = [s \in SUBSET S |-> [t \in SUBSET S |-> 0][s]]
    OBVIOUS
  <2> QED BY <2>1, <2>2
<1>2. ASSUME NEW n \in N \cap Nat PROVE n + 1 \in N
  <2>1. PICK g : Good(g, n)
    OBVIOUS
  <2> DEFINE h == [s \in SUBSET S |-> Of(g, s)]
  <2>2. ASSUME NEW s \in SUBSET S, Cardinality(s) <= n + 1 PROVE h[s] = Of(h, s)
    <3>1. CASE s = {}
      BY <3>1
    <3>2. CASE s # {}
      <4> DEFINE r == s \ {Some(s)}
      <4>1. r \in SUBSET s /\ r # s
        BY <3>2, SomeIsIn
      <4>2. Cardinality(r) < Cardinality(s) /\ Cardinality(s) \in Nat /\ Cardinality(r) \in Nat
        BY <4>1, Smaller
      <4>3. Cardinality(r) <= n /\ r \in SUBSET S
        BY <2>2, <4>1, <4>2
      <4>4. g[r] = Of(g, r)
        BY <2>1, <4>3
      <4>5. h[r] = Of(g, r) /\ h[s] = Of(g, s)
        BY <4>3
      <4> HIDE DEF h
      <4> QED BY <3>2, <4>4, <4>5
    <3> QED BY <3>1, <3>2
  <2>3. h = [s \in SUBSET S |-> h[s]]
    OBVIOUS
  <2> HIDE DEF h
  <2>4. Good(h, n + 1)
    BY <2>2
  <2> HIDE DEF Good
  <2> QED BY <2>3, <2>4
<1>3. Nat \subseteq N
  <2> HIDE DEF N
  <2> QED BY <1>1, <1>2, SetInduction
<1>4. Cardinality(S) \in Nat
  BY FS_CardinalityType
<1>5. PICK g : g = [s \in SUBSET S |-> g[s]] /\ Good(g, Cardinality(S))
  <2>1. Cardinality(S) \in N
    BY <1>3, <1>4
  <2> HIDE DEF Good
  <2> QED BY <2>1
<1>6. ASSUME NEW s \in SUBSET S PROVE g[s] = Of(g, s)
  <2>1. Cardinality(s) <= Cardinality(S)
    BY FS_Subset
  <2> QED BY <1>5, <2>1
<1>7. [s \in SUBSET S |-> g[s]] = [s \in SUBSET S |-> Of(g, s)]
  BY <1>6
<1> QED BY <1>5, <1>7 DEF Sums

\* The partial sums do not depend on the set whose parts they are of, nor on
\* weights outside of it.
LEMMA SumsAgree ==
  ASSUME NEW w, NEW v, NEW S, NEW T, IsFiniteSet(S), S \subseteq T,
         NEW f, NEW g, Sums(f, w, S), Sums(g, v, T), \A x \in S : w[x] = v[x]
  PROVE  \A s \in SUBSET S : f[s] = g[s]
<1> DEFINE G == {s \in SUBSET S : f[s] = g[s]}
<1>1. ASSUME NEW s \in SUBSET S, \A t \in SUBSET s : t # s => t \in G PROVE s \in G
  <2>1. f[s] = IF s = {} THEN 0 ELSE w[Some(s)] + f[s \ {Some(s)}]
    BY DEF Sums
  <2>2. s \in SUBSET T
    OBVIOUS
  <2>3. g[s] = IF s = {} THEN 0 ELSE v[Some(s)] + g[s \ {Some(s)}]
    BY <2>2 DEF Sums
  <2>4. CASE s = {}
    BY <2>1, <2>3, <2>4
  <2>5. CASE s # {}
    <3>1. Some(s) \in S /\ s \ {Some(s)} \in G
      BY <1>1, <2>5, SomeIsIn
    <3> QED BY <2>1, <2>3, <2>5, <3>1
  <2> QED BY <2>4, <2>5
<1>2. SUBSET S \subseteq G
  <2> HIDE DEF G
  <2> QED BY <1>1, SubsetInduction
<1> QED BY <1>2

\* Nor on the order in which the elements are chosen.
LEMMA AnyOrder ==
  ASSUME NEW w, NEW S, IsFiniteSet(S), NEW f, Sums(f, w, S), \A x \in S : w[x] \in Int
  PROVE  \A s \in SUBSET S : f[s] \in Int /\ \A x \in s : f[s] = w[x] + f[s \ {x}]
<1> DEFINE G == {s \in SUBSET S : f[s] \in Int /\ \A x \in s : f[s] = w[x] + f[s \ {x}]}
<1>1. ASSUME NEW s \in SUBSET S, \A t \in SUBSET s : t # s => t \in G PROVE s \in G
  <2> DEFINE c == Some(s)
  <2>1. f[s] = IF s = {} THEN 0 ELSE w[c] + f[s \ {c}]
    BY DEF Sums
  <2>2. CASE s = {}
    BY <2>1, <2>2
  <2>3. CASE s # {}
    <3>1. c \in s /\ s \ {c} \in SUBSET s /\ s \ {c} # s
      BY <2>3, SomeIsIn
    <3> HIDE DEF c
    <3>2. s \ {c} \in G
      BY <1>1, <3>1
    <3>3. f[s] = w[c] + f[s \ {c}] /\ w[c] \in Int /\ f[s \ {c}] \in Int
      BY <2>1, <2>3, <3>1, <3>2
    <3>4. ASSUME NEW x \in s PROVE f[s] = w[x] + f[s \ {x}]
      <4>1. CASE x = c
        BY <3>3, <4>1
      <4>2. CASE x # c
        <5>1. s \ {x} \in SUBSET s /\ s \ {x} # s /\ c \in s \ {x} /\ x \in s \ {c}
          BY <3>1, <4>2
        <5>2. s \ {x} \in G
          BY <1>1, <5>1
        <5>3. f[s \ {x}] = w[c] + f[(s \ {x}) \ {c}] /\ f[s \ {x}] \in Int
          BY <5>1, <5>2
        <5>4. f[s \ {c}] = w[x] + f[(s \ {c}) \ {x}]
          BY <3>2, <5>1
        <5>5. (s \ {x}) \ {c} = (s \ {c}) \ {x}
          OBVIOUS
        <5>6. (s \ {c}) \ {x} \in G
          <6>1. (s \ {c}) \ {x} \in SUBSET s /\ (s \ {c}) \ {x} # s
            BY <3>1
          <6> QED BY <1>1, <6>1
        <5>7. f[(s \ {c}) \ {x}] \in Int /\ w[x] \in Int
          BY <5>6
        <5> DEFINE r == f[(s \ {c}) \ {x}]
        <5>8. f[s \ {x}] = w[c] + r /\ f[s \ {c}] = w[x] + r /\ r \in Int
          BY <5>3, <5>4, <5>5, <5>7
        <5> HIDE DEF r, G
        <5> QED BY <3>3, <5>7, <5>8
      <4> QED BY <4>1, <4>2
    <3>5. f[s] \in Int
      BY <3>3
    <3> QED BY <3>4, <3>5
  <2> QED BY <2>2, <2>3
<1>2. SUBSET S \subseteq G
  <2> HIDE DEF G
  <2> QED BY <1>1, SubsetInduction
<1> QED BY <1>2

-----------------------------------------------------------------------------
(* What the sum of a function over a finite set is.                        *)

\* Nothing adds up to 0.
LEMMA SumOfNone == ASSUME NEW w PROVE SumFunctionOnSet(w, {}) = 0
<1>1. IsFiniteSet({})
  BY FS_EmptySet
<1>2. PICK f : Sums(f, w, {}) /\ SumFunctionOnSet(w, {}) = f[{}]
  <2>1. \E f : Sums(f, w, {})
    BY <1>1, SumsExist
  <2> QED BY <2>1, SumIs
<1>3. {} \in SUBSET {}
  OBVIOUS
<1> QED BY <1>2, <1>3 DEF Sums

\* The sum depends on the weights of the elements only.
LEMMA SumOfEqual ==
  ASSUME NEW w, NEW v, NEW S, IsFiniteSet(S), \A x \in S : w[x] = v[x]
  PROVE  SumFunctionOnSet(w, S) = SumFunctionOnSet(v, S)
<1>1. PICK f : Sums(f, w, S) /\ SumFunctionOnSet(w, S) = f[S]
  <2>1. \E f : Sums(f, w, S)
    BY SumsExist
  <2> QED BY <2>1, SumIs
<1>2. PICK g : Sums(g, v, S) /\ SumFunctionOnSet(v, S) = g[S]
  <2>1. \E g : Sums(g, v, S)
    BY SumsExist
  <2> QED BY <2>1, SumIs
<1>3. \A s \in SUBSET S : f[s] = g[s]
  BY <1>1, <1>2, SumsAgree
<1> QED BY <1>1, <1>2, <1>3

\* It is a number where the weights are, and one of the naturals likewise.
LEMMA SumOfInts ==
  ASSUME NEW w, NEW S, IsFiniteSet(S), \A x \in S : w[x] \in Int
  PROVE  SumFunctionOnSet(w, S) \in Int
<1>1. PICK f : Sums(f, w, S) /\ SumFunctionOnSet(w, S) = f[S]
  <2>1. \E f : Sums(f, w, S)
    BY SumsExist
  <2> QED BY <2>1, SumIs
<1>2. f[S] \in Int
  BY <1>1, AnyOrder
<1> QED BY <1>1, <1>2

LEMMA SumOfNats ==
  ASSUME NEW w, NEW S, IsFiniteSet(S), \A x \in S : w[x] \in Nat
  PROVE  SumFunctionOnSet(w, S) \in Nat
<1>1. PICK f : Sums(f, w, S) /\ SumFunctionOnSet(w, S) = f[S]
  <2>1. \E f : Sums(f, w, S)
    BY SumsExist
  <2> QED BY <2>1, SumIs
<1> DEFINE G == {s \in SUBSET S : f[s] \in Nat}
<1>2. ASSUME NEW s \in SUBSET S, \A t \in SUBSET s : t # s => t \in G PROVE s \in G
  <2>1. f[s] = IF s = {} THEN 0 ELSE w[Some(s)] + f[s \ {Some(s)}]
    BY <1>1 DEF Sums
  <2>2. s # {} => w[Some(s)] \in Nat /\ f[s \ {Some(s)}] \in Nat
    BY <1>2, SomeIsIn
  <2> QED BY <2>1, <2>2
<1>3. SUBSET S \subseteq G
  <2> HIDE DEF G
  <2> QED BY <1>2, SubsetInduction
<1> QED BY <1>1, <1>3

\* Without one of its elements, and with one more.
LEMMA SumOfRest ==
  ASSUME NEW w, NEW T, IsFiniteSet(T), NEW a \in T, \A x \in T : w[x] \in Int
  PROVE  /\ SumFunctionOnSet(w, T) = SumFunctionOnSet(w, T \ {a}) + w[a]
         /\ SumFunctionOnSet(w, T \ {a}) \in Int
<1> DEFINE S == T \ {a}
<1>1. IsFiniteSet(S) /\ S \subseteq T /\ S \in SUBSET S /\ S \in SUBSET T /\ T \in SUBSET T
  BY FS_Subset
<1> HIDE DEF S
<1>2. PICK f : Sums(f, w, S) /\ SumFunctionOnSet(w, S) = f[S]
  <2>1. \E f : Sums(f, w, S)
    BY <1>1, SumsExist
  <2> QED BY <2>1, SumIs
<1>3. PICK g : Sums(g, w, T) /\ SumFunctionOnSet(w, T) = g[T]
  <2>1. \E g : Sums(g, w, T)
    BY SumsExist
  <2> QED BY <2>1, SumIs
<1>4. f[S] = g[S]
  <2>1. \A s \in SUBSET S : f[s] = g[s]
    <3>1. \A x \in S : w[x] = w[x]
      OBVIOUS
    <3> QED BY <1>1, <1>2, <1>3, <3>1, SumsAgree
  <2> QED BY <1>1, <2>1
<1>5. g[T] = w[a] + g[S] /\ g[S] \in Int
  <2>1. \A s \in SUBSET T : g[s] \in Int /\ \A x \in s : g[s] = w[x] + g[s \ {x}]
    BY <1>3, AnyOrder
  <2>2. g[T] = w[a] + g[T \ {a}]
    BY <1>1, <2>1
  <2> QED BY <1>1, <2>1, <2>2 DEF S
<1>6. SumFunctionOnSet(w, T) = SumFunctionOnSet(w, S) + w[a] /\ SumFunctionOnSet(w, S) \in Int
  BY <1>2, <1>3, <1>4, <1>5
<1> QED BY <1>6 DEF S

LEMMA SumOfMore ==
  ASSUME NEW w, NEW S, IsFiniteSet(S), NEW a, a \notin S,
         \A x \in S \cup {a} : w[x] \in Int
  PROVE  /\ SumFunctionOnSet(w, S \cup {a}) = SumFunctionOnSet(w, S) + w[a]
         /\ SumFunctionOnSet(w, S) \in Int
<1> DEFINE T == S \cup {a}
<1>1. IsFiniteSet(T) /\ a \in T /\ T \ {a} = S /\ \A x \in T : w[x] \in Int
  BY FS_AddElement
<1> HIDE DEF T
<1>2. SumFunctionOnSet(w, T) = SumFunctionOnSet(w, T \ {a}) + w[a]
      /\ SumFunctionOnSet(w, T \ {a}) \in Int
  BY <1>1, SumOfRest
<1> QED BY <1>1, <1>2 DEF T

\* Of weights from 0 to m, over a set of at most n elements.
LEMMA SumOfBounded ==
  ASSUME NEW w, NEW S, IsFiniteSet(S), NEW m \in Nat, \A x \in S : w[x] \in 0..m,
         NEW n \in Nat, Cardinality(S) <= n
  PROVE  SumFunctionOnSet(w, S) \in Nat /\ SumFunctionOnSet(w, S) <= n * m
<1>1. PICK f : Sums(f, w, S) /\ SumFunctionOnSet(w, S) = f[S]
  <2>1. \E f : Sums(f, w, S)
    BY SumsExist
  <2> QED BY <2>1, SumIs
<1> DEFINE G == {s \in SUBSET S : f[s] \in Nat /\ f[s] <= Cardinality(s) * m}
<1>2. ASSUME NEW s \in SUBSET S, \A t \in SUBSET s : t # s => t \in G PROVE s \in G
  <2> DEFINE c == Some(s)
  <2>1. f[s] = IF s = {} THEN 0 ELSE w[c] + f[s \ {c}]
    BY <1>1 DEF Sums
  <2>2. CASE s = {}
    <3>1. f[s] = 0 /\ Cardinality(s) = 0 /\ 0 * m = 0
      BY <2>1, <2>2, FS_EmptySet
    <3> QED BY <3>1
  <2>3. CASE s # {}
    <3>1. c \in s /\ s \ {c} \in SUBSET s /\ s \ {c} # s
      BY <2>3, SomeIsIn
    <3>2. IsFiniteSet(s)
      BY FS_Subset
    <3> HIDE DEF c
    <3>3. Cardinality(s \ {c}) = Cardinality(s) - 1 /\ Cardinality(s) \in Nat
      BY <3>1, <3>2, FS_RemoveElement, FS_CardinalityType
    <3>4. f[s \ {c}] \in Nat /\ f[s \ {c}] <= (Cardinality(s) - 1) * m /\ w[c] \in 0..m
      BY <1>2, <3>1, <3>3
    <3>5. (Cardinality(s) - 1) * m + m = Cardinality(s) * m
      BY <3>3
    <3>6. f[s] = w[c] + f[s \ {c}]
      BY <2>1, <2>3
    <3>7. (Cardinality(s) - 1) * m \in Int
      BY <3>3
    <3>8. f[s] \in Nat /\ f[s] <= Cardinality(s) * m
      BY <3>4, <3>5, <3>6, <3>7
    <3> QED BY <3>8
  <2> QED BY <2>2, <2>3
<1>3. SUBSET S \subseteq G
  <2> HIDE DEF G
  <2> QED BY <1>2, SubsetInduction
<1>4. f[S] \in Nat /\ f[S] <= Cardinality(S) * m
  BY <1>3
<1>5. Cardinality(S) \in Nat /\ Cardinality(S) * m \in Int /\ n * m \in Int
  BY FS_CardinalityType
<1>6. Cardinality(S) * m <= n * m
  <2>1. \A k \in Nat : k <= n => k * m <= n * m
    OBVIOUS
  <2> QED BY <1>5, <2>1
<1> QED BY <1>1, <1>4, <1>5, <1>6

-----------------------------------------------------------------------------
(* The first few of a set that is in order.                                *)

\* Of elements with different ranks, at most n have one below n.
LEMMA RankedBelow ==
  ASSUME NEW P, IsFiniteSet(P), NEW r, NEW n \in Nat,
         \A s \in P : r[s] \in Nat, \A s, t \in P : r[s] = r[t] => s = t,
         NEW F, F \subseteq P, \A s \in F : r[s] < n
  PROVE  IsFiniteSet(F) /\ Cardinality(F) <= n
<1> DEFINE f == [s \in F |-> r[s] + 1]
<1>1. f \in Injection(F, 1..n)
  <2>1. f \in [F -> 1..n]
    <3>1. ASSUME NEW s \in F PROVE r[s] + 1 \in 1..n
      OBVIOUS
    <3> QED BY <3>1
  <2>2. ASSUME NEW s \in F, NEW t \in F, f[s] = f[t] PROVE s = t
    <3>1. r[s] \in Nat /\ r[t] \in Nat /\ r[s] + 1 = r[t] + 1 /\ s \in P /\ t \in P
      BY <2>2
    <3> QED BY <3>1
  <2> QED BY <2>1, <2>2 DEF Injection, IsInjective
<1>2. IsFiniteSet(1..n) /\ Cardinality(1..n) = n
  BY UpTo
<1> HIDE DEF f
<1> QED BY <1>1, <1>2, FS_Injection

\* What is before an element is less than what is before a later one.
LEMMA LessBefore ==
  ASSUME NEW P, IsFiniteSet(P), NEW X, X \subseteq P, NEW Y, Y \subseteq P,
         X \subseteq Y, NEW x \in Y, x \notin X
  PROVE  Cardinality(X) \in Nat /\ Cardinality(Y) \in Nat /\ Cardinality(X) # Cardinality(Y)
<1>1. IsFiniteSet(Y) /\ Y \in SUBSET P /\ X \in SUBSET Y /\ X # Y
  BY FS_Subset
<1>2. Cardinality(X) < Cardinality(Y) /\ Cardinality(X) \in Nat /\ Cardinality(Y) \in Nat
  BY <1>1, Smaller
<1> QED BY <1>2

-----------------------------------------------------------------------------
(* Places in the files.                                                    *)

\* Places are pairs of numbers, which Before orders.
LEMMA PlacesInOrder ==
  ASSUME NEW P, P \subseteq Nat \X Nat
  PROVE  /\ \A s \in P : ~Before(s, s)
         /\ \A s, t, u \in P : Before(s, t) /\ Before(t, u) => Before(s, u)
         /\ \A s, t \in P : s = t \/ Before(s, t) \/ Before(t, s)
<1>1. \A s \in P : s[1] \in Nat /\ s[2] \in Nat /\ s = <<s[1], s[2]>>
  OBVIOUS
<1>2. \A s \in P : ~Before(s, s)
  BY <1>1 DEF Before
<1>3. \A s, t, u \in P : Before(s, t) /\ Before(t, u) => Before(s, u)
  BY <1>1 DEF Before
<1>4. ASSUME NEW s \in P, NEW t \in P PROVE s = t \/ Before(s, t) \/ Before(t, s)
  BY <1>1 DEF Before
<1> QED BY <1>2, <1>3, <1>4

\* FirstOf(n, P) has at most n places.
LEMMA FirstPlaces ==
  ASSUME NEW P, IsFiniteSet(P), P \subseteq Nat \X Nat, NEW n \in Nat
  PROVE  /\ IsFiniteSet(FirstOf(n, P)) /\ Cardinality(FirstOf(n, P)) <= n
         /\ FirstOf(n, P) \subseteq P
<1> DEFINE before(s) == {t \in P : Before(t, s)}
           r == [s \in P |-> Cardinality(before(s))]
           F == FirstOf(n, P)
<1>1. F \subseteq P /\ \A s \in F : r[s] < n
  BY DEF FirstOf
<1>2. \A s \in P : r[s] \in Nat
  <2>1. ASSUME NEW s \in P PROVE Cardinality(before(s)) \in Nat
    <3>1. before(s) \in SUBSET P
      OBVIOUS
    <3> HIDE DEF before
    <3> QED BY <3>1, FS_Subset, FS_CardinalityType
  <2> QED BY <2>1
<1>3. ASSUME NEW s \in P, NEW t \in P, Before(s, t) PROVE r[s] # r[t]
  <2>1. before(s) \subseteq P /\ before(t) \subseteq P
    OBVIOUS
  <2>2. before(s) \subseteq before(t) /\ s \in before(t) /\ s \notin before(s)
    BY <1>3, PlacesInOrder
  <2> HIDE DEF before
  <2>3. Cardinality(before(s)) # Cardinality(before(t))
    BY <2>1, <2>2, LessBefore
  <2> QED BY <2>3
<1>4. ASSUME NEW s \in P, NEW t \in P, r[s] = r[t] PROVE s = t
  <2> HIDE DEF r
  <2>1. ~Before(s, t) /\ ~Before(t, s)
    BY <1>3, <1>4
  <2> QED BY <2>1, PlacesInOrder
<1> HIDE DEF r, F
<1>5. IsFiniteSet(F) /\ Cardinality(F) <= n
  BY <1>1, <1>2, <1>4, RankedBelow
<1> QED BY <1>1, <1>5 DEF F

\* The first of them.
LEMMA AFirstPlace ==
  ASSUME NEW P, P \subseteq Nat \X Nat, P # {}
  PROVE  \E s \in P : \A t \in P : ~Before(t, s)
<1> DEFINE A == {s[1] : s \in P}
<1>1. A \subseteq Nat /\ A # {}
  OBVIOUS
<1>2. PICK a \in A : \A b \in A : a <= b
  <2> HIDE DEF A
  <2> QED BY <1>1, LeastNumber
<1> DEFINE L == {s[2] : s \in {t \in P : t[1] = a}}
<1>3. L \subseteq Nat /\ L # {}
  <2>1. PICK t \in P : t[1] = a
    OBVIOUS
  <2>2. t[2] \in L
    BY <2>1
  <2> QED BY <2>2
<1>4. PICK l \in L : \A k \in L : l <= k
  <2> HIDE DEF L
  <2> QED BY <1>3, LeastNumber
<1>5. PICK s \in P : s[1] = a /\ s[2] = l
  OBVIOUS
<1>6. ASSUME NEW t \in P, Before(t, s) PROVE FALSE
  <2>1. t[1] \in A /\ t[1] \in Nat /\ t[2] \in Nat /\ s[1] \in Nat /\ s[2] \in Nat
    OBVIOUS
  <2>2. a <= t[1]
    BY <1>2, <2>1
  <2>3. t[1] = a => t[2] \in L
    OBVIOUS
  <2>4. t[1] = a => l <= t[2]
    BY <1>4, <2>3
  <2> HIDE DEF A, L
  <2> QED BY <1>5, <1>6, <2>1, <2>2, <2>4 DEF Before
<1> QED BY <1>6

-----------------------------------------------------------------------------
(* The bytes of lines.                                                     *)

\* A text is a sequence of lines.
LEMMA LinesOf ==
  ASSUME NEW text, IsText(text)
  PROVE  /\ Len(text) \in Nat /\ DOMAIN text = 1..Len(text)
         /\ \A i \in DOMAIN text : IsLine(text[i]) /\ text[i].size \in Nat
BY LenProperties DEF IsText, IsLine

\* Positions up to n are finitely many.
LEMMA FiniteRange ==
  ASSUME NEW n \in Nat, NEW S, S \subseteq 1..n
  PROVE  IsFiniteSet(S)
BY UpTo, FS_Subset

\* The bytes of some lines are a sum over positions of the whole text.
LEMMA BytesOf ==
  ASSUME NEW text, IsText(text), NEW from \in Nat \ {0}, NEW to \in Int, to <= Len(text)
  PROVE  /\ Bytes(text, from, to) \in Nat
         /\ Bytes(text, from, to) = SumFunctionOnSet([i \in 1..Len(text) |-> text[i].size], from..to)
<1> DEFINE w == [i \in from..to |-> text[i].size]
           v == [i \in 1..Len(text) |-> text[i].size]
           S == from..to
<1>1. Len(text) \in Nat /\ DOMAIN text = 1..Len(text) /\ \A i \in DOMAIN text : text[i].size \in Nat
  BY LinesOf
<1>2. S \subseteq 1..Len(text)
  BY <1>1
<1>3. (\A i \in S : w[i] \in Nat) /\ \A i \in S : w[i] = v[i]
  BY <1>1, <1>2
<1>4. Bytes(text, from, to) = SumFunctionOnSet(w, S)
  BY DEF Bytes, SumFunction
<1> HIDE DEF w, v, S
<1>5. IsFiniteSet(S)
  BY <1>1, <1>2, FiniteRange
<1>6. SumFunctionOnSet(w, S) \in Nat
  BY <1>3, <1>5, SumOfNats
<1>7. SumFunctionOnSet(w, S) = SumFunctionOnSet(v, S)
  BY <1>3, <1>5, SumOfEqual
<1> QED BY <1>4, <1>6, <1>7 DEF v, S

\* The last line is counted once.
LEMMA BytesOfLast ==
  ASSUME NEW text, IsText(text), NEW from \in Nat \ {0}, NEW to \in from..Len(text)
  PROVE  Bytes(text, from, to) = Bytes(text, from, to - 1) + text[to].size
<1> DEFINE v == [i \in 1..Len(text) |-> text[i].size]
           S == from..(to - 1)
<1>1. Len(text) \in Nat /\ DOMAIN text = 1..Len(text) /\ \A i \in DOMAIN text : text[i].size \in Nat
  BY LinesOf
<1>2. S \subseteq 1..Len(text) /\ to \in 1..Len(text) /\ to \notin S /\ S \cup {to} = from..to
      /\ to <= Len(text) /\ to - 1 <= Len(text) /\ to - 1 \in Int /\ to \in Int
  BY <1>1
<1>3. \A i \in S \cup {to} : v[i] \in Int
  BY <1>1, <1>2
<1>4. Bytes(text, from, to) = SumFunctionOnSet(v, from..to)
  BY <1>2, BytesOf
<1>5. Bytes(text, from, to - 1) = SumFunctionOnSet(v, S)
  BY <1>2, BytesOf
<1>6. v[to] = text[to].size
  BY <1>2
<1> HIDE DEF v, S
<1>7. IsFiniteSet(S)
  BY <1>1, <1>2, FiniteRange
<1>8. SumFunctionOnSet(v, S \cup {to}) = SumFunctionOnSet(v, S) + v[to]
  BY <1>2, <1>3, <1>7, SumOfMore
<1> QED BY <1>2, <1>4, <1>5, <1>6, <1>8

\* A line has no more than its text.
LEMMA LineInText ==
  ASSUME NEW text, IsText(text), NEW i \in DOMAIN text
  PROVE  text[i].size <= Bytes(text, 1, Len(text))
<1> DEFINE v == [k \in 1..Len(text) |-> text[k].size]
           T == 1..Len(text)
<1>1. Len(text) \in Nat /\ DOMAIN text = T /\ \A k \in DOMAIN text : text[k].size \in Nat
  BY LinesOf
<1>2. Bytes(text, 1, Len(text)) = SumFunctionOnSet(v, T)
  BY <1>1, BytesOf
<1>3. (\A k \in T : v[k] \in Nat) /\ (\A k \in T : v[k] \in Int) /\ v[i] = text[i].size /\ i \in T
  BY <1>1
<1>4. IsFiniteSet(T) /\ IsFiniteSet(T \ {i}) /\ \A k \in T \ {i} : v[k] \in Nat
  BY <1>1, <1>3, FiniteRange
<1> HIDE DEF v, T
<1>5. SumFunctionOnSet(v, T) = SumFunctionOnSet(v, T \ {i}) + v[i]
  BY <1>3, <1>4, SumOfRest
<1>6. SumFunctionOnSet(v, T \ {i}) \in Nat
  BY <1>4, SumOfNats
<1>7. v[i] \in Nat
  BY <1>3
<1> QED BY <1>2, <1>3, <1>5, <1>6, <1>7

-----------------------------------------------------------------------------
(* extract_body                                                            *)

\* It takes the lines from the definition's to the first on which it may
\* break, or as many as there are or are allowed.
LEMMA BodyOf ==
  ASSUME NEW text, IsText(text), NEW start \in DOMAIN text, NEW body,
         body = extract_body(text, start)
  PROVE  /\ body.last \in start..Len(text) /\ body.last <= start + BODY_LINES - 1
         /\ \A k \in start..(body.last - 1) : ~Balanced(text, start, k) /\ ~Truncated(text, start, k)
         /\ \/ Balanced(text, start, body.last) \/ Truncated(text, start, body.last)
            \/ body.last = start + BODY_LINES - 1 \/ body.last = Len(text)
         /\ body.marked = Truncated(text, start, body.last)
         /\ body.size = Bytes(text, start, body.last)
<1> DEFINE end == IF start + BODY_LINES - 1 < Len(text) THEN start + BODY_LINES - 1 ELSE Len(text)
           Stop(i) == Balanced(text, start, i) \/ Truncated(text, start, i)
           breaks == {i \in start..end : Stop(i)}
           last == IF breaks = {} THEN end ELSE Min(breaks)
<1>1. Len(text) \in Nat /\ DOMAIN text = 1..Len(text)
  BY LinesOf
<1>2. body = [last |-> last, marked |-> Truncated(text, start, last),
              size |-> Bytes(text, start, last)]
  BY DEF extract_body
<1>3. body.last = last /\ body.marked = Truncated(text, start, last)
      /\ body.size = Bytes(text, start, last)
  BY <1>2
<1>4. BODY_LINES \in Nat \ {0}
  BY SourceTextAssumption
<1>5. end \in start..Len(text) /\ end <= start + BODY_LINES - 1
      /\ (end = start + BODY_LINES - 1 \/ end = Len(text))
  BY <1>1, <1>4
<1> HIDE DEF end
<1>0. start \in Nat /\ end \in Nat /\ BODY_LINES \in Nat /\ Len(text) \in Nat
  <2>1. start \in 1..Len(text) /\ Len(text) \in Nat
    BY <1>1
  <2>2. start \in Nat
    BY <2>1
  <2> QED BY <1>4, <1>5, <2>1, <2>2
<1>6. breaks \subseteq Nat
  <2>1. start..end \subseteq Nat /\ breaks \subseteq start..end
    BY <1>0
  <2> QED BY <2>1
<1>7. CASE breaks = {}
  <2>1. last = end
    BY <1>7
  <2>2. \A k \in start..(last - 1) : ~Stop(k)
    BY <1>5, <1>7, <2>1
  <2> HIDE DEF last, breaks
  <2> QED BY <1>3, <1>5, <2>1, <2>2
<1>8. CASE breaks # {}
  <2>1. \E x \in breaks : \A y \in breaks : x <= y
    <3> HIDE DEF breaks
    <3> QED BY <1>6, <1>8, LeastNumber
  <2>2. last \in breaks /\ \A y \in breaks : last <= y
    <3> HIDE DEF breaks
    <3> QED BY <1>8, <2>1 DEF Min
  <2> HIDE DEF last
  <2>3. last \in start..end /\ Stop(last)
    BY <2>2
  <2>4. ASSUME NEW k \in start..(last - 1) PROVE ~Stop(k)
    <3>1. k \in start..end /\ ~(last <= k)
      <4>1. last \in Int /\ last <= end /\ start <= last
        BY <1>0, <2>3
      <4>2. k \in Int /\ start <= k /\ k <= last - 1
        BY <1>0, <4>1
      <4> QED BY <1>0, <4>1, <4>2
    <3> HIDE DEF Stop
    <3> QED BY <2>2, <3>1
  <2> HIDE DEF breaks
  <2>5. last \in start..Len(text) /\ last <= start + BODY_LINES - 1
    <3>1. last \in Int /\ last <= end /\ start <= last
      BY <1>0, <2>3
    <3>2. end <= Len(text) /\ end <= start + BODY_LINES - 1
      BY <1>0, <1>5
    <3> QED BY <1>0, <3>1, <3>2
  <2> QED BY <1>3, <2>3, <2>4, <2>5
<1> QED BY <1>7, <1>8

\* Of an item in braces, or on one line: it ends where the item does, or
\* before, where a cap has it, and says which of the caps by its mark.
LEMMA BodyEnds ==
  ASSUME NEW text, IsText(text), NEW start \in DOMAIN text, NEW body,
         body = extract_body(text, start), text[start].defines # NoName,
         text[start].kind # "other"
  PROVE  /\ body.last <= EndOf(text, start)
         /\ body.last < EndOf(text, start) =>
              body.marked \/ body.last = start + BODY_LINES - 1
         /\ body.marked => body.last < EndOf(text, start) /\ body.size >= BODY_BYTES
<1> DEFINE e == EndOf(text, start)
           l == body.last
<1>1. Len(text) \in Nat /\ DOMAIN text = 1..Len(text) /\ text[start].span \in Nat \ {0}
  BY LinesOf DEF IsLine
<1>2. WellFormed(text, start) /\ e <= Len(text) /\ e \in start..Len(text)
  <2>1. WellFormed(text, start)
    BY DEF IsText
  <2>2. e <= Len(text) /\ e = start + text[start].span - 1
    BY <2>1 DEF WellFormed, EndOf
  <2>3. start \in Nat /\ text[start].span >= 1
    BY <1>1
  <2> HIDE DEF e
  <2> QED BY <1>1, <2>1, <2>2, <2>3
<1>3. Balanced(text, start, e)
  <2>1. text[start].kind \in {"braces", "semi"}
    BY LinesOf DEF IsLine
  <2>2. CASE text[start].kind = "braces"
    BY <1>2, <2>2 DEF WellFormed, Balanced
  <2>3. CASE text[start].kind = "semi"
    <3>1. e = start /\ text[start].semi /\ text[start].opens = 0
      BY <1>1, <1>2, <2>3 DEF WellFormed, EndOf
    <3>2. \A k \in start..e : text[k].opens = 0
      BY <1>1, <3>1
    <3> QED BY <3>1, <3>2 DEF Balanced
  <2> QED BY <2>1, <2>2, <2>3
<1>4. ASSUME NEW k \in start..(e - 1) PROVE ~Balanced(text, start, k)
  <2>1. text[start].kind = "braces"
    <3>1. text[start].kind = "semi" => e = start
      BY <1>1, <1>2 DEF WellFormed, EndOf
    <3>2. e # start
      BY <1>1, <1>2
    <3> QED BY <3>1, <3>2, LinesOf DEF IsLine
  <2>2. IF \E h \in start..k : text[h].opens > 0 THEN Depth(text, start, k) > 0
        ELSE ~text[k].semi
    BY <1>2, <2>1 DEF WellFormed
  <2>3. Depth(text, start, k) > 0 => ~(Depth(text, start, k) <= 0)
    <3>1. Depth(text, start, k) \in Int
      <4> DEFINE w == [i \in start..k |-> text[i].opens - text[i].closes]
                 S == start..k
      <4>1. S \subseteq 1..Len(text)
        BY <1>1, <1>2
      <4>2. \A i \in S : w[i] \in Int
        BY <1>1, <4>1, LinesOf DEF IsLine
      <4>3. Depth(text, start, k) = SumFunctionOnSet(w, S)
        BY DEF Depth, SumFunction
      <4> HIDE DEF w, S
      <4>4. IsFiniteSet(S)
        BY <1>1, <4>1, FiniteRange
      <4> QED BY <4>2, <4>3, <4>4, SumOfInts
    <3> QED BY <3>1
  <2> QED BY <2>2, <2>3 DEF Balanced
<1>5. l \in start..Len(text) /\ l <= start + BODY_LINES - 1
  BY BodyOf
<1>6. \A k \in start..(l - 1) : ~Balanced(text, start, k)
  BY BodyOf
<1>7. \/ Balanced(text, start, l) \/ Truncated(text, start, l)
      \/ l = start + BODY_LINES - 1 \/ l = Len(text)
  BY BodyOf
<1>8. body.marked = Truncated(text, start, l) /\ body.size = Bytes(text, start, l)
  BY BodyOf
<1> HIDE DEF e, l
<1>9. l <= e
  <2>1. e < l => e \in start..(l - 1)
    BY <1>1, <1>2, <1>5
  <2>2. l \in Int /\ e \in Int
    BY <1>1, <1>2, <1>5
  <2> QED BY <1>3, <1>6, <2>1, <2>2
<1>10. l < e => body.marked \/ l = start + BODY_LINES - 1
  <2>1. l < e => l \in start..(e - 1) /\ l # Len(text)
    <3>1. start \in Nat /\ l \in Nat /\ e \in Nat /\ start <= l /\ e <= Len(text)
      BY <1>1, <1>2, <1>5
    <3>2. Len(text) \in Nat
      BY <1>1
    <3> QED BY <3>1, <3>2
  <2> QED BY <1>4, <1>7, <1>8, <2>1
<1>11. body.marked => l < e /\ body.size >= BODY_BYTES
  <2>1. Truncated(text, start, l) => l # e /\ Bytes(text, start, l) >= BODY_BYTES
    BY <1>3 DEF Truncated
  <2>2. l # e => l < e
    BY <1>1, <1>2, <1>5, <1>9
  <2> QED BY <1>8, <2>1, <2>2
<1> QED BY <1>9, <1>10, <1>11 DEF e, l

\* It has the bytes it may have and one line more.
LEMMA BodyBytes ==
  ASSUME NEW text, IsText(text), NEW start \in DOMAIN text, NEW body,
         body = extract_body(text, start), NEW m \in Nat, \A i \in DOMAIN text : text[i].size <= m
  PROVE  body.size \in Nat /\ body.size <= BODY_BYTES + m
<1> DEFINE l == body.last
<1>1. Len(text) \in Nat /\ DOMAIN text = 1..Len(text) /\ \A i \in DOMAIN text : text[i].size \in Nat
  BY LinesOf
<1>2. l \in start..Len(text) /\ body.size = Bytes(text, start, l)
  BY BodyOf
<1>3. l - 1 >= start => ~Balanced(text, start, l - 1) /\ ~Truncated(text, start, l - 1)
  <2>1. l - 1 >= start => l - 1 \in start..(l - 1)
    BY <1>1, <1>2
  <2> QED BY <2>1, BodyOf
<1> HIDE DEF l
<1>4. start \in Nat \ {0} /\ l \in Int /\ l - 1 \in Int /\ l <= Len(text) /\ l - 1 <= Len(text)
  BY <1>1, <1>2
<1>5. Bytes(text, start, l) = Bytes(text, start, l - 1) + text[l].size
  BY <1>2, <1>4, BytesOfLast
<1>6. Bytes(text, start, l - 1) \in Nat
  BY <1>4, BytesOf
<1>7. Bytes(text, start, l - 1) <= BODY_BYTES
  <2>1. CASE l - 1 >= start
    <3>1. ~(Bytes(text, start, l - 1) >= BODY_BYTES)
      BY <1>3, <2>1 DEF Truncated
    <3> QED BY <1>6, <3>1, SourceTextAssumption
  <2>2. CASE ~(l - 1 >= start)
    <3>1. start..(l - 1) = {}
      BY <1>1, <1>4, <2>2
    <3>2. Bytes(text, start, l - 1) = 0
      <4> DEFINE v == [k \in 1..Len(text) |-> text[k].size]
      <4>1. Bytes(text, start, l - 1) = SumFunctionOnSet(v, start..(l - 1))
        BY <1>4, BytesOf
      <4> HIDE DEF v
      <4> QED BY <3>1, <4>1, SumOfNone
    <3> QED BY <3>2, SourceTextAssumption
  <2> QED BY <2>1, <2>2
<1>8. text[l].size \in Nat /\ text[l].size <= m
  BY <1>1, <1>2
<1> QED BY <1>2, <1>5, <1>6, <1>7, <1>8, SourceTextAssumption

-----------------------------------------------------------------------------
(* The inductive invariant.                                                *)

\* Whatever the repository states, some bytes are allowed for the context.
ConfigInv ==
  config \in ResolvedConfig /\ config.limits["max_context_bytes"] \in Nat \ {0}

\* The files are finitely many, and none is larger than one may be.
FilesInv ==
  /\ DOMAIN files \subseteq Paths
  /\ IsFiniteSet(DOMAIN files) /\ IsFiniteSet(Places(files))
  /\ \A p \in DOMAIN files :
       IsText(files[p]) /\ Bytes(files[p], 1, Len(files[p])) <= MAX_FILE_BYTES

\* A site of a name is a line of the files that defines the name.
SymbolsInv ==
  \A n \in Names :
    \A s \in symbols[n] : s \in Places(files) /\ files[s[1]][s[2]].defines = n

\* What a later part of the review writes is untouched before.
Stages ==
  /\ pc \in {"tarball", "diff only", "failed", "identifiers", "context", "tools"}
  /\ pc \in {"tarball", "diff only", "failed"} => symbols = NoSymbols
  /\ pc \in {"tarball", "diff only", "failed", "identifiers"} =>
       hints = <<>> /\ used = 0 /\ at = 1
  /\ pc # "tools" => answer = NoAnswer

Base == ConfigInv /\ FilesInv /\ SymbolsInv /\ Stages

-----------------------------------------------------------------------------

\* Every configuration resolves to one whose context limit is above 0.
LEMMA ConfigIs ==
  ASSUME NEW r \in Raws
  PROVE  resolve(r) \in ResolvedConfig /\ resolve(r).limits["max_context_bytes"] \in Nat \ {0}
<1>1. IsRaw(r)
  BY RepoIndexAssumption
<1>2. ASSUME NEW k \in LimitKeys PROVE limit(r, k) \in Nat \ {0}
  <2>1. /\ Limits[k].low \in Nat \ {0} /\ Limits[k].high \in Nat
        /\ Limits[k].default \in Limits[k].low .. Limits[k].high
    BY RepoConfigAssumption
  <2>2. k \in DOMAIN r.limits => r.limits[k] \in Nat
    BY <1>1 DEF IsRaw
  <2> DEFINE stated == IF k \in DOMAIN r.limits THEN r.limits[k] ELSE Limits[k].default
  <2>3. stated \in Nat /\ limit(r, k) = clamp(stated, Limits[k].low, Limits[k].high)
    BY <2>1, <2>2 DEF limit
  <2> HIDE DEF stated
  <2> QED BY <2>1, <2>3 DEF clamp
<1>3. ASSUME NEW k \in FlagKeys PROVE flag(r, k) \in BOOLEAN
  <2>1. k \in DOMAIN r.flags => r.flags[k] \in BOOLEAN
    BY <1>1 DEF IsRaw
  <2> QED BY <2>1, Zenon DEF flag
<1>4. resolve(r).limits = [k \in LimitKeys |-> limit(r, k)]
      /\ resolve(r).flags = [k \in FlagKeys |-> flag(r, k)]
      /\ resolve(r) = [flags |-> [k \in FlagKeys |-> flag(r, k)],
                       limits |-> [k \in LimitKeys |-> limit(r, k)]]
  BY DEF resolve
<1>5. [k \in FlagKeys |-> flag(r, k)] \in [FlagKeys -> BOOLEAN]
  BY <1>3, Zenon
<1>6. [k \in LimitKeys |-> limit(r, k)] \in [LimitKeys -> Nat]
  BY <1>2
<1>7. resolve(r) \in ResolvedConfig
  BY <1>4, <1>5, <1>6 DEF ResolvedConfig
<1>8. "max_context_bytes" \in LimitKeys
  BY DEF LimitKeys
<1> QED BY <1>2, <1>4, <1>7, <1>8

\* A place is a line of a file.
LEMMA PlaceIs ==
  ASSUME NEW f, NEW s
  PROVE  s \in Places(f) <=> \E p \in DOMAIN f : \E i \in DOMAIN f[p] : s = <<p, i>>
BY DEF Places

\* With what the invariant says of the files.
LEMMA PlacesAre ==
  ASSUME FilesInv
  PROVE  /\ Places(files) \subseteq Nat \X Nat
         /\ \A s \in Places(files) :
              /\ s[1] \in DOMAIN files /\ s[2] \in DOMAIN files[s[1]]
              /\ s = <<s[1], s[2]>>
              /\ IsText(files[s[1]]) /\ IsLine(files[s[1]][s[2]])
              /\ files[s[1]][s[2]].size \in Nat
              /\ \A i \in DOMAIN files[s[1]] : files[s[1]][i].size <= MAX_FILE_BYTES
<1> SUFFICES ASSUME NEW s \in Places(files)
             PROVE  /\ s \in Nat \X Nat
                    /\ s[1] \in DOMAIN files /\ s[2] \in DOMAIN files[s[1]]
                    /\ s = <<s[1], s[2]>>
                    /\ IsText(files[s[1]]) /\ IsLine(files[s[1]][s[2]])
                    /\ files[s[1]][s[2]].size \in Nat
                    /\ \A i \in DOMAIN files[s[1]] : files[s[1]][i].size <= MAX_FILE_BYTES
  OBVIOUS
<1>1. PICK p \in DOMAIN files : \E i \in DOMAIN files[p] : s = <<p, i>>
  BY PlaceIs
<1>2. PICK i \in DOMAIN files[p] : s = <<p, i>>
  BY <1>1
<1>3. IsText(files[p]) /\ Bytes(files[p], 1, Len(files[p])) <= MAX_FILE_BYTES
      /\ p \in Nat /\ MAX_FILE_BYTES \in Nat
  BY RepoIndexAssumption DEF FilesInv
<1>4. /\ Len(files[p]) \in Nat /\ DOMAIN files[p] = 1..Len(files[p])
      /\ \A k \in DOMAIN files[p] : IsLine(files[p][k]) /\ files[p][k].size \in Nat
  BY <1>3, LinesOf
<1>5. i \in Nat
  BY <1>4
<1>6. ASSUME NEW k \in DOMAIN files[p] PROVE files[p][k].size <= MAX_FILE_BYTES
  <2>1. files[p][k].size <= Bytes(files[p], 1, Len(files[p]))
    BY <1>3, LineInText
  <2>2. Bytes(files[p], 1, Len(files[p])) \in Nat
    <3> DEFINE t == files[p]
               n == Len(t)
    <3>1. IsText(t) /\ n \in Int /\ n <= Len(t) /\ 1 \in Nat \ {0}
      BY <1>3, <1>4
    <3> HIDE DEF t, n
    <3>2. Bytes(t, 1, n) \in Nat
      BY <3>1, BytesOf
    <3> QED BY <3>2 DEF t, n
  <2> QED BY <1>3, <1>4, <2>1, <2>2
<1>7. s[1] = p /\ s[2] = i /\ s \in Nat \X Nat
  BY <1>2, <1>3, <1>5
<1> QED BY <1>2, <1>3, <1>4, <1>6, <1>7

\* The lines of one file.
LEMMA PlacesOfOne ==
  ASSUME NEW p, NEW text, IsText(text)
  PROVE  IsFiniteSet({p} \X DOMAIN text)
<1> DEFINE D == DOMAIN text
           T == {p} \X D
           f == [s \in T |-> s[2]]
<1>1. D = 1..Len(text) /\ Len(text) \in Nat
  BY LinesOf
<1>2. IsFiniteSet(D)
  BY <1>1, UpTo
<1> HIDE DEF D
<1>3. f \in Injection(T, D)
  <2>1. f \in [T -> D]
    OBVIOUS
  <2>2. ASSUME NEW s \in T, NEW t \in T, f[s] = f[t] PROVE s = t
    BY <2>2
  <2> QED BY <2>1, <2>2 DEF Injection, IsInjective
<1> HIDE DEF f, T
<1>4. IsFiniteSet(T)
  BY <1>2, <1>3, FS_Injection
<1> QED BY <1>4 DEF T, D

\* Base holds before the tarball is read,
LEMMA InitBase == Init => Base
<1> SUFFICES ASSUME Init PROVE Base
  OBVIOUS
<1>1. ConfigInv
  BY ConfigIs DEF Init, ConfigInv
<1>2. DOMAIN files = {}
  BY DEF Init, NoFiles
<1>3. Places(files) = {}
  BY <1>2, PlaceIs
<1>4. FilesInv
  BY <1>2, <1>3, FS_EmptySet DEF FilesInv
<1>5. SymbolsInv
  BY DEF Init, NoSymbols, SymbolsInv
<1>6. Stages
  BY DEF Init, Stages
<1> QED BY <1>1, <1>4, <1>5, <1>6 DEF Base

\* and no action takes any part of it away: the configuration stays,
LEMMA NextConfig == ConfigInv /\ [Next]_vars => ConfigInv'
BY DEF ConfigInv, Next, from_tarball, referenced_identifiers, referenced_defs_context,
       Entry, Build, NoTarball, Damaged, Identifier, EndOfDiff, Hint, EndOfContext,
       dispatch_tool, vars

\* the stages come in their order,
LEMMA NextStages == Stages /\ [Next]_vars => Stages'
<1> SUFFICES ASSUME Stages, [Next]_vars PROVE Stages'
  OBVIOUS
<1> USE DEF Stages, Goto, building, context
<1>1. ASSUME NEW e \in Entries, Entry(e) PROVE Stages'
  BY <1>1 DEF Entry
<1>2. CASE Build
  BY <1>2 DEF Build
<1>3. CASE NoTarball
  BY <1>3 DEF NoTarball
<1>4. CASE Damaged
  BY <1>4 DEF Damaged
<1>5. ASSUME NEW n \in Names, NEW line, Identifier(n, line) PROVE Stages'
  BY <1>5 DEF Identifier
<1>6. CASE EndOfDiff
  BY <1>6 DEF EndOfDiff
<1>7. CASE Hint
  BY <1>7 DEF Hint
<1>8. CASE EndOfContext
  BY <1>8 DEF EndOfContext
<1>9. CASE dispatch_tool
  BY <1>9 DEF dispatch_tool
<1>10. CASE UNCHANGED vars
  BY <1>10 DEF vars
<1> QED
  BY <1>1, <1>2, <1>3, <1>4, <1>5, <1>6, <1>7, <1>8, <1>9, <1>10
  DEF Next, from_tarball, referenced_identifiers, referenced_defs_context

\* A file that is read.
LEMMA InsertKeeps ==
  ASSUME FilesInv, NEW e \in Entries, ~Skipped(e), files' = Insert(e)
  PROVE  FilesInv'
<1> DEFINE p == e.rel
           text == e.text
           F == files'
<1>1. IsText(text) /\ p \in Paths /\ e.size = Bytes(text, 1, Len(text)) /\ e.size <= MAX_FILE_BYTES
      /\ MAX_FILE_BYTES \in Nat /\ e.size \in Nat
  <2>1. IsEntry(e) /\ e.size \in Nat /\ MAX_FILE_BYTES \in Nat
    BY RepoIndexAssumption
  <2>2. /\ IsText(e.text) /\ e.rel \in Paths \cup {NoPath}
        /\ e.size = Bytes(e.text, 1, Len(e.text))
    BY <2>1 DEF IsEntry
  <2>3. e.rel # NoPath /\ e.size <= MAX_FILE_BYTES
    BY <2>1 DEF Skipped
  <2> QED BY <2>1, <2>2, <2>3
<1>2. DOMAIN F = DOMAIN files \cup {p} /\ F[p] = text
      /\ \A q \in DOMAIN files : q # p => F[q] = files[q]
  BY DEF Insert
<1>3. Places(F) \subseteq Places(files) \cup ({p} \X DOMAIN text)
  <2> HIDE DEF F, p, text
  <2> SUFFICES ASSUME NEW s \in Places(F), s \notin Places(files) PROVE s \in {p} \X DOMAIN text
    OBVIOUS
  <2>1. PICK q \in DOMAIN F : \E i \in DOMAIN F[q] : s = <<q, i>>
    BY PlaceIs
  <2>2. q = p
    BY <1>2, <2>1, PlaceIs
  <2> QED BY <1>2, <2>1, <2>2
<1>4. IsFiniteSet({p} \X DOMAIN text)
  BY <1>1, PlacesOfOne
<1>5. IsFiniteSet(DOMAIN files) /\ IsFiniteSet(Places(files)) /\ DOMAIN files \subseteq Paths
      /\ \A q \in DOMAIN files :
           IsText(files[q]) /\ Bytes(files[q], 1, Len(files[q])) <= MAX_FILE_BYTES
  BY DEF FilesInv
<1> HIDE DEF F, p, text
<1>6. IsFiniteSet(Places(F))
  <2>1. IsFiniteSet(Places(files) \cup ({p} \X DOMAIN text))
    BY <1>4, <1>5, FS_Union
  <2>2. Places(F) \in SUBSET (Places(files) \cup ({p} \X DOMAIN text))
    BY <1>3
  <2> QED BY <2>1, <2>2, FS_Subset
<1>7. IsFiniteSet(DOMAIN F) /\ DOMAIN F \subseteq Paths
  BY <1>1, <1>2, <1>5, FS_AddElement
<1>8. ASSUME NEW q \in DOMAIN F
      PROVE  IsText(F[q]) /\ Bytes(F[q], 1, Len(F[q])) <= MAX_FILE_BYTES
  BY <1>1, <1>2, <1>5
<1> QED BY <1>6, <1>7, <1>8 DEF FilesInv, F

\* And when the index is given up.
LEMMA NoFilesKeep == files' = NoFiles => FilesInv'
<1> SUFFICES ASSUME files' = NoFiles PROVE FilesInv'
  OBVIOUS
<1>1. DOMAIN files' = {}
  BY DEF NoFiles
<1>2. Places(files') = {}
  BY <1>1, PlaceIs
<1> QED BY <1>1, <1>2, FS_EmptySet DEF FilesInv

\* files are inserted, or all of them dropped,
LEMMA NextFiles == FilesInv /\ [Next]_vars => FilesInv'
<1> SUFFICES ASSUME FilesInv, [Next]_vars PROVE FilesInv'
  OBVIOUS
<1>1. ASSUME NEW e \in Entries, Entry(e) PROVE FilesInv'
  <2>1. \/ files' = files
        \/ ~Skipped(e) /\ files' = Insert(e)
        \/ files' = NoFiles
    BY <1>1 DEF Entry
  <2>2. CASE files' = files
    BY <2>2 DEF FilesInv
  <2> QED BY <2>1, <2>2, InsertKeeps, NoFilesKeep
<1>2. CASE files' = files
  BY <1>2 DEF FilesInv
<1>3. (\E e \in Entries : Entry(e)) \/ files' = files
  BY DEF Next, from_tarball, referenced_identifiers, referenced_defs_context, building, vars,
         Build, NoTarball, Damaged, Identifier, EndOfDiff, Hint, EndOfContext, dispatch_tool
<1> QED BY <1>1, <1>2, <1>3

\* The sites that build_symbols keeps.
LEMMA SitesOf ==
  ASSUME FilesInv, NEW n \in Names, NEW f, f = build_symbols(files, RustPaths)
  PROVE  \A s \in f[n] : s \in Places(files) /\ files[s[1]][s[2]].defines = n
<1> DEFINE P == {s \in Places(files) : s[1] \in RustPaths /\ files[s[1]][s[2]].defines = n}
<1>1. f[n] = FirstOf(SITES_PER_NAME, P)
  BY DEF build_symbols
<1>2. f[n] \subseteq P
  <2> HIDE DEF P
  <2> QED BY <1>1 DEF FirstOf
<1> QED BY <1>2

\* and the symbols are those of the files, which do not change afterwards.
LEMMA NextSymbols == FilesInv /\ SymbolsInv /\ Stages /\ [Next]_vars => SymbolsInv'
<1> SUFFICES ASSUME FilesInv, SymbolsInv, Stages, [Next]_vars PROVE SymbolsInv'
  OBVIOUS
<1>1. ASSUME NEW e \in Entries, Entry(e) PROVE SymbolsInv'
  <2>1. symbols' = NoSymbols
    BY <1>1 DEF Entry, Stages
  <2> QED BY <2>1 DEF SymbolsInv, NoSymbols
<1>2. CASE Build
  <2>1. symbols' = build_symbols(files, RustPaths) /\ files' = files
    BY <1>2 DEF Build
  <2> QED BY <2>1, SitesOf DEF SymbolsInv
<1>3. CASE files' = files /\ symbols' = symbols
  BY <1>3 DEF SymbolsInv
<1>4. (\E e \in Entries : Entry(e)) \/ Build \/ (files' = files /\ symbols' = symbols)
  BY DEF Next, from_tarball, referenced_identifiers, referenced_defs_context, building, vars,
         NoTarball, Damaged, Identifier, EndOfDiff, Hint, EndOfContext, dispatch_tool
<1> QED BY <1>1, <1>2, <1>3, <1>4

LEMMA NextBase == Base /\ [Next]_vars => Base'
BY NextConfig, NextStages, NextFiles, NextSymbols DEF Base

LEMMA BaseHolds == Spec => []Base
BY InitBase, NextBase, PTL DEF Spec

-----------------------------------------------------------------------------
(* from_tarball.                                                           *)

Reads == read \in Seq(Entries) /\ total \in Nat

Indexed == Reads /\ IndexFaithful

\* One entry more.
LEMMA ReadMore ==
  ASSUME Reads, NEW e \in Entries, read' = Append(read, e)
  PROVE  /\ Len(read) \in Nat /\ Counted \subseteq 1..Len(read) /\ IsFiniteSet(Counted)
         /\ read' \in Seq(Entries)
         /\ read'[Len(read) + 1] = e /\ \A i \in 1..Len(read) : read'[i] = read[i]
         /\ Counted' = IF Skipped(e) THEN Counted ELSE Counted \cup {Len(read) + 1}
<1>1. Len(read) \in Nat /\ DOMAIN read = 1..Len(read)
  BY LenProperties DEF Reads
<1>2. /\ read' \in Seq(Entries) /\ DOMAIN read' = 1..(Len(read) + 1)
      /\ read'[Len(read) + 1] = e /\ \A i \in 1..Len(read) : read'[i] = read[i]
  <2>1. read \in Seq(Entries)
    BY DEF Reads
  <2>2. /\ Append(read, e) \in Seq(Entries) /\ Len(Append(read, e)) = Len(read) + 1
        /\ \A i \in 1..Len(read) : Append(read, e)[i] = read[i]
        /\ Append(read, e)[Len(read) + 1] = e
    BY <2>1, AppendProperties
  <2>3. DOMAIN Append(read, e) = 1..(Len(read) + 1)
    BY <2>2, LenProperties
  <2> QED BY <2>2, <2>3
<1>3. Counted \subseteq 1..Len(read)
  BY <1>1 DEF Counted
<1>4. IsFiniteSet(Counted)
  BY <1>1, <1>3, FiniteRange
<1>5. 1..(Len(read) + 1) = (1..Len(read)) \cup {Len(read) + 1}
  BY <1>1
<1>6. Counted' = IF Skipped(e) THEN Counted ELSE Counted \cup {Len(read) + 1}
  <2> DEFINE n == Len(read)
  <2>1. Counted' = {i \in 1..(n + 1) : ~Skipped(read'[i])}
    BY <1>2 DEF Counted, Skipped
  <2>2. Counted = {i \in 1..n : ~Skipped(read[i])}
    BY <1>1 DEF Counted
  <2>3. n + 1 \notin 1..n
    BY <1>1
  <2>4. \A i : i \in Counted' <=> (i \in Counted \/ (i = n + 1 /\ ~Skipped(e)))
    BY <1>2, <1>5, <2>1, <2>2, <2>3, Zenon
  <2> QED BY <2>4
<1> QED BY <1>1, <1>2, <1>3, <1>4, <1>6

TextsRead == SumFunction([i \in Counted |-> read[i].size])

\* The total counts each text when it is read.
LEMMA TotalNext ==
  ASSUME Reads, NEW e \in Entries, read' = Append(read, e),
         total = TextsRead, total' = IF Skipped(e) THEN total ELSE total + e.size
  PROVE  total' = TextsRead' /\ total' \in Nat
<1> DEFINE w == [i \in Counted |-> read[i].size]
           v == [i \in Counted' |-> read'[i].size]
           C == Counted
           n == Len(read) + 1
<1>1. /\ Len(read) \in Nat /\ C \subseteq 1..Len(read) /\ IsFiniteSet(C)
      /\ read'[n] = e /\ \A i \in 1..Len(read) : read'[i] = read[i]
      /\ Counted' = IF Skipped(e) THEN C ELSE C \cup {n}
  BY ReadMore
<1>2. n \notin C
  BY <1>1
<1>3. \A i \in 1..Len(read) : read[i].size \in Nat
  <2>1. \A i \in 1..Len(read) : read[i] \in Entries
    BY <1>1, ElementOfSeq DEF Reads
  <2> QED BY <2>1, RepoIndexAssumption
<1>4. e.size \in Nat /\ total \in Nat
  BY RepoIndexAssumption DEF Reads
<1>5. total = SumFunctionOnSet(w, C) /\ SumFunction(v) = SumFunctionOnSet(v, Counted')
      /\ TextsRead' = SumFunction(v)
  BY DEF SumFunction, TextsRead
<1>6. \A i \in C : w[i] = v[i] /\ w[i] \in Nat
  <2>1. \A i \in C : i \in 1..Len(read) /\ i \in Counted' /\ i \in Counted
    BY <1>1
  <2> QED BY <1>1, <1>3, <2>1
<1>7. ~Skipped(e) => v[n] = e.size
  BY <1>1
<1>8. SumFunction(v) = total'
  <2> HIDE DEF w, v, C, n
  <2>1. SumFunctionOnSet(w, C) = SumFunctionOnSet(v, C)
    BY <1>1, <1>6, SumOfEqual
  <2>2. CASE Skipped(e)
    BY <1>1, <1>5, <2>1, <2>2
  <2>3. CASE ~Skipped(e)
    <3>1. \A i \in C \cup {n} : v[i] \in Int
      BY <1>4, <1>6, <1>7, <2>3
    <3>2. SumFunctionOnSet(v, C \cup {n}) = SumFunctionOnSet(v, C) + v[n]
      BY <1>1, <1>2, <3>1, SumOfMore
    <3> QED BY <1>1, <1>5, <1>7, <2>1, <2>3, <3>2
  <2> QED BY <2>2, <2>3
<1>9. total' \in Nat
  BY <1>4
<1> HIDE DEF v
<1> QED BY <1>5, <1>8, <1>9

\* An entry that is skipped, inserted, or one too many.
LEMMA EntryFaithful ==
  ASSUME Indexed, NEW e \in Entries, Entry(e)
  PROVE  Indexed'
<1> DEFINE n == Len(read) + 1
<1>0. Reads /\ IndexFaithful /\ total \in Nat /\ e.size \in Nat /\ MAX_INDEX_BYTES \in Nat
  BY RepoIndexAssumption DEF Indexed, Reads
<1>1. /\ pc = "tarball" /\ read' = Append(read, e)
      /\ \/ Skipped(e) /\ pc' = pc /\ files' = files /\ total' = total
         \/ /\ ~Skipped(e) /\ total + e.size <= MAX_INDEX_BYTES
            /\ total' = total + e.size /\ files' = Insert(e) /\ pc' = pc
         \/ /\ ~Skipped(e) /\ total + e.size > MAX_INDEX_BYTES
            /\ total' = total + e.size /\ pc' = "diff only"
  BY DEF Entry
<1>2. /\ Len(read) \in Nat /\ Counted \subseteq 1..Len(read)
      /\ read' \in Seq(Entries)
      /\ read'[n] = e /\ \A i \in 1..Len(read) : read'[i] = read[i]
      /\ Counted' = IF Skipped(e) THEN Counted ELSE Counted \cup {n}
  BY <1>0, <1>1, ReadMore
<1>3. total' = TextsRead' /\ total' \in Nat
  <2>1. total' = IF Skipped(e) THEN total ELSE total + e.size
    BY <1>1
  <2>2. total = TextsRead
    BY <1>0 DEF IndexFaithful, TextsRead
  <2>3. read' = Append(read, e)
    BY <1>1
  <2> QED BY <1>0, <2>1, <2>2, <2>3, TotalNext
<1>4. Reads'
  BY <1>2, <1>3 DEF Reads
<1>5. /\ DOMAIN files = {read[i].rel : i \in Counted}
      /\ \A i \in Counted :
           (\A k \in Counted : k > i => read[k].rel # read[i].rel) =>
             files[read[i].rel] = read[i].text
      /\ total <= MAX_INDEX_BYTES
  BY <1>0, <1>1 DEF IndexFaithful
<1>6. \A i \in Counted : read'[i] = read[i] /\ i \in Nat /\ i < n
  BY <1>2
<1>10. total + e.size <= MAX_INDEX_BYTES <=> ~(total + e.size > MAX_INDEX_BYTES)
  BY <1>0
<1>7. CASE Skipped(e)
  <2>1. Counted' = Counted /\ files' = files /\ total' = total /\ pc' = "tarball"
    BY <1>1, <1>2, <1>7
  <2>2. DOMAIN files' = {read'[i].rel : i \in Counted'}
    BY <1>5, <1>6, <2>1
  <2>3. ASSUME NEW i \in Counted', \A k \in Counted' : k > i => read'[k].rel # read'[i].rel
        PROVE  files'[read'[i].rel] = read'[i].text
    BY <1>5, <1>6, <2>1, <2>3
  <2> QED BY <1>3, <1>4, <1>5, <2>1, <2>2, <2>3 DEF IndexFaithful, Indexed, TextsRead
<1>8. CASE ~Skipped(e) /\ total + e.size <= MAX_INDEX_BYTES
  <2>1. Counted' = Counted \cup {n} /\ files' = Insert(e) /\ total' = total + e.size
        /\ pc' = "tarball"
    BY <1>1, <1>2, <1>8, <1>10
  <2>2. DOMAIN files' = DOMAIN files \cup {e.rel} /\ files'[e.rel] = e.text
        /\ \A p \in DOMAIN files : p # e.rel => files'[p] = files[p]
    BY <2>1 DEF Insert
  <2>3. DOMAIN files' = {read'[i].rel : i \in Counted'}
    <3>1. \A p : p \in DOMAIN files' <=> \E i \in Counted' : p = read'[i].rel
      BY <1>2, <1>5, <1>6, <2>1, <2>2
    <3> QED BY <3>1
  <2>4. ASSUME NEW i \in Counted', \A k \in Counted' : k > i => read'[k].rel # read'[i].rel
        PROVE  files'[read'[i].rel] = read'[i].text
    <3>1. CASE i = n
      BY <1>2, <2>2, <3>1
    <3>2. CASE i # n
      <4>1. i \in Counted /\ n \in Counted' /\ n > i /\ read'[i] = read[i]
        BY <1>6, <2>1, <3>2
      <4>2. read[i].rel # e.rel
        BY <1>2, <2>4, <4>1
      <4>3. \A k \in Counted : k > i => read[k].rel # read[i].rel
        BY <1>6, <2>1, <2>4, <4>1
      <4>4. files[read[i].rel] = read[i].text /\ read[i].rel \in DOMAIN files
        BY <1>5, <4>1, <4>3
      <4> QED BY <2>2, <4>1, <4>2, <4>4
    <3> QED BY <3>1, <3>2
  <2> QED BY <1>3, <1>4, <1>8, <2>1, <2>3, <2>4 DEF IndexFaithful, Indexed, TextsRead
<1>9. CASE ~Skipped(e) /\ total + e.size > MAX_INDEX_BYTES
  <2>1. total' = total + e.size /\ total' > MAX_INDEX_BYTES /\ pc' = "diff only"
    BY <1>1, <1>9, <1>10
  <2> QED BY <1>3, <1>4, <2>1 DEF IndexFaithful, Indexed, TextsRead
<1> QED BY <1>7, <1>8, <1>9, <1>10

LEMMA InitIndexed == Init => Indexed
<1> SUFFICES ASSUME Init PROVE Indexed
  OBVIOUS
<1>1. read = <<>> /\ total = 0 /\ pc = "tarball" /\ DOMAIN files = {}
  BY DEF Init, NoFiles
<1>2. Counted = {}
  BY <1>1 DEF Counted
<1>3. SumFunction([i \in Counted |-> read[i].size]) = 0
  BY <1>2, SumOfNone DEF SumFunction
<1>4. Reads
  BY <1>1 DEF Reads
<1>5. MAX_INDEX_BYTES \in Nat
  BY RepoIndexAssumption
<1> QED BY <1>1, <1>2, <1>3, <1>4, <1>5 DEF Indexed, IndexFaithful

\* The first part of IndexFaithful.
Read == {"tarball", "identifiers", "context", "tools"}
LastTexts(fs, rd, C) ==
  /\ DOMAIN fs = {rd[i].rel : i \in C}
  /\ \A i \in C : (\A k \in C : k > i => rd[k].rel # rd[i].rel) => fs[rd[i].rel] = rd[i].text

LEMMA NextIndexed == Indexed /\ [Next]_vars => Indexed'
<1> SUFFICES ASSUME Indexed, [Next]_vars PROVE Indexed'
  OBVIOUS
<1>1. ASSUME NEW e \in Entries, Entry(e) PROVE Indexed'
  BY <1>1, EntryFaithful
<1>2. CASE NoTarball
  BY <1>2 DEF NoTarball, Goto, building, Indexed, Reads, IndexFaithful, Counted, Skipped
<1>3. CASE /\ <<read, files, total>>' = <<read, files, total>>
           /\ \/ pc' = pc \/ pc' = "failed"
              \/ pc \in {"tarball", "identifiers", "context"} /\ pc' # "diff only"
  <2>1. Counted' = Counted
    BY <1>3 DEF Counted, Skipped
  <2>2. Reads'
    BY <1>3 DEF Indexed, Reads
  <2>3. IndexFaithful
    BY DEF Indexed
  <2>4. total' = SumFunction([i \in Counted' |-> read'[i].size])
    BY <1>3, <2>1, <2>3 DEF IndexFaithful
  <2>5. LastTexts(files', read', Counted') <=> LastTexts(files, read, Counted)
    BY <1>3, <2>1
  <2>6. pc \in Read => LastTexts(files, read, Counted) /\ total <= MAX_INDEX_BYTES
    BY <2>3 DEF IndexFaithful, LastTexts, Read
  <2>7. pc' \in Read => pc \in Read
    BY <1>3 DEF Read
  <2>8. pc' \in Read => LastTexts(files', read', Counted') /\ total' <= MAX_INDEX_BYTES
    BY <1>3, <2>5, <2>6, <2>7
  <2>9. pc' = "diff only" /\ read' # <<>> => total' > MAX_INDEX_BYTES
    BY <1>3, <2>3 DEF IndexFaithful
  <2> QED BY <2>2, <2>4, <2>8, <2>9 DEF Indexed, IndexFaithful, LastTexts, Read
<1>4. \/ \E e \in Entries : Entry(e)
      \/ NoTarball
      \/ /\ <<read, files, total>>' = <<read, files, total>>
         /\ \/ pc' = pc \/ pc' = "failed"
            \/ pc \in {"tarball", "identifiers", "context"} /\ pc' # "diff only"
  BY DEF Next, from_tarball, referenced_identifiers, referenced_defs_context, building, vars, Goto,
         Build, Damaged, Identifier, EndOfDiff, Hint, EndOfContext, dispatch_tool
<1> QED BY <1>1, <1>2, <1>3, <1>4

LEMMA IndexedHolds == Spec => []Indexed
BY InitIndexed, NextIndexed, PTL DEF Spec

-----------------------------------------------------------------------------
(* referenced_identifiers and referenced_defs_context.                     *)

HintNames == [i \in DOMAIN hints |-> hints[i].name]
KnownAt == {i \in 1..(at - 1) : symbols[idents[i]] # {}}

ContextShape ==
  /\ tokens \in Nat /\ idents \in Seq(Names \ Unusable) /\ at \in 1..(Len(idents) + 1)
  /\ hints \in Seq([name : Names, site : Places(files)]) /\ used \in Nat

\* At every point of the loop the hints are those of the names before, bytes
\* come with hints only, and the loop has not ended early for nothing.
ContextKnows ==
  /\ HintNames = At(idents, KnownAt)
  /\ hints = <<>> => used = 0
  /\ pc = "tools" => at > Len(idents) \/ ~Room

ContextInv == ContextShape /\ ContextBounded /\ ContextKnows

\* A name with definitions has a first one.
LEMMA SiteIs ==
  ASSUME FilesInv, SymbolsInv, NEW n \in Names, symbols[n] # {}
  PROVE  Site(n) \in symbols[n] /\ Site(n) \in Places(files)
<1>1. symbols[n] \subseteq Places(files) /\ Places(files) \subseteq Nat \X Nat
  BY PlacesAre DEF SymbolsInv
<1>2. symbols[n] \subseteq Nat \X Nat
  BY <1>1
<1>3. \E s \in symbols[n] : \A t \in symbols[n] : ~Before(t, s)
  BY <1>2, AFirstPlace
<1> QED BY <1>1, <1>3 DEF Site

\* What is cut is no longer than the cap.
LEMMA CutIs == ASSUME NEW a \in Nat, NEW b \in Nat PROVE Cut(a, b) \in Nat /\ Cut(a, b) <= b
BY DEF Cut

\* What is kept of a line by its characters.
LEMMA CharsAre == SignatureBytes \in Nat /\ SnippetBytes \in Nat
BY SourceTextAssumption DEF SignatureBytes, SnippetBytes, CHAR_BYTES

\* The characters of a line that are kept have at most four bytes each.
LEMMA KeptOfLine ==
  ASSUME FilesInv, NEW s \in Places(files)
  PROVE  LET l == files[s[1]][s[2]]
         IN  /\ l.signature \in Nat /\ l.signature <= SignatureBytes
             /\ l.snippet \in Nat /\ l.snippet <= SnippetBytes
<1> DEFINE l == files[s[1]][s[2]]
<1>1. IsLine(l) /\ l.size \in Nat
  BY PlacesAre
<1> HIDE DEF l
<1>2. /\ Cut(l.size, SignatureBytes) \in Nat /\ Cut(l.size, SignatureBytes) <= SignatureBytes
      /\ Cut(l.size, SnippetBytes) \in Nat /\ Cut(l.size, SnippetBytes) <= SnippetBytes
  BY <1>1, CharsAre, CutIs
<1>3. l.signature \in 0..Cut(l.size, SignatureBytes) /\ l.snippet \in 0..Cut(l.size, SnippetBytes)
  BY <1>1 DEF IsLine
<1>4. /\ l.signature \in Nat /\ l.signature <= SignatureBytes
      /\ l.snippet \in Nat /\ l.snippet <= SnippetBytes
  BY <1>2, <1>3, CharsAre
<1> QED BY <1>4 DEF l

\* A hint has at most its header and a signature.
LEMMA HintSize ==
  ASSUME FilesInv, NEW s \in Places(files)
  PROVE  SizeOfHint(s) \in Nat /\ SizeOfHint(s) <= HINT_BYTES + SignatureBytes
<1>1. HINT_BYTES \in Nat /\ SignatureBytes \in Nat
  BY RepoIndexAssumption, CharsAre
<1> DEFINE c == files[s[1]][s[2]].signature
<1>2. c \in Nat /\ c <= SignatureBytes
  BY KeptOfLine
<1>3. SizeOfHint(s) = HINT_BYTES + c
  BY DEF SizeOfHint
<1> HIDE DEF c
<1> QED BY <1>1, <1>2, <1>3

\* The names of the hints, with one more.
LEMMA NamesOfMore ==
  ASSUME NEW P, NEW h \in Seq([name : Names, site : P]), NEW n \in Names, NEW s \in P,
         NEW g, g = Append(h, [name |-> n, site |-> s])
  PROVE  /\ g \in Seq([name : Names, site : P]) /\ Len(g) = Len(h) + 1
         /\ [i \in DOMAIN g |-> g[i].name] = Append([i \in DOMAIN h |-> h[i].name], n)
<1> DEFINE R == [name : Names, site : P]
           x == [name |-> n, site |-> s]
           a == [i \in DOMAIN h |-> h[i].name]
           b == [i \in DOMAIN g |-> g[i].name]
<1>1. x \in R /\ x.name = n /\ h \in Seq(R) /\ g = Append(h, x) /\ \A r \in R : r.name \in Names
  OBVIOUS
<1> HIDE DEF R, x
<1>2. /\ g \in Seq(R) /\ Len(g) = Len(h) + 1 /\ \A i \in 1..Len(h) : g[i] = h[i]
      /\ g[Len(h) + 1] = x
  BY <1>1, AppendProperties
<1>3. DOMAIN h = 1..Len(h) /\ DOMAIN g = 1..(Len(h) + 1) /\ Len(h) \in Nat
  BY <1>1, <1>2, LenProperties
<1>4. \A i \in 1..Len(h) : h[i].name \in Names
  BY <1>1, <1>3, ElementOfSeq
<1>5. a \in [1..Len(h) -> Names]
  BY <1>3, <1>4
<1>6. a \in Seq(Names) /\ Len(a) = Len(h)
  BY <1>3, <1>5, IsASeq, LenProperties
<1>7. \A i \in 1..(Len(h) + 1) : b[i] = IF i = Len(h) + 1 THEN n ELSE a[i]
  <2>1. \A i \in 1..(Len(h) + 1) : i # Len(h) + 1 => i \in 1..Len(h)
    BY <1>3
  <2> QED BY <1>1, <1>2, <1>3, <2>1
<1>8. b \in [1..(Len(h) + 1) -> Names]
  <2>1. \A i \in 1..(Len(h) + 1) : b[i] \in Names
    <3>1. \A i \in 1..(Len(h) + 1) : i # Len(h) + 1 => a[i] \in Names
      BY <1>3, <1>5
    <3> QED BY <1>7, <3>1
  <2>2. b = [i \in 1..(Len(h) + 1) |-> b[i]]
    BY <1>3
  <2> HIDE DEF b
  <2> QED BY <2>1, <2>2
<1> HIDE DEF a, b
<1>9. b \in Seq(Names) /\ Len(b) = Len(h) + 1
  BY <1>3, <1>8, IsASeq, LenProperties
<1>10. /\ Append(a, n) \in Seq(Names) /\ Len(Append(a, n)) = Len(h) + 1
       /\ \A i \in 1..Len(h) : Append(a, n)[i] = a[i]
       /\ Append(a, n)[Len(h) + 1] = n
  BY <1>6, AppendProperties
<1>11. \A i \in 1..Len(b) : b[i] = Append(a, n)[i]
  <2>1. \A i \in 1..(Len(h) + 1) : i # Len(h) + 1 => i \in 1..Len(h)
    BY <1>3
  <2> QED BY <1>7, <1>9, <1>10, <2>1
<1>12. b = Append(a, n)
  BY <1>9, <1>10, <1>11, SeqEqual
<1> QED BY <1>2, <1>12 DEF a, b, R

\* Before the loop.
LEMMA NoneKnown ==
  ASSUME hints = <<>>, at = 1, Len(idents) \in Nat
  PROVE  HintNames = At(idents, KnownAt)
<1>1. KnownAt = {}
  BY DEF KnownAt
<1>2. At(idents, KnownAt) = <<>>
  BY <1>1, AtNone
<1>3. HintNames = <<>>
  <2>1. DOMAIN hints = {}
    OBVIOUS
  <2>2. HintNames = [i \in {} |-> hints[i].name]
    BY <2>1 DEF HintNames
  <2> QED BY <2>2
<1> QED BY <1>2, <1>3

BeforeLoop ==
  /\ ConfigInv /\ hints = <<>> /\ used = 0 /\ at = 1
  /\ tokens \in Nat /\ idents \in Seq(Names \ Unusable) /\ pc # "tools"

LEMMA ContextBefore == BeforeLoop => ContextInv
<1> SUFFICES ASSUME BeforeLoop PROVE ContextInv
  OBVIOUS
<1> USE DEF BeforeLoop
<1>1. Len(idents) \in Nat
  BY LenProperties
<1>2. ContextShape
  BY <1>1 DEF ContextShape
<1>3. ContextBounded
  <2>1. MAX_HINTS \in Nat /\ HINT_BYTES \in Nat \ {0} /\ SignatureBytes \in Nat
        /\ config.limits["max_context_bytes"] \in Nat /\ Len(<<>>) = 0
    BY RepoIndexAssumption, CharsAre DEF ConfigInv
  <2> QED BY <2>1 DEF ContextBounded
<1>4. HintNames = At(idents, KnownAt)
  BY <1>1, NoneKnown
<1> QED BY <1>2, <1>3, <1>4 DEF ContextInv, ContextKnows

LEMMA InitContext == Init => ContextInv
BY InitBase, ContextBefore DEF Init, Base, BeforeLoop

\* One round of the loop over the identifiers.
LEMMA HintKeeps ==
  ASSUME Base, ContextInv, Hint PROVE ContextInv'
<1> DEFINE n == idents[at]
           m == config.limits["max_context_bytes"]
<1>1. /\ tokens \in Nat /\ idents \in Seq(Names \ Unusable) /\ at \in 1..(Len(idents) + 1)
      /\ hints \in Seq([name : Names, site : Places(files)]) /\ used \in Nat
      /\ Len(hints) <= MAX_HINTS
      /\ HintNames = At(idents, KnownAt) /\ (hints = <<>> => used = 0)
  BY DEF ContextInv, ContextShape, ContextBounded, ContextKnows
<1>2. /\ at <= Len(idents) /\ Len(hints) < MAX_HINTS /\ used < m /\ at' = at + 1
      /\ <<pc, config, files, symbols, tokens, idents>>'
           = <<pc, config, files, symbols, tokens, idents>>
      /\ pc = "context"
      /\ \/ /\ symbols[n] # {} /\ hints' = Append(hints, [name |-> n, site |-> Site(n)])
            /\ used' = used + SizeOfHint(Site(n))
         \/ symbols[n] = {} /\ hints' = hints /\ used' = used
  BY DEF Hint, Room, building
<1>3. FilesInv /\ SymbolsInv /\ m \in Nat
  BY DEF Base, ConfigInv
<1>4. Len(idents) \in Nat /\ Len(hints) \in Nat /\ MAX_HINTS \in Nat /\ HINT_BYTES \in Nat
      /\ SignatureBytes \in Nat
  BY <1>1, LenProperties, RepoIndexAssumption, CharsAre
<1>5. at \in Nat /\ at \in 1..Len(idents) /\ at' \in 1..(Len(idents) + 1)
  BY <1>1, <1>2, <1>4
<1>6. n \in Names
  BY <1>1, <1>5, ElementOfSeq
<1>7. KnownAt' = IF symbols[n] # {} THEN KnownAt \cup {at} ELSE KnownAt
  <2>1. KnownAt' = {i \in 1..at : symbols[idents[i]] # {}}
    <3>1. at' - 1 = at /\ idents' = idents /\ symbols' = symbols
      BY <1>2, <1>5
    <3> QED BY <3>1 DEF KnownAt
  <2>2. 1..at = 1..(at - 1) \cup {at}
    BY <1>5
  <2> QED BY <2>1, <2>2 DEF KnownAt
<1>8. KnownAt \subseteq 1..(at - 1)
  BY DEF KnownAt
<1>9. CASE symbols[n] = {}
  <2>1. hints' = hints /\ used' = used /\ KnownAt' = KnownAt
    BY <1>2, <1>7, <1>9
  <2>2. ContextShape'
    BY <1>1, <1>2, <1>5, <2>1 DEF ContextShape
  <2>3. ContextBounded'
    BY <1>2, <2>1 DEF ContextInv, ContextBounded
  <2>4. HintNames' = At(idents', KnownAt')
    BY <1>1, <1>2, <2>1 DEF HintNames
  <2> QED BY <1>1, <1>2, <2>1, <2>2, <2>3, <2>4 DEF ContextInv, ContextKnows
<1>10. CASE symbols[n] # {}
  <2> DEFINE s == Site(n)
             z == SizeOfHint(s)
  <2>1. s \in Places(files)
    BY <1>3, <1>6, <1>10, SiteIs
  <2>2. hints' = Append(hints, [name |-> n, site |-> s]) /\ used' = used + z
        /\ KnownAt' = KnownAt \cup {at}
    BY <1>2, <1>7, <1>10
  <2>3. z \in Nat /\ z <= HINT_BYTES + SignatureBytes
    BY <1>3, <2>1, HintSize
  <2> HIDE DEF s, z
  <2>4. /\ hints' \in Seq([name : Names, site : Places(files)]) /\ Len(hints') = Len(hints) + 1
        /\ HintNames' = Append(HintNames, n)
    BY <1>1, <1>6, <2>1, <2>2, NamesOfMore DEF HintNames
  <2>5. At(idents, KnownAt \cup {at}) = Append(At(idents, KnownAt), n)
    <3> DEFINE p == at - 1
    <3>1. p \in Nat /\ p + 1 = at /\ p + 1 <= Len(idents) /\ KnownAt \subseteq 1..p
      BY <1>2, <1>5, <1>8
    <3> HIDE DEF p
    <3>2. At(idents, KnownAt \cup {p + 1}) = Append(At(idents, KnownAt), idents[p + 1])
      BY <1>4, <3>1, AtMore
    <3> QED BY <3>1, <3>2
  <2>6. HintNames' = At(idents', KnownAt')
    BY <1>1, <1>2, <2>2, <2>4, <2>5
  <2>7. ContextShape'
    <3>1. used' \in Nat
      BY <1>1, <2>2, <2>3
    <3>2. hints' \in Seq([name : Names, site : Places(files')])
      BY <1>2, <2>4
    <3> QED BY <1>1, <1>2, <1>5, <3>1, <3>2 DEF ContextShape
  <2>8. ContextBounded'
    <3>1. Len(hints') <= MAX_HINTS
      BY <1>2, <1>4, <2>4
    <3>2. used' < m + HINT_BYTES + SignatureBytes
      <4> HIDE DEF m
      <4> QED BY <1>1, <1>2, <1>3, <1>4, <2>2, <2>3
    <3> QED BY <1>2, <3>1, <3>2 DEF ContextBounded
  <2>9. hints' # <<>>
    <3>1. Len(<<>>) = 0
      OBVIOUS
    <3>2. Len(hints') # 0
      BY <1>4, <2>4
    <3> QED BY <3>1, <3>2
  <2> QED BY <1>2, <2>6, <2>7, <2>8, <2>9 DEF ContextInv, ContextKnows
<1> QED BY <1>9, <1>10

\* While identifiers are collected there are no hints yet.
LEMMA IdentifierKeeps ==
  ASSUME Base, ContextInv, NEW n \in Names, NEW line, Identifier(n, line)
  PROVE  ContextInv'
<1>1. /\ hints' = hints /\ used' = used /\ at' = at /\ tokens' = tokens + 1
      /\ pc' # "tools" /\ pc = "identifiers"
      /\ \/ idents' = idents
         \/ idents' = Append(idents, n) /\ n \notin Unusable
  BY DEF Identifier, Taken, building
<1>2. hints = <<>> /\ used = 0 /\ at = 1
  BY <1>1 DEF Base, Stages
<1>3. tokens \in Nat /\ idents \in Seq(Names \ Unusable)
  BY DEF ContextInv, ContextShape
<1>4. tokens' \in Nat /\ idents' \in Seq(Names \ Unusable)
  BY <1>1, <1>3, AppendProperties
<1>5. ConfigInv'
  BY DEF Identifier, building, Base, ConfigInv
<1>6. hints' = <<>> /\ used' = 0 /\ at' = 1
  BY <1>1, <1>2
<1>7. BeforeLoop'
  BY <1>1, <1>4, <1>5, <1>6 DEF BeforeLoop
<1> QED BY <1>7, ContextBefore, PTL

LEMMA NextContext == Base /\ ContextInv /\ [Next]_vars => ContextInv'
<1> SUFFICES ASSUME Base, ContextInv, [Next]_vars PROVE ContextInv'
  OBVIOUS
<1>1. CASE Hint
  BY <1>1, HintKeeps
<1>2. ASSUME NEW n \in Names, NEW line, Identifier(n, line) PROVE ContextInv'
  BY <1>2, IdentifierKeeps
<1>3. CASE from_tarball
  <2>1. context' = context /\ config' = config /\ pc = "tarball" /\ pc' # "tools"
    BY <1>3 DEF from_tarball, Entry, Build, NoTarball, Damaged, Goto
  <2>2. hints = <<>> /\ used = 0 /\ at = 1
    BY <2>1 DEF Base, Stages
  <2>3. tokens \in Nat /\ idents \in Seq(Names \ Unusable)
    BY DEF ContextInv, ContextShape
  <2>4. ConfigInv'
    BY <2>1 DEF Base, ConfigInv
  <2>5. hints' = <<>> /\ used' = 0 /\ at' = 1 /\ tokens' \in Nat
        /\ idents' \in Seq(Names \ Unusable)
    BY <2>1, <2>2, <2>3 DEF context
  <2>6. BeforeLoop'
    BY <2>1, <2>4, <2>5 DEF BeforeLoop
  <2> QED BY <2>6, ContextBefore, PTL
<1>4. CASE EndOfContext
  <2>1. <<config, files, symbols, context>>' = <<config, files, symbols, context>>
        /\ (at > Len(idents) \/ ~Room)
    BY <1>4 DEF EndOfContext, building
  <2> QED BY <2>1 DEF ContextInv, ContextShape, ContextBounded, ContextKnows, HintNames,
                      KnownAt, Room, context
<1>5. CASE EndOfDiff \/ dispatch_tool \/ UNCHANGED vars
  <2>1. <<config, files, symbols, context>>' = <<config, files, symbols, context>>
        /\ (pc' = pc \/ pc' # "tools")
    BY <1>5 DEF EndOfDiff, dispatch_tool, vars, building, Goto
  <2> QED BY <2>1 DEF ContextInv, ContextShape, ContextBounded, ContextKnows, HintNames,
                      KnownAt, Room, context
<1> QED BY <1>1, <1>2, <1>3, <1>4, <1>5 DEF Next, referenced_identifiers, referenced_defs_context

LEMMA ContextHolds == Spec => []ContextInv
BY BaseHolds, InitContext, NextContext, PTL DEF Spec

\* The loop ends with all names looked at, or with a limit reached: and both
\* limits are above 0.
LEMMA CompleteByInv == Base /\ ContextInv => ContextComplete
<1> SUFFICES ASSUME Base, ContextInv, pc = "tools"
             PROVE  /\ HintNames = At(idents, KnownAt)
                    /\ at <= Len(idents) =>
                         /\ hints # <<>>
                         /\ \/ Len(hints) = MAX_HINTS
                            \/ used >= config.limits["max_context_bytes"]
  BY DEF ContextComplete, HintNames, KnownAt
<1>1. HintNames = At(idents, KnownAt)
  BY DEF ContextInv, ContextKnows
<1>2. ASSUME at <= Len(idents)
      PROVE  /\ hints # <<>>
             /\ \/ Len(hints) = MAX_HINTS
                \/ used >= config.limits["max_context_bytes"]
  <2>1. Len(idents) \in Nat /\ at \in Nat
    BY LenProperties DEF ContextInv, ContextShape
  <2>2. ~Room
    BY <1>2, <2>1 DEF ContextInv, ContextKnows
  <2>3. config.limits["max_context_bytes"] \in Nat \ {0} /\ MAX_HINTS \in Nat \ {0}
    BY RepoIndexAssumption DEF Base, ConfigInv
  <2>4. hints = <<>> => used = 0 /\ Len(hints) = 0
    BY DEF ContextInv, ContextKnows
  <2>5. used \in Nat /\ Len(hints) \in Nat /\ Len(hints) <= MAX_HINTS
    BY LenProperties DEF ContextInv, ContextShape, ContextBounded
  <2> QED BY <2>2, <2>3, <2>4, <2>5 DEF Room
<1> QED BY <1>1, <1>2

-----------------------------------------------------------------------------
(* dispatch_tool.                                                          *)

\* The caps are numbers.
LEMMA Limited ==
  /\ {PATH_BYTES, SnippetBytes, GREP_MAX, TOOL_DEFS, READ_RETURN_CAP, LIST_CAP, NOTE_BYTES,
      MAX_FILE_BYTES, GREP_DEFAULT, BODY_BYTES, ECHO} \subseteq Nat
  /\ GREP_MAX > 0 /\ ECHO >= 1 /\ READ_RETURN_CAP >= CHAR_BYTES
BY RepoIndexAssumption, SourceTextAssumption, CharsAre

\* Fewer answers of m bytes have fewer bytes.
LEMMA Product ==
  ASSUME NEW m \in Nat, NEW n \in Nat, NEW k \in Nat, k <= n
  PROVE  k * m \in Nat /\ k * m <= n * m
<1>1. \A a, b, c \in Nat : a <= b => a * c \in Nat /\ a * c <= b * c
  OBVIOUS
<1> QED BY <1>1

\* An error repeats what was asked at most ECHO times.
LEMMA ErrorBounded ==
  ASSUME NEW asked \in Nat, NEW times \in 0..ECHO
  PROVE  LET e == Error(asked, times)
         IN  e.tool = "error" /\ e.size \in Nat /\ e.size <= NOTE_BYTES + ECHO * e.asked
<1>1. NOTE_BYTES \in Nat /\ ECHO \in Nat /\ times \in Nat
  BY Limited
<1>2. times * asked \in Nat /\ times * asked <= ECHO * asked /\ ECHO * asked \in Nat
  BY <1>1, Product
<1>3. Error(asked, times) = [tool |-> "error", asked |-> asked, size |-> NOTE_BYTES + times * asked]
  BY DEF Error
<1> QED BY <1>1, <1>2, <1>3

\* grep: at most GREP_MAX lines, each cut.
LEMMA GrepBounded ==
  ASSUME FilesInv, NEW p \in Patterns, NEW max \in Nat
  PROVE  /\ grep(p, max).tool = "grep" /\ grep(p, max).size \in Nat
         /\ grep(p, max).size <= GREP_MAX * (PATH_BYTES + SnippetBytes)
<1> DEFINE hits == FirstOf(grep_cap(max), Hits(p))
           w == [s \in hits |-> PATH_BYTES + files[s[1]][s[2]].snippet]
           m == PATH_BYTES + SnippetBytes
<1>1. PATH_BYTES \in Nat /\ SnippetBytes \in Nat /\ GREP_MAX \in Nat /\ m \in Nat
  BY Limited
<1>2. grep_cap(max) \in Nat /\ grep_cap(max) <= GREP_MAX
  BY Limited DEF grep_cap, clamp
<1>3. Hits(p) \subseteq Places(files) /\ IsFiniteSet(Places(files))
  BY DEF Hits, FilesInv
<1>4. IsFiniteSet(Hits(p)) /\ Hits(p) \subseteq Nat \X Nat
  <2>1. Places(files) \subseteq Nat \X Nat
    BY PlacesAre
  <2> QED BY <1>3, <2>1, FS_Subset
<1>5. IsFiniteSet(hits) /\ Cardinality(hits) <= grep_cap(max) /\ hits \subseteq Hits(p)
  BY <1>2, <1>4, FirstPlaces
<1>6. Cardinality(hits) <= GREP_MAX
  <2>1. Cardinality(hits) \in Nat
    BY <1>5, FS_CardinalityType
  <2> QED BY <1>1, <1>2, <1>5, <2>1
<1>7. grep(p, max).tool = "grep" /\ grep(p, max).size = SumFunctionOnSet(w, hits)
  BY DEF grep, SumFunction
<1>8. ASSUME NEW s \in hits PROVE w[s] \in 0..m
  <2> DEFINE c == files[s[1]][s[2]].snippet
  <2>1. s \in Places(files)
    BY <1>3, <1>5
  <2>2. c \in Nat /\ c <= SnippetBytes
    BY <2>1, KeptOfLine
  <2>3. w[s] = PATH_BYTES + c
    OBVIOUS
  <2> HIDE DEF w, c
  <2> QED BY <1>1, <2>2, <2>3
<1> HIDE DEF hits, w, m
<1>9. SumFunctionOnSet(w, hits) \in Nat /\ SumFunctionOnSet(w, hits) <= GREP_MAX * m
  BY <1>1, <1>5, <1>6, <1>8, SumOfBounded
<1> QED BY <1>7, <1>9 DEF m

\* read_file: one file, cut.
LEMMA ReadFileBounded ==
  ASSUME FilesInv, NEW p \in DOMAIN files, NEW asked, NEW lost \in 0..(CHAR_BYTES - 1),
         NEW a, a = read_file(p, asked, lost)
  PROVE  /\ a.tool = "read_file" /\ a.size \in Nat
         /\ a.size <= PATH_BYTES + READ_RETURN_CAP + NOTE_BYTES
<1>1. READ_RETURN_CAP \in Nat /\ NOTE_BYTES \in Nat /\ PATH_BYTES \in Nat
      /\ READ_RETURN_CAP - lost \in Nat
  BY Limited DEF CHAR_BYTES
<1> QED
  <2> DEFINE b == Bytes(files[p], 1, Len(files[p]))
             c == IF b > READ_RETURN_CAP THEN READ_RETURN_CAP - lost + NOTE_BYTES ELSE b
  <2>1. b \in Nat
    <3> DEFINE t == files[p]
               n == Len(t)
    <3>1. IsText(t)
      BY DEF FilesInv
    <3>2. n \in Int /\ n <= Len(t) /\ 1 \in Nat \ {0}
      BY <3>1, LinesOf
    <3> HIDE DEF t, n
    <3>3. Bytes(t, 1, n) \in Nat
      BY <3>1, <3>2, BytesOf
    <3> QED BY <3>3 DEF t, n
  <2>2. a.tool = "read_file" /\ a.size = PATH_BYTES + c
    BY DEF read_file
  <2> HIDE DEF b
  <2>3. c \in Nat /\ c <= READ_RETURN_CAP + NOTE_BYTES
    BY <1>1, <2>1
  <2> HIDE DEF c
  <2> QED BY <1>1, <2>2, <2>3

\* list_files: at most LIST_CAP paths.
LEMMA ListBounded ==
  ASSUME FilesInv, NEW contains
  PROVE  /\ list_files(contains).tool = "list_files" /\ list_files(contains).size \in Nat
         /\ list_files(contains).size <= LIST_CAP * PATH_BYTES
<1> DEFINE P == DOMAIN files \cap contains
           below(p) == {q \in P : q < p}
           r == [p \in P |-> Cardinality(below(p))]
           F == {p \in P : Cardinality(below(p)) < LIST_CAP}
<1>1. IsFiniteSet(P) /\ P \subseteq Nat
  <2>1. P \in SUBSET DOMAIN files /\ IsFiniteSet(DOMAIN files) /\ DOMAIN files \subseteq Nat
    BY RepoIndexAssumption DEF FilesInv
  <2> QED BY <2>1, FS_Subset
<1>2. list_files(contains).tool = "list_files"
      /\ list_files(contains).size = Cardinality(F) * PATH_BYTES
  BY DEF list_files
<1>3. F \subseteq P /\ \A p \in F : r[p] < LIST_CAP
  OBVIOUS
<1>4. \A p \in P : below(p) \subseteq P /\ r[p] = Cardinality(below(p))
  OBVIOUS
<1> HIDE DEF P, r, F
<1>5. \A p \in P : r[p] \in Nat
  <2>1. ASSUME NEW p \in P PROVE Cardinality(below(p)) \in Nat
    <3>1. below(p) \in SUBSET P
      BY <1>4
    <3> HIDE DEF below
    <3> QED BY <1>1, <3>1, FS_Subset, FS_CardinalityType
  <2> QED BY <1>4, <2>1
<1>6. ASSUME NEW p \in P, NEW q \in P, p < q PROVE r[p] # r[q]
  <2>1. below(p) \subseteq below(q) /\ p \in below(q) /\ p \notin below(p)
    <3>1. \A x \in P : x < p => x < q
      BY <1>1, <1>6
    <3>2. ~(p < p)
      BY <1>1
    <3> QED BY <1>6, <3>1, <3>2
  <2> HIDE DEF below
  <2>2. Cardinality(below(p)) # Cardinality(below(q))
    BY <1>1, <1>4, <2>1, LessBefore
  <2> QED BY <1>4, <2>2
<1>7. ASSUME NEW p \in P, NEW q \in P, r[p] = r[q] PROVE p = q
  <2>1. ~(p < q) /\ ~(q < p)
    BY <1>6, <1>7
  <2> QED BY <1>1, <2>1
<1>8. LIST_CAP \in Nat /\ PATH_BYTES \in Nat
  BY Limited
<1>9. IsFiniteSet(F) /\ Cardinality(F) <= LIST_CAP
  BY <1>1, <1>3, <1>5, <1>7, <1>8, RankedBelow
<1>10. Cardinality(F) \in Nat
  BY <1>9, FS_CardinalityType
<1> QED BY <1>2, <1>8, <1>9, <1>10, Product

\* A body that is asked for, with the line it starts on.
ExactBody(s, body) ==
  LET text == files[s[1]]
  IN  text[s[2]].kind # "other" =>
        /\ body.last <= EndOf(text, s[2])
        /\ body.last < EndOf(text, s[2]) =>
             \/ body.marked
             \/ body.last = s[2] + BODY_LINES - 1
        /\ body.marked => body.last < EndOf(text, s[2]) /\ body.size >= BODY_BYTES

\* definition: at most TOOL_DEFS bodies, each within its caps and exact.
LEMMA DefinitionIs ==
  ASSUME FilesInv, SymbolsInv, NEW n \in Names, symbols[n] # {},
         NEW asked, NEW a, a = definition(n, asked)
  PROVE  /\ a.tool = "definition" /\ a.size \in Nat
         /\ a.size <= TOOL_DEFS * (PATH_BYTES + BODY_BYTES + MAX_FILE_BYTES + NOTE_BYTES)
         /\ \A s \in DOMAIN a.bodies : ExactBody(s, a.bodies[s])
<1> DEFINE sites == FirstOf(TOOL_DEFS, symbols[n])
           bodies == [s \in sites |-> extract_body(files[s[1]], s[2])]
           w == [s \in sites |-> PATH_BYTES + bodies[s].size + NOTE_BYTES]
           m == PATH_BYTES + BODY_BYTES + MAX_FILE_BYTES + NOTE_BYTES
<1>1. PATH_BYTES \in Nat /\ BODY_BYTES \in Nat /\ MAX_FILE_BYTES \in Nat /\ NOTE_BYTES \in Nat
      /\ m \in Nat /\ TOOL_DEFS \in Nat
  BY Limited
<1>2. symbols[n] \subseteq Places(files) /\ Places(files) \subseteq Nat \X Nat
      /\ \A s \in symbols[n] : files[s[1]][s[2]].defines = n
  BY PlacesAre DEF SymbolsInv
<1>3. IsFiniteSet(symbols[n]) /\ symbols[n] \subseteq Nat \X Nat
  <2>1. IsFiniteSet(Places(files)) /\ symbols[n] \in SUBSET Places(files)
    BY <1>2 DEF FilesInv
  <2> QED BY <1>2, <2>1, FS_Subset
<1>4. IsFiniteSet(sites) /\ Cardinality(sites) <= TOOL_DEFS /\ sites \subseteq symbols[n]
  <2> DEFINE P == symbols[n]
  <2>1. IsFiniteSet(P) /\ P \subseteq Nat \X Nat
    BY <1>3
  <2> HIDE DEF P
  <2>2. IsFiniteSet(FirstOf(TOOL_DEFS, P)) /\ Cardinality(FirstOf(TOOL_DEFS, P)) <= TOOL_DEFS
        /\ FirstOf(TOOL_DEFS, P) \subseteq P
    BY <1>1, <2>1, FirstPlaces
  <2> QED BY <2>2 DEF P
<1>5. a.tool = "definition" /\ a.bodies = bodies /\ a.size = SumFunctionOnSet(w, sites)
  <2>1. a = [tool |-> "definition", bodies |-> bodies, asked |-> asked, size |-> SumFunction(w)]
    BY DEF definition
  <2>2. SumFunction(w) = SumFunctionOnSet(w, sites)
    BY DEF SumFunction
  <2> HIDE DEF bodies, w
  <2> QED BY <2>1, <2>2
<1>6. DOMAIN bodies = sites /\ \A s \in sites : bodies[s] = extract_body(files[s[1]], s[2])
  OBVIOUS
<1>7. \A s \in sites : w[s] = PATH_BYTES + bodies[s].size + NOTE_BYTES
  OBVIOUS
<1> HIDE DEF sites, bodies, w
<1>8. ASSUME NEW s \in sites
      PROVE  /\ IsText(files[s[1]]) /\ s[2] \in DOMAIN files[s[1]]
             /\ \A i \in DOMAIN files[s[1]] : files[s[1]][i].size <= MAX_FILE_BYTES
             /\ files[s[1]][s[2]].defines # NoName
  <2>1. s \in Places(files) /\ files[s[1]][s[2]].defines = n
    BY <1>2, <1>4
  <2> QED BY <2>1, PlacesAre, SourceTextAssumption
<1>9. ASSUME NEW s \in sites PROVE bodies[s].size \in Nat /\ bodies[s].size <= BODY_BYTES + MAX_FILE_BYTES
  <2> DEFINE text == files[s[1]]
             i == s[2]
             b == bodies[s]
  <2>1. IsText(text) /\ i \in DOMAIN text /\ b = extract_body(text, i)
        /\ \A k \in DOMAIN text : text[k].size <= MAX_FILE_BYTES
    BY <1>6, <1>8
  <2> HIDE DEF text, i, b
  <2>2. b.size \in Nat /\ b.size <= BODY_BYTES + MAX_FILE_BYTES
    BY <1>1, <2>1, BodyBytes
  <2> QED BY <2>2 DEF b
<1>10. \A s \in sites : w[s] \in 0..m
  <2> SUFFICES ASSUME NEW s \in sites PROVE w[s] \in 0..m
    OBVIOUS
  <2> DEFINE z == bodies[s].size
  <2>1. z \in Nat /\ z <= BODY_BYTES + MAX_FILE_BYTES /\ w[s] = PATH_BYTES + z + NOTE_BYTES
    BY <1>7, <1>9
  <2> HIDE DEF z
  <2> QED BY <1>1, <2>1
<1>11. a.size \in Nat /\ a.size <= TOOL_DEFS * m
  <2> HIDE DEF m
  <2>1. SumFunctionOnSet(w, sites) \in Nat /\ SumFunctionOnSet(w, sites) <= TOOL_DEFS * m
    BY <1>1, <1>4, <1>10, SumOfBounded
  <2> QED BY <1>5, <2>1
<1>12. ASSUME NEW s \in sites PROVE ExactBody(s, bodies[s])
  <2> DEFINE text == files[s[1]]
             i == s[2]
             b == bodies[s]
  <2>1. IsText(text) /\ i \in DOMAIN text /\ b = extract_body(text, i)
        /\ text[i].defines # NoName
    BY <1>6, <1>8
  <2> HIDE DEF text, i, b
  <2>2. text[i].kind # "other" =>
          /\ b.last <= EndOf(text, i)
          /\ b.last < EndOf(text, i) => b.marked \/ b.last = i + BODY_LINES - 1
          /\ b.marked => b.last < EndOf(text, i) /\ b.size >= BODY_BYTES
    BY <2>1, BodyEnds
  <2> QED BY <2>2 DEF ExactBody, text, i, b
<1>13. \A s \in DOMAIN a.bodies : ExactBody(s, a.bodies[s])
  BY <1>5, <1>6, <1>12
<1> QED BY <1>5, <1>11, <1>13 DEF m

\* What is answered is within bounds, and its bodies are exact.
AnswerInv ==
  /\ answer.size \in Nat /\ AnswersBounded
  /\ answer.tool = "definition" => \A s \in DOMAIN answer.bodies : ExactBody(s, answer.bodies[s])

LEMMA InitAnswer == Init => AnswerInv
BY Limited DEF Init, AnswerInv, NoAnswer, AnswersBounded, MaxAnswer

\* Whatever the model calls.
LEMMA ToolAnswers ==
  ASSUME Base, dispatch_tool PROVE AnswerInv'
<1>1. FilesInv /\ SymbolsInv /\ files' = files
  BY DEF Base, dispatch_tool, building
<1>2. Asked \subseteq Nat /\ 1 \in 0..ECHO
  BY RepoIndexAssumption, Limited
<1>3. ASSUME NEW p \in Patterns, NEW max \in {0, GREP_DEFAULT, GREP_MAX + 1}, answer' = grep(p, max)
      PROVE  AnswerInv'
  <2>1. max \in Nat
    BY Limited
  <2>2. answer'.tool = "grep" /\ answer'.size \in Nat
        /\ answer'.size <= GREP_MAX * (PATH_BYTES + SnippetBytes)
    BY <1>1, <1>3, <2>1, GrepBounded
  <2> QED BY <2>2 DEF AnswerInv, AnswersBounded, MaxAnswer
<1>4. ASSUME NEW asked \in Asked, NEW times \in 0..ECHO, answer' = Error(asked, times)
      PROVE  AnswerInv'
  <2>1. /\ answer'.tool = "error" /\ answer'.size \in Nat
        /\ answer'.size <= NOTE_BYTES + ECHO * answer'.asked
    BY <1>2, <1>4, ErrorBounded
  <2> QED BY <2>1 DEF AnswerInv, AnswersBounded, MaxAnswer
<1>5. ASSUME NEW n \in Names, NEW asked \in Asked, answer' = definition(n, asked)
      PROVE  AnswerInv'
  <2>1. CASE symbols[n] = {}
    <3>1. answer' = Error(asked, 1)
      BY <1>5, <2>1 DEF definition
    <3> QED BY <1>2, <1>4, <3>1
  <2>2. CASE symbols[n] # {}
    <3>1. /\ answer'.tool = "definition" /\ answer'.size \in Nat
          /\ answer'.size <= TOOL_DEFS * (PATH_BYTES + BODY_BYTES + MAX_FILE_BYTES + NOTE_BYTES)
          /\ \A s \in DOMAIN answer'.bodies : ExactBody(s, answer'.bodies[s])
      BY <1>1, <1>5, <2>2, DefinitionIs
    <3>2. \A s \in DOMAIN answer'.bodies : ExactBody(s, answer.bodies[s])'
      BY <1>1, <3>1 DEF ExactBody
    <3> QED BY <3>1, <3>2 DEF AnswerInv, AnswersBounded, MaxAnswer
  <2> QED BY <2>1, <2>2
<1>6. ASSUME NEW p \in Paths, NEW asked \in Asked, NEW lost \in 0..(CHAR_BYTES - 1),
             answer' = read_file(p, asked, lost)
      PROVE  AnswerInv'
  <2>1. CASE p \notin DOMAIN files
    <3>1. answer' = Error(asked, 1)
      BY <1>6, <2>1 DEF read_file
    <3> QED BY <1>2, <1>4, <3>1
  <2>2. CASE p \in DOMAIN files
    <3>1. /\ answer'.tool = "read_file" /\ answer'.size \in Nat
          /\ answer'.size <= PATH_BYTES + READ_RETURN_CAP + NOTE_BYTES
      BY <1>1, <1>6, <2>2, ReadFileBounded
    <3> QED BY <3>1 DEF AnswerInv, AnswersBounded, MaxAnswer
  <2> QED BY <2>1, <2>2
<1>7. ASSUME NEW contains, answer' = list_files(contains) PROVE AnswerInv'
  <2>1. answer'.tool = "list_files" /\ answer'.size \in Nat
        /\ answer'.size <= LIST_CAP * PATH_BYTES
    BY <1>1, <1>7, ListBounded
  <2> QED BY <2>1 DEF AnswerInv, AnswersBounded, MaxAnswer
<1> QED BY <1>3, <1>4, <1>5, <1>6, <1>7 DEF dispatch_tool

LEMMA NextAnswer == Base /\ AnswerInv /\ [Next]_vars => AnswerInv'
<1> SUFFICES ASSUME Base, AnswerInv, [Next]_vars PROVE AnswerInv'
  OBVIOUS
<1>1. CASE dispatch_tool
  BY <1>1, ToolAnswers
<1>2. CASE answer' = answer /\ files' = files
  BY <1>2 DEF AnswerInv, AnswersBounded, MaxAnswer, ExactBody
<1>3. CASE answer' = answer /\ answer = NoAnswer
  BY <1>3 DEF AnswerInv, AnswersBounded, MaxAnswer, NoAnswer
<1>4. \/ dispatch_tool
      \/ answer' = answer /\ files' = files
      \/ answer' = answer /\ answer = NoAnswer
  BY DEF Next, from_tarball, referenced_identifiers, referenced_defs_context, building, vars, Goto,
         Entry, Build, NoTarball, Damaged, Identifier, EndOfDiff, Hint, EndOfContext, Base, Stages
<1> QED BY <1>1, <1>2, <1>3, <1>4

LEMMA AnswerHolds == Spec => []AnswerInv
BY BaseHolds, InitAnswer, NextAnswer, PTL DEF Spec

-----------------------------------------------------------------------------
(* The theorems.                                                           *)

\* The state keeps its shape: every hint and every site is a line of the
\* files that were read.
THEOREM TypeCorrect == Spec => []TypeOK
<1>1. Base /\ Indexed /\ ContextInv /\ AnswerInv => TypeOK
  <2> SUFFICES ASSUME Base, Indexed, ContextInv, AnswerInv PROVE TypeOK
    OBVIOUS
  <2>1. FilesInv /\ SymbolsInv /\ ConfigInv /\ Stages /\ Reads /\ ContextShape
    BY DEF Base, Indexed, ContextInv
  <2>2. answer.size \in Nat
    BY DEF AnswerInv
  <2>3. \A n \in Names : symbols[n] \subseteq Places(files)
    BY <2>1 DEF SymbolsInv
  <2> QED BY <2>1, <2>2, <2>3 DEF TypeOK, FilesInv, ConfigInv, Stages, Reads, ContextShape
<1> QED BY <1>1, BaseHolds, IndexedHolds, ContextHolds, AnswerHolds, PTL

\* The index holds the last text of every path that was read, its total is
\* the sum of the texts that count, and the review falls back to the diff
\* alone when they pass the cap, and only then.
THEOREM IndexIsFaithful == Spec => []IndexFaithful
BY IndexedHolds, PTL DEF Indexed

\* The definitions sent with the diff pass the repository's limit by less
\* than one of them, in bytes, whatever characters its signature is made of.
THEOREM ContextIsBounded == Spec => []ContextBounded
BY ContextHolds, PTL DEF ContextInv

\* No name of the diff that has a definition is left out before one of the
\* limits is reached.
THEOREM ContextIsComplete == Spec => []ContextComplete
BY BaseHolds, ContextHolds, CompleteByInv, PTL

\* A definition the model asks for is the whole item and nothing behind it,
\* or says that it was cut, or has as many lines as it may have; for items in
\* braces that are open from their first brace to their end, and for those of
\* one line that end in a semicolon.
THEOREM BodiesAreExact == Spec => []BodyExact
<1>1. AnswerInv => BodyExact
  BY DEF AnswerInv, BodyExact, ExactBody
<1> QED BY <1>1, AnswerHolds, PTL

\* No call of a tool adds more to the conversation than its tool may, and an
\* error no more than what the model has sent itself, some times over.
THEOREM AnswersAreBounded == Spec => []AnswersBounded
BY AnswerHolds, PTL DEF AnswerInv

-----------------------------------------------------------------------------
(* What a repository can configure.                                        *)

\* Each limit is in the range the code keeps for it.
InRange == \A k \in LimitKeys : config.limits[k] \in Limits[k].low .. Limits[k].high

\* A limit the file states is taken as stated where the range allows it, and
\* is the end of the range it is beyond otherwise.
LEMMA LimitIs ==
  ASSUME NEW r \in Raws, NEW k \in LimitKeys
  PROVE  /\ limit(r, k) \in Limits[k].low .. Limits[k].high
         /\ k \in DOMAIN r.limits => limit(r, k) = clamp(r.limits[k], Limits[k].low, Limits[k].high)
         /\ k \notin DOMAIN r.limits => limit(r, k) = Limits[k].default
<1>1. /\ Limits[k].low \in Nat /\ Limits[k].high \in Nat
      /\ Limits[k].default \in Limits[k].low .. Limits[k].high
  BY RepoConfigAssumption
<1>2. k \in DOMAIN r.limits => r.limits[k] \in Nat
  BY RepoIndexAssumption DEF IsRaw
<1>3. CASE k \in DOMAIN r.limits
  <2>1. limit(r, k) = clamp(r.limits[k], Limits[k].low, Limits[k].high)
    BY <1>3 DEF limit
  <2>2. clamp(r.limits[k], Limits[k].low, Limits[k].high) \in Limits[k].low .. Limits[k].high
    BY <1>1, <1>2, <1>3 DEF clamp
  <2> QED BY <1>3, <2>1, <2>2
<1>4. CASE k \notin DOMAIN r.limits
  <2>1. limit(r, k) = clamp(Limits[k].default, Limits[k].low, Limits[k].high)
    BY <1>4 DEF limit
  <2>2. clamp(Limits[k].default, Limits[k].low, Limits[k].high) = Limits[k].default
    BY <1>1 DEF clamp
  <2> QED BY <1>1, <1>4, <2>1, <2>2
<1> QED BY <1>3, <1>4

LEMMA InRangeHolds == Spec => []InRange
<1>1. Init => InRange
  <2> SUFFICES ASSUME Init, NEW k \in LimitKeys
               PROVE  config.limits[k] \in Limits[k].low .. Limits[k].high
    BY DEF InRange
  <2>1. PICK r \in Raws : config = resolve(r)
    BY DEF Init
  <2>2. config.limits[k] = limit(r, k)
    BY <2>1 DEF resolve
  <2> QED BY <2>2, LimitIs
<1>2. [Next]_vars => config' = config
  BY DEF Next, from_tarball, referenced_identifiers, referenced_defs_context,
         Entry, Build, NoTarball, Damaged, Identifier, EndOfDiff, Hint, EndOfContext,
         dispatch_tool, vars
<1>3. InRange /\ config' = config => InRange'
  BY DEF InRange
<1> QED BY <1>1, <1>2, <1>3, PTL DEF Spec

\* Whatever a repository writes into its configuration, the definitions sent
\* with the diff stay below the largest limit there is and one definition
\* more: no reviewed repository decides how long the first prompt is.
ContextFits == used < Limits["max_context_bytes"].high + HINT_BYTES + SignatureBytes

THEOREM ContextAlwaysFits == Spec => []ContextFits
<1>1. ConfigInv /\ InRange /\ ContextInv /\ used \in Nat => ContextFits
  <2> SUFFICES ASSUME ConfigInv, InRange, ContextInv, used \in Nat PROVE ContextFits
    OBVIOUS
  <2> DEFINE m == config.limits["max_context_bytes"]
             h == Limits["max_context_bytes"].high
  <2>1. "max_context_bytes" \in LimitKeys
    BY DEF LimitKeys
  <2>2. m \in Nat /\ h \in Nat /\ m <= h
    BY <2>1, RepoConfigAssumption DEF ConfigInv, InRange
  <2>3. HINT_BYTES \in Nat /\ SignatureBytes \in Nat
    BY RepoIndexAssumption, CharsAre
  <2>4. used < m + HINT_BYTES + SignatureBytes
    BY DEF ContextInv, ContextBounded
  <2> HIDE DEF m, h
  <2>5. used < h + HINT_BYTES + SignatureBytes
    BY <2>2, <2>3, <2>4
  <2> QED BY <2>5 DEF h, ContextFits
<1>2. TypeOK => used \in Nat
  BY DEF TypeOK
<1>3. Base => ConfigInv
  BY DEF Base
<1> QED BY <1>1, <1>2, <1>3, BaseHolds, InRangeHolds, ContextHolds, TypeCorrect, PTL

=============================================================================
