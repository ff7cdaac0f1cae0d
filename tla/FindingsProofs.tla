--------------------------- MODULE FindingsProofs ---------------------------
(***************************************************************************)
(* What the merge of several passes does, for findings of any number: the  *)
(* sort is by severity and stable, and of the findings that are seen first *)
(* with their key none is lost but to a full review of findings at least   *)
(* as severe, and none is there twice.                                     *)
(*                                                                         *)
(* And what salvage_pr_review reads of a broken answer, for JSON objects   *)
(* and strings of any length: wherever the answer is cut, the objects that *)
(* are complete there and no others. The proof follows the text: inside of *)
(* a string the scan stays inside whatever stands there (induction over    *)
(* what strings are made of), inside of an object it comes back to the     *)
(* depth it had (induction over what objects are made of), so it stands    *)
(* between two elements exactly where the writer of the array did.         *)
(***************************************************************************)
EXTENDS Findings, FindingScan, SelectionProofs

\* Position i comes before position k: more severe, or as severe and earlier.
Precedes(s, i, k) == s[i].sev < s[k].sev \/ (s[i].sev = s[k].sev /\ i < k)

\* t holds the elements of s at the positions J, sorted: its k-th is the one
\* at e[k].
Sorts(e, t, s, J) ==
  /\ e \in [1..Len(t) -> J]
  /\ \A k \in 1..Len(t) : t[k] = s[e[k]]
  /\ \A j, k \in 1..Len(t) : j < k => Precedes(s, e[j], e[k])
  /\ \A i \in J : \E k \in 1..Len(t) : e[k] = i

\* Two sorted parts, the second of less severe findings, are sorted together.
LEMMA SortedParts ==
  ASSUME NEW S, NEW s, NEW t \in Seq(S), NEW u \in Seq(S), NEW J, NEW K, NEW e, NEW f,
         Sorts(e, t, s, J), Sorts(f, u, s, K),
         \A j \in J, k \in K : s[j].sev < s[k].sev
  PROVE  t \o u \in Seq(S) /\ \E g : Sorts(g, t \o u, s, J \cup K)
<1> DEFINE w == t \o u
           m == Len(t)
           g == [k \in 1..Len(w) |-> IF k <= m THEN e[k] ELSE f[k - m]]
<1>1. /\ w \in Seq(S) /\ Len(w) = m + Len(u) /\ m \in Nat /\ Len(u) \in Nat
      /\ \A k \in 1..(m + Len(u)) : w[k] = IF k <= m THEN t[k] ELSE u[k - m]
  BY ConcatProperties, LenProperties
<1> HIDE DEF w, m
<1>2. \A k \in 1..Len(w) : k <= m => k \in 1..Len(t) /\ g[k] = e[k] /\ w[k] = t[k]
  BY <1>1 DEF m
<1>3. \A k \in 1..Len(w) : ~(k <= m) => k - m \in 1..Len(u) /\ g[k] = f[k - m] /\ w[k] = u[k - m]
  BY <1>1
<1> HIDE DEF g
<1>4. g \in [1..Len(w) -> J \cup K]
  <2>1. ASSUME NEW k \in 1..Len(w) PROVE g[k] \in J \cup K
    <3>1. CASE k <= m
      BY <1>2, <3>1 DEF Sorts
    <3>2. CASE ~(k <= m)
      BY <1>3, <3>2 DEF Sorts
    <3> QED BY <3>1, <3>2
  <2> QED BY <2>1 DEF g
<1>5. ASSUME NEW k \in 1..Len(w) PROVE w[k] = s[g[k]]
  <2>1. CASE k <= m
    BY <1>2, <2>1 DEF Sorts
  <2>2. CASE ~(k <= m)
    BY <1>3, <2>2 DEF Sorts
  <2> QED BY <2>1, <2>2
<1>6. ASSUME NEW j \in 1..Len(w), NEW k \in 1..Len(w), j < k PROVE Precedes(s, g[j], g[k])
  <2>1. CASE k <= m
    <3>1. j <= m
      BY <1>1, <1>6, <2>1
    <3> QED BY <1>2, <1>6, <2>1, <3>1 DEF Sorts
  <2>2. CASE ~(j <= m)
    <3>1. ~(k <= m) /\ j - m < k - m
      BY <1>1, <1>6, <2>2
    <3> QED BY <1>3, <2>2, <3>1 DEF Sorts
  <2>3. CASE j <= m /\ ~(k <= m)
    <3>1. g[j] \in J /\ g[k] \in K
      BY <1>2, <1>3, <2>3 DEF Sorts
    <3> QED BY <3>1 DEF Precedes
  <2> QED BY <2>1, <2>2, <2>3
<1>7. ASSUME NEW i \in J \cup K PROVE \E k \in 1..Len(w) : g[k] = i
  <2>1. CASE i \in J
    <3>1. PICK k \in 1..Len(t) : e[k] = i
      BY <2>1 DEF Sorts
    <3>2. k \in 1..Len(w) /\ k <= m
      BY <1>1, <3>1 DEF m
    <3> QED BY <1>2, <3>1, <3>2
  <2>2. CASE i \in K
    <3>1. PICK k \in 1..Len(u) : f[k] = i
      BY <2>2 DEF Sorts
    <3>2. k + m \in 1..Len(w) /\ ~(k + m <= m) /\ (k + m) - m = k
      BY <1>1, <3>1
    <3> QED BY <1>3, <3>1, <3>2
  <2> QED BY <2>1, <2>2
<1>8. Sorts(g, w, s, J \cup K)
  BY <1>4, <1>5, <1>6, <1>7 DEF Sorts
<1> QED BY <1>1, <1>8 DEF w

\* Findings of one severity, in their order, are sorted.
LEMMA OneSeverity ==
  ASSUME NEW S, NEW s \in Seq(S), NEW J, J \subseteq DOMAIN s, NEW v,
         \A i \in J : s[i].sev = v
  PROVE  At(s, J) \in Seq(S) /\ \E e : Sorts(e, At(s, J), s, J)
<1>1. J \cap DOMAIN s = J
  OBVIOUS
<1>2. PICK e : Picks(e, At(s, J), s, J)
  BY <1>1, AtPicks
<1>3. ASSUME NEW j \in 1..Len(At(s, J)), NEW k \in 1..Len(At(s, J)), j < k
      PROVE  Precedes(s, e[j], e[k])
  <2>1. e[j] \in J /\ e[k] \in J /\ e[j] < e[k]
    BY <1>2, <1>3 DEF Picks
  <2>2. s[e[j]].sev = v /\ s[e[k]].sev = v
    BY <2>1
  <2> QED BY <2>1, <2>2 DEF Precedes
<1>4. Sorts(e, At(s, J), s, J)
  BY <1>2, <1>3 DEF Picks, Sorts
<1> QED BY <1>4, AtPicks

\* BySeverity is a stable sort of the findings it is given.
LEMMA BySeveritySorts ==
  ASSUME NEW S, NEW s \in Seq(S), NEW I, I \subseteq DOMAIN s,
         \A i \in I : s[i].sev \in 0..3
  PROVE  BySeverity(s, I) \in Seq(S) /\ \E e : Sorts(e, BySeverity(s, I), s, I)
<1> DEFINE Of(v) == {i \in I : s[i].sev = v}
           Ranked(v) == At(s, Of(v))
<1>1. BySeverity(s, I) = Ranked(0) \o Ranked(1) \o Ranked(2) \o Ranked(3)
  BY DEF BySeverity
<1>2. \A v : Ranked(v) \in Seq(S) /\ \E e : Sorts(e, Ranked(v), s, Of(v))
  <2> SUFFICES ASSUME NEW v
               PROVE  Ranked(v) \in Seq(S) /\ \E e : Sorts(e, Ranked(v), s, Of(v))
    OBVIOUS
  <2>1. Of(v) \subseteq DOMAIN s /\ \A i \in Of(v) : s[i].sev = v
    OBVIOUS
  <2> HIDE DEF Of
  <2> QED BY <2>1, OneSeverity
<1> DEFINE w1 == Ranked(0) \o Ranked(1)
           w2 == w1 \o Ranked(2)
           w3 == w2 \o Ranked(3)
<1> HIDE DEF Ranked
<1>3. w1 \in Seq(S) /\ \E e : Sorts(e, w1, s, Of(0) \cup Of(1))
  <2>1. \A j \in Of(0), k \in Of(1) : s[j].sev < s[k].sev
    OBVIOUS
  <2> HIDE DEF Of
  <2> QED BY <1>2, <2>1, SortedParts
<1> HIDE DEF w1
<1>4. w2 \in Seq(S) /\ \E e : Sorts(e, w2, s, (Of(0) \cup Of(1)) \cup Of(2))
  <2>1. \A j \in Of(0) \cup Of(1), k \in Of(2) : s[j].sev < s[k].sev
    OBVIOUS
  <2> HIDE DEF Of
  <2> QED BY <1>2, <1>3, <2>1, SortedParts
<1> HIDE DEF w2
<1>5. w3 \in Seq(S) /\ \E e : Sorts(e, w3, s, ((Of(0) \cup Of(1)) \cup Of(2)) \cup Of(3))
  <2>1. \A j \in (Of(0) \cup Of(1)) \cup Of(2), k \in Of(3) : s[j].sev < s[k].sev
    OBVIOUS
  <2> HIDE DEF Of
  <2> QED BY <1>2, <1>4, <2>1, SortedParts
<1>6. ((Of(0) \cup Of(1)) \cup Of(2)) \cup Of(3) = I
  <2>1. 0..3 = {0, 1, 2, 3}
    OBVIOUS
  <2> QED BY <2>1
<1>7. w3 = BySeverity(s, I)
  BY <1>1 DEF w1, w2
<1> QED BY <1>5, <1>6, <1>7

\* A sorted selection has an element for each of its positions.
LEMMA SortsOnce ==
  ASSUME NEW e, NEW t, NEW s, NEW J, J \subseteq Int, \A i \in J : s[i].sev \in Int,
         Sorts(e, t, s, J),
         NEW j \in 1..Len(t), NEW k \in 1..Len(t), Len(t) \in Nat, e[j] = e[k]
  PROVE  j = k
<1>1. e[j] \in J
  BY DEF Sorts
<1>2. e[j] \in Int /\ s[e[j]].sev \in Int
  BY <1>1
<1>3. ~Precedes(s, e[j], e[j])
  BY <1>2 DEF Precedes
<1>4. ~(j < k) /\ ~(k < j)
  BY <1>3 DEF Sorts
<1> QED BY <1>4

-----------------------------------------------------------------------------
\* A finding that comes first with its key comes before another with it.
LEMMA FirstSeenDiffer ==
  ASSUME NEW S, NEW s \in Seq(S),
         NEW i \in FirstSeen(s), NEW k \in FirstSeen(s), Key(s[i]) = Key(s[k])
  PROVE  i = k
<1>1. i \in 1..Len(s) /\ k \in 1..Len(s) /\ Len(s) \in Nat
  BY LenProperties DEF FirstSeen
<1>2. ~(i < k)
  <2> SUFFICES ASSUME i < k PROVE FALSE
    OBVIOUS
  <2>1. i \in 1..k-1
    BY <1>1
  <2> QED BY <2>1 DEF FirstSeen
<1>3. ~(k < i)
  <2> SUFFICES ASSUME k < i PROVE FALSE
    OBVIOUS
  <2>1. k \in 1..i-1
    BY <1>1
  <2> QED BY <2>1 DEF FirstSeen
<1> QED BY <1>1, <1>2, <1>3

\* Every finding has one with its key that comes first.
LEMMA FirstSeenExists ==
  ASSUME NEW S, NEW s \in Seq(S), NEW i \in DOMAIN s
  PROVE  \E k \in FirstSeen(s) : k <= i /\ Key(s[k]) = Key(s[i])
<1> DEFINE T == {k \in DOMAIN s : Key(s[k]) = Key(s[i])}
<1>1. DOMAIN s = 1..Len(s) /\ Len(s) \in Nat
  BY LenProperties
<1>2. PICK k \in T : \A j \in T : k <= j
  <2>1. T \subseteq Nat /\ i \in T
    BY <1>1
  <2> HIDE DEF T
  <2> QED BY <2>1, LeastNumber
<1>3. ASSUME NEW j \in 1..k-1 PROVE Key(s[j]) # Key(s[k])
  <2>1. j \in DOMAIN s /\ ~(k <= j)
    BY <1>1, <1>2
  <2> QED BY <1>2, <2>1
<1>4. k \in FirstSeen(s)
  BY <1>2, <1>3 DEF FirstSeen
<1> QED BY <1>2, <1>4

\* The first findings of a list, at most MAX_ITEMS.
LEMMA TruncateKeeps ==
  ASSUME NEW S, NEW s \in Seq(S), MAX_ITEMS \in Nat
  PROVE  /\ Truncate(s) \in Seq(S)
         /\ Len(Truncate(s)) = IF Len(s) <= MAX_ITEMS THEN Len(s) ELSE MAX_ITEMS
         /\ \A k \in 1..Len(Truncate(s)) : k \in 1..Len(s) /\ Truncate(s)[k] = s[k]
<1>1. Len(s) \in Nat
  BY LenProperties
<1>2. CASE Len(s) <= MAX_ITEMS
  BY <1>2, <1>1 DEF Truncate
<1>3. CASE ~(Len(s) <= MAX_ITEMS)
  <2>1. Truncate(s) = SubSeq(s, 1, MAX_ITEMS)
    BY <1>3 DEF Truncate
  <2>2. \A k \in 1..MAX_ITEMS : k \in 1..Len(s) /\ s[k] \in S
    BY <1>1, <1>3, ElementOfSeq
  <2>3. /\ SubSeq(s, 1, MAX_ITEMS) \in Seq(S)
        /\ Len(SubSeq(s, 1, MAX_ITEMS)) = IF 1 <= MAX_ITEMS THEN MAX_ITEMS - 1 + 1 ELSE 0
        /\ \A k \in 1..MAX_ITEMS - 1 + 1 : SubSeq(s, 1, MAX_ITEMS)[k] = s[1 + k - 1]
    BY <2>2, SubSeqProperties
  <2>4. Len(SubSeq(s, 1, MAX_ITEMS)) = MAX_ITEMS
    BY <2>3
  <2>5. \A k \in 1..MAX_ITEMS : SubSeq(s, 1, MAX_ITEMS)[k] = s[k]
    BY <2>3
  <2> QED BY <1>3, <2>1, <2>2, <2>3, <2>4, <2>5
<1> QED BY <1>2, <1>3

\* dedup_findings: what comes out was in it; no two have one key; and a
\* finding that came first with its key is there, unless the review is full of
\* findings at least as severe.
THEOREM DedupWell ==
  ASSUME NEW S, NEW s \in Seq(S), MAX_ITEMS \in Nat, \A i \in DOMAIN s : s[i].sev \in 0..3
  PROVE  LET d == dedup_findings(s) IN
         /\ d \in Seq(S) /\ Len(d) <= MAX_ITEMS
         /\ \A k \in DOMAIN d : \E i \in DOMAIN s : d[k] = s[i]
         /\ \A j, k \in DOMAIN d : Key(d[j]) = Key(d[k]) => j = k
         /\ \A i \in FirstSeen(s) :
              \/ \E k \in DOMAIN d : d[k] = s[i]
              \/ Len(d) = MAX_ITEMS /\ \A k \in DOMAIN d : d[k].sev <= s[i].sev
<1> DEFINE I == FirstSeen(s)
           b == BySeverity(s, I)
           d == dedup_findings(s)
<1>1. I \subseteq DOMAIN s /\ I \subseteq Int /\ DOMAIN s = 1..Len(s) /\ Len(s) \in Nat
  BY LenProperties DEF FirstSeen
<1>2. \A i \in I : s[i].sev \in 0..3 /\ s[i].sev \in Int
  BY <1>1
<1> HIDE DEF I
<1>3. b \in Seq(S) /\ \E e : Sorts(e, b, s, I)
  BY <1>1, <1>2, BySeveritySorts
<1>4. PICK e : Sorts(e, b, s, I)
  BY <1>3
<1>5. d = Truncate(b)
  BY DEF dedup_findings, I
<1> HIDE DEF b, d
<1>6. Len(b) \in Nat
  BY <1>3, LenProperties
<1>7. /\ d \in Seq(S)
      /\ Len(d) = IF Len(b) <= MAX_ITEMS THEN Len(b) ELSE MAX_ITEMS
      /\ \A k \in 1..Len(d) : k \in 1..Len(b) /\ d[k] = b[k]
  BY <1>3, <1>5, TruncateKeeps
<1>8. DOMAIN d = 1..Len(d) /\ Len(d) <= MAX_ITEMS
  BY <1>6, <1>7, LenProperties
<1>9. \A k \in 1..Len(b) : e[k] \in I /\ b[k] = s[e[k]]
  BY <1>4 DEF Sorts
<1>10. \A k \in DOMAIN d : \E i \in DOMAIN s : d[k] = s[i]
  BY <1>1, <1>7, <1>8, <1>9
<1>11. ASSUME NEW j \in DOMAIN d, NEW k \in DOMAIN d, Key(d[j]) = Key(d[k]) PROVE j = k
  <2>1. j \in 1..Len(b) /\ k \in 1..Len(b) /\ d[j] = s[e[j]] /\ d[k] = s[e[k]]
    BY <1>7, <1>8, <1>9
  <2>2. e[j] = e[k]
    BY <1>9, <1>11, <2>1, FirstSeenDiffer DEF I
  <2> QED BY <1>1, <1>2, <1>4, <1>6, <2>1, <2>2, SortsOnce
<1>12. ASSUME NEW i \in I, ~ \E k \in DOMAIN d : d[k] = s[i]
       PROVE  Len(d) = MAX_ITEMS /\ \A k \in DOMAIN d : d[k].sev <= s[i].sev
  <2>1. PICK n \in 1..Len(b) : e[n] = i
    BY <1>4 DEF Sorts
  <2>2. b[n] = s[i]
    BY <1>9, <2>1
  <2>3. n \notin DOMAIN d
    BY <1>7, <1>8, <1>12, <2>2
  <2>4. Len(d) = MAX_ITEMS /\ ~(n <= Len(d))
    BY <1>6, <1>7, <1>8, <2>3
  <2>5. ASSUME NEW k \in DOMAIN d PROVE d[k].sev <= s[i].sev
    <3>1. k \in 1..Len(b) /\ k < n /\ d[k] = s[e[k]] /\ e[k] \in I
      BY <1>6, <1>7, <1>8, <1>9, <2>1, <2>4
    <3>2. Precedes(s, e[k], e[n])
      BY <1>4, <2>1, <3>1 DEF Sorts
    <3>3. s[e[k]].sev \in Int /\ s[i].sev \in Int
      BY <1>2, <3>1
    <3> QED BY <2>1, <3>1, <3>2, <3>3 DEF Precedes
  <2> QED BY <2>4, <2>5
<1> QED BY <1>7, <1>8, <1>10, <1>11, <1>12 DEF I, d

-----------------------------------------------------------------------------
(* The scans of salvage_pr_review, for answers of any length.              *)

\* JSON as the scans see it. What may stand between quotes: any character
\* but a quote and a backslash, and any character behind a backslash.
StringRules(S) ==
  /\ <<>> \in S
  /\ \A s \in S, c \in Chars \ {"quote", "backslash"} : s \o <<c>> \in S
  /\ \A s \in S, c \in Chars : s \o <<"backslash">> \o <<c>> \in S

JsonStrings == {s \in Seq(Chars) : \A S \in SUBSET Seq(Chars) : StringRules(S) => s \in S}

\* What may stand in an object: strings and nested objects with anything but
\* quotes, backslashes and braces before, between and behind them.
BodyRules(B) ==
  /\ <<>> \in B
  /\ \A b \in B, c \in {"lbracket", "rbracket", "x"} : b \o <<c>> \in B
  /\ \A b \in B, s \in JsonStrings : b \o <<"quote">> \o s \o <<"quote">> \in B
  /\ \A b, c \in B : b \o <<"lbrace">> \o c \o <<"rbrace">> \in B

JsonBodies == {b \in Seq(Chars) : \A B \in SUBSET Seq(Chars) : BodyRules(B) => b \in B}

JsonObjects == {<<"lbrace">> \o b \o <<"rbrace">> : b \in JsonBodies}

-----------------------------------------------------------------------------
\* The recursion of Scan, as far as N characters.
Scans(f, s, t, N) ==
  f = [n \in 0..N |-> IF n = 0 THEN s ELSE Step(f[n - 1], t[n], n)]

LEMMA ScanExists == \A s, t : \A N \in Nat : \E f : Scans(f, s, t, N)
<1> SUFFICES ASSUME NEW s, NEW t PROVE \A N \in Nat : \E f : Scans(f, s, t, N)
  OBVIOUS
<1> DEFINE S == {N \in Nat : \E f : Scans(f, s, t, N)}
<1>1. 0 \in S
  <2>1. Scans([n \in 0..0 |-> s], s, t, 0)
    BY DEF Scans
  <2> QED BY <2>1
<1>2. ASSUME NEW N \in S \cap Nat PROVE N + 1 \in S
  <2>1. PICK g : Scans(g, s, t, N)
    OBVIOUS
  <2> DEFINE h == [n \in 0..(N + 1) |-> IF n <= N THEN g[n] ELSE Step(g[N], t[N + 1], N + 1)]
  <2>2. \A n \in 0..N : h[n] = g[n]
    OBVIOUS
  <2>3. ASSUME NEW n \in 0..(N + 1)
        PROVE  h[n] = IF n = 0 THEN s ELSE Step(h[n - 1], t[n], n)
    <3>1. CASE n = 0
      BY <2>1, <2>2, <3>1 DEF Scans
    <3>2. CASE n \in 1..N
      <4>1. n - 1 \in 0..N /\ n \in 0..N /\ n # 0
        BY <3>2
      <4>2. h[n] = g[n] /\ h[n - 1] = g[n - 1]
        BY <4>1, <2>2
      <4>3. g[n] = Step(g[n - 1], t[n], n)
        BY <4>1, <2>1 DEF Scans
      <4> HIDE DEF h
      <4> QED BY <4>1, <4>2, <4>3
    <3>3. CASE n = N + 1
      <4>1. n # 0 /\ n - 1 = N /\ N \in 0..N /\ ~(n <= N)
        BY <3>3
      <4>2. h[n] = Step(g[N], t[N + 1], N + 1)
        BY <4>1
      <4>3. h[n - 1] = g[N]
        BY <4>1, <2>2
      <4> HIDE DEF h
      <4> QED BY <3>3, <4>1, <4>2, <4>3
    <3> QED BY <3>1, <3>2, <3>3
  <2>4. Scans(h, s, t, N + 1)
    <3> DEFINE r == [n \in 0..(N + 1) |-> IF n = 0 THEN s ELSE Step(h[n - 1], t[n], n)]
    <3>1. DOMAIN h = 0..(N + 1) /\ h = [n \in DOMAIN h |-> h[n]]
      OBVIOUS
    <3> HIDE DEF h
    <3>2. h = r
      BY <2>3, <3>1
    <3> QED BY <3>2 DEF Scans
  <2> HIDE DEF h
  <2> QED BY <2>4
<1>3. Nat \subseteq S
  <2> HIDE DEF S
  <2> QED BY <1>1, <1>2, SetInduction
<1> QED BY <1>3

\* The scan, character by character.
LEMMA ScanSteps ==
  ASSUME NEW s, NEW t, Len(t) \in Nat
  PROVE  /\ Scan(s, t)[0] = s
         /\ \A n \in Nat : n + 1 <= Len(t) =>
              Scan(s, t)[n + 1] = Step(Scan(s, t)[n], t[n + 1], n + 1)
<1>1. Scans(Scan(s, t), s, t, Len(t))
  <2> DEFINE f == CHOOSE g : Scans(g, s, t, Len(t))
  <2>1. Scans(f, s, t, Len(t))
    BY ScanExists
  <2>2. Scan(s, t) = f
    BY DEF Scan, Scans
  <2> QED BY <2>1, <2>2
<1> DEFINE f == Scan(s, t)
<1> HIDE DEF f
<1>2. Scans(f, s, t, Len(t))
  BY <1>1 DEF f
<1>3. f[0] = s
  BY <1>2 DEF Scans
<1>4. ASSUME NEW n \in Nat, n + 1 <= Len(t) PROVE f[n + 1] = Step(f[n], t[n + 1], n + 1)
  <2>1. n + 1 # 0 /\ (n + 1) - 1 = n /\ n + 1 \in 0..Len(t)
    BY <1>4
  <2> QED BY <1>2, <2>1 DEF Scans
<1> QED BY <1>3, <1>4 DEF f

-----------------------------------------------------------------------------
\* b stands in t behind position p.
StandsIn(b, t, p) == p + Len(b) <= Len(t) /\ \A i \in 1..Len(b) : t[p + i] = b[i]

LEMMA StandsParts ==
  ASSUME NEW b \in Seq(Chars), NEW c \in Seq(Chars), NEW t \in Seq(Chars), NEW p \in Nat,
         StandsIn(b \o c, t, p)
  PROVE  /\ StandsIn(b, t, p) /\ StandsIn(c, t, p + Len(b))
         /\ Len(b \o c) = Len(b) + Len(c)
<1>1. Len(b) \in Nat /\ Len(c) \in Nat /\ Len(t) \in Nat
  BY LenProperties
<1>2. /\ Len(b \o c) = Len(b) + Len(c)
      /\ \A i \in 1..(Len(b) + Len(c)) :
           (b \o c)[i] = IF i <= Len(b) THEN b[i] ELSE c[i - Len(b)]
  BY ConcatProperties
<1>3. ASSUME NEW i \in 1..Len(b) PROVE t[p + i] = b[i]
  <2>1. i \in 1..(Len(b) + Len(c)) /\ i <= Len(b)
    BY <1>1
  <2>2. t[p + i] = (b \o c)[i]
    BY <1>2, <2>1 DEF StandsIn
  <2>3. (b \o c)[i] = b[i]
    BY <1>2, <2>1
  <2> QED BY <2>2, <2>3
<1>4. ASSUME NEW i \in 1..Len(c) PROVE t[p + Len(b) + i] = c[i]
  <2>1. Len(b) + i \in 1..(Len(b) + Len(c)) /\ ~(Len(b) + i <= Len(b))
        /\ (Len(b) + i) - Len(b) = i /\ p + Len(b) + i = p + (Len(b) + i)
    BY <1>1
  <2>2. t[p + (Len(b) + i)] = (b \o c)[Len(b) + i]
    BY <1>2, <2>1 DEF StandsIn
  <2>3. (b \o c)[Len(b) + i] = c[(Len(b) + i) - Len(b)]
    BY <1>2, <2>1
  <2> QED BY <2>1, <2>2, <2>3
<1>5. p + Len(b) <= Len(t) /\ p + Len(b) + Len(c) <= Len(t)
  BY <1>1, <1>2 DEF StandsIn
<1> QED BY <1>1, <1>2, <1>3, <1>4, <1>5 DEF StandsIn

LEMMA StandsOne ==
  ASSUME NEW c \in Chars, NEW t, NEW p \in Nat, StandsIn(<<c>>, t, p)
  PROVE  p + 1 <= Len(t) /\ t[p + 1] = c
<1>1. Len(<<c>>) = 1 /\ <<c>>[1] = c
  OBVIOUS
<1> QED BY <1>1 DEF StandsIn

LEMMA OneChar == \A c \in Chars : <<c>> \in Seq(Chars) /\ Len(<<c>>) = 1
  OBVIOUS

-----------------------------------------------------------------------------
\* The scan in an object's text at depth d, in one of its strings, and behind
\* a backslash there; the object began at a, and those in f were found before.
InObject(d, a, f) == [at |-> "object", depth |-> d, start |-> a, found |-> f]
InQuotes(d, a, f) == [at |-> "string", depth |-> d, start |-> a, found |-> f]
Escaped(d, a, f) == [at |-> "escape", depth |-> d, start |-> a, found |-> f]

LEMMA StepObject ==
  ASSUME NEW d, NEW a, NEW f, NEW i
  PROVE  /\ \A c \in {"lbracket", "rbracket", "x"} : Step(InObject(d, a, f), c, i) = InObject(d, a, f)
         /\ Step(InObject(d, a, f), "quote", i) = InQuotes(d, a, f)
  BY DEF Step, InObject, InQuotes

IsDepth(d) == d \in Nat /\ d > 0
Deeper(e, d) == IsDepth(d) /\ e = d + 1

\* A brace opens a nested object, and another closes it.
LEMMA StepNested ==
  ASSUME NEW d, NEW e, Deeper(e, d), NEW a, NEW f, NEW i
  PROVE  /\ Step(InObject(d, a, f), "lbrace", i) = InObject(e, a, f)
         /\ Step(InObject(e, a, f), "rbrace", i) = InObject(d, a, f)
<1>1. d \in Nat /\ e \in Nat /\ d > 0 /\ e = d + 1 /\ e > 1 /\ e - 1 = d
  BY DEF Deeper, IsDepth
<1>2. Step(InObject(d, a, f), "lbrace", i) = InObject(e, a, f)
  BY <1>1 DEF Step, InObject
<1>3. Step(InObject(e, a, f), "rbrace", i) = InObject(d, a, f)
  BY <1>1 DEF Step, InObject
<1> QED BY <1>2, <1>3

LEMMA StepClose ==
  \A a, f, i : Step(InObject(1, a, f), "rbrace", i) = Between(Append(f, <<a, i>>))
  BY DEF Step, InObject

LEMMA StepInString ==
  ASSUME NEW d, NEW a, NEW f, NEW i
  PROVE  /\ \A c \in Chars \ {"quote", "backslash"} : Step(InQuotes(d, a, f), c, i) = InQuotes(d, a, f)
         /\ Step(InQuotes(d, a, f), "backslash", i) = Escaped(d, a, f)
         /\ Step(InQuotes(d, a, f), "quote", i) = InObject(d, a, f)
         /\ \A c \in Chars : Step(Escaped(d, a, f), c, i) = InQuotes(d, a, f)
  BY DEF Step, InObject, InQuotes, Escaped, Chars

LEMMA StepQuoted ==
  ASSUME NEW c \in Chars \ {"quote", "backslash"}, NEW d, NEW a, NEW f, NEW i
  PROVE  Step(InQuotes(d, a, f), c, i) = InQuotes(d, a, f)
  BY DEF Step, InQuotes, Chars

LEMMA StepBetween ==
  ASSUME NEW f, NEW i
  PROVE  /\ \A c \in Chars \ {"lbrace", "rbracket"} : Step(Between(f), c, i) = Between(f)
         /\ Step(Between(f), "lbrace", i) = InObject(1, i, f)
         /\ Step(Between(f), "rbracket", i) = [Between(f) EXCEPT !.at = "end"]
         /\ \A c \in Chars : Step([Between(f) EXCEPT !.at = "end"], c, i) = [Between(f) EXCEPT !.at = "end"]
  BY DEF Step, Between, InObject, Chars

LEMMA StepPast ==
  ASSUME NEW c \in Chars \ {"lbrace", "rbracket"}, NEW f, NEW i
  PROVE  Step(Between(f), c, i) = Between(f)
  BY StepBetween

-----------------------------------------------------------------------------
StillQuoted(x, f) == x.at \in {"string", "escape"} /\ x.found = f

\* Wherever s stands in a string of an object the scan is in that string
\* behind it as it was before, and all the way.
ReadsString(r, t, p, s, d, a, f) ==
  /\ Scan(r, t)[p + Len(s)] = InQuotes(d, a, f)
  /\ \A n \in p..(p + Len(s)) : StillQuoted(Scan(r, t)[n], f)

StaysQuoted(s) ==
  \A t \in Seq(Chars), p \in Nat : \A r, d, a, f :
    StandsIn(s, t, p) /\ Scan(r, t)[p] = InQuotes(d, a, f) => ReadsString(r, t, p, s, d, a, f)

LEMMA StringsStayQuoted == \A s \in JsonStrings : StaysQuoted(s)
<1> DEFINE S == {s \in Seq(Chars) : StaysQuoted(s)}
<1>1. <<>> \in S
  <2>1. Len(<<>>) = 0 /\ <<>> \in Seq(Chars)
    OBVIOUS
  <2>2. StaysQuoted(<<>>)
    BY <2>1 DEF StaysQuoted, ReadsString, InQuotes, StillQuoted
  <2> QED BY <2>1, <2>2
<1>2. ASSUME NEW s \in S, NEW c \in Chars \ {"quote", "backslash"} PROVE s \o <<c>> \in S
  <2>1. s \in Seq(Chars) /\ StaysQuoted(s) /\ <<c>> \in Seq(Chars) /\ Len(<<c>>) = 1
        /\ s \o <<c>> \in Seq(Chars)
    BY OneChar, ConcatProperties
  <2>2. ASSUME NEW r, NEW t \in Seq(Chars), NEW a, NEW f, NEW p \in Nat, NEW d,
               StandsIn(s \o <<c>>, t, p), Scan(r, t)[p] = InQuotes(d, a, f)
        PROVE  ReadsString(r, t, p, s \o <<c>>, d, a, f)
    <3> DEFINE q == p + Len(s)
    <3>1. Len(s) \in Nat /\ Len(t) \in Nat /\ q \in Nat
      BY <2>1, LenProperties
    <3>2. StandsIn(s, t, p) /\ StandsIn(<<c>>, t, q) /\ Len(s \o <<c>>) = Len(s) + 1
      BY <2>1, <2>2, StandsParts
    <3>3. q + 1 <= Len(t) /\ t[q + 1] = c
      BY <3>1, <3>2, StandsOne
    <3>3a. ReadsString(r, t, p, s, d, a, f)
      BY <2>1, <2>2, <3>2 DEF StaysQuoted
    <3>4. /\ Scan(r, t)[q] = InQuotes(d, a, f)
          /\ \A n \in p..q : StillQuoted(Scan(r, t)[n], f)
      BY <3>3a DEF ReadsString
    <3>5. Scan(r, t)[q + 1] = Step(InQuotes(d, a, f), c, q + 1)
      BY <3>1, <3>3, <3>4, ScanSteps
    <3>5a. Step(InQuotes(d, a, f), c, q + 1) = InQuotes(d, a, f)
      BY StepQuoted
    <3>6. Scan(r, t)[q + 1] = InQuotes(d, a, f)
      BY <3>5, <3>5a
    <3>7. StillQuoted(Scan(r, t)[q + 1], f)
      BY <3>6 DEF InQuotes, StillQuoted
    <3>8. \A n \in p..(q + 1) : n \in p..q \/ n = q + 1
      BY <3>1
    <3>9. p + Len(s \o <<c>>) = q + 1
      BY <3>1, <3>2
    <3> HIDE DEF q
    <3> QED BY <3>4, <3>6, <3>7, <3>8, <3>9 DEF ReadsString
  <2>3. StaysQuoted(s \o <<c>>)
    BY <2>2 DEF StaysQuoted
  <2> QED BY <2>1, <2>3
<1>3. ASSUME NEW s \in S, NEW c \in Chars PROVE s \o <<"backslash">> \o <<c>> \in S
  <2> DEFINE u == s \o <<"backslash">>
             v == u \o <<c>>
  <2>1. /\ s \in Seq(Chars) /\ StaysQuoted(s) /\ "backslash" \in Chars
        /\ <<c>> \in Seq(Chars) /\ Len(<<c>>) = 1
        /\ <<"backslash">> \in Seq(Chars) /\ Len(<<"backslash">>) = 1
    BY OneChar DEF Chars
  <2>2. u \in Seq(Chars) /\ v \in Seq(Chars)
    BY <2>1, ConcatProperties
  <2> HIDE DEF u, v
  <2>3. ASSUME NEW r, NEW t \in Seq(Chars), NEW a, NEW f, NEW p \in Nat, NEW d,
               StandsIn(v, t, p), Scan(r, t)[p] = InQuotes(d, a, f)
        PROVE  ReadsString(r, t, p, v, d, a, f)
    <3> DEFINE q == p + Len(s)
    <3>1. Len(s) \in Nat /\ Len(t) \in Nat /\ q \in Nat
      BY <2>1, LenProperties
    <3>2. StandsIn(u, t, p) /\ StandsIn(<<c>>, t, p + Len(u)) /\ Len(v) = Len(u) + 1
      BY <2>1, <2>2, <2>3, StandsParts DEF v
    <3>3. StandsIn(s, t, p) /\ StandsIn(<<"backslash">>, t, q) /\ Len(u) = Len(s) + 1
      BY <2>1, <3>2, StandsParts DEF u
    <3>4. q + 1 <= Len(t) /\ t[q + 1] = "backslash"
      BY <2>1, <3>1, <3>3, StandsOne
    <3>5. p + Len(u) = q + 1 /\ p + Len(v) = q + 2 /\ q + 1 + 1 = q + 2
      BY <3>1, <3>2, <3>3
    <3>6. q + 2 <= Len(t) /\ t[q + 2] = c
      BY <2>1, <3>1, <3>2, <3>5, StandsOne
    <3>70. ReadsString(r, t, p, s, d, a, f)
      BY <2>1, <2>3, <3>3 DEF StaysQuoted
    <3>7. /\ Scan(r, t)[q] = InQuotes(d, a, f)
          /\ \A n \in p..q : StillQuoted(Scan(r, t)[n], f)
      BY <3>70 DEF ReadsString
    <3>8. Scan(r, t)[q + 1] = Escaped(d, a, f)
      BY <3>1, <3>4, <3>7, ScanSteps, StepInString
    <3>9. Scan(r, t)[q + 2] = Step(Escaped(d, a, f), c, q + 2)
      BY <3>1, <3>5, <3>6, <3>8, ScanSteps
    <3>10. Scan(r, t)[q + 2] = InQuotes(d, a, f)
      BY <3>9, StepInString
    <3>11. /\ StillQuoted(Scan(r, t)[q + 1], f)
           /\ StillQuoted(Scan(r, t)[q + 2], f)
      BY <3>8, <3>10 DEF InQuotes, Escaped, StillQuoted
    <3>12. \A n \in p..(q + 2) : n \in p..q \/ n = q + 1 \/ n = q + 2
      BY <3>1
    <3> HIDE DEF q
    <3> QED BY <3>5, <3>7, <3>10, <3>11, <3>12 DEF ReadsString
  <2>4. StaysQuoted(v)
    BY <2>3 DEF StaysQuoted
  <2> QED BY <2>2, <2>4 DEF v, u
<1>4. StringRules(S) /\ S \in SUBSET Seq(Chars)
  <2> HIDE DEF S
  <2>1. S \subseteq Seq(Chars)
    BY DEF S
  <2> QED BY <1>1, <1>2, <1>3, <2>1 DEF StringRules
<1> HIDE DEF S
<1>5. JsonStrings \subseteq S
  BY <1>4 DEF JsonStrings
<1> QED BY <1>5 DEF S

-----------------------------------------------------------------------------
\* From p to q the scan finds nothing; at q it is in state y.
Goes(r, t, p, q, y, f) ==
  /\ Scan(r, t)[q] = y
  /\ \A n \in p..q : Scan(r, t)[n].found = f

LEMMA GoesOn ==
  ASSUME NEW r, NEW t, NEW p \in Nat, NEW q \in Nat, NEW w \in Nat, NEW y, NEW z, NEW f,
         Goes(r, t, p, q, y, f), Goes(r, t, q, w, z, f), p <= q, q <= w
  PROVE  Goes(r, t, p, w, z, f)
<1>1. \A n \in p..w : n \in p..q \/ n \in q..w
  OBVIOUS
<1> QED BY <1>1 DEF Goes

LEMMA GoesOne ==
  ASSUME NEW r, NEW t \in Seq(Chars), NEW p \in Nat, NEW q, q = p + 1, NEW c \in Chars,
         NEW y, NEW f, StandsIn(<<c>>, t, p), Scan(r, t)[p].found = f,
         Step(Scan(r, t)[p], c, q) = y, y.found = f
  PROVE  Goes(r, t, p, q, y, f)
<1>1. p + 1 <= Len(t) /\ t[p + 1] = c
  BY StandsOne
<1>2. Scan(r, t)[q] = y
  BY <1>1, ScanSteps, LenProperties
<1>3. \A n \in p..q : n = p \/ n = q
  OBVIOUS
<1> QED BY <1>2, <1>3 DEF Goes

\* A string passes the scan.
LEMMA GoesString ==
  ASSUME NEW r, NEW t \in Seq(Chars), NEW p \in Nat, NEW s \in JsonStrings, NEW d,
         NEW a, NEW f, StandsIn(s, t, p), Scan(r, t)[p] = InQuotes(d, a, f)
  PROVE  Goes(r, t, p, p + Len(s), InQuotes(d, a, f), f)
<1>1. StaysQuoted(s)
  BY StringsStayQuoted
<1>2. ReadsString(r, t, p, s, d, a, f)
  BY <1>1 DEF StaysQuoted
<1> QED BY <1>2 DEF ReadsString, Goes, StillQuoted

\* Wherever b stands in an object's text the scan is at the same depth behind
\* it as it was before, and has found nothing on the way.
StaysInside(b) ==
  \A t \in Seq(Chars), p \in Nat : \A r, d, a, f :
    IsDepth(d) /\ StandsIn(b, t, p) /\ Scan(r, t)[p] = InObject(d, a, f) =>
      Goes(r, t, p, p + Len(b), InObject(d, a, f), f)

LEMMA FoundInside ==
  \A d, a, f : InObject(d, a, f).found = f /\ InQuotes(d, a, f).found = f
  BY DEF InObject, InQuotes

\* Behind b, from p on, the character c stands at x in t;
FollowedBy(t, p, b, c, q, x) ==
  /\ q = p + Len(b) /\ x = q + 1 /\ p <= q /\ q <= x
  /\ StandsIn(b, t, p) /\ StandsIn(<<c>>, t, q)

\* behind b it stands the text s between the characters o and e.
Encloses(t, p, b, o, s, e, q, x, y, z) ==
  /\ FollowedBy(t, p, b, o, q, x)
  /\ y = x + Len(s) /\ z = y + 1 /\ x <= y /\ y <= z
  /\ StandsIn(s, t, x) /\ StandsIn(<<e>>, t, y)

\* One more character.
LEMMA InsideOne ==
  ASSUME NEW b \in Seq(Chars), StaysInside(b), NEW c \in {"lbracket", "rbracket", "x"},
         NEW t \in Seq(Chars), NEW r, NEW d, IsDepth(d), NEW a, NEW f,
         NEW p \in Nat, NEW q \in Nat, NEW x \in Nat, FollowedBy(t, p, b, c, q, x),
         Scan(r, t)[p] = InObject(d, a, f)
  PROVE  Goes(r, t, p, x, InObject(d, a, f), f)
<1> USE DEF FollowedBy
<1>1. Goes(r, t, p, q, InObject(d, a, f), f)
  BY DEF StaysInside
<1>2. Scan(r, t)[q] = InObject(d, a, f)
  BY <1>1 DEF Goes
<1>3. Step(InObject(d, a, f), c, x) = InObject(d, a, f)
  BY StepObject
<1>4. InObject(d, a, f).found = f /\ c \in Chars
  BY FoundInside DEF Chars
<1>5. Goes(r, t, q, x, InObject(d, a, f), f)
  BY <1>2, <1>3, <1>4, GoesOne
<1> QED BY <1>1, <1>5, GoesOn

\* One more string.
LEMMA InsideString ==
  ASSUME NEW b \in Seq(Chars), StaysInside(b), NEW s \in JsonStrings,
         NEW t \in Seq(Chars), NEW r, NEW d, IsDepth(d), NEW a, NEW f,
         NEW p \in Nat, NEW q \in Nat, NEW x \in Nat, NEW y \in Nat, NEW z \in Nat,
         Encloses(t, p, b, "quote", s, "quote", q, x, y, z),
         Scan(r, t)[p] = InObject(d, a, f)
  PROVE  Goes(r, t, p, z, InObject(d, a, f), f)
<1> USE DEF Encloses, FollowedBy
<1>1. Goes(r, t, p, q, InObject(d, a, f), f)
  BY DEF StaysInside
<1>2. /\ InObject(d, a, f).found = f /\ InQuotes(d, a, f).found = f
      /\ "quote" \in Chars
  <2>1. "quote" \in Chars
    BY DEF Chars
  <2> QED BY <2>1, FoundInside
<1>3. Goes(r, t, q, x, InQuotes(d, a, f), f)
  <2>1. Scan(r, t)[q] = InObject(d, a, f)
    BY <1>1 DEF Goes
  <2>2. Step(InObject(d, a, f), "quote", x) = InQuotes(d, a, f)
    BY StepObject
  <2> QED BY <1>2, <2>1, <2>2, GoesOne
<1>4. Goes(r, t, x, y, InQuotes(d, a, f), f)
  <2>1. Scan(r, t)[x] = InQuotes(d, a, f)
    BY <1>3 DEF Goes
  <2> QED BY <2>1, GoesString
<1>5. Goes(r, t, y, z, InObject(d, a, f), f)
  <2>1. Scan(r, t)[y] = InQuotes(d, a, f)
    BY <1>4 DEF Goes
  <2>2. Step(InQuotes(d, a, f), "quote", z) = InObject(d, a, f)
    BY StepInString
  <2> QED BY <1>2, <2>1, <2>2, GoesOne
<1>6. Goes(r, t, p, x, InQuotes(d, a, f), f)
  BY <1>1, <1>3, GoesOn
<1>7. p <= x /\ p <= y
  OBVIOUS
<1>8. Goes(r, t, p, y, InQuotes(d, a, f), f)
  BY <1>4, <1>6, <1>7, GoesOn
<1> QED BY <1>5, <1>7, <1>8, GoesOn

\* One more nested object.
LEMMA InsideNested ==
  ASSUME NEW b \in Seq(Chars), StaysInside(b), NEW c \in Seq(Chars), StaysInside(c),
         NEW t \in Seq(Chars), NEW r, NEW d, NEW e, IsDepth(d), Deeper(e, d), NEW a, NEW f,
         NEW p \in Nat, NEW q \in Nat, NEW x \in Nat, NEW y \in Nat, NEW z \in Nat,
         Encloses(t, p, b, "lbrace", c, "rbrace", q, x, y, z),
         Scan(r, t)[p] = InObject(d, a, f)
  PROVE  Goes(r, t, p, z, InObject(d, a, f), f)
<1> USE DEF Encloses, FollowedBy
<1>1. Goes(r, t, p, q, InObject(d, a, f), f)
  BY DEF StaysInside
<1>2. InObject(d, a, f).found = f /\ InObject(e, a, f).found = f
      /\ "lbrace" \in Chars /\ "rbrace" \in Chars
  BY FoundInside DEF Chars
<1>3. IsDepth(e)
  BY DEF IsDepth, Deeper
<1>4. Goes(r, t, q, x, InObject(e, a, f), f)
  <2>1. Scan(r, t)[q] = InObject(d, a, f)
    BY <1>1 DEF Goes
  <2>2. Step(InObject(d, a, f), "lbrace", x) = InObject(e, a, f)
    BY StepNested
  <2> QED BY <1>2, <2>1, <2>2, GoesOne
<1>5. Goes(r, t, x, y, InObject(e, a, f), f)
  <2>1. Scan(r, t)[x] = InObject(e, a, f)
    BY <1>4 DEF Goes
  <2> QED BY <1>3, <2>1 DEF StaysInside
<1>6. Goes(r, t, y, z, InObject(d, a, f), f)
  <2>1. Scan(r, t)[y] = InObject(e, a, f)
    BY <1>5 DEF Goes
  <2>2. Step(InObject(e, a, f), "rbrace", z) = InObject(d, a, f)
    BY StepNested
  <2> QED BY <1>2, <2>1, <2>2, GoesOne
<1>7. p <= x /\ p <= y
  OBVIOUS
<1>8. Goes(r, t, p, x, InObject(e, a, f), f)
  BY <1>1, <1>4, <1>7, GoesOn
<1>9. Goes(r, t, p, y, InObject(e, a, f), f)
  BY <1>5, <1>7, <1>8, GoesOn
<1> QED BY <1>6, <1>7, <1>9, GoesOn

\* Four texts one behind the other, and where each of them stands.
LEMMA StandsFour ==
  ASSUME NEW b \in Seq(Chars), NEW c \in Chars, NEW s \in Seq(Chars), NEW e \in Chars
  PROVE  /\ b \o <<c>> \o s \o <<e>> \in Seq(Chars)
         /\ \A t \in Seq(Chars), p \in Nat : StandsIn(b \o <<c>> \o s \o <<e>>, t, p) =>
              \E q, x, y, z \in Nat :
                /\ Encloses(t, p, b, c, s, e, q, x, y, z)
                /\ z = p + Len(b \o <<c>> \o s \o <<e>>)
<1> DEFINE u == b \o <<c>>
           v == u \o s
           w == v \o <<e>>
<1>1. <<c>> \in Seq(Chars) /\ <<e>> \in Seq(Chars) /\ Len(<<c>>) = 1 /\ Len(<<e>>) = 1
  BY OneChar
<1>2. u \in Seq(Chars)
  BY <1>1, ConcatProperties
<1> HIDE DEF u
<1>3. v \in Seq(Chars)
  BY <1>2, ConcatProperties
<1> HIDE DEF v
<1>4. w \in Seq(Chars)
  BY <1>1, <1>3, ConcatProperties
<1> HIDE DEF w
<1>5. ASSUME NEW t \in Seq(Chars), NEW p \in Nat, StandsIn(w, t, p)
      PROVE  \E q, x, y, z \in Nat :
                /\ Encloses(t, p, b, c, s, e, q, x, y, z)
                /\ z = p + Len(w)
  <2>1. Len(b) \in Nat /\ Len(s) \in Nat
    BY LenProperties
  <2>2. StandsIn(v, t, p) /\ StandsIn(<<e>>, t, p + Len(v)) /\ Len(w) = Len(v) + 1
    BY <1>1, <1>3, <1>5, StandsParts DEF w
  <2>3. StandsIn(u, t, p) /\ StandsIn(s, t, p + Len(u)) /\ Len(v) = Len(u) + Len(s)
    BY <1>2, <2>2, StandsParts DEF v
  <2>4. StandsIn(b, t, p) /\ StandsIn(<<c>>, t, p + Len(b)) /\ Len(u) = Len(b) + 1
    BY <1>1, <2>3, StandsParts DEF u
  <2> DEFINE q == p + Len(b)
             x == p + Len(u)
             y == p + Len(v)
             z == p + Len(w)
  <2>5. /\ q \in Nat /\ x \in Nat /\ y \in Nat /\ z \in Nat
        /\ x = q + 1 /\ y = x + Len(s) /\ z = y + 1
        /\ p <= q /\ q <= x /\ x <= y /\ y <= z
    BY <2>1, <2>2, <2>3, <2>4
  <2>6. Encloses(t, p, b, c, s, e, q, x, y, z)
    BY <2>2, <2>3, <2>4, <2>5 DEF Encloses, FollowedBy
  <2> WITNESS q \in Nat, x \in Nat, y \in Nat, z \in Nat
  <2> QED BY <2>6
<1> QED BY <1>4, <1>5 DEF u, v, w

LEMMA BodiesStayInside == \A b \in JsonBodies : StaysInside(b)
<1> DEFINE B == {b \in Seq(Chars) : StaysInside(b)}
<1>1. <<>> \in B
  <2>1. Len(<<>>) = 0 /\ <<>> \in Seq(Chars)
    OBVIOUS
  <2>2. \A r, t, y, f : \A p \in Nat : Scan(r, t)[p] = y /\ y.found = f => Goes(r, t, p, p + 0, y, f)
    BY DEF Goes
  <2>3. StaysInside(<<>>)
    BY <2>1, <2>2, FoundInside DEF StaysInside
  <2> QED BY <2>1, <2>3
<1>2. ASSUME NEW b \in B, NEW c \in {"lbracket", "rbracket", "x"} PROVE b \o <<c>> \in B
  <2>1. b \in Seq(Chars) /\ StaysInside(b) /\ Len(b) \in Nat /\ c \in Chars
    BY LenProperties DEF Chars
  <2>2. <<c>> \in Seq(Chars) /\ Len(<<c>>) = 1
    BY <2>1, OneChar
  <2>3. b \o <<c>> \in Seq(Chars)
    BY <2>1, <2>2, ConcatProperties
  <2>4. ASSUME NEW t \in Seq(Chars), NEW p \in Nat, NEW d, IsDepth(d), NEW r, NEW a, NEW f,
               StandsIn(b \o <<c>>, t, p), Scan(r, t)[p] = InObject(d, a, f)
        PROVE  Goes(r, t, p, p + Len(b \o <<c>>), InObject(d, a, f), f)
    <3>1. StandsIn(b, t, p) /\ StandsIn(<<c>>, t, p + Len(b)) /\ Len(b \o <<c>>) = Len(b) + 1
      BY <2>1, <2>2, <2>4, StandsParts
    <3>2. PICK q \in Nat, x \in Nat : FollowedBy(t, p, b, c, q, x) /\ x = p + Len(b \o <<c>>)
      <4>1. /\ p + Len(b) \in Nat /\ p + Len(b) + 1 \in Nat
            /\ FollowedBy(t, p, b, c, p + Len(b), p + Len(b) + 1)
            /\ p + Len(b) + 1 = p + Len(b \o <<c>>)
        BY <2>1, <3>1 DEF FollowedBy
      <4> QED BY <4>1
    <3>3. Goes(r, t, p, x, InObject(d, a, f), f)
      BY <2>1, <2>4, <3>2, InsideOne
    <3> QED BY <3>2, <3>3
  <2>5. StaysInside(b \o <<c>>)
    BY <2>4 DEF StaysInside
  <2> QED BY <2>3, <2>5
<1>3. ASSUME NEW b \in B, NEW s \in JsonStrings PROVE b \o <<"quote">> \o s \o <<"quote">> \in B
  <2> DEFINE w == b \o <<"quote">> \o s \o <<"quote">>
  <2>1. s \in Seq(Chars) /\ "quote" \in Chars /\ b \in Seq(Chars) /\ StaysInside(b)
    BY DEF JsonStrings, Chars
  <2>2. w \in Seq(Chars)
    BY <2>1, StandsFour
  <2>3. ASSUME NEW t \in Seq(Chars), NEW p \in Nat, NEW d, IsDepth(d), NEW r, NEW a, NEW f,
               StandsIn(w, t, p), Scan(r, t)[p] = InObject(d, a, f)
        PROVE  Goes(r, t, p, p + Len(w), InObject(d, a, f), f)
    <3>1. PICK q \in Nat, x \in Nat, y \in Nat, z \in Nat :
            Encloses(t, p, b, "quote", s, "quote", q, x, y, z) /\ z = p + Len(w)
      BY <2>1, <2>3, StandsFour
    <3> HIDE DEF w
    <3>2. Goes(r, t, p, z, InObject(d, a, f), f)
      BY <2>1, <2>3, <3>1, InsideString
    <3> QED BY <3>1, <3>2
  <2> HIDE DEF w
  <2>4. StaysInside(w)
    BY <2>3 DEF StaysInside
  <2> QED BY <2>2, <2>4 DEF w
<1>4. ASSUME NEW b \in B, NEW c \in B PROVE b \o <<"lbrace">> \o c \o <<"rbrace">> \in B
  <2> DEFINE w == b \o <<"lbrace">> \o c \o <<"rbrace">>
  <2>1. c \in Seq(Chars) /\ StaysInside(c) /\ b \in Seq(Chars) /\ StaysInside(b)
        /\ "lbrace" \in Chars /\ "rbrace" \in Chars
    BY DEF Chars
  <2>2. w \in Seq(Chars)
    BY <2>1, StandsFour
  <2>3. ASSUME NEW t \in Seq(Chars), NEW p \in Nat, NEW d, IsDepth(d), NEW r, NEW a, NEW f,
               StandsIn(w, t, p), Scan(r, t)[p] = InObject(d, a, f)
        PROVE  Goes(r, t, p, p + Len(w), InObject(d, a, f), f)
    <3>1. PICK q \in Nat, x \in Nat, y \in Nat, z \in Nat :
            Encloses(t, p, b, "lbrace", c, "rbrace", q, x, y, z) /\ z = p + Len(w)
      BY <2>1, <2>3, StandsFour
    <3>2. PICK e : Deeper(e, d)
      BY <2>3 DEF Deeper
    <3> HIDE DEF w
    <3>3. Goes(r, t, p, z, InObject(d, a, f), f)
      BY <2>1, <2>3, <3>1, <3>2, InsideNested
    <3> QED BY <3>1, <3>3
  <2> HIDE DEF w
  <2>4. StaysInside(w)
    BY <2>3 DEF StaysInside
  <2> QED BY <2>2, <2>4 DEF w
<1>5. BodyRules(B) /\ B \in SUBSET Seq(Chars)
  <2>1. B \subseteq Seq(Chars)
    OBVIOUS
  <2> HIDE DEF B
  <2> QED BY <1>1, <1>2, <1>3, <1>4, <2>1 DEF BodyRules
<1> HIDE DEF B
<1>6. JsonBodies \subseteq B
  BY <1>5 DEF JsonBodies
<1> QED BY <1>6 DEF B

-----------------------------------------------------------------------------
\* The scan of a text that is cut is the scan of the whole as far as it goes.
LEMMA ScanOfCut ==
  ASSUME NEW s, NEW t \in Seq(Chars), NEW n \in 0..Len(t)
  PROVE  /\ SubSeq(t, 1, n) \in Seq(Chars) /\ Len(SubSeq(t, 1, n)) = n
         /\ \A m \in 0..n : Scan(s, SubSeq(t, 1, n))[m] = Scan(s, t)[m]
<1> DEFINE u == SubSeq(t, 1, n)
           M == {m \in Nat : m <= n => Scan(s, u)[m] = Scan(s, t)[m]}
<1>1. Len(t) \in Nat /\ n \in Nat /\ n <= Len(t)
  BY LenProperties
<1>2. u \in Seq(Chars) /\ Len(u) = n /\ \A i \in 1..n : u[i] = t[i]
  <2>1. \A i \in 1..n : t[i] \in Chars
    BY <1>1, ElementOfSeq
  <2>2. /\ u \in Seq(Chars) /\ Len(u) = IF 1 <= n THEN n - 1 + 1 ELSE 0
        /\ \A i \in 1..(n - 1 + 1) : u[i] = t[1 + i - 1]
    BY <1>1, <2>1, SubSeqProperties
  <2> HIDE DEF u
  <2> QED BY <1>1, <2>2
<1> HIDE DEF u
<1>3. 0 \in M
  BY <1>1, <1>2, ScanSteps
<1>4. ASSUME NEW m \in M \cap Nat PROVE m + 1 \in M
  <2> SUFFICES ASSUME m + 1 <= n PROVE Scan(s, u)[m + 1] = Scan(s, t)[m + 1]
    OBVIOUS
  <2>1. Scan(s, u)[m] = Scan(s, t)[m] /\ u[m + 1] = t[m + 1]
    BY <1>1, <1>2
  <2>2. Scan(s, u)[m + 1] = Step(Scan(s, u)[m], u[m + 1], m + 1)
    BY <1>1, <1>2, ScanSteps
  <2>3. Scan(s, t)[m + 1] = Step(Scan(s, t)[m], t[m + 1], m + 1)
    BY <1>1, ScanSteps
  <2> QED BY <2>1, <2>2, <2>3
<1>5. Nat \subseteq M
  <2> HIDE DEF M
  <2> QED BY <1>3, <1>4, SetInduction
<1> QED BY <1>1, <1>2, <1>5 DEF u

LEMMA TwoNumbers == \A q \in Nat : \A n \in q..(q + 1) : n = q \/ n = q + 1
  OBVIOUS

LEMMA StandsWhole == \A t \in Seq(Chars) : StandsIn(t, t, 0)
  BY LenProperties DEF StandsIn

\* A canary is read when it is there to its end, whatever its text holds, and
\* not when the answer was cut within it (json_string_field).
THEOREM CanaryReadWhole ==
  ASSUME NEW s \in JsonStrings
  PROVE  /\ \A n \in 0..Len(s) : ~json_string_field(SubSeq(s, 1, n))
         /\ json_string_field(s \o <<"quote">>)
<1> DEFINE r == InQuotes(0, 0, <<>>)
           t == s \o <<"quote">>
<1>1. s \in Seq(Chars) /\ Len(s) \in Nat /\ "quote" \in Chars
  BY LenProperties DEF JsonStrings, Chars
<1>2. <<"quote">> \in Seq(Chars) /\ Len(<<"quote">>) = 1
  BY <1>1, OneChar
<1>3. t \in Seq(Chars) /\ Len(t) = Len(s) + 1
  BY <1>1, <1>2, ConcatProperties
<1>4. r = [Between(<<>>) EXCEPT !.at = "string"]
  BY DEF Between, InQuotes
<1>5. StaysQuoted(s)
  BY StringsStayQuoted
<1> HIDE DEF r, t
<1>6. ASSUME NEW n \in 0..Len(s) PROVE ~json_string_field(SubSeq(s, 1, n))
  <2> DEFINE u == SubSeq(s, 1, n)
  <2>1. Len(u) = n /\ \A m \in 0..n : Scan(r, u)[m] = Scan(r, s)[m]
    BY <1>1, ScanOfCut
  <2>2. Scan(r, s)[0] = InQuotes(0, 0, <<>>)
    BY <1>1, ScanSteps DEF r
  <2>3. ReadsString(r, s, 0, s, 0, 0, <<>>)
    BY <1>1, <1>5, <2>2, StandsWhole DEF StaysQuoted
  <2>4. \A m \in 0..n : Scan(r, s)[m].at # "object"
    BY <1>1, <2>3 DEF ReadsString, StillQuoted
  <2> HIDE DEF u
  <2> QED BY <1>4, <2>1, <2>4 DEF json_string_field, u
<1>7. json_string_field(t)
  <2>1. StandsIn(s, t, 0) /\ StandsIn(<<"quote">>, t, 0 + Len(s))
    BY <1>1, <1>2, <1>3, StandsWhole, StandsParts DEF t
  <2>2. Scan(r, t)[0] = InQuotes(0, 0, <<>>)
    BY <1>1, <1>3, ScanSteps DEF r
  <2>3. ReadsString(r, t, 0, s, 0, 0, <<>>)
    BY <1>3, <1>5, <2>1, <2>2 DEF StaysQuoted
  <2>4. Scan(r, t)[Len(s)] = InQuotes(0, 0, <<>>)
    BY <1>1, <2>3 DEF ReadsString
  <2>5. t[Len(s) + 1] = "quote"
    BY <1>1, <2>1, StandsOne
  <2>6. Scan(r, t)[Len(s) + 1] = InObject(0, 0, <<>>)
    BY <1>1, <1>3, <2>4, <2>5, ScanSteps, StepInString
  <2>7. Scan(r, t)[Len(s) + 1].at = "object" /\ Len(s) + 1 \in 0..Len(t)
    BY <1>1, <1>3, <2>6 DEF InObject
  <2> QED BY <1>4, <2>7 DEF json_string_field
<1> QED BY <1>6, <1>7 DEF t

-----------------------------------------------------------------------------
\* Behind q, g is found, and before it f.
FindsAt(r, t, p, q, f, g) ==
  /\ Scan(r, t)[q + 1] = Between(g)
  /\ \A n \in p..(q - 1) : Scan(r, t)[n].found = f
  /\ \A n \in q..(q + 1) : Scan(r, t)[n].found = g

\* One object and its comma: nothing is found before its last brace, and from
\* there on the object.
LEMMA ObjectFound ==
  ASSUME NEW o \in JsonObjects, NEW t \in Seq(Chars), NEW p \in Nat, NEW q \in Nat, NEW r, NEW f, NEW g,
         q = p + Len(o), g = Append(f, <<p + 1, q>>), StandsIn(o, t, p), StandsIn(<<"x">>, t, q), Scan(r, t)[p] = Between(f)
  PROVE  FindsAt(r, t, p, q, f, g)
<1>1. PICK b \in JsonBodies : o = <<"lbrace">> \o b \o <<"rbrace">>
  BY DEF JsonObjects
<1>2. "lbrace" \in Chars /\ "rbrace" \in Chars /\ "x" \in Chars
  BY DEF Chars
<1>3. /\ <<"lbrace">> \in Seq(Chars) /\ <<"rbrace">> \in Seq(Chars)
      /\ Len(<<"lbrace">>) = 1 /\ Len(<<"rbrace">>) = 1
  BY <1>2, OneChar
<1>4. b \in Seq(Chars) /\ Len(b) \in Nat /\ StaysInside(b)
  BY LenProperties, BodiesStayInside DEF JsonBodies
<1> DEFINE u == <<"lbrace">> \o b
<1>5. u \in Seq(Chars)
  BY <1>3, <1>4, ConcatProperties
<1> HIDE DEF u
<1>6. StandsIn(u, t, p) /\ StandsIn(<<"rbrace">>, t, p + Len(u)) /\ Len(o) = Len(u) + 1
  BY <1>1, <1>3, <1>5, StandsParts DEF u
<1>7. StandsIn(<<"lbrace">>, t, p) /\ StandsIn(b, t, p + 1) /\ Len(u) = 1 + Len(b)
  BY <1>3, <1>4, <1>6, StandsParts DEF u
<1>8. q \in Nat /\ p + Len(u) = p + 1 + Len(b) /\ q = p + 1 + Len(b) + 1 /\ q > p + 1
  BY <1>4, <1>6, <1>7
<1>9. Len(t) \in Nat
  BY LenProperties
<1>10. Scan(r, t)[p + 1] = InObject(1, p + 1, f)
  <2>1. p + 1 <= Len(t) /\ t[p + 1] = "lbrace"
    BY <1>2, <1>7, StandsOne
  <2>2. Scan(r, t)[p + 1] = Step(Between(f), "lbrace", p + 1)
    BY <1>9, <2>1, ScanSteps
  <2> QED BY <2>2, StepBetween
<1>11. Goes(r, t, p + 1, p + 1 + Len(b), InObject(1, p + 1, f), f)
  <2>1. IsDepth(1) /\ p + 1 \in Nat
    BY DEF IsDepth
  <2> QED BY <1>4, <1>7, <1>10, <2>1 DEF StaysInside
<1>12. Scan(r, t)[q] = Between(g)
  <2> DEFINE m == p + 1 + Len(b)
  <2>1. m \in Nat /\ q = m + 1 /\ StandsIn(<<"rbrace">>, t, m)
    BY <1>4, <1>6, <1>8
  <2>2. m + 1 <= Len(t) /\ t[m + 1] = "rbrace"
    BY <1>2, <2>1, StandsOne
  <2>3. Scan(r, t)[m] = InObject(1, p + 1, f)
    BY <1>11 DEF Goes
  <2>4. Scan(r, t)[m + 1] = Step(InObject(1, p + 1, f), "rbrace", m + 1)
    BY <1>9, <2>1, <2>2, <2>3, ScanSteps
  <2> HIDE DEF m
  <2> QED BY <2>1, <2>4, StepClose
<1>13. Scan(r, t)[q + 1] = Between(g)
  <2>1. q + 1 <= Len(t) /\ t[q + 1] = "x"
    BY <1>2, <1>8, StandsOne
  <2>2. "x" \in Chars \ {"lbrace", "rbracket"}
    BY <1>2
  <2>3. Scan(r, t)[q + 1] = Step(Between(g), "x", q + 1)
    BY <1>8, <1>9, <1>12, <2>1, ScanSteps
  <2>4. Step(Between(g), "x", q + 1) = Between(g)
    BY <2>2, StepPast
  <2> QED BY <2>3, <2>4
<1>14. \A h : Between(h).found = h
  BY DEF Between
<1>15. \A n \in p..(q - 1) : Scan(r, t)[n].found = f
  <2>1. \A n \in p..(q - 1) : n = p \/ n \in (p + 1)..(p + 1 + Len(b))
    BY <1>4, <1>8
  <2> QED BY <1>11, <1>14, <2>1 DEF Goes
<1>16. \A n \in q..(q + 1) : Scan(r, t)[n].found = g
  <2>1. \A n \in q..(q + 1) : n = q \/ n = q + 1
    BY TwoNumbers
  <2> QED BY <1>12, <1>13, <1>14, <2>1
<1> QED BY <1>13, <1>15, <1>16 DEF FindsAt

-----------------------------------------------------------------------------
\* The recursion of Elements, as far as N objects.
Writes(f, os, N) ==
  f = [k \in 0..N |-> IF k = 0 THEN <<>> ELSE f[k - 1] \o os[k] \o <<"x">>]

LEMMA WritesExists == \A os : \A N \in Nat : \E f : Writes(f, os, N)
<1> SUFFICES ASSUME NEW os PROVE \A N \in Nat : \E f : Writes(f, os, N)
  OBVIOUS
<1> DEFINE S == {N \in Nat : \E f : Writes(f, os, N)}
<1>1. 0 \in S
  <2>1. Writes([k \in 0..0 |-> <<>>], os, 0)
    BY DEF Writes
  <2> QED BY <2>1
<1>2. ASSUME NEW N \in S \cap Nat PROVE N + 1 \in S
  <2>1. PICK g : Writes(g, os, N)
    OBVIOUS
  <2> DEFINE h == [k \in 0..(N + 1) |->
                     IF k <= N THEN g[k] ELSE g[N] \o os[N + 1] \o <<"x">>]
  <2>2. \A k \in 0..N : h[k] = g[k]
    OBVIOUS
  <2>3. ASSUME NEW k \in 0..(N + 1)
        PROVE  h[k] = IF k = 0 THEN <<>> ELSE h[k - 1] \o os[k] \o <<"x">>
    <3>1. CASE k = 0
      BY <2>1, <2>2, <3>1 DEF Writes
    <3>2. CASE k \in 1..N
      <4>1. k - 1 \in 0..N /\ k \in 0..N /\ k # 0
        BY <3>2
      <4>2. h[k] = g[k] /\ h[k - 1] = g[k - 1]
        BY <4>1, <2>2
      <4>3. g[k] = g[k - 1] \o os[k] \o <<"x">>
        BY <4>1, <2>1 DEF Writes
      <4> HIDE DEF h
      <4> QED BY <4>1, <4>2, <4>3
    <3>3. CASE k = N + 1
      <4>1. k # 0 /\ k - 1 = N /\ N \in 0..N /\ ~(k <= N)
        BY <3>3
      <4>2. h[k] = g[N] \o os[N + 1] \o <<"x">>
        BY <4>1
      <4>3. h[k - 1] = g[N]
        BY <4>1, <2>2
      <4> HIDE DEF h
      <4> QED BY <3>3, <4>1, <4>2, <4>3
    <3> QED BY <3>1, <3>2, <3>3
  <2>4. Writes(h, os, N + 1)
    <3> DEFINE r == [k \in 0..(N + 1) |-> IF k = 0 THEN <<>> ELSE h[k - 1] \o os[k] \o <<"x">>]
    <3>1. DOMAIN h = 0..(N + 1) /\ h = [k \in DOMAIN h |-> h[k]]
      OBVIOUS
    <3> HIDE DEF h
    <3>2. h = r
      BY <2>3, <3>1
    <3> QED BY <3>2 DEF Writes
  <2> HIDE DEF h
  <2> QED BY <2>4
<1>3. Nat \subseteq S
  <2> HIDE DEF S
  <2> QED BY <1>1, <1>2, SetInduction
<1> QED BY <1>3

\* The text of the array, object by object.
LEMMA ElementsSteps ==
  ASSUME NEW os, Len(os) \in Nat
  PROVE  /\ Elements(os)[0] = <<>>
         /\ \A k \in Nat : k + 1 <= Len(os) =>
              Elements(os)[k + 1] = Elements(os)[k] \o os[k + 1] \o <<"x">>
<1> DEFINE f == CHOOSE g : Writes(g, os, Len(os))
<1>1. Writes(f, os, Len(os))
  BY WritesExists
<1>2. Elements(os) = f
  BY DEF Elements, Writes
<1> HIDE DEF f
<1>3. f[0] = <<>>
  BY <1>1 DEF Writes
<1>4. ASSUME NEW k \in Nat, k + 1 <= Len(os) PROVE f[k + 1] = f[k] \o os[k + 1] \o <<"x">>
  <2>1. k + 1 # 0 /\ (k + 1) - 1 = k /\ k + 1 \in 0..Len(os)
    BY <1>4
  <2> QED BY <1>1, <2>1 DEF Writes
<1> QED BY <1>2, <1>3, <1>4

\* An object is more than two braces' worth of text.
LEMMA ObjectText == \A o \in JsonObjects : o \in Seq(Chars) /\ Len(o) \in Nat /\ Len(o) >= 2
<1> SUFFICES ASSUME NEW o \in JsonObjects PROVE o \in Seq(Chars) /\ Len(o) \in Nat /\ Len(o) >= 2
  OBVIOUS
<1>1. PICK b \in JsonBodies : o = <<"lbrace">> \o b \o <<"rbrace">>
  BY DEF JsonObjects
<1>2. "lbrace" \in Chars /\ "rbrace" \in Chars
  BY DEF Chars
<1>3. /\ <<"lbrace">> \in Seq(Chars) /\ <<"rbrace">> \in Seq(Chars)
      /\ Len(<<"lbrace">>) = 1 /\ Len(<<"rbrace">>) = 1
  BY <1>2, OneChar
<1>4. b \in Seq(Chars) /\ Len(b) \in Nat
  BY LenProperties DEF JsonBodies
<1> DEFINE u == <<"lbrace">> \o b
<1>5. u \in Seq(Chars) /\ Len(u) = 1 + Len(b)
  BY <1>3, <1>4, ConcatProperties
<1> HIDE DEF u
<1>6. o = u \o <<"rbrace">>
  BY <1>1 DEF u
<1>7. o \in Seq(Chars) /\ Len(o) = Len(u) + 1
  BY <1>3, <1>5, <1>6, ConcatProperties
<1> QED BY <1>4, <1>5, <1>7

\* Where the k-th object ends with its comma.
Ends(os, k) == Len(Elements(os)[k])

LEMMA ElementsText ==
  ASSUME NEW os \in Seq(JsonObjects)
  PROVE  /\ Len(os) \in Nat /\ Elements(os)[0] = <<>> /\ Ends(os, 0) = 0
         /\ \A k \in 0..Len(os) : Elements(os)[k] \in Seq(Chars) /\ Ends(os, k) \in Nat
         /\ \A k \in Nat : k + 1 <= Len(os) =>
              /\ os[k + 1] \in JsonObjects
              /\ Elements(os)[k + 1] = Elements(os)[k] \o os[k + 1] \o <<"x">>
              /\ Ends(os, k + 1) = Ends(os, k) + Len(os[k + 1]) + 1
<1>1. Len(os) \in Nat /\ \A k \in 1..Len(os) : os[k] \in JsonObjects
  BY LenProperties, ElementOfSeq
<1>2. "x" \in Chars
  BY DEF Chars
<1>3. <<"x">> \in Seq(Chars) /\ Len(<<"x">>) = 1
  BY <1>2, OneChar
<1> DEFINE N == {k \in Nat : k <= Len(os) => Elements(os)[k] \in Seq(Chars)}
<1>4. 0 \in N /\ Ends(os, 0) = 0
  BY <1>1, ElementsSteps, EmptySeq DEF Ends
<1>5. ASSUME NEW k \in Nat, k + 1 <= Len(os), Elements(os)[k] \in Seq(Chars)
      PROVE  /\ os[k + 1] \in JsonObjects
             /\ Elements(os)[k + 1] = Elements(os)[k] \o os[k + 1] \o <<"x">>
             /\ Elements(os)[k + 1] \in Seq(Chars)
             /\ Ends(os, k + 1) = Ends(os, k) + Len(os[k + 1]) + 1
  <2> DEFINE e == Elements(os)[k]
             o == os[k + 1]
             u == e \o o
  <2>1. o \in JsonObjects /\ o \in Seq(Chars)
    BY <1>1, <1>5, ObjectText
  <2>2. Elements(os)[k + 1] = u \o <<"x">>
    BY <1>1, <1>5, ElementsSteps
  <2>3. e \in Seq(Chars)
    BY <1>5
  <2> HIDE DEF e, o
  <2>4. u \in Seq(Chars) /\ Len(u) = Len(e) + Len(o)
    BY <2>1, <2>3, ConcatProperties
  <2> HIDE DEF u
  <2>5. u \o <<"x">> \in Seq(Chars) /\ Len(u \o <<"x">>) = Len(u) + 1
    BY <1>3, <2>4, ConcatProperties
  <2> QED BY <2>1, <2>2, <2>4, <2>5 DEF Ends, e, o, u
<1>6. ASSUME NEW k \in N \cap Nat PROVE k + 1 \in N
  <2> SUFFICES ASSUME k + 1 <= Len(os) PROVE Elements(os)[k + 1] \in Seq(Chars)
    OBVIOUS
  <2>1. k \in Nat /\ Elements(os)[k] \in Seq(Chars)
    BY <1>1
  <2> QED BY <1>5, <2>1
<1>7. Nat \subseteq N
  <2> HIDE DEF N
  <2> QED BY <1>4, <1>6, SetInduction
<1>8. \A k \in 0..Len(os) : Elements(os)[k] \in Seq(Chars) /\ Ends(os, k) \in Nat
  BY <1>1, <1>7, LenProperties DEF Ends
<1>9. Elements(os)[0] = <<>>
  BY <1>1, ElementsSteps
<1>10. ASSUME NEW k \in Nat, k + 1 <= Len(os) PROVE Elements(os)[k] \in Seq(Chars)
  BY <1>1, <1>8, <1>10
<1> HIDE DEF N
<1> QED BY <1>1, <1>4, <1>5, <1>8, <1>9, <1>10

\* Objects stand one behind the other.
LEMMA EndsGrow ==
  ASSUME NEW os \in Seq(JsonObjects)
  PROVE  \A j, k \in 0..Len(os) : j < k => Ends(os, k) >= Ends(os, j) + 3
<1>1. Len(os) \in Nat
  BY ElementsText
<1> SUFFICES ASSUME NEW j \in 0..Len(os)
             PROVE  \A k \in 0..Len(os) : j < k => Ends(os, k) >= Ends(os, j) + 3
  OBVIOUS
<1> DEFINE N == {k \in Nat : k <= Len(os) /\ j < k => Ends(os, k) >= Ends(os, j) + 3}
<1>2. 0 \in N
  BY <1>1
<1>3. ASSUME NEW k \in N \cap Nat PROVE k + 1 \in N
  <2> SUFFICES ASSUME k + 1 <= Len(os), j < k + 1 PROVE Ends(os, k + 1) >= Ends(os, j) + 3
    OBVIOUS
  <2>0. k \in 0..Len(os) /\ k + 1 \in 0..Len(os)
    BY <1>1
  <2>1. Ends(os, k) \in Nat /\ Ends(os, j) \in Nat /\ Ends(os, k + 1) \in Nat
    BY <2>0, ElementsText
  <2>2. Ends(os, k + 1) = Ends(os, k) + Len(os[k + 1]) + 1 /\ os[k + 1] \in JsonObjects
    BY ElementsText
  <2>3. Len(os[k + 1]) \in Nat /\ Len(os[k + 1]) >= 2
    BY <2>2, ObjectText
  <2>4. Ends(os, k + 1) >= Ends(os, k) + 3
    BY <2>1, <2>2, <2>3
  <2>5. CASE j = k
    BY <2>4, <2>5
  <2>6. CASE j < k
    BY <1>1, <2>1, <2>4, <2>6
  <2> QED BY <1>1, <2>5, <2>6
<1>4. Nat \subseteq N
  <2> HIDE DEF N
  <2> QED BY <1>2, <1>3, SetInduction
<1> QED BY <1>1, <1>4

-----------------------------------------------------------------------------
\* Where everything stands in the answer.
Layout(os) ==
  LET t == Written(os)
      N == Ends(os, Len(os))
  IN  /\ t \in Seq(Chars) /\ N \in Nat /\ Len(t) = N + 5 /\ t[N + 1] = "rbracket"
      /\ \A k \in Nat : k + 1 <= Len(os) =>
           /\ StandsIn(os[k + 1], t, Ends(os, k))
           /\ StandsIn(<<"x">>, t, Ends(os, k) + Len(os[k + 1]))

LEMMA WrittenLayout == \A os \in Seq(JsonObjects) : Layout(os)
<1> SUFFICES ASSUME NEW os \in Seq(JsonObjects) PROVE Layout(os)
  OBVIOUS
<1> DEFINE K == Len(os)
           e == Elements(os)[K]
           N == Ends(os, K)
           tail == <<"rbracket", "x", "lbrace", "x", "rbrace">>
           t == Written(os)
<1>1. K \in Nat /\ e \in Seq(Chars) /\ N \in Nat /\ N = Len(e)
  <2>1. K \in Nat /\ \A k \in 0..K : Elements(os)[k] \in Seq(Chars) /\ Ends(os, k) \in Nat
    BY ElementsText
  <2>2. K \in 0..K
    BY <2>1
  <2> QED BY <2>1, <2>2 DEF Ends
<1>2. tail \in Seq(Chars) /\ Len(tail) = 5 /\ tail[1] = "rbracket"
  BY DEF Chars
<1>3. t = e \o tail
  BY DEF Written
<1> HIDE DEF e, tail, t
<1>4. t \in Seq(Chars) /\ Len(t) = N + 5
  <2>1. e \o tail \in Seq(Chars) /\ Len(e \o tail) = Len(e) + Len(tail)
    BY <1>1, <1>2, ConcatProperties
  <2> HIDE DEF N
  <2> QED BY <1>1, <1>2, <1>3, <2>1
<1>5. StandsIn(e, t, 0) /\ StandsIn(tail, t, 0 + Len(e))
  BY <1>1, <1>2, <1>3, <1>4, StandsWhole, StandsParts
<1>6. t[N + 1] = "rbracket"
  BY <1>1, <1>2, <1>5 DEF StandsIn
<1> HIDE DEF N
<1> DEFINE Here(k) == StandsIn(Elements(os)[k], t, 0)
<1>7. ASSUME NEW k \in Nat, k + 1 <= K, Here(k + 1)
      PROVE  /\ Here(k) /\ StandsIn(os[k + 1], t, Ends(os, k))
             /\ StandsIn(<<"x">>, t, Ends(os, k) + Len(os[k + 1]))
  <2> DEFINE d == Elements(os)[k]
             o == os[k + 1]
             u == d \o o
  <2>1. k \in 0..K /\ "x" \in Chars
    BY <1>1, <1>7 DEF Chars
  <2>2. o \in Seq(Chars) /\ d \in Seq(Chars) /\ Ends(os, k) = Len(d) /\ Len(d) \in Nat
    BY <1>1, <1>7, <2>1, ElementsText, ObjectText DEF Ends
  <2>3. Elements(os)[k + 1] = u \o <<"x">>
    BY <1>7, ElementsText
  <2>4. <<"x">> \in Seq(Chars)
    BY <2>1, OneChar
  <2> HIDE DEF d, o
  <2>5. u \in Seq(Chars)
    BY <2>2, ConcatProperties
  <2> HIDE DEF u
  <2>6. StandsIn(u \o <<"x">>, t, 0)
    BY <1>7, <2>3
  <2>7. StandsIn(u, t, 0) /\ StandsIn(<<"x">>, t, 0 + Len(u))
    BY <1>4, <2>4, <2>5, <2>6, StandsParts
  <2>8. StandsIn(d, t, 0) /\ StandsIn(o, t, 0 + Len(d)) /\ Len(u) = Len(d) + Len(o)
    BY <1>4, <2>2, <2>7, StandsParts DEF u
  <2>9. 0 + Len(d) = Ends(os, k) /\ 0 + Len(u) = Ends(os, k) + Len(o)
    BY <2>2, <2>8, LenProperties
  <2> QED BY <2>7, <2>8, <2>9 DEF d, o
<1>8. \A k \in 0..K : Here(k)
  <2> DEFINE M == {m \in Nat : m <= K => Here(K - m)}
  <2>1. 0 \in M
    <3>1. K - 0 = K
      BY <1>1
    <3> QED BY <1>5, <3>1 DEF e
  <2>2. ASSUME NEW m \in M \cap Nat PROVE m + 1 \in M
    <3> SUFFICES ASSUME m + 1 <= K PROVE Here(K - (m + 1))
      OBVIOUS
    <3> DEFINE k == K - (m + 1)
    <3>1. k \in Nat /\ k + 1 <= K /\ k + 1 = K - m /\ m <= K
      BY <1>1
    <3>2. Here(k + 1)
      BY <3>1
    <3> HIDE DEF k, Here
    <3>3. Here(k)
      BY <1>7, <3>1, <3>2
    <3> QED BY <3>3 DEF k
  <2>3. Nat \subseteq M
    <3> HIDE DEF M
    <3> QED BY <2>1, <2>2, SetInduction
  <2> HIDE DEF Here
  <2>4. ASSUME NEW k \in 0..K PROVE Here(k)
    <3>1. K - k \in Nat /\ K - k <= K /\ K - (K - k) = k
      BY <1>1
    <3> QED BY <2>3, <3>1
  <2> QED BY <2>4
<1>9. ASSUME NEW k \in Nat, k + 1 <= K
      PROVE  /\ StandsIn(os[k + 1], t, Ends(os, k))
             /\ StandsIn(<<"x">>, t, Ends(os, k) + Len(os[k + 1]))
  <2>1. k + 1 \in 0..K
    BY <1>1, <1>9
  <2> HIDE DEF Here
  <2> QED BY <1>7, <1>8, <1>9, <2>1
<1> QED BY <1>1, <1>4, <1>6, <1>9 DEF Layout, N, t

\* The objects that are complete at n.
Done(os, n) == {k \in DOMAIN os : Ranges(os)[k][2] <= n}

LEMMA RangesAre ==
  ASSUME NEW os \in Seq(JsonObjects)
  PROVE  /\ Len(Ranges(os)) = Len(os) /\ DOMAIN os = 1..Len(os)
         /\ \A k \in Nat : k + 1 <= Len(os) =>
              Ranges(os)[k + 1] = <<Ends(os, k) + 1, Ends(os, k + 1) - 1>>
<1>1. Len(os) \in Nat /\ DOMAIN os = 1..Len(os)
  BY LenProperties
<1>2. Ranges(os) = [k \in 1..Len(os) |-> <<Ends(os, k - 1) + 1, Ends(os, k) - 1>>]
  BY <1>1 DEF Ranges, Ends
<1>3. Len(Ranges(os)) = Len(os)
  BY <1>1, <1>2
<1>4. ASSUME NEW k \in Nat, k + 1 <= Len(os)
      PROVE  Ranges(os)[k + 1] = <<Ends(os, k) + 1, Ends(os, k + 1) - 1>>
  <2>1. k + 1 \in 1..Len(os) /\ (k + 1) - 1 = k
    BY <1>1, <1>4
  <2> QED BY <1>2, <2>1
<1> QED BY <1>1, <1>3, <1>4

LEMMA DoneIs ==
  ASSUME NEW os \in Seq(JsonObjects), NEW k \in 0..Len(os), NEW n \in Nat, Ends(os, k) <= n + 1,
         k < Len(os) => n < Ends(os, k + 1) - 1
  PROVE  Done(os, n) = 1..k
<1>1. Len(os) \in Nat /\ k \in Nat /\ k <= Len(os) /\ Ends(os, k) \in Nat
  <2>1. Len(os) \in Nat /\ Ends(os, k) \in Nat
    BY ElementsText
  <2> QED BY <2>1
<1>2. ASSUME NEW j \in 1..Len(os)
      PROVE  Ranges(os)[j][2] <= n <=> j <= k
  <2>1. j - 1 \in Nat /\ (j - 1) + 1 = j /\ j \in 0..Len(os) /\ j \in Nat
    BY <1>1
  <2>2. PICK i \in Nat : i + 1 = j /\ i + 1 <= Len(os)
    BY <1>1, <2>1
  <2>20. Ranges(os)[i + 1] = <<Ends(os, i) + 1, Ends(os, i + 1) - 1>>
    BY <2>2, RangesAre
  <2>21. Ranges(os)[j][2] = Ends(os, j) - 1
    BY <2>2, <2>20
  <2>22. Ends(os, j) \in Nat
    BY <2>1, ElementsText
  <2>3. Ranges(os)[j][2] = Ends(os, j) - 1 /\ Ends(os, j) \in Nat
    BY <2>21, <2>22
  <2>4. CASE j = k
    BY <1>1, <2>3, <2>4
  <2>5. CASE j < k
    <3>1. Ends(os, k) >= Ends(os, j) + 3
      BY <2>1, <2>5, EndsGrow
    <3> QED BY <1>1, <2>3, <2>5, <3>1
  <2>6. CASE k < j
    <3>1. k + 1 \in 0..Len(os) /\ k < Len(os)
      BY <1>1, <2>6
    <3>2. Ends(os, k + 1) \in Nat /\ n < Ends(os, k + 1) - 1
      BY <3>1, ElementsText
    <3>3. Ends(os, k + 1) <= Ends(os, j)
      <4>1. CASE j = k + 1
        BY <3>2, <4>1
      <4>2. CASE k + 1 < j
        <5>1. Ends(os, j) >= Ends(os, k + 1) + 3
          BY <2>1, <3>1, <4>2, EndsGrow
        <5> QED BY <2>3, <3>2, <5>1
      <4> QED BY <1>1, <2>1, <2>6, <4>1, <4>2
    <3> QED BY <1>1, <2>1, <2>3, <2>6, <3>2, <3>3
  <2> QED BY <1>1, <2>1, <2>4, <2>5, <2>6
<1>3. DOMAIN os = 1..Len(os)
  BY RangesAre
<1>4. \A j \in 1..k : j \in 1..Len(os) /\ j <= k
  BY <1>1
<1>5. \A j \in 1..Len(os) : j <= k => j \in 1..k
  BY <1>1
<1> QED BY <1>2, <1>3, <1>4, <1>5 DEF Done

\* What is found by the k-th comma, and up to there.
FoundBy(os, k) ==
  LET r == Between(<<>>)
      t == Written(os)
  IN  /\ Scan(r, t)[Ends(os, k)] = Between(At(Ranges(os), 1..k))
      /\ \A n \in 0..Ends(os, k) : Scan(r, t)[n].found = At(Ranges(os), Done(os, n))

LEMMA FoundByAll == \A os \in Seq(JsonObjects) : \A k \in 0..Len(os) : FoundBy(os, k)
<1> SUFFICES ASSUME NEW os \in Seq(JsonObjects) PROVE \A k \in 0..Len(os) : FoundBy(os, k)
  OBVIOUS
<1> DEFINE K == Len(os)
           R == Ranges(os)
           t == Written(os)
           r == Between(<<>>)
           N == {k \in Nat : k <= K => FoundBy(os, k)}
<1>1. K \in Nat /\ Len(R) = K
  BY ElementsText, RangesAre
<1>2. t \in Seq(Chars) /\ Len(t) \in Nat
  BY WrittenLayout, LenProperties DEF Layout
<1>3. 0 \in N
  <2>10. Scan(r, t)[0] = r
    <3> HIDE DEF r, t
    <3> QED BY <1>2, ScanSteps
  <2>11. Ends(os, 0) = 0
    BY ElementsText
  <2>1. Scan(r, t)[0] = r /\ 1..0 = {} /\ Ends(os, 0) = 0
    BY <2>10, <2>11
  <2>2. At(R, {}) = <<>>
    BY <1>1, AtNone
  <2>3. r.found = <<>>
    BY DEF Between
  <2>4. Done(os, 0) = 1..0
    <3>1. 0 \in 0..K /\ 0 <= 0 + 1
      BY <1>1
    <3>2. ASSUME 0 < K PROVE 0 < Ends(os, 0 + 1) - 1
      <4>1. 0 \in 0..K /\ 1 \in 0..K
        BY <1>1, <3>2
      <4>2. Ends(os, 1) >= Ends(os, 0) + 3
        BY <4>1, EndsGrow
      <4>3. Ends(os, 1) \in Nat
        BY <4>1, ElementsText
      <4> QED BY <2>1, <4>2, <4>3
    <3> QED BY <2>1, <3>1, <3>2, DoneIs
  <2>5. \A n \in 0..0 : n = 0
    OBVIOUS
  <2>6. FoundBy(os, 0)
    BY <2>1, <2>2, <2>3, <2>4, <2>5 DEF FoundBy
  <2> QED BY <2>6
<1>4. ASSUME NEW k \in Nat, k + 1 <= K, FoundBy(os, k) PROVE FoundBy(os, k + 1)
  <2> DEFINE p == Ends(os, k)
             o == os[k + 1]
             q == p + Len(o)
             f == At(R, 1..k)
             g == Append(f, <<p + 1, q>>)
  <2>1. k \in 0..K /\ k + 1 \in 0..K
    BY <1>1, <1>4
  <2>2. /\ o \in JsonObjects /\ p \in Nat /\ Len(o) \in Nat /\ Len(o) >= 2
        /\ Ends(os, k + 1) = q + 1 /\ q \in Nat /\ p < q
    <3>1. /\ o \in JsonObjects /\ p \in Nat
          /\ Ends(os, k + 1) = Ends(os, k) + Len(os[k + 1]) + 1
      BY <1>4, <2>1, ElementsText
    <3>2. Len(o) \in Nat /\ Len(o) >= 2
      BY <3>1, ObjectText
    <3> HIDE DEF o
    <3> QED BY <3>1, <3>2 DEF o
  <2>3. StandsIn(o, t, p) /\ StandsIn(<<"x">>, t, q)
    BY <1>4, WrittenLayout DEF Layout
  <2>4. /\ Scan(r, t)[p] = Between(f)
        /\ \A n \in 0..p : Scan(r, t)[n].found = At(R, Done(os, n))
    BY <1>4 DEF FoundBy
  <2> HIDE DEF o, f, g, t, r
  <2>5. /\ Scan(r, t)[q + 1] = Between(g)
        /\ \A n \in p..(q - 1) : Scan(r, t)[n].found = f
        /\ \A n \in q..(q + 1) : Scan(r, t)[n].found = g
    <3>1. q = p + Len(o) /\ g = Append(f, <<p + 1, q>>)
      BY DEF g
    <3> HIDE DEF p, q
    <3>2. /\ o \in JsonObjects /\ t \in Seq(Chars) /\ p \in Nat /\ q \in Nat
          /\ StandsIn(o, t, p) /\ StandsIn(<<"x">>, t, q) /\ Scan(r, t)[p] = Between(f)
      BY <1>2, <2>2, <2>3, <2>4
    <3>3. FindsAt(r, t, p, q, f, g)
      BY <3>1, <3>2, ObjectFound
    <3> QED BY <3>3 DEF FindsAt
  <2>6. g = At(R, 1..(k + 1))
    <3>1. R[k + 1] = <<p + 1, q>>
      <4>1. R[k + 1] = <<Ends(os, k) + 1, Ends(os, k + 1) - 1>>
        BY <1>4, RangesAre
      <4>2. Ends(os, k + 1) - 1 = q
        BY <2>2
      <4> QED BY <4>1, <4>2
    <3>2. 1..(k + 1) = (1..k) \cup {k + 1}
      BY <1>4
    <3> HIDE DEF R, p, q
    <3>3. At(R, (1..k) \cup {k + 1}) = Append(At(R, 1..k), R[k + 1])
      BY <1>1, <1>4, AtMore
    <3> QED BY <3>1, <3>2, <3>3 DEF g, f
  <2>7. ASSUME NEW n \in 0..(q + 1) PROVE Scan(r, t)[n].found = At(R, Done(os, n))
    <3>1. n \in Nat
      BY <2>2
    <3>2. CASE n <= p
      <4>1. n \in 0..p
        BY <2>2, <3>2
      <4> QED BY <2>4, <4>1
    <3>3. CASE p <= n /\ n < q
      <4>1. Done(os, n) = 1..k
        <5>1. Ends(os, k) <= n + 1 /\ n < Ends(os, k + 1) - 1
          BY <2>2, <3>1, <3>3
        <5> QED BY <2>1, <3>1, <5>1, DoneIs
      <4>2. n \in p..(q - 1)
        BY <2>2, <3>1, <3>3
      <4> QED BY <2>5, <4>1, <4>2 DEF f
    <3>4. CASE q <= n
      <4>1. n \in q..(q + 1)
        BY <2>2, <3>1, <3>4
      <4>2. Done(os, n) = 1..(k + 1)
        <5>1. Ends(os, k + 1) <= n + 1
          BY <2>2, <3>1, <3>4
        <5>2. ASSUME k + 1 < K PROVE n < Ends(os, (k + 1) + 1) - 1
          <6>1. (k + 1) + 1 \in 0..K /\ k + 1 < (k + 1) + 1
            BY <1>1, <5>2
          <6>2. Ends(os, (k + 1) + 1) >= Ends(os, k + 1) + 3 /\ Ends(os, (k + 1) + 1) \in Nat
            BY <2>1, <6>1, EndsGrow, ElementsText
          <6>3. n <= q + 1
            BY <2>2
          <6>4. q + 1 = Ends(os, k + 1) /\ q \in Nat
            BY <2>2
          <6> QED BY <3>1, <6>2, <6>3, <6>4
        <5> QED BY <2>1, <3>1, <5>1, <5>2, DoneIs
      <4> QED BY <2>5, <2>6, <4>1, <4>2
    <3> QED BY <2>2, <3>1, <3>2, <3>3, <3>4
  <2> QED BY <2>2, <2>5, <2>6, <2>7 DEF FoundBy, r, t
<1>5. ASSUME NEW k \in N \cap Nat PROVE k + 1 \in N
  <2> SUFFICES ASSUME k + 1 <= K PROVE FoundBy(os, k + 1)
    OBVIOUS
  <2>1. k \in Nat /\ FoundBy(os, k)
    BY <1>1
  <2> QED BY <1>4, <2>1
<1>6. Nat \subseteq N
  <2> HIDE DEF N
  <2> QED BY <1>3, <1>5, SetInduction
<1> QED BY <1>1, <1>6

\* Wherever an answer of any length is cut, the scan finds the objects that are
\* complete there and no others, whatever their strings hold (scan_findings).
THEOREM CutSalvaged ==
  ASSUME NEW os \in Seq(JsonObjects), NEW n \in 0..Len(Written(os))
  PROVE  scan_findings(SubSeq(Written(os), 1, n)) = Complete(os, n)
<1> DEFINE t == Written(os)
           r == Between(<<>>)
           K == Len(os)
           N == Ends(os, K)
           f == At(Ranges(os), 1..K)
           x == [Between(f) EXCEPT !.at = "end"]
<1>1. t \in Seq(Chars) /\ N \in Nat /\ Len(t) = N + 5 /\ t[N + 1] = "rbracket"
  BY WrittenLayout DEF Layout
<1>2. K \in Nat /\ K \in 0..K
  <2>1. K \in Nat
    BY ElementsText
  <2> QED BY <2>1
<1>3. FoundBy(os, K)
  BY <1>2, FoundByAll
<1>4. Scan(r, t)[N] = Between(f) /\ \A m \in 0..N : Scan(r, t)[m].found = At(Ranges(os), Done(os, m))
  BY <1>3 DEF FoundBy
<1>5. \A m \in 1..Len(t) : t[m] \in Chars
  BY <1>1, ElementOfSeq
<1>6. x.found = f
  BY DEF Between
<1>7. \A c \in Chars, i \in Nat : Step(x, c, i) = x
  BY StepBetween
<1> HIDE DEF N, t, r, f, x
<1>8. Scan(r, t)[N + 1] = x
  <2>1. Len(t) \in Nat /\ N + 1 \in 1..Len(t) /\ (N + 1) - 1 = N
    BY <1>1
  <2>2. Scan(r, t)[N] = Between(f) /\ t[N + 1] = "rbracket"
    BY <1>1, <1>4
  <2>3. Scan(r, t)[N + 1] = Step(Between(f), "rbracket", N + 1)
    <3> DEFINE i == N + 1
    <3>1. i \in 1..Len(t) /\ i - 1 = N /\ t[i] = "rbracket"
      BY <2>1, <2>2
    <3> HIDE DEF i
    <3>2. Scan(r, t)[i] = Step(Scan(r, t)[i - 1], t[i], i)
      BY <2>1, <3>1, ScanSteps
    <3>3. Scan(r, t)[i] = Step(Between(f), "rbracket", i)
      BY <2>2, <3>1, <3>2
    <3> QED BY <3>3 DEF i
  <2> QED BY <2>3, StepBetween DEF x
<1> DEFINE M == {m \in Nat : N + 1 + m <= Len(t) => Scan(r, t)[N + 1 + m] = x}
<1>9. Nat \subseteq M
  <2>1. 0 \in M
    <3>1. N + 1 + 0 = N + 1
      BY <1>1
    <3> QED BY <1>8, <3>1
  <2>2. ASSUME NEW m \in M \cap Nat PROVE m + 1 \in M
    <3> SUFFICES ASSUME N + 1 + (m + 1) <= Len(t) PROVE Scan(r, t)[N + 1 + (m + 1)] = x
      OBVIOUS
    <3> DEFINE i == N + 1 + m
    <3>1. i \in Nat /\ i <= Len(t) /\ i + 1 <= Len(t) /\ N + 1 + (m + 1) = i + 1
          /\ i + 1 \in Nat /\ i + 1 \in 1..Len(t)
      BY <1>1
    <3>2. Scan(r, t)[i] = x
      BY <3>1
    <3> HIDE DEF i
    <3>3. Len(t) \in Nat
      BY <1>1
    <3>4. Scan(r, t)[i + 1] = Step(Scan(r, t)[i], t[i + 1], i + 1)
      BY <3>1, <3>3, ScanSteps
    <3>5. t[i + 1] \in Chars
      BY <1>5, <3>1
    <3> QED BY <1>7, <3>1, <3>2, <3>4, <3>5
  <2> HIDE DEF M
  <2> QED BY <2>1, <2>2, SetInduction
<1>10. n \in Nat /\ n <= Len(t) /\ Len(t) \in Nat
  BY <1>1 DEF t
<1>11. Scan(r, t)[n].found = At(Ranges(os), Done(os, n))
  <2>1. CASE n <= N
    BY <1>1, <1>4, <1>10, <2>1
  <2>2. CASE n > N
    <3>1. PICK m \in Nat : n = N + 1 + m
      BY <1>1, <1>10, <2>2
    <3>2. Scan(r, t)[n] = x
      BY <1>9, <1>10, <3>1
    <3>3. Done(os, n) = 1..K
      <4>1. Ends(os, K) <= n + 1
        BY <1>1, <1>10, <2>2 DEF N
      <4> QED BY <1>2, <1>10, <4>1, DoneIs
    <3> QED BY <1>6, <3>2, <3>3 DEF f
  <2> QED BY <1>1, <1>10, <2>1, <2>2
<1> DEFINE u == SubSeq(t, 1, n)
<1>12. Len(u) = n /\ n \in 0..n /\ \A m \in 0..n : Scan(r, u)[m] = Scan(r, t)[m]
  <2>1. n \in 0..Len(t)
    BY <1>10
  <2> QED BY <1>1, <1>10, <2>1, ScanOfCut
<1>13. scan_findings(u) = Scan(r, u)[Len(u)].found
  BY DEF scan_findings, r
<1> HIDE DEF u
<1>14. scan_findings(u) = At(Ranges(os), Done(os, n))
  BY <1>11, <1>12, <1>13
<1> QED BY <1>14 DEF u, t, Complete, Done

-----------------------------------------------------------------------------
\* The rules hold of what they define: JSON strings and objects are not few.
LEMMA RulesOfStrings == StringRules(JsonStrings)
<1>0. "backslash" \in Chars
  BY DEF Chars
<1>1. <<>> \in JsonStrings
  <2>1. <<>> \in Seq(Chars)
    OBVIOUS
  <2> QED BY <2>1 DEF JsonStrings, StringRules
<1>2. ASSUME NEW s \in JsonStrings, NEW c \in Chars \ {"quote", "backslash"}
      PROVE  s \o <<c>> \in JsonStrings
  <2>1. s \in Seq(Chars) /\ <<c>> \in Seq(Chars)
    BY OneChar DEF JsonStrings
  <2>2. s \o <<c>> \in Seq(Chars)
    BY <2>1, ConcatProperties
  <2>3. ASSUME NEW S \in SUBSET Seq(Chars), StringRules(S) PROVE s \o <<c>> \in S
    <3>1. s \in S
      BY <2>3 DEF JsonStrings
    <3> QED BY <2>3, <3>1 DEF StringRules
  <2> QED BY <2>2, <2>3 DEF JsonStrings
<1>3. ASSUME NEW s \in JsonStrings, NEW c \in Chars
      PROVE  s \o <<"backslash">> \o <<c>> \in JsonStrings
  <2> DEFINE u == s \o <<"backslash">>
  <2>1. s \in Seq(Chars) /\ <<c>> \in Seq(Chars) /\ <<"backslash">> \in Seq(Chars)
    BY <1>0, OneChar DEF JsonStrings
  <2>2. u \in Seq(Chars)
    BY <2>1, ConcatProperties
  <2>3. u \o <<c>> \in Seq(Chars)
    <3> HIDE DEF u
    <3> QED BY <2>1, <2>2, ConcatProperties
  <2>4. ASSUME NEW S \in SUBSET Seq(Chars), StringRules(S) PROVE u \o <<c>> \in S
    <3>1. s \in S
      BY <2>4 DEF JsonStrings
    <3> QED BY <2>4, <3>1 DEF StringRules
  <2> QED BY <2>3, <2>4 DEF JsonStrings
<1> QED BY <1>1, <1>2, <1>3 DEF StringRules

\* With every string of JSON, the object that holds just this string is one of
\* those the theorem speaks of.
LEMMA QuotedIsObject ==
  ASSUME NEW s \in JsonStrings
  PROVE  <<"lbrace">> \o (<<>> \o <<"quote">> \o s \o <<"quote">>) \o <<"rbrace">> \in JsonObjects
<1> DEFINE b == <<>> \o <<"quote">> \o s \o <<"quote">>
<1>1. <<>> \in Seq(Chars) /\ s \in Seq(Chars) /\ "quote" \in Chars
  BY DEF JsonStrings, Chars
<1>2. b \in Seq(Chars)
  BY <1>1, StandsFour
<1>3. ASSUME NEW B \in SUBSET Seq(Chars), BodyRules(B) PROVE b \in B
  BY <1>3 DEF BodyRules
<1>4. b \in JsonBodies
  BY <1>2, <1>3 DEF JsonBodies
<1> QED BY <1>4 DEF JsonObjects

\* What the run checks of a few objects and strings holds of all of them, in
\* answers of any number of findings.
THEOREM SalvageAlwaysExact ==
  ASSUME Objects \subseteq JsonObjects, Strings \subseteq JsonStrings, MaxObjects \in Nat
  PROVE  SalvageExact
<1>1. ASSUME NEW os \in UNION {[1..k -> Objects] : k \in 0..MaxObjects},
             NEW n \in 0..Len(Written(os))
      PROVE  scan_findings(SubSeq(Written(os), 1, n)) = Complete(os, n)
  <2>1. PICK k \in 0..MaxObjects : os \in [1..k -> Objects]
    OBVIOUS
  <2>2. os \in Seq(JsonObjects)
    <3>1. k \in Nat /\ os = [i \in 1..k |-> os[i]] /\ \A i \in 1..k : os[i] \in JsonObjects
      BY <2>1
    <3> QED BY <3>1, IsASeq
  <2> QED BY <2>2, CutSalvaged
<1>2. ASSUME NEW s \in Strings, NEW n \in 0..Len(s)
      PROVE  ~json_string_field(SubSeq(s, 1, n)) /\ json_string_field(s \o <<"quote">>)
  <2>1. s \in JsonStrings
    OBVIOUS
  <2> QED BY <2>1, CanaryReadWhole
<1> QED BY <1>1, <1>2 DEF SalvageExact

=============================================================================
