--------------------------- MODULE NLSearchProofs ---------------------------
(***************************************************************************)
(* Proofs about NLSearch, for every set of texts, every alias and name and *)
(* every width of an int: the state keeps its type, the bounds of a filter *)
(* neither leave an age out nor let one in, a list is of a country its     *)
(* text names, and the links of a page lead on through the same list.      *)
(*                                                                         *)
(* The bounds of a text do not depend on the order of the maps.  Its age   *)
(* group and country are what the first word found means, in an order that *)
(* SortByLenDesc has put in order of length: so they are what one of the   *)
(* longest words found means, whatever order the map gave.                 *)
(***************************************************************************)
EXTENDS NLSearch, FiniteSetTheorems, SequenceTheorems, TLAPS

-----------------------------------------------------------------------------
(* A set of numbers that is not empty has a least one.                     *)
LEMMA LeastElement == ASSUME NEW T, T \subseteq Nat, T # {}
                      PROVE  \E x \in T : \A y \in T : x <= y
<1> DEFINE F == {1..x : x \in T}
<1>1. F \subseteq FiniteSubsetsOf(Nat) /\ F # {}
  <2>1. \A x \in T : 1..x \in SUBSET Nat /\ IsFiniteSet(1..x)
    BY FS_Interval
  <2> QED
    BY <2>1 DEF FiniteSubsetsOf
<1>2. PICK s \in F : \A t \in F : ~ (<<t, s>> \in StrictSubsetOrdering(Nat))
  <2> HIDE DEF F
  <2> QED
    BY <1>1, FS_StrictSubsetOrderingWellFounded, WFMin, Zenon
<1>3. PICK x \in T : s = 1..x
  OBVIOUS
<1>4. ASSUME NEW y \in T, y < x PROVE FALSE
  <2>1. 1..y \subseteq 1..x /\ 1..y # 1..x /\ 1..y \in SUBSET Nat /\ 1..x \in SUBSET Nat
    <3>1. x \in 1..x /\ x \notin 1..y
      BY <1>4
    <3> QED
      BY <1>4, <3>1
  <2>2. <<1..y, s>> \in StrictSubsetOrdering(Nat)
    BY <1>3, <2>1 DEF StrictSubsetOrdering
  <2> QED
    BY <1>2, <2>2
<1> QED
  BY <1>4

(* A set with 0 and the successor of each of its numbers has them all.     *)
LEMMA Reaches ==
    ASSUME NEW T, 0 \in T, \A n \in Nat : n \in T => n + 1 \in T
    PROVE  Nat \subseteq T
<1> SUFFICES ASSUME Nat \ T # {}
             PROVE  FALSE
  OBVIOUS
<1>1. PICK n \in Nat \ T : \A m \in Nat \ T : n <= m
  BY LeastElement
<1>2. n # 0 /\ n - 1 \in Nat /\ (n - 1) + 1 = n /\ ~ (n <= n - 1)
  BY <1>1
<1>3. n - 1 \in T
  BY <1>1, <1>2
<1> QED
  BY <1>1, <1>2, <1>3

(* The sequence s is in order of length. *)
Descends(s) ==
    \A i, j \in 1..Len(s) : i < j => Length[s[i]] >= Length[s[j]]


(* One word moves to its place. *)
LEMMA MovedLeftIs ==
    ASSUME NEW S, \A w \in S : Length[w] \in Nat,
           NEW s \in Seq(S), Descends(s), NEW x \in S
    PROVE  /\ MovedLeft(s, x) \in Seq(S)
           /\ Len(MovedLeft(s, x)) = Len(s) + 1
           /\ \A w : (\E i \in 1..Len(s) + 1 : MovedLeft(s, x)[i] = w)
                         <=> (w = x \/ \E i \in 1..Len(s) : s[i] = w)
           /\ Descends(MovedLeft(s, x))
<1>1. PICK n \in Nat : n = Len(s)
  BY LenProperties, Zenon
<1>2. DOMAIN s = 1..n /\ \A i \in 1..n : s[i] \in S /\ Length[s[i]] \in Nat
  BY <1>1, LenProperties, ElementOfSeq
<1> DEFINE stays == {k \in DOMAIN s : Length[s[k]] >= Length[x]}
           k == CHOOSE p \in stays \cup {0} : \A m \in stays : m <= p
<1>3. \E p \in stays \cup {0} : \A m \in stays : m <= p
  <2> DEFINE T == {n - p : p \in stays \cup {0}}
  <2>1. T \subseteq Nat /\ T # {}
    BY <1>2
  <2>2. PICK y \in T : \A z \in T : y <= z
    <3> HIDE DEF T
    <3> QED
      BY <2>1, LeastElement
  <2>3. PICK p \in stays \cup {0} : y = n - p
    BY <2>2
  <2>4. ASSUME NEW m \in stays PROVE m <= p
    <3>1. n - p <= n - m
      BY <2>2, <2>3
    <3> QED
      BY <1>2, <2>3, <3>1
  <2> QED
    BY <2>4
<1>4. k \in stays \cup {0} /\ \A m \in stays : m <= k
  <2> HIDE DEF stays
  <2> QED
    BY <1>3, Zenon
<1>5. MovedLeft(s, x) = SubSeq(s, 1, k) \o <<x>> \o SubSeq(s, k + 1, n)
  BY <1>1 DEF MovedLeft
<1> HIDE DEF k
<1>6. k \in 0..n /\ k \in Nat
  BY <1>2, <1>4
<1>7. PICK a \in Seq(S) : a = SubSeq(s, 1, k) /\ Len(a) = k /\ \A i \in 1..k : a[i] = s[i]
  <2>1. \A i \in 1..k : s[i] \in S
    BY <1>2, <1>6
  <2>2. /\ SubSeq(s, 1, k) \in Seq(S)
        /\ Len(SubSeq(s, 1, k)) = IF 1 <= k THEN k - 1 + 1 ELSE 0
        /\ \A i \in 1..(k - 1 + 1) : SubSeq(s, 1, k)[i] = s[1 + i - 1]
    BY <1>6, <2>1, SubSeqProperties
  <2> HIDE DEF stays
  <2>3. /\ SubSeq(s, 1, k) \in Seq(S)
        /\ Len(SubSeq(s, 1, k)) = k
        /\ \A i \in 1..k : SubSeq(s, 1, k)[i] = s[i]
    BY <1>6, <2>2
  <2> QED
    BY <2>3, Zenon
<1>8. PICK c \in Seq(S) : c = SubSeq(s, k + 1, n) /\ Len(c) = n - k
                          /\ \A i \in 1..(n - k) : c[i] = s[k + i]
  <2>1. \A i \in k + 1..n : s[i] \in S
    BY <1>2, <1>6
  <2>2. /\ SubSeq(s, k + 1, n) \in Seq(S)
        /\ Len(SubSeq(s, k + 1, n)) = IF k + 1 <= n THEN n - (k + 1) + 1 ELSE 0
        /\ \A i \in 1..(n - (k + 1) + 1) : SubSeq(s, k + 1, n)[i] = s[k + 1 + i - 1]
    BY <1>6, <2>1, SubSeqProperties
  <2> HIDE DEF stays
  <2>3. /\ SubSeq(s, k + 1, n) \in Seq(S)
        /\ Len(SubSeq(s, k + 1, n)) = n - k
        /\ \A i \in 1..(n - k) : SubSeq(s, k + 1, n)[i] = s[k + i]
    BY <1>6, <2>2
  <2> QED
    BY <2>3, Zenon
<1>9. PICK b \in Seq(S) : b = a \o <<x>> /\ Len(b) = k + 1 /\ b[k + 1] = x
                          /\ \A i \in 1..k : b[i] = s[i]
  <2>1. <<x>> \in Seq(S) /\ Len(<<x>>) = 1 /\ <<x>>[1] = x
    OBVIOUS
  <2>2. /\ a \o <<x>> \in Seq(S)
        /\ Len(a \o <<x>>) = k + 1
        /\ \A i \in 1..k + 1 : (a \o <<x>>)[i] = IF i <= k THEN a[i] ELSE <<x>>[i - k]
    BY <1>7, <2>1, ConcatProperties
  <2>3. (a \o <<x>>)[k + 1] = x /\ \A i \in 1..k : (a \o <<x>>)[i] = s[i]
    BY <1>6, <1>7, <2>1, <2>2
  <2> QED
    BY <2>2, <2>3, Zenon
<1>10. PICK d \in Seq(S) : d = MovedLeft(s, x) /\ Len(d) = n + 1 /\ d[k + 1] = x
                           /\ (\A i \in 1..k : d[i] = s[i])
                           /\ (\A i \in k + 1..n : d[i + 1] = s[i])
  <2>1. b \o c = MovedLeft(s, x)
    BY <1>5, <1>7, <1>8, <1>9
  <2>2. /\ b \o c \in Seq(S)
        /\ Len(b \o c) = k + 1 + (n - k)
        /\ \A i \in 1..(k + 1 + (n - k)) : (b \o c)[i] = IF i <= k + 1 THEN b[i] ELSE c[i - (k + 1)]
    <3>1. /\ b \o c \in Seq(S)
          /\ Len(b \o c) = Len(b) + Len(c)
          /\ \A i \in 1..Len(b) + Len(c) : (b \o c)[i] = IF i <= Len(b) THEN b[i] ELSE c[i - Len(b)]
      BY ConcatProperties
    <3>2. Len(b) = k + 1 /\ Len(c) = n - k
      BY <1>8, <1>9
    <3> QED
      BY <3>1, <3>2, Zenon
  <2>3. /\ Len(b \o c) = n + 1
        /\ (b \o c)[k + 1] = x
        /\ \A i \in 1..k : (b \o c)[i] = s[i]
    <3>1. PICK e : e = b \o c
      OBVIOUS
    <3>2. \A i \in 1..(k + 1 + (n - k)) : e[i] = IF i <= k + 1 THEN b[i] ELSE c[i - (k + 1)]
      BY <2>2, <3>1, Zenon
    <3>3. k + 1 + (n - k) = n + 1 /\ k + 1 \in 1..n + 1 /\ \A i \in 1..k : i \in 1..n + 1 /\ i <= k + 1
      BY <1>6
    <3>4. e[k + 1] = b[k + 1] /\ \A i \in 1..k : e[i] = b[i]
      BY <1>6, <3>2, <3>3
    <3>5. Len(b \o c) = n + 1
      BY <2>2, <3>3, Zenon
    <3> QED
      BY <1>9, <3>1, <3>4, <3>5, Zenon
  <2>4. ASSUME NEW i \in k + 1..n
        PROVE  (b \o c)[i + 1] = s[i]
    <3>1. i + 1 \in 1..(k + 1 + (n - k)) /\ ~ (i + 1 <= k + 1) /\ i + 1 - (k + 1) = i - k
          /\ i - k \in 1..(n - k) /\ k + (i - k) = i
      BY <1>6
    <3>2. (b \o c)[i + 1] = c[i - k]
      <4>1. PICK e : e = b \o c
        OBVIOUS
      <4>2. \A j \in 1..(k + 1 + (n - k)) : e[j] = IF j <= k + 1 THEN b[j] ELSE c[j - (k + 1)]
        BY <2>2, <4>1, Zenon
      <4>3. PICK j \in 1..(k + 1 + (n - k)) : j = i + 1 /\ ~ (j <= k + 1) /\ j - (k + 1) = i - k
        BY <1>6
      <4>4. e[j] = c[j - (k + 1)]
        BY <4>2, <4>3
      <4>5. e[j] = c[i - k]
        BY <4>3, <4>4, Zenon
      <4> QED
        BY <4>1, <4>3, <4>5, Zenon
    <3>3. c[i - k] = s[k + (i - k)]
      BY <1>8, <3>1, Zenon
    <3> QED
      BY <3>1, <3>2, <3>3, Zenon
  <2> QED
    BY <2>1, <2>2, <2>3, <2>4, Zenon
<1>11. \A w : (\E i \in 1..n + 1 : d[i] = w) <=> (w = x \/ \E i \in 1..n : s[i] = w)
  <2>1. ASSUME NEW i \in 1..n + 1
        PROVE  d[i] = x \/ \E j \in 1..n : s[j] = d[i]
    <3>1. i = k + 1 \/ i \in 1..k \/ (i - 1 \in k + 1..n /\ i - 1 + 1 = i)
      BY <1>6
    <3>2. \A j \in k + 1..n : j \in 1..n
      BY <1>6
    <3>3. \A j \in 1..k : j \in 1..n
      BY <1>6
    <3> QED
      BY <1>10, <3>1, <3>2, <3>3
  <2>2. ASSUME NEW i \in 1..n
        PROVE  \E j \in 1..n + 1 : d[j] = s[i]
    <3>1. (i \in 1..k /\ i \in 1..n + 1) \/ (i \in k + 1..n /\ i + 1 \in 1..n + 1)
      BY <1>6
    <3> QED
      BY <1>10, <3>1
  <2>3. k + 1 \in 1..n + 1
    BY <1>6
  <2> HIDE DEF stays
  <2>4. d[k + 1] = x
    BY <1>10
  <2> QED
    BY <2>1, <2>2, <2>3, <2>4, Zenon
<1>12. ASSUME NEW i \in 1..n + 1, NEW j \in 1..n + 1, i < j
       PROVE  Length[d[i]] >= Length[d[j]]
  <2>1. \A p, q \in 1..n : p < q => Length[s[p]] >= Length[s[q]]
    BY <1>1 DEF Descends
  <2>2. \A p \in 1..k : Length[s[p]] >= Length[x]
    <3>1. SUFFICES ASSUME NEW p \in 1..k
                   PROVE  Length[s[p]] >= Length[x]
      OBVIOUS
    <3>2. k \in stays /\ k \in 1..n /\ p \in 1..n /\ (p = k \/ p < k)
      BY <1>4, <1>6
    <3>3. Length[s[k]] >= Length[x] /\ Length[s[p]] >= Length[s[k]]
      BY <1>2, <2>1, <3>2
    <3> QED
      BY <1>2, <3>2, <3>3
  <2>3. \A p \in k + 1..n : Length[x] >= Length[s[p]]
    <3>1. SUFFICES ASSUME NEW p \in k + 1..n
                   PROVE  Length[x] >= Length[s[p]]
      OBVIOUS
    <3>2. p \in 1..n /\ ~ (p <= k)
      BY <1>6
    <3>3. p \notin stays
      BY <1>4, <3>2
    <3> QED
      BY <1>2, <3>2, <3>3
  <2>4. CASE j <= k
    <3>1. i \in 1..k /\ j \in 1..k /\ i \in 1..n /\ j \in 1..n
      BY <1>6, <1>12, <2>4
    <3> QED
      BY <1>10, <1>12, <2>1, <3>1
  <2>5. CASE j = k + 1
    <3>1. i \in 1..k
      BY <1>6, <1>12, <2>5
    <3> QED
      BY <1>10, <2>2, <2>5, <3>1
  <2>6. CASE j > k + 1
    <3>1. PICK q \in k + 1..n : j = q + 1
      <4>1. j - 1 \in k + 1..n /\ j = (j - 1) + 1
        BY <1>6, <2>6
      <4> QED
        BY <4>1, Zenon
    <3>2. d[j] = s[q] /\ q \in 1..n /\ k < q
      BY <1>6, <1>10, <3>1
    <3>3. CASE i <= k
      <4>1. i \in 1..k /\ i \in 1..n /\ i < q
        BY <1>6, <3>2, <3>3
      <4> QED
        BY <1>10, <2>1, <3>2, <4>1
    <3>4. CASE i = k + 1
      BY <1>10, <2>3, <3>1, <3>2, <3>4
    <3>5. CASE i > k + 1
      <4>1. PICK p \in k + 1..n : i = p + 1
        <5>1. i - 1 \in k + 1..n /\ i = (i - 1) + 1
          BY <1>6, <3>5
        <5> QED
          BY <5>1, Zenon
      <4>2. d[i] = s[p] /\ p \in 1..n /\ p < q
        BY <1>6, <1>10, <1>12, <3>1, <4>1
      <4> QED
        BY <2>1, <3>2, <4>2
    <3> QED
      BY <1>6, <3>3, <3>4, <3>5
  <2> QED
    BY <1>6, <2>4, <2>5, <2>6
<1>13. Len(MovedLeft(s, x)) = n + 1 /\ MovedLeft(s, x) \in Seq(S)
       /\ \A i, j \in 1..n + 1 : i < j =>
              Length[MovedLeft(s, x)[i]] >= Length[MovedLeft(s, x)[j]]
  BY <1>10, <1>12
<1> QED
  BY <1>1, <1>10, <1>11, <1>13 DEF Descends

(* The sort is in order of length and of the same words. *)
LEMMA SortIs ==
    ASSUME NEW S, \A w \in S : Length[w] \in Nat, NEW xs \in Seq(S)
    PROVE  /\ SortByLenDesc(xs) \in Seq(S)
           /\ Len(SortByLenDesc(xs)) = Len(xs)
           /\ \A w : (\E i \in 1..Len(xs) : SortByLenDesc(xs)[i] = w)
                         <=> (\E i \in 1..Len(xs) : xs[i] = w)
           /\ Descends(SortByLenDesc(xs))
<1>1. PICK n \in Nat : n = Len(xs)
  BY LenProperties, Zenon
<1>2. \A i \in 1..n : xs[i] \in S
  BY <1>1, ElementOfSeq
<1> DEFINE Body(g, m) ==
        [k \in 0..m |-> IF k = 0 THEN << >> ELSE MovedLeft(g[k - 1], xs[k])]
<1>3. \E g : g = Body(g, n)
  <2> DEFINE T == {m \in Nat : \E g : g = Body(g, m)}
  <2>1. 0 \in T
    <3>1. PICK g : g = [k \in 0..0 |-> << >>]
      OBVIOUS
    <3>2. g = Body(g, 0)
      BY <3>1
    <3> QED
      BY <3>2
  <2>2. ASSUME NEW m \in Nat, m \in T PROVE m + 1 \in T
    <3>1. PICK g : g = Body(g, m)
      BY <2>2
    <3>2. PICK h : h = [k \in 0..m + 1 |-> IF k <= m THEN g[k] ELSE MovedLeft(g[m], xs[m + 1])]
      OBVIOUS
    <3>3. ASSUME NEW k \in 0..m + 1
          PROVE  h[k] = IF k = 0 THEN << >> ELSE MovedLeft(h[k - 1], xs[k])
      <4>1. CASE k <= m
        <5>1. k \in 0..m
          BY <4>1
        <5>2. h[k] = g[k]
          BY <3>2, <4>1
        <5>3. g[k] = IF k = 0 THEN << >> ELSE MovedLeft(g[k - 1], xs[k])
          BY <3>1, <5>1
        <5>4. k # 0 => h[k - 1] = g[k - 1]
          BY <3>2, <5>1
        <5> QED
          BY <5>2, <5>3, <5>4
      <4>2. CASE k = m + 1
        <5>1. k # 0 /\ k - 1 = m /\ ~ (k <= m) /\ m \in 0..m + 1 /\ m <= m
          BY <4>2
        <5>2. h[k] = MovedLeft(g[m], xs[k]) /\ h[m] = g[m]
          BY <3>2, <4>2, <5>1
        <5> QED
          BY <5>1, <5>2
      <4> QED
        BY <4>1, <4>2
    <3>4. h = Body(h, m + 1)
      BY <3>2, <3>3
    <3> QED
      BY <3>4
  <2>3. Nat \subseteq T
    <3> HIDE DEF T
    <3> QED
      BY <2>1, <2>2, Reaches
  <2> QED
    BY <2>3
<1>4. PICK sorted : sorted = Body(sorted, n) /\ SortByLenDesc(xs) = sorted[n]
  <2> DEFINE srt == CHOOSE g : g = Body(g, n)
  <2>1. srt = Body(srt, n)
    BY <1>3
  <2>2. SortByLenDesc(xs) = srt[n]
    BY <1>1 DEF SortByLenDesc
  <2> QED
    BY <2>1, <2>2
<1>5. sorted[0] = << >> /\ \A k \in 1..n : sorted[k] = MovedLeft(sorted[k - 1], xs[k])
  BY <1>4
<1> HIDE DEF Body
<1> DEFINE Good(k) == /\ sorted[k] \in Seq(S) /\ Len(sorted[k]) = k
                      /\ \A w : (\E i \in 1..k : sorted[k][i] = w) <=> (\E i \in 1..k : xs[i] = w)
                      /\ Descends(sorted[k])
           G == {k \in Nat : k <= n => Good(k)}
<1>6. 0 \in G
  <2>1. << >> \in Seq(S) /\ Len(<< >>) = 0 /\ 1..0 = {}
    BY EmptySeq
  <2>2. Descends(<< >>)
    BY <2>1 DEF Descends
  <2> QED
    BY <1>5, <2>1, <2>2
<1>7. ASSUME NEW k \in Nat, k \in G PROVE k + 1 \in G
  <2> HIDE DEF Good
  <2> SUFFICES ASSUME k + 1 <= n
               PROVE  Good(k + 1)
    OBVIOUS
  <2>1. Good(k)
    BY <1>7
  <2> USE DEF Good
  <2>2. k + 1 \in 1..n /\ (k + 1) - 1 = k /\ xs[k + 1] \in S
    BY <1>2
  <2>3. sorted[k + 1] = MovedLeft(sorted[k], xs[k + 1])
    BY <1>5, <2>2
  <2> HIDE DEF G
  <2>4. PICK s \in Seq(S) : s = sorted[k]
    BY <2>1
  <2>5. PICK d \in Seq(S) : d = MovedLeft(s, xs[k + 1]) /\ Len(d) = k + 1 /\ Descends(d)
            /\ \A w : (\E i \in 1..k + 1 : d[i] = w) <=> (w = xs[k + 1] \/ \E i \in 1..k : s[i] = w)
    <3>1. Len(s) = k /\ Descends(s)
      BY <2>1, <2>4
    <3> HIDE DEF Good
    <3>2. PICK x \in S : x = xs[k + 1]
      BY <2>2, Zenon
    <3>3. /\ MovedLeft(s, x) \in Seq(S)
          /\ Len(MovedLeft(s, x)) = Len(s) + 1
          /\ \A w : (\E i \in 1..Len(s) + 1 : MovedLeft(s, x)[i] = w)
                        <=> (w = x \/ \E i \in 1..Len(s) : s[i] = w)
          /\ Descends(MovedLeft(s, x))
      BY <3>1, MovedLeftIs
    <3> QED
      BY <3>1, <3>2, <3>3, SMTT(30)
  <2>6. \A w : (\E i \in 1..k : s[i] = w) <=> (\E i \in 1..k : xs[i] = w)
    BY <2>1, <2>4
  <2>7. \A w : (\E i \in 1..k + 1 : xs[i] = w) <=> (w = xs[k + 1] \/ \E i \in 1..k : xs[i] = w)
    <3>1. 1..k + 1 = 1..k \cup {k + 1}
      OBVIOUS
    <3> HIDE DEF Good
    <3> QED
      BY <3>1, Zenon
  <2>8. \A w : (\E i \in 1..k + 1 : d[i] = w) <=> (\E i \in 1..k + 1 : xs[i] = w)
    <3> HIDE DEF Good
    <3> QED
      BY <2>5, <2>6, <2>7, Zenon
  <2>9. d = sorted[k + 1]
    BY <2>3, <2>4, <2>5
  <2> QED
    BY <2>5, <2>8, <2>9, Zenon
<1>8. Good(n)
  <2>1. Nat \subseteq G
    <3> HIDE DEF G
    <3> QED
      BY <1>6, <1>7, Reaches
  <2> HIDE DEF Good
  <2>2. n <= n
    OBVIOUS
  <2> QED
    BY <2>1, <2>2
<1> QED
  BY <1>1, <1>4, <1>8, SMTT(30)

(* An order of a finite set of words is a sequence of all of them. *)
LEMMA OrderIs ==
    ASSUME NEW S, IsFiniteSet(S), NEW xs \in SetToSeqs(S)
    PROVE  /\ xs \in Seq(S)
           /\ \A w : (\E i \in 1..Len(xs) : xs[i] = w) <=> w \in S
<1>1. PICK n \in Nat : n = Cardinality(S)
  BY FS_CardinalityType, Zenon
<1>2. xs \in [1..n -> S] /\ \A i, j \in 1..n : i # j => xs[i] # xs[j]
  BY <1>1 DEF SetToSeqs
<1>3. xs \in Seq(S) /\ Len(xs) = n
  BY <1>2
<1>4. xs \in Injection(1..n, S)
  BY <1>2 DEF Injection, IsInjective
<1>5. IsFiniteSet(1..n) /\ Cardinality(1..n) = n
  BY FS_Interval
<1>6. xs \in Surjection(1..n, S)
  BY <1>1, <1>4, <1>5, FS_Injection
<1>7. \A w \in S : \E i \in 1..n : xs[i] = w
  BY <1>6 DEF Surjection
<1> QED
  BY <1>2, <1>3, <1>7

(* What is found in a sorted order of the words of S: something longest,   *)
(* or nothing if none of S is found.                                       *)
LEMMA FirstIs ==
    ASSUME NEW S, IsFiniteSet(S), \A w \in S : Length[w] \in Nat,
           NEW xs \in SetToSeqs(S), NEW found, NEW meaning
    PROVE  \/ /\ found \cap S = {}
              /\ FirstMeaning(SortByLenDesc(xs), found, meaning) = None
           \/ \E w \in found \cap S :
                 /\ FirstMeaning(SortByLenDesc(xs), found, meaning) = meaning[w]
                 /\ \A v \in found \cap S : Length[v] <= Length[w]
<1>1. PICK n \in Nat : n = Len(xs)
  BY OrderIs, LenProperties, Zenon
<1>2. PICK order \in Seq(S) : order = SortByLenDesc(xs) /\ Len(order) = n
          /\ (\A w : (\E i \in 1..n : order[i] = w) <=> w \in S) /\ Descends(order)
  <2>1. xs \in Seq(S) /\ \A w : (\E i \in 1..n : xs[i] = w) <=> w \in S
    BY <1>1, OrderIs
  <2>2. /\ SortByLenDesc(xs) \in Seq(S) /\ Len(SortByLenDesc(xs)) = n
        /\ \A w : (\E i \in 1..n : SortByLenDesc(xs)[i] = w) <=> (\E i \in 1..n : xs[i] = w)
        /\ Descends(SortByLenDesc(xs))
    <3>1. /\ SortByLenDesc(xs) \in Seq(S)
          /\ Len(SortByLenDesc(xs)) = Len(xs)
          /\ \A w : (\E i \in 1..Len(xs) : SortByLenDesc(xs)[i] = w)
                        <=> (\E i \in 1..Len(xs) : xs[i] = w)
          /\ Descends(SortByLenDesc(xs))
      BY <2>1, SortIs
    <3> QED
      BY <1>1, <3>1, Zenon
  <2> QED
    BY <2>1, <2>2, Zenon
<1>3. DOMAIN order = 1..n
  BY <1>2, LenProperties
<1> DEFINE hits == {k \in DOMAIN order : order[k] \in found}
           first == CHOOSE k \in hits : \A m \in hits : k <= m
<1>4. FirstMeaning(order, found, meaning) =
          IF hits = {} THEN None ELSE meaning[order[first]]
  BY DEF FirstMeaning
<1>5. CASE hits = {}
  <2>1. found \cap S = {}
    BY <1>2, <1>3, <1>5
  <2> QED
    BY <1>2, <1>4, <1>5, <2>1
<1>6. CASE hits # {}
  <2>1. hits \subseteq Nat
    BY <1>3
  <2>2. \E k \in hits : \A m \in hits : k <= m
    <3> HIDE DEF hits
    <3> QED
      BY <1>6, <2>1, LeastElement
  <2>3. first \in hits /\ \A m \in hits : first <= m
    <3> HIDE DEF hits
    <3> QED
      BY <2>2, Zenon
  <2>4. FirstMeaning(order, found, meaning) = meaning[order[first]]
    BY <1>4, <1>6
  <2> HIDE DEF first
  <2>5. first \in 1..n /\ order[first] \in found /\ order[first] \in S
    BY <1>2, <1>3, <2>3
  <2>6. ASSUME NEW v \in found \cap S
        PROVE  Length[v] <= Length[order[first]]
    <3>1. PICK m \in 1..n : order[m] = v
      BY <1>2
    <3>2. m \in hits
      BY <1>3, <3>1
    <3>3. first <= m
      BY <2>3, <3>2
    <3>4. CASE first = m
      BY <3>1, <3>4
    <3>5. CASE first < m
      BY <1>2, <2>5, <3>1, <3>5 DEF Descends
    <3> QED
      BY <2>5, <3>3, <3>4, <3>5
  <2> QED
    BY <1>2, <2>4, <2>5, <2>6
<1> QED
  BY <1>5, <1>6

-----------------------------------------------------------------------------
(* Ages.                                                                   *)

LEMMA AgesAreInts == \A n \in Ages : n \in 0..MaxInt /\ n \in Int
  BY NumbersAssumption

(* The fields of a text. *)
LEMMA TextFields ==
    ASSUME NEW t \in Texts
    PROVE  /\ t.between = <<t.between[1], t.between[2]>>
           /\ t.range = <<t.range[1], t.range[2]>>
           /\ \A x \in {t.between[1], t.between[2], t.range[1], t.range[2],
                        t.above, t.below, t.exact} : x \in Nat \/ x = Absent
           /\ \A p \in {t.between, t.range} :
                  (p # NoPair) => p[1] \in Nat /\ p[2] \in Nat
           /\ t.young \in BOOLEAN /\ t.old \in BOOLEAN
<1>1. t \in Wording
  BY TextsAssumption
<1>2. /\ t.between \in Numbers \X Numbers /\ t.range \in Numbers \X Numbers
      /\ t.above \in Numbers /\ t.below \in Numbers /\ t.exact \in Numbers
      /\ t.young \in BOOLEAN /\ t.old \in BOOLEAN
  BY <1>1 DEF Wording
<1>3. \A p \in {t.between, t.range} : p[1] = Absent <=> p[2] = Absent
  BY TextsAssumption
<1>4. /\ t.between = <<t.between[1], t.between[2]>>
      /\ t.range = <<t.range[1], t.range[2]>>
      /\ \A x \in {t.between[1], t.between[2], t.range[1], t.range[2]} : x \in Numbers
  BY <1>2
<1>5. \A p \in {t.between, t.range} : (p # NoPair) => p[1] \in Nat /\ p[2] \in Nat
  BY <1>3, <1>4 DEF NoPair, Numbers
<1> QED
  BY <1>2, <1>4, <1>5 DEF Numbers

(* A span that is there has its ends in order, an age within is between.   *)
LEMMA SpanEnds ==
    ASSUME NEW t \in Texts, Span(t) # NoPair
    PROVE  /\ Lower(Span(t)) \in Nat /\ Upper(Span(t)) \in Nat
           /\ \A n \in Ages : WithinWords(t, n) =>
                  Clamped(Lower(Span(t))) <= n /\ n <= Clamped(Upper(Span(t)))
<1>1. Span(t) \in {t.between, t.range}
  BY DEF Span
<1>2. Span(t)[1] \in Nat /\ Span(t)[2] \in Nat
  BY <1>1, TextFields
<1>3. Lower(Span(t)) \in Nat /\ Upper(Span(t)) \in Nat
  BY <1>2 DEF Lower, Upper
<1>4. ASSUME NEW n \in Ages, WithinWords(t, n)
      PROVE  Clamped(Lower(Span(t))) <= n /\ n <= Clamped(Upper(Span(t)))
  <2>1. \/ Span(t)[1] <= n /\ n <= Span(t)[2]
        \/ Span(t)[2] <= n /\ n <= Span(t)[1]
    BY <1>1, <1>4 DEF WithinWords
  <2>2. Lower(Span(t)) <= n /\ n <= Upper(Span(t))
    BY <1>2, <2>1, AgesAreInts DEF Lower, Upper
  <2> QED
    BY <1>3, <2>2, AgesAreInts, NumbersAssumption DEF Clamped
<1> QED
  BY <1>3, <1>4

(* An age within the words of a text is within the filter's bounds.        *)
LEMMA BoundsAdmit ==
    ASSUME NEW t \in Texts, NEW n \in Ages, WithinWords(t, n)
    PROVE  /\ MinAge(t) # Absent => n >= MinAge(t)
           /\ MaxAge(t) # Absent => n <= MaxAge(t)
<1>1. WrittenMin(t) # Absent => n >= WrittenMin(t)
  <2>1. CASE Fits(t.above)
    BY <2>1, AgesAreInts DEF WrittenMin, WithinWords, Fits, Absent
  <2>2. CASE ~ Fits(t.above) /\ Span(t) # NoPair
    BY <2>2, SpanEnds, AgesAreInts, NumbersAssumption DEF WrittenMin, Clamped
  <2> QED
    BY <2>1, <2>2 DEF WrittenMin
<1>2. WrittenMax(t) # Absent => n <= WrittenMax(t)
  <2>1. CASE Fits(t.below)
    BY <2>1, AgesAreInts DEF WrittenMax, WithinWords, Fits, Absent
  <2>2. CASE ~ Fits(t.below) /\ Span(t) # NoPair
    BY <2>2, SpanEnds, AgesAreInts, NumbersAssumption DEF WrittenMax, Clamped
  <2> QED
    BY <2>1, <2>2 DEF WrittenMax
<1>3. WordedMin(t) # Absent => n >= WordedMin(t)
  BY <1>1 DEF WordedMin, WithinWords
<1>4. WordedMax(t) # Absent => n <= WordedMax(t)
  BY <1>2 DEF WordedMax, WithinWords
<1>5. Exact(t) => n = t.exact
  BY DEF Exact, Fits, WithinWords, Absent
<1> QED
  BY <1>3, <1>4, <1>5, AgesAreInts DEF MinAge, MaxAge

LEMMA BoundsAreInts ==
    ASSUME NEW t \in Texts
    PROVE  MinAge(t) \in Int /\ MaxAge(t) \in Int
<1>1. WrittenMin(t) \in Int /\ WrittenMax(t) \in Int
  BY SpanEnds, TextFields, NumbersAssumption
  DEF WrittenMin, WrittenMax, Fits, Clamped, Absent
<1>2. WordedMin(t) \in Int /\ WordedMax(t) \in Int
  BY <1>1 DEF WordedMin, WordedMax, Absent
<1> QED
  BY <1>2 DEF MinAge, MaxAge, Exact, Fits

(* The bounds do not depend on the order of the maps. *)
LEMMA ParseBounds ==
    ASSUME NEW t \in Texts, NEW f \in Parses[t]
    PROVE  f.minAge = MinAge(t) /\ f.maxAge = MaxAge(t)
  BY DEF Parses, ParseNL

(* A text whose filter has no bound says nothing of ages, or something no  *)
(* age meets: a number above every int.                                    *)
LEMMA Unbounded ==
    ASSUME NEW t \in Texts, MinAge(t) = Absent, MaxAge(t) = Absent
    PROVE  \/ \A n \in Ages : WithinWords(t, n)
           \/ \A n \in Ages : ~ WithinWords(t, n)
<1>1. WordedMin(t) = Absent /\ WordedMax(t) = Absent /\ ~ Exact(t)
  BY DEF MinAge, MaxAge, Exact, Fits, Absent
<1>2. WrittenMin(t) = Absent /\ WrittenMax(t) = Absent /\ ~ t.young /\ ~ t.old
  BY <1>1 DEF WordedMin, WordedMax, Absent
<1>3. ~ Fits(t.above) /\ ~ Fits(t.below) /\ ~ Fits(t.exact)
  BY <1>1, <1>2 DEF WrittenMin, WrittenMax, Exact, Fits, Absent
<1>4. Span(t) = NoPair
  <2> SUFFICES ASSUME Span(t) # NoPair
               PROVE  FALSE
    OBVIOUS
  <2>1. Clamped(Lower(Span(t))) \in Nat
    BY SpanEnds, NumbersAssumption DEF Clamped
  <2> QED
    BY <1>2, <1>3, <2>1 DEF WrittenMin, Absent
<1>5. t.between = NoPair /\ t.range = NoPair
  BY <1>4 DEF Span
<1>6. CASE t.above = Absent /\ t.below \in Nat \cup {Absent} /\ t.exact = Absent
  <2>1. t.below = Absent \/ t.below > MaxInt
    BY <1>3, <1>6, NumbersAssumption DEF Fits
  <2>2. \A n \in Ages : t.below # Absent => n <= t.below
    BY <1>6, <2>1, AgesAreInts, NumbersAssumption
  <2>3. ASSUME NEW n \in Ages
        PROVE  WithinWords(t, n)
    BY <1>2, <1>5, <1>6, <2>2 DEF WithinWords
  <2> QED
    BY <2>3
<1>7. CASE t.above # Absent
  <2>1. t.above > MaxInt
    BY <1>3, <1>7, TextFields, NumbersAssumption DEF Fits
  <2>2. \A n \in Ages : ~ (n >= t.above)
    BY <1>7, <2>1, TextFields, AgesAreInts, NumbersAssumption
  <2>3. \A n \in Ages : ~ WithinWords(t, n)
    BY <1>7, <2>2 DEF WithinWords
  <2> QED
    BY <2>3
<1>8. CASE t.exact # Absent
  <2>1. t.exact > MaxInt
    BY <1>3, <1>8, TextFields, NumbersAssumption DEF Fits
  <2>2. \A n \in Ages : ~ (n = t.exact)
    BY <1>8, <2>1, TextFields, AgesAreInts, NumbersAssumption
  <2>3. \A n \in Ages : ~ WithinWords(t, n)
    BY <1>8, <2>2 DEF WithinWords
  <2> QED
    BY <2>3
<1> QED
  BY <1>6, <1>7, <1>8, TextFields

(* With each end given once and no number too large, a filter's bounds are *)
(* the text's.                                                             *)
LEMMA BoundsExact ==
    ASSUME NEW t \in Texts, NEW n \in Ages,
           ~ Twice(t, LowerEnds), ~ Twice(t, UpperEnds), ~ TooLarge(t),
           MinAge(t) # Absent => n >= MinAge(t),
           MaxAge(t) # Absent => n <= MaxAge(t)
    PROVE  WithinWords(t, n)
<1> DEFINE W == Worded(t)
<1>1. /\ \A v, w \in {"between", "range", "above", "exact", "young", "old"} :
             v # w => ~ (W[v] /\ W[w])
      /\ \A v, w \in {"between", "range", "below", "exact", "young"} :
             v # w => ~ (W[v] /\ W[w])
  BY DEF Twice, LowerEnds, UpperEnds
<1>2. /\ W["between"] = (t.between # NoPair) /\ W["range"] = (t.range # NoPair)
      /\ W["above"] = (t.above # Absent) /\ W["below"] = (t.below # Absent)
      /\ W["exact"] = (t.exact # Absent) /\ W["young"] = t.young /\ W["old"] = t.old
  BY DEF Worded
<1> HIDE DEF W
<1>3. /\ t.above # Absent => Fits(t.above)
      /\ t.below # Absent => Fits(t.below)
      /\ t.exact # Absent => Fits(t.exact)
  BY TextFields, NumbersAssumption DEF TooLarge, Fits
<1>4. \A p \in {t.between, t.range} : p # NoPair =>
          /\ p[1] \in 0..MaxInt /\ p[2] \in 0..MaxInt
          /\ Clamped(Lower(p)) = Lower(p) /\ Clamped(Upper(p)) = Upper(p)
  <2> SUFFICES ASSUME NEW p \in {t.between, t.range}, p # NoPair
               PROVE  /\ p[1] \in 0..MaxInt /\ p[2] \in 0..MaxInt
                      /\ Clamped(Lower(p)) = Lower(p) /\ Clamped(Upper(p)) = Upper(p)
    OBVIOUS
  <2>1. p[1] \in 0..MaxInt /\ p[2] \in 0..MaxInt
    BY TextFields, NumbersAssumption DEF TooLarge
  <2> QED
    BY <2>1, NumbersAssumption DEF Clamped, Lower, Upper
<1>5. ASSUME NEW p \in {t.between, t.range}, p # NoPair
      PROVE  (p[1] <= n /\ n <= p[2]) \/ (p[2] <= n /\ n <= p[1])
  <2>1. Span(t) = p /\ t.above = Absent /\ t.below = Absent /\ t.exact = Absent
    <3>1. \/ p = t.between /\ W["between"] /\ ~ W["range"]
          \/ p = t.range /\ W["range"] /\ ~ W["between"]
      BY <1>1, <1>2, <1>5
    <3>2. ~ W["above"] /\ ~ W["below"] /\ ~ W["exact"]
      BY <1>1, <3>1
    <3> QED
      BY <1>2, <1>5, <3>1, <3>2 DEF Span
  <2>2. WrittenMin(t) = Lower(p) /\ WrittenMax(t) = Upper(p)
    BY <1>4, <1>5, <2>1 DEF WrittenMin, WrittenMax, Fits, Absent
  <2>3. Lower(p) \in Nat /\ Upper(p) \in Nat
    BY <1>4, <1>5 DEF Lower, Upper
  <2>4. MinAge(t) = Lower(p) /\ MaxAge(t) = Upper(p)
    BY <2>1, <2>2, <2>3 DEF MinAge, MaxAge, Exact, WordedMin, WordedMax, Fits, Absent
  <2>5. Lower(p) <= n /\ n <= Upper(p)
    BY <2>3, <2>4 DEF Absent
  <2> QED
    BY <1>4, <1>5, <2>5, AgesAreInts DEF Lower, Upper
<1>6. t.above # Absent => n >= t.above
  BY <1>1, <1>2, <1>3 DEF MinAge, Exact, WordedMin, WrittenMin, Fits, Absent
<1>7. t.below # Absent => n <= t.below
  BY <1>1, <1>2, <1>3 DEF MaxAge, Exact, WordedMax, WrittenMax, Fits, Absent
<1>8. t.exact # Absent => n = t.exact
  <2> SUFFICES ASSUME t.exact # Absent
               PROVE  n = t.exact
    OBVIOUS
  <2>1. /\ Span(t) = NoPair /\ t.above = Absent /\ t.below = Absent
        /\ ~ t.young /\ ~ t.old
    BY <1>1, <1>2, TextFields DEF Span
  <2>2. WordedMin(t) = Absent /\ WordedMax(t) = Absent
    BY <2>1 DEF WordedMin, WordedMax, WrittenMin, WrittenMax, Fits, Absent
  <2>3. MinAge(t) = t.exact /\ MaxAge(t) = t.exact
    BY <1>3, <2>2 DEF MinAge, MaxAge, Exact
  <2> QED
    BY <2>3, TextFields, AgesAreInts
<1>9. t.young => n \in 16..24
  <2> SUFFICES ASSUME t.young
               PROVE  n \in 16..24
    OBVIOUS
  <2>1. /\ Span(t) = NoPair /\ t.above = Absent /\ t.below = Absent
        /\ t.exact = Absent
    BY <1>1, <1>2 DEF Span
  <2>2. MinAge(t) = 16 /\ MaxAge(t) = 24
    BY <2>1 DEF MinAge, MaxAge, Exact, WordedMin, WordedMax, WrittenMin, WrittenMax,
                Fits, Absent
  <2> QED
    BY <2>2, AgesAreInts DEF Absent
<1>10. t.old => n >= 60
  <2> SUFFICES ASSUME t.old
               PROVE  n >= 60
    OBVIOUS
  <2>1. Span(t) = NoPair /\ t.above = Absent /\ t.exact = Absent /\ ~ t.young
    BY <1>1, <1>2, TextFields DEF Span
  <2>2. MinAge(t) = 60
    BY <2>1 DEF MinAge, Exact, WordedMin, WrittenMin, Fits, Absent
  <2> QED
    BY <2>2 DEF Absent
<1> QED
  BY <1>5, <1>6, <1>7, <1>8, <1>9, <1>10 DEF WithinWords

-----------------------------------------------------------------------------
(* Words and places.                                                       *)

(* Two parses of a text differ only if two of its words tie.               *)
LEMMA ParsesAgree ==
    ASSUME NEW t \in Texts, ~ Tied(t), NEW f \in Parses[t], NEW g \in Parses[t]
    PROVE  f = g
<1>1. PICK fw \in SetToSeqs(Words), fp \in SetToSeqs(Phrases), fn \in SetToSeqs(Names) :
          f = ParseNL(t, fw, fp, fn)
  BY DEF Parses
<1>2. PICK gw \in SetToSeqs(Words), gp \in SetToSeqs(Phrases), gn \in SetToSeqs(Names) :
          g = ParseNL(t, gw, gp, gn)
  BY DEF Parses
<1>3. ASSUME NEW S, IsFiniteSet(S), \A w \in S : Length[w] \in Nat, NEW found,
             NEW meaning, ~ TiedAt(found \cap S, meaning),
             NEW xs \in SetToSeqs(S), NEW ys \in SetToSeqs(S)
      PROVE  FirstMeaning(SortByLenDesc(xs), found, meaning)
                 = FirstMeaning(SortByLenDesc(ys), found, meaning)
  <2>1. CASE found \cap S = {}
    BY <1>3, <2>1, FirstIs
  <2>2. CASE found \cap S # {}
    <3>1. PICK w \in found \cap S :
              /\ FirstMeaning(SortByLenDesc(xs), found, meaning) = meaning[w]
              /\ \A v \in found \cap S : Length[v] <= Length[w]
      BY <1>3, <2>2, FirstIs
    <3>2. PICK x \in found \cap S :
              /\ FirstMeaning(SortByLenDesc(ys), found, meaning) = meaning[x]
              /\ \A v \in found \cap S : Length[v] <= Length[x]
      BY <1>3, <2>2, FirstIs
    <3>3. Length[w] \in Nat /\ Length[x] \in Nat /\ Length[w] <= Length[x]
          /\ Length[x] <= Length[w]
      BY <1>3, <3>1, <3>2
    <3>4. Length[w] = Length[x]
      BY <3>3
    <3>5. meaning[w] = meaning[x]
      BY <1>3, <3>1, <3>4 DEF TiedAt
    <3> QED
      BY <3>1, <3>2, <3>5
  <2> QED
    BY <2>1, <2>2
<1>4. /\ ~ TiedAt(t.groups \cap Words, AgeGroupOf)
      /\ ~ TiedAt(t.places \cap Phrases, CountryOf)
      /\ ~ TiedAt(t.places \cap Names, CodeOf)
  <2>1. t.groups \cap Words = t.groups
    BY TextsAssumption DEF Wording
  <2> QED
    BY <2>1 DEF Tied
<1>5. FirstMeaning(SortByLenDesc(fw), t.groups, AgeGroupOf)
          = FirstMeaning(SortByLenDesc(gw), t.groups, AgeGroupOf)
  BY <1>3, <1>4, KeysAssumption
<1>6. FirstMeaning(SortByLenDesc(fp), t.places, CountryOf)
          = FirstMeaning(SortByLenDesc(gp), t.places, CountryOf)
  BY <1>3, <1>4, KeysAssumption
<1>7. FirstMeaning(SortByLenDesc(fn), t.places, CodeOf)
          = FirstMeaning(SortByLenDesc(gn), t.places, CodeOf)
  BY <1>3, <1>4, KeysAssumption
<1>8. Country(t, fp, fn) = Country(t, gp, gn)
  BY <1>6, <1>7, Zenon DEF Country
<1> QED
  BY <1>1, <1>2, <1>5, <1>8, Zenon DEF ParseNL

(* The country of a parse. *)
LEMMA CountryIs ==
    ASSUME NEW t \in Texts, NEW f \in Parses[t]
    PROVE  /\ t.places # {} => f.country # None
           /\ \/ f.country \in Named(t)
              \/ f.country = None /\ Named(t) = {}
              \/ f.country = None /\ t.places = {} /\ \E k \in DOMAIN t.codes : k > 1
<1>1. PICK words \in SetToSeqs(Words), phrases \in SetToSeqs(Phrases),
           names \in SetToSeqs(Names) : f = ParseNL(t, words, phrases, names)
  BY DEF Parses
<1> DEFINE alias == FirstMeaning(SortByLenDesc(phrases), t.places, CountryOf)
           name == FirstMeaning(SortByLenDesc(names), t.places, CodeOf)
<1>2. f.country = IF alias # None THEN alias
                  ELSE IF name # None THEN name
                  ELSE IF t.codes # << >> /\ t.codes[1] \in Codes THEN t.codes[1] ELSE None
  BY <1>1 DEF ParseNL, Country
<1>3. \/ t.places \cap Phrases = {} /\ alias = None
      \/ \E p \in t.places \cap Phrases : alias = CountryOf[p]
  BY KeysAssumption, FirstIs
<1>4. \/ t.places \cap Names = {} /\ name = None
      \/ \E n \in t.places \cap Names : name = CodeOf[n]
  BY KeysAssumption, FirstIs
<1> HIDE DEF alias, name
<1>5. \A p \in Phrases : CountryOf[p] # None
  BY KeysAssumption
<1>6. \A n \in Names : CodeOf[n] # None
  BY KeysAssumption DEF Codes
<1>7. t.places \subseteq Phrases \cup Names /\ t.codes \in Seq(STRING)
  BY TextsAssumption DEF Wording
<1>8. CASE alias # None
  <2>1. f.country = alias /\ alias \in Named(t)
    BY <1>2, <1>3, <1>8 DEF Named
  <2> QED
    BY <1>8, <2>1
<1>9. CASE alias = None /\ name # None
  <2>1. f.country = name /\ name \in Named(t)
    BY <1>2, <1>4, <1>9 DEF Named
  <2> QED
    BY <1>9, <2>1
<1>10. CASE alias = None /\ name = None
  <2>1. t.places = {}
    BY <1>3, <1>4, <1>5, <1>6, <1>7, <1>10
  <2>2. Named(t) = {t.codes[k] : k \in DOMAIN t.codes} \cap Codes
    BY <2>1 DEF Named
  <2>3. DOMAIN t.codes = 1..Len(t.codes) /\ Len(t.codes) \in Nat
    BY <1>7, LenProperties
  <2>4. t.codes = << >> <=> 1 \notin DOMAIN t.codes
    BY <1>7, <2>3, EmptySeq
  <2>5. CASE t.codes # << >> /\ t.codes[1] \in Codes
    <3>1. f.country = t.codes[1]
      BY <1>2, <1>10, <2>5
    <3>2. t.codes[1] \in Named(t)
      BY <2>2, <2>4, <2>5
    <3> QED
      BY <2>1, <3>1, <3>2
  <2>6. CASE ~ (t.codes # << >> /\ t.codes[1] \in Codes)
    <3>1. f.country = None
      BY <1>2, <1>10, <2>6
    <3>2. ASSUME Named(t) # {} PROVE \E k \in DOMAIN t.codes : k > 1
      <4>1. PICK k \in DOMAIN t.codes : t.codes[k] \in Codes
        BY <2>2, <3>2
      <4>2. 1 \in DOMAIN t.codes /\ k \in Nat /\ k >= 1
        BY <2>3, <4>1
      <4>3. k # 1
        BY <2>4, <2>6, <4>1, <4>2
      <4>4. k > 1
        BY <4>2, <4>3
      <4> QED
        BY <4>1, <4>4
    <3> QED
      BY <2>1, <3>1, <3>2
  <2> QED
    BY <2>5, <2>6
<1> QED
  BY <1>8, <1>9, <1>10

-----------------------------------------------------------------------------
(* What else an answer says: its links are of a text that parses to its    *)
(* filter, and a text that was not understood has a parse that no scanner  *)
(* matched, or whose bounds contradict.                                    *)
LinksParsed ==
    answer.status = "page" => answer.filter \in Parses[answer.links]

AnswerParsed ==
    answer.status = "unmatched" =>
        \E f \in Parses[answer.text] : ~ Matched(answer.text, f)

Inv == TypeOK /\ LinksParsed /\ AnswerParsed

LEMMA InvInit == Init => Inv
  BY DEF Init, Inv, TypeOK, LinksParsed, AnswerParsed, NoAnswer

LEMMA InvNext == Inv /\ [Next]_vars => Inv'
<1> SUFFICES ASSUME Inv, [Next]_vars
             PROVE  Inv'
  OBVIOUS
<1> USE DEF Inv, TypeOK, LinksParsed, AnswerParsed
<1>1. CASE Refuse
  BY <1>1 DEF Refuse, NoAnswer
<1>2. CASE Write
  BY <1>2 DEF Write
<1>3. ASSUME NEW t \in Texts, NotUnderstood(t)
      PROVE  Inv'
  BY <1>3 DEF NotUnderstood
<1>4. ASSUME NEW t \in Texts, SearchHit(t)
      PROVE  Inv'
  <2>1. cached # NoBody /\ cached' = cached
    BY <1>4 DEF SearchHit, Hits
  <2>2. PICK f \in Parses[t] : answer' = Page(t, f, cached.text) /\ cached.filter = f
    BY <1>4 DEF SearchHit, Hits
  <2>3. cached.text \in Texts /\ f \in Parses[cached.text]
    BY <2>1, <2>2
  <2>4. /\ answer'.status = "page" /\ answer'.text = t /\ answer'.links = cached.text
        /\ answer'.filter = f
    BY <2>2 DEF Page
  <2> QED
    BY <2>1, <2>3, <2>4
<1>5. ASSUME NEW t \in Texts, SearchMiss(t)
      PROVE  Inv'
  <2>1. PICK f \in Parses[t] :
            /\ answer' = Page(t, f, t)
            /\ cached' = IF cached = NoBody THEN [text |-> t, filter |-> f] ELSE cached
    BY <1>5 DEF SearchMiss
  <2>2. /\ answer'.status = "page" /\ answer'.text = t /\ answer'.links = t
        /\ answer'.filter = f
    BY <2>1 DEF Page
  <2>3. \/ cached' = NoBody
        \/ cached'.text \in Texts /\ cached'.filter \in Parses[cached'.text]
    BY <2>1
  <2> QED
    BY <2>2, <2>3
<1>6. CASE UNCHANGED vars
  BY <1>6 DEF vars
<1> QED
  BY <1>1, <1>2, <1>3, <1>4, <1>5, <1>6 DEF Next

LEMMA InvHolds == Spec => []Inv
  BY InvInit, InvNext, PTL DEF Spec

(* Whatever texts arrive, with maps read in any order, the state is of its *)
(* type: the body in the cache is of a text that parses to its filter.     *)
THEOREM TypeCorrect == Spec => []TypeOK
<1>1. Inv => TypeOK
  BY DEF Inv
<1> QED
  BY <1>1, InvHolds, PTL

(* For every text, a filter leaves no age out that is within its words.    *)
THEOREM NoAgeIsLeftOut == Spec => []NoAgeLeftOut
<1>1. Inv => NoAgeLeftOut
  <2> SUFFICES ASSUME Inv
               PROVE  NoAgeLeftOut
    OBVIOUS
  <2>1. ASSUME answer.status = "page", NEW n \in Ages, WithinWords(answer.text, n)
        PROVE  Admits(answer.filter, n)
    <3>1. answer.text \in Texts /\ answer.filter \in Parses[answer.text]
      BY <2>1 DEF Inv, TypeOK, NoAnswer
    <3> QED
      BY <2>1, <3>1, BoundsAdmit, ParseBounds DEF Admits
  <2>2. ASSUME answer.status = "unmatched"
        PROVE  \/ \A n \in Ages : WithinWords(answer.text, n)
               \/ \A n \in Ages : ~ WithinWords(answer.text, n)
    <3>1. answer.text \in Texts
      BY <2>2 DEF Inv, TypeOK, NoAnswer
    <3>2. PICK f \in Parses[answer.text] : ~ Matched(answer.text, f)
      BY <2>2 DEF Inv, AnswerParsed
    <3>3. f.minAge = MinAge(answer.text) /\ f.maxAge = MaxAge(answer.text)
      BY <3>1, <3>2, ParseBounds
    <3>4. CASE Contradictory(f)
      <4>1. /\ MinAge(answer.text) # Absent /\ MaxAge(answer.text) # Absent
            /\ MinAge(answer.text) > MaxAge(answer.text)
        BY <3>3, <3>4 DEF Contradictory
      <4>2. MinAge(answer.text) \in Int /\ MaxAge(answer.text) \in Int
        BY <3>1, BoundsAreInts
      <4>3. ASSUME NEW n \in Ages, WithinWords(answer.text, n)
            PROVE  FALSE
        <5>1. n >= MinAge(answer.text) /\ n <= MaxAge(answer.text)
          BY <3>1, <4>1, <4>3, BoundsAdmit
        <5> QED
          BY <4>1, <4>2, <5>1, AgesAreInts
      <4> QED
        BY <4>3
    <3>5. CASE ~ Contradictory(f)
      <4>1. f.minAge = Absent /\ f.maxAge = Absent
        BY <3>2, <3>5 DEF Matched
      <4> QED
        BY <3>1, <3>3, <4>1, Unbounded
    <3> QED
      BY <3>4, <3>5
  <2> QED
    BY <2>1, <2>2 DEF NoAgeLeftOut
<1> QED
  BY <1>1, InvHolds, PTL

(* For every text that gives each end of its range of ages once, in        *)
(* numbers that fit an int, a filter admits only ages within its words.    *)
THEOREM NoAgeIsLetIn == Spec => []NoAgeLetIn
<1>1. Inv => NoAgeLetIn
  <2> SUFFICES ASSUME Inv, answer.status = "page",
                      ~ Twice(answer.text, LowerEnds), ~ Twice(answer.text, UpperEnds),
                      ~ TooLarge(answer.text),
                      NEW n \in Ages, Admits(answer.filter, n)
               PROVE  WithinWords(answer.text, n)
    BY DEF NoAgeLetIn
  <2>1. answer.text \in Texts /\ answer.filter \in Parses[answer.text]
    BY DEF Inv, TypeOK, NoAnswer
  <2>2. /\ MinAge(answer.text) # Absent => n >= MinAge(answer.text)
        /\ MaxAge(answer.text) # Absent => n <= MaxAge(answer.text)
    BY <2>1, ParseBounds DEF Admits
  <2> QED
    BY <2>1, <2>2, BoundsExact
<1> QED
  BY <1>1, InvHolds, PTL

(* For any maps, read in any order, and whoever filled the cache, a text   *)
(* without a tie among its words parses to the filter of the page whose    *)
(* links it is in.                                                         *)
THEOREM LinksLeadOnThroughTheList == Spec => []LinksLeadOn
<1>1. Inv => LinksLeadOn
  <2> SUFFICES ASSUME Inv, answer.status = "page", ~ Tied(answer.links),
                      NEW f \in Parses[answer.links]
               PROVE  f = answer.filter
    BY DEF LinksLeadOn
  <2>1. answer.links \in Texts
    BY DEF Inv, TypeOK, NoAnswer
  <2>2. answer.filter \in Parses[answer.links]
    BY DEF Inv, LinksParsed
  <2> QED
    BY <2>1, <2>2, ParsesAgree
<1> QED
  BY <1>1, InvHolds, PTL

(* For any maps and texts, a list is of a country its text names, unless a *)
(* word of two letters hides the code; a text with the name of a place is  *)
(* refused only for its ages.                                              *)
THEOREM ListsAreOfNamedCountries == Spec => []CountryIsNamed
<1>1. Inv => CountryIsNamed
  <2> SUFFICES ASSUME Inv
               PROVE  CountryIsNamed
    OBVIOUS
  <2>1. ASSUME answer.status = "page"
        PROVE  answer.text \in Texts /\ answer.filter \in Parses[answer.text]
    BY <2>1 DEF Inv, TypeOK, NoAnswer
  <2>2. ASSUME answer.status = "unmatched", answer.text.places # {},
               NEW n \in Ages, WithinWords(answer.text, n)
        PROVE  FALSE
    <3>1. answer.text \in Texts
      BY <2>2 DEF Inv, TypeOK, NoAnswer
    <3>2. PICK f \in Parses[answer.text] : ~ Matched(answer.text, f)
      BY <2>2 DEF Inv, AnswerParsed
    <3>3. f.country # None
      BY <2>2, <3>1, CountryIs
    <3>4. f.minAge # Absent /\ f.maxAge # Absent /\ f.minAge > f.maxAge
      BY <3>2, <3>3 DEF Matched, Contradictory
    <3>5. f.minAge = MinAge(answer.text) /\ f.maxAge = MaxAge(answer.text)
      BY <3>1, ParseBounds
    <3>6. MinAge(answer.text) \in Int /\ MaxAge(answer.text) \in Int
      BY <3>1, BoundsAreInts
    <3>7. n >= MinAge(answer.text) /\ n <= MaxAge(answer.text)
      BY <2>2, <3>1, <3>4, <3>5, BoundsAdmit
    <3> QED
      BY <3>4, <3>5, <3>6, <3>7, AgesAreInts
  <2> QED
    BY <2>1, <2>2, CountryIs DEF CountryIsNamed
<1> QED
  BY <1>1, InvHolds, PTL
=============================================================================
