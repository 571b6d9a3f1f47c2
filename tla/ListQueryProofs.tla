-------------------------- MODULE ListQueryProofs --------------------------
(***************************************************************************)
(* Theorems of ListQuery, for any profiles, requests and limits: a cached  *)
(* body is the one its request computes, a hit gives what the request      *)
(* would have computed itself, pages lie at their places, the links show   *)
(* every row once, and text order follows time as far as it does.          *)
(*                                                                         *)
(* The argument goes from texts to ranks: TextBefore is a strict order in  *)
(* which only equal times tie, so ORDER BY column, id is a strict total    *)
(* order of the rows, so no two matching rows have the same rank, and the  *)
(* ranks fill 1..COUNT.                                                    *)
(***************************************************************************)
EXTENDS ListQuery, FiniteSetTheorems, TLAPS

-----------------------------------------------------------------------------
(* Arithmetic.                                                             *)

LEMMA LeastElement == ASSUME NEW T, T \subseteq Nat, T # {}
                      PROVE  \E x \in T : \A y \in T : x <= y
<1> DEFINE F == {1..x : x \in T}
<1>1. F \subseteq FiniteSubsetsOf(Nat) /\ F # {}
  <2>1. \A x \in T : 1..x \in SUBSET Nat /\ IsFiniteSet(1..x)
    BY FS_Interval
  <2> QED
    BY <2>1 DEF FiniteSubsetsOf
<1>2. PICK s \in F : \A t \in F : ~ (<<t, s>> \in StrictSubsetOrdering(Nat))
  <2> HIDE DEF F
  <2> QED
    BY <1>1, FS_StrictSubsetOrderingWellFounded, WFMin, Zenon
<1>3. PICK x \in T : s = 1..x
  OBVIOUS
<1>4. ASSUME NEW y \in T, y < x PROVE FALSE
  <2>1. 1..y \subseteq 1..x /\ 1..y # 1..x /\ 1..y \in SUBSET Nat /\ 1..x \in SUBSET Nat
    <3>1. x \in 1..x /\ x \notin 1..y
      BY <1>4
    <3> QED
      BY <1>4, <3>1
  <2>2. <<1..y, s>> \in StrictSubsetOrdering(Nat)
    BY <1>3, <2>1 DEF StrictSubsetOrdering
  <2> QED
    BY <1>2, <2>2
<1> QED
  BY <1>4

LEMMA Monotone ==
    ASSUME NEW a \in Nat, NEW b \in Nat, NEW l \in Nat, a <= b
    PROVE  a * l \in Nat /\ b * l \in Nat /\ a * l <= b * l
<1>1. PICK d \in Nat : b = a + d
  <2>1. b - a \in Nat /\ b = a + (b - a)
    OBVIOUS
  <2> QED
    BY <2>1, Zenon
<1>2. b * l = a * l + d * l
  BY <1>1
<1>3. d * l \in Nat /\ a * l \in Nat
  OBVIOUS
<1> QED
  BY <1>2, <1>3

(* The number of pages of c rows: as many as have a row in front of them. *)
LEMMA PageCount ==
    ASSUME NEW c \in Nat, NEW l \in Nat \ {0}, NEW p \in Nat
    PROVE  /\ (c + l - 1) \div l \in Nat
           /\ p < (c + l - 1) \div l <=> p * l < c
<1>1. PICK q \in Nat : q = (c + l - 1) \div l /\ q * l <= c + l - 1 /\ c + l - 1 < q * l + l
  <2>1. PICK n \in Nat : n = c + l - 1
    <3>1. c + l - 1 \in Nat
      OBVIOUS
    <3> QED
      BY <3>1, Zenon
  <2>2. n \div l \in Nat /\ (n \div l) * l <= n /\ n < (n \div l) * l + l
    OBVIOUS
  <2> QED
    BY <2>1, <2>2
<1>2. p < q => p * l < c
  <2> SUFFICES ASSUME p < q PROVE p * l < c
    OBVIOUS
  <2>1. p + 1 \in Nat /\ p + 1 <= q /\ (p + 1) * l = p * l + l
    OBVIOUS
  <2>2. (p + 1) * l <= q * l /\ q * l \in Nat /\ p * l \in Nat
    BY <2>1, Monotone
  <2> QED
    BY <1>1, <2>1, <2>2
<1>3. p * l < c => p < q
  <2> SUFFICES ASSUME p >= q PROVE p * l >= c
    OBVIOUS
  <2>1. q * l <= p * l /\ q * l \in Nat /\ p * l \in Nat
    BY Monotone
  <2> QED
    BY <1>1, <2>1
<1> QED
  BY <1>1, <1>2, <1>3

(* Each rank is on one page. *)
LEMMA OnePage ==
    ASSUME NEW r \in Nat \ {0}, NEW l \in Nat \ {0}
    PROVE  \E p \in Nat \ {0} :
              /\ r - (p - 1) * l \in 1..l
              /\ \A q \in Nat \ {0} : r - (q - 1) * l \in 1..l => q = p
<1>1. PICK n \in Nat : n = (r - 1) \div l /\ n * l <= r - 1 /\ r - 1 < n * l + l
  <2>1. PICK m \in Nat : m = r - 1
    <3>1. r - 1 \in Nat
      OBVIOUS
    <3> QED
      BY <3>1, Zenon
  <2>2. m \div l \in Nat /\ (m \div l) * l <= m /\ m < (m \div l) * l + l
    OBVIOUS
  <2> QED
    BY <2>1, <2>2
<1>2. n * l \in Nat /\ r - n * l \in 1..l
  BY <1>1, Monotone
<1>3. ASSUME NEW q \in Nat, r - q * l \in 1..l PROVE q = n
  <2>1. q * l \in Nat /\ q * l < r /\ r <= q * l + l
    BY <1>3, Monotone
  <2>2. ASSUME q < n PROVE FALSE
    <3>1. q + 1 \in Nat /\ q + 1 <= n /\ (q + 1) * l = q * l + l
      BY <2>2
    <3>2. (q + 1) * l <= n * l
      BY <3>1, Monotone
    <3> QED
      BY <1>1, <1>2, <2>1, <3>1, <3>2
  <2>3. ASSUME n < q PROVE FALSE
    <3>1. n + 1 \in Nat /\ n + 1 <= q /\ (n + 1) * l = n * l + l
      BY <2>3
    <3>2. (n + 1) * l <= q * l
      BY <3>1, Monotone
    <3> QED
      BY <1>1, <1>2, <2>1, <3>1, <3>2
  <2> QED
    BY <2>2, <2>3
<1>4. n + 1 \in Nat \ {0} /\ (n + 1) - 1 = n
  OBVIOUS
<1>5. r - ((n + 1) - 1) * l \in 1..l
  BY <1>2, <1>4
<1>6. ASSUME NEW q \in Nat \ {0}, r - (q - 1) * l \in 1..l PROVE q = n + 1
  <2>1. q - 1 \in Nat
    OBVIOUS
  <2>2. q - 1 = n
    BY <1>3, <1>6, <2>1
  <2> QED
    BY <2>2
<1> QED
  BY <1>4, <1>5, <1>6

-----------------------------------------------------------------------------
(* Texts.                                                                  *)

(* A character of a fraction and what follows it; "Z" is after the digits. *)
Digit(s, m) == IF m \in 1..Len(s) THEN s[m] ELSE 10

(* FirstDifference makes TextBefore the order by the first digit, or end,  *)
(* in which the texts differ.                                              *)
FracBefore(s, t) ==
    LET k == FirstDifference(s, t) IN k <= Len(s) /\ (k <= Len(t) => s[k] < t[k])

LEMMA FirstDifferenceIs ==
    ASSUME NEW s \in Seq(0..9), NEW t \in Seq(0..9)
    PROVE  /\ FirstDifference(s, t) \in Nat \ {0}
           /\ FirstDifference(s, t) <= Len(s) + 1 /\ FirstDifference(s, t) <= Len(t) + 1
           /\ \A m \in Nat \ {0} : m < FirstDifference(s, t) =>
                 m <= Len(s) /\ m <= Len(t) /\ s[m] = t[m]
           /\ (FirstDifference(s, t) <= Len(s) /\ FirstDifference(s, t) <= Len(t)) =>
                 s[FirstDifference(s, t)] # t[FirstDifference(s, t)]
<1> DEFINE shorter == Least(Len(s), Len(t))
           different == {k \in 1..shorter : s[k] # t[k]}
<1>1. Len(s) \in Nat /\ Len(t) \in Nat
  OBVIOUS
<1>2. PICK n \in Nat : n = shorter /\ n <= Len(s) /\ n <= Len(t) /\ (n = Len(s) \/ n = Len(t))
  BY <1>1 DEF Least
<1>3. CASE different = {}
  <2>1. FirstDifference(s, t) = n + 1
    BY <1>2, <1>3 DEF FirstDifference
  <2>2. ASSUME NEW m \in Nat \ {0}, m < n + 1 PROVE m <= Len(s) /\ m <= Len(t) /\ s[m] = t[m]
    <3>1. m \in 1..shorter
      BY <1>2, <2>2
    <3>2. s[m] = t[m]
      BY <1>3, <3>1
    <3> QED
      BY <1>1, <1>2, <2>2, <3>2
  <2>3. n + 1 \in Nat \ {0} /\ n + 1 <= Len(s) + 1 /\ n + 1 <= Len(t) + 1
        /\ ~ (n + 1 <= Len(s) /\ n + 1 <= Len(t))
    BY <1>1, <1>2
  <2> QED
    BY <2>1, <2>2, <2>3
<1>4. CASE different # {}
  <2>1. \E k \in different : \A m \in different : k <= m
    <3>1. different \subseteq Nat
      BY <1>2
    <3> HIDE DEF different
    <3> QED
      BY <1>4, <3>1, LeastElement
  <2>2. PICK k \in different : FirstDifference(s, t) = k /\ \A m \in different : k <= m
    BY <1>4, <2>1 DEF FirstDifference
  <2>3. k \in Nat \ {0} /\ k <= n /\ s[k] # t[k]
    BY <1>2
  <2>4. ASSUME NEW m \in Nat \ {0}, m < k PROVE m <= Len(s) /\ m <= Len(t) /\ s[m] = t[m]
    <3>1. m \in 1..shorter /\ m \notin different
      BY <1>2, <2>2, <2>3, <2>4
    <3>2. s[m] = t[m]
      BY <3>1
    <3> QED
      BY <1>1, <1>2, <2>3, <2>4, <3>2
  <2> QED
    BY <1>1, <1>2, <2>2, <2>3, <2>4
<1> QED
  BY <1>3, <1>4

LEMMA SameDifference ==
    ASSUME NEW s \in Seq(0..9), NEW t \in Seq(0..9)
    PROVE  FirstDifference(s, t) = FirstDifference(t, s)
<1>1. PICK a \in Nat \ {0}, b \in Nat \ {0} : a = FirstDifference(s, t) /\ b = FirstDifference(t, s)
  BY FirstDifferenceIs, Zenon
<1>2. Len(s) \in Nat /\ Len(t) \in Nat
  OBVIOUS
<1>3. /\ a <= Len(s) + 1 /\ a <= Len(t) + 1
      /\ \A m \in Nat \ {0} : m < a => m <= Len(s) /\ m <= Len(t) /\ s[m] = t[m]
      /\ a <= Len(s) /\ a <= Len(t) => s[a] # t[a]
  BY <1>1, FirstDifferenceIs
<1>4. /\ b <= Len(t) + 1 /\ b <= Len(s) + 1
      /\ \A m \in Nat \ {0} : m < b => m <= Len(t) /\ m <= Len(s) /\ t[m] = s[m]
      /\ b <= Len(t) /\ b <= Len(s) => t[b] # s[b]
  BY <1>1, FirstDifferenceIs
<1>5. ~ (a < b) /\ ~ (b < a)
  BY <1>3, <1>4
<1> QED
  BY <1>1, <1>5

LEMMA Digits ==
    ASSUME NEW s \in Seq(0..9), NEW m \in Nat \ {0}
    PROVE  /\ Digit(s, m) \in 0..10
           /\ Digit(s, m) < 10 <=> m <= Len(s)
           /\ m <= Len(s) => Digit(s, m) = s[m] /\ s[m] \in 0..9
           /\ m > Len(s) => Digit(s, m) = 10
<1>1. Len(s) \in Nat
  OBVIOUS
<1>2. CASE m <= Len(s)
  <2>1. m \in 1..Len(s)
    BY <1>1, <1>2
  <2>2. s[m] \in 0..9
    BY <2>1
  <2>3. Digit(s, m) = s[m]
    BY <2>1 DEF Digit
  <2> QED
    BY <1>1, <1>2, <2>2, <2>3
<1>3. CASE m > Len(s)
  <2>1. Digit(s, m) = 10
    BY <1>1, <1>3 DEF Digit
  <2> QED
    BY <1>1, <1>3, <2>1
<1> QED
  BY <1>1, <1>2, <1>3

LEMMA ByDigits ==
    ASSUME NEW s \in Seq(0..9), NEW t \in Seq(0..9)
    PROVE  FracBefore(s, t) <=>
              \E m \in Nat \ {0} :
                  /\ \A l \in Nat \ {0} : l < m => Digit(s, l) = Digit(t, l)
                  /\ Digit(s, m) < Digit(t, m)
<1>1. PICK k \in Nat \ {0} : k = FirstDifference(s, t)
  BY FirstDifferenceIs, Zenon
<1>2. Len(s) \in Nat /\ Len(t) \in Nat
  OBVIOUS
<1>3. /\ k <= Len(s) + 1 /\ k <= Len(t) + 1
      /\ \A m \in Nat \ {0} : m < k => m <= Len(s) /\ m <= Len(t) /\ s[m] = t[m]
      /\ k <= Len(s) /\ k <= Len(t) => s[k] # t[k]
  BY <1>1, FirstDifferenceIs
<1>4. FracBefore(s, t) <=> k <= Len(s) /\ (k <= Len(t) => s[k] < t[k])
  BY <1>1 DEF FracBefore
<1>5. ASSUME FracBefore(s, t)
      PROVE  \E m \in Nat \ {0} :
                /\ \A l \in Nat \ {0} : l < m => Digit(s, l) = Digit(t, l)
                /\ Digit(s, m) < Digit(t, m)
  <2>1. ASSUME NEW l \in Nat \ {0}, l < k PROVE Digit(s, l) = Digit(t, l)
    BY <1>3, <2>1, Digits
  <2>2. Digit(s, k) < Digit(t, k)
    <3>1. CASE k <= Len(t)
      BY <1>4, <1>5, <3>1, Digits
    <3>2. CASE k > Len(t)
      BY <1>4, <1>5, <3>2, Digits
    <3> QED
      BY <1>2, <3>1, <3>2
  <2> QED
    BY <2>1, <2>2
<1>6. ASSUME NEW m \in Nat \ {0}, Digit(s, m) < Digit(t, m),
             \A l \in Nat \ {0} : l < m => Digit(s, l) = Digit(t, l)
      PROVE  FracBefore(s, t)
  <2>1. ~ (m < k)
    <3> SUFFICES ASSUME m < k PROVE FALSE
      OBVIOUS
    <3>1. m <= Len(s) /\ m <= Len(t) /\ s[m] = t[m]
      BY <1>3
    <3>2. Digit(s, m) = Digit(t, m) /\ Digit(s, m) \in 0..10
      BY <3>1, Digits
    <3> QED
      BY <1>6, <3>2
  <2>2. ~ (k < m)
    <3> SUFFICES ASSUME k < m PROVE FALSE
      OBVIOUS
    <3>1. Digit(s, k) = Digit(t, k)
      BY <1>6
    <3>2. k <= Len(s) <=> k <= Len(t)
      BY <3>1, Digits
    <3>3. CASE k <= Len(s)
      <4>1. Digit(s, k) = s[k] /\ Digit(t, k) = t[k]
        BY <3>2, <3>3, Digits
      <4> QED
        BY <1>3, <3>1, <3>2, <3>3, <4>1
    <3>4. CASE ~ (k <= Len(s))
      <4>1. m > Len(s) /\ m > Len(t)
        BY <1>2, <3>2, <3>4
      <4>2. Digit(s, m) = 10 /\ Digit(t, m) = 10
        BY <4>1, Digits
      <4> QED
        BY <1>6, <4>2
    <3> QED
      BY <3>3, <3>4
  <2>3. m = k
    BY <2>1, <2>2
  <2>4. Digit(s, k) \in 0..10 /\ Digit(t, k) \in 0..10 /\ Digit(s, k) < Digit(t, k)
    BY <1>6, <2>3, Digits
  <2>5. k <= Len(s) /\ Digit(s, k) = s[k]
    <3>1. Digit(s, k) < 10
      BY <2>4
    <3> QED
      BY <3>1, Digits
  <2>6. k <= Len(t) => Digit(t, k) = t[k]
    BY Digits
  <2> QED
    BY <1>4, <2>4, <2>5, <2>6
<1> QED
  BY <1>5, <1>6

(* A strict order, in which only equal fractions tie. *)
LEMMA FracOrder ==
    ASSUME NEW s \in Seq(0..9), NEW t \in Seq(0..9), NEW u \in Seq(0..9)
    PROVE  /\ ~ (FracBefore(s, t) /\ FracBefore(t, s))
           /\ FracBefore(s, t) /\ FracBefore(t, u) => FracBefore(s, u)
           /\ FracBefore(s, t) \/ FracBefore(t, s) \/ s = t
<1>1. ~ (FracBefore(s, t) /\ FracBefore(t, s))
  <2> SUFFICES ASSUME FracBefore(s, t), FracBefore(t, s) PROVE FALSE
    OBVIOUS
  <2>1. PICK m \in Nat \ {0} :
           /\ \A l \in Nat \ {0} : l < m => Digit(s, l) = Digit(t, l)
           /\ Digit(s, m) < Digit(t, m)
    BY ByDigits
  <2>2. PICK n \in Nat \ {0} :
           /\ \A l \in Nat \ {0} : l < n => Digit(t, l) = Digit(s, l)
           /\ Digit(t, n) < Digit(s, n)
    BY ByDigits
  <2>3. /\ Digit(s, m) \in 0..10 /\ Digit(t, m) \in 0..10
        /\ Digit(s, n) \in 0..10 /\ Digit(t, n) \in 0..10
    BY Digits
  <2>4. ~ (m < n) /\ ~ (n < m) /\ m # n
    BY <2>1, <2>2, <2>3, SMTT(30)
  <2> QED
    BY <2>4
<1>2. ASSUME FracBefore(s, t), FracBefore(t, u) PROVE FracBefore(s, u)
  <2>1. PICK m \in Nat \ {0} :
           /\ \A l \in Nat \ {0} : l < m => Digit(s, l) = Digit(t, l)
           /\ Digit(s, m) < Digit(t, m)
    BY <1>2, ByDigits
  <2>2. PICK n \in Nat \ {0} :
           /\ \A l \in Nat \ {0} : l < n => Digit(t, l) = Digit(u, l)
           /\ Digit(t, n) < Digit(u, n)
    BY <1>2, ByDigits
  <2>3. \A l \in Nat \ {0} : Digit(s, l) \in 0..10 /\ Digit(t, l) \in 0..10 /\ Digit(u, l) \in 0..10
    BY Digits
  <2>4. CASE m <= n
    <3>1. \A l \in Nat \ {0} : l < m => Digit(s, l) = Digit(u, l)
      BY <2>1, <2>2, <2>4
    <3>2. Digit(t, m) <= Digit(u, m)
      BY <2>2, <2>3, <2>4, SMTT(30)
    <3>3. Digit(s, m) < Digit(u, m)
      <4>1. \A x, y, z \in 0..10 : x < y /\ y <= z => x < z
        OBVIOUS
      <4> QED
        BY <2>1, <2>3, <3>2, <4>1
    <3> QED
      BY <3>1, <3>3, ByDigits
  <2>5. CASE n < m
    <3>1. \A l \in Nat \ {0} : l < n => Digit(s, l) = Digit(u, l)
      BY <2>1, <2>2, <2>5
    <3>2. Digit(s, n) < Digit(u, n)
      BY <2>1, <2>2, <2>5
    <3> QED
      BY <3>1, <3>2, ByDigits
  <2> QED
    BY <2>4, <2>5
<1>3. FracBefore(s, t) \/ FracBefore(t, s) \/ s = t
  <2>1. PICK k \in Nat \ {0} : k = FirstDifference(s, t) /\ k = FirstDifference(t, s)
    BY FirstDifferenceIs, SameDifference
  <2>2. Len(s) \in Nat /\ Len(t) \in Nat
    OBVIOUS
  <2>3. /\ k <= Len(s) + 1 /\ k <= Len(t) + 1
        /\ \A m \in Nat \ {0} : m < k => m <= Len(s) /\ m <= Len(t) /\ s[m] = t[m]
        /\ k <= Len(s) /\ k <= Len(t) => s[k] # t[k]
    BY <2>1, FirstDifferenceIs, SMTT(30)
  <2>4. CASE k <= Len(s) /\ k <= Len(t)
    <3>1. s[k] \in 0..9 /\ t[k] \in 0..9 /\ s[k] # t[k]
      BY <2>3, <2>4, Digits
    <3>2. s[k] < t[k] \/ t[k] < s[k]
      <4>1. \A x, y \in 0..9 : x # y => x < y \/ y < x
        OBVIOUS
      <4> QED
        BY <3>1, <4>1
    <3> QED
      BY <2>1, <2>4, <3>2 DEF FracBefore
  <2>5. CASE k <= Len(s) /\ ~ (k <= Len(t))
    BY <2>1, <2>5 DEF FracBefore
  <2>6. CASE ~ (k <= Len(s)) /\ k <= Len(t)
    BY <2>1, <2>6 DEF FracBefore
  <2>7. CASE ~ (k <= Len(s)) /\ ~ (k <= Len(t))
    <3>1. Len(s) = Len(t) /\ k = Len(s) + 1
      BY <2>2, <2>3, <2>7
    <3>2. \A m \in 1..Len(s) : s[m] = t[m]
      BY <2>2, <2>3, <3>1
    <3> QED
      BY <3>1, <3>2
  <2> QED
    BY <2>4, <2>5, <2>6, <2>7
<1> QED
  BY <1>1, <1>2, <1>3

-----------------------------------------------------------------------------
(* ORDER BY.                                                               *)

LEMMA RowIs ==
    ASSUME NEW i \in Ids
    PROVE  /\ i \in Nat /\ Row[i].age \in Nat /\ Row[i].sec \in Nat
           /\ Row[i].frac \in Seq(0..9)
BY RowAssumption DEF Ids

LEMMA TextIs ==
    ASSUME NEW i \in Ids, NEW j \in Ids
    PROVE  TextBefore(i, j) <=> \/ Row[i].sec < Row[j].sec
                                \/ Row[i].sec = Row[j].sec /\ FracBefore(Row[i].frac, Row[j].frac)
BY DEF TextBefore, FracBefore

(* The order of a column: strict, and ties are equal values. *)
LEMMA ColumnOrder ==
    ASSUME NEW f, NEW i \in Ids, NEW j \in Ids, NEW k \in Ids
    PROVE  /\ ~ (ColumnBefore(f, i, j) /\ ColumnBefore(f, j, i))
           /\ ColumnBefore(f, i, j) /\ ColumnBefore(f, j, k) => ColumnBefore(f, i, k)
           /\ ColumnBefore(f, i, j) => ColumnBefore(f, i, k) \/ ColumnBefore(f, k, j)
<1>1. CASE f.sortBy = "age"
  <2>1. Row[i].age \in Nat /\ Row[j].age \in Nat /\ Row[k].age \in Nat
    BY RowIs
  <2> QED
    BY <1>1, <2>1 DEF ColumnBefore
<1>2. CASE f.sortBy # "age"
  <2> DEFINE s == Row[i].frac
             t == Row[j].frac
             u == Row[k].frac
  <2>1. PICK x \in Nat, y \in Nat, z \in Nat :
           x = Row[i].sec /\ y = Row[j].sec /\ z = Row[k].sec
    BY RowIs, Zenon
  <2>2. s \in Seq(0..9) /\ t \in Seq(0..9) /\ u \in Seq(0..9)
    BY RowIs
  <2>3. /\ TextBefore(i, j) <=> x < y \/ (x = y /\ FracBefore(s, t))
        /\ TextBefore(j, i) <=> y < x \/ (x = y /\ FracBefore(t, s))
        /\ TextBefore(j, k) <=> y < z \/ (y = z /\ FracBefore(t, u))
        /\ TextBefore(i, k) <=> x < z \/ (x = z /\ FracBefore(s, u))
        /\ TextBefore(k, j) <=> z < y \/ (y = z /\ FracBefore(u, t))
    BY <2>1, TextIs
  <2>4. /\ ~ (FracBefore(s, t) /\ FracBefore(t, s))
        /\ FracBefore(s, t) /\ FracBefore(t, u) => FracBefore(s, u)
        /\ FracBefore(u, s) /\ FracBefore(s, t) => FracBefore(u, t)
        /\ FracBefore(s, u) \/ FracBefore(u, s) \/ s = u
    BY <2>2, FracOrder
  <2>5. ~ (TextBefore(i, j) /\ TextBefore(j, i))
    BY <2>3, <2>4
  <2>6. TextBefore(i, j) /\ TextBefore(j, k) => TextBefore(i, k)
    BY <2>3, <2>4
  <2>7. TextBefore(i, j) => TextBefore(i, k) \/ TextBefore(k, j)
    <3> HIDE DEF s, t, u
    <3>1. CASE x < y
      BY <2>3, <3>1
    <3>2. CASE x = y /\ FracBefore(s, t)
      <4>1. CASE x < z
        BY <2>3, <4>1
      <4>2. CASE z < x
        BY <2>3, <3>2, <4>2
      <4>3. CASE x = z
        <5>1. FracBefore(s, u) \/ FracBefore(u, t)
          BY <2>4, <3>2
        <5> QED
          BY <2>3, <3>2, <4>3, <5>1
      <4> QED
        BY <4>1, <4>2, <4>3
    <3> QED
      BY <2>3, <3>1, <3>2
  <2> QED
    BY <1>2, <2>5, <2>6, <2>7 DEF ColumnBefore
<1> QED
  BY <1>1, <1>2

(* With the id behind it: a strict total order. *)
LEMMA TotalOrder ==
    ASSUME NEW f, NEW i \in Ids, NEW j \in Ids, NEW k \in Ids
    PROVE  /\ ~ (Before(f, i, j) /\ Before(f, j, i))
           /\ Before(f, i, j) /\ Before(f, j, k) => Before(f, i, k)
           /\ Before(f, i, j) \/ Before(f, j, i) \/ i = j
<1> DEFINE C(a, b) == IF f.order = "desc" THEN ColumnBefore(f, b, a) ELSE ColumnBefore(f, a, b)
<1>1. i \in Nat /\ j \in Nat /\ k \in Nat
  BY RowIs
<1>2. \A a, b \in Ids : Before(f, a, b) <=> C(a, b) \/ (~ C(b, a) /\ a < b)
  BY DEF Before
<1>3. \A a, b, c \in Ids :
         /\ ~ (C(a, b) /\ C(b, a))
         /\ C(a, b) /\ C(b, c) => C(a, c)
         /\ C(a, b) => C(a, c) \/ C(c, b)
  BY ColumnOrder
<1> HIDE DEF C
<1>4. ~ (Before(f, i, j) /\ Before(f, j, i))
  BY <1>1, <1>2, <1>3
<1>5. Before(f, i, j) \/ Before(f, j, i) \/ i = j
  BY <1>1, <1>2
<1>6. ASSUME Before(f, i, j), Before(f, j, k) PROVE Before(f, i, k)
  <2>1. ~ C(j, i) /\ ~ C(k, j)
    BY <1>2, <1>3, <1>6
  <2>2. ~ C(k, i)
    BY <1>3, <2>1
  <2>3. CASE C(i, j)
    <3>1. C(i, k)
      BY <1>3, <2>1, <2>3
    <3> QED
      BY <1>2, <3>1
  <2>4. CASE C(j, k)
    <3>1. C(i, k)
      BY <1>3, <2>1, <2>4
    <3> QED
      BY <1>2, <3>1
  <2>5. CASE ~ C(i, j) /\ ~ C(j, k)
    <3>1. i < j /\ j < k
      BY <1>2, <1>6, <2>5
    <3>2. i < k
      BY <1>1, <3>1
    <3> QED
      BY <1>2, <2>2, <3>2
  <2> QED
    BY <2>3, <2>4, <2>5
<1> QED
  BY <1>4, <1>5, <1>6

-----------------------------------------------------------------------------
(* Ranks.                                                                  *)

LEMMA MatchingIs ==
    ASSUME NEW f, table \in SUBSET Ids
    PROVE  /\ Matching(f) \subseteq Ids /\ IsFiniteSet(Matching(f))
           /\ Cardinality(Matching(f)) \in Nat /\ Cardinality(Matching(f)) <= MaxInt
<1>1. Matching(f) \in SUBSET Ids
  BY DEF Matching
<1>2. IsFiniteSet(Matching(f)) /\ Cardinality(Matching(f)) <= Cardinality(Ids)
  BY <1>1, CountAssumption, FS_Subset
<1>3. Cardinality(Matching(f)) \in Nat /\ Cardinality(Ids) \in Nat /\ MaxInt \in Nat
  BY <1>2, CountAssumption, NumbersAssumption, FS_CardinalityType
<1> QED
  BY <1>1, <1>2, <1>3, CountAssumption

Ahead(f, i) == {j \in Matching(f) : Before(f, j, i)}

LEMMA AheadIs ==
    ASSUME NEW f, table \in SUBSET Ids, NEW i \in Ids
    PROVE  /\ IsFiniteSet(Ahead(f, i)) /\ Cardinality(Ahead(f, i)) \in Nat
           /\ Rank(f, i) = 1 + Cardinality(Ahead(f, i))
<1>1. Ahead(f, i) \in SUBSET Matching(f)
  BY DEF Ahead
<1>2. IsFiniteSet(Ahead(f, i))
  BY <1>1, MatchingIs, FS_Subset
<1> QED
  BY <1>2, FS_CardinalityType DEF Rank, Ahead

LEMMA RankInRange ==
    ASSUME NEW f, table \in SUBSET Ids, NEW i \in Matching(f)
    PROVE  Rank(f, i) \in 1..Cardinality(Matching(f))
<1>1. i \in Ids
  BY MatchingIs
<1>2. Ahead(f, i) \in SUBSET Matching(f) /\ i \notin Ahead(f, i)
  BY <1>1, TotalOrder DEF Ahead
<1>3. /\ Cardinality(Ahead(f, i)) <= Cardinality(Matching(f))
      /\ Cardinality(Ahead(f, i)) # Cardinality(Matching(f))
  BY <1>2, MatchingIs, FS_Subset
<1> QED
  BY <1>1, <1>3, AheadIs, MatchingIs

LEMMA RankFollows ==
    ASSUME NEW f, table \in SUBSET Ids, NEW i \in Matching(f), NEW j \in Matching(f)
    PROVE  /\ Before(f, i, j) <=> Rank(f, i) < Rank(f, j)
           /\ Rank(f, i) = Rank(f, j) => i = j
<1>1. ASSUME NEW x \in Matching(f), NEW y \in Matching(f), Before(f, x, y)
      PROVE  Rank(f, x) < Rank(f, y)
  <2>1. x \in Ids /\ y \in Ids /\ Matching(f) \subseteq Ids
    BY MatchingIs
  <2>2. Ahead(f, x) \in SUBSET Ahead(f, y)
    BY <1>1, <2>1, TotalOrder DEF Ahead
  <2>3. x \in Ahead(f, y) /\ x \notin Ahead(f, x)
    BY <1>1, <2>1, TotalOrder DEF Ahead
  <2>4. /\ Cardinality(Ahead(f, x)) <= Cardinality(Ahead(f, y))
        /\ Cardinality(Ahead(f, x)) # Cardinality(Ahead(f, y))
    BY <2>1, <2>2, <2>3, AheadIs, FS_Subset
  <2> QED
    BY <2>1, <2>4, AheadIs
<1>2. i \in Ids /\ j \in Ids
  BY MatchingIs
<1>3. Before(f, i, j) \/ Before(f, j, i) \/ i = j
  BY <1>2, TotalOrder
<1>4. PICK m \in Nat, n \in Nat : m = Rank(f, i) /\ n = Rank(f, j)
  <2>1. Rank(f, i) \in Nat /\ Rank(f, j) \in Nat
    BY <1>2, AheadIs
  <2> QED
    BY <2>1, Zenon
<1>5. (Before(f, i, j) => m < n) /\ (Before(f, j, i) => n < m) /\ (i = j => m = n)
  BY <1>1, <1>4
<1> QED
  BY <1>3, <1>4, <1>5

(* As no two rows have one rank, some row has the last. *)
LEMMA RanksReach ==
    ASSUME NEW f, table \in SUBSET Ids, NEW x \in Nat
    PROVE  x < Cardinality(Matching(f)) <=> \E i \in Matching(f) : Rank(f, i) > x
<1>1. PICK c \in Nat : c = Cardinality(Matching(f))
  BY MatchingIs, Zenon
<1>2. \A i \in Matching(f) : Rank(f, i) \in 1..c
  BY <1>1, RankInRange
<1>3. ASSUME x < c, \A i \in Matching(f) : ~ (Rank(f, i) > x) PROVE FALSE
  <2> DEFINE r == [i \in Matching(f) |-> Rank(f, i)]
  <2>1. \A i \in Matching(f) : Rank(f, i) \in 1..x
    BY <1>2, <1>3
  <2>2. r \in [Matching(f) -> 1..x]
    BY <2>1
  <2>3. IsFiniteSet(1..x) /\ Cardinality(1..x) = x
    BY FS_Interval
  <2>4. IsFiniteSet(Matching(f)) /\ Cardinality(1..x) < Cardinality(Matching(f))
    BY <1>1, <1>3, <2>3, MatchingIs
  <2>5. \E i, j \in Matching(f) : i # j /\ r[i] = r[j]
    <3> HIDE DEF r
    <3> QED
      BY <2>2, <2>3, <2>4, FS_PigeonHole
  <2> QED
    BY <2>5, RankFollows
<1>4. ASSUME NEW i \in Matching(f), Rank(f, i) > x PROVE x < c
  BY <1>2, <1>4
<1> QED
  BY <1>1, <1>3, <1>4

(* Filters that ask for one list; page and limit do not matter to it. *)
SameList(f, g) ==
    /\ f.gender = g.gender /\ f.minAge = g.minAge /\ f.minProb = g.minProb
    /\ f.sortBy = "age" <=> g.sortBy = "age"
    /\ f.order = "desc" <=> g.order = "desc"

LEMMA SameRanks ==
    ASSUME NEW f, NEW g, SameList(f, g)
    PROVE  Matching(f) = Matching(g) /\ \A i : Rank(f, i) = Rank(g, i)
<1>1. Matching(f) = Matching(g)
  BY DEF SameList, Matching
<1>2. \A i, j : ColumnBefore(f, i, j) <=> ColumnBefore(g, i, j)
  BY DEF SameList, ColumnBefore
<1>3. \A i, j : Before(f, i, j) <=> Before(g, i, j)
  BY <1>2 DEF SameList, Before
<1>4. ASSUME NEW i PROVE Rank(f, i) = Rank(g, i)
  <2>1. {j \in Matching(f) : Before(f, j, i)} = {j \in Matching(g) : Before(g, j, i)}
    BY <1>1, <1>3
  <2> QED
    BY <2>1 DEF Rank
<1> QED
  BY <1>1, <1>4

-----------------------------------------------------------------------------
(* Pages.                                                                  *)

LEMMA FilterIs ==
    ASSUME NEW raw \in Raws, Accepts(raw)
    PROVE  /\ Filter(raw).page \in 1..MaxInt /\ Filter(raw).limit \in 1..MaxLimit
           /\ Filter(raw).page \in Nat \ {0} /\ Filter(raw).limit \in Nat \ {0}
           /\ Filter(raw).gender = IF raw.gender = "Male" THEN "male" ELSE raw.gender
           /\ Filter(raw).minAge = raw.minAge /\ Filter(raw).minProb = raw.minProb
           /\ Filter(raw).sortBy = raw.sortBy /\ raw.sortBy \in {"", "created_at", "age"}
           /\ Filter(raw).order = raw.order /\ raw.order \in {"", "asc", "desc"}
<1>1. MaxInt \in Nat /\ MaxLimit \in 1..MaxInt /\ DefaultLimit \in 1..MaxLimit
  BY NumbersAssumption
<1>2. raw \in [gender : {"", "male", "Male", "other"}, minAge : Int, minProb : Int,
               sortBy : {"", "created_at", "age", "name"},
               order : {"", "asc", "desc", "up"}, page : Int, limit : Int]
  BY RawsAssumption
<1>3. /\ Filter(raw).page = IF raw.page = Absent THEN 1 ELSE raw.page
      /\ Filter(raw).limit = IF raw.limit = Absent THEN DefaultLimit ELSE Least(raw.limit, MaxLimit)
      /\ Filter(raw).gender = IF raw.gender = "Male" THEN "male" ELSE raw.gender
      /\ Filter(raw).minAge = raw.minAge /\ Filter(raw).minProb = raw.minProb
      /\ Filter(raw).sortBy = raw.sortBy /\ Filter(raw).order = raw.order
  BY <1>2 DEF Filter
<1>4. Filter(raw).page \in 1..MaxInt
  BY <1>1, <1>3 DEF Accepts
<1>5. Filter(raw).limit \in 1..MaxLimit
  BY <1>1, <1>3 DEF Accepts, Least
<1>6. raw.sortBy \in {"", "created_at", "age"} /\ raw.order \in {"", "asc", "desc"}
  BY <1>2 DEF Accepts
<1>7. MaxLimit \in Nat /\ Filter(raw).page \in Nat \ {0} /\ Filter(raw).limit \in Nat \ {0}
  BY <1>1, <1>4, <1>5
<1> QED
  BY <1>3, <1>4, <1>5, <1>6, <1>7

LEMMA OffsetIs ==
    ASSUME NEW f, f.page \in Nat \ {0}, f.limit \in Nat \ {0}
    PROVE  /\ (f.page - 1) * f.limit \in Nat
           /\ (f.page - 1) * f.limit <= MaxInt => Offset(f) = (f.page - 1) * f.limit
           /\ Offset(f) \in Nat
<1>1. PICK n \in Nat : n = (f.page - 1) * f.limit
  <2>1. f.page - 1 \in Nat
    OBVIOUS
  <2>2. (f.page - 1) * f.limit \in Nat
    BY <2>1, Monotone
  <2> QED
    BY <2>2, Zenon
<1>2. MaxInt \in Nat
  BY NumbersAssumption
<1>3. n <= MaxInt => Wrap(n) = n
  BY <1>2 DEF Wrap
<1>4. Wrap(n) \in Int
  BY <1>2 DEF Wrap
<1>5. Offset(f) = IF Wrap(n) < 0 THEN 0 ELSE Wrap(n)
  BY <1>1 DEF Offset
<1>6. Offset(f) \in Nat
  BY <1>4, <1>5
<1>7. n <= MaxInt => Offset(f) = n
  BY <1>3, <1>5
<1> QED
  BY <1>1, <1>6, <1>7

LEMMA OnPage ==
    ASSUME NEW f, NEW i, NEW k
    PROVE  <<k, i>> \in Rows(f) <=>
              i \in Matching(f) /\ k = Rank(f, i) - Offset(f) /\ k \in 1..f.limit
BY DEF Rows

-----------------------------------------------------------------------------
(* TypeOK is inductive.                                                    *)

LEMMA BodyKept == ASSUME table' = table PROVE \A raw : Body(raw)' = Body(raw)
BY DEF Body, Rows, Rank, Matching, HasNext, HasPrev, TotalPages, Offset, Before, ColumnBefore

LEMMA ListStart == Init => TypeOK
BY DEF Init, TypeOK

LEMMA ListStep == TypeOK /\ [Next]_vars => TypeOK'
<1> SUFFICES ASSUME TypeOK, [Next]_vars PROVE TypeOK'
  OBVIOUS
<1>1. ASSUME NEW raw \in Raws, Refused(raw) PROVE TypeOK'
  BY <1>1, BodyKept DEF Refused, TypeOK
<1>2. ASSUME NEW raw \in Raws, CacheHit(raw) PROVE TypeOK'
  BY <1>2, BodyKept DEF CacheHit, TypeOK
<1>3. ASSUME NEW raw \in Raws, CacheMiss(raw) PROVE TypeOK'
  <2>1. table' = table /\ Accepts(raw) /\ answer' = "page"
    BY <1>3 DEF CacheMiss
  <2>2. \A r : Body(r)' = Body(r)
    BY <2>1, BodyKept
  <2>3. CASE cached = NoBody
    <3>1. cached' = Body(raw) /\ Body(raw).raw = raw
      BY <1>3, <2>3 DEF CacheMiss, Body
    <3>2. cached'.raw \in Raws /\ Accepts(cached'.raw) /\ cached' = Body(cached'.raw)
      BY <2>1, <3>1
    <3> QED
      BY <2>1, <2>2, <3>2 DEF TypeOK
  <2>4. CASE cached # NoBody
    <3>1. cached' = cached
      BY <1>3, <2>4 DEF CacheMiss
    <3> QED
      BY <2>1, <2>2, <2>4, <3>1 DEF TypeOK
  <2> QED
    BY <2>3, <2>4
<1>4. ASSUME NEW i \in Ids, Insert(i) PROVE TypeOK'
  BY <1>4 DEF Insert, TypeOK
<1>5. ASSUME NEW i \in Ids, Delete(i) PROVE TypeOK'
  BY <1>5 DEF Delete, TypeOK
<1>6. CASE UNCHANGED vars
  BY <1>6, BodyKept DEF vars, TypeOK
<1> QED
  BY <1>1, <1>2, <1>3, <1>4, <1>5, <1>6 DEF Next

(* The body is always that of its request on the table as it is: in        *)
(* particular no write leaves one behind.                                  *)
THEOREM TypeCorrect == Spec => []TypeOK
BY ListStart, ListStep, PTL DEF Spec

-----------------------------------------------------------------------------
(* What a body shows.                                                      *)

LEMMA BodyIs ==
    ASSUME TypeOK, cached # NoBody
    PROVE  /\ table \in SUBSET Ids /\ cached.raw \in Raws /\ Accepts(cached.raw)
           /\ cached.key = Canonical(Filter(cached.raw))
           /\ cached.total = Cardinality(Matching(Filter(cached.raw)))
           /\ cached.rows = Rows(Filter(cached.raw))
           /\ cached.next = HasNext(Filter(cached.raw))
           /\ cached.prev = HasPrev(Filter(cached.raw))
<1>1. table \in SUBSET Ids /\ cached.raw \in Raws /\ Accepts(cached.raw) /\ cached = Body(cached.raw)
  BY DEF TypeOK
<1>2. PICK raw \in Raws : raw = cached.raw /\ cached = Body(raw)
  BY <1>1
<1>3. /\ Body(raw).key = Canonical(Filter(raw)) /\ Body(raw).rows = Rows(Filter(raw))
      /\ Body(raw).total = Cardinality(Matching(Filter(raw)))
      /\ Body(raw).next = HasNext(Filter(raw)) /\ Body(raw).prev = HasPrev(Filter(raw))
  BY DEF Body
<1> QED
  BY <1>1, <1>2, <1>3

LEMMA NotEmpty == ASSUME NEW r, NEW x \in DOMAIN r PROVE r # << >>
<1>1. DOMAIN << >> = 1..0
  OBVIOUS
<1>2. 1..0 = {}
  OBVIOUS
<1> QED
  BY <1>1, <1>2

(* The canonical form, field by field. *)
LEMMA CanonicalIs ==
    ASSUME NEW raw \in Raws
    PROVE  /\ Canonical(Filter(raw)).gender = Filter(raw).gender
           /\ Canonical(Filter(raw)).minAge = Filter(raw).minAge
           /\ Canonical(Filter(raw)).minProb = TrimFloat(Filter(raw).minProb)
           /\ Canonical(Filter(raw)).sortBy =
                 IF Filter(raw).sortBy = "" THEN "created_at" ELSE Filter(raw).sortBy
           /\ Canonical(Filter(raw)).order =
                 IF Filter(raw).order = "" THEN "asc" ELSE Filter(raw).order
           /\ Canonical(Filter(raw)).page = Filter(raw).page
           /\ Canonical(Filter(raw)).limit = Filter(raw).limit
           /\ Canonical(Filter(raw)) # << >>
<1>1. raw \in [gender : {"", "male", "Male", "other"}, minAge : Int, minProb : Int,
               sortBy : {"", "created_at", "age", "name"},
               order : {"", "asc", "desc", "up"}, page : Int, limit : Int]
  BY RawsAssumption
<1>2. MaxLimit \in Int /\ DefaultLimit \in Int
  BY NumbersAssumption
<1>3. PICK f \in [gender : {"", "male", "Male", "other"}, minAge : Int, minProb : Int,
                  sortBy : {"", "created_at", "age", "name"},
                  order : {"", "asc", "desc", "up"}, page : Int, limit : Int] : f = Filter(raw)
  <2> DEFINE g == IF raw.gender = "Male" THEN "male" ELSE raw.gender
             p == IF raw.page = Absent THEN 1 ELSE raw.page
             l == IF raw.limit = Absent THEN DefaultLimit ELSE Least(raw.limit, MaxLimit)
  <2>1. g \in {"", "male", "Male", "other"} /\ p \in Int /\ l \in Int
    <3>1. raw.gender \in {"", "male", "Male", "other"} /\ raw.page \in Int /\ raw.limit \in Int
      BY <1>1
    <3>2. Least(raw.limit, MaxLimit) \in Int
      BY <1>2, <3>1 DEF Least
    <3>3. g \in {"", "male", "Male", "other"}
      BY <3>1
    <3>4. p \in Int
      <4>1. PICK n \in Int : n = raw.page
        BY <3>1, Zenon
      <4>2. CASE n = Absent
        BY <4>1, <4>2
      <4>3. CASE n # Absent
        BY <4>1, <4>3
      <4> QED
        BY <4>2, <4>3
    <3>5. l \in Int
      BY <1>2, <3>2
    <3> QED
      BY <3>3, <3>4, <3>5
  <2>2. Filter(raw) = [raw EXCEPT !.gender = g, !.page = p, !.limit = l]
    BY <1>1 DEF Filter
  <2> HIDE DEF g, p, l
  <2> QED
    BY <1>1, <2>1, <2>2
<1>4. "gender" \in DOMAIN Canonical(f)
  BY DEF Canonical
<1>5. Canonical(f) # << >>
  BY <1>4, NotEmpty
<1> QED
  BY <1>3, <1>5 DEF Canonical

LEMMA OwnHit == TypeOK => HitsAreOwn
<1> SUFFICES ASSUME TypeOK, NEW raw \in Raws, Hits(raw), ~ SameToSixDecimals(raw, cached.raw)
             PROVE  /\ cached.rows = Rows(Filter(raw))
                    /\ cached.total = Cardinality(Matching(Filter(raw)))
                    /\ cached.next = HasNext(Filter(raw))
                    /\ cached.prev = HasPrev(Filter(raw))
  BY DEF HitsAreOwn
<1>1. cached.key = Canonical(Filter(raw)) /\ Accepts(raw)
  BY DEF Hits
<1>2. cached # NoBody
  <2>1. Canonical(Filter(raw)) # << >>
    BY CanonicalIs
  <2>2. NoBody.key = << >>
    BY DEF NoBody
  <2> QED
    BY <1>1, <2>1, <2>2
<1>3. PICK other \in Raws : other = cached.raw
  BY <1>2, BodyIs
<1> DEFINE f == Filter(raw)
           g == Filter(other)
<1>4. Accepts(other) /\ Canonical(f) = Canonical(g)
  BY <1>1, <1>2, <1>3, BodyIs
<1>5. /\ f.gender = g.gender /\ f.minAge = g.minAge /\ f.page = g.page /\ f.limit = g.limit
      /\ TrimFloat(f.minProb) = TrimFloat(g.minProb)
      /\ (IF f.sortBy = "" THEN "created_at" ELSE f.sortBy) =
            (IF g.sortBy = "" THEN "created_at" ELSE g.sortBy)
      /\ (IF f.order = "" THEN "asc" ELSE f.order) = (IF g.order = "" THEN "asc" ELSE g.order)
  BY <1>4, CanonicalIs
<1>6. f.minProb = g.minProb
  <2>1. f.minProb = raw.minProb /\ g.minProb = other.minProb
    BY <1>1, <1>4, FilterIs
  <2> QED
    BY <1>3, <1>5, <2>1 DEF SameToSixDecimals
<1>7. (f.sortBy = "age" <=> g.sortBy = "age") /\ (f.order = "desc" <=> g.order = "desc")
  BY <1>5
<1>8. Matching(f) = Matching(g) /\ \A i : Rank(f, i) = Rank(g, i)
  BY <1>5, <1>6, <1>7, SameRanks DEF SameList
<1> HIDE DEF f, g
<1>9. Offset(f) = Offset(g) /\ TotalPages(f) = TotalPages(g)
  BY <1>5, <1>8 DEF Offset, TotalPages
<1>10. Rows(f) = Rows(g)
  <2>1. \A i : Rank(f, i) - Offset(f) = Rank(g, i) - Offset(g)
    BY <1>8, <1>9
  <2>2. ASSUME NEW x \in Rows(f) PROVE x \in Rows(g)
    <3>1. PICK i \in Matching(f) : x = <<Rank(f, i) - Offset(f), i>> /\ Rank(f, i) - Offset(f) \in 1..f.limit
      BY <2>2 DEF Rows
    <3> QED
      BY <1>5, <1>8, <2>1, <3>1 DEF Rows
  <2>3. ASSUME NEW x \in Rows(g) PROVE x \in Rows(f)
    <3>1. PICK i \in Matching(g) : x = <<Rank(g, i) - Offset(g), i>> /\ Rank(g, i) - Offset(g) \in 1..g.limit
      BY <2>3 DEF Rows
    <3> QED
      BY <1>5, <1>8, <2>1, <3>1 DEF Rows
  <2> QED
    BY <2>2, <2>3
<1>11. HasNext(f) = HasNext(g) /\ HasPrev(f) = HasPrev(g)
  BY <1>5, <1>9 DEF HasNext, HasPrev
<1> USE DEF f, g
<1> QED
  BY <1>2, <1>3, <1>8, <1>10, <1>11, BodyIs

(* A hit gives the request what it would have computed itself, however it  *)
(* is spelled, unless its probabilities differ past the sixth decimal.     *)
THEOREM HitsGiveOwn == Spec => []HitsAreOwn
BY TypeCorrect, OwnHit, PTL

LEMMA InPlace == TypeOK => PagesInPlace
<1> SUFFICES ASSUME TypeOK, cached # NoBody
             PROVE  LET f == Filter(cached.raw)
                        exact == (f.page - 1) * f.limit
                    IN  \/ \A i \in Matching(f) :
                              (\E k \in 1..f.limit : <<k, i>> \in cached.rows)
                                  <=> Rank(f, i) \in exact + 1 .. exact + f.limit
                        \/ exact > MaxInt /\ f.page > TotalPages(f)
  BY DEF PagesInPlace
<1>1. PICK f : f = Filter(cached.raw)
  OBVIOUS
<1>2. table \in SUBSET Ids /\ cached.rows = Rows(f)
  BY <1>1, BodyIs
<1>3. f.page \in Nat \ {0} /\ f.limit \in Nat \ {0}
  BY <1>1, BodyIs, FilterIs
<1>4. PICK exact \in Nat : exact = (f.page - 1) * f.limit
  BY <1>3, OffsetIs, Zenon
<1>5. CASE exact <= MaxInt
  <2>1. Offset(f) = exact
    BY <1>3, <1>4, <1>5, OffsetIs
  <2>2. ASSUME NEW i \in Matching(f)
        PROVE  (\E k \in 1..f.limit : <<k, i>> \in cached.rows)
                   <=> Rank(f, i) \in exact + 1 .. exact + f.limit
    <3>1. Rank(f, i) \in Nat
      BY <1>2, MatchingIs, RankInRange
    <3>2. (\E k \in 1..f.limit : <<k, i>> \in Rows(f)) <=> Rank(f, i) - exact \in 1..f.limit
      BY <2>1, OnPage
    <3> QED
      BY <1>2, <1>3, <3>1, <3>2
  <2> QED
    BY <1>1, <1>4, <2>2
<1>6. CASE exact > MaxInt
  <2>1. Cardinality(Matching(f)) \in Nat /\ Cardinality(Matching(f)) <= MaxInt /\ MaxInt \in Nat
    BY <1>2, MatchingIs, NumbersAssumption
  <2>2. ~ (exact < Cardinality(Matching(f)))
    BY <1>6, <2>1
  <2>3. f.page - 1 \in Nat
    BY <1>3
  <2>4. TotalPages(f) \in Nat /\ ~ (f.page - 1 < TotalPages(f))
    BY <1>3, <1>4, <2>1, <2>2, <2>3, PageCount DEF TotalPages
  <2>5. f.page > TotalPages(f)
    BY <1>3, <2>4
  <2> QED
    BY <1>1, <1>4, <1>6, <2>5
<1> QED
  BY <1>4, <1>5, <1>6, NumbersAssumption

(* A page lies at its own place, unless it is too far out for an int.      *)
THEOREM PagesAtTheirPlaces == Spec => []PagesInPlace
BY TypeCorrect, InPlace, PTL

(* The list that the links of a body lead along is the body's own. *)
LEMMA FirstIs ==
    ASSUME NEW raw \in Raws, Accepts(raw)
    PROVE  LET first == Filter(LinkTo(raw, 1))
           IN  /\ SameList(first, Filter(raw)) /\ first.limit = Filter(raw).limit
               /\ \A p : LET h == [first EXCEPT !.page = p]
                         IN  h.page = p /\ h.limit = first.limit /\ SameList(h, first)
<1>1. raw \in [gender : {"", "male", "Male", "other"}, minAge : Int, minProb : Int,
               sortBy : {"", "created_at", "age", "name"},
               order : {"", "asc", "desc", "up"}, page : Int, limit : Int]
  BY RawsAssumption
<1>2. PICK l \in Nat \ {0} : l = Filter(raw).limit
  BY FilterIs, Zenon
<1>3. l <= MaxLimit /\ MaxLimit \in Int /\ l # Absent /\ 1 # Absent
  <2>1. l \in 1..MaxLimit
    BY <1>2, FilterIs
  <2>2. MaxLimit \in Int
    BY NumbersAssumption
  <2>3. l # Absent /\ 1 # Absent
    BY DEF Absent
  <2> QED
    BY <2>1, <2>2, <2>3
<1>4. Least(l, MaxLimit) = l
  BY <1>3 DEF Least
<1>5. PICK link : link = LinkTo(raw, 1)
  OBVIOUS
<1>6. link = [raw EXCEPT !.page = 1, !.limit = l]
  BY <1>2, <1>5 DEF LinkTo
<1>7. PICK gen : gen = IF raw.gender = "Male" THEN "male" ELSE raw.gender
  OBVIOUS
<1>8. PICK first : first = Filter(link)
  OBVIOUS
<1>9. first = [gender |-> gen, minAge |-> raw.minAge, minProb |-> raw.minProb,
               sortBy |-> raw.sortBy, order |-> raw.order, page |-> 1, limit |-> l]
  <2>1. link = [gender |-> raw.gender, minAge |-> raw.minAge, minProb |-> raw.minProb,
                sortBy |-> raw.sortBy, order |-> raw.order, page |-> 1, limit |-> l]
    BY <1>1, <1>6
  <2>2. Filter(link) = [link EXCEPT !.gender = gen, !.page = 1, !.limit = l]
    <3>1. link.gender = raw.gender /\ link.page = 1 /\ link.limit = l
      BY <2>1
    <3>2. (IF link.gender = "Male" THEN "male" ELSE link.gender) = gen
      BY <1>7, <3>1
    <3>3. (IF link.page = Absent THEN 1 ELSE link.page) = 1
      BY <3>1
    <3>4. (IF link.limit = Absent THEN DefaultLimit ELSE Least(link.limit, MaxLimit)) = l
      BY <1>3, <1>4, <3>1
    <3> QED
      BY <3>2, <3>3, <3>4 DEF Filter
  <2> QED
    BY <1>8, <2>1, <2>2
<1>10. /\ first.gender = gen /\ first.minAge = raw.minAge /\ first.minProb = raw.minProb
       /\ first.sortBy = raw.sortBy /\ first.order = raw.order /\ first.limit = l
  BY <1>9
<1>11. SameList(first, Filter(raw))
  BY <1>7, <1>10, FilterIs DEF SameList
<1>12. ASSUME NEW p, NEW h, h = [first EXCEPT !.page = p]
       PROVE  h.page = p /\ h.limit = first.limit /\ SameList(h, first)
  <2>1. h = [gender |-> gen, minAge |-> raw.minAge, minProb |-> raw.minProb,
             sortBy |-> raw.sortBy, order |-> raw.order, page |-> p, limit |-> l]
    BY <1>9, <1>12
  <2>2. /\ h.gender = gen /\ h.minAge = raw.minAge /\ h.minProb = raw.minProb
        /\ h.sortBy = raw.sortBy /\ h.order = raw.order /\ h.page = p /\ h.limit = l
    BY <2>1
  <2> QED
    BY <1>10, <2>2 DEF SameList
<1> QED
  BY <1>2, <1>5, <1>8, <1>10, <1>11, <1>12

LEMMA WalkIsWhole == TypeOK => NextVisitsEachRowOnce
<1> SUFFICES ASSUME TypeOK, cached # NoBody, NEW f, NEW first,
                    f = Filter(cached.raw), first = Filter(LinkTo(cached.raw, 1))
             PROVE  /\ cached.next <=> \E i \in Matching(first) :
                           Rank(first, i) > f.page * first.limit
                    /\ \A i \in Matching(first) :
                           Cardinality({p \in 1..TotalPages(first) : \E k \in 1..first.limit :
                               <<k, i>> \in Rows([first EXCEPT !.page = p])}) = 1
  BY DEF NextVisitsEachRowOnce
<1>1. PICK raw \in Raws : raw = cached.raw /\ Accepts(raw)
  BY BodyIs
<1>2. f = Filter(raw) /\ first = Filter(LinkTo(raw, 1))
  BY <1>1
<1>3. /\ SameList(first, f) /\ first.limit = f.limit
      /\ \A p, h : h = [first EXCEPT !.page = p] =>
             h.page = p /\ h.limit = first.limit /\ SameList(h, first)
  <2>1. LET g == Filter(LinkTo(raw, 1))
        IN  /\ SameList(g, Filter(raw)) /\ g.limit = Filter(raw).limit
            /\ \A p : LET h == [g EXCEPT !.page = p]
                      IN  h.page = p /\ h.limit = g.limit /\ SameList(h, g)
    BY <1>1, FirstIs
  <2> QED
    BY <1>2, <2>1
<1>4. table \in SUBSET Ids /\ cached.next = HasNext(f)
  BY <1>1, <1>2, BodyIs
<1>5. f.page \in Nat \ {0} /\ f.limit \in Nat \ {0}
  BY <1>1, <1>2, FilterIs
<1>6. PICK l \in Nat \ {0}, c \in Nat : l = first.limit /\ c = Cardinality(Matching(first)) /\ c <= MaxInt
  BY <1>3, <1>4, <1>5, MatchingIs
<1>7. PICK n \in Nat : n = TotalPages(first) /\ \A p \in Nat : p < n <=> p * l < c
  <2>1. (c + l - 1) \div l \in Nat /\ \A p \in Nat : p < (c + l - 1) \div l <=> p * l < c
    BY PageCount
  <2> QED
    BY <1>6, <2>1 DEF TotalPages
<1>8. cached.next <=> \E i \in Matching(first) : Rank(first, i) > f.page * l
  <2>1. Matching(first) = Matching(f) /\ \A i : Rank(first, i) = Rank(f, i)
    BY <1>3, SameRanks
  <2>2. TotalPages(f) = n
    BY <1>3, <1>7, <2>1 DEF TotalPages
  <2>3. HasNext(f) <=> f.page * l < c
    BY <1>5, <1>7, <2>2 DEF HasNext
  <2>4. f.page * l \in Nat
    BY <1>5, Monotone
  <2>5. f.page * l < c <=> \E i \in Matching(first) : Rank(first, i) > f.page * l
    BY <1>4, <1>6, <2>4, RanksReach
  <2> QED
    BY <1>4, <2>3, <2>5
<1>9. ASSUME NEW i \in Matching(first), NEW S,
             S = {p \in 1..TotalPages(first) : \E k \in 1..first.limit :
                    <<k, i>> \in Rows([first EXCEPT !.page = p])}
      PROVE  Cardinality(S) = 1
  <2>1. PICK r \in Nat \ {0} : r = Rank(first, i) /\ r <= c
    <3>1. Rank(first, i) \in 1..c
      BY <1>4, <1>6, RankInRange
    <3>2. Rank(first, i) \in Nat \ {0} /\ Rank(first, i) <= c
      BY <3>1
    <3> QED
      BY <3>2, Zenon
  <2>2. ASSUME NEW p \in 1..n
        PROVE  (\E k \in 1..l : <<k, i>> \in Rows([first EXCEPT !.page = p]))
                   <=> r - (p - 1) * l \in 1..l
    <3>1. PICK h : h = [first EXCEPT !.page = p]
      OBVIOUS
    <3>2. h.page = p /\ h.limit = l /\ SameList(h, first)
      BY <1>3, <1>6, <3>1
    <3>3. p \in Nat \ {0} /\ p - 1 \in Nat /\ p - 1 < n
      OBVIOUS
    <3>4. PICK m \in Nat : m = (p - 1) * l
      <4>1. (p - 1) * l \in Nat
        BY <3>3, Monotone
      <4> QED
        BY <4>1, Zenon
    <3>5. m < c /\ m <= MaxInt
      BY <1>6, <1>7, <3>3, <3>4, NumbersAssumption
    <3>6. Offset(h) = m
      BY <3>2, <3>3, <3>4, <3>5, OffsetIs
    <3>7. Matching(h) = Matching(first) /\ Rank(h, i) = r
      BY <2>1, <3>2, SameRanks
    <3>8. \A k : <<k, i>> \in Rows(h) <=> k = r - m /\ k \in 1..l
      BY <3>2, <3>6, <3>7, OnPage
    <3> QED
      BY <3>1, <3>4, <3>8
  <2>3. PICK p \in Nat \ {0} :
           /\ r - (p - 1) * l \in 1..l
           /\ \A q \in Nat \ {0} : r - (q - 1) * l \in 1..l => q = p
    BY OnePage
  <2>4. p \in 1..n
    <3>1. PICK m \in Nat : m = (p - 1) * l
      <4>1. p - 1 \in Nat
        OBVIOUS
      <4>2. (p - 1) * l \in Nat
        BY <4>1, Monotone
      <4> QED
        BY <4>2, Zenon
    <3>2. m < r /\ m < c
      BY <2>1, <2>3, <3>1
    <3>3. p - 1 \in Nat /\ p - 1 < n
      BY <1>7, <3>1, <3>2
    <3> QED
      BY <3>3
  <2>5. S = {p}
    <3>1. S = {q \in 1..n : \E k \in 1..l : <<k, i>> \in Rows([first EXCEPT !.page = q])}
      BY <1>6, <1>7, <1>9
    <3>2. \A q : q \in S <=> q \in 1..n /\ r - (q - 1) * l \in 1..l
      BY <2>2, <3>1
    <3>3. \A q \in 1..n : q \in Nat \ {0}
      OBVIOUS
    <3> QED
      BY <2>3, <2>4, <3>2, <3>3
  <2> QED
    BY <2>5, FS_Singleton
<1> QED
  BY <1>6, <1>8, <1>9

(* From page 1, `next` shows every matching row exactly once, and it is    *)
(* there exactly when rows are left.                                       *)
THEOREM WalkShowsEachRowOnce == Spec => []NextVisitsEachRowOnce
BY TypeCorrect, WalkIsWhole, PTL

LEMMA TimeOrdered == TypeOK => TimeOrderedUnlessPrefix
<1> SUFFICES ASSUME TypeOK, cached # NoBody, cached.key.sortBy = "created_at",
                    NEW x \in cached.rows, NEW y \in cached.rows, x[1] < y[1],
                    IF cached.key.order = "asc" THEN Earlier(y[2], x[2]) ELSE Earlier(x[2], y[2])
             PROVE  /\ Row[x[2]].sec = Row[y[2]].sec
                    /\ FirstDifference(Row[x[2]].frac, Row[y[2]].frac) >
                          Least(Len(Row[x[2]].frac), Len(Row[y[2]].frac))
  BY DEF TimeOrderedUnlessPrefix
<1>1. PICK raw \in Raws : raw = cached.raw /\ Accepts(raw)
  BY BodyIs
<1>2. PICK f : f = Filter(raw)
  OBVIOUS
<1>3. table \in SUBSET Ids /\ cached.rows = Rows(f) /\ cached.key = Canonical(f)
  BY <1>1, <1>2, BodyIs
<1>4. f.sortBy # "age" /\ (cached.key.order = "asc" <=> f.order # "desc")
  <2>1. /\ cached.key.sortBy = IF f.sortBy = "" THEN "created_at" ELSE f.sortBy
        /\ cached.key.order = IF f.order = "" THEN "asc" ELSE f.order
    BY <1>2, <1>3, CanonicalIs
  <2>2. f.order \in {"", "asc", "desc"}
    BY <1>1, <1>2, FilterIs
  <2> QED
    BY <2>1, <2>2
<1>5. PICK i \in Matching(f), j \in Matching(f) :
         /\ x = <<Rank(f, i) - Offset(f), i>> /\ y = <<Rank(f, j) - Offset(f), j>>
  BY <1>3 DEF Rows
<1>6. x[2] = i /\ y[2] = j /\ i \in Ids /\ j \in Ids
  BY <1>3, <1>5, MatchingIs
<1>7. Before(f, i, j)
  <2>1. Rank(f, i) \in Nat /\ Rank(f, j) \in Nat
    BY <1>3, <1>6, AheadIs
  <2>2. Offset(f) \in Nat
    BY <1>1, <1>2, FilterIs, OffsetIs
  <2>3. Rank(f, i) - Offset(f) < Rank(f, j) - Offset(f)
    BY <1>5
  <2>4. Rank(f, i) < Rank(f, j)
    BY <2>1, <2>2, <2>3
  <2> QED
    BY <1>3, <2>4, RankFollows
<1>8. ~ (IF f.order = "desc" THEN TextBefore(i, j) ELSE TextBefore(j, i))
  <2>1. ~ (IF f.order = "desc" THEN ColumnBefore(f, i, j) ELSE ColumnBefore(f, j, i))
    BY <1>6, <1>7, ColumnOrder DEF Before
  <2> QED
    BY <1>4, <2>1 DEF ColumnBefore
<1>9. ASSUME NEW a \in Ids, NEW b \in Ids, Earlier(a, b), ~ TextBefore(a, b)
      PROVE  /\ Row[a].sec = Row[b].sec
             /\ FirstDifference(Row[a].frac, Row[b].frac) > Len(Row[a].frac)
  <2>1. PICK k \in Nat \ {0} : k = FirstDifference(Row[a].frac, Row[b].frac)
    BY RowIs, FirstDifferenceIs, Zenon
  <2>2. Row[a].sec \in Nat /\ Row[b].sec \in Nat /\ Row[a].frac \in Seq(0..9) /\ Row[b].frac \in Seq(0..9)
    BY RowIs
  <2>3. ~ (Row[a].sec < Row[b].sec)
    BY <1>9 DEF TextBefore
  <2>4. /\ Row[a].sec = Row[b].sec /\ k <= Len(Row[b].frac)
        /\ k <= Len(Row[a].frac) => Row[a].frac[k] < Row[b].frac[k]
    BY <1>9, <2>1, <2>3 DEF Earlier
  <2>5. ~ (k <= Len(Row[a].frac))
    BY <1>9, <2>1, <2>4 DEF TextBefore
  <2> QED
    BY <2>1, <2>2, <2>4, <2>5
<1>10. /\ Row[i].frac \in Seq(0..9) /\ Row[j].frac \in Seq(0..9)
       /\ FirstDifference(Row[j].frac, Row[i].frac) = FirstDifference(Row[i].frac, Row[j].frac)
  BY <1>6, RowIs, SameDifference
<1>11. CASE f.order = "desc"
  <2>1. /\ Row[i].sec = Row[j].sec
        /\ FirstDifference(Row[i].frac, Row[j].frac) > Len(Row[i].frac)
    BY <1>4, <1>6, <1>8, <1>9, <1>11
  <2> QED
    BY <1>6, <1>10, <2>1, FirstDifferenceIs, SMTT(30) DEF Least
<1>12. CASE f.order # "desc"
  <2>1. /\ Row[j].sec = Row[i].sec
        /\ FirstDifference(Row[j].frac, Row[i].frac) > Len(Row[j].frac)
    BY <1>4, <1>6, <1>8, <1>9, <1>12
  <2>2. PICK k \in Nat, m \in Nat, n \in Nat :
           /\ k = FirstDifference(Row[i].frac, Row[j].frac)
           /\ m = Len(Row[i].frac) /\ n = Len(Row[j].frac)
    <3>1. Len(Row[i].frac) \in Nat /\ Len(Row[j].frac) \in Nat
      BY <1>10
    <3>2. FirstDifference(Row[i].frac, Row[j].frac) \in Nat
      BY <1>10, FirstDifferenceIs
    <3> QED
      BY <3>1, <3>2, Zenon
  <2>3. k > n /\ k > Least(m, n)
    BY <1>10, <2>1, <2>2 DEF Least
  <2> QED
    BY <1>6, <2>1, <2>2, <2>3
<1> QED
  BY <1>11, <1>12

(* By created_at, rows are in the order of their creation, except within a *)
(* second when one fraction is the beginning of the other.                 *)
THEOREM TextFollowsTime == Spec => []TimeOrderedUnlessPrefix
BY TypeCorrect, TimeOrdered, PTL
=============================================================================
