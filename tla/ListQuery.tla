------------------------------ MODULE ListQuery ------------------------------
(***************************************************************************)
(* GET /api/profiles as a function of its parameters: parseListQuery       *)
(* (handlers.go), the canonical form that keys the query cache             *)
(* (normalize.go), the filter, order and page that Store.List asks SQLite  *)
(* for (store.go) and the links of the page (pagination.go).               *)
(*                                                                         *)
(* The cache is followed through one body, any of those it holds, which    *)
(* later requests may be given instead of their own.  Writes drop it at    *)
(* once here; how requests and writes interleave is in ProfileService.  A  *)
(* parameter that is absent is "" or Absent; gender stands for the three   *)
(* filters on text, minProb for the two on probabilities, minAge for the   *)
(* two on ages.                                                            *)
(*                                                                         *)
(* Integers are as wide as the code's int: Atoi refuses what is above      *)
(* MaxInt, products wrap.  Probabilities count units of which trimFloat    *)
(* keeps multiples of Kept.                                                *)
(***************************************************************************)
EXTENDS Integers, Sequences, FiniteSets

CONSTANTS
    Row,          \* the profiles there may be: a function on their ids
    Raws,         \* the requests: records of parameters
    MaxInt,       \* the largest int
    DefaultLimit,
    MaxLimit,     \* cap on limit
    Certain,      \* units of probability in 1
    Kept          \* units of probability in 0.000001

Ids == DOMAIN Row
Absent == -1
NaN == -2         \* ParseFloat reads it, and it is not outside 0..1

(* sec, frac: created_at, a second and the digits of its fraction without  *)
(* the zeros at their end.                                                 *)
ASSUME RowAssumption ==
    /\ Ids \subseteq Nat
    /\ \A i \in Ids : Row[i] \in [gender : {"male", "female"}, age : Nat, prob : Nat,
                                  sec : Nat, frac : Seq(0..9)]
ASSUME RawsAssumption ==
    Raws \subseteq [gender : {"", "male", "Male", "other"}, minAge : Int, minProb : Int,
                    sortBy : {"", "created_at", "age", "name"},
                    order : {"", "asc", "desc", "up"}, page : Int, limit : Int]
ASSUME NumbersAssumption ==
    /\ MaxInt \in Nat /\ Certain \in Nat /\ Kept \in Nat \ {0}
    /\ DefaultLimit \in 1..MaxLimit /\ MaxLimit \in 1..MaxInt
(* COUNT( * ) fits an int. *)
ASSUME CountAssumption == IsFiniteSet(Ids) /\ Cardinality(Ids) <= MaxInt

VARIABLES
    table,        \* ids of the rows in table profiles
    cached,       \* a body in the cache, with its key; or NoBody
    answer        \* "none", "page" or "error": the last response

vars == <<table, cached, answer>>

-----------------------------------------------------------------------------
(* parseListQuery. *)

Accepts(raw) ==
    /\ raw.gender # "other"
    /\ raw.minAge \in {Absent} \cup 0..MaxInt
    /\ raw.minProb \in {Absent, NaN} \cup 0..Certain
    /\ raw.sortBy # "name"
    /\ raw.order # "up"
    /\ raw.page \in {Absent} \cup 1..MaxInt
    /\ raw.limit \in {Absent} \cup 1..MaxInt

Least(a, b) == IF a < b THEN a ELSE b

Filter(raw) ==
    [raw EXCEPT !.gender = IF @ = "Male" THEN "male" ELSE @,
                !.page = IF @ = Absent THEN 1 ELSE @,
                !.limit = IF @ = Absent THEN DefaultLimit ELSE Least(@, MaxLimit)]

(* trimFloat: to the nearest multiple of Kept. *)
TrimFloat(p) ==
    IF p \in {Absent, NaN} THEN p ELSE Kept * ((p + Kept \div 2) \div Kept)

(* mutant: the default order is left out of the key with the default column. *)
CanonicalForgetsOrder(f) ==
    [f EXCEPT !.minProb = TrimFloat(@),
              !.sortBy = IF @ = "" THEN "created_at" ELSE @,
              !.order = IF @ = "" \/ f.sortBy = "" THEN "asc" ELSE @]

(* canonicalFilter. *)
Canonical(f) ==
    [f EXCEPT !.minProb = TrimFloat(@),
              !.sortBy = IF @ = "" THEN "created_at" ELSE @,
              !.order = IF @ = "" THEN "asc" ELSE @]

-----------------------------------------------------------------------------
(* buildWhere.  A NaN is NULL to SQLite, and no row is at least NULL. *)
Matching(f) ==
    {i \in table :
        /\ f.gender # "" => Row[i].gender = f.gender
        /\ f.minAge # Absent => Row[i].age >= f.minAge
        /\ f.minProb # Absent => f.minProb # NaN /\ Row[i].prob >= f.minProb}

(* Where two fractions first differ; a digit is after the "Z" that ends a  *)
(* text, and before it comes the "." of a fraction.                        *)
FirstDifference(s, t) ==
    LET shorter == Least(Len(s), Len(t))
        different == {k \in 1..shorter : s[k] # t[k]}
    IN  IF different = {} THEN shorter + 1
        ELSE CHOOSE k \in different : \A m \in different : k <= m

(* mutant: seconds are written without a leading zero. *)
TextBeforeUnpadded(i, j) ==
    LET tens(s) == IF s < 10 THEN s ELSE s \div 10
    IN  tens(Row[i].sec) < tens(Row[j].sec)

(* created_at is stored as RFC3339Nano text and compared as text: "Z" sorts *)
(* after any digit and after ".".                                          *)
TextBefore(i, j) ==
    LET s == Row[i].frac
        t == Row[j].frac
        k == FirstDifference(s, t)
    IN  \/ Row[i].sec < Row[j].sec
        \/ /\ Row[i].sec = Row[j].sec
           /\ k <= Len(s)
           /\ k <= Len(t) => s[k] < t[k]

ColumnBefore(f, i, j) ==
    IF f.sortBy = "age" THEN Row[i].age < Row[j].age ELSE TextBefore(i, j)

(* mutant: no second column in ORDER BY; ties fall as the plan of each     *)
(* page has them.                                                          *)
BeforeTiesByPlan(f, i, j) ==
    LET first == IF f.order = "desc" THEN ColumnBefore(f, j, i) ELSE ColumnBefore(f, i, j)
        last == IF f.order = "desc" THEN ColumnBefore(f, i, j) ELSE ColumnBefore(f, j, i)
    IN  first \/ (~ last /\ IF f.page % 2 = 1 THEN i < j ELSE j < i)

(* ORDER BY column order, id ASC. *)
Before(f, i, j) ==
    LET first == IF f.order = "desc" THEN ColumnBefore(f, j, i) ELSE ColumnBefore(f, i, j)
        last == IF f.order = "desc" THEN ColumnBefore(f, i, j) ELSE ColumnBefore(f, j, i)
    IN  first \/ (~ last /\ i < j)

Rank(f, i) == 1 + Cardinality({j \in Matching(f) : Before(f, j, i)})

(* (page - 1) * limit in an int; SQLite takes a negative OFFSET for none.  *)
Wrap(n) == ((n + MaxInt + 1) % (2 * (MaxInt + 1))) - (MaxInt + 1)

(* mutant: an offset past the last row is taken for none. *)
OffsetWithinRows(f) ==
    IF (f.page - 1) * f.limit < Cardinality(Matching(f)) THEN (f.page - 1) * f.limit ELSE 0

Offset(f) == IF Wrap((f.page - 1) * f.limit) < 0 THEN 0 ELSE Wrap((f.page - 1) * f.limit)

(* Which row is where on the page. *)
Rows(f) ==
    {<<Rank(f, i) - Offset(f), i>> : i \in {j \in Matching(f) :
        Rank(f, j) - Offset(f) \in 1..f.limit}}

-----------------------------------------------------------------------------
(* buildPagination. *)
TotalPages(f) == (Cardinality(Matching(f)) + f.limit - 1) \div f.limit

HasNext(f) == f.page < TotalPages(f)
HasPrev(f) == f.page > 1 /\ TotalPages(f) > 0

(* A link carries the parameters of the request and a page of its own. *)
LinkTo(raw, p) == [raw EXCEPT !.page = p, !.limit = Filter(raw).limit]

NoBody == [key |-> << >>]

(* The body also holds links made from the parameters of its own request.  *)
Body(raw) ==
    LET f == Filter(raw)
    IN  [key |-> Canonical(f), raw |-> raw, total |-> Cardinality(Matching(f)),
         rows |-> Rows(f), next |-> HasNext(f), prev |-> HasPrev(f)]

-----------------------------------------------------------------------------
Init ==
    /\ table = {}
    /\ cached = NoBody
    /\ answer = "none"

Hits(raw) == Accepts(raw) /\ cached.key = Canonical(Filter(raw))

Refused(raw) ==
    /\ ~ Accepts(raw)
    /\ answer' = "error"
    /\ UNCHANGED <<table, cached>>

CacheHit(raw) ==
    /\ Hits(raw)
    /\ answer' = "page"
    /\ UNCHANGED <<table, cached>>

CacheMiss(raw) ==
    /\ Accepts(raw)
    /\ ~ Hits(raw)
    /\ cached' = IF cached = NoBody THEN Body(raw) ELSE cached
    /\ answer' = "page"
    /\ UNCHANGED table

(* A profile is inserted or deleted, and the cache bumped. *)
Insert(i) ==
    /\ i \notin table
    /\ table' = table \cup {i}
    /\ cached' = NoBody
    /\ UNCHANGED answer

(* mutant: a delete does not bump the cache. *)
DeleteUnbumped(i) ==
    /\ i \in table
    /\ table' = table \ {i}
    /\ UNCHANGED <<cached, answer>>

Delete(i) ==
    /\ i \in table
    /\ table' = table \ {i}
    /\ cached' = NoBody
    /\ UNCHANGED answer

Next ==
    \/ \E raw \in Raws : Refused(raw) \/ CacheHit(raw) \/ CacheMiss(raw)
    \/ \E i \in Ids : Insert(i) \/ Delete(i)

Spec == Init /\ [][Next]_vars

-----------------------------------------------------------------------------
(* Every variable keeps its type, and the body is that of its request on   *)
(* the table as it is.                                                     *)
TypeOK ==
    /\ table \in SUBSET Ids
    /\ \/ cached = NoBody
       \/ cached.raw \in Raws /\ Accepts(cached.raw) /\ cached = Body(cached.raw)
    /\ answer \in {"none", "page", "error"}

(* Filters that differ past the sixth decimal of a probability share a key. *)
SameToSixDecimals(raw, other) ==
    raw.minProb # other.minProb /\ TrimFloat(raw.minProb) = TrimFloat(other.minProb)

(* A hit gives the rows and the links' presence the request would have     *)
(* computed itself, however its parameters were spelled, except to filters *)
(* whose probabilities differ past the sixth decimal (normalize.go:88).    *)
HitsAreOwn ==
    \A raw \in Raws :
        Hits(raw) =>
            \/ /\ cached.rows = Rows(Filter(raw))
               /\ cached.total = Cardinality(Matching(Filter(raw)))
               /\ cached.next = HasNext(Filter(raw))
               /\ cached.prev = HasPrev(Filter(raw))
            \/ SameToSixDecimals(raw, cached.raw)

(* The links of a body lead to pages of the list it is a page of, also for *)
(* another request that hits it: following `next` from page 1 shows every  *)
(* matching row exactly once and ends, and `next` is there to follow       *)
(* exactly when rows are left.                                             *)
NextVisitsEachRowOnce ==
    cached # NoBody =>
        LET first == Filter(LinkTo(cached.raw, 1))
            page(p) == Rows([first EXCEPT !.page = p])
        IN  /\ cached.next <=> \E i \in Matching(first) :
                   Rank(first, i) > Filter(cached.raw).page * first.limit
            /\ \A i \in Matching(first) :
                   Cardinality({p \in 1..TotalPages(first) : \E k \in 1..first.limit :
                                    <<k, i>> \in page(p)}) = 1

(* A page lies at its own place in the list unless (page - 1) * limit is    *)
(* too large for an int: then a page far past the end may show rows of the  *)
(* first ones, where it should be empty (store.go:338).                     *)
PagesInPlace ==
    cached # NoBody =>
        LET f == Filter(cached.raw)
            exact == (f.page - 1) * f.limit
        IN  \/ \A i \in Matching(f) :
                   (\E k \in 1..f.limit : <<k, i>> \in cached.rows)
                       <=> Rank(f, i) \in exact + 1 .. exact + f.limit
            \/ exact > MaxInt /\ f.page > TotalPages(f)

(* i was created before j. *)
Earlier(i, j) ==
    LET s == Row[i].frac
        t == Row[j].frac
        k == FirstDifference(s, t)
    IN  \/ Row[i].sec < Row[j].sec
        \/ Row[i].sec = Row[j].sec /\ k <= Len(t) /\ (k <= Len(s) => s[k] < t[k])

(* Sorted by created_at, rows are in the order they were created in, except *)
(* within a second, where the fraction of one is the beginning of the       *)
(* other's: RFC3339Nano drops zeros at the end (store.go:344).              *)
TimeOrderedUnlessPrefix ==
    cached # NoBody /\ cached.key.sortBy = "created_at" =>
        \A x, y \in cached.rows :
            LET i == x[2]
                j == y[2]
                s == Row[i].frac
                t == Row[j].frac
            IN  x[1] < y[1] =>
                    \/ ~ (IF cached.key.order = "asc" THEN Earlier(j, i) ELSE Earlier(i, j))
                    \/ /\ Row[i].sec = Row[j].sec
                       /\ FirstDifference(s, t) > Least(Len(s), Len(t))
=============================================================================
