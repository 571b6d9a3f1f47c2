------------------------------ MODULE NLSearch ------------------------------
(***************************************************************************)
(* GET /api/profiles/search (searchProfiles in handlers.go) and the rules  *)
(* of ParseNL (search.go) that turn a text into a filter.                  *)
(*                                                                         *)
(* A text is what the regular expressions find in it: the words for        *)
(* genders and age groups, the numbers of each wording of a bound, the     *)
(* phrases for places and the words of two letters in their order.  The    *)
(* aliases and the names of countries are read from Go maps, whose order   *)
(* is any order, another one at each request.                              *)
(*                                                                         *)
(* As in ListQuery the cache is followed through one body, any of those    *)
(* it holds, and a write drops it.                                         *)
(***************************************************************************)
EXTENDS Integers, SequencesExt

CONSTANTS
    Texts,          \* what callers write as q
    AgeGroupOf,     \* ageGroupAliases: a function from words to age groups
    CountryOf,      \* countryAliases: a function from phrases to codes
    CodeOf,         \* lowerToCode: from names of countries to codes
    Length,         \* length of a word, phrase or name
    Ages,           \* ages of profiles
    MaxInt          \* the largest int

Absent == -1
NoPair == <<Absent, Absent>>
None == ""

Words == DOMAIN AgeGroupOf
Phrases == DOMAIN CountryOf
Names == DOMAIN CodeOf
Codes == {CodeOf[n] : n \in Names}

Numbers == Nat \cup {Absent}

(* The numbers of a text have any size.                                    *)
Wording ==
    [genders : SUBSET {"male", "female"}, groups : SUBSET Words,
     between : Numbers \X Numbers, range : Numbers \X Numbers,
     above : Numbers, below : Numbers, exact : Numbers,
     young : BOOLEAN, old : BOOLEAN,
     places : SUBSET (Phrases \cup Names), codes : Seq(STRING)]

ASSUME TextsAssumption ==
    /\ \A t \in Texts : t \in Wording
    /\ \A t \in Texts : \A p \in {t.between, t.range} :
           p[1] = Absent <=> p[2] = Absent
ASSUME NumbersAssumption ==
    /\ MaxInt \in Nat /\ MaxInt >= 60
    /\ Ages \subseteq 0..MaxInt

(* The maps are finite, and lead to no empty code: SeedCountryMap leaves    *)
(* entries without one out.  A name has one code: no two of the 65          *)
(* countries of profiles_seed.json share theirs, so that the order in      *)
(* which lowerToCode is filled does not show.                              *)
ASSUME KeysAssumption ==
    /\ IsFiniteSet(Words) /\ IsFiniteSet(Phrases) /\ IsFiniteSet(Names)
    /\ \A k \in Words \cup Phrases \cup Names : Length[k] \in Nat
    /\ None \notin {CountryOf[p] : p \in Phrases} \cup Codes

VARIABLES
    cached,       \* a search body in the cache: its filter and text; or NoBody
    answer        \* the last response: its text, its filter, the text of its links

vars == <<cached, answer>>

-----------------------------------------------------------------------------
(* sortByLenDesc: each word in turn moves left past the shorter ones.      *)

MovedLeft(sorted, x) ==
    LET stays == {k \in DOMAIN sorted : Length[sorted[k]] >= Length[x]}
        k == CHOOSE n \in stays \cup {0} : \A m \in stays : m <= n
    IN  SubSeq(sorted, 1, k) \o <<x>> \o SubSeq(sorted, k + 1, Len(sorted))

(* mutant: the keys are left as the map gives them. *)
Unsorted(xs) == xs

SortByLenDesc(xs) ==
    LET sorted[k \in 0..Len(xs)] ==
            IF k = 0 THEN << >> ELSE MovedLeft(sorted[k - 1], xs[k])
    IN  sorted[Len(xs)]

(* What a word of found that comes first in order means. *)
FirstMeaning(order, found, meaning) ==
    LET hits == {k \in DOMAIN order : order[k] \in found}
    IN  IF hits = {} THEN None
        ELSE meaning[order[CHOOSE k \in hits : \A m \in hits : k <= m]]

-----------------------------------------------------------------------------
Gender(t) ==
    IF t.genders = {"male"} THEN "male"
    ELSE IF t.genders = {"female"} THEN "female" ELSE None

(* Atoi of a number too large gives MaxInt and an error; a span ignores    *)
(* the error, a single bound is dropped for it.                            *)
Clamped(n) == IF n > MaxInt THEN MaxInt ELSE n
Fits(n) == n \in 0..MaxInt

Span(t) == IF t.between # NoPair THEN t.between ELSE t.range

(* mutant: the ends of a span are not swapped. *)
LowerAsWritten(p) == p[1]

Lower(p) == IF p[1] <= p[2] THEN p[1] ELSE p[2]
Upper(p) == IF p[1] <= p[2] THEN p[2] ELSE p[1]

(* Bounds given as numbers, but for "aged N". *)
WrittenMin(t) ==
    IF Fits(t.above) THEN t.above
    ELSE IF Span(t) # NoPair THEN Clamped(Lower(Span(t))) ELSE Absent

(* mutant: a text that says "over" is not searched for "under". *)
WrittenMaxElse(t) ==
    IF Fits(t.below) /\ t.above = Absent THEN t.below
    ELSE IF Span(t) # NoPair THEN Clamped(Upper(Span(t))) ELSE Absent

WrittenMax(t) ==
    IF Fits(t.below) THEN t.below
    ELSE IF Span(t) # NoPair THEN Clamped(Upper(Span(t))) ELSE Absent

(* "young" fills in the bounds that are missing, then "old" the lower one. *)
WordedMin(t) ==
    IF WrittenMin(t) # Absent THEN WrittenMin(t)
    ELSE IF t.young THEN 16
    ELSE IF t.old THEN 60 ELSE Absent

WordedMax(t) ==
    IF WrittenMax(t) # Absent THEN WrittenMax(t)
    ELSE IF t.young THEN 24 ELSE Absent

Exact(t) ==
    Fits(t.exact) /\ WordedMin(t) = Absent /\ WordedMax(t) = Absent

MinAge(t) == IF Exact(t) THEN t.exact ELSE WordedMin(t)
MaxAge(t) == IF Exact(t) THEN t.exact ELSE WordedMax(t)

(* mutant: a word of two letters is a code whether the seed has it or not. *)
CountryUnchecked(t, phrases, names) ==
    LET alias == FirstMeaning(SortByLenDesc(phrases), t.places, CountryOf)
        name == FirstMeaning(SortByLenDesc(names), t.places, CodeOf)
    IN  IF alias # None THEN alias
        ELSE IF name # None THEN name
        ELSE IF t.codes # << >> THEN t.codes[1] ELSE None

(* An alias, else a name, else the first word of two letters, if a code. *)
Country(t, phrases, names) ==
    LET alias == FirstMeaning(SortByLenDesc(phrases), t.places, CountryOf)
        name == FirstMeaning(SortByLenDesc(names), t.places, CodeOf)
    IN  IF alias # None THEN alias
        ELSE IF name # None THEN name
        ELSE IF t.codes # << >> /\ t.codes[1] \in Codes THEN t.codes[1] ELSE None

(* ParseNL, for one order of the keys of each map. *)
ParseNL(t, words, phrases, names) ==
    [gender |-> Gender(t),
     ageGroup |-> FirstMeaning(SortByLenDesc(words), t.groups, AgeGroupOf),
     minAge |-> MinAge(t),
     maxAge |-> MaxAge(t),
     country |-> Country(t, phrases, names)]

Contradictory(f) == f.minAge # Absent /\ f.maxAge # Absent /\ f.minAge > f.maxAge

(* A scanner has found something, and the bounds do not contradict. *)
Matched(t, f) ==
    /\ \/ t.genders # {}
       \/ f.ageGroup # None
       \/ f.minAge # Absent
       \/ f.maxAge # Absent
       \/ f.country # None
    /\ ~ Contradictory(f)

(* The filters a text may be parsed to. *)
Parses ==
    [t \in Texts |->
        {ParseNL(t, words, phrases, names) :
            words \in SetToSeqs(Words), phrases \in SetToSeqs(Phrases),
            names \in SetToSeqs(Names)}]

-----------------------------------------------------------------------------
NoBody == [text |-> None]
NoAnswer == [status |-> "none"]

Init ==
    /\ cached = NoBody
    /\ answer = NoAnswer

Page(t, f, links) == [status |-> "page", text |-> t, filter |-> f, links |-> links]

(* 400 for no text, 422 for parameters of the page that do not parse. *)
Refuse ==
    /\ answer' = [status |-> "refused"]
    /\ UNCHANGED cached

(* 422 "Unable to interpret query". *)
NotUnderstood(t) ==
    /\ \E f \in Parses[t] : ~ Matched(t, f)
    /\ answer' = [status |-> "unmatched", text |-> t]
    /\ UNCHANGED cached

Hits(f) == cached # NoBody /\ cached.filter = f

(* The body in the cache is sent as it is, links and all. *)
SearchHit(t) ==
    /\ \E f \in Parses[t] :
           /\ Matched(t, f)
           /\ Hits(f)
           /\ answer' = Page(t, f, cached.text)
    /\ UNCHANGED cached

(* mutant: the body is cached under the text's filter without its country. *)
SearchMissLosesCountry(t) ==
    \E f \in Parses[t] :
        /\ Matched(t, f)
        /\ ~ Hits(f)
        /\ answer' = Page(t, f, t)
        /\ cached' = IF cached = NoBody
                     THEN [text |-> t, filter |-> [f EXCEPT !.country = None]] ELSE cached

SearchMiss(t) ==
    \E f \in Parses[t] :
        /\ Matched(t, f)
        /\ ~ Hits(f)
        /\ answer' = Page(t, f, t)
        /\ cached' = IF cached = NoBody THEN [text |-> t, filter |-> f] ELSE cached

(* A profile is written: the cache is bumped. *)
Write ==
    /\ cached' = NoBody
    /\ UNCHANGED answer

Next ==
    \/ Refuse
    \/ Write
    \/ \E t \in Texts : NotUnderstood(t) \/ SearchHit(t) \/ SearchMiss(t)

Spec == Init /\ [][Next]_vars

-----------------------------------------------------------------------------
(* Both variables keep their types; the body in the cache is of a text that *)
(* parses to its filter.                                                    *)
TypeOK ==
    /\ \/ cached = NoBody
       \/ /\ cached.text \in Texts
          /\ cached.filter \in Parses[cached.text]
    /\ \/ answer \in {NoAnswer, [status |-> "refused"]}
       \/ answer.status = "unmatched" /\ answer.text \in Texts
       \/ /\ answer.status = "page"
          /\ answer.text \in Texts /\ answer.links \in Texts
          /\ answer.filter \in Parses[answer.text]

(* The longest of the words found are several, and mean different things.  *)
TiedAt(found, meaning) ==
    \E w, x \in found :
        /\ Length[w] = Length[x] /\ meaning[w] # meaning[x]
        /\ \A v \in found : Length[v] <= Length[w]

Tied(t) ==
    \/ TiedAt(t.groups, AgeGroupOf)
    \/ TiedAt(t.places \cap Phrases, CountryOf)
    \/ TiedAt(t.places \cap Names, CodeOf)

(* Whoever filled the cache and whatever order the maps were read in, the  *)
(* links of a page lead to pages of the list it is a page of: their text   *)
(* parses to the page's filter again, except when two of its words tie in  *)
(* length (search.go:208, handlers.go:350).                                *)
LinksLeadOn ==
    answer.status = "page" /\ ~ Tied(answer.links) =>
        \A f \in Parses[answer.links] : f = answer.filter

(* Age n is within everything the text says of ages. *)
WithinWords(t, n) ==
    /\ \A p \in {t.between, t.range} :
           p # NoPair => (p[1] <= n /\ n <= p[2]) \/ (p[2] <= n /\ n <= p[1])
    /\ t.above # Absent => n >= t.above
    /\ t.below # Absent => n <= t.below
    /\ t.exact # Absent => n = t.exact
    /\ t.young => n \in 16..24
    /\ t.old => n >= 60

Admits(f, n) ==
    /\ f.minAge # Absent => n >= f.minAge
    /\ f.maxAge # Absent => n <= f.maxAge

(* However bounds are worded and combined, a filter leaves no age out that *)
(* is within all of them: a bound that overrides another, or is filled in  *)
(* beside it, never narrows the list to less than both.  And a text that   *)
(* bounds the ages is not refused as contradictory while an age is within  *)
(* (search.go:100).                                                        *)
NoAgeLeftOut ==
    /\ answer.status = "page" =>
           \A n \in Ages : WithinWords(answer.text, n) => Admits(answer.filter, n)
    /\ answer.status = "unmatched" =>
           \/ \A n \in Ages : WithinWords(answer.text, n)
           \/ \A n \in Ages : ~ WithinWords(answer.text, n)

(* The wordings of bounds in a text. *)
Worded(t) ==
    [between |-> t.between # NoPair, range |-> t.range # NoPair,
     above |-> t.above # Absent, below |-> t.below # Absent,
     exact |-> t.exact # Absent, young |-> t.young, old |-> t.old]

(* Two of the wordings ws are in the text. *)
Twice(t, ws) == \E v, w \in ws : v # w /\ Worded(t)[v] /\ Worded(t)[w]

LowerEnds == {"between", "range", "above", "exact", "young", "old"}
UpperEnds == {"between", "range", "below", "exact", "young"}

(* One of the numbers in the text is larger than an int. *)
TooLarge(t) ==
    \/ \E n \in {t.above, t.below, t.exact} : n > MaxInt
    \/ \E p \in {t.between, t.range} : p[1] > MaxInt \/ p[2] > MaxInt

(* A filter admits no age that is outside the bounds of the text, when it  *)
(* gives each end once at most ("old" and "under 70" are one each) and no  *)
(* number larger than an int: a single bound that is larger is dropped and *)
(* the list is as if it had not been written (search.go:121).              *)
NoAgeLetIn ==
    answer.status = "page" =>
        \/ \A n \in Ages : Admits(answer.filter, n) => WithinWords(answer.text, n)
        \/ Twice(answer.text, LowerEnds) \/ Twice(answer.text, UpperEnds)
        \/ TooLarge(answer.text)

(* The countries a text names. *)
Named(t) ==
    {CountryOf[p] : p \in t.places \cap Phrases} \cup
    {CodeOf[n] : n \in t.places \cap Names} \cup
    ({t.codes[k] : k \in DOMAIN t.codes} \cap Codes)

(* A list is of a country its text names, and of one if the text names     *)
(* any, except when it names it by its code behind another word of two     *)
(* letters, which hides it (search.go:180).  A text that names a country   *)
(* another way is refused only for ages that contradict.                   *)
CountryIsNamed ==
    /\ answer.status = "page" =>
           LET t == answer.text
           IN  \/ answer.filter.country \in Named(t)
               \/ answer.filter.country = None /\ Named(t) = {}
               \/ /\ answer.filter.country = None /\ t.places = {}
                  /\ \E k \in DOMAIN t.codes : k > 1
    /\ answer.status = "unmatched" =>
           \/ answer.text.places = {}
           \/ \A n \in Ages : ~ WithinWords(answer.text, n)
=============================================================================
