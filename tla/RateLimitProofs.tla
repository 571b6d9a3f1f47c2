-------------------------- MODULE RateLimitProofs --------------------------
(***************************************************************************)
(* Theorems of RateLimiter, for any keys, limit and window: no window      *)
(* holds more admitted hits than the limit, and no call is refused below   *)
(* it.  Then of AuthRateLimit, for any IPs, paths and requests: what the   *)
(* two tiers together let through, and what the second refuses.            *)
(*                                                                         *)
(* What is assumed of the tiers' constants does not limit the first part:  *)
(* with no paths every set of keys satisfies it.                           *)
(***************************************************************************)
EXTENDS AuthRateLimit, FiniteSetTheorems, WellFoundedInduction, TLAPS

-----------------------------------------------------------------------------
(* RateLimiter.                                                            *)

-----------------------------------------------------------------------------
(* What ties the list h kept for a key to the hits a ever admitted for it, *)
(* at time t: h is the tail of a, and what is gone is out of every window  *)
(* to come.                                                                *)
TailOf(h, a) ==
    /\ Len(h) <= Len(a)
    /\ \A i \in 1..Len(h) : h[i] = a[Len(a) - Len(h) + i]

GoneIsOld(h, a, t) == \A i \in 1..(Len(a) - Len(h)) : a[i] + Window <= t

PastOnly(a, t) == \A i \in 1..Len(a) : a[i] <= t

(* WindowRespected and RefusalsEarned, of one history. *)
Spaced(a) ==
    \A i \in 1..Len(a) : i + Limit <= Len(a) => a[i] + Window <= a[i + Limit]

Earned(a, t) ==
    \E i \in 1..Len(a) :
        i + Limit - 1 <= Len(a) /\ a[i] > t - Window /\ a[i + Limit - 1] <= t

(* Times are recorded in the order of the clock. *)
InOrder(a) == \A i, j \in 1..Len(a) : i <= j => a[i] <= a[j]

KeyInv(h, a, t) ==
    /\ TailOf(h, a)
    /\ GoneIsOld(h, a, t)
    /\ PastOnly(a, t)
    /\ Spaced(a)
    /\ InOrder(a)

LimInv == /\ TypeOK
          /\ \A k \in Keys : KeyInv(hits[k], admitted[k], now)
          /\ \A d \in refused : Earned(admitted[d[1]], d[2])

-----------------------------------------------------------------------------
(* Facts about sequences of times. *)

LEMMA Elements == ASSUME NEW s \in Seq(Nat) PROVE \A i \in 1..Len(s) : s[i] \in Nat
OBVIOUS

LEMMA OneMore ==
    ASSUME NEW s \in Seq(Nat), NEW t \in Nat
    PROVE  /\ Append(s, t) \in Seq(Nat) /\ Len(Append(s, t)) = Len(s) + 1
           /\ Append(s, t)[Len(s) + 1] = t
           /\ \A i \in 1..Len(s) : Append(s, t)[i] = s[i]
OBVIOUS

LEMMA Prefix ==
    ASSUME NEW s \in Seq(Nat), NEW n \in 0..Len(s)
    PROVE  /\ SubSeq(s, n + 1, Len(s)) \in Seq(Nat)
           /\ Len(SubSeq(s, n + 1, Len(s))) = Len(s) - n
           /\ \A i \in 1..(Len(s) - n) : SubSeq(s, n + 1, Len(s))[i] = s[n + i]
OBVIOUS

(* Dropping a prefix that is out of the window keeps the tie. *)
LEMMA DropKeeps ==
    ASSUME NEW h \in Seq(Nat), NEW a \in Seq(Nat), NEW t \in Nat, NEW n \in 0..Len(h),
           KeyInv(h, a, t), \A i \in 1..n : h[i] <= t - Window
    PROVE  KeyInv(SubSeq(h, n + 1, Len(h)), a, t)
<1>1. PICK g \in Seq(Nat) : g = SubSeq(h, n + 1, Len(h))
  BY Prefix
<1>2. Len(g) = Len(h) - n /\ \A i \in 1..Len(g) : g[i] = h[n + i]
  BY <1>1, Prefix
<1>3. Len(h) \in Nat /\ Len(a) \in Nat /\ Len(g) \in Nat /\ n \in Nat /\ n <= Len(h)
  OBVIOUS
<1>4. Len(h) <= Len(a) /\ \A i \in 1..Len(h) : h[i] = a[Len(a) - Len(h) + i]
  BY DEF KeyInv, TailOf
<1>5. TailOf(g, a)
  <2>1. ASSUME NEW i \in 1..Len(g) PROVE g[i] = a[Len(a) - Len(g) + i]
    <3>1. n + i \in 1..Len(h) /\ Len(a) - Len(h) + (n + i) = Len(a) - Len(g) + i
      BY <1>2, <1>3
    <3>2. h[n + i] = a[Len(a) - Len(h) + (n + i)]
      BY <1>4, <3>1
    <3> QED
      BY <1>2, <3>1, <3>2
  <2> QED
    BY <1>2, <1>3, <1>4, <2>1 DEF TailOf
<1>6. GoneIsOld(g, a, t)
  <2> SUFFICES ASSUME NEW i \in 1..(Len(a) - Len(g)) PROVE a[i] + Window <= t
    BY DEF GoneIsOld
  <2>1. i \in 1..(Len(a) - (Len(h) - n)) /\ Len(h) - n \in Nat
    BY <1>2, <1>3
  <2>2. i \in 1..Len(a) /\ a[i] \in Nat /\ Window \in Nat
    BY <1>3, Elements, WindowAssumption
  <2>3. CASE i <= Len(a) - Len(h)
    BY <1>3, <1>4, <2>3 DEF KeyInv, GoneIsOld
  <2>4. CASE i > Len(a) - Len(h)
    <3>1. i - (Len(a) - Len(h)) \in 1..n
      BY <1>3, <1>4, <2>2, <2>4, <2>1
    <3>2. PICK j \in 1..n : j = i - (Len(a) - Len(h))
      BY <3>1, Zenon
    <3>3. j \in 1..Len(h) /\ Len(a) - Len(h) + j = i
      BY <1>3, <3>2
    <3>4. a[i] <= t - Window
      BY <1>4, <3>2, <3>3
    <3> QED
      BY <2>2, <3>4, SMTT(30)
  <2> QED
    BY <1>3, <2>3, <2>4
<1> QED
  BY <1>1, <1>5, <1>6 DEF KeyInv

(* So does one hit more, at time t, on a list below the limit. *)
LEMMA AppendKeeps ==
    ASSUME NEW h \in Seq(Nat), NEW a \in Seq(Nat), NEW t \in Nat,
           KeyInv(h, a, t), Len(h) < Limit
    PROVE  KeyInv(Append(h, t), Append(a, t), t)
<1>1. PICK g \in Seq(Nat), b \in Seq(Nat) : g = Append(h, t) /\ b = Append(a, t)
  BY OneMore
<1>2. /\ Len(g) = Len(h) + 1 /\ g[Len(h) + 1] = t /\ \A i \in 1..Len(h) : g[i] = h[i]
      /\ Len(b) = Len(a) + 1 /\ b[Len(a) + 1] = t /\ \A i \in 1..Len(a) : b[i] = a[i]
  BY <1>1, OneMore
<1>3. Len(h) \in Nat /\ Len(a) \in Nat /\ Len(h) <= Len(a) /\ Limit \in Nat \ {0}
  BY LimitAssumption DEF KeyInv, TailOf
<1>4. TailOf(g, b)
  <2>1. ASSUME NEW i \in 1..Len(g) PROVE g[i] = b[Len(b) - Len(g) + i]
    <3>1. CASE i \in 1..Len(h)
      <4>1. Len(b) - Len(g) + i = Len(a) - Len(h) + i /\ Len(a) - Len(h) + i \in 1..Len(a)
        BY <1>2, <1>3, <3>1
      <4>2. h[i] = a[Len(a) - Len(h) + i]
        BY <3>1 DEF KeyInv, TailOf
      <4> QED
        BY <1>2, <3>1, <4>1, <4>2
    <3>2. CASE i = Len(h) + 1
      <4>1. Len(b) - Len(g) + i = Len(a) + 1
        BY <1>2, <1>3, <3>2
      <4> QED
        BY <1>2, <3>2, <4>1
    <3> QED
      BY <1>2, <1>3, <3>1, <3>2
  <2> QED
    BY <1>2, <1>3, <2>1 DEF TailOf
<1>5. GoneIsOld(g, b, t)
  <2>1. Len(b) - Len(g) = Len(a) - Len(h) /\ \A i \in 1..(Len(a) - Len(h)) : i \in 1..Len(a)
    BY <1>2, <1>3
  <2> QED
    BY <1>2, <2>1 DEF KeyInv, GoneIsOld
<1>6. PastOnly(b, t)
  <2> SUFFICES ASSUME NEW i \in 1..Len(b) PROVE b[i] <= t
    BY DEF PastOnly
  <2>1. CASE i \in 1..Len(a)
    BY <1>2, <2>1 DEF KeyInv, PastOnly
  <2>2. CASE i = Len(a) + 1
    <3>1. b[i] = t
      BY <1>2, <2>2
    <3> QED
      BY <3>1
  <2> QED
    BY <1>2, <1>3, <2>1, <2>2
<1>7. Spaced(b)
  <2> SUFFICES ASSUME NEW i \in 1..Len(b), i + Limit <= Len(b)
               PROVE  b[i] + Window <= b[i + Limit]
    BY DEF Spaced
  <2>1. i \in 1..Len(a)
    BY <1>2, <1>3
  <2>2. CASE i + Limit <= Len(a)
    <3>1. i + Limit \in 1..Len(a)
      BY <1>3, <2>1, <2>2
    <3> QED
      BY <1>2, <2>1, <2>2, <3>1 DEF KeyInv, Spaced
  <2>3. CASE i + Limit = Len(a) + 1
    <3>1. i \in 1..(Len(a) - Len(h))
      BY <1>3, <2>1, <2>3
    <3>2. a[i] + Window <= t
      BY <3>1 DEF KeyInv, GoneIsOld
    <3> QED
      BY <1>2, <2>1, <2>3, <3>2
  <2>4. i + Limit <= Len(a) \/ i + Limit = Len(a) + 1
    <3>1. Len(b) = Len(a) + 1
      BY <1>2
    <3>2. i \in Nat /\ Limit \in Nat /\ Len(a) \in Nat /\ i + Limit <= Len(a) + 1
      BY <1>3, <3>1
    <3>3. i + Limit \in Nat
      BY <3>2
    <3>4. PICK m \in Nat, l \in Nat : m = i + Limit /\ l = Len(a)
      BY <3>2, <3>3, Zenon
    <3>5. m <= l + 1 => (m <= l \/ m = l + 1)
      OBVIOUS
    <3> QED
      BY <3>2, <3>4, <3>5
  <2> QED
    BY <2>2, <2>3, <2>4
<1>8. InOrder(b)
  <2> SUFFICES ASSUME NEW i \in 1..Len(b), NEW j \in 1..Len(b), i <= j
               PROVE  b[i] <= b[j]
    BY DEF InOrder
  <2>1. CASE j \in 1..Len(a)
    <3>1. i \in 1..Len(a)
      BY <1>3, <2>1
    <3> QED
      BY <1>2, <2>1, <3>1 DEF KeyInv, InOrder
  <2>2. CASE j = Len(a) + 1
    <3>1. b[j] = t /\ b[i] <= t
      BY <1>2, <1>6, <2>2 DEF PastOnly
    <3> QED
      BY <3>1
  <2> QED
    BY <1>2, <1>3, <2>1, <2>2
<1> QED
  BY <1>1, <1>4, <1>5, <1>6, <1>7, <1>8 DEF KeyInv

(* A list at the limit whose head is in the window earns a refusal. *)
LEMMA FullEarns ==
    ASSUME NEW h \in Seq(Nat), NEW a \in Seq(Nat), NEW t \in Nat,
           KeyInv(h, a, t), Len(h) >= Limit, h[1] > t - Window
    PROVE  Earned(a, t)
<1>1. Len(h) \in Nat /\ Len(a) \in Nat /\ Len(h) <= Len(a) /\ Limit \in Nat \ {0}
  BY LimitAssumption DEF KeyInv, TailOf
<1>2. Len(a) - Len(h) + 1 \in 1..Len(a)
  BY <1>1
<1>3. PICK i \in 1..Len(a) : i = Len(a) - Len(h) + 1
  BY <1>2, Zenon
<1>4. i + Limit - 1 \in 1..Len(a) /\ 1 \in 1..Len(h)
  BY <1>1, <1>3
<1>5. a[i] = h[1]
  BY <1>3, <1>4 DEF KeyInv, TailOf
<1>6. a[i + Limit - 1] <= t
  BY <1>4 DEF KeyInv, PastOnly
<1> QED
  BY <1>4, <1>5, <1>6 DEF Earned

(* What was earned stays earned. *)
LEMMA EarnedStays ==
    ASSUME NEW a \in Seq(Nat), NEW t \in Nat, NEW u \in Nat, Earned(a, u)
    PROVE  Earned(Append(a, t), u)
<1>1. PICK i \in 1..Len(a) :
         i + Limit - 1 <= Len(a) /\ a[i] > u - Window /\ a[i + Limit - 1] <= u
  BY DEF Earned
<1>2. PICK b \in Seq(Nat) : b = Append(a, t)
  BY OneMore
<1>3. Len(b) = Len(a) + 1 /\ \A j \in 1..Len(a) : b[j] = a[j]
  BY <1>2, OneMore
<1>4. i \in 1..Len(b) /\ i + Limit - 1 \in 1..Len(a) /\ i + Limit - 1 <= Len(b)
  BY <1>1, <1>3, LimitAssumption
<1> QED
  BY <1>1, <1>2, <1>3, <1>4 DEF Earned

(* Time only ages what is gone. *)
LEMMA TimePasses ==
    ASSUME NEW h \in Seq(Nat), NEW a \in Seq(Nat), NEW t \in Nat, KeyInv(h, a, t)
    PROVE  KeyInv(h, a, t + 1)
<1>1. \A i \in 1..(Len(a) - Len(h)) : i \in 1..Len(a)
  BY DEF KeyInv, TailOf
<1>2. GoneIsOld(h, a, t + 1)
  BY <1>1, Elements, WindowAssumption DEF KeyInv, GoneIsOld
<1>3. PastOnly(a, t + 1)
  BY Elements DEF KeyInv, PastOnly
<1> QED
  BY <1>2, <1>3 DEF KeyInv

-----------------------------------------------------------------------------
(* LimInv is inductive. *)

LEMMA LimInit == Init => LimInv
BY LimitAssumption DEF Init, LimInv, TypeOK, KeyInv, TailOf, GoneIsOld, PastOnly, Spaced,
   InOrder

LEMMA AdmitStep == ASSUME LimInv, NEW k \in Keys, Admit(k) PROVE LimInv'
<1> USE DEF LimInv
<1>1. PICK n \in 0..Len(hits[k]) :
         /\ Dropped(k, n) /\ Len(Kept(k, n)) < Limit
         /\ hits' = [hits EXCEPT ![k] = Append(Kept(k, n), now)]
  BY DEF Admit
<1>2. PICK h \in Seq(Nat), a \in Seq(Nat), t \in Nat : h = hits[k] /\ a = admitted[k] /\ t = now
  BY DEF TypeOK
<1>3. PICK g \in Seq(Nat) : g = SubSeq(h, n + 1, Len(h))
  BY <1>2, Prefix
<1>4. KeyInv(g, a, t) /\ Len(g) < Limit
  <2>1. KeyInv(h, a, t) /\ (\A i \in 1..n : h[i] <= t - Window) /\ n \in 0..Len(h)
    BY <1>1, <1>2 DEF Dropped
  <2> QED
    BY <1>1, <1>2, <1>3, <2>1, DropKeeps DEF Kept
<1>5. KeyInv(Append(g, t), Append(a, t), t)
  BY <1>4, AppendKeeps
<1>6. /\ hits' = [hits EXCEPT ![k] = Append(g, t)]
      /\ admitted' = [admitted EXCEPT ![k] = Append(a, t)]
      /\ now' = now /\ refused' = refused
  BY <1>1, <1>2, <1>3 DEF Admit, Kept
<1>7. TypeOK'
  <2>1. Append(g, t) \in Seq(Nat) /\ Append(a, t) \in Seq(Nat) /\ Len(Append(g, t)) <= Limit
    BY <1>4, OneMore, LimitAssumption
  <2> QED
    BY <1>6, <2>1 DEF TypeOK
<1>8. ASSUME NEW j \in Keys PROVE KeyInv(hits'[j], admitted'[j], now')
  <2>1. CASE j = k
    BY <1>2, <1>5, <1>6, <2>1 DEF TypeOK
  <2>2. CASE j # k
    BY <1>6, <2>2 DEF TypeOK
  <2> QED
    BY <2>1, <2>2
<1>9. ASSUME NEW d \in refused' PROVE Earned(admitted'[d[1]], d[2])
  <2>1. d \in Keys \X Nat /\ d \in refused /\ d[1] \in Keys /\ d[2] \in Nat
    BY <1>6 DEF TypeOK
  <2>2. PICK e \in Keys, u \in Nat : e = d[1] /\ u = d[2]
    BY <2>1
  <2>3. Earned(admitted[e], u)
    BY <2>1, <2>2
  <2>4. CASE e = k
    <3>1. Earned(Append(a, t), u)
      BY <1>2, <2>3, <2>4, EarnedStays
    <3> QED
      BY <1>6, <2>2, <2>4, <3>1 DEF TypeOK
  <2>5. CASE e # k
    BY <1>6, <2>2, <2>3, <2>5 DEF TypeOK
  <2> QED
    BY <2>4, <2>5
<1> QED
  BY <1>7, <1>8, <1>9

LEMMA RefuseStep == ASSUME LimInv, NEW k \in Keys, Refuse(k) PROVE LimInv'
<1> USE DEF LimInv
<1>1. PICK n \in 0..Len(hits[k]) :
         /\ Dropped(k, n) /\ Len(Kept(k, n)) >= Limit
         /\ hits' = [hits EXCEPT ![k] = Kept(k, n)]
  BY DEF Refuse
<1>2. PICK h \in Seq(Nat), a \in Seq(Nat), t \in Nat : h = hits[k] /\ a = admitted[k] /\ t = now
  BY DEF TypeOK
<1>3. PICK g \in Seq(Nat) : g = SubSeq(h, n + 1, Len(h))
  BY <1>2, Prefix
<1>4. n \in 0..Len(h) /\ Len(h) <= Limit /\ Len(g) >= Limit
  BY <1>1, <1>2, <1>3 DEF TypeOK, Kept
<1>5. Len(g) = Limit /\ g[1] > t - Window
  <2>1. Len(g) = Len(h) - n /\ Len(h) \in Nat /\ n \in Nat
    BY <1>3, <1>4, Prefix
  <2>2. n = 0 /\ Len(h) = Limit /\ Len(g) = Limit
    BY <1>4, <2>1, LimitAssumption
  <2>3. n < Len(h) /\ 1 \in 1..(Len(h) - n)
    BY <2>2, LimitAssumption
  <2>4. g[1] = h[n + 1]
    BY <1>3, <1>4, <2>3, Prefix
  <2>5. h[n + 1] > t - Window
    BY <1>1, <1>2, <2>3 DEF Dropped
  <2> QED
    BY <2>2, <2>4, <2>5
<1>6. KeyInv(g, a, t)
  <2>1. KeyInv(h, a, t) /\ (\A i \in 1..n : h[i] <= t - Window)
    BY <1>1, <1>2 DEF Dropped
  <2> QED
    BY <1>3, <1>4, <2>1, DropKeeps
<1>7. Earned(a, t)
  BY <1>4, <1>5, <1>6, FullEarns
<1>8. /\ hits' = [hits EXCEPT ![k] = g] /\ admitted' = admitted
      /\ now' = now /\ refused' = refused \cup {<<k, t>>}
  BY <1>1, <1>2, <1>3 DEF Refuse, Kept
<1>9. TypeOK'
  BY <1>5, <1>8, LimitAssumption DEF TypeOK
<1>10. ASSUME NEW j \in Keys PROVE KeyInv(hits'[j], admitted'[j], now')
  <2>1. CASE j = k
    BY <1>2, <1>6, <1>8, <2>1 DEF TypeOK
  <2>2. CASE j # k
    BY <1>8, <2>2 DEF TypeOK
  <2> QED
    BY <2>1, <2>2
<1>11. ASSUME NEW d \in refused' PROVE Earned(admitted'[d[1]], d[2])
  BY <1>2, <1>7, <1>8
<1> QED
  BY <1>9, <1>10, <1>11

LEMMA TickStep == ASSUME LimInv, Tick PROVE LimInv'
<1>1. now \in Nat /\ now' = now + 1 /\ hits' = hits /\ admitted' = admitted /\ refused' = refused
  BY DEF LimInv, TypeOK, Tick
<1>2. TypeOK'
  BY <1>1 DEF LimInv, TypeOK
<1>3. ASSUME NEW k \in Keys PROVE KeyInv(hits[k], admitted[k], now + 1)
  <2>1. hits[k] \in Seq(Nat) /\ admitted[k] \in Seq(Nat) /\ KeyInv(hits[k], admitted[k], now)
    BY DEF LimInv, TypeOK
  <2> QED
    BY <1>1, <2>1, TimePasses
<1> QED
  BY <1>1, <1>2, <1>3 DEF LimInv

LEMMA LimStep == LimInv /\ [Next]_vars => LimInv'
<1> SUFFICES ASSUME LimInv, [Next]_vars PROVE LimInv'
  OBVIOUS
<1>1. ASSUME NEW k \in Keys, Admit(k) PROVE LimInv'
  BY <1>1, AdmitStep
<1>2. ASSUME NEW k \in Keys, Refuse(k) PROVE LimInv'
  BY <1>2, RefuseStep
<1>3. CASE Tick
  BY <1>3, TickStep
<1>4. CASE UNCHANGED vars
  BY <1>4 DEF vars, LimInv, TypeOK
<1> QED
  BY <1>1, <1>2, <1>3, <1>4 DEF Next

LEMMA LimAlways == Spec => []LimInv
BY LimInit, LimStep, PTL DEF Spec

-----------------------------------------------------------------------------
(* The state of rateLimiter is well formed, and no list outgrows the limit. *)
THEOREM TypeCorrect == Spec => []TypeOK
<1>1. LimInv => TypeOK
  BY DEF LimInv
<1> QED
  BY <1>1, LimAlways, PTL

(* allow lets no more than the limit through in any window of a key. *)
THEOREM AtMostLimit == Spec => []WindowRespected
<1>1. LimInv => WindowRespected
  BY DEF LimInv, KeyInv, Spaced, WindowRespected
<1> QED
  BY <1>1, LimAlways, PTL

(* allow refuses only a key that had its limit in the window just past. *)
THEOREM NoneRefusedEarly == Spec => []RefusalsEarned
<1>1. LimInv => RefusalsEarned
  BY DEF LimInv, Earned, RefusalsEarned
<1> QED
  BY <1>1, LimAlways, PTL
-----------------------------------------------------------------------------
(* AuthRateLimit.                                                          *)

RequestsOK ==
    /\ between \in [Reqs -> Entered \cup {Idle}]
    /\ served \in SUBSET [who : Entered, i : Nat]
    /\ IsFiniteSet(served)
    /\ turned \in SUBSET [who : Entered, at : Nat]

(* A request that came to its path has a place among the path's hits.      *)
Placed(who) == who.n \in 1..Len(admitted[PathKey(who.path)])

(* One that was served has, besides, a place among the hits of its IP, and *)
(* no earlier in time.                                                     *)
ServedOK(s) ==
    /\ Placed(s.who)
    /\ s.i \in 1..Len(admitted[IpKey(s.who.ip, s.who.path)])
    /\ Came(s.who) <= Went(s)

SamePlace(v, w) == v.path = w.path /\ v.n = w.n

(* No two requests have one place, and every hit of an IP is a request     *)
(* that was served.                                                        *)
PlacesOwned ==
    /\ \A s \in served : ServedOK(s)
    /\ \A d \in turned : Placed(d.who)
    /\ \A r \in Reqs : between[r] # Idle => Placed(between[r])
    /\ \A s, u \in served : SamePlace(s.who, u.who) => s = u
    /\ \A r \in Reqs, s \in served :
          between[r] # Idle => ~ SamePlace(between[r], s.who)
    /\ \A r, q \in Reqs :
          r # q /\ between[r] # Idle /\ between[q] # Idle
            => ~ SamePlace(between[r], between[q])
    /\ \A ip \in Ips, p \in Paths :
          \A i \in 1..Len(admitted[IpKey(ip, p)]) :
              \E s \in served : s.who.ip = ip /\ s.who.path = p /\ s.i = i

TierInv == RequestsOK /\ PlacesOwned /\ SecondTierNeedsDelay

-----------------------------------------------------------------------------
(* Arithmetic.                                                             *)

LEMMA LeastElement == ASSUME NEW T, T \subseteq Nat, T # {}
                      PROVE  \E x \in T : \A y \in T : x <= y
<1> DEFINE F == {1..x : x \in T}
<1>1. F \subseteq FiniteSubsetsOf(Nat) /\ F # {}
  <2>1. \A x \in T : 1..x \in SUBSET Nat /\ IsFiniteSet(1..x)
    BY FS_Interval
  <2> QED
    BY <2>1 DEF FiniteSubsetsOf
<1>2. PICK s \in F : \A t \in F : ~ (<<t, s>> \in StrictSubsetOrdering(Nat))
  <2> HIDE DEF F
  <2> QED
    BY <1>1, FS_StrictSubsetOrderingWellFounded, WFMin, Zenon
<1>3. PICK x \in T : s = 1..x
  OBVIOUS
<1>4. ASSUME NEW y \in T, y < x PROVE FALSE
  <2>1. 1..y \subseteq 1..x /\ 1..y # 1..x /\ 1..y \in SUBSET Nat /\ 1..x \in SUBSET Nat
    <3>1. x \in 1..x /\ x \notin 1..y
      BY <1>4
    <3> QED
      BY <1>4, <3>1
  <2>2. <<1..y, s>> \in StrictSubsetOrdering(Nat)
    BY <1>3, <2>1 DEF StrictSubsetOrdering
  <2> QED
    BY <1>2, <2>2
<1> QED
  BY <1>4

(* The hits of a list in the window up to t are among the last Limit.      *)
LEMMA LastHits ==
    ASSUME NEW a \in Seq(Nat), NEW t \in Nat, Spaced(a), PastOnly(a, t),
           NEW n \in 1..Len(a), a[n] > t - Window
    PROVE  n \in (Len(a) - Limit + 1)..Len(a)
<1>1. Len(a) \in Nat /\ Limit \in Nat /\ Window \in Nat
  BY LimitAssumption, WindowAssumption
<1>2. ASSUME n + Limit <= Len(a) PROVE FALSE
  <2>1. n + Limit \in 1..Len(a)
    BY <1>1, <1>2
  <2>2. a[n] + Window <= a[n + Limit] /\ a[n + Limit] <= t
    BY <1>2, <2>1 DEF Spaced, PastOnly
  <2>3. a[n] \in Nat /\ a[n + Limit] \in Nat
    BY <2>1, Elements
  <2> QED
    BY <1>1, <2>2, <2>3, SMTT(20)
<1> QED
  BY <1>1, <1>2

(* The hits of a list in a window, from the m-th on, are among Limit.      *)
LEMMA NextHits ==
    ASSUME NEW a \in Seq(Nat), Spaced(a), InOrder(a), NEW m \in 1..Len(a),
           NEW n \in 1..Len(a), m <= n, a[n] < a[m] + Window
    PROVE  n \in m..(m + Limit - 1)
<1>1. Len(a) \in Nat /\ Limit \in Nat /\ Window \in Nat
  BY LimitAssumption, WindowAssumption
<1>2. ASSUME m + Limit <= n PROVE FALSE
  <2>1. m + Limit \in 1..Len(a) /\ m + Limit <= Len(a)
    BY <1>1, <1>2
  <2>2. a[m] + Window <= a[m + Limit] /\ a[m + Limit] <= a[n]
    BY <1>2, <2>1 DEF Spaced, InOrder
  <2>3. a[m] \in Nat /\ a[n] \in Nat /\ a[m + Limit] \in Nat
    BY <2>1, Elements
  <2> QED
    BY <1>1, <2>2, <2>3, SMTT(20)
<1> QED
  BY <1>1, <1>2

(* More than Limit things do not have each a number of its own among       *)
(* Limit numbers.                                                          *)
LEMMA TooMany ==
    ASSUME NEW T, IsFiniteSet(T), Cardinality(T) > Limit, NEW f, NEW m \in Int,
           \A x \in T : f[x] \in m..(m + Limit - 1), f \in [T -> Int]
    PROVE  \E x, y \in T : x # y /\ f[x] = f[y]
<1>1. f \in [T -> m..(m + Limit - 1)]
  OBVIOUS
<1>2. IsFiniteSet(m..(m + Limit - 1)) /\ Cardinality(m..(m + Limit - 1)) = Limit
  BY FS_Interval, LimitAssumption
<1>3. Cardinality(m..(m + Limit - 1)) < Cardinality(T)
  BY <1>2, LimitAssumption, FS_CardinalityType
<1> QED
  BY <1>1, <1>2, <1>3, FS_PigeonHole

-----------------------------------------------------------------------------
(* The keys of the tiers, and the steps of the tiers as the limiter's.     *)

LEMMA TierKey ==
    /\ \A p \in Paths : PathKey(p) \in Keys
    /\ \A ip \in Ips, p \in Paths : IpKey(ip, p) \in Keys
BY KeysAssumption DEF PathKey, IpKey, TierKeys

LEMMA KeysApart ==
    /\ \A p, q \in Paths : PathKey(p) = PathKey(q) => p = q
    /\ \A ip, jp \in Ips, p, q \in Paths :
          IpKey(ip, p) = IpKey(jp, q) => ip = jp /\ p = q
    /\ \A ip \in Ips, p, q \in Paths : IpKey(ip, p) # PathKey(q)
BY AnyIpAssumption DEF PathKey, IpKey

(* A request between the tiers. *)
LEMMA Waiting ==
    ASSUME RequestsOK, NEW r \in Reqs, between[r] # Idle
    PROVE  /\ between[r] \in Entered
           /\ between[r].ip \in Ips /\ between[r].path \in Paths /\ between[r].n \in Nat
           /\ IpKey(between[r].ip, between[r].path) \in Keys
<1>1. between[r] \in Entered
  BY DEF RequestsOK
<1>2. between[r].ip \in Ips /\ between[r].path \in Paths /\ between[r].n \in Nat
  BY <1>1 DEF Entered
<1> QED
  BY <1>1, <1>2, TierKey

LEMMA StepIsAllow == RequestsOK /\ [TierNext]_tierVars => [Next]_vars
<1> SUFFICES ASSUME RequestsOK, [TierNext]_tierVars PROVE [Next]_vars
  OBVIOUS
<1>1. ASSUME NEW r \in Reqs, PathAdmits(r) PROVE Next
  BY <1>1, TierKey DEF PathAdmits, Next
<1>2. ASSUME NEW r \in Reqs, PathRefuses(r) PROVE Next
  BY <1>2, TierKey DEF PathRefuses, Next
<1>3. ASSUME NEW r \in Reqs, IpAdmits(r) PROVE Next
  BY <1>3, Waiting DEF IpAdmits, Next
<1>4. ASSUME NEW r \in Reqs, IpRefuses(r) PROVE Next
  BY <1>4, Waiting DEF IpRefuses, Next
<1>5. CASE TierTick
  BY <1>5 DEF TierTick, Next
<1>6. CASE UNCHANGED tierVars
  BY <1>6 DEF tierVars
<1> QED
  BY <1>1, <1>2, <1>3, <1>4, <1>5, <1>6 DEF TierNext

(* A list of times recorded, and what the limiter's invariant says of it. *)
LEMMA KeyHistory ==
    ASSUME LimInv, NEW k \in Keys
    PROVE  /\ admitted[k] \in Seq(Nat) /\ now \in Nat
           /\ Spaced(admitted[k]) /\ PastOnly(admitted[k], now) /\ InOrder(admitted[k])
BY DEF LimInv, TypeOK, KeyInv

-----------------------------------------------------------------------------
(* What one step adds to the histories.                                    *)

(* The list of key k grows by a hit now, the others stay.                  *)
OneHit(k) ==
    /\ admitted' = [admitted EXCEPT ![k] = Append(admitted[k], now)]
    /\ now' = now

LEMMA HitsGrow ==
    ASSUME LimInv, NEW k \in Keys, OneHit(k)
    PROVE  /\ Len(admitted'[k]) = Len(admitted[k]) + 1
           /\ admitted'[k][Len(admitted[k]) + 1] = now
           /\ \A i \in 1..Len(admitted[k]) : admitted'[k][i] = admitted[k][i]
           /\ \A l \in Keys : l # k => admitted'[l] = admitted[l]
<1>1. admitted \in [Keys -> Seq(Nat)] /\ now \in Nat
  BY DEF LimInv, TypeOK
<1>2. admitted'[k] = Append(admitted[k], now) /\ admitted[k] \in Seq(Nat)
  BY <1>1 DEF OneHit
<1>3. \A l \in Keys : l # k => admitted'[l] = admitted[l]
  BY <1>1 DEF OneHit
<1> QED
  BY <1>1, <1>2, <1>3, OneMore

(* What was recorded stays so.                                             *)
Longer ==
    \A l \in Keys : \A i \in 1..Len(admitted[l]) :
        i \in 1..Len(admitted'[l]) /\ admitted'[l][i] = admitted[l][i]

LEMMA HitLonger ==
    ASSUME LimInv, NEW k \in Keys, OneHit(k)
    PROVE  Longer
<1> SUFFICES ASSUME NEW l \in Keys, NEW i \in 1..Len(admitted[l])
             PROVE  i \in 1..Len(admitted'[l]) /\ admitted'[l][i] = admitted[l][i]
  BY DEF Longer
<1>1. CASE l = k
  <2>1. Len(admitted[k]) \in Nat
    BY KeyHistory
  <2> QED
    BY <1>1, <2>1, HitsGrow
<1>2. CASE l # k
  BY <1>2, HitsGrow
<1> QED
  BY <1>1, <1>2

LEMMA PlaceStays ==
    ASSUME Longer, NEW who \in Entered, Placed(who)
    PROVE  Placed(who)' /\ Came(who)' = Came(who)
<1>1. who.path \in Paths /\ PathKey(who.path) \in Keys
  BY TierKey DEF Entered
<1> QED
  BY <1>1 DEF Longer, Placed, Came

LEMMA ServedStays ==
    ASSUME Longer, NEW s \in [who : Entered, i : Nat], ServedOK(s)
    PROVE  ServedOK(s)' /\ Came(s.who)' = Came(s.who) /\ Went(s)' = Went(s)
<1>1. s.who \in Entered /\ s.who.ip \in Ips /\ s.who.path \in Paths
  BY DEF Entered
<1>2. IpKey(s.who.ip, s.who.path) \in Keys
  BY <1>1, TierKey
<1>3. Placed(s.who)' /\ Came(s.who)' = Came(s.who)
  BY <1>1, PlaceStays DEF ServedOK
<1>4. /\ s.i \in 1..Len(admitted'[IpKey(s.who.ip, s.who.path)])
      /\ Went(s)' = Went(s)
  BY <1>2 DEF ServedOK, Longer, Went
<1> QED
  BY <1>3, <1>4 DEF ServedOK

(* Whatever is served later, a refusal keeps the delay that explains it.   *)
LEMMA DelayStays ==
    ASSUME RequestsOK, PlacesOwned, SecondTierNeedsDelay, Longer, served \subseteq served',
           NEW d \in turned
    PROVE  LET windowStart == d.at - Window
           IN \/ Came(d.who)' <= windowStart
              \/ \E s \in served' :
                    /\ s.who.ip = d.who.ip /\ s.who.path = d.who.path
                    /\ Came(s.who)' <= windowStart
                    /\ windowStart < Went(s)' /\ Went(s)' <= d.at
<1>1. d.who \in Entered /\ Placed(d.who)
  BY DEF RequestsOK, PlacesOwned
<1>2. Came(d.who)' = Came(d.who)
  BY <1>1, PlaceStays
<1>3. CASE Came(d.who) <= d.at - Window
  BY <1>2, <1>3
<1>4. ASSUME NEW s \in served,
             s.who.ip = d.who.ip, s.who.path = d.who.path,
             Came(s.who) <= d.at - Window, d.at - Window < Went(s), Went(s) <= d.at
      PROVE  \E u \in served' :
                /\ u.who.ip = d.who.ip /\ u.who.path = d.who.path
                /\ Came(u.who)' <= d.at - Window
                /\ d.at - Window < Went(u)' /\ Went(u)' <= d.at
  <2>1. Came(s.who)' = Came(s.who) /\ Went(s)' = Went(s)
    <3>1. s \in [who : Entered, i : Nat] /\ ServedOK(s)
      BY DEF RequestsOK, PlacesOwned
    <3> QED
      BY <3>1, ServedStays
  <2>2. s \in served'
    OBVIOUS
  <2> QED
    BY <1>4, <2>1, <2>2
<1> QED
  BY <1>3, <1>4 DEF SecondTierNeedsDelay

-----------------------------------------------------------------------------
(* TierInv holds for ever.                                                 *)

LEMMA TierStart == TierInit => Init /\ TierInv
<1> SUFFICES ASSUME TierInit PROVE Init /\ TierInv
  OBVIOUS
<1>1. RequestsOK
  BY FS_EmptySet DEF TierInit, RequestsOK
<1>2. \A ip \in Ips, p \in Paths : admitted[IpKey(ip, p)] = << >>
  BY TierKey DEF TierInit, Init
<1>3. PlacesOwned
  BY <1>2 DEF TierInit, PlacesOwned
<1>4. SecondTierNeedsDelay
  BY DEF TierInit, SecondTierNeedsDelay
<1> QED
  BY <1>1, <1>3, <1>4 DEF TierInit, TierInv

(* Histories of requests only grow longer in a step that turns none away.  *)
LEMMA KnownStay ==
    ASSUME TierInv, Longer, served' = served, turned' = turned
    PROVE  /\ \A s \in served' : ServedOK(s)'
           /\ \A d \in turned' : Placed(d.who)'
           /\ \A v \in Entered : Placed(v) => Placed(v)'
           /\ SecondTierNeedsDelay'
<1>1. RequestsOK /\ PlacesOwned /\ SecondTierNeedsDelay
  BY DEF TierInv
<1>2. \A s \in served : ServedOK(s)'
  BY <1>1, ServedStays DEF RequestsOK, PlacesOwned
<1>3. \A d \in turned : Placed(d.who)'
  BY <1>1, PlaceStays DEF RequestsOK, PlacesOwned
<1>4. \A v \in Entered : Placed(v) => Placed(v)'
  BY PlaceStays
<1>5. SecondTierNeedsDelay'
  <2>1. served \subseteq served'
    OBVIOUS
  <2> QED
    BY <1>1, <2>1, DelayStays DEF SecondTierNeedsDelay
<1> QED
  BY <1>2, <1>3, <1>4, <1>5

LEMMA PathAdmitsStep ==
    ASSUME TierInv, LimInv, NEW r \in Reqs, PathAdmits(r) PROVE TierInv'
<1>1. PICK ip \in Ips, p \in Paths : Admit(PathKey(p)) /\ Enters(r, ip, p)
  BY DEF PathAdmits
<1>2. PICK who : who = [ip |-> ip, path |-> p, n |-> Len(admitted[PathKey(p)]) + 1]
  OBVIOUS
<1>3. /\ OneHit(PathKey(p)) /\ served' = served /\ turned' = turned
      /\ between[r] = Idle /\ between' = [between EXCEPT ![r] = who]
  BY <1>1, <1>2 DEF PathAdmits, Admit, Enters, OneHit
<1>4. PathKey(p) \in Keys /\ RequestsOK /\ PlacesOwned /\ Len(admitted[PathKey(p)]) \in Nat
  BY TierKey, KeyHistory DEF TierInv
<1>5. Longer
  BY <1>3, <1>4, HitLonger
<1>6. who \in Entered /\ who # Idle /\ who.path = p /\ who.n = Len(admitted[PathKey(p)]) + 1
  BY <1>2, <1>4, IdleAssumption DEF Entered
<1>7. Placed(who)'
  <2>1. Len(admitted'[PathKey(p)]) = Len(admitted[PathKey(p)]) + 1
    BY <1>3, <1>4, HitsGrow
  <2>2. who.n \in 1..Len(admitted'[PathKey(who.path)])
    BY <1>4, <1>6, <2>1
  <2> QED
    BY <2>2 DEF Placed
<1>8. \A v \in Entered : Placed(v) => ~ SamePlace(who, v) /\ ~ SamePlace(v, who)
  BY <1>4, <1>6 DEF Placed, SamePlace
<1>9. between'[r] = who /\ \A q \in Reqs : q # r => between'[q] = between[q]
  BY <1>3, <1>4 DEF RequestsOK
<1>10. RequestsOK'
  BY <1>3, <1>4, <1>6 DEF RequestsOK
<1>11. /\ \A s \in served' : ServedOK(s)'
       /\ \A d \in turned' : Placed(d.who)'
       /\ SecondTierNeedsDelay'
  BY <1>3, <1>5, KnownStay
<1>12. ASSUME NEW q \in Reqs, between'[q] # Idle
       PROVE  \E v : v = between'[q] /\ Placed(v)'
  <2>1. CASE q = r
    BY <1>7, <1>9, <2>1
  <2>2. CASE q # r
    <3>1. between[q] = between'[q] /\ between[q] \in Entered /\ Placed(between[q])
      BY <1>4, <1>9, <1>12, <2>2, Waiting DEF PlacesOwned
    <3>2. PICK v \in Entered : v = between[q] /\ Placed(v)
      BY <3>1
    <3>3. Placed(v)'
      BY <1>3, <1>5, <3>2, KnownStay
    <3> QED
      BY <3>1, <3>2, <3>3
  <2> QED
    BY <2>1, <2>2
<1>13. ASSUME NEW q \in Reqs, NEW s \in served', between'[q] # Idle
       PROVE  ~ SamePlace(between'[q], s.who)
  <2>1. s.who \in Entered /\ Placed(s.who)
    BY <1>3, <1>4 DEF RequestsOK, PlacesOwned, ServedOK
  <2> QED
    BY <1>3, <1>4, <1>8, <1>9, <1>13, <2>1 DEF PlacesOwned
<1>14. ASSUME NEW q \in Reqs, NEW u \in Reqs, q # u, between'[q] # Idle, between'[u] # Idle
       PROVE  ~ SamePlace(between'[q], between'[u])
  <2>1. \A v \in Reqs : v # r /\ between'[v] # Idle
           => between[v] # Idle /\ between[v] \in Entered /\ Placed(between[v])
    BY <1>4, <1>9, Waiting DEF PlacesOwned
  <2> QED
    BY <1>4, <1>8, <1>9, <1>14, <2>1 DEF PlacesOwned
<1>15. ASSUME NEW jp \in Ips, NEW q \in Paths, NEW i \in 1..Len(admitted'[IpKey(jp, q)])
       PROVE  \E s \in served' : s.who.ip = jp /\ s.who.path = q /\ s.i = i
  <2>1. admitted'[IpKey(jp, q)] = admitted[IpKey(jp, q)]
    BY <1>3, <1>4, TierKey, KeysApart, HitsGrow
  <2> QED
    BY <1>3, <1>4, <1>15, <2>1 DEF PlacesOwned
<1>16. \A s, u \in served' : SamePlace(s.who, u.who) => s = u
  BY <1>3, <1>4 DEF PlacesOwned
<1>17. \A q \in Reqs : between'[q] # Idle => (Placed(between[q]))'
  BY <1>12 DEF Placed
<1>18. PlacesOwned'
  BY <1>11, <1>13, <1>14, <1>15, <1>16, <1>17 DEF PlacesOwned, SamePlace
<1> QED
  BY <1>10, <1>11, <1>18 DEF TierInv

LEMMA PathRefusesStep ==
    ASSUME TierInv, NEW r \in Reqs, PathRefuses(r) PROVE TierInv'
<1>1. /\ between' = between /\ served' = served /\ turned' = turned
      /\ admitted' = admitted
  BY DEF PathRefuses, Refuse
<1> QED
  BY <1>1 DEF TierInv, RequestsOK, PlacesOwned, SecondTierNeedsDelay, ServedOK, Placed,
              SamePlace, Came, Went

LEMMA TierTickStep == ASSUME TierInv, TierTick PROVE TierInv'
<1>1. /\ between' = between /\ served' = served /\ turned' = turned
      /\ admitted' = admitted
  BY DEF TierTick, Tick
<1> QED
  BY <1>1 DEF TierInv, RequestsOK, PlacesOwned, SecondTierNeedsDelay, ServedOK, Placed,
              SamePlace, Came, Went

(* A request between the tiers leaves them, whoever is served or turned.   *)
LEMMA OneLeaves ==
    ASSUME TierInv, NEW r \in Reqs, between' = [between EXCEPT ![r] = Idle]
    PROVE  /\ between'[r] = Idle /\ \A q \in Reqs : q # r => between'[q] = between[q]
           /\ between' \in [Reqs -> Entered \cup {Idle}]
           /\ \A q, u \in Reqs :
                 q # u /\ between'[q] # Idle /\ between'[u] # Idle
                   => ~ SamePlace(between'[q], between'[u])
<1>1. between \in [Reqs -> Entered \cup {Idle}]
  BY DEF TierInv, RequestsOK
<1>2. between'[r] = Idle /\ \A q \in Reqs : q # r => between'[q] = between[q]
  BY <1>1
<1> QED
  BY <1>1, <1>2 DEF TierInv, PlacesOwned

LEMMA IpAdmitsStep ==
    ASSUME TierInv, LimInv, NEW r \in Reqs, IpAdmits(r) PROVE TierInv'
<1>1. PICK who : who = between[r]
  OBVIOUS
<1>2. PICK key : key = IpKey(who.ip, who.path)
  OBVIOUS
<1>3. PICK s0 : s0 = [who |-> who, i |-> Len(admitted[key]) + 1]
  OBVIOUS
<1>4. /\ between[r] # Idle /\ OneHit(key) /\ served' = served \cup {s0} /\ turned' = turned
      /\ between' = [between EXCEPT ![r] = Idle]
  BY <1>1, <1>2, <1>3 DEF IpAdmits, Admit, OneHit
<1>5. RequestsOK /\ PlacesOwned /\ SecondTierNeedsDelay
  BY DEF TierInv
<1>6. /\ who \in Entered /\ who.ip \in Ips /\ who.path \in Paths /\ key \in Keys
      /\ Placed(who)
  BY <1>1, <1>2, <1>4, <1>5, Waiting DEF PlacesOwned
<1>7. Len(admitted[key]) \in Nat /\ now \in Nat
  BY <1>6, KeyHistory
<1>8. s0 \in [who : Entered, i : Nat] /\ s0.who = who /\ s0.i = Len(admitted[key]) + 1
  BY <1>3, <1>6, <1>7
<1>9. Longer
  BY <1>4, <1>6, HitLonger
<1>10. /\ between'[r] = Idle /\ \A q \in Reqs : q # r => between'[q] = between[q]
       /\ between' \in [Reqs -> Entered \cup {Idle}]
       /\ \A q, u \in Reqs :
             q # u /\ between'[q] # Idle /\ between'[u] # Idle
               => ~ SamePlace(between'[q], between'[u])
  BY <1>4, OneLeaves
<1>11. RequestsOK'
  BY <1>4, <1>5, <1>8, <1>10, FS_AddElement DEF RequestsOK
<1>12. ServedOK(s0)'
  <2>1. Placed(who)' /\ Came(who)' = Came(who)
    BY <1>6, <1>9, PlaceStays
  <2>2. PICK a \in Seq(Nat) :
           a = admitted[PathKey(who.path)] /\ PastOnly(a, now)
    BY <1>6, TierKey, KeyHistory
  <2>3. Came(who) <= now /\ Came(who) \in Nat
    BY <1>6, <2>2, Elements DEF Came, Placed, PastOnly
  <2>4. Len(admitted'[key]) = Len(admitted[key]) + 1 /\ admitted'[key][s0.i] = now
    BY <1>4, <1>6, <1>8, HitsGrow
  <2>5. s0.i \in 1..Len(admitted'[key])
    BY <1>7, <1>8, <2>4
  <2>6. Went(s0)' = now
    BY <1>2, <1>8, <2>4 DEF Went
  <2>7. Came(s0.who)' <= Went(s0)'
    BY <1>8, <2>1, <2>3, <2>6
  <2>8. Placed(s0.who)' /\ s0.i \in 1..Len(admitted'[IpKey(s0.who.ip, s0.who.path)])
    BY <1>2, <1>8, <2>1, <2>5
  <2> QED
    BY <2>7, <2>8 DEF ServedOK
<1>13. \A s \in served : ServedOK(s)'
  BY <1>5, <1>9, ServedStays DEF RequestsOK, PlacesOwned
<1>14. \A d \in turned' : Placed(d.who)'
  BY <1>4, <1>5, <1>9, PlaceStays DEF RequestsOK, PlacesOwned
<1>15. ASSUME NEW q \in Reqs, between'[q] # Idle
       PROVE  \E v : v = between'[q] /\ Placed(v)'
  <2>1. q # r /\ between[q] = between'[q] /\ between[q] \in Entered /\ Placed(between[q])
    BY <1>5, <1>10, <1>15, Waiting DEF PlacesOwned
  <2>2. PICK v \in Entered : v = between[q] /\ Placed(v)
    BY <2>1
  <2>3. Placed(v)'
    BY <1>9, <2>2, PlaceStays
  <2> QED
    BY <2>1, <2>2, <2>3
<1>16. \A s \in served : ~ SamePlace(s0.who, s.who) /\ ~ SamePlace(s.who, s0.who)
  BY <1>1, <1>4, <1>5, <1>8 DEF PlacesOwned, SamePlace
<1>17. \A s, u \in served' : SamePlace(s.who, u.who) => s = u
  BY <1>4, <1>5, <1>16 DEF PlacesOwned
<1>18. ASSUME NEW q \in Reqs, NEW s \in served', between'[q] # Idle
       PROVE  ~ SamePlace(between'[q], s.who)
  <2>1. q # r /\ between[q] = between'[q]
    BY <1>10, <1>18
  <2>2. ~ SamePlace(between[q], who)
    BY <1>1, <1>4, <1>5, <1>18, <2>1 DEF PlacesOwned
  <2> QED
    BY <1>4, <1>5, <1>8, <1>18, <2>1, <2>2 DEF PlacesOwned
<1>19. ASSUME NEW jp \in Ips, NEW q \in Paths, NEW i \in 1..Len(admitted'[IpKey(jp, q)])
       PROVE  \E s \in served' : s.who.ip = jp /\ s.who.path = q /\ s.i = i
  <2>1. CASE IpKey(jp, q) = key
    <3>1. jp = who.ip /\ q = who.path
      BY <1>2, <1>6, <2>1, KeysApart
    <3>2. i \in 1..Len(admitted[key]) \/ i = s0.i
      <4>1. Len(admitted'[key]) = Len(admitted[key]) + 1
        BY <1>4, <1>6, HitsGrow
      <4> QED
        BY <1>7, <1>8, <1>19, <2>1, <4>1
    <3>3. CASE i = s0.i
      BY <1>4, <1>8, <3>1, <3>3
    <3>4. CASE i \in 1..Len(admitted[key])
      BY <1>4, <1>5, <2>1, <3>4 DEF PlacesOwned
    <3> QED
      BY <3>2, <3>3, <3>4
  <2>2. CASE IpKey(jp, q) # key
    <3>1. admitted'[IpKey(jp, q)] = admitted[IpKey(jp, q)]
      BY <1>4, <1>6, <2>2, TierKey, HitsGrow
    <3> QED
      BY <1>4, <1>5, <1>19, <3>1 DEF PlacesOwned
  <2> QED
    BY <2>1, <2>2
<1>20. SecondTierNeedsDelay'
  <2>1. served \subseteq served'
    BY <1>4
  <2> QED
    BY <1>4, <1>5, <1>9, <2>1, DelayStays DEF SecondTierNeedsDelay
<1>21. \A s \in served' : ServedOK(s)'
  BY <1>4, <1>12, <1>13
<1>22. \A q \in Reqs : between'[q] # Idle => (Placed(between[q]))'
  BY <1>15 DEF Placed
<1>23. PlacesOwned'
  BY <1>10, <1>14, <1>17, <1>18, <1>19, <1>21, <1>22 DEF PlacesOwned, SamePlace
<1> QED
  BY <1>11, <1>20, <1>23 DEF TierInv

LEMMA HitServed ==
    ASSUME PlacesOwned, NEW ip \in Ips, NEW p \in Paths,
           NEW k \in 1..Len(admitted[IpKey(ip, p)])
    PROVE  \E s \in served : s.who.ip = ip /\ s.who.path = p /\ s.i = k
BY DEF PlacesOwned

(* The limiter refuses an IP only after Limit hits in the window.  With    *)
(* the refused one these are Limit + 1 requests of one path, and only      *)
(* Limit of these can have come in the window.                             *)
LEMMA HeldUp ==
    ASSUME TierInv, LimInv, NEW who \in Entered, Placed(who),
           \A s \in served : ~ SamePlace(who, s.who),
           Earned(admitted[IpKey(who.ip, who.path)], now)
    PROVE  \/ Came(who) <= now - Window
           \/ \E s \in served :
                 /\ s.who.ip = who.ip /\ s.who.path = who.path
                 /\ Came(s.who) <= now - Window
                 /\ now - Window < Went(s) /\ Went(s) <= now
<1>1. who.ip \in Ips /\ who.path \in Paths /\ RequestsOK /\ PlacesOwned
  BY DEF Entered, TierInv
<1>2. PICK a \in Seq(Nat) : a = admitted[PathKey(who.path)] /\ Spaced(a) /\ PastOnly(a, now)
  BY <1>1, TierKey, KeyHistory
<1>3. PICK b \in Seq(Nat) :
         b = admitted[IpKey(who.ip, who.path)] /\ PastOnly(b, now) /\ InOrder(b)
  BY <1>1, TierKey, KeyHistory
<1>4. PICK i \in 1..Len(b) : i + Limit - 1 <= Len(b) /\ b[i] > now - Window
  BY <1>3 DEF Earned
<1>5. /\ Len(a) \in Nat /\ Len(b) \in Nat /\ Limit \in Nat \ {0} /\ Window \in Nat
      /\ now \in Nat /\ i \in Nat
  BY LimitAssumption, WindowAssumption DEF LimInv, TypeOK
<1> SUFFICES ASSUME Came(who) > now - Window,
                    \A s \in served :
                        s.who.ip = who.ip /\ s.who.path = who.path
                          /\ now - Window < Went(s) /\ Went(s) <= now
                            => Came(s.who) > now - Window
             PROVE  FALSE
  <2>1. Came(who) \in Nat
    BY <1>2, Elements DEF Came, Placed
  <2>2. \A s \in served : s.who.path = who.path => Came(s.who) \in Nat
    BY <1>1, <1>2, Elements DEF Came, Placed, PlacesOwned, ServedOK
  <2> QED
    BY <1>5, <2>1, <2>2
<1> DEFINE Its(j) == CHOOSE s \in served :
                         s.who.ip = who.ip /\ s.who.path = who.path /\ s.i = j
           X == i..(i + Limit)
           f == [j \in X |-> IF j = i + Limit THEN who.n ELSE Its(j).who.n]
<1>6. ASSUME NEW j \in X, j # i + Limit
      PROVE  /\ Its(j) \in served /\ Its(j).i = j /\ Its(j).who.path = who.path
             /\ f[j] = Its(j).who.n
             /\ f[j] \in (Len(a) - Limit + 1)..Len(a)
  <2>1. j \in 1..Len(b)
    BY <1>4, <1>5, <1>6
  <2>2. \E s \in served : s.who.ip = who.ip /\ s.who.path = who.path /\ s.i = j
    <3> HIDE DEF X, f, Its
    <3>1. j \in 1..Len(admitted[IpKey(who.ip, who.path)])
      BY <1>3, <2>1
    <3>2. PICK ip \in Ips, p \in Paths : ip = who.ip /\ p = who.path
      BY <1>1, Zenon
    <3>3. j \in 1..Len(admitted[IpKey(ip, p)])
      BY <3>1, <3>2, Zenon
    <3>4. \E s \in served : s.who.ip = ip /\ s.who.path = p /\ s.i = j
      BY <1>1, <3>3, HitServed
    <3> QED
      BY <3>2, <3>4, Zenon
  <2>3. PICK s \in served :
           s = Its(j) /\ s.who.ip = who.ip /\ s.who.path = who.path /\ s.i = j
    <3> HIDE DEF X, f
    <3> QED
      BY <2>2
  <2>4. Went(s) = b[j] /\ ServedOK(s)
    BY <1>1, <1>3, <2>3 DEF Went, PlacesOwned
  <2>5. b[i] <= b[j] /\ b[j] <= now /\ b[i] \in Nat /\ b[j] \in Nat
    <3>1. i <= j
      BY <1>5, <1>6
    <3> QED
      BY <1>3, <2>1, <3>1, Elements DEF InOrder, PastOnly
  <2>6. now - Window < Went(s) /\ Went(s) <= now
    BY <1>4, <1>5, <2>4, <2>5
  <2>7. Came(s.who) > now - Window
    BY <2>3, <2>6
  <2>8. s.who.n \in 1..Len(a) /\ a[s.who.n] > now - Window
    BY <1>2, <2>3, <2>4, <2>7 DEF ServedOK, Placed, Came
  <2>9. s.who.n \in (Len(a) - Limit + 1)..Len(a)
    BY <1>2, <1>5, <2>8, LastHits
  <2>10. f[j] = Its(j).who.n
    <3> HIDE DEF Its
    <3> QED
      BY <1>6
  <2> QED
    BY <2>3, <2>9, <2>10
<1>7. i + Limit \in X /\ f[i + Limit] = who.n /\ who.n \in (Len(a) - Limit + 1)..Len(a)
  <2>1. i + Limit \in X
    BY <1>5
  <2>2. f[i + Limit] = who.n
    <3> HIDE DEF Its
    <3> QED
      BY <2>1
  <2>3. who.n \in 1..Len(a) /\ a[who.n] > now - Window
    BY <1>2 DEF Placed, Came
  <2>4. who.n \in (Len(a) - Limit + 1)..Len(a)
    BY <1>2, <1>5, <2>3, LastHits
  <2> QED
    BY <2>1, <2>2, <2>4
<1>8. IsFiniteSet(X) /\ Cardinality(X) > Limit
  <2>1. i \in Int /\ i + Limit \in Int /\ i <= i + Limit + 1 /\ (i + Limit) - i + 1 > Limit
    BY <1>5
  <2>2. IsFiniteSet(X) /\ Cardinality(X) = IF i > i + Limit THEN 0 ELSE (i + Limit) - i + 1
    BY <2>1, FS_Interval
  <2>3. ~ (i > i + Limit)
    BY <1>5
  <2> HIDE DEF X
  <2> QED
    BY <2>1, <2>2, <2>3
<1>9. PICK m \in Int : m = Len(a) - Limit + 1 /\ Len(a) = m + Limit - 1
  <2>1. Len(a) - Limit + 1 \in Int /\ Len(a) = (Len(a) - Limit + 1) + Limit - 1
    BY <1>5
  <2> QED
    BY <2>1, Zenon
<1>10. \A j \in X : f[j] \in m..(m + Limit - 1)
  <2> HIDE DEF X, f, Its
  <2> QED
    BY <1>6, <1>7, <1>9
<1>11. f \in [X -> Int]
  <2>1. \A j \in X : f[j] \in Int
    <3> HIDE DEF X, f, Its
    <3> QED
      BY <1>10
  <2> HIDE DEF X, Its
  <2> QED
    BY <2>1
<1>12. PICK x, y \in X : x # y /\ f[x] = f[y]
  <2> HIDE DEF X, f
  <2> QED
    BY <1>8, <1>10, <1>11, TooMany
<1>13. CASE x # i + Limit /\ y # i + Limit
  <2> HIDE DEF X, f, Its
  <2>1. SamePlace(Its(x).who, Its(y).who)
    BY <1>6, <1>12, <1>13 DEF SamePlace
  <2>2. Its(x) = Its(y)
    BY <1>1, <1>6, <1>13, <2>1 DEF PlacesOwned
  <2> QED
    BY <1>6, <1>12, <1>13, <2>2
<1>14. ASSUME NEW z \in X, z # i + Limit, f[z] = f[i + Limit] PROVE FALSE
  <2> HIDE DEF X, f, Its
  <2>1. SamePlace(who, Its(z).who)
    BY <1>6, <1>7, <1>14 DEF SamePlace
  <2> QED
    BY <1>6, <1>14, <2>1
<1> QED
  <2> HIDE DEF X, f, Its
  <2> QED
    BY <1>12, <1>13, <1>14

LEMMA IpRefusesStep ==
    ASSUME TierInv, LimInv, LimInv', NEW r \in Reqs, IpRefuses(r) PROVE TierInv'
<1>1. PICK who : who = between[r]
  OBVIOUS
<1>2. PICK d0 : d0 = [who |-> who, at |-> now]
  OBVIOUS
<1>3. /\ between[r] # Idle /\ served' = served /\ turned' = turned \cup {d0}
      /\ now' = now /\ admitted' = admitted
      /\ refused' = refused \cup {<<IpKey(who.ip, who.path), now>>}
      /\ between' = [between EXCEPT ![r] = Idle]
  BY <1>1, <1>2 DEF IpRefuses, Refuse
<1>4. RequestsOK /\ PlacesOwned /\ SecondTierNeedsDelay /\ now \in Nat
  BY DEF TierInv, LimInv, TypeOK
<1>5. who \in Entered /\ Placed(who) /\ \A s \in served : ~ SamePlace(who, s.who)
  BY <1>1, <1>3, <1>4, Waiting DEF PlacesOwned
<1>6. d0 \in [who : Entered, at : Nat] /\ d0.who = who /\ d0.at = now
  BY <1>2, <1>4, <1>5
<1>7. /\ between'[r] = Idle /\ \A q \in Reqs : q # r => between'[q] = between[q]
      /\ between' \in [Reqs -> Entered \cup {Idle}]
      /\ \A q, u \in Reqs :
            q # u /\ between'[q] # Idle /\ between'[u] # Idle
              => ~ SamePlace(between'[q], between'[u])
  BY <1>3, OneLeaves
<1>8. RequestsOK'
  BY <1>3, <1>4, <1>6, <1>7 DEF RequestsOK
<1>9. \A q \in Reqs : between'[q] # Idle => q # r /\ between'[q] = between[q]
  BY <1>7
<1>10. /\ \A s \in served' : ServedOK(s)'
       /\ \A d \in turned' : Placed(d.who)'
       /\ \A q \in Reqs : between'[q] # Idle => (Placed(between[q]))'
  BY <1>3, <1>4, <1>5, <1>6, <1>9 DEF PlacesOwned, ServedOK, Placed, Came, Went
<1>11. /\ \A s, u \in served' : SamePlace(s.who, u.who) => s = u
       /\ \A q \in Reqs, s \in served' :
             between'[q] # Idle => ~ SamePlace(between'[q], s.who)
  BY <1>3, <1>4, <1>9 DEF PlacesOwned
<1>12. PlacesOwned'
  BY <1>3, <1>4, <1>7, <1>10, <1>11 DEF PlacesOwned, SamePlace
<1>13. Earned(admitted[IpKey(who.ip, who.path)], now)
  <2>1. \A d \in refused' : Earned(admitted'[d[1]], d[2])
    BY DEF LimInv
  <2>2. <<IpKey(who.ip, who.path), now>> \in refused'
    BY <1>3
  <2> QED
    BY <1>3, <2>1, <2>2
<1>14. \/ Came(who) <= now - Window
       \/ \E s \in served :
             /\ s.who.ip = who.ip /\ s.who.path = who.path
             /\ Came(s.who) <= now - Window
             /\ now - Window < Went(s) /\ Went(s) <= now
  BY <1>5, <1>13, HeldUp
<1>15. SecondTierNeedsDelay'
  <2> SUFFICES ASSUME NEW d \in turned'
               PROVE  \/ Came(d.who) <= d.at - Window
                      \/ \E s \in served :
                            /\ s.who.ip = d.who.ip /\ s.who.path = d.who.path
                            /\ Came(s.who) <= d.at - Window
                            /\ d.at - Window < Went(s) /\ Went(s) <= d.at
    BY <1>3 DEF SecondTierNeedsDelay, Came, Went
  <2>1. CASE d = d0
    BY <1>6, <1>14, <2>1
  <2>2. CASE d \in turned
    BY <1>4, <2>2 DEF SecondTierNeedsDelay
  <2> QED
    BY <1>3, <2>1, <2>2
<1> QED
  BY <1>8, <1>12, <1>15 DEF TierInv

LEMMA TierStep == TierInv /\ LimInv /\ LimInv' /\ [TierNext]_tierVars => TierInv'
<1> SUFFICES ASSUME TierInv, LimInv, LimInv', [TierNext]_tierVars PROVE TierInv'
  OBVIOUS
<1>1. ASSUME NEW r \in Reqs, PathAdmits(r) PROVE TierInv'
  BY <1>1, PathAdmitsStep
<1>2. ASSUME NEW r \in Reqs, PathRefuses(r) PROVE TierInv'
  BY <1>2, PathRefusesStep
<1>3. ASSUME NEW r \in Reqs, IpAdmits(r) PROVE TierInv'
  BY <1>3, IpAdmitsStep
<1>4. ASSUME NEW r \in Reqs, IpRefuses(r) PROVE TierInv'
  BY <1>4, IpRefusesStep
<1>5. CASE TierTick
  BY <1>5, TierTickStep
<1>6. CASE UNCHANGED tierVars
  BY <1>6 DEF tierVars, vars, TierInv, RequestsOK, PlacesOwned, SecondTierNeedsDelay,
              ServedOK, Placed, SamePlace, Came, Went
<1> QED
  BY <1>1, <1>2, <1>3, <1>4, <1>5, <1>6 DEF TierNext

(* Both invariants together: each step of the tiers is one of the limiter, *)
(* so the limiter's invariant is there for the step of the tiers'.         *)
LEMMA TierAlways == TierSpec => [](TierInv /\ LimInv)
<1>1. TierInit => TierInv /\ LimInv
  BY TierStart, LimInit
<1>2. TierInv /\ LimInv /\ [TierNext]_tierVars => (TierInv /\ LimInv)'
  <2>1. TierInv => RequestsOK
    BY DEF TierInv
  <2> QED
    BY <2>1, StepIsAllow, LimStep, TierStep
<1> QED
  BY <1>1, <1>2, PTL DEF TierSpec

-----------------------------------------------------------------------------
(* Requests that came to a path in a window and were served in it have     *)
(* each a place among the Limit hits of the path from the first on.        *)
LEMMA FewServed == TierInv /\ LimInv => ServedWithinLimit
<1> SUFFICES ASSUME TierInv, LimInv, NEW p \in Paths, NEW t \in 0..now
             PROVE  Cardinality({s \in served :
                       s.who.path = p /\ Came(s.who) >= t /\ Went(s) < t + Window}) <= Limit
  BY DEF ServedWithinLimit
<1> DEFINE T == {s \in served : s.who.path = p /\ Came(s.who) >= t /\ Went(s) < t + Window}
           f == [s \in T |-> s.who.n]
<1>1. RequestsOK /\ PlacesOwned
  BY DEF TierInv
<1>2. PICK a \in Seq(Nat) : a = admitted[PathKey(p)] /\ Spaced(a) /\ InOrder(a)
  BY TierKey, KeyHistory
<1>3. IsFiniteSet(T) /\ Cardinality(T) \in Nat
  <2>1. T \subseteq served /\ IsFiniteSet(served)
    BY <1>1 DEF RequestsOK
  <2> QED
    BY <2>1, FS_Subset, FS_CardinalityType
<1>4. Limit \in Nat /\ Window \in Nat /\ t \in Nat /\ Len(a) \in Nat
  BY LimitAssumption, WindowAssumption
<1>5. ASSUME NEW s \in T
      PROVE  /\ f[s] = s.who.n /\ s.who.n \in 1..Len(a)
             /\ a[s.who.n] \in Nat /\ a[s.who.n] >= t /\ a[s.who.n] < t + Window
  <2>1. /\ s \in served /\ s.who.path = p /\ Came(s.who) >= t /\ Went(s) < t + Window
        /\ ServedOK(s)
    BY <1>1, <1>5 DEF PlacesOwned
  <2>2. s.who.n \in 1..Len(a) /\ Came(s.who) = a[s.who.n]
    BY <1>2, <2>1 DEF ServedOK, Placed, Came
  <2>3. Went(s) \in Nat
    <3>1. s.who.ip \in Ips /\ s.who.path \in Paths
      BY <1>1, <2>1 DEF RequestsOK, Entered
    <3>2. admitted[IpKey(s.who.ip, s.who.path)] \in Seq(Nat)
      BY <3>1, TierKey, KeyHistory
    <3> QED
      BY <2>1, <3>2, Elements DEF ServedOK, Went
  <2>4. a[s.who.n] \in Nat
    BY <2>2, Elements
  <2>5. Came(s.who) <= Went(s)
    BY <2>1 DEF ServedOK
  <2> QED
    BY <1>4, <1>5, <2>1, <2>2, <2>3, <2>4, <2>5
<1>6. ASSUME Cardinality(T) > Limit PROVE FALSE
  <2> DEFINE N == {f[s] : s \in T}
  <2>1. T # {}
    <3> HIDE DEF T
    <3> SUFFICES ASSUME T = {} PROVE FALSE
      OBVIOUS
    <3>1. Cardinality(T) = 0
      BY FS_EmptySet
    <3> QED
      BY <1>4, <1>6, <3>1
  <2>2. PICK m \in N : \A n \in N : m <= n
    <3>1. N \subseteq Nat /\ N # {}
      <4> HIDE DEF T, f
      <4> QED
        BY <1>5, <2>1
    <3> HIDE DEF N
    <3> QED
      BY <3>1, LeastElement
  <2>3. m \in 1..Len(a) /\ a[m] \in Nat /\ a[m] >= t
    <3> HIDE DEF T, f
    <3> QED
      BY <1>5, <2>2
  <2>4. ASSUME NEW s \in T PROVE f[s] \in m..(m + Limit - 1)
    <3>1. m <= f[s]
      <4> HIDE DEF T, f
      <4> QED
        BY <2>2
    <3>2. PICK n \in 1..Len(a) : n = f[s] /\ m <= n /\ a[n] < t + Window /\ a[n] \in Nat
      <4> HIDE DEF T, f
      <4> QED
        BY <1>5, <3>1
    <3>3. a[n] < a[m] + Window
      BY <1>4, <2>3, <3>2, SMTT(20)
    <3>4. n \in m..(m + Limit - 1)
      BY <1>2, <2>3, <3>2, <3>3, NextHits
    <3> QED
      BY <3>2, <3>4
  <2>5. m \in Int /\ f \in [T -> Int]
    <3>1. \A s \in T : f[s] \in Int
      <4> HIDE DEF T, f
      <4> QED
        BY <1>5, SMTT(20)
    <3> HIDE DEF T
    <3> QED
      BY <2>3, <3>1
  <2>6. PICK x, y \in T : x # y /\ f[x] = f[y]
    <3> HIDE DEF T, f
    <3> QED
      BY <1>3, <1>6, <2>4, <2>5, TooMany
  <2>7. SamePlace(x.who, y.who) /\ x \in served /\ y \in served
    <3>1. x.who.n = y.who.n
      <4> HIDE DEF T, f
      <4> QED
        BY <1>5, <2>6
    <3> QED
      BY <3>1 DEF SamePlace
  <2> QED
    BY <1>1, <2>6, <2>7 DEF PlacesOwned
<1>7. PICK c \in Nat : c = Cardinality(T)
  <2> HIDE DEF T
  <2> QED
    BY <1>3
<1>8. c <= Limit
  <2> HIDE DEF T
  <2> QED
    BY <1>4, <1>6, <1>7
<1> QED
  BY <1>7, <1>8

-----------------------------------------------------------------------------
(* Neither a path nor an IP of a path is let through more than Limit times *)
(* in a window, and none is refused without Limit hits in it, however the  *)
(* requests interleave between the tiers.                                  *)
THEOREM TiersKeepWindows == TierSpec => [](TypeOK /\ WindowRespected /\ RefusalsEarned)
<1>1. LimInv => TypeOK /\ WindowRespected /\ RefusalsEarned
  BY DEF LimInv, KeyInv, Spaced, Earned, WindowRespected, RefusalsEarned
<1> QED
  BY <1>1, TierAlways, PTL

(* Of the requests that come to a path in a window, whatever their IPs, no *)
(* more than Limit are served in it, however long each is between the      *)
(* tiers (middleware.go:174-184).                                          *)
THEOREM FewServedOfAPath == TierSpec => []ServedWithinLimit
BY FewServed, TierAlways, PTL

(* The limit of an IP on a path only bites when a request was held up      *)
(* between the tiers across the start of the window: otherwise the limit   *)
(* of the path is reached first.                                           *)
THEOREM PathRefusesFirst == TierSpec => []SecondTierNeedsDelay
<1>1. TierInv => SecondTierNeedsDelay
  BY DEF TierInv
<1> QED
  BY <1>1, TierAlways, PTL
=============================================================================
