----------------------------- MODULE RateLimiter -----------------------------
(***************************************************************************)
(* The sliding-window limiter of middleware.go (rateLimiter.allow), which  *)
(* guards every /auth/* and /api/* route.  The whole of allow runs under   *)
(* one mutex and reads the clock inside it, so a call is one step and the  *)
(* times it records never go back.                                         *)
(***************************************************************************)
EXTENDS Integers, Sequences

CONSTANTS
    Keys,      \* "u:ID", "path:/auth/..", "ip:..|/auth/.."
    Limit,     \* hits a key may have in a window
    Window,    \* length of the window
    MaxTime    \* bound of the clock

ASSUME LimitAssumption == Limit \in Nat \ {0}
ASSUME WindowAssumption == Window \in Nat \ {0}

VARIABLES
    now,       \* time.Now()
    hits,      \* rateLimiter.hits
    admitted,  \* history: the times at which each key was let through
    refused    \* history: the calls answered false, as <<key, time>>

vars == <<now, hits, admitted, refused>>

Init ==
    /\ now = 0
    /\ hits = [k \in Keys |-> <<>>]
    /\ admitted = [k \in Keys |-> <<>>]
    /\ refused = {}

(* mutant: a hit exactly as old as the window still counts. *)
DroppedTooLate(k, n) ==
    /\ n \in 0..Len(hits[k])
    /\ \A i \in 1..n : hits[k][i] < now - Window
    /\ n < Len(hits[k]) => hits[k][n + 1] >= now - Window

(* What the loop leaves of hits[k]: the list from the first hit after the  *)
(* cutoff on, n hits being dropped.                                        *)
Dropped(k, n) ==
    /\ n \in 0..Len(hits[k])
    /\ \A i \in 1..n : hits[k][i] <= now - Window
    /\ n < Len(hits[k]) => hits[k][n + 1] > now - Window

Kept(k, n) == SubSeq(hits[k], n + 1, Len(hits[k]))

(* mutant: the limit is off by one. *)
AdmitOneMore(k) ==
    /\ \E n \in 0..Len(hits[k]) :
          /\ Dropped(k, n)
          /\ Len(Kept(k, n)) <= Limit
          /\ hits' = [hits EXCEPT ![k] = Append(Kept(k, n), now)]
    /\ admitted' = [admitted EXCEPT ![k] = Append(admitted[k], now)]
    /\ UNCHANGED <<now, refused>>

Admit(k) ==
    /\ \E n \in 0..Len(hits[k]) :
          /\ Dropped(k, n)
          /\ Len(Kept(k, n)) < Limit
          /\ hits' = [hits EXCEPT ![k] = Append(Kept(k, n), now)]
    /\ admitted' = [admitted EXCEPT ![k] = Append(admitted[k], now)]
    /\ UNCHANGED <<now, refused>>

Refuse(k) ==
    /\ \E n \in 0..Len(hits[k]) :
          /\ Dropped(k, n)
          /\ Len(Kept(k, n)) >= Limit
          /\ hits' = [hits EXCEPT ![k] = Kept(k, n)]
    /\ refused' = refused \cup {<<k, now>>}
    /\ UNCHANGED <<now, admitted>>

Tick ==
    /\ now < MaxTime
    /\ now' = now + 1
    /\ UNCHANGED <<hits, admitted, refused>>

Next ==
    \/ \E k \in Keys : Admit(k) \/ Refuse(k)
    \/ Tick

Spec == Init /\ [][Next]_vars

-----------------------------------------------------------------------------
TypeOK ==
    /\ now \in Nat
    /\ hits \in [Keys -> Seq(Nat)]
    /\ admitted \in [Keys -> Seq(Nat)]
    /\ refused \in SUBSET (Keys \X Nat)
    /\ \A k \in Keys : Len(hits[k]) <= Limit

(* No window of the given length, wherever it starts, holds more than      *)
(* Limit admitted hits of a key: a hit and the Limit-th after it are at    *)
(* least a window apart.                                                   *)
WindowRespected ==
    \A k \in Keys : \A i \in 1..Len(admitted[k]) :
        i + Limit <= Len(admitted[k]) => admitted[k][i] + Window <= admitted[k][i + Limit]

(* No call is refused without cause: Limit hits of the same key had been   *)
(* let through in the window that ended at the call.                       *)
RefusalsEarned ==
    \A d \in refused :
        \E i \in 1..Len(admitted[d[1]]) :
            /\ i + Limit - 1 <= Len(admitted[d[1]])
            /\ admitted[d[1]][i] > d[2] - Window
            /\ admitted[d[1]][i + Limit - 1] <= d[2]
=============================================================================
