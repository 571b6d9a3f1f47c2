---------------------------- MODULE TokenRotation ----------------------------
(***************************************************************************)
(* What refresh-token rotation promises a client that never presents one   *)
(* token twice at a time (README.md, "Refresh tokens (stateful, rotated)"): *)
(* a session, named by the token its login issued, has one holder at most, *)
(* each renewal of it spends the holder, and no token ever comes back.     *)
(***************************************************************************)
CONSTANTS
    Tokens,
    Pending,   \* the session's token is spent, its successor not out yet
    Closed     \* no token, and none to come

VARIABLES
    holder,    \* the one live token of each session, Pending or Closed
    used       \* every token ever issued

rotationVars == <<holder, used>>

RotationInit ==
    /\ holder = [s \in Tokens |-> Closed]
    /\ used = {}

(* A login opens a session with a token of its own. *)
Open(s) ==
    /\ s \notin used
    /\ holder' = [holder EXCEPT ![s] = s]
    /\ used' = used \cup {s}

(* The holder is spent or revoked; a renewal of it may be under way. *)
Spend(s) ==
    /\ holder[s] \in Tokens
    /\ \E after \in {Pending, Closed} : holder' = [holder EXCEPT ![s] = after]
    /\ UNCHANGED used

(* The renewal hands out a token never seen before. *)
Renew(s, t) ==
    /\ holder[s] = Pending
    /\ t \notin used
    /\ holder' = [holder EXCEPT ![s] = t]
    /\ used' = used \cup {t}

(* Renewals fail, one by one or all at a crash: their sessions are over. *)
Forfeit(lost) ==
    /\ \A s \in lost : holder[s] = Pending
    /\ holder' = [s \in Tokens |-> IF s \in lost THEN Closed ELSE holder[s]]
    /\ UNCHANGED used

RotationNext ==
    \/ \E s \in Tokens : Open(s) \/ Spend(s)
    \/ \E s, t \in Tokens : Renew(s, t)
    \/ \E lost \in SUBSET Tokens : Forfeit(lost)

Rotation == RotationInit /\ [][RotationNext]_rotationVars
=============================================================================
