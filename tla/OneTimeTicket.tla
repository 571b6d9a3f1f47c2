---------------------------- MODULE OneTimeTicket ----------------------------
(***************************************************************************)
(* What the login flow asks of the store of PKCE verifiers: a ticket is    *)
(* issued once, redeemed at most once and while it is live, and may lapse, *)
(* alone or with others, at any moment.                                    *)
(***************************************************************************)
CONSTANT Tickets

VARIABLES issued, live, redeemed

Init == issued = {} /\ live = {} /\ redeemed = {}

Issue(t) ==
    /\ t \notin issued
    /\ issued' = issued \cup {t}
    /\ live' = live \cup {t}
    /\ UNCHANGED redeemed

Redeem(t) ==
    /\ t \in live \ redeemed
    /\ redeemed' = redeemed \cup {t}
    /\ live' = live \ {t}
    /\ UNCHANGED issued

Lapse ==
    /\ live' \in SUBSET live
    /\ UNCHANGED <<issued, redeemed>>

Next == (\E t \in Tickets : Issue(t) \/ Redeem(t)) \/ Lapse

Spec == Init /\ [][Next]_<<issued, live, redeemed>>
=============================================================================
