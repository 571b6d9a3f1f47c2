---------------------------- MODULE WebLoginProofs ----------------------------
(***************************************************************************)
(* Theorems of WebLogin, for any states, requests, TTL and clock.          *)
(***************************************************************************)
EXTENDS WebLogin, TLAPS

IInv == TypeOK /\ SweptAtSet

LEMMA InvInit == Init => IInv
BY MaxTimeAssumption, TTLAssumption
   DEF Init, IInv, TypeOK, SweptAtSet, PcValues, Awaiting

(* The steps of a request leave the store of verifiers alone. *)
LEMMA RequestStep ==
    ASSUME IInv, NEW r \in Reqs,
           \/ TestLogin(r) \/ AuthGithubExchange(r)
           \/ GithubAnswers(r) \/ GithubRefuses(r) \/ Serve(r)
    PROVE  /\ UNCHANGED <<configured, now, store, released>>
           /\ pc' \in [Reqs -> PcValues]
<1>1. \E label \in PcValues : Goto(r, label)
  BY DEF TestLogin, AuthGithubExchange, GithubAnswers, GithubRefuses, Serve, TimesOut,
     Upserts, TestAccount, ExchangeFails, Awaiting, PcValues
<1>2. pc \in [Reqs -> PcValues]
  BY DEF IInv, TypeOK
<1>3. UNCHANGED <<configured, now, store, released>>
  BY DEF TestLogin, AuthGithubExchange, GithubAnswers, GithubRefuses, Serve, TimesOut,
     Upserts, TestAccount, ExchangeFails
<1> QED
  BY <1>1, <1>2, <1>3 DEF Goto

LEMMA InvNext == IInv /\ [Next]_vars => IInv'
<1> SUFFICES ASSUME IInv, [Next]_vars PROVE IInv'
  OBVIOUS
<1>t. /\ now \in Nat /\ MaxTime \in Nat /\ TTL \in Nat /\ lastSet \in Nat
      /\ createdAt \in [States -> 0..now] /\ waiting \in SUBSET States
      /\ \A s \in States : createdAt[s] \in Nat /\ createdAt[s] <= now
  BY MaxTimeAssumption, TTLAssumption DEF IInv, TypeOK
<1>1. ASSUME NEW s \in States, AuthGithub(s) PROVE IInv'
  <2>1. /\ issued' = issued \cup {s} /\ s \notin issued
        /\ createdAt' = [createdAt EXCEPT ![s] = now]
        /\ waiting' = {s} \cup {k \in waiting : ~ Old(k)}
        /\ lastSet' = now
        /\ UNCHANGED <<configured, now, released, pc>>
    BY <1>1 DEF AuthGithub, Set
  <2>2. TypeOK'
    BY <1>t, <2>1 DEF IInv, TypeOK
  <2>3. SweptAtSet'
    BY <1>t, <2>1 DEF IInv, SweptAtSet, Old
  <2> QED
    BY <2>2, <2>3 DEF IInv
<1>2. ASSUME NEW r \in Reqs, NEW s \in States, NEW real \in BOOLEAN,
             AuthGithubCallback(r, s, real)
      PROVE  IInv'
  <2>1. /\ s \in waiting /\ waiting' = waiting \ {s}
        /\ released' \in {released, released \cup {s}}
        /\ UNCHANGED <<configured, now, createdAt, lastSet, issued>>
    BY <1>2 DEF AuthGithubCallback, PopVerifier
  <2>2. pc' \in [Reqs -> PcValues]
    BY <1>2 DEF AuthGithubCallback, Goto, IInv, TypeOK, PcValues, Awaiting
  <2> QED
    BY <2>1, <2>2 DEF IInv, TypeOK, SweptAtSet
<1>3. ASSUME NEW r \in Reqs,
             \/ TestLogin(r) \/ AuthGithubExchange(r)
             \/ GithubAnswers(r) \/ GithubRefuses(r) \/ Serve(r)
      PROVE  IInv'
  BY <1>3, RequestStep DEF store, IInv, TypeOK, SweptAtSet
<1>4. CASE Tick
  <2>1. now' = now + 1 /\ now' <= MaxTime
        /\ UNCHANGED <<configured, waiting, createdAt, lastSet, issued, released, pc>>
    BY <1>4, <1>t DEF Tick, store
  <2>2. createdAt' \in [States -> 0..now'] /\ lastSet' \in 0..now' /\ now' \in 0..MaxTime
    BY <1>t, <2>1 DEF IInv, TypeOK
  <2> QED
    BY <2>1, <2>2 DEF IInv, TypeOK, SweptAtSet
<1>5. CASE Restart
  BY <1>5 DEF Restart, IInv, TypeOK, SweptAtSet, PcValues
<1>6. CASE UNCHANGED vars
  BY <1>6 DEF vars, IInv, TypeOK, SweptAtSet
<1> QED
  BY <1>1, <1>2, <1>3, <1>4, <1>5, <1>6 DEF Next, Arrive

LEMMA IInvAlways == Spec => []IInv
<1> QED
  BY InvInit, InvNext, PTL DEF Spec

(* Every variable keeps its type, and no released verifier is still kept.  *)
THEOREM TypeCorrect == Spec => []TypeOK
<1>1. IInv => TypeOK
  BY DEF IInv
<1> QED
  BY <1>1, IInvAlways, PTL

(* At each Set the map loses all that has expired.                         *)
THEOREM MapIsSwept == Spec => []SweptAtSet
<1>1. IInv => SweptAtSet
  BY DEF IInv
<1> QED
  BY <1>1, IInvAlways, PTL

-----------------------------------------------------------------------------
(* A step of the server is one of the abstract store of tickets, or none.  *)
LEMMA TicketStep ==
    IInv /\ IInv' /\ [Next]_vars => [Ticket!Next]_(<<issued, {s \in waiting : ~ Old(s)}, released>>)
<1> SUFFICES ASSUME IInv, IInv', [Next]_vars
             PROVE  [Ticket!Next]_(<<issued, {s \in waiting : ~ Old(s)}, released>>)
  OBVIOUS
<1> DEFINE live == {s \in waiting : ~ Old(s)}
<1>t. /\ now \in Nat /\ TTL \in Nat /\ waiting \in SUBSET (issued \ released)
      /\ createdAt \in [States -> 0..now] /\ issued \in SUBSET States
      /\ \A s \in States : createdAt[s] \in Nat /\ createdAt[s] <= now
  BY MaxTimeAssumption, TTLAssumption DEF IInv, TypeOK
<1>1. ASSUME NEW s \in States, AuthGithub(s) PROVE Ticket!Issue(s)
  <2>1. /\ issued' = issued \cup {s} /\ s \notin issued
        /\ createdAt' = [createdAt EXCEPT ![s] = now]
        /\ waiting' = {s} \cup {k \in waiting : ~ Old(k)}
        /\ UNCHANGED <<now, released>>
    BY <1>1 DEF AuthGithub, Set
  <2>2. ~ Old(s)'
    BY <1>t, <2>1 DEF Old
  <2>3. ASSUME NEW k \in waiting PROVE Old(k)' <=> Old(k)
    BY <1>t, <2>1, <2>3 DEF Old
  <2>4. live' = live \cup {s}
    BY <1>t, <2>1, <2>2, <2>3
  <2> QED
    BY <2>1, <2>4 DEF Ticket!Issue
<1>2. ASSUME NEW r \in Reqs, NEW s \in States, NEW real \in BOOLEAN,
             AuthGithubCallback(r, s, real)
      PROVE  Ticket!Redeem(s) \/ UNCHANGED <<issued, live, released>>
  <2>1. /\ s \in waiting /\ waiting' = waiting \ {s}
        /\ released' = IF Old(s) THEN released ELSE released \cup {s}
        /\ UNCHANGED <<now, createdAt, issued>>
    BY <1>2 DEF AuthGithubCallback, PopVerifier
  <2>2. \A k \in waiting : Old(k)' <=> Old(k)
    BY <2>1 DEF Old
  <2>3. live' = live \ {s}
    BY <2>1, <2>2
  <2> QED
    BY <1>t, <2>1, <2>3 DEF Ticket!Redeem
<1>3. ASSUME NEW r \in Reqs,
             \/ TestLogin(r) \/ AuthGithubExchange(r)
             \/ GithubAnswers(r) \/ GithubRefuses(r) \/ Serve(r)
      PROVE  UNCHANGED <<issued, live, released>>
  BY <1>3, RequestStep DEF store, Old
<1>4. CASE Tick
  <2>1. now' = now + 1 /\ UNCHANGED <<waiting, createdAt, issued, released>>
    BY <1>4 DEF Tick, store
  <2>2. \A k \in waiting : ~ Old(k)' => ~ Old(k)
    BY <1>t, <2>1 DEF Old
  <2> QED
    BY <2>1, <2>2 DEF Ticket!Next, Ticket!Lapse
<1>5. CASE Restart
  BY <1>5 DEF Restart, Ticket!Next, Ticket!Lapse
<1>6. CASE UNCHANGED vars
  BY <1>6 DEF vars, Old
<1> QED
  BY <1>1, <1>2, <1>3, <1>4, <1>5, <1>6 DEF Next, Arrive, Ticket!Next

(* The store of verifiers, with its sweeps, expiries, repeated and late     *)
(* callbacks and restarts, implements one-time tickets.                    *)
THEOREM StoreImplementsTickets == Spec => VerifiersAreTickets
<1>1. Init => Ticket!Init
  BY DEF Init, Ticket!Init
<1> QED
  BY <1>1, IInvAlways, TicketStep, PTL DEF Spec, VerifiersAreTickets, Ticket!Spec
=============================================================================
