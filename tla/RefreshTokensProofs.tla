------------------------- MODULE RefreshTokensProofs -------------------------
(***************************************************************************)
(* Theorems of RefreshTokens.  For every interleaving: the type invariant  *)
(* and RotationKeepsSession.  For clients that never present one token     *)
(* twice at a time: OneUse, OneLivePerSession, and that the handlers       *)
(* implement TokenRotation.                                                *)
(***************************************************************************)
EXTENDS RefreshTokens, TLAPS

-----------------------------------------------------------------------------
(* Past its UPDATE a refresh holds a revoked token; chains lead to issued  *)
(* tokens.                                                                 *)
SpentBeforeIssue ==
    \A r \in Reqs : pc[r] \in {"user", "issue"} => presented[r] \in revoked

ChainsIssued ==
    \A t \in issued : root[t] \in issued /\ parent[t] \in issued \cup {NoToken}

Inv == /\ TypeOK
       /\ SpentBeforeIssue
       /\ ChainsIssued
       /\ RotationKeepsSession

(* With serial clients: a session is renewed by one request at a time, and *)
(* its live token, if any, is the one presented.                           *)
OneRenewal ==
    \A q, r \in Reqs :
        InFlight(q) /\ InFlight(r) /\ root[presented[q]] = root[presented[r]] => q = r

LiveIsPresented ==
    \A r \in Reqs : InFlight(r) =>
        \A t \in issued \ revoked : root[t] = root[presented[r]] => t = presented[r]

(* The presented token has no successor yet. *)
NoSuccessorYet ==
    \A r \in Reqs : InFlight(r) => \A t \in issued : parent[t] # presented[r]

SInv == /\ Inv
        /\ OneRenewal
        /\ LiveIsPresented
        /\ NoSuccessorYet
        /\ OneUse
        /\ OneLivePerSession

LEMMA InvInit == Init => Inv
BY UsersAssumption, TTLAssumption DEF Init, Inv, TypeOK, SpentBeforeIssue, ChainsIssued,
   RotationKeepsSession, InFlight

LEMMA TypeNext == TypeOK /\ [Next]_vars => TypeOK'
<1> SUFFICES ASSUME TypeOK, [Next]_vars PROVE TypeOK'
  OBVIOUS
<1> USE DEF InFlight
<1>1. ASSUME NEW t \in Tokens, NEW u \in Users, Login(t, u) PROVE TypeOK'
  BY <1>1, TTLAssumption DEF Login, StoreRefreshToken, TypeOK
<1>2. ASSUME NEW r \in Reqs, NEW t \in Tokens, RefreshSelect(r, t) PROVE TypeOK'
  BY <1>2 DEF RefreshSelect, rows, TypeOK
<1>3. ASSUME NEW r \in Reqs, NEW t \in Tokens, RefreshIssue(r, t) PROVE TypeOK'
  BY <1>3, TTLAssumption DEF RefreshIssue, StoreRefreshToken, Finish, TypeOK
<1>4. ASSUME NEW r \in Reqs, RefreshUpdate(r) PROVE TypeOK'
  BY <1>4 DEF RefreshUpdate, TypeOK
<1>5. ASSUME NEW r \in Reqs, RefreshUser(r) PROVE TypeOK'
  BY <1>5 DEF RefreshUser, Finish, rows, TypeOK
<1>6. ASSUME NEW r \in Reqs, RefreshFails(r) PROVE TypeOK'
  BY <1>6 DEF RefreshFails, Finish, rows, TypeOK
<1>7. ASSUME NEW t \in Tokens, Logout(t) PROVE TypeOK'
  BY <1>7 DEF Logout, TypeOK
<1>8. ASSUME NEW u \in Users, SetActive(u) PROVE TypeOK'
  BY <1>8 DEF SetActive, rows, TypeOK
<1>9. ASSUME Restart PROVE TypeOK'
  BY <1>9 DEF Restart, rows, TypeOK
<1>10. ASSUME Tick PROVE TypeOK'
  BY <1>10 DEF Tick, rows, TypeOK
<1>11. CASE UNCHANGED vars
  BY <1>11 DEF vars, rows, TypeOK
<1> QED
  BY <1>1, <1>2, <1>3, <1>4, <1>5, <1>6, <1>7, <1>8, <1>9, <1>10, <1>11 DEF Next

(* Every variable keeps its type in every interleaving of logins, refreshes, *)
(* logouts and restarts.                                                     *)
THEOREM TypeCorrect == Spec => []TypeOK
<1>1. Init => TypeOK
  BY InvInit DEF Inv
<1> QED
  BY <1>1, TypeNext, PTL DEF Spec

-----------------------------------------------------------------------------
(* A step that issues nothing keeps chains and sessions as they are. *)
LEMMA NothingIssued ==
    ASSUME Inv, TypeOK', UNCHANGED <<issued, owner, parent, root>>,
           revoked \subseteq revoked', SpentBeforeIssue'
    PROVE  Inv'
BY DEF Inv, ChainsIssued, RotationKeepsSession

LEMMA InvNext == Inv /\ [Next]_vars => Inv'
<1> SUFFICES ASSUME Inv, [Next]_vars PROVE Inv'
  OBVIOUS
<1>t. TypeOK /\ TypeOK'
  BY TypeNext DEF Inv
<1>1. ASSUME NEW t \in Tokens, NEW u \in Users, Login(t, u) PROVE Inv'
  <2>1. /\ t \notin issued /\ issued' = issued \cup {t} /\ revoked' = revoked
        /\ pc' = pc /\ presented' = presented
        /\ root'[t] = t /\ parent'[t] = NoToken
        /\ \A x \in issued : root'[x] = root[x] /\ parent'[x] = parent[x] /\ owner'[x] = owner[x]
    BY <1>1, <1>t DEF Login, StoreRefreshToken, TypeOK
  <2>2. SpentBeforeIssue'
    BY <2>1 DEF Inv, SpentBeforeIssue
  <2>3. ChainsIssued'
    BY <2>1 DEF Inv, ChainsIssued
  <2>4. RotationKeepsSession'
    BY <1>t, <2>1, NoTokenAssumption DEF Inv, ChainsIssued, RotationKeepsSession
  <2> QED
    BY <1>t, <2>2, <2>3, <2>4 DEF Inv
<1>2. ASSUME NEW r \in Reqs, NEW t \in Tokens, RefreshSelect(r, t) PROVE Inv'
  <2>1. SpentBeforeIssue'
    BY <1>2, <1>t DEF RefreshSelect, rows, TypeOK, Inv, SpentBeforeIssue
  <2> QED
    BY <1>2, <1>t, <2>1, NothingIssued DEF RefreshSelect, rows
<1>3. ASSUME NEW r \in Reqs, NEW t \in Tokens, RefreshIssue(r, t) PROVE Inv'
  <2> DEFINE p == presented[r]
  <2>1. /\ t \notin issued /\ issued' = issued \cup {t} /\ revoked' = revoked
        /\ root'[t] = root[p] /\ parent'[t] = p /\ owner'[t] = owner[p]
        /\ \A x \in issued : root'[x] = root[x] /\ parent'[x] = parent[x] /\ owner'[x] = owner[x]
    BY <1>3, <1>t DEF RefreshIssue, StoreRefreshToken, TypeOK
  <2>2. p \in issued /\ p \in revoked
    BY <1>3, <1>t DEF RefreshIssue, InFlight, TypeOK, Inv, SpentBeforeIssue
  <2>3. SpentBeforeIssue'
    BY <1>3, <1>t, <2>1 DEF RefreshIssue, Finish, TypeOK, Inv, SpentBeforeIssue
  <2>4. ChainsIssued'
    BY <2>1, <2>2 DEF Inv, ChainsIssued
  <2>5. RotationKeepsSession'
    BY <1>t, <2>1, <2>2 DEF Inv, ChainsIssued, RotationKeepsSession
  <2> QED
    BY <1>t, <2>3, <2>4, <2>5 DEF Inv
<1>4. ASSUME NEW r \in Reqs, RefreshUpdate(r) PROVE Inv'
  <2>1. SpentBeforeIssue'
    BY <1>4, <1>t DEF RefreshUpdate, TypeOK, Inv, SpentBeforeIssue
  <2> QED
    BY <1>4, <1>t, <2>1, NothingIssued DEF RefreshUpdate
<1>5. ASSUME NEW r \in Reqs, RefreshUser(r) PROVE Inv'
  <2>1. SpentBeforeIssue'
    BY <1>5, <1>t DEF RefreshUser, Finish, rows, TypeOK, Inv, SpentBeforeIssue
  <2> QED
    BY <1>5, <1>t, <2>1, NothingIssued DEF RefreshUser, rows
<1>6. ASSUME NEW r \in Reqs, RefreshFails(r) PROVE Inv'
  <2>1. SpentBeforeIssue'
    BY <1>6, <1>t DEF RefreshFails, Finish, rows, TypeOK, Inv, SpentBeforeIssue
  <2> QED
    BY <1>6, <1>t, <2>1, NothingIssued DEF RefreshFails, rows
<1>7. ASSUME NEW t \in Tokens, Logout(t) PROVE Inv'
  <2>1. SpentBeforeIssue' /\ revoked \subseteq revoked'
    BY <1>7 DEF Logout, Inv, SpentBeforeIssue
  <2> QED
    BY <1>7, <1>t, <2>1, NothingIssued DEF Logout
<1>8. ASSUME NEW u \in Users, SetActive(u) PROVE Inv'
  BY <1>8, <1>t, NothingIssued DEF SetActive, rows, Inv, SpentBeforeIssue
<1>9. ASSUME Restart PROVE Inv'
  BY <1>9, <1>t, NothingIssued DEF Restart, rows, SpentBeforeIssue
<1>10. ASSUME Tick PROVE Inv'
  BY <1>10, <1>t, NothingIssued DEF Tick, rows, Inv, SpentBeforeIssue
<1>11. CASE UNCHANGED vars
  BY <1>11, <1>t, NothingIssued DEF vars, rows, Inv, SpentBeforeIssue
<1> QED
  BY <1>1, <1>2, <1>3, <1>4, <1>5, <1>6, <1>7, <1>8, <1>9, <1>10, <1>11 DEF Next

(* Rotation never moves a session to another user and never leaves the     *)
(* replaced token usable, whatever requests, failures and restarts come    *)
(* between the statements of authRefresh.                                  *)
THEOREM SessionKept == Spec => []RotationKeepsSession
<1>1. Inv => RotationKeepsSession
  BY DEF Inv
<1> QED
  BY <1>1, InvInit, InvNext, PTL DEF Spec

-----------------------------------------------------------------------------
LEMMA SInvInit == Init => SInv
<1> SUFFICES ASSUME Init PROVE SInv
  OBVIOUS
<1>1. Inv
  BY InvInit
<1> QED
  BY <1>1 DEF Init, SInv, OneRenewal, LiveIsPresented, NoSuccessorYet, OneUse,
     OneLivePerSession, InFlight

(* A step that issues nothing and begins no refresh. *)
LEMMA NothingBegun ==
    ASSUME SInv, Inv', UNCHANGED <<issued, parent, root>>, revoked \subseteq revoked',
           \A r \in Reqs : InFlight(r)' => InFlight(r) /\ presented'[r] = presented[r]
    PROVE  SInv'
<1>1. OneRenewal'
  BY DEF SInv, OneRenewal
<1>2. LiveIsPresented'
  BY DEF SInv, LiveIsPresented
<1>3. NoSuccessorYet'
  BY DEF SInv, NoSuccessorYet
<1>4. OneUse' /\ OneLivePerSession'
  BY DEF SInv, OneUse, OneLivePerSession
<1> QED
  BY <1>1, <1>2, <1>3, <1>4 DEF SInv

LEMMA SInvNext == SInv /\ [SerialNext]_vars => SInv'
<1> SUFFICES ASSUME SInv, [SerialNext]_vars PROVE SInv'
  OBVIOUS
<1>t. Inv /\ Inv' /\ TypeOK /\ TypeOK'
  BY InvNext DEF SInv, SerialNext, Inv
<1>u. /\ \A r \in Reqs : InFlight(r) => presented[r] \in issued
      /\ \A x \in issued : root[x] \in issued
      /\ \A x \in issued : parent[x] # NoToken => parent[x] \in revoked
  BY <1>t DEF TypeOK, Inv, ChainsIssued, RotationKeepsSession
<1>1. ASSUME NEW t \in Tokens, NEW u \in Users, Login(t, u) PROVE SInv'
  <2>1. /\ t \notin issued /\ issued' = issued \cup {t} /\ revoked' = revoked
        /\ pc' = pc /\ presented' = presented
        /\ root'[t] = t /\ parent'[t] = NoToken
        /\ \A x \in issued : root'[x] = root[x] /\ parent'[x] = parent[x]
    BY <1>1, <1>t DEF Login, StoreRefreshToken, TypeOK
  <2>2. OneRenewal'
    BY <1>u, <2>1 DEF SInv, OneRenewal, InFlight
  <2>3. LiveIsPresented'
    BY <1>u, <2>1 DEF SInv, LiveIsPresented, InFlight
  <2>4. NoSuccessorYet'
    BY <1>t, <1>u, <2>1, NoTokenAssumption DEF SInv, NoSuccessorYet, InFlight, TypeOK
  <2>5. OneUse'
    BY <2>1 DEF SInv, OneUse
  <2>6. OneLivePerSession'
    BY <1>u, <2>1 DEF SInv, OneLivePerSession
  <2> QED
    BY <1>t, <2>2, <2>3, <2>4, <2>5, <2>6 DEF SInv
<1>2. ASSUME NEW r \in Reqs, NEW t \in Tokens, RefreshSelect(r, t), OnePerToken' PROVE SInv'
  <2>1. /\ ~ InFlight(r) /\ InFlight(r)' /\ presented'[r] = t
        /\ t \in issued \ revoked
        /\ UNCHANGED <<issued, revoked, root, parent>>
        /\ \A q \in Reqs \ {r} : (InFlight(q)' <=> InFlight(q)) /\ presented'[q] = presented[q]
    BY <1>2, <1>t DEF RefreshSelect, rows, InFlight, TypeOK
  <2>2. ASSUME NEW q \in Reqs \ {r}, InFlight(q) PROVE root[presented[q]] # root[t]
    <3>1. SUFFICES ASSUME root[presented[q]] = root[t] PROVE FALSE
      OBVIOUS
    <3>2. t = presented[q]
      BY <2>1, <2>2, <3>1 DEF SInv, LiveIsPresented
    <3> QED
      BY <1>2, <2>1, <2>2, <3>2 DEF OnePerToken
  <2>3. OneRenewal'
    BY <2>1, <2>2 DEF SInv, OneRenewal
  <2>4. LiveIsPresented'
    BY <2>1 DEF SInv, LiveIsPresented, OneLivePerSession
  <2>5. NoSuccessorYet'
    BY <1>t, <1>u, <2>1, NoTokenAssumption DEF SInv, NoSuccessorYet, TypeOK
  <2>6. OneUse' /\ OneLivePerSession'
    BY <2>1 DEF SInv, OneUse, OneLivePerSession
  <2> QED
    BY <1>t, <2>3, <2>4, <2>5, <2>6 DEF SInv
<1>3. ASSUME NEW r \in Reqs, NEW t \in Tokens, RefreshIssue(r, t) PROVE SInv'
  <2> DEFINE p == presented[r]
  <2>1. /\ t \notin issued /\ issued' = issued \cup {t} /\ revoked' = revoked
        /\ root'[t] = root[p] /\ parent'[t] = p
        /\ \A x \in issued : root'[x] = root[x] /\ parent'[x] = parent[x]
        /\ InFlight(r) /\ ~ InFlight(r)'
        /\ \A q \in Reqs \ {r} : (InFlight(q)' <=> InFlight(q)) /\ presented'[q] = presented[q]
    BY <1>3, <1>t DEF RefreshIssue, StoreRefreshToken, Finish, InFlight, TypeOK
  <2>2. p \in issued /\ p \in revoked
    BY <1>3, <1>t, <1>u, <2>1 DEF RefreshIssue, Inv, SpentBeforeIssue
  <2>3. \A x \in issued \ revoked : root[x] # root[p]
    BY <2>1, <2>2 DEF SInv, LiveIsPresented
  <2>4. \A q \in Reqs \ {r} : InFlight(q) => root[presented[q]] # root[p]
    BY <2>1 DEF SInv, OneRenewal
  <2>5. OneRenewal'
    BY <1>u, <2>1 DEF SInv, OneRenewal
  <2>6. LiveIsPresented'
    BY <1>u, <2>1, <2>4 DEF SInv, LiveIsPresented
  <2>7. NoSuccessorYet'
    BY <1>u, <2>1, <2>4 DEF SInv, NoSuccessorYet
  <2>8. OneUse'
    BY <2>1 DEF SInv, OneUse, NoSuccessorYet
  <2>9. OneLivePerSession'
    BY <1>u, <2>1, <2>3 DEF SInv, OneLivePerSession
  <2> QED
    BY <1>t, <2>5, <2>6, <2>7, <2>8, <2>9 DEF SInv
<1>4. ASSUME NEW r \in Reqs, RefreshUpdate(r) PROVE SInv'
  <2>1. \A q \in Reqs : InFlight(q)' => InFlight(q) /\ presented'[q] = presented[q]
    BY <1>4, <1>t DEF RefreshUpdate, InFlight, TypeOK
  <2> QED
    BY <1>4, <1>t, <2>1, NothingBegun DEF RefreshUpdate
<1>5. ASSUME NEW r \in Reqs, RefreshUser(r) PROVE SInv'
  <2>1. \A q \in Reqs : InFlight(q)' => InFlight(q) /\ presented'[q] = presented[q]
    BY <1>5, <1>t DEF RefreshUser, Finish, InFlight, TypeOK
  <2> QED
    BY <1>5, <1>t, <2>1, NothingBegun DEF RefreshUser, rows
<1>6. ASSUME NEW r \in Reqs, RefreshFails(r) PROVE SInv'
  <2>1. \A q \in Reqs : InFlight(q)' => InFlight(q) /\ presented'[q] = presented[q]
    BY <1>6, <1>t DEF RefreshFails, Finish, InFlight, TypeOK
  <2> QED
    BY <1>6, <1>t, <2>1, NothingBegun DEF RefreshFails, rows
<1>7. ASSUME NEW t \in Tokens, Logout(t) PROVE SInv'
  BY <1>7, <1>t, NothingBegun DEF Logout, InFlight
<1>8. ASSUME NEW u \in Users, SetActive(u) PROVE SInv'
  BY <1>8, <1>t, NothingBegun DEF SetActive, rows, InFlight
<1>9. ASSUME Restart PROVE SInv'
  BY <1>9, <1>t, NothingBegun DEF Restart, rows, InFlight
<1>10. ASSUME Tick PROVE SInv'
  BY <1>10, <1>t, NothingBegun DEF Tick, rows, InFlight
<1>11. CASE UNCHANGED vars
  BY <1>11, <1>t, NothingBegun DEF vars, rows, InFlight
<1> QED
  BY <1>1, <1>2, <1>3, <1>4, <1>5, <1>6, <1>7, <1>8, <1>9, <1>10, <1>11
     DEF SerialNext, Next

LEMMA SInvAlways == SerialSpec => []SInv
<1> QED
  BY SInvInit, SInvNext, PTL DEF SerialSpec

(* README.md:223, "One refresh token, one use", holds of a client that     *)
(* waits for each answer, through crashes, failures and logouts.           *)
THEOREM SerialOneUse == SerialSpec => []OneUse
<1>1. SInv => OneUse
  BY DEF SInv
<1> QED
  BY <1>1, SInvAlways, PTL

(* ... and its session never has two live tokens. *)
THEOREM SerialOneLive == SerialSpec => []OneLivePerSession
<1>1. SInv => OneLivePerSession
  BY DEF SInv
<1> QED
  BY <1>1, SInvAlways, PTL

-----------------------------------------------------------------------------
(* Holder, in terms of the session's live token and renewal. *)
LEMMA HolderNow ==
    ASSUME SInv, NEW s \in Tokens
    PROVE  /\ Holder[s] = HolderOf(s)
           /\ \A t \in (issued \ revoked) : root[t] = s => HolderOf(s) = t
           /\ (\A t \in (issued \ revoked) : root[t] # s) /\ Renewing(s)
                  => HolderOf(s) = Pending
           /\ (\A t \in (issued \ revoked) : root[t] # s) /\ ~ Renewing(s)
                  => HolderOf(s) = Closed
<1>1. Holder[s] = HolderOf(s)
  BY DEF Holder
<1>2. ASSUME NEW t \in (issued \ revoked), root[t] = s PROVE HolderOf(s) = t
  <2>1. t \in Live(s) /\ \A x \in Live(s) : x = t
    BY <1>2 DEF Live, SInv, OneLivePerSession
  <2> QED
    BY <2>1 DEF HolderOf
<1>3. ASSUME \A t \in (issued \ revoked) : root[t] # s PROVE Live(s) = {}
  BY <1>3 DEF Live
<1> QED
  BY <1>1, <1>2, <1>3 DEF HolderOf

LEMMA HolderNext ==
    ASSUME SInv', NEW s \in Tokens
    PROVE  /\ Holder'[s] = HolderOf(s)'
           /\ \A t \in (issued \ revoked)' : root'[t] = s => HolderOf(s)' = t
           /\ (\A t \in (issued \ revoked)' : root'[t] # s) /\ Renewing(s)'
                  => HolderOf(s)' = Pending
           /\ (\A t \in (issued \ revoked)' : root'[t] # s) /\ ~ Renewing(s)'
                  => HolderOf(s)' = Closed
<1>1. Holder'[s] = HolderOf(s)'
  BY DEF Holder
<1>2. ASSUME NEW t \in (issued \ revoked)', root'[t] = s PROVE HolderOf(s)' = t
  <2>1. t \in Live(s)' /\ \A x \in Live(s)' : x = t
    BY <1>2 DEF Live, SInv, OneLivePerSession
  <2> QED
    BY <2>1 DEF HolderOf
<1>3. ASSUME \A t \in (issued \ revoked)' : root'[t] # s PROVE Live(s)' = {}
  BY <1>3 DEF Live
<1> QED
  BY <1>1, <1>2, <1>3 DEF HolderOf

(* What a session's holder depends on. *)
LEMMA HolderKept ==
    ASSUME SInv, SInv', NEW s \in Tokens,
           \A t \in Tokens : t \in (issued \ revoked)' /\ root'[t] = s
                              <=> t \in issued \ revoked /\ root[t] = s,
           Renewing(s)' <=> Renewing(s)
    PROVE  HolderOf(s)' = HolderOf(s)
<1>1. issued \subseteq Tokens /\ issued' \subseteq Tokens
  BY DEF SInv, Inv, TypeOK
<1>2. CASE \E t \in issued \ revoked : root[t] = s
  <2>1. PICK t \in issued \ revoked : root[t] = s
    BY <1>2
  <2>2. HolderOf(s) = t /\ HolderOf(s)' = t
    BY <1>1, <2>1, HolderNow, HolderNext
  <2> QED
    BY <2>2
<1>3. CASE \A t \in issued \ revoked : root[t] # s
  <2>1. \A t \in (issued \ revoked)' : root'[t] # s
    BY <1>1, <1>3
  <2> QED
    BY <1>3, <2>1, HolderNow, HolderNext
<1> QED
  BY <1>2, <1>3

LEMMA HolderInit == Init => R!RotationInit
<1> SUFFICES ASSUME Init PROVE R!RotationInit
  OBVIOUS
<1>1. issued = {} /\ \A s \in Tokens : Live(s) = {} /\ ~ Renewing(s)
  BY DEF Init, Live, Renewing, InFlight
<1> QED
  BY <1>1 DEF R!RotationInit, Holder, HolderOf

(* Every step of the handlers is a step of TokenRotation or none. *)
LEMMA HolderStep ==
    ASSUME SInv, SInv', [SerialNext]_vars
    PROVE  [R!RotationNext]_<<Holder, issued>>
<1>t. /\ TypeOK /\ TypeOK' /\ Inv /\ issued \subseteq Tokens /\ revoked \subseteq Tokens
      /\ \A r \in Reqs : InFlight(r) => presented[r] \in issued
      /\ \A t \in issued : root[t] \in issued
  BY DEF SInv, Inv, TypeOK, ChainsIssued
<1>f. /\ DOMAIN Holder = Tokens /\ DOMAIN Holder' = Tokens
      /\ Holder = [s \in Tokens |-> HolderOf(s)] /\ Holder' = [s \in Tokens |-> HolderOf(s)']
  BY DEF Holder
<1>s. ASSUME issued' = issued, \A s \in Tokens : HolderOf(s)' = HolderOf(s)
      PROVE  UNCHANGED <<Holder, issued>>
  BY <1>f, <1>s
(* A refresh in state past its UPDATE, or whose token was logged out, ends. *)
<1>e. ASSUME NEW r \in Reqs, InFlight(r), presented[r] \in revoked, ~ InFlight(r)',
             \A q \in Reqs \ {r} : (InFlight(q)' <=> InFlight(q)) /\ presented'[q] = presented[q],
             UNCHANGED <<issued, revoked, root>>
      PROVE  R!Forfeit({root[presented[r]]})
  <2>0. PICK s0 \in Tokens : s0 = root[presented[r]]
    BY <1>e, <1>t
  <2>1. s0 \in Tokens /\ \A t \in issued \ revoked : root[t] # s0
    BY <1>e, <1>t, <2>0 DEF SInv, LiveIsPresented
  <2>2. Renewing(s0) /\ ~ Renewing(s0)'
    BY <1>e, <1>t, <2>0 DEF Renewing, SInv, OneRenewal
  <2>3. HolderOf(s0) = Pending /\ HolderOf(s0)' = Closed
    BY <1>e, <2>1, <2>2, HolderNow, HolderNext
  <2>4. ASSUME NEW s \in Tokens \ {s0} PROVE HolderOf(s)' = HolderOf(s)
    <3>1. Renewing(s)' <=> Renewing(s)
      BY <1>e, <2>0, <2>4 DEF Renewing
    <3> QED
      BY <1>e, <3>1, HolderKept
  <2> QED
    BY <1>e, <1>f, <2>0, <2>1, <2>3, <2>4 DEF R!Forfeit
<1>1. ASSUME NEW t \in Tokens, NEW u \in Users, Login(t, u) PROVE R!Open(t)
  <2>1. /\ t \notin issued /\ issued' = issued \cup {t} /\ revoked' = revoked
        /\ pc' = pc /\ presented' = presented /\ t \notin revoked
        /\ root'[t] = t /\ \A x \in issued : root'[x] = root[x]
    BY <1>1, <1>t DEF Login, StoreRefreshToken, TypeOK
  <2>2. HolderOf(t)' = t
    BY <2>1, HolderNext
  <2>3. ASSUME NEW s \in Tokens \ {t} PROVE HolderOf(s)' = HolderOf(s)
    <3>1. Renewing(s)' <=> Renewing(s)
      BY <1>t, <2>1 DEF Renewing, InFlight
    <3> QED
      BY <2>1, <2>3, <3>1, HolderKept
  <2> QED
    BY <1>f, <2>1, <2>2, <2>3 DEF R!Open
<1>2. ASSUME NEW r \in Reqs, NEW t \in Tokens, RefreshSelect(r, t)
      PROVE  UNCHANGED <<Holder, issued>>
  <2>1. /\ ~ InFlight(r) /\ InFlight(r)' /\ presented'[r] = t
        /\ t \in issued \ revoked /\ UNCHANGED <<issued, revoked, root>>
        /\ \A q \in Reqs \ {r} : (InFlight(q)' <=> InFlight(q)) /\ presented'[q] = presented[q]
    BY <1>2, <1>t DEF RefreshSelect, rows, InFlight, TypeOK
  <2>2. HolderOf(root[t])' = HolderOf(root[t])
    BY <1>t, <2>1, HolderNow, HolderNext
  <2>3. ASSUME NEW s \in Tokens, s # root[t] PROVE HolderOf(s)' = HolderOf(s)
    <3>1. Renewing(s)' <=> Renewing(s)
      BY <2>1, <2>3 DEF Renewing
    <3> QED
      BY <2>1, <3>1, HolderKept
  <2> QED
    BY <1>s, <2>1, <2>2, <2>3
<1>3. ASSUME NEW r \in Reqs, NEW t \in Tokens, RefreshIssue(r, t)
      PROVE  R!Renew(root[presented[r]], t) /\ root[presented[r]] \in Tokens
  <2>0. PICK p \in Tokens, s0 \in Tokens : p = presented[r] /\ s0 = root[p]
    <3>1. InFlight(r)
      BY <1>3 DEF RefreshIssue, InFlight
    <3> QED
      BY <3>1, <1>t
  <2>1. /\ t \notin issued /\ issued' = issued \cup {t} /\ revoked' = revoked
        /\ t \notin revoked /\ root'[t] = s0
        /\ \A x \in issued : root'[x] = root[x]
        /\ InFlight(r) /\ ~ InFlight(r)'
        /\ \A q \in Reqs \ {r} : (InFlight(q)' <=> InFlight(q)) /\ presented'[q] = presented[q]
    BY <1>3, <1>t, <2>0 DEF RefreshIssue, StoreRefreshToken, Finish, InFlight, TypeOK
  <2>2. p \in revoked /\ p \in issued /\ s0 \in Tokens
    BY <1>3, <1>t, <2>0, <2>1 DEF RefreshIssue, Inv, SpentBeforeIssue
  <2>3. \A x \in issued \ revoked : root[x] # s0
    BY <2>1, <2>0, <2>2 DEF SInv, LiveIsPresented
  <2>4. HolderOf(s0) = Pending
    BY <2>1, <2>0, <2>2, <2>3, HolderNow DEF Renewing
  <2>5. HolderOf(s0)' = t
    BY <2>1, <2>0, <2>2, HolderNext
  <2>6. ASSUME NEW s \in Tokens \ {s0} PROVE HolderOf(s)' = HolderOf(s)
    <3>1. Renewing(s)' <=> Renewing(s)
      BY <1>t, <2>1, <2>0, <2>6 DEF Renewing
    <3> QED
      BY <2>1, <2>0, <2>6, <3>1, HolderKept
  <2> QED
    BY <1>f, <2>0, <2>1, <2>2, <2>4, <2>5, <2>6 DEF R!Renew
<1>4. ASSUME NEW r \in Reqs, RefreshUpdate(r)
      PROVE  R!Spend(root[presented[r]]) \/ UNCHANGED <<Holder, issued>>
  <2>0. PICK p \in Tokens, s0 \in Tokens : p = presented[r] /\ s0 = root[p]
    <3>1. InFlight(r)
      BY <1>4 DEF RefreshUpdate, InFlight
    <3> QED
      BY <3>1, <1>t
  <2>1. /\ InFlight(r) /\ p \in issued /\ s0 \in Tokens /\ revoked' = revoked \cup {p}
        /\ UNCHANGED <<issued, root>>
        /\ \A q \in Reqs : (InFlight(q)' <=> InFlight(q)) /\ presented'[q] = presented[q]
    BY <1>4, <1>t, <2>0 DEF RefreshUpdate, InFlight, TypeOK
  <2>2. \A s \in Tokens : Renewing(s)' <=> Renewing(s)
    BY <2>1, <2>0 DEF Renewing
  <2>3. CASE p \in revoked
    <3>1. \A s \in Tokens : HolderOf(s)' = HolderOf(s)
      BY <2>1, <2>0, <2>2, <2>3, HolderKept
    <3> QED
      BY <1>s, <2>0, <2>1, <3>1
  <2>4. CASE p \notin revoked
    <3>1. HolderOf(s0) = p
      BY <2>1, <2>0, <2>4, HolderNow
    <3>2. \A x \in (issued \ revoked)' : root'[x] # s0
      BY <2>1, <2>0 DEF SInv, LiveIsPresented
    <3>3. Renewing(s0)'
      BY <2>1, <2>0 DEF Renewing
    <3>4. HolderOf(s0)' = Pending
      BY <2>1, <2>0, <3>2, <3>3, HolderNext
    <3>5. ASSUME NEW s \in Tokens \ {s0} PROVE HolderOf(s)' = HolderOf(s)
      BY <2>1, <2>0, <2>2, <3>5, HolderKept
    <3> QED
      BY <1>f, <1>t, <2>0, <2>1, <3>1, <3>4, <3>5 DEF R!Spend
  <2> QED
    BY <2>3, <2>4
<1>5. ASSUME NEW r \in Reqs, RefreshUser(r)
      PROVE  R!Forfeit({root[presented[r]]}) \/ UNCHANGED <<Holder, issued>>
  <2>1. /\ InFlight(r) /\ presented[r] \in revoked
        /\ UNCHANGED <<issued, revoked, root>>
    BY <1>5, <1>t DEF RefreshUser, rows, InFlight, Inv, SpentBeforeIssue
  <2>2. CASE owner[presented[r]] \in disabled
    <3>1. /\ ~ InFlight(r)'
          /\ \A q \in Reqs \ {r} : (InFlight(q)' <=> InFlight(q)) /\ presented'[q] = presented[q]
      BY <1>5, <1>t, <2>2 DEF RefreshUser, Finish, InFlight, TypeOK
    <3> QED
      BY <1>e, <2>1, <3>1
  <2>3. CASE owner[presented[r]] \notin disabled
    <3>1. \A q \in Reqs : (InFlight(q)' <=> InFlight(q)) /\ presented'[q] = presented[q]
      BY <1>5, <1>t, <2>3 DEF RefreshUser, InFlight, TypeOK
    <3>2. \A s \in Tokens : HolderOf(s)' = HolderOf(s)
      BY <2>1, <3>1, HolderKept DEF Renewing
    <3> QED
      BY <1>s, <2>1, <3>2
  <2> QED
    BY <2>2, <2>3
<1>6. ASSUME NEW r \in Reqs, RefreshFails(r)
      PROVE  R!Forfeit({root[presented[r]]}) \/ UNCHANGED <<Holder, issued>>
  <2>0. PICK p \in Tokens, s0 \in Tokens : p = presented[r] /\ s0 = root[p]
    <3>1. InFlight(r)
      BY <1>6 DEF RefreshFails, InFlight
    <3> QED
      BY <3>1, <1>t
  <2>1. /\ InFlight(r) /\ ~ InFlight(r)' /\ p \in issued /\ s0 \in Tokens
        /\ UNCHANGED <<issued, revoked, root>>
        /\ \A q \in Reqs \ {r} : (InFlight(q)' <=> InFlight(q)) /\ presented'[q] = presented[q]
    BY <1>6, <1>t, <2>0 DEF RefreshFails, Finish, rows, InFlight, TypeOK
  <2>2. CASE p \in revoked
    BY <1>e, <2>0, <2>1, <2>2
  <2>3. CASE p \notin revoked
    <3>1. HolderOf(s0)' = HolderOf(s0)
      BY <2>1, <2>0, <2>3, HolderNow, HolderNext
    <3>2. ASSUME NEW s \in Tokens \ {s0} PROVE HolderOf(s)' = HolderOf(s)
      <4>1. Renewing(s)' <=> Renewing(s)
        BY <2>1, <2>0, <3>2 DEF Renewing
      <4> QED
        BY <2>1, <2>0, <4>1, HolderKept
    <3> QED
      BY <1>s, <2>0, <2>1, <3>1, <3>2
  <2> QED
    BY <2>2, <2>3
<1>7. ASSUME NEW t \in Tokens, Logout(t)
      PROVE  R!Spend(root[t]) \/ UNCHANGED <<Holder, issued>>
  <2>1. /\ UNCHANGED <<issued, root, pc, presented>>
        /\ revoked' = revoked \/ revoked' = revoked \cup ({t} \cap issued)
    BY <1>7 DEF Logout
  <2>2. \A s \in Tokens : Renewing(s)' <=> Renewing(s)
    BY <2>1 DEF Renewing, InFlight
  <2>3. CASE t \in issued \ revoked /\ revoked' = revoked \cup {t}
    <3>0. PICK s0 \in Tokens : s0 = root[t]
      BY <1>t, <2>3
    <3>1. HolderOf(s0) = t
      BY <2>3, <3>0, HolderNow
    <3>2. \A x \in (issued \ revoked)' : root'[x] # s0
      BY <2>1, <2>3, <3>0 DEF SInv, OneLivePerSession
    <3>3. HolderOf(s0)' \in {Pending, Closed}
      BY <3>1, <3>2, HolderNext
    <3>4. ASSUME NEW s \in Tokens \ {s0} PROVE HolderOf(s)' = HolderOf(s)
      BY <2>1, <2>2, <2>3, <3>0, <3>4, HolderKept
    <3> QED
      BY <1>f, <2>1, <3>0, <3>1, <3>3, <3>4 DEF R!Spend
  <2>4. CASE revoked' = revoked
    BY <1>s, <2>1, <2>2, <2>4, HolderKept
  <2> QED
    BY <2>1, <2>3, <2>4
<1>8. ASSUME NEW u \in Users, SetActive(u) PROVE UNCHANGED <<Holder, issued>>
  BY <1>8, <1>s, HolderKept DEF SetActive, rows, Renewing, InFlight
<1>9. ASSUME Restart PROVE \E lost \in SUBSET Tokens : R!Forfeit(lost)
  <2> DEFINE lost == {s \in Tokens : HolderOf(s) = Pending}
  <2>1. /\ UNCHANGED <<issued, revoked, root>> /\ \A s \in Tokens : ~ Renewing(s)'
    BY <1>9 DEF Restart, rows, Renewing, InFlight
  <2>2. ASSUME NEW s \in Tokens
        PROVE  HolderOf(s)' = IF s \in lost THEN Closed ELSE HolderOf(s)
    <3>1. CASE \E t \in issued \ revoked : root[t] = s
      <4>1. PICK t \in issued \ revoked : root[t] = s
        BY <3>1
      <4>2. HolderOf(s) = t /\ HolderOf(s)' = t
        BY <2>1, <4>1, HolderNow, HolderNext
      <4>3. t # Pending
        BY <1>t, <4>1, NoTokenAssumption
      <4> QED
        BY <4>2, <4>3
    <3>2. CASE \A t \in issued \ revoked : root[t] # s
      BY <2>1, <3>2, HolderNow, HolderNext
    <3> QED
      BY <3>1, <3>2
  <2>3. R!Forfeit(lost)
    BY <1>f, <2>1, <2>2 DEF R!Forfeit
  <2> QED
    BY <2>3
<1>10. ASSUME Tick PROVE UNCHANGED <<Holder, issued>>
  BY <1>10, <1>s, HolderKept DEF Tick, rows, Renewing, InFlight
<1>11. CASE UNCHANGED vars
  BY <1>11, <1>s, HolderKept DEF vars, rows, Renewing, InFlight
<1>12. ASSUME NEW r \in Reqs, InFlight(r) PROVE root[presented[r]] \in Tokens
  BY <1>12, <1>t
<1> QED
  <2>1. CASE SerialNext
    <3>1. \A r \in Reqs : RefreshUpdate(r) \/ RefreshUser(r) \/ RefreshFails(r) => InFlight(r)
      BY DEF RefreshUpdate, RefreshUser, RefreshFails, InFlight
    <3>2. \A t \in Tokens : root[t] \in Tokens
      BY <1>t DEF TypeOK
    <3> QED
      BY <1>1, <1>2, <1>3, <1>4, <1>5, <1>6, <1>7, <1>8, <1>9, <1>10, <1>12, <2>1, <3>1, <3>2
         DEF SerialNext, Next, R!RotationNext
  <2> QED
    BY <1>11, <2>1

(* The handlers, driven by serial clients, implement TokenRotation: however *)
(* statements fail and the process restarts, a session has one live token  *)
(* at most, each renewal spends it, and no token comes back.               *)
THEOREM SerialImplementsRotation == SerialSpec => ImplementsRotation
<1>1. SInv /\ SInv' /\ [SerialNext]_vars => [R!RotationNext]_<<Holder, issued>>
  BY HolderStep
<1> QED
  BY <1>1, HolderInit, SInvAlways, PTL
     DEF SerialSpec, ImplementsRotation, R!Rotation, R!rotationVars

=============================================================================
