---------------------------- MODULE AccountsProofs ----------------------------
(***************************************************************************)
(* Theorems of Accounts, for any accounts, names and requests.             *)
(***************************************************************************)
EXTENDS Accounts, TLAPS

(* What the statements of a login know of the row they work on.  The role  *)
(* they have read, or are about to read, is the one asked for unless        *)
(* another request has written it since.                                   *)
LoginKnows(r) ==
    /\ pc[r] \in {"update", "insert"} => call[r].id \in GithubIds /\ call[r].asked = "any"
    /\ pc[r] = "plant" => call[r].id \in DirectNames
    /\ pc[r] \in {"plant", "rerole"} => call[r].asked \in Roles
    /\ pc[r] \in {"update", "rerole", "reread", "issue"} => call[r].id \in rows
    /\ pc[r] = "reread" /\ call[r].asked # "any" /\ r \notin meddled
           => role[call[r].id] = call[r].asked
    /\ pc[r] = "issue" /\ call[r].asked # "any" /\ r \notin meddled
           => call[r].got = call[r].asked

IInv ==
    /\ TypeOK
    /\ \A r \in Reqs : LoginKnows(r)
    /\ RolesAsGranted
    /\ OnlyTheEntitledAct

-----------------------------------------------------------------------------
LEMMA NoCallType == NoCall \in Call
BY NonEmptyAssumption DEF NoCall, Call, Roles

LEMMA NoCallAsked == NoCall.asked = "any"
BY DEF NoCall

(* The kinds of locals a request begins with. *)
LEMMA FirstCallType ==
    ASSUME NEW i \in Ids
    PROVE  /\ \A n \in Names : [NoCall EXCEPT !.id = i, !.named = n] \in Call
           /\ \A a \in Roles : [NoCall EXCEPT !.id = i, !.asked = a] \in Call
           /\ \A a, g \in Roles : [NoCall EXCEPT !.id = i, !.asked = a, !.got = g] \in Call
           /\ \A g \in Roles : [NoCall EXCEPT !.id = i, !.got = g] \in Call
           /\ \A m \in BOOLEAN : [NoCall EXCEPT !.id = i, !.mutates = m] \in Call
BY NoCallType DEF Call

LEMMA InvInit == Init => IInv
<1> SUFFICES ASSUME Init PROVE IInv
  OBVIOUS
<1>1. TypeOK
  BY NoCallType, NonEmptyAssumption DEF Init, TypeOK, PcValues, Roles
<1>2. \A r \in Reqs : LoginKnows(r)
  BY DEF Init, LoginKnows
<1>3. RolesAsGranted /\ OnlyTheEntitledAct
  BY DEF Init, RolesAsGranted, OnlyTheEntitledAct
<1> QED
  BY <1>1, <1>2, <1>3 DEF IInv

-----------------------------------------------------------------------------
(* Requests other than r, when r takes a step. *)
OthersKept(r) == \A q \in Reqs \ {r} : pc'[q] = pc[q] /\ call'[q] = call[q]

(* A login keeps what it knows through a step of another request that      *)
(* removes no row and tells whose row it re-roles.                         *)
LEMMA OtherStep ==
    ASSUME NEW q \in Reqs, LoginKnows(q), pc'[q] = pc[q], call'[q] = call[q],
           rows \subseteq rows',
           q \in meddled => q \in meddled',
           pc[q] = "reread" /\ q \notin meddled' => role'[call[q].id] = role[call[q].id]
    PROVE  LoginKnows(q)'
BY DEF LoginKnows

(* A step of r that leaves the table alone. *)
LEMMA QuietStep ==
    ASSUME IInv, NEW r \in Reqs, NEW label \in PcValues, NEW c \in Call,
           Goto(r, label, c), UNCHANGED <<table, disabled>>,
           tokens' \in SUBSET rows, meddled' \in SUBSET Reqs,
           \A q \in Reqs \ {r} : q \in meddled => q \in meddled',
           LoginKnows(r)'
    PROVE  /\ pc' \in [Reqs -> PcValues] /\ call' \in [Reqs -> Call]
           /\ OthersKept(r)
           /\ \A q \in Reqs : LoginKnows(q)'
           /\ RolesAsGranted'
<1>1. pc \in [Reqs -> PcValues] /\ call \in [Reqs -> Call]
  BY DEF IInv, TypeOK
<1>2. /\ pc' \in [Reqs -> PcValues] /\ call' \in [Reqs -> Call]
      /\ OthersKept(r)
  BY <1>1 DEF Goto, OthersKept
<1>3. ASSUME NEW q \in Reqs \ {r} PROVE LoginKnows(q)'
  BY <1>2, <1>3, OtherStep DEF IInv, OthersKept, table
<1>4. RolesAsGranted'
  BY DEF IInv, RolesAsGranted, table
<1> QED
  BY <1>2, <1>3, <1>4

(* The parts of the invariant that Step alone decides. *)
Kept ==
    /\ rows' \in SUBSET Ids
    /\ name' \in [Ids -> Names]
    /\ role' \in [Ids -> Roles]
    /\ disabled' \in SUBSET rows'
    /\ tokens' \in SUBSET rows'
    /\ pc' \in [Reqs -> PcValues]
    /\ call' \in [Reqs -> Call]
    /\ first' \in [Ids -> Names]
    /\ reroled' \in SUBSET rows'
    /\ meddled' \in SUBSET Reqs
    /\ \A r \in Reqs : LoginKnows(r)'
    /\ RolesAsGranted'

(* QuietStep, for the steps that follow one another without a write. *)
LEMMA QuietKept ==
    ASSUME IInv, NEW r \in Reqs, NEW label \in PcValues, NEW c \in Call,
           Goto(r, label, c), UNCHANGED <<table, disabled>>,
           tokens' \in SUBSET rows, meddled' \in SUBSET Reqs,
           \A q \in Reqs \ {r} : q \in meddled => q \in meddled',
           LoginKnows(r)'
    PROVE  Kept
BY QuietStep DEF Kept, IInv, TypeOK, table

(* A request that ends. *)
LEMMA FinishKept ==
    ASSUME IInv, NEW r \in Reqs, Finish(r), UNCHANGED <<table, disabled>>,
           tokens' \in SUBSET rows
    PROVE  Kept
<1>1. Goto(r, "idle", NoCall) /\ meddled' = meddled \ {r}
  BY DEF Finish
<1>2. LoginKnows(r)'
  BY <1>1 DEF Goto, LoginKnows, IInv, TypeOK
<1> QED
  BY <1>1, <1>2, NoCallType, QuietKept DEF PcValues, IInv, TypeOK

(* A row is inserted. *)
LEMMA InsertKept ==
    ASSUME IInv, NEW r \in Reqs, NEW n \in Names, NEW asRole \in Roles,
           InsertRow(call[r].id, n, asRole), Goto(r, "reread", call[r]),
           UNCHANGED <<disabled, tokens, meddled>>,
           call[r].asked # "any" => asRole = call[r].asked,
           call[r].id \in GithubIds => (asRole = "admin" <=> n \in Admins)
    PROVE  Kept
<1> DEFINE i == call[r].id
<1>1. /\ pc \in [Reqs -> PcValues] /\ call \in [Reqs -> Call]
      /\ name \in [Ids -> Names] /\ role \in [Ids -> Roles] /\ first \in [Ids -> Names]
      /\ rows \in SUBSET Ids
  BY DEF IInv, TypeOK
<1>2. call[r] \in Call /\ i \in Ids
  BY <1>1 DEF Call
<1>3. /\ i \notin rows /\ rows' = rows \cup {i}
      /\ name' = [name EXCEPT ![i] = n]
      /\ role' = [role EXCEPT ![i] = asRole]
      /\ first' = [first EXCEPT ![i] = n]
      /\ reroled' = reroled
  BY DEF InsertRow
<1>4. /\ rows' \in SUBSET Ids /\ name' \in [Ids -> Names]
      /\ role' \in [Ids -> Roles] /\ first' \in [Ids -> Names]
      /\ disabled' \in SUBSET rows' /\ tokens' \in SUBSET rows'
      /\ reroled' \in SUBSET rows' /\ meddled' \in SUBSET Reqs
  BY <1>1, <1>2, <1>3 DEF IInv, TypeOK
<1>5. /\ pc' \in [Reqs -> PcValues] /\ call' \in [Reqs -> Call]
      /\ OthersKept(r) /\ pc'[r] = "reread" /\ call'[r] = call[r]
  BY <1>1, <1>2 DEF Goto, OthersKept, PcValues
<1>6. LoginKnows(r)'
  BY <1>1, <1>2, <1>3, <1>5 DEF LoginKnows
<1>7. ASSUME NEW q \in Reqs \ {r} PROVE LoginKnows(q)'
  <2>1. pc[q] = "reread" => call[q].id \in rows
    BY DEF IInv, LoginKnows
  <2>2. pc[q] = "reread" => role'[call[q].id] = role[call[q].id]
    BY <1>1, <1>3, <2>1
  <2> QED
    BY <1>3, <1>5, <1>7, <2>2, OtherStep DEF IInv, OthersKept
<1>8. RolesAsGranted'
  BY <1>1, <1>2, <1>3 DEF IInv, TypeOK, RolesAsGranted
<1> QED
  BY <1>4, <1>5, <1>6, <1>7, <1>8 DEF Kept

-----------------------------------------------------------------------------
LEMMA StepKept == IInv /\ Step => Kept
<1> SUFFICES ASSUME IInv, Step PROVE Kept
  OBVIOUS
<1>t. /\ pc \in [Reqs -> PcValues] /\ call \in [Reqs -> Call]
      /\ name \in [Ids -> Names] /\ role \in [Ids -> Roles]
      /\ rows \in SUBSET Ids /\ tokens \in SUBSET rows /\ meddled \in SUBSET Reqs
  BY DEF IInv, TypeOK
<1>c. ASSUME NEW r \in Reqs
      PROVE  /\ call[r] \in Call /\ call[r].id \in Ids /\ call[r].named \in Names
             /\ LoginKnows(r)
  BY <1>t DEF IInv, Call
<1>1. ASSUME NEW r \in Reqs, NEW g \in GithubIds, NEW n \in Names, GithubSelect(r, g, n)
      PROVE  Kept
  <2> DEFINE label == IF g \in rows THEN "update" ELSE "insert"
             c == [NoCall EXCEPT !.id = g, !.named = n]
  <2>0. c \in Call /\ label \in PcValues
    BY FirstCallType DEF Ids, PcValues
  <2>1. c \in Call /\ label \in PcValues /\ c.id = g /\ c.asked = "any"
    BY <2>0, NoCallType, NoCallAsked DEF Call
  <2>2. Goto(r, label, c)
    BY <1>1 DEF GithubSelect
  <2>3. pc'[r] = label /\ call'[r] = c
    BY <1>t, <2>2 DEF Goto
  <2>4. LoginKnows(r)'
    BY <1>1, <2>1, <2>3 DEF GithubSelect, table, LoginKnows
  <2> HIDE DEF c, label
  <2> QED
    BY <1>1, <1>t, <2>1, <2>2, <2>4, QuietKept DEF GithubSelect
<1>2. ASSUME NEW r \in Reqs, GithubUpdate(r) PROVE Kept
  <2>1. /\ pc[r] = "update" /\ Goto(r, "reread", call[r])
        /\ name' = [name EXCEPT ![call[r].id] = call[r].named]
        /\ UNCHANGED <<rows, role, first, reroled, disabled, tokens, meddled>>
    BY <1>2 DEF GithubUpdate
  <2>2. name' \in [Ids -> Names]
    BY <1>t, <1>c, <2>1
  <2>3. /\ pc' \in [Reqs -> PcValues] /\ call' = call
        /\ pc'[r] = "reread" /\ OthersKept(r)
    BY <1>t, <1>c, <2>1 DEF Goto, PcValues, OthersKept
  <2>4. LoginKnows(r)'
    BY <1>c, <2>1, <2>3 DEF LoginKnows
  <2>5. ASSUME NEW q \in Reqs \ {r} PROVE LoginKnows(q)'
    BY <1>c, <2>1, <2>3, <2>5, OtherStep DEF OthersKept
  <2>6. RolesAsGranted'
    BY <2>1 DEF IInv, RolesAsGranted
  <2> QED
    BY <2>1, <2>2, <2>3, <2>4, <2>5, <2>6 DEF Kept, IInv, TypeOK
<1>3. ASSUME NEW r \in Reqs, GithubInsert(r) PROVE Kept
  <2> DEFINE asRole == IF call[r].named \in Admins THEN "admin" ELSE "analyst"
  <2>1. /\ InsertRow(call[r].id, call[r].named, asRole)
        /\ Goto(r, "reread", call[r])
        /\ UNCHANGED <<disabled, tokens, meddled>>
        /\ pc[r] = "insert"
    BY <1>3 DEF GithubInsert
  <2>2. asRole \in Roles /\ (asRole = "admin" <=> call[r].named \in Admins)
    BY DEF Roles
  <2>3. call[r].asked = "any"
    BY <1>c, <2>1 DEF LoginKnows
  <2> HIDE DEF asRole
  <2> QED
    BY <1>c, <2>1, <2>2, <2>3, InsertKept
<1>4. ASSUME NEW r \in Reqs, NEW i \in Ids, NEW asked \in Roles, DirectFinds(r, i, asked)
      PROVE  Kept
  <2> DEFINE label == IF role[i] # asked THEN "rerole" ELSE "issue"
             c == [NoCall EXCEPT !.id = i, !.asked = asked, !.got = role[i]]
  <2>1. role[i] \in Roles
    BY <1>t
  <2>2. /\ c \in Call /\ label \in PcValues
        /\ c.id = i /\ c.asked = asked /\ c.got = role[i]
    BY <2>1, FirstCallType, NoCallType, ZenonT(60) DEF PcValues, Call
  <2>3. Goto(r, label, c) /\ i \in rows
    BY <1>4 DEF DirectFinds
  <2>4. pc'[r] = label /\ call'[r] = c
    BY <1>t, <2>3 DEF Goto
  <2>5. LoginKnows(r)'
    BY <1>4, <2>2, <2>3, <2>4 DEF DirectFinds, table, LoginKnows
  <2> HIDE DEF c, label
  <2> QED
    BY <1>4, <1>t, <2>2, <2>3, <2>5, QuietKept DEF DirectFinds
<1>5. ASSUME NEW r \in Reqs, NEW n \in DirectNames, NEW asked \in Roles,
             DirectFindsNone(r, n, asked)
      PROVE  Kept
  <2> DEFINE c == [NoCall EXCEPT !.id = n, !.asked = asked]
  <2>1. c \in Call /\ c.id = n /\ c.asked = asked
    BY FirstCallType, NoCallType DEF Ids, Call
  <2>2. Goto(r, "plant", c)
    BY <1>5 DEF DirectFindsNone
  <2>3. pc'[r] = "plant" /\ call'[r] = c
    BY <1>t, <2>2 DEF Goto
  <2>4. LoginKnows(r)'
    BY <2>1, <2>3 DEF LoginKnows
  <2> HIDE DEF c
  <2> QED
    BY <1>5, <1>t, <2>1, <2>2, <2>4, QuietKept DEF DirectFindsNone, PcValues
<1>6. ASSUME NEW r \in Reqs, DirectUpdate(r) PROVE Kept
  <2> DEFINE i == call[r].id
  <2>1. /\ pc[r] = "rerole" /\ Goto(r, "reread", call[r])
        /\ role' = [role EXCEPT ![i] = call[r].asked]
        /\ reroled' = reroled \cup {i}
        /\ meddled' = meddled \cup {q \in Reqs \ {r} : pc[q] # "idle" /\ call[q].id = i}
        /\ UNCHANGED <<rows, name, first, disabled, tokens>>
    BY <1>6 DEF DirectUpdate
  <2>2. i \in rows /\ i \in Ids /\ call[r].asked \in Roles
    BY <1>c, <2>1 DEF LoginKnows
  <2>3. role' \in [Ids -> Roles] /\ reroled' \in SUBSET rows' /\ meddled' \in SUBSET Reqs
    BY <1>t, <2>1, <2>2 DEF IInv, TypeOK
  <2>4. /\ pc' \in [Reqs -> PcValues] /\ call' = call
        /\ pc'[r] = "reread" /\ OthersKept(r)
    BY <1>t, <1>c, <2>1 DEF Goto, PcValues, OthersKept
  <2>5. LoginKnows(r)'
    BY <1>t, <1>c, <2>1, <2>2, <2>4 DEF LoginKnows
  <2>6. ASSUME NEW q \in Reqs \ {r} PROVE LoginKnows(q)'
    <3>1. pc[q] = "reread" /\ q \notin meddled' => call[q].id # i
      BY <2>1
    <3>2. pc[q] = "reread" /\ q \notin meddled' => role'[call[q].id] = role[call[q].id]
      BY <1>t, <1>c, <2>1, <3>1
    <3> QED
      BY <1>c, <2>1, <2>4, <2>6, <3>2, OtherStep DEF OthersKept
  <2>7. RolesAsGranted'
    BY <1>t, <2>1, <2>2 DEF IInv, RolesAsGranted, Ids
  <2> QED
    BY <2>1, <2>3, <2>4, <2>5, <2>6, <2>7 DEF Kept, IInv, TypeOK
<1>7. ASSUME NEW r \in Reqs, DirectInsert(r) PROVE Kept
  <2>1. /\ InsertRow(call[r].id, call[r].id, call[r].asked)
        /\ Goto(r, "reread", call[r])
        /\ UNCHANGED <<disabled, tokens, meddled>>
        /\ pc[r] = "plant"
    BY <1>7 DEF DirectInsert
  <2>2. call[r].id \in DirectNames /\ call[r].asked \in Roles
    BY <1>c, <2>1 DEF LoginKnows
  <2>3. call[r].id \in Names /\ call[r].id \notin GithubIds
    BY <2>2, IdsDisjoint, DirectNamesAssumption
  <2> QED
    BY <2>1, <2>2, <2>3, InsertKept
<1>8. ASSUME NEW r \in Reqs, Reread(r) PROVE Kept
  <2> DEFINE c == [call[r] EXCEPT !.got = role[call[r].id]]
  <2>1. /\ c \in Call /\ c.id = call[r].id /\ c.asked = call[r].asked
        /\ c.got = role[call[r].id]
    BY <1>t, <1>c DEF Call
  <2>2. Goto(r, "issue", c) /\ pc[r] = "reread"
    BY <1>8 DEF Reread
  <2>3. pc'[r] = "issue" /\ call'[r] = c
    BY <1>t, <2>2 DEF Goto
  <2>4. LoginKnows(r)'
    BY <1>8, <1>c, <2>1, <2>2, <2>3 DEF Reread, table, LoginKnows
  <2> HIDE DEF c
  <2> QED
    BY <1>8, <1>t, <2>1, <2>2, <2>4, QuietKept DEF Reread, PcValues
<1>9. ASSUME NEW r \in Reqs, NEW i \in Ids, RefreshReads(r, i) PROVE Kept
  <2> DEFINE c == [NoCall EXCEPT !.id = i, !.got = role[i]]
  <2>0. role[i] \in Roles
    BY <1>t
  <2>1. c \in Call /\ c.id = i /\ c.asked = "any"
    BY <2>0, FirstCallType, NoCallType, NoCallAsked DEF Call
  <2>2. Goto(r, "issue", c) /\ i \in rows
    BY <1>9 DEF RefreshReads
  <2>3. pc'[r] = "issue" /\ call'[r] = c
    BY <1>t, <2>2 DEF Goto
  <2>4. LoginKnows(r)'
    BY <1>9, <2>1, <2>2, <2>3 DEF RefreshReads, table, LoginKnows
  <2> HIDE DEF c
  <2> QED
    BY <1>9, <1>t, <2>1, <2>2, <2>4, QuietKept DEF RefreshReads, PcValues
<1>10. ASSUME NEW r \in Reqs, IssueTokens(r) PROVE Kept
  <2>1. call[r].id \in rows
    BY <1>10, <1>c DEF IssueTokens, LoginKnows
  <2> QED
    BY <1>10, <1>t, <2>1, FinishKept DEF IssueTokens
<1>11. ASSUME NEW r \in Reqs, NEW i \in Ids, NEW m \in BOOLEAN, ApiArrives(r, i, m) PROVE Kept
  <2> DEFINE c == [NoCall EXCEPT !.id = i, !.mutates = m]
  <2>1. c \in Call
    BY FirstCallType
  <2>2. Goto(r, "auth", c)
    BY <1>11 DEF ApiArrives
  <2>3. LoginKnows(r)'
    BY <1>t, <2>2 DEF Goto, LoginKnows
  <2> HIDE DEF c
  <2> QED
    BY <1>11, <1>t, <2>1, <2>2, <2>3, QuietKept DEF ApiArrives, PcValues
<1>12. ASSUME NEW r \in Reqs, AuthPasses(r) PROVE Kept
  <2> DEFINE c == [call[r] EXCEPT !.got = role[call[r].id]]
  <2>1. c \in Call
    BY <1>t, <1>c DEF Call
  <2>2. Goto(r, "handle", c)
    BY <1>12 DEF AuthPasses
  <2>3. LoginKnows(r)'
    BY <1>t, <2>2 DEF Goto, LoginKnows
  <2> HIDE DEF c
  <2> QED
    BY <1>12, <1>t, <2>1, <2>2, <2>3, QuietKept DEF AuthPasses, PcValues
<1>13. ASSUME NEW r \in Reqs, Handle(r) \/ Fails(r) PROVE Kept
  BY <1>13, <1>t, FinishKept DEF Handle, Fails
<1>14. ASSUME NEW i \in Ids, Expire(i) PROVE Kept
  BY <1>14 DEF Expire, table, Kept, IInv, TypeOK, LoginKnows, RolesAsGranted
<1>15. ASSUME NEW i \in Ids, SetActive(i) PROVE Kept
  BY <1>15 DEF SetActive, table, Kept, IInv, TypeOK, LoginKnows, RolesAsGranted
<1>16. CASE Restart
  <2>1. pc' \in [Reqs -> PcValues] /\ call' \in [Reqs -> Call]
    BY <1>16, NoCallType DEF Restart, PcValues
  <2>2. \A r \in Reqs : LoginKnows(r)'
    BY <1>16 DEF Restart, LoginKnows
  <2> QED
    BY <1>16, <2>1, <2>2 DEF Restart, table, Kept, IInv, TypeOK, RolesAsGranted
<1> QED
  BY <1>1, <1>2, <1>3, <1>4, <1>5, <1>6, <1>7, <1>8, <1>9, <1>10, <1>11, <1>12,
     <1>13, <1>14, <1>15, <1>16 DEF Step, Login, Api

-----------------------------------------------------------------------------
(* A request reaches its handler through AuthPasses only, in a state that  *)
(* allows it, and stays entitled there.                                    *)
LEMMA HandleEntitled == IInv /\ Next => OnlyTheEntitledAct'
<1> SUFFICES ASSUME IInv, Next, NEW r \in Reqs, pc'[r] = "handle"
             PROVE  r \in entitled'
  BY DEF OnlyTheEntitledAct
<1>t. pc \in [Reqs -> PcValues] /\ call \in [Reqs -> Call]
  BY DEF IInv, TypeOK
<1>1. entitled' = {q \in Reqs : InApi(q)' /\ (Allowed(q)' \/ (InApi(q) /\ q \in entitled))}
  BY DEF Next
<1>2. InApi(r)'
  BY DEF InApi
<1>3. CASE pc[r] = "handle"
  BY <1>1, <1>2, <1>3 DEF InApi, IInv, OnlyTheEntitledAct
<1>4. CASE pc[r] # "handle"
  <2>1. AuthPasses(r)
    <3>1. ASSUME NEW q \in Reqs, pc' \in {[pc EXCEPT ![q] = label] : label \in PcValues \ {"handle"}}
          PROVE  FALSE
      BY <1>t, <1>4, <3>1
    <3>2. ASSUME NEW q \in Reqs, Login(q) PROVE FALSE
      <4>1. pc' \in {[pc EXCEPT ![q] = label] : label \in PcValues \ {"handle"}}
        BY <3>2 DEF Login, GithubSelect, GithubUpdate, GithubInsert, DirectFinds,
           DirectFindsNone, DirectUpdate, DirectInsert, Reread, RefreshReads,
           IssueTokens, Finish, Goto, PcValues
      <4> QED
        BY <3>1, <4>1
    <3>3. ASSUME NEW q \in Reqs,
                 (\E i \in Ids, m \in BOOLEAN : ApiArrives(q, i, m)) \/ Handle(q) \/ Fails(q)
          PROVE  FALSE
      <4>1. pc' \in {[pc EXCEPT ![q] = label] : label \in PcValues \ {"handle"}}
        BY <3>3 DEF ApiArrives, Handle, Fails, Finish, Goto, PcValues
      <4> QED
        BY <3>1, <4>1
    <3>4. ASSUME NEW q \in Reqs, AuthPasses(q) PROVE q = r
      BY <1>t, <1>4, <3>4 DEF AuthPasses, Goto
    <3>5. ~ (\E i \in Ids : Expire(i) \/ SetActive(i)) /\ ~ Restart
      BY <1>4 DEF Expire, SetActive, Restart
    <3> QED
      BY <3>2, <3>3, <3>4, <3>5 DEF Next, Step, Api
  <2>2. Allowed(r)'
    <3>1. call[r] \in Call
      BY <1>t
    <3>2. /\ call'[r] = [call[r] EXCEPT !.got = role[call[r].id]]
          /\ UNCHANGED <<rows, role, disabled>>
      BY <1>t, <2>1 DEF AuthPasses, Goto, table
    <3>3. call'[r].id = call[r].id /\ call'[r].mutates = call[r].mutates
      BY <3>1, <3>2 DEF Call
    <3> QED
      BY <2>1, <3>2, <3>3 DEF AuthPasses, Allowed
  <2> QED
    BY <1>1, <1>2, <2>2
<1> QED
  BY <1>3, <1>4

LEMMA InvNext == IInv /\ [Next]_vars => IInv'
<1> SUFFICES ASSUME IInv, [Next]_vars PROVE IInv'
  OBVIOUS
<1>1. CASE Next
  <2>1. Kept
    BY <1>1, StepKept DEF Next
  <2>2. entitled' \in SUBSET Reqs
    BY <1>1 DEF Next
  <2>3. OnlyTheEntitledAct'
    BY <1>1, HandleEntitled
  <2> QED
    BY <2>1, <2>2, <2>3 DEF Kept, IInv, TypeOK
<1>2. CASE UNCHANGED vars
  BY <1>2 DEF vars, IInv, TypeOK, LoginKnows, RolesAsGranted, OnlyTheEntitledAct
<1> QED
  BY <1>1, <1>2

LEMMA IInvAlways == Spec => []IInv
<1> QED
  BY InvInit, InvNext, PTL DEF Spec

(* Every variable keeps its type; tokens and flags belong to rows.          *)
THEOREM TypeCorrect == Spec => []TypeOK
<1>1. IInv => TypeOK
  BY DEF IInv
<1> QED
  BY <1>1, IInvAlways, PTL

(* No handler runs for an account that was not, since the request came,     *)
(* active and, for a mutation, an admin.                                    *)
THEOREM HandlersEntitled == Spec => []OnlyTheEntitledAct
<1>1. IInv => OnlyTheEntitledAct
  BY DEF IInv
<1> QED
  BY <1>1, IInvAlways, PTL

(* GitHub logins and renames give no role that the first login did not.     *)
THEOREM RolesGrantedOnce == Spec => []RolesAsGranted
<1>1. IInv => RolesAsGranted
  BY DEF IInv
<1> QED
  BY <1>1, IInvAlways, PTL

(* A direct login answers with the role it asked for unless another request *)
(* re-roled the row under way.                                              *)
THEOREM DirectLoginsAnswered == Spec => []AnsweredAsAsked
<1>1. IInv => AnsweredAsAsked
  BY DEF IInv, LoginKnows, AnsweredAsAsked
<1> QED
  BY <1>1, IInvAlways, PTL
=============================================================================
