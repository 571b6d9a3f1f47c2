---------------------------- MODULE RefreshTokens ----------------------------
(***************************************************************************)
(* The refresh_tokens table and the handlers that use it: logins, which    *)
(* insert a row; authRefresh, whose ValidateAndRevokeRefreshToken is a      *)
(* SELECT and a later UPDATE outside any transaction; authLogout.  The      *)
(* process may stop and restart between any two statements: the table       *)
(* stays, the requests are lost.                                            *)
(*                                                                         *)
(* A token is a model value, its row the values of the functions below.    *)
(* A refused request (unknown, revoked or expired token: 401) changes       *)
(* nothing and is not a step.                                               *)
(***************************************************************************)
EXTENDS Integers, FiniteSets

CONSTANTS
    Tokens,       \* 32-byte random strings, each generated at most once
    NoToken,      \* absence of a token
    Pending, Closed,  \* of a session with no live token: see Holder
    Users, Reqs,
    RefreshTTL,   \* of tokens issued by OAuth logins and refreshes
    LongTTL,      \* of tokens issued by test and fallback logins
    MaxTime       \* bound of the clock

ASSUME NoTokenAssumption == {NoToken, Pending, Closed} \cap Tokens = {}
ASSUME UsersAssumption == Users # {}
ASSUME TTLAssumption == RefreshTTL \in Nat /\ LongTTL \in Nat

VARIABLES
    now,          \* the clock
    disabled,     \* users whose row has is_active = 0
    issued,       \* tokens with a row in refresh_tokens
    owner,        \* user_id
    expires,      \* expires_at
    revoked,      \* tokens whose revoked_at is not NULL
    pc,           \* the statement each refresh request is at
    presented,    \* the token it was sent
    parent,       \* history: the token a token replaced, or NoToken
    root          \* history: the token of the login its chain began with

rows == <<issued, owner, expires, revoked, parent, root>>
vars == <<now, disabled, issued, owner, expires, revoked, pc, presented,
          parent, root>>

-----------------------------------------------------------------------------
Init ==
    /\ now = 0
    /\ disabled = {}
    /\ issued = {}
    /\ owner = [t \in Tokens |-> CHOOSE u \in Users : TRUE]
    /\ expires = [t \in Tokens |-> 0]
    /\ revoked = {}
    /\ pc = [r \in Reqs |-> "idle"]
    /\ presented = [r \in Reqs |-> NoToken]
    /\ parent = [t \in Tokens |-> NoToken]
    /\ root = [t \in Tokens |-> t]

InFlight(r) == pc[r] # "idle"

Finish(r) ==
    /\ pc' = [pc EXCEPT ![r] = "idle"]
    /\ presented' = [presented EXCEPT ![r] = NoToken]

(* StoreRefreshToken: a row for a fresh token t. *)
StoreRefreshToken(t, user, ttl) ==
    /\ t \notin issued
    /\ issued' = issued \cup {t}
    /\ owner' = [owner EXCEPT ![t] = user]
    /\ expires' = [expires EXCEPT ![t] = now + ttl]
    /\ UNCHANGED revoked

(* A login of any kind (exchangeAndIssue, issueTestTokens,                 *)
(* issueFallbackTokens) ends in issueTokensFor or issueLongTokensFor.      *)
(* None looks at is_active.                                                *)
Login(t, user) ==
    /\ \E ttl \in {RefreshTTL, LongTTL} : StoreRefreshToken(t, user, ttl)
    /\ parent' = [parent EXCEPT ![t] = NoToken]
    /\ root' = [root EXCEPT ![t] = t]
    /\ UNCHANGED <<now, disabled, pc, presented>>

(* mutant: the SELECT's revoked_at is not looked at. *)
SelectIgnoresRevoked(r, t) ==
    /\ pc[r] = "idle" /\ t \in issued /\ now <= expires[t]
    /\ pc' = [pc EXCEPT ![r] = "update"]
    /\ presented' = [presented EXCEPT ![r] = t]
    /\ UNCHANGED <<now, disabled, rows>>

(* ValidateAndRevokeRefreshToken, SELECT and its checks; a token is still  *)
(* good at the very instant it expires (After).                            *)
RefreshSelect(r, t) ==
    /\ pc[r] = "idle"
    /\ t \in issued \ revoked
    /\ now <= expires[t]
    /\ pc' = [pc EXCEPT ![r] = "update"]
    /\ presented' = [presented EXCEPT ![r] = t]
    /\ UNCHANGED <<now, disabled, rows>>

(* mutants: the UPDATE is forgotten; the row is deleted instead. *)
UpdateForgotten(r) ==
    /\ pc[r] = "update"
    /\ pc' = [pc EXCEPT ![r] = "user"]
    /\ UNCHANGED <<now, disabled, rows, presented>>

UpdateDeletes(r) ==
    /\ pc[r] = "update"
    /\ issued' = issued \ {presented[r]}
    /\ pc' = [pc EXCEPT ![r] = "user"]
    /\ UNCHANGED <<now, disabled, owner, expires, revoked, parent, root,
                   presented>>

(* Its UPDATE, by token_hash alone: it does not ask whether the row has    *)
(* been revoked since.                                                     *)
RefreshUpdate(r) ==
    /\ pc[r] = "update"
    /\ revoked' = revoked \cup {presented[r]}
    /\ pc' = [pc EXCEPT ![r] = "user"]
    /\ UNCHANGED <<now, disabled, issued, owner, expires, parent, root,
                   presented>>

(* GetUserByID: a disabled account gets 403, its token stays spent. *)
RefreshUser(r) ==
    /\ pc[r] = "user"
    /\ IF owner[presented[r]] \in disabled
         THEN Finish(r)
         ELSE /\ pc' = [pc EXCEPT ![r] = "issue"]
              /\ UNCHANGED presented
    /\ UNCHANGED <<now, disabled, rows>>

(* issueTokensFor, with the short TTL whatever the presented token had. *)
RefreshIssue(r, t) ==
    /\ pc[r] = "issue"
    /\ StoreRefreshToken(t, owner[presented[r]], RefreshTTL)
    /\ parent' = [parent EXCEPT ![t] = presented[r]]
    /\ root' = [root EXCEPT ![t] = root[presented[r]]]
    /\ Finish(r)
    /\ UNCHANGED <<now, disabled>>

(* A statement fails: 401 or 500, and nothing undoes the earlier ones. *)
RefreshFails(r) ==
    /\ InFlight(r)
    /\ Finish(r)
    /\ UNCHANGED <<now, disabled, rows>>

(* authLogout.  An error of RevokeRefreshToken is dropped: nothing changes, *)
(* and the answer is 200 all the same.                                     *)
Logout(t) ==
    /\ revoked' = revoked \cup ({t} \cap issued)
    /\ UNCHANGED <<now, disabled, issued, owner, expires, parent, root, pc, presented>>

(* An operator flips users.is_active; no handler does. *)
SetActive(user) ==
    /\ disabled' = (disabled \ {user}) \cup ({user} \ disabled)
    /\ UNCHANGED <<now, rows, pc, presented>>

(* The process stops and starts again on the same database file. *)
Restart ==
    /\ pc' = [r \in Reqs |-> "idle"]
    /\ presented' = [r \in Reqs |-> NoToken]
    /\ UNCHANGED <<now, disabled, rows>>

Tick ==
    /\ now < MaxTime
    /\ now' = now + 1
    /\ UNCHANGED <<disabled, rows, pc, presented>>

Next ==
    \/ \E t \in Tokens, u \in Users : Login(t, u)
    \/ \E r \in Reqs, t \in Tokens : RefreshSelect(r, t) \/ RefreshIssue(r, t)
    \/ \E r \in Reqs : RefreshUpdate(r) \/ RefreshUser(r) \/ RefreshFails(r)
    \/ \E t \in Tokens : Logout(t)
    \/ \E u \in Users : SetActive(u)
    \/ Restart
    \/ Tick

Spec == Init /\ [][Next]_vars

(* A client that waits for the answer before it presents a token again.    *)
(* Logouts, of the same token too, may still come at any time.             *)
OnePerToken ==
    \A q, r \in Reqs : InFlight(q) /\ InFlight(r) /\ presented[q] = presented[r] => q = r

SerialNext == Next /\ OnePerToken'
SerialSpec == Init /\ [][SerialNext]_vars

-----------------------------------------------------------------------------
TypeOK ==
    /\ now \in Nat
    /\ disabled \in SUBSET Users
    /\ issued \in SUBSET Tokens
    /\ owner \in [Tokens -> Users]
    /\ expires \in [Tokens -> Nat]
    /\ revoked \in SUBSET issued
    /\ pc \in [Reqs -> {"idle", "update", "user", "issue"}]
    /\ presented \in [Reqs -> Tokens \cup {NoToken}]
    /\ \A r \in Reqs : InFlight(r) => presented[r] \in issued
    /\ parent \in [Tokens -> Tokens \cup {NoToken}]
    /\ root \in [Tokens -> Tokens]

(* A token that replaced another was issued to the same user, in the same  *)
(* session, after the other was revoked for good: rotation neither moves a *)
(* session to another account nor leaves the old token usable, whatever    *)
(* requests and restarts come between the statements of authRefresh.       *)
RotationKeepsSession ==
    \A t \in issued :
        parent[t] # NoToken => /\ parent[t] \in revoked
                               /\ owner[parent[t]] = owner[t]
                               /\ root[parent[t]] = root[t]

(* README.md:223: "One refresh token, one use": no two tokens were issued  *)
(* for the same presented one.                                             *)
OneUse ==
    \A s, t \in issued : parent[s] = parent[t] /\ parent[s] # NoToken => s = t

(* A session has at most one token that is not revoked. *)
OneLivePerSession ==
    \A s, t \in issued \ revoked : root[s] = root[t] => s = t

-----------------------------------------------------------------------------
(* The session's one live token, if any; else a renewal under way; else    *)
(* nothing more can come of it.                                            *)
Live(s) == {t \in issued \ revoked : root[t] = s}
Renewing(s) == \E r \in Reqs : InFlight(r) /\ root[presented[r]] = s

HolderOf(s) ==
    IF Live(s) # {} THEN CHOOSE t \in Live(s) : TRUE
    ELSE IF Renewing(s) THEN Pending ELSE Closed

Holder == [s \in Tokens |-> HolderOf(s)]

R == INSTANCE TokenRotation WITH holder <- Holder, used <- issued

(* Serial clients get what TokenRotation promises. *)
ImplementsRotation == R!Rotation
=============================================================================
