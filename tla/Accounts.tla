------------------------------- MODULE Accounts -------------------------------
(***************************************************************************)
(* The users table and the API chain that reads it.  Logins insert and     *)
(* update rows (users.go), by GitHub id (UpsertUserFromGithub) or by name  *)
(* (UpsertUserDirect: test and fallback logins), each a SELECT followed by  *)
(* other statements outside any transaction.  API requests pass the chain  *)
(* of Routes: version header, requireAuth, CSRF, limit, role; requireAuth   *)
(* reads the row once and the rest of the chain works on what it read.      *)
(*                                                                         *)
(* github_id is UNIQUE and never changes: it identifies a row, and the     *)
(* subject of a token.  A row made by UpsertUserDirect for name n has the  *)
(* github_id "test-"+n, here n itself.                                      *)
(***************************************************************************)
EXTENDS Integers, FiniteSets

CONSTANTS
    GithubIds,    \* ids of GitHub accounts
    Names,        \* user names, lower case
    DirectNames,  \* those that logins without GitHub ask for
    Admins,       \* ADMIN_GITHUB_USERNAMES
    Reqs

Ids == GithubIds \cup DirectNames
Roles == {"admin", "analyst"}

ASSUME IdsDisjoint == GithubIds \cap Names = {}
ASSUME DirectNamesAssumption == DirectNames \subseteq Names
ASSUME NonEmptyAssumption == Ids # {} /\ Names # {}

VARIABLES
    rows,         \* github_ids with a row in table users
    name,         \* username
    role,         \* role
    disabled,     \* rows whose is_active is 0
    tokens,       \* subjects with an access token that parseAccess accepts
    pc,           \* where each request stands
    call,         \* its locals
    first,        \* history: the name a row was inserted with
    reroled,      \* history: rows whose role a direct login has changed
    entitled,     \* history: requests allowed by the row at some moment since they came
    meddled       \* history: requests whose row another request's UPDATE has re-roled

table == <<rows, name, role, first, reroled>>
vars == <<rows, name, role, disabled, tokens, pc, call, first, reroled,
          entitled, meddled>>

-----------------------------------------------------------------------------
PcValues == {"idle", "update", "insert", "rerole", "plant", "reread", "issue",
             "auth", "handle"}

(* id: the row worked on; named: the GitHub login; asked: the role a direct *)
(* login asks for, "any" elsewhere; got: the role read; mutates: method     *)
(* other than GET.                                                         *)
Call == [id : Ids, named : Names, asked : Roles \cup {"any"}, got : Roles,
         mutates : BOOLEAN]

NoCall == [id |-> CHOOSE i \in Ids : TRUE, named |-> CHOOSE n \in Names : TRUE,
           asked |-> "any", got |-> "analyst", mutates |-> FALSE]

Init ==
    /\ rows = {}
    /\ name = [i \in Ids |-> CHOOSE n \in Names : TRUE]
    /\ role = [i \in Ids |-> "analyst"]
    /\ disabled = {}
    /\ tokens = {}
    /\ pc = [r \in Reqs |-> "idle"]
    /\ call = [r \in Reqs |-> NoCall]
    /\ first = [i \in Ids |-> CHOOSE n \in Names : TRUE]
    /\ reroled = {}
    /\ entitled = {}
    /\ meddled = {}

Goto(r, label, c) ==
    /\ pc' = [pc EXCEPT ![r] = label]
    /\ call' = [call EXCEPT ![r] = c]

Finish(r) ==
    /\ Goto(r, "idle", NoCall)
    /\ meddled' = meddled \ {r}

(* INSERT INTO users: is_active 1. *)
InsertRow(i, n, asRole) ==
    /\ i \notin rows
    /\ rows' = rows \cup {i}
    /\ name' = [name EXCEPT ![i] = n]
    /\ role' = [role EXCEPT ![i] = asRole]
    /\ first' = [first EXCEPT ![i] = n]
    /\ UNCHANGED reroled

-----------------------------------------------------------------------------
(* UpsertUserFromGithub, once GitHub has named the account. *)

(* SELECT by github_id. *)
GithubSelect(r, g, n) ==
    /\ pc[r] = "idle"
    /\ Goto(r, IF g \in rows THEN "update" ELSE "insert",
            [NoCall EXCEPT !.id = g, !.named = n])
    /\ UNCHANGED <<table, disabled, tokens, meddled>>

(* mutant: the allow-list is applied at every login. *)
GithubUpdatePromotes(r) ==
    LET c == call[r]
    IN  /\ pc[r] = "update"
        /\ name' = [name EXCEPT ![c.id] = c.named]
        /\ role' = [role EXCEPT ![c.id] = IF c.named \in Admins THEN "admin" ELSE @]
        /\ Goto(r, "reread", c)
        /\ UNCHANGED <<rows, first, reroled, disabled, tokens, meddled>>

(* The account is known: its name follows GitHub, its role stays. *)
GithubUpdate(r) ==
    LET c == call[r]
    IN  /\ pc[r] = "update"
        /\ name' = [name EXCEPT ![c.id] = c.named]
        /\ Goto(r, "reread", c)
        /\ UNCHANGED <<rows, role, first, reroled, disabled, tokens, meddled>>

(* mutant: an INSERT that fails is taken for one that succeeded. *)
GithubInsertUnchecked(r) ==
    LET c == call[r]
    IN  /\ pc[r] = "insert"
        /\ \/ InsertRow(c.id, c.named, IF c.named \in Admins THEN "admin" ELSE "analyst")
           \/ UNCHANGED table
        /\ Goto(r, "reread", c)
        /\ UNCHANGED <<disabled, tokens, meddled>>

(* It is new: the allow-list decides.  Refused by the UNIQUE constraint if *)
(* another first login came before: see Fails.                             *)
GithubInsert(r) ==
    LET c == call[r]
    IN  /\ pc[r] = "insert"
        /\ InsertRow(c.id, c.named, IF c.named \in Admins THEN "admin" ELSE "analyst")
        /\ Goto(r, "reread", c)
        /\ UNCHANGED <<disabled, tokens, meddled>>

-----------------------------------------------------------------------------
(* UpsertUserDirect. *)

(* SELECT by username, which is not unique: the row of a GitHub account of *)
(* that name may be the one found.                                         *)
DirectFinds(r, i, asked) ==
    /\ pc[r] = "idle"
    /\ i \in rows
    /\ name[i] \in DirectNames
    /\ Goto(r, IF role[i] # asked THEN "rerole" ELSE "issue",
            [NoCall EXCEPT !.id = i, !.asked = asked, !.got = role[i]])
    /\ UNCHANGED <<table, disabled, tokens, meddled>>

DirectFindsNone(r, n, asked) ==
    /\ pc[r] = "idle"
    /\ \A i \in rows : name[i] # n
    /\ Goto(r, "plant", [NoCall EXCEPT !.id = n, !.asked = asked])
    /\ UNCHANGED <<table, disabled, tokens, meddled>>

(* mutant: the row read before the UPDATE is returned. *)
DirectUpdateReturnsOld(r) ==
    LET c == call[r]
    IN  /\ pc[r] = "rerole"
        /\ role' = [role EXCEPT ![c.id] = c.asked]
        /\ reroled' = reroled \cup {c.id}
        /\ meddled' = meddled \cup {q \in Reqs \ {r} : pc[q] # "idle" /\ call[q].id = c.id}
        /\ Goto(r, "issue", c)
        /\ UNCHANGED <<rows, name, first, disabled, tokens>>

(* UPDATE users SET role, whatever the role is by now. *)
DirectUpdate(r) ==
    LET c == call[r]
    IN  /\ pc[r] = "rerole"
        /\ role' = [role EXCEPT ![c.id] = c.asked]
        /\ reroled' = reroled \cup {c.id}
        /\ meddled' = meddled \cup {q \in Reqs \ {r} : pc[q] # "idle" /\ call[q].id = c.id}
        /\ Goto(r, "reread", c)
        /\ UNCHANGED <<rows, name, first, disabled, tokens>>

DirectInsert(r) ==
    LET c == call[r]
    IN  /\ pc[r] = "plant"
        /\ InsertRow(c.id, c.id, c.asked)
        /\ Goto(r, "reread", c)
        /\ UNCHANGED <<disabled, tokens, meddled>>

-----------------------------------------------------------------------------
(* Both upserts end in GetUserByID ... *)
Reread(r) ==
    /\ pc[r] = "reread"
    /\ Goto(r, "issue", [call[r] EXCEPT !.got = role[call[r].id]])
    /\ UNCHANGED <<table, disabled, tokens, meddled>>

(* ... as a refresh does, once its token is spent; only a refresh looks at *)
(* is_active.                                                              *)
RefreshReads(r, i) ==
    /\ pc[r] = "idle"
    /\ i \in rows \ disabled
    /\ Goto(r, "issue", [NoCall EXCEPT !.id = i, !.got = role[i]])
    /\ UNCHANGED <<table, disabled, tokens, meddled>>

(* issueTokensFor, issueLongTokensFor. *)
IssueTokens(r) ==
    /\ pc[r] = "issue"
    /\ tokens' = tokens \cup {call[r].id}
    /\ Finish(r)
    /\ UNCHANGED <<table, disabled>>

-----------------------------------------------------------------------------
(* A request to /api: header checked, token parsed ... *)
ApiArrives(r, i, mutates) ==
    /\ pc[r] = "idle"
    /\ i \in tokens
    /\ Goto(r, "auth", [NoCall EXCEPT !.id = i, !.mutates = mutates])
    /\ UNCHANGED <<table, disabled, tokens, meddled>>

(* mutant: requireAuth does not look at is_active. *)
AuthIgnoresActive(r) ==
    LET c == call[r]
    IN  /\ pc[r] = "auth" /\ c.id \in rows
        /\ c.mutates => role[c.id] = "admin"
        /\ Goto(r, "handle", [c EXCEPT !.got = role[c.id]])
        /\ UNCHANGED <<table, disabled, tokens, meddled>>

(* ... requireAuth reads the row; then come, without another look at it,    *)
(* requireCSRF, the limiter and requireAdminForMutation on the role read.  *)
AuthPasses(r) ==
    LET c == call[r]
    IN  /\ pc[r] = "auth"
        /\ c.id \in rows \ disabled
        /\ c.mutates => role[c.id] = "admin"
        /\ Goto(r, "handle", [c EXCEPT !.got = role[c.id]])
        /\ UNCHANGED <<table, disabled, tokens, meddled>>

(* The handler, mutation or not: the row is not read again. *)
Handle(r) ==
    /\ pc[r] = "handle"
    /\ Finish(r)
    /\ UNCHANGED <<table, disabled, tokens>>

(* A guard refuses (400, 401, 403, 429), or a statement fails: an INSERT on *)
(* the UNIQUE constraint, any statement for another reason (500, 502, or    *)
(* the login falls back to a test account as another call).                *)
Fails(r) ==
    /\ pc[r] # "idle"
    /\ Finish(r)
    /\ UNCHANGED <<table, disabled, tokens>>

-----------------------------------------------------------------------------
(* exp is reached. *)
Expire(i) ==
    /\ i \in tokens
    /\ tokens' = tokens \ {i}
    /\ UNCHANGED <<table, disabled, pc, call, meddled>>

(* An operator flips is_active in the database; no handler does. *)
SetActive(i) ==
    /\ i \in rows
    /\ disabled' = (disabled \ {i}) \cup ({i} \ disabled)
    /\ UNCHANGED <<table, tokens, pc, call, meddled>>

(* The process restarts on the same file.  Without TOKEN_SECRET it makes a *)
(* new one, and no token issued before is accepted any more.               *)
Restart ==
    /\ tokens' \in {tokens, {}}
    /\ pc' = [r \in Reqs |-> "idle"]
    /\ call' = [r \in Reqs |-> NoCall]
    /\ meddled' = {}
    /\ UNCHANGED <<table, disabled>>

InApi(r) == pc[r] \in {"auth", "handle"}

(* What README.md demands of the account behind an API request. *)
Allowed(r) ==
    /\ call[r].id \in rows \ disabled
    /\ call[r].mutates => role[call[r].id] = "admin"

Login(r) ==
    \/ \E g \in GithubIds, n \in Names : GithubSelect(r, g, n)
    \/ GithubUpdate(r)
    \/ GithubInsert(r)
    \/ \E i \in Ids, asked \in Roles : DirectFinds(r, i, asked)
    \/ \E n \in DirectNames, asked \in Roles : DirectFindsNone(r, n, asked)
    \/ DirectUpdate(r)
    \/ DirectInsert(r)
    \/ Reread(r)
    \/ \E i \in Ids : RefreshReads(r, i)
    \/ IssueTokens(r)

Api(r) ==
    \/ \E i \in Ids, mutates \in BOOLEAN : ApiArrives(r, i, mutates)
    \/ AuthPasses(r)
    \/ Handle(r)

Step ==
    \/ \E r \in Reqs : Login(r) \/ Api(r) \/ Fails(r)
    \/ \E i \in Ids : Expire(i) \/ SetActive(i)
    \/ Restart

(* The history of a request: was it allowed at any moment since it came? *)
Next ==
    /\ Step
    /\ entitled' = {r \in Reqs : InApi(r)' /\ (Allowed(r)' \/ (InApi(r) /\ r \in entitled))}

Spec == Init /\ [][Next]_vars

-----------------------------------------------------------------------------
TypeOK ==
    /\ rows \in SUBSET Ids
    /\ name \in [Ids -> Names]
    /\ role \in [Ids -> Roles]
    /\ disabled \in SUBSET rows
    /\ tokens \in SUBSET rows
    /\ pc \in [Reqs -> PcValues]
    /\ call \in [Reqs -> Call]
    /\ first \in [Ids -> Names]
    /\ reroled \in SUBSET rows
    /\ entitled \in SUBSET Reqs
    /\ meddled \in SUBSET Reqs

(* A handler runs only for an account that, at some moment since the       *)
(* request came, was active, and an admin if the request is no GET         *)
(* (README.md:209, 242).  So a request that comes after a disablement or a *)
(* demotion does nothing, whatever tokens were issued before, or even, by  *)
(* a refresh that had already read is_active, after it; one under way when *)
(* the row changes may still complete.                                     *)
OnlyTheEntitledAct == \A r \in Reqs : pc[r] = "handle" => r \in entitled

(* README.md:265-268: the allow-list makes admins at the first login of a  *)
(* GitHub account and never later, whatever the account is renamed to and  *)
(* however its logins interleave.  Only a direct login that finds the row  *)
(* by its name changes the role.                                           *)
RolesAsGranted ==
    \A g \in GithubIds \cap rows :
        g \notin reroled => (role[g] = "admin" <=> first[g] \in Admins)

(* The user a direct login answers with, and puts in its token, has the    *)
(* role it asked for, unless another login changed that row under way.     *)
AnsweredAsAsked ==
    \A r \in Reqs :
        pc[r] = "issue" /\ call[r].asked # "any" /\ r \notin meddled
            => call[r].got = call[r].asked
=============================================================================
