------------------------------- MODULE WebLogin -------------------------------
(***************************************************************************)
(* Logins (auth.go) and the in-memory store of PKCE verifiers (pkce.go).   *)
(* GET /auth/github keeps a verifier under a fresh state and redirects to  *)
(* GitHub; the callback takes the verifier back and exchanges the code in  *)
(* two calls to GitHub.  Whatever goes wrong there, a callback logs in to  *)
(* a test account instead; a failed CLI exchange is an error.  GitHub may  *)
(* stay silent: httpClient gives up after 20 seconds.                      *)
(***************************************************************************)
EXTENDS Integers

CONSTANTS
    States,       \* values of randomURLSafe(32)
    Reqs,
    TTL,          \* how long a verifier is good for
    MaxTime       \* bound of the clock

ASSUME TTLAssumption == TTL \in Nat
ASSUME MaxTimeAssumption == MaxTime \in Nat

VARIABLES
    configured,   \* which OAuth settings the environment gives
    now,
    waiting,      \* keys of pkceStore.store
    createdAt,    \* pkceEntry.createdAt
    lastSet,      \* history: when Set ran last
    issued,       \* history: states handed out
    released,     \* history: states whose verifier a callback was given
    pc            \* where each request stands

store == <<waiting, createdAt, lastSet, issued>>
vars == <<configured, now, waiting, createdAt, lastSet, issued, released, pc>>

Settings == {"webID", "webSecret", "cli"}

(* web and cli: in exchangeAndIssue, for the callback or for the CLI.       *)
(* token, profile: awaiting GitHub; upsert: its user is being stored;      *)
(* test: logging in to a test account.                                     *)
Awaiting == {"webToken", "webProfile", "cliToken", "cliProfile"}
PcValues == {"idle", "webUpsert", "cliUpsert", "test"} \cup Awaiting

Init ==
    /\ configured \in SUBSET Settings
    /\ now = 0
    /\ waiting = {}
    /\ createdAt = [s \in States |-> 0]
    /\ lastSet = 0
    /\ issued = {}
    /\ released = {}
    /\ pc = [r \in Reqs |-> "idle"]

Goto(r, label) == pc' = [pc EXCEPT ![r] = label]

Old(s) == now - createdAt[s] > TTL

-----------------------------------------------------------------------------
(* mutant: entries older than the TTL are not deleted. *)
SetKeepsOld(s) ==
    /\ s \notin issued
    /\ issued' = issued \cup {s}
    /\ createdAt' = [createdAt EXCEPT ![s] = now]
    /\ waiting' = waiting \cup {s}
    /\ lastSet' = now

(* pkceStore.Set: the new entry, then a sweep of the whole map. *)
Set(s) ==
    /\ s \notin issued
    /\ issued' = issued \cup {s}
    /\ createdAt' = [createdAt EXCEPT ![s] = now]
    /\ waiting' = {s} \cup {k \in waiting : ~ Old(k)}
    /\ lastSet' = now

(* GET /auth/github from a browser: the redirect is the answer.  Without a *)
(* client id, 503.                                                         *)
AuthGithub(s) ==
    /\ "webID" \in configured
    /\ Set(s)
    /\ UNCHANGED <<configured, now, released, pc>>

(* GET /auth/github from a program, or the callback with no state that is  *)
(* known: a test account.                                                  *)
TestLogin(r) ==
    /\ pc[r] = "idle"
    /\ Goto(r, "test")
    /\ UNCHANGED <<configured, now, store, released>>

(* mutant: the age of an entry is not looked at. *)
PopVerifierAnyAge(s) ==
    /\ s \in waiting
    /\ waiting' = waiting \ {s}
    /\ released' = released \cup {s}
    /\ UNCHANGED <<createdAt, lastSet, issued>>

(* mutant: an entry stays in the map until it is swept. *)
PopVerifierKeeps(s) ==
    /\ s \in waiting
    /\ released' = IF Old(s) THEN released ELSE released \cup {s}
    /\ UNCHANGED store

(* pkceStore.PopVerifier: the entry goes in any case. *)
PopVerifier(s) ==
    /\ s \in waiting
    /\ waiting' = waiting \ {s}
    /\ released' = IF Old(s) THEN released ELSE released \cup {s}
    /\ UNCHANGED <<createdAt, lastSet, issued>>

(* canRealOAuth: the verifier came back, the code is none of those that    *)
(* tests use (real), both credentials are set.                             *)
AuthGithubCallback(r, s, real) ==
    /\ pc[r] = "idle"
    /\ PopVerifier(s)
    /\ Goto(r, IF ~ Old(s) /\ real /\ {"webID", "webSecret"} \subseteq configured
               THEN "webToken" ELSE "test")
    /\ UNCHANGED <<configured, now>>

(* POST /auth/github/exchange: the CLI brings a verifier of its own. *)
AuthGithubExchange(r) ==
    /\ pc[r] = "idle"
    /\ "cli" \in configured
    /\ Goto(r, "cliToken")
    /\ UNCHANGED <<configured, now, store, released>>

-----------------------------------------------------------------------------
(* exchangeAndIssue: the access token, the profile ... *)
GithubAnswers(r) ==
    /\ \/ pc[r] = "webToken" /\ Goto(r, "webProfile")
       \/ pc[r] = "webProfile" /\ Goto(r, "webUpsert")
       \/ pc[r] = "cliToken" /\ Goto(r, "cliProfile")
       \/ pc[r] = "cliProfile" /\ Goto(r, "cliUpsert")
    /\ UNCHANGED <<configured, now, store, released>>

(* It fails: a callback goes on with a test account, the CLI gets a 502. *)
ExchangeFails(r) ==
    /\ Goto(r, IF pc[r] \in {"webToken", "webProfile", "webUpsert"} THEN "test" ELSE "idle")
    /\ UNCHANGED <<configured, now, store, released>>

(* GitHub refuses, the connection breaks, the body is not what is expected. *)
GithubRefuses(r) == pc[r] \in Awaiting /\ ExchangeFails(r)

(* mutant: http.Client without its Timeout. *)
NeverTimesOut(r) == FALSE

TimesOut(r) == pc[r] \in Awaiting /\ ExchangeFails(r)

(* ... then UpsertUserFromGithub and issueTokensFor, and the answer. *)
Upserts(r) ==
    /\ pc[r] \in {"webUpsert", "cliUpsert"}
    /\ \/ Goto(r, "idle") /\ UNCHANGED <<configured, now, store, released>>
       \/ ExchangeFails(r)

(* UpsertUserDirect and issueLongTokensFor: 200 or 500. *)
TestAccount(r) ==
    /\ pc[r] = "test"
    /\ Goto(r, "idle")
    /\ UNCHANGED <<configured, now, store, released>>

-----------------------------------------------------------------------------
Tick ==
    /\ now < MaxTime
    /\ now' = now + 1
    /\ UNCHANGED <<configured, store, released, pc>>

(* The map is in memory only. *)
Restart ==
    /\ waiting' = {}
    /\ pc' = [r \in Reqs |-> "idle"]
    /\ UNCHANGED <<configured, now, createdAt, lastSet, issued, released>>

Arrive(r) ==
    \/ TestLogin(r)
    \/ \E s \in States, real \in BOOLEAN : AuthGithubCallback(r, s, real)
    \/ AuthGithubExchange(r)

(* What the server does whether or not GitHub answers. *)
Serve(r) == TimesOut(r) \/ Upserts(r) \/ TestAccount(r)

Next ==
    \/ \E s \in States : AuthGithub(s)
    \/ \E r \in Reqs : Arrive(r) \/ GithubAnswers(r) \/ GithubRefuses(r) \/ Serve(r)
    \/ Tick
    \/ Restart

Spec == Init /\ [][Next]_vars

FairSpec == Spec /\ \A r \in Reqs : WF_vars(Serve(r))

-----------------------------------------------------------------------------
TypeOK ==
    /\ configured \in SUBSET Settings
    /\ now \in 0..MaxTime
    /\ createdAt \in [States -> 0..now]
    /\ lastSet \in 0..now
    /\ issued \in SUBSET States
    /\ waiting \in SUBSET (issued \ released)
    /\ released \in SUBSET issued
    /\ pc \in [Reqs -> PcValues]

(* The map of verifiers holds nothing that was older than the TTL when     *)
(* somebody last asked to log in: a login nobody finishes costs memory     *)
(* until the first login begun after it expires, and no longer.            *)
SweptAtSet == \A s \in waiting : lastSet - createdAt[s] <= TTL

(* The verifiers are one-time tickets: whatever callbacks are repeated,    *)
(* come late or race, and whatever restarts, a state is given its verifier *)
(* once at most and within its TTL.                                        *)
Ticket == INSTANCE OneTimeTicket
    WITH Tickets <- States, redeemed <- released,
         live <- {s \in waiting : ~ Old(s)}

VerifiersAreTickets == Ticket!Spec

(* Every login ends though GitHub never answers; only Serve is fair. *)
Answered == \A r \in Reqs : pc[r] # "idle" ~> pc[r] = "idle"
=============================================================================
