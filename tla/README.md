# Verification of the Insighta profile service

TLA+ models, TLC runs and TLAPS proofs for the Go program in `src/`: a single
process that serves demographic profiles from one SQLite file, with an
in-process query cache, streamed CSV imports, rotating refresh tokens and rate
limits. `PROJECT.json` ties every definition to the lines it models and every
hazard to the properties about it.

    tlc -config ProfileServiceSafety.cfg MCProfileService.tla
    tlapm ProfileServiceProofs.tla

## 1. Inventory

| Component | State | Operations | Interacts with | Hard behaviour | Correct when |
|---|---|---|---|---|---|
| Query cache `cache.go` | LRU with TTL, `namespace` counter | `Get`, `Set`, `Bump` | list, search (Get/Set); create, delete, import (Bump) | Get and Set each read the namespace; a write may come between | no page older than the last acknowledged write, staleness ends |
| Profile handlers `handlers.go` | none of their own (goroutine locals) | create, get, delete, list, search | store, cache, three upstream APIs | check-then-insert across seconds of upstream calls; order of commit, Bump, answer | every request answered, committed changes bumped |
| Profile store `store.go` | table `profiles` | `GetByName`, `GetByID`, `Insert`, `Delete`, `List`, `ListAll`, `BulkInsertIgnore`, `Count` | every handler, seeder | List is two statements; UNIQUE is exact while lookups fold case; text order of times; OFFSET arithmetic | pages that partition the result, in order |
| CSV import `bulk_import.go` | body, chunk, summary | read, validate, flush, finish | store, cache | chunk by chunk commits; abort half-way; ceiling; failing reader; concurrent uploads | no row lost or counted twice, only valid rows written, ceiling respected, answered |
| CSV export `export.go` | none | two statements, streamed | store | commits between the statements | no older than the last acknowledged write |
| Refresh tokens `users.go`, `auth.go` | table `refresh_tokens` | login, refresh, logout | users, clients | SELECT and UPDATE apart; crash between UPDATE and INSERT; dropped error | one use per token, one live token per session, session never changes owner |
| Rate limiting `middleware.go` | hits per key, two limiters | `allow`, two tiers on `/auth/*`, one on `/api/*` | every request | window boundary; two critical sections per request; shared path counter | never more than the limit in a window, never a refusal without cause |
| OAuth login `auth.go`, `pkce.go`, `grader.go` | state → verifier map | authorize, callback, exchange, test tokens | GitHub, users, refresh tokens | replayed, crossed or late callbacks; GitHub silent; fallback to a test account | a verifier released once and in time, every login ends |
| User accounts `users.go` | table `users` | upsert by GitHub id or by name | logins, `requireAuth` | read-then-write upserts; usernames not unique | roles as granted, login answers what was asked |
| Access tokens and API chain `tokens.go`, `middleware.go` | signing secret | issue, parse, `requireAuth`, role, CSRF, version | users, handlers | a role or account changed after the check; restart without `TOKEN_SECRET` | no handler for an account that was not entitled |
| Query canonicalisation, pagination `normalize.go`, `pagination.go` | none | cache key, links | cache, store | rounding of probabilities, links cached with the page | a hit is the request's own page, links lead on |
| Natural-language search `search.go` | none | `ParseNL` | list, cache | bounds that override one another, map order, ties | no age left out or let in, country as named |
| Enrichment `external.go`, `classify.go` | none | three GETs, age group | create | failures stored as defaults | – |
| Seeder, start-up, shutdown `seed.go`, `main.go` | none | seed, serve, stop | store | restart after deletes, stop under a write | nothing stale or lost across a restart |
| Logging, CORS, cookies | none | – | – | – | not modelled |

Every handler runs on a goroutine of its own. They share the SQLite file
(WAL, a pool of 8 connections; each statement or transaction is atomic and
sees one snapshot), the cache, the limiters and the PKCE map. Nothing else is
shared.

## 2. Modules

| Module | Models | Composition |
|---|---|---|
| `ProfileService` | cache, profile handlers, store, export, seeding at a restart, and what an import does to cache and table | the composition of these over one table |
| `BulkImport` | `importProfiles` row by row, `parseImportRow`, `BulkInsertIgnore` | uploads side by side |
| `ImportRows` | `BulkImport` with the rows each upload accepted | extends `BulkImport` |
| `ImportHistory` | `BulkImport` with the histories of `ProfileService` | extends `BulkImport`, implements the imports of `ProfileService` |
| `TokenRotation` | what rotation promises (abstract) | – |
| `RefreshTokens` | `refresh_tokens`, refresh, logout, login's insert, crashes | implements `TokenRotation` |
| `RateLimiter` | `rateLimiter.allow` | – |
| `AuthRateLimit` | `authRateLimit`, two tiers | extends `RateLimiter`: requests between the tiers of one limiter |
| `Accounts` | `users`, both upserts, access tokens, `requireAuth` and the role check | logins, refreshes and API requests over one table |
| `OneTimeTicket` | what a store of verifiers promises (abstract) | – |
| `WebLogin` | `pkceStore`, authorize, callback, exchange, fallback | implements `OneTimeTicket` |
| `ListQuery` | `parseListQuery`, `canonicalFilter`, `List`'s SQL, `buildPagination` | requests that share a cached body |
| `NLSearch` | `ParseNL`, `searchProfiles` | requests that share a cached body |
| `MC…` | model values, instances and symmetry for TLC | extends its module |
| `…Proofs` | theorems | extends its module; `RateLimitProofs` is about both limiters, `BulkImportProofs` also about `ImportRows` and `ImportHistory` |

An operator preceded by a comment `mutant:` is a wrong variant of the
definition after it, the way a plausible bug would write it. No specification
uses one; put in the place of the definition, each makes the property named
with it in `PROJECT.json` fail.

### ProfileService

One action per SQL statement and cache call, the points where goroutines meet.
`pc[r]` says which one request `r` is about to make:

| Code | Actions |
|---|---|
| `listProfiles`, `searchProfiles` | `ListStart` (load of the namespace in `Get`), `LookupHit`/`LookupMiss` (the LRU), `ListCount`, `ListRows` (`Store.List`), `SetVersioned` (load in `Set`), `SetAdd`, `ListFails` |
| `createProfile` | `CreateFindsExisting`, `CreateStart` (GetByName), upstream gap, `CreateInsert`/`CreateInsertFails`, `CreateRecheck`, `Bump` |
| `deleteProfile`, `getProfile` | `DeleteCommits`, `Bump`; `AnswerAtOnce` |
| `importProfiles` | `ImportStart`, `ImportFlush`*, `ImportEnds`/`ImportAborts`, `Bump` |
| `exportProfiles` | `ExportStart`, `ExportCount`, `ExportRows` (`Store.ListAll`) |
| `main`, `SeedProfiles` | `Restart` |
| `expirable.LRU` | `Evict`: expiry or eviction of any entry at any time |

A table row is its name. What a page contains is abstracted to the number of
commits (`epoch`) its COUNT and its page query saw, so any two versions of the
table are told apart, whatever the filter. `acked` and `bumps` are history:
the last acknowledged change, and the epoch at which each namespace began.
`raced` marks a cached body whose `Get` and `Set` used different namespaces.
The initial table is any set of names, no two equal up to case, as the seeder
leaves it. `Restart` ends the process at any moment and starts it again: the
cache, the namespace and all requests are gone, the table is not, and seed
names may come back by the seeder's count. `lost` is the last change of an
import that was given up, the one case in which a commit has no Bump. The
upstream calls of a create cannot fail it (external.go:64-99 return defaults
and no error), so after `CreateStart` only the INSERT decides.

### RefreshTokens

A token is a model value, its row the functions `owner`, `expires` and the set
`revoked`. `RefreshSelect`, `RefreshUpdate`, `RefreshUser` and `RefreshIssue`
are the four statements of `authRefresh`; `RefreshFails` is an error at any of
them, `Restart` a crash and a new start at any moment. `parent` and `root` are
history: which token a token replaced, and the login its chain began with.
`SerialSpec` is `Spec` restricted to clients that wait for an answer before
they present a token again. A token is random: it is never generated twice. A
logout that comes between the UPDATE and the INSERT of a renewal revokes
nothing more, and the renewal hands out a live successor: the refinement
permits that.

### RateLimiter, AuthRateLimit

`allow` holds a mutex and reads the clock inside it: one step, `Admit` or
`Refuse`. `Dropped` and `Kept` are its loop. `AuthRateLimit` extends the module:
each tier is one such step, under a key of `TierKeys`, and `between` holds the
requests past the first tier. Histories: each request between the tiers has its
place among those its path let through, `served` holds those that went on to
their handler, each with its place among those its IP and path let through, and
`turned` those the second tier refused. From the two places come the times at
which a request came and went on.

### BulkImport, ImportRows, ImportHistory

`Read…` actions are the iterations of the loop, in the order of its checks;
`Flush` and `FlushFails` the transaction; `Finish` and `Bump` the end. A record
has one `Cells` value per column: good, empty, bad, or `nan` for the text "NaN".
`Checks` lists the tests of `parseImportRow` in their order. A body either
stays readable or breaks for good.

`ImportRows` remembers the table before the first upload and, of each upload,
the rows `parseImportRow` let through. Only the property reads them: it says
what the table holds in terms of what was accepted, not of what was written.

`ProfileService` knows an import only as chunks of names, with a Bump at the
end. `ImportHistory` adds to the uploads of `BulkImport` the histories
`ProfileService` keeps (`epoch`, `acked`, `lost`, the epoch at which each
namespace began) and maps them to its requests: an upload that reads or flushes
is at "import", `Flush` is `ImportFlush` when it changes the table and no step
when it does not, a failed transaction or one row too many is `ImportAborts`.
So what `ProfileService` says of cache and table holds of the row loop.

### Accounts

`github_id` is UNIQUE and never changes, so it names the row and the subject of
a token. `GithubSelect`, then `GithubUpdate` or `GithubInsert`, then `Reread`
are the statements of `UpsertUserFromGithub`; `DirectFinds` or
`DirectFindsNone`, then `DirectUpdate` or `DirectInsert`, those of
`UpsertUserDirect`, which test logins and the callback's fallback use.
`RefreshReads` is the SELECT of a refresh. `ApiArrives` is the header and token
check, `AuthPasses` the one SELECT of `requireAuth` with the checks after it,
which look at the row that was read and not at the table. `Fails` ends any
request at any point: a refusal, or a statement's error, the UNIQUE violation
of a second first login among them. `SetActive` is an operator's UPDATE: no
code writes `is_active`. `Restart` keeps the table and loses the tokens if the
secret was ephemeral. Histories: `first` (the name a row was inserted with),
`reroled` (rows a direct login changed), `entitled` (requests whose account was
allowed at some moment since they came), `meddled` (requests whose row another
request re-roled meanwhile). Names are lower case, as the allow-list compares.

### WebLogin, OneTimeTicket

`waiting` is the map of verifiers. `AuthGithub` is `Set` with its sweep,
`AuthGithubCallback` pops the verifier and decides between the exchange and
the test account, `GithubAnswers`, `GithubRefuses` and `TimesOut` are the ends
of each of the two calls to GitHub, `Upserts` and `TestAccount` the statements
that end a login (taken apart in `Accounts`). A state is random: it is never
issued twice. The refinement maps the map's entries that are not too old to
the live tickets: time and restarts are `Lapse`.

### ListQuery

Pure operators for each function (`Accepts` and `Filter` for `parseListQuery`,
`Canonical` for the key, `Matching`, `Before`, `Offset`, `Rows` for the SQL,
`TotalPages`, `HasNext`, `LinkTo` for the links), and a state machine of three
variables: the table, one cached body and the last answer. A request fills the
cache or hits it; following one body, which may be any of those the cache
holds, is enough to compare what a request gets with what it would have
computed. Writes drop the body at once: their races are `ProfileService`'s.
Integers have a width (`MaxInt`), probabilities a range (`Certain` stands for 1)
and a resolution below the six decimals of the key (`Kept`); `NaN` passes the
test of the range and matches no row, since SQLite binds it as NULL; times a second and the digits of a fraction.

### NLSearch

A text is what the regular expressions find in it. `Parses` gives the filters
it may be parsed to, one for each order of the three Go maps; `SortByLenDesc`
is the code's insertion sort, `FirstMeaning` its first match, `WrittenMin` to
`MaxAge` the bounds in the order in which the scanners set, override and fill
them in. The handler is followed through one cached body as in `ListQuery`;
`answer` keeps the text, the filter and the text in the links of the last page.
A number too large for an int is clamped in a span and dropped after "over" or
"under" (search.go:100-131); `NoAgeLetIn` excepts texts with one, and texts
that give an end twice, where one scanner overrides another. A name of a country has one code: `lowerToCode` is filled in the order of a map,
but no two of the 65 countries in `profiles_seed.json` share a name.

## 3. Runs

Instances and why their bounds suffice:

| Run | Instance | Distinct states | Shows |
|---|---|---|---|
| `ProfileServiceSafety` | 2 requests, 2 names equal up to case, 1 of them seeded, 1 key, 2 commits | 380 k | `FreshUnlessRaced`, `AckedWritesBumped`, `UnbumpedOnlyByAbort` |
| `ProfileServiceLiveness` | same, 1 commit (more by creates under way) | 51 k | `Answered`, `StalenessEnds` |
| `RefreshSerial` | 3 tokens, 2 requests, 2 users, clock to 2, serial clients | 128 k | `OneUse`, `OneLivePerSession`, `RotationKeepsSession`, `ImplementsRotation` |
| `AuthRateLimit` | 2 IPs, 1 path, 2 requests between the tiers, limit 2, window 2, clock to 4 | 887 k | `WindowRespected`, `RefusalsEarned`, `ServedWithinLimit`, `SecondTierNeedsDelay` |
| `ImportRows` | 2 uploads, 2 names, 4 kinds of row (two valid, one invalid, one with "NaN"), chunk 2, ceiling 3, body 4 | 3.3 M | `RowsCounted`, `CountsAddUp`, `WritesUnderCeiling`, `TableHoldsWhatWasAccepted` |
| `ImportHistory` | 2 uploads, 2 valid rows, the same bounds, fair | 326 k | `UploadsAreImports`, `AnsweredUnlessBroken` |
| `Accounts` | 1 GitHub account, 2 names, one on the allow-list and one direct logins ask for, 2 requests | 648 k | `OnlyTheEntitledAct`, `RolesAsGranted`, `AnsweredAsAsked` |
| `WebLogin` | 2 states, 2 requests, TTL 1, clock to 4 | 42 k | `SweptAtSet`, `VerifiersAreTickets`, `Answered` |
| `ListQuery` | 4 profiles (equal ages, fractions that begin one another, probabilities that round alike), some 230 requests, 4-bit int, limits to 3 | 7 k | `HitsAreOwn`, `NextVisitsEachRowOnce`, `PagesInPlace`, `TimeOrderedUnlessPrefix` |
| `NLSearch` | some 100 texts, a tie in each map, ages and bounds on both sides of one another and of the largest int | 10 k | `LinksLeadOn`, `NoAgeLeftOut`, `NoAgeLetIn`, `CountryIsNamed` |

Each module's `TypeOK` is checked in one of its runs, but for `BulkImport`'s,
which is only proved (`TypeCorrect`).

The race of the cache needs one reader that fills, one writer, and a later
reader: two requests, one of them reused. Two commits let an old page survive
one Bump and meet a second. A session of three tokens has a login and two
renewals, or two renewals of one token. A window of 2 and a clock to 4 gives
two disjoint windows and every overlap; a limit of 2 lets a key be partly
full. A key's hits depend on no other path's, so one path is enough, with two
IPs to share it and two requests to be overtaken between the tiers. A ceiling
that is no multiple of the chunk size leaves a partial chunk at the ceiling,
and one body longer than it exercises the 413. Rows of every way to fail differ
in nothing but their reason, so one invalid row stands for them in the runs;
`NoRowLost` and `CountsAreOfNames` are proved for all. One GitHub account that
may be renamed to either name meets the allow-list, and the name by which a
direct login finds its row; two requests let any statement fall between two of
another. A TTL of 1 and a clock to 4 let a verifier expire before, at and after
a Set or a callback. Four rows and limits of 1 to 3 give full, partial and
empty pages; a 4-bit int lets `(page - 1) * limit` wrap to a negative number.
All bounds are CONSTANTS: `MaxCommits`, `MaxTime`, `MaxBody`, and the sizes of
the sets. The theorems of section 4 hold for every value of them.

Deadlock is checked except in `ImportRows` and `ImportHistory`, which stop once
every upload is answered.

`ImplementsRotation`, `OneUse` and `OneLivePerSession` are checked under
`SerialSpec`, because they are false of concurrent presentations of one token
(`OneUseConcurrent` below).
`RotationKeepsSession` holds for all clients; the
theorem `SessionKept` proves it of `Spec`.

Two runs end in a violation of what the documentation says:

- `ReadsSeeAckedWrites` (SOLUTION.md:61-63, admin actions immediately visible):
  a page read before a write is stored after its Bump, under the new namespace;
- `OneUseConcurrent` (README.md:222-223, one refresh token, one use), on the
  instance of `RefreshSerial` with one user and any clients: two requests with
  one token both pass the SELECT (users.go:148-157) before either UPDATE (162),
  and both are given a new pair.

Other differences between the code and what is written about it, met while
modelling. Those with a property are allowed for in it, by name, so the
property also says how far they reach:

- an import that aborts after a chunk does not Bump (bulk_import.go:118),
  against cache.go:69-70: `UnbumpedOnlyByAbort`;
- two rows may differ only in case (handlers.go:213), against store.go:81 and
  STAGE4_DESIGN.txt:504-505;
- chunks are committed before a 413 (bulk_import.go:101), against
  SOLUTION.md:143, 191: `WritesUnderCeiling`;
- links of a page are cached with it (handlers.go:281), against its comment at
  276-279: `NextVisitsEachRowOnce`, `LinksLeadOn`;
- a text whose matches tie in length parses at random (search.go:208), against
  "deterministic" in README.md:274: `LinksLeadOn`;
- only the first word of two letters is tried as a country code, so "young
  males in ng" (SOLUTION.md:46) lists India (search.go:180): `CountryIsNamed`;
- the two phrasings of SOLUTION.md:99-105 (also normalize.go:16-19) do not
  parse to one filter: "between ages 20 and 45", "Nigerian" and the en dash
  match nothing;
- a page so far out that `(page - 1) * limit` overflows shows the first rows
  (store.go:338): `PagesInPlace`; filters that differ past six decimals share
  pages (normalize.go:88): `HitsAreOwn`; created_at sorts as text
  (store.go:344): `TimeOrderedUnlessPrefix`;
- a restart restores deleted seed profiles while the table has fewer rows than
  the seed (seed.go:45), against README.md:416-417;
- upstream failures are stored as "unknown", 0 and "XX"; the 502 of
  README.md:367 cannot come from a create (external.go:64-99). BLOG.md:204
  describes the change;
- a callback whose exchange fails logs the browser in to a test account, by
  default an admin, over the cookies it had (auth.go:154-161), as
  BLOG.md:138-153 says; a test code spends the state all the same;
- `is_active` blocks refreshes by authRefresh's own check (auth.go:359), not
  "via the requireAuth path" of README.md:225;
- the error of the UPDATE behind a logout is dropped (auth.go:388) and the
  answer is 200, against README.md:161;
- the limit of `/auth/*` is per path before it is per IP (middleware.go:174),
  against README.md:373; BLOG.md:161 explains the path counter;
- records the CSV reader cannot parse are counted past the check of the
  ceiling (bulk_import.go:93-99), against the comment at 24-26;
- "NaN" passes as a probability (bulk_import.go:246, 254), SQLite stores it as
  NULL, the NOT NULL of the column refuses it, and the row is reported as a
  duplicate of a name the table may not hold, against SOLUTION.md:179;
- an empty gender or country is reported as `invalid_gender` or
  `invalid_country_id`, against SOLUTION.md:173;
- with `FieldsPerRecord = -1` a wrong column count is never `malformed_row`,
  nor is a byte that is not UTF-8, against SOLUTION.md:194-195;
- `issueFallbackTokens` gives the callback's test code the long TTLs, against
  the comment at auth.go:317-318;
- "NaN" passes parseProb as a minimum probability as well (handlers.go:539) and
  gives an empty list: `Accepts`, `Matching`;
- the pragmas of `OpenStore` run on one connection of the pool, so the
  `busy_timeout` holds on that one only.

### Fairness

`Spec` alone has none; it is used for safety. `FairSpec` of `ProfileService`
assumes weak fairness of each request's own steps (a goroutine keeps running,
an import's body ends) and of `Evict` per key and namespace (the LRU expires
an entry five minutes after it was added, whatever is read). New requests are
under no fairness. `UploadsGoOn` of `BulkImport` assumes weak fairness of a
started upload's steps: the client keeps sending (`FairHistorySpec`). Nothing in the code enforces
that (`main.go` sets `ReadHeaderTimeout` only), so a silent client may hold an
upload open, and after a failed read the loop need not end:
`AnsweredUnlessBroken` excludes those uploads and promises nothing of them.
`FairSpec` of `WebLogin` assumes weak fairness of `Serve` only: the server's own
statements and the timeout of `httpClient` (20 seconds, external.go:12). GitHub
is under no fairness: it may answer, refuse or stay silent for ever.
`Accounts`, `ListQuery` and `NLSearch` have safety properties only: what they
add to the liveness of a request is a bounded number of its own steps.

## 4. Proofs

All by TLAPS, for every value of the constants that meets the modules' named
assumptions: key and name sets not empty, numbers natural, limits, windows and
chunk sizes positive, `NoToken`, `Pending`, `Closed` no tokens, `AnyIp` no IP,
GitHub ids distinct from names, texts within what the expressions can find,
the keys of the tiers among those of the limiter, finitely many names to
import (SQLite bounds a text), finitely many profiles with a COUNT that fits an
int, finite maps of aliases and countries without an
empty code (`SeedCountryMap` drops those). TLC evaluates them in every run.

- **ProfileServiceProofs.** `TypeCorrect`, `AckedBehindBump`,
  `StaleOnlyIfRaced`, `LastChangeBumped`. `FreshUnlessRaced` speaks of answers
  only. The inductive `IInv` follows a read through its handler: the namespace
  its `Get` mixed in began no earlier than the last change acknowledged before
  the request, and what the COUNT and the page saw is no older than that
  namespace; an entry of the cache keeps that bound on the namespace of its
  filler's `Get`. A hit with equal namespaces is therefore fresh. `FrameStep`
  is the lemma for the many steps that touch one request only.
  `LastChangeKnown` adds who answers for the last change: a Bump, an aborted
  import, or a request still on its way to its Bump.
- **RefreshTokensProofs.** `TypeCorrect`, `SessionKept` from `Inv` (past its
  UPDATE a refresh holds a revoked token; chains stay among issued tokens).
  `SerialOneUse`, `SerialOneLive` and `SerialImplementsRotation` from `SInv`:
  one renewal per session at a time, the live token of a session under renewal
  is the one presented, and it has no successor yet. The refinement maps each
  session to its live token, to `Pending` during a renewal, else to `Closed`.
- **RateLimitProofs.** `TypeCorrect`, `AtMostLimit`, `NoneRefusedEarly` from
  `LimInv`: the list kept for a key is the tail of all its admitted hits, and
  what was dropped is out of every window to come. `FewServedOfAPath` and
  `PathRefusesFirst` from `TierInv`: no two requests have one place in the
  history of a path, or of an IP on it, and each place of an IP belongs to a
  request that was served. For the first, requests served in a window that came
  in it have places of their path in the window, and there are no more than
  Limit of those. For the second (`HeldUp`), were none of the requests that
  fill the window of an IP held up, they and the refused one would have Limit
  and one more places of the path in one window. `TiersKeepWindows` carries
  `AtMostLimit` and `NoneRefusedEarly` over to the tiers.
- **BulkImportProofs.** `TypeCorrect`, `NoRowLost`, `CeilingOnWrites` from
  `BulkInv`, which says of each upload which of its counts, chunk and location
  go together. `TableIsOfAcceptedRows` from `RowsInv`: what waits in a chunk is
  the end of what was accepted (`Waits`), and what was settled before it is
  whole chunks until the last flush (`WholeChunks`). `CountsAreOfNames` follows with
  `SumInv`: each upload owns as many names of the table as it counts, no two
  own the same, and a flush gives its upload what the transaction inserted.
  `EveryUploadIsAnImport` is the refinement of `ProfileService`, one `Mapped…`
  lemma per action, from `HistoryInv`: an upload has changed the table exactly
  when its `Inserted` is positive, which is what the code asks before it bumps,
  and there are no more such changes than names in the table.
  `UploadsBumped` and `UploadsAckedBumped` say of the uploads what
  `UnbumpedOnlyByAbort` and `AckedWritesBumped` say of `ProfileService`, from
  `BumpInv`.
- **AccountsProofs.** `TypeCorrect`, `HandlersEntitled`, `RolesGrantedOnce`,
  `DirectLoginsAnswered` from one `IInv`: what each location of a login knows
  of its row (`LoginKnows`: a row under update exists, a direct login that
  waits for its token has re-roled the row or inserted it as asked, or was
  meddled with), together with the properties themselves. `entitled` is
  renewed in every step from the table, so the proof of `OnlyTheEntitledAct`
  has to find, for a handler that starts, the moment it was allowed: the read.
- **WebLoginProofs.** `TypeCorrect`, `MapIsSwept`, and
  `StoreImplementsTickets`: a callback that gets a verifier is `Redeem`, a Set
  is `Issue`, whatever sweeps, ticks and restarts take away is `Lapse`.
- **ListQueryProofs.** `TypeCorrect`, `HitsGiveOwn`, `PagesAtTheirPlaces`,
  `WalkShowsEachRowOnce`, `TextFollowsTime`, with `TypeOK` (a cached body is
  what its request computes on the table as it is) as the inductive invariant.
  The argument is about the operators. `TextBefore` is a strict order in which
  only equal times tie (`ColumnOrder`), so `Before` is total (`TotalOrder`) and
  no two rows have one rank (`RankFollows`). Distinct ranks below the COUNT
  reach it (`RanksReach`, by the pigeonhole principle), and each rank is on one
  page (`OnePage`, `PageCount`).
- **NLSearchProofs.** `TypeCorrect`, `NoAgeIsLeftOut`, `NoAgeIsLetIn`,
  `LinksLeadOnThroughTheList`, `ListsAreOfNamedCountries`: for any tables of
  aliases, any texts and any numbers in them. The argument about ages is by
  cases on the scanner that set each end; `ParseBounds` says that the order of
  the maps does not touch the bounds. `MovedLeftIs` and `SortIs` prove the
  insertion sort correct, `FirstIs` that the first match is one of the longest
  words found, so `ParsesAgree`: without a tie all orders parse alike. `Inv`
  adds that the text in a page's links parses to the page's filter.

Every safety and action property and every refinement that a run checks is a
theorem. `LeastElement`, and `Reaches` from it, stand in for induction: they
speak of sets of numbers, and follow from the well-foundedness of strict
inclusion among finite sets, so no theorem with an operator for a parameter is
needed. The sort is a recursive function for that reason, its first sequences
are shown to exist and to be sorted one longer at a time.

Model-checked only: what holds under fairness (`Answered` of both modules,
`StalenessEnds`, `AnsweredUnlessBroken`), which TLAPS does not reach.

## 5. Not modelled, and why

- Response bodies, logging, CORS and cookies keep no state that a later
  request depends on; the CSRF token is one comparison within a request. The
  export's CSV text is left out, its statements are not.
- Upstream answers: the calls are the gap between the statements of a create,
  and what they bring is data no property here depends on.
- The regular expressions of `search.go`: a text is what they find in it, so
  nothing is said of which texts they match. Some of what they miss is in the
  list of section 3.
- Cache keys are 8 bytes of SHA-256 (normalize.go:83); distinct canonical
  forms are taken to have distinct keys, distinct random states and tokens to
  be distinct.
- Memory: growth of the limiter's map is not a property of a finite model.
- SQLite itself is taken at its word: a statement is atomic, a transaction all
  or nothing, a commit survives a crash.
- `main.go`'s `Shutdown` is a `Restart`: it may come at any moment, so the ten
  seconds it grants to requests only make some of these moments rarer.

## 6. Plan

Done: `ProfileService` with exports and restarts, `RefreshTokens`,
`RateLimiter`, `AuthRateLimit`, `BulkImport`, `Accounts`, `WebLogin`,
`ListQuery`, `NLSearch`, with their runs and proofs, `BulkImport` as a
refinement of `ProfileService`, and what uploads side by side leave in the
table (`ImportRows`).

Left, in this order:

1. `Accounts` composed with `RefreshTokens`: a disabled account's sessions
   under renewals and logouts over one clock.
2. A walk along `next` while rows are inserted and deleted between the pages:
   what OFFSET then skips or repeats.
