--------------------------- MODULE ProfileService ---------------------------
(***************************************************************************)
(* The profile API: the handlers of handlers.go and bulk_import.go run as  *)
(* goroutines over one SQLite table (store.go) and one in-process query    *)
(* cache (cache.go).                                                       *)
(*                                                                         *)
(* Every SQL statement and every cache call is one step; what lies between *)
(* two of them touches no shared state.  The three upstream APIs that a    *)
(* create consults fall in the gap between its SELECT and its INSERT.      *)
(*                                                                         *)
(* Data.  A row is its name.  What a list request computed is abstracted   *)
(* to the version of the table (number of committed changes) its COUNT and *)
(* its page query saw: any filter may tell any two versions apart.         *)
(***************************************************************************)
EXTENDS Integers, Sequences, FiniteSets

CONSTANTS
    Reqs,        \* request goroutines
    Names,       \* profile names, as stored
    Fold,        \* LOWER(name)
    Keys,        \* cache keys: "list"/"search" prefix and canonical filter
    Seed,        \* names in profiles_seed.json
    MaxCommits   \* bound: no write starts once this many have committed

ASSUME FoldAssumption == Fold \in [Names -> Names]
ASSUME ConstantsNonEmpty == Keys # {} /\ Names # {}
ASSUME SeedAssumption == Seed \subseteq Names
ASSUME MaxCommitsAssumption == MaxCommits \in Nat

VARIABLES
    profiles,    \* names present in table profiles
    namespace,   \* queryCache.namespace
    cache,       \* queryCache.store
    pc,          \* where each request stands in its handler
    call,        \* the locals of each request
    reply,       \* the last response of each request
    epoch,       \* history: number of committed changes of the table
    acked,       \* history: last change whose writer was told of success
    lost,        \* history: last change of an import that was given up
    bumps        \* history: bumps[n] is the epoch when namespace n began

vars == <<profiles, namespace, cache, pc, call, reply, epoch, acked, lost, bumps>>

-----------------------------------------------------------------------------
PcValues == {"idle", "lookup", "count", "rows", "set", "add",
             "exportCount", "exportRows", "insert", "recheck", "bump", "import"}

Entry == [key : Keys, ns : Nat, getNs : Nat, total : Nat, rows : Nat]

Statuses == {0, 200, 201, 204, 404, 413, 500}

(* key, getNs (the namespace mixed in by Get), total, rows, setNs (the one *)
(* mixed in by Set): locals of a read.  name: local of a create.  mine:    *)
(* the last change this request committed, 0 if none; ok: the status it    *)
(* answers success with.  since: history, the changes already acknowledged *)
(* when the request began.                                                 *)
Call == [key : Keys, name : Names, getNs : Nat, setNs : Nat, total : Nat,
         rows : Nat, mine : Nat, ok : Statuses, since : Nat]

(* status 0: no response yet; hit: X-Cache HIT; raced: the cached body was *)
(* written under another namespace than the one its filler had looked up.  *)
Reply == [status : Statuses, page : BOOLEAN,
          hit : BOOLEAN, raced : BOOLEAN, total : Nat, rows : Nat, since : Nat]

Status(s) == [status |-> s, page |-> FALSE, hit |-> FALSE, raced |-> FALSE,
              total |-> 0, rows |-> 0, since |-> 0]

NoCall == [key |-> CHOOSE k \in Keys : TRUE, name |-> CHOOSE n \in Names : TRUE,
           getNs |-> 0, setNs |-> 0, total |-> 0, rows |-> 0,
           mine |-> 0, ok |-> 0, since |-> 0]

Larger(a, b) == IF a > b THEN a ELSE b

(* GetByName: WHERE LOWER(name) = LOWER(?). *)
GetByName(n) == {m \in profiles : Fold[m] = Fold[n]}

(* The table is as SeedProfiles leaves it: no two names differ only in case. *)
Init ==
    /\ profiles \in {s \in SUBSET Names : \A m, n \in s : Fold[m] = Fold[n] => m = n}
    /\ namespace = 1
    /\ cache = {}
    /\ pc = [r \in Reqs |-> "idle"]
    /\ call = [r \in Reqs |-> NoCall]
    /\ reply = [r \in Reqs |-> Status(0)]
    /\ epoch = 0
    /\ acked = 0
    /\ lost = 0
    /\ bumps = <<0>>

-----------------------------------------------------------------------------
(* Steps shared by the handlers. *)

Goto(r, label) == pc' = [pc EXCEPT ![r] = label]

Respond(r, resp) ==
    /\ Goto(r, "idle")
    /\ call' = [call EXCEPT ![r] = NoCall]
    /\ reply' = [reply EXCEPT ![r] = resp]

NoWrite == UNCHANGED <<profiles, epoch, lost>>
NoCacheChange == UNCHANGED <<namespace, cache, bumps>>

(* A statement returns an error other than errNotFound: 500. *)
FailsWith500(r) ==
    /\ Respond(r, Status(500))
    /\ NoWrite /\ NoCacheChange /\ UNCHANGED acked

(* A transaction replaces the table by `next`. *)
Commit(next) ==
    /\ profiles' = next
    /\ epoch' = epoch + 1
    /\ UNCHANGED lost

-----------------------------------------------------------------------------
(* listProfiles and searchProfiles: Get, then on a miss List and Set. *)

(* queryCache.Get mixes the current namespace into the key ... *)
ListStart(r, k) ==
    /\ pc[r] = "idle"
    /\ Goto(r, "lookup")
    /\ call' = [call EXCEPT ![r] = [NoCall EXCEPT
                   !.key = k, !.getNs = namespace, !.since = acked]]
    /\ reply' = [reply EXCEPT ![r] = Status(0)]
    /\ NoWrite /\ NoCacheChange /\ UNCHANGED acked

(* ... and asks the LRU for it: a hit is the response, *)
LookupHit(r, e) ==
    /\ pc[r] = "lookup"
    /\ e \in cache
    /\ e.key = call[r].key
    /\ e.ns = call[r].getNs
    /\ Respond(r, [status |-> 200, page |-> TRUE, hit |-> TRUE,
                   raced |-> e.getNs # e.ns, total |-> e.total,
                   rows |-> e.rows, since |-> call[r].since])
    /\ NoWrite /\ NoCacheChange /\ UNCHANGED acked

(* a miss goes on to the store. *)
LookupMiss(r) ==
    /\ pc[r] = "lookup"
    /\ ~ \E e \in cache : e.key = call[r].key /\ e.ns = call[r].getNs
    /\ Goto(r, "count")
    /\ NoWrite /\ NoCacheChange /\ UNCHANGED <<call, reply, acked>>

(* Store.List, first statement: SELECT COUNT, a snapshot of its own. *)
ListCount(r) ==
    /\ pc[r] = "count"
    /\ Goto(r, "rows")
    /\ call' = [call EXCEPT ![r].total = epoch]
    /\ NoWrite /\ NoCacheChange /\ UNCHANGED <<reply, acked>>

(* Store.List, second statement: the page, outside any transaction. *)
ListRows(r) ==
    /\ pc[r] = "rows"
    /\ Goto(r, "set")
    /\ call' = [call EXCEPT ![r].rows = epoch]
    /\ NoWrite /\ NoCacheChange /\ UNCHANGED <<reply, acked>>

(* queryCache.Set loads the namespace again ... *)
SetVersioned(r) ==
    /\ pc[r] = "set"
    /\ Goto(r, "add")
    /\ call' = [call EXCEPT ![r].setNs = namespace]
    /\ NoWrite /\ NoCacheChange /\ UNCHANGED <<reply, acked>>

(* mutant: the LRU keeps the old body too. *)
LruAddKeepsOld(e) == cache \cup {e}

LruAdd(e) == {f \in cache : f.key # e.key \/ f.ns # e.ns} \cup {e}

(* ... adds the body, in place of one stored under the same key, and the   *)
(* response goes out.                                                      *)
SetAdd(r) ==
    LET c == call[r]
        e == [key |-> c.key, ns |-> c.setNs, getNs |-> c.getNs,
              total |-> c.total, rows |-> c.rows]
    IN  /\ pc[r] = "add"
        /\ cache' = LruAdd(e)
        /\ Respond(r, [status |-> 200, page |-> TRUE, hit |-> FALSE,
                       raced |-> c.getNs # c.setNs, total |-> c.total,
                       rows |-> c.rows, since |-> c.since])
        /\ NoWrite /\ UNCHANGED <<namespace, bumps, acked>>

(* exportProfiles: ListAll makes the same two statements, without the cache. *)
ExportStart(r) ==
    /\ pc[r] = "idle"
    /\ Goto(r, "exportCount")
    /\ call' = [call EXCEPT ![r] = [NoCall EXCEPT !.since = acked]]
    /\ reply' = [reply EXCEPT ![r] = Status(0)]
    /\ NoWrite /\ NoCacheChange /\ UNCHANGED acked

ExportCount(r) ==
    /\ pc[r] = "exportCount"
    /\ Goto(r, "exportRows")
    /\ call' = [call EXCEPT ![r].total = epoch]
    /\ NoWrite /\ NoCacheChange /\ UNCHANGED <<reply, acked>>

ExportRows(r) ==
    /\ pc[r] = "exportRows"
    /\ Respond(r, [status |-> 200, page |-> TRUE, hit |-> FALSE, raced |-> FALSE,
                   total |-> call[r].total, rows |-> epoch, since |-> call[r].since])
    /\ NoWrite /\ NoCacheChange /\ UNCHANGED acked

ListFails(r) ==
    /\ pc[r] \in {"count", "rows", "exportCount", "exportRows"}
    /\ FailsWith500(r)

-----------------------------------------------------------------------------
(* createProfile: GetByName, the upstream calls, Insert, Bump. *)

(* An existing name, whatever its case, is answered with 200 at once. *)
CreateFindsExisting(r, n) ==
    /\ pc[r] = "idle"
    /\ GetByName(n) # {}
    /\ Respond(r, Status(200))
    /\ NoWrite /\ NoCacheChange /\ UNCHANGED acked

(* The upstream calls that follow never refuse the create: what fails or   *)
(* times out is stored as "unknown", 0 or "XX".                            *)
CreateStart(r, n) ==
    /\ pc[r] = "idle"
    /\ epoch < MaxCommits
    /\ GetByName(n) = {}
    /\ Goto(r, "insert")
    /\ call' = [call EXCEPT ![r] = [NoCall EXCEPT !.name = n, !.ok = 201]]
    /\ reply' = [reply EXCEPT ![r] = Status(0)]
    /\ NoWrite /\ NoCacheChange /\ UNCHANGED acked

(* The UNIQUE constraint of the column compares names exactly. *)
CreateInsert(r) ==
    LET n == call[r].name
    IN  /\ pc[r] = "insert"
        /\ n \notin profiles
        /\ Commit(profiles \cup {n})
        /\ Goto(r, "bump")
        /\ call' = [call EXCEPT ![r].mine = epoch + 1]
        /\ NoCacheChange /\ UNCHANGED <<reply, acked>>

(* mutant: a failed Insert is tried again until it succeeds. *)
InsertTriesAgain(r) == pc[r] = "insert" /\ UNCHANGED vars

(* Insert fails on the constraint, or for any other reason. *)
CreateInsertFails(r) ==
    /\ pc[r] = "insert"
    /\ Goto(r, "recheck")
    /\ NoWrite /\ NoCacheChange /\ UNCHANGED <<call, reply, acked>>

CreateRecheck(r) ==
    /\ pc[r] = "recheck"
    /\ \/ GetByName(call[r].name) # {} /\ Respond(r, Status(200))
       \/ Respond(r, Status(500))
    /\ NoWrite /\ NoCacheChange /\ UNCHANGED acked

-----------------------------------------------------------------------------
(* deleteProfile: one DELETE statement, then Bump. *)

(* mutant: success is answered without the Bump. *)
DeleteForgetsBump(r, n) ==
    /\ pc[r] = "idle" /\ epoch < MaxCommits /\ n \in profiles
    /\ Commit(profiles \ {n})
    /\ acked' = epoch + 1
    /\ Respond(r, Status(204))
    /\ NoCacheChange

DeleteCommits(r, n) ==
    /\ pc[r] = "idle"
    /\ epoch < MaxCommits
    /\ n \in profiles
    /\ Commit(profiles \ {n})
    /\ Goto(r, "bump")
    /\ call' = [call EXCEPT ![r] = [NoCall EXCEPT !.mine = epoch + 1, !.ok = 204]]
    /\ reply' = [reply EXCEPT ![r] = Status(0)]
    /\ NoCacheChange /\ UNCHANGED acked

(* What is answered without a change: getProfile, a refused body or query, *)
(* a delete of an id no row has, a first statement that fails.  404 stands *)
(* for every 4xx.                                                          *)
AnswerAtOnce(r) ==
    /\ pc[r] = "idle"
    /\ \E s \in {200, 404, 500} : Respond(r, Status(s))
    /\ NoWrite /\ NoCacheChange /\ UNCHANGED acked

-----------------------------------------------------------------------------
(* importProfiles: one transaction per chunk, one Bump at the end. *)

ImportStart(r) ==
    /\ pc[r] = "idle"
    /\ epoch < MaxCommits
    /\ Goto(r, "import")
    /\ call' = [call EXCEPT ![r] = [NoCall EXCEPT !.ok = 200]]
    /\ reply' = [reply EXCEPT ![r] = Status(0)]
    /\ NoWrite /\ NoCacheChange /\ UNCHANGED acked

(* BulkInsertIgnore skips the names already there, by exact comparison; a  *)
(* chunk of duplicates only changes nothing.                               *)
ImportFlush(r, chunk) ==
    /\ pc[r] = "import"
    /\ epoch < MaxCommits
    /\ ~ chunk \subseteq profiles
    /\ Commit(profiles \cup chunk)
    /\ call' = [call EXCEPT ![r].mine = epoch + 1]
    /\ NoCacheChange /\ UNCHANGED <<pc, reply, acked>>

(* A failed flush or one row too many ends the import there and then. *)
ImportAborts(r) ==
    /\ pc[r] = "import"
    /\ \E s \in {413, 500} : Respond(r, Status(s))
    /\ lost' = Larger(lost, call[r].mine)
    /\ NoCacheChange /\ UNCHANGED <<profiles, epoch, acked>>

(* mutant: an import that comes to its end does not Bump. *)
ImportEndsUnbumped(r) ==
    /\ pc[r] = "import"
    /\ Respond(r, Status(200))
    /\ NoWrite /\ NoCacheChange /\ UNCHANGED acked

(* if summary.Inserted > 0 { Bump }, then 200. *)
ImportEnds(r) ==
    /\ pc[r] = "import"
    /\ IF call[r].mine > 0
         THEN Goto(r, "bump") /\ UNCHANGED <<call, reply>>
         ELSE Respond(r, Status(200))
    /\ NoWrite /\ NoCacheChange /\ UNCHANGED acked

-----------------------------------------------------------------------------
(* queryCache.Bump; the success response of the write follows at once. *)
Bump(r) ==
    /\ pc[r] = "bump"
    /\ namespace' = namespace + 1
    /\ bumps' = Append(bumps, epoch)
    /\ acked' = Larger(acked, call[r].mine)
    /\ Respond(r, Status(call[r].ok))
    /\ NoWrite /\ UNCHANGED cache

(* mutant: entries have no TTL, only those of past namespaces are dropped. *)
EvictPastOnly(k, n) ==
    /\ n < namespace /\ \E e \in cache : e.key = k /\ e.ns = n
    /\ cache' = {e \in cache : e.key # k \/ e.ns # n}
    /\ UNCHANGED <<profiles, namespace, pc, call, reply, epoch, acked, lost, bumps>>

(* The LRU drops an entry whose TTL is over, or the oldest one when full. *)
Evict(k, n) ==
    /\ \E e \in cache : e.key = k /\ e.ns = n
    /\ cache' = {e \in cache : e.key # k \/ e.ns # n}
    /\ UNCHANGED <<profiles, namespace, pc, call, reply, epoch, acked, lost, bumps>>

-----------------------------------------------------------------------------
(* mutant: the LRU outlives the process, its namespace does not. *)
RestartKeepsCache ==
    /\ \/ Cardinality(profiles) >= Cardinality(Seed) /\ NoWrite
       \/ Seed \subseteq profiles /\ NoWrite
       \/ ~ Seed \subseteq profiles /\ epoch < MaxCommits /\ Commit(profiles \cup Seed)
    /\ namespace' = 1
    /\ bumps' = <<epoch'>>
    /\ pc' = [r \in Reqs |-> "idle"]
    /\ call' = [r \in Reqs |-> NoCall]
    /\ reply' = [r \in Reqs |-> Status(0)]
    /\ UNCHANGED <<cache, acked>>

(* The process ends, at a signal or by a crash, and starts again on the    *)
(* same file: requests, cache and namespace are gone.  SeedProfiles leaves *)
(* a table with as many rows as there are seed names as it is (unless the  *)
(* count fails), and inserts the missing seed names otherwise, those that  *)
(* were deleted among them.                                                *)
Restart ==
    /\ \/ Cardinality(profiles) >= Cardinality(Seed) /\ NoWrite
       \/ Seed \subseteq profiles /\ NoWrite
       \/ ~ Seed \subseteq profiles /\ epoch < MaxCommits /\ Commit(profiles \cup Seed)
    /\ cache' = {}
    /\ namespace' = 1
    /\ bumps' = <<epoch'>>
    /\ pc' = [r \in Reqs |-> "idle"]
    /\ call' = [r \in Reqs |-> NoCall]
    /\ reply' = [r \in Reqs |-> Status(0)]
    /\ UNCHANGED acked

Arrive(r) ==
    \/ \E k \in Keys : ListStart(r, k)
    \/ ExportStart(r)
    \/ \E n \in Names : \/ CreateFindsExisting(r, n)
                        \/ CreateStart(r, n)
                        \/ DeleteCommits(r, n)
    \/ AnswerAtOnce(r)
    \/ ImportStart(r)

Handle(r) ==
    \/ \E e \in cache : LookupHit(r, e)
    \/ LookupMiss(r)
    \/ ListCount(r)
    \/ ListRows(r)
    \/ SetVersioned(r)
    \/ SetAdd(r)
    \/ ExportCount(r)
    \/ ExportRows(r)
    \/ ListFails(r)
    \/ CreateInsert(r)
    \/ CreateInsertFails(r)
    \/ CreateRecheck(r)
    \/ \E chunk \in SUBSET Names : ImportFlush(r, chunk)
    \/ ImportAborts(r)
    \/ ImportEnds(r)
    \/ Bump(r)

Next ==
    \/ \E r \in Reqs : Arrive(r) \/ Handle(r)
    \/ \E k \in Keys, n \in 1..namespace : Evict(k, n)
    \/ Restart

(* A goroutine keeps running, an uploaded body ends, an entry expires.     *)
(* Creates under way when the bound is reached may exceed it by one each.  *)
Fairness ==
    /\ \A r \in Reqs : WF_vars(Handle(r))
    /\ \A k \in Keys, n \in 1..MaxCommits + Cardinality(Reqs) : WF_vars(Evict(k, n))

Spec == Init /\ [][Next]_vars
FairSpec == Spec /\ Fairness

-----------------------------------------------------------------------------
(* Every variable keeps its type, and the LRU holds one body per key. *)
TypeOK ==
    /\ profiles \in SUBSET Names
    /\ namespace \in Nat \ {0}
    /\ cache \in SUBSET Entry
    /\ \A e, f \in cache : e.key = f.key /\ e.ns = f.ns => e = f
    /\ pc \in [Reqs -> PcValues]
    /\ call \in [Reqs -> Call]
    /\ reply \in [Reqs -> Reply]
    /\ epoch \in Nat
    /\ acked \in Nat
    /\ lost \in Nat
    /\ bumps \in Seq(Nat)
    /\ Len(bumps) = namespace

(* A page that misses a change acknowledged before the request began can   *)
(* only be a cache hit, on a body that was computed across a Bump: its     *)
(* filler's Get and Set mixed different namespaces into the key            *)
(* (queryCache.versioned, called by each).  No other interleaving of reads *)
(* with creates, deletes and imports serves a stale page.                  *)
FreshUnlessRaced ==
    \A r \in Reqs :
        reply[r].page /\ (reply[r].total < reply[r].since \/ reply[r].rows < reply[r].since)
            => reply[r].hit /\ reply[r].raced

(* A change whose writer was answered with success is behind a Bump: the   *)
(* namespace a later request mixes in began after that change.             *)
AckedWritesBumped == acked <= bumps[namespace]

(* SOLUTION.md:61: "Writes invalidate the entire cache so admin actions    *)
(* are immediately visible": no page misses an acknowledged change.        *)
ReadsSeeAckedWrites ==
    \A r \in Reqs : reply[r].page => reply[r].rows >= reply[r].since

(* cache.go:69: Bump is "called after admin writes (POST/DELETE) and after *)
(* CSV imports".  With no request in flight the last change is without a   *)
(* later Bump only when it belongs to an import that was given up after    *)
(* some of its chunks: however many writers raced, and whatever restarts.  *)
UnbumpedOnlyByAbort ==
    (\A r \in Reqs : pc[r] = "idle") => bumps[namespace] = epoch \/ lost = epoch

(* Every request is answered: no handler waits for another. *)
Answered == \A r \in Reqs : pc[r] # "idle" ~> pc[r] = "idle"

(* Once writes stop, stale bodies disappear for good, those written across *)
(* a Bump or after an aborted import included: the TTL takes them.         *)
StalenessEnds == <>[](\A e \in cache : e.total = epoch /\ e.rows = epoch)
=============================================================================
