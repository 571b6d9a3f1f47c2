--------------------------- MODULE ImportHistory ---------------------------
(***************************************************************************)
(* BulkImport beside ProfileService: the uploads of BulkImport, row by     *)
(* row, do to the table and to the cache's namespace what the import       *)
(* actions of ProfileService say an import may do.                         *)
(*                                                                         *)
(* The variables are the histories ProfileService keeps: nothing here      *)
(* reads them but the refinement mapping.                                  *)
(***************************************************************************)
EXTENDS BulkImport

(* SQLite bounds the length of a text, so there are finitely many names,   *)
(* and the bound on the commits of ProfileService can be one that no       *)
(* import reaches.                                                         *)
ASSUME NamesAssumption == IsFiniteSet(Names)

VARIABLES
    epoch,       \* number of chunks that changed the table
    mine,        \* the last of them that was the upload's, 0 if none was
    acked,       \* the last change whose upload was answered 200
    lost,        \* the last change of an upload that was given up
    begun        \* begun[n]: the epoch when namespace n began

histories == <<epoch, mine, acked, lost, begun>>

HistoryInit ==
    /\ Init
    /\ epoch = 0
    /\ mine = [u \in Uploads |-> 0]
    /\ acked = 0
    /\ lost = 0
    /\ begun = <<0>>

Later(m, n) == IF m > n THEN m ELSE n

(* A chunk of rows that are all passed over changes nothing.               *)
Commits(u) ==
    /\ Flush(u)
    /\ IF Added(chunk[u]) = {}
         THEN UNCHANGED <<epoch, mine>>
         ELSE epoch' = epoch + 1 /\ mine' = [mine EXCEPT ![u] = epoch + 1]
    /\ UNCHANGED <<acked, lost, begun>>

GivesUp(u) ==
    /\ ReadTooMany(u) \/ FlushFails(u)
    /\ lost' = Later(lost, mine[u])
    /\ UNCHANGED <<epoch, mine, acked, begun>>

Bumps(u) ==
    /\ Bump(u)
    /\ acked' = Later(acked, mine[u])
    /\ begun' = Append(begun, epoch)
    /\ UNCHANGED <<epoch, mine, lost>>

(* What neither commits, nor gives up, nor bumps.                          *)
Proceeds(u) ==
    /\ \/ Open(u) \/ BadHeader(u)
       \/ ReadMalformed(u) \/ ReadBroken(u)
       \/ \E row \in Rows : ReadInvalid(u, row) \/ ReadValid(u, row)
       \/ ReadEOF(u)
       \/ Finish(u)
       \/ BodyBreaks(u)
    /\ UNCHANGED histories

HistoryNext ==
    \E u \in Uploads : Commits(u) \/ GivesUp(u) \/ Bumps(u) \/ Proceeds(u)

HistorySpec == HistoryInit /\ [][HistoryNext]_<<vars, histories>>

FairHistorySpec == HistorySpec /\ UploadsGoOn

-----------------------------------------------------------------------------
(* An upload as a request of ProfileService, where it stands, what it has  *)
(* committed and what it was answered: 404 stands for every 4xx of a       *)
(* request that is answered at once.                                       *)
Place(l) ==
    IF l \in {"idle", "done"} THEN "idle" ELSE IF l = "bump" THEN "bump" ELSE "import"

CallWith(ok, last) ==
    [key |-> CHOOSE k \in {"list"} : TRUE, name |-> CHOOSE n \in Names : TRUE,
     getNs |-> 0, setNs |-> 0, total |-> 0, rows |-> 0,
     mine |-> last, ok |-> ok, since |-> 0]

CallOf(l, last) == IF Place(l) = "idle" THEN CallWith(0, 0) ELSE CallWith(200, last)

ReplyOf(code) ==
    [status |-> IF code = 400 THEN 404 ELSE code,
     page |-> FALSE, hit |-> FALSE, raced |-> FALSE, total |-> 0, rows |-> 0, since |-> 0]

places == [u \in Uploads |-> Place(pc[u])]
calls == [u \in Uploads |-> CallOf(pc[u], mine[u])]
replies == [u \in Uploads |-> ReplyOf(status[u])]

Service == INSTANCE ProfileService WITH
    Reqs <- Uploads,
    Fold <- [n \in Names |-> n],
    Keys <- {"list"},
    Seed <- {},
    MaxCommits <- Cardinality(Names) + 1,
    namespace <- bumps + 1,
    cache <- {},
    pc <- places,
    call <- calls,
    reply <- replies,
    bumps <- begun

(* Whatever rows uploads send and however they interleave, fail or are cut *)
(* short, they commit, give up, Bump and answer as ProfileService lets an  *)
(* import do: an upload that changed the table bumps before it answers     *)
(* 200, and only one that is given up leaves a change without a Bump       *)
(* (bulk_import.go:118-150).                                               *)
UploadsAreImports == Service!Spec
=============================================================================
