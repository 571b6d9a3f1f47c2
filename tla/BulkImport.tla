----------------------------- MODULE BulkImport -----------------------------
(***************************************************************************)
(* POST /api/profiles/import (bulk_import.go): uploads streamed row by     *)
(* row, validated, and flushed to the table in chunks, each chunk one      *)
(* SQLite transaction (store.go BulkInsertIgnore).  Uploads run side by    *)
(* side over one table.  What an import does to the query cache is in      *)
(* ProfileService, which ImportHistory relates to this module; here only   *)
(* its one Bump is counted.                                                *)
(***************************************************************************)
EXTENDS Integers, Sequences, FiniteSets, SequencesExt

CONSTANTS
    Uploads,     \* import requests
    Names,       \* profile names
    NoName,      \* an empty name column
    Rows,        \* the readable CSV records a client may send
    ChunkSize,   \* importChunkSize
    MaxRows,     \* importMaxRows
    MaxBody      \* bound: records in an upload, readable or not

Cells == {"good", "empty", "bad", "nan"}

ASSUME RowsAssumption ==
    Rows \subseteq [name : Names \cup {NoName}, gender : Cells, age : Cells,
                    country : Cells, gp : Cells, cp : Cells]
ASSUME BoundsAssumption ==
    ChunkSize \in Nat \ {0} /\ MaxRows \in Nat /\ MaxBody \in Nat

VARIABLES
    profiles,    \* names present in table profiles
    pc,          \* where each upload stands in importProfiles
    body,        \* the request body: "open", or "broken" once its reads fail
    chunk,       \* rows waiting for their transaction
    summary,     \* importSummary
    status,      \* HTTP status of the answer, 0 before it
    bumps        \* calls of queryCache.Bump

vars == <<profiles, pc, body, chunk, summary, status, bumps>>

-----------------------------------------------------------------------------
(* parseImportRow: the first column that fails, in this order, names the   *)
(* reason.  ParseFloat accepts "NaN", and no comparison with it is true.   *)
Checks(row) == <<
    <<row.name = NoName,                "missing_fields">>,
    <<row.gender # "good",              "invalid_gender">>,
    <<row.age = "empty",                "missing_fields">>,
    <<row.age \in {"bad", "nan"},       "invalid_age">>,
    <<row.country # "good",             "invalid_country_id">>,
    <<row.gp = "bad",                   "invalid_probability">>,
    <<row.cp = "bad",                   "invalid_probability">> >>

Failed(row) == {i \in 1..7 : Checks(row)[i][1]}

(* "internal" when no UUID can be made for a row that is otherwise valid.  *)
SkipReason(row) ==
    IF Failed(row) = {} THEN "internal" ELSE Checks(row)[Min(Failed(row))][2]

Reasons == {"missing_fields", "invalid_gender", "invalid_age", "invalid_country_id",
            "invalid_probability", "internal", "malformed_row", "duplicate_name"}

NewSummary == [total |-> 0, inserted |-> 0, skipped |-> 0, reasons |-> [w \in Reasons |-> 0]]

(* One more row read, n more inserted, n more skipped for the reason.      *)
Counted(s) == [s EXCEPT !.total = @ + 1]

Inserted(s, n) == [s EXCEPT !.inserted = @ + n]

Skip(s, why, n) ==
    [s EXCEPT !.skipped = @ + n, !.reasons = [s.reasons EXCEPT ![why] = @ + n]]

(* SQLite binds NaN as NULL, which the NOT NULL of the column refuses:     *)
(* INSERT OR IGNORE passes over such a row as over a name already there.   *)
Storable(row) == row.gp # "nan" /\ row.cp # "nan"

(* mutant: rows passed over are counted as inserted. *)
AddedOrThere(rows) == {rows[i].name : i \in 1..Len(rows)}

(* BulkInsertIgnore: the names a chunk adds to the table. *)
Added(rows) == {rows[i].name : i \in {j \in 1..Len(rows) : Storable(rows[j])}} \ profiles

-----------------------------------------------------------------------------
Init ==
    /\ profiles \in SUBSET Names
    /\ pc = [u \in Uploads |-> "idle"]
    /\ body = [u \in Uploads |-> "open"]
    /\ chunk = [u \in Uploads |-> <<>>]
    /\ summary = [u \in Uploads |-> NewSummary]
    /\ status = [u \in Uploads |-> 0]
    /\ bumps = 0

Goto(u, l) == pc' = [pc EXCEPT ![u] = l]

Answer(u, code) ==
    /\ Goto(u, "done")
    /\ status' = [status EXCEPT ![u] = code]

(* openImportBody, the header row and buildHeaderIndex. *)
Open(u) ==
    /\ pc[u] = "idle"
    /\ Goto(u, "read")
    /\ UNCHANGED <<profiles, body, chunk, summary, status, bumps>>

BadHeader(u) ==
    /\ pc[u] = "idle"
    /\ Answer(u, 400)
    /\ UNCHANGED <<profiles, body, chunk, summary, bumps>>

(* A record csv.Reader cannot parse: counted, and the loop goes on, past   *)
(* the check of the row limit.                                             *)
Malformed(u) ==
    summary' = [summary EXCEPT ![u] = Skip(Counted(@), "malformed_row", 1)]

ReadMalformed(u) ==
    /\ pc[u] = "read" /\ body[u] = "open"
    /\ summary[u].total < MaxBody
    /\ Malformed(u)
    /\ UNCHANGED <<profiles, pc, body, chunk, status, bumps>>

(* The body fails half-way (a reset connection, a chunked or multipart     *)
(* body cut short): every later Read reports the failure again, and the    *)
(* loop takes each report for one more malformed row.  A plain body cut    *)
(* short reports it once, then io.EOF: ReadMalformed, then ReadEOF.        *)
BodyBreaks(u) ==
    /\ pc[u] = "read" /\ body[u] = "open"
    /\ body' = [body EXCEPT ![u] = "broken"]
    /\ UNCHANGED <<profiles, pc, chunk, summary, status, bumps>>

ReadBroken(u) ==
    /\ pc[u] = "read" /\ body[u] = "broken"
    /\ summary[u].total < MaxBody
    /\ Malformed(u)
    /\ UNCHANGED <<profiles, pc, body, chunk, status, bumps>>

(* One row too many: 413, the rows of the unfinished chunk forgotten.      *)
ReadTooMany(u) ==
    /\ pc[u] = "read" /\ body[u] = "open"
    /\ summary[u].total \in MaxRows..(MaxBody - 1)
    /\ summary' = [summary EXCEPT ![u] = Counted(@)]
    /\ Answer(u, 413)
    /\ UNCHANGED <<profiles, body, chunk, bumps>>

(* mutant: the limit is off by one. *)
WithinLimitPlusOne(u) == summary[u].total <= MaxRows /\ summary[u].total < MaxBody

(* if summary.TotalRows > importMaxRows, after the increment.              *)
WithinLimit(u) == summary[u].total < MaxRows /\ summary[u].total < MaxBody

ReadInvalid(u, row) ==
    /\ pc[u] = "read" /\ body[u] = "open"
    /\ WithinLimit(u)
    /\ summary' = [summary EXCEPT ![u] = Skip(Counted(@), SkipReason(row), 1)]
    /\ UNCHANGED <<profiles, pc, body, chunk, status, bumps>>

ReadValid(u, row) ==
    /\ pc[u] = "read" /\ body[u] = "open"
    /\ WithinLimit(u)
    /\ Failed(row) = {}
    /\ summary' = [summary EXCEPT ![u] = Counted(@)]
    /\ chunk' = [chunk EXCEPT ![u] = Append(@, row)]
    /\ Goto(u, IF Len(chunk[u]) + 1 >= ChunkSize THEN "flush" ELSE "read")
    /\ UNCHANGED <<profiles, body, status, bumps>>

(* mutants: the rest is not flushed; io.EOF is one more malformed row. *)
EOFForgetsRest(u) ==
    /\ pc[u] = "read" /\ body[u] = "open"
    /\ Goto(u, "finish")
    /\ UNCHANGED <<profiles, body, chunk, summary, status, bumps>>

EOFMalformed(u) == ReadMalformed(u)

(* io.EOF: the rest is flushed, if there is any.                           *)
ReadEOF(u) ==
    /\ pc[u] = "read" /\ body[u] = "open"
    /\ Goto(u, IF chunk[u] # <<>> THEN "lastFlush" ELSE "finish")
    /\ UNCHANGED <<profiles, body, chunk, summary, status, bumps>>

(* flushImportChunk: one transaction, and its counts into the summary.     *)
Flush(u) ==
    /\ pc[u] \in {"flush", "lastFlush"}
    /\ profiles' = profiles \cup Added(chunk[u])
    /\ LET inserted == Cardinality(Added(chunk[u]))
       IN summary' = [summary EXCEPT ![u] =
              Skip(Inserted(@, inserted), "duplicate_name", Len(chunk[u]) - inserted)]
    /\ chunk' = [chunk EXCEPT ![u] = <<>>]
    /\ Goto(u, IF pc[u] = "flush" THEN "read" ELSE "finish")
    /\ UNCHANGED <<body, status, bumps>>

(* mutant: without the transaction, rows before the failing one stay.      *)
FlushFailsHalfway(u) ==
    /\ pc[u] \in {"flush", "lastFlush"}
    /\ profiles' = profiles \cup Added(<<Head(chunk[u])>>)
    /\ Answer(u, 500)
    /\ UNCHANGED <<body, chunk, summary, bumps>>

(* The transaction fails and is rolled back; the earlier ones stay.        *)
FlushFails(u) ==
    /\ pc[u] \in {"flush", "lastFlush"}
    /\ Answer(u, 500)
    /\ UNCHANGED <<profiles, body, chunk, summary, bumps>>

(* mutant: an import is answered without its Bump. *)
FinishUnbumped(u) ==
    /\ pc[u] = "finish"
    /\ Answer(u, 200)
    /\ UNCHANGED <<profiles, body, chunk, summary, bumps>>

(* if summary.Inserted > 0, the cache is bumped before the answer.         *)
Finish(u) ==
    /\ pc[u] = "finish"
    /\ IF summary[u].inserted > 0 THEN Goto(u, "bump") /\ UNCHANGED status
                                  ELSE Answer(u, 200)
    /\ UNCHANGED <<profiles, body, chunk, summary, bumps>>

Bump(u) ==
    /\ pc[u] = "bump"
    /\ bumps' = bumps + 1
    /\ Answer(u, 200)
    /\ UNCHANGED <<profiles, body, chunk, summary>>

Work(u) ==
    \/ Open(u) \/ BadHeader(u)
    \/ ReadMalformed(u) \/ ReadBroken(u) \/ ReadTooMany(u)
    \/ \E row \in Rows : ReadInvalid(u, row) \/ ReadValid(u, row)
    \/ ReadEOF(u)
    \/ Flush(u) \/ FlushFails(u)
    \/ Finish(u) \/ Bump(u)

Next == \E u \in Uploads : Work(u) \/ BodyBreaks(u)

Spec == Init /\ [][Next]_vars

(* The goroutine of a started upload runs on, and its client keeps sending *)
(* until its body ends or breaks: nothing in the code bounds how long a    *)
(* silent client may hold an upload open.                                  *)
UploadsGoOn == \A u \in Uploads : WF_vars(pc[u] # "idle" /\ Work(u))

-----------------------------------------------------------------------------
Locations == {"idle", "read", "flush", "lastFlush", "finish", "bump", "done"}
Statuses == {0, 200, 400, 413, 500}
Summary == [total : Nat, inserted : Nat, skipped : Nat, reasons : [Reasons -> Nat]]

TypeOK ==
    /\ profiles \subseteq Names
    /\ pc \in [Uploads -> Locations]
    /\ body \in [Uploads -> {"open", "broken"}]
    /\ chunk \in [Uploads -> Seq(Rows)]
    /\ summary \in [Uploads -> Summary]
    /\ status \in [Uploads -> Statuses]
    /\ bumps \in Nat

(* Every row read is accounted for, once: inserted, skipped, waiting in a  *)
(* chunk not yet full, or the row too many; none waits when 200 is sent.   *)
RowsCounted ==
    \A u \in Uploads :
        /\ summary[u].total = summary[u].inserted + summary[u].skipped + Len(chunk[u])
                                + (IF status[u] = 413 THEN 1 ELSE 0)
        /\ Len(chunk[u]) <= ChunkSize
        /\ pc[u] = "read" => Len(chunk[u]) < ChunkSize
        /\ status[u] = 200 => chunk[u] = <<>>

ReasonTotal(r) ==
    r["missing_fields"] + r["invalid_gender"] + r["invalid_age"] + r["invalid_country_id"]
      + r["invalid_probability"] + r["internal"] + r["malformed_row"] + r["duplicate_name"]

(* A name sent by several uploads, or several times by one, is inserted by *)
(* one of them only: each can have names of its own in the table, as many  *)
(* as it counts, so that their counts never add up to more than the table  *)
(* holds.  The reasons one reports add up to the rows it skipped.          *)
CountsAddUp ==
    /\ \E own \in [Uploads -> SUBSET profiles] :
          /\ \A u \in Uploads :
                IsFiniteSet(own[u]) /\ Cardinality(own[u]) = summary[u].inserted
          /\ \A u, v \in Uploads : u # v => own[u] \cap own[v] = {}
    /\ \A u \in Uploads : ReasonTotal(summary[u].reasons) = summary[u].skipped

(* The ceiling on rows bounds what one upload may have written.            *)
WritesUnderCeiling ==
    \A u \in Uploads : summary[u].inserted + Len(chunk[u]) <= MaxRows

(* An upload is answered, unless its connection failed.                    *)
AnsweredUnlessBroken ==
    \A u \in Uploads : pc[u] = "read" ~> (pc[u] = "done" \/ body[u] = "broken")
=============================================================================
