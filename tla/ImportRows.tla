----------------------------- MODULE ImportRows -----------------------------
(***************************************************************************)
(* BulkImport with a memory of the rows it let through: what the table     *)
(* holds is said of them, for uploads that run side by side and may be     *)
(* given up at any row.  Nothing but the properties reads the two          *)
(* histories.                                                              *)
(***************************************************************************)
EXTENDS BulkImport

VARIABLES
    atFirst,     \* the table before the first upload
    accepted     \* the rows of each upload that parseImportRow let through

rowsVars == <<vars, atFirst, accepted>>

RowsInit ==
    /\ Init
    /\ atFirst = profiles
    /\ accepted = [u \in Uploads |-> <<>>]

AcceptsRow(u, row) ==
    /\ ReadValid(u, row)
    /\ accepted' = [accepted EXCEPT ![u] = Append(@, row)]

(* Every other step of an upload. *)
AcceptsNone(u) ==
    /\ \/ Open(u) \/ BadHeader(u)
       \/ ReadMalformed(u) \/ ReadBroken(u) \/ ReadTooMany(u)
       \/ \E row \in Rows : ReadInvalid(u, row)
       \/ ReadEOF(u)
       \/ Flush(u) \/ FlushFails(u)
       \/ Finish(u) \/ Bump(u)
       \/ BodyBreaks(u)
    /\ UNCHANGED accepted

RowsNext ==
    /\ \E u \in Uploads : AcceptsNone(u) \/ \E row \in Rows : AcceptsRow(u, row)
    /\ UNCHANGED atFirst

RowsSpec == RowsInit /\ [][RowsNext]_rowsVars

-----------------------------------------------------------------------------
(* The first n of rows that SQLite stores, by name. *)
Stored(rows, n) == {rows[i].name : i \in {j \in 1..n : Storable(rows[j])}}

(* How many of its accepted rows the transactions of an upload have taken. *)
Settled(u) == Len(accepted[u]) - Len(chunk[u])

(* Uploads side by side leave in the table exactly what was there and the  *)
(* rows they accepted, up to the place each has come to: all of them when  *)
(* it answers 200, and whole chunks from the first when it answers 413 or  *)
(* 500, so that what a failed import left can be told ("Each chunk commits *)
(* independently. If chunk N+1 fails, chunks 1..N stay in the table",      *)
(* SOLUTION.md:150).  Rows with a probability "NaN" are accepted and left  *)
(* out.                                                                    *)
TableHoldsWhatWasAccepted ==
    /\ profiles = atFirst \cup UNION {Stored(accepted[u], Settled(u)) : u \in Uploads}
    /\ \A u \in Uploads :
          /\ status[u] = 200 => Settled(u) = Len(accepted[u])
          /\ status[u] \in {413, 500} => \E n \in 0..Settled(u) : Settled(u) = n * ChunkSize
=============================================================================
