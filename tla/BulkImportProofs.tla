-------------------------- MODULE BulkImportProofs --------------------------
(***************************************************************************)
(* Theorems of BulkImport, for any uploads, rows, chunk size and ceiling:  *)
(* no row is lost or counted twice, the table holds what uploads accepted, *)
(* an upload writes no more than the ceiling allows, and does to table and *)
(* cache what an import may do.                                            *)
(***************************************************************************)
EXTENDS ImportHistory, ImportRows, FiniteSetTheorems, TLAPS

Named(row) == row.name # NoName

(* What holds of one upload at location p, with rows ch waiting, summary s *)
(* and status st.                                                          *)
UploadOK(p, ch, s, st) ==
    /\ \A i \in 1..Len(ch) : Named(ch[i])
    /\ st # 413 => s.total = s.inserted + s.skipped + Len(ch)
    /\ st = 413 => s.total = s.inserted + s.skipped + Len(ch) + 1
    /\ Len(ch) <= ChunkSize
    /\ p \in {"idle", "read"} => Len(ch) < ChunkSize
    /\ p \in {"finish", "bump"} \/ st = 200 => ch = <<>>
    /\ p # "done" => st = 0
    /\ s.inserted + Len(ch) <= MaxRows

BulkInv ==
    /\ TypeOK
    /\ \A u \in Uploads : UploadOK(pc[u], chunk[u], summary[u], status[u])

-----------------------------------------------------------------------------
(* A chunk adds at most as many names as it has rows. *)
LEMMA AddedBounded ==
    ASSUME NEW rows \in Seq(Rows)
    PROVE  /\ IsFiniteSet(Added(rows))
           /\ Cardinality(Added(rows)) \in Nat /\ Cardinality(Added(rows)) <= Len(rows)
<1> DEFINE I == {i \in 1..Len(rows) : Storable(rows[i]) /\ rows[i].name \notin profiles}
           f == [i \in I |-> rows[i].name]
<1>1. IsFiniteSet(1..Len(rows)) /\ Cardinality(1..Len(rows)) = Len(rows)
  <2>1. Len(rows) \in Nat
    OBVIOUS
  <2>2. IsFiniteSet(1..Len(rows)) /\ Cardinality(1..Len(rows))
           = IF 1 > Len(rows) THEN 0 ELSE Len(rows) - 1 + 1
    BY <2>1, FS_Interval, SMTT(30)
  <2> QED
    BY <2>1, <2>2
<1>2. IsFiniteSet(I) /\ Cardinality(I) <= Len(rows)
  BY <1>1, FS_Subset
<1>3. \A i \in I : f[i] \in Added(rows)
  BY DEF Added
<1>4. f \in Surjection(I, Added(rows))
  <2>1. ASSUME NEW n \in Added(rows) PROVE \E i \in I : f[i] = n
    <3>1. PICK i \in 1..Len(rows) : Storable(rows[i]) /\ n = rows[i].name
      BY DEF Added
    <3>2. n \notin profiles
      BY DEF Added
    <3> QED
      BY <3>1, <3>2
  <2> QED
    BY <1>3, <2>1 DEF Surjection
<1>5. IsFiniteSet(Added(rows)) /\ Cardinality(Added(rows)) <= Cardinality(I)
  BY <1>2, <1>4, FS_Surjection
<1>6. Cardinality(Added(rows)) \in Nat /\ Cardinality(I) \in Nat
  BY <1>2, <1>5, FS_CardinalityType
<1> QED
  BY <1>2, <1>5, <1>6

-----------------------------------------------------------------------------
(* The values a step gives one upload; those of the others are unchanged.  *)
LEMMA OneUpload ==
    ASSUME BulkInv, NEW u \in Uploads,
           NEW p \in Locations, NEW ch \in Seq(Rows), NEW s \in Summary, NEW st \in Statuses,
           pc' = [pc EXCEPT ![u] = p], chunk' = [chunk EXCEPT ![u] = ch],
           summary' = [summary EXCEPT ![u] = s], status' = [status EXCEPT ![u] = st],
           UploadOK(p, ch, s, st),
           body' \in [Uploads -> {"open", "broken"}], profiles' \subseteq Names, bumps' \in Nat
    PROVE  BulkInv'
<1>1. TypeOK'
  BY DEF BulkInv, TypeOK
<1>2. ASSUME NEW v \in Uploads
      PROVE  UploadOK(pc'[v], chunk'[v], summary'[v], status'[v])
  BY DEF BulkInv, TypeOK
<1> QED
  BY <1>1, <1>2 DEF BulkInv

(* What counting does to a summary. *)
LEMMA SkipCounts ==
    ASSUME NEW s \in Summary, NEW why \in Reasons, NEW n \in Nat
    PROVE  /\ Skip(s, why, n) \in Summary
           /\ Skip(s, why, n).total = s.total
           /\ Skip(s, why, n).inserted = s.inserted
           /\ Skip(s, why, n).skipped = s.skipped + n
<1>1. s.reasons \in [Reasons -> Nat] /\ s.skipped + n \in Nat /\ s.reasons[why] + n \in Nat
  BY DEF Summary
<1>2. [s.reasons EXCEPT ![why] = @ + n] \in [Reasons -> Nat]
  BY <1>1
<1>3. PICK r \in [Reasons -> Nat], k \in Nat :
         r = [s.reasons EXCEPT ![why] = @ + n] /\ k = s.skipped + n
  BY <1>1, <1>2
<1>4. Skip(s, why, n) = [s EXCEPT !.skipped = k, !.reasons = r]
  BY <1>3, Zenon DEF Skip
<1>5. \A q \in Summary : q = [s EXCEPT !.skipped = k, !.reasons = r] =>
         q.total = s.total /\ q.inserted = s.inserted /\ q.skipped = k
  BY DEF Summary
<1>6. [s EXCEPT !.skipped = k, !.reasons = r] \in Summary
  BY DEF Summary
<1> QED
  BY <1>3, <1>4, <1>5, <1>6

(* parseImportRow lets no row through without a name, and finds a reason   *)
(* for the rows it does not let through.                                   *)
LEMMA AcceptedNamed == ASSUME NEW row \in Rows, Failed(row) = {} PROVE Named(row)
<1>1. ~ Checks(row)[1][1]
  BY DEF Failed
<1> QED
  BY <1>1 DEF Checks, Named

LEMMA ReasonFound == ASSUME NEW row \in Rows PROVE SkipReason(row) \in Reasons
<1>1. CASE Failed(row) = {}
  BY <1>1 DEF SkipReason, Reasons
<1>2. CASE Failed(row) # {}
  <2>1. PICK x \in Failed(row) : \A y \in Failed(row) : x <= y
    <3>1. Failed(row) \subseteq 1..7
      BY DEF Failed
    <3> QED
      BY <1>2, <3>1
  <2>2. Min(Failed(row)) \in 1..7
    BY <2>1 DEF Min, Failed
  <2>3. \A i \in 1..7 : Checks(row)[i][2] \in Reasons
    BY DEF Checks, Reasons
  <2> QED
    BY <1>2, <2>2, <2>3 DEF SkipReason
<1> QED
  BY <1>1, <1>2

LEMMA OneRowMore ==
    ASSUME NEW s \in Summary
    PROVE  /\ Counted(s) \in Summary
           /\ Counted(s).total = s.total + 1
           /\ Counted(s).inserted = s.inserted
           /\ Counted(s).skipped = s.skipped
BY DEF Summary, Counted

-----------------------------------------------------------------------------
(* BulkInv is inductive. *)

LEMMA BulkInit == Init => BulkInv
<1> SUFFICES ASSUME Init PROVE BulkInv
  OBVIOUS
<1>1. NewSummary \in Summary /\ NewSummary.total = 0 /\ NewSummary.inserted = 0
        /\ NewSummary.skipped = 0
  BY DEF NewSummary, Summary
<1>2. TypeOK
  BY <1>1 DEF Init, TypeOK, Locations, Statuses
<1>3. UploadOK("idle", <<>>, NewSummary, 0)
  BY <1>1, BoundsAssumption DEF UploadOK
<1> QED
  BY <1>2, <1>3 DEF Init, BulkInv

(* The state of an upload, its values named. *)
LEMMA OfUpload ==
    ASSUME BulkInv, NEW u \in Uploads
    PROVE  \E s \in Summary, ch \in Seq(Rows) :
              /\ s = summary[u] /\ ch = chunk[u]
              /\ s.total \in Nat /\ s.inserted \in Nat /\ s.skipped \in Nat /\ Len(ch) \in Nat
              /\ UploadOK(pc[u], ch, s, status[u])
<1>1. summary[u] \in Summary /\ chunk[u] \in Seq(Rows)
  BY DEF BulkInv, TypeOK
<1>2. \A s \in Summary : s.total \in Nat /\ s.inserted \in Nat /\ s.skipped \in Nat
  BY DEF Summary
<1>3. Len(chunk[u]) \in Nat
  BY <1>1
<1> QED
  BY <1>1, <1>2, <1>3 DEF BulkInv

(* A step that moves on, or answers, and reads and writes nothing.         *)
LEMMA MoveStep ==
    ASSUME BulkInv, NEW u \in Uploads,
           \/ Open(u) \/ BadHeader(u) \/ ReadEOF(u) \/ FlushFails(u)
           \/ Finish(u) \/ Bump(u)
    PROVE  BulkInv'
<1>1. PICK s \in Summary, ch \in Seq(Rows) :
         /\ s = summary[u] /\ ch = chunk[u]
         /\ s.total \in Nat /\ s.inserted \in Nat /\ s.skipped \in Nat /\ Len(ch) \in Nat
         /\ UploadOK(pc[u], ch, s, status[u])
  BY OfUpload
<1>2. /\ chunk' = [chunk EXCEPT ![u] = ch] /\ summary' = [summary EXCEPT ![u] = s]
      /\ body' \in [Uploads -> {"open", "broken"}]
      /\ profiles' \subseteq Names /\ bumps' \in Nat
  BY <1>1 DEF BulkInv, TypeOK, Open, BadHeader, ReadEOF, FlushFails, Finish, Bump
<1>3. status = [status EXCEPT ![u] = status[u]]
  BY DEF BulkInv, TypeOK
<1>4. ASSUME NEW p \in Locations, NEW st \in Statuses, UploadOK(p, ch, s, st),
             pc' = [pc EXCEPT ![u] = p], status' = [status EXCEPT ![u] = st]
      PROVE  BulkInv'
  BY <1>2, <1>4, OneUpload, ZenonT(60)
<1>5. /\ "read" \in Locations /\ "lastFlush" \in Locations /\ "finish" \in Locations
      /\ "bump" \in Locations /\ "done" \in Locations
      /\ 0 \in Statuses /\ 200 \in Statuses /\ 400 \in Statuses /\ 500 \in Statuses
  BY DEF Locations, Statuses
<1>6. CASE Open(u)
  <2>1. pc' = [pc EXCEPT ![u] = "read"] /\ pc[u] = "idle" /\ status' = [status EXCEPT ![u] = 0]
    BY <1>1, <1>3, <1>6 DEF Open, Goto, UploadOK
  <2>2. UploadOK("read", ch, s, 0)
    BY <1>1, <2>1 DEF UploadOK
  <2> QED
    BY <1>4, <1>5, <2>1, <2>2, ZenonT(60)
<1>7. CASE BadHeader(u)
  <2>1. pc' = [pc EXCEPT ![u] = "done"] /\ pc[u] = "idle" /\ status' = [status EXCEPT ![u] = 400]
    BY <1>7 DEF BadHeader, Answer, Goto
  <2>2. UploadOK("done", ch, s, 400)
    BY <1>1, <2>1 DEF UploadOK
  <2> QED
    BY <1>4, <1>5, <2>1, <2>2, ZenonT(60)
<1>8. CASE ReadEOF(u)
  <2>1. PICK p \in Locations : p = IF ch # <<>> THEN "lastFlush" ELSE "finish"
    BY <1>5
  <2>2. /\ pc[u] = "read" /\ status' = [status EXCEPT ![u] = 0]
        /\ pc' = [pc EXCEPT ![u] = p]
    BY <1>1, <1>3, <1>8, <2>1 DEF ReadEOF, Goto, UploadOK
  <2>3. UploadOK(p, ch, s, 0)
    BY <1>1, <2>1, <2>2 DEF UploadOK
  <2> QED
    BY <1>4, <1>5, <2>2, <2>3, ZenonT(60)
<1>9. CASE FlushFails(u)
  <2>1. /\ pc' = [pc EXCEPT ![u] = "done"] /\ pc[u] \in {"flush", "lastFlush"}
        /\ status' = [status EXCEPT ![u] = 500]
    BY <1>9 DEF FlushFails, Answer, Goto
  <2>2. UploadOK("done", ch, s, 500)
    BY <1>1, <2>1 DEF UploadOK
  <2> QED
    BY <1>4, <1>5, <2>1, <2>2, ZenonT(60)
<1>10. CASE \/ Finish(u) /\ ~ (summary[u].inserted > 0)
            \/ Bump(u)
  <2>1. /\ pc' = [pc EXCEPT ![u] = "done"] /\ pc[u] \in {"finish", "bump"}
        /\ status' = [status EXCEPT ![u] = 200]
    BY <1>10 DEF Finish, Bump, Answer, Goto
  <2>2. UploadOK("done", ch, s, 200)
    BY <1>1, <2>1 DEF UploadOK
  <2> QED
    BY <1>4, <1>5, <2>1, <2>2, ZenonT(60)
<1>11. CASE Finish(u) /\ summary[u].inserted > 0
  <2>1. /\ pc' = [pc EXCEPT ![u] = "bump"] /\ pc[u] = "finish"
        /\ status' = [status EXCEPT ![u] = 0]
    BY <1>1, <1>3, <1>11 DEF Finish, Goto, UploadOK
  <2>2. UploadOK("bump", ch, s, 0)
    BY <1>1, <2>1 DEF UploadOK
  <2> QED
    BY <1>4, <1>5, <2>1, <2>2, ZenonT(60)
<1> QED
  BY <1>6, <1>7, <1>8, <1>9, <1>10, <1>11

(* A record read: one row more in the total. *)
LEMMA ReadStep ==
    ASSUME BulkInv, NEW u \in Uploads,
           \/ ReadMalformed(u) \/ ReadBroken(u) \/ ReadTooMany(u)
           \/ \E row \in Rows : ReadInvalid(u, row) \/ ReadValid(u, row)
    PROVE  BulkInv'
<1>1. PICK s \in Summary, ch \in Seq(Rows) :
         /\ s = summary[u] /\ ch = chunk[u]
         /\ s.total \in Nat /\ s.inserted \in Nat /\ s.skipped \in Nat /\ Len(ch) \in Nat
         /\ UploadOK(pc[u], ch, s, status[u])
  BY OfUpload
<1>2. PICK m \in Summary :
         /\ m = Counted(s) /\ m.total = s.total + 1
         /\ m.inserted = s.inserted /\ m.skipped = s.skipped
  BY OneRowMore
<1>3. pc[u] = "read" /\ body' = body /\ profiles' = profiles /\ bumps' = bumps
  BY DEF ReadMalformed, ReadBroken, ReadTooMany, ReadInvalid, ReadValid, WithinLimit
<1>4. /\ status[u] = 0 /\ body' \in [Uploads -> {"open", "broken"}]
      /\ profiles' \subseteq Names /\ bumps' \in Nat
      /\ pc = [pc EXCEPT ![u] = "read"] /\ status = [status EXCEPT ![u] = 0]
      /\ chunk = [chunk EXCEPT ![u] = ch]
  BY <1>1, <1>3 DEF BulkInv, TypeOK, UploadOK
<1>5. /\ s.total = s.inserted + s.skipped + Len(ch) /\ Len(ch) < ChunkSize
      /\ s.inserted + Len(ch) <= MaxRows /\ ChunkSize \in Nat /\ MaxRows \in Nat
      /\ s.total \in Nat /\ s.inserted \in Nat /\ s.skipped \in Nat /\ Len(ch) \in Nat
  BY <1>1, <1>3, <1>4, BoundsAssumption DEF UploadOK
<1>6. \A i \in 1..Len(ch) : Named(ch[i])
  BY <1>1 DEF UploadOK
<1>7. "read" \in Locations /\ "flush" \in Locations /\ "done" \in Locations
        /\ 0 \in Statuses /\ 413 \in Statuses
  BY DEF Locations, Statuses
<1>8. body' \in [Uploads -> {"open", "broken"}] /\ profiles' \subseteq Names /\ bumps' \in Nat
  BY <1>4
<1>9. ASSUME NEW why \in Reasons, summary' = [summary EXCEPT ![u] = Skip(m, why, 1)],
             UNCHANGED <<pc, chunk, status>>
      PROVE  BulkInv'
  <2>1. PICK k \in Summary : /\ k = Skip(m, why, 1) /\ k.total = s.total + 1
                             /\ k.inserted = s.inserted /\ k.skipped = s.skipped + 1
    <3>1. Skip(m, why, 1) \in Summary
      BY SkipCounts
    <3>2. /\ Skip(m, why, 1).total = m.total /\ Skip(m, why, 1).inserted = m.inserted
          /\ Skip(m, why, 1).skipped = m.skipped + 1
      BY SkipCounts
    <3> QED
      BY <1>2, <3>1, <3>2
  <2>2. UploadOK("read", ch, k, 0)
    <3>1. k.total = k.inserted + k.skipped + Len(ch) /\ k.inserted + Len(ch) <= MaxRows
      <4>1. PICK t \in Nat, i \in Nat, q \in Nat, n \in Nat :
               t = s.total /\ i = s.inserted /\ q = s.skipped /\ n = Len(ch)
        BY <1>5, Zenon
      <4>2. t = i + q + n /\ i + n <= MaxRows
        BY <1>5, <4>1
      <4>3. t + 1 = i + (q + 1) + n
        BY <4>2
      <4> QED
        BY <2>1, <4>1, <4>2, <4>3
    <3>2. Len(ch) <= ChunkSize /\ Len(ch) < ChunkSize /\ \A i \in 1..Len(ch) : Named(ch[i])
      BY <1>5, <1>6
    <3> QED
      BY <3>1, <3>2 DEF UploadOK
  <2>3. /\ summary' = [summary EXCEPT ![u] = k] /\ pc' = [pc EXCEPT ![u] = "read"]
        /\ chunk' = [chunk EXCEPT ![u] = ch] /\ status' = [status EXCEPT ![u] = 0]
    BY <1>4, <1>9, <2>1
  <2> QED
    BY <1>4, <1>7, <2>2, <2>3, OneUpload, ZenonT(60)
<1>10. CASE ReadMalformed(u) \/ ReadBroken(u)
  <2>1. /\ summary' = [summary EXCEPT ![u] = Skip(m, "malformed_row", 1)]
        /\ "malformed_row" \in Reasons
    BY <1>1, <1>2, <1>10 DEF ReadMalformed, ReadBroken, Malformed, Reasons
  <2> QED
    BY <1>9, <1>10, <2>1 DEF ReadMalformed, ReadBroken
<1>11. ASSUME NEW row \in Rows, ReadInvalid(u, row) PROVE BulkInv'
  <2>1. PICK why \in Reasons : summary' = [summary EXCEPT ![u] = Skip(m, why, 1)]
    BY <1>1, <1>2, <1>11, ReasonFound DEF ReadInvalid, WithinLimit
  <2> QED
    BY <1>9, <1>11, <2>1 DEF ReadInvalid, WithinLimit
<1>12. CASE ReadTooMany(u)
  <2>1. /\ summary' = [summary EXCEPT ![u] = m] /\ pc' = [pc EXCEPT ![u] = "done"]
        /\ chunk' = [chunk EXCEPT ![u] = ch] /\ status' = [status EXCEPT ![u] = 413]
    BY <1>1, <1>2, <1>4, <1>12 DEF ReadTooMany, Answer, Goto
  <2>2. UploadOK("done", ch, m, 413)
    BY <1>2, <1>5, <1>6 DEF UploadOK
  <2>3. "done" \in Locations /\ 413 \in Statuses
    BY <1>7
  <2> QED
    BY <1>8, <2>1, <2>2, <2>3, OneUpload, ZenonT(60)
<1>13. ASSUME NEW row \in Rows, ReadValid(u, row) PROVE BulkInv'
  <2>1. PICK l \in Seq(Rows) : l = Append(ch, row) /\ Len(l) = Len(ch) + 1
    <3>1. Append(ch, row) \in Seq(Rows) /\ Len(Append(ch, row)) = Len(ch) + 1
      OBVIOUS
    <3> QED
      BY <3>1
  <2>2. PICK p \in Locations : p = IF Len(ch) + 1 >= ChunkSize THEN "flush" ELSE "read"
    BY <1>7
  <2>3. /\ summary' = [summary EXCEPT ![u] = m] /\ pc' = [pc EXCEPT ![u] = p]
        /\ chunk' = [chunk EXCEPT ![u] = l] /\ status' = [status EXCEPT ![u] = 0]
    BY <1>1, <1>2, <1>4, <1>13, <2>1, <2>2 DEF ReadValid, WithinLimit, Goto
  <2>4. s.total < MaxRows
    BY <1>1, <1>13 DEF ReadValid, WithinLimit
  <2>5. UploadOK(p, l, m, 0)
    <3>1. \A i \in 1..Len(l) : Named(l[i])
      <4>1. Named(row)
        BY <1>13, AcceptedNamed DEF ReadValid
      <4>2. \A i \in 1..Len(l) : (i \in 1..Len(ch) /\ l[i] = ch[i]) \/ l[i] = row
        BY <2>1
      <4> QED
        BY <1>6, <4>1, <4>2
    <3>2. /\ m.total = m.inserted + m.skipped + Len(l) /\ m.inserted + Len(l) <= MaxRows
          /\ Len(l) <= ChunkSize /\ (p = "read" => Len(l) < ChunkSize)
      <4>1. Len(l) <= ChunkSize /\ (p = "read" => Len(l) < ChunkSize)
        BY <1>5, <2>1, <2>2
      <4>2. m.total = m.inserted + m.skipped + Len(l) /\ m.inserted + Len(l) <= MaxRows
        BY <1>2, <1>5, <2>1, <2>4
      <4> QED
        BY <4>1, <4>2
    <3>3. p \in {"read", "flush"}
      BY <2>2
    <3> QED
      BY <3>1, <3>2, <3>3 DEF UploadOK
  <2> QED
    BY <1>4, <1>7, <2>3, <2>5, OneUpload, ZenonT(60)
<1> QED
  BY <1>10, <1>11, <1>12, <1>13

LEMMA FlushStep == ASSUME BulkInv, NEW u \in Uploads, Flush(u) PROVE BulkInv'
<1>1. PICK s \in Summary, ch \in Seq(Rows) :
         /\ s = summary[u] /\ ch = chunk[u]
         /\ s.total \in Nat /\ s.inserted \in Nat /\ s.skipped \in Nat /\ Len(ch) \in Nat
         /\ UploadOK(pc[u], ch, s, status[u])
  BY OfUpload
<1>2. PICK n \in Nat : n = Cardinality(Added(ch)) /\ n <= Len(ch)
  BY AddedBounded
<1>3. PICK d \in Nat : d = Len(ch) - n
  BY <1>1, <1>2
<1>4. PICK m \in Summary :
         /\ m = Inserted(s, n) /\ m.total = s.total
         /\ m.inserted = s.inserted + n /\ m.skipped = s.skipped
  <2>1. Inserted(s, n) \in Summary
    BY DEF Summary, Inserted
  <2> QED
    BY <2>1 DEF Summary, Inserted
<1>5. PICK k \in Summary :
         /\ k = Skip(m, "duplicate_name", d) /\ k.total = s.total
         /\ k.inserted = s.inserted + n /\ k.skipped = s.skipped + d
  <2>1. "duplicate_name" \in Reasons
    BY DEF Reasons
  <2> QED
    <3>1. Skip(m, "duplicate_name", d) \in Summary
      BY <2>1, SkipCounts
    <3>2. /\ Skip(m, "duplicate_name", d).total = m.total
          /\ Skip(m, "duplicate_name", d).inserted = m.inserted
          /\ Skip(m, "duplicate_name", d).skipped = m.skipped + d
      BY <2>1, SkipCounts
    <3> QED
      BY <1>4, <3>1, <3>2
<1>6. PICK p \in Locations : p = IF pc[u] = "flush" THEN "read" ELSE "finish"
  BY DEF Locations
<1>7. /\ summary' = [summary EXCEPT ![u] = k] /\ pc' = [pc EXCEPT ![u] = p]
      /\ chunk' = [chunk EXCEPT ![u] = <<>>]
  BY <1>1, <1>2, <1>3, <1>4, <1>5, <1>6 DEF Flush, Goto
<1>8. /\ pc[u] \in {"flush", "lastFlush"} /\ status[u] = 0 /\ 0 \in Statuses
      /\ status' = [status EXCEPT ![u] = 0] /\ body' \in [Uploads -> {"open", "broken"}]
      /\ bumps' \in Nat
  BY <1>1 DEF Flush, BulkInv, TypeOK, UploadOK, Statuses
<1>9. profiles' \subseteq Names
  <2>1. \A i \in 1..Len(ch) : ch[i] \in Rows /\ Named(ch[i])
    BY <1>1 DEF UploadOK
  <2>2. \A row \in Rows : row.name \in Names \cup {NoName}
    BY RowsAssumption
  <2>3. Added(ch) \subseteq Names
    BY <2>1, <2>2 DEF Added, Named
  <2>4. profiles' = profiles \cup Added(ch) /\ profiles \subseteq Names
    BY <1>1 DEF Flush, BulkInv, TypeOK
  <2> QED
    BY <2>3, <2>4
<1>10. UploadOK(p, <<>>, k, 0)
  <2>1. Len(<<>>) = 0 /\ <<>> \in Seq(Rows) /\ ChunkSize \in Nat \ {0} /\ MaxRows \in Nat
    BY BoundsAssumption
  <2>2. s.total = s.inserted + s.skipped + Len(ch) /\ s.inserted + Len(ch) <= MaxRows
    BY <1>1, <1>8 DEF UploadOK
  <2>3. s.total \in Nat /\ s.inserted \in Nat /\ s.skipped \in Nat /\ Len(ch) \in Nat
    BY <1>1
  <2>4. k.total = k.inserted + k.skipped /\ k.inserted <= MaxRows /\ k.inserted \in Nat
    BY <1>2, <1>3, <1>5, <2>1, <2>2, <2>3, SMTT(30)
  <2>5. p \in {"read", "finish"}
    BY <1>6
  <2>6. k.total = k.inserted + k.skipped + Len(<<>>) /\ k.inserted + Len(<<>>) <= MaxRows
    <3>1. s.skipped + d \in Nat
      BY <1>3, <2>3
    <3>2. k.skipped \in Nat
      BY <1>5, <3>1
    <3> QED
      BY <2>1, <2>4, <3>2
  <2>7. /\ Len(<<>>) <= ChunkSize /\ Len(<<>>) < ChunkSize
        /\ \A i \in 1..Len(<<>>) : Named(<<>>[i])
    BY <2>1
  <2> QED
    BY <2>5, <2>6, <2>7 DEF UploadOK
<1>11. <<>> \in Seq(Rows)
  OBVIOUS
<1>12. status' = [status EXCEPT ![u] = 0] /\ 0 \in Statuses /\ bumps' \in Nat
  BY <1>8
<1>13. body' \in [Uploads -> {"open", "broken"}]
  BY <1>8
<1> QED
  BY <1>7, <1>9, <1>10, <1>11, <1>12, <1>13, OneUpload, ZenonT(60)

LEMMA BreakStep == ASSUME BulkInv, NEW u \in Uploads, BodyBreaks(u) PROVE BulkInv'
BY DEF BodyBreaks, BulkInv, TypeOK

LEMMA BulkStep == BulkInv /\ [Next]_vars => BulkInv'
<1> SUFFICES ASSUME BulkInv, [Next]_vars PROVE BulkInv'
  OBVIOUS
<1>1. ASSUME NEW u \in Uploads, Work(u) PROVE BulkInv'
  <2>1. CASE \/ Open(u) \/ BadHeader(u) \/ ReadEOF(u) \/ FlushFails(u)
             \/ Finish(u) \/ Bump(u)
    BY <2>1, MoveStep
  <2>2. CASE Flush(u)
    BY <2>2, FlushStep
  <2>3. CASE \/ ReadMalformed(u) \/ ReadBroken(u) \/ ReadTooMany(u)
             \/ \E row \in Rows : ReadInvalid(u, row) \/ ReadValid(u, row)
    BY <2>3, ReadStep
  <2> QED
    BY <1>1, <2>1, <2>2, <2>3 DEF Work
<1>2. ASSUME NEW u \in Uploads, BodyBreaks(u) PROVE BulkInv'
  BY <1>2, BreakStep
<1>3. CASE UNCHANGED vars
  BY <1>3 DEF vars, BulkInv, TypeOK
<1> QED
  BY <1>1, <1>2, <1>3 DEF Next

LEMMA BulkAlways == Spec => []BulkInv
BY BulkInit, BulkStep, PTL DEF Spec

-----------------------------------------------------------------------------
(* The summaries and chunks of all uploads are well formed. *)
THEOREM TypeCorrect == Spec => []TypeOK
<1>1. BulkInv => TypeOK
  BY DEF BulkInv
<1> QED
  BY <1>1, BulkAlways, PTL

(* No row an upload was read is lost or counted twice. *)
THEOREM NoRowLost == Spec => []RowsCounted
<1>1. BulkInv => RowsCounted
  <2> SUFFICES ASSUME BulkInv, NEW u \in Uploads
               PROVE  /\ summary[u].total = summary[u].inserted + summary[u].skipped
                                              + Len(chunk[u]) + (IF status[u] = 413 THEN 1 ELSE 0)
                      /\ Len(chunk[u]) <= ChunkSize
                      /\ pc[u] = "read" => Len(chunk[u]) < ChunkSize
                      /\ status[u] = 200 => chunk[u] = <<>>
    BY DEF RowsCounted
  <2>1. PICK s \in Summary, ch \in Seq(Rows) :
           /\ s = summary[u] /\ ch = chunk[u]
           /\ s.total \in Nat /\ s.inserted \in Nat /\ s.skipped \in Nat /\ Len(ch) \in Nat
           /\ UploadOK(pc[u], ch, s, status[u])
    BY OfUpload
  <2>2. CASE status[u] = 413
    BY <2>1, <2>2 DEF UploadOK
  <2>3. CASE status[u] # 413
    BY <2>1, <2>3 DEF UploadOK
  <2> QED
    BY <2>2, <2>3
<1> QED
  BY <1>1, BulkAlways, PTL

(* No upload writes more rows than the ceiling, malformed rows or not. *)
THEOREM CeilingOnWrites == Spec => []WritesUnderCeiling
<1>1. BulkInv => WritesUnderCeiling
  BY DEF BulkInv, UploadOK, WritesUnderCeiling
<1> QED
  BY <1>1, BulkAlways, PTL

-----------------------------------------------------------------------------
(* What the table holds, in terms of the rows that were accepted.          *)

(* The rows of ch are the last of rows. *)
Waits(rows, ch) ==
    /\ Len(ch) <= Len(rows)
    /\ \A i \in 1..Len(ch) : ch[i] = rows[Len(rows) - Len(ch) + i]

WholeChunks(n) == \E k \in 0..n : n = k * ChunkSize

RowsOK(p, st, rows, ch) ==
    /\ Waits(rows, ch)
    /\ p = "flush" => Len(ch) = ChunkSize
    /\ p \in {"idle", "read", "flush", "lastFlush"} \/ st \in {413, 500}
         => WholeChunks(Len(rows) - Len(ch))

RowsInv ==
    /\ accepted \in [Uploads -> Seq(Rows)]
    /\ \A u \in Uploads : RowsOK(pc[u], status[u], accepted[u], chunk[u])
    /\ profiles = atFirst \cup UNION {Stored(accepted[u], Settled(u)) : u \in Uploads}

LEMMA OneChunkMore ==
    ASSUME NEW n \in Nat, WholeChunks(n) PROVE WholeChunks(n + ChunkSize)
<1>1. PICK k \in 0..n : n = k * ChunkSize
  BY DEF WholeChunks
<1>2. ChunkSize \in Nat /\ ChunkSize >= 1
  BY BoundsAssumption
<1>3. k + 1 \in 0..(n + ChunkSize)
  BY <1>2
<1>4. n + ChunkSize = (k + 1) * ChunkSize
  BY <1>1, <1>2
<1> QED
  BY <1>3, <1>4 DEF WholeChunks

(* What an accepted row does to the rows of its upload. *)
LEMMA RowMore ==
    ASSUME NEW rows \in Seq(Rows), NEW ch \in Seq(Rows), NEW row \in Rows, Waits(rows, ch)
    PROVE  \E more \in Seq(Rows), l \in Seq(Rows) :
              /\ more = Append(rows, row) /\ l = Append(ch, row)
              /\ Len(l) = Len(ch) + 1 /\ Waits(more, l)
              /\ Len(more) - Len(l) = Len(rows) - Len(ch)
              /\ Stored(more, Len(more) - Len(l)) = Stored(rows, Len(rows) - Len(ch))
<1>1. Len(rows) \in Nat /\ Len(ch) \in Nat /\ Len(ch) <= Len(rows)
  BY DEF Waits
<1>2. PICK more \in Seq(Rows), l \in Seq(Rows) :
         /\ more = Append(rows, row) /\ l = Append(ch, row)
         /\ Len(more) = Len(rows) + 1 /\ Len(l) = Len(ch) + 1
         /\ \A i \in 1..Len(rows) : more[i] = rows[i]
         /\ more[Len(rows) + 1] = row
         /\ \A i \in 1..Len(ch) : l[i] = ch[i]
         /\ l[Len(ch) + 1] = row
  <2>1. Append(rows, row) \in Seq(Rows) /\ Append(ch, row) \in Seq(Rows)
    OBVIOUS
  <2>2. /\ Len(Append(rows, row)) = Len(rows) + 1
        /\ \A i \in 1..Len(rows) : Append(rows, row)[i] = rows[i]
        /\ Append(rows, row)[Len(rows) + 1] = row
    BY <1>1
  <2>3. /\ Len(Append(ch, row)) = Len(ch) + 1
        /\ \A i \in 1..Len(ch) : Append(ch, row)[i] = ch[i]
        /\ Append(ch, row)[Len(ch) + 1] = row
    BY <1>1
  <2> QED
    BY <2>1, <2>2, <2>3
<1>3. Len(more) - Len(l) = Len(rows) - Len(ch) /\ Len(rows) - Len(ch) \in 0..Len(rows)
  BY <1>1, <1>2
<1>4. \A i \in 1..Len(l) : l[i] = more[Len(more) - Len(l) + i]
  <2> SUFFICES ASSUME NEW i \in 1..Len(l) PROVE l[i] = more[Len(more) - Len(l) + i]
    OBVIOUS
  <2>1. CASE i = Len(ch) + 1
    <3>1. Len(more) - Len(l) + i = Len(rows) + 1
      BY <1>1, <1>2, <2>1
    <3> QED
      BY <1>2, <2>1, <3>1
  <2>2. CASE i # Len(ch) + 1
    <3>1. i \in 1..Len(ch) /\ Len(rows) - Len(ch) + i \in 1..Len(rows)
      BY <1>1, <1>2, <2>2
    <3>2. ch[i] = rows[Len(rows) - Len(ch) + i]
      BY <3>1 DEF Waits
    <3> QED
      BY <1>2, <1>3, <3>1, <3>2
  <2> QED
    BY <2>1, <2>2
<1>5. \A n \in 0..Len(rows) : Stored(more, n) = Stored(rows, n)
  <2> SUFFICES ASSUME NEW n \in 0..Len(rows) PROVE Stored(more, n) = Stored(rows, n)
    OBVIOUS
  <2>1. \A i \in 1..n : more[i] = rows[i]
    BY <1>1, <1>2
  <2> QED
    BY <2>1 DEF Stored
<1>6. Waits(more, l)
  <2>1. Len(l) <= Len(more)
    BY <1>1, <1>2
  <2> QED
    BY <1>4, <2>1 DEF Waits
<1>7. Stored(more, Len(more) - Len(l)) = Stored(rows, Len(rows) - Len(ch))
  BY <1>3, <1>5
<1> QED
  BY <1>2, <1>3, <1>6, <1>7, Zenon

(* A transaction adds to the table what is stored of the waiting rows. *)
LEMMA ChunkStored ==
    ASSUME NEW rows \in Seq(Rows), NEW ch \in Seq(Rows), Waits(rows, ch)
    PROVE  /\ Stored(rows, Len(rows) - Len(ch)) \subseteq Stored(rows, Len(rows))
           /\ profiles \cup Added(ch) \cup Stored(rows, Len(rows) - Len(ch))
                 = profiles \cup Stored(rows, Len(rows))
<1>1. Len(rows) \in Nat /\ Len(ch) \in Nat /\ Len(ch) <= Len(rows)
  BY DEF Waits
<1>2. PICK n \in Nat : n = Len(rows) - Len(ch) /\ Len(rows) = n + Len(ch)
  BY <1>1
<1>3. \A i \in 1..Len(ch) : ch[i] = rows[n + i]
  BY <1>2 DEF Waits
<1>4. \A x \in Added(ch) : x \in Stored(rows, Len(rows))
  <2> SUFFICES ASSUME NEW x \in Added(ch) PROVE x \in Stored(rows, Len(rows))
    OBVIOUS
  <2>1. PICK i \in 1..Len(ch) : Storable(ch[i]) /\ x = ch[i].name
    BY DEF Added
  <2>2. n + i \in 1..Len(rows)
    BY <1>1, <1>2
  <2> QED
    BY <1>3, <2>1, <2>2 DEF Stored
<1>5. Stored(rows, n) \subseteq Stored(rows, Len(rows))
  BY <1>1, <1>2 DEF Stored
<1>6. \A x \in Stored(rows, Len(rows)) :
         x \in Stored(rows, n) \/ x \in profiles \/ x \in Added(ch)
  <2> SUFFICES ASSUME NEW x \in Stored(rows, Len(rows)), x \notin Stored(rows, n),
                      x \notin profiles
               PROVE  x \in Added(ch)
    OBVIOUS
  <2>1. PICK i \in 1..Len(rows) : Storable(rows[i]) /\ x = rows[i].name
    BY DEF Stored
  <2>2. i \notin 1..n
    BY <2>1 DEF Stored
  <2>3. PICK j \in 1..Len(ch) : i = n + j
    <3>1. i - n \in 1..Len(ch) /\ i = n + (i - n)
      BY <1>1, <1>2, <2>2
    <3> QED
      BY <3>1, Zenon
  <2>4. ch[j] = rows[i]
    BY <1>3, <2>3
  <2> QED
    BY <2>1, <2>4 DEF Added
<1> QED
  BY <1>2, <1>4, <1>5, <1>6

(* The values a step gives one upload, and what it adds to the table. *)
LEMMA RowsMove ==
    ASSUME RowsInv, BulkInv, NEW u \in Uploads, NEW p, NEW st,
           NEW rows \in Seq(Rows), NEW ch \in Seq(Rows),
           pc' = [pc EXCEPT ![u] = p], status' = [status EXCEPT ![u] = st],
           accepted' = [accepted EXCEPT ![u] = rows], chunk' = [chunk EXCEPT ![u] = ch],
           RowsOK(p, st, rows, ch), atFirst' = atFirst,
           Stored(accepted[u], Settled(u)) \subseteq Stored(rows, Len(rows) - Len(ch)),
           profiles' = profiles \cup Stored(rows, Len(rows) - Len(ch))
    PROVE  RowsInv'
<1>1. /\ pc \in [Uploads -> Locations] /\ status \in [Uploads -> Statuses]
      /\ chunk \in [Uploads -> Seq(Rows)] /\ accepted \in [Uploads -> Seq(Rows)]
  BY DEF BulkInv, TypeOK, RowsInv
<1>2. /\ pc'[u] = p /\ status'[u] = st /\ accepted'[u] = rows /\ chunk'[u] = ch
      /\ \A v \in Uploads : v # u =>
            /\ pc'[v] = pc[v] /\ status'[v] = status[v]
            /\ accepted'[v] = accepted[v] /\ chunk'[v] = chunk[v]
  BY <1>1
<1>3. accepted' \in [Uploads -> Seq(Rows)]
  BY <1>1
<1>4. \A v \in Uploads : RowsOK(pc'[v], status'[v], accepted'[v], chunk'[v])
  BY <1>2 DEF RowsInv
<1>5. Stored(accepted'[u], Len(accepted'[u]) - Len(chunk'[u])) = Stored(rows, Len(rows) - Len(ch))
  BY <1>2
<1>6. \A v \in Uploads : v # u =>
         Stored(accepted'[v], Len(accepted'[v]) - Len(chunk'[v])) = Stored(accepted[v], Settled(v))
  BY <1>2 DEF Settled
<1>7. profiles = atFirst \cup UNION {Stored(accepted[v], Settled(v)) : v \in Uploads}
  BY DEF RowsInv
<1>8. profiles' = atFirst' \cup
         UNION {Stored(accepted'[v], Len(accepted'[v]) - Len(chunk'[v])) : v \in Uploads}
  BY <1>5, <1>6, <1>7
<1> QED
  BY <1>3, <1>4, <1>8 DEF RowsInv, Settled, Stored

LEMMA RowsOf ==
    ASSUME RowsInv, BulkInv, NEW u \in Uploads
    PROVE  \E rows \in Seq(Rows), ch \in Seq(Rows) :
              /\ rows = accepted[u] /\ ch = chunk[u]
              /\ Len(rows) \in Nat /\ Len(ch) \in Nat
              /\ RowsOK(pc[u], status[u], rows, ch)
              /\ Stored(rows, Len(rows) - Len(ch)) = Stored(accepted[u], Settled(u))
              /\ Stored(rows, Len(rows) - Len(ch)) \subseteq profiles
<1>1. accepted[u] \in Seq(Rows) /\ chunk[u] \in Seq(Rows)
  BY DEF RowsInv, BulkInv, TypeOK
<1>2. Stored(accepted[u], Settled(u)) \subseteq profiles
  BY DEF RowsInv
<1>3. PICK rows \in Seq(Rows), ch \in Seq(Rows) : rows = accepted[u] /\ ch = chunk[u]
  BY <1>1, Zenon
<1>4. Len(rows) \in Nat /\ Len(ch) \in Nat
  OBVIOUS
<1>5. Stored(rows, Len(rows) - Len(ch)) = Stored(accepted[u], Settled(u))
  BY <1>3, Zenon DEF Settled
<1>6. RowsOK(pc[u], status[u], rows, ch)
  BY <1>3 DEF RowsInv
<1> QED
  BY <1>2, <1>3, <1>4, <1>5, <1>6, Zenon

LEMMA RowsAtFirst == RowsInit => RowsInv
<1> SUFFICES ASSUME RowsInit PROVE RowsInv
  OBVIOUS
<1>1. \A u \in Uploads : accepted[u] = <<>> /\ chunk[u] = <<>>
  BY DEF RowsInit, Init
<1>2. Len(<<>>) = 0 /\ <<>> \in Seq(Rows) /\ ChunkSize \in Nat \ {0}
  BY BoundsAssumption
<1>3. WholeChunks(0)
  BY <1>2 DEF WholeChunks
<1>4. \A u \in Uploads : pc[u] = "idle" /\ status[u] = 0
  BY DEF RowsInit, Init
<1>5. Waits(<<>>, <<>>)
  <2>1. 1..Len(<<>>) = {}
    BY <1>2
  <2> QED
    BY <1>2, <2>1 DEF Waits
<1>6. RowsOK("idle", 0, <<>>, <<>>)
  <2>1. WholeChunks(Len(<<>>) - Len(<<>>))
    BY <1>2, <1>3
  <2> QED
    BY <1>5, <2>1 DEF RowsOK
<1>7. Stored(<<>>, Len(<<>>) - Len(<<>>)) = {}
  <2>1. 1..(Len(<<>>) - Len(<<>>)) = {}
    BY <1>2
  <2> QED
    BY <2>1 DEF Stored
<1>8. accepted \in [Uploads -> Seq(Rows)] /\ atFirst = profiles
  BY <1>2 DEF RowsInit
<1>9. \A u \in Uploads : Stored(accepted[u], Settled(u)) = {}
  BY <1>1, <1>7, Zenon DEF Settled
<1>10. UNION {Stored(accepted[u], Settled(u)) : u \in Uploads} = {}
  BY <1>9
<1> QED
  BY <1>1, <1>4, <1>6, <1>8, <1>10 DEF RowsInv

LEMMA AcceptStep ==
    ASSUME RowsInv, BulkInv, NEW u \in Uploads, NEW row \in Rows, AcceptsRow(u, row),
           atFirst' = atFirst
    PROVE  RowsInv'
<1>1. PICK rows \in Seq(Rows), ch \in Seq(Rows) :
         /\ rows = accepted[u] /\ ch = chunk[u]
         /\ Len(rows) \in Nat /\ Len(ch) \in Nat
         /\ RowsOK(pc[u], status[u], rows, ch)
         /\ Stored(rows, Len(rows) - Len(ch)) = Stored(accepted[u], Settled(u))
         /\ Stored(rows, Len(rows) - Len(ch)) \subseteq profiles
  BY RowsOf
<1>2. PICK more \in Seq(Rows), l \in Seq(Rows) :
         /\ more = Append(rows, row) /\ l = Append(ch, row)
         /\ Len(l) = Len(ch) + 1 /\ Waits(more, l)
         /\ Len(more) - Len(l) = Len(rows) - Len(ch)
         /\ Stored(more, Len(more) - Len(l)) = Stored(rows, Len(rows) - Len(ch))
  <2>1. Waits(rows, ch)
    BY <1>1 DEF RowsOK
  <2> QED
    BY <2>1, RowMore, ZenonT(60)
<1>3. PICK p : p = IF Len(ch) + 1 >= ChunkSize THEN "flush" ELSE "read"
  OBVIOUS
<1>4. /\ pc[u] = "read" /\ pc' = [pc EXCEPT ![u] = p] /\ profiles' = profiles
      /\ accepted' = [accepted EXCEPT ![u] = more] /\ chunk' = [chunk EXCEPT ![u] = l]
      /\ status' = status
  BY <1>1, <1>2, <1>3 DEF AcceptsRow, ReadValid, Goto
<1>5. status' = [status EXCEPT ![u] = status[u]]
  BY <1>4 DEF BulkInv, TypeOK
<1>6. WholeChunks(Len(rows) - Len(ch))
  BY <1>1, <1>4 DEF RowsOK
<1>7. Len(ch) < ChunkSize /\ ChunkSize \in Nat
  BY <1>1, <1>4, BoundsAssumption DEF BulkInv, UploadOK
<1>8. p = "flush" => Len(l) = ChunkSize
  BY <1>1, <1>2, <1>3, <1>7
<1>9. RowsOK(p, status[u], more, l)
  BY <1>2, <1>6, <1>8 DEF RowsOK
<1>10. profiles' = profiles \cup Stored(more, Len(more) - Len(l))
  BY <1>1, <1>2, <1>4
<1>11. Stored(accepted[u], Settled(u)) \subseteq Stored(more, Len(more) - Len(l))
  BY <1>1, <1>2
<1>12. atFirst' = atFirst
  OBVIOUS
<1> QED
  BY <1>4, <1>5, <1>9, <1>10, <1>11, <1>12, RowsMove, ZenonT(60)

LEMMA RowsFlushStep ==
    ASSUME RowsInv, BulkInv, NEW u \in Uploads, Flush(u), accepted' = accepted,
           atFirst' = atFirst
    PROVE  RowsInv'
<1>1. PICK rows \in Seq(Rows), ch \in Seq(Rows) :
         /\ rows = accepted[u] /\ ch = chunk[u]
         /\ Len(rows) \in Nat /\ Len(ch) \in Nat
         /\ RowsOK(pc[u], status[u], rows, ch)
         /\ Stored(rows, Len(rows) - Len(ch)) = Stored(accepted[u], Settled(u))
         /\ Stored(rows, Len(rows) - Len(ch)) \subseteq profiles
  BY RowsOf
<1>2. PICK p : p = IF pc[u] = "flush" THEN "read" ELSE "finish"
  OBVIOUS
<1>3. /\ pc[u] \in {"flush", "lastFlush"} /\ pc' = [pc EXCEPT ![u] = p]
      /\ profiles' = profiles \cup Added(ch) /\ chunk' = [chunk EXCEPT ![u] = <<>>]
      /\ status' = status /\ <<>> \in Seq(Rows) /\ Len(<<>>) = 0
  BY <1>1, <1>2 DEF Flush, Goto
<1>4. /\ status' = [status EXCEPT ![u] = status[u]] /\ accepted' = [accepted EXCEPT ![u] = rows]
      /\ status[u] = 0
  BY <1>1, <1>3 DEF BulkInv, TypeOK, RowsInv, UploadOK
<1>5. Waits(rows, ch) /\ Waits(rows, <<>>)
  <2>1. 1..Len(<<>>) = {} /\ Len(<<>>) <= Len(rows)
    BY <1>1, <1>3
  <2> QED
    BY <1>1, <2>1 DEF RowsOK, Waits
<1>6. Len(rows) - Len(<<>>) = Len(rows)
  BY <1>1, <1>3
<1>7. p = "read" => WholeChunks(Len(rows))
  <2> SUFFICES ASSUME p = "read" PROVE WholeChunks(Len(rows))
    OBVIOUS
  <2>1. pc[u] = "flush"
    BY <1>2
  <2>2. WholeChunks(Len(rows) - Len(ch)) /\ Len(ch) = ChunkSize
    BY <1>1, <2>1 DEF RowsOK
  <2>3. Len(rows) - Len(ch) \in Nat /\ (Len(rows) - Len(ch)) + ChunkSize = Len(rows)
    BY <1>1, <1>5, <2>2 DEF Waits
  <2> QED
    BY <2>2, <2>3, OneChunkMore
<1>8. RowsOK(p, status[u], rows, <<>>)
  <2>1. p \in {"read", "finish"} /\ status[u] \notin {413, 500}
    BY <1>2, <1>4
  <2> QED
    BY <1>5, <1>6, <1>7, <2>1 DEF RowsOK
<1>9. /\ Stored(rows, Len(rows) - Len(ch)) \subseteq Stored(rows, Len(rows))
      /\ profiles \cup Added(ch) \cup Stored(rows, Len(rows) - Len(ch))
            = profiles \cup Stored(rows, Len(rows))
  BY <1>5, ChunkStored
<1>10. profiles' = profiles \cup Stored(rows, Len(rows) - Len(<<>>))
  BY <1>1, <1>3, <1>6, <1>9
<1>11. Stored(accepted[u], Settled(u)) \subseteq Stored(rows, Len(rows) - Len(<<>>))
  BY <1>1, <1>6, <1>9
<1> QED
  BY <1>3, <1>4, <1>8, <1>10, <1>11, RowsMove

(* A step that takes no row and no transaction. *)
LEMMA RowsElsewhere ==
    ASSUME RowsInv, BulkInv, NEW u \in Uploads, atFirst' = atFirst, accepted' = accepted,
           \/ Open(u) \/ BadHeader(u)
           \/ ReadMalformed(u) \/ ReadBroken(u) \/ ReadTooMany(u)
           \/ \E row \in Rows : ReadInvalid(u, row)
           \/ ReadEOF(u) \/ FlushFails(u) \/ Finish(u) \/ Bump(u) \/ BodyBreaks(u)
    PROVE  RowsInv'
<1>1. PICK rows \in Seq(Rows), ch \in Seq(Rows) :
         /\ rows = accepted[u] /\ ch = chunk[u]
         /\ Len(rows) \in Nat /\ Len(ch) \in Nat
         /\ RowsOK(pc[u], status[u], rows, ch)
         /\ Stored(rows, Len(rows) - Len(ch)) = Stored(accepted[u], Settled(u))
         /\ Stored(rows, Len(rows) - Len(ch)) \subseteq profiles
  BY RowsOf
<1>2. chunk' = chunk /\ profiles' = profiles
  BY DEF Open, BadHeader, ReadMalformed, ReadBroken, ReadTooMany, ReadInvalid, ReadEOF,
         FlushFails, Finish, Bump, BodyBreaks
<1>3. /\ chunk' = [chunk EXCEPT ![u] = ch] /\ accepted' = [accepted EXCEPT ![u] = rows]
      /\ status = [status EXCEPT ![u] = status[u]] /\ pc = [pc EXCEPT ![u] = pc[u]]
      /\ pc[u] # "done" => status[u] = 0
  BY <1>1, <1>2 DEF BulkInv, TypeOK, RowsInv, UploadOK
<1>4. ASSUME NEW p, NEW st, pc' = [pc EXCEPT ![u] = p], status' = [status EXCEPT ![u] = st],
             RowsOK(p, st, rows, ch)
      PROVE  RowsInv'
  <2>1. profiles' = profiles \cup Stored(rows, Len(rows) - Len(ch))
    BY <1>1, <1>2
  <2> QED
    BY <1>1, <1>3, <1>4, <2>1, RowsMove
<1>5. CASE Open(u)
  <2>1. pc[u] = "idle" /\ pc' = [pc EXCEPT ![u] = "read"] /\ status' = [status EXCEPT ![u] = 0]
    BY <1>3, <1>5 DEF Open, Goto
  <2>2. RowsOK("read", 0, rows, ch)
    BY <1>1, <2>1 DEF RowsOK
  <2> QED
    BY <1>4, <2>1, <2>2
<1>6. CASE \/ BadHeader(u) \/ Bump(u)
           \/ Finish(u) /\ ~ (summary[u].inserted > 0)
  <2>1. PICK st \in {200, 400} : pc' = [pc EXCEPT ![u] = "done"] /\ status' = [status EXCEPT ![u] = st]
    BY <1>6 DEF BadHeader, Bump, Finish, Answer, Goto
  <2>2. RowsOK("done", st, rows, ch)
    <3>1. st \notin {413, 500} /\ Waits(rows, ch)
      BY <1>1, <2>1 DEF RowsOK
    <3> QED
      BY <3>1, Zenon DEF RowsOK
  <2> QED
    BY <1>4, <2>1, <2>2
<1>7. CASE ReadMalformed(u) \/ ReadBroken(u) \/ BodyBreaks(u) \/ \E row \in Rows : ReadInvalid(u, row)
  <2>1. pc' = pc /\ status' = status
    BY <1>7 DEF ReadMalformed, ReadBroken, BodyBreaks, ReadInvalid
  <2> QED
    BY <1>1, <1>3, <1>4, <2>1
<1>8. CASE ReadTooMany(u) \/ FlushFails(u)
  <2>1. PICK st \in {413, 500} : pc' = [pc EXCEPT ![u] = "done"] /\ status' = [status EXCEPT ![u] = st]
    BY <1>8 DEF ReadTooMany, FlushFails, Answer, Goto
  <2>2. pc[u] \in {"read", "flush", "lastFlush"}
    BY <1>8 DEF ReadTooMany, FlushFails
  <2>3. RowsOK("done", st, rows, ch)
    <3>1. Waits(rows, ch) /\ WholeChunks(Len(rows) - Len(ch))
      <4>1. pc[u] \in {"idle", "read", "flush", "lastFlush"}
        BY <2>2
      <4>2. RowsOK(pc[u], status[u], rows, ch)
        BY <1>1
      <4> QED
        BY <4>1, <4>2, Zenon DEF RowsOK
    <3> QED
      BY <3>1, Zenon DEF RowsOK
  <2> QED
    BY <1>4, <2>1, <2>3
<1>9. CASE ReadEOF(u)
  <2>1. PICK p \in {"lastFlush", "finish"} : pc' = [pc EXCEPT ![u] = p]
    BY <1>9 DEF ReadEOF, Goto
  <2>2. pc[u] = "read" /\ status' = [status EXCEPT ![u] = 0] /\ status[u] = 0
    BY <1>3, <1>9 DEF ReadEOF
  <2>3. RowsOK(p, 0, rows, ch)
    BY <1>1, <2>2 DEF RowsOK
  <2> QED
    BY <1>4, <2>1, <2>2, <2>3
<1>10. CASE Finish(u) /\ summary[u].inserted > 0
  <2>1. pc[u] = "finish" /\ pc' = [pc EXCEPT ![u] = "bump"] /\ status' = [status EXCEPT ![u] = 0]
    BY <1>3, <1>10 DEF Finish, Goto
  <2>2. RowsOK("bump", 0, rows, ch)
    BY <1>1 DEF RowsOK
  <2> QED
    BY <1>4, <2>1, <2>2
<1>11. CASE Finish(u)
  BY <1>6, <1>10, <1>11
<1> QED
  BY <1>5, <1>6, <1>7, <1>8, <1>9, <1>11

LEMMA RowsStep == RowsInv /\ BulkInv /\ [RowsNext]_rowsVars => RowsInv'
<1> SUFFICES ASSUME RowsInv, BulkInv, [RowsNext]_rowsVars PROVE RowsInv'
  OBVIOUS
<1>1. ASSUME NEW u \in Uploads, AcceptsNone(u), atFirst' = atFirst PROVE RowsInv'
  BY <1>1, RowsFlushStep, RowsElsewhere DEF AcceptsNone
<1>2. ASSUME NEW u \in Uploads, NEW row \in Rows, AcceptsRow(u, row), atFirst' = atFirst
      PROVE  RowsInv'
  BY <1>2, AcceptStep
<1>3. CASE UNCHANGED rowsVars
  <2>1. UNCHANGED <<profiles, pc, chunk, status, atFirst, accepted>>
    BY <1>3 DEF rowsVars, vars
  <2> QED
    BY <2>1 DEF RowsInv, Settled
<1> QED
  BY <1>1, <1>2, <1>3 DEF RowsNext

LEMMA RowsAreUploads == RowsSpec => Spec
<1>1. RowsInit => Init
  BY DEF RowsInit
<1>2. [RowsNext]_rowsVars => [Next]_vars
  <2> SUFFICES ASSUME [RowsNext]_rowsVars PROVE [Next]_vars
    OBVIOUS
  <2>1. ASSUME NEW u \in Uploads, AcceptsNone(u) PROVE Next
    BY <2>1 DEF AcceptsNone, Next, Work
  <2>2. ASSUME NEW u \in Uploads, NEW row \in Rows, AcceptsRow(u, row) PROVE Next
    BY <2>2 DEF AcceptsRow, Next, Work
  <2>3. CASE UNCHANGED rowsVars
    BY <2>3 DEF rowsVars
  <2> QED
    BY <2>1, <2>2, <2>3 DEF RowsNext
<1> QED
  BY <1>1, <1>2, PTL DEF RowsSpec, Spec

(* Whatever uploads run side by side and wherever they are given up, the   *)
(* table holds what was there and what each accepted up to its last        *)
(* transaction: everything when it answered 200, whole chunks from the     *)
(* first when it answered 413 or 500.                                      *)
THEOREM TableIsOfAcceptedRows == RowsSpec => []TableHoldsWhatWasAccepted
<1>1. RowsInv /\ BulkInv => TableHoldsWhatWasAccepted
  <2> SUFFICES ASSUME RowsInv, BulkInv, NEW u \in Uploads
               PROVE  /\ status[u] = 200 => Settled(u) = Len(accepted[u])
                      /\ status[u] \in {413, 500} =>
                            \E n \in 0..Settled(u) : Settled(u) = n * ChunkSize
    BY DEF RowsInv, TableHoldsWhatWasAccepted
  <2>1. accepted[u] \in Seq(Rows) /\ Len(accepted[u]) \in Nat /\ Len(<<>>) = 0
    BY DEF RowsInv
  <2>2. status[u] = 200 => chunk[u] = <<>>
    BY DEF BulkInv, UploadOK
  <2>3. status[u] \in {413, 500} => WholeChunks(Settled(u))
    BY DEF RowsInv, RowsOK, Settled
  <2>4. status[u] = 200 => Settled(u) = Len(accepted[u])
    <3>1. chunk[u] = <<>> => Settled(u) = Len(accepted[u]) - 0
      BY <2>1, Zenon DEF Settled
    <3> QED
      BY <2>1, <2>2, <3>1
  <2> QED
    BY <2>3, <2>4 DEF WholeChunks
<1> QED
  BY <1>1, RowsAtFirst, RowsStep, RowsAreUploads, BulkAlways, PTL DEF RowsSpec

-----------------------------------------------------------------------------
(* The counts of all uploads together.                                     *)

(* The names u counts as inserted are own[u], and nobody else's. *)
Owns(own, f) ==
    /\ \A u \in Uploads : IsFiniteSet(own[u]) /\ Cardinality(own[u]) = f[u].inserted
    /\ \A u, v \in Uploads : u # v => own[u] \cap own[v] = {}

SumInv ==
    /\ \E own \in [Uploads -> SUBSET profiles] : Owns(own, summary)
    /\ \A u \in Uploads : ReasonTotal(summary[u].reasons) = summary[u].skipped

LEMMA SkipTotals ==
    ASSUME NEW s \in Summary, NEW why \in Reasons, NEW n \in Nat,
           ReasonTotal(s.reasons) = s.skipped
    PROVE  ReasonTotal(Skip(s, why, n).reasons) = Skip(s, why, n).skipped
<1>1. PICK r, q : r \in [Reasons -> Nat] /\ r = s.reasons /\ q = [r EXCEPT ![why] = r[why] + n]
  BY DEF Summary
<1>2. Skip(s, why, n).reasons = q
  BY <1>1 DEF Skip, Summary
<1>3. Skip(s, why, n).skipped = s.skipped + n
  BY SkipCounts
<1>4. ReasonTotal(q) = ReasonTotal(r) + n
  BY <1>1 DEF ReasonTotal, Reasons
<1> QED
  BY <1>1, <1>2, <1>3, <1>4

LEMMA SumInit == Init => SumInv
<1> SUFFICES ASSUME Init PROVE SumInv
  OBVIOUS
<1>1. NewSummary.inserted = 0 /\ NewSummary.skipped = 0
      /\ NewSummary.reasons = [w \in Reasons |-> 0]
  BY DEF NewSummary
<1>2. ReasonTotal(NewSummary.reasons) = 0
  BY <1>1 DEF ReasonTotal, Reasons
<1>3. Owns([u \in Uploads |-> {}], summary)
  BY <1>1, FS_EmptySet DEF Init, Owns
<1>4. [u \in Uploads |-> {}] \in [Uploads -> SUBSET profiles]
  OBVIOUS
<1> QED
  BY <1>1, <1>2, <1>3, <1>4 DEF Init, SumInv

(* A step that counts a row, or none, and inserts nothing. *)
LEMMA NothingInserted ==
    ASSUME SumInv, BulkInv, profiles' = profiles, NEW u \in Uploads, NEW s \in Summary,
           summary' = [summary EXCEPT ![u] = s], s.inserted = summary[u].inserted,
           ReasonTotal(s.reasons) = s.skipped
    PROVE  SumInv'
<1>1. \A v \in Uploads : summary'[v] = IF v = u THEN s ELSE summary[v]
  BY DEF BulkInv, TypeOK
<1>2. \A v \in Uploads : summary'[v].inserted = summary[v].inserted
  BY <1>1
<1>3. \A own : Owns(own, summary) => Owns(own, summary')
  BY <1>2 DEF Owns
<1> QED
  BY <1>1, <1>3 DEF SumInv

LEMMA SumStep == SumInv /\ BulkInv /\ [Next]_vars => SumInv'
<1> SUFFICES ASSUME SumInv, BulkInv, [Next]_vars PROVE SumInv'
  OBVIOUS
<1>1. ASSUME profiles' = profiles, summary' = summary PROVE SumInv'
  BY <1>1 DEF SumInv, Owns
<1>2. ASSUME NEW u \in Uploads,
             \/ Open(u) \/ BadHeader(u) \/ ReadEOF(u) \/ FlushFails(u)
             \/ Finish(u) \/ Bump(u) \/ BodyBreaks(u)
      PROVE  SumInv'
  BY <1>1, <1>2 DEF Open, BadHeader, ReadEOF, FlushFails, Finish, Bump, BodyBreaks
<1>3. ASSUME NEW u \in Uploads, NEW why \in Reasons, profiles' = profiles,
             summary' = [summary EXCEPT ![u] = Skip(Counted(summary[u]), why, 1)]
      PROVE  SumInv'
  <2>1. PICK m \in Summary : m = Counted(summary[u]) /\ m.inserted = summary[u].inserted
                                /\ ReasonTotal(m.reasons) = m.skipped
    <3>1. summary[u] \in Summary
      BY DEF BulkInv, TypeOK
    <3>2. Counted(summary[u]).reasons = summary[u].reasons
      BY <3>1 DEF Counted, Summary
    <3> QED
      BY <3>1, <3>2, OneRowMore DEF SumInv
  <2>2. ReasonTotal(Skip(m, why, 1).reasons) = Skip(m, why, 1).skipped
    BY <2>1, SkipTotals
  <2>3. Skip(m, why, 1) \in Summary /\ Skip(m, why, 1).inserted = summary[u].inserted
    BY <2>1, SkipCounts
  <2> QED
    BY <1>3, <2>1, <2>2, <2>3, NothingInserted
<1>4. ASSUME NEW u \in Uploads, profiles' = profiles,
             summary' = [summary EXCEPT ![u] = Counted(summary[u])]
      PROVE  SumInv'
  <2>1. summary[u] \in Summary
    BY DEF BulkInv, TypeOK
  <2>2. Counted(summary[u]).reasons = summary[u].reasons
    BY <2>1 DEF Counted, Summary
  <2>3. ReasonTotal(Counted(summary[u]).reasons) = Counted(summary[u]).skipped
    BY <2>1, <2>2, OneRowMore DEF SumInv
  <2> QED
    BY <1>4, <2>1, <2>3, OneRowMore, NothingInserted
<1>5. ASSUME NEW u \in Uploads, ReadMalformed(u) \/ ReadBroken(u) PROVE SumInv'
  <2>1. "malformed_row" \in Reasons
    BY DEF Reasons
  <2>2. profiles' = profiles /\ Malformed(u)
    BY <1>5 DEF ReadMalformed, ReadBroken
  <2>3. summary' = [summary EXCEPT ![u] = Skip(Counted(summary[u]), "malformed_row", 1)]
    BY <2>2 DEF Malformed
  <2> QED
    BY <1>3, <2>1, <2>2, <2>3
<1>6. ASSUME NEW u \in Uploads, NEW row \in Rows, ReadInvalid(u, row) PROVE SumInv'
  <2>1. /\ profiles' = profiles
        /\ summary' = [summary EXCEPT ![u] = Skip(Counted(summary[u]), SkipReason(row), 1)]
    BY <1>6 DEF ReadInvalid
  <2> QED
    BY <1>3, <2>1, ReasonFound
<1>7. ASSUME NEW u \in Uploads,
             ReadTooMany(u) \/ \E row \in Rows : ReadValid(u, row)
      PROVE  SumInv'
  <2>1. profiles' = profiles /\ summary' = [summary EXCEPT ![u] = Counted(summary[u])]
    BY <1>7 DEF ReadTooMany, ReadValid
  <2> QED
    BY <1>4, <2>1
<1>8. ASSUME NEW u \in Uploads, Flush(u) PROVE SumInv'
  <2>1. PICK s \in Summary, ch \in Seq(Rows) :
           /\ s = summary[u] /\ ch = chunk[u]
           /\ s.total \in Nat /\ s.inserted \in Nat /\ s.skipped \in Nat /\ Len(ch) \in Nat
           /\ UploadOK(pc[u], ch, s, status[u])
    BY OfUpload
  <2>2. PICK n \in Nat : n = Cardinality(Added(ch)) /\ n <= Len(ch) /\ IsFiniteSet(Added(ch))
    BY AddedBounded
  <2>3. PICK d \in Nat : d = Len(ch) - n
    BY <2>1, <2>2
  <2>4. PICK m \in Summary : m = Inserted(s, n) /\ m.inserted = s.inserted + n
                                /\ ReasonTotal(m.reasons) = m.skipped
    <3>1. Inserted(s, n) \in Summary /\ Inserted(s, n).inserted = s.inserted + n
          /\ Inserted(s, n).reasons = s.reasons /\ Inserted(s, n).skipped = s.skipped
      BY <2>1 DEF Summary, Inserted
    <3>2. ReasonTotal(s.reasons) = s.skipped
      BY <2>1 DEF SumInv
    <3> QED
      BY <3>1, <3>2
  <2>5. PICK k \in Summary : k = Skip(m, "duplicate_name", d) /\ k.inserted = s.inserted + n
                                /\ ReasonTotal(k.reasons) = k.skipped
    <3>1. "duplicate_name" \in Reasons
      BY DEF Reasons
    <3>2. Skip(m, "duplicate_name", d) \in Summary
          /\ Skip(m, "duplicate_name", d).inserted = s.inserted + n
      BY <2>4, <3>1, SkipCounts
    <3>3. ReasonTotal(Skip(m, "duplicate_name", d).reasons) = Skip(m, "duplicate_name", d).skipped
      BY <2>4, <3>1, SkipTotals
    <3> QED
      BY <3>2, <3>3
  <2>6. summary' = [summary EXCEPT ![u] = k] /\ profiles' = profiles \cup Added(ch)
    BY <1>8, <2>1, <2>2, <2>3, <2>4, <2>5 DEF Flush
  <2>7. \A v \in Uploads : summary'[v] = IF v = u THEN k ELSE summary[v]
    BY <2>6 DEF BulkInv, TypeOK
  <2>8. PICK own \in [Uploads -> SUBSET profiles] : Owns(own, summary)
    BY DEF SumInv
  <2>9. PICK more : more = [own EXCEPT ![u] = own[u] \cup Added(ch)]
    OBVIOUS
  <2>10. more \in [Uploads -> SUBSET profiles']
    BY <2>6, <2>9
  <2>11. \A v \in Uploads : more[v] = IF v = u THEN own[u] \cup Added(ch) ELSE own[v]
    BY <2>9
  <2>12. Added(ch) \cap profiles = {}
    BY DEF Added
  <2>13. IsFiniteSet(own[u] \cup Added(ch)) /\ Cardinality(own[u] \cup Added(ch)) = k.inserted
    <3>1. IsFiniteSet(own[u]) /\ Cardinality(own[u]) = s.inserted
      BY <2>1, <2>8 DEF Owns
    <3>2. own[u] \cap Added(ch) = {}
      BY <2>12
    <3>3. Cardinality(own[u] \cap Added(ch)) = 0
      BY <3>2, FS_EmptySet
    <3>4. /\ IsFiniteSet(own[u] \cup Added(ch))
          /\ Cardinality(own[u] \cup Added(ch))
                = Cardinality(own[u]) + Cardinality(Added(ch)) - Cardinality(own[u] \cap Added(ch))
      BY <2>2, <3>1, FS_Union
    <3> QED
      BY <2>1, <2>2, <2>5, <3>1, <3>3, <3>4
  <2>14. \A v, w \in Uploads : v # w => more[v] \cap more[w] = {}
    BY <2>8, <2>11, <2>12 DEF Owns
  <2>15. \A v \in Uploads : IsFiniteSet(more[v]) /\ Cardinality(more[v]) = summary'[v].inserted
    BY <2>7, <2>8, <2>11, <2>13 DEF Owns
  <2>16. \A v \in Uploads : ReasonTotal(summary'[v].reasons) = summary'[v].skipped
    BY <2>5, <2>7 DEF SumInv
  <2>17. Owns(more, summary')
    BY <2>14, <2>15 DEF Owns
  <2> QED
    BY <2>10, <2>16, <2>17 DEF SumInv
<1>9. CASE UNCHANGED vars
  BY <1>1, <1>9 DEF vars
<1> QED
  BY <1>2, <1>5, <1>6, <1>7, <1>8, <1>9 DEF Next, Work

(* The names counted by the uploads are distinct names of the table, and   *)
(* the reasons an upload reports add up.                                   *)
THEOREM CountsAreOfNames == Spec => []CountsAddUp
<1>1. SumInv => CountsAddUp
  BY DEF SumInv, Owns, CountsAddUp
<1> QED
  BY <1>1, SumInit, SumStep, BulkAlways, PTL DEF Spec

-----------------------------------------------------------------------------
(* The uploads are imports of ProfileService.                              *)

HistoryInv ==
    /\ BulkInv
    /\ epoch \in Nat /\ acked \in Nat /\ lost \in Nat
    /\ mine \in [Uploads -> Nat]
    /\ epoch <= Cardinality(profiles)
    /\ \A u \in Uploads :
          /\ mine[u] > 0 <=> summary[u].inserted > 0
          /\ pc[u] = "idle" => mine[u] = 0

LEMMA HistoryStarts == HistoryInit => HistoryInv
<1> SUFFICES ASSUME HistoryInit PROVE HistoryInv
  OBVIOUS
<1>1. BulkInv
  BY BulkInit DEF HistoryInit
<1>2. IsFiniteSet(profiles) /\ Cardinality(profiles) \in Nat
  BY NamesAssumption, FS_Subset, FS_CardinalityType DEF HistoryInit, Init
<1>3. \A u \in Uploads : summary[u].inserted = 0
  BY DEF HistoryInit, Init, NewSummary
<1> QED
  BY <1>1, <1>2, <1>3 DEF HistoryInit, HistoryInv

(* Every step of the history is a step of the uploads. *)
LEMMA HistoryMoves == [HistoryNext]_<<vars, histories>> => [Next]_vars
BY DEF HistoryNext, Commits, GivesUp, Bumps, Proceeds, Next, Work

(* The table holds finitely many names. *)
LEMMA TableIsFinite ==
    ASSUME BulkInv
    PROVE  /\ IsFiniteSet(profiles) /\ Cardinality(profiles) \in Nat
           /\ Cardinality(Names) \in Nat /\ Cardinality(profiles) <= Cardinality(Names)
<1>1. profiles \in SUBSET Names
  BY DEF BulkInv, TypeOK
<1> QED
  BY <1>1, NamesAssumption, FS_Subset, FS_CardinalityType

(* A flush that adds a name makes the table larger. *)
LEMMA TableGrows ==
    ASSUME BulkInv, BulkInv', NEW u \in Uploads, Flush(u)
    PROVE  /\ Cardinality(profiles) <= Cardinality(profiles')
           /\ Added(chunk[u]) # {} => Cardinality(profiles) < Cardinality(profiles')
<1>1. profiles' = profiles \cup Added(chunk[u]) /\ Added(chunk[u]) \cap profiles = {}
  BY DEF Flush, Added
<1>2. /\ IsFiniteSet(profiles) /\ IsFiniteSet(profiles')
      /\ Cardinality(profiles) \in Nat /\ Cardinality(profiles') \in Nat
  <2>1. profiles' \in SUBSET Names
    BY DEF BulkInv, TypeOK
  <2> QED
    BY <2>1, TableIsFinite, NamesAssumption, FS_Subset, FS_CardinalityType
<1>3. /\ Cardinality(profiles) <= Cardinality(profiles')
      /\ Cardinality(profiles) = Cardinality(profiles') => profiles = profiles'
  BY <1>1, <1>2, FS_Subset
<1>4. Added(chunk[u]) # {} => profiles # profiles'
  BY <1>1
<1> QED
  BY <1>2, <1>3, <1>4

(* What a flush inserts is what the table gains. *)
LEMMA FlushCounts ==
    ASSUME BulkInv, NEW u \in Uploads, Flush(u)
    PROVE  \E k \in Summary :
              /\ summary' = [summary EXCEPT ![u] = k]
              /\ k.inserted = summary[u].inserted + Cardinality(Added(chunk[u]))
<1>1. PICK s \in Summary, ch \in Seq(Rows) :
         /\ s = summary[u] /\ ch = chunk[u]
         /\ s.total \in Nat /\ s.inserted \in Nat /\ s.skipped \in Nat /\ Len(ch) \in Nat
         /\ UploadOK(pc[u], ch, s, status[u])
  BY OfUpload
<1>2. PICK n \in Nat : n = Cardinality(Added(ch)) /\ n <= Len(ch)
  BY AddedBounded
<1>3. PICK d \in Nat : d = Len(ch) - n
  BY <1>1, <1>2
<1>4. PICK m \in Summary : m = Inserted(s, n) /\ m.inserted = s.inserted + n
  <2>1. Inserted(s, n) \in Summary
    BY DEF Summary, Inserted
  <2> QED
    BY <2>1 DEF Summary, Inserted
<1>5. PICK k \in Summary : k = Skip(m, "duplicate_name", d) /\ k.inserted = m.inserted
  <2>1. "duplicate_name" \in Reasons
    BY DEF Reasons
  <2> QED
    BY <2>1, SkipCounts
<1>6. summary' = [summary EXCEPT ![u] = k]
  BY <1>1, <1>2, <1>3, <1>4, <1>5 DEF Flush
<1> QED
  BY <1>1, <1>2, <1>4, <1>5, <1>6

(* Steps other than a flush insert nothing and leave the table alone. *)
LEMMA OnlyFlushInserts ==
    ASSUME BulkInv, NEW u \in Uploads, GivesUp(u) \/ Bumps(u) \/ Proceeds(u)
    PROVE  /\ profiles' = profiles
           /\ \A v \in Uploads : summary'[v].inserted = summary[v].inserted
<1>1. profiles' = profiles
  BY DEF GivesUp, Bumps, Proceeds, BodyBreaks, Open, BadHeader, ReadMalformed, ReadBroken,
         ReadTooMany, ReadInvalid, ReadValid, ReadEOF, FlushFails, Finish, Bump
<1>2. \A v \in Uploads : summary[v] \in Summary
  BY DEF BulkInv, TypeOK
<1>3. CASE summary' = summary
  BY <1>1, <1>3
<1>4. ASSUME NEW why \in Reasons, summary' = [summary EXCEPT ![u] = Skip(Counted(summary[u]), why, 1)]
      PROVE  \A v \in Uploads : summary'[v].inserted = summary[v].inserted
  <2>1. Skip(Counted(summary[u]), why, 1).inserted = summary[u].inserted
    BY <1>2, OneRowMore, SkipCounts
  <2> QED
    BY <1>4, <2>1 DEF BulkInv, TypeOK
<1>5. ASSUME summary' = [summary EXCEPT ![u] = Counted(summary[u])]
      PROVE  \A v \in Uploads : summary'[v].inserted = summary[v].inserted
  BY <1>2, <1>5, OneRowMore DEF BulkInv, TypeOK
<1>6. CASE ReadMalformed(u) \/ ReadBroken(u)
  <2>1. "malformed_row" \in Reasons
    BY DEF Reasons
  <2>2. summary' = [summary EXCEPT ![u] = Skip(Counted(summary[u]), "malformed_row", 1)]
    BY <1>6 DEF ReadMalformed, ReadBroken, Malformed
  <2> QED
    BY <1>1, <1>4, <2>1, <2>2
<1>7. ASSUME NEW row \in Rows, ReadInvalid(u, row)
      PROVE  \A v \in Uploads : summary'[v].inserted = summary[v].inserted
  <2>1. summary' = [summary EXCEPT ![u] = Skip(Counted(summary[u]), SkipReason(row), 1)]
    BY <1>7 DEF ReadInvalid
  <2> QED
    BY <1>4, <2>1, ReasonFound
<1>8. CASE ReadTooMany(u) \/ \E row \in Rows : ReadValid(u, row)
  <2>1. summary' = [summary EXCEPT ![u] = Counted(summary[u])]
    BY <1>8 DEF ReadTooMany, ReadValid
  <2> QED
    BY <1>1, <1>5, <2>1
<1>9. CASE \/ Open(u) \/ BadHeader(u) \/ ReadEOF(u) \/ FlushFails(u)
           \/ Finish(u) \/ Bump(u) \/ BodyBreaks(u)
  BY <1>3, <1>9 DEF Open, BadHeader, ReadEOF, FlushFails, Finish, Bump, BodyBreaks
<1> QED
  BY <1>1, <1>6, <1>7, <1>8, <1>9 DEF GivesUp, Bumps, Proceeds

(* HistoryInv is inductive. *)
LEMMA HistoryStep == HistoryInv /\ [HistoryNext]_<<vars, histories>> => HistoryInv'
<1> SUFFICES ASSUME HistoryInv, [HistoryNext]_<<vars, histories>> PROVE HistoryInv'
  OBVIOUS
<1>1. BulkInv /\ BulkInv'
  BY HistoryMoves, BulkStep DEF HistoryInv
<1>2. ASSUME NEW u \in Uploads, Commits(u) PROVE HistoryInv'
  <2>1. Flush(u) /\ Cardinality(Added(chunk[u])) \in Nat /\ IsFiniteSet(Added(chunk[u]))
    <3>1. chunk[u] \in Seq(Rows)
      BY <1>1 DEF BulkInv, TypeOK
    <3> QED
      BY <1>2, <3>1, AddedBounded DEF Commits
  <2>2. /\ Cardinality(profiles) <= Cardinality(profiles')
        /\ Added(chunk[u]) # {} => Cardinality(profiles) < Cardinality(profiles')
        /\ Cardinality(profiles) \in Nat /\ Cardinality(profiles') \in Nat
    <3>1. Cardinality(profiles') \in Nat
      <4>1. profiles' \in SUBSET Names
        BY <1>1 DEF BulkInv, TypeOK
      <4> QED
        BY <4>1, NamesAssumption, FS_Subset, FS_CardinalityType
    <3> QED
      BY <1>1, <2>1, <3>1, TableGrows, TableIsFinite
  <2>3. PICK k \in Summary :
           /\ summary' = [summary EXCEPT ![u] = k]
           /\ k.inserted = summary[u].inserted + Cardinality(Added(chunk[u]))
    BY <1>1, <2>1, FlushCounts
  <2>4. \A v \in Uploads : summary[v].inserted \in Nat /\ summary'[v].inserted \in Nat
    BY <1>1 DEF BulkInv, TypeOK, Summary
  <2>5. \A v \in Uploads : summary'[v] = IF v = u THEN k ELSE summary[v]
    BY <1>1, <2>3 DEF BulkInv, TypeOK
  <2>6. pc[u] # "idle" /\ \A v \in Uploads : pc'[v] = "idle" => pc[v] = "idle" /\ v # u
    BY <1>1, <2>1 DEF Flush, Goto, BulkInv, TypeOK
  <2>7. CASE Added(chunk[u]) = {}
    <3>1. Cardinality(Added(chunk[u])) = 0
      BY <2>7, FS_EmptySet
    <3>2. \A v \in Uploads : summary'[v].inserted = summary[v].inserted
      BY <2>3, <2>4, <2>5, <3>1
    <3>3. UNCHANGED histories
      BY <1>2, <2>7 DEF Commits, histories
    <3>4. epoch' <= Cardinality(profiles')
      BY <2>2, <3>3 DEF HistoryInv, histories
    <3> QED
      BY <1>1, <2>6, <3>2, <3>3, <3>4 DEF HistoryInv, histories
  <2>8. CASE Added(chunk[u]) # {}
    <3>1. Cardinality(Added(chunk[u])) > 0
      BY <2>1, <2>8, FS_EmptySet
    <3>2. /\ epoch' = epoch + 1 /\ mine' = [mine EXCEPT ![u] = epoch + 1]
          /\ acked' = acked /\ lost' = lost
      BY <1>2, <2>8 DEF Commits
    <3>3. epoch' \in Nat /\ epoch' > 0 /\ epoch' <= Cardinality(profiles')
      BY <2>2, <2>8, <3>2 DEF HistoryInv
    <3>4. \A v \in Uploads : mine'[v] = IF v = u THEN epoch + 1 ELSE mine[v]
      BY <3>2 DEF HistoryInv
    <3>5. summary'[u].inserted > 0
      BY <2>3, <2>4, <2>5, <3>1, <2>1
    <3>6. \A v \in Uploads : mine'[v] > 0 <=> summary'[v].inserted > 0
      BY <2>5, <3>2, <3>3, <3>4, <3>5 DEF HistoryInv
    <3>7. \A v \in Uploads : pc'[v] = "idle" => mine'[v] = 0
      BY <2>6, <3>4 DEF HistoryInv
    <3>8. mine' \in [Uploads -> Nat]
      BY <3>2, <3>3 DEF HistoryInv
    <3> QED
      BY <1>1, <3>2, <3>3, <3>6, <3>7, <3>8 DEF HistoryInv
  <2> QED
    BY <2>7, <2>8
<1>3. ASSUME NEW u \in Uploads, GivesUp(u) \/ Bumps(u) \/ Proceeds(u) PROVE HistoryInv'
  <2>1. /\ profiles' = profiles
        /\ \A v \in Uploads : summary'[v].inserted = summary[v].inserted
    BY <1>1, <1>3, OnlyFlushInserts
  <2>2. \A v \in Uploads : pc'[v] = "idle" => pc[v] = "idle"
    BY <1>1, <1>3 DEF GivesUp, Bumps, Proceeds, BulkInv, TypeOK, Goto, Answer, BodyBreaks, Open,
                BadHeader, ReadMalformed, ReadBroken, ReadTooMany, ReadInvalid, ReadValid,
                ReadEOF, FlushFails, Finish, Bump
  <2>3. epoch' = epoch /\ mine' = mine
    BY <1>3 DEF GivesUp, Bumps, Proceeds, histories
  <2>4. acked' \in Nat /\ lost' \in Nat
    BY <1>3 DEF GivesUp, Bumps, Proceeds, histories, HistoryInv, Later
  <2> QED
    BY <1>1, <2>1, <2>2, <2>3, <2>4 DEF HistoryInv
<1>4. CASE UNCHANGED <<vars, histories>>
  BY <1>1, <1>4 DEF HistoryInv, vars, histories
<1> QED
  BY <1>2, <1>3, <1>4 DEF HistoryNext

LEMMA HistoryAlways == HistorySpec => []HistoryInv
BY HistoryStarts, HistoryStep, PTL DEF HistorySpec

(* The mapping, where one upload has moved. *)
Moves(u, p, st, m) ==
    /\ pc' = [pc EXCEPT ![u] = p]
    /\ status' = [status EXCEPT ![u] = st]
    /\ mine' = [mine EXCEPT ![u] = m]

LEMMA PlacesMove ==
    ASSUME HistoryInv, NEW u \in Uploads, NEW p, NEW st, NEW m, Moves(u, p, st, m)
    PROVE  /\ places' = [places EXCEPT ![u] = Place(p)]
           /\ calls' = [calls EXCEPT ![u] = CallOf(p, m)]
           /\ replies' = [replies EXCEPT ![u] = ReplyOf(st)]
<1>1. \A v \in Uploads : /\ pc'[v] = IF v = u THEN p ELSE pc[v]
                         /\ status'[v] = IF v = u THEN st ELSE status[v]
                         /\ mine'[v] = IF v = u THEN m ELSE mine[v]
  BY DEF HistoryInv, BulkInv, TypeOK, Moves
<1>2. places' = [places EXCEPT ![u] = Place(p)]
  <2>1. places' = [v \in Uploads |-> Place(pc'[v])]
    BY DEF places, Place
  <2>2. places' = [v \in Uploads |-> IF v = u THEN Place(p) ELSE Place(pc[v])]
    BY <1>1, <2>1
  <2> QED
    BY <2>2 DEF places
<1>3. calls' = [calls EXCEPT ![u] = CallOf(p, m)]
  <2>1. calls' = [v \in Uploads |-> CallOf(pc'[v], mine'[v])]
    BY DEF calls, CallOf, Place, CallWith
  <2>2. calls' = [v \in Uploads |-> IF v = u THEN CallOf(p, m) ELSE CallOf(pc[v], mine[v])]
    BY <1>1, <2>1
  <2> QED
    BY <2>2 DEF calls
<1>4. replies' = [replies EXCEPT ![u] = ReplyOf(st)]
  <2>1. replies' = [v \in Uploads |-> ReplyOf(status'[v])]
    BY DEF replies, ReplyOf
  <2>2. replies' = [v \in Uploads |-> IF v = u THEN ReplyOf(st) ELSE ReplyOf(status[v])]
    BY <1>1, <2>1
  <2> QED
    BY <2>2 DEF replies
<1> QED
  BY <1>2, <1>3, <1>4

(* The calls and replies of ProfileService as records of the mapping. *)
LEMMA CallsAre ==
    /\ Service!NoCall = CallWith(0, 0)
    /\ [Service!NoCall EXCEPT !.ok = 200] = CallWith(200, 0)
    /\ \A m, n \in Nat : [CallWith(200, m) EXCEPT !.mine = n] = CallWith(200, n)
    /\ \A m \in Nat : CallWith(200, m).mine = m /\ CallWith(200, m).ok = 200
<1> DEFINE k == CHOOSE x \in {"list"} : TRUE
           n0 == CHOOSE n \in Names : TRUE
           Calls == [key : {k}, name : {n0}, getNs : Nat, setNs : Nat, total : Nat,
                     rows : Nat, mine : Nat, ok : Nat, since : Nat]
<1>1. Service!NoCall = CallWith(0, 0)
  BY DEF Service!NoCall, CallWith
<1>2. \A m, ok \in Nat :
         CallWith(ok, m) = [key |-> k, name |-> n0, getNs |-> 0, setNs |-> 0, total |-> 0,
                            rows |-> 0, mine |-> m, ok |-> ok, since |-> 0]
  BY DEF CallWith
<1> HIDE DEF k, n0
<1>3. \A m, ok \in Nat : CallWith(ok, m) \in Calls
  BY <1>2
<1>4. \A m, ok \in Nat : CallWith(ok, m).mine = m /\ CallWith(ok, m).ok = ok
  BY <1>2
<1>5. \A m, ok, n \in Nat : [CallWith(ok, m) EXCEPT !.mine = n] = CallWith(ok, n)
  BY <1>2, <1>3
<1>6. \A m, ok, n \in Nat : [CallWith(ok, m) EXCEPT !.ok = n] = CallWith(n, m)
  BY <1>2, <1>3
<1> QED
  BY <1>1, <1>4, <1>5, <1>6

LEMMA RepliesAre ==
    /\ \A code \in {0, 200, 413, 500} : Service!Status(code) = ReplyOf(code)
    /\ Service!Status(404) = ReplyOf(400)
<1>1. \A code \in {0, 200, 413, 500} : (IF code = 400 THEN 404 ELSE code) = code
  OBVIOUS
<1> QED
  BY <1>1 DEF Service!Status, ReplyOf

LEMMA MappedInit == HistoryInit => Service!Init
<1> SUFFICES ASSUME HistoryInit PROVE Service!Init
  OBVIOUS
<1>1. places = [u \in Uploads |-> "idle"]
  BY DEF HistoryInit, Init, places, Place
<1>2. calls = [u \in Uploads |-> Service!NoCall]
  BY CallsAre DEF HistoryInit, Init, calls, CallOf, Place
<1>3. replies = [u \in Uploads |-> Service!Status(0)]
  BY RepliesAre DEF HistoryInit, Init, replies
<1>4. profiles \in {s \in SUBSET Names :
          \A m, n \in s : [i \in Names |-> i][m] = [i \in Names |-> i][n] => m = n}
  BY DEF HistoryInit, Init
<1>5. bumps + 1 = 1 /\ epoch = 0 /\ acked = 0 /\ lost = 0 /\ begun = <<0>>
  BY DEF HistoryInit, Init
<1> QED
  BY <1>1, <1>2, <1>3, <1>4, <1>5 DEF Service!Init

(* An upload that moves on within its import changes nothing mapped. *)
LEMMA MappedStutter ==
    ASSUME HistoryInv, NEW u \in Uploads, NEW p, pc' = [pc EXCEPT ![u] = p],
           Place(p) = Place(pc[u]), UNCHANGED <<profiles, bumps, status, histories>>
    PROVE  UNCHANGED Service!vars
<1>1. Moves(u, p, status[u], mine[u])
  BY DEF HistoryInv, BulkInv, TypeOK, histories, Moves
<1>2. CallOf(p, mine[u]) = CallOf(pc[u], mine[u])
  BY DEF CallOf
<1>3. /\ places' = [places EXCEPT ![u] = Place(pc[u])]
      /\ calls' = [calls EXCEPT ![u] = CallOf(pc[u], mine[u])]
      /\ replies' = [replies EXCEPT ![u] = ReplyOf(status[u])]
  <2>1. /\ places' = [places EXCEPT ![u] = Place(p)]
        /\ calls' = [calls EXCEPT ![u] = CallOf(p, mine[u])]
        /\ replies' = [replies EXCEPT ![u] = ReplyOf(status[u])]
    BY <1>1, PlacesMove
  <2> QED
    BY <1>2, <2>1
<1>4. places' = places /\ calls' = calls /\ replies' = replies
  BY <1>3 DEF places, calls, replies
<1> QED
  BY <1>4 DEF Service!vars, histories

(* What the mapping makes of the values of one upload. *)
LEMMA MappedUpload ==
    ASSUME HistoryInv, NEW u \in Uploads
    PROVE  /\ places[u] = Place(pc[u])
           /\ calls[u] = CallOf(pc[u], mine[u])
           /\ mine[u] \in Nat /\ epoch \in Nat
           /\ epoch < Cardinality(Names) + 1
<1>1. epoch < Cardinality(Names) + 1
  BY TableIsFinite DEF HistoryInv
<1> QED
  BY <1>1 DEF HistoryInv, places, calls

LEMMA MappedOpen ==
    ASSUME HistoryInv, NEW u \in Uploads, Open(u), UNCHANGED histories
    PROVE  Service!ImportStart(u)
<1>1. /\ pc[u] = "idle" /\ pc' = [pc EXCEPT ![u] = "read"]
      /\ UNCHANGED <<profiles, bumps, status>>
  BY DEF Open, Goto
<1>2. Moves(u, "read", 0, 0)
  <2>1. status[u] = 0 /\ mine[u] = 0
    BY <1>1 DEF HistoryInv, BulkInv, UploadOK
  <2> QED
    BY <1>1, <2>1 DEF HistoryInv, BulkInv, TypeOK, histories, Moves
<1>3. /\ Place("read") = "import" /\ Place("idle") = "idle"
      /\ CallOf("read", 0) = CallWith(200, 0)
  BY DEF Place, CallOf
<1>4. /\ places' = [places EXCEPT ![u] = "import"]
      /\ calls' = [calls EXCEPT ![u] = [Service!NoCall EXCEPT !.ok = 200]]
      /\ replies' = [replies EXCEPT ![u] = Service!Status(0)]
  <2>1. /\ places' = [places EXCEPT ![u] = Place("read")]
        /\ calls' = [calls EXCEPT ![u] = CallOf("read", 0)]
        /\ replies' = [replies EXCEPT ![u] = ReplyOf(0)]
    BY <1>2, PlacesMove
  <2>2. CallOf("read", 0) = [Service!NoCall EXCEPT !.ok = 200]
    BY <1>3, CallsAre, Zenon
  <2>3. ReplyOf(0) = Service!Status(0)
    BY RepliesAre
  <2> QED
    BY <1>3, <2>1, <2>2, <2>3, Zenon
<1>5. /\ places[u] = "idle" /\ epoch < Cardinality(Names) + 1
  BY <1>1, <1>3, MappedUpload
<1> QED
  BY <1>1, <1>4, <1>5 DEF Service!ImportStart, Service!Goto, Service!NoWrite,
       Service!NoCacheChange, histories

(* An answer: the upload is idle to ProfileService, and its reply is code. *)
LEMMA MappedAnswer ==
    ASSUME HistoryInv, NEW u \in Uploads, NEW code \in {200, 400, 413, 500},
           Answer(u, code), mine' = mine
    PROVE  Service!Respond(u, Service!Status(IF code = 400 THEN 404 ELSE code))
<1>1. Moves(u, "done", code, mine[u])
  BY DEF Answer, Goto, HistoryInv, Moves
<1>2. Place("done") = "idle" /\ CallOf("done", mine[u]) = CallWith(0, 0)
  BY DEF Place, CallOf
<1>3. ReplyOf(code) = Service!Status(IF code = 400 THEN 404 ELSE code)
  BY RepliesAre
<1>4. /\ places' = [places EXCEPT ![u] = Place("done")]
      /\ calls' = [calls EXCEPT ![u] = CallOf("done", mine[u])]
      /\ replies' = [replies EXCEPT ![u] = ReplyOf(code)]
  BY <1>1, PlacesMove
<1> QED
  BY <1>2, <1>3, <1>4, CallsAre, ZenonT(60) DEF Service!Respond, Service!Goto

LEMMA MappedBadHeader ==
    ASSUME HistoryInv, NEW u \in Uploads, BadHeader(u), UNCHANGED histories
    PROVE  Service!AnswerAtOnce(u)
<1>1. /\ pc[u] = "idle" /\ Answer(u, 400) /\ UNCHANGED <<profiles, bumps>>
  BY DEF BadHeader
<1>2. places[u] = "idle"
  BY <1>1, MappedUpload DEF Place
<1>3. Service!Respond(u, Service!Status(404))
  BY <1>1, MappedAnswer DEF histories
<1> QED
  BY <1>1, <1>2, <1>3 DEF Service!AnswerAtOnce, Service!NoWrite, Service!NoCacheChange, histories

LEMMA MappedGivesUp ==
    ASSUME HistoryInv, NEW u \in Uploads, GivesUp(u)
    PROVE  Service!ImportAborts(u)
<1>1. PICK code \in {413, 500} : Answer(u, code)
  BY DEF GivesUp, ReadTooMany, FlushFails
<1>2. /\ pc[u] \in {"read", "flush", "lastFlush"} /\ UNCHANGED <<profiles, bumps>>
      /\ lost' = Later(lost, mine[u]) /\ UNCHANGED <<epoch, mine, acked, begun>>
  BY DEF GivesUp, ReadTooMany, FlushFails
<1>3. places[u] = "import" /\ calls[u].mine = mine[u]
  BY <1>2, MappedUpload, CallsAre DEF Place, CallOf
<1>4. Service!Respond(u, Service!Status(code))
  <2>1. code \in {200, 400, 413, 500} /\ (IF code = 400 THEN 404 ELSE code) = code
    BY <1>1
  <2>2. Service!Respond(u, Service!Status(IF code = 400 THEN 404 ELSE code))
    BY <1>1, <1>2, <2>1, MappedAnswer
  <2> QED
    BY <2>1, <2>2
<1>5. lost' = Service!Larger(lost, calls[u].mine)
  BY <1>2, <1>3 DEF Later, Service!Larger
<1> QED
  BY <1>1, <1>2, <1>3, <1>4, <1>5 DEF Service!ImportAborts, Service!NoCacheChange

LEMMA MappedBumps ==
    ASSUME HistoryInv, NEW u \in Uploads, Bumps(u)
    PROVE  Service!Bump(u)
<1>1. /\ pc[u] = "bump" /\ Answer(u, 200) /\ profiles' = profiles /\ bumps' = bumps + 1
      /\ acked' = Later(acked, mine[u]) /\ begun' = Append(begun, epoch)
      /\ UNCHANGED <<epoch, mine, lost>>
  BY DEF Bumps, Bump
<1>2. places[u] = "bump" /\ calls[u].mine = mine[u] /\ calls[u].ok = 200
  BY <1>1, MappedUpload, CallsAre DEF Place, CallOf
<1>3. Service!Respond(u, Service!Status(calls[u].ok))
  BY <1>1, <1>2, MappedAnswer
<1>4. acked' = Service!Larger(acked, calls[u].mine)
  BY <1>1, <1>2 DEF Later, Service!Larger
<1>5. (bumps + 1)' = (bumps + 1) + 1
  BY <1>1
<1> QED
  BY <1>1, <1>2, <1>3, <1>4, <1>5 DEF Service!Bump, Service!NoWrite

LEMMA MappedFinish ==
    ASSUME HistoryInv, NEW u \in Uploads, Finish(u), UNCHANGED histories
    PROVE  Service!ImportEnds(u)
<1>1. pc[u] = "finish" /\ UNCHANGED <<profiles, bumps>>
  BY DEF Finish
<1>2. places[u] = "import" /\ calls[u].mine = mine[u]
  BY <1>1, MappedUpload, CallsAre DEF Place, CallOf
<1>3. mine[u] > 0 <=> summary[u].inserted > 0
  BY DEF HistoryInv
<1>4. CASE summary[u].inserted > 0
  <2>1. Moves(u, "bump", status[u], mine[u])
    BY <1>4 DEF Finish, Goto, HistoryInv, BulkInv, TypeOK, histories, Moves
  <2>2. Place("bump") = "bump" /\ CallOf("bump", mine[u]) = CallOf(pc[u], mine[u])
    BY <1>1 DEF Place, CallOf
  <2>3. /\ places' = [places EXCEPT ![u] = "bump"]
        /\ calls' = [calls EXCEPT ![u] = CallOf(pc[u], mine[u])]
        /\ replies' = [replies EXCEPT ![u] = ReplyOf(status[u])]
    <3>1. /\ places' = [places EXCEPT ![u] = Place("bump")]
          /\ calls' = [calls EXCEPT ![u] = CallOf("bump", mine[u])]
          /\ replies' = [replies EXCEPT ![u] = ReplyOf(status[u])]
      BY <2>1, PlacesMove
    <3> QED
      BY <2>2, <3>1
  <2>4. calls' = calls /\ replies' = replies
    BY <2>3 DEF calls, replies
  <2> QED
    BY <1>1, <1>2, <1>3, <1>4, <2>3, <2>4 DEF Service!ImportEnds, Service!Goto,
         Service!NoWrite, Service!NoCacheChange, histories
<1>5. CASE ~ (summary[u].inserted > 0)
  <2>1. Answer(u, 200)
    BY <1>5 DEF Finish
  <2>2. Service!Respond(u, Service!Status(200))
    BY <2>1, MappedAnswer DEF histories
  <2> QED
    BY <1>1, <1>2, <1>3, <1>5, <2>2 DEF Service!ImportEnds, Service!NoWrite,
         Service!NoCacheChange, histories
<1> QED
  BY <1>4, <1>5

LEMMA MappedCommits ==
    ASSUME HistoryInv, HistoryInv', NEW u \in Uploads, Commits(u)
    PROVE  \/ \E rows \in SUBSET Names : Service!ImportFlush(u, rows)
           \/ UNCHANGED Service!vars
<1>1. /\ pc[u] \in {"flush", "lastFlush"} /\ profiles' = profiles \cup Added(chunk[u])
      /\ pc' = [pc EXCEPT ![u] = IF pc[u] = "flush" THEN "read" ELSE "finish"]
      /\ UNCHANGED <<status, bumps, acked, lost, begun>>
  BY DEF Commits, Flush, Goto
<1>2. PICK p : p = IF pc[u] = "flush" THEN "read" ELSE "finish"
  OBVIOUS
<1>3. Place(p) = "import" /\ Place(pc[u]) = "import" /\ pc' = [pc EXCEPT ![u] = p]
  BY <1>1, <1>2 DEF Place
<1>4. CASE Added(chunk[u]) = {}
  <2>1. UNCHANGED histories /\ profiles' = profiles
    BY <1>1, <1>4 DEF Commits, histories
  <2> QED
    BY <1>1, <1>3, <2>1, MappedStutter
<1>5. CASE Added(chunk[u]) # {}
  <2>1. Added(chunk[u]) \in SUBSET Names /\ ~ Added(chunk[u]) \subseteq profiles
    <3>1. profiles' \in SUBSET Names
      BY DEF HistoryInv, BulkInv, TypeOK
    <3> QED
      BY <1>1, <1>5, <3>1 DEF Added
  <2>2. epoch' = epoch + 1 /\ mine' = [mine EXCEPT ![u] = epoch + 1]
    BY <1>5 DEF Commits
  <2>3. Moves(u, p, status[u], epoch + 1)
    BY <1>1, <1>3, <2>2 DEF HistoryInv, BulkInv, TypeOK, Moves
  <2>4. CallOf(p, epoch + 1) = [calls[u] EXCEPT !.mine = epoch + 1]
    <3>1. epoch + 1 \in Nat /\ mine[u] \in Nat
      BY MappedUpload
    <3>2. calls[u] = CallWith(200, mine[u]) /\ CallOf(p, epoch + 1) = CallWith(200, epoch + 1)
      BY <1>3, MappedUpload DEF CallOf
    <3> QED
      BY <3>1, <3>2, CallsAre
  <2>5. /\ places' = [places EXCEPT ![u] = Place(pc[u])]
        /\ calls' = [calls EXCEPT ![u] = [calls[u] EXCEPT !.mine = epoch + 1]]
        /\ replies' = [replies EXCEPT ![u] = ReplyOf(status[u])]
    <3>1. /\ places' = [places EXCEPT ![u] = Place(p)]
          /\ calls' = [calls EXCEPT ![u] = CallOf(p, epoch + 1)]
          /\ replies' = [replies EXCEPT ![u] = ReplyOf(status[u])]
      BY <2>3, PlacesMove
    <3> QED
      BY <1>3, <2>4, <3>1
  <2>6. places' = places /\ replies' = replies
    BY <2>5 DEF places, replies
  <2>7. places[u] = "import" /\ epoch < Cardinality(Names) + 1
    BY <1>3, MappedUpload
  <2>8. Service!ImportFlush(u, Added(chunk[u]))
    BY <1>1, <2>1, <2>2, <2>5, <2>6, <2>7 DEF Service!ImportFlush, Service!Commit,
         Service!NoCacheChange
  <2> QED
    BY <2>1, <2>8
<1> QED
  BY <1>4, <1>5

(* Every step of an upload is one step of an import, or none. *)
LEMMA MappedStep ==
    HistoryInv /\ HistoryInv' /\ [HistoryNext]_<<vars, histories>>
        => [Service!Next]_Service!vars
<1> SUFFICES ASSUME HistoryInv, HistoryInv', [HistoryNext]_<<vars, histories>>
             PROVE  [Service!Next]_Service!vars
  OBVIOUS
<1>1. ASSUME NEW u \in Uploads, Service!Arrive(u) \/ Service!Handle(u)
      PROVE  Service!Next
  BY <1>1 DEF Service!Next
<1>2. ASSUME NEW u \in Uploads, Commits(u) PROVE [Service!Next]_Service!vars
  BY <1>1, <1>2, MappedCommits DEF Service!Handle
<1>3. ASSUME NEW u \in Uploads, GivesUp(u) PROVE [Service!Next]_Service!vars
  BY <1>1, <1>3, MappedGivesUp DEF Service!Handle
<1>4. ASSUME NEW u \in Uploads, Bumps(u) PROVE [Service!Next]_Service!vars
  BY <1>1, <1>4, MappedBumps DEF Service!Handle
<1>5. ASSUME NEW u \in Uploads, Proceeds(u) PROVE [Service!Next]_Service!vars
  <2>1. UNCHANGED histories
    BY <1>5 DEF Proceeds
  <2>2. CASE Open(u)
    BY <1>1, <2>1, <2>2, MappedOpen DEF Service!Arrive
  <2>3. CASE BadHeader(u)
    BY <1>1, <2>1, <2>3, MappedBadHeader DEF Service!Arrive
  <2>4. CASE Finish(u)
    BY <1>1, <2>1, <2>4, MappedFinish DEF Service!Handle
  <2>5. ASSUME NEW p, pc[u] = "read", pc' = [pc EXCEPT ![u] = p],
               p \in {"read", "flush", "lastFlush", "finish"},
               UNCHANGED <<profiles, bumps, status>>
        PROVE  UNCHANGED Service!vars
    <3>1. Place(p) = Place(pc[u])
      BY <2>5 DEF Place
    <3> QED
      BY <2>1, <2>5, <3>1, MappedStutter
  <2>6. pc \in [Uploads -> Locations]
    BY DEF HistoryInv, BulkInv, TypeOK
  <2>7. CASE ReadMalformed(u) \/ ReadBroken(u) \/ BodyBreaks(u)
             \/ \E row \in Rows : ReadInvalid(u, row)
    <3>1. pc[u] = "read" /\ pc' = pc /\ UNCHANGED <<profiles, bumps, status>>
      BY <2>7 DEF ReadMalformed, ReadBroken, BodyBreaks, ReadInvalid
    <3>2. pc' = [pc EXCEPT ![u] = "read"]
      BY <2>6, <3>1
    <3> QED
      BY <2>5, <3>1, <3>2
  <2>8. CASE ReadEOF(u) \/ \E row \in Rows : ReadValid(u, row)
    <3>1. PICK p \in {"read", "flush", "lastFlush", "finish"} : pc' = [pc EXCEPT ![u] = p]
      BY <2>8 DEF ReadEOF, ReadValid, Goto
    <3>2. pc[u] = "read" /\ UNCHANGED <<profiles, bumps, status>>
      BY <2>8 DEF ReadEOF, ReadValid
    <3> QED
      BY <2>5, <3>1, <3>2
  <2> QED
    BY <1>5, <2>2, <2>3, <2>4, <2>7, <2>8 DEF Proceeds
<1>6. CASE UNCHANGED <<vars, histories>>
  <2>1. UNCHANGED <<pc, status, mine, profiles, bumps, epoch, acked, lost, begun>>
    BY <1>6 DEF vars, histories
  <2>2. places' = places /\ calls' = calls /\ replies' = replies
    BY <2>1 DEF places, calls, replies, Place, CallOf, CallWith, ReplyOf
  <2> QED
    BY <2>1, <2>2 DEF Service!vars
<1> QED
  BY <1>2, <1>3, <1>4, <1>5, <1>6 DEF HistoryNext

(* The uploads of BulkImport, whatever rows they send, are imports as      *)
(* ProfileService says them.                                               *)
THEOREM EveryUploadIsAnImport == HistorySpec => UploadsAreImports
BY HistoryAlways, MappedInit, MappedStep, PTL DEF HistorySpec, UploadsAreImports, Service!Spec

-----------------------------------------------------------------------------
(* What ProfileService says of cache and table, said of the uploads.       *)

(* The current namespace began with some change of the table, no earlier   *)
(* than the last one acknowledged; the last change is bumped, given up, or *)
(* that of an upload under way.                                            *)
BumpInv ==
    /\ begun \in Seq(Nat) /\ Len(begun) = bumps + 1
    /\ begun[bumps + 1] <= epoch /\ acked <= begun[bumps + 1] /\ lost <= epoch
    /\ \A u \in Uploads : mine[u] <= epoch
    /\ \/ begun[bumps + 1] = epoch
       \/ lost = epoch
       \/ \E u \in Uploads : Place(pc[u]) # "idle" /\ mine[u] = epoch /\ epoch > 0

LEMMA BumpInit == HistoryInit => BumpInv
BY DEF HistoryInit, Init, BumpInv

LEMMA BumpStep == HistoryInv /\ BumpInv /\ [HistoryNext]_<<vars, histories>> => BumpInv'
<1> SUFFICES ASSUME HistoryInv, BumpInv, [HistoryNext]_<<vars, histories>> PROVE BumpInv'
  OBVIOUS
<1> USE DEF Place
<1>1. /\ epoch \in Nat /\ acked \in Nat /\ lost \in Nat /\ bumps \in Nat
      /\ mine \in [Uploads -> Nat] /\ pc \in [Uploads -> Locations]
      /\ begun \in Seq(Nat) /\ Len(begun) = bumps + 1 /\ begun[bumps + 1] \in Nat
  BY DEF HistoryInv, BulkInv, TypeOK, BumpInv
<1>2. ASSUME NEW u \in Uploads, Commits(u) PROVE BumpInv'
  <2>1. /\ bumps' = bumps /\ begun' = begun /\ acked' = acked /\ lost' = lost
        /\ \A v \in Uploads : pc'[v] = IF v = u THEN IF pc[u] = "flush" THEN "read" ELSE "finish"
                                                ELSE pc[v]
        /\ Place(pc[u]) = "import" /\ Place(pc'[u]) = "import"
    BY <1>1, <1>2 DEF Commits, Flush, Goto
  <2>2. CASE Added(chunk[u]) = {}
    <3>1. epoch' = epoch /\ mine' = mine
      BY <1>2, <2>2 DEF Commits
    <3>2. \A v \in Uploads : Place(pc[v]) # "idle" => Place(pc'[v]) # "idle"
      BY <2>1
    <3> QED
      BY <2>1, <3>1, <3>2 DEF BumpInv
  <2>3. CASE Added(chunk[u]) # {}
    <3>1. /\ epoch' = epoch + 1
          /\ \A v \in Uploads : mine'[v] = IF v = u THEN epoch + 1 ELSE mine[v]
      BY <1>1, <1>2, <2>3 DEF Commits
    <3>2. \A v \in Uploads : mine'[v] <= epoch'
      BY <1>1, <3>1 DEF BumpInv
    <3>3. begun[bumps + 1] <= epoch + 1 /\ lost <= epoch + 1
      BY <1>1 DEF BumpInv
    <3>4. mine'[u] = epoch' /\ epoch' > 0 /\ Place(pc'[u]) # "idle"
      BY <1>1, <2>1, <3>1
    <3> QED
      BY <1>1, <2>1, <3>1, <3>2, <3>3, <3>4 DEF BumpInv
  <2> QED
    BY <2>2, <2>3
<1>3. ASSUME NEW u \in Uploads, GivesUp(u) PROVE BumpInv'
  <2>1. /\ bumps' = bumps /\ UNCHANGED <<begun, acked, epoch, mine>>
        /\ lost' = Later(lost, mine[u])
        /\ \A v \in Uploads : v # u => pc'[v] = pc[v]
    BY <1>1, <1>3 DEF GivesUp, ReadTooMany, FlushFails, Answer, Goto
  <2>2. lost' <= epoch /\ (mine[u] = epoch => lost' = epoch) /\ (lost = epoch => lost' = epoch)
    BY <1>1, <2>1 DEF BumpInv, Later
  <2> QED
    BY <1>1, <2>1, <2>2 DEF BumpInv
<1>4. ASSUME NEW u \in Uploads, Bumps(u) PROVE BumpInv'
  <2>1. /\ bumps' = bumps + 1 /\ begun' = Append(begun, epoch) /\ acked' = Later(acked, mine[u])
        /\ UNCHANGED <<epoch, mine, lost>>
    BY <1>4 DEF Bumps, Bump
  <2>2. begun' \in Seq(Nat) /\ Len(begun') = bumps' + 1 /\ begun'[bumps' + 1] = epoch
    BY <1>1, <2>1
  <2>3. acked' <= epoch
    BY <1>1, <2>1 DEF BumpInv, Later
  <2> QED
    BY <1>1, <2>1, <2>2, <2>3 DEF BumpInv
<1>5. ASSUME NEW u \in Uploads, Proceeds(u) PROVE BumpInv'
  <2>1. UNCHANGED <<epoch, mine, acked, lost, begun>>
    BY <1>5 DEF Proceeds, histories
  <2>2. bumps' = bumps
    BY <1>5 DEF Proceeds, Open, BadHeader, ReadMalformed, ReadBroken, ReadInvalid, ReadValid,
                ReadEOF, Finish, BodyBreaks
  <2>3. \A v \in Uploads : v # u => pc'[v] = pc[v]
    BY <1>1, <1>5 DEF Proceeds, Open, BadHeader, ReadMalformed, ReadBroken, ReadInvalid,
                ReadValid, ReadEOF, Finish, BodyBreaks, Answer, Goto
  <2>4. Place(pc[u]) # "idle" /\ mine[u] > 0 => Place(pc'[u]) # "idle"
    <3>1. CASE Finish(u)
      BY <1>1, <3>1 DEF Finish, Goto, Answer, HistoryInv
    <3>2. CASE BadHeader(u)
      BY <3>2 DEF BadHeader
    <3>3. CASE ~ Finish(u) /\ ~ BadHeader(u)
      BY <1>1, <1>5, <3>3 DEF Proceeds, Open, ReadMalformed, ReadBroken, ReadInvalid,
                  ReadValid, ReadEOF, BodyBreaks, Goto
    <3> QED
      BY <3>1, <3>2, <3>3
  <2>5. \A v \in Uploads : Place(pc[v]) # "idle" /\ mine[v] > 0 => Place(pc'[v]) # "idle"
    BY <2>3, <2>4
  <2> QED
    BY <1>1, <2>1, <2>2, <2>5 DEF BumpInv
<1>6. CASE UNCHANGED <<vars, histories>>
  BY <1>6 DEF BumpInv, vars, histories
<1> QED
  BY <1>2, <1>3, <1>4, <1>5, <1>6 DEF HistoryNext

(* When no upload is under way, the last change one of them made is behind *)
(* a Bump, unless the upload that made it was given up.                    *)
THEOREM UploadsBumped == HistorySpec => []Service!UnbumpedOnlyByAbort
<1>1. BumpInv => Service!UnbumpedOnlyByAbort
  <2>1. \A u \in Uploads : places[u] = Place(pc[u])
    BY DEF places
  <2> QED
    BY <2>1 DEF BumpInv, Service!UnbumpedOnlyByAbort
<1> QED
  BY <1>1, BumpInit, BumpStep, HistoryAlways, PTL DEF HistorySpec

(* The rows of an upload that was answered 200 are behind a Bump.          *)
THEOREM UploadsAckedBumped == HistorySpec => []Service!AckedWritesBumped
<1>1. BumpInv => Service!AckedWritesBumped
  BY DEF BumpInv, Service!AckedWritesBumped
<1> QED
  BY <1>1, BumpInit, BumpStep, HistoryAlways, PTL DEF HistorySpec
=============================================================================
