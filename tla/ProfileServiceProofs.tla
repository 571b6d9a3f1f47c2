------------------------ MODULE ProfileServiceProofs ------------------------
(***************************************************************************)
(* Theorems of ProfileService, for any requests, names and cache keys:     *)
(* the type invariant, and FreshUnlessRaced with the inductive invariant   *)
(* it rests on.                                                            *)
(***************************************************************************)
EXTENDS ProfileService, TLAPS

-----------------------------------------------------------------------------
(* Each namespace began no later than now, and the current one covers every *)
(* acknowledged change.                                                     *)
NamespacesCover ==
    /\ acked <= bumps[namespace]
    /\ \A i \in 1..namespace : bumps[i] <= epoch

(* What a read under way has seen is no older than the namespace its Get    *)
(* mixed in, and that namespace no older than the request's own `since`.    *)
ReadCovered(r) ==
    /\ call[r].mine <= epoch
    /\ pc[r] \in {"lookup", "count", "rows", "set", "add"} =>
           /\ call[r].getNs \in 1..namespace
           /\ call[r].since <= bumps[call[r].getNs]
    /\ pc[r] \in {"exportCount", "exportRows"} => call[r].since <= epoch
    /\ pc[r] = "exportRows" => call[r].since <= call[r].total
    /\ pc[r] \in {"rows", "set", "add"} => bumps[call[r].getNs] <= call[r].total
    /\ pc[r] \in {"set", "add"} => bumps[call[r].getNs] <= call[r].rows
    /\ pc[r] = "add" => call[r].setNs \in 1..namespace

(* What FreshUnlessRaced says of one request. *)
FreshReply(r) ==
    reply[r].page /\ (reply[r].total < reply[r].since \/ reply[r].rows < reply[r].since)
        => reply[r].hit /\ reply[r].raced

(* So is what a filler left in the cache. *)
EntriesCovered ==
    \A e \in cache :
        /\ e.getNs \in 1..namespace
        /\ e.ns \in 1..namespace
        /\ bumps[e.getNs] <= e.total
        /\ bumps[e.getNs] <= e.rows

IInv == /\ TypeOK
        /\ NamespacesCover
        /\ \A r \in Reqs : ReadCovered(r)
        /\ EntriesCovered
        /\ \A r \in Reqs : FreshReply(r)

-----------------------------------------------------------------------------
(* A request begins, and is answered, with locals of the right type. *)
LEMMA StatusesType == {0, 200, 201, 204, 404, 413, 500} \subseteq Statuses
BY DEF Statuses

LEMMA NoCallType == NoCall \in Call
BY ConstantsNonEmpty, StatusesType DEF NoCall, Call

LEMMA StatusType == \A s \in Statuses : Status(s) \in Reply
BY DEF Status, Reply

LEMMA WriterCallType ==
    ASSUME NEW s \in Statuses
    PROVE  /\ \A n \in Names : [NoCall EXCEPT !.name = n, !.ok = s] \in Call
           /\ \A m \in Nat : [NoCall EXCEPT !.mine = m, !.ok = s] \in Call
           /\ [NoCall EXCEPT !.ok = s] \in Call
BY NoCallType DEF Call

(* A response leaves the request idle with no locals. *)
LEMMA RespondType ==
    ASSUME TypeOK, NEW r \in Reqs, NEW resp \in Reply, Respond(r, resp)
    PROVE  /\ pc' \in [Reqs -> PcValues]
           /\ call' \in [Reqs -> Call]
           /\ reply' \in [Reqs -> Reply]
BY NoCallType DEF TypeOK, Respond, Goto, PcValues

LEMMA TypeInit == Init => TypeOK
<1> SUFFICES ASSUME Init PROVE TypeOK
  OBVIOUS
<1>1. call \in [Reqs -> Call] /\ reply \in [Reqs -> Reply]
  BY NoCallType, StatusType, StatusesType DEF Init
<1>2. bumps \in Seq(Nat) /\ Len(bumps) = namespace
  BY DEF Init
<1> QED
  BY <1>1, <1>2 DEF Init, TypeOK, PcValues

LEMMA TypeNext == TypeOK /\ [Next]_vars => TypeOK'
<1> SUFFICES ASSUME TypeOK, [Next]_vars PROVE TypeOK'
  OBVIOUS
<1> USE DEF NoWrite, NoCacheChange
<1>1. ASSUME NEW r \in Reqs, NEW k \in Keys, ListStart(r, k) PROVE TypeOK'
  <2>1. [NoCall EXCEPT !.key = k, !.getNs = namespace, !.since = acked] \in Call
    BY NoCallType DEF Call, TypeOK
  <2>2. Status(0) \in Reply
    BY StatusType, StatusesType
  <2> QED
    BY <1>1, <2>1, <2>2 DEF ListStart, Goto, TypeOK, PcValues
<1>2. ASSUME NEW r \in Reqs, NEW e \in cache, LookupHit(r, e) PROVE TypeOK'
  <2> DEFINE resp == [status |-> 200, page |-> TRUE, hit |-> TRUE,
                      raced |-> e.getNs # e.ns, total |-> e.total,
                      rows |-> e.rows, since |-> call[r].since]
  <2>1. e \in Entry /\ call[r] \in Call
    BY DEF TypeOK
  <2>2. resp \in Reply
    BY <2>1, StatusesType DEF Reply, Entry, Call
  <2>3. Respond(r, resp)
    BY <1>2 DEF LookupHit
  <2> QED
    BY <1>2, <2>2, <2>3, RespondType DEF LookupHit, TypeOK
<1>3. ASSUME NEW r \in Reqs, LookupMiss(r) PROVE TypeOK'
  BY <1>3 DEF LookupMiss, Goto, TypeOK, PcValues
<1>4. ASSUME NEW r \in Reqs, ListCount(r) PROVE TypeOK'
  <2> DEFINE c == [call[r] EXCEPT !.total = epoch]
  <2>1. call[r] \in Call
    BY DEF TypeOK
  <2>2. c \in Call
    BY <2>1 DEF Call, TypeOK
  <2>3. call' = [call EXCEPT ![r] = c]
    BY <1>4 DEF ListCount
  <2> QED
    BY <1>4, <2>2, <2>3 DEF ListCount, Goto, TypeOK, PcValues
<1>5. ASSUME NEW r \in Reqs, ListRows(r) PROVE TypeOK'
  <2> DEFINE c == [call[r] EXCEPT !.rows = epoch]
  <2>1. call[r] \in Call
    BY DEF TypeOK
  <2>2. c \in Call
    BY <2>1 DEF Call, TypeOK
  <2>3. call' = [call EXCEPT ![r] = c]
    BY <1>5 DEF ListRows
  <2> QED
    BY <1>5, <2>2, <2>3 DEF ListRows, Goto, TypeOK, PcValues
<1>6. ASSUME NEW r \in Reqs, SetVersioned(r) PROVE TypeOK'
  <2> DEFINE c == [call[r] EXCEPT !.setNs = namespace]
  <2>1. call[r] \in Call
    BY DEF TypeOK
  <2>2. c \in Call
    BY <2>1 DEF Call, TypeOK
  <2>3. call' = [call EXCEPT ![r] = c]
    BY <1>6 DEF SetVersioned
  <2> QED
    BY <1>6, <2>2, <2>3 DEF SetVersioned, Goto, TypeOK, PcValues
<1>7. ASSUME NEW r \in Reqs, SetAdd(r) PROVE TypeOK'
  <2> DEFINE c == call[r]
             e == [key |-> c.key, ns |-> c.setNs, getNs |-> c.getNs,
                   total |-> c.total, rows |-> c.rows]
             resp == [status |-> 200, page |-> TRUE, hit |-> FALSE,
                      raced |-> c.getNs # c.setNs, total |-> c.total,
                      rows |-> c.rows, since |-> c.since]
  <2>1. c \in Call
    BY DEF TypeOK
  <2>2. e \in Entry /\ resp \in Reply
    BY <2>1, StatusesType DEF Entry, Reply, Call
  <2>3. Respond(r, resp)
    BY <1>7 DEF SetAdd, LruAdd
  <2>4. cache' = {f \in cache : f.key # c.key \/ f.ns # c.setNs} \cup {e}
    BY <1>7 DEF SetAdd, LruAdd
  <2>5. cache' \in SUBSET Entry
    BY <2>2, <2>4 DEF TypeOK
  <2>6. \A f, g \in cache' : f.key = g.key /\ f.ns = g.ns => f = g
    BY <2>4 DEF TypeOK
  <2>7. pc' \in [Reqs -> PcValues] /\ call' \in [Reqs -> Call] /\ reply' \in [Reqs -> Reply]
    BY <2>2, <2>3, RespondType
  <2> QED
    BY <1>7, <2>5, <2>6, <2>7 DEF SetAdd, LruAdd, TypeOK
<1>8. ASSUME NEW r \in Reqs, ListFails(r) PROVE TypeOK'
  BY <1>8, StatusType, StatusesType, RespondType DEF ListFails, FailsWith500, TypeOK
<1>9. ASSUME NEW r \in Reqs, NEW n \in Names, CreateFindsExisting(r, n) PROVE TypeOK'
  BY <1>9, StatusType, StatusesType, RespondType DEF CreateFindsExisting, TypeOK
<1>10. ASSUME NEW r \in Reqs, NEW n \in Names, CreateStart(r, n) PROVE TypeOK'
  <2>1. 201 \in Statuses /\ Status(0) \in Reply
    BY StatusType, StatusesType
  <2>2. [NoCall EXCEPT !.name = n, !.ok = 201] \in Call
    BY <2>1, WriterCallType
  <2> QED
    BY <1>10, <2>1, <2>2 DEF CreateStart, Goto, TypeOK, PcValues
<1>11. ASSUME NEW r \in Reqs, CreateInsert(r) PROVE TypeOK'
  <2> DEFINE c == [call[r] EXCEPT !.mine = epoch + 1]
  <2>1. call[r] \in Call /\ epoch + 1 \in Nat
    BY DEF TypeOK
  <2>2. c \in Call
    BY <2>1 DEF Call
  <2>3. call' = [call EXCEPT ![r] = c]
    BY <1>11 DEF CreateInsert
  <2>4. profiles \cup {call[r].name} \in SUBSET Names
    BY <2>1 DEF Call, TypeOK
  <2> QED
    BY <1>11, <2>1, <2>2, <2>3, <2>4 DEF CreateInsert, Commit, Goto, TypeOK, PcValues
<1>12. ASSUME NEW r \in Reqs, CreateInsertFails(r) PROVE TypeOK'
  BY <1>12 DEF CreateInsertFails, Goto, TypeOK, PcValues
<1>13. ASSUME NEW r \in Reqs, CreateRecheck(r) PROVE TypeOK'
  BY <1>13, StatusType, StatusesType, RespondType DEF CreateRecheck, TypeOK
<1>14. ASSUME NEW r \in Reqs, NEW n \in Names, DeleteCommits(r, n) PROVE TypeOK'
  <2>1. epoch + 1 \in Nat /\ Status(0) \in Reply
    BY StatusType, StatusesType DEF TypeOK
  <2>2. [NoCall EXCEPT !.mine = epoch + 1, !.ok = 204] \in Call
    BY <2>1, WriterCallType, StatusesType, ZenonT(60)
  <2> QED
    BY <1>14, <2>1, <2>2 DEF DeleteCommits, Commit, Goto, TypeOK, PcValues
<1>15. ASSUME NEW r \in Reqs, AnswerAtOnce(r) PROVE TypeOK'
  BY <1>15, StatusType, StatusesType, RespondType DEF AnswerAtOnce, TypeOK
<1>16. ASSUME NEW r \in Reqs, ImportStart(r) PROVE TypeOK'
  <2>1. [NoCall EXCEPT !.ok = 200] \in Call /\ Status(0) \in Reply
    BY NoCallType, StatusType, StatusesType DEF Call
  <2> QED
    BY <1>16, <2>1 DEF ImportStart, Goto, TypeOK, PcValues
<1>17. ASSUME NEW r \in Reqs, NEW chunk \in SUBSET Names, ImportFlush(r, chunk) PROVE TypeOK'
  <2> DEFINE c == [call[r] EXCEPT !.mine = epoch + 1]
  <2>1. call[r] \in Call /\ epoch + 1 \in Nat
    BY DEF TypeOK
  <2>2. c \in Call
    BY <2>1 DEF Call
  <2>3. call' = [call EXCEPT ![r] = c]
    BY <1>17 DEF ImportFlush
  <2> QED
    BY <1>17, <2>2, <2>3 DEF ImportFlush, Commit, TypeOK, PcValues
<1>18. ASSUME NEW r \in Reqs, ImportAborts(r) PROVE TypeOK'
  <2>1. pc' \in [Reqs -> PcValues] /\ call' \in [Reqs -> Call] /\ reply' \in [Reqs -> Reply]
    BY <1>18, StatusType, StatusesType, RespondType DEF ImportAborts
  <2>2. lost' \in Nat
    BY <1>18 DEF ImportAborts, Larger, Call, TypeOK
  <2> QED
    BY <1>18, <2>1, <2>2 DEF ImportAborts, TypeOK
<1>19. ASSUME NEW r \in Reqs, ImportEnds(r) PROVE TypeOK'
  <2>1. CASE call[r].mine > 0
    BY <1>19, <2>1 DEF ImportEnds, Goto, TypeOK, PcValues
  <2>2. CASE ~ call[r].mine > 0
    BY <1>19, <2>2, StatusType, StatusesType, RespondType DEF ImportEnds, TypeOK
  <2> QED
    BY <2>1, <2>2
<1>20. ASSUME NEW r \in Reqs, Bump(r) PROVE TypeOK'
  <2>1. call[r] \in Call /\ call[r].ok \in Statuses
    BY DEF TypeOK, Call
  <2>2. Status(call[r].ok) \in Reply
    BY <2>1, StatusType, StatusesType
  <2>3. pc' \in [Reqs -> PcValues] /\ call' \in [Reqs -> Call] /\ reply' \in [Reqs -> Reply]
    BY <1>20, <2>2, RespondType DEF Bump
  <2>4. bumps' \in Seq(Nat) /\ Len(bumps') = namespace'
    BY <1>20 DEF Bump, TypeOK
  <2>5. acked' \in Nat
    BY <1>20, <2>1 DEF Bump, Larger, Call, TypeOK
  <2> QED
    BY <1>20, <2>3, <2>4, <2>5 DEF Bump, TypeOK
<1>21. ASSUME NEW k \in Keys, NEW n \in 1..namespace, Evict(k, n) PROVE TypeOK'
  BY <1>21 DEF Evict, TypeOK
<1>22. CASE UNCHANGED vars
  BY <1>22 DEF vars, TypeOK
<1>23. ASSUME NEW r \in Reqs, ExportStart(r) PROVE TypeOK'
  <2>1. [NoCall EXCEPT !.since = acked] \in Call
    BY NoCallType DEF Call, TypeOK
  <2>2. Status(0) \in Reply
    BY StatusType, StatusesType
  <2> QED
    BY <1>23, <2>1, <2>2 DEF ExportStart, Goto, TypeOK, PcValues
<1>24. ASSUME NEW r \in Reqs, ExportCount(r) PROVE TypeOK'
  <2> DEFINE c == [call[r] EXCEPT !.total = epoch]
  <2>1. call[r] \in Call
    BY DEF TypeOK
  <2>2. c \in Call
    BY <2>1 DEF Call, TypeOK
  <2>3. call' = [call EXCEPT ![r] = c]
    BY <1>24 DEF ExportCount
  <2> QED
    BY <1>24, <2>2, <2>3 DEF ExportCount, Goto, TypeOK, PcValues
<1>25. ASSUME NEW r \in Reqs, ExportRows(r) PROVE TypeOK'
  <2> DEFINE resp == [status |-> 200, page |-> TRUE, hit |-> FALSE, raced |-> FALSE,
                      total |-> call[r].total, rows |-> epoch, since |-> call[r].since]
  <2>1. call[r] \in Call /\ epoch \in Nat
    BY DEF TypeOK
  <2>2. resp \in Reply
    BY <2>1, StatusesType DEF Reply, Call
  <2>3. Respond(r, resp)
    BY <1>25 DEF ExportRows
  <2> QED
    BY <1>25, <2>2, <2>3, RespondType DEF ExportRows, TypeOK
<1>26. CASE Restart
  <2>1. /\ pc' \in [Reqs -> PcValues] /\ call' \in [Reqs -> Call] /\ reply' \in [Reqs -> Reply]
    BY <1>26, NoCallType, StatusType, StatusesType DEF Restart, PcValues
  <2>2. profiles' \in SUBSET Names /\ epoch' \in Nat /\ lost' \in Nat
    BY <1>26, SeedAssumption DEF Restart, Commit, TypeOK
  <2>3. bumps' \in Seq(Nat) /\ Len(bumps') = namespace' /\ namespace' \in Nat \ {0}
    BY <1>26, <2>2 DEF Restart
  <2> QED
    BY <1>26, <2>1, <2>2, <2>3 DEF Restart, TypeOK
<1> QED
  BY <1>23, <1>24, <1>25, <1>26, <1>1, <1>2, <1>3, <1>4, <1>5, <1>6, <1>7, <1>8, <1>9, <1>10, <1>11, <1>12,
     <1>13, <1>14, <1>15, <1>16, <1>17, <1>18, <1>19, <1>20, <1>21, <1>22
     DEF Next, Arrive, Handle

(* Every variable keeps its type, and the LRU holds one body per key, in    *)
(* every state any number of requests can lead to.                          *)
THEOREM TypeCorrect == Spec => []TypeOK
<1> QED
  BY TypeInit, TypeNext, PTL DEF Spec

-----------------------------------------------------------------------------
(* The other requests are as they were. *)
OthersKept(r) ==
    \A q \in Reqs \ {r} : pc'[q] = pc[q] /\ call'[q] = call[q] /\ reply'[q] = reply[q]

(* The inductive invariant survives a step of r that leaves cache and      *)
(* namespace alone when r's own locals and response satisfy it.            *)
LEMMA FrameStep ==
    ASSUME IInv, TypeOK', NEW r \in Reqs,
           UNCHANGED <<namespace, bumps, acked, cache>>, epoch <= epoch',
           OthersKept(r), ReadCovered(r)', FreshReply(r)'
    PROVE  IInv'
<1>1. /\ namespace \in Nat /\ bumps \in Seq(Nat) /\ Len(bumps) = namespace
      /\ epoch \in Nat /\ epoch' \in Nat
  BY DEF IInv, TypeOK
<1>2. \A i \in 1..namespace : bumps[i] \in Nat
  BY <1>1
<1>3. NamespacesCover'
  <2>1. \A i \in 1..namespace : bumps[i] <= epoch'
    BY <1>1, <1>2 DEF IInv, NamespacesCover
  <2> QED
    BY <2>1 DEF IInv, NamespacesCover
<1>4. ASSUME NEW q \in Reqs \ {r} PROVE ReadCovered(q)'
  <2>1. call[q].mine \in Nat /\ call[q].since \in Nat
    BY DEF IInv, TypeOK, Call
  <2>2. call[q].mine <= epoch' /\ (call[q].since <= epoch => call[q].since <= epoch')
    BY <1>1, <2>1 DEF IInv, ReadCovered
  <2> QED
    BY <1>4, <2>2 DEF IInv, ReadCovered, OthersKept
<1>5. EntriesCovered'
  BY DEF IInv, EntriesCovered
<1>6. ASSUME NEW q \in Reqs \ {r} PROVE FreshReply(q)'
  BY <1>6 DEF IInv, FreshReply, OthersKept
<1> QED
  BY <1>3, <1>4, <1>5, <1>6 DEF IInv

(* A response without a page, or with one no older than `since`. *)
LEMMA RespondStep ==
    ASSUME IInv, TypeOK', NEW r \in Reqs, NEW resp \in Reply, Respond(r, resp),
           resp.page => (resp.since <= resp.total /\ resp.since <= resp.rows)
                        \/ (resp.hit /\ resp.raced)
    PROVE  ReadCovered(r)' /\ FreshReply(r)' /\ OthersKept(r)
<1>1. /\ pc \in [Reqs -> PcValues] /\ call \in [Reqs -> Call]
      /\ reply \in [Reqs -> Reply] /\ epoch' \in Nat
  BY DEF IInv, TypeOK
<1>2. pc'[r] = "idle" /\ call'[r] = NoCall /\ reply'[r] = resp
  BY <1>1 DEF Respond, Goto
<1>3. OthersKept(r)
  BY <1>1 DEF OthersKept, Respond, Goto
<1>4. NoCall.mine = 0
  BY DEF NoCall
<1>5. ReadCovered(r)'
  BY <1>1, <1>2, <1>4 DEF ReadCovered
<1>6. resp.total \in Nat /\ resp.rows \in Nat /\ resp.since \in Nat
  BY DEF Reply
<1>7. FreshReply(r)'
  BY <1>2, <1>6 DEF FreshReply
<1> QED
  BY <1>3, <1>5, <1>7

(* The common case: an error, or the response of a write. *)
LEMMA QuietStep ==
    ASSUME IInv, TypeOK', NEW r \in Reqs, NEW s \in Statuses, Respond(r, Status(s)),
           UNCHANGED <<namespace, bumps, acked, cache, epoch>>
    PROVE  IInv'
<1>1. Status(s) \in Reply /\ ~ Status(s).page
  BY StatusType DEF Status
<1>2. ReadCovered(r)' /\ FreshReply(r)' /\ OthersKept(r)
  BY <1>1, RespondStep
<1>3. epoch <= epoch'
  BY DEF IInv, TypeOK
<1> QED
  BY <1>2, <1>3, FrameStep

LEMMA InvInit == Init => IInv
<1> SUFFICES ASSUME Init PROVE IInv
  OBVIOUS
<1>1. TypeOK
  BY TypeInit
<1>2. NamespacesCover
  BY DEF Init, NamespacesCover
<1>3. ASSUME NEW r \in Reqs PROVE ReadCovered(r) /\ FreshReply(r)
  BY DEF Init, ReadCovered, FreshReply, NoCall, Status
<1>4. EntriesCovered
  BY DEF Init, EntriesCovered
<1> QED
  BY <1>1, <1>2, <1>3, <1>4 DEF IInv

(* Each step keeps the inductive invariant; the type part is TypeNext. *)
LEMMA InvNext == IInv /\ [Next]_vars => IInv'
<1> SUFFICES ASSUME IInv, [Next]_vars PROVE IInv'
  OBVIOUS
<1> USE DEF NoWrite, NoCacheChange
<1>t. TypeOK'
  BY TypeNext DEF IInv
<1>u. /\ namespace \in Nat \ {0} /\ bumps \in Seq(Nat) /\ Len(bumps) = namespace
      /\ epoch \in Nat /\ epoch' \in Nat /\ acked \in Nat
      /\ pc \in [Reqs -> PcValues] /\ call \in [Reqs -> Call] /\ reply \in [Reqs -> Reply]
  BY <1>t DEF IInv, TypeOK
<1>v. \A i \in 1..namespace : bumps[i] \in Nat /\ bumps[i] <= epoch
  BY <1>u DEF IInv, NamespacesCover
<1>w. ASSUME NEW r \in Reqs
      PROVE  /\ ReadCovered(r) /\ FreshReply(r)
             /\ call[r].getNs \in Nat /\ call[r].setNs \in Nat /\ call[r].total \in Nat
             /\ call[r].rows \in Nat /\ call[r].since \in Nat /\ call[r].mine \in Nat
  BY <1>u DEF IInv, Call
<1>x. ASSUME NEW r \in Reqs, NEW c \in Call, call' = [call EXCEPT ![r] = c]
      PROVE  call'[r] = c
  BY <1>u, <1>x
<1>1. ASSUME NEW r \in Reqs, NEW k \in Keys, ListStart(r, k) PROVE IInv'
  <2>1. ReadCovered(r)'
    <3>1. /\ pc'[r] = "lookup" /\ call'[r].getNs = namespace
          /\ call'[r].since = acked /\ call'[r].mine = 0
      BY <1>1, <1>u, NoCallType DEF ListStart, Goto, NoCall
    <3> QED
      BY <1>1, <1>u, <3>1 DEF ListStart, ReadCovered, IInv, NamespacesCover
  <2>2. FreshReply(r)' /\ OthersKept(r)
    BY <1>1, <1>u DEF ListStart, Goto, FreshReply, OthersKept, Status
  <2>3. UNCHANGED <<namespace, bumps, acked, cache>> /\ epoch <= epoch'
    BY <1>1, <1>u DEF ListStart
  <2> QED
    BY <1>t, <2>1, <2>2, <2>3, FrameStep
<1>2. ASSUME NEW r \in Reqs, NEW e \in cache, LookupHit(r, e) PROVE IInv'
  <2> DEFINE resp == [status |-> 200, page |-> TRUE, hit |-> TRUE,
                      raced |-> e.getNs # e.ns, total |-> e.total,
                      rows |-> e.rows, since |-> call[r].since]
  <2>1. e \in Entry
    BY DEF IInv, TypeOK
  <2>2. resp \in Reply
    BY <1>w, <2>1, StatusesType DEF Reply, Entry
  <2>3. (resp.since <= resp.total /\ resp.since <= resp.rows) \/ (resp.hit /\ resp.raced)
    <3>1. CASE e.getNs = e.ns
      <4>1. call[r].getNs = e.getNs /\ call[r].since <= bumps[e.getNs]
        BY <1>2, <1>w, <3>1 DEF LookupHit, ReadCovered
      <4>2. /\ bumps[e.getNs] <= e.total /\ bumps[e.getNs] <= e.rows
            /\ bumps[e.getNs] \in Nat
        BY <1>v DEF IInv, EntriesCovered
      <4>3. call[r].since <= e.total /\ call[r].since <= e.rows
        BY <1>w, <2>1, <4>1, <4>2 DEF Entry
      <4> QED
        BY <4>3
    <3>2. CASE e.getNs # e.ns
      BY <3>2
    <3> QED
      BY <3>1, <3>2
  <2>4. Respond(r, resp)
    BY <1>2 DEF LookupHit
  <2>5. ReadCovered(r)' /\ FreshReply(r)' /\ OthersKept(r)
    BY <1>t, <2>2, <2>3, <2>4, RespondStep
  <2>6. UNCHANGED <<namespace, bumps, acked, cache>> /\ epoch <= epoch'
    BY <1>2, <1>u DEF LookupHit
  <2> QED
    BY <1>t, <2>5, <2>6, FrameStep
<1>3. ASSUME NEW r \in Reqs, LookupMiss(r) PROVE IInv'
  <2>1. ReadCovered(r)'
    BY <1>3, <1>u, <1>w DEF LookupMiss, Goto, ReadCovered
  <2>2. FreshReply(r)' /\ OthersKept(r)
    BY <1>3, <1>u, <1>w DEF LookupMiss, Goto, FreshReply, OthersKept
  <2>3. UNCHANGED <<namespace, bumps, acked, cache>> /\ epoch <= epoch'
    BY <1>3, <1>u DEF LookupMiss
  <2> QED
    BY <1>t, <2>1, <2>2, <2>3, FrameStep
<1>4. ASSUME NEW r \in Reqs, ListCount(r) PROVE IInv'
  <2>1. ReadCovered(r)'
    <3>1. /\ pc[r] = "count" /\ pc'[r] = "rows"
          /\ call'[r] = [call[r] EXCEPT !.total = epoch]
      BY <1>4, <1>u DEF ListCount, Goto
    <3>2. call[r] \in Call
      BY <1>u
    <3>3. call'[r].total = epoch
      BY <3>1, <3>2 DEF Call
    <3>4. /\ UNCHANGED <<namespace, bumps, epoch>>
          /\ call'[r].mine = call[r].mine
          /\ call'[r].getNs = call[r].getNs
          /\ call'[r].since = call[r].since
          /\ call'[r].rows = call[r].rows
          /\ call'[r].setNs = call[r].setNs
      BY <1>4, <3>1, <3>2 DEF ListCount, Call
    <3> QED
      BY <1>u, <1>v, <1>w, <3>1, <3>3, <3>4 DEF ReadCovered
  <2>2. FreshReply(r)' /\ OthersKept(r)
    BY <1>4, <1>u, <1>w DEF ListCount, Goto, FreshReply, OthersKept
  <2>3. UNCHANGED <<namespace, bumps, acked, cache>> /\ epoch <= epoch'
    BY <1>4, <1>u DEF ListCount
  <2> QED
    BY <1>t, <2>1, <2>2, <2>3, FrameStep
<1>5. ASSUME NEW r \in Reqs, ListRows(r) PROVE IInv'
  <2>1. ReadCovered(r)'
    <3>1. /\ pc[r] = "rows" /\ pc'[r] = "set"
          /\ call'[r] = [call[r] EXCEPT !.rows = epoch]
      BY <1>5, <1>u DEF ListRows, Goto
    <3>2. call[r] \in Call
      BY <1>u
    <3>3. call'[r].rows = epoch
      BY <3>1, <3>2 DEF Call
    <3>4. /\ UNCHANGED <<namespace, bumps, epoch>>
          /\ call'[r].mine = call[r].mine
          /\ call'[r].getNs = call[r].getNs
          /\ call'[r].since = call[r].since
          /\ call'[r].total = call[r].total
          /\ call'[r].setNs = call[r].setNs
      BY <1>5, <3>1, <3>2 DEF ListRows, Call
    <3> QED
      BY <1>u, <1>v, <1>w, <3>1, <3>3, <3>4 DEF ReadCovered
  <2>2. FreshReply(r)' /\ OthersKept(r)
    BY <1>5, <1>u, <1>w DEF ListRows, Goto, FreshReply, OthersKept
  <2>3. UNCHANGED <<namespace, bumps, acked, cache>> /\ epoch <= epoch'
    BY <1>5, <1>u DEF ListRows
  <2> QED
    BY <1>t, <2>1, <2>2, <2>3, FrameStep
<1>6. ASSUME NEW r \in Reqs, SetVersioned(r) PROVE IInv'
  <2>1. ReadCovered(r)'
    <3>1. /\ pc[r] = "set" /\ pc'[r] = "add"
          /\ call'[r] = [call[r] EXCEPT !.setNs = namespace]
      BY <1>6, <1>u DEF SetVersioned, Goto
    <3>2. call[r] \in Call
      BY <1>u
    <3>3. call'[r].setNs = namespace
      BY <3>1, <3>2 DEF Call
    <3>4. /\ UNCHANGED <<namespace, bumps, epoch>>
          /\ call'[r].mine = call[r].mine
          /\ call'[r].getNs = call[r].getNs
          /\ call'[r].since = call[r].since
          /\ call'[r].total = call[r].total
          /\ call'[r].rows = call[r].rows
      BY <1>6, <3>1, <3>2 DEF SetVersioned, Call
    <3> QED
      BY <1>u, <1>v, <1>w, <3>1, <3>3, <3>4 DEF ReadCovered
  <2>2. FreshReply(r)' /\ OthersKept(r)
    BY <1>6, <1>u, <1>w DEF SetVersioned, Goto, FreshReply, OthersKept
  <2>3. UNCHANGED <<namespace, bumps, acked, cache>> /\ epoch <= epoch'
    BY <1>6, <1>u DEF SetVersioned
  <2> QED
    BY <1>t, <2>1, <2>2, <2>3, FrameStep
<1>7. ASSUME NEW r \in Reqs, SetAdd(r) PROVE IInv'
  <2> DEFINE e == [key |-> call[r].key, ns |-> call[r].setNs, getNs |-> call[r].getNs,
                   total |-> call[r].total, rows |-> call[r].rows]
             resp == [status |-> 200, page |-> TRUE, hit |-> FALSE,
                      raced |-> call[r].getNs # call[r].setNs, total |-> call[r].total,
                      rows |-> call[r].rows, since |-> call[r].since]
  <2>1. /\ call[r].getNs \in 1..namespace /\ call[r].setNs \in 1..namespace
        /\ call[r].since <= bumps[call[r].getNs]
        /\ bumps[call[r].getNs] <= call[r].total
        /\ bumps[call[r].getNs] <= call[r].rows
    BY <1>7, <1>w DEF SetAdd, LruAdd, ReadCovered
  <2>2. bumps[call[r].getNs] \in Nat
    BY <1>v, <2>1
  <2>3. call[r].since <= call[r].total /\ call[r].since <= call[r].rows
    BY <1>w, <2>1, <2>2
  <2>4. resp \in Reply
    BY <1>w, StatusesType DEF Reply
  <2>5. Respond(r, resp)
    BY <1>7 DEF SetAdd, LruAdd
  <2>6. ReadCovered(r)' /\ FreshReply(r)' /\ OthersKept(r)
    BY <1>t, <2>3, <2>4, <2>5, RespondStep
  <2>7. /\ cache' = {f \in cache : f.key # call[r].key \/ f.ns # call[r].setNs} \cup {e}
        /\ UNCHANGED <<namespace, bumps, acked, epoch>>
    BY <1>7 DEF SetAdd, LruAdd
  <2>8. EntriesCovered'
    BY <2>1, <2>7 DEF IInv, EntriesCovered
  <2>9. NamespacesCover'
    BY <2>7 DEF IInv, NamespacesCover
  <2>10. ASSUME NEW q \in Reqs \ {r} PROVE ReadCovered(q)' /\ FreshReply(q)'
    BY <2>6, <2>7, <2>10 DEF IInv, ReadCovered, FreshReply, OthersKept
  <2> QED
    BY <1>t, <2>6, <2>8, <2>9, <2>10 DEF IInv
<1>8. ASSUME NEW r \in Reqs, ListFails(r) PROVE IInv'
  <2>1. PICK s \in Statuses : Respond(r, Status(s))
    BY <1>8, StatusesType DEF ListFails, FailsWith500
  <2> QED
    BY <1>8, <1>t, <2>1, QuietStep DEF ListFails, FailsWith500
<1>9. ASSUME NEW r \in Reqs, NEW n \in Names, CreateFindsExisting(r, n) PROVE IInv'
  <2>1. PICK s \in Statuses : Respond(r, Status(s))
    BY <1>9, StatusesType DEF CreateFindsExisting
  <2> QED
    BY <1>9, <1>t, <2>1, QuietStep DEF CreateFindsExisting
<1>10. ASSUME NEW r \in Reqs, NEW n \in Names, CreateStart(r, n) PROVE IInv'
  <2>1. ReadCovered(r)'
    <3>1. pc'[r] = "insert" /\ call'[r].mine = 0
      BY <1>10, <1>u, <1>w, NoCallType DEF CreateStart, Goto, NoCall
    <3>2. call'[r].mine <= epoch'
      BY <1>10, <1>u, <1>w, <3>1 DEF CreateStart, Commit, ReadCovered
    <3> QED
      BY <3>1, <3>2 DEF ReadCovered
  <2>2. FreshReply(r)' /\ OthersKept(r)
    BY <1>10, <1>u, <1>w DEF CreateStart, Goto, FreshReply, OthersKept, Status
  <2>3. UNCHANGED <<namespace, bumps, acked, cache>> /\ epoch <= epoch'
    BY <1>10, <1>u DEF CreateStart, Commit
  <2> QED
    BY <1>t, <2>1, <2>2, <2>3, FrameStep
<1>11. ASSUME NEW r \in Reqs, CreateInsert(r) PROVE IInv'
  <2>1. ReadCovered(r)'
    <3>1. pc'[r] = "bump" /\ call'[r].mine = epoch + 1
      BY <1>11, <1>u, <1>w, NoCallType DEF CreateInsert, Goto, Call
    <3>2. call'[r].mine <= epoch'
      BY <1>11, <1>u, <1>w, <3>1 DEF CreateInsert, Commit, ReadCovered
    <3> QED
      BY <3>1, <3>2 DEF ReadCovered
  <2>2. FreshReply(r)' /\ OthersKept(r)
    BY <1>11, <1>u, <1>w DEF CreateInsert, Goto, FreshReply, OthersKept, Status
  <2>3. UNCHANGED <<namespace, bumps, acked, cache>> /\ epoch <= epoch'
    BY <1>11, <1>u DEF CreateInsert, Commit
  <2> QED
    BY <1>t, <2>1, <2>2, <2>3, FrameStep
<1>12. ASSUME NEW r \in Reqs, CreateInsertFails(r) PROVE IInv'
  <2>1. ReadCovered(r)'
    <3>1. pc'[r] = "recheck" /\ call'[r].mine = call[r].mine
      BY <1>12, <1>u, <1>w, NoCallType DEF CreateInsertFails, Goto, Call
    <3>2. call'[r].mine <= epoch'
      BY <1>12, <1>u, <1>w, <3>1 DEF CreateInsertFails, Commit, ReadCovered
    <3> QED
      BY <3>1, <3>2 DEF ReadCovered
  <2>2. FreshReply(r)' /\ OthersKept(r)
    BY <1>12, <1>u, <1>w DEF CreateInsertFails, Goto, FreshReply, OthersKept, Status
  <2>3. UNCHANGED <<namespace, bumps, acked, cache>> /\ epoch <= epoch'
    BY <1>12, <1>u DEF CreateInsertFails, Commit
  <2> QED
    BY <1>t, <2>1, <2>2, <2>3, FrameStep
<1>13. ASSUME NEW r \in Reqs, CreateRecheck(r) PROVE IInv'
  <2>1. PICK s \in Statuses : Respond(r, Status(s))
    BY <1>13, StatusesType DEF CreateRecheck
  <2> QED
    BY <1>13, <1>t, <2>1, QuietStep DEF CreateRecheck
<1>14. ASSUME NEW r \in Reqs, NEW n \in Names, DeleteCommits(r, n) PROVE IInv'
  <2>1. ReadCovered(r)'
    <3>1. pc'[r] = "bump" /\ call'[r].mine = epoch + 1
      BY <1>14, <1>u, <1>w, NoCallType DEF DeleteCommits, Goto, NoCall
    <3>2. call'[r].mine <= epoch'
      BY <1>14, <1>u, <1>w, <3>1 DEF DeleteCommits, Commit, ReadCovered
    <3> QED
      BY <3>1, <3>2 DEF ReadCovered
  <2>2. FreshReply(r)' /\ OthersKept(r)
    BY <1>14, <1>u, <1>w DEF DeleteCommits, Goto, FreshReply, OthersKept, Status
  <2>3. UNCHANGED <<namespace, bumps, acked, cache>> /\ epoch <= epoch'
    BY <1>14, <1>u DEF DeleteCommits, Commit
  <2> QED
    BY <1>t, <2>1, <2>2, <2>3, FrameStep
<1>15. ASSUME NEW r \in Reqs, AnswerAtOnce(r) PROVE IInv'
  <2>1. PICK s \in Statuses : Respond(r, Status(s))
    BY <1>15, StatusesType DEF AnswerAtOnce
  <2> QED
    BY <1>15, <1>t, <2>1, QuietStep DEF AnswerAtOnce
<1>16. ASSUME NEW r \in Reqs, ImportStart(r) PROVE IInv'
  <2>1. ReadCovered(r)'
    <3>1. pc'[r] = "import" /\ call'[r].mine = 0
      BY <1>16, <1>u, <1>w, NoCallType DEF ImportStart, Goto, NoCall
    <3>2. call'[r].mine <= epoch'
      BY <1>16, <1>u, <1>w, <3>1 DEF ImportStart, Commit, ReadCovered
    <3> QED
      BY <3>1, <3>2 DEF ReadCovered
  <2>2. FreshReply(r)' /\ OthersKept(r)
    BY <1>16, <1>u, <1>w DEF ImportStart, Goto, FreshReply, OthersKept, Status
  <2>3. UNCHANGED <<namespace, bumps, acked, cache>> /\ epoch <= epoch'
    BY <1>16, <1>u DEF ImportStart, Commit
  <2> QED
    BY <1>t, <2>1, <2>2, <2>3, FrameStep
<1>17. ASSUME NEW r \in Reqs, NEW chunk \in SUBSET Names, ImportFlush(r, chunk) PROVE IInv'
  <2>1. ReadCovered(r)'
    <3>1. pc'[r] = "import" /\ call'[r].mine = epoch + 1
      BY <1>17, <1>u, <1>w, NoCallType DEF ImportFlush, Goto, Call
    <3>2. call'[r].mine <= epoch'
      BY <1>17, <1>u, <1>w, <3>1 DEF ImportFlush, Commit, ReadCovered
    <3> QED
      BY <3>1, <3>2 DEF ReadCovered
  <2>2. FreshReply(r)' /\ OthersKept(r)
    BY <1>17, <1>u, <1>w DEF ImportFlush, Goto, FreshReply, OthersKept, Status
  <2>3. UNCHANGED <<namespace, bumps, acked, cache>> /\ epoch <= epoch'
    BY <1>17, <1>u DEF ImportFlush, Commit
  <2> QED
    BY <1>t, <2>1, <2>2, <2>3, FrameStep
<1>18. ASSUME NEW r \in Reqs, ImportAborts(r) PROVE IInv'
  <2>1. PICK s \in Statuses : Respond(r, Status(s))
    BY <1>18, StatusesType DEF ImportAborts
  <2> QED
    BY <1>18, <1>t, <2>1, QuietStep DEF ImportAborts
<1>19. ASSUME NEW r \in Reqs, ImportEnds(r) PROVE IInv'
  <2>1. CASE call[r].mine > 0
    <3>1. pc'[r] = "bump" /\ call' = call /\ reply' = reply /\ OthersKept(r)
      BY <1>19, <1>u, <2>1 DEF ImportEnds, Goto, OthersKept
    <3>2. UNCHANGED <<namespace, bumps, acked, cache, epoch>> /\ epoch <= epoch'
      BY <1>19, <1>u DEF ImportEnds
    <3>3. ReadCovered(r)' /\ FreshReply(r)'
      BY <1>w, <3>1, <3>2 DEF ReadCovered, FreshReply
    <3> QED
      BY <1>t, <3>1, <3>2, <3>3, FrameStep
  <2>2. CASE ~ call[r].mine > 0
    <3>1. Respond(r, Status(200)) /\ 200 \in Statuses
      BY <1>19, <2>2, StatusesType DEF ImportEnds
    <3> QED
      BY <1>19, <1>t, <3>1, QuietStep DEF ImportEnds
  <2> QED
    BY <2>1, <2>2
<1>20. ASSUME NEW r \in Reqs, Bump(r) PROVE IInv'
  <2>1. call[r].ok \in Statuses
    BY <1>u DEF Call
  <2>2. Status(call[r].ok) \in Reply /\ ~ Status(call[r].ok).page
    BY <2>1, StatusType DEF Status
  <2>3. ReadCovered(r)' /\ FreshReply(r)' /\ OthersKept(r)
    BY <1>20, <1>t, <2>2, RespondStep DEF Bump
  <2>4. /\ namespace' = namespace + 1 /\ bumps' = Append(bumps, epoch)
        /\ epoch' = epoch /\ cache' = cache
        /\ acked' = acked \/ acked' = call[r].mine
    BY <1>20 DEF Bump, Larger
  <2>5. /\ \A i \in 1..namespace : bumps'[i] = bumps[i]
        /\ bumps'[namespace + 1] = epoch
        /\ 1..namespace \subseteq 1..namespace'
    BY <1>u, <2>4
  <2>6. NamespacesCover'
    <3>1. acked <= epoch /\ call[r].mine <= epoch
      BY <1>u, <1>v, <1>w DEF IInv, NamespacesCover, ReadCovered
    <3>2. \A i \in 1..namespace' : bumps'[i] <= epoch
      BY <1>u, <1>v, <2>4, <2>5
    <3> QED
      BY <2>4, <2>5, <3>1, <3>2 DEF NamespacesCover
  <2>7. EntriesCovered'
    BY <2>4, <2>5 DEF IInv, EntriesCovered
  <2>8. ASSUME NEW q \in Reqs \ {r} PROVE ReadCovered(q)' /\ FreshReply(q)'
    <3>1. pc'[q] = pc[q] /\ call'[q] = call[q] /\ reply'[q] = reply[q]
      BY <2>3 DEF OthersKept
    <3>2. ReadCovered(q) /\ FreshReply(q)
      BY <1>w
    <3> QED
      BY <2>4, <2>5, <3>1, <3>2 DEF ReadCovered, FreshReply
  <2> QED
    BY <1>t, <2>3, <2>6, <2>7, <2>8 DEF IInv
<1>21. ASSUME NEW k \in Keys, NEW n \in 1..namespace, Evict(k, n) PROVE IInv'
  BY <1>21, <1>t DEF Evict, IInv, NamespacesCover, ReadCovered, EntriesCovered, FreshReply
<1>22. CASE UNCHANGED vars
  BY <1>22, <1>t DEF vars, IInv, NamespacesCover, ReadCovered, EntriesCovered, FreshReply
<1>23. ASSUME NEW r \in Reqs, ExportStart(r) PROVE IInv'
  <2>1. pc'[r] = "exportCount" /\ call'[r].since = acked /\ call'[r].mine = 0
    BY <1>23, <1>u, NoCallType DEF ExportStart, Goto, NoCall
  <2>2. acked <= epoch
    BY <1>u, <1>v DEF IInv, NamespacesCover
  <2>3. ReadCovered(r)'
    BY <1>23, <1>u, <2>1, <2>2 DEF ExportStart, ReadCovered
  <2>4. FreshReply(r)' /\ OthersKept(r)
    BY <1>23, <1>u DEF ExportStart, Goto, FreshReply, OthersKept, Status
  <2>5. UNCHANGED <<namespace, bumps, acked, cache>> /\ epoch <= epoch'
    BY <1>23, <1>u DEF ExportStart
  <2> QED
    BY <1>t, <2>3, <2>4, <2>5, FrameStep
<1>24. ASSUME NEW r \in Reqs, ExportCount(r) PROVE IInv'
  <2>1. /\ pc[r] = "exportCount" /\ pc'[r] = "exportRows"
        /\ call'[r] = [call[r] EXCEPT !.total = epoch]
        /\ UNCHANGED <<namespace, bumps, acked, cache, epoch, reply>>
    BY <1>24, <1>u DEF ExportCount, Goto
  <2>2. call[r] \in Call
    BY <1>u
  <2>3. call'[r].total = epoch /\ call'[r].since = call[r].since /\ call'[r].mine = call[r].mine
    BY <2>1, <2>2 DEF Call
  <2>4. ReadCovered(r)'
    BY <1>w, <2>1, <2>3 DEF ReadCovered
  <2>5. FreshReply(r)' /\ OthersKept(r)
    BY <1>24, <1>u, <1>w DEF ExportCount, Goto, FreshReply, OthersKept
  <2>6. epoch <= epoch'
    BY <1>u, <2>1
  <2> QED
    BY <1>t, <2>1, <2>4, <2>5, <2>6, FrameStep
<1>25. ASSUME NEW r \in Reqs, ExportRows(r) PROVE IInv'
  <2> DEFINE resp == [status |-> 200, page |-> TRUE, hit |-> FALSE, raced |-> FALSE,
                      total |-> call[r].total, rows |-> epoch, since |-> call[r].since]
  <2>1. resp \in Reply
    BY <1>u, <1>w, StatusesType DEF Reply
  <2>2. Respond(r, resp) /\ UNCHANGED <<namespace, bumps, acked, cache, epoch>>
    BY <1>25 DEF ExportRows
  <2>3. call[r].since <= call[r].total /\ call[r].since <= epoch
    BY <1>25, <1>w DEF ExportRows, ReadCovered
  <2>4. ReadCovered(r)' /\ FreshReply(r)' /\ OthersKept(r)
    BY <1>t, <2>1, <2>2, <2>3, RespondStep
  <2>5. epoch <= epoch'
    BY <1>u, <2>2
  <2> QED
    BY <1>t, <2>2, <2>4, <2>5, FrameStep
<1>26. CASE Restart
  <2>1. /\ epoch <= epoch' /\ acked' = acked /\ cache' = {}
        /\ namespace' = 1 /\ bumps' = <<epoch'>>
    BY <1>26, <1>u DEF Restart, Commit
  <2>2. acked <= epoch
    BY <1>u, <1>v DEF IInv, NamespacesCover
  <2>3. NamespacesCover'
    BY <1>u, <2>1, <2>2 DEF NamespacesCover
  <2>4. ASSUME NEW r \in Reqs PROVE ReadCovered(r)' /\ FreshReply(r)'
    <3>1. pc'[r] = "idle" /\ call'[r].mine = 0 /\ ~ reply'[r].page
      BY <1>26, NoCallType DEF Restart, NoCall, Status
    <3> QED
      BY <1>u, <3>1 DEF ReadCovered, FreshReply
  <2>5. EntriesCovered'
    BY <2>1 DEF EntriesCovered
  <2> QED
    BY <1>t, <2>3, <2>4, <2>5 DEF IInv
<1> QED
  BY <1>23, <1>24, <1>25, <1>26, <1>1, <1>2, <1>3, <1>4, <1>5, <1>6, <1>7, <1>8, <1>9, <1>10, <1>11, <1>12,
     <1>13, <1>14, <1>15, <1>16, <1>17, <1>18, <1>19, <1>20, <1>21, <1>22
     DEF Next, Arrive, Handle

LEMMA IInvAlways == Spec => []IInv
<1> QED
  BY InvInit, InvNext, PTL DEF Spec

(* Every acknowledged change is behind a Bump, however many writers race:   *)
(* a request that begins later mixes in a namespace younger than it.        *)
THEOREM AckedBehindBump == Spec => []AckedWritesBumped
<1>1. IInv => AckedWritesBumped
  BY DEF IInv, NamespacesCover, AckedWritesBumped
<1> QED
  BY <1>1, IInvAlways, PTL

(* For any number of requests, names, keys and commits, a page older than   *)
(* the request's start is a hit on a body filled across a Bump.             *)
THEOREM StaleOnlyIfRaced == Spec => []FreshUnlessRaced
<1>1. IInv => FreshUnlessRaced
  BY DEF IInv, FreshReply, FreshUnlessRaced
<1> QED
  BY <1>1, IInvAlways, PTL

-----------------------------------------------------------------------------
(* The last change is behind a Bump, given up with its import, or on its    *)
(* way: its writer will Bump or give up.                                    *)
LastChangeKnown ==
    /\ lost <= epoch
    /\ \/ bumps[namespace] = epoch
       \/ lost = epoch
       \/ \E r \in Reqs : pc[r] \in {"bump", "import"} /\ call[r].mine = epoch

(* A step of a request that is no writer at its end. *)
LEMMA LastKept ==
    ASSUME LastChangeKnown, NEW r \in Reqs, pc[r] \notin {"bump", "import"},
           OthersKept(r), UNCHANGED <<epoch, lost, namespace, bumps>>
    PROVE  LastChangeKnown'
BY DEF LastChangeKnown, OthersKept

(* A response touches nobody else. *)
LEMMA RespondOthers ==
    ASSUME TypeOK, NEW r \in Reqs, NEW resp, Respond(r, resp)
    PROVE  OthersKept(r)
BY DEF TypeOK, Respond, Goto, OthersKept

(* A step of r that changes the table and has the change to answer for. *)
LEMMA LastCommitted ==
    ASSUME LastChangeKnown, epoch \in Nat, lost \in Nat, NEW r \in Reqs,
           epoch' = epoch + 1, lost' = lost,
           pc'[r] \in {"bump", "import"}, call'[r].mine = epoch + 1
    PROVE  LastChangeKnown'
BY DEF LastChangeKnown

LEMMA LastNext == IInv /\ LastChangeKnown /\ [Next]_vars => LastChangeKnown'
<1> SUFFICES ASSUME IInv, LastChangeKnown, [Next]_vars PROVE LastChangeKnown'
  OBVIOUS
<1> USE DEF NoWrite, NoCacheChange
<1>u. /\ namespace \in Nat \ {0} /\ bumps \in Seq(Nat) /\ Len(bumps) = namespace
      /\ epoch \in Nat /\ lost \in Nat
      /\ pc \in [Reqs -> PcValues] /\ call \in [Reqs -> Call] /\ reply \in [Reqs -> Reply]
  BY DEF IInv, TypeOK
<1>w. ASSUME NEW r \in Reqs PROVE call[r] \in Call /\ call[r].mine \in Nat /\ call[r].mine <= epoch
  BY <1>u DEF IInv, ReadCovered, Call
<1>1. ASSUME NEW r \in Reqs,
             \/ \E k \in Keys : ListStart(r, k)
             \/ \E e \in cache : LookupHit(r, e)
             \/ LookupMiss(r) \/ ListCount(r) \/ ListRows(r) \/ SetVersioned(r) \/ SetAdd(r)
             \/ ExportStart(r) \/ ExportCount(r) \/ ExportRows(r) \/ ListFails(r)
      PROVE  LastChangeKnown'
  <2>1. pc[r] \notin {"bump", "import"} /\ UNCHANGED <<epoch, lost, namespace, bumps>>
    BY <1>1 DEF ListStart, LookupHit, LookupMiss, ListCount, ListRows, SetVersioned, SetAdd,
       ExportStart, ExportCount, ExportRows, ListFails, FailsWith500
  <2>2. CASE (\E k \in Keys : ListStart(r, k)) \/ LookupMiss(r) \/ ListCount(r) \/ ListRows(r)
            \/ SetVersioned(r) \/ ExportStart(r) \/ ExportCount(r)
    <3>1. OthersKept(r)
      BY <1>u, <2>2 DEF ListStart, LookupMiss, ListCount, ListRows, SetVersioned, ExportStart,
         ExportCount, Goto, OthersKept
    <3> QED
      BY <2>1, <3>1, LastKept
  <2>3. CASE (\E e \in cache : LookupHit(r, e)) \/ SetAdd(r) \/ ExportRows(r) \/ ListFails(r)
    <3>1. OthersKept(r)
      BY <2>3, RespondOthers DEF LookupHit, SetAdd, ExportRows, ListFails, FailsWith500, IInv
    <3> QED
      BY <2>1, <3>1, LastKept
  <2> QED
    BY <1>1, <2>2, <2>3
<1>2. ASSUME NEW r \in Reqs,
             \/ \E n \in Names : CreateFindsExisting(r, n) \/ CreateStart(r, n)
             \/ CreateInsertFails(r) \/ CreateRecheck(r) \/ AnswerAtOnce(r) \/ ImportStart(r)
      PROVE  LastChangeKnown'
  <2>1. pc[r] \notin {"bump", "import"} /\ UNCHANGED <<epoch, lost, namespace, bumps>>
    BY <1>2 DEF CreateFindsExisting, CreateStart, CreateInsertFails, CreateRecheck,
       AnswerAtOnce, ImportStart
  <2>2. CASE (\E n \in Names : CreateStart(r, n)) \/ CreateInsertFails(r) \/ ImportStart(r)
    <3>1. OthersKept(r)
      <4>1. ASSUME NEW n \in Names, CreateStart(r, n) PROVE OthersKept(r)
        BY <1>u, <4>1 DEF CreateStart, Goto, OthersKept
      <4>2. CASE CreateInsertFails(r)
        BY <1>u, <4>2 DEF CreateInsertFails, Goto, OthersKept
      <4>3. CASE ImportStart(r)
        BY <1>u, <4>3 DEF ImportStart, Goto, OthersKept
      <4> QED
        BY <2>2, <4>1, <4>2, <4>3
    <3> QED
      BY <2>1, <3>1, LastKept
  <2>3. CASE (\E n \in Names : CreateFindsExisting(r, n)) \/ CreateRecheck(r) \/ AnswerAtOnce(r)
    <3>1. \E st \in {200, 404, 500} : Respond(r, Status(st))
      BY <2>3 DEF CreateFindsExisting, CreateRecheck, AnswerAtOnce
    <3>2. OthersKept(r)
      BY <3>1, RespondOthers DEF IInv
    <3> QED
      BY <2>1, <3>2, LastKept
  <2> QED
    BY <1>2, <2>2, <2>3
<1>3. ASSUME NEW r \in Reqs, CreateInsert(r) PROVE LastChangeKnown'
  <2>1. pc'[r] = "bump" /\ call'[r].mine = epoch + 1
    BY <1>3, <1>u, <1>w DEF CreateInsert, Goto, Call
  <2> QED
    BY <1>3, <1>u, <2>1, LastCommitted DEF CreateInsert, Commit
<1>4. ASSUME NEW r \in Reqs, NEW n \in Names, DeleteCommits(r, n) PROVE LastChangeKnown'
  <2>1. pc'[r] = "bump" /\ call'[r].mine = epoch + 1
    BY <1>4, <1>u, NoCallType DEF DeleteCommits, Goto, NoCall
  <2> QED
    BY <1>4, <1>u, <2>1, LastCommitted DEF DeleteCommits, Commit
<1>5. ASSUME NEW r \in Reqs, NEW chunk \in SUBSET Names, ImportFlush(r, chunk)
      PROVE  LastChangeKnown'
  <2>1. pc'[r] = "import" /\ call'[r].mine = epoch + 1
    BY <1>5, <1>u, <1>w DEF ImportFlush, Call
  <2> QED
    BY <1>5, <1>u, <2>1, LastCommitted DEF ImportFlush, Commit
<1>6. ASSUME NEW r \in Reqs, ImportAborts(r) PROVE LastChangeKnown'
  <2>1. /\ lost' = IF lost > call[r].mine THEN lost ELSE call[r].mine
        /\ UNCHANGED <<epoch, namespace, bumps>> /\ OthersKept(r)
    BY <1>6, <1>u DEF ImportAborts, Larger, Respond, Goto, OthersKept
  <2>2. lost' <= epoch /\ (lost = epoch => lost' = epoch) /\ (call[r].mine = epoch => lost' = epoch)
    BY <1>u, <1>w, <2>1 DEF LastChangeKnown
  <2> QED
    BY <2>1, <2>2 DEF LastChangeKnown, OthersKept
<1>7. ASSUME NEW r \in Reqs, ImportEnds(r) PROVE LastChangeKnown'
  <2>1. CASE call[r].mine > 0
    <3>1. pc'[r] = "bump" /\ call' = call /\ UNCHANGED <<epoch, lost, namespace, bumps>>
      BY <1>7, <1>u, <2>1 DEF ImportEnds, Goto
    <3>2. \A q \in Reqs \ {r} : pc'[q] = pc[q]
      BY <1>7, <1>u, <2>1 DEF ImportEnds, Goto
    <3> QED
      BY <3>1, <3>2 DEF LastChangeKnown
  <2>2. CASE ~ call[r].mine > 0
    <3>1. call[r].mine = 0
      BY <1>w, <2>2
    <3>2. OthersKept(r) /\ UNCHANGED <<epoch, lost, namespace, bumps>>
      BY <1>7, <1>u, <2>2 DEF ImportEnds, Respond, Goto, OthersKept
    <3>3. epoch = 0 => lost = epoch
      BY <1>u DEF LastChangeKnown
    <3> QED
      BY <3>1, <3>2, <3>3 DEF LastChangeKnown, OthersKept
  <2> QED
    BY <2>1, <2>2
<1>8. ASSUME NEW r \in Reqs, Bump(r) PROVE LastChangeKnown'
  <2>1. /\ namespace' = namespace + 1 /\ bumps' = Append(bumps, epoch)
        /\ UNCHANGED <<epoch, lost>>
    BY <1>8 DEF Bump
  <2>2. bumps'[namespace'] = epoch
    BY <1>u, <2>1
  <2> QED
    BY <2>1, <2>2 DEF LastChangeKnown
<1>9. ASSUME NEW k \in Keys, NEW n \in 1..namespace, Evict(k, n) PROVE LastChangeKnown'
  BY <1>9 DEF Evict, LastChangeKnown
<1>10. CASE Restart
  <2>1. lost' = lost /\ epoch <= epoch' /\ epoch' \in Nat /\ bumps'[namespace'] = epoch'
    BY <1>10, <1>u DEF Restart, Commit
  <2> QED
    BY <1>u, <2>1 DEF LastChangeKnown
<1>11. CASE UNCHANGED vars
  BY <1>11 DEF vars, LastChangeKnown
<1> QED
  BY <1>1, <1>2, <1>3, <1>4, <1>5, <1>6, <1>7, <1>8, <1>9, <1>10, <1>11
     DEF Next, Arrive, Handle

(* Whatever the requests and restarts: when none is under way, the last     *)
(* change is behind a Bump unless its import was given up.                  *)
THEOREM LastChangeBumped == Spec => []UnbumpedOnlyByAbort
<1>1. Init => LastChangeKnown
  BY DEF Init, LastChangeKnown
<1>2. LastChangeKnown => UnbumpedOnlyByAbort
  BY DEF LastChangeKnown, UnbumpedOnlyByAbort
<1> QED
  BY <1>1, <1>2, LastNext, IInvAlways, PTL DEF Spec
=============================================================================
