------------------------- MODULE UploadSafetyProofs -------------------------
(***************************************************************************)
(* Theorems about UploadSession, for every number of handlers, uploads and *)
(* ids, every body of every chunk, every ceiling, time-to-live and grace   *)
(* period, and whatever crashes and database failures strike: its states   *)
(* are well typed, a session is published once, and once more at most for  *)
(* each .part file that a late chunk made anew, it keeps what it           *)
(* acknowledged, the sweep spares what was finished promptly, /status      *)
(* counts nothing that is not published, and requests in flight take the   *)
(* pending table only so far over its ceiling.                             *)
(***************************************************************************)
EXTENDS UploadSessionInvariant, FiniteSetTheorems, SequenceTheorems, TLAPS

-----------------------------------------------------------------------------
(* Type correctness.                                                       *)

\* What a request carries once it is under way: the session, the id it
\* claimed, and no more bytes than the declared size leaves room for.
ReqOK(r) ==
    /\ r.pc # "idle" => r.u \in Uploads
    /\ r.pc \in {"replace", "insert", "record"} => r.id \in FileIds
    /\ r.pc \in {"open", "append"} =>
           r.base + r.written <= Expected /\ r.written <= Len(r.data)

ReqsOK == req \in [Handlers -> RequestType] /\ \A h \in Handlers : ReqOK(req[h])

TypeInv == TypeOK /\ ReqsOK

\* truncate keeps a file a sequence of pieces and sets its length.
LEMMA ResizeType ==
    ASSUME NEW data \in Seq(Piece \cup {Zero}), NEW n \in Nat
    PROVE  /\ Resize(data, n) \in Seq(Piece \cup {Zero})
           /\ Len(Resize(data, n)) = n
PROOF
<1> DEFINE S == Piece \cup {Zero}
<1>1. \A i \in 1 .. Len(data) : data[i] \in S
  BY ElementOfSeq
<1>2. Len(data) \in Nat
  BY LenProperties
<1>3. Resize(data, n) \in [1 .. n -> S]
  BY <1>1, <1>2 DEF Resize
<1>4. Resize(data, n) \in Seq(S)
  BY <1>3, SeqDef
<1> QED BY <1>3, <1>4, LenProperties

LEMMA InitTypeInv == Init => TypeInv
PROOF
  BY NamesAreDistinct, BodiesAreArbitrary, BoundsAreNaturals, EmptySeq
     DEF Init, TypeInv, TypeOK, ReqsOK, ReqOK, Idle, Asleep, RequestType,
         RequestPc, CleanerType, Rows

LEMMA IdleOK == Idle \in RequestType /\ ReqOK(Idle)
PROOF BY BodiesAreArbitrary, EmptySeq DEF Idle, RequestType, RequestPc, ReqOK

\* The ways a step changes one request.
LEMMA Update ==
    ASSUME ReqsOK, NEW h \in Handlers, NEW r \in RequestType, ReqOK(r),
           req' = [req EXCEPT ![h] = r]
    PROVE  ReqsOK'
PROOF BY DEF ReqsOK

LEMMA Responds ==
    ASSUME ReqsOK, NEW h \in Handlers, Respond(h)
    PROVE  ReqsOK'
PROOF BY IdleOK, Update DEF Respond

LEMMA Advances ==
    ASSUME ReqsOK, NEW h \in Handlers, NEW pc \in RequestPc, GoTo(h, pc),
           req[h].pc # "idle",
           pc \in {"replace", "insert", "record"} => req[h].id \in FileIds,
           pc \in {"open", "append"} => req[h].pc \in {"open", "append"}
    PROVE  ReqsOK'
PROOF
<1> DEFINE r == [req[h] EXCEPT !.pc = pc]
<1>1. r \in RequestType
  BY DEF ReqsOK, RequestType
<1>2. /\ r.pc = pc /\ r.u = req[h].u /\ r.id = req[h].id /\ r.base = req[h].base
      /\ r.written = req[h].written /\ r.data = req[h].data
  BY DEF ReqsOK, RequestType
<1>3. req' = [req EXCEPT ![h] = r]
  BY DEF GoTo, ReqsOK
<1>4. ReqOK(r)
  BY <1>2 DEF ReqsOK, ReqOK
<1> QED BY <1>1, <1>3, <1>4, Update

\* Every step leaves every request well formed.
LEMMA StepReqs == TypeInv /\ [Next]_vars => ReqsOK'
PROOF
<1> SUFFICES ASSUME TypeInv, [Next]_vars PROVE ReqsOK'
  OBVIOUS
<1> USE DEF TypeInv, At
<1>1. ASSUME NEW h \in Handlers, NEW u \in Uploads, InitStart(h, u)
      PROVE  ReqsOK'
  <2> DEFINE r == [Idle EXCEPT !.pc = "init_insert", !.u = u, !.since = clock]
  <2>1. r \in RequestType
    BY IdleOK DEF TypeOK, RequestType, RequestPc
  <2>2. ReqOK(r)
    BY DEF Idle, ReqOK
  <2> QED BY <1>1, <2>1, <2>2, Update DEF InitStart
<1>2. ASSUME NEW h \in Handlers, NEW u \in Uploads, NEW i \in 0 .. LastChunk,
             NEW p \in Payloads[i], ChunkBegin(h, u, i, p)
      PROVE  ReqsOK'
  <2> DEFINE r == [Idle EXCEPT !.pc = "open", !.u = u, !.idx = i, !.data = p,
                       !.base = pending_uploads[u].bytes, !.since = clock]
  <2>1. r \in RequestType
    BY <1>2, BodiesAreArbitrary, EmptySeq
       DEF RequestType, Idle, RequestPc, TypeOK, Row, Rows, ChunkBegin
  <2>2. ReqOK(r)
    BY <1>2, BodiesAreArbitrary, LenProperties
       DEF Idle, TypeOK, Row, Rows, ReqOK, ChunkBegin
  <2> QED BY <1>2, <2>1, <2>2, Update DEF ChunkBegin
<1>3. ASSUME NEW h \in Handlers, ChunkAppend(h) PROVE ReqsOK'
  <2> DEFINE r == [req[h] EXCEPT !.written = @ + 1]
  <2>1. /\ req[h] \in RequestType /\ ReqOK(req[h])
        /\ req[h].pc = "append" /\ req[h].written < Len(req[h].data)
        /\ req[h].base + req[h].written + 1 <= Expected
    BY <1>3 DEF ChunkAppend, ReqsOK, Fits
  <2>2. /\ req[h].written \in Nat /\ req[h].base \in Nat
        /\ req[h].data \in Seq(Piece)
    BY <2>1 DEF RequestType
  <2>3. Len(req[h].data) \in Nat
    BY <2>2, LenProperties
  <2>4. req[h].written + 1 \in Nat /\ req[h].written + 1 <= Len(req[h].data)
    BY <2>1, <2>2, <2>3
  <2>5. r \in RequestType
    BY <2>1, <2>4 DEF RequestType
  <2>6. /\ r.pc = req[h].pc /\ r.u = req[h].u /\ r.base = req[h].base
        /\ r.written = req[h].written + 1 /\ r.data = req[h].data
    BY <2>1 DEF RequestType
  <2>7. r.base + r.written <= Expected
    BY <2>1, <2>2, <2>6, BodiesAreArbitrary
  <2>8. ReqOK(r)
    BY <2>1, <2>4, <2>6, <2>7 DEF ReqOK
  <2> QED BY <1>3, <2>5, <2>8, Update DEF ChunkAppend
<1>4. ASSUME NEW h \in Handlers, NEW u \in Uploads, FinishRead(h, u)
      PROVE  ReqsOK'
  <2> DEFINE r == [Idle EXCEPT
          !.pc = IF Complete(pending_uploads[u]) THEN "exists" ELSE "discard",
          !.u = u, !.since = clock]
  <2>1. r \in RequestType
    BY IdleOK DEF TypeOK, RequestType, RequestPc
  <2>2. ReqOK(r)
    BY DEF Idle, ReqOK
  <2> QED BY <1>4, <2>1, <2>2, Update DEF FinishRead
<1>5. ASSUME NEW h \in Handlers, NEW id \in FileIds, FinishAllocate(h, id)
      PROVE  ReqsOK'
  <2> DEFINE r == [req[h] EXCEPT !.pc = "replace", !.id = id]
  <2>1. r \in RequestType /\ ReqOK(r)
    BY <1>5 DEF ReqsOK, ReqOK, RequestType, RequestPc, FinishAllocate
  <2>2. req' = [req EXCEPT ![h] = r]
    BY <1>5 DEF FinishAllocate, ReqsOK
  <2> QED BY <2>1, <2>2, Update
<1>6. ASSUME NEW h \in Handlers, FinishReplace(h) PROVE ReqsOK'
  <2> DEFINE r == [req[h] EXCEPT !.pc = "insert", !.mtime = partial[req[h].u].mtime]
  <2>1. req[h] \in RequestType /\ ReqOK(req[h]) /\ req[h].pc = "replace"
    BY <1>6 DEF ReqsOK, FinishReplace
  <2>2. partial[req[h].u] \in File
    BY <1>6, <2>1 DEF ReqOK, FinishReplace, TypeOK
  <2>3. r \in RequestType /\ ReqOK(r)
    BY <2>1, <2>2 DEF ReqOK, RequestType, RequestPc, File
  <2>4. req' = [req EXCEPT ![h] = r]
    BY <1>6, <2>1 DEF FinishReplace, ReqsOK
  <2> QED BY <2>3, <2>4, Update
<1>7. ASSUME NEW h \in Handlers,
             \/ ChunkOpen(h) \/ FinishExists(h) \/ FinishDiscard(h)
             \/ FinishInsert(h)
      PROVE  ReqsOK'
  <2>1. ReqOK(req[h])
    BY DEF ReqsOK
  <2>2. CASE ChunkOpen(h)
    BY <2>2, Advances DEF ChunkOpen, RequestPc
  <2>3. CASE FinishExists(h)
    BY <2>3, Advances DEF FinishExists, RequestPc
  <2>4. CASE FinishDiscard(h)
    BY <2>4, Advances DEF FinishDiscard, RequestPc
  <2>5. CASE FinishInsert(h)
    BY <2>1, <2>5, Advances DEF FinishInsert, RequestPc, ReqOK
  <2> QED BY <1>7, <2>2, <2>3, <2>4, <2>5
<1>8. ASSUME NEW h \in Handlers,
             \/ InitInsert(h) \/ InitInsertFails(h) \/ ChunkRefused(h)
             \/ ChunkCommit(h) \/ ChunkDbFails(h) \/ FinishUnlink(h)
             \/ FinishReplaceFails(h) \/ FinishInsertFails(h) \/ FinishRecord(h)
             \/ FinishFails(h) \/ Crash(h)
      PROVE  ReqsOK'
  <2>1. Respond(h)
    BY <1>8 DEF InitInsert, InitInsertFails, ChunkRefused, ChunkCommit,
       ChunkDbFails, FinishUnlink, FinishReplaceFails, FinishInsertFails,
       FinishRecord, FinishFails, Crash
  <2> QED BY <2>1, Responds
<1>9. ASSUME Clean \/ CleanerCrash \/ Tick \/ UNCHANGED vars PROVE ReqsOK'
  <2>1. UNCHANGED req
    BY <1>9 DEF Clean, CleanWake, CleanLock, CleanUnlink, CleanCommit, CleanFails,
       CleanKnownBlobs, CleanSweepBlob, CleanKnownParts, CleanSweepPart, CleanDone,
       CleanerCrash, Tick, vars
  <2> QED BY <2>1 DEF ReqsOK
<1> QED
  BY <1>1, <1>2, <1>3, <1>4, <1>5, <1>6, <1>7, <1>8, <1>9
     DEF Next, Request, Handle

LEMMA StepTypeInv == TypeInv /\ [Next]_vars => TypeInv'
PROOF
<1> SUFFICES ASSUME TypeInv, [Next]_vars PROVE TypeOK'
  BY StepReqs DEF TypeInv
<1>r. req' \in [Handlers -> RequestType]
  BY StepReqs DEF ReqsOK
<1>q. \A h \in Handlers : req[h] \in RequestType /\ ReqOK(req[h])
  BY DEF TypeInv, ReqsOK
<1>t. TypeOK
  BY DEF TypeInv
<1> USE DEF TypeOK, Rows, disk, tables, At
<1>1. ASSUME NEW h \in Handlers, NEW u \in Uploads, InitStart(h, u)
      PROVE  TypeOK'
  BY <1>r, <1>t, <1>1, EmptySeq, BoundsAreNaturals DEF InitStart, Strikes, File
<1>2. ASSUME NEW h \in Handlers, InitInsert(h) PROVE TypeOK'
  BY <1>r, <1>q, <1>t, <1>2, BodiesAreArbitrary DEF InitInsert, Row, ReqOK
<1>3. ASSUME NEW h \in Handlers, InitInsertFails(h) PROVE TypeOK'
  BY <1>r, <1>q, <1>t, <1>3 DEF InitInsertFails, DbRaises, Strikes, Remove, ReqOK
<1>4. ASSUME NEW h \in Handlers, NEW u \in Uploads, NEW i \in 0 .. LastChunk,
             NEW p \in Payloads[i], ChunkBegin(h, u, i, p)
      PROVE  TypeOK'
  BY <1>r, <1>t, <1>4 DEF ChunkBegin
<1>5. ASSUME NEW h \in Handlers, ChunkOpen(h) PROVE TypeOK'
  BY <1>r, <1>q, <1>t, <1>5, EmptySeq DEF ChunkOpen, OpenForAppend, File, ReqOK
<1>6. ASSUME NEW h \in Handlers, ChunkAppend(h) PROVE TypeOK'
  <2> DEFINE r == req[h]  piece == r.data[r.written + 1]
  <2>1. /\ r.u \in Uploads /\ r.written \in Nat /\ r.data \in Seq(Piece)
        /\ r.written < Len(r.data)
    BY <1>q, <1>6 DEF ChunkAppend, ReqOK, RequestType
  <2>2. r.written + 1 \in 1 .. Len(r.data)
    BY <2>1, LenProperties
  <2>3. piece \in Piece \cup {Zero}
    BY <2>1, <2>2, ElementOfSeq
  <2>4. \A data \in Seq(Piece \cup {Zero}) :
            Append(data, piece) \in Seq(Piece \cup {Zero})
    BY <2>3
  <2>5. WriteAtEnd(r.u, piece)
    BY <1>6 DEF ChunkAppend
  <2>6. partial' \in [Uploads -> File \cup {None}]
    BY <1>t, <2>1, <2>4, <2>5 DEF WriteAtEnd, File
  <2> QED BY <1>r, <1>t, <1>6, <2>6 DEF ChunkAppend
<1>7. ASSUME NEW h \in Handlers, ChunkRefused(h) PROVE TypeOK'
  <2>1. req[h].base \in Nat /\ TruncateBack(req[h].u, req[h].base)
    BY <1>q, <1>7 DEF ChunkRefused, RequestType
  <2>2. \A file \in File :
            [data |-> Resize(file.data, req[h].base), mtime |-> clock] \in File
    BY <1>t, <2>1, ResizeType DEF File
  <2>3. partial' \in [Uploads -> File \cup {None}]
    BY <1>t, <2>1, <2>2 DEF TruncateBack
  <2> QED BY <1>r, <1>t, <1>7, <2>3 DEF ChunkRefused
<1>8. ASSUME NEW h \in Handlers, ChunkCommit(h) PROVE TypeOK'
  <2> DEFINE r == req[h]
  <2>1. /\ r.u \in Uploads /\ r.data \in Seq(Piece) /\ r.idx \in 0 .. LastChunk
        /\ r.base + r.written \in Nat /\ r.base + r.written <= Expected
    BY <1>q, <1>8 DEF ChunkCommit, ReqOK, RequestType
  <2>2. Progress(r.u, r)
    BY <1>8 DEF ChunkCommit
  <2> DEFINE row == [next |-> r.idx + 1, bytes |-> r.base + r.written,
                     created |-> pending_uploads[r.u].created]
  <2>3. /\ pending_uploads' \in [Uploads -> Row \cup {None}]
        /\ \A u \in Rows' : pending_uploads'[u].bytes <= Expected
    <3>1. r.idx + 1 \in Nat
      BY <2>1, BodiesAreArbitrary
    <3>2. pending_uploads[r.u] # None => row \in Row /\ row.bytes <= Expected
      BY <1>t, <2>1, <3>1 DEF Row
    <3>3. pending_uploads' = [pending_uploads EXCEPT ![r.u] =
              IF pending_uploads[r.u] = None THEN None ELSE row]
      BY <2>2 DEF Progress
    <3> QED BY <1>t, <2>1, <3>2, <3>3
  <2>4. acked' \in [Uploads -> Seq(Piece)]
    BY <1>t, <1>8, <2>1, ConcatProperties DEF ChunkCommit
  <2> QED BY <1>r, <1>t, <1>8, <2>3, <2>4 DEF ChunkCommit
<1>9. ASSUME NEW h \in Handlers, ChunkDbFails(h) PROVE TypeOK'
  BY <1>r, <1>t, <1>9 DEF ChunkDbFails, Strikes
<1>10. ASSUME NEW h \in Handlers, NEW u \in Uploads, FinishRead(h, u)
       PROVE  TypeOK'
  BY <1>r, <1>t, <1>10 DEF FinishRead
<1>11. ASSUME NEW h \in Handlers, FinishExists(h) PROVE TypeOK'
  BY <1>r, <1>t, <1>11 DEF FinishExists
<1>12. ASSUME NEW h \in Handlers, FinishDiscard(h) PROVE TypeOK'
  BY <1>r, <1>t, <1>12 DEF FinishDiscard
<1>13. ASSUME NEW h \in Handlers, FinishUnlink(h) PROVE TypeOK'
  BY <1>r, <1>t, <1>13 DEF FinishUnlink, Remove
<1>14. ASSUME NEW h \in Handlers, NEW id \in FileIds, FinishAllocate(h, id)
       PROVE  TypeOK'
  BY <1>r, <1>t, <1>14, EmptySeq DEF FinishAllocate, File
<1>15. ASSUME NEW h \in Handlers, FinishReplace(h) PROVE TypeOK'
  BY <1>r, <1>q, <1>t, <1>15 DEF FinishReplace, Remove, ReqOK
<1>16. ASSUME NEW h \in Handlers, FinishReplaceFails(h) PROVE TypeOK'
  BY <1>r, <1>t, <1>16 DEF FinishReplaceFails, RemoveBlob
<1>17. ASSUME NEW h \in Handlers, FinishInsert(h) PROVE TypeOK'
  BY <1>r, <1>q, <1>t, <1>17 DEF FinishInsert, FileRow, ReqOK, RequestType
<1>18. ASSUME NEW h \in Handlers, FinishInsertFails(h) PROVE TypeOK'
  <2>1. faults' \in Nat
    BY <1>t, <1>18 DEF FinishInsertFails, DbRaises, Strikes
  <2> QED BY <1>r, <1>t, <1>18, <2>1 DEF FinishInsertFails, RemoveBlob
<1>19. ASSUME NEW h \in Handlers, FinishRecord(h) PROVE TypeOK'
  BY <1>r, <1>t, <1>19 DEF FinishRecord
<1>20. ASSUME NEW h \in Handlers, FinishFails(h) PROVE TypeOK'
  BY <1>r, <1>t, <1>20 DEF FinishFails, DbRaises, Strikes
<1>21. ASSUME NEW h \in Handlers, Crash(h) PROVE TypeOK'
  BY <1>r, <1>t, <1>21 DEF Crash, Strikes
<1>22. ASSUME Clean \/ CleanerCrash PROVE TypeOK'
  <2> USE DEF CleanerType
  <2>1. CASE \/ CleanWake \/ CleanLock \/ CleanKnownBlobs \/ CleanKnownParts
             \/ CleanDone
    <3>1. CASE CleanWake
      BY <1>r, <1>t, <3>1 DEF CleanWake
    <3>5. CASE CleanLock
      <4>1. cleaner' \in CleanerType
        BY <1>t, <3>5 DEF CleanLock
      <4> QED BY <1>r, <1>t, <3>5, <4>1 DEF CleanLock
    <3>2. CASE CleanKnownBlobs
      BY <1>r, <1>t, <3>2 DEF CleanKnownBlobs, Published
    <3>3. CASE CleanKnownParts
      BY <1>r, <1>t, <3>3 DEF CleanKnownParts
    <3>4. CASE CleanDone
      BY <1>r, <1>t, <3>4 DEF CleanDone, Asleep
    <3> QED BY <2>1, <3>1, <3>2, <3>3, <3>4, <3>5
  <2>2. ASSUME NEW u \in Uploads, CleanUnlink(u) PROVE TypeOK'
    BY <1>r, <1>t, <2>2 DEF CleanUnlink, Remove
  <2>3. CASE CleanCommit
    BY <1>r, <1>t, <2>3 DEF CleanCommit
  <2>4. CASE CleanFails
    <3>1. faults' \in Nat
      BY <1>t, <2>4 DEF CleanFails, DbRaises, Strikes
    <3>2. cleaner' \in CleanerType
      BY <2>4 DEF CleanFails, Asleep
    <3> QED BY <1>r, <1>t, <2>4, <3>1, <3>2 DEF CleanFails
  <2>5. ASSUME NEW id \in FileIds, CleanSweepBlob(id) PROVE TypeOK'
    BY <1>r, <1>t, <2>5 DEF CleanSweepBlob, RemoveBlob
  <2>6. ASSUME NEW u \in Uploads, CleanSweepPart(u) PROVE TypeOK'
    BY <1>r, <1>t, <2>6 DEF CleanSweepPart, Remove
  <2>7. CASE CleanerCrash
    BY <1>r, <1>t, <2>7 DEF CleanerCrash, Strikes, Asleep
  <2> QED BY <1>22, <2>1, <2>2, <2>3, <2>4, <2>5, <2>6, <2>7 DEF Clean
<1>23. ASSUME Tick PROVE TypeOK'
  BY <1>r, <1>t, <1>23 DEF Tick
<1>24. ASSUME UNCHANGED vars PROVE TypeOK'
  BY <1>r, <1>t, <1>24 DEF vars
<1> QED
  BY <1>1, <1>2, <1>3, <1>4, <1>5, <1>6, <1>7, <1>8, <1>9, <1>10, <1>11, <1>12,
     <1>13, <1>14, <1>15, <1>16, <1>17, <1>18, <1>19, <1>20, <1>21, <1>22,
     <1>23, <1>24 DEF Next, Request, Handle

\* No reachable state has a row, file or request of the wrong shape, and no
\* session ever acknowledges more ciphertext than its declared size implies.
THEOREM TypeCorrect == Spec => []TypeOK
PROOF
<1>1. TypeInv => TypeOK
  BY DEF TypeInv
<1> QED BY <1>1, InitTypeInv, StepTypeInv, PTL DEF Spec

-----------------------------------------------------------------------------
(* The invariant that holds whatever fails.                                *)

\* What a step of h does to the requests: h moves to pc and keeps the rest.
Others(h) == \A g \in Handlers \ {h} : req'[g] = req[g]

Moves(h, pc) ==
    /\ Others(h)
    /\ req'[h].pc = pc /\ req'[h].u = req[h].u /\ req'[h].idx = req[h].idx
    /\ req'[h].data = req[h].data /\ req'[h].base = req[h].base
    /\ req'[h].since = req[h].since

LEMMA GoToMoves ==
    ASSUME TypeInv, NEW h \in Handlers, NEW pc, GoTo(h, pc)
    PROVE  /\ Moves(h, pc)
           /\ req'[h].id = req[h].id /\ req'[h].mtime = req[h].mtime
           /\ req'[h].written = req[h].written
PROOF
<1>1. req \in [Handlers -> RequestType]
  BY DEF TypeInv, ReqsOK
<1>2. req' = [req EXCEPT ![h] = [req[h] EXCEPT !.pc = pc]]
  BY <1>1 DEF GoTo
<1> QED BY <1>1, <1>2 DEF Moves, Others, RequestType

Leaves(h) == Others(h) /\ req'[h].pc = "idle" /\ req'[h].u = None

LEMMA RespondLeaves ==
    ASSUME TypeInv, NEW h \in Handlers, Respond(h)
    PROVE  Leaves(h)
PROOF BY DEF TypeInv, ReqsOK, Respond, Leaves, Others, Idle

LEMMA AppendMoves ==
    ASSUME TypeInv, NEW h \in Handlers, ChunkAppend(h)
    PROVE  /\ Moves(h, "append")
           /\ req'[h].written = req[h].written + 1
PROOF
<1>1. req \in [Handlers -> RequestType]
  BY DEF TypeInv, ReqsOK
<1>2. /\ req' = [req EXCEPT ![h] = [req[h] EXCEPT !.written = req[h].written + 1]]
      /\ req[h].pc = "append"
  BY <1>1 DEF ChunkAppend
<1> QED BY <1>1, <1>2 DEF Moves, Others, RequestType

\* An append writes to a file that is there, and leaves one.
LEMMA AppendKeepsFile ==
    ASSUME TypeInv, NEW h \in Handlers, ChunkAppend(h)
    PROVE  \A v \in Uploads : partial'[v] = None <=> partial[v] = None
PROOF
<1> DEFINE r == req[h]  data == partial[r.u].data  piece == r.data[r.written + 1]
           file == [data |-> Append(data, piece), mtime |-> clock]
<1>1. /\ r.u \in Uploads /\ r.written \in Nat /\ r.data \in Seq(Piece)
      /\ r.written < Len(r.data)
  BY DEF ChunkAppend, TypeInv, ReqsOK, ReqOK, RequestType
<1>2. r.written + 1 \in 1 .. Len(r.data)
  BY <1>1, LenProperties
<1>3. piece \in Piece \cup {Zero}
  BY <1>1, <1>2, ElementOfSeq
<1>4. ASSUME partial[r.u] # None PROVE file # None
  <2>1. data \in Seq(Piece \cup {Zero}) /\ clock \in Nat
    BY <1>1, <1>4 DEF TypeInv, TypeOK, File
  <2>2. Append(data, piece) \in Seq(Piece \cup {Zero})
    BY <1>3, <2>1
  <2>3. file \in File
    BY <2>1, <2>2 DEF File
  <2> QED BY <2>3, NamesAreDistinct
<1>5. partial' = [partial EXCEPT ![r.u] = IF partial[r.u] = None THEN None ELSE file]
  BY <1>1 DEF ChunkAppend, WriteAtEnd, TypeInv, TypeOK
<1>6. partial \in [Uploads -> File \cup {None}]
  BY DEF TypeInv, TypeOK
<1> HIDE DEF file
<1> QED BY <1>1, <1>4, <1>5, <1>6

LEMMA AllocateMoves ==
    ASSUME TypeInv, NEW h \in Handlers, NEW id, FinishAllocate(h, id)
    PROVE  Moves(h, "replace") /\ req'[h].id = id
PROOF
<1>1. req \in [Handlers -> RequestType]
  BY DEF TypeInv, ReqsOK
<1>2. req' = [req EXCEPT ![h] = [req[h] EXCEPT !.pc = "replace", !.id = id]]
  BY <1>1 DEF FinishAllocate
<1> QED BY <1>1, <1>2 DEF Moves, Others, RequestType

LEMMA ReplaceMoves ==
    ASSUME TypeInv, NEW h \in Handlers, FinishReplace(h)
    PROVE  /\ Moves(h, "insert") /\ req'[h].id = req[h].id
           /\ req'[h].mtime = partial[req[h].u].mtime
PROOF
<1>1. req \in [Handlers -> RequestType]
  BY DEF TypeInv, ReqsOK
<1>2. req' = [req EXCEPT ![h] = [req[h] EXCEPT
                  !.pc = "insert", !.mtime = partial[req[h].u].mtime]]
  BY <1>1 DEF FinishReplace
<1> QED BY <1>1, <1>2 DEF Moves, Others, RequestType

\* A chunk request that opened the session's file read how many bytes it acknowledged.
LEMMA WriterCounts ==
    ASSUME TypeInv, CountInv, ChunkInv, NEW h \in Handlers, Busy(h, {"open", "append"})
    PROVE  /\ req[h].u \in Rows /\ req[h].u \in Uploads
           /\ req[h].base = Len(acked[req[h].u])
PROOF BY DEF CountInv, ChunkInv, Busy, Rows

\* All but OnceInv, which counts and is proved apart.
CoreInv ==
    /\ LockInv /\ ChunkInv /\ CountInv /\ FreshInv /\ CompleteInv /\ IdInv
    /\ AgeInv

LEMMA InitCoreInv == Init => CoreInv
PROOF
  BY NamesAreDistinct, BodiesAreArbitrary, EmptySeq
     DEF Init, CoreInv, LockInv, ChunkInv, CountInv, FreshInv, CompleteInv,
         IdInv, AgeInv, SweepSparesPrompt, Busy, Idle,
         Asleep, Rows, Published

LEMMA StepCoreInv == TypeInv /\ CoreInv /\ [Next]_vars => CoreInv'
PROOF
<1> SUFFICES ASSUME TypeInv, CoreInv, [Next]_vars PROVE CoreInv'
  OBVIOUS
<1>t. TypeOK
  BY DEF TypeInv
<1>p. LockInv /\ ChunkInv /\ CountInv /\ FreshInv /\ CompleteInv /\ IdInv /\ AgeInv
  BY DEF CoreInv
<1>u. \A g \in Handlers : req[g].pc # "idle" => req[g].u \in Uploads
  BY DEF TypeInv, ReqsOK, ReqOK
<1>n. \A u \in Uploads : u # None
  BY NamesAreDistinct
<1> USE NamesAreDistinct, BoundsAreNaturals
<1> USE DEF Busy, At, Moves, Leaves, Others, Rows, Published, tables, disk
<1>1. ASSUME NEW h \in Handlers, NEW u \in Uploads, InitStart(h, u)
      PROVE CoreInv'
  <2>1. /\ Others(h) /\ req[h].pc = "idle" /\ req'[h].pc = "init_insert"
        /\ req'[h].u = u /\ req'[h].since = clock
    BY <1>1 DEF InitStart, Arrives, Idle, TypeInv, ReqsOK
  <2>2. LockInv' /\ ChunkInv' /\ CountInv'
    BY <1>t, <1>p, <1>n, <1>1, <2>1
       DEF InitStart, Arrives, LockInv, ChunkInv, CountInv
  <2>3. FreshInv'
    BY <1>t, <1>p, <1>n, <1>1, <2>1 DEF InitStart, Arrives, FreshInv
  <2>4. CompleteInv' /\ IdInv'
    BY <1>t, <1>p, <1>n, <1>1, <2>1
       DEF InitStart, Arrives, CompleteInv, IdInv,
           FreshInv
  <2>5. AgeInv'
    BY <1>t, <1>p, <1>n, <1>1, <2>1
       DEF InitStart, Arrives, AgeInv, SweepSparesPrompt, TypeOK
  <2> QED BY <2>2, <2>3, <2>4, <2>5 DEF CoreInv
<1>2. ASSUME NEW h \in Handlers, InitInsert(h) PROVE CoreInv'
  <2>1. Leaves(h) /\ req[h].pc = "init_insert"
    BY <1>2, RespondLeaves DEF InitInsert
  <2>2. LockInv' /\ ChunkInv'
    BY <1>t, <1>p, <1>n, <1>2, <2>1 DEF InitInsert, Free, LockInv, ChunkInv
  <2>3. CountInv'
    BY <1>t, <1>p, <1>n, <1>2, <2>1, BodiesAreArbitrary
       DEF InitInsert, CountInv, FreshInv
  <2>4. FreshInv'
    <3>1. ASSUME NEW v \in Uploads \ issued'
          PROVE  (/\ v \notin Rows /\ partial[v] = None /\ acked[v] = <<>> /\ late[v] = 0
                  /\ \A g \in Handlers : req[g].u # v
                  /\ \A id \in Published : files[id].upload # v)'
      BY <1>t, <1>p, <1>n, <1>2, <2>1, <3>1 DEF InitInsert, Free, FreshInv
    <3>2. ASSUME NEW g \in Handlers, Busy(g, {"init_insert"})'
          PROVE  (/\ req[g].u \notin Rows /\ acked[req[g].u] = <<>> /\ late[req[g].u] = 0
                  /\ \A k \in Handlers \ {g} : req[k].u # req[g].u
                  /\ \A id \in Published : files[id].upload # req[g].u)'
      <4>1. /\ g # h /\ req'[g] = req[g] /\ Busy(g, {"init_insert"})
            /\ req[g].u \in Uploads
        BY <1>u, <2>1, <3>2
      <4> QED BY <1>t, <1>p, <1>n, <1>2, <2>1, <4>1
         DEF InitInsert, Free, FreshInv
    <3> QED BY <3>1, <3>2 DEF FreshInv
  <2>5. CompleteInv' /\ IdInv'
    <3>1. /\ req[h].u \in Uploads /\ UNCHANGED <<files, acked>>
          /\ \A v \in Uploads : v # req[h].u => pending_uploads'[v] = pending_uploads[v]
          /\ \A id \in Published : files[id].upload # req[h].u
      BY <1>t, <1>p, <1>u, <1>2, <2>1 DEF InitInsert, FreshInv, TypeOK
    <3>2. \A id \in Published : files[id].upload \in Uploads
      BY <1>t DEF TypeOK, FileRow
    <3> QED BY <1>p, <1>n, <2>1, <3>1, <3>2 DEF CompleteInv, IdInv
  <2>6. AgeInv'
    BY <1>t, <1>p, <1>n, <1>2, <2>1
       DEF InitInsert, Free, AgeInv, SweepSparesPrompt
  <2> QED BY <2>2, <2>3, <2>4, <2>5, <2>6 DEF CoreInv
<1>3. ASSUME NEW h \in Handlers, InitInsertFails(h) PROVE CoreInv'
  <2>1. Leaves(h) /\ req[h].pc = "init_insert"
    BY <1>3, RespondLeaves DEF InitInsertFails
  <2>2. LockInv' /\ ChunkInv' /\ CountInv'
    BY <1>t, <1>p, <1>n, <1>3, <2>1
       DEF InitInsertFails, Remove, LockInv, ChunkInv, CountInv
  <2>3. FreshInv'
    <3>1. ASSUME NEW v \in Uploads \ issued'
          PROVE  (/\ v \notin Rows /\ partial[v] = None /\ acked[v] = <<>> /\ late[v] = 0
                  /\ \A g \in Handlers : req[g].u # v
                  /\ \A id \in Published : files[id].upload # v)'
      BY <1>t, <1>p, <1>n, <1>3, <2>1, <3>1
         DEF InitInsertFails, Remove, FreshInv
    <3>2. ASSUME NEW g \in Handlers, Busy(g, {"init_insert"})'
          PROVE  (/\ req[g].u \notin Rows /\ acked[req[g].u] = <<>> /\ late[req[g].u] = 0
                  /\ \A k \in Handlers \ {g} : req[k].u # req[g].u
                  /\ \A id \in Published : files[id].upload # req[g].u)'
      <4>1. /\ g # h /\ req'[g] = req[g] /\ Busy(g, {"init_insert"})
            /\ req[g].u \in Uploads
        BY <1>u, <2>1, <3>2
      <4> QED BY <1>t, <1>p, <1>n, <1>3, <2>1, <4>1
         DEF InitInsertFails, Remove, FreshInv
    <3> QED BY <3>1, <3>2 DEF FreshInv
  <2>4. CompleteInv' /\ IdInv'
    BY <1>t, <1>p, <1>n, <1>3, <2>1
       DEF InitInsertFails, Remove, CompleteInv, IdInv
  <2>5. AgeInv'
    BY <1>t, <1>p, <1>n, <1>3, <2>1
       DEF InitInsertFails, Remove, AgeInv, SweepSparesPrompt
  <2> QED BY <2>2, <2>3, <2>4, <2>5 DEF CoreInv
<1>4. ASSUME NEW h \in Handlers, NEW u \in Uploads, NEW i \in 0 .. LastChunk,
             NEW p \in Payloads[i], ChunkBegin(h, u, i, p) PROVE CoreInv'
  <2>1. /\ Others(h) /\ req[h].pc = "idle" /\ req'[h].pc = "open"
        /\ req'[h].u = u /\ req'[h].since = clock
        /\ req'[h].idx = i /\ req'[h].data = p /\ req'[h].base = pending_uploads[u].bytes
    BY <1>4 DEF ChunkBegin, Arrives, Idle, TypeInv, ReqsOK
  <2>2. LockInv' /\ ChunkInv' /\ CountInv'
    BY <1>t, <1>p, <1>n, <1>4, <2>1
       DEF ChunkBegin, Arrives, Free, LockInv, ChunkInv, CountInv
  <2>3. FreshInv'
    BY <1>t, <1>p, <1>n, <1>4, <2>1 DEF ChunkBegin, Arrives, Free, FreshInv
  <2>4. CompleteInv' /\ IdInv'
    BY <1>t, <1>p, <1>n, <1>4, <2>1
       DEF ChunkBegin, Arrives, Free, CompleteInv, IdInv
  <2>5. AgeInv'
    BY <1>t, <1>p, <1>n, <1>4, <2>1
       DEF ChunkBegin, Arrives, Free, AgeInv, SweepSparesPrompt, TypeOK
  <2> QED BY <2>2, <2>3, <2>4, <2>5 DEF CoreInv
<1>5. ASSUME NEW h \in Handlers, ChunkOpen(h) PROVE CoreInv'
  <2>1. Moves(h, "append") /\ req'[h].id = req[h].id /\ req[h].pc = "open"
    BY <1>5, GoToMoves DEF ChunkOpen
  <2> DEFINE w == req[h].u
  <2>2. /\ w \in Rows /\ w \in Uploads /\ req[h].base = Len(acked[w])
        /\ \A v \in Uploads : v # w => partial'[v] = partial[v] /\ late'[v] = late[v]
        /\ late'[w] # late[w] => Len(acked[w]) = Expected
        /\ UNCHANGED <<tables, blob, lock, cleaner, clock, issued, acked>>
    BY <1>t, <1>p, <1>5, <2>1, WriterCounts
       DEF ChunkOpen, OpenForAppend, Remakes, TypeOK
  <2>3. LockInv' /\ ChunkInv'
    BY <1>p, <2>1, <2>2 DEF LockInv, ChunkInv
  <2>4. CountInv'
    BY <1>p, <2>2 DEF CountInv
  <2>5. FreshInv'
    <3>1. ASSUME NEW v \in Uploads \ issued'
          PROVE  (/\ v \notin Rows /\ partial[v] = None /\ acked[v] = <<>> /\ late[v] = 0
                  /\ \A g \in Handlers : req[g].u # v
                  /\ \A id \in Published : files[id].upload # v)'
      <4>1. v # w
        BY <1>p, <2>2, <3>1 DEF FreshInv
      <4> QED BY <1>p, <2>1, <2>2, <3>1, <4>1 DEF FreshInv
    <3>2. ASSUME NEW g \in Handlers, Busy(g, {"init_insert"})'
          PROVE  (/\ req[g].u \notin Rows /\ acked[req[g].u] = <<>> /\ late[req[g].u] = 0
                  /\ \A k \in Handlers \ {g} : req[k].u # req[g].u
                  /\ \A id \in Published : files[id].upload # req[g].u)'
      <4>1. /\ g # h /\ req'[g] = req[g] /\ Busy(g, {"init_insert"})
            /\ req[g].u \in Uploads
        BY <1>u, <2>1, <3>2
      <4>2. req[g].u # w
        BY <1>p, <2>2, <4>1 DEF FreshInv
      <4> QED BY <1>p, <2>1, <2>2, <4>1, <4>2 DEF FreshInv
    <3> QED BY <3>1, <3>2 DEF FreshInv
  <2>6. CompleteInv' /\ IdInv'
    BY <1>p, <2>1, <2>2 DEF CompleteInv, IdInv
  <2>7. AgeInv'
    BY <1>p, <2>1, <2>2 DEF AgeInv, SweepSparesPrompt
  <2> QED BY <2>3, <2>4, <2>5, <2>6, <2>7 DEF CoreInv
<1>6. ASSUME NEW h \in Handlers, ChunkAppend(h) PROVE CoreInv'
  <2>1. Moves(h, "append") /\ req'[h].id = req[h].id /\ req[h].pc = "append"
    BY <1>6, AppendMoves DEF ChunkAppend
  <2>a. /\ \A v \in Uploads : partial'[v] = None <=> partial[v] = None
        /\ UNCHANGED <<tables, blob, lock, cleaner, clock, issued, acked, late>>
    BY <1>6, AppendKeepsFile DEF ChunkAppend
  <2>2. LockInv' /\ ChunkInv' /\ CountInv'
    BY <1>p, <2>1, <2>a DEF LockInv, ChunkInv, CountInv
  <2>3. FreshInv'
    <3>1. ASSUME NEW v \in Uploads \ issued'
          PROVE  (/\ v \notin Rows /\ partial[v] = None /\ acked[v] = <<>> /\ late[v] = 0
                  /\ \A g \in Handlers : req[g].u # v
                  /\ \A id \in Published : files[id].upload # v)'
      BY <1>p, <2>1, <2>a, <3>1 DEF FreshInv
    <3>2. ASSUME NEW g \in Handlers, Busy(g, {"init_insert"})'
          PROVE  (/\ req[g].u \notin Rows /\ acked[req[g].u] = <<>> /\ late[req[g].u] = 0
                  /\ \A k \in Handlers \ {g} : req[k].u # req[g].u
                  /\ \A id \in Published : files[id].upload # req[g].u)'
      BY <1>p, <2>1, <2>a, <3>2 DEF FreshInv
    <3> QED BY <3>1, <3>2 DEF FreshInv
  <2>4. CompleteInv' /\ IdInv'
    BY <1>p, <2>1, <2>a DEF CompleteInv, IdInv
  <2>5. AgeInv'
    BY <1>p, <2>1, <2>a DEF AgeInv, SweepSparesPrompt
  <2> QED BY <2>2, <2>3, <2>4, <2>5 DEF CoreInv
<1>7. ASSUME NEW h \in Handlers, ChunkRefused(h) PROVE CoreInv'
  <2>1. Leaves(h) /\ req[h].pc \in {"open", "append"}
    BY <1>7, RespondLeaves DEF ChunkRefused
  <2>2. LockInv' /\ ChunkInv' /\ CountInv'
    BY <1>t, <1>p, <1>n, <1>7, <2>1
       DEF ChunkRefused, TruncateBack, LockInv, ChunkInv, CountInv
  <2>3. FreshInv'
    <3>1. ASSUME NEW v \in Uploads \ issued'
          PROVE  (/\ v \notin Rows /\ partial[v] = None /\ acked[v] = <<>> /\ late[v] = 0
                  /\ \A g \in Handlers : req[g].u # v
                  /\ \A id \in Published : files[id].upload # v)'
      BY <1>t, <1>p, <1>n, <1>7, <2>1, <3>1
         DEF ChunkRefused, TruncateBack, FreshInv, LockInv, ChunkInv
    <3>2. ASSUME NEW g \in Handlers, Busy(g, {"init_insert"})'
          PROVE  (/\ req[g].u \notin Rows /\ acked[req[g].u] = <<>> /\ late[req[g].u] = 0
                  /\ \A k \in Handlers \ {g} : req[k].u # req[g].u
                  /\ \A id \in Published : files[id].upload # req[g].u)'
      <4>1. /\ g # h /\ req'[g] = req[g] /\ Busy(g, {"init_insert"})
            /\ req[g].u \in Uploads
        BY <1>u, <2>1, <3>2
      <4> QED BY <1>t, <1>p, <1>n, <1>7, <2>1, <4>1
         DEF ChunkRefused, TruncateBack, FreshInv, LockInv, ChunkInv
    <3> QED BY <3>1, <3>2 DEF FreshInv
  <2>4. CompleteInv' /\ IdInv'
    BY <1>t, <1>p, <1>n, <1>7, <2>1
       DEF ChunkRefused, TruncateBack, CompleteInv, IdInv
  <2>5. AgeInv'
    BY <1>t, <1>p, <1>n, <1>7, <2>1
       DEF ChunkRefused, TruncateBack, AgeInv, SweepSparesPrompt
  <2> QED BY <2>2, <2>3, <2>4, <2>5 DEF CoreInv
<1>8. ASSUME NEW h \in Handlers, ChunkCommit(h) PROVE CoreInv'
  <2>1. Leaves(h) /\ req[h].pc = "append"
    BY <1>8, RespondLeaves DEF ChunkCommit
  <2> DEFINE r == req[h]  w == req[h].u
  <2>a. /\ w \in Rows /\ w \in Uploads /\ r.base = Len(acked[w])
        /\ r.base + r.written <= Expected
        /\ r.written = Len(r.data) /\ r.data \in Seq(Piece) /\ r.idx \in 0 .. LastChunk
        /\ r.base \in Nat /\ r.data \in Payloads[r.idx]
        /\ pending_uploads[w].next = r.idx /\ pending_uploads[w].bytes = r.base
    BY <1>8, <1>p, <1>u, <2>1, WriterCounts
       DEF ChunkCommit, ChunkInv, TypeInv, ReqsOK, ReqOK, RequestType
  <2>b. /\ \A v \in Uploads \ {w} :
               pending_uploads'[v] = pending_uploads[v] /\ acked'[v] = acked[v]
        /\ acked'[w] = acked[w] \o r.data
        /\ pending_uploads'[w] # None
        /\ pending_uploads'[w].bytes = r.base + r.written
        /\ pending_uploads'[w].next = r.idx + 1
        /\ UNCHANGED <<files, partial, issued, late>>
    <3>1. /\ pending_uploads' = [pending_uploads EXCEPT ![w] =
                  [next |-> r.idx + 1, bytes |-> r.base + r.written,
                   created |-> pending_uploads[w].created]]
          /\ acked' = [acked EXCEPT ![w] = acked[w] \o r.data]
          /\ UNCHANGED <<files, partial, issued, late>>
      BY <1>t, <1>8, <2>a DEF TypeOK, ChunkCommit, Progress
    <3>2. [next |-> r.idx + 1, bytes |-> r.base + r.written,
           created |-> pending_uploads[w].created] \in Row
      <4>1. pending_uploads[w].created \in Nat
        BY <1>t, <2>a DEF TypeOK, Row
      <4>2. r.base + r.written \in Nat /\ r.idx + 1 \in Nat
        <5>1. r.written \in Nat /\ r.idx \in Nat
          BY <2>a, BodiesAreArbitrary, LenProperties
        <5>2. r.base \in Nat
          BY <2>a
        <5> QED BY <5>1, <5>2
      <4> QED BY <4>1, <4>2 DEF Row
    <3> QED BY <1>t, <2>a, <3>1, <3>2 DEF TypeOK
  <2>2. LockInv' /\ ChunkInv'
    <3>1. lock = h /\ lock' = None /\ UNCHANGED cleaner
      BY <1>8, <1>p, <2>1 DEF ChunkCommit, LockInv
    <3>2. \A g \in Handlers \ {h} : ~Busy(g, {"open", "append"})
      BY <1>p, <3>1 DEF LockInv
    <3>3. \A g \in Handlers : ~Busy(g, {"open", "append"})'
      BY <2>1, <3>2
    <3>4. LockInv'
      BY <1>p, <3>1, <3>3 DEF LockInv
    <3> QED BY <3>3, <3>4 DEF ChunkInv
  \* After the last byte only an empty chunk commits.
  <2>e. \A v \in Uploads : Len(acked[v]) = Expected => acked'[v] = acked[v]
    <3>1. ASSUME Len(acked[w]) = Expected PROVE acked'[w] = acked[w]
      <4>1. r.data = <<>>
        BY <2>a, <3>1, BodiesAreArbitrary, EmptySeq, LenProperties
      <4>2. acked[w] \in Seq(Piece)
        BY <1>t, <2>a DEF TypeOK
      <4> QED BY <2>b, <4>1, <4>2, ConcatEmptySeq
    <3> QED BY <2>b, <3>1
  <2>3. CountInv'
    <3>1. Len(acked'[w]) = r.base + r.written
      <4>1. acked[w] \in Seq(Piece)
        BY <1>t, <2>a DEF TypeOK
      <4>2. Len(acked[w] \o r.data) = Len(acked[w]) + Len(r.data)
        BY <2>a, <4>1, ConcatProperties
      <4> QED BY <2>a, <2>b, <4>2
    <3>2. r.idx + 1 <= LastChunk + 1
      BY <2>a, BodiesAreArbitrary
    <3>3. ASSUME NEW v \in Rows'
          PROVE  /\ pending_uploads'[v].bytes = Len(acked'[v])
                 /\ pending_uploads'[v].next <= LastChunk + 1
      <4>1. CASE v = w
        BY <2>b, <3>1, <3>2, <4>1
      <4>2. CASE v # w
        BY <1>p, <2>b, <4>2 DEF CountInv
      <4> QED BY <4>1, <4>2
    <3>4. \A v \in Uploads : late'[v] > 0 => Len(acked'[v]) = Expected
      BY <1>p, <2>b, <2>e DEF CountInv
    <3> QED BY <3>3, <3>4 DEF CountInv
  <2>4. FreshInv'
    <3>1. ASSUME NEW v \in Uploads \ issued'
          PROVE  (/\ v \notin Rows /\ partial[v] = None /\ acked[v] = <<>> /\ late[v] = 0
                  /\ \A g \in Handlers : req[g].u # v
                  /\ \A id \in Published : files[id].upload # v)'
      <4>1. v \in Uploads \ {w} /\ v \in Uploads \ issued
        BY <1>p, <2>b, <3>1 DEF FreshInv
      <4>2. \A g \in Handlers : req'[g].u # v
        BY <1>p, <1>n, <2>1, <4>1 DEF FreshInv
      <4> QED BY <1>p, <2>b, <4>1, <4>2 DEF FreshInv
    <3>2. ASSUME NEW g \in Handlers, Busy(g, {"init_insert"})'
          PROVE  (/\ req[g].u \notin Rows /\ acked[req[g].u] = <<>> /\ late[req[g].u] = 0
                  /\ \A k \in Handlers \ {g} : req[k].u # req[g].u
                  /\ \A id \in Published : files[id].upload # req[g].u)'
      <4>1. /\ g # h /\ req'[g] = req[g] /\ Busy(g, {"init_insert"})
            /\ req[g].u \in Uploads
        BY <1>u, <2>1, <3>2
      <4>2. req[g].u # w
        BY <1>p, <4>1 DEF FreshInv
      <4>3. /\ pending_uploads'[req[g].u] = pending_uploads[req[g].u]
            /\ acked'[req[g].u] = acked[req[g].u]
        BY <2>b, <4>1, <4>2
      <4>4. \A k \in Handlers \ {g} : req'[k].u # req'[g].u
        BY <1>p, <1>n, <2>1, <4>1 DEF FreshInv
      <4> QED BY <1>p, <2>b, <4>1, <4>3, <4>4 DEF FreshInv
    <3> QED BY <3>1, <3>2 DEF FreshInv
  <2>5. CompleteInv'
    <3>1. \A id \in Published : files[id].upload \in Uploads
      BY <1>t DEF TypeOK, FileRow
    <3>2. \A v \in Uploads : Len(acked[v]) = Expected => acked'[v] = acked[v]
      BY <2>e
    <3>3. \A g \in Handlers : Busy(g, {"exists", "allocate", "replace", "insert"})' =>
              Len(acked'[req'[g].u]) = Expected
      BY <1>p, <1>u, <2>1, <3>2 DEF CompleteInv
    <3>4. \A id \in Published' : /\ Len(acked'[files'[id].upload]) = Expected
                                 /\ files'[id].upload \notin Rows'
      BY <1>p, <2>a, <2>b, <3>1, <3>2 DEF CompleteInv
    <3> QED BY <3>3, <3>4 DEF CompleteInv
  <2>6. IdInv'
    BY <1>t, <1>p, <1>n, <1>8, <2>1
       DEF ChunkCommit, Progress, IdInv
  <2>7. AgeInv'
    BY <1>t, <1>p, <1>n, <1>8, <2>1
       DEF ChunkCommit, Progress, AgeInv, SweepSparesPrompt
  <2> QED BY <2>2, <2>3, <2>4, <2>5, <2>6, <2>7 DEF CoreInv
<1>9. ASSUME NEW h \in Handlers, ChunkDbFails(h) PROVE CoreInv'
  <2>1. Leaves(h) /\ req[h].pc = "append"
    BY <1>9, RespondLeaves DEF ChunkDbFails
  <2>2. LockInv' /\ ChunkInv' /\ CountInv'
    BY <1>t, <1>p, <1>n, <1>9, <2>1
       DEF ChunkDbFails, LockInv, ChunkInv, CountInv
  <2>3. FreshInv'
    <3>1. ASSUME NEW v \in Uploads \ issued'
          PROVE  (/\ v \notin Rows /\ partial[v] = None /\ acked[v] = <<>> /\ late[v] = 0
                  /\ \A g \in Handlers : req[g].u # v
                  /\ \A id \in Published : files[id].upload # v)'
      BY <1>t, <1>p, <1>n, <1>9, <2>1, <3>1 DEF ChunkDbFails, FreshInv
    <3>2. ASSUME NEW g \in Handlers, Busy(g, {"init_insert"})'
          PROVE  (/\ req[g].u \notin Rows /\ acked[req[g].u] = <<>> /\ late[req[g].u] = 0
                  /\ \A k \in Handlers \ {g} : req[k].u # req[g].u
                  /\ \A id \in Published : files[id].upload # req[g].u)'
      <4>1. /\ g # h /\ req'[g] = req[g] /\ Busy(g, {"init_insert"})
            /\ req[g].u \in Uploads
        BY <1>u, <2>1, <3>2
      <4> QED BY <1>t, <1>p, <1>n, <1>9, <2>1, <4>1 DEF ChunkDbFails, FreshInv
    <3> QED BY <3>1, <3>2 DEF FreshInv
  <2>4. CompleteInv' /\ IdInv'
    BY <1>t, <1>p, <1>n, <1>9, <2>1
       DEF ChunkDbFails, CompleteInv, IdInv
  <2>5. AgeInv'
    BY <1>t, <1>p, <1>n, <1>9, <2>1 DEF ChunkDbFails, AgeInv, SweepSparesPrompt
  <2> QED BY <2>2, <2>3, <2>4, <2>5 DEF CoreInv
<1>10. ASSUME NEW h \in Handlers, NEW u \in Uploads, FinishRead(h, u)
      PROVE CoreInv'
  <2>1. /\ Others(h) /\ req[h].pc = "idle"
        /\ req'[h].pc = (IF Complete(pending_uploads[u]) THEN "exists" ELSE "discard")
        /\ req'[h].u = u /\ req'[h].since = clock
    BY <1>10 DEF FinishRead, Arrives, Idle, TypeInv, ReqsOK
  <2>2. LockInv' /\ ChunkInv' /\ CountInv'
    BY <1>t, <1>p, <1>n, <1>10, <2>1
       DEF FinishRead, Arrives, Complete, LockInv, ChunkInv, CountInv
  <2>3. FreshInv'
    BY <1>t, <1>p, <1>n, <1>10, <2>1
       DEF FinishRead, Arrives, Complete, FreshInv
  <2>4. CompleteInv' /\ IdInv'
    BY <1>t, <1>p, <1>n, <1>10, <2>1
       DEF FinishRead, Arrives, Complete, CompleteInv, CountInv, IdInv
  <2>5. AgeInv'
    BY <1>t, <1>p, <1>n, <1>10, <2>1
       DEF FinishRead, Arrives, Complete, AgeInv, SweepSparesPrompt, TypeOK
  <2> QED BY <2>2, <2>3, <2>4, <2>5 DEF CoreInv
<1>11. ASSUME NEW h \in Handlers, FinishExists(h) PROVE CoreInv'
  <2>1. /\ \E pc \in {"discard", "allocate"} : Moves(h, pc)
        /\ req'[h].id = req[h].id /\ req[h].pc = "exists"
    BY <1>11, GoToMoves DEF FinishExists
  <2>2. LockInv' /\ ChunkInv' /\ CountInv'
    BY <1>t, <1>p, <1>n, <1>11, <2>1
       DEF FinishExists, LockInv, ChunkInv, CountInv
  <2>3. FreshInv'
    BY <1>t, <1>p, <1>n, <1>11, <2>1 DEF FinishExists, FreshInv
  <2>4. CompleteInv' /\ IdInv'
    BY <1>t, <1>p, <1>n, <1>11, <2>1
       DEF FinishExists, CompleteInv, IdInv
  <2>5. AgeInv'
    BY <1>t, <1>p, <1>n, <1>11, <2>1
       DEF FinishExists, AgeInv, SweepSparesPrompt
  <2> QED BY <2>2, <2>3, <2>4, <2>5 DEF CoreInv
<1>12. ASSUME NEW h \in Handlers, FinishDiscard(h) PROVE CoreInv'
  <2>1. Moves(h, "unlink") /\ req'[h].id = req[h].id /\ req[h].pc = "discard"
    BY <1>12, GoToMoves DEF FinishDiscard
  <2>2. LockInv' /\ ChunkInv' /\ CountInv'
    BY <1>t, <1>p, <1>n, <1>12, <2>1
       DEF FinishDiscard, Free, LockInv, ChunkInv, CountInv
  <2>3. FreshInv'
    BY <1>t, <1>p, <1>n, <1>12, <2>1 DEF FinishDiscard, Free, FreshInv
  <2>4. CompleteInv' /\ IdInv'
    BY <1>t, <1>p, <1>n, <1>12, <2>1
       DEF FinishDiscard, Free, CompleteInv, IdInv
  <2>5. AgeInv'
    BY <1>t, <1>p, <1>n, <1>12, <2>1
       DEF FinishDiscard, Free, AgeInv, SweepSparesPrompt
  <2> QED BY <2>2, <2>3, <2>4, <2>5 DEF CoreInv
<1>13. ASSUME NEW h \in Handlers, FinishUnlink(h) PROVE CoreInv'
  <2>1. Leaves(h) /\ req[h].pc = "unlink"
    BY <1>13, RespondLeaves DEF FinishUnlink
  <2>2. LockInv' /\ ChunkInv' /\ CountInv'
    BY <1>t, <1>p, <1>n, <1>13, <2>1
       DEF FinishUnlink, Remove, LockInv, ChunkInv, CountInv
  <2>3. FreshInv'
    <3>1. ASSUME NEW v \in Uploads \ issued'
          PROVE  (/\ v \notin Rows /\ partial[v] = None /\ acked[v] = <<>> /\ late[v] = 0
                  /\ \A g \in Handlers : req[g].u # v
                  /\ \A id \in Published : files[id].upload # v)'
      BY <1>t, <1>p, <1>n, <1>13, <2>1, <3>1 DEF FinishUnlink, Remove, FreshInv
    <3>2. ASSUME NEW g \in Handlers, Busy(g, {"init_insert"})'
          PROVE  (/\ req[g].u \notin Rows /\ acked[req[g].u] = <<>> /\ late[req[g].u] = 0
                  /\ \A k \in Handlers \ {g} : req[k].u # req[g].u
                  /\ \A id \in Published : files[id].upload # req[g].u)'
      <4>1. /\ g # h /\ req'[g] = req[g] /\ Busy(g, {"init_insert"})
            /\ req[g].u \in Uploads
        BY <1>u, <2>1, <3>2
      <4> QED BY <1>t, <1>p, <1>n, <1>13, <2>1, <4>1
         DEF FinishUnlink, Remove, FreshInv
    <3> QED BY <3>1, <3>2 DEF FreshInv
  <2>4. CompleteInv' /\ IdInv'
    BY <1>t, <1>p, <1>n, <1>13, <2>1
       DEF FinishUnlink, Remove, CompleteInv, IdInv
  <2>5. AgeInv'
    BY <1>t, <1>p, <1>n, <1>13, <2>1
       DEF FinishUnlink, Remove, AgeInv, SweepSparesPrompt
  <2> QED BY <2>2, <2>3, <2>4, <2>5 DEF CoreInv
<1>14. ASSUME NEW h \in Handlers, NEW id \in FileIds, FinishAllocate(h, id)
      PROVE CoreInv'
  <2>1. Moves(h, "replace") /\ req'[h].id = id /\ req[h].pc = "allocate"
    <3>1. req[h].pc = "allocate"
      BY <1>14 DEF FinishAllocate
    <3> QED BY <1>14, <3>1, AllocateMoves
  <2>a. /\ blob[id] = None /\ files[id] = None
        /\ \A g \in Handlers : req[g].id # id
        /\ req[h].pc = "allocate"
        /\ blob' = [blob EXCEPT ![id] = [data |-> <<>>, mtime |-> clock]]
        /\ UNCHANGED <<tables, partial, lock, cleaner, clock, issued, acked, late>>
    BY <1>14 DEF FinishAllocate
  <2>2. LockInv' /\ ChunkInv' /\ CountInv'
    BY <1>t, <1>p, <1>n, <2>a, <2>1 DEF LockInv, ChunkInv, CountInv
  <2>3. FreshInv'
    BY <1>t, <1>p, <1>n, <2>a, <2>1 DEF FreshInv
  <2>4. CompleteInv' /\ IdInv'
    BY <1>t, <1>p, <1>n, <2>a, <2>1 DEF CompleteInv, IdInv
  <2>5. AgeInv'
    BY <1>t, <1>p, <1>n, <2>a, <2>1 DEF AgeInv, SweepSparesPrompt
  <2> QED BY <2>2, <2>3, <2>4, <2>5 DEF CoreInv
<1>15. ASSUME NEW h \in Handlers, FinishReplace(h) PROVE CoreInv'
  <2>1. Moves(h, "insert") /\ req'[h].id = req[h].id
        /\ req'[h].mtime = partial[req[h].u].mtime /\ req[h].pc = "replace"
    BY <1>15, ReplaceMoves DEF FinishReplace
  <2>a. /\ partial[req[h].u] # None /\ req[h].pc = "replace"
        /\ blob' = [blob EXCEPT ![req[h].id] = partial[req[h].u]]
        /\ partial' = [partial EXCEPT ![req[h].u] = None]
        /\ UNCHANGED <<tables, lock, cleaner, clock, issued, acked, late>>
    BY <1>15 DEF FinishReplace, Remove
  <2>b. /\ req[h].u \in Uploads /\ req[h].id \in FileIds
        /\ blob'[req[h].id] = partial[req[h].u] /\ partial'[req[h].u] = None
        /\ \A id \in FileIds \ {req[h].id} : blob'[id] = blob[id]
        /\ \A v \in Uploads \ {req[h].u} : partial'[v] = partial[v]
    BY <1>t, <2>a DEF TypeOK, TypeInv, ReqsOK, ReqOK
  <2>c. /\ \A id \in Published : files[id].upload \in Uploads /\ id \in FileIds
        /\ \A g \in Handlers : req[g].pc = "insert" =>
               req[g].u \in Uploads /\ req[g].id \in FileIds
    BY <1>t DEF TypeOK, FileRow, TypeInv, ReqsOK, ReqOK
  <2>2. LockInv' /\ ChunkInv' /\ CountInv'
    BY <1>t, <1>p, <1>n, <2>a, <2>1 DEF LockInv, ChunkInv, CountInv
  <2>3. FreshInv'
    BY <1>t, <1>p, <1>n, <2>a, <2>1 DEF FreshInv
  <2>4. CompleteInv' /\ IdInv'
    BY <1>t, <1>p, <1>n, <2>a, <2>1, <2>b, <2>c
       DEF CompleteInv, IdInv
  <2>5. AgeInv'
    BY <1>p, <2>a, <2>b, <2>c, <2>1 DEF AgeInv, SweepSparesPrompt, IdInv
  <2> QED BY <2>2, <2>3, <2>4, <2>5 DEF CoreInv
<1>16. ASSUME NEW h \in Handlers, FinishReplaceFails(h) PROVE CoreInv'
  <2>1. Leaves(h) /\ req[h].pc = "replace"
    BY <1>16, RespondLeaves DEF FinishReplaceFails
  <2>2. LockInv' /\ ChunkInv' /\ CountInv'
    BY <1>t, <1>p, <1>n, <1>16, <2>1
       DEF FinishReplaceFails, RemoveBlob, LockInv, ChunkInv, CountInv
  <2>3. FreshInv'
    <3>1. ASSUME NEW v \in Uploads \ issued'
          PROVE  (/\ v \notin Rows /\ partial[v] = None /\ acked[v] = <<>> /\ late[v] = 0
                  /\ \A g \in Handlers : req[g].u # v
                  /\ \A id \in Published : files[id].upload # v)'
      BY <1>t, <1>p, <1>n, <1>16, <2>1, <3>1
         DEF FinishReplaceFails, RemoveBlob, FreshInv
    <3>2. ASSUME NEW g \in Handlers, Busy(g, {"init_insert"})'
          PROVE  (/\ req[g].u \notin Rows /\ acked[req[g].u] = <<>> /\ late[req[g].u] = 0
                  /\ \A k \in Handlers \ {g} : req[k].u # req[g].u
                  /\ \A id \in Published : files[id].upload # req[g].u)'
      <4>1. /\ g # h /\ req'[g] = req[g] /\ Busy(g, {"init_insert"})
            /\ req[g].u \in Uploads
        BY <1>u, <2>1, <3>2
      <4> QED BY <1>t, <1>p, <1>n, <1>16, <2>1, <4>1
         DEF FinishReplaceFails, RemoveBlob, FreshInv
    <3> QED BY <3>1, <3>2 DEF FreshInv
  <2>4. CompleteInv' /\ IdInv'
    BY <1>t, <1>p, <1>n, <1>16, <2>1
       DEF FinishReplaceFails, RemoveBlob, CompleteInv, IdInv
  <2>5. AgeInv'
    BY <1>t, <1>p, <1>n, <1>16, <2>1
       DEF FinishReplaceFails, RemoveBlob, AgeInv, SweepSparesPrompt, IdInv
  <2> QED BY <2>2, <2>3, <2>4, <2>5 DEF CoreInv
<1>17. ASSUME NEW h \in Handlers, FinishInsert(h) PROVE CoreInv'
  <2>1. Moves(h, "record") /\ req'[h].id = req[h].id /\ req[h].pc = "insert"
    BY <1>17, GoToMoves DEF FinishInsert
  <2>a. /\ req[h].id \in FileIds
        /\ files'[req[h].id] # None /\ files'[req[h].id].mtime = req[h].mtime
        /\ files'[req[h].id].inserted = clock
        /\ \A id \in FileIds \ {req[h].id} : files'[id] = files[id]
        /\ UNCHANGED <<blob, cleaner, clock>>
    <3>1. /\ req[h].id \in FileIds /\ req[h].u \in Uploads
          /\ req[h].mtime \in Nat
      BY <2>1 DEF TypeInv, ReqsOK, ReqOK, RequestType
    <3>2. [upload |-> req[h].u, mtime |-> req[h].mtime, inserted |-> clock] \in FileRow
      BY <1>t, <3>1 DEF TypeOK, FileRow
    <3> QED BY <1>t, <1>17, <3>1, <3>2 DEF TypeOK, FinishInsert
  <2>b. /\ \A g \in Handlers : req[g].pc = "insert" => req[g].id \in FileIds /\ req[g].mtime \in Nat
        /\ clock \in Nat /\ cleaner.now \in Nat
    BY <1>t DEF TypeOK, CleanerType, TypeInv, ReqsOK, ReqOK, RequestType
  <2>2. LockInv' /\ ChunkInv' /\ CountInv'
    BY <1>t, <1>p, <1>n, <1>17, <2>1
       DEF FinishInsert, Free, LockInv, ChunkInv, CountInv
  <2>3. FreshInv'
    BY <1>t, <1>p, <1>n, <1>17, <2>1 DEF FinishInsert, Free, FreshInv
  <2>4. CompleteInv' /\ IdInv'
    <3>1. /\ req[h].u \in Uploads /\ files'[req[h].id].upload = req[h].u
          /\ pending_uploads'[req[h].u] = None /\ UNCHANGED acked
          /\ \A v \in Uploads : v # req[h].u => pending_uploads'[v] = pending_uploads[v]
      BY <1>t, <1>u, <1>17, <2>1, <2>a DEF FinishInsert, TypeOK
    <3>2. \A id \in Published : files[id].upload \in Uploads
      BY <1>t DEF TypeOK, FileRow
    <3>3. CompleteInv'
      BY <1>p, <1>n, <2>1, <2>a, <3>1, <3>2 DEF CompleteInv
    <3>4. IdInv'
      BY <1>p, <1>n, <2>1, <2>a DEF IdInv
    <3> QED BY <3>3, <3>4
  <2>5. AgeInv'
    BY <1>p, <2>1, <2>a, <2>b DEF AgeInv, SweepSparesPrompt, IdInv
  <2> QED BY <2>2, <2>3, <2>4, <2>5 DEF CoreInv
<1>18. ASSUME NEW h \in Handlers, FinishInsertFails(h) PROVE CoreInv'
  <2>1. Leaves(h) /\ req[h].pc = "insert"
    BY <1>18, RespondLeaves DEF FinishInsertFails
  <2>2. LockInv' /\ ChunkInv' /\ CountInv'
    BY <1>t, <1>p, <1>n, <1>18, <2>1
       DEF FinishInsertFails, RemoveBlob, LockInv, ChunkInv, CountInv
  <2>3. FreshInv'
    <3>1. ASSUME NEW v \in Uploads \ issued'
          PROVE  (/\ v \notin Rows /\ partial[v] = None /\ acked[v] = <<>> /\ late[v] = 0
                  /\ \A g \in Handlers : req[g].u # v
                  /\ \A id \in Published : files[id].upload # v)'
      BY <1>t, <1>p, <1>n, <1>18, <2>1, <3>1
         DEF FinishInsertFails, RemoveBlob, FreshInv
    <3>2. ASSUME NEW g \in Handlers, Busy(g, {"init_insert"})'
          PROVE  (/\ req[g].u \notin Rows /\ acked[req[g].u] = <<>> /\ late[req[g].u] = 0
                  /\ \A k \in Handlers \ {g} : req[k].u # req[g].u
                  /\ \A id \in Published : files[id].upload # req[g].u)'
      <4>1. /\ g # h /\ req'[g] = req[g] /\ Busy(g, {"init_insert"})
            /\ req[g].u \in Uploads
        BY <1>u, <2>1, <3>2
      <4> QED BY <1>t, <1>p, <1>n, <1>18, <2>1, <4>1
         DEF FinishInsertFails, RemoveBlob, FreshInv
    <3> QED BY <3>1, <3>2 DEF FreshInv
  <2>4. CompleteInv' /\ IdInv'
    BY <1>t, <1>p, <1>n, <1>18, <2>1
       DEF FinishInsertFails, RemoveBlob, CompleteInv, IdInv
  <2>5. AgeInv'
    BY <1>t, <1>p, <1>n, <1>18, <2>1
       DEF FinishInsertFails, RemoveBlob, AgeInv, SweepSparesPrompt, IdInv
  <2> QED BY <2>2, <2>3, <2>4, <2>5 DEF CoreInv
<1>19. ASSUME NEW h \in Handlers, FinishRecord(h) PROVE CoreInv'
  <2>1. Leaves(h) /\ req[h].pc = "record"
    BY <1>19, RespondLeaves DEF FinishRecord
  <2>2. LockInv' /\ ChunkInv' /\ CountInv'
    BY <1>t, <1>p, <1>n, <1>19, <2>1
       DEF FinishRecord, LockInv, ChunkInv, CountInv
  <2>3. FreshInv'
    <3>1. ASSUME NEW v \in Uploads \ issued'
          PROVE  (/\ v \notin Rows /\ partial[v] = None /\ acked[v] = <<>> /\ late[v] = 0
                  /\ \A g \in Handlers : req[g].u # v
                  /\ \A id \in Published : files[id].upload # v)'
      BY <1>t, <1>p, <1>n, <1>19, <2>1, <3>1 DEF FinishRecord, FreshInv
    <3>2. ASSUME NEW g \in Handlers, Busy(g, {"init_insert"})'
          PROVE  (/\ req[g].u \notin Rows /\ acked[req[g].u] = <<>> /\ late[req[g].u] = 0
                  /\ \A k \in Handlers \ {g} : req[k].u # req[g].u
                  /\ \A id \in Published : files[id].upload # req[g].u)'
      <4>1. /\ g # h /\ req'[g] = req[g] /\ Busy(g, {"init_insert"})
            /\ req[g].u \in Uploads
        BY <1>u, <2>1, <3>2
      <4> QED BY <1>t, <1>p, <1>n, <1>19, <2>1, <4>1 DEF FinishRecord, FreshInv
    <3> QED BY <3>1, <3>2 DEF FreshInv
  <2>4. CompleteInv' /\ IdInv'
    BY <1>t, <1>p, <1>n, <1>19, <2>1
       DEF FinishRecord, CompleteInv, IdInv
  <2>5. AgeInv'
    BY <1>t, <1>p, <1>n, <1>19, <2>1
       DEF FinishRecord, AgeInv, SweepSparesPrompt
  <2> QED BY <2>2, <2>3, <2>4, <2>5 DEF CoreInv
<1>20. ASSUME NEW h \in Handlers, FinishFails(h) PROVE CoreInv'
  <2>1. Leaves(h)
    BY <1>20, RespondLeaves DEF FinishFails
  <2>2. LockInv' /\ ChunkInv' /\ CountInv'
    BY <1>t, <1>p, <1>n, <1>20, <2>1
       DEF FinishFails, LockInv, ChunkInv, CountInv
  <2>3. FreshInv'
    <3>1. ASSUME NEW v \in Uploads \ issued'
          PROVE  (/\ v \notin Rows /\ partial[v] = None /\ acked[v] = <<>> /\ late[v] = 0
                  /\ \A g \in Handlers : req[g].u # v
                  /\ \A id \in Published : files[id].upload # v)'
      BY <1>t, <1>p, <1>n, <1>20, <2>1, <3>1 DEF FinishFails, FreshInv
    <3>2. ASSUME NEW g \in Handlers, Busy(g, {"init_insert"})'
          PROVE  (/\ req[g].u \notin Rows /\ acked[req[g].u] = <<>> /\ late[req[g].u] = 0
                  /\ \A k \in Handlers \ {g} : req[k].u # req[g].u
                  /\ \A id \in Published : files[id].upload # req[g].u)'
      <4>1. /\ g # h /\ req'[g] = req[g] /\ Busy(g, {"init_insert"})
            /\ req[g].u \in Uploads
        BY <1>u, <2>1, <3>2
      <4> QED BY <1>t, <1>p, <1>n, <1>20, <2>1, <4>1 DEF FinishFails, FreshInv
    <3> QED BY <3>1, <3>2 DEF FreshInv
  <2>4. CompleteInv' /\ IdInv'
    BY <1>t, <1>p, <1>n, <1>20, <2>1
       DEF FinishFails, CompleteInv, IdInv
  <2>5. AgeInv'
    BY <1>t, <1>p, <1>n, <1>20, <2>1 DEF FinishFails, AgeInv, SweepSparesPrompt
  <2> QED BY <2>2, <2>3, <2>4, <2>5 DEF CoreInv
<1>21. ASSUME NEW h \in Handlers, Crash(h) PROVE CoreInv'
  <2>1. Leaves(h)
    BY <1>21, RespondLeaves DEF Crash
  <2>2. LockInv' /\ ChunkInv' /\ CountInv'
    BY <1>t, <1>p, <1>n, <1>21, <2>1 DEF Crash, LockInv, ChunkInv, CountInv
  <2>3. FreshInv'
    <3>1. ASSUME NEW v \in Uploads \ issued'
          PROVE  (/\ v \notin Rows /\ partial[v] = None /\ acked[v] = <<>> /\ late[v] = 0
                  /\ \A g \in Handlers : req[g].u # v
                  /\ \A id \in Published : files[id].upload # v)'
      BY <1>t, <1>p, <1>n, <1>21, <2>1, <3>1 DEF Crash, FreshInv
    <3>2. ASSUME NEW g \in Handlers, Busy(g, {"init_insert"})'
          PROVE  (/\ req[g].u \notin Rows /\ acked[req[g].u] = <<>> /\ late[req[g].u] = 0
                  /\ \A k \in Handlers \ {g} : req[k].u # req[g].u
                  /\ \A id \in Published : files[id].upload # req[g].u)'
      <4>1. /\ g # h /\ req'[g] = req[g] /\ Busy(g, {"init_insert"})
            /\ req[g].u \in Uploads
        BY <1>u, <2>1, <3>2
      <4> QED BY <1>t, <1>p, <1>n, <1>21, <2>1, <4>1 DEF Crash, FreshInv
    <3> QED BY <3>1, <3>2 DEF FreshInv
  <2>4. CompleteInv' /\ IdInv'
    BY <1>t, <1>p, <1>n, <1>21, <2>1
       DEF Crash, CompleteInv, IdInv
  <2>5. AgeInv'
    BY <1>t, <1>p, <1>n, <1>21, <2>1 DEF Crash, AgeInv, SweepSparesPrompt
  <2> QED BY <2>2, <2>3, <2>4, <2>5 DEF CoreInv
<1>d. /\ clock \in Nat /\ cleaner.now \in Nat
      /\ \A id \in FileIds : blob[id] # None => blob[id].mtime \in Nat
      /\ \A id \in Published :
             files[id].mtime \in Nat /\ files[id].inserted \in Nat /\ id \in FileIds
      /\ \A g \in Handlers : req[g].since \in Nat /\ req[g].mtime \in Nat
      /\ \A g \in Handlers : Busy(g, {"insert"}) => req[g].id \in FileIds
  BY DEF TypeInv, TypeOK, ReqsOK, ReqOK, RequestType, CleanerType, File,
     FileRow
<1>c. /\ cleaner \in CleanerType /\ req \in [Handlers -> RequestType]
  BY <1>t DEF TypeOK
<1>22. ASSUME CleanWake PROVE CoreInv'
  <2>1. LockInv'
    BY <1>t, <1>c, <1>p, <1>n, <1>22 DEF CleanWake, CleanerType, LockInv
  <2>2. ChunkInv'
    BY <1>t, <1>c, <1>p, <1>n, <1>22 DEF CleanWake, CleanerType, ChunkInv
  <2>3. CountInv' /\ FreshInv' /\ CompleteInv' /\ IdInv'
    BY <1>t, <1>c, <1>p, <1>n, <1>22
       DEF CleanWake, CleanerType, CountInv, FreshInv, CompleteInv, IdInv
  <2>a. /\ cleaner'.pc = "lock" /\ cleaner'.now = clock
        /\ UNCHANGED <<blob, files, req, clock>>
    BY <1>c, <1>22 DEF CleanWake, CleanerType
  <2>4. AgeInv'
    BY <1>p, <1>d, <2>a DEF AgeInv, SweepSparesPrompt
  <2> QED BY <2>1, <2>2, <2>3, <2>4 DEF CoreInv
<1>23. ASSUME CleanLock PROVE CoreInv'
  <2>1. LockInv'
    BY <1>t, <1>c, <1>p, <1>n, <1>23 DEF CleanLock, Free, CleanerType, LockInv
  <2>2. ChunkInv'
    BY <1>t, <1>c, <1>p, <1>n, <1>23 DEF CleanLock, Free, CleanerType, ChunkInv
  <2>3. CountInv' /\ FreshInv' /\ CompleteInv' /\ IdInv'
    BY <1>t, <1>c, <1>p, <1>n, <1>23
       DEF CleanLock, Free, CleanerType, CountInv, FreshInv, CompleteInv,
           IdInv
  <2>4. AgeInv'
    BY <1>t, <1>c, <1>p, <1>n, <1>23
       DEF CleanLock, Free, CleanerType, AgeInv, SweepSparesPrompt
  <2> QED BY <2>1, <2>2, <2>3, <2>4 DEF CoreInv
<1>24. ASSUME NEW u \in Uploads, CleanUnlink(u) PROVE CoreInv'
  <2>1. LockInv'
    BY <1>t, <1>c, <1>p, <1>n, <1>24
       DEF CleanUnlink, Remove, CleanerType, LockInv
  <2>2. ChunkInv'
    BY <1>t, <1>c, <1>p, <1>n, <1>24
       DEF CleanUnlink, Remove, CleanerType, ChunkInv
  <2>3. CountInv' /\ FreshInv' /\ CompleteInv' /\ IdInv'
    BY <1>t, <1>c, <1>p, <1>n, <1>24
       DEF CleanUnlink, Remove, CleanerType, CountInv, FreshInv, CompleteInv,
           IdInv
  <2>4. AgeInv'
    BY <1>t, <1>c, <1>p, <1>n, <1>24
       DEF CleanUnlink, Remove, CleanerType, AgeInv, SweepSparesPrompt
  <2> QED BY <2>1, <2>2, <2>3, <2>4 DEF CoreInv
<1>25. ASSUME CleanCommit PROVE CoreInv'
  <2>1. LockInv'
    BY <1>t, <1>c, <1>p, <1>n, <1>25 DEF CleanCommit, CleanerType, LockInv
  <2>2. ChunkInv'
    BY <1>t, <1>c, <1>p, <1>n, <1>25
       DEF CleanCommit, CleanerType, LockInv, ChunkInv
  <2>3. CountInv' /\ FreshInv' /\ CompleteInv' /\ IdInv'
    BY <1>t, <1>c, <1>p, <1>n, <1>25
       DEF CleanCommit, CleanerType, CountInv, FreshInv, CompleteInv, IdInv
  <2>4. AgeInv'
    BY <1>t, <1>c, <1>p, <1>n, <1>25
       DEF CleanCommit, CleanerType, AgeInv, SweepSparesPrompt
  <2> QED BY <2>1, <2>2, <2>3, <2>4 DEF CoreInv
<1>26. ASSUME CleanFails PROVE CoreInv'
  <2>1. LockInv'
    BY <1>t, <1>c, <1>p, <1>n, <1>26
       DEF CleanFails, DbRaises, Asleep, CleanerType, LockInv
  <2>2. ChunkInv'
    BY <1>t, <1>c, <1>p, <1>n, <1>26
       DEF CleanFails, DbRaises, Asleep, CleanerType, ChunkInv
  <2>3. CountInv' /\ FreshInv' /\ CompleteInv' /\ IdInv'
    BY <1>t, <1>c, <1>p, <1>n, <1>26
       DEF CleanFails, DbRaises, Asleep, CleanerType, CountInv, FreshInv,
           CompleteInv, IdInv
  <2>a. /\ cleaner'.pc = "sleep" /\ cleaner'.now = 0
        /\ UNCHANGED <<blob, files, req, clock>>
    BY <1>26 DEF CleanFails, Asleep
  <2>4. AgeInv'
    BY <1>p, <1>d, <2>a DEF AgeInv, SweepSparesPrompt
  <2> QED BY <2>1, <2>2, <2>3, <2>4 DEF CoreInv
<1>27. ASSUME CleanKnownBlobs PROVE CoreInv'
  <2>1. LockInv'
    BY <1>t, <1>c, <1>p, <1>n, <1>27 DEF CleanKnownBlobs, CleanerType, LockInv
  <2>2. ChunkInv'
    BY <1>t, <1>c, <1>p, <1>n, <1>27 DEF CleanKnownBlobs, CleanerType, ChunkInv
  <2>3. CountInv' /\ FreshInv' /\ CompleteInv' /\ IdInv'
    BY <1>t, <1>c, <1>p, <1>n, <1>27
       DEF CleanKnownBlobs, CleanerType, CountInv, FreshInv, CompleteInv,
           IdInv
  <2>4. AgeInv'
    BY <1>t, <1>c, <1>p, <1>n, <1>27
       DEF CleanKnownBlobs, CleanerType, AgeInv, SweepSparesPrompt
  <2> QED BY <2>1, <2>2, <2>3, <2>4 DEF CoreInv
<1>28. ASSUME NEW id \in FileIds, CleanSweepBlob(id) PROVE CoreInv'
  <2>1. LockInv'
    BY <1>t, <1>c, <1>p, <1>n, <1>28
       DEF CleanSweepBlob, OrphanBlob, OlderThanGrace, RemoveBlob, CleanerType,
           LockInv
  <2>2. ChunkInv'
    BY <1>t, <1>c, <1>p, <1>n, <1>28
       DEF CleanSweepBlob, OrphanBlob, OlderThanGrace, RemoveBlob, CleanerType,
           ChunkInv
  <2>3. CountInv' /\ FreshInv' /\ CompleteInv' /\ IdInv'
    BY <1>t, <1>c, <1>p, <1>n, <1>28
       DEF CleanSweepBlob, OrphanBlob, OlderThanGrace, RemoveBlob, CleanerType,
           CountInv, FreshInv, CompleteInv, IdInv
  <2>a. /\ blob'[id] = None /\ \A i \in FileIds \ {id} : blob'[i] = blob[i]
        /\ cleaner.pc = "blobs" /\ id \notin cleaner.known
        /\ blob[id] # None /\ blob[id].mtime + Grace <= cleaner.now
        /\ UNCHANGED <<files, req, clock, cleaner>>
    BY <1>t, <1>28
       DEF TypeOK, CleanSweepBlob, OrphanBlob, OlderThanGrace, RemoveBlob
  <2>4. AgeInv'
    BY <1>p, <1>d, <2>a DEF AgeInv, SweepSparesPrompt
  <2> QED BY <2>1, <2>2, <2>3, <2>4 DEF CoreInv
<1>29. ASSUME CleanKnownParts PROVE CoreInv'
  <2>1. LockInv'
    BY <1>t, <1>c, <1>p, <1>n, <1>29 DEF CleanKnownParts, CleanerType, LockInv
  <2>2. ChunkInv'
    BY <1>t, <1>c, <1>p, <1>n, <1>29 DEF CleanKnownParts, CleanerType, ChunkInv
  <2>3. CountInv' /\ FreshInv' /\ CompleteInv' /\ IdInv'
    BY <1>t, <1>c, <1>p, <1>n, <1>29
       DEF CleanKnownParts, CleanerType, CountInv, FreshInv, CompleteInv,
           IdInv
  <2>4. AgeInv'
    BY <1>t, <1>c, <1>p, <1>n, <1>29
       DEF CleanKnownParts, CleanerType, AgeInv, SweepSparesPrompt
  <2> QED BY <2>1, <2>2, <2>3, <2>4 DEF CoreInv
<1>30. ASSUME NEW u \in Uploads, CleanSweepPart(u) PROVE CoreInv'
  <2>1. LockInv'
    BY <1>t, <1>c, <1>p, <1>n, <1>30
       DEF CleanSweepPart, Remove, CleanerType, LockInv
  <2>2. ChunkInv'
    BY <1>t, <1>c, <1>p, <1>n, <1>30
       DEF CleanSweepPart, Remove, CleanerType, ChunkInv
  <2>3. CountInv' /\ FreshInv' /\ CompleteInv' /\ IdInv'
    BY <1>t, <1>c, <1>p, <1>n, <1>30
       DEF CleanSweepPart, Remove, CleanerType, CountInv, FreshInv,
           CompleteInv, IdInv
  <2>4. AgeInv'
    BY <1>t, <1>c, <1>p, <1>n, <1>30
       DEF CleanSweepPart, Remove, CleanerType, AgeInv, SweepSparesPrompt
  <2> QED BY <2>1, <2>2, <2>3, <2>4 DEF CoreInv
<1>31. ASSUME CleanDone PROVE CoreInv'
  <2>1. LockInv'
    BY <1>t, <1>c, <1>p, <1>n, <1>31
       DEF CleanDone, Asleep, CleanerType, LockInv
  <2>2. ChunkInv'
    BY <1>t, <1>c, <1>p, <1>n, <1>31
       DEF CleanDone, Asleep, CleanerType, ChunkInv
  <2>3. CountInv' /\ FreshInv' /\ CompleteInv' /\ IdInv'
    BY <1>t, <1>c, <1>p, <1>n, <1>31
       DEF CleanDone, Asleep, CleanerType, CountInv, FreshInv, CompleteInv,
           IdInv
  <2>a. /\ cleaner'.pc = "sleep" /\ cleaner'.now = 0
        /\ UNCHANGED <<blob, files, req, clock>>
    BY <1>31 DEF CleanDone, Asleep
  <2>4. AgeInv'
    BY <1>p, <1>d, <2>a DEF AgeInv, SweepSparesPrompt
  <2> QED BY <2>1, <2>2, <2>3, <2>4 DEF CoreInv
<1>32. ASSUME CleanerCrash PROVE CoreInv'
  <2>1. LockInv'
    BY <1>t, <1>c, <1>p, <1>n, <1>32
       DEF CleanerCrash, Asleep, CleanerType, LockInv
  <2>2. ChunkInv'
    BY <1>t, <1>c, <1>p, <1>n, <1>32
       DEF CleanerCrash, Asleep, CleanerType, ChunkInv
  <2>3. CountInv' /\ FreshInv' /\ CompleteInv' /\ IdInv'
    BY <1>t, <1>c, <1>p, <1>n, <1>32
       DEF CleanerCrash, Asleep, CleanerType, CountInv, FreshInv, CompleteInv,
           IdInv
  <2>a. /\ cleaner'.pc = "sleep" /\ cleaner'.now = 0
        /\ UNCHANGED <<blob, files, req, clock>>
    BY <1>32 DEF CleanerCrash, Asleep
  <2>4. AgeInv'
    BY <1>p, <1>d, <2>a DEF AgeInv, SweepSparesPrompt
  <2> QED BY <2>1, <2>2, <2>3, <2>4 DEF CoreInv
<1>33. ASSUME Tick PROVE CoreInv'
  <2>1. LockInv'
    BY <1>t, <1>c, <1>p, <1>n, <1>33
       DEF Tick, Prompt, Idle, CleanerType, LockInv
  <2>2. ChunkInv'
    BY <1>t, <1>c, <1>p, <1>n, <1>33
       DEF Tick, Prompt, Idle, CleanerType, ChunkInv
  <2>3. CountInv' /\ FreshInv' /\ CompleteInv' /\ IdInv'
    BY <1>t, <1>c, <1>p, <1>n, <1>33
       DEF Tick, Prompt, Idle, CleanerType, CountInv, FreshInv, CompleteInv,
           IdInv
  <2>a. /\ clock' = clock + 1 /\ UNCHANGED <<blob, files, req, cleaner>>
        /\ \A g \in Handlers : req[g].pc # "idle" => clock + 1 < req[g].since + Grace
    BY <1>33 DEF Tick, Prompt, Idle
  <2>4. AgeInv'
    BY <1>p, <1>d, <2>a DEF AgeInv, SweepSparesPrompt
  <2> QED BY <2>1, <2>2, <2>3, <2>4 DEF CoreInv
<1>34. ASSUME UNCHANGED vars PROVE CoreInv'
  <2>1. LockInv'
    BY <1>t, <1>c, <1>p, <1>n, <1>34 DEF vars, CleanerType, LockInv
  <2>2. ChunkInv'
    BY <1>t, <1>c, <1>p, <1>n, <1>34 DEF vars, CleanerType, ChunkInv
  <2>3. CountInv' /\ FreshInv' /\ CompleteInv' /\ IdInv'
    BY <1>t, <1>c, <1>p, <1>n, <1>34
       DEF vars, CleanerType, CountInv, FreshInv, CompleteInv, IdInv
  <2>4. AgeInv'
    BY <1>t, <1>c, <1>p, <1>n, <1>34
       DEF vars, CleanerType, AgeInv, SweepSparesPrompt
  <2> QED BY <2>1, <2>2, <2>3, <2>4 DEF CoreInv
<1> QED
  BY <1>1, <1>2, <1>3, <1>4, <1>5, <1>6, <1>7, <1>8, <1>9, <1>10, <1>11, <1>12,
     <1>13, <1>14, <1>15, <1>16, <1>17, <1>18, <1>19, <1>20, <1>21, <1>22,
     <1>23, <1>24, <1>25, <1>26, <1>27, <1>28, <1>29, <1>30, <1>31, <1>32,
     <1>33, <1>34
     DEF Next, Request, Handle, Clean

-----------------------------------------------------------------------------
(* Every copy of a session takes one of its .part files, so the .part      *)
(* files made bound the copies.                                            *)

\* No copy more: what is published stays, and no request newly inserts.
NoMoreCopies ==
    /\ files' = files
    /\ \A g \in Handlers : req'[g].pc = "insert" => req'[g] = req[g]

LEMMA CopiesKept ==
    ASSUME NoMoreCopies, NEW u \in Uploads
    PROVE  Copies(u)' \subseteq Copies(u)
PROOF BY DEF NoMoreCopies, Copies, Published, Busy

\* A session with as many copies or fewer, and a new .part file only with a new
\* late chunk.
LEMMA FewerCopies ==
    ASSUME TypeInv, TypeInv', NEW u \in Uploads, Once(u),
           Copies(u)' \subseteq Copies(u),
           \/ late'[u] = late[u] /\ (partial'[u] # None => partial[u] # None)
           \/ late'[u] = late[u] + 1
    PROVE  Once(u)'
PROOF
<1>1. Copies(u)' \in SUBSET Copies(u)
  OBVIOUS
<1>2. /\ IsFiniteSet(Copies(u)) /\ IsFiniteSet(Copies(u)')
      /\ Cardinality(Copies(u)') <= Cardinality(Copies(u))
  BY <1>1, FS_Subset DEF Once
<1>3. /\ Cardinality(Copies(u)) \in Nat /\ Cardinality(Copies(u)') \in Nat
      /\ late[u] \in Nat /\ late'[u] \in Nat
  BY <1>2, FS_CardinalityType DEF TypeInv, TypeOK
<1> QED BY <1>2, <1>3 DEF Once

\* A session nobody published or is publishing, whatever its .part file.
LEMMA NoCopies ==
    ASSUME TypeInv', NEW u \in Uploads, Copies(u)' = {}
    PROVE  Once(u)'
PROOF
<1>1. IsFiniteSet(Copies(u)') /\ Cardinality(Copies(u)') = 0
  BY FS_EmptySet
<1>2. late'[u] \in Nat
  BY DEF TypeInv, TypeOK
<1> QED BY <1>1, <1>2 DEF Once

\* A step that makes neither a copy nor a .part file.
Still ==
    /\ NoMoreCopies /\ late' = late
    /\ \A u \in Uploads : partial'[u] # None => partial[u] # None

LEMMA StillOnce ==
    ASSUME TypeInv, TypeInv', OnceInv, Still
    PROVE  OnceInv'
PROOF
<1>1. ASSUME NEW u \in Uploads PROVE Once(u)'
  BY CopiesKept, FewerCopies DEF OnceInv, Still
<1> QED BY <1>1 DEF OnceInv

LEMMA StepOnceInv ==
    TypeInv /\ TypeInv' /\ CoreInv /\ OnceInv /\ [Next]_vars => OnceInv'
PROOF
<1> SUFFICES ASSUME TypeInv, TypeInv', CoreInv, OnceInv, [Next]_vars
             PROVE  OnceInv'
  OBVIOUS
<1>p. ChunkInv /\ CountInv /\ FreshInv /\ CompleteInv
  BY DEF CoreInv
<1>t. /\ partial \in [Uploads -> File \cup {None}]
      /\ files \in [FileIds -> FileRow \cup {None}]
      /\ late \in [Uploads -> Nat]
      /\ req \in [Handlers -> RequestType]
      /\ \A h \in Handlers : ReqOK(req[h])
  BY DEF TypeInv, TypeOK, ReqsOK
<1>s. Still => OnceInv'
  BY StillOnce
<1> USE DEF tables, disk
\* The first .part file of a session nobody knew.
<1>1. ASSUME NEW h \in Handlers, NEW u \in Uploads, InitStart(h, u)
      PROVE  OnceInv'
  <2>1. /\ NoMoreCopies /\ late' = late
        /\ \A v \in Uploads : v # u => partial'[v] = partial[v]
    BY <1>1, <1>t DEF InitStart, NoMoreCopies, Idle
  <2>2. Copies(u) = {}
    BY <1>1, <1>p DEF InitStart, FreshInv, Copies
  <2>3. Copies(u)' = {}
    BY <2>1, <2>2, CopiesKept
  <2>4. ASSUME NEW v \in Uploads PROVE Once(v)'
    BY <2>1, <2>3, CopiesKept, FewerCopies, NoCopies DEF OnceInv
  <2> QED BY <2>4 DEF OnceInv
\* A chunk that makes a .part file again comes late, or before any copy.
<1>2. ASSUME NEW h \in Handlers, ChunkOpen(h)
      PROVE  OnceInv'
  <2>w. PICK w \in Uploads : w = req[h].u
    BY <1>2, <1>t DEF ChunkOpen, At, ReqOK
  <2>1. req[h].base = Len(acked[w]) /\ req[h].pc = "open"
    BY <1>2, <1>p, <2>w, WriterCounts DEF ChunkOpen, At, Busy
  <2>2. NoMoreCopies
    BY <1>2, <1>t, GoToMoves DEF ChunkOpen, NoMoreCopies, Moves, Others
  <2>3. \A v \in Uploads : v # w => partial'[v] = partial[v] /\ late'[v] = late[v]
    BY <1>2, <1>t, <2>w DEF ChunkOpen, OpenForAppend
  <2>4. CASE partial[w] # None
    <3>1. late'[w] = late[w]
      BY <1>2, <1>t, <2>w, <2>4 DEF ChunkOpen, Remakes
    <3>2. ASSUME NEW v \in Uploads PROVE Once(v)'
      BY <2>2, <2>3, <2>4, <3>1, CopiesKept, FewerCopies DEF OnceInv
    <3> QED BY <3>2 DEF OnceInv
  <2>5. CASE partial[w] = None /\ req[h].base = Expected
    <3>1. late'[w] = late[w] + 1
      BY <1>2, <1>t, <2>w, <2>5 DEF ChunkOpen, Remakes
    <3>2. ASSUME NEW v \in Uploads PROVE Once(v)'
      BY <2>2, <2>3, <3>1, CopiesKept, FewerCopies DEF OnceInv
    <3> QED BY <3>2 DEF OnceInv
  <2>6. CASE req[h].base # Expected
    <3>1. Copies(w) = {}
      BY <1>p, <2>1, <2>6 DEF CompleteInv, Copies, Busy
    <3>2. Copies(w)' = {}
      BY <2>1, <2>2, <3>1, CopiesKept
    <3>3. ASSUME NEW v \in Uploads PROVE Once(v)'
      BY <2>2, <2>3, <3>2, CopiesKept, FewerCopies, NoCopies DEF OnceInv
    <3> QED BY <3>3 DEF OnceInv
  <2> QED BY <2>4, <2>5, <2>6
\* The rename turns the .part file into a copy.
<1>3. ASSUME NEW h \in Handlers, FinishReplace(h)
      PROVE  OnceInv'
  <2>w. PICK w \in Uploads, id \in FileIds : w = req[h].u /\ id = req[h].id
    BY <1>3, <1>t DEF FinishReplace, ReqOK
  <2>1. /\ req[h].pc = "replace"
        /\ partial[w] # None /\ partial'[w] = None
        /\ \A v \in Uploads : v # w => partial'[v] = partial[v]
        /\ late' = late /\ files' = files
    BY <1>3, <1>t, <2>w DEF FinishReplace, Remove
  <2>2. Moves(h, "insert") /\ req'[h].id = id
    BY <1>3, <2>w, ReplaceMoves
  <2>3. ASSUME NEW v \in Uploads, v # w PROVE Once(v)'
    <3>1. Copies(v)' \subseteq Copies(v)
      BY <2>w, <2>1, <2>2, <2>3 DEF Copies, Published, Busy, Moves, Others
    <3> QED BY <2>1, <2>3, <3>1, FewerCopies DEF OnceInv
  <2>4. Once(w)'
    <3>1. Copies(w)' \subseteq Copies(w) \cup {id}
      BY <2>w, <2>1, <2>2 DEF Copies, Published, Busy, Moves, Others
    <3>2. /\ IsFiniteSet(Copies(w)) /\ Cardinality(Copies(w)) + 1 <= 1 + late[w]
      BY <2>1 DEF OnceInv, Once
    <3>3. /\ IsFiniteSet(Copies(w) \cup {id})
          /\ Cardinality(Copies(w) \cup {id}) <= Cardinality(Copies(w)) + 1
      <4>1. Cardinality(Copies(w)) \in Nat
        BY <3>2, FS_CardinalityType
      <4>2. /\ IsFiniteSet(Copies(w) \cup {id})
            /\ Cardinality(Copies(w) \cup {id}) =
                   IF id \in Copies(w) THEN Cardinality(Copies(w))
                   ELSE Cardinality(Copies(w)) + 1
        BY <3>2, FS_AddElement
      <4> QED BY <4>1, <4>2
    <3>4. Copies(w)' \in SUBSET (Copies(w) \cup {id})
      BY <3>1
    <3>5. /\ IsFiniteSet(Copies(w)')
          /\ Cardinality(Copies(w)') <= Cardinality(Copies(w) \cup {id})
      BY <3>3, <3>4, FS_Subset
    <3>6. /\ Cardinality(Copies(w)') \in Nat /\ Cardinality(Copies(w)) \in Nat
          /\ Cardinality(Copies(w) \cup {id}) \in Nat /\ late[w] \in Nat
      BY <1>t, <2>1, <3>2, <3>3, <3>5, FS_CardinalityType
    <3>7. Cardinality(Copies(w)') <= 1 + late'[w]
      BY <2>1, <3>2, <3>3, <3>5, <3>6
    <3> QED BY <2>1, <3>5, <3>6, <3>7 DEF Once
  <2> QED BY <2>3, <2>4 DEF OnceInv
\* A copy being inserted becomes a published one.
<1>4. ASSUME NEW h \in Handlers, FinishInsert(h)
      PROVE  OnceInv'
  <2>w. PICK w \in Uploads, id \in FileIds : w = req[h].u /\ id = req[h].id
    BY <1>4, <1>t DEF FinishInsert, ReqOK
  <2>1. /\ req[h].pc = "insert"
        /\ partial' = partial /\ late' = late
        /\ files'[id].upload = w
        /\ \A i \in FileIds : i # id => files'[i] = files[i]
    BY <1>4, <1>t, <2>w DEF FinishInsert
  <2>2. Moves(h, "record")
    BY <1>4, GoToMoves DEF FinishInsert
  <2>3. \A g \in Handlers : req'[g].pc = "insert" => req'[g] = req[g]
    BY <2>2 DEF Moves, Others
  <2>4. ASSUME NEW v \in Uploads PROVE Once(v)'
    <3>1. Copies(v)' \subseteq Copies(v)
      BY <2>w, <2>1, <2>3 DEF Copies, Published, Busy
    <3> QED BY <2>1, <3>1, FewerCopies DEF OnceInv
  <2> QED BY <2>4 DEF OnceInv
\* A request that answers.
<1>5. ASSUME NEW h \in Handlers,
             \/ InitInsert(h) \/ InitInsertFails(h) \/ ChunkRefused(h)
             \/ ChunkCommit(h) \/ ChunkDbFails(h) \/ FinishUnlink(h)
             \/ FinishReplaceFails(h) \/ FinishInsertFails(h) \/ FinishRecord(h)
             \/ FinishFails(h) \/ Crash(h)
      PROVE  Still
  <2>1. Respond(h) /\ files' = files /\ late' = late
    BY <1>5 DEF InitInsert, InitInsertFails, ChunkRefused, ChunkCommit,
                ChunkDbFails, FinishUnlink, FinishReplaceFails,
                FinishInsertFails, FinishRecord, FinishFails, Crash
  <2>2. NoMoreCopies
    BY <2>1, RespondLeaves DEF NoMoreCopies, Leaves, Others
  <2>3. \A u \in Uploads : partial'[u] # None => partial[u] # None
    <3>1. \/ UNCHANGED partial \/ Remove(req[h].u)
          \/ TruncateBack(req[h].u, req[h].base)
      BY <1>5 DEF InitInsert, InitInsertFails, ChunkRefused, ChunkCommit,
                  ChunkDbFails, FinishUnlink, FinishReplaceFails,
                  FinishInsertFails, FinishRecord, FinishFails, Crash
    <3> QED BY <1>t, <3>1 DEF Remove, TruncateBack
  <2> QED BY <2>1, <2>2, <2>3 DEF Still
\* A request that goes on, but to no INSERT.
<1>6. ASSUME NEW h \in Handlers,
             \/ ChunkAppend(h) \/ FinishExists(h) \/ FinishDiscard(h)
             \/ (\E id \in FileIds : FinishAllocate(h, id))
      PROVE  Still
  <2>1. Others(h) /\ req'[h].pc # "insert"
    <3>1. CASE FinishExists(h) \/ FinishDiscard(h)
      <4>1. PICK pc \in {"discard", "allocate", "unlink"} : GoTo(h, pc)
        BY <3>1 DEF FinishExists, FinishDiscard
      <4> QED BY <4>1, GoToMoves DEF Moves
    <3> QED BY <1>6, <3>1, AppendMoves, AllocateMoves DEF Moves
  <2>2. files' = files /\ late' = late
    BY <1>6 DEF ChunkAppend, FinishExists, FinishDiscard, FinishAllocate
  <2>3. \A u \in Uploads : partial'[u] # None => partial[u] # None
    <3>1. CASE ChunkAppend(h)
      BY <3>1, AppendKeepsFile
    <3>2. CASE ~ChunkAppend(h)
      BY <1>6, <3>2 DEF FinishExists, FinishDiscard, FinishAllocate
    <3> QED BY <3>1, <3>2
  <2> QED BY <2>1, <2>2, <2>3 DEF Still, NoMoreCopies, Others
<1>7. ASSUME NEW h \in Handlers, NEW u \in Uploads,
             FinishRead(h, u) \/ \E i, p : ChunkBegin(h, u, i, p)
      PROVE  Still
  <2>1. Others(h) /\ req'[h].pc # "insert"
    <3>1. CASE FinishRead(h, u)
      BY <1>t, <3>1 DEF FinishRead, Idle, Others
    <3>2. CASE \E i, p : ChunkBegin(h, u, i, p)
      BY <1>t, <3>2 DEF ChunkBegin, Idle, Others
    <3> QED BY <1>7, <3>1, <3>2
  <2>2. UNCHANGED <<files, late, partial>>
    BY <1>7 DEF FinishRead, ChunkBegin
  <2> QED BY <2>1, <2>2 DEF Still, NoMoreCopies, Others
<1>8. ASSUME Clean \/ CleanerCrash \/ Tick \/ UNCHANGED vars PROVE Still
  <2>1. UNCHANGED <<req, files, late>>
    BY <1>8 DEF Clean, CleanWake, CleanLock, CleanCommit, CleanFails, CleanUnlink,
       CleanSweepPart, CleanKnownBlobs, CleanKnownParts, CleanDone, CleanSweepBlob,
       CleanerCrash, Tick, vars
  <2>2. UNCHANGED partial \/ \E u \in Uploads : Remove(u)
    BY <1>8 DEF Clean, CleanWake, CleanLock, CleanCommit, CleanFails, CleanUnlink,
       CleanSweepPart, CleanKnownBlobs, CleanKnownParts, CleanDone, CleanSweepBlob,
       CleanerCrash, Tick, vars
  <2>3. \A u \in Uploads : partial'[u] # None => partial[u] # None
    BY <1>t, <2>2 DEF Remove
  <2> QED BY <2>1, <2>3 DEF Still, NoMoreCopies
<1> QED BY <1>s, <1>1, <1>2, <1>3, <1>4, <1>5, <1>6, <1>7, <1>8
        DEF Next, Request, Handle

LEMMA InitSessionInv == Init => SessionInv
PROOF
<1> SUFFICES ASSUME Init PROVE OnceInv
  BY InitCoreInv DEF CoreInv, SessionInv
<1>1. ASSUME NEW u \in Uploads PROVE Once(u)
  <2>1. Copies(u) = {} /\ late[u] = 0
    BY <1>1 DEF Init, Copies, Published, Busy, Idle
  <2>2. IsFiniteSet(Copies(u)) /\ Cardinality(Copies(u)) = 0
    BY <2>1, FS_EmptySet
  <2> QED BY <2>1, <2>2 DEF Once
<1> QED BY <1>1 DEF OnceInv

LEMMA StepSessionInv == TypeInv /\ SessionInv /\ [Next]_vars => SessionInv'
PROOF
<1>1. SessionInv <=> CoreInv /\ OnceInv
  BY DEF SessionInv, CoreInv
<1>2. SessionInv' <=> CoreInv' /\ OnceInv'
  BY DEF SessionInv, CoreInv
<1> QED BY <1>1, <1>2, StepTypeInv, StepCoreInv, StepOnceInv

LEMMA SessionInvariant == Spec => []SessionInv
PROOF BY InitTypeInv, StepTypeInv, InitSessionInv, StepSessionInv, PTL DEF Spec

\* files.py:395-434 with 308: however many finish requests race, retry or crash,
\* and whatever chunks come between them, a session is published once for the .part
\* file its init made and at most once for each that a late chunk made anew.
THEOREM AtMostOncePublished == Spec => []AtMostOnce
PROOF
<1>1. ASSUME TypeInv, SessionInv PROVE AtMostOnce
  <2>1. ASSUME NEW u \in Uploads
        PROVE  Cardinality({id \in Published : files[id].upload = u}) <= 1 + late[u]
    <3> DEFINE P == {id \in Published : files[id].upload = u}
    <3>1. P \in SUBSET Copies(u)
      BY DEF Copies, Published
    <3>2. /\ IsFiniteSet(Copies(u)) /\ late[u] \in Nat
          /\ Cardinality(Copies(u)) + (IF partial[u] = None THEN 0 ELSE 1) <= 1 + late[u]
      BY <1>1 DEF SessionInv, OnceInv, Once, TypeInv, TypeOK
    <3>3. IsFiniteSet(P) /\ Cardinality(P) <= Cardinality(Copies(u))
      BY <3>1, <3>2, FS_Subset
    <3>4. Cardinality(P) \in Nat /\ Cardinality(Copies(u)) \in Nat
      BY <3>2, <3>3, FS_CardinalityType
    <3> QED BY <3>2, <3>3, <3>4
  <2> QED BY <2>1 DEF AtMostOnce
<1> QED BY <1>1, InitTypeInv, StepTypeInv, InitSessionInv, StepSessionInv, PTL DEF Spec

\* A session no late chunk came to is published once: nothing is left of its .part
\* file when a finish inserts its row, and no other finish inserts one.
LEMMA SingleCopy ==
    ASSUME TypeInv, SessionInv, NEW u \in Uploads, late[u] = 0
    PROVE  /\ \A i, j \in Copies(u) : i = j
           /\ Copies(u) # {} => partial[u] = None
PROOF
<1>1. /\ IsFiniteSet(Copies(u)) /\ Cardinality(Copies(u)) \in Nat
      /\ Cardinality(Copies(u)) + (IF partial[u] = None THEN 0 ELSE 1) <= 1
  <2>1. IsFiniteSet(Copies(u))
        /\ Cardinality(Copies(u)) + (IF partial[u] = None THEN 0 ELSE 1) <= 1 + late[u]
    BY DEF SessionInv, OnceInv, Once
  <2> QED BY <2>1, FS_CardinalityType
<1>2. ASSUME NEW i \in Copies(u), NEW j \in Copies(u), i # j PROVE FALSE
  <2>1. {i, j} \in SUBSET Copies(u)
    OBVIOUS
  <2>2. Cardinality({i, j}) <= Cardinality(Copies(u)) /\ IsFiniteSet({i})
    BY <1>1, <2>1, FS_Subset, FS_Singleton
  <2>3. Cardinality({i, j}) = 2
    <3>1. {i, j} = {i} \cup {j} /\ j \notin {i}
      BY <1>2
    <3>2. Cardinality({i}) = 1
      BY FS_Singleton
    <3>3. Cardinality({i} \cup {j}) = Cardinality({i}) + 1
      BY <2>2, <3>1, FS_AddElement
    <3> QED BY <3>1, <3>2, <3>3
  <2>4. Cardinality(Copies(u)) <= 1
    BY <1>1
  <2> QED BY <1>1, <2>2, <2>3, <2>4
<1>3. ASSUME Copies(u) # {}, partial[u] # None PROVE FALSE
  <2>1. Cardinality(Copies(u)) # 0
    BY <1>1, <1>3, FS_EmptySet
  <2> QED BY <1>1, <1>3, <2>1
<1> QED BY <1>2, <1>3

\* cleanup.py:75-85: the sweep, which lists rows and files at different times,
\* never takes the blob of a file that was published within the grace period
\* of its last append.
THEOREM PromptFinishSurvives == Spec => []SweepSparesPrompt
PROOF
<1>1. SessionInv => SweepSparesPrompt
  BY DEF SessionInv, AgeInv
<1> QED BY <1>1, SessionInvariant, PTL

\* The rows a step leaves in place count no less than before.
RowsGrow ==
    \A u \in Rows : pending_uploads'[u] # None =>
        /\ pending_uploads'[u].bytes >= pending_uploads[u].bytes
        /\ pending_uploads'[u].next >= pending_uploads[u].next

LEMMA StepRowsGrow == TypeInv /\ SessionInv /\ [Next]_vars => RowsGrow
PROOF
<1> SUFFICES ASSUME TypeInv, SessionInv, [Next]_vars PROVE RowsGrow
  OBVIOUS
<1>t. /\ pending_uploads \in [Uploads -> Row \cup {None}]
      /\ \A u \in Rows : pending_uploads[u] \in Row
      /\ req \in [Handlers -> RequestType]
      /\ \A h \in Handlers : ReqOK(req[h])
  BY DEF TypeInv, TypeOK, ReqsOK, Rows
<1>g. \A u \in Rows :
          pending_uploads[u].bytes \in Nat /\ pending_uploads[u].next \in Nat
  BY <1>t DEF Row
<1>s. UNCHANGED pending_uploads => RowsGrow
  BY <1>g DEF RowsGrow
<1>1. ASSUME NEW h \in Handlers, InitInsert(h) PROVE RowsGrow
  <2>1. req[h].u \notin Rows
    BY <1>1 DEF SessionInv, FreshInv, Busy, InitInsert, At
  <2>2. \A u \in Rows : pending_uploads'[u] = pending_uploads[u]
    BY <1>1, <1>t, <2>1 DEF InitInsert, Rows
  <2> QED BY <1>g, <2>2 DEF RowsGrow
\* The row is the one the request read, so it moves on from what it counted.
<1>2. ASSUME NEW h \in Handlers, ChunkCommit(h) PROVE RowsGrow
  <2> DEFINE r == req[h]
  <2>1. /\ pending_uploads[r.u].next = r.idx
        /\ pending_uploads[r.u].bytes = r.base
        /\ r.u \in Rows
    BY <1>2 DEF SessionInv, ChunkInv, Busy, ChunkCommit
  <2>2. r.written \in Nat /\ r.idx \in Nat /\ r.base \in Nat
    BY <1>t DEF RequestType
  <2>3. \A u \in Rows : u # r.u => pending_uploads'[u] = pending_uploads[u]
    BY <1>2, <1>t DEF ChunkCommit, Progress, Rows
  <2>4. /\ pending_uploads'[r.u].next = r.idx + 1
        /\ pending_uploads'[r.u].bytes = r.base + r.written
    BY <1>2, <1>t, <2>1 DEF ChunkCommit, Progress, Rows
  <2> QED BY <1>g, <2>1, <2>2, <2>3, <2>4 DEF RowsGrow
<1>3. ASSUME NEW h \in Handlers, FinishDiscard(h) \/ FinishInsert(h) PROVE RowsGrow
  <2>1. pending_uploads' = [pending_uploads EXCEPT ![req[h].u] = None]
    BY <1>3 DEF FinishDiscard, FinishInsert
  <2>2. \A u \in Rows : pending_uploads'[u] # None =>
            pending_uploads'[u] = pending_uploads[u]
    BY <1>t, <2>1 DEF Rows
  <2> QED BY <1>g, <2>2 DEF RowsGrow
<1>4. ASSUME CleanCommit PROVE RowsGrow
  <2>1. \A u \in Rows : pending_uploads'[u] # None =>
            pending_uploads'[u] = pending_uploads[u]
    BY <1>4 DEF CleanCommit, Rows
  <2> QED BY <1>g, <2>1 DEF RowsGrow
<1> USE DEF tables
<1>5. ASSUME NEW h \in Handlers, Request(h) PROVE RowsGrow
  <2>1. ASSUME NEW u \in Uploads, InitStart(h, u) \/ FinishRead(h, u)
        PROVE  UNCHANGED pending_uploads
    BY <2>1 DEF InitStart, FinishRead
  <2>2. ASSUME NEW u \in Uploads, NEW i, NEW p, ChunkBegin(h, u, i, p)
        PROVE  UNCHANGED pending_uploads
    BY <2>2 DEF ChunkBegin
  <2> QED BY <1>s, <1>5, <2>1, <2>2 DEF Request
<1>6. ASSUME NEW h \in Handlers, Handle(h) PROVE RowsGrow
  <2>1. ASSUME \/ InitInsertFails(h) \/ ChunkOpen(h) \/ ChunkAppend(h)
               \/ ChunkRefused(h) \/ ChunkDbFails(h)
        PROVE  UNCHANGED pending_uploads
    BY <2>1 DEF InitInsertFails, ChunkOpen, ChunkAppend, ChunkRefused, ChunkDbFails
  <2>2. ASSUME \/ FinishExists(h) \/ FinishUnlink(h) \/ FinishReplace(h)
               \/ FinishReplaceFails(h) \/ FinishInsertFails(h)
               \/ FinishRecord(h) \/ FinishFails(h)
        PROVE  UNCHANGED pending_uploads
    BY <2>2 DEF FinishExists, FinishUnlink, FinishReplace, FinishReplaceFails,
                FinishInsertFails, FinishRecord, FinishFails
  <2>3. ASSUME NEW id \in FileIds, FinishAllocate(h, id)
        PROVE  UNCHANGED pending_uploads
    BY <2>3 DEF FinishAllocate
  <2> QED BY <1>s, <1>1, <1>2, <1>3, <1>6, <2>1, <2>2, <2>3 DEF Handle
<1>7. ASSUME Clean PROVE RowsGrow
  <2>1. ASSUME \/ CleanWake \/ CleanLock \/ CleanFails \/ CleanKnownBlobs
               \/ CleanKnownParts \/ CleanDone
        PROVE  UNCHANGED pending_uploads
    BY <2>1 DEF CleanWake, CleanLock, CleanFails, CleanKnownBlobs,
                CleanKnownParts, CleanDone
  <2>2. ASSUME NEW u \in Uploads, CleanUnlink(u) \/ CleanSweepPart(u)
        PROVE  UNCHANGED pending_uploads
    BY <2>2 DEF CleanUnlink, CleanSweepPart
  <2>3. ASSUME NEW id \in FileIds, CleanSweepBlob(id)
        PROVE  UNCHANGED pending_uploads
    BY <2>3 DEF CleanSweepBlob
  <2> QED BY <1>s, <1>4, <1>7, <2>1, <2>2, <2>3 DEF Clean
<1>8. ASSUME CleanerCrash \/ Tick \/ (\E h \in Handlers : Crash(h)) \/ UNCHANGED vars
      PROVE  RowsGrow
  BY <1>s, <1>8 DEF CleanerCrash, Tick, Crash, vars
<1> QED BY <1>5, <1>6, <1>7, <1>8 DEF Next

\* files.py:279-341: whatever is retried, refused or reaped, the server never
\* takes back a chunk it acknowledged while the session has a row.
THEOREM AcknowledgedIsKept == Spec => NeverUnacknowledges
PROOF
<1>1. TypeInv /\ SessionInv /\ [Next]_vars => [RowsGrow]_vars
  BY StepRowsGrow
<1>2. Spec => [](TypeInv /\ SessionInv)
  BY InitTypeInv, StepTypeInv, InitSessionInv, StepSessionInv, PTL DEF Spec
<1> QED BY <1>1, <1>2, PTL DEF Spec, NeverUnacknowledges, RowsGrow

-----------------------------------------------------------------------------
(* The counter behind /status never runs ahead of the files published:     *)
(* what it and the requests about to raise it claim is covered by rows of  *)
(* the files table, whatever fails in between.                             *)

\* Requests that inserted a row and have not counted it yet.
Recording == {h \in Handlers : At(h, "record")}

CountedInv == IsFiniteSet(Published) /\ CountedOncePublished

\* A step that publishes nothing, counts nothing and claims nothing.
Quiet ==
    /\ UNCHANGED <<files, total_uploads>>
    /\ Recording' \subseteq Recording

LEMMA RecordingIsFinite ==
    IsFiniteSet(Recording) /\ Cardinality(Recording) \in Nat
PROOF
<1>1. IsFiniteSet(Handlers) /\ Recording \in SUBSET Handlers
  BY BoundsAreNaturals DEF Recording
<1>2. IsFiniteSet(Recording)
  BY <1>1, FS_Subset
<1> QED BY <1>2, FS_CardinalityType

LEMMA QuietCounts ==
    ASSUME TypeInv, CountedInv, Quiet
    PROVE  CountedInv'
PROOF
<1>1. Published' = Published /\ total_uploads' = total_uploads
  BY DEF Quiet, Published
<1>2. /\ IsFiniteSet(Recording')
      /\ Cardinality(Recording') <= Cardinality(Recording)
      /\ Cardinality(Recording') \in Nat
  <2>1. Recording' \in SUBSET Recording
    BY DEF Quiet
  <2>2. IsFiniteSet(Recording') /\ Cardinality(Recording') <= Cardinality(Recording)
    BY <2>1, RecordingIsFinite, FS_Subset
  <2> QED BY <2>2, FS_CardinalityType
<1>3. /\ total_uploads \in Nat /\ IsFiniteSet(Published)
      /\ total_uploads + Cardinality(Recording) <= Cardinality(Published)
  BY DEF TypeInv, TypeOK, CountedInv, CountedOncePublished, Recording
<1>4. Cardinality(Published) \in Nat
  BY <1>3, FS_CardinalityType
<1>5. IsFiniteSet(Published') /\ Cardinality(Published') = Cardinality(Published)
  BY <1>1, <1>3
<1>6. total_uploads' + Cardinality(Recording') <= Cardinality(Published')
  BY <1>1, <1>2, <1>3, <1>4, <1>5, RecordingIsFinite
<1> QED BY <1>5, <1>6 DEF CountedInv, CountedOncePublished, Recording

\* A request that goes on somewhere else than to the counter, or ends.
LEMMA ElsewhereIsQuiet ==
    ASSUME TypeInv, NEW h \in Handlers, UNCHANGED <<files, total_uploads>>,
           Others(h), req'[h].pc # "record"
    PROVE  Quiet
PROOF BY DEF Quiet, Recording, Others, At

LEMMA InitCountedInv == Init => CountedInv
PROOF
<1> SUFFICES ASSUME Init PROVE CountedInv
  OBVIOUS
<1>1. Published = {} /\ Recording = {} /\ total_uploads = 0
  BY DEF Init, Published, Recording, At, Idle
<1> QED BY <1>1, FS_EmptySet DEF CountedInv, CountedOncePublished, Recording

LEMMA StepCountedInv ==
    TypeInv /\ SessionInv /\ CountedInv /\ [Next]_vars => CountedInv'
PROOF
<1> SUFFICES ASSUME TypeInv, SessionInv, CountedInv, [Next]_vars PROVE CountedInv'
  OBVIOUS
<1> USE DEF tables, disk
<1>q. Quiet => CountedInv'
  BY QuietCounts
<1>n. /\ total_uploads \in Nat /\ IsFiniteSet(Published)
      /\ Cardinality(Published) \in Nat
      /\ total_uploads + Cardinality(Recording) <= Cardinality(Published)
  <2>1. /\ total_uploads \in Nat /\ IsFiniteSet(Published)
        /\ total_uploads + Cardinality(Recording) <= Cardinality(Published)
    BY DEF TypeInv, TypeOK, CountedInv, CountedOncePublished, Recording
  <2> QED BY <2>1, FS_CardinalityType
\* One more row, one more claim.
<1>1. ASSUME NEW h \in Handlers, FinishInsert(h) PROVE CountedInv'
  <2> DEFINE id == req[h].id
  <2>1. /\ req[h].pc = "insert" /\ GoTo(h, "record")
        /\ total_uploads' = total_uploads
        /\ files' = [files EXCEPT ![id] = [upload |-> req[h].u,
               mtime |-> req[h].mtime, inserted |-> clock]]
    BY <1>1 DEF FinishInsert
  <2>2. id \in FileIds /\ id \notin Published
    BY <2>1 DEF TypeInv, ReqsOK, ReqOK, SessionInv, IdInv, Busy
  <2>3. [upload |-> req[h].u, mtime |-> req[h].mtime, inserted |-> clock] # None
    <3>1. req[h].u \in Uploads /\ req[h].mtime \in Nat /\ clock \in Nat
      BY <2>1 DEF TypeInv, TypeOK, ReqsOK, ReqOK, RequestType
    <3> QED BY <3>1, NamesAreDistinct DEF FileRow
  <2>4. Published' = Published \cup {id}
    BY <2>1, <2>2, <2>3 DEF Published, TypeInv, TypeOK
  <2>5. Recording' = Recording \cup {h} /\ h \notin Recording
    BY <2>1, GoToMoves DEF Recording, At, Moves, Others
  <2>6. /\ Cardinality(Recording') = Cardinality(Recording) + 1
        /\ Cardinality(Published') = Cardinality(Published) + 1
        /\ IsFiniteSet(Published')
    BY <1>n, <2>2, <2>4, <2>5, RecordingIsFinite, FS_AddElement
  <2>7. total_uploads' + Cardinality(Recording') <= Cardinality(Published')
    BY <1>n, <2>1, <2>6, RecordingIsFinite
  <2> QED BY <2>6, <2>7 DEF CountedInv, CountedOncePublished, Recording
\* A claim becomes a count.
<1>2. ASSUME NEW h \in Handlers, FinishRecord(h) PROVE CountedInv'
  <2>1. At(h, "record") /\ Respond(h) /\ files' = files
        /\ total_uploads' = total_uploads + 1
    BY <1>2 DEF FinishRecord
  <2>2. Recording' = Recording \ {h} /\ h \in Recording
    BY <2>1, RespondLeaves DEF Recording, At, Leaves, Others
  <2>3. /\ Cardinality(Recording') = Cardinality(Recording) - 1
        /\ Cardinality(Recording) \in Nat
    BY <2>2, RecordingIsFinite, FS_RemoveElement
  <2>4. Published' = Published
    BY <2>1 DEF Published
  <2>5. Cardinality(Published') = Cardinality(Published)
        /\ (IsFiniteSet(Published))' 
    BY <1>n, <2>4
  <2>6. total_uploads' + Cardinality(Recording') <= Cardinality(Published')
    BY <1>n, <2>1, <2>3, <2>5
  <2> QED BY <2>5, <2>6 DEF CountedInv, CountedOncePublished, Recording
<1>3. ASSUME NEW h \in Handlers, Request(h) PROVE Quiet
  <2>1. ASSUME NEW u \in Uploads, InitStart(h, u) PROVE Quiet
    <3>1. UNCHANGED <<files, total_uploads>>
      BY <2>1 DEF InitStart
    <3>2. Others(h) /\ req'[h].pc # "record"
      BY <2>1 DEF InitStart, Idle, TypeInv, ReqsOK, Others
    <3> QED BY <3>1, <3>2, ElsewhereIsQuiet
  <2>2. ASSUME NEW u \in Uploads, NEW i, NEW p, ChunkBegin(h, u, i, p) PROVE Quiet
    <3>1. UNCHANGED <<files, total_uploads>>
      BY <2>2 DEF ChunkBegin
    <3>2. Others(h) /\ req'[h].pc # "record"
      BY <2>2 DEF ChunkBegin, Idle, TypeInv, ReqsOK, Others
    <3> QED BY <3>1, <3>2, ElsewhereIsQuiet
  <2>3. ASSUME NEW u \in Uploads, FinishRead(h, u) PROVE Quiet
    <3>1. UNCHANGED <<files, total_uploads>>
      BY <2>3 DEF FinishRead
    <3>2. Others(h) /\ req'[h].pc # "record"
      BY <2>3 DEF FinishRead, Idle, TypeInv, ReqsOK, Others
    <3> QED BY <3>1, <3>2, ElsewhereIsQuiet
  <2> QED BY <1>3, <2>1, <2>2, <2>3 DEF Request
\* A request that answers.
<1>4. ASSUME NEW h \in Handlers,
             \/ InitInsert(h) \/ InitInsertFails(h) \/ ChunkRefused(h)
             \/ ChunkCommit(h) \/ ChunkDbFails(h) \/ FinishUnlink(h)
             \/ FinishReplaceFails(h) \/ FinishInsertFails(h) \/ FinishFails(h)
             \/ Crash(h)
      PROVE  Quiet
  <2>1. Respond(h) /\ UNCHANGED <<files, total_uploads>>
    BY <1>4 DEF InitInsert, InitInsertFails, ChunkRefused, ChunkCommit,
                ChunkDbFails, FinishUnlink, FinishReplaceFails,
                FinishInsertFails, FinishFails, Crash
  <2>2. Others(h) /\ req'[h].pc # "record"
    BY <2>1, RespondLeaves DEF Leaves
  <2> QED BY <2>1, <2>2, ElsewhereIsQuiet
\* A request that goes on.
<1>5. ASSUME NEW h \in Handlers,
             \/ ChunkOpen(h) \/ FinishExists(h) \/ FinishDiscard(h)
      PROVE  Quiet
  <2>1. PICK pc \in {"append", "discard", "allocate", "unlink"} : GoTo(h, pc)
    BY <1>5 DEF ChunkOpen, FinishExists, FinishDiscard
  <2>2. Others(h) /\ req'[h].pc # "record"
    BY <2>1, GoToMoves DEF Moves
  <2>3. UNCHANGED <<files, total_uploads>>
    BY <1>5 DEF ChunkOpen, FinishExists, FinishDiscard
  <2> QED BY <2>2, <2>3, ElsewhereIsQuiet
<1>6. ASSUME NEW h \in Handlers, ChunkAppend(h) \/ FinishReplace(h) PROVE Quiet
  <2>1. Others(h) /\ req'[h].pc # "record"
    BY <1>6, AppendMoves, ReplaceMoves DEF Moves
  <2>2. UNCHANGED <<files, total_uploads>>
    BY <1>6 DEF ChunkAppend, FinishReplace
  <2> QED BY <2>1, <2>2, ElsewhereIsQuiet
<1>7. ASSUME NEW h \in Handlers, NEW id \in FileIds, FinishAllocate(h, id) PROVE Quiet
  <2>1. Others(h) /\ req'[h].pc # "record"
    BY <1>7, AllocateMoves DEF Moves
  <2>2. UNCHANGED <<files, total_uploads>>
    BY <1>7 DEF FinishAllocate
  <2> QED BY <2>1, <2>2, ElsewhereIsQuiet
<1>8. ASSUME NEW h \in Handlers, Handle(h) PROVE CountedInv'
  BY <1>q, <1>1, <1>2, <1>4, <1>5, <1>6, <1>7, <1>8 DEF Handle
<1>9. ASSUME Clean \/ CleanerCrash \/ Tick \/ UNCHANGED vars PROVE Quiet
  <2>1. ASSUME UNCHANGED <<req, files, total_uploads>> PROVE Quiet
    BY <2>1 DEF Quiet, Recording, At
  <2>2. ASSUME \/ CleanWake \/ CleanLock \/ CleanCommit \/ CleanFails
               \/ CleanKnownBlobs \/ CleanKnownParts \/ CleanDone
               \/ CleanerCrash \/ Tick \/ UNCHANGED vars
        PROVE  UNCHANGED <<req, files, total_uploads>>
    BY <2>2 DEF CleanWake, CleanLock, CleanCommit, CleanFails, CleanKnownBlobs,
                CleanKnownParts, CleanDone, CleanerCrash, Tick, vars
  <2>3. ASSUME NEW u \in Uploads, CleanUnlink(u) \/ CleanSweepPart(u)
        PROVE  UNCHANGED <<req, files, total_uploads>>
    BY <2>3 DEF CleanUnlink, CleanSweepPart
  <2>4. ASSUME NEW id \in FileIds, CleanSweepBlob(id)
        PROVE  UNCHANGED <<req, files, total_uploads>>
    BY <2>4 DEF CleanSweepBlob
  <2> QED BY <1>9, <2>1, <2>2, <2>3, <2>4 DEF Clean
<1> QED BY <1>q, <1>3, <1>4, <1>8, <1>9 DEF Next

\* counters.py:27 with files.py:408-436: the upload counter, together with the
\* requests about to raise it, never exceeds the number of published files.
THEOREM NothingCountedUnpublished == Spec => []CountedOncePublished
PROOF
<1>1. CountedInv => CountedOncePublished
  BY DEF CountedInv
<1> QED BY <1>1, InitTypeInv, StepTypeInv, InitSessionInv, StepSessionInv,
           InitCountedInv, StepCountedInv, PTL DEF Spec

-----------------------------------------------------------------------------
(* The ceiling on pending uploads, which COUNT and INSERT enforce in two   *)
(* statements: how far requests in flight can take the table over it.      *)

\* Init requests that passed the COUNT and have not inserted their row.
Opening == {h \in Handlers : At(h, "init_insert")}

\* Over MAX_PENDING_UPLOADS go at most the init requests that run at one time,
\* but one, and those whose COUNT raised, which admits them.
CeilingOvershoot ==
    MaxPending > 0 =>
        Cardinality(Rows) + Cardinality(Opening)
            <= MaxPending - 1 + Cardinality(Handlers) + (MaxFaults - faults)

LEMMA OpeningIsFinite ==
    ASSUME TypeInv
    PROVE  /\ IsFiniteSet(Rows) /\ IsFiniteSet(Opening)
           /\ Cardinality(Rows) \in Nat /\ Cardinality(Opening) \in Nat
           /\ Cardinality(Handlers) \in Nat /\ MaxPending \in Nat
           /\ MaxFaults \in Nat /\ faults \in Nat
PROOF
<1>1. IsFiniteSet(Rows) /\ IsFiniteSet(Opening) /\ IsFiniteSet(Handlers)
  <2>1. Rows \in SUBSET Uploads /\ Opening \in SUBSET Handlers
    BY DEF Rows, Opening
  <2> QED BY <2>1, BoundsAreNaturals, FS_Subset
<1> QED BY <1>1, FS_CardinalityType, BoundsAreNaturals DEF TypeInv, TypeOK

CeilingInv == faults <= MaxFaults /\ CeilingOvershoot

\* A step that opens nothing.
Calm ==
    Rows' \subseteq Rows /\ Opening' \subseteq Opening /\ faults' <= faults

LEMMA CalmKeepsCeiling ==
    ASSUME TypeInv, TypeInv', CeilingInv, Calm
    PROVE  CeilingInv'
PROOF
<1>1. /\ Cardinality(Rows') <= Cardinality(Rows)
      /\ Cardinality(Opening') <= Cardinality(Opening)
      /\ IsFiniteSet(Rows') /\ IsFiniteSet(Opening')
  <2>1. Rows' \in SUBSET Rows /\ Opening' \in SUBSET Opening
    BY DEF Calm
  <2> QED BY <2>1, OpeningIsFinite, FS_Subset
<1>2. /\ Cardinality(Rows') \in Nat /\ Cardinality(Opening') \in Nat
      /\ faults \in Nat /\ faults' \in Nat /\ faults' <= faults
  BY <1>1, FS_CardinalityType DEF Calm, TypeInv, TypeOK
<1> QED BY <1>1, <1>2, OpeningIsFinite DEF CeilingInv, CeilingOvershoot

\* A request that opens nothing and adds no row.
LEMMA NoneOpened ==
    ASSUME TypeInv, NEW h \in Handlers, Others(h), req'[h].pc # "init_insert",
           \A u \in Uploads : pending_uploads'[u] # None => pending_uploads[u] # None,
           faults' \in {faults, faults - 1}
    PROVE  Calm
PROOF
<1>1. faults' <= faults
  BY DEF TypeInv, TypeOK
<1> QED BY <1>1 DEF Calm, Rows, Opening, Others, At

LEMMA StepCeiling ==
    TypeInv /\ TypeInv' /\ SessionInv /\ CeilingInv /\ [Next]_vars => CeilingInv'
PROOF
<1> SUFFICES ASSUME TypeInv, TypeInv', SessionInv, CeilingInv, [Next]_vars
             PROVE  CeilingInv'
  OBVIOUS
<1> USE DEF tables, disk
<1>t. /\ req \in [Handlers -> RequestType]
      /\ pending_uploads \in [Uploads -> Row \cup {None}]
  BY DEF TypeInv, TypeOK, ReqsOK
<1>c. Calm => CeilingInv'
  BY CalmKeepsCeiling
\* One more request in flight: the COUNT was under the ceiling, or it raised.
<1>1. ASSUME NEW h \in Handlers, NEW u \in Uploads, InitStart(h, u)
      PROVE  CeilingInv'
  <2>1. Opening' = Opening \cup {h} /\ h \notin Opening /\ Rows' = Rows
    BY <1>1, <1>t DEF InitStart, Arrives, At, Opening, Rows, Idle
  <2>2. Cardinality(Opening') = Cardinality(Opening) + 1
    BY <2>1, OpeningIsFinite, FS_AddElement
  <2>3. CASE Admitted /\ UNCHANGED faults
    <3>1. Opening' \in SUBSET Handlers
      BY DEF Opening
    <3>2. Cardinality(Opening') <= Cardinality(Handlers)
      BY <3>1, BoundsAreNaturals, FS_Subset
    <3>3. MaxPending > 0 => Cardinality(Rows) <= MaxPending - 1
      BY <2>3, OpeningIsFinite DEF Admitted
    <3> QED BY <2>1, <2>2, <2>3, <3>2, <3>3, OpeningIsFinite
       DEF CeilingInv, CeilingOvershoot
  <2>4. CASE Strikes("db")
    <3>1. faults' = faults - 1
      BY <2>4 DEF Strikes
    <3> QED BY <2>1, <2>2, <3>1, OpeningIsFinite DEF CeilingInv, CeilingOvershoot
  <2> QED BY <1>1, <2>3, <2>4 DEF InitStart
\* A request in flight becomes a row.
<1>2. ASSUME NEW h \in Handlers, InitInsert(h)
      PROVE  CeilingInv'
  <2> DEFINE u == req[h].u
             row == [next |-> 0, bytes |-> 0, created |-> clock]
  <2>1. h \in Opening /\ u \in Uploads /\ u \notin Rows
    BY <1>2 DEF InitInsert, At, Opening, SessionInv, FreshInv, Busy, TypeInv, ReqsOK, ReqOK
  <2>2. row # None
    <3>1. row \in Row
      BY DEF Row, TypeInv, TypeOK
    <3> QED BY <3>1, NamesAreDistinct
  <2>3. pending_uploads' = [pending_uploads EXCEPT ![u] = row]
    BY <1>2 DEF InitInsert
  <2> HIDE DEF row
  <2>4. Rows' = Rows \cup {u}
    BY <1>t, <2>1, <2>2, <2>3 DEF Rows
  <2>5. Opening' = Opening \ {h}
    <3>1. Leaves(h)
      BY <1>2, RespondLeaves DEF InitInsert
    <3> QED BY <3>1 DEF Opening, At, Leaves, Others
  <2>6. /\ Cardinality(Rows') = Cardinality(Rows) + 1
        /\ Cardinality(Opening') = Cardinality(Opening) - 1
    BY <2>1, <2>4, <2>5, OpeningIsFinite, FS_AddElement, FS_RemoveElement
  <2>7. faults' = faults
    BY <1>2 DEF InitInsert
  <2> QED BY <2>6, <2>7, OpeningIsFinite DEF CeilingInv, CeilingOvershoot
<1>3. ASSUME NEW h \in Handlers,
             \/ InitInsertFails(h) \/ ChunkRefused(h) \/ ChunkCommit(h)
             \/ ChunkDbFails(h) \/ FinishUnlink(h) \/ FinishReplaceFails(h)
             \/ FinishInsertFails(h) \/ FinishRecord(h) \/ FinishFails(h) \/ Crash(h)
      PROVE  Calm
  <2>1. Respond(h)
    BY <1>3 DEF InitInsertFails, ChunkRefused, ChunkCommit, ChunkDbFails, FinishUnlink,
                FinishReplaceFails, FinishInsertFails, FinishRecord, FinishFails, Crash
  <2>2. \A u \in Uploads : pending_uploads'[u] # None => pending_uploads[u] # None
    BY <1>3, <1>t
       DEF InitInsertFails, ChunkRefused, ChunkCommit, Progress, ChunkDbFails,
           FinishUnlink, FinishReplaceFails, FinishInsertFails, FinishRecord,
           FinishFails, Crash
  <2>3. faults' \in {faults, faults - 1}
    BY <1>3
       DEF InitInsertFails, ChunkRefused, ChunkCommit, ChunkDbFails, FinishUnlink,
           FinishReplaceFails, FinishInsertFails, FinishRecord, FinishFails, Crash,
           DbRaises, Strikes
  <2> QED BY <2>1, <2>2, <2>3, RespondLeaves, NoneOpened DEF Leaves
<1>4. ASSUME NEW h \in Handlers,
             \/ ChunkOpen(h) \/ ChunkAppend(h) \/ FinishExists(h) \/ FinishDiscard(h)
             \/ (\E id \in FileIds : FinishAllocate(h, id))
             \/ FinishReplace(h) \/ FinishInsert(h)
      PROVE  Calm
  <2>1. Others(h) /\ req'[h].pc # "init_insert"
    <3>1. CASE ChunkOpen(h) \/ FinishExists(h) \/ FinishDiscard(h) \/ FinishInsert(h)
      <4>1. PICK pc \in {"append", "discard", "allocate", "unlink", "record"} : GoTo(h, pc)
        BY <3>1 DEF ChunkOpen, FinishExists, FinishDiscard, FinishInsert
      <4> QED BY <4>1, GoToMoves DEF Moves
    <3>2. CASE ChunkAppend(h) \/ FinishReplace(h)
      BY <3>2, AppendMoves, ReplaceMoves DEF Moves
    <3>3. CASE \E id \in FileIds : FinishAllocate(h, id)
      BY <3>3, AllocateMoves DEF Moves
    <3> QED BY <1>4, <3>1, <3>2, <3>3
  <2>2. \A u \in Uploads : pending_uploads'[u] # None => pending_uploads[u] # None
    BY <1>4, <1>t
       DEF ChunkOpen, ChunkAppend, FinishExists, FinishDiscard, FinishAllocate,
           FinishReplace, FinishInsert
  <2>3. faults' = faults
    BY <1>4 DEF ChunkOpen, ChunkAppend, FinishExists, FinishDiscard, FinishAllocate,
                FinishReplace, FinishInsert
  <2> QED BY <2>1, <2>2, <2>3, NoneOpened
<1>5. ASSUME NEW h \in Handlers, NEW u \in Uploads,
             FinishRead(h, u) \/ \E i, p : ChunkBegin(h, u, i, p)
      PROVE  Calm
  <2>1. Others(h) /\ req'[h].pc # "init_insert"
    BY <1>5, <1>t DEF FinishRead, ChunkBegin, Idle, Others
  <2>2. UNCHANGED <<pending_uploads, faults>>
    BY <1>5 DEF FinishRead, ChunkBegin
  <2> QED BY <2>1, <2>2, NoneOpened
<1>6. ASSUME Clean \/ CleanerCrash \/ Tick \/ UNCHANGED vars
      PROVE  Calm
  <2>1. req' = req
    BY <1>6 DEF Clean, CleanWake, CleanLock, CleanCommit, CleanFails, CleanUnlink,
       CleanSweepPart, CleanKnownBlobs, CleanKnownParts, CleanDone, CleanSweepBlob,
       CleanerCrash, Tick, vars
  <2>2. pending_uploads' = pending_uploads \/ CleanCommit
    BY <1>6 DEF Clean, CleanWake, CleanLock, CleanFails, CleanUnlink,
       CleanSweepPart, CleanKnownBlobs, CleanKnownParts, CleanDone, CleanSweepBlob,
       CleanerCrash, Tick, vars
  <2>3. Rows' \subseteq Rows
    BY <2>2 DEF CleanCommit, Rows
  <2>4. faults' \in {faults, faults - 1}
    BY <1>6 DEF Clean, CleanWake, CleanLock, CleanCommit, CleanFails, CleanUnlink,
       CleanSweepPart, CleanKnownBlobs, CleanKnownParts, CleanDone, CleanSweepBlob,
       CleanerCrash, Tick, vars, DbRaises, Strikes
  <2>5. faults' <= faults
    BY <2>4 DEF TypeInv, TypeOK
  <2> QED BY <2>1, <2>3, <2>5 DEF Calm, Opening, At
<1> QED BY <1>c, <1>1, <1>2, <1>3, <1>4, <1>5, <1>6 DEF Next, Request, Handle

\* files.py:191-199: the ceiling on pending uploads is exceeded by no more than the
\* init requests in flight besides the last one it admitted, and by those whose
\* COUNT raised.
THEOREM CeilingIsSoft == Spec => []CeilingOvershoot
PROOF
<1>1. ASSUME Init PROVE CeilingInv
  <2>1. Rows = {} /\ Opening = {} /\ faults = MaxFaults
    BY <1>1 DEF Init, Rows, Opening, At, Idle
  <2>2. Cardinality(Rows) = 0 /\ Cardinality(Opening) = 0
    BY <2>1, FS_EmptySet
  <2>3. Cardinality(Handlers) \in Nat /\ MaxFaults \in Nat /\ MaxPending \in Nat
    BY BoundsAreNaturals, FS_CardinalityType
  <2> QED BY <2>1, <2>2, <2>3 DEF CeilingInv, CeilingOvershoot
<1>2. CeilingInv => CeilingOvershoot
  BY DEF CeilingInv
<1> QED BY <1>1, <1>2, InitTypeInv, StepTypeInv, InitSessionInv, StepSessionInv,
           StepCeiling, PTL DEF Spec
=============================================================================
