--------------------------- MODULE UploadDiskProofs ---------------------------
(***************************************************************************)
(* What is on the disk of an upload.  Whatever crashes or fails, a chunk   *)
(* request writes to a file that is there (FileInv); and unless a fault    *)
(* strikes between an effect on the disk and its COMMIT, the disk holds    *)
(* what was acknowledged (DataInv), before and after publication.  No      *)
(* session loses its row or its file but to the reap, or to a finish.      *)
(***************************************************************************)
EXTENDS UploadSafetyProofs

Unchanged(w) == \A v \in Uploads \ {w} : partial'[v] = partial[v]

-----------------------------------------------------------------------------
(* What a step does to a .part file.                                       *)

LEMMA FileIsThere ==
    ASSUME TypeInv, NEW data \in Seq(Piece \cup {Zero})
    PROVE  [data |-> data, mtime |-> clock] \in File
           /\ [data |-> data, mtime |-> clock] # None
PROOF
<1>1. [data |-> data, mtime |-> clock] \in File
  BY DEF TypeInv, TypeOK, File
<1> QED BY <1>1, NamesAreDistinct

LEMMA OpenTouches ==
    ASSUME TypeInv, NEW h \in Handlers, ChunkOpen(h)
    PROVE  LET w == req[h].u IN
           /\ Unchanged(w) /\ partial'[w] # None
           /\ IF partial[w] # None THEN partial'[w] = partial[w]
              ELSE partial'[w].mtime = clock /\ partial'[w].data = <<>>
PROOF
<1> DEFINE w == req[h].u
           file == [data |-> <<>>, mtime |-> clock]
<1>1. w \in Uploads /\ partial \in [Uploads -> File \cup {None}]
  BY DEF ChunkOpen, At, TypeInv, TypeOK, ReqsOK, ReqOK
<1>2. partial' = [partial EXCEPT ![w] = IF partial[w] = None THEN file ELSE partial[w]]
  BY <1>1 DEF ChunkOpen, OpenForAppend
<1>3. file # None /\ file.mtime = clock /\ file.data = <<>>
  BY EmptySeq, FileIsThere
<1> HIDE DEF file
<1> QED BY <1>1, <1>2, <1>3 DEF Unchanged

LEMMA AppendTouches ==
    ASSUME TypeInv, NEW h \in Handlers, ChunkAppend(h), partial[req[h].u] # None
    PROVE  LET r == req[h]  w == req[h].u  n == r.written + 1 IN
           /\ w \in Uploads /\ r.data \in Seq(Piece) /\ n \in 1 .. Len(r.data)
           /\ Unchanged(w) /\ partial'[w] # None /\ partial'[w].mtime = clock
           /\ partial'[w].data = Append(partial[w].data, r.data[n])
PROOF
<1> DEFINE r == req[h]  w == req[h].u  n == r.written + 1
           file == [data |-> Append(partial[w].data, r.data[n]), mtime |-> clock]
<1>1. /\ w \in Uploads /\ r.written \in Nat /\ r.data \in Seq(Piece)
      /\ r.written < Len(r.data) /\ partial \in [Uploads -> File \cup {None}]
  BY DEF ChunkAppend, TypeInv, TypeOK, ReqsOK, ReqOK, RequestType
<1>2. n \in 1 .. Len(r.data)
  BY <1>1, LenProperties
<1>3. r.data[n] \in Piece \cup {Zero}
  BY <1>1, <1>2, ElementOfSeq
<1>4. Append(partial[w].data, r.data[n]) \in Seq(Piece \cup {Zero})
  <2>1. partial[w].data \in Seq(Piece \cup {Zero})
    BY <1>1 DEF File
  <2> QED BY <1>3, <2>1, AppendProperties
<1>5. file # None /\ file.mtime = clock
      /\ file.data = Append(partial[w].data, r.data[n])
  BY <1>4, FileIsThere
<1>6. partial' = [partial EXCEPT ![w] = file]
  BY <1>1 DEF ChunkAppend, WriteAtEnd
<1> HIDE DEF file
<1> QED BY <1>1, <1>2, <1>5, <1>6 DEF Unchanged

\* What still fits is before the last byte.
LEMMA AppendWrites ==
    ASSUME TypeInv, NEW h \in Handlers, ChunkAppend(h)
    PROVE  Writes(h)
PROOF
<1>1. /\ req[h].pc = "append" /\ req[h].base + req[h].written + 1 <= Expected
      /\ req[h].base \in Nat /\ req[h].written \in Nat /\ Expected \in Nat
  BY BodiesAreArbitrary DEF ChunkAppend, Fits, TypeInv, ReqsOK, RequestType
<1> QED BY <1>1 DEF Writes, Busy

LEMMA RefusalTouches ==
    ASSUME TypeInv, NEW h \in Handlers, ChunkRefused(h)
    PROVE  LET w == req[h].u IN
           /\ w \in Uploads /\ req[h].base \in Nat /\ Unchanged(w)
           /\ partial[w] = None <=> partial'[w] = None
           /\ partial[w] # None =>
                  /\ partial'[w].mtime = clock
                  /\ partial'[w].data = Resize(partial[w].data, req[h].base)
PROOF
<1> DEFINE w == req[h].u
           file == [data |-> Resize(partial[w].data, req[h].base), mtime |-> clock]
<1>1. /\ w \in Uploads /\ req[h].base \in Nat
      /\ partial \in [Uploads -> File \cup {None}]
  BY DEF ChunkRefused, TypeInv, TypeOK, ReqsOK, ReqOK, RequestType
<1>2. partial' = [partial EXCEPT ![w] = IF partial[w] = None THEN None ELSE file]
  BY <1>1 DEF ChunkRefused, TruncateBack
<1>3. ASSUME partial[w] # None
      PROVE  file # None
  <2>1. partial[w].data \in Seq(Piece \cup {Zero})
    BY <1>1, <1>3 DEF File
  <2>2. Resize(partial[w].data, req[h].base) \in Seq(Piece \cup {Zero})
    BY <1>1, <2>1, ResizeType
  <2> QED BY <2>2, FileIsThere
<1>4. file.mtime = clock /\ file.data = Resize(partial[w].data, req[h].base)
  OBVIOUS
<1> HIDE DEF file
<1> QED BY <1>1, <1>2, <1>3, <1>4 DEF Unchanged

-----------------------------------------------------------------------------
(* The files that must be there, whatever fails.                           *)

LEMMA InitFileInv == Init => FileInv
PROOF
  BY DEF Init, FileInv, HeldInv, PartAgeInv, Writes, Busy, Idle, Asleep, Rows

\* A step that leaves files, rows and the pass alone, and after which no request
\* opens a session, appends or unlinks that did not before.
LEMMA RestKeepsFiles ==
    ASSUME FileInv, UNCHANGED <<partial, pending_uploads, clock>>,
           cleaner'.pc = "parts" =>
               cleaner.pc = "parts" /\ cleaner'.known = cleaner.known
               /\ cleaner'.now = cleaner.now,
           cleaner'.pc = "reap" => cleaner'.todo \subseteq Rows,
           \A g \in Handlers : req'[g] = req[g]
               \/ ~Busy(g, {"init_insert", "append", "unlink"})'
    PROVE  FileInv'
PROOF
<1>1. HeldInv'
  BY DEF FileInv, HeldInv, Writes, Busy, Rows
<1>2. PartAgeInv'
  BY DEF FileInv, PartAgeInv, Busy, Rows
<1> QED BY <1>1, <1>2 DEF FileInv

\* The requests that change no file and no row end, or go on to a step that
\* needs no file of theirs.
LEMMA RequestRests ==
    ASSUME TypeInv, FileInv, NEW h \in Handlers,
           \/ \E u \in Uploads : FinishRead(h, u)
           \/ \E u \in Uploads : \E i, p : ChunkBegin(h, u, i, p)
           \/ \E id \in FileIds : FinishAllocate(h, id)
           \/ ChunkDbFails(h) \/ FinishExists(h) \/ FinishReplaceFails(h)
           \/ FinishInsertFails(h) \/ FinishRecord(h) \/ FinishFails(h) \/ Crash(h)
    PROVE  FileInv'
PROOF
<1>1. UNCHANGED <<partial, pending_uploads, cleaner, clock>>
  BY DEF FinishRead, ChunkBegin, FinishAllocate, ChunkDbFails, FinishExists,
         FinishReplaceFails, FinishInsertFails, FinishRecord, FinishFails, Crash,
         tables, disk
<1>2. Others(h) /\ ~Busy(h, {"init_insert", "append", "unlink"})'
  <2> USE DEF Busy, Moves, Leaves
  <2>1. ASSUME NEW u \in Uploads, FinishRead(h, u)
        PROVE  Others(h) /\ ~Busy(h, {"init_insert", "append", "unlink"})'
    BY <2>1 DEF FinishRead, Idle, TypeInv, ReqsOK, Others
  <2>2. ASSUME NEW u \in Uploads, NEW i, NEW p, ChunkBegin(h, u, i, p)
        PROVE  Others(h) /\ ~Busy(h, {"init_insert", "append", "unlink"})'
    BY <2>2 DEF ChunkBegin, Idle, TypeInv, ReqsOK, Others
  <2>3. ASSUME NEW id \in FileIds, FinishAllocate(h, id)
        PROVE  Others(h) /\ ~Busy(h, {"init_insert", "append", "unlink"})'
    BY <2>3, AllocateMoves
  <2>4. CASE FinishExists(h)
    BY <2>4, GoToMoves DEF FinishExists
  <2>5. CASE ChunkDbFails(h) \/ FinishReplaceFails(h) \/ FinishInsertFails(h)
             \/ FinishRecord(h) \/ FinishFails(h) \/ Crash(h)
    BY <2>5, RespondLeaves DEF ChunkDbFails, FinishReplaceFails, FinishInsertFails,
       FinishRecord, FinishFails, Crash
  <2> QED BY <2>1, <2>2, <2>3, <2>4, <2>5
<1>3. cleaner.pc = "reap" => cleaner.todo \subseteq Rows
  BY DEF FileInv, HeldInv
<1> QED BY <1>1, <1>2, <1>3, RestKeepsFiles DEF Others

LEMMA StepFileInv == TypeInv /\ SessionInv /\ FileInv /\ [Next]_vars => FileInv'
PROOF
<1> SUFFICES ASSUME TypeInv, SessionInv, FileInv, [Next]_vars PROVE FileInv'
  OBVIOUS
<1>t. TypeOK
  BY DEF TypeInv
<1>p. LockInv /\ ChunkInv /\ CountInv /\ FreshInv /\ CompleteInv /\ AgeInv
  BY DEF SessionInv
<1>f. HeldInv /\ PartAgeInv
  BY DEF FileInv
<1>u. \A g \in Handlers : req[g].pc # "idle" => req[g].u \in Uploads
  BY DEF TypeInv, ReqsOK, ReqOK
<1>c. clock \in Nat /\ Grace \in Nat \ {0}
  BY <1>t, BoundsAreNaturals DEF TypeOK
<1>m. \A v \in Uploads : partial[v] # None => partial[v].mtime \in Nat
  BY <1>t DEF TypeOK, File
<1>r. \A v \in Rows : pending_uploads[v].created \in Nat
  BY <1>t DEF TypeOK, Row, Rows
<1>n. \A v \in Uploads : v # None
  BY NamesAreDistinct
<1> USE DEF Busy, Writes, At, Moves, Leaves, Others, Rows, tables, disk, Unchanged
<1>1. ASSUME NEW h \in Handlers, NEW u \in Uploads, InitStart(h, u)
      PROVE FileInv'
  <2>1. /\ Others(h) /\ req[h].pc = "idle" /\ req'[h].pc = "init_insert"
        /\ req'[h].u = u /\ req'[h].since = clock
    BY <1>1 DEF InitStart, Arrives, Idle, TypeInv, ReqsOK
  <2>2. /\ Unchanged(u) /\ partial'[u] # None /\ partial'[u].mtime = clock
        /\ UNCHANGED <<pending_uploads, cleaner, clock>> /\ u \notin issued
    BY <1>t, <1>1, EmptySeq, FileIsThere DEF InitStart, TypeOK
  <2>3. u \notin Rows /\ \A g \in Handlers : req[g].u # u
    BY <1>p, <2>2 DEF FreshInv
  <2>4. HeldInv'
    BY <1>f, <1>u, <2>1, <2>2, <2>3 DEF HeldInv
  <2>5. PartAgeInv'
    BY <1>f, <1>u, <1>c, <2>1, <2>2, <2>3 DEF PartAgeInv
  <2> QED BY <2>4, <2>5 DEF FileInv
<1>2. ASSUME NEW h \in Handlers, InitInsert(h) PROVE FileInv'
  <2> DEFINE w == req[h].u
             row == [next |-> 0, bytes |-> 0, created |-> clock]
  <2>1. Leaves(h) /\ req[h].pc = "init_insert"
    BY <1>2, RespondLeaves DEF InitInsert
  <2>2. /\ pending_uploads' = [pending_uploads EXCEPT ![w] = row] /\ w \in Uploads
        /\ UNCHANGED <<partial, cleaner, clock>>
    BY <1>2, <1>u, <2>1 DEF InitInsert
  <2>3. /\ w \notin Rows /\ \A g \in Handlers \ {h} : req[g].u # w
        /\ partial[w] # None /\ clock < partial[w].mtime + Grace
    <3>1. req[h].since <= partial[w].mtime /\ partial[w] # None
      BY <1>f, <2>1 DEF PartAgeInv
    <3>2. clock < req[h].since + Grace /\ req[h].since \in Nat
      BY <1>p, <2>1 DEF AgeInv, TypeInv, ReqsOK, RequestType
    <3> QED BY <1>p, <1>c, <1>m, <2>1, <2>2, <3>1, <3>2 DEF FreshInv
  <2>4. cleaner.now <= clock
    BY <1>p DEF AgeInv
  <2>5. \A v \in Uploads \ {w} : pending_uploads'[v] = pending_uploads[v]
    BY <1>t, <2>2 DEF TypeOK
  <2>6. pending_uploads'[w].created = clock
    BY <1>t, <2>2 DEF TypeOK
  <2>7. HeldInv'
    BY <1>f, <1>u, <2>1, <2>2, <2>3, <2>5 DEF HeldInv
  <2>8. PartAgeInv'
    BY <1>f, <1>u, <1>c, <2>1, <2>2, <2>3, <2>4, <2>5, <2>6 DEF PartAgeInv
  <2> QED BY <2>7, <2>8 DEF FileInv
\* The .part file of one session goes: nobody needs it.
<1>3. ASSUME NEW w \in Uploads, partial' = [partial EXCEPT ![w] = None],
             UNCHANGED <<pending_uploads, clock>>,
             \A g \in Handlers : req'[g] = req[g]
                 \/ ~Busy(g, {"init_insert", "append", "unlink"})',
             \A g \in Handlers :
                 req'[g] = req[g] /\ (Busy(g, {"init_insert"}) \/ Writes(g))
                     => req[g].u # w,
             cleaner'.pc = cleaner.pc, cleaner'.known = cleaner.known,
             cleaner'.now = cleaner.now, cleaner'.todo \subseteq cleaner.todo
      PROVE  FileInv'
  <2>1. Unchanged(w) /\ partial'[w] = None
    BY <1>t, <1>3 DEF TypeOK
  <2>2. HeldInv'
    BY <1>f, <1>u, <1>3, <2>1 DEF HeldInv
  <2>3. PartAgeInv'
    BY <1>f, <1>u, <1>3, <2>1 DEF PartAgeInv
  <2> QED BY <2>2, <2>3 DEF FileInv
<1>4. ASSUME NEW h \in Handlers, InitInsertFails(h) PROVE FileInv'
  <2>1. Leaves(h) /\ req[h].pc = "init_insert" /\ req[h].u \in Uploads
    BY <1>4, <1>u, RespondLeaves DEF InitInsertFails
  <2>2. \A g \in Handlers \ {h} : req[g].u # req[h].u
    BY <1>p, <2>1 DEF FreshInv
  <2> QED BY <1>3, <1>4, <2>1, <2>2 DEF InitInsertFails, Remove
<1>5. ASSUME NEW h \in Handlers, FinishUnlink(h) PROVE FileInv'
  <2>1. Leaves(h) /\ req[h].pc = "unlink" /\ req[h].u \in Uploads
    BY <1>5, <1>u, RespondLeaves DEF FinishUnlink
  <2>2. req[h].u \notin Rows
    BY <1>f, <2>1 DEF HeldInv
  <2>3. \A g \in Handlers : Busy(g, {"init_insert", "append"}) => req[g].u # req[h].u
    BY <1>p, <2>1, <2>2 DEF FreshInv, ChunkInv
  <2> QED BY <1>3, <1>5, <2>1, <2>3 DEF FinishUnlink, Remove
<1>6. ASSUME NEW h \in Handlers, FinishReplace(h) PROVE FileInv'
  <2>1. /\ Moves(h, "insert") /\ req[h].pc = "replace" /\ req[h].u \in Uploads
        /\ UNCHANGED <<pending_uploads, cleaner, clock>>
        /\ partial' = [partial EXCEPT ![req[h].u] = None]
    BY <1>6, <1>u, ReplaceMoves DEF FinishReplace, Remove
  <2>2. Len(acked[req[h].u]) = Expected
    BY <1>p, <2>1 DEF CompleteInv
  <2>3. \A g \in Handlers : Writes(g) => Len(acked[req[g].u]) # Expected
    BY <1>p, WriterCounts DEF Writes
  <2>4. \A g \in Handlers : Busy(g, {"init_insert"}) => req[g].u # req[h].u
    BY <1>p, <2>1 DEF FreshInv
  <2>5. \A g \in Handlers : Busy(g, {"init_insert"}) \/ Writes(g) => req[g].u # req[h].u
    BY <2>2, <2>3, <2>4
  <2> QED BY <1>3, <2>1, <2>5
<1>7. ASSUME NEW u \in Uploads, CleanUnlink(u) PROVE FileInv'
  <2>1. /\ cleaner.pc = "reap" /\ partial' = [partial EXCEPT ![u] = None]
        /\ UNCHANGED <<pending_uploads, clock, req, lock>>
    BY <1>7 DEF CleanUnlink, Remove
  <2>2. /\ cleaner'.pc = cleaner.pc /\ cleaner'.known = cleaner.known
        /\ cleaner'.now = cleaner.now /\ cleaner'.todo \subseteq cleaner.todo
    BY <1>t, <1>7 DEF CleanUnlink, TypeOK, CleanerType
  <2>3. u \in Rows /\ lock = Cleaner
    BY <1>f, <1>p, <1>7, <2>1 DEF CleanUnlink, HeldInv, LockInv
  <2>4. \A g \in Handlers : Busy(g, {"init_insert", "append"}) => req[g].u # u
    BY <1>p, <2>3, NamesAreDistinct DEF FreshInv, LockInv
  <2> QED BY <1>3, <2>1, <2>2, <2>4
<1>8. ASSUME NEW u \in Uploads, CleanSweepPart(u) PROVE FileInv'
  <2>1. /\ cleaner.pc = "parts" /\ partial' = [partial EXCEPT ![u] = None]
        /\ partial[u] # None /\ u \notin cleaner.known
        /\ partial[u].mtime + Grace <= cleaner.now
        /\ UNCHANGED <<pending_uploads, cleaner, clock, req, lock>>
    BY <1>8 DEF CleanSweepPart, OrphanPart, OlderThanGrace, Remove
  <2>2. cleaner.now <= clock /\ cleaner.now \in Nat
    BY <1>p, <1>t DEF AgeInv, TypeOK, CleanerType
  <2>3. u \notin Rows
    BY <1>f, <1>c, <1>m, <1>r, <2>1, <2>2 DEF PartAgeInv
  <2>4. ASSUME NEW g \in Handlers, Busy(g, {"init_insert"}), req[g].u = u
        PROVE  FALSE
    <3>1. req[g].since <= partial[u].mtime
      BY <1>f, <2>4 DEF PartAgeInv
    <3>2. clock < req[g].since + Grace /\ req[g].since \in Nat
      BY <1>p, <2>4 DEF AgeInv, TypeInv, ReqsOK, RequestType
    <3> QED BY <1>c, <1>m, <2>1, <2>2, <3>1, <3>2
  <2>5. \A g \in Handlers : Busy(g, {"append"}) => req[g].u # u
    BY <1>p, <2>3 DEF ChunkInv
  <2> QED BY <1>3, <2>1, <2>4, <2>5
\* The .part file of one session is written: its time is now.
<1>9. ASSUME NEW h \in Handlers, NEW w \in Uploads, Unchanged(w), Others(h),
             UNCHANGED <<pending_uploads, clock, cleaner>>,
             req'[h].u = w \/ ~Busy(h, {"init_insert", "append", "unlink"})',
             ~Busy(h, {"init_insert", "unlink"})',
             Busy(h, {"append"})' => partial'[w] # None,
             partial[w] # None => partial'[w] # None,
             partial'[w] # None => partial'[w].mtime = clock \/ partial'[w] = partial[w]
      PROVE  FileInv'
  <2>1. HeldInv'
    BY <1>f, <1>u, <1>9 DEF HeldInv
  <2>2. PartAgeInv'
    <3>1. ASSUME partial'[w] # None
          PROVE  /\ partial'[w].mtime <= clock
                 /\ w \in Rows => pending_uploads[w].created < partial'[w].mtime + Grace
      BY <1>f, <1>c, <1>m, <1>r, <1>9, <3>1 DEF PartAgeInv
    <3>2. ASSUME NEW g \in Handlers, Busy(g, {"init_insert"})'
          PROVE  partial'[req[g].u] # None /\ req[g].since <= partial'[req[g].u].mtime
      <4>1. g # h /\ req'[g] = req[g] /\ req[g].u \in Uploads
        BY <1>u, <1>9, <3>2
      <4>2. partial[req[g].u] # None /\ req[g].since <= partial[req[g].u].mtime
        BY <1>f, <3>2, <4>1 DEF PartAgeInv
      <4>3. req[g].since <= clock /\ req[g].since \in Nat
        BY <1>p, <3>2, <4>1 DEF AgeInv, TypeInv, ReqsOK, RequestType
      <4> QED BY <1>9, <4>1, <4>2, <4>3
    <3> QED BY <1>f, <1>u, <1>9, <3>1, <3>2 DEF PartAgeInv
  <2> QED BY <2>1, <2>2 DEF FileInv
<1>10. ASSUME NEW h \in Handlers, ChunkOpen(h) PROVE FileInv'
  <2>1. /\ Moves(h, "append") /\ req[h].u \in Uploads
        /\ UNCHANGED <<pending_uploads, clock, cleaner>>
    BY <1>10, <1>u, GoToMoves DEF ChunkOpen
  <2> QED BY <1>9, <1>10, <2>1, OpenTouches
<1>11. ASSUME NEW h \in Handlers, ChunkAppend(h) PROVE FileInv'
  <2>1. /\ Moves(h, "append") /\ req[h].u \in Uploads /\ req[h].pc = "append"
        /\ UNCHANGED <<pending_uploads, clock, cleaner>>
    BY <1>11, <1>u, AppendMoves DEF ChunkAppend
  <2>2. Writes(h) /\ partial[req[h].u] # None
    BY <1>f, <1>11, <2>1, AppendWrites DEF HeldInv
  <2> QED BY <1>9, <1>11, <2>1, <2>2, AppendTouches
<1>12. ASSUME NEW h \in Handlers, ChunkRefused(h) PROVE FileInv'
  <2>1. /\ Leaves(h) /\ req[h].u \in Uploads
        /\ UNCHANGED <<pending_uploads, clock, cleaner>>
    BY <1>12, <1>u, RespondLeaves DEF ChunkRefused
  <2> QED BY <1>9, <1>12, <2>1, RefusalTouches
\* Rows go, or a chunk is acknowledged; what they were created is as it was.
<1>13. ASSUME UNCHANGED <<partial, clock>>,
              \A g \in Handlers : req'[g] = req[g] \/ ~Busy(g, {"init_insert", "append"})',
              \A g \in Handlers : Busy(g, {"unlink"})' => req'[g].u \notin Rows',
              \A v \in Rows' : v \in Rows
                  /\ pending_uploads'[v].created = pending_uploads[v].created,
              cleaner'.pc = "parts" => UNCHANGED cleaner, cleaner'.pc # "reap"
       PROVE  FileInv'
  <2>1. HeldInv'
    BY <1>f, <1>13 DEF HeldInv
  <2>2. PartAgeInv'
    BY <1>f, <1>13 DEF PartAgeInv
  <2> QED BY <2>1, <2>2 DEF FileInv
<1>14. ASSUME NEW h \in Handlers, ChunkCommit(h) PROVE FileInv'
  <2> DEFINE r == req[h]
             row == [next |-> r.idx + 1, bytes |-> r.base + r.written,
                     created |-> pending_uploads[r.u].created]
  <2>1. Leaves(h) /\ r.pc = "append" /\ lock = h /\ r.u \in Rows
    BY <1>14, <1>p, RespondLeaves DEF ChunkCommit, LockInv, ChunkInv
  <2>2. /\ pending_uploads' = [pending_uploads EXCEPT ![r.u] = row]
        /\ UNCHANGED <<partial, clock, cleaner>>
    BY <1>t, <1>14, <2>1 DEF ChunkCommit, Progress, TypeOK
  <2>3. cleaner.pc # "reap"
    BY <1>p, <2>1, NamesAreDistinct DEF LockInv
  <2>4. row.created = pending_uploads[r.u].created
    OBVIOUS
  <2> HIDE DEF row
  <2>5. \A v \in Rows' : v \in Rows
            /\ pending_uploads'[v].created = pending_uploads[v].created
    BY <1>t, <2>1, <2>2, <2>4 DEF TypeOK
  <2>6. \A g \in Handlers : Busy(g, {"unlink"})' => req'[g].u \notin Rows'
    BY <1>f, <2>1, <2>5 DEF HeldInv
  <2> QED BY <1>13, <2>1, <2>2, <2>3, <2>5, <2>6
<1>15. ASSUME NEW h \in Handlers, FinishDiscard(h) \/ FinishInsert(h) PROVE FileInv'
  <2>1. /\ (Moves(h, "unlink") \/ Moves(h, "record")) /\ lock = None
        /\ pending_uploads' = [pending_uploads EXCEPT ![req[h].u] = None]
        /\ UNCHANGED <<partial, clock, cleaner>>
    BY <1>15, GoToMoves DEF FinishDiscard, FinishInsert, Free
  <2>2. req[h].u \in Uploads /\ cleaner.pc # "reap"
    BY <1>15, <1>u, <1>p, <2>1, NamesAreDistinct DEF FinishDiscard, FinishInsert, LockInv
  <2>3. \A v \in Rows' : v \in Rows /\ pending_uploads'[v] = pending_uploads[v]
    BY <1>t, <2>1, <2>2 DEF TypeOK
  <2>4. req[h].u \notin Rows'
    BY <1>t, <2>1, <2>2 DEF TypeOK
  <2>5. \A g \in Handlers : Busy(g, {"unlink"})' => req'[g].u \notin Rows'
    BY <1>f, <2>1, <2>3, <2>4 DEF HeldInv
  <2> QED BY <1>13, <2>1, <2>2, <2>3, <2>5
<1>16. CASE CleanCommit
  <2>1. /\ UNCHANGED <<partial, clock, req>>
        /\ \A v \in Rows' : v \in Rows /\ pending_uploads'[v] = pending_uploads[v]
    BY <1>16 DEF CleanCommit
  <2>2. cleaner'.pc = "known_blobs"
    BY <1>t, <1>16 DEF CleanCommit, TypeOK, CleanerType
  <2>3. \A g \in Handlers : Busy(g, {"unlink"})' => req'[g].u \notin Rows'
    BY <1>f, <2>1 DEF HeldInv
  <2> QED BY <1>13, <2>1, <2>2, <2>3
\* The pass goes on, or rests.
<1>17. CASE CleanWake \/ CleanLock \/ CleanFails \/ CleanKnownBlobs \/ CleanDone
            \/ CleanerCrash
  <2>1. UNCHANGED <<partial, pending_uploads, clock, req>>
    BY <1>17 DEF CleanWake, CleanLock, CleanFails, CleanKnownBlobs, CleanDone,
       CleanerCrash
  <2>2. cleaner'.pc # "parts" /\ (cleaner'.pc = "reap" => cleaner'.todo \subseteq Rows)
    <3>1. CASE CleanWake \/ CleanKnownBlobs
      BY <1>t, <3>1 DEF CleanWake, CleanKnownBlobs, TypeOK, CleanerType
    <3>2. CASE CleanLock
      BY <1>t, <3>2 DEF CleanLock, TypeOK, CleanerType
    <3>3. CASE CleanFails \/ CleanDone \/ CleanerCrash
      BY <3>3 DEF CleanFails, CleanDone, CleanerCrash, Asleep
    <3> QED BY <1>17, <3>1, <3>2, <3>3
  <2> QED BY <2>1, <2>2, RestKeepsFiles
<1>18. CASE CleanKnownParts
  <2>1. UNCHANGED <<partial, pending_uploads, clock, req>>
    BY <1>18 DEF CleanKnownParts
  <2>2. cleaner'.pc = "parts" /\ cleaner'.known = Rows
    BY <1>t, <1>18 DEF CleanKnownParts, TypeOK, CleanerType
  <2>3. HeldInv'
    BY <1>f, <2>1, <2>2 DEF HeldInv
  <2>4. PartAgeInv'
    BY <1>f, <2>1, <2>2 DEF PartAgeInv
  <2> QED BY <2>3, <2>4 DEF FileInv
<1>19. ASSUME NEW id \in FileIds, CleanSweepBlob(id) PROVE FileInv'
  <2>1. UNCHANGED <<partial, pending_uploads, clock, req, cleaner>>
    BY <1>19 DEF CleanSweepBlob
  <2> QED BY <1>f, <2>1, RestKeepsFiles DEF HeldInv
<1>20. CASE Tick
  <2>1. /\ UNCHANGED <<partial, pending_uploads, req, cleaner>> /\ clock' = clock + 1
    BY <1>20 DEF Tick
  <2>2. HeldInv'
    BY <1>f, <2>1 DEF HeldInv
  <2>3. PartAgeInv'
    BY <1>f, <1>c, <1>m, <1>r, <2>1 DEF PartAgeInv
  <2> QED BY <2>2, <2>3 DEF FileInv
<1>21. CASE UNCHANGED vars
  BY <1>f, <1>21, RestKeepsFiles DEF vars, HeldInv
<1>22. ASSUME NEW h \in Handlers, Request(h) \/ Handle(h) \/ Crash(h) PROVE FileInv'
  <2>1. CASE Request(h)
    BY <1>1, <2>1, RequestRests DEF Request
  <2>2. CASE Crash(h)
    BY <2>2, RequestRests
  <2>3. CASE Handle(h)
    BY <1>2, <1>4, <1>5, <1>6, <1>10, <1>11, <1>12, <1>14, <1>15, <2>3, RequestRests
       DEF Handle
  <2> QED BY <1>22, <2>1, <2>2, <2>3
<1>23. CASE Clean
  BY <1>7, <1>8, <1>16, <1>17, <1>18, <1>19, <1>23 DEF Clean
<1> QED BY <1>17, <1>20, <1>21, <1>22, <1>23 DEF Next

\* Whatever crashes or fails, a chunk request that came before the session's last
\* byte writes to a file that is there: the write lock keeps its row, the row keeps
\* the cleanup pass away from the file, and no finish takes the file of a session
\* that still lacks a byte (files.py:279-341, cleanup.py).  From under a chunk that
\* comes later a finish may take it; such a chunk has nothing to write.
THEOREM NeverWritesToNowhere == Spec => []AppendNeverDetached
PROOF
<1>1. FileInv => AppendNeverDetached
  BY DEF FileInv, HeldInv, AppendNeverDetached, Writes, Busy, At
<1> QED BY <1>1, InitTypeInv, StepTypeInv, InitSessionInv, StepSessionInv, InitFileInv,
           StepFileInv, PTL DEF Spec

-----------------------------------------------------------------------------
(* Why a session may lose its row or its file.                             *)

\* The pass goes on by itself.
LEMMA RequestsKeepCleaner ==
    ASSUME NEW h \in Handlers, Request(h) \/ Handle(h) \/ Crash(h)
    PROVE  cleaner' = cleaner
PROOF
  BY DEF Request, Handle, InitStart, ChunkBegin, FinishRead, Crash, InitInsert, InitInsertFails,
         ChunkOpen, ChunkAppend, ChunkRefused, ChunkCommit, ChunkDbFails,
         FinishExists, FinishDiscard, FinishUnlink, FinishAllocate, FinishReplace,
         FinishReplaceFails, FinishInsert, FinishInsertFails, FinishRecord,
         FinishFails, tables

\* A pass begins to reap when it takes the lock.
LEMMA PassBegins ==
    ASSUME TypeOK, [Next]_vars, cleaner.pc # "reap", cleaner'.pc = "reap"
    PROVE  CleanLock
PROOF
<1>1. cleaner' # cleaner
  OBVIOUS
<1>2. ASSUME NEW h \in Handlers, Request(h) \/ Handle(h) \/ Crash(h)
      PROVE  FALSE
  <2>1. cleaner' = cleaner
    BY <1>2, RequestsKeepCleaner
  <2> QED BY <1>1, <2>1
<1>3. ~Tick /\ ~UNCHANGED vars
  BY <1>1 DEF Tick, vars
<1>4. Clean \/ CleanerCrash
  BY <1>2, <1>3 DEF Next
<1>5. ASSUME cleaner.pc = "reap" \/ cleaner' = Asleep \/ cleaner' = cleaner
      PROVE  FALSE
  BY <1>1, <1>5 DEF Asleep
<1>6. ~CleanWake /\ ~CleanKnownBlobs /\ ~CleanKnownParts
  BY DEF CleanWake, CleanKnownBlobs, CleanKnownParts, TypeOK, CleanerType
<1> QED BY <1>4, <1>5, <1>6
   DEF Clean, CleanCommit, CleanFails, CleanUnlink, CleanSweepPart, CleanDone,
       CleanSweepBlob, CleanerCrash

\* While it reaps, it holds the lock: the rows stay as they are, and the pass only
\* goes on from one session to the next.
LEMMA PassHoldsRows ==
    ASSUME TypeOK, LockInv, [Next]_vars, cleaner.pc = "reap", cleaner'.pc = "reap"
    PROVE  /\ pending_uploads' = pending_uploads
           /\ cleaner' = cleaner \/ \E u \in Uploads : CleanUnlink(u)
PROOF
<1>1. lock = Cleaner /\ \A h \in Handlers : req[h].pc \notin {"open", "append"}
  BY NamesAreDistinct DEF LockInv, Busy
<1>2. ASSUME NEW h \in Handlers, Request(h) \/ Handle(h) \/ Crash(h)
      PROVE  pending_uploads' = pending_uploads /\ cleaner' = cleaner
  <2>1. cleaner' = cleaner
    BY <1>2, RequestsKeepCleaner
  <2>2. CASE Request(h) \/ Crash(h)
    BY <2>1, <2>2 DEF Request, Crash, InitStart, ChunkBegin, FinishRead, tables
  <2>3. CASE Handle(h)
    BY <1>1, <2>1, <2>3, NamesAreDistinct
       DEF Handle, At, Free, tables, InitInsert, InitInsertFails, ChunkOpen,
           ChunkAppend, ChunkRefused, ChunkCommit, ChunkDbFails, FinishExists,
           FinishDiscard, FinishUnlink, FinishAllocate, FinishReplace,
           FinishReplaceFails, FinishInsert, FinishInsertFails, FinishRecord,
           FinishFails
  <2> QED BY <1>2, <2>2, <2>3
<1>3. CASE Tick \/ UNCHANGED vars
  BY <1>3 DEF Tick, vars, tables
<1>4. CASE Clean \/ CleanerCrash
  <2>1. cleaner' # Asleep
    BY DEF Asleep
  <2>2. ~CleanCommit
    BY DEF CleanCommit, TypeOK, CleanerType
  <2> QED BY <1>4, <2>1, <2>2
     DEF Clean, CleanWake, CleanLock, CleanUnlink, CleanFails, CleanSweepPart,
         CleanKnownBlobs, CleanKnownParts, CleanDone, CleanSweepBlob, CleanerCrash, tables
<1> QED BY <1>2, <1>3, <1>4 DEF Next

LEMMA StepStaleInv == TypeInv /\ SessionInv /\ StaleInv /\ [Next]_vars => StaleInv'
PROOF
<1> SUFFICES ASSUME TypeInv, SessionInv, StaleInv, [Next]_vars, cleaner'.pc = "reap"
             PROVE  StaleInv'
  BY DEF StaleInv
<1>t. TypeOK /\ LockInv
  BY DEF TypeInv, SessionInv
<1>1. CASE cleaner.pc # "reap"
  <2>1. CleanLock /\ cleaner.reaped = {}
    BY <1>t, <1>1, PassBegins DEF LockInv
  <2>2. /\ cleaner'.todo = {u \in Rows : Stale(pending_uploads[u], cleaner.now)}
        /\ cleaner'.reaped = {} /\ cleaner'.now = cleaner.now
        /\ pending_uploads' = pending_uploads
    BY <1>t, <2>1 DEF CleanLock, TypeOK, CleanerType, tables
  <2> QED BY <2>2 DEF StaleInv, Rows, Stale
<1>2. CASE cleaner.pc = "reap"
  <2>1. /\ pending_uploads' = pending_uploads
        /\ cleaner' = cleaner \/ \E u \in Uploads : CleanUnlink(u)
    BY <1>t, <1>2, PassHoldsRows
  <2>2. ASSUME NEW u \in Uploads, CleanUnlink(u)
        PROVE  /\ cleaner'.now = cleaner.now
               /\ cleaner'.todo = cleaner.todo \ {u}
               /\ cleaner'.reaped = cleaner.reaped \cup {u} /\ u \in cleaner.todo
    BY <1>t, <2>2 DEF CleanUnlink, TypeOK, CleanerType
  <2>3. /\ cleaner'.now = cleaner.now
        /\ cleaner'.todo \cup cleaner'.reaped \subseteq cleaner.todo \cup cleaner.reaped
    BY <2>1, <2>2
  <2> QED BY <1>2, <2>1, <2>3 DEF StaleInv, Rows, Stale
<1> QED BY <1>1, <1>2

\* Why a session is lost, as KeptUntilFinished says it.
LostWithCause ==
    \A u \in Rows : (partial[u] # None /\ partial'[u] = None)
                 \/ pending_uploads'[u] = None =>
        /\ \A h \in Handlers : req[h].pc \in {"open", "append"} /\ req[h].u = u =>
               Complete(pending_uploads[u]) /\ pending_uploads'[u] # None
        /\ \/ lock = Cleaner /\ pending_uploads[u].created + TTL < clock
           \/ \E h \in Handlers : req[h].u = u /\
                  \/ At(h, "discard")
                  \/ req[h].pc \in {"replace", "insert"}
                     /\ Complete(pending_uploads[u])

LEMMA StepLosesWithCause ==
    TypeInv /\ SessionInv /\ FileInv /\ StaleInv /\ [Next]_vars => LostWithCause
PROOF
<1> SUFFICES ASSUME TypeInv, SessionInv, FileInv, StaleInv, [Next]_vars,
                    NEW u \in Rows,
                    \/ partial[u] # None /\ partial'[u] = None
                    \/ pending_uploads'[u] = None
             PROVE  /\ \A h \in Handlers :
                           req[h].pc \in {"open", "append"} /\ req[h].u = u =>
                               Complete(pending_uploads[u]) /\ pending_uploads'[u] # None
                    /\ \/ lock = Cleaner /\ pending_uploads[u].created + TTL < clock
                       \/ \E h \in Handlers : req[h].u = u /\
                              \/ At(h, "discard")
                              \/ req[h].pc \in {"replace", "insert"}
                                 /\ Complete(pending_uploads[u])
  BY DEF LostWithCause
<1> DEFINE Idles == \A h \in Handlers :
                        req[h].pc \in {"open", "append"} /\ req[h].u = u =>
                            Complete(pending_uploads[u]) /\ pending_uploads'[u] # None
           Cause == \/ lock = Cleaner /\ pending_uploads[u].created + TTL < clock
                    \/ \E h \in Handlers : req[h].u = u /\
                           \/ At(h, "discard")
                           \/ req[h].pc \in {"replace", "insert"}
                              /\ Complete(pending_uploads[u])
<1>t. /\ TypeOK /\ LockInv /\ HeldInv /\ PartAgeInv /\ u \in Uploads
      /\ pending_uploads[u] # None
  BY DEF TypeInv, SessionInv, FileInv, Rows
<1>n. /\ pending_uploads[u].created \in Nat /\ clock \in Nat /\ cleaner.now \in Nat
      /\ cleaner.now <= clock /\ TTL \in Nat
  BY BoundsAreNaturals DEF TypeInv, TypeOK, Row, CleanerType, SessionInv, AgeInv, Rows
<1>i. lock \notin Handlers => Idles
  BY <1>t DEF LockInv, Busy
<1>1. ASSUME cleaner.pc = "reap", u \in cleaner.todo \cup cleaner.reaped
      PROVE  Idles /\ Cause
  <2>1. lock = Cleaner
    BY <1>t, <1>1 DEF LockInv
  <2>2. Stale(pending_uploads[u], cleaner.now)
    BY <1>1 DEF StaleInv
  <2> QED BY <1>i, <1>n, <2>1, <2>2, NamesAreDistinct DEF Stale
<1>2. CASE \E v \in Uploads : CleanUnlink(v)
  <2>1. PICK v \in Uploads : CleanUnlink(v)
    BY <1>2
  <2>2. v = u
    BY <1>t, <2>1 DEF CleanUnlink, Remove, tables, TypeOK
  <2> QED BY <1>1, <2>1, <2>2 DEF CleanUnlink
<1>3. CASE CleanCommit
  BY <1>t, <1>1, <1>3 DEF CleanCommit, disk
\* The sweep's snapshot misses a row only if its file is too young to be swept.
<1>4. ASSUME NEW v \in Uploads, CleanSweepPart(v)
      PROVE  FALSE
  <2>1. /\ cleaner.pc = "parts" /\ u \notin cleaner.known /\ partial[u] # None
        /\ partial[u].mtime + Grace <= cleaner.now
    BY <1>t, <1>4 DEF CleanSweepPart, OrphanPart, OlderThanGrace, Remove, tables, TypeOK
  <2>2. /\ pending_uploads[u].created < partial[u].mtime + Grace
        /\ cleaner.now <= pending_uploads[u].created
    BY <1>t, <2>1 DEF PartAgeInv
  <2>3. partial[u].mtime \in Nat /\ Grace \in Nat
    BY <1>t, <2>1, BoundsAreNaturals DEF TypeOK, File
  <2> QED BY <1>n, <2>1, <2>2, <2>3
<1>5. ASSUME NEW h \in Handlers, FinishDiscard(h)
      PROVE  Idles /\ Cause
  <2>1. req[h].u = u /\ At(h, "discard") /\ lock = None
    BY <1>t, <1>5 DEF FinishDiscard, disk, TypeOK, Free
  <2> QED BY <1>i, <2>1, NamesAreDistinct
<1>6. ASSUME NEW h \in Handlers, FinishReplace(h) \/ FinishInsert(h)
      PROVE  Idles /\ Cause
  <2>1. req[h].u = u /\ req[h].pc \in {"replace", "insert"}
    BY <1>t, <1>6 DEF FinishReplace, FinishInsert, Remove, disk, tables, TypeOK
  <2>2. Len(acked[u]) = Expected
    BY <2>1 DEF SessionInv, CompleteInv, Busy
  <2>3. Complete(pending_uploads[u])
    BY <2>2 DEF Complete, SessionInv, CountInv
  <2>4. Idles
    <3>1. CASE FinishReplace(h)
      BY <1>t, <2>3, <3>1 DEF FinishReplace, tables
    <3>2. CASE FinishInsert(h)
      BY <1>i, <3>2, NamesAreDistinct DEF FinishInsert, Free
    <3> QED BY <1>6, <3>1, <3>2
  <2> QED BY <2>1, <2>3, <2>4
\* The files of an unfinished init and of a discarded session have no row.
<1>7. ASSUME NEW h \in Handlers, InitInsertFails(h) \/ FinishUnlink(h)
      PROVE  FALSE
  <2>1. req[h].u = u
    BY <1>t, <1>7 DEF InitInsertFails, FinishUnlink, Remove, tables, TypeOK
  <2> QED BY <1>t, <1>7, <2>1
     DEF InitInsertFails, FinishUnlink, SessionInv, FreshInv, HeldInv, Busy, At
\* No other step takes this row or this file away.
<1>8. ASSUME partial'[u] = partial[u] \/ partial'[u] # None,
             pending_uploads'[u] # None
      PROVE  FALSE
  BY <1>8
<1>9. ASSUME UNCHANGED <<partial, pending_uploads>>
      PROVE  FALSE
  BY <1>t, <1>8, <1>9
<1> USE DEF disk, tables
<1>10. ASSUME NEW h \in Handlers, Request(h)
       PROVE  FALSE
  <2>1. ASSUME NEW v \in Uploads, InitStart(h, v)
        PROVE  FALSE
    <3>1. u # v
      BY <2>1 DEF InitStart, SessionInv, FreshInv
    <3> QED BY <1>t, <1>8, <2>1, <3>1 DEF InitStart, TypeOK
  <2> QED BY <1>9, <1>10, <2>1 DEF Request, ChunkBegin, FinishRead
<1>11. ASSUME NEW h \in Handlers, InitInsert(h) \/ ChunkCommit(h)
       PROVE  FALSE
  <2>1. pending_uploads'[u] # None
    <3>1. ASSUME NEW v, NEW row \in Row,
                 pending_uploads' = [pending_uploads EXCEPT ![v] = row]
          PROVE  pending_uploads'[u] # None
      BY <1>t, <3>1, NamesAreDistinct DEF TypeOK
    <3>2. CASE InitInsert(h)
      <4> DEFINE row == [next |-> 0, bytes |-> 0, created |-> clock]
      <4>1. row \in Row
        BY <1>n DEF Row
      <4>2. pending_uploads' = [pending_uploads EXCEPT ![req[h].u] = row]
        BY <3>2 DEF InitInsert
      <4> HIDE DEF row
      <4> QED BY <3>1, <4>1, <4>2
    <3>3. CASE ChunkCommit(h)
      <4> DEFINE r == req[h]
                 row == [next |-> r.idx + 1, bytes |-> r.base + r.written,
                         created |-> pending_uploads[r.u].created]
      <4>1. r.u \in Rows
        BY <3>3 DEF SessionInv, ChunkInv, ChunkCommit, Busy
      <4>2. pending_uploads[r.u] \in Row
        BY <4>1 DEF TypeInv, TypeOK, Rows
      <4>3. r.idx \in 0 .. LastChunk /\ r.base \in Nat /\ r.written \in Nat
        BY DEF TypeInv, ReqsOK, RequestType
      <4>4. row \in Row
        BY <4>2, <4>3, BodiesAreArbitrary DEF Row
      <4>5. pending_uploads' = [pending_uploads EXCEPT ![r.u] = row]
        BY <3>3, <4>1 DEF ChunkCommit, Progress, Rows
      <4> HIDE DEF row
      <4> QED BY <3>1, <4>4, <4>5
    <3> QED BY <1>11, <3>2, <3>3
  <2> QED BY <1>8, <1>11, <2>1 DEF InitInsert, ChunkCommit
<1>12. ASSUME NEW h \in Handlers, ChunkOpen(h) \/ ChunkAppend(h) \/ ChunkRefused(h)
       PROVE  FALSE
  <2>1. pending_uploads' = pending_uploads
    BY <1>12 DEF ChunkOpen, ChunkAppend, ChunkRefused
  <2>2. CASE ChunkOpen(h)
    BY <1>t, <1>8, <2>1, <2>2, OpenTouches DEF Unchanged
  <2>3. CASE ChunkAppend(h)
    BY <1>t, <1>8, <2>1, <2>3, AppendKeepsFile
  <2>4. CASE ChunkRefused(h)
    BY <1>t, <1>8, <2>1, <2>4, RefusalTouches DEF Unchanged
  <2> QED BY <1>12, <2>2, <2>3, <2>4
<1>13. ASSUME NEW h \in Handlers, Handle(h)
       PROVE  Idles /\ Cause
  BY <1>5, <1>6, <1>7, <1>9, <1>11, <1>12, <1>13
     DEF Handle, ChunkDbFails, FinishExists, FinishAllocate, FinishReplaceFails,
         FinishInsertFails, FinishRecord, FinishFails
<1>14. CASE Clean
  BY <1>2, <1>3, <1>4, <1>9, <1>14
     DEF Clean, CleanWake, CleanLock, CleanFails, CleanKnownBlobs, CleanKnownParts,
         CleanDone, CleanSweepBlob
<1>15. ASSUME (\E h \in Handlers : Crash(h)) \/ CleanerCrash \/ Tick \/ UNCHANGED vars
       PROVE  FALSE
  BY <1>9, <1>15 DEF Crash, CleanerCrash, Tick, vars
<1> QED BY <1>10, <1>13, <1>14, <1>15 DEF Next

\* files.py:279-434 with cleanup.py:64-103: whatever crashes, fails or races, a
\* session with a row loses row or file only to a pass that finds it older than
\* PENDING_UPLOAD_TTL, to a finish that found it incomplete, or to a finish that
\* publishes it, complete.  While a chunk of it is under way it never loses its row,
\* and its file only once all its bytes are there.
THEOREM SessionsKeptUntilFinished == Spec => KeptUntilFinished
PROOF
<1>1. TypeInv /\ SessionInv /\ FileInv /\ StaleInv /\ [Next]_vars => [LostWithCause]_vars
  BY StepLosesWithCause
<1>2. Init => StaleInv
  BY DEF Init, StaleInv, Asleep
<1>3. Spec => [](TypeInv /\ SessionInv /\ FileInv /\ StaleInv)
  BY <1>2, InitTypeInv, StepTypeInv, InitSessionInv, StepSessionInv, InitFileInv,
     StepFileInv, StepStaleInv, PTL DEF Spec
<1> QED BY <1>1, <1>3, PTL DEF Spec, KeptUntilFinished, LostWithCause

-----------------------------------------------------------------------------
(* What the files hold, when nothing is interrupted.                       *)

\* One more piece written is one more piece of the chunk.
LEMMA OnePieceMore ==
    ASSUME NEW S, NEW s \in Seq(S), NEW d \in Seq(S), NEW n \in 1 .. Len(d)
    PROVE  Append(s \o SubSeq(d, 1, n - 1), d[n]) = s \o SubSeq(d, 1, n)
PROOF
<1>1. n \in Nat /\ Len(d) \in Nat /\ d[n] \in S /\ \A i \in 1 .. n - 1 : d[i] \in S
  BY LenProperties, ElementOfSeq
<1>2. SubSeq(d, 1, n - 1) \in Seq(S)
  BY <1>1, SubSeqProperties
<1>3. <<d[n]>> \in Seq(S) /\ s \o SubSeq(d, 1, n - 1) \in Seq(S)
  BY <1>1, <1>2, ConcatProperties
<1>4. Append(s \o SubSeq(d, 1, n - 1), d[n]) = (s \o SubSeq(d, 1, n - 1)) \o <<d[n]>>
  BY <1>1, <1>3, AppendIsConcat
<1>5. (s \o SubSeq(d, 1, n - 1)) \o <<d[n]>> = s \o (SubSeq(d, 1, n - 1) \o <<d[n]>>)
  <2>1. ASSUME NEW a, NEW b, a \in Seq(S), b \in Seq(S)
        PROVE  (s \o a) \o b = s \o (a \o b)
    BY <2>1, SMT
  <2> QED BY <1>2, <1>3, <2>1
<1>6. SubSeq(d, 1, n) = SubSeq(d, 1, n - 1) \o <<d[n]>>
  <2>1. 1 \in 1 .. Len(d) /\ n \in 1 .. Len(d)
    BY <1>1
  <2> QED BY <2>1, SubSeqRecursiveSecond
<1> QED BY <1>4, <1>5, <1>6

\* truncate(bytes_received) leaves what was acknowledged.
LEMMA CutBack ==
    ASSUME NEW s \in Seq(Piece \cup {Zero}), NEW t \in Seq(Piece \cup {Zero})
    PROVE  Resize(s \o t, Len(s)) = s
PROOF
<1> DEFINE S == Piece \cup {Zero}
           cut == Resize(s \o t, Len(s))
<1>1. /\ s \o t \in Seq(S) /\ Len(s) \in Nat /\ Len(t) \in Nat
      /\ Len(s \o t) = Len(s) + Len(t)
  BY ConcatProperties, LenProperties
<1>2. cut \in Seq(S) /\ Len(cut) = Len(s)
  BY <1>1, ResizeType
<1>3. ASSUME NEW i \in 1 .. Len(s)
      PROVE  cut[i] = s[i]
  <2>1. i \in 1 .. Len(s) + Len(t) /\ i <= Len(s \o t) /\ i <= Len(s)
    BY <1>1
  <2>2. cut[i] = (s \o t)[i]
    BY <2>1 DEF Resize
  <2> QED BY <2>1, <2>2, ConcatProperties
<1> HIDE DEF cut
<1>4. \A i \in 1 .. Len(cut) : cut[i] = s[i]
  BY <1>2, <1>3
<1> HIDE DEF S
<1>5. cut \in Seq(S) /\ s \in Seq(S) /\ Len(cut) = Len(s)
  BY <1>2 DEF S
<1>6. cut = s
  BY <1>4, <1>5, SeqEqual
<1> QED BY <1>6 DEF cut, S

\* truncate to the length it has leaves a file as it is.
LEMMA CutToLength ==
    ASSUME NEW s \in Seq(Piece \cup {Zero})
    PROVE  Resize(s, Len(s)) = s
PROOF
<1>1. <<>> \in Seq(Piece \cup {Zero}) /\ s \o <<>> = s
  BY EmptySeq, ConcatEmptySeq
<1>2. Resize(s \o <<>>, Len(s)) = s
  BY <1>1, CutBack
<1> QED BY <1>1, <1>2

\* A late chunk that is refused fills the blank file up, and leaves a full one.
LEMMA BlankStaysBlank ==
    ASSUME NEW data \in Blank
    PROVE  Resize(data, Expected) \in Blank
PROOF
<1> DEFINE full == Resize(<<>>, Expected)
<1>1. full \in Seq(Piece \cup {Zero}) /\ Len(full) = Expected
  BY EmptySeq, ResizeType, BodiesAreArbitrary
<1> HIDE DEF full
<1>2. Resize(full, Expected) = full
  BY <1>1, CutToLength
<1> QED BY <1>2 DEF Blank, full

LEMMA InitDataInv == Init => DataInv
PROOF
  BY DEF Init, DataInv, PartInv, BlobInv, KeepInv, Writes, Busy, Idle, Rows, Published

\* Files and blobs go, each for a reason, rows go, requests end or begin.
Fades ==
    /\ UNCHANGED <<acked, late, files>>
    /\ \A v \in Rows' : v \in Rows /\ (v \in cleaner.reaped => v \in cleaner'.reaped)
    /\ \A id \in FileIds : blob'[id] \in {blob[id], None}
    /\ \A v \in Uploads : partial'[v] # partial[v] =>
           /\ partial'[v] = None /\ (v \notin Rows' \/ v \in cleaner'.reaped)
           /\ \A g \in Handlers : Writes(g) => req[g].u # v
    /\ \A g \in Handlers : req'[g] # req[g] =>
           /\ ~Busy(g, {"append"}) /\ ~Busy(g, {"append", "insert"})'
           /\ Busy(g, {"open"})' => req'[g].written = 0

LEMMA FadingKeeps ==
    ASSUME TypeInv, DataInv, Fades
    PROVE  DataInv'
PROOF
<1>u. \A g \in Handlers : req[g].pc # "idle" => req[g].u \in Uploads
  BY DEF TypeInv, ReqsOK, ReqOK
<1>i. \A g \in Handlers : Busy(g, {"insert"}) => req[g].id \in FileIds
  BY DEF TypeInv, ReqsOK, ReqOK, Busy
<1>1. PartInv'
  <2>1. ASSUME NEW v \in Uploads, partial'[v] # None,
               \A g \in Handlers : Writes(g)' => req'[g].u # v
        PROVE  Whole(v, partial[v].data)'
    <3>1. partial'[v] = partial[v] /\ acked' = acked /\ late' = late
      BY <2>1 DEF Fades
    <3>2. \A g \in Handlers : Writes(g) => req[g].u # v
      BY <2>1 DEF Fades, Writes, Busy
    <3> QED BY <2>1, <3>1, <3>2 DEF DataInv, PartInv, Whole
  <2>2. ASSUME NEW g \in Handlers, Writes(g)'
        PROVE  (LET r == req[g] IN
                partial[r.u].data = acked[r.u] \o SubSeq(r.data, 1, r.written))'
    <3>1. req'[g] = req[g] /\ Writes(g) /\ acked' = acked
      BY <2>2 DEF Fades, Writes, Busy
    <3>2. partial'[req[g].u] = partial[req[g].u]
      BY <1>u, <3>1 DEF Fades, Writes, Busy
    <3> QED BY <3>1, <3>2 DEF DataInv, PartInv
  <2>3. ASSUME NEW g \in Handlers, Busy(g, {"open"})'
        PROVE  req'[g].written = 0
    BY <2>3 DEF Fades, DataInv, PartInv, Busy
  <2> QED BY <2>1, <2>2, <2>3 DEF PartInv
<1>2. BlobInv'
  BY <1>i DEF Fades, DataInv, BlobInv, Whole, Busy, Published
<1>3. KeepInv'
  BY DEF Fades, DataInv, KeepInv, Rows
<1> QED BY <1>1, <1>2, <1>3 DEF DataInv

\* The requests that only take files away, or touch none.
LEMMA RequestFades ==
    ASSUME TypeInv, SessionInv, FileInv, NEW h \in Handlers, ~Interrupted,
           \/ \E u \in Uploads : FinishRead(h, u)
           \/ \E u \in Uploads : \E i, p : ChunkBegin(h, u, i, p)
           \/ FinishExists(h) \/ FinishDiscard(h) \/ FinishUnlink(h) \/ FinishFails(h)
           \/ InitInsertFails(h) \/ FinishReplaceFails(h) \/ FinishInsertFails(h)
           \/ FinishRecord(h) \/ ChunkDbFails(h) \/ Crash(h)
    PROVE  Fades
PROOF
<1>t. TypeOK
  BY DEF TypeInv
<1>p. FreshInv /\ ChunkInv
  BY DEF SessionInv
<1>u. \A g \in Handlers : req[g].pc # "idle" => req[g].u \in Uploads
  BY DEF TypeInv, ReqsOK, ReqOK
<1> USE DEF Busy, Writes, At, Moves, Leaves, Others, Rows, tables, disk
<1>1. ASSUME UNCHANGED <<acked, late, files, disk, cleaner>>,
             \A v \in Rows' : v \in Rows,
             Others(h), ~Busy(h, {"append"}), ~Busy(h, {"append", "insert"})',
             Busy(h, {"open"})' => req'[h].written = 0
      PROVE  Fades
  BY <1>1 DEF Fades
<1>2. ASSUME NEW u \in Uploads, FinishRead(h, u)
      PROVE  Fades
  <2>1. Others(h) /\ req[h].pc = "idle" /\ req'[h].pc \in {"exists", "discard"}
    BY <1>2 DEF FinishRead, Arrives, Idle, TypeInv, ReqsOK
  <2> QED BY <1>1, <1>2, <2>1 DEF FinishRead
<1>3. ASSUME NEW u \in Uploads, NEW i, NEW p, ChunkBegin(h, u, i, p)
      PROVE  Fades
  <2>1. /\ Others(h) /\ req[h].pc = "idle" /\ req'[h].pc = "open"
        /\ req'[h].written = 0
    BY <1>3 DEF ChunkBegin, Arrives, Idle, TypeInv, ReqsOK
  <2> QED BY <1>1, <1>3, <2>1 DEF ChunkBegin
<1>4. CASE FinishExists(h)
  <2>1. Others(h) /\ req[h].pc = "exists" /\ req'[h].pc \in {"discard", "allocate"}
    BY <1>4, GoToMoves DEF FinishExists
  <2> QED BY <1>1, <1>4, <2>1 DEF FinishExists
<1>5. CASE FinishDiscard(h)
  <2>1. Others(h) /\ req[h].pc = "discard" /\ req'[h].pc = "unlink"
    BY <1>5, GoToMoves DEF FinishDiscard
  <2>2. \A v \in Rows' : v \in Rows
    BY <1>t, <1>u, <1>5 DEF FinishDiscard, TypeOK
  <2> QED BY <1>1, <1>5, <2>1, <2>2 DEF FinishDiscard
<1>6. CASE FinishUnlink(h) \/ InitInsertFails(h)
  <2>1. /\ Leaves(h) /\ req[h].pc \in {"unlink", "init_insert"}
        /\ req[h].u \in Uploads /\ partial' = [partial EXCEPT ![req[h].u] = None]
        /\ UNCHANGED <<acked, late, files, blob, cleaner, pending_uploads>>
    BY <1>u, <1>6, RespondLeaves DEF FinishUnlink, InitInsertFails, Remove
  <2>2. req[h].u \notin Rows
    BY <1>p, <2>1 DEF FileInv, HeldInv, FreshInv
  <2>3. \A g \in Handlers : Busy(g, {"append"}) => req[g].u # req[h].u
    BY <1>p, <2>2 DEF ChunkInv
  <2> QED BY <1>t, <2>1, <2>2, <2>3 DEF Fades, TypeOK
<1>7. CASE FinishReplaceFails(h) \/ FinishInsertFails(h)
  <2>1. /\ Leaves(h) /\ req[h].pc \in {"replace", "insert"}
        /\ blob' = [blob EXCEPT ![req[h].id] = None]
        /\ UNCHANGED <<acked, late, files, partial, cleaner, pending_uploads>>
    BY <1>7, RespondLeaves DEF FinishReplaceFails, FinishInsertFails, RemoveBlob
  <2> QED BY <1>t, <2>1 DEF Fades, TypeOK
<1>8. CASE FinishRecord(h) \/ FinishFails(h)
  <2>1. Leaves(h) /\ ~Busy(h, {"append"})
    BY <1>8, RespondLeaves DEF FinishRecord, FinishFails
  <2> QED BY <1>1, <1>8, <2>1 DEF FinishRecord, FinishFails
<1>9. CASE ChunkDbFails(h)
  BY <1>9 DEF ChunkDbFails, Interrupted
<1>10. CASE Crash(h)
  <2>1. Leaves(h) /\ ~Busy(h, {"append"})
    BY <1>10, RespondLeaves DEF Crash, Interrupted
  <2> QED BY <1>1, <1>10, <2>1 DEF Crash
<1> QED BY <1>2, <1>3, <1>4, <1>5, <1>6, <1>7, <1>8, <1>9, <1>10

\* A cleanup pass, too.
LEMMA CleanFades ==
    ASSUME TypeInv, SessionInv, FileInv, ~Interrupted, Clean \/ CleanerCrash
    PROVE  Fades
PROOF
<1>t. TypeOK
  BY DEF TypeInv
<1>p. FreshInv /\ ChunkInv /\ LockInv /\ AgeInv
  BY DEF SessionInv
<1> USE DEF Busy, Writes, At, Rows, tables, disk
<1>1. ASSUME UNCHANGED <<acked, late, files, disk, req, pending_uploads>>,
             cleaner.reaped \subseteq cleaner'.reaped
      PROVE  Fades
  BY <1>1 DEF Fades
<1>2. CASE CleanWake \/ CleanLock \/ CleanKnownBlobs \/ CleanKnownParts
  <2>1. cleaner'.reaped = cleaner.reaped
    BY <1>t, <1>2 DEF CleanWake, CleanLock, CleanKnownBlobs, CleanKnownParts, TypeOK,
       CleanerType
  <2> QED BY <1>1, <1>2, <2>1
     DEF CleanWake, CleanLock, CleanKnownBlobs, CleanKnownParts
<1>3. CASE CleanFails \/ CleanDone \/ CleanerCrash
  <2>1. cleaner.pc # "reap"
    BY <1>3 DEF CleanFails, CleanDone, CleanerCrash, Interrupted
  <2>2. cleaner.reaped = {}
    BY <1>p, <2>1 DEF LockInv
  <2> QED BY <1>1, <1>3, <2>2 DEF CleanFails, CleanDone, CleanerCrash
<1>4. CASE CleanCommit
  <2>1. /\ UNCHANGED <<acked, late, files, disk, req>>
        /\ \A v \in Rows' : v \in Rows /\ v \notin cleaner.reaped
    BY <1>4 DEF CleanCommit
  <2> QED BY <2>1 DEF Fades
<1>5. ASSUME NEW u \in Uploads, CleanUnlink(u)
      PROVE  Fades
  <2>1. /\ partial' = [partial EXCEPT ![u] = None]
        /\ UNCHANGED <<acked, late, files, blob, req, pending_uploads>>
    BY <1>5 DEF CleanUnlink, Remove
  <2>2. u \in cleaner'.reaped /\ cleaner.reaped \subseteq cleaner'.reaped
    BY <1>t, <1>5 DEF CleanUnlink, TypeOK, CleanerType
  <2>3. \A g \in Handlers : ~Busy(g, {"append"})
    BY <1>p, <1>5, NamesAreDistinct DEF CleanUnlink, LockInv
  <2> QED BY <1>t, <2>1, <2>2, <2>3 DEF Fades, TypeOK
<1>6. ASSUME NEW u \in Uploads, CleanSweepPart(u)
      PROVE  Fades
  <2>1. /\ cleaner.pc = "parts" /\ partial' = [partial EXCEPT ![u] = None]
        /\ partial[u] # None /\ u \notin cleaner.known
        /\ partial[u].mtime + Grace <= cleaner.now
        /\ UNCHANGED <<pending_uploads, cleaner, acked, late, files, blob, req>>
    BY <1>6 DEF CleanSweepPart, OrphanPart, OlderThanGrace, Remove
  <2>2. u \notin Rows
    <3>1. cleaner.now \in Nat /\ Grace \in Nat /\ partial[u].mtime \in Nat
      BY <1>t, <2>1, BoundsAreNaturals DEF TypeOK, CleanerType, File
    <3>2. ASSUME u \in Rows
          PROVE  FALSE
      <4>1. pending_uploads[u].created \in Nat
        BY <1>t, <3>2 DEF TypeOK, Row
      <4>2. /\ pending_uploads[u].created < partial[u].mtime + Grace
            /\ cleaner.now <= pending_uploads[u].created
        BY <2>1, <3>2 DEF FileInv, PartAgeInv
      <4> QED BY <2>1, <3>1, <4>1, <4>2
    <3> QED BY <3>2
  <2>3. \A g \in Handlers : Busy(g, {"append"}) => req[g].u # u
    BY <1>p, <2>2 DEF ChunkInv
  <2> QED BY <1>t, <2>1, <2>2, <2>3 DEF Fades, TypeOK
<1>7. ASSUME NEW id \in FileIds, CleanSweepBlob(id)
      PROVE  Fades
  <2>1. /\ blob' = [blob EXCEPT ![id] = None]
        /\ UNCHANGED <<acked, late, files, partial, req, pending_uploads, cleaner>>
    BY <1>7 DEF CleanSweepBlob, RemoveBlob
  <2> QED BY <1>t, <2>1 DEF Fades, TypeOK
<1> QED BY <1>2, <1>3, <1>4, <1>5, <1>6, <1>7 DEF Clean

\* A step after which one file at most, and nobody's that writes, is not as it was.
LEMMA PartsKept ==
    ASSUME TypeInv, PartInv, NEW w,
           \A v \in Uploads \ {w} : /\ partial'[v] = partial[v] /\ acked'[v] = acked[v]
                                   /\ late'[v] = late[v],
           w \in Uploads => partial'[w] = None \/ Whole(w, partial[w].data)',
           \A g \in Handlers :
               \/ req'[g] = req[g]
               \/ /\ req[g].pc # "append" \/ req[g].u = w
                  /\ req'[g].pc # "open" /\ req'[g].pc # "append",
           \A g \in Handlers : Writes(g)' => req'[g].u # w
    PROVE  PartInv'
PROOF
<1>u. \A g \in Handlers : req[g].pc # "idle" => req[g].u \in Uploads
  BY DEF TypeInv, ReqsOK, ReqOK
<1>1. ASSUME NEW v \in Uploads, partial'[v] # None,
             \A g \in Handlers : Writes(g)' => req'[g].u # v
      PROVE  Whole(v, partial[v].data)'
  <2>1. CASE v = w
    BY <1>1, <2>1
  <2>2. CASE v # w
    <3>1. \A g \in Handlers : Writes(g) => req[g].u # v
      BY <1>1, <2>2 DEF Writes, Busy
    <3> QED BY <1>1, <2>2, <3>1 DEF PartInv, Whole
  <2> QED BY <2>1, <2>2
<1>2. ASSUME NEW g \in Handlers, Writes(g)'
      PROVE  (LET r == req[g] IN
              partial[r.u].data = acked[r.u] \o SubSeq(r.data, 1, r.written))'
  <2>1. req'[g] = req[g] /\ Writes(g) /\ req[g].u \in Uploads \ {w}
    BY <1>u, <1>2 DEF Writes, Busy
  <2>2. partial'[req[g].u] = partial[req[g].u] /\ acked'[req[g].u] = acked[req[g].u]
    BY <2>1
  <2>3. partial[req[g].u].data
            = acked[req[g].u] \o SubSeq(req[g].data, 1, req[g].written)
    BY <2>1 DEF PartInv
  <2> QED BY <2>1, <2>2, <2>3
<1>3. ASSUME NEW g \in Handlers, Busy(g, {"open"})'
      PROVE  req'[g].written = 0
  BY <1>3 DEF PartInv, Busy
<1> QED BY <1>1, <1>2, <1>3 DEF PartInv

LEMMA StepDataInv ==
    TypeInv /\ SessionInv /\ FileInv /\ DataInv /\ [Next]_vars /\ [~Interrupted]_vars
        => DataInv'
PROOF
<1> SUFFICES ASSUME TypeInv, SessionInv, FileInv, DataInv, [Next]_vars,
                    [~Interrupted]_vars
             PROVE  DataInv'
  OBVIOUS
<1>t. TypeOK
  BY DEF TypeInv
<1>p. LockInv /\ ChunkInv /\ CountInv /\ FreshInv /\ CompleteInv /\ IdInv
  BY DEF SessionInv
<1>f. HeldInv /\ PartAgeInv
  BY DEF FileInv
<1>d. PartInv /\ BlobInv /\ KeepInv
  BY DEF DataInv
<1>u. \A g \in Handlers : req[g].pc # "idle" => req[g].u \in Uploads
  BY DEF TypeInv, ReqsOK, ReqOK
<1>i. \A g \in Handlers : req[g].pc \in {"replace", "insert"} => req[g].id \in FileIds
  BY DEF TypeInv, ReqsOK, ReqOK
<1>r. \A g \in Handlers : req[g] \in RequestType
  BY DEF TypeInv, ReqsOK
<1>a. acked \in [Uploads -> Seq(Piece)] /\ late \in [Uploads -> Nat]
      /\ partial \in [Uploads -> File \cup {None}]
      /\ blob \in [FileIds -> File \cup {None}] /\ files \in [FileIds -> FileRow \cup {None}]
  BY <1>t DEF TypeOK
<1>n. None \notin Uploads
  BY NamesAreDistinct
\* One chunk request at a time has its file open.
<1>o. \A g, k \in Handlers :
          Busy(g, {"open", "append"}) /\ Busy(k, {"open", "append"}) => g = k
  BY <1>p DEF LockInv
<1> USE DEF Busy, Writes, At, Moves, Leaves, Others, Rows, Published, tables, disk,
        Unchanged
<1>1. ASSUME NEW h \in Handlers, NEW u \in Uploads, InitStart(h, u)
      PROVE  DataInv'
  <2>1. /\ Others(h) /\ req[h].pc = "idle" /\ req'[h].pc = "init_insert"
    BY <1>1 DEF InitStart, Arrives, Idle, TypeInv, ReqsOK
  <2>2. /\ Unchanged(u) /\ partial'[u].data = <<>> /\ partial'[u] # None
        /\ UNCHANGED <<pending_uploads, cleaner, acked, late, files, blob>>
        /\ u \notin issued
    BY <1>a, <1>1, EmptySeq, FileIsThere DEF InitStart
  <2>3. acked[u] = <<>> /\ \A g \in Handlers : req[g].u # u
    BY <1>p, <2>2 DEF FreshInv
  <2>4. PartInv'
    BY <1>d, <2>1, <2>2, <2>3, PartsKept DEF Whole
  <2>5. BlobInv'
    BY <1>d, <2>1, <2>2 DEF BlobInv, Whole
  <2>6. KeepInv'
    BY <1>d, <2>2 DEF KeepInv
  <2> QED BY <2>4, <2>5, <2>6 DEF DataInv
<1>2. ASSUME NEW h \in Handlers, InitInsert(h)
      PROVE  DataInv'
  <2>1. /\ Leaves(h) /\ req[h].pc = "init_insert" /\ req[h].u \in Uploads
        /\ UNCHANGED <<partial, blob, files, cleaner, acked, late>>
    BY <1>2, <1>u, RespondLeaves DEF InitInsert
  <2>2. partial[req[h].u] # None
    BY <1>f, <2>1 DEF PartAgeInv
  <2>3. \A v \in Rows' : v \in Rows \/ v = req[h].u
    BY <1>t, <1>2, <2>1 DEF InitInsert, TypeOK
  <2>4. PartInv'
    BY <1>d, <1>n, <1>u, <2>1, PartsKept
  <2>5. BlobInv'
    BY <1>d, <2>1 DEF BlobInv, Whole
  <2>6. KeepInv'
    BY <1>d, <2>1, <2>2, <2>3 DEF KeepInv
  <2> QED BY <2>4, <2>5, <2>6 DEF DataInv
\* A request that has its file open changes that file alone.
<1>3. ASSUME NEW h \in Handlers, NEW w \in Uploads, w = req[h].u,
             Busy(h, {"open", "append"}), Unchanged(w), Others(h),
             UNCHANGED <<pending_uploads, blob, files, cleaner, acked>>,
             \A v \in Uploads \ {w} : late'[v] = late[v],
             late'[w] = late[w] \/ late'[w] > 0,
             ~Busy(h, {"open", "insert"})',
             Writes(h)' => req'[h].u = w /\ partial'[w].data =
                 acked[w] \o SubSeq(req'[h].data, 1, req'[h].written),
             ~Writes(h)' /\ partial'[w] # None => Whole(w, partial[w].data)',
             partial[w] # None => partial'[w] # None
      PROVE  DataInv'
  <2>1. \A g \in Handlers \ {h} : ~Busy(g, {"open", "append"})
                                  /\ ~Busy(g, {"open", "append"})'
    BY <1>o, <1>3
  <2>2. PartInv'
    <3>1. ASSUME NEW v \in Uploads, partial'[v] # None,
                 \A g \in Handlers : Writes(g)' => req'[g].u # v
          PROVE  Whole(v, partial[v].data)'
      <4>1. CASE v = w
        BY <1>3, <3>1, <4>1
      <4>2. CASE v # w
        BY <1>d, <1>3, <2>1, <3>1, <4>2 DEF PartInv, Whole
      <4> QED BY <4>1, <4>2
    <3>2. ASSUME NEW g \in Handlers, Writes(g)'
          PROVE  (LET r == req[g] IN
                  partial[r.u].data = acked[r.u] \o SubSeq(r.data, 1, r.written))'
      BY <1>3, <2>1, <3>2
    <3>3. \A g \in Handlers : Busy(g, {"open"})' => req'[g].written = 0
      BY <1>3, <2>1
    <3> QED BY <3>1, <3>2, <3>3 DEF PartInv
  <2>3. BlobInv'
    <3>1. \A g \in Handlers : Busy(g, {"insert"})' =>
              req'[g] = req[g] /\ Busy(g, {"insert"}) /\ req[g].u \in Uploads
      BY <1>3, <1>u
    <3>2. ASSUME NEW v \in Uploads, NEW data, Whole(v, data) PROVE Whole(v, data)'
      BY <1>3, <3>2 DEF Whole
    <3>3. \A id \in Published : files[id].upload \in Uploads
      BY <1>a DEF FileRow
    <3> QED BY <1>d, <1>3, <3>1, <3>2, <3>3 DEF BlobInv
  <2>4. KeepInv'
    BY <1>d, <1>3 DEF KeepInv
  <2> QED BY <2>2, <2>3, <2>4 DEF DataInv
<1>4. ASSUME NEW h \in Handlers, ChunkOpen(h)
      PROVE  DataInv'
  <2>1. PICK w \in Uploads : w = req[h].u
    BY <1>u, <1>4 DEF ChunkOpen
  <2>2. /\ Moves(h, "append") /\ req'[h].written = req[h].written /\ req[h].pc = "open"
        /\ UNCHANGED <<pending_uploads, blob, files, cleaner, acked>>
    BY <1>4, GoToMoves DEF ChunkOpen
  <2>3. w \in Rows /\ req[h].base = Len(acked[w]) /\ req[h].base <= Expected
        /\ req[h].base \in Nat
    BY <1>p, <1>r, <2>1, <2>2, WriterCounts, BodiesAreArbitrary
       DEF TypeInv, ReqsOK, ReqOK, RequestType
  <2>4. cleaner.reaped = {}
    BY <1>p, <2>2, NamesAreDistinct DEF LockInv
  <2>5. /\ \A v \in Uploads \ {w} : late'[v] = late[v]
        /\ late'[w] = IF Remakes(req[h]) THEN late[w] + 1 ELSE late[w]
    BY <1>a, <1>4, <2>1 DEF ChunkOpen
  <2>6. /\ Unchanged(w) /\ partial'[w] # None
        /\ partial[w] # None => partial'[w] = partial[w]
        /\ partial[w] = None => partial'[w].data = <<>>
    BY <1>4, <2>1, OpenTouches
  <2>7. partial[w] # None => Whole(w, partial[w].data)
    BY <1>d, <1>o, <2>1, <2>2 DEF PartInv
  <2>8. req'[h].pc = "append" /\ req'[h].u = w /\ Others(h) /\ req'[h].base = req[h].base
    BY <2>1, <2>2
  <2>9. CASE req[h].base = Expected
    <3>1. ~Writes(h)'
      BY <2>8, <2>9, BodiesAreArbitrary
    <3>2. Whole(w, partial[w].data)'
      <4>1. CASE partial[w] # None
        BY <1>a, <2>1, <2>2, <2>5, <2>6, <2>7, <4>1 DEF Whole, Remakes
      <4>2. CASE partial[w] = None
        BY <1>a, <2>1, <2>5, <2>6, <2>9, <4>2 DEF Whole, Blank, Remakes
      <4> QED BY <4>1, <4>2
    <3>3. late'[w] = late[w] \/ late'[w] > 0
      BY <1>a, <2>5
    <3> QED BY <1>3, <2>1, <2>2, <2>5, <2>6, <2>8, <3>1, <3>2, <3>3
  <2>10. CASE req[h].base # Expected
    <3>1. partial[w] # None
      BY <1>d, <2>3, <2>4, <2>10 DEF KeepInv
    <3>2. late[w] = 0 /\ late'[w] = late[w]
      BY <1>a, <1>p, <2>1, <2>3, <2>5, <2>10 DEF CountInv, Remakes
    <3>3. partial[w].data = acked[w]
      BY <2>7, <3>1, <3>2 DEF Whole
    <3>4. req'[h].written = 0
      BY <1>d, <2>2 DEF PartInv
    <3>5. acked[w] = acked[w] \o SubSeq(req'[h].data, 1, req'[h].written)
      BY <1>a, <3>4, SubSeqEmpty, ConcatEmptySeq
    <3>6. partial'[w].data = acked[w] \o SubSeq(req'[h].data, 1, req'[h].written)
      BY <2>6, <3>1, <3>3, <3>5
    <3>7. Writes(h)'
      BY <2>3, <2>8, <2>10, BodiesAreArbitrary
    <3> QED BY <1>3, <2>1, <2>2, <2>5, <2>6, <2>8, <3>2, <3>6, <3>7
  <2> QED BY <2>9, <2>10
<1>5. ASSUME NEW h \in Handlers, ChunkAppend(h)
      PROVE  DataInv'
  <2>1. PICK w \in Uploads : w = req[h].u
    BY <1>u, <1>5 DEF ChunkAppend
  <2>2. PICK n \in 1 .. Len(req[h].data) : n = req[h].written + 1
    BY <1>5, <1>f, AppendTouches, AppendWrites DEF HeldInv
  <2>3. /\ Moves(h, "append") /\ req'[h].written = n /\ req[h].pc = "append"
        /\ req[h].written = n - 1 /\ Writes(h)
        /\ UNCHANGED <<pending_uploads, blob, files, cleaner, acked, late>>
    <3>1. req[h].written \in Nat
      BY <1>r DEF RequestType
    <3>2. Moves(h, "append") /\ req'[h].written = n
      BY <1>5, <2>2, AppendMoves
    <3>3. req[h].written = n - 1
      BY <2>2, <3>1
    <3> QED BY <1>5, <3>2, <3>3, AppendWrites DEF ChunkAppend
  <2>4. partial[w] # None
    BY <1>f, <2>1, <2>3 DEF HeldInv
  <2>5. /\ Unchanged(w) /\ partial'[w] # None /\ req[h].data \in Seq(Piece)
        /\ partial'[w].data = Append(partial[w].data, req[h].data[n])
    BY <1>5, <2>1, <2>2, <2>4, AppendTouches
  <2>6. partial[w].data = acked[w] \o SubSeq(req[h].data, 1, n - 1)
    BY <1>d, <2>1, <2>3 DEF PartInv
  <2>7. partial'[w].data = acked[w] \o SubSeq(req[h].data, 1, n)
    <3>1. acked[w] \in Seq(Piece)
      BY <1>a
    <3>2. Append(acked[w] \o SubSeq(req[h].data, 1, n - 1), req[h].data[n])
              = acked[w] \o SubSeq(req[h].data, 1, n)
      BY <2>5, <3>1, OnePieceMore
    <3> QED BY <2>5, <2>6, <3>2
  <2>8. partial'[w].data = acked[w] \o SubSeq(req'[h].data, 1, req'[h].written)
    BY <2>3, <2>7
  <2>9. req'[h].pc = "append" /\ req'[h].u = w /\ Others(h) /\ Writes(h)'
    BY <2>1, <2>3
  <2> QED BY <1>3, <2>1, <2>3, <2>4, <2>5, <2>8, <2>9
<1>6. ASSUME NEW h \in Handlers, ChunkRefused(h)
      PROVE  DataInv'
  <2>1. PICK w \in Uploads : w = req[h].u
    BY <1>u, <1>6 DEF ChunkRefused
  <2>2. /\ Leaves(h) /\ Busy(h, {"open", "append"})
        /\ UNCHANGED <<pending_uploads, blob, files, cleaner, acked, late>>
    BY <1>6, RespondLeaves DEF ChunkRefused
  <2>3. /\ Unchanged(w) /\ (partial[w] = None <=> partial'[w] = None)
        /\ partial[w] # None => partial'[w].data = Resize(partial[w].data, req[h].base)
    BY <1>6, <2>1, RefusalTouches
  <2>4. req[h].base = Len(acked[w])
    BY <1>p, <2>1, <2>2 DEF ChunkInv, CountInv
  <2>5. acked[w] \in Seq(Piece \cup {Zero})
    BY <1>a, SeqMonotonic
\* The chunk wrote: what it wrote is cut off.
  <2>6. CASE Writes(h)
    <3> DEFINE t == SubSeq(req[h].data, 1, req[h].written)
    <3>1. partial[w].data = acked[w] \o t
      BY <1>d, <2>1, <2>6 DEF PartInv
    <3>2. t \in Seq(Piece \cup {Zero})
      <4>1. req[h].data \in Seq(Piece) /\ req[h].written \in Nat
            /\ req[h].written <= Len(req[h].data)
        BY <1>r, <2>6 DEF RequestType, TypeInv, ReqsOK, ReqOK
      <4>2. \A k \in 1 .. req[h].written : req[h].data[k] \in Piece
        BY <4>1, ElementOfSeq, LenProperties
      <4>3. t \in Seq(Piece)
        BY <4>1, <4>2, SubSeqProperties
      <4> QED BY <4>3, SeqMonotonic
    <3> HIDE DEF t
    <3>3. partial[w] # None => partial'[w].data = acked[w]
      BY <2>3, <2>4, <2>5, <3>1, <3>2, CutBack
    <3> QED BY <1>3, <2>1, <2>2, <2>3, <3>3 DEF Whole
\* It wrote nothing: the file is cut to its length, or the blank one filled up.
  <2>7. CASE ~Writes(h)
    <3>1. \A g \in Handlers : Writes(g) => req[g].u # w
      BY <1>o, <2>2, <2>7
    <3>2. partial[w] # None => Whole(w, partial[w].data)
      BY <1>d, <3>1 DEF PartInv
    <3>3. partial[w] # None => Whole(w, partial'[w].data)
      <4>1. ASSUME partial[w] # None, partial[w].data = acked[w]
            PROVE  partial'[w].data = acked[w]
        BY <2>3, <2>4, <2>5, <4>1, CutToLength
      <4>2. ASSUME partial[w] # None, late[w] > 0, partial[w].data \in Blank
            PROVE  partial'[w].data \in Blank
        <5>1. req[h].base = Expected
          BY <1>p, <2>4, <4>2 DEF CountInv
        <5> QED BY <2>3, <4>2, <5>1, BlankStaysBlank
      <4> QED BY <3>2, <4>1, <4>2 DEF Whole
    <3> QED BY <1>3, <2>1, <2>2, <2>3, <3>3 DEF Whole
  <2> QED BY <2>6, <2>7
<1>7. ASSUME NEW h \in Handlers, ChunkCommit(h)
      PROVE  DataInv'
  <2>1. PICK w \in Uploads : w = req[h].u
    BY <1>u, <1>7 DEF ChunkCommit
  <2>2. /\ Leaves(h) /\ req[h].pc = "append" /\ req[h].written = Len(req[h].data)
        /\ UNCHANGED <<partial, blob, files, cleaner, late>>
        /\ acked' = [acked EXCEPT ![w] = acked[w] \o req[h].data]
    BY <1>7, <2>1, RespondLeaves DEF ChunkCommit
  <2>3. w \in Rows /\ req[h].base = Len(acked[w]) /\ req[h].base \in Nat
        /\ req[h].base + req[h].written <= Expected
    BY <1>p, <1>r, <2>1, <2>2, WriterCounts DEF TypeInv, ReqsOK, ReqOK, RequestType
  <2>4. req[h].base # Expected => Writes(h)
    <3>1. req[h].written \in Nat /\ req[h].base \in Nat /\ Expected \in Nat
      BY <1>r, BodiesAreArbitrary DEF RequestType
    <3>2. req[h].base <= Expected
      BY <2>3, <3>1
    <3> QED BY <2>2, <3>1, <3>2 DEF Writes, Busy
  <2>e. \A v \in Uploads : Len(acked[v]) = Expected => acked'[v] = acked[v]
    <3>1. ASSUME Len(acked[w]) = Expected PROVE acked'[w] = acked[w]
      <4>1. req[h].data \in Seq(Piece)
        BY <1>r DEF RequestType
      <4>2. req[h].data = <<>>
        BY <2>2, <2>3, <3>1, <4>1, BodiesAreArbitrary, EmptySeq, LenProperties
      <4> QED BY <1>a, <2>2, <4>2, ConcatEmptySeq
    <3> QED BY <1>a, <2>2, <3>1
  <2>5. partial[w] # None => Whole(w, partial[w].data)'
    <3>1. CASE Writes(h)
      <4>1. partial[w].data = acked[w] \o SubSeq(req[h].data, 1, Len(req[h].data))
        BY <1>d, <2>1, <2>2, <3>1 DEF PartInv
      <4>2. SubSeq(req[h].data, 1, Len(req[h].data)) = req[h].data
        BY <1>r, SubSeqFull DEF RequestType
      <4> QED BY <1>a, <2>2, <4>1, <4>2 DEF Whole
    <3>2. CASE ~Writes(h)
      <4>1. \A g \in Handlers : Writes(g) => req[g].u # w
        BY <1>o, <2>2, <3>2
      <4>2. acked'[w] = acked[w]
        BY <2>3, <2>4, <2>e, <3>2
      <4> QED BY <1>d, <2>2, <4>1, <4>2 DEF PartInv, Whole
    <3> QED BY <3>1, <3>2
  <2>6. \A v \in Uploads \ {w} : acked'[v] = acked[v]
    BY <1>a, <2>2
  <2>7. \A g \in Handlers \ {h} : ~Busy(g, {"open", "append"})
    BY <1>o, <2>2
  <2>8. PartInv'
    BY <1>d, <2>1, <2>2, <2>5, <2>6, <2>7, PartsKept
  <2>9. BlobInv'
    <3>1. \A g \in Handlers : Busy(g, {"insert"}) =>
              req[g].u \in Uploads /\ acked'[req[g].u] = acked[req[g].u]
      BY <1>p, <1>u, <2>e DEF CompleteInv
    <3>2. \A id \in Published : files[id].upload \in Uploads
              /\ acked'[files[id].upload] = acked[files[id].upload]
      BY <1>p, <1>a, <2>e DEF CompleteInv, FileRow
    <3> QED BY <1>d, <2>2, <3>1, <3>2 DEF BlobInv, Whole
  <2>10. KeepInv'
    <3>1. Rows' \subseteq Rows
      BY <1>t, <1>7, <2>1, <2>3 DEF ChunkCommit, Progress, TypeOK
    <3>2. Len(acked'[w]) # Expected => partial[w] # None
      BY <1>f, <2>1, <2>3, <2>4, <2>e DEF HeldInv
    <3> QED BY <1>d, <2>2, <2>6, <3>1, <3>2 DEF KeepInv
  <2> QED BY <2>8, <2>9, <2>10 DEF DataInv
<1>8. ASSUME NEW h \in Handlers, NEW id \in FileIds, FinishAllocate(h, id)
      PROVE  DataInv'
  <2>1. /\ Moves(h, "replace") /\ files[id] = None
        /\ \A g \in Handlers : req[g].id # id
        /\ \A j \in FileIds \ {id} : blob'[j] = blob[j]
        /\ req[h].pc = "allocate"
        /\ UNCHANGED <<pending_uploads, partial, files, cleaner, acked, late>>
    BY <1>a, <1>8, AllocateMoves DEF FinishAllocate
  <2>2. PartInv'
    BY <1>d, <1>n, <1>u, <2>1, PartsKept
  <2>3. BlobInv'
    BY <1>d, <1>i, <2>1 DEF BlobInv, Whole
  <2>4. KeepInv'
    BY <1>d, <2>1 DEF KeepInv
  <2> QED BY <2>2, <2>3, <2>4 DEF DataInv
<1>9. ASSUME NEW h \in Handlers, FinishReplace(h)
      PROVE  DataInv'
  <2>1. PICK w \in Uploads, id \in FileIds : w = req[h].u /\ id = req[h].id
    BY <1>u, <1>i, <1>9 DEF FinishReplace
  <2>2. /\ Moves(h, "insert") /\ req'[h].id = id /\ req[h].pc = "replace"
        /\ partial[w] # None
        /\ Unchanged(w) /\ partial'[w] = None /\ blob'[id] = partial[w]
        /\ \A j \in FileIds \ {id} : blob'[j] = blob[j]
        /\ UNCHANGED <<pending_uploads, files, cleaner, acked, late>>
    BY <1>a, <1>9, <2>1, ReplaceMoves DEF FinishReplace, Remove
  <2>3. Len(acked[w]) = Expected
    BY <1>p, <2>1, <2>2 DEF CompleteInv
  <2>4. \A g \in Handlers : Writes(g) => req[g].u # w
    BY <1>p, <2>3, WriterCounts
  <2>5. Whole(w, partial[w].data)
    BY <1>d, <2>2, <2>4 DEF PartInv
  <2>6. PartInv'
    BY <1>d, <2>2, <2>4, PartsKept
  <2>7. BlobInv'
    <3>1. id \notin Published
      BY <1>p, <2>1, <2>2 DEF IdInv
    <3>2. \A g \in Handlers \ {h} : Busy(g, {"insert"}) =>
              req[g].id # id /\ req[g].id \in FileIds
      BY <1>p, <1>i, <2>1, <2>2 DEF IdInv
    <3> QED BY <1>d, <2>1, <2>2, <2>5, <3>1, <3>2 DEF BlobInv, Whole
  <2>8. KeepInv'
    BY <1>d, <2>2, <2>3 DEF KeepInv
  <2> QED BY <2>6, <2>7, <2>8 DEF DataInv
<1>10. ASSUME NEW h \in Handlers, FinishInsert(h)
       PROVE  DataInv'
  <2>1. PICK w \in Uploads, id \in FileIds : w = req[h].u /\ id = req[h].id
    BY <1>u, <1>i, <1>10 DEF FinishInsert
  <2>2. /\ Moves(h, "record") /\ req[h].pc = "insert"
        /\ files'[id].upload = w
        /\ \A j \in FileIds \ {id} : files'[j] = files[j]
        /\ Rows' \subseteq Rows
        /\ UNCHANGED <<partial, blob, cleaner, acked, late>>
    BY <1>t, <1>10, <2>1, GoToMoves DEF FinishInsert, TypeOK
  <2>3. PartInv'
    BY <1>d, <2>2 DEF PartInv, Whole
  <2>4. BlobInv'
    BY <1>d, <2>1, <2>2 DEF BlobInv, Whole
  <2>5. KeepInv'
    BY <1>d, <2>2 DEF KeepInv
  <2> QED BY <2>3, <2>4, <2>5 DEF DataInv
<1>11. CASE UNCHANGED vars
  BY <1>11, FadingKeeps DEF Fades, vars
<1>12. CASE Tick
  BY <1>12, FadingKeeps DEF Fades, Tick
<1>13. CASE ~Interrupted /\ (Clean \/ CleanerCrash)
  BY <1>13, CleanFades, FadingKeeps
<1>14. ASSUME NEW h \in Handlers, Request(h) \/ Handle(h) \/ Crash(h), ~Interrupted
       PROVE  DataInv'
  <2>1. CASE Request(h)
    BY <1>1, <1>14, <2>1, RequestFades, FadingKeeps DEF Request
  <2>2. CASE Crash(h)
    BY <1>14, <2>2, RequestFades, FadingKeeps
  <2>3. CASE Handle(h)
    BY <1>2, <1>4, <1>5, <1>6, <1>7, <1>8, <1>9, <1>10, <1>14, <2>3, RequestFades,
       FadingKeeps DEF Handle
  <2> QED BY <1>14, <2>1, <2>2, <2>3
<1> QED BY <1>11, <1>12, <1>13, <1>14 DEF Next

LEMMA Uninterrupted == Spec /\ [][~Interrupted]_vars => [](SessionInv /\ DataInv)
PROOF
  BY InitTypeInv, StepTypeInv, InitSessionInv, StepSessionInv, InitFileInv,
     StepFileInv, InitDataInv, StepDataInv, PTL DEF Spec

LEMMA DataIsAcked ==
    /\ SessionInv /\ DataInv => NoDrift
    /\ SessionInv /\ DataInv => PublishedIsAcked
PROOF
<1>1. ASSUME SessionInv, DataInv, NEW u \in Rows, lock = None, partial[u] # None
      PROVE  \/ Len(partial[u].data) = pending_uploads[u].bytes
             \/ /\ late[u] > 0 /\ Complete(pending_uploads[u])
                /\ partial[u].data = <<>>
  <2>1. u \in Uploads /\ \A h \in Handlers : ~Writes(h)
    BY <1>1, NamesAreDistinct DEF SessionInv, LockInv, Writes, Busy, Rows
  <2>2. Whole(u, partial[u].data)
    BY <1>1, <2>1 DEF DataInv, PartInv
  <2>3. /\ pending_uploads[u].bytes = Len(acked[u])
        /\ late[u] > 0 => Len(acked[u]) = Expected
    BY <1>1, <2>1 DEF SessionInv, CountInv
  <2>4. Len(Resize(<<>>, Expected)) = Expected
    BY EmptySeq, ResizeType, BodiesAreArbitrary
  <2> QED BY <2>2, <2>3, <2>4 DEF Whole, Blank, Complete
<1>2. ASSUME SessionInv, DataInv
      PROVE  PublishedIsAcked
  BY <1>2 DEF SessionInv, CompleteInv, DataInv, BlobInv, Whole, PublishedIsAcked
<1> QED BY <1>1, <1>2 DEF NoDrift

\* files.py:295-296, 308, 352-366: as long as no fault strikes between an append and
\* its COMMIT, a .part file is between requests as long as bytes_received says,
\* whatever else crashes, is refused, retried or reaped; but for the empty file a
\* chunk leaves that came after the last byte and after a finish's rename.
THEOREM LengthsAgree == Spec /\ [][~Interrupted]_vars => []NoDrift
PROOF BY Uninterrupted, DataIsAcked, PTL

\* files.py:279-434: under the same condition a published blob is what its session
\* acknowledged, all of it and in order, however many finish requests race and
\* whatever the sweep and the reaping do meanwhile; or, of a session whose .part file
\* a late chunk made anew, nothing or as many zero bytes.
THEOREM WhatIsServed == Spec /\ [][~Interrupted]_vars => []PublishedIsAcked
PROOF BY Uninterrupted, DataIsAcked, PTL

\* Without crashes and database failures, the condition holds of itself.
THEOREM FaultlessDisk ==
    ASSUME Faults = {}
    PROVE  Spec => [](NoDrift /\ PublishedIsAcked)
PROOF
<1>1. ~Interrupted
  BY DEF Interrupted, ChunkDbFails, Crash, CleanFails, CleanerCrash, Strikes, DbRaises
<1>2. [~Interrupted]_vars
  BY <1>1
<1> QED BY <1>2, LengthsAgree, WhatIsServed, PTL
=============================================================================
