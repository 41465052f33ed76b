------------------------ MODULE UploadSessionInvariant ------------------------
(***************************************************************************)
(* Why UploadSession is safe: the inductive invariant behind its safety    *)
(* properties, as named parts.  SessionInv and FileInv hold whatever       *)
(* fails; DataInv needs that no fault strikes between an effect on the     *)
(* disk and its COMMIT.                                                    *)
(***************************************************************************)
EXTENDS UploadSession

Busy(h, pcs) == req[h].pc \in pcs

\* A chunk request holds the write lock from BEGIN IMMEDIATE on, and a cleanup
\* pass from its first DELETE to its commit; nobody else ever does.
LockInv ==
    /\ \A h \in Handlers : Busy(h, {"open", "append"}) <=> lock = h
    /\ cleaner.pc = "reap" <=> lock = Cleaner
    /\ cleaner.pc # "reap" => cleaner.reaped = {}

\* Under the lock the row a chunk request read stays the row in the table.
ChunkInv ==
    \A h \in Handlers : Busy(h, {"open", "append"}) =>
        LET r == req[h] IN
        /\ r.u \in Rows
        /\ pending_uploads[r.u].next = r.idx /\ pending_uploads[r.u].bytes = r.base
        /\ r.data \in Payloads[r.idx]

\* bytes_received counts what was acknowledged; the chunks that come late come
\* when that is everything.
CountInv ==
    /\ \A u \in Rows :
           /\ pending_uploads[u].bytes = Len(acked[u])
           /\ pending_uploads[u].next <= LastChunk + 1
    /\ \A u \in Uploads : late[u] > 0 => Len(acked[u]) = Expected

\* Nothing knows of an upload id before it is drawn, and until its row is
\* committed only the init request that drew it does.
FreshInv ==
    /\ \A u \in Uploads \ issued :
           /\ u \notin Rows /\ partial[u] = None /\ acked[u] = <<>> /\ late[u] = 0
           /\ \A h \in Handlers : req[h].u # u
           /\ \A id \in Published : files[id].upload # u
    /\ \A h \in Handlers : Busy(h, {"init_insert"}) =>
           /\ req[h].u \notin Rows /\ acked[req[h].u] = <<>> /\ late[req[h].u] = 0
           /\ \A g \in Handlers \ {h} : req[g].u # req[h].u
           /\ \A id \in Published : files[id].upload # req[h].u

\* A finish gets past its size check, and a file is published, only complete;
\* the row goes when the file is published.
CompleteInv ==
    /\ \A h \in Handlers : Busy(h, {"exists", "allocate", "replace", "insert"}) =>
           Len(acked[req[h].u]) = Expected
    /\ \A id \in Published :
           Len(acked[files[id].upload]) = Expected /\ files[id].upload \notin Rows

\* An id belongs to one finish until it has a row.
IdInv ==
    \A h \in Handlers : Busy(h, {"replace", "insert"}) =>
        /\ req[h].id \notin Published
        /\ \A g \in Handlers \ {h} : Busy(g, {"replace", "insert"}) =>
               req[g].id # req[h].id

\* The copies of a session that were published or are about to be.
Copies(u) == {id \in FileIds :
    \/ id \in Published /\ files[id].upload = u
    \/ \E h \in Handlers : Busy(h, {"insert"}) /\ req[h].u = u /\ req[h].id = id}

\* Each copy took a .part file of its own, and there was one of those, and one
\* more for each late chunk that made it anew.
Once(u) ==
    /\ IsFiniteSet(Copies(u))
    /\ Cardinality(Copies(u)) + (IF partial[u] = None THEN 0 ELSE 1) <= 1 + late[u]

OnceInv == \A u \in Uploads : Once(u)

\* Ages: a request is younger than the grace period, the cleaner's time is
\* never ahead, and what its snapshot of the files table misses came later.
AgeInv ==
    /\ cleaner.now <= clock
    /\ \A h \in Handlers : ~Busy(h, {"idle"}) =>
           req[h].since <= clock /\ clock < req[h].since + Grace
    /\ \A h \in Handlers : Busy(h, {"insert"}) =>
           IF blob[req[h].id] = None THEN req[h].mtime + Grace <= clock
           ELSE blob[req[h].id].mtime = req[h].mtime
    /\ \A id \in Published :
           /\ blob[id] # None => blob[id].mtime = files[id].mtime
           /\ cleaner.pc = "blobs" /\ id \notin cleaner.known =>
                  cleaner.now <= files[id].inserted
    /\ SweepSparesPrompt

SessionInv ==
    /\ LockInv /\ ChunkInv /\ CountInv /\ FreshInv /\ CompleteInv /\ IdInv
    /\ OnceInv /\ AgeInv

\* A chunk request that has its file open and that the session's last byte had not
\* come before: only such a one writes.
Writes(h) == Busy(h, {"append"}) /\ req[h].base < Expected

\* A chunk request that opened its file to write has it.  A discarded session has no row
\* any more when its file is unlinked; the sessions a pass is about to reap have.
HeldInv ==
    /\ \A h \in Handlers : Writes(h) => partial[req[h].u] # None
    /\ \A h \in Handlers : Busy(h, {"unlink"}) => req[h].u \notin Rows
    /\ cleaner.pc = "reap" => cleaner.todo \subseteq Rows

\* A .part file with a row is too young for the sweep whenever the sweep's
\* snapshot misses its row.
PartAgeInv ==
    /\ \A u \in Uploads : partial[u] # None =>
           /\ partial[u].mtime <= clock
           /\ u \in Rows => pending_uploads[u].created < partial[u].mtime + Grace
    /\ \A u \in Rows :
           /\ pending_uploads[u].created <= clock
           /\ cleaner.pc = "parts" /\ u \notin cleaner.known =>
                  cleaner.now <= pending_uploads[u].created
    /\ \A h \in Handlers : Busy(h, {"init_insert"}) =>
           partial[req[h].u] # None /\ req[h].since <= partial[req[h].u].mtime

FileInv == HeldInv /\ PartAgeInv

\* What a pass is about to unlink or has unlinked is older than the time-to-live.
StaleInv ==
    cleaner.pc = "reap" =>
        \A u \in (cleaner.todo \cup cleaner.reaped) \cap Rows :
            Stale(pending_uploads[u], cleaner.now)

-----------------------------------------------------------------------------
(* What is in the files, as long as nothing is interrupted.                *)

\* A fault strikes after an effect on the disk and before its COMMIT.
Interrupted ==
    \/ \E h \in Handlers : At(h, "append") /\ (ChunkDbFails(h) \/ Crash(h))
    \/ cleaner.pc = "reap" /\ (CleanFails \/ CleanerCrash)

\* The session's own file, or the blank one of a late chunk.
Whole(u, data) == data = acked[u] \/ (late[u] > 0 /\ data \in Blank)

\* The disk holds what was acknowledged, plus what the chunk request that has
\* the lock wrote so far; a late chunk writes nothing.
PartInv ==
    /\ \A u \in Uploads :
           /\ partial[u] # None
           /\ \A h \in Handlers : Writes(h) => req[h].u # u
           => Whole(u, partial[u].data)
    /\ \A h \in Handlers : Writes(h) =>
           LET r == req[h] IN
           partial[r.u].data = acked[r.u] \o SubSeq(r.data, 1, r.written)
    /\ \A h \in Handlers : Busy(h, {"open"}) => req[h].written = 0

BlobInv ==
    /\ \A h \in Handlers : Busy(h, {"insert"}) /\ blob[req[h].id] # None =>
           Whole(req[h].u, blob[req[h].id].data)
    /\ \A id \in Published : blob[id] # None =>
           Whole(files[id].upload, blob[id].data)

\* The .part file of a session that still takes chunks is there until a pass
\* reaps the session.
KeepInv ==
    \A u \in Rows : Len(acked[u]) # Expected /\ u \notin cleaner.reaped =>
        partial[u] # None

DataInv == PartInv /\ BlobInv /\ KeepInv

-----------------------------------------------------------------------------
(* What it takes for a session to be what UploadContract says.             *)

\* A finish that has renamed its file is later than the grace period after the
\* last append: the sweep may take the blob before its row is there.
Late == \E h \in Handlers : At(h, "insert") /\ req[h].mtime + Grace <= clock

\* Such a finish inserts its row all the same.
PublishesLate ==
    \E h \in Handlers : FinishInsert(h) /\ req[h].mtime + Grace <= clock

\* What a pass has unlinked stays gone until it deletes the row.
ReapInv == \A u \in cleaner.reaped : u \in Rows /\ partial[u] = None

PromptInv == \A id \in Published : files[id].inserted < files[id].mtime + Grace
=============================================================================
