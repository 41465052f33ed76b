---------------------------- MODULE UploadSession ----------------------------
(***************************************************************************)
(* The chunked-upload path of shred: the three request handlers that open  *)
(* a session, append its ciphertext chunks and publish it                  *)
(* (src/shred/routes/files.py), and the cleanup thread that reaps stale    *)
(* sessions and sweeps files without a row (src/shred/cleanup.py).         *)
(*                                                                         *)
(* The state lives in two places no transaction spans: SQLite rows         *)
(* (pending_uploads, files) and plain files (partial/<upload>.part and the *)
(* published <id>.enc blob).  Every action below is one durable effect, so *)
(* handlers and cleaner interleave wherever the code lets them.            *)
(*                                                                         *)
(* File contents are sequences of pieces; a piece stands for one 64 KiB    *)
(* read of the request body.  Requests that change nothing (malformed,     *)
(* rate limited, unknown session, wrong chunk index, disk full) are the    *)
(* stuttering steps of the specification.                                  *)
(***************************************************************************)
EXTENDS Naturals, Sequences, FiniteSets

CONSTANTS
    Handlers,     \* request threads (gunicorn workers x threads)
    Uploads,      \* upload ids that secrets.token_urlsafe may draw
    FileIds,      \* public file ids that generate_id may draw
    Piece,        \* contents of one 64 KiB read
    Zero,         \* the piece a file is padded with when truncate extends it
    Payloads,     \* Payloads[i]: the bodies that may arrive as chunk i
    LastChunk,    \* bound: the last index that arrives, past the file's end or not
    Expected,     \* _expected_ciphertext_size of the declared size, in pieces
    Slot,         \* Slot[u]: its (group_id, group_index), or None
    MaxPending,   \* MAX_PENDING_UPLOADS, 0 for no ceiling
    TTL,          \* PENDING_UPLOAD_TTL
    Grace,        \* _ORPHAN_GRACE_SECONDS
    Faults,       \* the faults of this instance: a subset of {"crash", "db"}
    MaxFaults,    \* bound: how many of them strike
    MaxLate,      \* bound: how often a late chunk remakes a session's .part file
    LastRequest,  \* bound: no request starts after this time
    MaxClock,     \* bound: the clock stops here
    Cleaner,      \* the thread that runs cleanup_expired
    None          \* no row, no file, no owner

Row     == [next : Nat, bytes : Nat, created : Nat]
File    == [data : Seq(Piece \cup {Zero}), mtime : Nat]
FileRow == [upload : Uploads, mtime : Nat, inserted : Nat]

ASSUME NamesAreDistinct ==
    /\ Cleaner \notin Handlers
    /\ Cleaner # None
    /\ None \notin Handlers \cup Uploads \cup FileIds
    /\ None \notin Row
    /\ None \notin File
    /\ None \notin FileRow

\* Any client may send any body under any index; a ciphertext has a GCM tag, so
\* it is never empty.
ASSUME BodiesAreArbitrary ==
    /\ LastChunk \in Nat /\ Expected \in Nat \ {0}
    /\ Payloads \in [0 .. LastChunk -> SUBSET Seq(Piece)]

ASSUME BoundsAreNaturals ==
    /\ MaxPending \in Nat /\ TTL \in Nat /\ Grace \in Nat \ {0}
    /\ MaxFaults \in Nat /\ MaxLate \in Nat
    /\ LastRequest \in Nat /\ MaxClock \in Nat
    /\ IsFiniteSet(Handlers) /\ IsFiniteSet(Uploads)

VARIABLES
    pending_uploads,  \* [Uploads -> Row or None]: the pending_uploads table
    partial,          \* [Uploads -> File or None]: partial/<upload>.part
    blob,             \* [FileIds -> File or None]: the <id>.enc files
    files,            \* [FileIds -> FileRow or None]: the files table
    lock,             \* the holder of SQLite's write lock, or None
    req,              \* [Handlers -> Request]: what each thread is doing
    cleaner,          \* what the cleanup pass is doing
    total_uploads,    \* the kv counter behind /status
    clock,            \* int(time.time())
    issued,           \* upload ids drawn so far
    acked,            \* history: the bytes each session acknowledged
    late,             \* history: how often a chunk that came after the last byte
                      \* found no .part file and made another
    faults            \* faults left to strike

disk   == <<partial, blob>>
tables == <<pending_uploads, files>>
vars   == <<pending_uploads, partial, blob, files, lock, req, cleaner,
            total_uploads, clock, issued, acked, late, faults>>

Idle == [pc |-> "idle", u |-> None, idx |-> 0, data |-> <<>>, written |-> 0,
         base |-> 0, id |-> None, mtime |-> 0, since |-> 0]

Asleep == [pc |-> "sleep", now |-> 0, todo |-> {}, reaped |-> {}, known |-> {}]

Rows      == {u \in Uploads : pending_uploads[u] # None}
Published == {id \in FileIds : files[id] # None}

Init ==
    /\ pending_uploads = [u \in Uploads |-> None]
    /\ partial = [u \in Uploads |-> None]
    /\ blob  = [id \in FileIds |-> None]
    /\ files = [id \in FileIds |-> None]
    /\ lock = None
    /\ req = [h \in Handlers |-> Idle]
    /\ cleaner = Asleep
    /\ total_uploads = 0
    /\ clock = 0
    /\ issued = {}
    /\ acked = [u \in Uploads |-> <<>>]
    /\ late = [u \in Uploads |-> 0]
    /\ faults = MaxFaults

-----------------------------------------------------------------------------
(* What the handlers are built from.                                       *)

\* truncate(n): cut, or pad with zero bytes
Resize(data, n) == [i \in 1 .. n |-> IF i <= Len(data) THEN data[i] ELSE Zero]

\* Mutant: a refused chunk leaves what it wrote.
TruncateNothing(u, n) == UNCHANGED partial

TruncateBack(u, n) ==
    partial' = [partial EXCEPT ![u] =
        IF @ = None THEN None ELSE [data |-> Resize(@.data, n), mtime |-> clock]]

\* Mutant: open(path, "wb").
OpenForWriting(u) ==
    partial' = [partial EXCEPT ![u] = [data |-> <<>>, mtime |-> clock]]

\* open(path, "ab"): an existing file is untouched, a missing one is created
OpenForAppend(u) ==
    partial' = [partial EXCEPT ![u] =
        IF @ = None THEN [data |-> <<>>, mtime |-> clock] ELSE @]

WriteAtEnd(u, piece) ==
    partial' = [partial EXCEPT ![u] =
        IF @ = None THEN None ELSE [data |-> Append(@.data, piece), mtime |-> clock]]

Remove(u)  == partial' = [partial EXCEPT ![u] = None]
RemoveBlob(id) == blob' = [blob EXCEPT ![id] = None]

\* Mutant: the size check ignores the read it is about to write.
FitsOneTooMany(r) == r.base + r.written <= Expected

\* The next 64 KiB read still fits under the declared size.
Fits(r) == r.base + r.written + 1 <= Expected

\* The row found equals the size implied by the declared plaintext.
Complete(row) == row.bytes = Expected

\* Mutant: the comparison of ages the wrong way round.
StaleWhenYoung(row, now) == now < row.created + TTL

Stale(row, now) == row.created + TTL < now

\* Mutants: no grace period, one second short, the wrong way round.
OlderThanNothing(file, now) == TRUE
OlderThanGraceLessOne(file, now) == file.mtime + Grace <= now + 1
YoungerThanGrace(file, now) == now < file.mtime + Grace

OlderThanGrace(file, now) == file.mtime + Grace <= now

SlotTaken(u) ==
    Slot[u] # None /\ \E id \in Published : Slot[files[id].upload] = Slot[u]

At(h, pc) == req[h].pc = pc
GoTo(h, pc) == req' = [req EXCEPT ![h].pc = pc]
Respond(h) == req' = [req EXCEPT ![h] = Idle]

\* A write statement waits for the lock up to busy_timeout, then raises.
Free == lock = None
Strikes(fault) == fault \in Faults /\ faults > 0 /\ faults' = faults - 1
DbRaises == (lock # None /\ UNCHANGED faults) \/ Strikes("db")

Arrives(h) == At(h, "idle") /\ clock <= LastRequest

-----------------------------------------------------------------------------
(* POST /api/upload/init                                                   *)

Admitted == MaxPending = 0 \/ Cardinality(Rows) < MaxPending

\* The COUNT passes (or raises, which counts as zero) and the .part file is
\* created; the row comes later.
InitStart(h, u) ==
    /\ Arrives(h) /\ u \notin issued
    /\ (Admitted /\ UNCHANGED faults) \/ Strikes("db")
    /\ partial' = [partial EXCEPT ![u] = [data |-> <<>>, mtime |-> clock]]
    /\ issued' = issued \cup {u}
    /\ req' = [req EXCEPT ![h] =
           [Idle EXCEPT !.pc = "init_insert", !.u = u, !.since = clock]]
    /\ UNCHANGED <<tables, blob, lock, cleaner, total_uploads, clock, acked,
                   late>>

InitInsert(h) ==
    /\ At(h, "init_insert") /\ Free
    /\ pending_uploads' = [pending_uploads EXCEPT ![req[h].u] =
           [next |-> 0, bytes |-> 0, created |-> clock]]
    /\ Respond(h)
    /\ UNCHANGED <<disk, files, lock, cleaner, total_uploads, clock, issued,
                   acked, late, faults>>

InitInsertFails(h) ==
    /\ At(h, "init_insert") /\ DbRaises
    /\ Remove(req[h].u)
    /\ Respond(h)
    /\ UNCHANGED <<tables, blob, lock, cleaner, total_uploads, clock, issued,
                   acked, late>>

-----------------------------------------------------------------------------
(* POST /api/upload/chunk: everything from BEGIN IMMEDIATE to COMMIT or    *)
(* ROLLBACK holds the write lock.                                          *)

\* Mutant: BEGIN instead of BEGIN IMMEDIATE, so the row is read unlocked.
ChunkBeginDeferred(h, u, i, payload) ==
    /\ Arrives(h)
    /\ pending_uploads[u] # None
    /\ i = pending_uploads[u].next
    /\ Complete(pending_uploads[u]) => late[u] < MaxLate
    /\ req' = [req EXCEPT ![h] =
           [Idle EXCEPT !.pc = "open", !.u = u, !.idx = i, !.data = payload,
                        !.base = pending_uploads[u].bytes, !.since = clock]]
    /\ UNCHANGED <<tables, disk, lock, cleaner, total_uploads, clock, issued,
                   acked, late, faults>>

\* The index need only be the row's next: a session whose bytes are all there
\* takes chunks as well.
ChunkBegin(h, u, i, payload) ==
    /\ Arrives(h) /\ Free
    /\ pending_uploads[u] # None
    /\ i = pending_uploads[u].next
    /\ Complete(pending_uploads[u]) => late[u] < MaxLate
    /\ lock' = h
    /\ req' = [req EXCEPT ![h] =
           [Idle EXCEPT !.pc = "open", !.u = u, !.idx = i, !.data = payload,
                        !.base = pending_uploads[u].bytes, !.since = clock]]
    /\ UNCHANGED <<tables, disk, cleaner, total_uploads, clock, issued, acked,
                   late, faults>>

\* After the last byte of a session, and after a finish renamed its .part file,
\* this makes another, empty one.
Remakes(r) == r.base = Expected /\ partial[r.u] = None

ChunkOpen(h) ==
    /\ At(h, "open")
    /\ OpenForAppend(req[h].u)
    /\ late' = [late EXCEPT ![req[h].u] = IF Remakes(req[h]) THEN @ + 1 ELSE @]
    /\ GoTo(h, "append")
    /\ UNCHANGED <<tables, blob, lock, cleaner, total_uploads, clock, issued,
                   acked, faults>>

ChunkAppend(h) ==
    LET r == req[h] IN
    /\ r.pc = "append" /\ r.written < Len(r.data) /\ Fits(r)
    /\ WriteAtEnd(r.u, r.data[r.written + 1])
    /\ req' = [req EXCEPT ![h].written = @ + 1]
    /\ UNCHANGED <<tables, blob, lock, cleaner, total_uploads, clock, issued,
                   acked, late, faults>>

\* 413, or an OSError from open or write: cut back to bytes_received, ROLLBACK.
ChunkRefused(h) ==
    LET r == req[h] IN
    /\ r.pc \in {"open", "append"}
    /\ TruncateBack(r.u, r.base)
    /\ lock' = None
    /\ Respond(h)
    /\ UNCHANGED <<tables, blob, cleaner, total_uploads, clock, issued, acked,
                   late, faults>>

Progress(u, r) ==
    pending_uploads' = [pending_uploads EXCEPT ![u] =
        IF @ = None THEN None
        ELSE [next |-> r.idx + 1, bytes |-> r.base + r.written,
              created |-> @.created]]

ChunkCommit(h) ==
    LET r == req[h] IN
    /\ r.pc = "append" /\ r.written = Len(r.data)
    /\ Progress(r.u, r)
    /\ acked' = [acked EXCEPT ![r.u] = @ \o r.data]
    /\ lock' = None
    /\ Respond(h)
    /\ UNCHANGED <<files, disk, cleaner, total_uploads, clock, issued, late,
                   faults>>

\* UPDATE or COMMIT raises: ROLLBACK and re-raise; the file keeps the append.
ChunkDbFails(h) ==
    /\ At(h, "append") /\ req[h].written = Len(req[h].data)
    /\ Strikes("db")
    /\ lock' = None
    /\ Respond(h)
    /\ UNCHANGED <<tables, disk, cleaner, total_uploads, clock, issued, acked,
                   late>>

-----------------------------------------------------------------------------
(* POST /api/upload/finish                                                 *)

\* The row is read outside any transaction and used to the end.
FinishRead(h, u) ==
    /\ Arrives(h)
    /\ pending_uploads[u] # None
    /\ req' = [req EXCEPT ![h] =
           [Idle EXCEPT !.pc = IF Complete(pending_uploads[u])
                               THEN "exists" ELSE "discard",
                        !.u = u, !.since = clock]]
    /\ UNCHANGED <<tables, disk, lock, cleaner, total_uploads, clock, issued,
                   acked, late, faults>>

FinishExists(h) ==
    /\ At(h, "exists")
    /\ GoTo(h, IF partial[req[h].u] = None THEN "discard" ELSE "allocate")
    /\ UNCHANGED <<tables, disk, lock, cleaner, total_uploads, clock, issued,
                   acked, late, faults>>

FinishDiscard(h) ==
    /\ At(h, "discard") /\ Free
    /\ pending_uploads' = [pending_uploads EXCEPT ![req[h].u] = None]
    /\ GoTo(h, "unlink")
    /\ UNCHANGED <<files, disk, lock, cleaner, total_uploads, clock, issued,
                   acked, late, faults>>

FinishUnlink(h) ==
    /\ At(h, "unlink")
    /\ Remove(req[h].u)
    /\ Respond(h)
    /\ UNCHANGED <<tables, blob, lock, cleaner, total_uploads, clock, issued,
                   acked, late, faults>>

\* An empty placeholder claims the id.  36^12 ids: the draw repeats none in use.
FinishAllocate(h, id) ==
    /\ At(h, "allocate")
    /\ blob[id] = None /\ files[id] = None /\ \A g \in Handlers : req[g].id # id
    /\ blob' = [blob EXCEPT ![id] = [data |-> <<>>, mtime |-> clock]]
    /\ req' = [req EXCEPT ![h].pc = "replace", ![h].id = id]
    /\ UNCHANGED <<tables, partial, lock, cleaner, total_uploads, clock,
                   issued, acked, late, faults>>

\* Mutant: the .part file is copied, not renamed.
FinishCopy(h) ==
    LET r == req[h] IN
    /\ r.pc = "replace" /\ partial[r.u] # None
    /\ blob' = [blob EXCEPT ![r.id] = partial[r.u]]
    /\ req' = [req EXCEPT ![h].pc = "insert", ![h].mtime = partial[r.u].mtime]
    /\ UNCHANGED <<tables, partial, lock, cleaner, total_uploads, clock,
                   issued, acked, late, faults>>

\* os.replace keeps the mtime of the last append
FinishReplace(h) ==
    LET r == req[h] IN
    /\ r.pc = "replace" /\ partial[r.u] # None
    /\ blob' = [blob EXCEPT ![r.id] = partial[r.u]]
    /\ Remove(r.u)
    /\ req' = [req EXCEPT ![h].pc = "insert", ![h].mtime = partial[r.u].mtime]
    /\ UNCHANGED <<tables, lock, cleaner, total_uploads, clock, issued, acked,
                   late, faults>>

FinishReplaceFails(h) ==
    /\ At(h, "replace")
    /\ RemoveBlob(req[h].id)
    /\ Respond(h)
    /\ UNCHANGED <<tables, partial, lock, cleaner, total_uploads, clock,
                   issued, acked, late, faults>>

\* INSERT INTO files and DELETE FROM pending_uploads commit together.
FinishInsert(h) ==
    LET r == req[h] IN
    /\ r.pc = "insert" /\ Free
    /\ ~SlotTaken(r.u)
    /\ files' = [files EXCEPT ![r.id] =
           [upload |-> r.u, mtime |-> r.mtime, inserted |-> clock]]
    /\ pending_uploads' = [pending_uploads EXCEPT ![r.u] = None]
    /\ GoTo(h, "record")
    /\ UNCHANGED <<disk, lock, cleaner, total_uploads, clock, issued, acked,
                   late, faults>>

\* Mutant: the upload is counted whether or not its row was inserted.
FinishInsertFailsCounted(h) ==
    /\ At(h, "insert")
    /\ DbRaises \/ (SlotTaken(req[h].u) /\ UNCHANGED faults)
    /\ RemoveBlob(req[h].id)
    /\ GoTo(h, "record")
    /\ UNCHANGED <<tables, partial, lock, cleaner, total_uploads, clock,
                   issued, acked, late>>

\* IntegrityError or any other failure: the blob goes, the pending row stays.
FinishInsertFails(h) ==
    /\ At(h, "insert")
    /\ DbRaises \/ (SlotTaken(req[h].u) /\ UNCHANGED faults)
    /\ RemoveBlob(req[h].id)
    /\ Respond(h)
    /\ UNCHANGED <<tables, partial, lock, cleaner, total_uploads, clock,
                   issued, acked, late>>

FinishRecord(h) ==
    /\ At(h, "record") /\ Free
    /\ total_uploads' = total_uploads + 1
    /\ Respond(h)
    /\ UNCHANGED <<tables, disk, lock, cleaner, clock, issued, acked, late,
                   faults>>

\* What else ends a request early: a write that raises while the row is
\* discarded or the upload counted, or an id that cannot be claimed.
FinishFails(h) ==
    /\ \/ req[h].pc \in {"discard", "record"} /\ DbRaises
       \/ At(h, "allocate") /\ UNCHANGED faults
    /\ Respond(h)
    /\ UNCHANGED <<tables, disk, lock, cleaner, total_uploads, clock, issued,
                   acked, late>>

-----------------------------------------------------------------------------
(* One pass of run_cleanup_once over sessions and orphans.  The expiry of  *)
(* published files, tokens and logs is outside this module.                *)

CleanWake ==
    /\ cleaner.pc = "sleep"
    /\ cleaner' = [cleaner EXCEPT !.pc = "lock", !.now = clock]
    /\ UNCHANGED <<tables, disk, lock, req, total_uploads, clock, issued,
                   acked, late, faults>>

\* The pass's first DELETE takes the lock; the stale sessions are read under it.
CleanLock ==
    /\ cleaner.pc = "lock" /\ Free
    /\ lock' = Cleaner
    /\ cleaner' = [cleaner EXCEPT !.pc = "reap",
           !.todo = {u \in Rows : Stale(pending_uploads[u], cleaner.now)}]
    /\ UNCHANGED <<tables, disk, req, total_uploads, clock, issued, acked,
                   late, faults>>

CleanUnlink(u) ==
    /\ cleaner.pc = "reap" /\ u \in cleaner.todo
    /\ Remove(u)
    /\ cleaner' = [cleaner EXCEPT !.todo = @ \ {u}, !.reaped = @ \cup {u}]
    /\ UNCHANGED <<tables, blob, lock, req, total_uploads, clock, issued,
                   acked, late, faults>>

CleanCommit ==
    /\ cleaner.pc = "reap" /\ cleaner.todo = {}
    /\ pending_uploads' = [u \in Uploads |->
           IF u \in cleaner.reaped THEN None ELSE pending_uploads[u]]
    /\ lock' = None
    /\ cleaner' = [cleaner EXCEPT !.pc = "known_blobs", !.reaped = {}]
    /\ UNCHANGED <<files, disk, req, total_uploads, clock, issued, acked, late,
                   faults>>

\* The pass raises: nothing it deleted from the tables is committed.
CleanFails ==
    /\ \/ cleaner.pc = "lock" /\ DbRaises
       \/ cleaner.pc = "reap" /\ Strikes("db")
    /\ lock' = IF lock = Cleaner THEN None ELSE lock
    /\ cleaner' = Asleep
    /\ UNCHANGED <<tables, disk, req, total_uploads, clock, issued, acked,
                   late>>

\* The ids that have a row now; todo is what glob finds at the least.
CleanKnownBlobs ==
    /\ cleaner.pc = "known_blobs"
    /\ cleaner' = [cleaner EXCEPT !.pc = "blobs", !.known = Published,
           !.todo = {id \in FileIds : blob[id] # None}]
    /\ UNCHANGED <<tables, disk, lock, req, total_uploads, clock, issued,
                   acked, late, faults>>

OrphanBlob(id) ==
    /\ blob[id] # None /\ id \notin cleaner.known
    /\ OlderThanGrace(blob[id], cleaner.now)

CleanSweepBlob(id) ==
    /\ cleaner.pc = "blobs" /\ OrphanBlob(id)
    /\ RemoveBlob(id)
    /\ UNCHANGED <<tables, partial, lock, req, cleaner, total_uploads, clock,
                   issued, acked, late, faults>>

CleanKnownParts ==
    /\ cleaner.pc = "blobs"
    /\ \A id \in cleaner.todo : ~OrphanBlob(id)
    /\ cleaner' = [cleaner EXCEPT !.pc = "parts", !.known = Rows,
           !.todo = {u \in Uploads : partial[u] # None}]
    /\ UNCHANGED <<tables, disk, lock, req, total_uploads, clock, issued,
                   acked, late, faults>>

OrphanPart(u) ==
    /\ partial[u] # None /\ u \notin cleaner.known
    /\ OlderThanGrace(partial[u], cleaner.now)

CleanSweepPart(u) ==
    /\ cleaner.pc = "parts" /\ OrphanPart(u)
    /\ Remove(u)
    /\ UNCHANGED <<tables, blob, lock, req, cleaner, total_uploads, clock,
                   issued, acked, late, faults>>

CleanDone ==
    /\ cleaner.pc = "parts"
    /\ \A u \in cleaner.todo : ~OrphanPart(u)
    /\ cleaner' = Asleep
    /\ UNCHANGED <<tables, disk, lock, req, total_uploads, clock, issued,
                   acked, late, faults>>

-----------------------------------------------------------------------------
(* Time and crashes.                                                       *)

\* A request is answered within the grace period.
Prompt(h) == req[h] # Idle => clock + 1 < req[h].since + Grace

Tick ==
    /\ clock < MaxClock
    /\ \A h \in Handlers : Prompt(h)
    /\ clock' = clock + 1
    /\ UNCHANGED <<tables, disk, lock, req, cleaner, total_uploads, issued,
                   acked, late, faults>>

\* A worker dies: its transaction rolls back, its files stay.
Crash(h) ==
    /\ req[h] # Idle /\ Strikes("crash")
    /\ lock' = IF lock = h THEN None ELSE lock
    /\ Respond(h)
    /\ UNCHANGED <<tables, disk, cleaner, total_uploads, clock, issued, acked,
                   late>>

CleanerCrash ==
    /\ cleaner # Asleep /\ Strikes("crash")
    /\ lock' = IF lock = Cleaner THEN None ELSE lock
    /\ cleaner' = Asleep
    /\ UNCHANGED <<tables, disk, req, total_uploads, clock, issued, acked,
                   late>>

Request(h) ==
    \E u \in Uploads :
        \/ InitStart(h, u)
        \/ \E i \in 0 .. LastChunk : \E p \in Payloads[i] : ChunkBegin(h, u, i, p)
        \/ FinishRead(h, u)

Handle(h) ==
    \/ InitInsert(h) \/ InitInsertFails(h)
    \/ ChunkOpen(h) \/ ChunkAppend(h) \/ ChunkRefused(h)
    \/ ChunkCommit(h) \/ ChunkDbFails(h)
    \/ FinishExists(h) \/ FinishDiscard(h) \/ FinishUnlink(h)
    \/ \E id \in FileIds : FinishAllocate(h, id)
    \/ FinishReplace(h) \/ FinishReplaceFails(h)
    \/ FinishInsert(h) \/ FinishInsertFails(h)
    \/ FinishRecord(h) \/ FinishFails(h)

Clean ==
    \/ CleanWake \/ CleanLock \/ CleanCommit \/ CleanFails
    \/ \E u \in Uploads : CleanUnlink(u) \/ CleanSweepPart(u)
    \/ CleanKnownBlobs \/ CleanKnownParts \/ CleanDone
    \/ \E id \in FileIds : CleanSweepBlob(id)

Next ==
    \/ \E h \in Handlers : Request(h) \/ Handle(h) \/ Crash(h)
    \/ Clean \/ CleanerCrash
    \/ Tick

Spec == Init /\ [][Next]_vars

\* Started requests, the cleanup thread and time go on; clients need not.
Fairness ==
    /\ \A h \in Handlers : WF_vars(Handle(h))
    /\ WF_vars(Clean)
    /\ WF_vars(Tick)

FairSpec == Spec /\ Fairness

-----------------------------------------------------------------------------
(* Properties.                                                             *)

RequestPc == {"idle", "init_insert", "open", "append", "exists", "discard",
              "unlink", "allocate", "replace", "insert", "record"}

RequestType == [pc : RequestPc, u : Uploads \cup {None}, idx : 0 .. LastChunk,
                data : Seq(Piece), written : Nat, base : Nat,
                id : FileIds \cup {None}, mtime : Nat, since : Nat]

CleanerType == [pc : {"sleep", "lock", "reap", "known_blobs", "blobs", "parts"},
                now : Nat, todo : SUBSET (Uploads \cup FileIds),
                reaped : SUBSET Uploads, known : SUBSET (Uploads \cup FileIds)]

\* Types, and that no session ever acknowledges more ciphertext than the size
\* it declared implies.
TypeOK ==
    /\ pending_uploads \in [Uploads -> Row \cup {None}]
    /\ \A u \in Rows : pending_uploads[u].bytes <= Expected
    /\ partial \in [Uploads -> File \cup {None}]
    /\ blob \in [FileIds -> File \cup {None}]
    /\ files \in [FileIds -> FileRow \cup {None}]
    /\ lock \in Handlers \cup {Cleaner, None}
    /\ req \in [Handlers -> RequestType]
    /\ cleaner \in CleanerType
    /\ total_uploads \in Nat /\ clock \in Nat /\ faults \in Nat
    /\ issued \in SUBSET Uploads
    /\ acked \in [Uploads -> Seq(Piece)]
    /\ late \in [Uploads -> Nat]

\* What a late chunk leaves in a .part file it made: nothing, or the padding.
Blank == {<<>>, Resize(<<>>, Expected)}

\* files.py:295-296: between requests the .part file is exactly as long as
\* bytes_received says, so the next chunk lands at its offset.  Only a .part file
\* that a late chunk made anew may be empty, and that session takes no more bytes.
NoDrift ==
    \A u \in Rows : lock = None /\ partial[u] # None =>
        \/ Len(partial[u].data) = pending_uploads[u].bytes
        \/ /\ late[u] > 0 /\ Complete(pending_uploads[u])
           /\ partial[u].data = <<>>

\* A blob served under a files row is what its session acknowledged, all of it,
\* in order: whatever retries, concurrent finishes and sweeps happened.  A .part
\* file that a late chunk made anew is published blank: no byte that was not
\* acknowledged is ever served.
PublishedIsAcked ==
    \A id \in Published : blob[id] # None =>
        LET u == files[id].upload  data == blob[id].data IN
        \/ data = acked[u] /\ Len(data) = Expected
        \/ late[u] > 0 /\ data \in Blank

\* However many finish requests race, a session is published once, and once more
\* at most for each late chunk that made its .part file anew.
AtMostOnce ==
    \A u \in Uploads :
        Cardinality({id \in Published : files[id].upload = u}) <= 1 + late[u]

\* A handler about to write has its file: neither the cleaner nor a finish
\* took it away, so an acknowledged byte is a byte on disk.
AppendNeverDetached ==
    \A h \in Handlers :
        At(h, "append") /\ req[h].base < Expected => partial[req[h].u] # None

\* cleanup.py:14-16: the sweep spares the blob of an upload finished within
\* the grace period of its last write.
SweepSparesPrompt ==
    \A id \in Published :
        files[id].inserted < files[id].mtime + Grace => blob[id] # None

\* /status counts an upload only after it is published, and once.
CountedOncePublished ==
    total_uploads + Cardinality({h \in Handlers : At(h, "record")})
        <= Cardinality(Published)

\* cleanup.py:20: a blob old enough to sweep has its row by now, so a row is
\* never left without its blob.
PublishedBlobKept == \A id \in Published : blob[id] # None

\* What a session acknowledged, it keeps: the counters never go back while
\* the row lives, whatever is retried or refused.
NeverUnacknowledges ==
    [][\A u \in Rows : pending_uploads'[u] # None =>
           /\ pending_uploads'[u].bytes >= pending_uploads[u].bytes
           /\ pending_uploads'[u].next >= pending_uploads[u].next]_vars

\* A session loses its row or its file for one of three reasons: the pass finds it
\* older than the time-to-live, a finish found it incomplete, or a finish publishes
\* it, complete.  Under a chunk it never loses its row, and its file only when all
\* its bytes are there, to a finish.
KeptUntilFinished ==
    [][\A u \in Rows : (partial[u] # None /\ partial'[u] = None)
                      \/ pending_uploads'[u] = None =>
           /\ \A h \in Handlers : req[h].pc \in {"open", "append"} /\ req[h].u = u =>
                  Complete(pending_uploads[u]) /\ pending_uploads'[u] # None
           /\ \/ lock = Cleaner /\ pending_uploads[u].created + TTL < clock
              \/ \E h \in Handlers : req[h].u = u /\
                     \/ At(h, "discard")
                     \/ req[h].pc \in {"replace", "insert"}
                        /\ Complete(pending_uploads[u])]_vars

\* No .part file stays for good: it is published, discarded, reaped or swept.
PartialsReclaimed ==
    \A u \in Uploads : (partial[u] # None) ~> (partial[u] = None)

\* No blob stays for good without a row.
BlobsReclaimed ==
    \A id \in FileIds : (blob[id] # None) ~> (blob[id] = None \/ files[id] # None)
=============================================================================
