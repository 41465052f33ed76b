------------------------------ MODULE FileStore ------------------------------
(***************************************************************************)
(* The life of a published file: downloads that count against a limit,     *)
(* removal by its sender, by the admin, by expiry or by the last download, *)
(* suspension by a report or the admin, and the cleanup pass that reaps    *)
(* expired rows and sweeps blobs without one (src/shred/routes/files.py,   *)
(* routes/admin.py, cleanup.py).                                           *)
(*                                                                         *)
(* A row and its blob are never changed together: each action is one       *)
(* effect on the database or on the disk.  A blob is its mtime; what it    *)
(* holds is the subject of UploadSession, which also shows how a file      *)
(* comes to be published.  Requests that change nothing (HEAD, refusals,   *)
(* rate limits, a reported id with no file) are stuttering steps.          *)
(***************************************************************************)
EXTENDS Naturals, FiniteSets

CONSTANTS
    Handlers,      \* request threads
    FileIds,       \* ids that generate_id may draw; an id is used once
    Limits,        \* the max_downloads a sender may choose, 0 for no limit
    Lifetimes,     \* expiry minus the time of publication
    ReportAction,  \* REPORT_ACTION: "suspend" or "off"
    Grace,         \* _ORPHAN_GRACE_SECONDS
    MaxAge,        \* bound: how long after its last write a blob is published
    Faults,        \* the faults of this instance: a subset of {"crash", "db"}
    MaxFaults,     \* bound: how many of them strike
    MaxGrants,     \* bound: downloads granted per file (a file may have no limit)
    LastRequest,   \* bound: no request starts after this time
    MaxClock,      \* bound: the clock stops here
    Cleaner,       \* the thread that runs cleanup_expired
    None           \* no row, no blob, no owner

Row == [max : Limits, downloads : Nat, suspended : BOOLEAN, expiry : Nat]

ASSUME NamesAreDistinct ==
    /\ Cleaner \notin Handlers
    /\ Cleaner # None
    /\ None \notin Handlers \cup FileIds \cup Nat
    /\ None \notin Row

ASSUME BoundsAreNaturals ==
    /\ Limits \subseteq Nat /\ Lifetimes \subseteq Nat
    /\ ReportAction \in {"suspend", "off"}
    /\ Grace \in Nat /\ MaxAge \in Nat /\ MaxFaults \in Nat /\ MaxGrants \in Nat
    /\ LastRequest \in Nat /\ MaxClock \in Nat

\* A finish publishes within the grace period of the last write to its blob.
ASSUME PublishedPromptly == MaxAge < Grace

VARIABLES
    files,            \* [FileIds -> Row or None]: the files table
    blob,             \* [FileIds -> mtime or None]: the <id>.enc files
    lock,             \* the holder of SQLite's write lock, or None
    req,              \* what each request thread is doing
    cleaner,          \* what the cleanup pass is doing
    total_downloads,  \* the kv counter behind /status
    clock,            \* int(time.time())
    promise,          \* history: [FileIds -> the Row first inserted, or None]
    granted,          \* history: how many downloads of each file were counted
    ordered,          \* history: files whose sender or admin asked for removal
    removed,          \* history: files whose removal was answered with success
    faults            \* faults left to strike

history == <<promise, granted, ordered, removed>>
vars == <<files, blob, lock, req, cleaner, total_downloads, clock, promise,
          granted, ordered, removed, faults>>

Idle == [pc |-> "idle", id |-> None, row |-> None, flag |-> FALSE]

Asleep == [pc |-> "sleep", now |-> 0, todo |-> {}, reaped |-> {}, known |-> {}]

Init ==
    /\ files = [id \in FileIds |-> None]
    /\ blob = [id \in FileIds |-> None]
    /\ lock = None
    /\ req = [h \in Handlers |-> Idle]
    /\ cleaner = Asleep
    /\ total_downloads = 0
    /\ clock = 0
    /\ promise = [id \in FileIds |-> None]
    /\ granted = [id \in FileIds |-> 0]
    /\ ordered = {} /\ removed = {}
    /\ faults = MaxFaults

-----------------------------------------------------------------------------
(* What the handlers are built from.                                       *)

HasRow(id) == files[id] # None

Expired(row, now) == row.expiry < now
Spent(row) == row.max > 0 /\ row.downloads >= row.max

LastSlot(row) == row.max > 0 /\ row.downloads + 1 >= row.max

\* Mutant: the comparison of ages the wrong way round.
YoungerThanGrace(mtime, now) == now < mtime + Grace

OlderThanGrace(mtime, now) == mtime + Grace <= now

RemoveBlob(id) == blob' = [blob EXCEPT ![id] = None]
DeleteRow(id)  == files' = [files EXCEPT ![id] = None]

At(h, pc) == req[h].pc = pc
GoTo(h, pc) == req' = [req EXCEPT ![h].pc = pc]
Start(h, pc, id) == req' = [req EXCEPT ![h] = [Idle EXCEPT !.pc = pc, !.id = id]]
Respond(h) == req' = [req EXCEPT ![h] = Idle]

Free == lock = None
Release(p) == lock' = IF lock = p THEN None ELSE lock
Strikes(fault) == fault \in Faults /\ faults > 0 /\ faults' = faults - 1
DbRaises == (lock # None /\ UNCHANGED faults) \/ Strikes("db")

Arrives(h) == At(h, "idle") /\ clock <= LastRequest

-----------------------------------------------------------------------------
(* A finish request commits a row; its blob is already in place.           *)

Publish(id, max, life, age) ==
    LET row == [max |-> max, downloads |-> 0, suspended |-> FALSE,
                expiry |-> clock + life]
    IN  /\ clock <= LastRequest /\ Free
        /\ promise[id] = None /\ age <= clock
        /\ files' = [files EXCEPT ![id] = row]
        /\ promise' = [promise EXCEPT ![id] = row]
        /\ blob' = [blob EXCEPT ![id] = clock - age]
        /\ UNCHANGED <<lock, req, cleaner, total_downloads, clock, granted,
                       ordered, removed, faults>>

-----------------------------------------------------------------------------
(* GET /api/file/<id>: one BEGIN IMMEDIATE transaction, then the stream.   *)

\* Mutant: the row is read outside a transaction.
GetBeginUnlocked(h, id) ==
    /\ Arrives(h) /\ HasRow(id) /\ granted[id] < MaxGrants
    /\ req' = [req EXCEPT ![h] =
           [Idle EXCEPT !.pc = IF Expired(files[id], clock) THEN "expired"
                               ELSE "check",
                        !.id = id, !.row = files[id]]]
    /\ UNCHANGED <<files, blob, lock, cleaner, total_downloads, clock, history,
                   faults>>

GetBegin(h, id) ==
    /\ Arrives(h) /\ HasRow(id) /\ Free /\ granted[id] < MaxGrants
    /\ lock' = h
    /\ req' = [req EXCEPT ![h] =
           [Idle EXCEPT !.pc = IF Expired(files[id], clock) THEN "expired"
                               ELSE "check",
                        !.id = id, !.row = files[id]]]
    /\ UNCHANGED <<files, blob, cleaner, total_downloads, clock, history, faults>>

\* An expired row: the blob goes first, then the row with the COMMIT.
GetExpired(h) ==
    /\ At(h, "expired")
    /\ RemoveBlob(req[h].id)
    /\ GoTo(h, "expired_row")
    /\ UNCHANGED <<files, lock, cleaner, total_downloads, clock, history, faults>>

\* ... or, for a row without a blob: count nothing, and reap the row.
GetReap(h) ==
    /\ \/ At(h, "expired_row")
       \/ /\ At(h, "check") /\ ~req[h].row.suspended /\ ~Spent(req[h].row)
          /\ blob[req[h].id] = None
    /\ DeleteRow(req[h].id)
    /\ Release(h)
    /\ Respond(h)
    /\ UNCHANGED <<blob, cleaner, total_downloads, clock, history, faults>>

\* 451, 410 at the limit, or an exception before the COMMIT: ROLLBACK.
GetRollback(h) ==
    /\ \/ At(h, "check") /\ UNCHANGED faults
              /\ (req[h].row.suspended \/ Spent(req[h].row))
       \/ req[h].pc \in {"check", "count", "expired_row"} /\ Strikes("db")
    /\ Release(h)
    /\ Respond(h)
    /\ UNCHANGED <<files, blob, cleaner, total_downloads, clock, history>>

\* The blob is there when the request looks for it.
GetFound(h) ==
    /\ At(h, "check") /\ ~req[h].row.suspended /\ ~Spent(req[h].row)
    /\ blob[req[h].id] # None
    /\ GoTo(h, "count")
    /\ UNCHANGED <<files, blob, lock, cleaner, total_downloads, clock, history,
                   faults>>

\* The download is counted; the last one takes the row with it.  Nobody needs the
\* lock to take the blob, which may be gone by now.
GetGrant(h) ==
    LET id == req[h].id  row == req[h].row IN
    /\ At(h, "count")
    /\ files' = [files EXCEPT ![id] =
           IF @ = None \/ LastSlot(row) THEN None
           ELSE [@ EXCEPT !.downloads = row.downloads + 1]]
    /\ granted' = [granted EXCEPT ![id] = @ + 1]
    /\ Release(h)
    /\ req' = [req EXCEPT ![h].pc = "record", ![h].flag = LastSlot(row),
                          ![h].row = None]
    /\ UNCHANGED <<blob, cleaner, total_downloads, clock, promise, ordered,
                   removed, faults>>

GetRecord(h) ==
    /\ At(h, "record") /\ Free
    /\ total_downloads' = total_downloads + 1
    /\ GoTo(h, "stat")
    /\ UNCHANGED <<files, blob, lock, cleaner, clock, history, faults>>

\* stat finds the file; the generator opens it only when the body is sent
GetStat(h) ==
    /\ At(h, "stat") /\ blob[req[h].id] # None
    /\ GoTo(h, "open")
    /\ UNCHANGED <<files, blob, lock, cleaner, total_downloads, clock, history,
                   faults>>

GetOpen(h) ==
    /\ At(h, "open") /\ blob[req[h].id] # None
    /\ GoTo(h, "stream")
    /\ UNCHANGED <<files, blob, lock, cleaner, total_downloads, clock, history,
                   faults>>

\* Counting raised, the file is not there to stat, or the client left before
\* the generator ran: nothing is sent and no finally clause runs.
GetAborts(h) ==
    /\ \/ At(h, "record") /\ DbRaises
       \/ At(h, "stat") /\ blob[req[h].id] = None /\ UNCHANGED faults
       \/ At(h, "open") /\ UNCHANGED faults
    /\ Respond(h)
    /\ UNCHANGED <<files, blob, lock, cleaner, total_downloads, clock, history>>

\* The body is sent, or cut short, or its file could not be opened: finally.
GetFinally(h) ==
    /\ At(h, "stream") \/ (At(h, "open") /\ blob[req[h].id] = None)
    /\ IF req[h].flag THEN RemoveBlob(req[h].id) ELSE UNCHANGED blob
    /\ Respond(h)
    /\ UNCHANGED <<files, lock, cleaner, total_downloads, clock, history, faults>>

-----------------------------------------------------------------------------
(* DELETE by the sender's token or by the admin, and the removal of an     *)
(* expired file by whoever looks at it (_check_file_availability).         *)

Order(h, id) ==
    /\ Arrives(h) /\ HasRow(id)
    /\ ordered' = ordered \cup {id}
    /\ Start(h, "del_blob", id)
    /\ UNCHANGED <<files, blob, lock, cleaner, total_downloads, clock, promise,
                   granted, removed, faults>>

ViewExpired(h, id) ==
    /\ Arrives(h) /\ HasRow(id) /\ Expired(files[id], clock)
    /\ Start(h, "del_blob", id)
    /\ UNCHANGED <<files, blob, lock, cleaner, total_downloads, clock, history,
                   faults>>

\* Mutant: only the row is deleted.
DelNoBlob(h) ==
    /\ At(h, "del_blob")
    /\ GoTo(h, "del_row")
    /\ UNCHANGED <<files, blob, lock, cleaner, total_downloads, clock, history,
                   faults>>

DelBlob(h) ==
    /\ At(h, "del_blob")
    /\ RemoveBlob(req[h].id)
    /\ GoTo(h, "del_row")
    /\ UNCHANGED <<files, lock, cleaner, total_downloads, clock, history, faults>>

DelRow(h) ==
    /\ At(h, "del_row") /\ Free
    /\ DeleteRow(req[h].id)
    /\ removed' = removed \cup {req[h].id}
    /\ Respond(h)
    /\ UNCHANGED <<blob, lock, cleaner, total_downloads, clock, promise,
                   granted, ordered, faults>>

-----------------------------------------------------------------------------
(* Reports and the admin's suspend and restore: a read, then an UPDATE.    *)

Flag(h, id, value) ==
    /\ Arrives(h) /\ HasRow(id)
    /\ req' = [req EXCEPT ![h] =
           [Idle EXCEPT !.pc = "flag", !.id = id, !.flag = value]]
    /\ UNCHANGED <<files, blob, lock, cleaner, total_downloads, clock, history,
                   faults>>

Report(h, id) == ReportAction = "suspend" /\ Flag(h, id, TRUE)

SetSuspended(h) ==
    /\ At(h, "flag") /\ Free
    /\ files' = [files EXCEPT ![req[h].id] =
           IF @ = None THEN None ELSE [@ EXCEPT !.suspended = req[h].flag]]
    /\ Respond(h)
    /\ UNCHANGED <<blob, lock, cleaner, total_downloads, clock, history, faults>>

\* The DELETE or UPDATE of a removal or a suspension raises: 500.
WriteFails(h) ==
    /\ req[h].pc \in {"del_row", "flag"} /\ DbRaises
    /\ Respond(h)
    /\ UNCHANGED <<files, blob, lock, cleaner, total_downloads, clock, history>>

-----------------------------------------------------------------------------
(* One pass of run_cleanup_once over published files.                      *)

\* Mutant: "expiry <= now" where the download path says "expiry < now".
CleanWakeEarly ==
    /\ cleaner.pc = "sleep"
    /\ cleaner' = [cleaner EXCEPT !.pc = "expire", !.now = clock,
           !.todo = {id \in FileIds : HasRow(id) /\ files[id].expiry <= clock}]
    /\ UNCHANGED <<files, blob, lock, req, total_downloads, clock, history, faults>>

\* Expired rows are listed before the pass holds any lock.
CleanWake ==
    /\ cleaner.pc = "sleep"
    /\ cleaner' = [cleaner EXCEPT !.pc = "expire", !.now = clock,
           !.todo = {id \in FileIds : HasRow(id) /\ Expired(files[id], clock)}]
    /\ UNCHANGED <<files, blob, lock, req, total_downloads, clock, history, faults>>

CleanUnlink(id) ==
    /\ cleaner.pc = "expire" /\ id \in cleaner.todo
    /\ RemoveBlob(id)
    /\ cleaner' = [cleaner EXCEPT !.pc = "delete", !.todo = @ \ {id},
                                  !.reaped = @ \cup {id}]
    /\ UNCHANGED <<files, lock, req, total_downloads, clock, history, faults>>

\* The first DELETE of the pass takes the lock until the commit.
CleanDelete ==
    /\ \/ cleaner.pc = "delete"
       \/ cleaner.pc = "expire" /\ cleaner.todo = {} /\ lock # Cleaner
    /\ lock \in {None, Cleaner}
    /\ lock' = Cleaner
    /\ cleaner' = [cleaner EXCEPT !.pc = "expire"]
    /\ UNCHANGED <<files, blob, req, total_downloads, clock, history, faults>>

\* Mutant: the blobs are unlinked and their rows left.
CleanCommitNoDelete ==
    /\ cleaner.pc = "expire" /\ cleaner.todo = {} /\ lock = Cleaner
    /\ lock' = None
    /\ cleaner' = [cleaner EXCEPT !.pc = "known", !.reaped = {}]
    /\ UNCHANGED <<files, blob, req, total_downloads, clock, history, faults>>

CleanCommit ==
    /\ cleaner.pc = "expire" /\ cleaner.todo = {} /\ lock = Cleaner
    /\ files' = [id \in FileIds |->
           IF id \in cleaner.reaped THEN None ELSE files[id]]
    /\ lock' = None
    /\ cleaner' = [cleaner EXCEPT !.pc = "known", !.reaped = {}]
    /\ UNCHANGED <<blob, req, total_downloads, clock, history, faults>>

\* A DELETE raises; what the pass unlinked stays unlinked, the rows stay too.
CleanFails ==
    /\ cleaner.pc \in {"delete", "expire"}
    /\ (lock \notin {None, Cleaner} /\ UNCHANGED faults) \/ Strikes("db")
    /\ Release(Cleaner)
    /\ cleaner' = Asleep
    /\ UNCHANGED <<files, blob, req, total_downloads, clock, history>>

CleanKnown ==
    /\ cleaner.pc = "known"
    /\ cleaner' = [cleaner EXCEPT !.pc = "sweep",
           !.known = {id \in FileIds : HasRow(id)},
           !.todo = {id \in FileIds : blob[id] # None}]
    /\ UNCHANGED <<files, blob, lock, req, total_downloads, clock, history, faults>>

\* Mutant: the sweep forgets which blobs have a row.
OrphanWhateverKnown(id) ==
    blob[id] # None /\ OlderThanGrace(blob[id], cleaner.now)

Orphan(id) ==
    /\ blob[id] # None /\ id \notin cleaner.known
    /\ OlderThanGrace(blob[id], cleaner.now)

CleanSweep(id) ==
    /\ cleaner.pc = "sweep" /\ Orphan(id)
    /\ RemoveBlob(id)
    /\ UNCHANGED <<files, lock, req, cleaner, total_downloads, clock, history,
                   faults>>

CleanDone ==
    /\ cleaner.pc = "sweep"
    /\ \A id \in cleaner.todo : ~Orphan(id)
    /\ cleaner' = Asleep
    /\ UNCHANGED <<files, blob, lock, req, total_downloads, clock, history, faults>>

-----------------------------------------------------------------------------
(* Time and crashes.                                                       *)

Tick ==
    /\ clock < MaxClock
    /\ clock' = clock + 1
    /\ UNCHANGED <<files, blob, lock, req, cleaner, total_downloads, history, faults>>

\* A worker dies: its transaction rolls back, its generator never finishes.
Crash(h) ==
    /\ req[h] # Idle /\ Strikes("crash")
    /\ Release(h)
    /\ Respond(h)
    /\ UNCHANGED <<files, blob, cleaner, total_downloads, clock, history>>

CleanerCrash ==
    /\ cleaner # Asleep /\ Strikes("crash")
    /\ Release(Cleaner)
    /\ cleaner' = Asleep
    /\ UNCHANGED <<files, blob, req, total_downloads, clock, history>>

Request(h) ==
    \E id \in FileIds :
        \/ GetBegin(h, id) \/ Order(h, id) \/ ViewExpired(h, id)
        \/ Report(h, id) \/ \E value \in BOOLEAN : Flag(h, id, value)

Handle(h) ==
    \/ GetExpired(h) \/ GetReap(h) \/ GetRollback(h) \/ GetFound(h) \/ GetGrant(h)
    \/ GetRecord(h) \/ GetStat(h) \/ GetOpen(h) \/ GetAborts(h) \/ GetFinally(h)
    \/ DelBlob(h) \/ DelRow(h) \/ SetSuspended(h) \/ WriteFails(h)

Clean ==
    \/ CleanWake \/ CleanDelete \/ CleanCommit \/ CleanFails
    \/ CleanKnown \/ CleanDone
    \/ \E id \in FileIds : CleanUnlink(id) \/ CleanSweep(id)

Next ==
    \/ \E id \in FileIds, max \in Limits, life \in Lifetimes, age \in 0 .. MaxAge :
           Publish(id, max, life, age)
    \/ \E h \in Handlers : Request(h) \/ Handle(h) \/ Crash(h)
    \/ Clean \/ CleanerCrash
    \/ Tick

Spec == Init /\ [][Next]_vars

\* Started requests, the cleanup thread and time go on; clients need not.
Fairness ==
    /\ \A h \in Handlers : WF_vars(Handle(h))
    /\ WF_vars(Clean)
    /\ WF_vars(Tick)

FairSpec == Spec /\ Fairness

-----------------------------------------------------------------------------
(* Properties.                                                             *)

RequestType ==
    [pc : {"idle", "expired", "expired_row", "check", "count", "record", "stat",
           "open", "stream", "del_blob", "del_row", "flag"},
     id : FileIds \cup {None}, row : Row \cup {None}, flag : BOOLEAN]

CleanerType == [pc : {"sleep", "expire", "delete", "known", "sweep"}, now : Nat,
                todo : SUBSET FileIds, reaped : SUBSET FileIds,
                known : SUBSET FileIds]

\* Types, and that a row that still exists has a download left.
TypeOK ==
    /\ files \in [FileIds -> Row \cup {None}]
    /\ \A id \in FileIds : HasRow(id) => ~Spent(files[id])
    /\ blob \in [FileIds -> Nat \cup {None}]
    /\ lock \in Handlers \cup {Cleaner, None}
    /\ req \in [Handlers -> RequestType]
    /\ cleaner \in CleanerType
    /\ total_downloads \in Nat /\ clock \in Nat /\ faults \in Nat
    /\ promise \in [FileIds -> Row \cup {None}]
    /\ granted \in [FileIds -> Nat]
    /\ ordered \subseteq FileIds /\ removed \subseteq FileIds

\* However many GET requests race for the last slot, a file is downloaded at
\* most max_downloads times: a burn-after-reading file once.
DownloadLimit ==
    \A id \in FileIds : promise[id] # None /\ promise[id].max > 0 =>
        granted[id] <= promise[id].max

Due(id) ==
    /\ promise[id] # None /\ id \notin ordered
    /\ ~Expired(promise[id], clock)
    /\ promise[id].max > 0 => granted[id] < promise[id].max

\* A published file stays, row and blob, until its expiry passes, its limit is
\* used up or its sender or the admin asks for its removal: no sweep, no reap of
\* a row taken for orphaned, no failed request takes it earlier.
AvailableUntilSpent == \A id \in FileIds : Due(id) => HasRow(id) /\ blob[id] # None

\* A removal that was answered "deleted" (or "expired") left neither row nor
\* blob, whatever ran beside it.
TakedownIsFinal == \A id \in removed : ~HasRow(id) /\ blob[id] = None

\* A download is counted only on a file that is not suspended at that moment:
\* a report or the admin's suspend is never overtaken by a request that read
\* the row before it.
SuspendedNotGranted ==
    [][\A id \in FileIds : granted'[id] > granted[id] =>
           HasRow(id) /\ ~files[id].suspended]_vars

\* cleanup.py:75-77: the sweep is for blobs whose stream never ran.  A download
\* that was counted finds its blob unless somebody asked for its removal.
GrantIsServed ==
    \A h \in Handlers :
        /\ req[h].pc \in {"record", "stat", "open"}
        /\ req[h].id \notin ordered /\ ~Expired(promise[req[h].id], clock)
        => blob[req[h].id] # None

\* An expired file is gone for good at last, row and blob, whoever crashed.
ExpiredReclaimed ==
    \A id \in FileIds :
        (promise[id] # None /\ Expired(promise[id], clock))
            ~> (~HasRow(id) /\ blob[id] = None)

\* No blob outlives its row for good.
OrphansReclaimed ==
    \A id \in FileIds : (blob[id] # None /\ ~HasRow(id)) ~> (blob[id] = None)
=============================================================================
