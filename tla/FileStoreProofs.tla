---------------------------- MODULE FileStoreProofs ----------------------------
(***************************************************************************)
(* The life of a published file is as FileStore promises, for any number   *)
(* of requests, files, limits and lifetimes, whatever crashes or fails;    *)
(* it implements FileContract; and only two steps can take the blob of a   *)
(* download that was counted.                                              *)
(***************************************************************************)
EXTENDS FileRefinement, TLAPS

Locking == {"check", "count", "expired", "expired_row"}
Granted == {"record", "stat", "open", "stream"}

Past(id) == promise[id] # None /\ Expired(promise[id], clock)

\* A download holds the write lock from its BEGIN to its COMMIT or ROLLBACK, so
\* the row it read stays the row in the table; and whoever is about to take a row
\* or a blob away has a reason to: its expiry, an order, or its last download.
RequestInv(h) ==
    LET r == req[h] IN
    /\ r.pc \in Locking <=> lock = h
    /\ r.pc = "idle" => r = Idle
    /\ r.pc # "idle" => r.id \in FileIds /\ promise[r.id] # None
    /\ r.pc \in {"check", "count"} => r.row # None /\ files[r.id] = r.row
    /\ r.pc = "count" => ~r.row.suspended /\ ~Spent(r.row)
    /\ r.pc \in {"expired", "expired_row"} => Past(r.id)
    /\ r.pc \in {"del_blob", "del_row"} => Past(r.id) \/ r.id \in ordered
    /\ r.pc \in {"expired_row", "del_row"} => blob[r.id] = None
    /\ r.pc \in Granted /\ r.flag =>
           promise[r.id].max > 0 /\ granted[r.id] >= promise[r.id].max

\* The pass takes only what is expired; and what its list of rows misses was
\* published after it began, with a blob younger than the grace period.
PassInv ==
    /\ lock = Cleaner => cleaner.pc \in {"expire", "delete"}
    /\ cleaner.pc \in {"expire", "delete"} => \A id \in cleaner.todo : Past(id)
    /\ \A id \in cleaner.reaped : Past(id) /\ blob[id] = None
    /\ cleaner.now <= clock
    /\ cleaner.pc = "sweep" =>
           \A id \in FileIds :
               HasRow(id) /\ id \notin cleaner.known /\ blob[id] # None =>
                   cleaner.now < blob[id] + Grace

\* A row is the one promised, with the downloads granted; an id nobody published
\* has neither row nor blob.
RowInv(id) ==
    /\ HasRow(id) =>
           /\ promise[id] # None
           /\ files[id].max = promise[id].max /\ files[id].expiry = promise[id].expiry
           /\ files[id].downloads = granted[id]
    /\ promise[id] = None => blob[id] = None /\ granted[id] = 0 /\ id \notin removed

Promised(id) ==
    /\ promise[id] # None /\ promise[id].max > 0 => granted[id] <= promise[id].max
    /\ Due(id) => HasRow(id) /\ blob[id] # None
    /\ id \in removed => ~HasRow(id) /\ blob[id] = None

StoreInv ==
    /\ TypeOK /\ PassInv
    /\ \A h \in Handlers : RequestInv(h)
    /\ \A id \in FileIds : RowInv(id) /\ Promised(id)

-----------------------------------------------------------------------------
(* How requests move on.                                                   *)

Others(h) == \A g \in Handlers \ {h} : req'[g] = req[g]

LEMMA IdleTyped == Idle \in RequestType /\ Asleep \in CleanerType
  BY DEF Idle, Asleep, RequestType, CleanerType

LEMMA Moves ==
    ASSUME TypeOK, NEW h \in Handlers, NEW r \in RequestType,
           req' = [req EXCEPT ![h] = r]
    PROVE  req' \in [Handlers -> RequestType] /\ Others(h) /\ req'[h] = r
  BY DEF TypeOK, Others

PcType == {"idle", "expired", "expired_row", "check", "count", "record", "stat",
           "open", "stream", "del_blob", "del_row", "flag"}

LEMMA GoesTo ==
    ASSUME TypeOK, NEW h \in Handlers, NEW pc \in PcType, GoTo(h, pc)
    PROVE  /\ req' \in [Handlers -> RequestType] /\ Others(h)
           /\ req'[h] = [pc |-> pc, id |-> req[h].id, row |-> req[h].row,
                         flag |-> req[h].flag]
<1> DEFINE r == [pc |-> pc, id |-> req[h].id, row |-> req[h].row, flag |-> req[h].flag]
<1>1. r \in RequestType /\ req' = [req EXCEPT ![h] = r]
  <2>1. req[h] \in RequestType /\ req \in [Handlers -> RequestType]
    BY DEF TypeOK
  <2>2. r \in RequestType /\ r = [req[h] EXCEPT !.pc = pc]
    BY <2>1 DEF RequestType, PcType
  <2> QED BY <2>1, <2>2 DEF GoTo
<1> QED BY <1>1, Moves

LEMMA Responds ==
    ASSUME TypeOK, NEW h \in Handlers, Respond(h)
    PROVE  req' \in [Handlers -> RequestType] /\ Others(h) /\ req'[h] = Idle
  BY IdleTyped, Moves DEF Respond

-----------------------------------------------------------------------------
(* What no step undoes, and what follows for all it does not touch.        *)

Onward ==
    /\ clock <= clock' /\ ordered \subseteq ordered'
    /\ \A id \in FileIds : promise[id] # None =>
           /\ promise'[id] = promise[id] /\ granted[id] <= granted'[id]
           /\ blob[id] = None => blob'[id] = None

LEMMA PastStays ==
    ASSUME TypeOK, TypeOK', Onward, NEW id \in FileIds, Past(id)
    PROVE  Past(id)'
<1>1. promise[id] \in Row /\ promise'[id] = promise[id]
  BY DEF TypeOK, Past, Onward
<1>2. promise[id].expiry \in Nat /\ clock \in Nat /\ clock' \in Nat /\ clock <= clock'
  BY <1>1 DEF TypeOK, Row, Onward
<1> QED BY <1>1, <1>2 DEF Past, Expired

\* A request that did not move, beside one that has the lock or waits for it.
LEMMA OthersKept ==
    ASSUME StoreInv, TypeOK', Onward, NEW g \in Handlers, req'[g] = req[g],
           lock' = lock \/ (lock # g /\ lock' # g),
           lock = g => files' = files
    PROVE  RequestInv(g)'
<1> DEFINE r == req[g]
<1>1. RequestInv(g) /\ TypeOK
  BY DEF StoreInv
<1>2. r.pc \in Locking <=> lock' = g
  BY <1>1 DEF RequestInv
<1>3. CASE r.pc = "idle"
  BY <1>1, <1>2, <1>3 DEF RequestInv, Locking, Granted
<1>4. CASE r.pc # "idle"
  <2>1. r.id \in FileIds /\ promise[r.id] # None /\ promise'[r.id] = promise[r.id]
    BY <1>1, <1>4 DEF RequestInv, Onward
  <2>2. r.pc \in {"check", "count"} => files' = files
    BY <1>1 DEF RequestInv, Locking
  <2>3. Past(r.id) => Past(r.id)'
    BY <1>1, <2>1, PastStays
  <2>4. r.id \in ordered => r.id \in ordered'
    BY DEF Onward
  <2>5. blob[r.id] = None => blob'[r.id] = None
    BY <2>1 DEF Onward
  <2>6. granted[r.id] >= promise[r.id].max => granted'[r.id] >= promise[r.id].max
    <3>1. granted[r.id] \in Nat /\ granted'[r.id] \in Nat
      BY <1>1, <2>1 DEF TypeOK
    <3>2. promise[r.id] \in Row
      BY <1>1, <2>1 DEF TypeOK
    <3>3. promise[r.id].max \in Nat
      BY <3>2, BoundsAreNaturals DEF Row
    <3> QED BY <2>1, <3>1, <3>3 DEF Onward
  <2> QED BY <1>1, <1>2, <2>1, <2>2, <2>3, <2>4, <2>5, <2>6 DEF RequestInv
<1> QED BY <1>3, <1>4

\* A file nothing happened to, but that time passed and orders came.
LEMMA FilesKept ==
    ASSUME StoreInv, TypeOK', Onward, NEW id \in FileIds,
           files'[id] = files[id], blob'[id] = blob[id], promise'[id] = promise[id],
           granted'[id] = granted[id], id \in removed' => id \in removed
    PROVE  RowInv(id)' /\ Promised(id)'
<1>1. RowInv(id) /\ Promised(id) /\ TypeOK
  BY DEF StoreInv
<1>2. RowInv(id)'
  BY <1>1 DEF RowInv, HasRow
<1>3. Due(id)' => Due(id)
  <2>1. ASSUME promise[id] # None, Expired(promise[id], clock)
        PROVE  Expired(promise'[id], clock')
    BY <1>1, <2>1, PastStays DEF Past
  <2> QED BY <2>1 DEF Due, Onward
<1>4. Promised(id)'
  BY <1>1, <1>3 DEF Promised, HasRow
<1> QED BY <1>2, <1>4

\* The pass, when it rests and no row or blob appears.
LEMMA PassKept ==
    ASSUME StoreInv, TypeOK', Onward, cleaner' = cleaner,
           lock' = Cleaner => lock = Cleaner,
           \A id \in FileIds : HasRow(id)' => HasRow(id),
           \A id \in FileIds : blob'[id] = blob[id] \/ blob'[id] = None
    PROVE  PassInv'
<1>1. PassInv /\ TypeOK
  BY DEF StoreInv
<1>2. cleaner \in CleanerType
  BY <1>1 DEF TypeOK
<1>3. \A id \in FileIds : Past(id) => Past(id)'
  BY <1>1, PastStays
<1>4. cleaner.now <= clock'
  BY <1>1, <1>2 DEF PassInv, Onward, TypeOK, CleanerType
<1> QED BY <1>1, <1>2, <1>3, <1>4 DEF PassInv, CleanerType

-----------------------------------------------------------------------------
(* One step of one request, on one file.                                   *)

RequestFrame(h, id) ==
    /\ Others(h) /\ UNCHANGED <<cleaner, promise, clock>>
    /\ lock' = lock \/ (lock \in {None, h} /\ lock' \in {None, h})
    /\ files' # files => lock \in {None, h}
    /\ \A i \in FileIds \ {id} :
           /\ files'[i] = files[i] /\ blob'[i] = blob[i] /\ granted'[i] = granted[i]
           /\ i \in removed' => i \in removed
    /\ HasRow(id)' => HasRow(id)
    /\ blob'[id] \in {blob[id], None}
    /\ granted[id] <= granted'[id] /\ ordered \subseteq ordered'

LEMMA RequestStep ==
    ASSUME StoreInv, TypeOK', NEW h \in Handlers, NEW id \in FileIds,
           RequestFrame(h, id), Onward => RequestInv(h)',
           Onward => RowInv(id)' /\ Promised(id)'
    PROVE  StoreInv'
<1>1. Onward
  <2>1. \A i \in FileIds : granted[i] \in Nat /\ clock \in Nat
    BY DEF StoreInv, TypeOK
  <2>2. \A i \in FileIds :
            granted[i] <= granted'[i] /\ (blob[i] = None => blob'[i] = None)
    BY <2>1 DEF RequestFrame
  <2> QED BY <2>1, <2>2 DEF Onward, RequestFrame
<1>2. \A g \in Handlers : RequestInv(g)'
  <2>1. SUFFICES ASSUME NEW g \in Handlers, g # h
                 PROVE  RequestInv(g)'
    BY <1>1
  <2>2. req'[g] = req[g] /\ g # None
    BY <2>1, NamesAreDistinct DEF RequestFrame, Others
  <2>3. lock' = lock \/ (lock # g /\ lock' # g)
    BY <2>1, <2>2 DEF RequestFrame
  <2>4. lock = g => files' = files
    BY <2>1, <2>2 DEF RequestFrame
  <2> QED BY <1>1, <2>2, <2>3, <2>4, OthersKept
<1>3. \A i \in FileIds : RowInv(i)' /\ Promised(i)'
  <2>1. SUFFICES ASSUME NEW i \in FileIds, i # id
                 PROVE  RowInv(i)' /\ Promised(i)'
    BY <1>1
  <2>2. /\ files'[i] = files[i] /\ blob'[i] = blob[i] /\ granted'[i] = granted[i]
        /\ promise'[i] = promise[i] /\ (i \in removed' => i \in removed)
    BY <2>1 DEF RequestFrame
  <2> QED BY <1>1, <2>2, FilesKept
<1>4. PassInv'
  <2>1. lock' = Cleaner => lock = Cleaner
    BY NamesAreDistinct DEF RequestFrame
  <2>2. \A i \in FileIds : HasRow(i)' => HasRow(i)
    BY DEF RequestFrame, HasRow
  <2>3. \A i \in FileIds : blob'[i] = blob[i] \/ blob'[i] = None
    BY DEF RequestFrame
  <2>4. cleaner' = cleaner
    BY DEF RequestFrame
  <2> QED BY <1>1, <2>1, <2>2, <2>3, <2>4, PassKept
<1> QED BY <1>2, <1>3, <1>4 DEF StoreInv

\* A request that arrives, or that goes on, and touches no file.
LEMMA NoFileTouched ==
    ASSUME StoreInv, NEW h \in Handlers, NEW id \in FileIds, Others(h),
           req' \in [Handlers -> RequestType],
           UNCHANGED <<files, blob, cleaner, clock, promise, granted, removed>>,
           lock' = lock \/ (lock \in {None, h} /\ lock' \in {None, h}),
           ordered' \in {ordered, ordered \cup {id}},
           total_downloads' \in Nat, faults' \in Nat,
           Onward /\ TypeOK' => RequestInv(h)'
    PROVE  StoreInv'
<1>1. TypeOK
  BY DEF StoreInv
<1>2. TypeOK'
  <2>1. lock' \in Handlers \cup {Cleaner, None} /\ ordered' \subseteq FileIds
    BY <1>1 DEF TypeOK
  <2> QED BY <1>1, <2>1 DEF TypeOK, HasRow, Spent
<1>3. RequestFrame(h, id)
  <2>1. granted[id] <= granted'[id]
    BY <1>1 DEF TypeOK
  <2> QED BY <2>1 DEF RequestFrame, HasRow
<1>4. Onward => RowInv(id)' /\ Promised(id)'
  BY <1>2, FilesKept
<1> QED BY <1>2, <1>3, <1>4, RequestStep

-----------------------------------------------------------------------------
(* What the invariant says of a download in its transaction.               *)

LEMMA RowTyped ==
    ASSUME TypeOK, NEW id \in FileIds
    PROVE  /\ HasRow(id) => files[id] \in Row
           /\ promise[id] # None => promise[id] \in Row
           /\ granted[id] \in Nat /\ clock \in Nat
  BY DEF TypeOK, HasRow

LEMMA RowFields ==
    ASSUME NEW row \in Row
    PROVE  /\ row.max \in Nat /\ row.downloads \in Nat /\ row.expiry \in Nat
           /\ row.suspended \in BOOLEAN /\ row # None
  BY BoundsAreNaturals, NamesAreDistinct DEF Row

LEMMA Inside ==
    ASSUME StoreInv, NEW h \in Handlers, req[h].pc \in Locking
    PROVE  /\ lock = h /\ h # None /\ h # Cleaner
           /\ req[h].id \in FileIds /\ promise[req[h].id] # None
           /\ req[h].pc \in {"check", "count"} =>
                 /\ HasRow(req[h].id) /\ files[req[h].id] = req[h].row
                 /\ req[h].row \in Row
<1>1. RequestInv(h) /\ TypeOK
  BY DEF StoreInv
<1>2. lock = h /\ req[h].id \in FileIds /\ promise[req[h].id] # None
  BY <1>1 DEF RequestInv, Locking
<1>3. ASSUME req[h].pc \in {"check", "count"}
      PROVE  HasRow(req[h].id) /\ files[req[h].id] = req[h].row /\ req[h].row \in Row
  <2>1. req[h].row # None /\ files[req[h].id] = req[h].row
    BY <1>1, <1>3 DEF RequestInv
  <2> QED BY <1>1, <1>2, <2>1 DEF TypeOK, HasRow
<1> QED BY <1>2, <1>3, NamesAreDistinct

\* A request that has ended promises nothing.
LEMMA IdleInv ==
    ASSUME NEW h \in Handlers, req'[h] = Idle, lock' # h
    PROVE  RequestInv(h)'
  BY DEF RequestInv, Idle, Locking, Granted

-----------------------------------------------------------------------------
(* GET /api/file/<id>.                                                     *)

LEMMA Shape ==
    ASSUME NEW pc, NEW id, NEW row, NEW flag,
           NEW s \in [pc : {pc}, id : {id}, row : {row}, flag : {flag}]
    PROVE  s = [pc |-> pc, id |-> id, row |-> row, flag |-> flag]
  OBVIOUS

LEMMA Read ==
    ASSUME NEW pc, NEW id, NEW row
    PROVE  [Idle EXCEPT !.pc = pc, !.id = id, !.row = row]
              = [pc |-> pc, id |-> id, row |-> row, flag |-> FALSE]
<1>1. [Idle EXCEPT !.pc = pc, !.id = id, !.row = row]
         \in [pc : {pc}, id : {id}, row : {row}, flag : {FALSE}]
  BY DEF Idle
<1> QED BY <1>1, Shape

LEMMA Flagged ==
    ASSUME NEW pc, NEW id, NEW flag
    PROVE  [Idle EXCEPT !.pc = pc, !.id = id, !.flag = flag]
              = [pc |-> pc, id |-> id, row |-> None, flag |-> flag]
<1>1. [Idle EXCEPT !.pc = pc, !.id = id, !.flag = flag]
         \in [pc : {pc}, id : {id}, row : {None}, flag : {flag}]
  BY DEF Idle
<1> QED BY <1>1, Shape

LEMMA Started ==
    ASSUME NEW pc, NEW id
    PROVE  [Idle EXCEPT !.pc = pc, !.id = id]
              = [pc |-> pc, id |-> id, row |-> None, flag |-> FALSE]
<1>1. [Idle EXCEPT !.pc = pc, !.id = id]
         \in [pc : {pc}, id : {id}, row : {None}, flag : {FALSE}]
  BY DEF Idle
<1> QED BY <1>1, Shape

LEMMA GetBeginKeeps ==
    ASSUME StoreInv, NEW h \in Handlers, NEW id \in FileIds, GetBegin(h, id)
    PROVE  StoreInv'
<1> DEFINE pc == IF Expired(files[id], clock) THEN "expired" ELSE "check"
           r == [pc |-> pc, id |-> id, row |-> files[id], flag |-> FALSE]
<1>1. TypeOK /\ RowInv(id) /\ HasRow(id)
  BY DEF StoreInv, GetBegin
<1>2. r \in RequestType /\ req' = [req EXCEPT ![h] = r]
  <2>1. files[id] \in Row
    BY <1>1, RowTyped
  <2>2. pc \in {"expired", "check"}
    OBVIOUS
  <2> HIDE DEF pc
  <2>3. r \in RequestType
    BY <2>1, <2>2 DEF RequestType
  <2>4. [Idle EXCEPT !.pc = pc, !.id = id, !.row = files[id]] = r
    BY Read
  <2> QED BY <2>3, <2>4 DEF GetBegin, pc
<1>3. req' \in [Handlers -> RequestType] /\ Others(h) /\ req'[h] = r
  BY <1>1, <1>2, Moves
<1>4. ASSUME Onward, TypeOK'
      PROVE  RequestInv(h)'
  <2>1. lock' = h /\ files' = files /\ promise' = promise /\ clock' = clock
    BY DEF GetBegin, history
  <2>2. promise[id] # None /\ files[id].expiry = promise[id].expiry
    BY <1>1 DEF RowInv
  <2>3. r.pc = "expired" => Past(id)
    BY <2>2 DEF Past, Expired
  <2> QED BY <1>1, <1>3, <2>1, <2>2, <2>3
      DEF RequestInv, Locking, Granted, Past, HasRow
<1> QED
  <2>1. /\ UNCHANGED <<files, blob, cleaner, clock, promise, granted, removed>>
        /\ lock \in {None, h} /\ lock' \in {None, h} /\ ordered' = ordered
        /\ total_downloads' \in Nat /\ faults' \in Nat
    BY <1>1 DEF GetBegin, history, TypeOK, Free
  <2> QED BY <1>3, <1>4, <2>1, NoFileTouched

LEMMA GetExpiredKeeps ==
    ASSUME StoreInv, NEW h \in Handlers, GetExpired(h)
    PROVE  StoreInv'
<1> PICK id \in FileIds : id = req[h].id
  BY Inside DEF GetExpired, At, Locking
<1>1. TypeOK /\ RequestInv(h) /\ lock = h /\ promise[id] # None
  BY Inside DEF StoreInv, GetExpired, At, Locking
<1>2. Past(id) /\ RowInv(id) /\ Promised(id)
  BY <1>1 DEF StoreInv, RequestInv, GetExpired, At
<1>3. req' \in [Handlers -> RequestType] /\ Others(h)
      /\ req'[h] = [pc |-> "expired_row", id |-> id, row |-> req[h].row,
                    flag |-> req[h].flag]
  BY <1>1, GoesTo DEF GetExpired, PcType
<1>4. /\ UNCHANGED <<files, lock, cleaner, clock, promise, granted, ordered, removed>>
      /\ total_downloads' = total_downloads /\ faults' = faults
      /\ blob' = [blob EXCEPT ![id] = None]
  BY DEF GetExpired, RemoveBlob, history
<1>5. TypeOK'
  BY <1>1, <1>3, <1>4 DEF TypeOK, HasRow, Spent
<1>6. RequestFrame(h, id)
  BY <1>1, <1>3, <1>4 DEF RequestFrame, HasRow, TypeOK
<1>7. RequestInv(h)'
  BY <1>1, <1>2, <1>3, <1>4 DEF RequestInv, Locking, Granted, Past, TypeOK
<1>8. RowInv(id)'
  BY <1>2, <1>4 DEF RowInv, HasRow
<1>9. Promised(id)'
  BY <1>2, <1>4 DEF Promised, Due, Past, HasRow
<1> QED BY <1>5, <1>6, <1>7, <1>8, <1>9, RequestStep

LEMMA GetReapKeeps ==
    ASSUME StoreInv, NEW h \in Handlers, GetReap(h)
    PROVE  StoreInv'
<1> PICK id \in FileIds : id = req[h].id
  BY Inside DEF GetReap, At, Locking
<1>1. TypeOK /\ RequestInv(h) /\ lock = h /\ h # None /\ promise[id] # None
  BY Inside DEF StoreInv, GetReap, At, Locking
<1>2. RowInv(id) /\ Promised(id) /\ (Past(id) \/ blob[id] = None)
  BY <1>1 DEF StoreInv, RequestInv, GetReap, At
<1>3. req' \in [Handlers -> RequestType] /\ Others(h) /\ req'[h] = Idle
  BY <1>1, Responds DEF GetReap
<1>4. /\ UNCHANGED <<blob, cleaner, clock, promise, granted, ordered, removed>>
      /\ total_downloads' = total_downloads /\ faults' = faults
      /\ files' = [files EXCEPT ![id] = None] /\ lock' = None
  BY <1>1 DEF GetReap, DeleteRow, Release, history
<1>5. TypeOK'
  <2>1. \A i \in FileIds : HasRow(i)' => HasRow(i) /\ files'[i] = files[i]
    BY <1>1, <1>4 DEF TypeOK, HasRow
  <2> QED BY <1>1, <1>3, <1>4, <2>1 DEF TypeOK, Spent
<1>6. RequestFrame(h, id)
  BY <1>1, <1>3, <1>4 DEF RequestFrame, HasRow, TypeOK
<1>7. RequestInv(h)'
  BY <1>1, <1>3, <1>4, IdleInv
<1>8. RowInv(id)'
  BY <1>2, <1>4 DEF RowInv, HasRow
<1>9. Promised(id)'
  BY <1>2, <1>4 DEF Promised, Due, Past, HasRow
<1> QED BY <1>5, <1>6, <1>7, <1>8, <1>9, RequestStep

\* A request that ends without a trace but for a fault that struck.
LEMMA EndKeeps ==
    ASSUME StoreInv, NEW h \in Handlers, Respond(h),
           (lock' = lock /\ lock # h) \/ (lock = h /\ lock' = None),
           req[h].pc # "idle", faults' \in Nat, total_downloads' \in Nat,
           UNCHANGED <<files, blob, cleaner, clock, promise, granted, ordered,
                       removed>>
    PROVE  StoreInv'
<1>1. TypeOK /\ RequestInv(h) /\ h # None
  BY NamesAreDistinct DEF StoreInv
<1>2. req[h].id \in FileIds
  BY <1>1 DEF RequestInv
<1>3. req' \in [Handlers -> RequestType] /\ Others(h) /\ req'[h] = Idle
  BY <1>1, Responds
<1>4. RequestInv(h)'
  BY <1>1, <1>3, IdleInv
<1> QED BY <1>1, <1>2, <1>3, <1>4, NoFileTouched

LEMMA GetRollbackKeeps ==
    ASSUME StoreInv, NEW h \in Handlers, GetRollback(h)
    PROVE  StoreInv'
<1>1. TypeOK /\ lock = h /\ req[h].pc # "idle"
  BY Inside DEF StoreInv, GetRollback, At, Locking
<1>2. faults' \in Nat
  BY <1>1 DEF GetRollback, Strikes, TypeOK
<1>3. /\ Respond(h) /\ lock' = None
      /\ UNCHANGED <<files, blob, cleaner, clock, promise, granted, ordered, removed>>
      /\ total_downloads' \in Nat
  BY <1>1 DEF GetRollback, Release, history, TypeOK
<1> QED BY <1>1, <1>2, <1>3, EndKeeps

LEMMA GetFoundKeeps ==
    ASSUME StoreInv, NEW h \in Handlers, GetFound(h)
    PROVE  StoreInv'
<1> PICK id \in FileIds : id = req[h].id
  BY Inside DEF GetFound, At, Locking
<1>1. TypeOK /\ RequestInv(h) /\ req[h].pc = "check"
  BY DEF StoreInv, GetFound, At
<1>2. /\ req' \in [Handlers -> RequestType] /\ Others(h)
      /\ req'[h] = [pc |-> "count", id |-> id, row |-> req[h].row,
                    flag |-> req[h].flag]
  BY <1>1, GoesTo DEF GetFound, PcType
<1>3. /\ UNCHANGED <<files, blob, lock, cleaner, clock, promise, granted, removed,
                     ordered>>
      /\ total_downloads' \in Nat /\ faults' \in Nat
  BY <1>1 DEF GetFound, history, TypeOK
<1>4. ~req[h].row.suspended /\ ~Spent(req[h].row)
  BY DEF GetFound
<1>5. RequestInv(h)'
  BY <1>1, <1>2, <1>3, <1>4 DEF RequestInv, Locking, Granted, Past, Spent
<1> QED BY <1>2, <1>3, <1>5, NoFileTouched

LEMMA GetGrantKeeps ==
    ASSUME StoreInv, NEW h \in Handlers, GetGrant(h)
    PROVE  StoreInv'
<1> PICK id \in FileIds : id = req[h].id
  BY Inside DEF GetGrant, At, Locking
<1> DEFINE row == req[h].row
<1>1. /\ TypeOK /\ lock = h /\ promise[id] # None /\ h # None
      /\ HasRow(id) /\ files[id] = row /\ row \in Row
  BY Inside DEF StoreInv, GetGrant, At, Locking
<1>2. RowInv(id) /\ Promised(id) /\ ~Spent(row)
  BY <1>1 DEF StoreInv, RequestInv, GetGrant, At
<1>3. /\ row.max = promise[id].max /\ row.expiry = promise[id].expiry
      /\ row.downloads = granted[id]
  BY <1>1, <1>2 DEF RowInv
<1>4. /\ row.max \in Nat /\ row.downloads \in Nat /\ row.max \in Limits
      /\ row.suspended \in BOOLEAN /\ row.expiry \in Nat
  BY <1>1, RowFields DEF Row
<1> DEFINE counted == [max |-> row.max, downloads |-> row.downloads + 1,
                       suspended |-> row.suspended, expiry |-> row.expiry]
           q == [pc |-> "record", id |-> id, row |-> None, flag |-> LastSlot(row)]
<1>5. /\ UNCHANGED <<blob, cleaner, clock, promise, ordered, removed>>
      /\ total_downloads' = total_downloads /\ faults' = faults
      /\ lock' = None /\ granted' = [granted EXCEPT ![id] = @ + 1]
  BY <1>1 DEF GetGrant, Release
<1>6. files' = [files EXCEPT ![id] = IF LastSlot(row) THEN None ELSE counted]
  <2>1. [files[id] EXCEPT !.downloads = row.downloads + 1] = counted
    BY <1>1 DEF Row
  <2> QED BY <1>1, <2>1 DEF GetGrant, HasRow
<1>7. q \in RequestType /\ req' = [req EXCEPT ![h] = q]
  <2>1. req[h] \in RequestType
    BY <1>1 DEF TypeOK
  <2>2. q \in RequestType
    BY <1>1 DEF LastSlot, RequestType
  <2>3. /\ req'[h].pc = "record" /\ req'[h].flag = LastSlot(row)
        /\ req'[h].row = None /\ req'[h].id = id
    BY <1>1, <2>1 DEF GetGrant, TypeOK, RequestType
  <2>4. req' = [req EXCEPT ![h] = req'[h]]
    BY <1>1 DEF GetGrant, TypeOK
  <2>5. req'[h] \in [pc : PcType, id : FileIds, row : {None}, flag : BOOLEAN]
    BY <1>1, <2>1 DEF GetGrant, TypeOK, RequestType, PcType, LastSlot
  <2> QED BY <2>2, <2>3, <2>4, <2>5
<1>8. req' \in [Handlers -> RequestType] /\ Others(h) /\ req'[h] = q
  BY <1>1, <1>7, Moves
<1>9. counted \in Row /\ (~LastSlot(row) => ~Spent(counted))
  BY <1>4 DEF Row, Spent, LastSlot
<1>10. granted[id] \in Nat /\ granted'[id] = granted[id] + 1
  BY <1>1, <1>5 DEF TypeOK
<1>11. TypeOK'
  <2>1. files' \in [FileIds -> Row \cup {None}]
    BY <1>1, <1>6, <1>9 DEF TypeOK
  <2>2. \A i \in FileIds : HasRow(i)' => ~Spent(files'[i])
    BY <1>1, <1>6, <1>9 DEF TypeOK, HasRow
  <2>3. granted' \in [FileIds -> Nat]
    BY <1>1, <1>5 DEF TypeOK
  <2> QED BY <1>1, <1>5, <1>8, <2>1, <2>2, <2>3 DEF TypeOK, HasRow
<1>12. RequestFrame(h, id)
  BY <1>1, <1>5, <1>6, <1>8, <1>10 DEF RequestFrame, TypeOK
<1>13. RequestInv(h)'
  <2>1. LastSlot(row) => promise[id].max > 0 /\ granted'[id] >= promise[id].max
    BY <1>3, <1>4, <1>10 DEF LastSlot
  <2> QED BY <1>1, <1>5, <1>8, <2>1 DEF RequestInv, Locking, Granted
<1>14. RowInv(id)'
  <2>1. HasRow(id)' => files'[id] = counted
    BY <1>1, <1>6 DEF TypeOK, HasRow
  <2> QED BY <1>1, <1>3, <1>5, <1>10, <2>1 DEF RowInv, HasRow
<1>15. Promised(id)'
  <2>1. promise[id].max > 0 => granted'[id] <= promise[id].max
    BY <1>2, <1>3, <1>4, <1>10 DEF Spent
  <2>2. Due(id)' => ~LastSlot(row)
    BY <1>3, <1>4, <1>5, <1>10 DEF Due, LastSlot
  <2>3. ~LastSlot(row) => HasRow(id)'
    BY <1>1, <1>6, <1>9, RowFields DEF TypeOK, HasRow
  <2>4. id \notin removed
    BY <1>1, <1>2 DEF Promised
  <2>5. Due(id)' => blob[id] # None
    <3>1. Due(id)' => Due(id)
      BY <1>2, <1>3, <1>4, <1>5, <1>10 DEF Due, Spent
    <3> QED BY <1>2, <3>1 DEF Promised
  <2> QED BY <1>2, <1>5, <2>1, <2>2, <2>3, <2>4, <2>5 DEF Promised
<1> QED BY <1>1, <1>11, <1>12, <1>13, <1>14, <1>15, RequestStep

LEMMA GetRecordKeeps ==
    ASSUME StoreInv, NEW h \in Handlers, GetRecord(h)
    PROVE  StoreInv'
<1>1. TypeOK /\ RequestInv(h)
  BY DEF StoreInv
<1> PICK id \in FileIds : id = req[h].id
  BY <1>1 DEF RequestInv, GetRecord, At
<1>2. /\ req' \in [Handlers -> RequestType] /\ Others(h)
      /\ req'[h] = [pc |-> "stat", id |-> id, row |-> req[h].row, flag |-> req[h].flag]
  BY <1>1, GoesTo DEF GetRecord, PcType
<1>3. /\ UNCHANGED <<files, blob, lock, cleaner, clock, promise, granted, removed,
                     ordered>>
      /\ total_downloads' \in Nat /\ faults' \in Nat
  BY <1>1 DEF GetRecord, history, TypeOK
<1>4. RequestInv(h)'
  BY <1>1, <1>2, <1>3 DEF RequestInv, Locking, Granted, Past, GetRecord, At
<1> QED BY <1>2, <1>3, <1>4, NoFileTouched

\* The download goes from one of its steps to the next, and changes nothing else.
LEMMA StreamKeeps ==
    ASSUME StoreInv, NEW h \in Handlers, NEW pc \in Granted, GoTo(h, pc),
           req[h].pc \in Granted,
           UNCHANGED <<files, blob, lock, cleaner, total_downloads, clock, history,
                       faults>>
    PROVE  StoreInv'
<1>1. TypeOK /\ RequestInv(h)
  BY DEF StoreInv
<1> PICK id \in FileIds : id = req[h].id
  BY <1>1 DEF RequestInv, Granted
<1>2. /\ req' \in [Handlers -> RequestType] /\ Others(h)
      /\ req'[h] = [pc |-> pc, id |-> id, row |-> req[h].row, flag |-> req[h].flag]
  BY <1>1, GoesTo DEF Granted, PcType
<1>3. /\ UNCHANGED <<files, blob, lock, cleaner, clock, promise, granted, removed,
                     ordered>>
      /\ total_downloads' \in Nat /\ faults' \in Nat
  BY <1>1 DEF history, TypeOK
<1>4. RequestInv(h)'
  BY <1>1, <1>2, <1>3 DEF RequestInv, Locking, Granted, Past
<1> QED BY <1>2, <1>3, <1>4, NoFileTouched

\* Outside its transaction a request that ends gives nothing back.
LEMMA LeaveKeeps ==
    ASSUME StoreInv, NEW h \in Handlers, Respond(h), req[h].pc # "idle",
           req[h].pc \notin Locking, faults' \in Nat,
           UNCHANGED <<files, blob, lock, cleaner, total_downloads, clock, history>>
    PROVE  StoreInv'
<1>1. TypeOK /\ RequestInv(h)
  BY DEF StoreInv
<1>2. lock # h
  BY <1>1 DEF RequestInv
<1>3. /\ UNCHANGED <<files, blob, lock, cleaner, clock, promise, granted, ordered,
                     removed>>
      /\ total_downloads' \in Nat
  BY <1>1 DEF history, TypeOK
<1> QED BY <1>2, <1>3, EndKeeps

LEMMA GetFinallyKeeps ==
    ASSUME StoreInv, NEW h \in Handlers, GetFinally(h)
    PROVE  StoreInv'
<1>1. TypeOK /\ RequestInv(h) /\ req[h].pc \in {"stream", "open"}
  BY DEF StoreInv, GetFinally, At
<1> PICK id \in FileIds : id = req[h].id
  BY <1>1 DEF RequestInv
<1>2. RowInv(id) /\ Promised(id) /\ promise[id] # None /\ lock # h
  BY <1>1 DEF StoreInv, RequestInv, Locking
<1>3. CASE ~req[h].flag
  <2>1. faults' \in Nat /\ Respond(h)
        /\ UNCHANGED <<files, blob, lock, cleaner, total_downloads, clock, history>>
    BY <1>1, <1>3 DEF GetFinally, TypeOK
  <2> QED BY <1>1, <2>1, LeaveKeeps DEF Locking
<1>4. CASE req[h].flag
  <2>1. /\ UNCHANGED <<files, lock, cleaner, clock, promise, granted, ordered,
                       removed>>
        /\ total_downloads' = total_downloads /\ faults' = faults
        /\ blob' = [blob EXCEPT ![id] = None] /\ Respond(h)
    BY <1>4 DEF GetFinally, RemoveBlob, history
  <2>2. req' \in [Handlers -> RequestType] /\ Others(h) /\ req'[h] = Idle
    BY <1>1, <2>1, Responds
  <2>3. TypeOK'
    BY <1>1, <2>1, <2>2 DEF TypeOK, HasRow, Spent
  <2>4. RequestFrame(h, id)
    BY <1>1, <2>1, <2>2 DEF RequestFrame, HasRow, TypeOK
  <2>5. RequestInv(h)'
    BY <1>2, <2>1, <2>2, IdleInv
  <2>6. RowInv(id)'
    BY <1>2, <2>1 DEF RowInv, HasRow
  <2>7. ~Due(id)'
    <3>1. promise[id].max > 0 /\ granted[id] >= promise[id].max
      BY <1>1, <1>4 DEF RequestInv, Granted
    <3>2. granted[id] \in Nat /\ promise[id].max \in Nat
      BY <1>1, <1>2, RowTyped, RowFields
    <3> QED BY <2>1, <3>1, <3>2 DEF Due
  <2>8. Promised(id)'
    BY <1>1, <1>2, <2>1, <2>7 DEF Promised, HasRow, TypeOK
  <2> QED BY <2>3, <2>4, <2>5, <2>6, <2>8, RequestStep
<1> QED BY <1>3, <1>4

-----------------------------------------------------------------------------
(* Removal, suspension, and what ends in a 500 or a crash.                 *)

\* Order and ViewExpired: a removal begins for a reason.
LEMMA RemovalKeeps ==
    ASSUME StoreInv, NEW h \in Handlers, NEW id \in FileIds, At(h, "idle"),
           HasRow(id), Start(h, "del_blob", id), Past(id) \/ id \in ordered',
           ordered' \in {ordered, ordered \cup {id}},
           UNCHANGED <<files, blob, lock, cleaner, total_downloads, clock, promise,
                       granted, removed, faults>>
    PROVE  StoreInv'
<1> DEFINE r == [pc |-> "del_blob", id |-> id, row |-> None, flag |-> FALSE]
<1>1. TypeOK /\ RequestInv(h) /\ RowInv(id)
  BY DEF StoreInv
<1>2. req' = [req EXCEPT ![h] = r]
  BY Started DEF Start
<1>3. r \in RequestType
  BY DEF RequestType
<1>4. req' \in [Handlers -> RequestType] /\ Others(h) /\ req'[h] = r
  BY <1>1, <1>2, <1>3, Moves
<1>5. RequestInv(h)'
  <2>1. promise[id] # None /\ lock # h
    BY <1>1 DEF RowInv, RequestInv, At, Locking
  <2> QED BY <1>4, <2>1 DEF RequestInv, Locking, Granted, Past
<1>6. total_downloads' \in Nat /\ faults' \in Nat
  BY <1>1 DEF TypeOK
<1> QED BY <1>4, <1>5, <1>6, NoFileTouched

LEMMA OrderKeeps ==
    ASSUME StoreInv, NEW h \in Handlers, NEW id \in FileIds, Order(h, id)
    PROVE  StoreInv'
  BY RemovalKeeps DEF Order, Arrives

LEMMA ViewExpiredKeeps ==
    ASSUME StoreInv, NEW h \in Handlers, NEW id \in FileIds, ViewExpired(h, id)
    PROVE  StoreInv'
<1>1. Past(id)
  <2>1. RowInv(id) /\ HasRow(id)
    BY DEF StoreInv, ViewExpired
  <2> QED BY <2>1 DEF ViewExpired, RowInv, Past, Expired
<1> QED BY <1>1, RemovalKeeps DEF ViewExpired, Arrives, history

LEMMA DelBlobKeeps ==
    ASSUME StoreInv, NEW h \in Handlers, DelBlob(h)
    PROVE  StoreInv'
<1>1. TypeOK /\ RequestInv(h) /\ req[h].pc = "del_blob"
  BY DEF StoreInv, DelBlob, At
<1> PICK id \in FileIds : id = req[h].id
  BY <1>1 DEF RequestInv
<1>2. /\ RowInv(id) /\ Promised(id) /\ promise[id] # None /\ lock # h
      /\ Past(id) \/ id \in ordered
  BY <1>1 DEF StoreInv, RequestInv, Locking
<1>3. req' \in [Handlers -> RequestType] /\ Others(h)
      /\ req'[h] = [pc |-> "del_row", id |-> id, row |-> req[h].row,
                    flag |-> req[h].flag]
  BY <1>1, GoesTo DEF DelBlob, PcType
<1>4. /\ UNCHANGED <<files, lock, cleaner, clock, promise, granted, ordered, removed>>
      /\ total_downloads' = total_downloads /\ faults' = faults
      /\ blob' = [blob EXCEPT ![id] = None]
  BY DEF DelBlob, RemoveBlob, history
<1>5. TypeOK'
  BY <1>1, <1>3, <1>4 DEF TypeOK, HasRow, Spent
<1>6. RequestFrame(h, id)
  BY <1>1, <1>3, <1>4 DEF RequestFrame, HasRow, TypeOK
<1>7. RequestInv(h)'
  BY <1>1, <1>2, <1>3, <1>4 DEF RequestInv, Locking, Granted, Past, TypeOK
<1>8. RowInv(id)'
  BY <1>2, <1>4 DEF RowInv, HasRow
<1>9. Promised(id)'
  BY <1>1, <1>2, <1>4 DEF Promised, Due, Past, HasRow, TypeOK
<1> QED BY <1>5, <1>6, <1>7, <1>8, <1>9, RequestStep

LEMMA DelRowKeeps ==
    ASSUME StoreInv, NEW h \in Handlers, DelRow(h)
    PROVE  StoreInv'
<1>1. TypeOK /\ RequestInv(h) /\ req[h].pc = "del_row"
  BY DEF StoreInv, DelRow, At
<1> PICK id \in FileIds : id = req[h].id
  BY <1>1 DEF RequestInv
<1>2. /\ RowInv(id) /\ Promised(id) /\ promise[id] # None /\ blob[id] = None
      /\ lock = None /\ h # None
  BY <1>1, NamesAreDistinct DEF StoreInv, RequestInv, DelRow, Free
<1>3. req' \in [Handlers -> RequestType] /\ Others(h) /\ req'[h] = Idle
  BY <1>1, Responds DEF DelRow
<1>4. /\ UNCHANGED <<blob, lock, cleaner, clock, promise, granted, ordered>>
      /\ total_downloads' = total_downloads /\ faults' = faults
      /\ files' = [files EXCEPT ![id] = None] /\ removed' = removed \cup {id}
  BY DEF DelRow, DeleteRow
<1>5. TypeOK'
  <2>1. \A i \in FileIds : HasRow(i)' => HasRow(i) /\ files'[i] = files[i]
    BY <1>1, <1>4 DEF TypeOK, HasRow
  <2> QED BY <1>1, <1>3, <1>4, <2>1 DEF TypeOK, Spent
<1>6. RequestFrame(h, id)
  BY <1>1, <1>2, <1>3, <1>4 DEF RequestFrame, HasRow, TypeOK
<1>7. RequestInv(h)'
  BY <1>2, <1>3, <1>4, IdleInv
<1>8. RowInv(id)'
  BY <1>1, <1>2, <1>4 DEF RowInv, HasRow, TypeOK
<1>9. Promised(id)'
  BY <1>1, <1>2, <1>4 DEF Promised, Due, HasRow, TypeOK
<1> QED BY <1>5, <1>6, <1>7, <1>8, <1>9, RequestStep

LEMMA FlagKeeps ==
    ASSUME StoreInv, NEW h \in Handlers, NEW id \in FileIds, NEW value \in BOOLEAN,
           Flag(h, id, value)
    PROVE  StoreInv'
<1> DEFINE r == [pc |-> "flag", id |-> id, row |-> None, flag |-> value]
<1>1. TypeOK /\ RequestInv(h) /\ RowInv(id) /\ HasRow(id) /\ req[h].pc = "idle"
  BY DEF StoreInv, Flag, Arrives, At
<1>2. req' = [req EXCEPT ![h] = r]
  BY Flagged DEF Flag
<1>3. r \in RequestType
  BY DEF RequestType
<1>4. req' \in [Handlers -> RequestType] /\ Others(h) /\ req'[h] = r
  BY <1>1, <1>2, <1>3, Moves
<1>5. /\ UNCHANGED <<files, blob, lock, cleaner, clock, promise, granted, removed,
                     ordered>>
      /\ total_downloads' \in Nat /\ faults' \in Nat
  BY <1>1 DEF Flag, history, TypeOK
<1>6. RequestInv(h)'
  <2>1. promise[id] # None /\ lock # h
    BY <1>1 DEF RowInv, RequestInv, Locking
  <2> QED BY <1>4, <1>5, <2>1 DEF RequestInv, Locking, Granted
<1> QED BY <1>4, <1>5, <1>6, NoFileTouched

LEMMA SetSuspendedKeeps ==
    ASSUME StoreInv, NEW h \in Handlers, SetSuspended(h)
    PROVE  StoreInv'
<1>1. TypeOK /\ RequestInv(h) /\ req[h].pc = "flag"
  BY DEF StoreInv, SetSuspended, At
<1> PICK id \in FileIds : id = req[h].id
  BY <1>1 DEF RequestInv
<1>2. /\ RowInv(id) /\ Promised(id) /\ promise[id] # None
      /\ lock = None /\ h # None
  BY <1>1, NamesAreDistinct DEF StoreInv, RequestInv, SetSuspended, Free
<1>3. req' \in [Handlers -> RequestType] /\ Others(h) /\ req'[h] = Idle
  BY <1>1, Responds DEF SetSuspended
<1> DEFINE row == files[id]
           marked == [max |-> row.max, downloads |-> row.downloads,
                      suspended |-> req[h].flag, expiry |-> row.expiry]
<1>4. /\ UNCHANGED <<blob, lock, cleaner, clock, promise, granted, ordered, removed>>
      /\ total_downloads' = total_downloads /\ faults' = faults
  BY DEF SetSuspended, history
<1>5. files' = [files EXCEPT ![id] = IF row = None THEN None ELSE marked]
  <2>1. row # None => [row EXCEPT !.suspended = req[h].flag] = marked
    BY <1>1 DEF TypeOK, Row
  <2> QED BY <2>1 DEF SetSuspended
<1>6. row # None => marked \in Row /\ ~Spent(marked) /\ marked # None
  <2>1. req[h].flag \in BOOLEAN
    BY <1>1 DEF TypeOK, RequestType
  <2> QED BY <1>1, <2>1, NamesAreDistinct DEF TypeOK, Row, HasRow, Spent
<1>7. TypeOK'
  <2>1. files' \in [FileIds -> Row \cup {None}]
    BY <1>1, <1>5, <1>6 DEF TypeOK
  <2>2. \A i \in FileIds : HasRow(i)' => ~Spent(files'[i])
    BY <1>1, <1>5, <1>6 DEF TypeOK, HasRow
  <2> QED BY <1>1, <1>3, <1>4, <2>1, <2>2 DEF TypeOK, HasRow
<1>8. HasRow(id)' <=> HasRow(id)
  BY <1>1, <1>5, <1>6 DEF TypeOK, HasRow
<1>9. RequestFrame(h, id)
  BY <1>1, <1>2, <1>3, <1>4, <1>5, <1>8 DEF RequestFrame, TypeOK
<1>10. RequestInv(h)'
  BY <1>2, <1>3, <1>4, IdleInv
<1>11. RowInv(id)'
  <2>1. HasRow(id)' => files'[id] = marked
    BY <1>1, <1>5 DEF TypeOK, HasRow
  <2> QED BY <1>2, <1>4, <1>8, <2>1 DEF RowInv
<1>12. Promised(id)'
  BY <1>2, <1>4, <1>8 DEF Promised, Due
<1> QED BY <1>7, <1>9, <1>10, <1>11, <1>12, RequestStep

\* GetAborts and WriteFails.
LEMMA AbortsKeep ==
    ASSUME StoreInv, NEW h \in Handlers, GetAborts(h) \/ WriteFails(h)
    PROVE  StoreInv'
<1>1. TypeOK /\ req[h].pc # "idle" /\ req[h].pc \notin Locking
  BY DEF StoreInv, GetAborts, WriteFails, At, Locking
<1>2. faults' \in Nat
  BY <1>1 DEF GetAborts, WriteFails, DbRaises, Strikes, TypeOK
<1>3. Respond(h)
      /\ UNCHANGED <<files, blob, lock, cleaner, total_downloads, clock, history>>
  BY DEF GetAborts, WriteFails
<1> QED BY <1>1, <1>2, <1>3, LeaveKeeps

LEMMA CrashKeeps ==
    ASSUME StoreInv, NEW h \in Handlers, Crash(h)
    PROVE  StoreInv'
<1>1. TypeOK /\ RequestInv(h)
  BY DEF StoreInv
<1>2. faults' \in Nat /\ total_downloads' \in Nat /\ req[h].pc # "idle"
  BY <1>1 DEF Crash, Strikes, TypeOK, RequestInv
<1>3. /\ Respond(h)
      /\ UNCHANGED <<files, blob, cleaner, clock, promise, granted, ordered, removed>>
      /\ (lock' = lock /\ lock # h) \/ (lock = h /\ lock' = None)
  BY DEF Crash, Release, history
<1> QED BY <1>2, <1>3, EndKeeps

-----------------------------------------------------------------------------
(* A publication, the cleanup pass, and time.                              *)

LEMMA PublishKeeps ==
    ASSUME StoreInv, NEW id \in FileIds, NEW max \in Limits, NEW life \in Lifetimes,
           NEW age \in 0 .. MaxAge, Publish(id, max, life, age)
    PROVE  StoreInv'
<1> DEFINE row == [max |-> max, downloads |-> 0, suspended |-> FALSE,
                   expiry |-> clock + life]
<1>1. TypeOK /\ PassInv /\ RowInv(id) /\ promise[id] = None /\ lock = None
  BY DEF StoreInv, Publish, Free
<1>2. /\ UNCHANGED <<lock, req, cleaner, total_downloads, clock, granted, ordered,
                     removed, faults>>
      /\ files' = [files EXCEPT ![id] = row]
      /\ promise' = [promise EXCEPT ![id] = row]
      /\ blob' = [blob EXCEPT ![id] = clock - age]
  BY DEF Publish
<1>3. row \in Row /\ row # None /\ ~Spent(row)
  <2>1. max \in Nat /\ life \in Nat /\ clock \in Nat
    BY <1>1, BoundsAreNaturals DEF TypeOK
  <2>2. row \in Row
    BY <2>1 DEF Row
  <2>3. row # None
    BY <2>2, RowFields
  <2>4. ~Spent(row)
    BY <2>1 DEF Spent
  <2> QED BY <2>2, <2>3, <2>4
<1>4. clock - age \in Nat /\ clock - age # None /\ clock \in Nat /\ age < Grace
      /\ Grace \in Nat /\ age \in Nat
  <2>1. age <= clock /\ clock \in Nat /\ age \in Nat /\ age <= MaxAge
    BY <1>1, BoundsAreNaturals DEF Publish, TypeOK
  <2>2. clock - age \in Nat
    BY <2>1
  <2> QED BY <2>1, <2>2, NamesAreDistinct, BoundsAreNaturals, PublishedPromptly
<1>5. TypeOK'
  <2>1. /\ files' \in [FileIds -> Row \cup {None}]
        /\ promise' \in [FileIds -> Row \cup {None}]
    BY <1>1, <1>2, <1>3 DEF TypeOK
  <2>2. blob' \in [FileIds -> Nat \cup {None}]
    BY <1>1, <1>2, <1>4 DEF TypeOK
  <2>3. \A i \in FileIds : HasRow(i)' => ~Spent(files'[i])
    BY <1>1, <1>2, <1>3 DEF TypeOK, HasRow
  <2> QED BY <1>1, <1>2, <2>1, <2>2, <2>3 DEF TypeOK, HasRow
<1>6. Onward
  BY <1>1, <1>2 DEF Onward, TypeOK
<1>7. \A g \in Handlers : RequestInv(g)'
  BY <1>1, <1>2, <1>5, <1>6, OthersKept, NamesAreDistinct
<1>8. RowInv(id)' /\ Promised(id)'
  <2>1. files'[id] = row /\ promise'[id] = row /\ blob'[id] = clock - age
    BY <1>1, <1>2 DEF TypeOK
  <2>2. granted'[id] = 0 /\ id \notin removed'
    BY <1>1, <1>2 DEF RowInv
  <2>3. row.max \in Nat
    BY <1>3, RowFields
  <2>4. RowInv(id)'
    BY <1>3, <2>1, <2>2 DEF RowInv, HasRow
  <2>5. Promised(id)'
    BY <1>3, <1>4, <2>1, <2>2, <2>3 DEF Promised, HasRow
  <2> QED BY <2>4, <2>5
<1>9. \A i \in FileIds \ {id} : RowInv(i)' /\ Promised(i)'
  BY <1>1, <1>2, <1>5, <1>6, FilesKept DEF TypeOK
<1>10. PassInv'
  <2>1. \A i \in FileIds : Past(i) => Past(i)'
    BY <1>1, <1>5, <1>6, PastStays
  <2>2. ASSUME cleaner.pc = "sweep", NEW i \in FileIds, HasRow(i)',
               i \notin cleaner.known, blob'[i] # None
        PROVE  cleaner.now < blob'[i] + Grace
    <3>1. CASE i = id
      <4>1. cleaner.now \in Nat /\ cleaner.now <= clock
        BY <1>1 DEF TypeOK, CleanerType, PassInv
      <4>2. blob'[i] = clock - age
        BY <1>1, <1>2, <3>1 DEF TypeOK
      <4> QED BY <1>4, <4>1, <4>2
    <3>2. CASE i # id
      <4>1. HasRow(i) /\ blob'[i] = blob[i]
        BY <1>1, <1>2, <2>2, <3>2 DEF TypeOK, HasRow
      <4> QED BY <1>1, <2>2, <4>1 DEF PassInv
    <3> QED BY <3>1, <3>2
  <2>3. cleaner.todo \subseteq FileIds /\ cleaner.reaped \subseteq FileIds
    BY <1>1 DEF TypeOK, CleanerType
  <2>4. \A i \in cleaner.reaped : blob'[i] = None
    BY <1>1, <1>2, <2>3 DEF PassInv, Past, TypeOK
  <2> QED BY <1>1, <1>2, <2>1, <2>2, <2>3, <2>4 DEF PassInv
<1> QED BY <1>5, <1>7, <1>8, <1>9, <1>10 DEF StoreInv

\* A step of the pass takes a row or a blob from nobody to whom it is due.
LEMMA PassStep ==
    ASSUME StoreInv, TypeOK', PassInv',
           UNCHANGED <<req, promise, granted, ordered, removed, clock>>,
           lock' = lock \/ (lock \in {None, Cleaner} /\ lock' \in {None, Cleaner}),
           files' = files \/ lock = Cleaner,
           \A i \in FileIds : files'[i] = files[i] \/ (files'[i] = None /\ ~Due(i)),
           \A i \in FileIds : blob'[i] = blob[i] \/ (blob'[i] = None /\ ~Due(i))
    PROVE  StoreInv'
<1>1. Onward
  BY DEF StoreInv, Onward, TypeOK
<1>2. \A g \in Handlers : RequestInv(g)'
  BY <1>1, OthersKept, NamesAreDistinct
<1>3. ASSUME NEW i \in FileIds
      PROVE  RowInv(i)' /\ Promised(i)'
  <2>1. RowInv(i) /\ Promised(i)
    BY <1>3 DEF StoreInv
  <2>2. RowInv(i)'
    BY <1>3, <2>1 DEF RowInv, HasRow
  <2>3. Due(i)' <=> Due(i)
    BY <1>3 DEF Due
  <2>4. Promised(i)'
    BY <1>3, <2>1, <2>3 DEF Promised, HasRow
  <2> QED BY <2>2, <2>4
<1> QED BY <1>2, <1>3 DEF StoreInv

LEMMA PastIsNotDue ==
    ASSUME NEW id \in FileIds, Past(id)
    PROVE  ~Due(id)
  BY DEF Past, Due

LEMMA CleanWakeKeeps == StoreInv /\ CleanWake => StoreInv'
<1> SUFFICES ASSUME StoreInv, CleanWake
             PROVE  StoreInv'
  OBVIOUS
<1> DEFINE late == {id \in FileIds : HasRow(id) /\ Expired(files[id], clock)}
<1>1. TypeOK /\ PassInv /\ cleaner.pc = "sleep"
  BY DEF StoreInv, CleanWake
<1>2. /\ UNCHANGED <<files, blob, lock, req, total_downloads, clock, promise, granted,
                     ordered, removed, faults>>
      /\ cleaner' = [pc |-> "expire", now |-> clock, todo |-> late,
                     reaped |-> cleaner.reaped, known |-> cleaner.known]
  BY <1>1 DEF CleanWake, history, TypeOK, CleanerType
<1>3. TypeOK'
  BY <1>1, <1>2 DEF TypeOK, CleanerType, HasRow
<1>4. \A id \in late : Past(id)
  <2>1. \A id \in late : RowInv(id)
    BY DEF StoreInv
  <2> QED BY <2>1 DEF RowInv, Past, Expired
<1>5. PassInv'
  BY <1>1, <1>2, <1>4 DEF PassInv, Past, TypeOK
<1> QED BY <1>2, <1>3, <1>5, PassStep

LEMMA CleanUnlinkKeeps ==
    ASSUME StoreInv, NEW id \in FileIds, CleanUnlink(id)
    PROVE  StoreInv'
<1>1. TypeOK /\ PassInv /\ cleaner.pc = "expire" /\ Past(id)
  BY DEF StoreInv, CleanUnlink, PassInv
<1>2. /\ UNCHANGED <<files, lock, req, total_downloads, clock, promise, granted,
                     ordered, removed, faults>>
      /\ cleaner' = [pc |-> "delete", now |-> cleaner.now, todo |-> cleaner.todo \ {id},
                     reaped |-> cleaner.reaped \cup {id}, known |-> cleaner.known]
      /\ blob' = [blob EXCEPT ![id] = None]
  BY <1>1 DEF CleanUnlink, RemoveBlob, history, TypeOK, CleanerType
<1>3. TypeOK'
  BY <1>1, <1>2 DEF TypeOK, CleanerType, HasRow
<1>4. PassInv'
  BY <1>1, <1>2 DEF PassInv, Past, TypeOK, CleanerType
<1>5. \A i \in FileIds : blob'[i] = blob[i] \/ (blob'[i] = None /\ ~Due(i))
  BY <1>1, <1>2, PastIsNotDue DEF TypeOK
<1> QED BY <1>2, <1>3, <1>4, <1>5, PassStep

LEMMA CleanDeleteKeeps == StoreInv /\ CleanDelete => StoreInv'
<1> SUFFICES ASSUME StoreInv, CleanDelete
             PROVE  StoreInv'
  OBVIOUS
<1>1. TypeOK /\ PassInv /\ cleaner.pc \in {"expire", "delete"}
  BY DEF StoreInv, CleanDelete
<1>2. /\ UNCHANGED <<files, blob, req, total_downloads, clock, promise, granted,
                     ordered, removed, faults>>
      /\ cleaner' = [pc |-> "expire", now |-> cleaner.now, todo |-> cleaner.todo,
                     reaped |-> cleaner.reaped, known |-> cleaner.known]
      /\ lock \in {None, Cleaner} /\ lock' = Cleaner
  BY <1>1 DEF CleanDelete, history, TypeOK, CleanerType
<1>3. TypeOK'
  BY <1>1, <1>2 DEF TypeOK, CleanerType, HasRow
<1>4. PassInv'
  BY <1>1, <1>2 DEF PassInv, Past
<1> QED BY <1>2, <1>3, <1>4, PassStep

LEMMA CleanCommitKeeps == StoreInv /\ CleanCommit => StoreInv'
<1> SUFFICES ASSUME StoreInv, CleanCommit
             PROVE  StoreInv'
  OBVIOUS
<1>1. TypeOK /\ PassInv /\ cleaner.pc = "expire" /\ lock = Cleaner
  BY DEF StoreInv, CleanCommit
<1>2. /\ UNCHANGED <<blob, req, total_downloads, clock, promise, granted, ordered,
                     removed, faults>>
      /\ cleaner' = [pc |-> "known", now |-> cleaner.now, todo |-> cleaner.todo,
                     reaped |-> {}, known |-> cleaner.known]
      /\ files' = [id \in FileIds |-> IF id \in cleaner.reaped THEN None ELSE files[id]]
      /\ lock' = None
  BY <1>1 DEF CleanCommit, history, TypeOK, CleanerType
<1>3. \A i \in FileIds : files'[i] = files[i] \/ (files'[i] = None /\ ~Due(i))
  BY <1>1, <1>2, PastIsNotDue DEF PassInv
<1>4. TypeOK'
  <2>1. files' \in [FileIds -> Row \cup {None}]
    BY <1>1, <1>2 DEF TypeOK
  <2>2. \A i \in FileIds : HasRow(i)' => ~Spent(files'[i])
    BY <1>1, <1>3 DEF TypeOK, HasRow
  <2>3. cleaner' \in CleanerType
    BY <1>1, <1>2 DEF TypeOK, CleanerType
  <2> QED BY <1>1, <1>2, <2>1, <2>2, <2>3 DEF TypeOK, HasRow
<1>5. PassInv'
  BY <1>1, <1>2, NamesAreDistinct DEF PassInv
<1> QED BY <1>1, <1>2, <1>3, <1>4, <1>5, PassStep

\* The pass ends: it failed, or its process died, or it is done.
LEMMA PassEnds ==
    ASSUME StoreInv, cleaner' = Asleep, faults' \in Nat,
           lock' = (IF lock = Cleaner THEN None ELSE lock),
           UNCHANGED <<files, blob, req, total_downloads, clock, history>>
    PROVE  StoreInv'
<1>1. TypeOK /\ PassInv
  BY DEF StoreInv
<1>2. TypeOK'
  BY <1>1, IdleTyped DEF TypeOK, HasRow, history
<1>3. PassInv'
  BY <1>1, NamesAreDistinct DEF PassInv, Asleep, TypeOK
<1> QED BY <1>2, <1>3, PassStep DEF history

LEMMA CleanFailsKeeps == StoreInv /\ CleanFails => StoreInv'
<1> SUFFICES ASSUME StoreInv, CleanFails
             PROVE  StoreInv'
  OBVIOUS
<1>1. faults' \in Nat
  BY DEF StoreInv, TypeOK, CleanFails, Strikes
<1> QED BY <1>1, PassEnds DEF CleanFails, Release

LEMMA CleanerCrashKeeps == StoreInv /\ CleanerCrash => StoreInv'
<1> SUFFICES ASSUME StoreInv, CleanerCrash
             PROVE  StoreInv'
  OBVIOUS
<1>1. faults' \in Nat
  BY DEF StoreInv, TypeOK, CleanerCrash, Strikes
<1> QED BY <1>1, PassEnds DEF CleanerCrash, Release

LEMMA CleanDoneKeeps == StoreInv /\ CleanDone => StoreInv'
<1> SUFFICES ASSUME StoreInv, CleanDone
             PROVE  StoreInv'
  OBVIOUS
<1>1. faults' \in Nat /\ lock # Cleaner
  BY DEF StoreInv, TypeOK, PassInv, CleanDone
<1> QED BY <1>1, PassEnds DEF CleanDone

LEMMA CleanKnownKeeps == StoreInv /\ CleanKnown => StoreInv'
<1> SUFFICES ASSUME StoreInv, CleanKnown
             PROVE  StoreInv'
  OBVIOUS
<1>1. TypeOK /\ PassInv /\ cleaner.pc = "known"
  BY DEF StoreInv, CleanKnown
<1>2. /\ UNCHANGED <<files, blob, lock, req, total_downloads, clock, promise, granted,
                     ordered, removed, faults>>
      /\ cleaner' = [pc |-> "sweep", now |-> cleaner.now,
                     todo |-> {id \in FileIds : blob[id] # None},
                     reaped |-> cleaner.reaped, known |-> {id \in FileIds : HasRow(id)}]
  BY <1>1 DEF CleanKnown, history, TypeOK, CleanerType
<1>3. TypeOK'
  BY <1>1, <1>2 DEF TypeOK, CleanerType, HasRow
<1>4. PassInv'
  BY <1>1, <1>2 DEF PassInv, Past, HasRow
<1> QED BY <1>2, <1>3, <1>4, PassStep

LEMMA CleanSweepKeeps ==
    ASSUME StoreInv, NEW id \in FileIds, CleanSweep(id)
    PROVE  StoreInv'
<1>1. TypeOK /\ PassInv /\ Promised(id) /\ cleaner.pc = "sweep" /\ Orphan(id)
  BY DEF StoreInv, CleanSweep
<1>2. /\ UNCHANGED <<files, lock, req, cleaner, total_downloads, clock, promise,
                     granted, ordered, removed, faults>>
      /\ blob' = [blob EXCEPT ![id] = None]
  BY DEF CleanSweep, RemoveBlob, history
<1>3. ~HasRow(id)
  <2>1. blob[id] \in Nat /\ cleaner.now \in Nat /\ Grace \in Nat
    BY <1>1, BoundsAreNaturals DEF TypeOK, CleanerType, Orphan
  <2> QED BY <1>1, <2>1 DEF PassInv, Orphan, OlderThanGrace
<1>4. TypeOK'
  BY <1>1, <1>2 DEF TypeOK, CleanerType, HasRow
<1>5. PassInv'
  BY <1>1, <1>2 DEF PassInv, Past, HasRow, TypeOK
<1>6. ~Due(id)
  BY <1>1, <1>3 DEF Promised
<1>7. \A i \in FileIds : blob'[i] = blob[i] \/ (blob'[i] = None /\ ~Due(i))
  BY <1>1, <1>2, <1>6 DEF TypeOK
<1> QED BY <1>2, <1>4, <1>5, <1>7, PassStep

LEMMA TickKeeps == StoreInv /\ Tick => StoreInv'
<1> SUFFICES ASSUME StoreInv, Tick
             PROVE  StoreInv'
  OBVIOUS
<1>1. TypeOK /\ PassInv
  BY DEF StoreInv
<1>2. /\ UNCHANGED <<files, blob, lock, req, cleaner, total_downloads, promise, granted,
                     ordered, removed, faults>>
      /\ clock' = clock + 1 /\ clock \in Nat
  BY <1>1 DEF Tick, history, TypeOK
<1>3. TypeOK'
  BY <1>1, <1>2 DEF TypeOK, HasRow
<1>4. Onward
  BY <1>1, <1>2 DEF Onward, TypeOK
<1>5. \A g \in Handlers : RequestInv(g)'
  BY <1>2, <1>3, <1>4, OthersKept
<1>6. \A i \in FileIds : RowInv(i)' /\ Promised(i)'
  BY <1>2, <1>3, <1>4, FilesKept
<1>7. PassInv'
  BY <1>2, <1>3, <1>4, PassKept DEF HasRow
<1> QED BY <1>3, <1>5, <1>6, <1>7 DEF StoreInv

-----------------------------------------------------------------------------
(* The theorems.                                                           *)

LEMMA InitStoreInv == Init => StoreInv
<1> SUFFICES ASSUME Init
             PROVE  StoreInv
  OBVIOUS
<1>1. TypeOK
  BY IdleTyped, BoundsAreNaturals DEF Init, TypeOK, HasRow
<1>2. PassInv
  BY NamesAreDistinct DEF Init, PassInv, Asleep
<1>3. \A h \in Handlers : RequestInv(h)
  BY NamesAreDistinct DEF Init, RequestInv, Idle, Locking, Granted
<1>4. \A id \in FileIds : RowInv(id) /\ Promised(id)
  BY DEF Init, RowInv, Promised, Due, HasRow
<1> QED BY <1>1, <1>2, <1>3, <1>4 DEF StoreInv

LEMMA StutterKeeps == StoreInv /\ UNCHANGED vars => StoreInv'
  BY DEF vars, history, StoreInv, TypeOK, PassInv, RequestInv, RowInv, Promised, Due,
         Past, HasRow

LEMMA StepStoreInv == StoreInv /\ [Next]_vars => StoreInv'
<1> SUFFICES ASSUME StoreInv, [Next]_vars
             PROVE  StoreInv'
  OBVIOUS
<1>1. ASSUME NEW id \in FileIds, NEW max \in Limits, NEW life \in Lifetimes,
             NEW age \in 0 .. MaxAge, Publish(id, max, life, age)
      PROVE  StoreInv'
  BY <1>1, PublishKeeps
<1>2. ASSUME NEW h \in Handlers, Request(h)
      PROVE  StoreInv'
  <2>1. PICK id \in FileIds :
            \/ GetBegin(h, id) \/ Order(h, id) \/ ViewExpired(h, id)
            \/ Report(h, id) \/ \E value \in BOOLEAN : Flag(h, id, value)
    BY <1>2 DEF Request
  <2>2. CASE GetBegin(h, id)
    BY <2>2, GetBeginKeeps
  <2>3. CASE Order(h, id)
    BY <2>3, OrderKeeps
  <2>4. CASE ViewExpired(h, id)
    BY <2>4, ViewExpiredKeeps
  <2>5. CASE Report(h, id)
    BY <2>5, FlagKeeps DEF Report
  <2>6. CASE \E value \in BOOLEAN : Flag(h, id, value)
    BY <2>6, FlagKeeps
  <2> QED BY <2>1, <2>2, <2>3, <2>4, <2>5, <2>6
<1>3. ASSUME NEW h \in Handlers, Handle(h)
      PROVE  StoreInv'
  <2>1. CASE GetExpired(h)
    BY <2>1, GetExpiredKeeps
  <2>2. CASE GetReap(h)
    BY <2>2, GetReapKeeps
  <2>3. CASE GetRollback(h)
    BY <2>3, GetRollbackKeeps
  <2>4. CASE GetGrant(h)
    BY <2>4, GetGrantKeeps
  <2>5. CASE GetRecord(h)
    BY <2>5, GetRecordKeeps
  <2>6. CASE GetStat(h)
    BY <2>6, StreamKeeps DEF GetStat, At, Granted
  <2>7. CASE GetOpen(h)
    BY <2>7, StreamKeeps DEF GetOpen, At, Granted
  <2>8. CASE GetFinally(h)
    BY <2>8, GetFinallyKeeps
  <2>9. CASE DelBlob(h)
    BY <2>9, DelBlobKeeps
  <2>10. CASE DelRow(h)
    BY <2>10, DelRowKeeps
  <2>11. CASE SetSuspended(h)
    BY <2>11, SetSuspendedKeeps
  <2>12. CASE GetAborts(h) \/ WriteFails(h)
    BY <2>12, AbortsKeep
  <2>13. CASE GetFound(h)
    BY <2>13, GetFoundKeeps
  <2> QED BY <1>3, <2>1, <2>2, <2>3, <2>4, <2>5, <2>6, <2>7, <2>8, <2>9, <2>10,
             <2>11, <2>12, <2>13 DEF Handle
<1>4. CASE Clean
  BY <1>4, CleanWakeKeeps, CleanDeleteKeeps, CleanCommitKeeps, CleanFailsKeeps,
     CleanKnownKeeps, CleanDoneKeeps, CleanUnlinkKeeps, CleanSweepKeeps DEF Clean
<1>5. CASE UNCHANGED vars
  BY <1>5, StutterKeeps
<1> QED BY <1>1, <1>2, <1>3, <1>4, <1>5, CrashKeeps, CleanerCrashKeeps, TickKeeps
    DEF Next

\* What a download, a removal and the cleanup pass rely on of one another: the lock,
\* the row read under it, and the reason of everything that takes a row or a blob.
THEOREM StoreInvariant == Spec => []StoreInv
  BY InitStoreInv, StepStoreInv, PTL DEF Spec

\* However many GET requests race for the last slot, however requests and workers
\* die between the grant, the stream and its finally clause, a file is downloaded
\* at most max_downloads times (routes/files.py, download_file).
THEOREM LimitHolds == Spec => []DownloadLimit
<1>1. StoreInv => DownloadLimit
  BY DEF StoreInv, Promised, DownloadLimit
<1> QED BY <1>1, StoreInvariant, PTL

\* Nothing takes a published file before its expiry passes, its downloads are used
\* up or somebody entitled asks for its removal: no sweep of blobs that seem
\* orphaned, no reap of a row whose blob is missing, no request that failed
\* halfway (routes/files.py, cleanup.py), provided that a finish publishes within
\* the grace period of the sweep (PublishedPromptly).
THEOREM StaysUntilSpent == Spec => []AvailableUntilSpent
<1>1. StoreInv => AvailableUntilSpent
  BY DEF StoreInv, Promised, AvailableUntilSpent
<1> QED BY <1>1, StoreInvariant, PTL

\* Once a removal was answered with success, no row and no blob comes back: not by a
\* download that was under way, nor by a suspension that read the row before it
\* (routes/files.py, delete_file; routes/admin.py).
THEOREM RemovalIsFinal == Spec => []TakedownIsFinal
<1>1. StoreInv => TakedownIsFinal
  BY DEF StoreInv, TypeOK, Promised, TakedownIsFinal
<1> QED BY <1>1, StoreInvariant, PTL

\* No step counts a download of a suspended file: the suspension that a download
\* looked at is the one in the table when it commits, by BEGIN IMMEDIATE
\* (routes/files.py, download_file).
THEOREM SuspensionHolds == Spec => SuspendedNotGranted
<1> DEFINE A == \A id \in FileIds : granted'[id] > granted[id] =>
                    HasRow(id) /\ ~files[id].suspended
<1>1. StoreInv /\ [Next]_vars => [A]_vars
  <2> SUFFICES ASSUME StoreInv, [Next]_vars, NEW id \in FileIds,
                      granted'[id] > granted[id]
               PROVE  HasRow(id) /\ ~files[id].suspended
    BY DEF A
  <2>1. granted' # granted /\ granted \in [FileIds -> Nat]
    BY DEF StoreInv, TypeOK
  <2>2. PICK h \in Handlers : GetGrant(h)
    BY <2>1 DEF Next, vars, history, Publish, Request, GetBegin, Order, ViewExpired,
         Report, Flag, Handle, GetExpired, GetReap, GetRollback, GetFound, GetRecord,
         GetStat, GetOpen, GetAborts, GetFinally, DelBlob, DelRow, SetSuspended,
         WriteFails, Crash, Clean, CleanWake, CleanDelete, CleanCommit, CleanFails, CleanKnown,
         CleanDone, CleanUnlink, CleanSweep, CleanerCrash, Tick
  <2>3. /\ HasRow(req[h].id) /\ files[req[h].id] = req[h].row
        /\ ~req[h].row.suspended
    BY <2>2, Inside DEF StoreInv, RequestInv, GetGrant, At, Locking
  <2>4. id = req[h].id
    BY <2>1, <2>2 DEF GetGrant
  <2> QED BY <2>3, <2>4
<1> QED BY <1>1, StoreInvariant, PTL DEF Spec, SuspendedNotGranted

-----------------------------------------------------------------------------
(* FileStore implements FileContract.                                      *)

SameFile(i) ==
    State(i)' = State(i) /\ Terms(i)' = Terms(i) /\ Paused(i)' = Paused(i)

LEMMA StillSame ==
    ASSUME \A i \in FileIds : SameFile(i), UNCHANGED <<granted, ordered, clock>>
    PROVE  UNCHANGED Contract!vars
  BY DEF SameFile, Contract!vars

\* A file whose row and blob are what they were, and who counts it; or that was
\* over and has not come back.
LEMMA FileSame ==
    ASSUME NEW i \in FileIds, promise'[i] = promise[i],
           \/ files'[i] = files[i] /\ (Offered(i)' <=> Offered(i))
           \/ ~Offered(i) /\ ~Offered(i)'
    PROVE  SameFile(i)
  BY DEF SameFile, State, Terms, Paused, HasRow

SameCounts == \A i \in FileIds : Counting(i)' <=> Counting(i)

LEMMA Untouched ==
    ASSUME NEW i \in FileIds, promise'[i] = promise[i], files'[i] = files[i],
           blob'[i] = blob[i], Counting(i)' <=> Counting(i)
    PROVE  SameFile(i)
<1>1. Offered(i)' <=> Offered(i)
  BY DEF Offered, HasRow
<1> QED BY <1>1, FileSame

\* What changes neither the table nor the disk is not seen through the mapping.
LEMMA Unseen ==
    ASSUME UNCHANGED <<files, blob, promise, granted, ordered, clock>>, SameCounts
    PROVE  UNCHANGED Contract!vars
<1>1. \A i \in FileIds : SameFile(i)
  BY Untouched DEF SameCounts
<1> QED BY <1>1, StillSame

\* An offered file that loses its row or its blob for a reason is withdrawn; one
\* that has lost either stays over.
LEMMA Withdraws ==
    ASSUME NEW id \in FileIds, promise[id] # None, Past(id) \/ id \in ordered,
           ~Offered(id)', \A i \in FileIds \ {id} : SameFile(i),
           UNCHANGED <<promise, granted, ordered, clock>>
    PROVE  UNCHANGED Contract!vars \/ Contract!Next
<1>2. CASE ~Offered(id)
  <2>1. SameFile(id)
    BY <1>2, FileSame
  <2> QED BY <2>1, StillSame
<1>3. CASE Offered(id)
  <2>1. /\ State(id) = "offered" /\ State(id)' = "over" /\ Terms(id)' = Terms(id)
        /\ Paused(id)' = FALSE /\ Terms(id).expiry = promise[id].expiry
    BY <1>3 DEF State, Terms, Paused
  <2>2. id \in ordered \/ Terms(id).expiry < clock
    BY <2>1 DEF Past, Expired
  <2>3. /\ [i \in FileIds |-> State(i)'] = [[i \in FileIds |-> State(i)] EXCEPT ![id] = "over"]
        /\ [i \in FileIds |-> Paused(i)'] = [[i \in FileIds |-> Paused(i)] EXCEPT ![id] = FALSE]
        /\ [i \in FileIds |-> Terms(i)'] = [i \in FileIds |-> Terms(i)]
    BY <2>1 DEF SameFile
  <2>4. Contract!Withdraw(id)
    BY <2>1, <2>2, <2>3 DEF Contract!Withdraw, Contract!Withdrawn, Contract!Ends
  <2> QED BY <2>4 DEF Contract!Next
<1> QED BY <1>2, <1>3

\* A blob that is taken for a reason withdraws the file, unless a download that found
\* it is about to be counted.
LEMMA BlobGoes ==
    ASSUME TypeOK, NEW id \in FileIds, promise[id] # None, Past(id) \/ id \in ordered,
           blob' = [blob EXCEPT ![id] = None], files' = files, SameCounts,
           UNCHANGED <<promise, granted, ordered, clock>>
    PROVE  UNCHANGED Contract!vars \/ Contract!Next
<1>1. \A i \in FileIds \ {id} : SameFile(i)
  BY Untouched DEF TypeOK, SameCounts
<1>2. CASE ~Offered(id)'
  BY <1>1, <1>2, Withdraws
<1>3. CASE Offered(id)'
  <2>1. Offered(id)
    BY <1>3 DEF Offered, HasRow, TypeOK, SameCounts
  <2>2. SameFile(id)
    BY <1>3, <2>1, FileSame
  <2> QED BY <1>1, <2>2, StillSame
<1> QED BY <1>2, <1>3

\* Whoever counts a download holds the lock, so nobody else does.
LEMMA OneCounts ==
    ASSUME StoreInv, NEW i \in FileIds, Counting(i)
    PROVE  lock \in Handlers /\ At(lock, "count") /\ req[lock].id = i
<1> PICK h \in Handlers : At(h, "count") /\ req[h].id = i
  BY DEF Counting
<1>1. lock = h
  BY Inside DEF At, Locking
<1> QED BY <1>1

\* A download that found the blob finds it gone only when the file was withdrawn:
\* its row is there and has a download left.
LEMMA FoundStays ==
    ASSUME StoreInv, NEW h \in Handlers, At(h, "count"), NEW id \in FileIds,
           id = req[h].id, blob[id] = None
    PROVE  promise[id] # None /\ (Past(id) \/ id \in ordered)
<1> DEFINE row == req[h].row
<1>1. /\ TypeOK /\ RowInv(id) /\ Promised(id) /\ promise[id] # None
      /\ HasRow(id) /\ files[id] = row /\ row \in Row /\ ~Spent(row)
  BY Inside DEF StoreInv, RequestInv, At, Locking
<1>2. row.max = promise[id].max /\ row.downloads = granted[id]
  BY <1>1 DEF RowInv
<1>3. promise[id].max > 0 => granted[id] < promise[id].max
  <2>1. row.max \in Nat /\ row.downloads \in Nat
    BY <1>1, RowFields
  <2> QED BY <1>1, <1>2, <2>1 DEF Spent
<1>4. ~Due(id)
  BY <1>1 DEF Promised
<1> QED BY <1>1, <1>3, <1>4 DEF Due, Past

\* A request that counted nothing before its step and counts nothing after it.
CountsNothing(h) == Others(h) /\ ~At(h, "count") /\ ~At(h, "count")'

LEMMA NobodyCounts ==
    ASSUME NEW h \in Handlers, CountsNothing(h)
    PROVE  SameCounts
  BY DEF CountsNothing, SameCounts, Counting, Others, At

LEMMA EndsUncounted ==
    ASSUME TypeOK, NEW h \in Handlers, Respond(h), ~At(h, "count")
    PROVE  CountsNothing(h)
  BY Responds DEF CountsNothing, At, Idle

LEMMA MovesUncounted ==
    ASSUME TypeOK, NEW h \in Handlers, NEW pc \in PcType, pc # "count", GoTo(h, pc),
           ~At(h, "count")
    PROVE  CountsNothing(h)
<1>1. Others(h) /\ req'[h] = [pc |-> pc, id |-> req[h].id, row |-> req[h].row,
                             flag |-> req[h].flag]
  BY GoesTo
<1> QED BY <1>1 DEF CountsNothing, At

\* The worker of a download dies, or its UPDATE raises, before it is counted.
LEMMA CountAbandoned ==
    ASSUME StoreInv, NEW h \in Handlers, At(h, "count"), Respond(h),
           UNCHANGED <<files, blob, promise, granted, ordered, clock>>
    PROVE  UNCHANGED Contract!vars \/ Contract!Next
<1>1. TypeOK /\ lock = h
  BY Inside DEF StoreInv, At, Locking
<1> PICK id \in FileIds : id = req[h].id
  BY Inside DEF At, Locking
<1>2. Others(h) /\ req'[h] = Idle
  BY <1>1, Responds
<1>3. \A i \in FileIds \ {id} : Counting(i)' <=> Counting(i)
  BY <1>2 DEF Counting, Others, At, Idle
<1>4. \A i \in FileIds \ {id} : SameFile(i)
  BY <1>3, Untouched
<1>5. CASE blob[id] # None
  <2>1. Offered(id)' <=> Offered(id)
    BY <1>5 DEF Offered, HasRow
  <2>2. SameFile(id)
    BY <2>1, FileSame
  <2> QED BY <1>4, <2>2, StillSame
<1>6. CASE blob[id] = None
  <2>1. ~Counting(id)'
    <3>1. \A g \in Handlers \ {h} : ~At(g, "count")
      BY <1>1, Inside DEF At, Locking
    <3> QED BY <1>2, <3>1 DEF Counting, Others, At, Idle
  <2>2. ~Offered(id)'
    BY <1>6, <2>1 DEF Offered
  <2> QED BY <1>4, <1>6, <2>2, FoundStays, Withdraws
<1> QED BY <1>5, <1>6

LEMMA PublishOffers ==
    ASSUME StoreInv, NEW id \in FileIds, NEW max \in Limits, NEW life \in Lifetimes,
           NEW age \in 0 .. MaxAge, Publish(id, max, life, age)
    PROVE  Contract!Next
<1> DEFINE row == [max |-> max, downloads |-> 0, suspended |-> FALSE,
                   expiry |-> clock + life]
<1>1. TypeOK /\ promise[id] = None /\ age <= clock /\ clock \in Nat /\ age \in Nat
  BY BoundsAreNaturals DEF StoreInv, TypeOK, Publish
<1>2. /\ UNCHANGED <<clock, granted, ordered>> /\ req' = req
      /\ files' = [files EXCEPT ![id] = row]
      /\ promise' = [promise EXCEPT ![id] = row]
      /\ blob' = [blob EXCEPT ![id] = clock - age]
  BY DEF Publish
<1>3. row # None /\ clock - age # None
  <2>1. life \in Nat /\ row \in Row /\ clock - age \in Nat
    BY <1>1, BoundsAreNaturals DEF Row
  <2> QED BY <2>1, RowFields, NamesAreDistinct
<1>4. files'[id] = row /\ promise'[id] = row /\ blob'[id] = clock - age
  BY <1>1, <1>2 DEF TypeOK
<1>5. /\ State(id) = "none" /\ State(id)' = "offered" /\ Paused(id)' = FALSE
      /\ Terms(id)' = [max |-> max, expiry |-> clock + life]
  BY <1>1, <1>3, <1>4 DEF State, Paused, Terms, Offered, HasRow
<1>6. Paused(id) = FALSE
  <2>1. RowInv(id)
    BY DEF StoreInv
  <2> QED BY <1>1, <2>1 DEF RowInv, Paused, Offered
<1>7. \A i \in FileIds \ {id} : SameFile(i)
  BY <1>1, <1>2, Untouched DEF TypeOK, Counting, At
<1>8. /\ [i \in FileIds |-> State(i)'] = [[i \in FileIds |-> State(i)] EXCEPT ![id] = "offered"]
      /\ [i \in FileIds |-> Terms(i)'] =
             [[i \in FileIds |-> Terms(i)] EXCEPT ![id] = [max |-> max, expiry |-> clock + life]]
      /\ [i \in FileIds |-> Paused(i)'] = [i \in FileIds |-> Paused(i)]
  BY <1>5, <1>6, <1>7 DEF SameFile
<1>9. Contract!Offer(id, max, life)
  BY <1>2, <1>5, <1>8 DEF Contract!Offer
<1> QED BY <1>9 DEF Contract!Next

\* The row under the lock is the one in the table: it has a download left and is not
\* suspended; and a file whose blob went since the request looked for it was withdrawn.
LEMMA GrantDownloads ==
    ASSUME StoreInv, NEW h \in Handlers, GetGrant(h)
    PROVE  Contract!Next
<1> PICK id \in FileIds : id = req[h].id
  BY Inside DEF GetGrant, At, Locking
<1> DEFINE row == req[h].row
<1>1. /\ TypeOK /\ promise[id] # None /\ HasRow(id) /\ files[id] = row /\ row \in Row
      /\ ~row.suspended /\ ~Spent(row) /\ lock = h /\ At(h, "count")
  BY Inside DEF StoreInv, RequestInv, GetGrant, At, Locking
<1>2. /\ row.max = promise[id].max /\ row.downloads = granted[id]
      /\ row.expiry = promise[id].expiry
  BY <1>1 DEF StoreInv, RowInv
<1>3. row.max \in Nat /\ row.downloads \in Nat /\ granted[id] \in Nat
  BY <1>1, RowFields, RowTyped
<1> DEFINE counted == [max |-> row.max, downloads |-> row.downloads + 1,
                       suspended |-> row.suspended, expiry |-> row.expiry]
<1>4. /\ UNCHANGED <<blob, promise, ordered, clock>>
      /\ granted' = [granted EXCEPT ![id] = @ + 1]
  BY DEF GetGrant
<1>5. files' = [files EXCEPT ![id] = IF LastSlot(row) THEN None ELSE counted]
  <2>1. [files[id] EXCEPT !.downloads = row.downloads + 1] = counted
    BY <1>1 DEF Row
  <2> QED BY <1>1, <2>1 DEF GetGrant, HasRow
<1>6. counted # None
  <2>1. counted \in Row
    BY <1>1, RowFields DEF Row
  <2> QED BY <2>1, RowFields
<1>7. Counting(id) /\ \A i \in FileIds : Counting(i)' <=> (Counting(i) /\ i # id)
  <2>1. Others(h) /\ ~At(h, "count")'
    BY <1>1 DEF GetGrant, Others, At, TypeOK, RequestType
  <2>2. \A g \in Handlers \ {h} : ~At(g, "count")
    BY <1>1, Inside DEF At, Locking
  <2> QED BY <1>1, <2>1, <2>2 DEF Counting, Others, At
<1>8. \A i \in FileIds \ {id} : SameFile(i)
  BY <1>1, <1>4, <1>5, <1>7, Untouched DEF TypeOK
<1>9. /\ State(id) = "offered" /\ Paused(id) = FALSE /\ Terms(id)' = Terms(id)
      /\ Terms(id).max = promise[id].max /\ Terms(id).expiry = promise[id].expiry
  BY <1>1, <1>4, <1>7 DEF State, Paused, Terms, Offered
<1>10. LastSlot(row) <=> Contract!LastOf(id)
  BY <1>2, <1>9 DEF LastSlot, Contract!LastOf
<1>11. blob[id] = None => Contract!Withdrawn(id)
  BY <1>1, <1>9, FoundStays DEF Contract!Withdrawn, Past, Expired
<1> DEFINE over == LastSlot(row) \/ blob[id] = None
<1>12. files'[id] = IF LastSlot(row) THEN None ELSE counted
  BY <1>1, <1>5 DEF TypeOK
<1>13. Offered(id)' <=> ~over
  BY <1>4, <1>6, <1>7, <1>12 DEF Offered, HasRow
<1>14. /\ State(id)' = IF over THEN "over" ELSE "offered"
       /\ Paused(id)' = FALSE
  <2>1. ~over => files'[id].suspended = row.suspended
    BY <1>12
  <2> QED BY <1>1, <1>4, <1>13, <2>1 DEF State, Paused
<1>15. /\ [i \in FileIds |-> Terms(i)'] = [i \in FileIds |-> Terms(i)]
       /\ [i \in FileIds |-> Paused(i)'] = [i \in FileIds |-> Paused(i)]
       /\ [i \in FileIds |-> Paused(i)] = [[i \in FileIds |-> Paused(i)] EXCEPT ![id] = FALSE]
  BY <1>8, <1>9, <1>14 DEF SameFile
<1>16. [i \in FileIds |-> State(i)'] =
           IF over THEN [[i \in FileIds |-> State(i)] EXCEPT ![id] = "over"]
           ELSE [i \in FileIds |-> State(i)]
  BY <1>8, <1>9, <1>14 DEF SameFile
<1>17. Contract!Download(id)
  BY <1>4, <1>9, <1>10, <1>11, <1>15, <1>16 DEF Contract!Download, Contract!Ends
<1> QED BY <1>17 DEF Contract!Next

LEMMA SuspensionSuspends ==
    ASSUME StoreInv, NEW h \in Handlers, SetSuspended(h)
    PROVE  UNCHANGED Contract!vars \/ Contract!Next
<1>1. TypeOK /\ RequestInv(h) /\ req[h].pc = "flag"
  BY DEF StoreInv, SetSuspended, At
<1> PICK id \in FileIds : id = req[h].id
  BY <1>1 DEF RequestInv
<1> DEFINE row == files[id]
           value == req[h].flag
           marked == [max |-> row.max, downloads |-> row.downloads,
                      suspended |-> value, expiry |-> row.expiry]
<1>2. UNCHANGED <<blob, clock, promise, granted, ordered>>
  BY DEF SetSuspended, history
<1>3. files' = [files EXCEPT ![id] = IF row = None THEN None ELSE marked]
  <2>1. row # None => [row EXCEPT !.suspended = value] = marked
    BY <1>1 DEF TypeOK, Row
  <2> QED BY <2>1 DEF SetSuspended
<1>4. value \in BOOLEAN /\ (row # None => marked # None)
  <2>1. value \in BOOLEAN
    BY <1>1 DEF TypeOK, RequestType
  <2>2. row # None => marked \in Row
    BY <1>1, <2>1 DEF TypeOK, Row
  <2> QED BY <2>1, <2>2, RowFields
<1>5. SameCounts
  <2>1. Respond(h) /\ ~At(h, "count")
    BY <1>1 DEF SetSuspended, At
  <2> QED BY <1>1, <2>1, EndsUncounted, NobodyCounts
<1>6. /\ files'[id] = IF row = None THEN None ELSE marked
      /\ \A i \in FileIds \ {id} : SameFile(i)
  BY <1>1, <1>2, <1>3, <1>5, Untouched DEF TypeOK, SameCounts
<1>7. CASE ~Offered(id)
  <2>1. SameFile(id)
    BY <1>2, <1>4, <1>5, <1>6, <1>7, FileSame DEF Offered, HasRow, SameCounts
  <2> QED BY <1>2, <1>6, <2>1, StillSame
<1>8. CASE Offered(id)
  <2>1. promise[id] # None
    BY <1>8 DEF StoreInv, RowInv, Offered
  <2>2. /\ State(id) = "offered" /\ State(id)' = "offered" /\ Terms(id)' = Terms(id)
        /\ Paused(id)' = value
    BY <1>2, <1>4, <1>5, <1>6, <1>8, <2>1
        DEF State, Terms, Paused, Offered, HasRow, SameCounts
  <2>3. /\ [i \in FileIds |-> State(i)'] = [i \in FileIds |-> State(i)]
        /\ [i \in FileIds |-> Terms(i)'] = [i \in FileIds |-> Terms(i)]
        /\ [i \in FileIds |-> Paused(i)'] = [[i \in FileIds |-> Paused(i)] EXCEPT ![id] = value]
    BY <1>6, <2>2 DEF SameFile
  <2>4. Contract!Suspend(id, value)
    BY <1>2, <2>2, <2>3 DEF Contract!Suspend
  <2> QED BY <1>4, <2>4 DEF Contract!Next
<1> QED BY <1>7, <1>8

LEMMA RequestsCountNothing ==
    ASSUME TypeOK, NEW h \in Handlers, Request(h)
    PROVE  SameCounts
<1> PICK id \in FileIds :
        \/ GetBegin(h, id) \/ Order(h, id) \/ ViewExpired(h, id)
        \/ Report(h, id) \/ \E value \in BOOLEAN : Flag(h, id, value)
  BY DEF Request
<1>1. \E r : r.pc # "count" /\ req' = [req EXCEPT ![h] = r]
  <2>1. CASE GetBegin(h, id)
    <3> DEFINE pc == IF Expired(files[id], clock) THEN "expired" ELSE "check"
               r == [pc |-> pc, id |-> id, row |-> files[id], flag |-> FALSE]
    <3>1. req' = [req EXCEPT ![h] = r] /\ r.pc # "count"
      BY <2>1, Read DEF GetBegin
    <3> QED BY <3>1
  <2>2. CASE Order(h, id) \/ ViewExpired(h, id)
    <3> DEFINE r == [pc |-> "del_blob", id |-> id, row |-> None, flag |-> FALSE]
    <3>1. req' = [req EXCEPT ![h] = r] /\ r.pc # "count"
      BY <2>2, Started DEF Order, ViewExpired, Start
    <3> QED BY <3>1
  <2>3. CASE Report(h, id) \/ \E value \in BOOLEAN : Flag(h, id, value)
    <3>1. PICK value \in BOOLEAN :
              req' = [req EXCEPT ![h] = [pc |-> "flag", id |-> id, row |-> None,
                                         flag |-> value]]
      BY <2>3, Flagged DEF Report, Flag
    <3> QED BY <3>1
  <2> QED BY <2>1, <2>2, <2>3
<1>2. ~At(h, "count")
  BY DEF GetBegin, Order, ViewExpired, Report, Flag, Arrives, At
<1>3. CountsNothing(h)
  BY <1>1, <1>2 DEF CountsNothing, Others, At, TypeOK
<1> QED BY <1>3, NobodyCounts

\* GetBegin, Report, Flag and ViewExpired only read; Order asks for a removal.
LEMMA RequestsAsk ==
    ASSUME StoreInv, NEW h \in Handlers, Request(h)
    PROVE  UNCHANGED Contract!vars \/ Contract!Next
<1> PICK id \in FileIds :
        \/ GetBegin(h, id) \/ Order(h, id) \/ ViewExpired(h, id)
        \/ Report(h, id) \/ \E value \in BOOLEAN : Flag(h, id, value)
  BY DEF Request
<1>1. SameCounts
  BY RequestsCountNothing DEF StoreInv
<1>2. CASE Order(h, id)
  <2>1. State(id) # "none"
    BY <1>2 DEF StoreInv, RowInv, Order, State
  <2>2. /\ \A i \in FileIds : SameFile(i)
        /\ granted' = granted /\ clock' = clock /\ ordered' = ordered \cup {id}
    BY <1>1, <1>2, Untouched DEF Order, SameCounts
  <2>3. Contract!AskRemoval(id)
    BY <2>1, <2>2 DEF SameFile, Contract!AskRemoval
  <2> QED BY <2>3 DEF Contract!Next
<1>3. CASE \/ GetBegin(h, id) \/ ViewExpired(h, id) \/ Report(h, id)
           \/ \E value \in BOOLEAN : Flag(h, id, value)
  <2>1. UNCHANGED <<files, blob, promise, granted, ordered, clock>>
    BY <1>3 DEF GetBegin, ViewExpired, Report, Flag, history
  <2> QED BY <1>1, <2>1, Unseen
<1> QED BY <1>2, <1>3

\* The steps of a request that neither look for the blob nor count the download.
LEMMA HandlersCountNothing ==
    ASSUME TypeOK, NEW h \in Handlers, ~At(h, "count"),
           Handle(h), ~GetFound(h), ~GetGrant(h)
    PROVE  SameCounts
<1>1. CASE GetExpired(h) \/ GetRecord(h) \/ GetStat(h) \/ GetOpen(h) \/ DelBlob(h)
  <2>1. PICK pc \in PcType \ {"count"} : GoTo(h, pc)
    BY <1>1 DEF GetExpired, GetRecord, GetStat, GetOpen, DelBlob, PcType
  <2> QED BY <2>1, MovesUncounted, NobodyCounts
<1>2. CASE Respond(h)
  BY <1>2, EndsUncounted, NobodyCounts
<1> QED BY <1>1, <1>2 DEF Handle, GetReap, GetRollback, GetAborts, GetFinally, DelRow,
         SetSuspended, WriteFails

LEMMA HandlersKeepTerms ==
    ASSUME StoreInv, NEW h \in Handlers, Handle(h)
    PROVE  UNCHANGED Contract!vars \/ Contract!Next
<1>1. TypeOK /\ RequestInv(h)
  BY DEF StoreInv
<1> PICK id \in FileIds : id = req[h].id
  <2>1. req[h].pc # "idle"
    BY <1>1 DEF Handle, GetExpired, GetReap, GetRollback, GetFound, GetGrant, GetRecord,
         GetStat, GetOpen, GetAborts, GetFinally, DelBlob, DelRow, SetSuspended,
         WriteFails, At
  <2> QED BY <1>1, <2>1 DEF RequestInv
<1>2. CASE GetGrant(h)
  BY <1>2, GrantDownloads
<1>3. CASE GetFound(h)
  <2>1. /\ UNCHANGED <<files, blob, promise, granted, ordered, clock>>
        /\ At(h, "check") /\ GoTo(h, "count") /\ blob[id] # None
    BY <1>3 DEF GetFound, history
  <2>2. /\ Others(h) /\ ~At(h, "count")
        /\ req'[h] = [pc |-> "count", id |-> id, row |-> req[h].row,
                      flag |-> req[h].flag]
    BY <1>1, <2>1, GoesTo DEF At, PcType
  <2>3. \A i \in FileIds \ {id} : Counting(i)' <=> Counting(i)
    BY <2>2 DEF Counting, Others, At
  <2>4. \A i \in FileIds \ {id} : SameFile(i)
    BY <2>1, <2>3, Untouched
  <2>5. SameFile(id)
    BY <2>1, FileSame DEF Offered, HasRow
  <2> QED BY <2>1, <2>4, <2>5, StillSame
<1>4. CASE GetRollback(h) /\ At(h, "count")
  BY <1>4, CountAbandoned DEF GetRollback, history
<1>5. ASSUME ~At(h, "count"), ~GetFound(h)
      PROVE  UNCHANGED Contract!vars \/ Contract!Next
  <2>1. SameCounts
    BY <1>1, <1>5, HandlersCountNothing DEF GetGrant
  <2>2. CASE GetExpired(h) \/ DelBlob(h)
    <3>1. promise[id] # None /\ (Past(id) \/ id \in ordered)
      BY <1>1, <2>2 DEF RequestInv, GetExpired, DelBlob, At
    <3>2. /\ blob' = [blob EXCEPT ![id] = None] /\ files' = files
          /\ UNCHANGED <<promise, granted, ordered, clock>>
      BY <2>2 DEF GetExpired, DelBlob, RemoveBlob, history
    <3> QED BY <1>1, <2>1, <3>1, <3>2, BlobGoes
  <2>3. CASE GetReap(h) \/ DelRow(h)
    <3>1. promise[id] # None /\ blob[id] = None
      BY <1>1, <2>3 DEF RequestInv, GetReap, DelRow, At
    <3>2. /\ files' = [files EXCEPT ![id] = None] /\ blob' = blob
          /\ UNCHANGED <<promise, granted, ordered, clock>>
      BY <2>3 DEF GetReap, DelRow, DeleteRow, history
    <3>3. lock \in {None, h}
      BY <1>1, <2>3 DEF RequestInv, GetReap, DelRow, At, Locking, Free
    <3>4. ~Offered(id) /\ ~Offered(id)'
      <4>1. ~Counting(id)
        BY <1>5, <3>3, OneCounts, NamesAreDistinct
      <4> QED BY <1>1, <3>1, <3>2, <4>1 DEF Offered, HasRow, TypeOK
    <3>5. \A i \in FileIds \ {id} : SameFile(i)
      BY <1>1, <2>1, <3>2, Untouched DEF TypeOK, SameCounts
    <3>6. SameFile(id)
      BY <3>2, <3>4, FileSame
    <3> QED BY <3>2, <3>5, <3>6, StillSame
  <2>4. CASE SetSuspended(h)
    BY <2>4, SuspensionSuspends
  <2>5. CASE GetFinally(h) /\ req[h].flag
    <3>1. /\ promise[id] # None
          /\ promise[id].max > 0 /\ granted[id] >= promise[id].max
      BY <1>1, <2>5 DEF RequestInv, GetFinally, At, Granted
    <3>2. ~HasRow(id)
      <4>1. SUFFICES ASSUME HasRow(id)
                     PROVE  Spent(files[id])
        BY <1>1, <3>1 DEF TypeOK
      <4>2. files[id].max = promise[id].max /\ files[id].downloads = granted[id]
        BY <3>1, <4>1 DEF StoreInv, RowInv
      <4> QED BY <3>1, <4>2 DEF Spent
    <3>3. /\ blob' = [blob EXCEPT ![id] = None] /\ files' = files
          /\ UNCHANGED <<promise, granted, ordered, clock>>
      BY <2>5 DEF GetFinally, RemoveBlob, history
    <3>4. \A i \in FileIds \ {id} : SameFile(i)
      BY <1>1, <2>1, <3>3, Untouched DEF TypeOK, SameCounts
    <3>5. SameFile(id)
      BY <3>2, <3>3, FileSame DEF Offered, HasRow
    <3> QED BY <3>3, <3>4, <3>5, StillSame
  <2>6. CASE \/ GetRollback(h) \/ GetRecord(h) \/ GetStat(h) \/ GetOpen(h)
             \/ GetAborts(h) \/ WriteFails(h) \/ (GetFinally(h) /\ ~req[h].flag)
    <3>1. UNCHANGED <<files, blob, promise, granted, ordered, clock>>
      BY <2>6 DEF GetRollback, GetRecord, GetStat, GetOpen, GetAborts, WriteFails,
           GetFinally, history
    <3> QED BY <2>1, <3>1, Unseen
  <2> QED BY <1>5, <2>2, <2>3, <2>4, <2>5, <2>6 DEF Handle, GetGrant
<1>6. ASSUME At(h, "count")
      PROVE  GetGrant(h) \/ GetRollback(h)
  BY <1>6 DEF Handle, GetExpired, GetReap, GetFound, GetRecord, GetStat, GetOpen,
       GetAborts, GetFinally, DelBlob, DelRow, SetSuspended, WriteFails, At
<1> QED BY <1>2, <1>3, <1>4, <1>5, <1>6

\* The pass unlinks what is expired, deletes the rows of what it unlinked, and
\* sweeps what has no row.
LEMMA PassKeepsTerms ==
    ASSUME StoreInv, Clean
    PROVE  UNCHANGED Contract!vars \/ Contract!Next
<1>1. TypeOK /\ PassInv
  BY DEF StoreInv
<1>2. SameCounts
  <2>1. req' = req
    BY DEF Clean, CleanWake, CleanDelete, CleanCommit, CleanFails, CleanKnown,
         CleanDone, CleanUnlink, CleanSweep
  <2> QED BY <2>1 DEF SameCounts, Counting, At
<1>3. ASSUME NEW id \in FileIds, CleanUnlink(id)
      PROVE  UNCHANGED Contract!vars \/ Contract!Next
  <2>1. Past(id) /\ promise[id] # None
    BY <1>1, <1>3 DEF PassInv, CleanUnlink, Past
  <2>2. /\ blob' = [blob EXCEPT ![id] = None] /\ files' = files
        /\ UNCHANGED <<promise, granted, ordered, clock>>
    BY <1>3 DEF CleanUnlink, RemoveBlob, history
  <2> QED BY <1>1, <1>2, <2>1, <2>2, BlobGoes
<1>4. ASSUME NEW id \in FileIds, CleanSweep(id)
      PROVE  UNCHANGED Contract!vars \/ Contract!Next
  <2>1. ~HasRow(id)
    <3>1. blob[id] \in Nat /\ cleaner.now \in Nat /\ Grace \in Nat
      BY <1>1, <1>4, BoundsAreNaturals DEF TypeOK, CleanerType, CleanSweep, Orphan
    <3> QED BY <1>1, <1>4, <3>1 DEF PassInv, CleanSweep, Orphan, OlderThanGrace
  <2>2. /\ blob' = [blob EXCEPT ![id] = None] /\ files' = files
        /\ UNCHANGED <<promise, granted, ordered, clock>>
    BY <1>4 DEF CleanSweep, RemoveBlob, history
  <2>3. \A i \in FileIds \ {id} : SameFile(i)
    BY <1>1, <1>2, <2>2, Untouched DEF TypeOK, SameCounts
  <2>4. SameFile(id)
    BY <2>1, <2>2, FileSame DEF Offered, HasRow
  <2> QED BY <2>2, <2>3, <2>4, StillSame
<1>5. CASE CleanCommit
  <2>1. /\ files' = [id \in FileIds |-> IF id \in cleaner.reaped THEN None ELSE files[id]]
        /\ UNCHANGED <<blob, promise, granted, ordered, clock>>
    BY <1>5 DEF CleanCommit, history
  <2>2. \A i \in FileIds : ~Counting(i)
    BY <1>5, OneCounts, NamesAreDistinct DEF CleanCommit
  <2>3. ASSUME NEW i \in FileIds
        PROVE  SameFile(i)
    <3>1. CASE i \in cleaner.reaped
      <4>1. ~Offered(i) /\ ~Offered(i)'
        BY <1>1, <2>1, <2>2, <3>1 DEF PassInv, Offered, HasRow
      <4> QED BY <2>1, <4>1, FileSame
    <3>2. CASE i \notin cleaner.reaped
      BY <1>2, <2>1, <3>2, Untouched DEF SameCounts
    <3> QED BY <3>1, <3>2
  <2> QED BY <2>1, <2>3, StillSame
<1>6. CASE CleanWake \/ CleanDelete \/ CleanFails \/ CleanKnown \/ CleanDone
  <2>1. UNCHANGED <<files, blob, promise, granted, ordered, clock>>
    BY <1>6 DEF CleanWake, CleanDelete, CleanFails, CleanKnown, CleanDone, history
  <2> QED BY <1>2, <2>1, Unseen
<1> QED BY <1>3, <1>4, <1>5, <1>6 DEF Clean

LEMMA CrashKeepsTerms ==
    ASSUME StoreInv, NEW h \in Handlers, Crash(h)
    PROVE  UNCHANGED Contract!vars \/ Contract!Next
<1>1. /\ UNCHANGED <<files, blob, promise, granted, ordered, clock>>
      /\ Respond(h) /\ TypeOK
  BY DEF StoreInv, Crash, history
<1>2. CASE At(h, "count")
  BY <1>1, <1>2, CountAbandoned
<1>3. CASE ~At(h, "count")
  BY <1>1, <1>3, EndsUncounted, NobodyCounts, Unseen
<1> QED BY <1>2, <1>3

LEMMA StepKeepsContract ==
    StoreInv /\ [Next]_vars => [Contract!Next]_(Contract!vars)
<1> SUFFICES ASSUME StoreInv, [Next]_vars
             PROVE  UNCHANGED Contract!vars \/ Contract!Next
  OBVIOUS
<1>1. ASSUME NEW id \in FileIds, NEW max \in Limits, NEW life \in Lifetimes,
             NEW age \in 0 .. MaxAge, Publish(id, max, life, age)
      PROVE  Contract!Next
  BY <1>1, PublishOffers
<1>2. CASE Tick
  <2>1. UNCHANGED <<files, blob, promise, granted, ordered>> /\ clock' = clock + 1
    BY <1>2 DEF Tick, history
  <2>2. \A i \in FileIds : SameFile(i)
    <3>1. \A i \in FileIds : Counting(i)' <=> Counting(i)
      BY <1>2 DEF Tick, Counting, At
    <3> QED BY <2>1, <3>1, Untouched
  <2>3. Contract!Tick
    BY <2>1, <2>2 DEF SameFile, Contract!Tick
  <2> QED BY <2>3 DEF Contract!Next
<1>3. CASE CleanerCrash \/ UNCHANGED vars
  <2>1. /\ UNCHANGED <<files, blob, promise, granted, ordered, clock>>
        /\ SameCounts
    BY <1>3 DEF CleanerCrash, vars, history, SameCounts, Counting, At
  <2> QED BY <2>1, Unseen
<1> QED BY <1>1, <1>2, <1>3, RequestsAsk, HandlersKeepTerms, CrashKeepsTerms,
         PassKeepsTerms DEF Next

\* Whatever requests race, fail or die, and whatever the cleaner finds half done, a
\* published file is offered once and on its own terms: each step is a publication,
\* a download the terms allow of a file that is not suspended, a suspension, an
\* order, a withdrawal with a reason, or nothing; and when the blob of a download that
\* found it is taken before the download is counted, the file was withdrawn, and that
\* download is its last step (routes/files.py, routes/admin.py, cleanup.py).
THEOREM StoreKeepsContract == Spec => KeepsContract
<1>1. Init => Contract!Init
  BY DEF Init, Contract!Init, State, Terms, Paused, Offered, HasRow
<1>2. StoreInv /\ [Next]_vars => [Contract!Next]_(Contract!vars)
  BY StepKeepsContract
<1> QED BY <1>1, <1>2, StoreInvariant, PTL DEF Spec, KeepsContract, Contract!Spec

-----------------------------------------------------------------------------
(* Who takes the blob of a download that was counted.                      *)

Waits(g) == req[g].pc \in {"record", "stat", "open"}

\* The sweep, or the finally clause of the file's last download, takes the blob of
\* another download that was counted and has not opened it (cleanup.py:79-86,
\* routes/files.py:652-654).
Snatched ==
    \E g \in Handlers :
        /\ Waits(g)
        /\ \/ CleanSweep(req[g].id)
           \/ \E h \in Handlers \ {g} :
                  GetFinally(h) /\ req[h].flag /\ req[h].id = req[g].id

\* Terms, time and orders only go on.
LEMMA TermsStay ==
    ASSUME StoreInv, [Next]_vars, NEW id \in FileIds, promise[id] # None
    PROVE  promise'[id] = promise[id] /\ clock <= clock' /\ ordered \subseteq ordered'
<1>1. promise \in [FileIds -> Row \cup {None}] /\ clock \in Nat
  BY DEF StoreInv, TypeOK
<1>2. ASSUME NEW i \in FileIds, NEW max \in Limits, NEW life \in Lifetimes,
             NEW age \in 0 .. MaxAge, Publish(i, max, life, age)
      PROVE  promise'[id] = promise[id] /\ clock' = clock /\ ordered' = ordered
  BY <1>1, <1>2 DEF Publish
<1>3. ASSUME NEW h \in Handlers, Request(h) \/ Handle(h) \/ Crash(h)
      PROVE  promise' = promise /\ clock' = clock /\ ordered \subseteq ordered'
  BY <1>3 DEF Request, GetBegin, Order, ViewExpired, Report, Flag, Handle, GetExpired,
       GetReap, GetRollback, GetFound, GetGrant, GetRecord, GetStat, GetOpen, GetAborts,
       GetFinally, DelBlob, DelRow, SetSuspended, WriteFails, Crash, history
<1>4. ASSUME Clean \/ CleanerCrash \/ UNCHANGED vars
      PROVE  promise' = promise /\ clock' = clock /\ ordered' = ordered
  BY <1>4 DEF Clean, CleanWake, CleanDelete, CleanCommit, CleanFails, CleanKnown,
       CleanDone, CleanUnlink, CleanSweep, CleanerCrash, vars, history
<1>5. ASSUME Tick
      PROVE  promise' = promise /\ clock <= clock' /\ ordered' = ordered
  BY <1>1, <1>5 DEF Tick, history
<1> QED BY <1>1, <1>2, <1>3, <1>4, <1>5 DEF Next

LEMMA BlobTakers ==
    ASSUME StoreInv, [Next]_vars, NEW id \in FileIds, promise[id] # None,
           blob[id] # None, blob'[id] = None
    PROVE  \/ Past(id) \/ id \in ordered \/ CleanSweep(id)
           \/ \E h \in Handlers : GetFinally(h) /\ req[h].flag /\ req[h].id = id
<1>1. TypeOK /\ PassInv
  BY DEF StoreInv
<1>2. blob' # blob
  OBVIOUS
<1>3. ASSUME NEW i \in FileIds, NEW max \in Limits, NEW life \in Lifetimes,
             NEW age \in 0 .. MaxAge, Publish(i, max, life, age)
      PROVE  FALSE
  BY <1>1, <1>3 DEF Publish, TypeOK
<1>4. ASSUME NEW h \in Handlers, Request(h) \/ Crash(h)
      PROVE  FALSE
  BY <1>2, <1>4 DEF Request, Crash, GetBegin, Order, ViewExpired, Report, Flag
<1>5. ASSUME NEW h \in Handlers, Handle(h)
      PROVE  Past(id) \/ id \in ordered
             \/ (GetFinally(h) /\ req[h].flag /\ req[h].id = id)
  <2>1. GetExpired(h) \/ DelBlob(h) \/ (GetFinally(h) /\ req[h].flag)
    BY <1>2, <1>5 DEF Handle, GetReap, GetRollback, GetFound, GetGrant, GetRecord,
         GetStat, GetOpen, GetAborts, GetFinally, DelRow, SetSuspended, WriteFails
  <2>2. req[h].id = id
    BY <1>1, <2>1 DEF GetExpired, DelBlob, GetFinally, RemoveBlob, TypeOK
  <2>3. GetExpired(h) \/ DelBlob(h) => Past(id) \/ id \in ordered
    BY <2>2 DEF StoreInv, RequestInv, GetExpired, DelBlob, At
  <2> QED BY <2>1, <2>2, <2>3
<1>6. ASSUME Clean
      PROVE  Past(id) \/ CleanSweep(id)
  <2>1. PICK i \in FileIds : CleanUnlink(i) \/ CleanSweep(i)
    BY <1>2, <1>6 DEF Clean, CleanWake, CleanDelete, CleanCommit, CleanFails,
         CleanKnown, CleanDone
  <2>2. i = id
    BY <1>1, <2>1 DEF CleanUnlink, CleanSweep, RemoveBlob, TypeOK
  <2> QED BY <1>1, <2>1, <2>2 DEF PassInv, CleanUnlink
<1>7. ~CleanerCrash /\ ~Tick /\ ~UNCHANGED vars
  BY <1>2 DEF CleanerCrash, Tick, vars
<1> QED BY <1>3, <1>4, <1>5, <1>6, <1>7 DEF Next

LEMMA Waiters ==
    ASSUME StoreInv, [Next]_vars, NEW g \in Handlers, Waits(g)'
    PROVE  req'[g].id = req[g].id /\ (Waits(g) \/ GetGrant(g))
<1>1. TypeOK /\ req \in [Handlers -> RequestType]
  BY DEF StoreInv, TypeOK
<1>2. CASE req' = req
  BY <1>2 DEF Waits
<1>3. ASSUME NEW h \in Handlers, Request(h)
      PROVE  req'[g] = req[g]
  <2>1. PICK id \in FileIds :
            \/ GetBegin(h, id) \/ Order(h, id) \/ ViewExpired(h, id)
            \/ Report(h, id) \/ \E value \in BOOLEAN : Flag(h, id, value)
    BY <1>3 DEF Request
  <2>2. CASE GetBegin(h, id)
    <3> DEFINE pc == IF Expired(files[id], clock) THEN "expired" ELSE "check"
    <3>1. req' = [req EXCEPT ![h] = [pc |-> pc, id |-> id, row |-> files[id],
                                     flag |-> FALSE]]
      BY <2>2, Read DEF GetBegin
    <3> QED BY <1>1, <3>1 DEF Waits
  <2>3. CASE Order(h, id) \/ ViewExpired(h, id)
    <3>1. req' = [req EXCEPT ![h] = [pc |-> "del_blob", id |-> id, row |-> None,
                                     flag |-> FALSE]]
      BY <2>3, Started DEF Order, ViewExpired, Start
    <3> QED BY <1>1, <3>1 DEF Waits
  <2>4. CASE Report(h, id) \/ \E value \in BOOLEAN : Flag(h, id, value)
    <3>1. PICK value \in BOOLEAN :
              req' = [req EXCEPT ![h] = [pc |-> "flag", id |-> id, row |-> None,
                                         flag |-> value]]
      BY <2>4, Flagged DEF Report, Flag
    <3> QED BY <1>1, <3>1 DEF Waits
  <2> QED BY <2>1, <2>2, <2>3, <2>4
<1>4. ASSUME NEW h \in Handlers, Respond(h)
      PROVE  req'[g] = req[g]
  BY <1>1, <1>4 DEF Respond, Idle, Waits
<1>5. ASSUME NEW h \in Handlers, Handle(h), ~Respond(h)
      PROVE  req'[g].id = req[g].id /\ (Waits(g) \/ GetGrant(g))
  <2>1. CASE GetGrant(h)
    BY <1>1, <2>1 DEF GetGrant, Waits, RequestType
  <2>2. CASE GetRecord(h) \/ GetStat(h)
    BY <1>1, <2>2 DEF GetRecord, GetStat, GoTo, At, Waits, RequestType
  <2>3. CASE GetExpired(h) \/ GetFound(h) \/ GetOpen(h) \/ DelBlob(h)
    BY <1>1, <2>3 DEF GetExpired, GetFound, GetOpen, DelBlob, GoTo, Waits, RequestType
  <2> QED BY <1>5, <2>1, <2>2, <2>3
      DEF Handle, GetReap, GetRollback, GetAborts, GetFinally, DelRow, SetSuspended,
          WriteFails
<1>6. ASSUME req' # req
      PROVE  \E h \in Handlers : Request(h) \/ Handle(h) \/ Respond(h)
  BY <1>6 DEF Next, Publish, Crash, Clean, CleanWake, CleanDelete, CleanCommit,
       CleanFails, CleanKnown, CleanDone, CleanUnlink, CleanSweep, CleanerCrash, Tick,
       vars
<1> QED BY <1>2, <1>3, <1>4, <1>5, <1>6 DEF Waits

LEMMA StepServed ==
    StoreInv /\ StoreInv' /\ GrantIsServed /\ [Next]_vars /\ ~Snatched
        => GrantIsServed'
<1> SUFFICES ASSUME StoreInv, StoreInv', GrantIsServed, [Next]_vars, ~Snatched,
                    NEW g \in Handlers, Waits(g)', req'[g].id \notin ordered',
                    ~Expired(promise'[req'[g].id], clock')
             PROVE  blob'[req'[g].id] # None
  BY DEF GrantIsServed, Waits
<1>1. req'[g].id = req[g].id /\ (Waits(g) \/ GetGrant(g))
  BY Waiters
<1>2. RequestInv(g) /\ TypeOK /\ TypeOK'
  BY DEF StoreInv
<1>3. PICK id \in FileIds : id = req[g].id /\ promise[id] # None
  BY <1>1, <1>2 DEF RequestInv, Waits, GetGrant, At
<1>4. promise'[id] = promise[id] /\ clock <= clock' /\ ordered \subseteq ordered'
  BY <1>3, TermsStay
<1>5. ~Expired(promise[id], clock) /\ id \notin ordered
  <2>1. promise[id] \in Row /\ clock \in Nat /\ clock' \in Nat
    BY <1>2, <1>3, RowTyped DEF TypeOK
  <2> QED BY <1>1, <1>3, <1>4, <2>1, RowFields DEF Expired
<1>6. blob[id] # None
  BY <1>1, <1>3, <1>5, FoundStays DEF GrantIsServed, Waits, GetGrant, Past
<1>7. SUFFICES ASSUME blob'[id] = None
               PROVE  FALSE
  BY <1>1, <1>3
<1>8. CASE CleanSweep(id)
  <2>1. Waits(g)
    <3>1. req' = req
      BY <1>8 DEF CleanSweep
    <3> QED BY <3>1 DEF Waits
  <2> QED BY <1>3, <1>8, <2>1 DEF Snatched
<1>9. ASSUME NEW h \in Handlers, GetFinally(h), req[h].flag, req[h].id = id
      PROVE  FALSE
  <2>1. req'[h].pc = "idle" /\ \A k \in Handlers \ {h} : req'[k] = req[k]
    BY <1>2, <1>9 DEF GetFinally, Respond, Idle, TypeOK
  <2>2. g # h /\ Waits(g)
    BY <2>1 DEF Waits
  <2> QED BY <1>3, <1>9, <2>2 DEF Snatched
<1> QED BY <1>3, <1>5, <1>6, <1>7, <1>8, <1>9, BlobTakers DEF Past

\* A download that was counted finds its blob until the file expires or its removal
\* is asked for, but for two takers: the sweep, when its row went with its last
\* download, and the finally clause of the last download, when an earlier one has
\* been counted and has not opened the blob (routes/files.py, download_file;
\* cleanup.py).
THEOREM ServedUnlessSnatched ==
    Spec /\ [][~Snatched]_vars => []GrantIsServed
<1>1. Init => GrantIsServed
  BY DEF Init, GrantIsServed, Idle
<1>2. StoreInv /\ StoreInv' /\ GrantIsServed /\ [Next]_vars /\ [~Snatched]_vars
        => GrantIsServed'
  <2>1. CASE ~Snatched
    BY <2>1, StepServed
  <2>2. GrantIsServed /\ UNCHANGED vars => GrantIsServed'
    BY DEF vars, history, GrantIsServed
  <2> QED BY <2>1, <2>2
<1> QED BY <1>1, <1>2, StoreInvariant, PTL DEF Spec
=============================================================================
