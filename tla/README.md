# Formal models of shred

shred is an ephemeral file-sharing service: the browser encrypts a file, cuts
it into chunks and sends them; a Flask server keeps the ciphertext on disk and
its metadata in SQLite, serves it until its expiry or its download limit, and
removes it. This directory holds TLA+ models of the server's concurrent core and
of the pages that run in the browser, the TLC configurations that check them on
small instances, and TLAPS proofs of their most important properties.

What makes the server hard is that its state lives in two places no
transaction spans, SQLite rows and plain files, and that up to eight request
threads (two gunicorn workers of four threads, `README.md`) and a cleanup
thread change both, one effect at a time, while processes may die and
statements may fail in between. What makes the browser hard is that nothing on
its pages waits: key derivations, renderings, downloads, deletions and requests
of the operator overlap, are answered in any order, and change the same few
buttons and variables.

## 1. The system

| Part | Source (under `src/shred/`) | State | Operations |
| --- | --- | --- | --- |
| Upload protocol | `routes/files.py` 178-434 | `pending_uploads` rows, `partial/<upload>.part`, `<id>.enc` blobs, `files` rows | `api_upload_init`, `api_upload_chunk`, `api_upload_finish` |
| Published files | `routes/files.py` 437-694, `routes/admin.py` 178-221, `storage.py` | `files` rows, blobs | download, metadata, delete (sender and admin), report, suspend, restore |
| Cleanup thread | `cleanup.py` | what one pass has read | expire files, reap sessions, sweep orphan blobs and parts, prune logs; election by `flock` |
| Counters | `counters.py` | `kv` rows | `record_upload`, `record_download` |
| Rate limits, slots | `security.py` 25-87, `routes/files.py` 42-61 | `rate_limit_hits`, in-process dictionaries | admit or refuse a request |
| Credentials | `security.py`, `routes/admin.py`, `db.py` | `tokens`, `invite_tokens`, `kv` | rotate, create, revoke, verify |
| Upload client | `static/crypto.js`, `static/script.js` | progress of one upload in the browser | send, retry, resume, finish a group |
| Cipher stream | `static/crypto.js` 116-152, 272-366 | what was buffered, chunk counter, format | cut, open, hand on, flush |
| Downloads and saving | `static/crypto.js`, `static/download-sw.js` | two ends of one stream; the worker's map of streams | fetch, pick a place, register, look up, save, zip |
| Page of one file | `static/script.js` `initViewPage`, `initReportLink` | passphrase gate, button, report | load, submit, download, report |
| Page of a group | `static/script.js` `initGroupPage` | list of rows, zip button | render, unlock, download one or all |
| Result page, delete links | `static/script.js` 399-563 | ids and tokens of what was uploaded | delete one, delete a group, start over |
| Admin page | `static/admin.js`, `routes/admin.py` | token, two paged lists, the box of the upload token | sign in and out, refresh, filter, page, act, reveal, rotate |
| Schema, configuration, pages | `db.py`, `config.py`, `routes/pages.py`, `templates/` | none of their own at run time | |

How they interact. Handlers and cleaner share the database (WAL, one writer,
`busy_timeout` 5 s: a write statement waits for the lock and then raises) and
the upload directory (no locking at all). A chunk request holds the write lock
from `BEGIN IMMEDIATE` to its commit, so chunks are serialised with every other
writer; init and finish take it for single statements, with file operations in
between; a download takes it for its whole check-and-count; the cleaner takes it
with its first `DELETE` and gives it up before it sweeps. The browser sees only
HTTP answers and may lose any of them.

The hard behaviours, and what each part has to guarantee:

- *Uploads.* Chunk retries, two finishes of one session, a finish beside a
  chunk, a reap beside both, a chunk after the last byte. A published file must be
  exactly the acknowledged bytes, published once (a late chunk can break that, and
  the models say how far: section 5); a refused chunk must leave no trace; nothing
  acknowledged may be lost while the session lives; nothing may leak.
- *Published files.* Several downloads racing for the last slot, with a delete,
  a report, expiry and a sweep beside them. The limit must hold, a file must
  not go before its time, a takedown must be final, a suspension must not be
  overtaken.
- *Cleanup.* It reads rows, then files, then unlinks, while handlers create
  files before rows and delete rows before files. Only the grace period keeps
  it from taking what is about to be published.
- *Limits and credentials.* Times read before the lock that orders them, lazy
  rotation by several workers, pruning windows that must not be shorter than
  counting windows.
- *Upload page.* Retries without knowledge of the first answer.
- *Downloads.* Telling a truncated stream from a complete one; a worker that has
  not been told of a stream yet; a zip whose members expire between two
  fetches. What is reported as saved must be all of it.
- *Pages.* A passphrase submitted twice, a list rendered twice, an answer that
  comes after the user left, two attempts to sign in, pages of a list answered
  out of order. A withdrawn file must stay withdrawn, a list complete, a
  deletion repeatable, the shown token the one that works.

`PROJECT.json` lists every part under `components`, modelled or not, and under
`hazards` what is hard to test, line by line.

## 2. The modules

```
UploadSession                 handlers of the upload protocol + cleaner
  UploadSessionInvariant      its inductive invariants, as named parts
    UploadSafetyProofs        types, SessionInv, acknowledgements, the counter
      UploadDiskProofs        what is on the disk
        UploadRefinementProofs  UploadSession implements UploadContract
    MCUploadSession           instances
  UploadRefinement            refinement mapping to the contract
    MCUploadRefinement        instance
UploadContract                what an upload promises, without any of that
UploadClient                  the upload page against the contract, over a network
  UploadClientProofs
  MCUploadClient              instances
FileContract                  what whoever published a file is promised
FileStore                     life of a published file + cleaner
  FileRefinement              refinement mapping to that contract
    FileStoreProofs           FileStore implements FileContract
    MCFileStore               instances

CipherStream                  the decrypting stream
Download                      from the fetch to the saved file, worker included
  ViewPage                    page of one file
  GroupPage                   page of a group
ZipNames                      names of a zip's entries
ResultPage                    result of an upload, deletion
    PageProofs                all of these: stream, pages, names, deletion
AdminPanel                    the operator's page
  AdminPanelProofs
Credentials                   rotating upload token and invites, on the server
Throttle                      rate limits and chunk slots, on the server
    AdmissionProofs           both of these
Site                          all from CipherStream on, one at a time
  MCSite                      instance
```

### UploadSession

One action per durable effect. The variables and the code they stand for:

| Variable | Code |
| --- | --- |
| `pending_uploads`, `files` | the tables (the columns that matter: next chunk, `bytes_received`, `created`; which session a file came from) |
| `partial`, `blob` | the files on disk, as contents and mtime |
| `lock` | SQLite's write lock |
| `req` | for each request thread, where it is and the locals it still needs: the row it read, how much it wrote, the id it claimed |
| `cleaner` | the same for the cleanup pass: its `now`, what is left to do, the rows it knows |
| `acked`, `issued` | history: bytes acknowledged per session, ids drawn |
| `late` | history: how often a chunk that came after a session's last byte made its `.part` file anew |
| `faults` | how many faults may still strike |

`api_upload_init` is `InitStart` (the ceiling check and the empty `.part` file)
then `InitInsert`, or `InitInsertFails`. `api_upload_chunk` is `ChunkBegin`
(lock, row, index check), `ChunkOpen`, one `ChunkAppend` per 64 KiB read, then
`ChunkCommit`; `ChunkRefused` is the 413 and the failed write, both of which
truncate back, and `ChunkDbFails` the failed `UPDATE`, which does not. The index is
checked against the row and nothing else (`files.py:279`): a *late chunk*, of the
index after the one that brought the last byte, is accepted as long as the row is
there. It can only be empty; with a body it is refused, and the file cut, or padded
with zeros, to `bytes_received`. A finish renames the `.part` file without the lock,
and `open` in mode `ab` then makes another (`Remakes` in `ChunkOpen`): an empty one,
or one of zeros after the refusal (`Blank`). `late` counts these, so that the
properties can say what such a file may do and nothing else may.
`api_upload_finish` reads the row without a lock (`FinishRead`), looks for the
`.part` file, claims an id with an empty blob, renames, and inserts the `files`
row while deleting the pending one; each of those can fail and each failure is
an action of its own. `CleanWake` .. `CleanDone` are one pass of
`run_cleanup_once`. `Crash` is the death of a worker between two effects: the
transaction rolls back, the files stay.

File contents are sequences of pieces; a piece stands for one read of the
request body. Any body may come under any index. In the instance of `upload_safety`
the second chunk of a file of two pieces is empty, exact or one read too long; the
third brings what is missing, or comes late with a body or without.

### UploadContract and UploadRefinement

The contract is what a sender may rely on: a session opens, takes one body per
index in order, and is published with exactly those bytes or is gone for good. A
sender who goes on after the last byte may spoil the session (`Spoil`): only while it
is open with all its bytes, or gone, never once it is published. Of a spoiled session
nothing is promised; what its `.part` file may become is left to `PublishedIsAcked` and
`AtMostOnce`.
`UploadRefinement` reads the abstract session off disk and tables. A session is
open while its bytes are on disk and somebody may still publish them: there is
a row, or a finish that read the complete row before somebody else deleted it. It is
spoiled from the moment a late chunk makes its `.part` file anew.

### UploadClient

The page of one browser, `script.js` and `chunkedUploadFile`, composed with the
contract: the server's sessions are an instance of `UploadContract`, whose
`Open`, `Take`, `Publish` and `Drop` happen inside the handlers
`HandleInit`, `HandleChunk`, `HandleFinish` and `Reap`. This is where
`UploadRefinement` pays: a request is one step here because the contract says it
may be seen as one. What the contract hides and a client can see is kept beside
it: `meta` (the metadata a session was opened with) and `ghosts` (rows that
survive a failed `INSERT` whose blob was removed; the status endpoint still
answers for them).

A *job* is the context a click prepares: key, IVs, metadata, one file or a group.
`job[j]` is what its invocation of `chunkedUploadFile` does: the request it waits
for, the answer if there is one, the chunk index, the attempts left. `Start`,
`Prepare`, `Retry`, `Choose`, `ChooseTooBig` and `Reset` are the page; `resume`,
`enabled` and `shown` are `resumeState`, the upload button and the link. `React`
is the code after each `await`; `Fail` is `failUpload`, `Break` a `fetch` that
throws. A request whose connection broke is gone, was handled, or stays in
`stray` and is handled later, in any order with what the page sends next.

A chunk body is a function of job, file and index, since AES-GCM is
deterministic in key, IV and plaintext: a repeated chunk is the same bytes.

### FileStore

A row and its blob change separately. `GetBegin` opens the transaction of a
download, `GetExpired`/`GetReap`/`GetRollback`/`GetGrant` are its four ends.
`GetFound` is the look for the blob (`files.py:618`) and `GetGrant` the count and the
commit (624-632): they are two steps, since a deletion, an expired view and the
cleaner take the blob without the lock and may come between. `GetRecord`, `GetStat`,
`GetOpen`, `GetFinally` are what follows the commit: the
counter, the size for the header, the generator that may never run, and its
`finally` clause. `Order` then `DelBlob` and `DelRow` are both deletions;
`ViewExpired` is `_check_file_availability` on an expired file. `Report` and
`Flag` read, `SetSuspended` writes. `Publish` stands for the finish of
`UploadSession`; a published blob is at most `MaxAge < Grace` old, since
`upload_late_finish` shows what happens to older ones.

### FileContract and FileRefinement

What `FileStore` implements, without requests, locks, rows, blobs or a cleaner. A
file is offered once (`Offer`), on a limit and an expiry that never change. While it
is offered, `Download` counts one download, unless the file is suspended, and the one
that reaches the limit ends it; `Suspend` pauses or restores it; `Withdraw` ends it
after its expiry, or once somebody entitled asked (`AskRemoval`). A file that may be
withdrawn may instead end with a `Download`: the one that was under way. Over is
final.

`FileRefinement` reads this off table and disk: a file is offered while it has both
its row and its blob, and over as soon as either is gone, since nobody can begin a
download of it any more; but while a download that has found the blob holds the lock
on the row (`Counting`), the file is offered until that download is counted, blob or
not. There is one such download at most, so a blob that goes lets at most one through.
Handlers and cleaner take the two away in either order, some
steps apart, so which of these effects is `Withdraw`, and which a stutter, depends on
who came first. A download judged before the expiry may be counted after it, which is
why `Download` does not look at the clock.

### CipherStream

`createDecryptTransform`. `Receive` is a network read of any length, `DecryptFull`
one turn of the loop, `Flush` the end of the body. The body that arrives is any
sequence of whole chunks of the file, cut after any byte. `Opens` is the contract
of AES-GCM: a chunk opens if it is whole, in its place and, in v2, under the
finality it was sealed with. Chunk 0 tries both formats.

### Download, ViewPage, GroupPage

`dl[d]` is one download with its two ends: `src` is the fetching and decrypting
end, `sink` the saving end, `end` what the caller was told. `FetchAnswered`,
`BodyEnds` are the first, `PickerAnswered`, `WorkerFound`, `SinkEnds` the second;
`Register` and `Lookup` are the service worker, to which a message and a
navigation are on their way in either order. A zip is one stream of many
fetches, the next made only when the saving end takes more. `ServerChanges`
makes files expire, pauses and restores them at any time.

`ViewPage` and `GroupPage` start such downloads and react to their ends. Neither
page asks whether something is already running: `SubmitPassword` and `Unlock` may
happen while an earlier key derivation is at work, since Enter does not ask the
button. `RenderRow` is one turn of the loop of `renderFiles`, which awaits the
decryption of each name, so two renderings mix their rows.

### ZipNames

`uniqueName` of `downloadGroupAsZip`. A sanitized name is a sequence of a stem and
the numbers appended, so that the name "a-2" and the second "a" are one name.

### ResultPage

`Show` to `ResetToUpload` are what the upload page does when an upload is over. A
deletion is a set of `DELETE` requests that are answered one by one
(`DeleteAnswered`) and judged together (`DeletesDone`), on a page that may show
something else by then.

### AdminPanel

`flight` holds the requests whose answer has not been handled, each with the token
it was sent with and what its handler remembers. An answer may be an error, or
what any state of the server's lists would give. Of a refresh, the files and the
rest are two requests: the rest is rendered when both are in. `signed` is
`token` with its copy in `sessionStorage`; `Login` overwrites it before it is
answered, and a failed attempt puts back what it found.

### Credentials

The tables `tokens` and `invite_tokens`, one SQL statement per step: `Look`,
`Insert` and `Again` are `get_current_rotating_token`; `Upload`, `CheckRotating`
and `CheckInvite` are the admission of an upload. `Prunes` works with a time read
earlier. `answered` is history: which token the operator was given, when.

### Throttle

`LimitChunks` is the transaction of `rate_limit`, `CheckLimit` the locked part of
`rate_limit_mem` with its sweep, `AcquireSlot` and `ReleaseSlot` the count of a
client's chunk requests. Each limiter reads the time before it waits for its lock
(`Arrives`), at most `Lag` earlier: `busy_timeout` in one case, the scheduling of
threads in the other. Hits are therefore recorded with times out of order, and
what is promised is the limit per window less `Lag`. `serving` has for each thread
where its request is, `slotsOf` and `memHits` are the dictionaries of each worker,
`dbHits` the rows of one upload. The hits of a bucket are a function from the
number of the request, in the order of their admission, to the time recorded for
it. `chunksIn` and `letIn` are history: when requests were really let in. `Dies`
gives a process a successor with empty dictionaries.

### Site

A document is one page, and `DOMContentLoaded` starts only what the page has
elements for: the parts share no state, and a behaviour of `Site` is a behaviour of
one of them. `part` says of which. A zip's names, the decrypting stream, the
credentials and the rate limits are parts of their own: the pages use what they
promise.

## 3. The runs

| Run | Module / cfg | What it shows |
| --- | --- | --- |
| `upload_safety` | MCUploadSession / UploadSession_safety | without faults, every safety property of the upload path; late chunks included; no session loses its row or file but to the reap, or to a finish |
| `upload_reclaim` | MCUploadSession / UploadSession_reclaim | one crash or failing statement anywhere, fair scheduling: no `.part` file and no rowless blob stays for good |
| `upload_contract` | MCUploadRefinement / UploadRefinement | `UploadSession` implements `UploadContract`, two sessions racing for one group slot |
| `store_downloads` | MCFileStore / FileStore_safety | `FileStore` implements `FileContract`; limit, availability and takedown, with one fault |
| `upload_client` | MCUploadClient / UploadClient_mishaps | a page with three jobs and two mishaps: right bytes, complete links, and a link in the end |
| `store_reclaim` | MCFileStore / FileStore_reclaim | expired files and rowless blobs go in the end, with one fault |
| `site_parts` | MCSite / Site_parts | the browser's pages, the streams under them, the credentials and the rate limits: see the properties in the modules (2.5 million states) |
| `upload_drift` | MCUploadSession / UploadSession_drift | violated: see findings |
| `upload_late_finish` | MCUploadSession / UploadSession_sweep | violated: see findings |
| `store_swept_stream` | MCFileStore / FileStore_swept_stream | violated: see findings |
| `upload_resume` | MCUploadClient / UploadClient_resume | violated: see findings |
| `stream_empty_body` | CipherStream / CipherStream_empty_body | violated: see findings |

Each property of a passing run has a mutant in `PROJECT.json`: a plausible bug
(a dropped lock, a rename turned into a copy, a comparison off by one) under
which TLC finds that property violated in the same run.

### Bounds, and why they suffice

- *Two handlers.* Every race in the code is between two holders of stale
  knowledge (two finishes, a finish and a chunk, two downloads) or one of them
  and the cleaner, which is a third process. The proofs have any number.
- *One session* in most upload runs: sessions share only the lock, the ids and
  a group slot. `upload_contract` has two, which claim the same slot.
- *A file of two pieces, chunks up to index 2 (`LastChunk`).* A chunk that leaves
  room, one that may be empty, end the file or be one read too long, and one that ends
  it after an empty one or comes late: the size check is reached from both sides.
  `upload_contract` has no empty chunk before the last byte. `upload_reclaim` has one
  piece, so that chunk 1 is late; the sizes of files do not matter to what leaks.
- *`MaxLate` 1*: a late chunk makes a `.part` file anew once. That gives two
  publications of one session, and so the second of the two ids its use; a further one
  needs a further id and repeats the first. The proofs have any number.
- *Two ids*, so that a second publication has room (one in `upload_reclaim`).
- *Grace 2, TTL 0 to 2, clock up to 5 (`MaxClock`), requests until
  `LastRequest`.* Long enough for a session to become stale, a pass to reap it,
  and an orphan to outlive the grace period.
- *One fault.* Each fault is one crash or one raising statement at any step;
  `busy_timeout` expiry needs no fault, it may strike whenever another process
  holds the lock.
- *`MaxGrants`* caps downloads of a file without a limit.
- In `upload_contract` requests start only at time 0. A finish is then never
  later than the grace period after the last append; without that bound the
  sweep may take a published blob (the `upload_late_finish` finding) and the
  contract is indeed violated.

- *Three jobs, two mishaps* in `upload_client`, of three chunks per file and two
  attempts per chunk: a file, a group of two, another file. One job more than
  mishaps and enough sessions, so neither user nor server runs out:
  `EventuallyShown` would fail if they did. Two mishaps are enough for a stray
  request beside a retry, a failed resumption, and two uploads on one page.

In `site_parts`, where the bounds of one part do not multiply with those of
another:

- *Stream.* `Chunks` 3, a full chunk of `Full` 3 units with a `Tag` of 1 and a last
  chunk of `Last` 3: the last chunk is as long as a full one, the case in which
  its finality shows only at the end. Bodies have up to three chunks in any
  order, cut after any unit. The proofs have any sizes.
- *Downloads.* `Attempts` 2, so that a download runs beside another; `Files` 2, so
  that a zip has a second member to lose; `Grants` 1, so that a second download
  of a file is refused; `MaxChanges` 2, a pause and a restoration or an expiry;
  `Polls` 1 (the worker looks 50 times): found at once, found at the last
  lookup, and missed all occur. The worker is left to the page of one file
  (`MCWays`); the theorems have it on both.
- *Pages.* `Submits` 2 and `Unlocks` 2: two derivations and two renderings at a
  time. `Results` 2, a pair and then a single file, with `Deletions` 3: one that
  fails in part, its retry, and one of the next result.
- *Names.* `Entries` 3 out of two names that sanitize to the same, one that looks
  numbered, one that becomes a word, and none.
- *Panel.* `Clicks` 4, of which one may be the sign-in: three requests at a time.
  `Page` 1 (the server answers with up to 100 rows) and `MaxTotal` 2, so that
  there is a second page.
- *Credentials.* Two requests, `Secrets` 3, `MaxWindow` 2 and one rotation by the
  operator: a token of a window, one of the next, and one made after the
  rotation; windows 0 to 2 are what it takes for a token to expire. One invite,
  with the rotating token off (`InvitesWith`): its gate does not depend on the
  other, and the theorems have both together.
- *Limits.* Three threads of one process and one client: one request more than
  there are `Slots`, and two hits out of order with a third that sweeps or prunes.
  Buckets and counts of two clients never meet, the table cannot tell processes
  apart, and the memories of two never meet. Windows of 3 with a `Lag` of 1 and a
  clock up to 4 hold a hit, its last moment and its lapse; `MaxArrivals` 4 is what
  it takes to exceed a limit of 2 after a hit was forgotten.

Deadlock is checked in the runs of `UploadSession` and `FileStore`: they never stop,
since the cleaner always wakes again. A page may stop: the user has the link, the
file or an error, and a stream ends. `Throttle` stops at its bounds.

### Time

`clock` is `int(time.time())`. `Prompt` says a request is answered within the
grace period (600 s in the code): a request that takes longer than that is as
exposed to the sweep as a late finish. Nothing else depends on speed: the
cleaner may take arbitrarily long for a pass, and a pass may start any time
(`CLEANUP_INTERVAL` is abstracted).

### Fairness

`WF(Handle(h))`: a started request goes on, since a thread is scheduled and
every wait in it has a timeout. `WF(Clean)`: the cleanup loop sleeps and runs
for ever and survives exceptions (`cleanup_expired`). `WF(Tick)`: time passes.
No fairness for `Request(h)`: a client need not come back, which is why the
reap and the sweeps have to exist. Weak fairness on the whole of `Handle` and
`Clean` promises no particular outcome: a statement may keep failing as long as
faults last.

`UploadClient` has `WF(Progress)`: as long as a request can be served, an answer
received, the button clicked or a fitting file chosen while nothing runs, one of
these happens. It does not say which, nor that a given stray request is ever
handled. That a user clicks again is an assumption about the user; what
`EventuallyShown` then shows is that the page never gets into a state in which
clicking does not help.

`site_parts` assumes no fairness. That a download does not hang is `NeverStuck`,
which needs none: while its caller waits, one of its two ends can go on (`Ready`:
an answer, a choice, a body being read, or the end of the stream, and not only a
connection that may break), and every step takes it further (a zip fetches each
member once, a lookup counts).

## 4. What is proved

The proofs of the upload path hold for every number of handlers, sessions, ids and
pieces, every payload, every grace period, bound and set of faults, under the
assumptions named in `UploadSession`:

- `NamesAreDistinct`: `None` is not a row, file or id; the cleaner is no handler.
- `BodiesAreArbitrary`: `Payloads` gives each index any set of bodies, long, short or
  empty; and `Expected` is not 0, since a ciphertext has its tag. What `crypto.js`
  sends is one choice among these; the server enforces none, and nothing is assumed.
- `BoundsAreNaturals`: bounds are natural numbers, `Grace` is positive,
  handlers and uploads are finitely many.

Those of the other modules hold for every number of jobs, files and chunks and
every size of them, of attempts, mishaps, downloads, grants, submissions,
renderings, deletions, clicks, pages, requests, threads, processes, windows,
limits and rotations. `StreamBounds` says that a full chunk has more than its tag
and the last one is not longer than a full one. `ClientBounds`, `DownloadBounds`,
`GroupBounds`, `ResultBounds`, `PanelBounds`, `CredentialBounds`,
`ThrottleBounds`, `ZipBounds` and the `NamesAreDistinct` and `BoundsAreNaturals`
of `FileStore` say that bounds are natural numbers (some of them positive), that
sanitized names are sequences, and that `None`, `Nothing`, `NoToken` are not
values of the other kind; `NoneIsNoOutcome` the same of a download's outcome. Two
say more about the code: `ThrottleBounds` has the wait for a lock shorter than
each window (5 s against 60), and `PublishedPromptly` in `FileStore` has a finish
publish within the grace period of the last write, since otherwise the sweep may
take the blob (`upload_late_finish`).

Some theorems carry a hypothesis of their own:

- `[][~Interrupted]_vars`: no crash and no failing statement strikes between the
  write of a chunk and its `COMMIT`, or between what a pass unlinks and its
  `COMMIT`. All other faults may. `FaultlessDisk` shows that without faults nothing
  need be assumed; `upload_drift` shows that with them something must.
- `[](~Late)`: no finish that has renamed its file is later than the grace period
  after the last append. `upload_late_finish` shows why.
- `[][~PublishesLate]_vars`, `[][~Snatched]_vars`, `[][~StartsOver]_vars`: the
  properties of three runs that end in a violation, under what excludes it. No
  finish inserts its row later than the grace period after the last append; neither
  the sweep nor the `finally` clause of a file's last download takes the blob of
  another counted download that has yet to open it; no failed status query makes the
  page open another session. The theorems show that the step the run exhibits is the
  only cause: whatever else happens, crashes and failing statements included, a
  published blob stays, a counted download is served, a retry resumes where it was
  acknowledged. Removing that step is what a repair has to do, and it is enough.
- `ChunkWindow <= RateWindow`: the cleaner prunes by the second what counts for the
  first. With the defaults both are 60 s (`config.py:49`, `config.py:55`); section 5
  has what happens otherwise.

| Theorem | Module | Statement |
| --- | --- | --- |
| `TypeCorrect` | UploadSafetyProofs | `Spec => []TypeOK` |
| `AtMostOncePublished` | UploadSafetyProofs | `Spec => []AtMostOnce` |
| `PromptFinishSurvives` | UploadSafetyProofs | `Spec => []SweepSparesPrompt` |
| `AcknowledgedIsKept` | UploadSafetyProofs | `Spec => NeverUnacknowledges` |
| `NothingCountedUnpublished` | UploadSafetyProofs | `Spec => []CountedOncePublished` |
| `CeilingIsSoft` | UploadSafetyProofs | `Spec => []CeilingOvershoot` |
| `NeverWritesToNowhere` | UploadDiskProofs | `Spec => []AppendNeverDetached` |
| `SessionsKeptUntilFinished` | UploadDiskProofs | `Spec => KeptUntilFinished` |
| `LengthsAgree` | UploadDiskProofs | `Spec /\ [][~Interrupted]_vars => []NoDrift` |
| `WhatIsServed` | UploadDiskProofs | `Spec /\ [][~Interrupted]_vars => []PublishedIsAcked` |
| `FaultlessDisk` | UploadDiskProofs | `Faults = {}` implies `Spec => [](NoDrift /\ PublishedIsAcked)` |
| `UploadKeepsContract` | UploadRefinementProofs | `Spec /\ [][~Interrupted]_vars /\ [](~Late) => ImplementsContract` |
| `BlobKeptUnlessLate` | UploadRefinementProofs | `Spec /\ [][~PublishesLate]_vars => []PublishedBlobKept` |
| `OutcomesAreFinal` | UploadRefinementProofs | `Spec /\ [][~Interrupted]_vars /\ [](~Late) => OutcomeIsFinal` |
| `SessionsHoldPrefixes` | UploadClientProofs | `Spec => []SessionsArePrefixes` |
| `ShownLinksAreComplete` | UploadClientProofs | `Spec => []ShownIsComplete` |
| `FinishesOnlyWhole` | UploadClientProofs | `Spec => []FinishesWhole` |
| `PageNeverAhead` | UploadClientProofs | `Spec => []NeverAhead` |
| `ResumesUnlessQueryFails` | UploadClientProofs | `Spec /\ [][~StartsOver]_vars => []ResumesFromAcked` |
| `LimitHolds` | FileStoreProofs | `Spec => []DownloadLimit` |
| `StaysUntilSpent` | FileStoreProofs | `Spec => []AvailableUntilSpent` |
| `RemovalIsFinal` | FileStoreProofs | `Spec => []TakedownIsFinal` |
| `SuspensionHolds` | FileStoreProofs | `Spec => SuspendedNotGranted` |
| `StoreKeepsContract` | FileStoreProofs | `Spec => KeepsContract` |
| `ServedUnlessSnatched` | FileStoreProofs | `Spec /\ [][~Snatched]_vars => []GrantIsServed` |
| `PlaintextIsPrefix` | PageProofs | `StreamSpec => []OutputIsPrefix` |
| `TruncationIsAnError` | PageProofs | `StreamSpec => []WholeOrError` |
| `IntactComesOut` | PageProofs | `StreamSpec => []IntactIsAccepted` |
| `ViewSavesWhole` | PageProofs | `ViewSpec => []SavedIsWhole` |
| `GroupSavesWhole` | PageProofs | `GroupSpec => []SavedIsWhole` |
| `ViewNeverHangs` | PageProofs | `ViewSpec => []NeverStuck` |
| `GroupNeverHangs` | PageProofs | `GroupSpec => []NeverStuck` |
| `ViewServesInTime` | PageProofs | `ViewSpec => []MissedOnlyIfLate` |
| `WithdrawnIsFinal` | PageProofs | `ViewSpec => NoneAfterWithdrawn` |
| `GroupListsAll` | PageProofs | `GroupSpec => []EveryFileListed` |
| `DeletionCompletes` | PageProofs | `ResultSpec => []StillDeletable` |
| `EntriesApart` | PageProofs | `NamesSpec => []ZipNamesApart` |
| `DashboardIsSignedIn` | AdminPanelProofs | `PanelSpec => []SignedIn` |
| `NextPageFollows` | AdminPanelProofs | `PanelSpec => []OffsetCountsRows` |
| `BoxIsCurrent` | AdminPanelProofs | `PanelSpec => []ShowsCurrent` |
| `TokensStayAccepted` | AdmissionProofs | `CredSpec => []StaysAccepted` |
| `LeakedTokensDie` | AdmissionProofs | `CredSpec => []SharedTokensDie` |
| `NobodySlipsIn` | AdmissionProofs | `CredSpec => []AdmittedByRight` |
| `NoSlotIsLost` | AdmissionProofs | `ThrottleSpec => []SlotsGivenBack` |
| `LimitsHold` | AdmissionProofs | `ChunkWindow <= RateWindow` implies `ThrottleSpec => []RatesHold` |

*Type correctness* needs one fact beyond types: that a chunk request never has
more than `Expected` pieces when it commits, which `ChunkAppend`'s check keeps.
`TypeInv` adds it to `TypeOK`.

*The inductive invariant* of the upload path is `SessionInv`, in eight named parts.
`AtMostOnce` is not inductive: a second finish that has renamed its file would
break it at the next step. `OnceInv` counts such finishes: the copies of a session
(`Copies`: ids that are published, or about to be by a finish that has renamed) and
the `.part` file, if there is one, are together at most one more than the late chunks
that made it anew. A rename turns the `.part` file into a copy, an insert keeps the
copy, and whoever makes a `.part` file where there is none is the init of a new
session, which has no copies (`FreshInv`), or a chunk. A chunk that finds none either
comes late, and `late` counts it, or its session lacks bytes, and then nobody has
copied it: a finish past its size check has a complete session (`CompleteInv`),
`bytes_received` counts what was acknowledged (`CountInv`), and the row the chunk read
is still the row in the table (`ChunkInv`), since it holds the write lock (`LockInv`).
`IdInv` keeps two finishes off one id.
`SweepSparesPrompt` follows from `AgeInv`: an id the sweep's snapshot lacks was
inserted after the pass began, and until then its mtime is younger than the
grace period or the blob was taken before the insert, in which case the finish
was not prompt.

*Acknowledgements.* `NeverUnacknowledges` is an action property. Only a commit
writes a row that is there, and it writes the row it read plus one chunk:
`LockInv` again. An insert needs `FreshInv`: no other request put a row where it
is about to.

*Counting.* `CountedInv` is the property itself with the finiteness of the
published ids, kept by counting: the insert of a row adds one id and one claim,
the counter turns a claim into a count, every other step is `Quiet`. `IdInv`
makes the inserted id a new one.

*The ceiling.* The check of `MAX_PENDING_UPLOADS` and the `INSERT` it admits are two
statements. `CeilingInv` bounds what can slip between: sessions and inserts under way
together exceed the ceiling by one less than the number of request threads at most,
and by one more for each `COUNT` that raised, since the handler then admits the
request. A request that inserts moves from one count to the other; one that passed
the check found the table below the ceiling, beside fewer than all the threads.

*The disk.* `FileInv` needs no hypothesis. Its `HeldInv` says that the file of a
chunk request under way is there if bytes are still missing (`Writes`; a finish may
rename it away from a late one, which writes nothing), that a discarded session's row
went before its file, and that the sessions a pass is about to reap still have rows; `PartAgeInv`
says that a `.part` file whose row the sweep's snapshot lacks is younger than the
grace period. `StaleInv`, that what a pass is about to reap was older than the
time-to-live when the pass read it, does the rest for `KeptUntilFinished`: the
cause of every loss of a row or file is named, and under a chunk no row is lost, nor a
file unless it is complete. `DataInv` is kept by every step that is not `Interrupted`:
a `.part` file holds what was acknowledged plus what the request with the lock has
written (`PartInv`), a blob holds what was acknowledged (`BlobInv`), each unless it is
the blank file of a late chunk (`Whole`), and a session that lacks bytes has a file
until a pass reaps it (`KeepInv`). A chunk request that is refused truncates, and the
length it truncates to is the acknowledged one; a file that was made anew has nothing
to keep, and comes out all padding.

*The refinement.* `Good` joins all of these with `ReapInv` (what a pass unlinked
stays gone until it deletes the row) and `PromptInv` (a published file was inserted
within the grace period of its last append). `Seen` then says what a session
looks like through the mapping, in terms of acknowledged bytes only: published if
it is served, open if its bytes are in a file that somebody may still publish, new
or gone otherwise; `Apart` that these exclude each other. Most steps leave every
session as it is seen (`Same`). The others concern one session: a commit is `Take`,
the insert of a finish `Publish`, and a request or pass that gives a session up
is `Drop` at the effect that takes the bytes away or the row, whichever leaves nobody
to publish them (`Withdraws`). A late chunk that makes the file anew is `Spoil`: some
finish has renamed, or failed after it did, so that the session was open with all its
bytes, or gone. Init maps to Init, each step to a step or a stutter.
`OutcomesAreFinal` is then a theorem about the contract, carried over.
`BlobKeptUnlessLate` needs neither of the two hypotheses: a row that was inserted
promptly is in the snapshot of every sweep that could find its blob old (`AgeInv`).

*The upload page.* `ClientInv` relates page, network and server. An open session
holds the beginning of its file (`ServerInv`); a request on its way asks for a
chunk that is due or was (`StrayInv`); while a job sends chunk i, its session takes
i or i + 1, and nothing that was given up can take it further (`InStep`, in
`JobInv`). A resumption therefore starts where the session is, although the status
it was told may be overtaken by a stray chunk; `PageInv` says the same of
`resumeState` and of the link shown. `AckedInv` is about how far the sender was
acknowledged: as long as no failed query starts over, that much is in the session
its job sends to, or in the one a retry would resume (`Covers`). It grows with the
answers and never shrinks, which is what resuming from the last chunk means.

*Published files.* `StoreInv`: a download holds the write lock from its read to its
count, so the row it judged is the row (`RequestInv`); whoever is about to take a
row or a blob away has a reason that lasts, its expiry, an order or its last
download; what the snapshot of a sweep lacks was published after the pass began
(`PassInv`); and a row counts exactly the downloads granted (`RowInv`).
`SuspensionHolds` is an action property of the same lock, and part of what the
contract says; no run repeats it. For `StoreKeepsContract`, `PassInv` and
`RequestInv` also know what has lost its blob already: a row a pass has reaped, or one
a request found expired and removed the file of, is over, so that deleting it changes
nothing the contract sees. Each effect on row or blob is then `Withdraw`, the end of a
last `Download`, or a stutter. A blob that goes under a download between its look and
its count is a stutter, and the count ends the file: the row at that point is neither
spent nor suspended (`RequestInv`), so whoever took the blob had the expiry or an order
for it (`FoundStays`). If that download crashes or fails instead, it is its rollback
that is the `Withdraw` (`CountAbandoned`). `ServedUnlessSnatched` follows a download from its
count to its open: its blob goes through an order, the expiry, or a snatch.

*Streams.* `StreamInv` says that the chunk counter is the number of chunks handed
on, that these are 0, 1, 2 ..., and that a stream known to be v2 is closed only
after all of them. A chunk opens only in its place (`DecryptsNext`), and as the
last one only if it is. For `IntactIsAccepted`, `IntactInv` says that of a body as
it was stored, buffer and wire together are always the chunks still to come
(`Rest`); that such suffixes of the stored body exist for every number of chunks is
shown by a least counterexample, since the library's induction is out of reach.

*Downloads.* `Flows` ties the two ends of a download: the members saved so far are
those fetched so far, but for the one being fetched; a source that ended has
fetched all of them; a caller who was told of a success was told so when the
source had ended. It also says that what was opened has somebody who saves it, or
an end the caller knows; so while a caller waits, one of the two ends can go on
(`ViewNeverHangs`, `GroupNeverHangs`). `AskedInv` is about the worker: a
navigation that looks for its stream, or was sent away, has it on the way or in
the map.

*Pages.* `ViewInv` adds that a page that has said there is nothing to download has
a button that is gone for good; a derivation may still enable it, but nothing
shows it again. `GroupInv` says that some rendering that has begun has all the
rows it has rendered so far still in the list: the last one to have cleared it.
When all are over, that one has rendered every member.

*Names.* `NamesInv`: a numbered entry is a base with a number the counter of that
base has passed, so the next number of a base is new; and two bases with different
numbers appended differ.

*Deletions.* `ResultInv`: unless the user left a result while its deletion ran, at
most one deletion is in flight (`AloneInv`) and whatever of the result may still
be on the server is held by the page, or by that deletion (`HeldInv`).

*Panel.* `LoginInv`: without overlap there is one attempt to sign in at most, the
token in use is the one it tries, and the login form is still shown. `TokenInv`:
there is one reveal and one rotation at most and, without overlap, not both;
an answer carries the current rotation, and the box shows it, or the answer to
the rotation that changed it is on its way. `OffsetCountsRows` is nearly inductive by itself:
every answer moves offset and rows together, once the types are known, and the
property says that none of the handlers forgets to.

*Credentials.* A token, once made, is about to be inserted by one request
(`PendingInv`), or is in one row (`RowsInv`), or is gone for good. The operator is
given tokens from rows only; such a token stays in its row for its time and is in
none after a rotation (`AnsweredInv`). A request that looked is then right
about what it found, because what it began with is older (`RequestInv`).

*Limits.* `SlotsInv`: a worker's count for a client is the number of its threads
that serve one of the client's chunks. `BucketInv` is about any bucket of either
limiter: whatever was let in within the promised window still has a hit
(`Remembers`), and what was let in before a hit, or has lost its own, is not later
than that hit by more than the `Lag` (`Witnesses`), so pruning by age, and a sweep
that drops a bucket whose last hit is old, forget only what no longer counts. At
the limit there are then as many hits as requests in the window, and the next one
is refused.

The type invariants of the modules other than `UploadSession` (`ViewTypeOK` with
`DownloadTypeOK`, `GroupTypeOK`, `ResultTypeOK`, `PanelTypeOK`, `CredTypeOK`, the
`TypeOK` of `FileStore`, `JobRecord` and its neighbours in `ClientInv`) are
conjuncts of the proved invariants, and no run repeats them.

The proofs have one lemma per group of actions, one step per action and one per
conjunct the action can disturb. The effect lemmas say once what a helper such
as `Remove` or `GoTo` changes, so that no step unfolds an EXCEPT twice.

*Only model-checked:*

- The liveness properties `PartialsReclaimed`, `BlobsReclaimed`,
  `ExpiredReclaimed`, `OrphansReclaimed` and `EventuallyShown`: liveness under
  fairness is out of the prover's reach. Every other property of a passing run is
  a theorem.
- What the runs that end in a violation show: a counterexample needs no proof.

## 5. Findings

- **`upload_drift`.** `files.py:295-296` demands that the partial file be cut
  back after *any* failed append, "or its on-disk length drifts and later
  chunks land at the wrong offset". When the `UPDATE` or `COMMIT` after the
  append raises, the handler rolls back and re-raises without truncating
  (`files.py:332-337`). The retry is appended after the first copy.
- **`upload_late_finish`.** `cleanup.py:14-15` has the sweep spare fresh blobs
  because finish writes the blob just before the row. `os.replace` keeps the
  mtime of the last append, so a session finished more than 600 s after its
  last chunk has a blob that is old at birth: a pass that listed the rows just
  before can take it, and the row is inserted without a blob.
- **`upload_resume`.** `README.md:27`: "A dropped connection resumes from the
  last acked chunk." A retry asks for the status first; if that request fails
  too, for whatever reason, `crypto.js:214-218` falls through to a fresh `init`
  and sends everything again, while the old session waits to be reaped. A group
  upload never resumes at all (`script.js:592`).
- **`store_swept_stream`.** The last download deletes the row before its
  generator opens the blob. A sweep in between takes it, and a download that
  was counted, and was the only one, fails. (`ServedUnlessSnatched` knows one other
  cause: see below.)
- **`stream_empty_body`.** `crypto.js:349-352`: every v2 stream ends with a chunk
  marked final, "So an empty buffer here means trailing chunks were withheld:
  refuse rather than hand back a silently shortened file." The refusal asks for
  `mode === "v2"`, and `mode` is `null` until a chunk has been opened. A body that
  ends before its first byte is therefore saved as an empty file. An encrypted
  empty file still has one chunk, so no intact body is empty.

Other behaviour of the code that the models show, and that nothing in the
repository promises to be otherwise:

- A chunk after the last byte that gets the lock between a finish's rename
  (`files.py:397`) and its `INSERT` makes the `.part` file anew (`files.py:308`), and a
  second finish that had read the row publishes it under a second id: empty, or all
  zeros if the chunk had a body and was refused (`files.py:299-317`). No fault is
  needed; the client in this repository never sends such a chunk. `cleanup.py:75-77`
  and `88-90` know that the file may be left behind, and the sweep takes it if nobody
  publishes it. The models show that this is all: whatever is served is the
  acknowledged bytes or a blank file, and there is no copy more than `.part` files were
  made (`PublishedIsAcked`, `AtMostOnce`).
- A download is counted although a deletion, an expired view or the cleaner took the
  blob after the download had looked for it (`files.py:618`); `stat` (642) then raises,
  and the receiver gets a 500 for a download that was counted.
- Enter twice on the passphrase of a group lists its files twice, and one click on
  the zip button then downloads two zips (`EveryFileListed` allows the first).
- With a limit of two or more, the download before the last may have been counted and
  not have opened its blob yet when the last one ends: the `finally` clause of that
  one removes the blob, and the earlier one fails (`Snatched`).
- A second submission of a passphrase re-enables the download button while a
  download runs; a second click spends a second download.
- Cancelling the file picker of a single file comes after the fetch: the download
  has been counted.
- A zip may have two entries of one name: files called "a", "a" and "a-2".
- With the worker, a page never learns how the download ended, and a stream that
  arrives after the last lookup stays in the worker's map.
- A v1 file cut at a chunk boundary is accepted: v1 does not seal finality.
- An answer to a deletion that comes after the user went back to the form clears
  the ids of the result shown by then (`abandoned` in `StillDeletable`).
- `cleanup.py:40-41` prunes the hits of every bucket by `RATE_WINDOW`, meaning the
  idle ones. Where it is set to less than `CHUNK_RATE_WINDOW` the pass forgets hits
  that still count, and more chunks are let in than `CHUNK_RATE_LIMIT` (`RatesHold`
  fails with `RateWindow < ChunkWindow`). With the defaults, 60 s each, it holds.
- In the admin page, overlapping attempts to sign in may leave it without a token
  (`overlap`); a sign-in answered after signing out opens the dashboard again; a
  reveal answered after a rotation shows the old token; a refresh refused with
  429 shows empty lists; a rotation between `INSERT` and second `SELECT` of another
  request gives that one a 500.

## 6. Abstractions, and what is not modelled

- Requests that change nothing (malformed, unauthorised, rate limited, unknown
  id, wrong chunk index, disk full, HEAD) are stuttering steps. Metadata,
  filenames and headers are left out.
- `truncate` and `unlink` in the code ignore `OSError`; they are modelled as
  succeeding. `stat` and `unlink` of one file in a sweep are one step.
- `glob` yields at least the files present when the sweep begins; one that
  appears later may be seen or missed. Directory creation and removal in
  `storage.py` are left out.
- Ids are drawn fresh: the collisions the code retries on are not
  modelled beyond the claim of an id by an exclusive create.
- In `FileStore` a published file is one step; `UploadSession` has the detail.
- A failing read is a failing request and changes nothing.
- `UploadClient` starts where the server keeps the contract, that is without
  `upload_drift` and `upload_late_finish`. A request is one step of the server.
  Errors before the first request of a job are left out.
- In `Download` a stream comes out whole or breaks: that a truncated one breaks is the
  matter of `CipherStream`, with the empty body of `stream_empty_body` as the exception,
  which a page therefore saves as a whole file without knowing.
- In the browser's modules a piece of code between two awaits is one step.
  AES-GCM, PBKDF2 and `showSaveFilePicker` are what they promise, with their
  failures. A file name that does not decrypt ends as an error of the load. A
  wrong passphrase on the page of a group changes nothing.
- Downloads of several parts share no network or memory: `desiredSize`, speed and
  progress are left out. A blob holds a whole file.
- `AdminPanel` lets the server's lists have any length at any answer; the rows
  themselves, the overview, the log and the list of invites are rendered from one
  answer and kept nowhere.
- In `Credentials` the unit of time is the rotation window. Rows expire two windows
  after their start; whether a second falls into a window does not matter. Hashes
  of invites, `last_used` and the names in the log are left out, and so is the
  static `UPLOAD_TOKEN`, which is a comparison with a constant.

Not modelled, and why:

- *Which requests the rate limits refuse* is left open in the other modules than
  `Throttle`. (The ceiling on pending sessions is checked by `InitStart`; how soft it
  is is `CeilingIsSoft`, a theorem only: no run has enough sessions to pass it.)
- *The admin token*: one row, written once by whichever worker starts first
  (`INSERT OR IGNORE`, then read), and compared.
- *Election of the cleaner* by `flock`: one call per process, with a kernel's
  promise. Every module has one cleaner.
- *Retention* of reports and the admin log: single `DELETE`s on
  which nothing else depends.
- *Schema, configuration, templates, styling, the status page* hold no state at run
  time; *the QR code and zip libraries and the word list* are vendored.

## 7. Plan

Done, the most important behaviour first: `UploadSession` with its invariants and
proofs, `UploadContract` with the refinement and its proof; `UploadClient` and
`FileStore` with theirs; then `CipherStream`, `Download` with the pages over it,
`ZipNames`, `ResultPage`, `AdminPanel`, `Credentials` and `Throttle`, each with its
proofs; then `FileContract` with its refinement and proof, the bound on pending
sessions, and the findings' properties under what excludes the findings. Every
safety and action property of a passing run is a theorem, and both contracts of the
server are proved to be kept.

Left, in this order:

1. `Site`: each behaviour of it is one of a part's specification, so that the
   theorems of the parts are theorems of what `site_parts` runs.
2. The counters of `FileStore`: a counted download was granted. The total is a sum
   over files, which needs an induction the prover cannot instantiate.
3. The liveness properties, should the prover come to support fairness.
