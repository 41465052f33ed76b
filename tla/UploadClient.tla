----------------------------- MODULE UploadClient -----------------------------
(***************************************************************************)
(* The upload page (script.js, crypto.js) against a server that keeps      *)
(* UploadContract, over a network that breaks connections: a request may   *)
(* vanish, its answer may vanish, or the server may still be working on it *)
(* when the browser has given up and sends the next one.                   *)
(* A job is the context of one fresh upload (its key, IVs and metadata),   *)
(* of one file or of a group; a retry of the user runs the same job again. *)
(***************************************************************************)
EXTENDS Naturals, Sequences, FiniteSets

CONSTANTS
    Jobs,       \* jobs the user may start: 1 .. Jobs
    Size,       \* [Jobs -> Nat]: files per job, 1 for a file link, more for a group
    Sessions,   \* upload ids: 1 .. Sessions
    Chunks,     \* chunks per file
    Attempts,   \* CHUNK_RETRY_ATTEMPTS
    MaxMishaps, \* broken connections, transient refusals, reaped sessions, files
                \* chosen during an upload and pages reset, all together
    None

ASSUME ClientBounds ==
    /\ Jobs \in Nat /\ Sessions \in Nat /\ MaxMishaps \in Nat
    /\ Chunks \in Nat \ {0} /\ Attempts \in Nat \ {0}
    /\ Size \in [1 .. Jobs -> Nat \ {0}]
    /\ None \notin Nat

VARIABLES
    status, content, next,  \* the sessions of the server, as the contract has them
    meta,      \* [Uploads -> job and member, or None]: the metadata of the row
    ghosts,    \* rows whose bytes a failed finish has thrown away
    job,       \* [Job -> what the page's invocation for this job is doing]
    resume,    \* resumeState: [job, u], or None
    enabled,   \* the upload button
    shown,     \* the link on the page: its job and files, or None
    stray,     \* requests the browser gave up and the server still has
    acked,     \* history: chunks of its current file each job saw acknowledged
    mishaps    \* mishaps left

server == <<status, content, next, meta, ghosts>>
page   == <<resume, enabled, shown>>
vars   == <<status, content, next, meta, ghosts, job, resume, enabled, shown,
            stray, acked, mishaps>>

Uploads == 1 .. Sessions
Job     == 1 .. Jobs

\* Encryption is deterministic in key, IV and index: what a retry sends again
\* is the same ciphertext.
Body(j, m, i) == <<<<j, m, i>>>>
Whole(j, m) == [k \in 1 .. Chunks |-> <<j, m, k - 1>>]

Store == INSTANCE UploadContract WITH
    Payloads  <- [k \in 0 .. Chunks - 1 |->
                      UNION {{Body(j, m, i) : m \in 1 .. Size[j], i \in 0 .. Chunks - 1} :
                                 j \in Job}],
    LastChunk <- Chunks - 1,
    Expected  <- Chunks

Kind == {"status", "init", "chunk", "finish"}

\* Answers: 2xx with a number; 429 or 5xx; any other status; no answer at all.
Ok(n) == [code |-> "ok", value |-> n]
Busy    == [code |-> "busy", value |-> 0]
Refused == [code |-> "refused", value |-> 0]
Broken  == [code |-> "broken", value |-> 0]
Answer  == {Ok(n) : n \in 0 .. Sessions + Chunks} \cup {Busy, Refused}

Unused == [pc |-> "unused", m |-> 0, u |-> None, i |-> 0, tries |-> 0,
           ans |-> None, done |-> <<>>]

Init ==
    /\ Store!Init
    /\ meta = [u \in Uploads |-> None]
    /\ ghosts = {}
    /\ job = [j \in Job |-> Unused]
    /\ resume = None /\ enabled = TRUE /\ shown = None
    /\ stray = {}
    /\ acked = [j \in Job |-> 0]
    /\ mishaps = MaxMishaps

Mishap == mishaps > 0 /\ mishaps' = mishaps - 1

-----------------------------------------------------------------------------
(* The server, one request at a time.                                      *)

SaysOk(ans, n) == ans = Ok(n) /\ UNCHANGED mishaps
Refuses(ans)   == ans = Refused /\ UNCHANGED mishaps

\* Rate limits, no slot, no disk space, a locked database: nothing changes.
TooBusy(ans) == ans = Busy /\ Mishap /\ UNCHANGED server

HandleInit(r, ans) ==
    \E u \in Uploads :
        /\ u = Cardinality({v \in Uploads : status[v] # "new"}) + 1
        /\ Store!Open(u)
        /\ meta' = [meta EXCEPT ![u] = <<r.job, r.m>>]
        /\ SaysOk(ans, u)
        /\ UNCHANGED ghosts

HandleStatus(r, ans) ==
    /\ \/ status[r.u] = "open" /\ SaysOk(ans, next[r.u])
       \/ status[r.u] # "open" /\ r.u \in ghosts /\ SaysOk(ans, Chunks)
       \/ status[r.u] # "open" /\ r.u \notin ghosts /\ Refuses(ans)
    /\ UNCHANGED server

\* Mutant: the server takes a chunk without looking at its index.
TakesInAnyOrder(r) == status[r.u] = "open" /\ next[r.u] < Chunks

TakesChunk(r) == status[r.u] = "open" /\ r.i = next[r.u]

HandleChunk(r, ans) ==
    \/ /\ TakesChunk(r)
       /\ Store!Take(r.u, Body(r.job, r.m, r.i))
       /\ SaysOk(ans, r.i + 1)
       /\ UNCHANGED <<meta, ghosts>>
    \/ ~TakesChunk(r) /\ Refuses(ans) /\ UNCHANGED server

\* A complete session is published, or loses its bytes to a failing INSERT and
\* keeps its row; an incomplete one is thrown away.
HandleFinish(r, ans) ==
    \/ /\ status[r.u] = "open" /\ Len(content[r.u]) = Chunks
       /\ \/ Store!Publish(r.u) /\ SaysOk(ans, r.u) /\ UNCHANGED ghosts
          \/ Store!Drop(r.u) /\ ans = Busy /\ Mishap /\ ghosts' = ghosts \cup {r.u}
       /\ UNCHANGED meta
    \/ /\ status[r.u] = "open" /\ Len(content[r.u]) # Chunks
       /\ Store!Drop(r.u) /\ Refuses(ans)
       /\ UNCHANGED <<meta, ghosts>>
    \/ /\ status[r.u] # "open" /\ Refuses(ans)
       /\ ghosts' = ghosts \ {r.u}
       /\ UNCHANGED <<status, content, next, meta>>

Handle(r, ans) ==
    \/ r.kind = "init" /\ HandleInit(r, ans)
    \/ r.kind = "status" /\ HandleStatus(r, ans)
    \/ r.kind = "chunk" /\ HandleChunk(r, ans)
    \/ r.kind = "finish" /\ HandleFinish(r, ans)
    \/ TooBusy(ans)

\* run_cleanup_once: the session outlived PENDING_UPLOAD_TTL
Reap(u) ==
    /\ status[u] = "open" \/ u \in ghosts
    /\ Mishap
    /\ IF status[u] = "open" THEN Store!Drop(u) ELSE UNCHANGED <<status, content, next>>
    /\ ghosts' = ghosts \ {u}
    /\ UNCHANGED <<meta, job, page, stray, acked>>

-----------------------------------------------------------------------------
(* The page.                                                               *)

Waiting(j) == job[j].pc \in Kind
Request(j) == [kind |-> job[j].pc, job |-> j, m |-> job[j].m, u |-> job[j].u,
               i |-> job[j].i]

\* The server answers the request the page waits for.
Serve(j) ==
    /\ Waiting(j) /\ job[j].ans = None
    /\ \E ans \in Answer :
           Handle(Request(j), ans) /\ job' = [job EXCEPT ![j].ans = ans]
    /\ UNCHANGED <<page, stray, acked>>

\* The server gets to a request nobody waits for any more.
ServeStray(r) ==
    /\ r \in stray /\ stray' = stray \ {r}
    /\ \E ans \in Answer : Handle(r, ans)
    /\ UNCHANGED <<job, page, acked>>

SendInit(j, m, done) ==
    /\ job' = [job EXCEPT ![j] = [@ EXCEPT !.pc = "init", !.m = m, !.u = None,
                                           !.i = 0, !.ans = None, !.done = done]]
    /\ acked' = IF m = job[j].m THEN acked ELSE [acked EXCEPT ![j] = 0]
    /\ UNCHANGED page

\* Mutant: the loop ends one chunk early.
StopsOneEarly(i) == i = Chunks - 1

AllSent(i) == i = Chunks

\* chunkedUploadFile from chunk i on
SendFrom(j, u, i) ==
    job' = [job EXCEPT ![j] = [@ EXCEPT
                !.pc = IF AllSent(i) THEN "finish" ELSE "chunk",
                !.u = u, !.i = i, !.tries = 0, !.ans = None]]

\* failUpload: only a single file whose upload id is known can be resumed.
Fail(j, u) ==
    /\ job' = [job EXCEPT ![j] = [Unused EXCEPT !.pc = "failed", !.m = 1]]
    /\ resume' = IF Size[j] = 1 /\ u # None THEN [job |-> j, u |-> u] ELSE None
    /\ enabled' = TRUE
    /\ UNCHANGED <<shown, acked>>

\* Mutant: a session that is gone is asked for again and again.
InsistsOnSession(j, ans) ==
    IF ans.code = "ok"
    THEN SendFrom(j, job[j].u, ans.value) /\ UNCHANGED <<page, acked>>
    ELSE Fail(j, job[j].u)

ReactStatus(j, ans) ==
    IF ans.code = "ok"
    THEN SendFrom(j, job[j].u, ans.value) /\ UNCHANGED <<page, acked>>
    ELSE SendInit(j, job[j].m, job[j].done)

ReactInit(j, ans) ==
    IF ans.code = "ok"
    THEN SendFrom(j, ans.value, 0) /\ UNCHANGED <<page, acked>>
    ELSE Fail(j, None)

\* Mutant: an answer that will be retried counts as an acknowledgement.
TakenForGranted(ans) == ans.code \in {"ok", "busy"}

Acknowledged(ans) == ans.code = "ok"

\* uploadChunkWithRetry: busy and broken are transient, the rest is final.
ReactChunk(j, ans) ==
    \/ /\ Acknowledged(ans)
       /\ acked' = [acked EXCEPT ![j] = IF @ > job[j].i THEN @ ELSE job[j].i + 1]
       /\ SendFrom(j, job[j].u, job[j].i + 1)
       /\ UNCHANGED page
    \/ /\ ~Acknowledged(ans)
       /\ ans.code \in {"busy", "broken"} /\ job[j].tries + 1 < Attempts
       /\ job' = [job EXCEPT ![j].tries = @ + 1, ![j].ans = None]
       /\ UNCHANGED <<page, acked>>
    \/ /\ ~Acknowledged(ans)
       /\ ans.code = "refused" \/ job[j].tries + 1 = Attempts
       /\ Fail(j, job[j].u)

\* Mutant: the page shows a link whatever finish answered.
LinksAnyway(ans) == TRUE

Published(ans) == ans.code = "ok"

ReactFinish(j, ans) ==
    \/ /\ Published(ans) /\ job[j].m < Size[j]
       /\ SendInit(j, job[j].m + 1, Append(job[j].done, ans.value))
    \/ /\ Published(ans) /\ job[j].m = Size[j]
       /\ job' = [job EXCEPT ![j] = [Unused EXCEPT !.pc = "done"]]
       /\ shown' = [job |-> j, files |-> Append(job[j].done, ans.value)]
       /\ UNCHANGED <<resume, enabled, acked>>
    \/ ~Published(ans) /\ Fail(j, job[j].u)

React(j, ans) ==
    \/ job[j].pc = "status" /\ ReactStatus(j, ans)
    \/ job[j].pc = "init" /\ ReactInit(j, ans)
    \/ job[j].pc = "chunk" /\ ReactChunk(j, ans)
    \/ job[j].pc = "finish" /\ ReactFinish(j, ans)

Receive(j) ==
    /\ Waiting(j) /\ job[j].ans # None
    /\ React(j, job[j].ans)
    /\ UNCHANGED <<server, stray, mishaps>>

\* fetch() throws a TypeError: the request is lost, still under way, or handled.
Break(j) ==
    /\ Waiting(j) /\ Mishap
    /\ React(j, Broken)
    /\ stray' \in {stray} \cup
           (IF job[j].ans = None THEN {stray \cup {Request(j)}} ELSE {})
    /\ UNCHANGED server

\* The head of the answer arrives and its body does not: json() throws outside
\* every try of chunkedUploadFile, so the error carries no upload id.
BreakBody(j) ==
    /\ job[j].pc = "finish" /\ job[j].ans # None /\ job[j].ans.code = "ok"
    /\ Mishap
    /\ Fail(j, None)
    /\ UNCHANGED <<server, stray>>

\* The click: a retry if there is something to resume, else a new job ...
Retry ==
    /\ enabled /\ shown = None /\ resume # None
    /\ job' = [job EXCEPT ![resume.job] = [@ EXCEPT !.pc = "status", !.u = resume.u]]
    /\ resume' = None /\ enabled' = FALSE
    /\ UNCHANGED <<server, shown, stray, acked, mishaps>>

Start(j) ==
    /\ enabled /\ shown = None /\ resume = None
    /\ j = Cardinality({k \in Job : job[k] # Unused}) + 1
    /\ job' = [job EXCEPT ![j] = [Unused EXCEPT !.pc = "prepare"]]
    /\ enabled' = FALSE
    /\ UNCHANGED <<server, resume, shown, stray, acked, mishaps>>

\* ... which derives its key before it forgets what could be resumed.
Prepare(j) ==
    /\ job[j].pc = "prepare"
    /\ job' = [job EXCEPT ![j] = [@ EXCEPT !.pc = "init", !.m = 1]]
    /\ resume' = None /\ enabled' = FALSE
    /\ UNCHANGED <<server, shown, stray, acked, mishaps>>

Running == \E j \in Job : job[j].pc = "prepare" \/ Waiting(j)

\* setSelectedFiles: choosing files frees the button, upload under way or not;
\* choosing a file that is too big blocks it, upload to resume or not.
Choose ==
    /\ ~enabled /\ shown = None
    /\ IF Running THEN Mishap ELSE UNCHANGED mishaps
    /\ enabled' = TRUE
    /\ UNCHANGED <<server, job, resume, shown, stray, acked>>

ChooseTooBig ==
    /\ enabled /\ shown = None
    /\ Mishap /\ enabled' = FALSE
    /\ UNCHANGED <<server, job, resume, shown, stray, acked>>

\* resetToUpload
Reset ==
    /\ shown # None
    /\ Mishap
    /\ shown' = None /\ resume' = None /\ enabled' = TRUE
    /\ UNCHANGED <<server, job, stray, acked>>

Next ==
    \/ \E j \in Job :
           \/ Start(j) \/ Prepare(j) \/ Serve(j) \/ Receive(j)
           \/ Break(j) \/ BreakBody(j)
    \/ \E r \in stray : ServeStray(r)
    \/ \E u \in Uploads : Reap(u)
    \/ Retry \/ Choose \/ ChooseTooBig \/ Reset

Spec == Init /\ [][Next]_vars

\* A request is served, its answer arrives, the user clicks again or chooses a
\* file that fits: as long as one of these can happen, one will, no matter which.
Progress ==
    \/ \E j \in Job : Start(j) \/ Prepare(j) \/ Serve(j) \/ Receive(j)
    \/ Retry
    \/ ~Running /\ Choose

FairSpec == Spec /\ WF_vars(Progress)

-----------------------------------------------------------------------------
(* Properties.                                                             *)

IsOpen(u)   == status[u] = "open"
Requests    == stray \cup {Request(j) : j \in {k \in Job : Waiting(k)}}
RequestType == [kind : Kind, job : Job, m : Nat, u : Uploads \cup {None},
                i : 0 .. Chunks]

\* Types; a chunk request names a chunk there is and a session that was opened.
TypeOK ==
    /\ meta \in [Uploads -> UNION {{j} \X (1 .. Size[j]) : j \in Job} \cup {None}]
    /\ ghosts \subseteq {u \in Uploads : status[u] = "gone"}
    /\ Requests \subseteq RequestType
    /\ \A r \in Requests : r.kind = "init" \/ status[r.u] # "new"
    /\ \A r \in Requests : r.kind = "chunk" => r.i < Chunks
    /\ resume = None \/ (resume.job \in Job /\ resume.u \in Uploads)
    /\ enabled \in BOOLEAN
    /\ acked \in [Job -> 0 .. Chunks]
    /\ mishaps \in 0 .. MaxMishaps

\* crypto.js:163-257: whatever requests are lost, repeated or handled late, a
\* session holds chunks of the one file it was opened for, each once, in order.
SessionsArePrefixes ==
    \A u \in Uploads : status[u] \in {"open", "published"} =>
        LET whole == Whole(meta[u][1], meta[u][2])
        IN  content[u] = SubSeq(whole, 1, Len(content[u]))

\* script.js:688-703, 834-843: the page never shows a link unless every file
\* behind it is published whole, from the job that was uploading it.
ShownIsComplete ==
    shown # None =>
        /\ Len(shown.files) = Size[shown.job]
        /\ \A m \in DOMAIN shown.files :
               /\ shown.files[m] \in Uploads
               /\ status[shown.files[m]] = "published"
               /\ content[shown.files[m]] = Whole(shown.job, m)

\* files.py:368: no finish of this page, however late it is handled, reaches an
\* open session before all its chunks did; it would throw the session away.
FinishesWhole ==
    \A r \in Requests : r.kind = "finish" /\ IsOpen(r.u) => Len(content[r.u]) = Chunks

\* crypto.js:209-216: the page is never ahead of an open session and at most one
\* chunk behind it, so a 409 only ever answers a chunk that is already there.
NeverAhead ==
    \A j \in Job : job[j].pc = "chunk" /\ IsOpen(job[j].u) =>
        next[job[j].u] \in {job[j].i, job[j].i + 1}

\* script.js:570-575, 706-722: with finitely many mishaps and a user who clicks
\* again, an upload ends in a link on the page.
EventuallyShown == (\E j \in Job : Waiting(j)) ~> (shown # None)

\* README.md:27: "Resumable uploads. A dropped connection resumes from the last
\* acked chunk."  No chunk the page saw acknowledged is sent again.
ResumesFromAcked == \A j \in Job : job[j].pc = "chunk" => job[j].i >= acked[j]
=============================================================================
