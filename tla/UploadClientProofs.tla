-------------------------- MODULE UploadClientProofs --------------------------
(***************************************************************************)
(* The upload page, for any number of jobs, files, chunks, sessions and    *)
(* mishaps.  The page and the requests it has given up agree on how far a  *)
(* session can have come: while a job sends chunk i to an open session,    *)
(* the session takes i or i + 1 next, and no request that is still on its  *)
(* way can take it past that.  Unless a status query fails, an upload goes *)
(* on from the last chunk that was acknowledged.                           *)
(***************************************************************************)
EXTENDS UploadClient, FiniteSetTheorems, TLAPS

State  == {"new", "open", "published", "gone"}
Member == UNION {{j} \X (1 .. Size[j]) : j \in Job}

\* An open session holds the beginning of its file, as long as it says; a
\* published one holds all of it.
ServerInv ==
    /\ status \in [Uploads -> State] /\ next \in [Uploads -> 0 .. Chunks]
    /\ DOMAIN content = Uploads /\ DOMAIN meta = Uploads
    /\ \A u \in Uploads :
           /\ status[u] = "new" => content[u] = <<>> /\ next[u] = 0
           /\ status[u] # "new" => meta[u] \in Member
           /\ status[u] = "open" =>
                  content[u] = SubSeq(Whole(meta[u][1], meta[u][2]), 1, next[u])
           /\ status[u] = "published" => content[u] = Whole(meta[u][1], meta[u][2])

\* Session u was opened for member m of job j.
OpenedFor(u, j, m) == u \in Uploads /\ status[u] # "new" /\ meta[u] = <<j, m>>

\* A request names a session of its own file, and comes when its chunk is due
\* or after that.
Asked(r) ==
    /\ r.kind \in Kind /\ r.job \in Job /\ r.m \in 1 .. Size[r.job]
    /\ r.kind # "init" => OpenedFor(r.u, r.job, r.m)
    /\ r.kind = "chunk" => r.i \in 0 .. Chunks - 1 /\ (IsOpen(r.u) => r.i <= next[r.u])
    /\ r.kind = "finish" /\ IsOpen(r.u) => next[r.u] = Chunks

\* Session u takes chunk i or the one after it, and nothing that was given up
\* takes it further.
InStep(u, i) ==
    IsOpen(u) => /\ next[u] \in {i, i + 1}
                 /\ \A r \in stray : r.kind = "chunk" /\ r.u = u => r.i <= i

PublishedAs(u, j, m) == OpenedFor(u, j, m) /\ status[u] = "published"

AllPublished(files, j) ==
    \A m \in 1 .. Len(files) : PublishedAs(files[m], j, m)

\* What a job may conclude from a 2xx answer.
Concludes(j, v) ==
    /\ job[j].pc = "init"   => OpenedFor(v, j, job[j].m) /\ InStep(v, 0)
    /\ job[j].pc = "status" => v \in 0 .. Chunks /\ InStep(job[j].u, v)
    /\ job[j].pc = "chunk"  => (IsOpen(job[j].u) => next[job[j].u] = job[j].i + 1)
    /\ job[j].pc = "finish" => v = job[j].u /\ PublishedAs(v, j, job[j].m)

JobRecord ==
    [pc : Kind \cup {"unused", "prepare", "failed", "done"}, m : Nat,
     u : Uploads \cup {None}, i : 0 .. Chunks, tries : Nat,
     ans : Answer \cup {None}, done : Seq(Uploads)]

WaitingInv(j) ==
    /\ Asked(Request(j))
    /\ Len(job[j].done) = job[j].m - 1 /\ AllPublished(job[j].done, j)
    /\ job[j].pc = "chunk" => InStep(job[j].u, job[j].i)
    /\ job[j].ans # None /\ job[j].ans.code = "ok" => Concludes(j, job[j].ans.value)

RestInv(j) ==
    /\ job[j].ans = None /\ job[j].done = <<>>
    /\ job[j].pc = "failed" => job[j].m = 1

JobInv ==
    /\ job \in [Job -> JobRecord]
    /\ \A j \in Job : IF Waiting(j) THEN WaitingInv(j) ELSE RestInv(j)

PageInv ==
    /\ resume # None => /\ resume.job \in Job /\ Size[resume.job] = 1
                        /\ job[resume.job].pc = "failed"
                        /\ OpenedFor(resume.u, resume.job, 1)
    /\ shown # None => /\ shown.job \in Job /\ shown.files \in Seq(Uploads)
                       /\ Len(shown.files) = Size[shown.job]
                       /\ AllPublished(shown.files, shown.job)

StrayInv == \A r \in stray : Asked(r)

ClientInv == ServerInv /\ StrayInv /\ JobInv /\ PageInv

-----------------------------------------------------------------------------
(* What a step of the server may do to the sessions, whoever asked.        *)

\* Sessions never become new again, keep their metadata, stay published, and an
\* open one advances only by one of the chunks in due, pairs of session and index.
Moves(due) ==
    \A u \in Uploads :
        /\ status[u] # "new" => status'[u] # "new" /\ meta'[u] = meta[u]
        /\ status[u] = "published" => status'[u] = "published"
        /\ status[u] # "new" /\ status'[u] = "open" =>
               /\ status[u] = "open"
               /\ \/ next'[u] = next[u]
                  \/ <<u, next[u]>> \in due /\ next'[u] = next[u] + 1

Due(r) == IF r.kind = "chunk" THEN {<<r.u, r.i>>} ELSE {}

\* What a 2xx answer says of the sessions after it.
Says(r, ans) ==
    LET v == ans.value
    IN  ans.code = "ok" =>
            /\ r.kind = "init"   => /\ OpenedFor(v, r.job, r.m)' /\ status[v] = "new"
                                    /\ next'[v] = 0
            /\ r.kind = "status" => /\ v \in 0 .. Chunks
                                    /\ status'[r.u] = "open" => next'[r.u] = v
            /\ r.kind = "chunk"  => next'[r.u] = r.i + 1
            /\ r.kind = "finish" => v = r.u /\ status'[v] = "published"

\* A whole file has all its chunks, and chunk i follows the first i.
LEMMA WholeFile ==
    ASSUME NEW j, NEW m
    PROVE  /\ Len(Whole(j, m)) = Chunks
           /\ SubSeq(Whole(j, m), 1, 0) = <<>>
           /\ SubSeq(Whole(j, m), 1, Chunks) = Whole(j, m)
           /\ \A n \in 0 .. Chunks : Len(SubSeq(Whole(j, m), 1, n)) = n
           /\ \A n \in 0 .. Chunks - 1 :
                  SubSeq(Whole(j, m), 1, n) \o Body(j, m, n) = SubSeq(Whole(j, m), 1, n + 1)
  <1> DEFINE W == Whole(j, m)
  <1>1. W \in Seq({j} \X {m} \X Nat) /\ Len(W) = Chunks
    BY ClientBounds DEF Whole
  <1>2. \A n \in 0 .. Chunks : Len(SubSeq(W, 1, n)) = n
    BY <1>1, ClientBounds
  <1>3. ASSUME NEW n \in 0 .. Chunks - 1
        PROVE  SubSeq(W, 1, n) \o Body(j, m, n) = SubSeq(W, 1, n + 1)
    <2>1. W[n + 1] = <<j, m, n>>
      BY ClientBounds DEF Whole
    <2>2. SubSeq(W, 1, n + 1) = Append(SubSeq(W, 1, n), W[n + 1])
      BY <1>1, ClientBounds
    <2>3. SubSeq(W, 1, n) \in Seq({j} \X {m} \X Nat) /\ W[n + 1] \in {j} \X {m} \X Nat
      BY <1>1, ClientBounds
    <2>4. SubSeq(W, 1, n) \o <<W[n + 1]>> = Append(SubSeq(W, 1, n), W[n + 1])
      BY <2>3
    <2> QED BY <2>1, <2>2, <2>4 DEF Body
  <1>4. SubSeq(W, 1, 0) = <<>> /\ SubSeq(W, 1, Chunks) = W
    BY <1>1, ClientBounds
  <1> QED BY <1>1, <1>2, <1>3, <1>4

\* A request for one more file opens a session nobody has heard of.
LEMMA InitMoves ==
    ASSUME ServerInv, NEW r, Asked(r), NEW ans, r.kind = "init", HandleInit(r, ans)
    PROVE  ServerInv' /\ Moves(Due(r)) /\ Says(r, ans)
  <1>1. PICK u \in Uploads :
            /\ status[u] = "new" /\ status' = [status EXCEPT ![u] = "open"]
            /\ content' = content /\ next' = next
            /\ meta' = [meta EXCEPT ![u] = <<r.job, r.m>>]
            /\ ans = Ok(u)
    BY DEF HandleInit, Store!Open, SaysOk
  <1>2. <<r.job, r.m>> \in Member
    BY DEF Asked, Member
  <1>3. ServerInv'
    <2>1. status' \in [Uploads -> State] /\ next' \in [Uploads -> 0 .. Chunks]
          /\ DOMAIN content' = Uploads /\ DOMAIN meta' = Uploads
      BY <1>1 DEF ServerInv, State
    <2>2. status'[u] = "open" /\ meta'[u] = <<r.job, r.m>>
          /\ next'[u] = 0 /\ content'[u] = <<>>
      BY <1>1 DEF ServerInv
    <2>3. content'[u] = SubSeq(Whole(meta'[u][1], meta'[u][2]), 1, next'[u])
      BY <2>2, WholeFile
    <2>4. \A v \in Uploads \ {u} : status'[v] = status[v] /\ meta'[v] = meta[v]
      BY <1>1 DEF ServerInv
    <2> QED BY <1>1, <1>2, <2>1, <2>2, <2>3, <2>4 DEF ServerInv
  <1>4. Moves(Due(r)) /\ Says(r, ans)
    BY <1>1 DEF ServerInv, State, Moves, Says, OpenedFor, Ok
  <1> QED BY <1>3, <1>4

\* Nothing happens to the sessions.
LEMMA NothingMoves ==
    ASSUME ServerInv, status' = status, content' = content, next' = next, meta' = meta,
           NEW due
    PROVE  ServerInv' /\ Moves(due)
  BY DEF ServerInv, Moves

\* A session is thrown away.
LEMMA DropMoves ==
    ASSUME ServerInv, NEW u \in Uploads, status[u] = "open", Store!Drop(u), meta' = meta,
           NEW due
    PROVE  ServerInv' /\ Moves(due) /\ status'[u] = "gone"
  <1>1. /\ status' = [status EXCEPT ![u] = "gone"]
        /\ content' = [content EXCEPT ![u] = <<>>] /\ next' = [next EXCEPT ![u] = 0]
    BY DEF Store!Drop
  <1>2. status' \in [Uploads -> State] /\ next' \in [Uploads -> 0 .. Chunks]
        /\ DOMAIN content' = Uploads /\ DOMAIN meta' = Uploads
    BY <1>1, ClientBounds DEF ServerInv, State
  <1>3. status'[u] = "gone" /\ meta'[u] \in Member
    BY <1>1 DEF ServerInv
  <1>4. \A v \in Uploads \ {u} : /\ status'[v] = status[v] /\ meta'[v] = meta[v]
                                 /\ next'[v] = next[v] /\ content'[v] = content[v]
    BY <1>1 DEF ServerInv
  <1>5. ServerInv'
    BY <1>2, <1>3, <1>4 DEF ServerInv
  <1> QED BY <1>3, <1>4, <1>5 DEF Moves

\* A chunk is taken when it is the next one, and follows what is there.
LEMMA ChunkMoves ==
    ASSUME ServerInv, NEW r, Asked(r), NEW ans, r.kind = "chunk", HandleChunk(r, ans)
    PROVE  ServerInv' /\ Moves(Due(r)) /\ Says(r, ans)
  <1>1. CASE TakesChunk(r) /\ Store!Take(r.u, Body(r.job, r.m, r.i))
             /\ SaysOk(ans, r.i + 1) /\ UNCHANGED <<meta, ghosts>>
    <2> DEFINE u == r.u
               W == Whole(r.job, r.m)
    <2>1. /\ u \in Uploads /\ status[u] = "open" /\ meta[u] = <<r.job, r.m>>
          /\ r.i \in 0 .. Chunks - 1 /\ next[u] = r.i
      BY <1>1 DEF Asked, OpenedFor, TakesChunk
    <2>2. /\ content' = [content EXCEPT ![u] = @ \o Body(r.job, r.m, r.i)]
          /\ next' = [next EXCEPT ![u] = @ + 1] /\ status' = status /\ meta' = meta
      <3>1. content[u] = SubSeq(W, 1, r.i)
        BY <2>1 DEF ServerInv
      <3>2. Len(content[u]) = r.i
        BY <2>1, <3>1, WholeFile, ClientBounds
      <3>3. Len(Body(r.job, r.m, r.i)) = 1
        BY DEF Body
      <3>4. (IF Len(content[u]) + Len(Body(r.job, r.m, r.i)) = Chunks
             THEN Chunks - 1 + 1 ELSE next[u] + 1) = next[u] + 1
        BY <2>1, <3>2, <3>3, ClientBounds
      <3>5. next' = [next EXCEPT ![u] = next[u] + 1]
        BY <1>1, <3>4 DEF Store!Take
      <3> QED BY <1>1, <3>5 DEF Store!Take
    <2>3. next'[u] = r.i + 1 /\ r.i + 1 \in 0 .. Chunks
      BY <2>1, <2>2, ClientBounds DEF ServerInv
    <2>4. content'[u] = SubSeq(W, 1, next'[u])
      <3>1. content[u] = SubSeq(W, 1, r.i)
        BY <2>1 DEF ServerInv
      <3>2. content'[u] = SubSeq(W, 1, r.i) \o Body(r.job, r.m, r.i)
        BY <2>1, <2>2, <3>1 DEF ServerInv
      <3>3. SubSeq(W, 1, r.i) \o Body(r.job, r.m, r.i) = SubSeq(W, 1, r.i + 1)
        BY <2>1, WholeFile
      <3> QED BY <2>3, <3>2, <3>3
    <2>5. \A v \in Uploads \ {u} : next'[v] = next[v] /\ content'[v] = content[v]
      BY <2>2 DEF ServerInv
    <2>6. status' \in [Uploads -> State] /\ next' \in [Uploads -> 0 .. Chunks]
          /\ DOMAIN content' = Uploads /\ DOMAIN meta' = Uploads
      BY <2>1, <2>2, <2>3 DEF ServerInv
    <2>7. ServerInv'
      <3>1. status'[u] = "open" /\ meta'[u] = <<r.job, r.m>> /\ meta'[u] \in Member
        BY <2>1, <2>2 DEF ServerInv
      <3>2. content'[u] = SubSeq(Whole(meta'[u][1], meta'[u][2]), 1, next'[u])
        <4>1. meta'[u][1] = r.job /\ meta'[u][2] = r.m
          BY <3>1
        <4> QED BY <2>4, <4>1
      <3> QED BY <2>2, <2>5, <2>6, <3>1, <3>2 DEF ServerInv
    <2>8. Moves(Due(r))
      BY <2>1, <2>2, <2>3, <2>5 DEF Moves, Due
    <2> QED BY <2>3, <2>7, <2>8 DEF Says
  <1>2. CASE Refuses(ans) /\ UNCHANGED server
    <2>1. ServerInv' /\ Moves(Due(r))
      BY <1>2, NothingMoves DEF server
    <2> QED BY <1>2, <2>1 DEF Refuses, Refused, Says
  <1> QED BY <1>1, <1>2 DEF HandleChunk

\* What the server says of a session is how far it is.
LEMMA StatusMoves ==
    ASSUME ServerInv, NEW r, Asked(r), NEW ans, r.kind = "status", HandleStatus(r, ans)
    PROVE  ServerInv' /\ Moves(Due(r)) /\ Says(r, ans)
  <1>1. ServerInv' /\ Moves(Due(r))
    BY NothingMoves DEF HandleStatus, server
  <1>2. r.u \in Uploads
    BY DEF Asked, OpenedFor
  <1>3. Says(r, ans)
    <2>1. CASE status[r.u] = "open"
      <3>1. SaysOk(ans, next[r.u]) /\ next' = next
        BY <2>1 DEF HandleStatus, server
      <3>2. next[r.u] \in 0 .. Chunks
        BY <1>2 DEF ServerInv
      <3> QED BY <3>1, <3>2 DEF Says, SaysOk, Ok
    <2>2. CASE status[r.u] # "open"
      <3>1. ans = Ok(Chunks) \/ ans = Refused
        BY <2>2 DEF HandleStatus, SaysOk, Refuses
      <3>2. status' = status
        BY DEF HandleStatus, server
      <3> QED BY <2>2, <3>1, <3>2, ClientBounds DEF Says, Ok, Refused
    <2> QED BY <2>1, <2>2
  <1> QED BY <1>1, <1>3

\* What a finish publishes is the whole file.
LEMMA FinishMoves ==
    ASSUME ServerInv, NEW r, Asked(r), NEW ans, r.kind = "finish", HandleFinish(r, ans)
    PROVE  ServerInv' /\ Moves(Due(r)) /\ Says(r, ans)
  <1> DEFINE u == r.u
  <1>1. u \in Uploads
    BY DEF Asked, OpenedFor
  <1>2. CASE status[u] = "open" /\ Store!Publish(u) /\ SaysOk(ans, u) /\ meta' = meta
    <2>1. /\ status' = [status EXCEPT ![u] = "published"]
          /\ next' = [next EXCEPT ![u] = 0] /\ content' = content
          /\ Len(content[u]) = Chunks
      BY <1>2 DEF Store!Publish
    <2>2. content[u] = Whole(meta[u][1], meta[u][2])
      <3> DEFINE W == Whole(meta[u][1], meta[u][2])
      <3>1. content[u] = SubSeq(W, 1, next[u]) /\ next[u] \in 0 .. Chunks
        BY <1>1, <1>2 DEF ServerInv
      <3>2. next[u] = Chunks
        BY <2>1, <3>1, WholeFile
      <3> QED BY <3>1, <3>2, WholeFile
    <2>3. status'[u] = "published" /\ meta[u] \in Member
      BY <1>1, <1>2, <2>1 DEF ServerInv
    <2>4. \A v \in Uploads \ {u} : status'[v] = status[v] /\ next'[v] = next[v]
      BY <2>1 DEF ServerInv
    <2>5. status' \in [Uploads -> State] /\ next' \in [Uploads -> 0 .. Chunks]
      <3>1. status \in [Uploads -> State] /\ next \in [Uploads -> 0 .. Chunks]
        BY DEF ServerInv
      <3>2. "published" \in State /\ 0 \in 0 .. Chunks
        BY ClientBounds DEF State
      <3> QED BY <2>1, <3>1, <3>2
    <2>6. ServerInv'
      BY <1>2, <2>1, <2>2, <2>3, <2>4, <2>5 DEF ServerInv
    <2>7. Moves(Due(r))
      BY <1>2, <2>3, <2>4 DEF Moves
    <2> QED BY <1>2, <2>3, <2>6, <2>7 DEF Says, SaysOk, Ok
  <1>3. CASE status[u] = "open" /\ Store!Drop(u) /\ ans \in {Busy, Refused} /\ meta' = meta
    BY <1>1, <1>3, DropMoves DEF Says, Busy, Refused
  <1>4. CASE Refuses(ans) /\ UNCHANGED <<status, content, next, meta>>
    BY <1>4, NothingMoves DEF Says, Refuses, Refused
  <1> QED BY <1>2, <1>3, <1>4 DEF HandleFinish, Refuses

\* A request, timely or late, moves its own session at most, by its own chunk.
LEMMA HandleMoves ==
    ASSUME ServerInv, NEW r, Asked(r), NEW ans, Handle(r, ans)
    PROVE  ServerInv' /\ Moves(Due(r)) /\ Says(r, ans)
  <1>1. CASE TooBusy(ans)
    <2>1. ServerInv' /\ Moves(Due(r))
      BY <1>1, NothingMoves DEF TooBusy, server
    <2> QED BY <1>1, <2>1 DEF TooBusy, Busy, Says
  <1> QED BY <1>1, InitMoves, StatusMoves, ChunkMoves, FinishMoves DEF Handle

-----------------------------------------------------------------------------
(* What a move of the server, and more requests given up, leave true.      *)

\* What is due was given up, or is of another job than j.
Spares(due, j) ==
    \A t \in due : \/ \E r \in stray : r.kind = "chunk" /\ r.u = t[1] /\ r.i = t[2]
                   \/ meta[t[1]][1] # j

\* What is given up in this step is of another job than j.
SparesNow(j) == \A r \in stray' \ stray : Asked(r) /\ r.job # j

\* A session stays the session it was opened as.
LEMMA OpenedKept ==
    ASSUME NEW due, Moves(due), NEW u, NEW j, NEW m, OpenedFor(u, j, m)
    PROVE  OpenedFor(u, j, m)'
  BY DEF Moves, OpenedFor

\* A published file stays published.
LEMMA PublishedKept ==
    ASSUME NEW due, Moves(due), NEW u, NEW j, NEW m, PublishedAs(u, j, m)
    PROVE  PublishedAs(u, j, m)'
  BY DEF Moves, OpenedFor, PublishedAs

\* So do all the files behind a link.
LEMMA AllPublishedKept ==
    ASSUME NEW due, Moves(due), NEW files, NEW j, AllPublished(files, j)
    PROVE  AllPublished(files, j)'
  BY PublishedKept DEF AllPublished

\* A request that was in time stays in time or comes too late.
LEMMA AskedKept ==
    ASSUME ServerInv, ServerInv', NEW due, Moves(due), NEW r, Asked(r)
    PROVE  Asked(r)'
  <1>1. r.kind # "init" => OpenedFor(r.u, r.job, r.m)'
    BY OpenedKept DEF Asked
  <1>2. ASSUME r.kind \in {"chunk", "finish"}, IsOpen(r.u)'
        PROVE  /\ IsOpen(r.u) /\ r.u \in Uploads
               /\ next'[r.u] \in {next[r.u], next[r.u] + 1}
               /\ next[r.u] \in 0 .. Chunks /\ next'[r.u] \in 0 .. Chunks
    BY <1>2 DEF Asked, OpenedFor, Moves, IsOpen, ServerInv
  <1>3. r.kind = "chunk" =>
            r.i \in 0 .. Chunks - 1 /\ (IsOpen(r.u)' => r.i <= next'[r.u])
    BY <1>2, ClientBounds DEF Asked
  <1>4. r.kind = "finish" /\ IsOpen(r.u)' => next'[r.u] = Chunks
    BY <1>2, ClientBounds DEF Asked
  <1> QED BY <1>1, <1>3, <1>4 DEF Asked

\* A job that is in step with its session stays in step, whatever of its own was
\* given up or others do.
LEMMA InStepKept ==
    ASSUME ServerInv, ServerInv', NEW due, Moves(due), NEW j, NEW m, NEW u, NEW i \in Nat,
           OpenedFor(u, j, m), InStep(u, i), Spares(due, j), SparesNow(j)
    PROVE  /\ InStep(u, i)'
           /\ (IsOpen(u) => next[u] = i + 1) => (IsOpen(u)' => next'[u] = i + 1)
  <1> SUFFICES ASSUME IsOpen(u)'
               PROVE  /\ next'[u] \in {i, i + 1}
                      /\ \A r \in stray' : r.kind = "chunk" /\ r.u = u => r.i <= i
                      /\ (IsOpen(u) => next[u] = i + 1) => next'[u] = i + 1
    BY DEF InStep
  <1>1. /\ IsOpen(u) /\ u \in Uploads /\ meta[u] = <<j, m>>
        /\ next'[u] = next[u] \/ (<<u, next[u]>> \in due /\ next'[u] = next[u] + 1)
    BY DEF OpenedFor, Moves, IsOpen
  <1>2. /\ next[u] \in {i, i + 1} /\ next[u] \in Nat
        /\ \A r \in stray : r.kind = "chunk" /\ r.u = u => r.i <= i
    BY <1>1 DEF InStep, ServerInv
  <1>3. ASSUME <<u, next[u]>> \in due PROVE next[u] <= i
    <2>1. meta[u][1] = j
      BY <1>1
    <2>2. \E r \in stray : r.kind = "chunk" /\ r.u = u /\ r.i = next[u]
      BY <1>3, <2>1 DEF Spares
    <2> QED BY <1>2, <2>2
  <1>4. ASSUME NEW r \in stray', r.kind = "chunk", r.u = u PROVE r.i <= i
    <2>1. CASE r \in stray
      BY <1>2, <1>4, <2>1
    <2>2. CASE r \notin stray
      <3>1. meta[u] = <<r.job, r.m>> /\ r.job # j
        BY <1>4, <2>2 DEF SparesNow, Asked, OpenedFor
      <3> QED BY <1>1, <3>1
    <2> QED BY <2>1, <2>2
  <1> QED BY <1>1, <1>2, <1>3, <1>4

\* WaitingInv of the next state, spelled out for the record b the job is then.
LEMMA WaitingIs ==
    ASSUME NEW j, NEW b, job'[j] = b, Asked(Request(j))', Len(b.done) = b.m - 1,
           AllPublished(b.done, j)', b.pc = "chunk" => InStep(b.u, b.i)',
           b.ans # None /\ b.ans.code = "ok" =>
               LET v == b.ans.value
               IN  /\ b.pc = "init"   => OpenedFor(v, j, b.m)' /\ InStep(v, 0)'
                   /\ b.pc = "status" => v \in 0 .. Chunks /\ InStep(b.u, v)'
                   /\ b.pc = "chunk"  => (IsOpen(b.u)' => next'[b.u] = b.i + 1)
                   /\ b.pc = "finish" => v = b.u /\ PublishedAs(v, j, b.m)'
    PROVE  WaitingInv(j)'
  BY DEF WaitingInv, Concludes, InStep, IsOpen, OpenedFor, PublishedAs, AllPublished

\* So does everything else a waiting job relies on.
LEMMA WaitingKept ==
    ASSUME ServerInv, ServerInv', NEW due, Moves(due), NEW j \in Job, job \in [Job -> JobRecord],
           Waiting(j), WaitingInv(j), job'[j] = job[j], Spares(due, j), SparesNow(j)
    PROVE  WaitingInv(j)'
  <1>1. PICK b \in JobRecord : b = job[j]
    OBVIOUS
  <1>2. PICK r : r = Request(j)
    OBVIOUS
  <1>3. /\ r.kind = b.pc /\ r.job = j /\ r.m = b.m /\ r.u = b.u /\ r.i = b.i
        /\ b.pc \in Kind /\ b.i \in Nat
    BY <1>1, <1>2, ClientBounds DEF Request, Waiting, JobRecord
  <1>4. Asked(r) /\ Asked(r)' /\ Request(j)' = r
    BY <1>1, <1>2, AskedKept DEF WaitingInv, Request
  <1>5. Asked(Request(j))'
    BY <1>4 DEF Asked, OpenedFor, IsOpen
  <1>6. b.pc # "init" => OpenedFor(b.u, j, b.m)
    BY <1>3, <1>4 DEF Asked
  <1>7. Len(b.done) = b.m - 1 /\ AllPublished(b.done, j)'
    BY <1>1, AllPublishedKept DEF WaitingInv
  <1>8. b.pc = "chunk" => /\ InStep(b.u, b.i)'
                          /\ (IsOpen(b.u) => next[b.u] = b.i + 1)
                                 => (IsOpen(b.u)' => next'[b.u] = b.i + 1)
    BY <1>1, <1>3, <1>6, InStepKept DEF WaitingInv
  <1>9. ASSUME b.ans # None, b.ans.code = "ok"
        PROVE  LET v == b.ans.value
               IN  /\ b.pc = "init"   => OpenedFor(v, j, b.m)' /\ InStep(v, 0)'
                   /\ b.pc = "status" => v \in 0 .. Chunks /\ InStep(b.u, v)'
                   /\ b.pc = "chunk"  => (IsOpen(b.u)' => next'[b.u] = b.i + 1)
                   /\ b.pc = "finish" => v = b.u /\ PublishedAs(v, j, b.m)'
    <2> DEFINE v == b.ans.value
    <2>1. Concludes(j, v)
      BY <1>1, <1>9 DEF WaitingInv
    <2>2. b.pc = "init" => OpenedFor(v, j, b.m)' /\ InStep(v, 0)'
      BY <1>1, <2>1, OpenedKept, InStepKept DEF Concludes
    <2>3. b.pc = "status" => v \in 0 .. Chunks /\ InStep(b.u, v)'
      BY <1>1, <1>6, <2>1, InStepKept DEF Concludes
    <2>4. b.pc = "chunk" => (IsOpen(b.u)' => next'[b.u] = b.i + 1)
      BY <1>1, <1>8, <2>1 DEF Concludes
    <2>5. b.pc = "finish" => v = b.u /\ PublishedAs(v, j, b.m)'
      BY <1>1, <2>1, PublishedKept DEF Concludes
    <2> QED BY <2>2, <2>3, <2>4, <2>5
  <1> QED BY <1>1, <1>5, <1>7, <1>8, <1>9, WaitingIs

\* A page nobody touched shows what is still published.
LEMMA PageKept ==
    ASSUME PageInv, NEW due, Moves(due), resume' = resume, shown' = shown,
           \A j \in Job : job[j].pc = "failed" => job'[j].pc = "failed"
    PROVE  PageInv'
  <1>1. PICK r : r = resume
    OBVIOUS
  <1>2. PICK s : s = shown
    OBVIOUS
  <1>3. r # None => /\ r.job \in Job /\ Size[r.job] = 1 /\ job'[r.job].pc = "failed"
                    /\ OpenedFor(r.u, r.job, 1)'
    BY <1>1, OpenedKept DEF PageInv
  <1>4. s # None => /\ s.job \in Job /\ s.files \in Seq(Uploads)
                    /\ Len(s.files) = Size[s.job] /\ AllPublished(s.files, s.job)'
    BY <1>2, AllPublishedKept DEF PageInv
  <1>5. resume' = r /\ shown' = s
    BY <1>1, <1>2
  <1> QED BY <1>3, <1>4, <1>5 DEF PageInv, OpenedFor, AllPublished, PublishedAs

\* Requests that are on their way stay right, and so do those that join them.
LEMMA StraysKept ==
    ASSUME ServerInv, ServerInv', NEW due, Moves(due), StrayInv,
           \A r \in stray' \ stray : Asked(r)
    PROVE  StrayInv'
  <1>1. \A r : Asked(r) => Asked(r)'
    BY AskedKept
  <1>2. \A r \in stray' : Asked(r)
    BY DEF StrayInv
  <1>3. \A r \in stray' : Asked(r)'
    BY <1>1, <1>2
  <1> QED BY <1>3 DEF StrayInv

\* A job that did nothing.
LEMMA JobKept ==
    ASSUME ServerInv, ServerInv', NEW due, Moves(due), JobInv, NEW j \in Job,
           job'[j] = job[j], Spares(due, j), SparesNow(j)
    PROVE  IF Waiting(j)' THEN WaitingInv(j)' ELSE RestInv(j)'
  <1>1. Waiting(j)' <=> Waiting(j)
    BY DEF Waiting
  <1>2. CASE Waiting(j)
    BY <1>1, <1>2, WaitingKept DEF JobInv
  <1>3. CASE ~Waiting(j)
    BY <1>1, <1>3 DEF JobInv, RestInv
  <1> QED BY <1>1, <1>2, <1>3

\* The server gets to the request of a job: its answer tells what became of it.
LEMMA AnsweredInv ==
    ASSUME ClientInv, NEW j \in Job, Waiting(j), NEW ans \in Answer, stray' = stray,
           ServerInv', Moves(Due(Request(j))), Says(Request(j), ans),
           job' = [job EXCEPT ![j].ans = ans]
    PROVE  WaitingInv(j)'
  <1>1. PICK b \in JobRecord : b = job[j]
    BY DEF ClientInv, JobInv
  <1>2. PICK r : r = Request(j)
    OBVIOUS
  <1>3. /\ r.kind = b.pc /\ r.job = j /\ r.m = b.m /\ r.u = b.u /\ r.i = b.i
        /\ b.pc \in Kind /\ b.i \in Nat /\ b.m = job[j].m
    BY <1>1, <1>2, ClientBounds DEF Request, Waiting, JobRecord
  <1>4. WaitingInv(j) /\ ServerInv /\ StrayInv
    BY DEF ClientInv, JobInv
  <1>5. /\ job'[j] = [b EXCEPT !.ans = ans] /\ Request(j)' = r
        /\ Asked(r) /\ Asked(r)' /\ Moves(Due(r)) /\ Says(r, ans)
    BY <1>1, <1>2, <1>4, AskedKept DEF ClientInv, JobInv, JobRecord, WaitingInv, Request
  <1>6. Asked(Request(j))'
    BY <1>5 DEF Asked, OpenedFor, IsOpen
  <1>7. b.pc # "init" => OpenedFor(b.u, j, b.m)
    BY <1>3, <1>5 DEF Asked
  <1>8. Len(b.done) = b.m - 1 /\ AllPublished(b.done, j)'
    BY <1>1, <1>4, <1>5, AllPublishedKept DEF WaitingInv
  <1>9. b.pc = "chunk" => InStep(b.u, b.i)'
    <2> SUFFICES ASSUME b.pc = "chunk", IsOpen(b.u)'
                 PROVE  next'[b.u] \in {b.i, b.i + 1}
                        /\ \A s \in stray' : s.kind = "chunk" /\ s.u = b.u => s.i <= b.i
      BY DEF InStep
    <2>1. IsOpen(b.u) /\ InStep(b.u, b.i)
      BY <1>1, <1>4, <1>7 DEF OpenedFor, Moves, IsOpen, WaitingInv
    <2>2. next'[b.u] = next[b.u] \/ (next[b.u] = b.i /\ next'[b.u] = b.i + 1)
      BY <1>3, <1>5, <1>7 DEF OpenedFor, Moves, IsOpen, Due
    <2> QED BY <2>1, <2>2 DEF InStep
  <1>10. \A s \in stray : s.kind = "chunk" => OpenedFor(s.u, s.job, s.m)
    BY <1>4 DEF StrayInv, Asked
  <1>11. ASSUME ans.code = "ok"
         PROVE  LET v == ans.value
                IN  /\ b.pc = "init"   => OpenedFor(v, j, b.m)' /\ InStep(v, 0)'
                    /\ b.pc = "status" => v \in 0 .. Chunks /\ InStep(b.u, v)'
                    /\ b.pc = "chunk"  => (IsOpen(b.u)' => next'[b.u] = b.i + 1)
                    /\ b.pc = "finish" => v = b.u /\ PublishedAs(v, j, b.m)'
    <2> DEFINE v == ans.value
    <2>1. b.pc = "init" => OpenedFor(v, j, b.m)' /\ InStep(v, 0)'
      BY <1>3, <1>5, <1>10, <1>11 DEF Says, InStep, OpenedFor
    <2>2. b.pc = "status" => v \in 0 .. Chunks /\ InStep(b.u, v)'
      <3> SUFFICES ASSUME b.pc = "status"
                   PROVE  v \in 0 .. Chunks /\ InStep(b.u, v)'
        OBVIOUS
      <3>1. v \in 0 .. Chunks /\ (IsOpen(b.u)' => next'[b.u] = v)
        BY <1>3, <1>5, <1>11 DEF Says, IsOpen
      <3>2. StrayInv'
        BY <1>4, <1>5, StraysKept
      <3>3. \A s \in stray' : s.kind = "chunk" /\ s.u = b.u /\ IsOpen(b.u)' => s.i <= next'[b.u]
        BY <3>2 DEF StrayInv, Asked, IsOpen
      <3> QED BY <3>1, <3>3 DEF InStep
    <2>3. b.pc = "chunk" => (IsOpen(b.u)' => next'[b.u] = b.i + 1)
      BY <1>3, <1>5, <1>11 DEF Says
    <2>4. b.pc = "finish" => v = b.u /\ PublishedAs(v, j, b.m)'
      BY <1>3, <1>5, <1>7, <1>11, OpenedKept DEF Says, PublishedAs
    <2> QED BY <2>1, <2>2, <2>3, <2>4
  <1>12. PICK c : c = [b EXCEPT !.ans = ans]
    OBVIOUS
  <1>13. c.pc = b.pc /\ c.u = b.u /\ c.i = b.i /\ c.m = b.m /\ c.done = b.done /\ c.ans = ans
    BY <1>1, <1>12 DEF JobRecord
  <1> QED BY <1>5, <1>6, <1>8, <1>9, <1>11, <1>12, <1>13, WaitingIs

\* A session is new only to requests that open it; what is due is the sender's.
LEMMA DueSpares ==
    ASSUME NEW r, Asked(r), NEW j, r.job # j \/ r \in stray
    PROVE  Spares(Due(r), j)
  <1>1. CASE r \in stray
    BY <1>1 DEF Spares, Due
  <1>2. CASE r.job # j
    BY <1>2 DEF Spares, Due, Asked, OpenedFor
  <1> QED BY <1>1, <1>2

\* The server answers a job that waits.
LEMMA ServeStep ==
    ASSUME ClientInv, NEW j \in Job, Serve(j)
    PROVE  ClientInv'
  <1>1. PICK ans \in Answer :
            Handle(Request(j), ans) /\ job' = [job EXCEPT ![j].ans = ans]
    BY DEF Serve
  <1>2. /\ Waiting(j) /\ stray' = stray /\ resume' = resume /\ shown' = shown
        /\ ServerInv /\ StrayInv /\ JobInv /\ PageInv
    BY DEF Serve, page, ClientInv
  <1>3. PICK r : r = Request(j)
    OBVIOUS
  <1>4. Asked(r) /\ r.job = j
    BY <1>2, <1>3 DEF JobInv, WaitingInv, Request
  <1>5. ServerInv' /\ Moves(Due(r)) /\ Says(r, ans)
    BY <1>1, <1>2, <1>3, <1>4, HandleMoves
  <1>6. StrayInv'
    BY <1>2, <1>5, StraysKept
  <1>7. JobInv'
    <2>1. job' \in [Job -> JobRecord]
      BY <1>1, <1>2 DEF JobInv, JobRecord
    <2>2. WaitingInv(j)' /\ Waiting(j)'
      <3>1. WaitingInv(j)'
        BY <1>1, <1>2, <1>3, <1>5, AnsweredInv
      <3>2. job'[j].pc = job[j].pc
        BY <1>1, <1>2 DEF JobInv, JobRecord
      <3> QED BY <1>2, <3>1, <3>2 DEF Waiting
    <2>3. ASSUME NEW k \in Job, k # j
          PROVE  IF Waiting(k)' THEN WaitingInv(k)' ELSE RestInv(k)'
      <3>1. job'[k] = job[k] /\ Spares(Due(r), k) /\ SparesNow(k)
        BY <1>1, <1>2, <1>4, <2>3, DueSpares DEF JobInv, SparesNow
      <3> QED BY <1>2, <1>5, <3>1, JobKept
    <2> QED BY <2>1, <2>2, <2>3 DEF JobInv
  <1>8. PageInv'
    <2>1. \A k \in Job : job'[k].pc = job[k].pc
      BY <1>1, <1>2 DEF JobInv, JobRecord
    <2> QED BY <1>2, <1>5, <2>1, PageKept
  <1> QED BY <1>5, <1>6, <1>7, <1>8 DEF ClientInv

\* The jobs, the page and what was given up when only the sessions moved.
LEMMA OnlySessionsMove ==
    ASSUME ClientInv, ServerInv', NEW due, Moves(due), stray' \subseteq stray,
           job' = job, resume' = resume, shown' = shown, \A j \in Job : Spares(due, j)
    PROVE  ClientInv'
  <1>1. ServerInv /\ StrayInv /\ JobInv /\ PageInv
    BY DEF ClientInv
  <1>2. StrayInv' /\ PageInv'
    BY <1>1, StraysKept, PageKept
  <1>3. \A j \in Job : SparesNow(j)
    BY DEF SparesNow
  <1>4. \A j \in Job : IF Waiting(j)' THEN WaitingInv(j)' ELSE RestInv(j)'
    BY <1>1, <1>3, JobKept
  <1>5. JobInv'
    BY <1>1, <1>4 DEF JobInv
  <1> QED BY <1>2, <1>5 DEF ClientInv

\* The server gets to a request that was given up.
LEMMA ServeStrayStep ==
    ASSUME ClientInv, NEW r \in stray, ServeStray(r)
    PROVE  ClientInv'
  <1>1. Asked(r) /\ ServerInv
    BY DEF ClientInv, StrayInv
  <1>2. ServerInv' /\ Moves(Due(r))
    BY <1>1, HandleMoves DEF ServeStray
  <1>3. \A j \in Job : Spares(Due(r), j)
    BY <1>1, DueSpares
  <1> QED BY <1>2, <1>3, OnlySessionsMove DEF ServeStray, page

\* The cleaner throws a session away.
LEMMA ReapStep ==
    ASSUME ClientInv, NEW u \in Uploads, Reap(u)
    PROVE  ClientInv'
  <1>1. ServerInv' /\ Moves({})
    <2>1. ServerInv /\ meta' = meta
      BY DEF Reap, ClientInv
    <2>2. CASE status[u] = "open"
      BY <2>1, <2>2, DropMoves DEF Reap
    <2>3. CASE status[u] # "open"
      BY <2>1, <2>3, NothingMoves DEF Reap
    <2> QED BY <2>2, <2>3
  <1>2. \A j \in Job : Spares({}, j)
    BY DEF Spares
  <1> QED BY <1>1, <1>2, OnlySessionsMove DEF Reap, page

-----------------------------------------------------------------------------
(* The steps of the page: the server rests, one job turns to b.            *)

GivesUpOnly(j) == \A r \in stray' \ stray : Asked(r) /\ r.job = j

\* A job that turns rightly leaves the other jobs right.
LEMMA JobTurns ==
    ASSUME ClientInv, UNCHANGED server, NEW j \in Job, NEW b \in JobRecord,
           job' = [job EXCEPT ![j] = b], GivesUpOnly(j),
           IF b.pc \in Kind THEN WaitingInv(j)' ELSE RestInv(j)'
    PROVE  ServerInv' /\ StrayInv' /\ JobInv' /\ Moves({}) /\ job'[j] = b
           /\ \A k \in Job \ {j} : job'[k] = job[k]
  <1>1. ServerInv /\ StrayInv /\ JobInv
    BY DEF ClientInv
  <1>2. ServerInv' /\ Moves({})
    BY <1>1, NothingMoves DEF server
  <1>3. StrayInv'
    BY <1>1, <1>2, StraysKept DEF GivesUpOnly
  <1>4. job' \in [Job -> JobRecord] /\ job'[j] = b /\ \A k \in Job \ {j} : job'[k] = job[k]
    BY <1>1 DEF JobInv
  <1>5. ASSUME NEW k \in Job, k # j
        PROVE  IF Waiting(k)' THEN WaitingInv(k)' ELSE RestInv(k)'
    <2>1. Spares({}, k) /\ SparesNow(k)
      BY <1>5 DEF Spares, SparesNow, GivesUpOnly
    <2> QED BY <1>1, <1>2, <1>4, <1>5, <2>1, JobKept
  <1>6. IF Waiting(j)' THEN WaitingInv(j)' ELSE RestInv(j)'
    BY <1>4 DEF Waiting
  <1>7. JobInv'
    BY <1>4, <1>5, <1>6 DEF JobInv
  <1> QED BY <1>2, <1>3, <1>4, <1>7

\* A job that turns, on a page that stays, or forgets what could be resumed.
LEMMA JobTurnsOnPage ==
    ASSUME ClientInv, UNCHANGED server, NEW j \in Job, NEW b \in JobRecord,
           job' = [job EXCEPT ![j] = b], GivesUpOnly(j), shown' \in {shown, None},
           (resume' = resume /\ job[j].pc # "failed") \/ resume' = None,
           IF b.pc \in Kind THEN WaitingInv(j)' ELSE RestInv(j)'
    PROVE  ClientInv'
  <1>1. ServerInv' /\ StrayInv' /\ JobInv' /\ Moves({})
        /\ \A k \in Job \ {j} : job'[k] = job[k]
    BY JobTurns
  <1>2. PICK s : s = shown'
    OBVIOUS
  <1>3. PICK r : r = resume'
    OBVIOUS
  <1>4. PageInv
    BY DEF ClientInv
  <1>5. s # None => /\ s.job \in Job /\ s.files \in Seq(Uploads)
                    /\ Len(s.files) = Size[s.job] /\ AllPublished(s.files, s.job)'
    BY <1>1, <1>2, <1>4, AllPublishedKept DEF PageInv
  <1>6. r # None => /\ r.job \in Job /\ Size[r.job] = 1 /\ job'[r.job].pc = "failed"
                    /\ OpenedFor(r.u, r.job, 1)'
    BY <1>1, <1>3, <1>4, OpenedKept DEF PageInv
  <1>7. PageInv'
    BY <1>2, <1>3, <1>5, <1>6 DEF PageInv, OpenedFor, AllPublished, PublishedAs
  <1> QED BY <1>1, <1>7 DEF ClientInv

\* A job that was not started.
LEMMA UnusedRests == Unused \in JobRecord /\ Unused.ans = None /\ Unused.done = <<>>
  <1>1. 0 \in 0 .. Chunks /\ <<>> \in Seq(Uploads)
    BY ClientBounds
  <1> QED BY <1>1 DEF Unused, JobRecord

\* A job that fails: what can be resumed is its session, if it is known.
LEMMA FailTurns ==
    ASSUME ClientInv, UNCHANGED server, NEW j \in Job, NEW u, Fail(j, u),
           u = None \/ (Size[j] = 1 => OpenedFor(u, j, 1)), GivesUpOnly(j)
    PROVE  ClientInv'
  <1> DEFINE b == [Unused EXCEPT !.pc = "failed", !.m = 1]
  <1>1. b \in JobRecord /\ b.pc = "failed" /\ b.ans = None /\ b.done = <<>> /\ b.m = 1
    <2>1. Unused \in JobRecord /\ Unused.ans = None /\ Unused.done = <<>>
      BY UnusedRests
    <2> QED BY <2>1 DEF JobRecord
  <1>2. job' = [job EXCEPT ![j] = b] /\ shown' = shown
    BY DEF Fail
  <1>3. job'[j] = b
    BY <1>2 DEF ClientInv, JobInv
  <1>4. RestInv(j)' /\ b.pc \notin Kind
    BY <1>1, <1>3 DEF RestInv, Kind
  <1> HIDE DEF b
  <1>5. ServerInv' /\ StrayInv' /\ JobInv' /\ Moves({})
    BY <1>1, <1>2, <1>4, JobTurns
  <1>6. PageInv
    BY DEF ClientInv
  <1>7. PICK s : s = shown
    OBVIOUS
  <1>8. s # None => AllPublished(s.files, s.job)'
    BY <1>5, <1>6, <1>7, AllPublishedKept DEF PageInv
  <1>9. shown' # None => /\ shown'.job \in Job /\ shown'.files \in Seq(Uploads)
                         /\ Len(shown'.files) = Size[shown'.job]
                         /\ AllPublished(shown.files, shown.job)'
    BY <1>2, <1>6, <1>7, <1>8 DEF PageInv, OpenedFor, AllPublished, PublishedAs
  <1>10. resume' # None => /\ resume'.job = j /\ Size[j] = 1 /\ OpenedFor(u, j, 1)'
                           /\ resume'.u = u
    BY <1>5, OpenedKept DEF Fail
  <1>11. resume' # None => /\ resume'.job \in Job /\ Size[resume'.job] = 1
                           /\ job'[resume'.job].pc = "failed"
                           /\ OpenedFor(resume.u, resume.job, 1)'
    BY <1>1, <1>3, <1>10 DEF OpenedFor
  <1>12. PageInv'
    BY <1>9, <1>11 DEF PageInv
  <1> QED BY <1>5, <1>12 DEF ClientInv

\* A job that asks for a session for file m of its link.
LEMMA SendInitTurns ==
    ASSUME ClientInv, UNCHANGED server, NEW j \in Job, Waiting(j),
           NEW m \in 1 .. Size[j], NEW done \in Seq(Uploads), Len(done) = m - 1,
           AllPublished(done, j), SendInit(j, m, done), GivesUpOnly(j)
    PROVE  ClientInv'
  <1>0. PICK b : b = [job[j] EXCEPT !.pc = "init", !.m = m, !.u = None, !.i = 0,
                                    !.ans = None, !.done = done]
    OBVIOUS
  <1>1. job[j] \in JobRecord /\ m \in Nat
    BY ClientBounds DEF ClientInv, JobInv, Job
  <1>2. /\ b \in JobRecord /\ b.pc = "init" /\ b.m = m /\ b.u = None /\ b.ans = None
        /\ b.done = done
    <2>1. 0 \in 0 .. Chunks
      BY ClientBounds
    <2>2. /\ b.pc = "init" /\ b.m = m /\ b.u = None /\ b.ans = None
          /\ b.done = done
      BY <1>0, <1>1 DEF JobRecord
    <2> QED BY <1>0, <1>1, <2>1, <2>2 DEF JobRecord, Kind
  <1>3. job' = [job EXCEPT ![j] = b] /\ UNCHANGED page
    BY <1>0 DEF SendInit
  <1>4. job'[j] = b
    BY <1>3 DEF ClientInv, JobInv
  <1>5. ServerInv' /\ Moves({})
    BY NothingMoves DEF ClientInv, server
  <1>6. AllPublished(done, j)'
    BY <1>5, AllPublishedKept
  <1>7. Asked(Request(j))'
    BY <1>2, <1>4 DEF Asked, Request, Kind
  <1>8. WaitingInv(j)'
    BY <1>2, <1>4, <1>6, <1>7, WaitingIs
  <1>9. job[j].pc # "failed"
    BY DEF Waiting, Kind
  <1> QED BY <1>2, <1>3, <1>8, <1>9, JobTurnsOnPage DEF page, Kind

\* A job that goes on with chunk i, or with the finish after the last.
LEMMA SendFromTurns ==
    ASSUME ClientInv, UNCHANGED <<server, page, stray>>, NEW j \in Job, Waiting(j),
           NEW u, OpenedFor(u, j, job[j].m), NEW i \in 0 .. Chunks, InStep(u, i),
           SendFrom(j, u, i)
    PROVE  ClientInv'
  <1>0. PICK b : b = [job[j] EXCEPT !.pc = IF AllSent(i) THEN "finish" ELSE "chunk",
                                    !.u = u, !.i = i, !.tries = 0, !.ans = None]
    OBVIOUS
  <1>1. job[j] \in JobRecord /\ WaitingInv(j) /\ u \in Uploads
    BY DEF ClientInv, JobInv, OpenedFor
  <1>2. /\ b \in JobRecord /\ b.pc = (IF i = Chunks THEN "finish" ELSE "chunk")
        /\ b.m = job[j].m /\ b.u = u /\ b.i = i /\ b.ans = None /\ b.done = job[j].done
    BY <1>0, <1>1 DEF JobRecord, Kind, AllSent
  <1>3. job' = [job EXCEPT ![j] = b]
    BY <1>0 DEF SendFrom
  <1>4. job'[j] = b
    BY <1>3 DEF ClientInv, JobInv
  <1>5. ServerInv' /\ Moves({}) /\ ServerInv
    BY NothingMoves DEF ClientInv, server
  <1>6. PICK done \in Seq(Uploads) : done = job[j].done
    BY <1>1 DEF JobRecord
  <1>7. Len(done) = b.m - 1 /\ AllPublished(done, j)'
    BY <1>1, <1>2, <1>5, <1>6, AllPublishedKept DEF WaitingInv
  <1>8. OpenedFor(u, j, b.m)' /\ InStep(u, i)'
    BY <1>2 DEF OpenedFor, InStep, IsOpen, server
  <1>9. IsOpen(u)' => next'[u] \in {i, i + 1} /\ next'[u] \in 0 .. Chunks
    BY <1>1, <1>5, <1>8 DEF InStep, ServerInv
  <1>10. b.m \in 1 .. Size[j] /\ b.pc \in Kind
    BY <1>1, <1>2 DEF WaitingInv, Asked, Request, Kind
  <1>11. Asked(Request(j))'
    <2>1. PICK r : r = Request(j)'
      OBVIOUS
    <2>2. r.kind = b.pc /\ r.job = j /\ r.m = b.m /\ r.u = u /\ r.i = i
      BY <1>2, <1>4, <2>1 DEF Request
    <2>3. Asked(r)'
      BY <1>2, <1>8, <1>9, <1>10, <2>2, ClientBounds DEF Asked, IsOpen
    <2> QED BY <2>1, <2>3 DEF Asked, OpenedFor, IsOpen
  <1>12. WaitingInv(j)'
    BY <1>2, <1>4, <1>6, <1>7, <1>8, <1>11, WaitingIs
  <1>13. job[j].pc # "failed" /\ GivesUpOnly(j)
    BY DEF Waiting, Kind, GivesUpOnly
  <1> QED BY <1>2, <1>3, <1>10, <1>12, <1>13, JobTurnsOnPage DEF page

\* A file was published: the next one's turn, or all of them are shown.
LEMMA FinishTurns ==
    ASSUME ClientInv, UNCHANGED <<server, stray>>, NEW j \in Job, job[j].pc = "finish",
           NEW ans, ans.code = "ok", Concludes(j, ans.value), ReactFinish(j, ans)
    PROVE  ClientInv'
  <1>1. PICK b \in JobRecord : b = job[j]
    BY DEF ClientInv, JobInv
  <1>2. Waiting(j) /\ WaitingInv(j) /\ GivesUpOnly(j)
    BY DEF Waiting, Kind, ClientInv, JobInv, GivesUpOnly
  <1>3. PICK files : files = Append(b.done, ans.value)
    OBVIOUS
  <1>4. b.m \in 1 .. Size[j] /\ b.m \in Nat /\ b.done \in Seq(Uploads)
        /\ Len(b.done) = b.m - 1 /\ AllPublished(b.done, j)
        /\ PublishedAs(ans.value, j, b.m) /\ ans.value \in Uploads
    BY <1>1, <1>2 DEF JobRecord, WaitingInv, Asked, Request, Concludes, PublishedAs, OpenedFor
  <1>5. files \in Seq(Uploads) /\ Len(files) = b.m
    BY <1>3, <1>4
  <1>6. AllPublished(files, j)
    <2> SUFFICES ASSUME NEW m \in 1 .. b.m PROVE PublishedAs(files[m], j, m)
      BY <1>5 DEF AllPublished
    <2>1. CASE m = b.m
      BY <1>3, <1>4, <2>1
    <2>2. CASE m # b.m
      BY <1>3, <1>4, <2>2 DEF AllPublished
    <2> QED BY <2>1, <2>2
  <1>7. CASE job[j].m < Size[j] /\ SendInit(j, job[j].m + 1, Append(job[j].done, ans.value))
    <2>1. SendInit(j, b.m + 1, files) /\ b.m + 1 \in 1 .. Size[j] /\ Len(files) = (b.m + 1) - 1
      <3>1. Size[j] \in Nat
        BY ClientBounds DEF Job
      <3> QED BY <1>1, <1>3, <1>4, <1>5, <1>7, <3>1
    <2> QED BY <1>2, <1>5, <1>6, <2>1, SendInitTurns
  <1>8. CASE /\ job[j].m = Size[j]
             /\ job' = [job EXCEPT ![j] = [Unused EXCEPT !.pc = "done"]]
             /\ shown' = [job |-> j, files |-> Append(job[j].done, ans.value)]
             /\ UNCHANGED <<resume, enabled, acked>>
    <2>1. PICK c : c = [Unused EXCEPT !.pc = "done"]
      OBVIOUS
    <2>2. c \in JobRecord /\ c.pc = "done" /\ c.ans = None /\ c.done = <<>>
      BY <2>1, UnusedRests DEF JobRecord
    <2>3. job' = [job EXCEPT ![j] = c] /\ job'[j] = c
      BY <1>8, <2>1 DEF ClientInv, JobInv
    <2>4. RestInv(j)' /\ c.pc \notin Kind
      BY <2>2, <2>3 DEF RestInv, Kind
    <2>5. ServerInv' /\ StrayInv' /\ JobInv' /\ Moves({})
          /\ \A k \in Job \ {j} : job'[k] = job[k]
      BY <1>2, <2>2, <2>3, <2>4, JobTurns
    <2>6. PICK r : r = resume
      OBVIOUS
    <2>7. r # None => /\ r.job \in Job /\ Size[r.job] = 1 /\ job'[r.job].pc = "failed"
                      /\ OpenedFor(r.u, r.job, 1)'
      BY <2>5, <2>6, OpenedKept DEF ClientInv, PageInv
    <2>8. AllPublished(files, j)' /\ shown'.job = j /\ shown'.files = files
      BY <1>1, <1>3, <1>6, <1>8, <2>5, AllPublishedKept
    <2>9. Len(files) = Size[j] /\ resume' = r
      BY <1>1, <1>5, <1>8, <2>6
    <2>10. PageInv'
      BY <1>5, <2>7, <2>8, <2>9 DEF PageInv, OpenedFor, AllPublished, PublishedAs
    <2> QED BY <2>5, <2>10 DEF ClientInv
  <1> QED BY <1>7, <1>8 DEF ReactFinish, Published

\* Whatever a job hears, or that it hears nothing, it goes on rightly.
LEMMA ReactTurns ==
    ASSUME ClientInv, UNCHANGED server, NEW j \in Job, Waiting(j), NEW ans, React(j, ans),
           ans.code = "ok" => Concludes(j, ans.value) /\ stray' = stray,
           stray' \subseteq stray \cup {Request(j)}
    PROVE  ClientInv'
  <1>1. PICK b \in JobRecord : b = job[j]
    BY DEF ClientInv, JobInv
  <1>2. WaitingInv(j) /\ Asked(Request(j)) /\ b.m \in 1 .. Size[j]
    BY <1>1 DEF ClientInv, JobInv, WaitingInv, Asked, Request
  <1>3. GivesUpOnly(j)
    BY <1>2 DEF GivesUpOnly, Request
  <1>4. b.pc # "init" => OpenedFor(b.u, j, b.m)
    BY <1>1, <1>2 DEF Asked, Request
  <1>5. Size[j] = 1 => b.m = 1
    BY <1>2
  <1>6. CASE job[j].pc = "status" /\ ReactStatus(j, ans)
    <2>1. CASE ans.code = "ok"
      <3>1. /\ SendFrom(j, b.u, ans.value) /\ UNCHANGED page /\ ans.value \in 0 .. Chunks
            /\ InStep(b.u, ans.value)
        BY <1>1, <1>6, <2>1 DEF ReactStatus, Concludes
      <3> QED BY <1>1, <1>4, <1>6, <2>1, <3>1, SendFromTurns
    <2>2. CASE ans.code # "ok"
      <3>1. SendInit(j, b.m, b.done)
        BY <1>1, <1>6, <2>2 DEF ReactStatus
      <3>2. b.done \in Seq(Uploads) /\ Len(b.done) = b.m - 1 /\ AllPublished(b.done, j)
        BY <1>1, <1>2 DEF WaitingInv, JobRecord
      <3> QED BY <1>2, <1>3, <3>1, <3>2, SendInitTurns
    <2> QED BY <2>1, <2>2
  <1>7. CASE job[j].pc = "init" /\ ReactInit(j, ans)
    <2>1. CASE ans.code = "ok"
      <3>1. /\ SendFrom(j, ans.value, 0) /\ UNCHANGED page /\ OpenedFor(ans.value, j, b.m)
            /\ InStep(ans.value, 0) /\ 0 \in 0 .. Chunks
        BY <1>1, <1>7, <2>1, ClientBounds DEF ReactInit, Concludes
      <3> QED BY <1>1, <2>1, <3>1, SendFromTurns
    <2>2. CASE ans.code # "ok"
      BY <1>3, <1>7, <2>2, FailTurns DEF ReactInit
    <2> QED BY <2>1, <2>2
  <1>8. CASE job[j].pc = "chunk" /\ ReactChunk(j, ans)
    <2>1. InStep(b.u, b.i) /\ OpenedFor(b.u, j, b.m) /\ b.i \in 0 .. Chunks - 1
      BY <1>1, <1>2, <1>4, <1>8 DEF WaitingInv, Asked, Request
    <2>2. CASE /\ Acknowledged(ans) /\ SendFrom(j, job[j].u, job[j].i + 1)
               /\ UNCHANGED page
      <3>1. b.i + 1 \in 0 .. Chunks /\ SendFrom(j, b.u, b.i + 1)
        BY <1>1, <2>1, <2>2, ClientBounds
      <3>2. InStep(b.u, b.i + 1)
        <4>1. IsOpen(b.u) => next[b.u] = b.i + 1
          BY <1>1, <1>8, <2>2 DEF Concludes, Acknowledged
        <4>2. IsOpen(b.u) => \A r \in stray : r.kind = "chunk" /\ r.u = b.u
                                                  => r.i <= b.i /\ r.i \in Nat
          BY <2>1, ClientBounds DEF InStep, ClientInv, StrayInv, Asked
        <4> QED BY <2>1, <4>1, <4>2 DEF InStep
      <3> QED BY <1>1, <2>1, <2>2, <3>1, <3>2, SendFromTurns DEF Acknowledged
    <2>3. CASE /\ ~Acknowledged(ans) /\ UNCHANGED page
               /\ job' = [job EXCEPT ![j].tries = @ + 1, ![j].ans = None]
      <3>1. PICK c : c = [b EXCEPT !.tries = @ + 1, !.ans = None]
        OBVIOUS
      <3>2. /\ c \in JobRecord /\ c.pc = "chunk" /\ c.ans = None /\ c.m = b.m
            /\ c.u = b.u /\ c.i = b.i /\ c.done = b.done
        <4>1. b.tries + 1 \in Nat /\ b.pc = "chunk"
          BY <1>1, <1>8 DEF JobRecord
        <4>2. c = [b EXCEPT !.tries = b.tries + 1, !.ans = None]
          BY <3>1
        <4>3. c \in JobRecord
          BY <4>1, <4>2 DEF JobRecord
        <4> QED BY <4>1, <4>2, <4>3 DEF JobRecord
      <3>3. job' = [job EXCEPT ![j] = c] /\ job'[j] = c
        BY <1>1, <2>3, <3>1 DEF ClientInv, JobInv
      <3>4. ServerInv' /\ Moves({}) /\ ServerInv
        BY NothingMoves DEF ClientInv, server
      <3>5. Len(c.done) = c.m - 1 /\ AllPublished(c.done, j)'
        BY <1>1, <1>2, <3>2, <3>4, AllPublishedKept DEF WaitingInv
      <3>6. Asked(Request(j))'
        <4>1. PICK q : q = Request(j)
          OBVIOUS
        <4>2. Asked(q)' /\ Request(j)' = q
          BY <1>1, <1>2, <1>8, <3>2, <3>3, <3>4, <4>1, AskedKept DEF Request
        <4> QED BY <4>2 DEF Asked, OpenedFor, IsOpen
      <3>7. InStep(c.u, c.i)'
        BY <1>1, <2>1, <3>2 DEF InStep, IsOpen, server, Request
      <3>8. WaitingInv(j)'
        BY <3>2, <3>3, <3>5, <3>6, <3>7, WaitingIs
      <3> QED BY <1>3, <1>8, <2>3, <3>2, <3>3, <3>8, JobTurnsOnPage DEF page, Kind
    <2>4. CASE Fail(j, job[j].u)
      BY <1>1, <1>3, <1>5, <2>1, <2>4, FailTurns
    <2> QED BY <1>8, <2>2, <2>3, <2>4 DEF ReactChunk
  <1>9. CASE job[j].pc = "finish" /\ ReactFinish(j, ans)
    <2>1. CASE ans.code = "ok"
      BY <1>9, <2>1, FinishTurns
    <2>2. CASE ans.code # "ok"
      <3>1. Fail(j, b.u)
        BY <1>1, <1>9, <2>2 DEF ReactFinish, Published
      <3> QED BY <1>1, <1>3, <1>4, <1>5, <1>9, <3>1, FailTurns
    <2> QED BY <2>1, <2>2
  <1> QED BY <1>6, <1>7, <1>8, <1>9 DEF React

\* Nothing was opened, asked for or shown yet.
LEMMA ClientInvInit == Init => ClientInv
  <1> SUFFICES ASSUME Init PROVE ClientInv
    OBVIOUS
  <1>1. ServerInv
    BY ClientBounds DEF Init, Store!Init, ServerInv, State
  <1>2. StrayInv /\ PageInv
    BY DEF Init, StrayInv, PageInv
  <1>3. JobInv
    <2>1. job \in [Job -> JobRecord] /\ \A j \in Job : RestInv(j) /\ ~Waiting(j)
      BY UnusedRests DEF Init, RestInv, Waiting, Unused, Kind
    <2> QED BY <2>1 DEF JobInv
  <1> QED BY <1>1, <1>2, <1>3 DEF ClientInv

\* The answer arrives.
LEMMA ReceiveStep ==
    ASSUME ClientInv, NEW j \in Job, Receive(j)
    PROVE  ClientInv'
  <1>1. WaitingInv(j) /\ UNCHANGED server /\ stray' = stray
    BY DEF Receive, ClientInv, JobInv
  <1>2. PICK ans : ans = job[j].ans
    OBVIOUS
  <1>3. Waiting(j) /\ React(j, ans) /\ (ans.code = "ok" => Concludes(j, ans.value))
    BY <1>1, <1>2 DEF Receive, WaitingInv
  <1> QED BY <1>1, <1>3, ReactTurns

\* The connection breaks; the request may still be on its way.
LEMMA BreakStep ==
    ASSUME ClientInv, NEW j \in Job, Break(j)
    PROVE  ClientInv'
  <1>1. stray' \subseteq stray \cup {Request(j)}
    BY DEF Break
  <1> QED BY <1>1, ReactTurns DEF Break, Broken

\* The head of a finish's answer arrives and its body does not.
LEMMA BreakBodyStep ==
    ASSUME ClientInv, NEW j \in Job, BreakBody(j)
    PROVE  ClientInv'
  BY FailTurns DEF BreakBody, GivesUpOnly

\* The user clicks again, and the page asks how far the session came.
LEMMA RetryStep ==
    ASSUME ClientInv, Retry
    PROVE  ClientInv'
  <1>1. PICK r : r = resume
    OBVIOUS
  <1> DEFINE j == r.job
  <1>2. /\ r # None /\ j \in Job /\ job[j].pc = "failed" /\ OpenedFor(r.u, j, 1)
        /\ Size[j] = 1
    BY <1>1 DEF ClientInv, PageInv, Retry
  <1>3. PICK b \in JobRecord : b = job[j]
    BY <1>2 DEF ClientInv, JobInv
  <1>4. b.ans = None /\ b.done = <<>> /\ b.m = 1 /\ b.pc = "failed"
    BY <1>2, <1>3 DEF ClientInv, JobInv, RestInv, Waiting, Kind
  <1>5. PICK c : c = [b EXCEPT !.pc = "status", !.u = r.u]
    OBVIOUS
  <1>6. /\ c \in JobRecord /\ c.pc = "status" /\ c.u = r.u /\ c.m = 1 /\ c.ans = None
        /\ c.done = <<>>
    BY <1>2, <1>4, <1>5 DEF JobRecord, Kind, OpenedFor
  <1>7. job' = [job EXCEPT ![j] = c] /\ job'[j] = c
    BY <1>1, <1>2, <1>3, <1>5 DEF Retry, ClientInv, JobInv
  <1>8. UNCHANGED server /\ stray' = stray /\ shown' = shown /\ resume' = None
    BY DEF Retry
  <1>9. OpenedFor(r.u, j, 1)'
    BY <1>2, <1>8 DEF OpenedFor, server
  <1>10. Asked(Request(j))'
    BY <1>2, <1>6, <1>7, <1>9 DEF Asked, Request, Kind, OpenedFor
  <1>11. WaitingInv(j)'
    BY <1>6, <1>7, <1>10, WaitingIs DEF AllPublished
  <1>12. GivesUpOnly(j)
    BY <1>8 DEF GivesUpOnly
  <1> HIDE DEF j
  <1> QED BY <1>2, <1>6, <1>7, <1>8, <1>11, <1>12, JobTurnsOnPage DEF Kind

\* A new job, which has sent nothing yet.
LEMMA StartStep ==
    ASSUME ClientInv, NEW j \in Job, Start(j)
    PROVE  ClientInv'
  <1>1. PICK c : c = [Unused EXCEPT !.pc = "prepare"]
    OBVIOUS
  <1>2. c \in JobRecord /\ c.pc = "prepare" /\ c.ans = None /\ c.done = <<>>
    BY <1>1, UnusedRests DEF JobRecord
  <1>3. job' = [job EXCEPT ![j] = c] /\ job'[j] = c
    BY <1>1 DEF Start, ClientInv, JobInv
  <1>4. UNCHANGED server /\ GivesUpOnly(j) /\ shown' = shown /\ resume' = None
    BY DEF Start, GivesUpOnly
  <1>5. RestInv(j)' /\ c.pc \notin Kind
    BY <1>2, <1>3 DEF RestInv, Kind
  <1> QED BY <1>2, <1>3, <1>4, <1>5, JobTurnsOnPage

\* Its key is there: it asks for a session for its first file.
LEMMA PrepareStep ==
    ASSUME ClientInv, NEW j \in Job, Prepare(j)
    PROVE  ClientInv'
  <1>1. PICK b \in JobRecord : b = job[j]
    BY DEF ClientInv, JobInv
  <1>2. b.pc = "prepare" /\ b.ans = None /\ b.done = <<>>
    BY <1>1 DEF Prepare, ClientInv, JobInv, RestInv, Waiting, Kind
  <1>3. PICK c : c = [b EXCEPT !.pc = "init", !.m = 1]
    OBVIOUS
  <1>4. c \in JobRecord /\ c.pc = "init" /\ c.m = 1 /\ c.ans = None /\ c.done = <<>>
    BY <1>2, <1>3 DEF JobRecord, Kind
  <1>5. job' = [job EXCEPT ![j] = c] /\ job'[j] = c
    BY <1>1, <1>3 DEF Prepare, ClientInv, JobInv
  <1>6. UNCHANGED server /\ GivesUpOnly(j) /\ shown' = shown /\ resume' = None
    BY DEF Prepare, GivesUpOnly
  <1>7. 1 \in 1 .. Size[j]
    BY ClientBounds DEF Job
  <1>8. Asked(Request(j))'
    BY <1>4, <1>5, <1>7 DEF Asked, Request, Kind
  <1>9. WaitingInv(j)'
    BY <1>4, <1>5, <1>8, WaitingIs DEF AllPublished
  <1> QED BY <1>4, <1>5, <1>6, <1>9, JobTurnsOnPage DEF Kind

\* Nothing but the button, or a page that is empty again.
LEMMA ButtonStep ==
    ASSUME ClientInv, UNCHANGED <<server, job, stray>>,
           UNCHANGED <<resume, shown>> \/ (resume' = None /\ shown' = None)
    PROVE  ClientInv'
  <1>1. ServerInv' /\ StrayInv' /\ JobInv'
    BY DEF ClientInv, server, ServerInv, StrayInv, JobInv, WaitingInv, RestInv, Waiting,
           Asked, Request, Concludes, InStep, IsOpen, OpenedFor, PublishedAs, AllPublished
  <1>2. PageInv'
    BY DEF ClientInv, server, PageInv, OpenedFor, PublishedAs, AllPublished
  <1> QED BY <1>1, <1>2 DEF ClientInv

\* No step breaks the invariant.
LEMMA ClientInvStep == ClientInv /\ [Next]_vars => ClientInv'
  <1> SUFFICES ASSUME ClientInv, [Next]_vars PROVE ClientInv'
    OBVIOUS
  <1>1. CASE UNCHANGED vars
    BY <1>1, ButtonStep DEF vars, server
  <1>2. CASE Choose \/ ChooseTooBig \/ Reset
    BY <1>2, ButtonStep DEF Choose, ChooseTooBig, Reset
  <1>3. ASSUME NEW j \in Job, Start(j) \/ Prepare(j) \/ Serve(j) \/ Receive(j)
                              \/ Break(j) \/ BreakBody(j)
        PROVE  ClientInv'
    BY <1>3, StartStep, PrepareStep, ServeStep, ReceiveStep, BreakStep, BreakBodyStep
  <1> QED BY <1>1, <1>2, <1>3, ServeStrayStep, ReapStep, RetryStep DEF Next

\* The invariant holds in every reachable state.
LEMMA ClientInvariant == Spec => []ClientInv
  BY ClientInvInit, ClientInvStep, PTL DEF Spec

-----------------------------------------------------------------------------
(* What follows.                                                           *)

\* crypto.js:163-257: for any number of jobs, files, chunks and mishaps, a session
\* holds chunks of the one file it was opened for, each once and in order.
THEOREM SessionsHoldPrefixes == Spec => []SessionsArePrefixes
  <1>1. ClientInv => SessionsArePrefixes
    <2> SUFFICES ASSUME ClientInv, NEW u \in Uploads, status[u] \in {"open", "published"}
                 PROVE  LET whole == Whole(meta[u][1], meta[u][2])
                        IN  content[u] = SubSeq(whole, 1, Len(content[u]))
      BY DEF SessionsArePrefixes
    <2> DEFINE whole == Whole(meta[u][1], meta[u][2])
    <2>1. next[u] \in 0 .. Chunks
      BY DEF ClientInv, ServerInv
    <2>2. CASE status[u] = "open"
      <3>1. content[u] = SubSeq(whole, 1, next[u])
        BY <2>2 DEF ClientInv, ServerInv
      <3>2. Len(SubSeq(whole, 1, next[u])) = next[u]
        BY <2>1, WholeFile
      <3> QED BY <3>1, <3>2
    <2>3. CASE status[u] = "published"
      <3>1. content[u] = whole
        BY <2>3 DEF ClientInv, ServerInv
      <3>2. Len(whole) = Chunks /\ SubSeq(whole, 1, Chunks) = whole
        BY WholeFile
      <3> QED BY <3>1, <3>2
    <2> QED BY <2>2, <2>3
  <1> QED BY <1>1, ClientInvariant, PTL

\* script.js:688-703, 834-843: whatever is retried, reaped or answered late, a link
\* the page shows leads to files that are published, whole, and those of its job.
THEOREM ShownLinksAreComplete == Spec => []ShownIsComplete
  <1>1. ClientInv => ShownIsComplete
    <2> SUFFICES ASSUME ClientInv, shown # None
                 PROVE  /\ Len(shown.files) = Size[shown.job]
                        /\ \A m \in DOMAIN shown.files :
                               /\ shown.files[m] \in Uploads
                               /\ status[shown.files[m]] = "published"
                               /\ content[shown.files[m]] = Whole(shown.job, m)
      BY DEF ShownIsComplete
    <2>1. /\ shown.files \in Seq(Uploads) /\ Len(shown.files) = Size[shown.job]
          /\ AllPublished(shown.files, shown.job)
      BY DEF ClientInv, PageInv
    <2>2. ASSUME NEW m \in DOMAIN shown.files
          PROVE  /\ shown.files[m] \in Uploads
                 /\ status[shown.files[m]] = "published"
                 /\ content[shown.files[m]] = Whole(shown.job, m)
      <3>1. PublishedAs(shown.files[m], shown.job, m)
        BY <2>1 DEF AllPublished
      <3>2. PICK u : u = shown.files[m]
        OBVIOUS
      <3>3. /\ u \in Uploads /\ status[u] = "published" /\ meta[u] = <<shown.job, m>>
        BY <3>1, <3>2 DEF PublishedAs, OpenedFor
      <3>4. content[u] = Whole(meta[u][1], meta[u][2])
        BY <3>3 DEF ClientInv, ServerInv
      <3>5. meta[u][1] = shown.job /\ meta[u][2] = m
        BY <3>3
      <3> QED BY <3>2, <3>3, <3>4, <3>5
    <2> QED BY <2>1, <2>2
  <1> QED BY <1>1, ClientInvariant, PTL

\* files.py:368: no finish of the page, timely or late, finds its session open and
\* short of chunks, which would throw the session away.
THEOREM FinishesOnlyWhole == Spec => []FinishesWhole
  <1>1. ClientInv => FinishesWhole
    <2> SUFFICES ASSUME ClientInv, NEW r \in Requests, r.kind = "finish", IsOpen(r.u)
                 PROVE  Len(content[r.u]) = Chunks
      BY DEF FinishesWhole
    <2>1. Asked(r)
      BY DEF Requests, ClientInv, StrayInv, JobInv, WaitingInv
    <2>2. r.u \in Uploads /\ next[r.u] = Chunks
      BY <2>1 DEF Asked, OpenedFor
    <2>3. content[r.u] = SubSeq(Whole(meta[r.u][1], meta[r.u][2]), 1, next[r.u])
      BY <2>2 DEF ClientInv, ServerInv, IsOpen
    <2>4. Chunks \in 0 .. Chunks
      BY ClientBounds
    <2> QED BY <2>2, <2>3, <2>4, WholeFile
  <1> QED BY <1>1, ClientInvariant, PTL

\* crypto.js:209-216: the page is never ahead of an open session and at most one
\* chunk behind it, however many of its chunks were given up and come late.
THEOREM PageNeverAhead == Spec => []NeverAhead
  <1>1. ClientInv => NeverAhead
    <2> SUFFICES ASSUME ClientInv, NEW j \in Job, job[j].pc = "chunk", IsOpen(job[j].u)
                 PROVE  next[job[j].u] \in {job[j].i, job[j].i + 1}
      BY DEF NeverAhead
    <2>1. WaitingInv(j)
      BY DEF ClientInv, JobInv, Waiting, Kind
    <2> QED BY <2>1 DEF WaitingInv, InStep
  <1> QED BY <1>1, ClientInvariant, PTL
-----------------------------------------------------------------------------
(* What it takes to resume from the last acknowledged chunk.               *)

\* A status query that fails, for whatever reason, makes the page open another
\* session for the file (crypto.js:209-216).
StartsOver == \E j \in Job : job[j].pc = "status" /\ job'[j].pc = "init"

\* A job in the state b has not been acknowledged more chunks of its file than n,
\* nor has its session lost one of them.
Covers(b, n) ==
    /\ b.pc \in {"prepare", "init"} => n = 0
    /\ b.pc = "chunk" => n <= b.i
    /\ b.pc \in {"status", "chunk", "finish"} /\ IsOpen(b.u) => n <= next[b.u]
    /\ b.pc = "status" /\ b.ans # None /\ b.ans.code = "ok" => n <= b.ans.value

\* Jobs are started in order, and what was acknowledged to one is still there: in
\* its session, or in the session it could resume.
AckedInv ==
    /\ acked \in [Job -> 0 .. Chunks]
    /\ \E n \in 0 .. Jobs : {k \in Job : job[k] # Unused} = 1 .. n
    /\ \A j \in Job : (job[j] = Unused => acked[j] = 0) /\ Covers(job[j], acked[j])
    /\ resume # None /\ IsOpen(resume.u) => acked[resume.job] <= next[resume.u]

\* Sessions only come further.
LEMMA NextGrows ==
    ASSUME ServerInv, ServerInv', NEW due, Moves(due), NEW u, NEW j, NEW m,
           OpenedFor(u, j, m), IsOpen(u)'
    PROVE  IsOpen(u) /\ next[u] \in Nat /\ next'[u] \in Nat /\ next[u] <= next'[u]
  <1>1. u \in Uploads /\ IsOpen(u) /\ next'[u] \in {next[u], next[u] + 1}
    BY DEF Moves, OpenedFor, IsOpen
  <1> QED BY <1>1 DEF ServerInv

\* A job, resuming or under way, has a session that was opened for it.
LEMMA SessionOfJob ==
    ASSUME ClientInv, NEW j \in Job, job[j].pc \in {"status", "chunk", "finish"}
    PROVE  OpenedFor(job[j].u, j, job[j].m)
  BY DEF ClientInv, JobInv, Waiting, WaitingInv, Asked, Request, Kind

\* The sessions move, and jobs learn no more than answers that fit.
LEMMA AckedKept ==
    ASSUME ClientInv, ServerInv', AckedInv, NEW due, Moves(due),
           UNCHANGED acked, resume' \in {resume, None}, DOMAIN job' = Job,
           \A k \in Job :
               \/ job'[k] = job[k]
               \/ /\ job[k].pc \in Kind /\ job'[k].pc = job[k].pc
                  /\ job'[k].u = job[k].u /\ job'[k].i = job[k].i
                  /\ job[k].pc = "status" /\ job'[k].ans # None /\ job'[k].ans.code = "ok"
                         => acked[k] <= job'[k].ans.value
    PROVE  AckedInv'
  <1>1. ServerInv /\ PageInv
    BY DEF ClientInv
  <1>2. acked \in [Job -> 0 .. Chunks] /\ \A k \in Job : acked[k] \in Nat
    BY DEF AckedInv
  <1>3. ASSUME NEW k \in Job
        PROVE  (job'[k] = Unused <=> job[k] = Unused) /\ Covers(job[k], acked[k])'
    <2>0. PICK b, c, n : b = job[k] /\ c = job'[k] /\ n = acked[k]
      OBVIOUS
    <2>1. job'[k] = Unused <=> job[k] = Unused
      BY DEF Unused, Kind
    <2>2. Covers(b, n) /\ n \in Nat
      BY <1>2, <2>0 DEF AckedInv
    <2>3. ASSUME c.pc \in {"status", "chunk", "finish"}, status'[c.u] = "open"
          PROVE  n <= next'[c.u]
      <3>1. b.pc \in {"status", "chunk", "finish"} /\ c.u = b.u
        BY <2>0, <2>3
      <3>2. OpenedFor(b.u, k, b.m)
        BY <2>0, <3>1, SessionOfJob
      <3>3. /\ IsOpen(b.u) /\ next[b.u] \in Nat /\ next'[b.u] \in Nat
            /\ next[b.u] <= next'[b.u]
        BY <1>1, <2>3, <3>1, <3>2, NextGrows DEF IsOpen
      <3> QED BY <2>2, <3>1, <3>3 DEF Covers
    <2>4. c.pc \in {"prepare", "init"} => n = 0
      BY <2>0, <2>2 DEF Covers, Kind
    <2>5. c.pc = "chunk" => n <= c.i
      BY <2>0, <2>2 DEF Covers
    <2>6. c.pc = "status" /\ c.ans # None /\ c.ans.code = "ok" => n <= c.ans.value
      BY <2>0, <2>2 DEF Covers
    <2> QED BY <2>0, <2>1, <2>3, <2>4, <2>5, <2>6 DEF Covers, IsOpen
  <1>4. ASSUME resume' = resume, resume # None, status'[resume.u] = "open"
        PROVE  acked[resume.job] <= next'[resume.u]
    <2>0. PICK r : r = resume
      OBVIOUS
    <2>1. r.job \in Job /\ OpenedFor(r.u, r.job, 1)
      BY <1>1, <1>4, <2>0 DEF PageInv
    <2>2. /\ IsOpen(r.u) /\ next[r.u] \in Nat /\ next'[r.u] \in Nat
          /\ next[r.u] <= next'[r.u]
      BY <1>1, <1>4, <2>0, <2>1, NextGrows DEF IsOpen
    <2> QED BY <1>2, <1>4, <2>0, <2>1, <2>2 DEF AckedInv
  <1>5. {k \in Job : job'[k] # Unused} = {k \in Job : job[k] # Unused}
    BY <1>3
  <1>6. (\A k \in Job : (job[k] = Unused => acked[k] = 0) /\ Covers(job[k], acked[k]))'
    BY <1>3 DEF AckedInv
  <1> QED BY <1>2, <1>4, <1>5, <1>6 DEF AckedInv, IsOpen

\* One job under way, or about to be, turns to b with n chunks acknowledged, and
\* what can be resumed is as before, nothing, or the session this job gives up.
LEMMA AckedTurns ==
    ASSUME ClientInv, AckedInv, UNCHANGED server, NEW j \in Job, NEW b, NEW n \in 0 .. Chunks,
           job' = [job EXCEPT ![j] = b], acked' = [acked EXCEPT ![j] = n],
           job[j] # Unused, b # Unused, Covers(b, n),
           \/ resume' = None
           \/ resume' = resume /\ job[j].pc # "failed"
           \/ \E u : resume' = [job |-> j, u |-> u] /\ (IsOpen(u) => n <= next[u])
    PROVE  AckedInv'
  <1>1. /\ DOMAIN job = Job /\ acked \in [Job -> 0 .. Chunks]
        /\ status' = status /\ next' = next
    BY DEF ClientInv, JobInv, AckedInv, server
  <1>2. job'[j] = b /\ acked'[j] = n /\ acked' \in [Job -> 0 .. Chunks]
        /\ \A k \in Job \ {j} : job'[k] = job[k] /\ acked'[k] = acked[k]
    BY <1>1
  <1>3. {k \in Job : job'[k] # Unused} = {k \in Job : job[k] # Unused}
    BY <1>2
  <1>4. ASSUME NEW k \in Job
        PROVE  (job'[k] = Unused => acked'[k] = 0) /\ Covers(job'[k], acked'[k])
    BY <1>2 DEF AckedInv
  <1>5. ASSUME resume' # None, IsOpen(resume'.u)
        PROVE  acked'[resume'.job] <= next[resume'.u]
    <2>1. CASE resume' = resume /\ job[j].pc # "failed"
      <3>1. resume.job \in Job /\ resume.job # j
        BY <1>5, <2>1 DEF ClientInv, PageInv
      <3> QED BY <1>2, <1>5, <2>1, <3>1 DEF AckedInv
    <2>2. CASE \E u : resume' = [job |-> j, u |-> u] /\ (IsOpen(u) => n <= next[u])
      BY <1>2, <1>5, <2>2
    <2> QED BY <1>5, <2>1, <2>2
  <1> QED BY <1>1, <1>2, <1>3, <1>4, <1>5 DEF AckedInv, Covers, IsOpen

\* The server answers: a status query is told how far the session is.
LEMMA AckedServe ==
    ASSUME ClientInv, AckedInv, ServerInv', NEW j \in Job, Serve(j)
    PROVE  AckedInv'
  <1>1. PICK ans \in Answer :
            Handle(Request(j), ans) /\ job' = [job EXCEPT ![j].ans = ans]
    BY DEF Serve
  <1>2. PICK r : r = Request(j)
    OBVIOUS
  <1>3. Asked(r) /\ ServerInv /\ job \in [Job -> JobRecord] /\ Waiting(j)
    BY <1>2 DEF Serve, ClientInv, JobInv, WaitingInv
  <1>4. Moves(Due(r))
    BY <1>1, <1>2, <1>3, HandleMoves
  <1>5. PICK b \in JobRecord : b = job[j]
    BY <1>3
  <1>6. r.kind = b.pc /\ r.u = b.u
    BY <1>2, <1>5 DEF Request
  <1>7. ASSUME b.pc = "status", ans.code = "ok"
        PROVE  acked[j] <= ans.value
    <2>1. acked[j] \in 0 .. Chunks /\ Covers(b, acked[j])
      BY <1>5 DEF AckedInv
    <2>2. HandleStatus(r, ans)
      BY <1>1, <1>2, <1>6, <1>7, <1>3 DEF Handle, TooBusy, Busy, Kind
    <2>3. \/ status[r.u] = "open" /\ ans = Ok(next[r.u])
          \/ ans = Ok(Chunks)
      BY <1>7, <2>2 DEF HandleStatus, SaysOk, Refuses, Refused
    <2> QED BY <1>6, <1>7, <2>1, <2>3, ClientBounds DEF Covers, IsOpen, Ok
  <1>8. /\ job'[j].pc = b.pc /\ job'[j].u = b.u /\ job'[j].i = b.i /\ job'[j].ans = ans
        /\ \A k \in Job \ {j} : job'[k] = job[k]
        /\ DOMAIN job' = Job
    BY <1>1, <1>3, <1>5 DEF JobRecord
  <1>9. UNCHANGED <<acked, resume>> /\ b.pc \in Kind
    BY <1>3, <1>5 DEF Serve, page, Waiting
  <1> QED BY <1>4, <1>5, <1>7, <1>8, <1>9, AckedKept

\* A job under way hears an answer, or nothing.
LEMMA AckedReact ==
    ASSUME ClientInv, AckedInv, UNCHANGED server, NEW j \in Job, Waiting(j), NEW ans,
           React(j, ans), ~StartsOver,
           ans.code = "ok" => ans = job[j].ans /\ ans # None
    PROVE  AckedInv'
  <1>1. PICK b \in JobRecord : b = job[j]
    BY DEF ClientInv, JobInv
  <1>2. PICK n \in 0 .. Chunks : n = acked[j]
    BY DEF AckedInv
  <1>3. /\ acked' = acked => acked' = [acked EXCEPT ![j] = n]
        /\ Covers(b, n) /\ b # Unused /\ b.pc \in Kind /\ n \in Nat
        /\ DOMAIN job = Job /\ acked \in [Job -> 0 .. Chunks]
    BY <1>1, <1>2 DEF AckedInv, Waiting, Unused, Kind, ClientInv, JobInv
  <1>4. ans.code = "ok" => Concludes(j, ans.value)
    BY DEF ClientInv, JobInv, WaitingInv, Ok
  <1>5. ASSUME NEW u, NEW i \in 0 .. Chunks, SendFrom(j, u, i), NEW k \in 0 .. Chunks,
               acked' = [acked EXCEPT ![j] = k], resume' = resume,
               k <= i, IsOpen(u) => k <= next[u]
        PROVE  AckedInv'
    <2>1. PICK c : c = [b EXCEPT !.pc = IF AllSent(i) THEN "finish" ELSE "chunk",
                                 !.u = u, !.i = i, !.tries = 0, !.ans = None]
      OBVIOUS
    <2>2. c.pc \in {"finish", "chunk"} /\ c.u = u /\ c.i = i
      BY <2>1 DEF JobRecord
    <2>3. Covers(c, k) /\ c # Unused
      BY <1>5, <2>2 DEF Covers, Unused
    <2>4. job' = [job EXCEPT ![j] = c]
      BY <1>1, <1>5, <2>1 DEF SendFrom
    <2> QED BY <1>1, <1>3, <1>5, <2>3, <2>4, AckedTurns DEF Kind
  <1>6. ASSUME NEW u, Fail(j, u), u = None \/ (b.pc \in {"chunk", "finish"} /\ u = b.u)
        PROVE  AckedInv'
    <2>1. PICK c : c = [Unused EXCEPT !.pc = "failed", !.m = 1]
      OBVIOUS
    <2>2. c.pc = "failed"
      BY <2>1 DEF Unused
    <2>3. Covers(c, n) /\ c # Unused
      BY <2>2 DEF Covers, Unused
    <2>4. /\ job' = [job EXCEPT ![j] = c] /\ acked' = acked
          /\ resume' = None \/ (u # None /\ resume' = [job |-> j, u |-> u])
      BY <1>6, <2>1 DEF Fail
    <2>5. u # None /\ IsOpen(u) => n <= next[u]
      BY <1>3, <1>6 DEF Covers
    <2> QED BY <1>1, <1>3, <2>3, <2>4, <2>5, AckedTurns
  <1>7. CASE b.pc = "status" /\ ReactStatus(j, ans)
    <2>1. ans.code = "ok"
      <3>1. ASSUME ans.code # "ok"
            PROVE  FALSE
        <4>1. job' = [job EXCEPT ![j] = [b EXCEPT !.pc = "init", !.m = b.m, !.u = None,
                                                  !.i = 0, !.ans = None, !.done = b.done]]
          BY <1>1, <1>7, <3>1 DEF ReactStatus, SendInit
        <4>2. job'[j].pc = "init"
          BY <1>3, <4>1 DEF JobRecord
        <4> QED BY <1>1, <1>7, <4>2 DEF StartsOver
      <3> QED BY <3>1
    <2>2. /\ SendFrom(j, b.u, ans.value) /\ acked' = acked /\ resume' = resume
          /\ ans.value \in 0 .. Chunks
      BY <1>1, <1>4, <1>7, <2>1 DEF ReactStatus, page, Concludes
    <2>3. n <= ans.value
      BY <1>1, <1>3, <1>7, <2>1 DEF Covers, Ok
    <2>4. IsOpen(b.u) => n <= next[b.u]
      BY <1>3, <1>7 DEF Covers
    <2> QED BY <1>3, <1>5, <2>2, <2>3, <2>4
  <1>8. CASE b.pc = "init" /\ ReactInit(j, ans)
    <2>1. n = 0
      BY <1>3, <1>8 DEF Covers
    <2>2. CASE ans.code = "ok"
      <3>1. OpenedFor(ans.value, j, b.m)
        BY <1>1, <1>4, <1>8, <2>2 DEF Concludes
      <3>2. next[ans.value] \in 0 .. Chunks
        BY <3>1 DEF OpenedFor, ClientInv, ServerInv
      <3>3. SendFrom(j, ans.value, 0) /\ acked' = acked /\ resume' = resume
        BY <1>8, <2>2 DEF ReactInit, page
      <3> QED BY <1>3, <1>5, <2>1, <3>2, <3>3, ClientBounds
    <2>3. CASE ans.code # "ok"
      BY <1>6, <1>8, <2>3 DEF ReactInit
    <2> QED BY <2>2, <2>3
  <1>9. CASE b.pc = "chunk" /\ ReactChunk(j, ans)
    <2>1. b.i \in 0 .. Chunks - 1 /\ n <= b.i
      BY <1>1, <1>3, <1>9 DEF ClientInv, JobInv, WaitingInv, Asked, Request, Waiting, Kind, Covers
    <2>2. CASE /\ Acknowledged(ans)
               /\ acked' = [acked EXCEPT ![j] = IF @ > job[j].i THEN @ ELSE job[j].i + 1]
               /\ SendFrom(j, job[j].u, job[j].i + 1) /\ UNCHANGED page
      <3>1. (IF n > b.i THEN n ELSE b.i + 1) = b.i + 1 /\ b.i + 1 \in 0 .. Chunks
        BY <2>1, ClientBounds
      <3>2. acked' = [acked EXCEPT ![j] = b.i + 1] /\ SendFrom(j, b.u, b.i + 1)
        BY <1>1, <1>2, <1>3, <2>2, <3>1
      <3>3. IsOpen(b.u) => next[b.u] = b.i + 1
        BY <1>1, <1>4, <1>9, <2>2 DEF Acknowledged, Concludes
      <3>4. b.i + 1 <= b.i + 1 /\ (IsOpen(b.u) => b.i + 1 <= next[b.u])
        BY <3>1, <3>3
      <3> QED BY <1>5, <2>2, <3>1, <3>2, <3>4 DEF page
    <2>3. CASE /\ job' = [job EXCEPT ![j].tries = @ + 1, ![j].ans = None]
               /\ UNCHANGED <<page, acked>>
      <3>1. PICK c : c = [b EXCEPT !.tries = @ + 1, !.ans = None]
        OBVIOUS
      <3>2. c.pc = "chunk" /\ c.u = b.u /\ c.i = b.i
        BY <1>9, <3>1 DEF JobRecord
      <3>3. Covers(c, n) /\ c # Unused
        BY <1>3, <1>9, <3>2 DEF Covers, Unused
      <3>4. job' = [job EXCEPT ![j] = c]
        BY <1>1, <1>3, <2>3, <3>1
      <3> QED BY <1>1, <1>3, <1>9, <2>3, <3>3, <3>4, AckedTurns DEF page
    <2>4. CASE Fail(j, job[j].u)
      BY <1>1, <1>6, <1>9, <2>4
    <2> QED BY <1>9, <2>2, <2>3, <2>4 DEF ReactChunk
  <1>10. CASE b.pc = "finish" /\ ReactFinish(j, ans)
    <2>1. CASE SendInit(j, job[j].m + 1, Append(job[j].done, ans.value))
      <3>1. PICK c : c = [b EXCEPT !.pc = "init", !.m = b.m + 1, !.u = None, !.i = 0,
                                   !.ans = None, !.done = Append(b.done, ans.value)]
        OBVIOUS
      <3>2. c.pc = "init"
        BY <3>1 DEF JobRecord
      <3>3. Covers(c, 0) /\ c # Unused
        BY <3>2 DEF Covers, Unused
      <3>4. b.m + 1 # b.m
        BY DEF JobRecord
      <3>5. /\ job' = [job EXCEPT ![j] = c] /\ acked' = [acked EXCEPT ![j] = 0]
            /\ resume' = resume
        BY <1>1, <2>1, <3>1, <3>4 DEF SendInit, page
      <3>6. 0 \in 0 .. Chunks /\ job[j].pc # "failed"
        BY <1>1, <1>10, ClientBounds
      <3> QED BY <1>1, <1>3, <3>3, <3>5, <3>6, AckedTurns
    <2>2. CASE /\ job' = [job EXCEPT ![j] = [Unused EXCEPT !.pc = "done"]]
               /\ UNCHANGED <<resume, enabled, acked>>
      <3>1. PICK c : c = [Unused EXCEPT !.pc = "done"]
        OBVIOUS
      <3>2. c.pc = "done"
        BY <3>1 DEF Unused
      <3>3. Covers(c, n) /\ c # Unused
        BY <3>2 DEF Covers, Unused
      <3> QED BY <1>1, <1>3, <1>10, <2>2, <3>1, <3>3, AckedTurns
    <2>3. CASE Fail(j, job[j].u)
      BY <1>1, <1>6, <1>10, <2>3
    <2> QED BY <1>10, <2>1, <2>2, <2>3 DEF ReactFinish
  <1> QED BY <1>1, <1>7, <1>8, <1>9, <1>10 DEF React

LEMMA StepAckedInv ==
    ClientInv /\ ClientInv' /\ AckedInv /\ [Next]_vars /\ [~StartsOver]_vars => AckedInv'
  <1> SUFFICES ASSUME ClientInv, ClientInv', AckedInv, [Next]_vars, [~StartsOver]_vars
               PROVE  AckedInv'
    OBVIOUS
  <1>t. /\ ServerInv /\ ServerInv' /\ job \in [Job -> JobRecord]
        /\ acked \in [Job -> 0 .. Chunks]
    BY DEF ClientInv, JobInv, AckedInv
  <1>r. ASSUME NEW due, Moves(due), UNCHANGED <<job, acked>>, resume' \in {resume, None}
        PROVE  AckedInv'
    BY <1>t, <1>r, AckedKept
  <1>n. ASSUME UNCHANGED server
        PROVE  Moves({})
    BY <1>t, <1>n, NothingMoves DEF server
  <1>1. CASE UNCHANGED vars \/ Choose \/ ChooseTooBig \/ Reset
    BY <1>1, <1>r, <1>n DEF vars, server, Choose, ChooseTooBig, Reset
  <1>2. ASSUME NEW r \in stray, ServeStray(r)
        PROVE  AckedInv'
    <2>1. Asked(r)
      BY <1>2 DEF ClientInv, StrayInv
    <2>2. Moves(Due(r))
      BY <1>t, <1>2, <2>1, HandleMoves DEF ServeStray
    <2> QED BY <1>2, <1>r, <2>2 DEF ServeStray, page
  <1>3. ASSUME NEW u \in Uploads, Reap(u)
        PROVE  AckedInv'
    <2>1. Moves({})
      BY <1>t, <1>3, DropMoves, NothingMoves DEF Reap
    <2> QED BY <1>3, <1>r, <2>1 DEF Reap, page
  <1>4. ASSUME NEW j \in Job, Serve(j)
        PROVE  AckedInv'
    BY <1>t, <1>4, AckedServe
  <1>5. ASSUME NEW j \in Job, Receive(j) \/ Break(j)
        PROVE  AckedInv'
    <2>1. Waiting(j) /\ UNCHANGED server
      BY <1>5 DEF Receive, Break
    <2>3. ~StartsOver
      BY DEF StartsOver, vars
    <2>4. CASE Receive(j)
      BY <2>1, <2>3, <2>4, AckedReact DEF Receive
    <2>5. CASE Break(j)
      BY <2>1, <2>3, <2>5, AckedReact DEF Break, Broken
    <2> QED BY <1>5, <2>4, <2>5
  <1>6. ASSUME NEW j \in Job, BreakBody(j)
        PROVE  AckedInv'
    <2>1. PICK c : c = [Unused EXCEPT !.pc = "failed", !.m = 1]
      OBVIOUS
    <2>2. c.pc = "failed"
      BY <2>1 DEF Unused
    <2>3. PICK n \in 0 .. Chunks : n = acked[j]
      BY <1>t
    <2>4. /\ job' = [job EXCEPT ![j] = c] /\ acked' = [acked EXCEPT ![j] = n]
          /\ resume' = None /\ UNCHANGED server /\ job[j] # Unused
      BY <1>t, <1>6, <2>1, <2>3 DEF BreakBody, Fail, Unused
    <2>5. Covers(c, n) /\ c # Unused
      BY <2>2 DEF Covers, Unused
    <2> QED BY <2>4, <2>5, AckedTurns
  <1>7. CASE Retry
    <2>1. PICK r : r = resume
      OBVIOUS
    <2>2. /\ r # None /\ r.job \in Job /\ job[r.job].pc = "failed"
          /\ job[r.job].ans = None
      BY <1>7, <2>1 DEF Retry, ClientInv, PageInv, JobInv, RestInv, Waiting, Kind
    <2>3. PICK j \in Job : j = r.job
      BY <2>2
    <2>4. PICK c : c = [job[j] EXCEPT !.pc = "status", !.u = r.u]
      OBVIOUS
    <2>5. c.pc = "status" /\ c.u = r.u /\ c.ans = None
      BY <1>t, <2>2, <2>3, <2>4 DEF JobRecord
    <2>6. PICK n \in 0 .. Chunks : n = acked[j]
      BY <1>t
    <2>7. IsOpen(r.u) => n <= next[r.u]
      BY <2>1, <2>2, <2>3, <2>6 DEF AckedInv
    <2>8. Covers(c, n) /\ c # Unused /\ job[j] # Unused
      BY <2>2, <2>3, <2>5, <2>7 DEF Covers, Unused
    <2>9. /\ job' = [job EXCEPT ![j] = c] /\ acked' = [acked EXCEPT ![j] = n]
          /\ resume' = None /\ UNCHANGED server
      BY <1>t, <1>7, <2>1, <2>3, <2>4, <2>6 DEF Retry
    <2> QED BY <2>8, <2>9, AckedTurns
  <1>8. ASSUME NEW j \in Job, Prepare(j)
        PROVE  AckedInv'
    <2>1. PICK c : c = [job[j] EXCEPT !.pc = "init", !.m = 1]
      OBVIOUS
    <2>2. c.pc = "init" /\ job[j].pc = "prepare" /\ acked[j] = 0
      BY <1>t, <1>8, <2>1 DEF Prepare, JobRecord, AckedInv, Covers
    <2>3. Covers(c, 0) /\ c # Unused /\ job[j] # Unused
      BY <2>2 DEF Covers, Unused
    <2>4. /\ job' = [job EXCEPT ![j] = c] /\ acked' = [acked EXCEPT ![j] = 0]
          /\ resume' = None /\ UNCHANGED server /\ 0 \in 0 .. Chunks
      BY <1>t, <1>8, <2>1, <2>2, ClientBounds DEF Prepare
    <2> QED BY <2>3, <2>4, AckedTurns
  \* The jobs started so far are the first ones, so this one is new.
  <1>9. ASSUME NEW j \in Job, Start(j)
        PROVE  AckedInv'
    <2>1. PICK n \in 0 .. Jobs : {k \in Job : job[k] # Unused} = 1 .. n
      BY DEF AckedInv
    <2>2. n \in Nat /\ Jobs \in Nat
      BY ClientBounds
    <2>3. Cardinality(1 .. n) = n
      BY <2>2, FS_Interval
    <2>4. j = n + 1
      BY <1>9, <2>1, <2>3 DEF Start
    <2>5. job[j] = Unused
      BY <2>1, <2>2, <2>4
    <2>6. PICK c : c = [Unused EXCEPT !.pc = "prepare"]
      OBVIOUS
    <2>7. c.pc = "prepare" /\ c # Unused
      BY <2>6 DEF Unused
    <2>8. /\ job' = [job EXCEPT ![j] = c] /\ acked' = acked /\ UNCHANGED server
          /\ resume' = None
      BY <1>9, <2>6 DEF Start
    <2>9. /\ job'[j] = c /\ acked[j] = 0 /\ next' = next /\ status' = status
          /\ \A k \in Job \ {j} : job'[k] = job[k]
      BY <1>t, <2>5, <2>8 DEF AckedInv, server
    <2>10. {k \in Job : job'[k] # Unused} = 1 .. n + 1 /\ n + 1 \in 0 .. Jobs
      BY <2>1, <2>2, <2>4, <2>7, <2>9 DEF Job
    <2>11. \A k \in Job : /\ job'[k] = Unused => acked[k] = 0
                          /\ Covers(job'[k], acked[k])
      BY <2>7, <2>9 DEF AckedInv, Covers
    <2> QED BY <1>t, <2>8, <2>9, <2>10, <2>11 DEF AckedInv, Covers, IsOpen
  <1> QED BY <1>1, <1>2, <1>3, <1>4, <1>5, <1>6, <1>7, <1>8, <1>9 DEF Next

\* crypto.js:206-257, README.md:27: an upload resumes from the last chunk that was
\* acknowledged, whatever requests are lost, repeated or handled late, as long as no
\* status query of a resumption fails: what the run upload_resume shows is the only
\* way to send an acknowledged chunk again.
THEOREM ResumesUnlessQueryFails ==
    Spec /\ [][~StartsOver]_vars => []ResumesFromAcked
  <1>1. AckedInv => ResumesFromAcked
    BY DEF AckedInv, Covers, ResumesFromAcked
  <1>2. ASSUME Init PROVE AckedInv
    <2>1. /\ acked = [j \in Job |-> 0] /\ job = [j \in Job |-> Unused] /\ resume = None
          /\ Jobs \in Nat /\ 0 \in 0 .. Chunks
      BY <1>2, ClientBounds DEF Init
    <2>2. {k \in Job : job[k] # Unused} = 1 .. 0 /\ 0 \in 0 .. Jobs
      BY <2>1
    <2> QED BY <2>1, <2>2 DEF AckedInv, Covers, Unused
  <1>3. Spec => [](ClientInv)
    BY ClientInvariant
  <1> QED BY <1>1, <1>2, <1>3, StepAckedInv, PTL DEF Spec
=============================================================================
