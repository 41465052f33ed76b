--------------------------- MODULE UploadRefinement ---------------------------
(***************************************************************************)
(* UploadSession implements UploadContract.  The contract's session is     *)
(* read off the disk and the tables.  It is open while its bytes are on    *)
(* disk and somebody may still turn them into a file: a pending row, or a  *)
(* finish that read the complete row before another one deleted it.  It is *)
(* spoiled once a late chunk has made its .part file anew.                 *)
(***************************************************************************)
EXTENDS UploadSession

HasRow(u) == pending_uploads[u] # None

Doing(u, pcs) == {h \in Handlers : req[h].pc \in pcs /\ req[h].u = u}

\* A finish that found the session complete and has not renamed its file.
Finishing(u) == Doing(u, {"exists", "allocate", "replace"}) # {}

InPartial(u) == partial[u] # None /\ (HasRow(u) \/ Finishing(u))

\* The blobs that hold the session's bytes: just renamed, or with a row.
Renamed(u) == {req[h].id : h \in Doing(u, {"insert"})}
Serving(u) == {id \in Published : files[id].upload = u}

Status(u) ==
    IF late[u] > 0 THEN "spoiled"
    ELSE IF Serving(u) # {} THEN "published"
    ELSE IF InPartial(u) \/ Renamed(u) # {} THEN "open"
    ELSE IF u \notin issued \/ Doing(u, {"init_insert"}) # {} THEN "new"
    ELSE "gone"

\* The bytes on disk that the session vouches for.
Content(u) ==
    IF late[u] > 0 THEN <<>>
    ELSE IF InPartial(u)
    THEN SubSeq(partial[u].data, 1,
                IF HasRow(u) THEN pending_uploads[u].bytes ELSE Expected)
    ELSE LET ids == Renamed(u) \cup Serving(u)
         IN  IF ids = {} THEN <<>> ELSE blob[CHOOSE id \in ids : TRUE].data

NextChunk(u) ==
    IF Status(u) # "open" THEN 0
    ELSE IF HasRow(u) /\ ~Complete(pending_uploads[u]) THEN pending_uploads[u].next
    ELSE LastChunk + 1

Contract == INSTANCE UploadContract WITH
    status  <- [u \in Uploads |-> Status(u)],
    content <- [u \in Uploads |-> Content(u)],
    next    <- [u \in Uploads |-> NextChunk(u)]

\* Every behaviour of handlers and cleaner is, per session, a behaviour of the
\* contract: no byte lost, repeated or reordered, no second publication, no
\* session back from the dead, unless a chunk came after the last byte.
ImplementsContract == Contract!Spec
=============================================================================
