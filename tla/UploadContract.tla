---------------------------- MODULE UploadContract ----------------------------
(***************************************************************************)
(* What a chunked upload promises its sender, with no handlers, locks,     *)
(* files or cleaner: a session opens once, takes one body per chunk index  *)
(* in order until it has all its bytes, and either becomes a published     *)
(* file with exactly those bytes or is gone for good.  A sender that goes  *)
(* on after the last byte spoils its session, unless it is published by    *)
(* then; the contract promises nothing of it any more.                     *)
(***************************************************************************)
EXTENDS Naturals, Sequences

CONSTANTS Uploads, Payloads, LastChunk, Expected

VARIABLES
    status,   \* [Uploads -> {"new", "open", "published", "gone", "spoiled"}]
    content,  \* the bytes an open or published session holds
    next      \* the chunk index an open session takes next

vars == <<status, content, next>>

Init ==
    /\ status  = [u \in Uploads |-> "new"]
    /\ content = [u \in Uploads |-> <<>>]
    /\ next    = [u \in Uploads |-> 0]

Open(u) ==
    /\ status[u] = "new"
    /\ status' = [status EXCEPT ![u] = "open"]
    /\ UNCHANGED <<content, next>>

Take(u, payload) ==
    /\ status[u] = "open"
    /\ next[u] <= LastChunk
    /\ payload \in Payloads[next[u]]
    /\ Len(content[u]) + Len(payload) <= Expected
    /\ content' = [content EXCEPT ![u] = @ \o payload]
    /\ next' = [next EXCEPT ![u] =
           IF Len(content[u]) + Len(payload) = Expected THEN LastChunk + 1 ELSE @ + 1]
    /\ UNCHANGED status

Publish(u) ==
    /\ status[u] = "open"
    /\ Len(content[u]) = Expected
    /\ status' = [status EXCEPT ![u] = "published"]
    /\ next' = [next EXCEPT ![u] = 0]
    /\ UNCHANGED content

\* An id never handed out is dropped as well.
Drop(u) ==
    /\ status[u] \in {"new", "open"}
    /\ status' = [status EXCEPT ![u] = "gone"]
    /\ content' = [content EXCEPT ![u] = <<>>]
    /\ next' = [next EXCEPT ![u] = 0]

\* A chunk after the last byte, once a finish has set to work.
Spoil(u) ==
    /\ status[u] = "gone" \/ (status[u] = "open" /\ Len(content[u]) = Expected)
    /\ status' = [status EXCEPT ![u] = "spoiled"]
    /\ content' = [content EXCEPT ![u] = <<>>]
    /\ next' = [next EXCEPT ![u] = 0]

Next ==
    \E u \in Uploads :
        \/ Open(u) \/ Publish(u) \/ Drop(u) \/ Spoil(u)
        \/ \E i \in 0 .. LastChunk : \E p \in Payloads[i] : Take(u, p)

Spec == Init /\ [][Next]_vars
=============================================================================
