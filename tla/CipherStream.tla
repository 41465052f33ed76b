----------------------------- MODULE CipherStream -----------------------------
(***************************************************************************)
(* createDecryptTransform (crypto.js): ciphertext arrives in pieces that   *)
(* ignore chunk boundaries; chunks are cut from a buffer, opened one by    *)
(* one and handed on.  The body that arrives may be damaged: cut short at  *)
(* any byte, or with chunks missing, repeated or out of order.             *)
(* The k-th unit of stored chunk i is <<i, k>>; a unit stands for any      *)
(* number of bytes.                                                        *)
(***************************************************************************)
EXTENDS Naturals, Sequences

CONSTANTS
    Chunks,  \* chunks of the file
    Full,    \* units of a full ciphertext chunk, CHUNK_SIZE + TAG_LENGTH
    Tag,     \* units of a tag
    Last     \* units of the last chunk, which may be short or full

ASSUME StreamBounds ==
    /\ Chunks \in Nat \ {0} /\ Full \in Nat /\ Tag \in Nat \ {0} /\ Last \in Nat
    /\ Tag <= Last /\ Last <= Full /\ Tag < Full

VARIABLES
    fmt,      \* the format the file was stored in: v2 seals finality, v1 does not
    body,     \* everything the server will send
    wire,     \* what of it has not arrived
    buffer,
    chunkIndex,
    mode,     \* the format chunk 0 was opened with, or "none"
    out,      \* plaintext chunks handed to the consumer
    state     \* "open", "closed" or "failed"

streamVars == <<fmt, body, wire, buffer, chunkIndex, mode, out, state>>

Index == 0 .. Chunks - 1

\* encryptChunk: a chunk of the file, encrypted with its index and finality
Sealed(i) == [k \in 1 .. (IF i = Chunks - 1 THEN Last ELSE Full) |-> <<i, k>>]

Joined(order) ==
    LET Upto[n \in 0 .. Len(order)] ==
            IF n = 0 THEN <<>> ELSE Upto[n - 1] \o Sealed(order[n])
    IN  Upto[Len(order)]

Stored == Joined([i \in 1 .. Chunks |-> i - 1])
Orders == UNION {[1 .. n -> Index] : n \in 0 .. Chunks}
Bodies == UNION {{SubSeq(Joined(order), 1, cut) : cut \in 0 .. Len(Joined(order))} :
                    order \in Orders}

StreamInit ==
    /\ fmt \in {"v1", "v2"}
    /\ body \in Bodies
    /\ wire = body
    /\ buffer = <<>> /\ chunkIndex = 0 /\ mode = "none" /\ out = <<>>
    /\ state = "open"

\* What a stream holds before it is created
StreamIdle ==
    /\ fmt = "v2" /\ body = <<>> /\ wire = <<>>
    /\ buffer = <<>> /\ chunkIndex = 0 /\ mode = "none" /\ out = <<>>
    /\ state = "closed"

\* Mutant: the index is not authenticated.
OpensAnywhere(bytes, index, isFinal, as) ==
    /\ \E i \in Index : bytes = Sealed(i) /\ (fmt = "v2" => (isFinal <=> i = Chunks - 1))
    /\ as = fmt

\* Mutant: a chunk opens as the last one or as another, whichever it was.
OpensEither(bytes, index, isFinal, as) ==
    index \in Index /\ bytes = Sealed(index) /\ as = fmt

\* AES-GCM authenticates bytes that are one whole chunk, under the IV and index
\* of its place and, in v2, under its finality.
Opens(bytes, index, isFinal, as) ==
    /\ index \in Index /\ bytes = Sealed(index)
    /\ as = fmt
    /\ fmt = "v2" => (isFinal <=> index = Chunks - 1)

Candidates == IF mode = "none" THEN {"v2", "v1"} ELSE {mode}

Fail == state' = "failed" /\ UNCHANGED <<chunkIndex, mode, out>>

\* decryptChunk, detectMode for chunk 0; the plaintext is enqueued.
Decrypts(bytes, isFinal) ==
    \E as \in Candidates :
        /\ Opens(bytes, chunkIndex, isFinal, as)
        /\ mode' = as
        /\ chunkIndex' = chunkIndex + 1
        /\ out' = Append(out, bytes[1][1])

Rejects(bytes, isFinal) ==
    /\ \A as \in Candidates : ~Opens(bytes, chunkIndex, isFinal, as)
    /\ Fail

\* Mutant: a full buffer is decrypted at once, before it is known whether more
\* follows.
DrainsEagerly == Len(buffer) >= Full

Drains == Len(buffer) > Full

\* transform(): the next piece is appended once the loop has run dry
Receive ==
    /\ state = "open" /\ wire # <<>> /\ ~Drains
    /\ \E n \in 1 .. Len(wire) :
          /\ buffer' = buffer \o SubSeq(wire, 1, n)
          /\ wire' = SubSeq(wire, n + 1, Len(wire))
    /\ UNCHANGED <<fmt, body, chunkIndex, mode, out, state>>

\* transform(): one turn of its loop
DecryptFull ==
    /\ state = "open" /\ Drains
    /\ \/ /\ Decrypts(SubSeq(buffer, 1, Full), FALSE)
          /\ buffer' = SubSeq(buffer, Full + 1, Len(buffer))
          /\ UNCHANGED state
       \/ Rejects(SubSeq(buffer, 1, Full), FALSE) /\ UNCHANGED buffer
    /\ UNCHANGED <<fmt, body, wire>>

MissesFinal == buffer = <<>> /\ mode = "v2"

FlushEmpty ==
    /\ buffer = <<>>
    /\ IF MissesFinal THEN Fail
                      ELSE state' = "closed" /\ UNCHANGED <<chunkIndex, mode, out>>

FlushLast ==
    /\ buffer # <<>>
    /\ IF Len(buffer) < Tag
       THEN Fail
       ELSE \/ Decrypts(buffer, TRUE) /\ state' = "closed"
            \/ Rejects(buffer, TRUE)

\* flush(): the server closed the body
Flush ==
    /\ state = "open" /\ wire = <<>> /\ ~Drains
    /\ FlushEmpty \/ FlushLast
    /\ UNCHANGED <<fmt, body, wire, buffer>>

StreamStep == Receive \/ DecryptFull \/ Flush

StreamSpec == StreamInit /\ [][StreamStep]_streamVars

-----------------------------------------------------------------------------
\* Whatever arrives, and in whatever pieces, what has been handed on is the
\* beginning of the file, chunk by chunk: no chunk is swapped, repeated or
\* skipped (the purpose of the index in chunkAAD).
OutputIsPrefix ==
    Len(out) <= Chunks /\ \A n \in 1 .. Len(out) : out[n] = n - 1

\* Once chunk 0 has shown the stream to be v2, the stream ends well only when
\* the whole file came out (the purpose of the final-chunk flag and of flush()).
WholeOrError == state = "closed" /\ mode = "v2" => Len(out) = Chunks

\* The stored body, in whatever pieces it arrives, is never refused, and all of
\* it has come out when the stream closes: in particular a full-sized last chunk
\* is not mistaken for a middle one.
IntactIsAccepted ==
    body = Stored => /\ state # "failed"
                     /\ state = "closed" => Len(out) = Chunks

\* chunkAAD's comment: the final-chunk flag "is what makes TRUNCATION
\* detectable"; a v2 file is whole whenever its stream ends without an error.
NoSilentTruncation == state = "closed" /\ fmt = "v2" => Len(out) = Chunks
=============================================================================
