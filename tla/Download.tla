------------------------------- MODULE Download -------------------------------
(***************************************************************************)
(* A download as the pages run it (crypto.js, download-sw.js): ciphertext  *)
(* is fetched, decrypted as it flows and saved through the file picker, a  *)
(* service worker or a blob.  A zip fetches its members one after another, *)
(* when the saving side asks for more.  CipherStream says what the         *)
(* decrypting in the middle promises: a body comes out whole or breaks.    *)
(***************************************************************************)
EXTENDS Naturals, Sequences, FiniteSets

CONSTANTS
    Attempts,   \* downloads the user may start: 1 .. Attempts
    Files,      \* files behind the link
    Grants,     \* downloads each file has left, at first
    MaxChanges, \* files that expire, are paused or restored, before or after the page loads
    Polls,      \* times the worker looks again for a stream it was asked for
    None

ASSUME DownloadBounds ==
    /\ Attempts \in Nat /\ MaxChanges \in Nat /\ Polls \in Nat
    /\ Grants \in Nat /\ Files \in Nat \ {0}

VARIABLES
    online, left, changes, \* the server: [File -> state], grants left, changes left
    way,      \* how this browser can save: "picker", "worker" or "blob"
    dl,       \* [Attempt -> its two ends]
    posted,   \* messages on their way to the worker
    pending,  \* the worker's streams, by token; an attempt is its own token
    asked     \* [Attempt -> the navigation for its stream, and its lookups so far]

downloadVars == <<online, left, changes, way, dl, posted, pending, asked>>
server == <<online, left, changes>>
worker == <<posted, pending, asked>>

Attempt == 1 .. Attempts
File    == 1 .. Files
Failure == {"expired", "suspended", "error"}
Outcome == {"aborted", "filesystem", "blob", "service-worker"} \cup Failure

ASSUME NoneIsNoOutcome == None \notin Outcome

\* src is the fetching end, sink the saving end, read the members of which all
\* was saved, end what the caller was told.
Idle == [files |-> <<>>, kind |-> "file", got |-> 0, read |-> {},
         src |-> "none", sink |-> "none", end |-> None]

DownloadInit(ways) ==
    /\ online = [f \in File |-> "up"]
    /\ left = [f \in File |-> Grants]
    /\ changes = MaxChanges
    /\ way \in ways
    /\ dl = [d \in Attempt |-> Idle]
    /\ posted = {} /\ pending = {}
    /\ asked = [d \in Attempt |-> [at |-> "none", looks |-> 0]]

DownloadIdle ==
    /\ online = [f \in File |-> "up"] /\ left = [f \in File |-> 0] /\ changes = 0
    /\ way = "blob"
    /\ dl = [d \in Attempt |-> Idle]
    /\ posted = {} /\ pending = {}
    /\ asked = [d \in Attempt |-> [at |-> "none", looks |-> 0]]

Turns(d, into) == dl' = [dl EXCEPT ![d] = into]
Ends(d, how)   == Turns(d, [dl[d] EXCEPT !.end = how])
JustEnded(d) == dl[d].end = None /\ dl'[d].end # None
Running(d)   == dl[d] # Idle /\ dl[d].end = None

\* The page gave a stream to the worker and told its caller; it still flows.
Live(d) == Running(d) \/ dl[d].end = "service-worker"

\* saveStream's choice
FirstSink == CASE way = "picker" -> "asking"
               [] way = "worker" -> "waiting"
               [] OTHER          -> "blob"

\* streamDownloadDecrypt, streamDownloadDecryptToBytes ("paste") or
\* downloadGroupAsZip, called with the next unused attempt.  The zip is handed
\* to saveStream at once, and its encoder opens the first member already.
Begun(files, kind) ==
    [files |-> files, kind |-> kind, got |-> 0, read |-> {}, src |-> "requested",
     sink |-> IF kind = "zip" THEN FirstSink ELSE "none", end |-> None]

Start(d, files, kind) ==
    /\ dl[d] = Idle /\ \A e \in 1 .. d - 1 : dl[e] # Idle
    /\ dl' = [dl EXCEPT ![d] = Begun(files, kind)]

Wanted(d) == dl[d].files[dl[d].got + 1]

\* What GET /api/file refuses a file with, if it does
Refusal(f) == CASE online[f] = "suspended" -> "suspended"
                [] online[f] = "gone" \/ left[f] = 0 -> "expired"
                [] OTHER -> None

SinkOnceOpen(d) == CASE dl[d].kind = "file"  -> FirstSink
                     [] dl[d].kind = "paste" -> "blob"
                     [] dl[d].kind = "zip"   -> dl[d].sink

\* openDecryptedStream got its response, and the server has counted it.
Opened(d) ==
    /\ Refusal(Wanted(d)) = None
    /\ left' = [left EXCEPT ![Wanted(d)] = @ - 1]
    /\ Turns(d, [dl[d] EXCEPT !.src = "open", !.got = dl[d].got + 1,
                              !.sink = SinkOnceOpen(d)])

\* Mutant: a member that cannot be opened is left out of the zip.
SkipsMember(d, why) ==
    IF dl[d].kind # "zip" THEN Ends(d, why)
    ELSE dl' = [dl EXCEPT ![d].got = @ + 1,
                   ![d].src = IF dl[d].got + 1 < Len(dl[d].files)
                              THEN "requested" ELSE "ended"]

\* A file or a paste fails at once; the stream of a zip breaks, as its saving
\* end finds out, unless the worker has it, where nobody sees the reason.
Unopened(d, why) ==
    IF dl[d].kind = "zip"
    THEN Turns(d, [dl[d] EXCEPT !.src = IF dl[d].end = None THEN why ELSE "error"])
    ELSE Ends(d, why)

FetchAnswered(d) ==
    /\ Live(d) /\ dl[d].src = "requested"
    /\ \/ Opened(d)
       \/ /\ \E why \in {Refusal(Wanted(d)), "error"} \ {None} : Unopened(d, why)
          /\ UNCHANGED left
    /\ UNCHANGED <<online, changes, way, worker>>

\* Somebody reads what comes out
Read(d) == dl[d].sink \in {"file", "blob"} \/ asked[d].at = "served"

\* The body of the current member has gone through decryption and was taken; the
\* zip encoder asks for the next member.  Or it broke: a lost connection, a
\* chunk that does not open.
BodyEnds(d) ==
    /\ Live(d) /\ dl[d].src = "open"
    /\ \/ /\ Read(d)
          /\ Turns(d, [dl[d] EXCEPT
                !.read = dl[d].read \cup {dl[d].got},
                !.src = IF dl[d].got < Len(dl[d].files) THEN "requested" ELSE "ended"])
       \/ Turns(d, [dl[d] EXCEPT !.src = "error"])
    /\ UNCHANGED <<server, way, worker>>

\* showSaveFilePicker: a file was chosen, the dialog was cancelled, or it or
\* createWritable failed.  Cancelling a stream that broke throws its error.
PickerAnswered(d) ==
    /\ Running(d) /\ dl[d].sink = "asking"
    /\ \/ Turns(d, [dl[d] EXCEPT !.sink = "file"])
       \/ Ends(d, IF dl[d].src \in Failure THEN dl[d].src ELSE "aborted")
       \/ Ends(d, "error")
    /\ UNCHANGED <<server, way, worker>>

\* getActiveDownloadServiceWorker found an active worker, which is posted the
\* stream, and an iframe navigates to it; or there is none, even after 3 seconds.
WorkerFound(d) ==
    /\ Running(d) /\ dl[d].sink = "waiting"
    /\ \/ /\ Turns(d, [dl[d] EXCEPT !.sink = "worker", !.end = "service-worker"])
          /\ posted' = posted \cup {d}
          /\ asked' = [asked EXCEPT ![d].at = "looking"]
       \/ Turns(d, [dl[d] EXCEPT !.sink = "blob"]) /\ UNCHANGED <<posted, asked>>
    /\ UNCHANGED <<server, way, pending>>

\* Mutant: the reader of a blob takes a broken stream for one that ended.
SavedAnyhow(d) == dl[d].src = "ended" \/ dl[d].src \in Failure

Saved(d) == dl[d].src = "ended"

\* Mutant: a member that is gone does not break the stream.
BreaksByError(d) == dl[d].src = "error"

Broken(d) == dl[d].src \in Failure

\* pipeTo or the blob's reader came to the end of the stream, or to its error.
SinkEnds(d) ==
    /\ Running(d) /\ dl[d].sink \in {"file", "blob"}
    /\ \/ Saved(d) /\ Ends(d, IF dl[d].sink = "file" THEN "filesystem" ELSE "blob")
       \/ ~Saved(d) /\ Broken(d) /\ Ends(d, dl[d].src)
    /\ UNCHANGED <<server, way, worker>>

\* download-sw.js.  The message and the navigation of the iframe arrive in
\* either order, and the navigation looks for the stream again and again.
Register(d) ==
    /\ d \in posted
    /\ posted' = posted \ {d} /\ pending' = pending \cup {d}
    /\ UNCHANGED <<server, way, dl, asked>>

\* Mutant: the stream is not looked up again after the last wait.
GivesUp(d) == asked[d].looks = Polls

GivesUpLooking(d) == d \notin pending /\ asked[d].looks = Polls

Lookup(d) ==
    /\ asked[d].at = "looking"
    /\ \/ /\ GivesUpLooking(d)
          /\ asked' = [asked EXCEPT ![d].at = "missed"]
          /\ pending' = pending \ {d}
       \/ /\ ~GivesUpLooking(d) /\ d \in pending
          /\ asked' = [asked EXCEPT ![d].at = "served"]
          /\ pending' = pending \ {d}
       \/ /\ ~GivesUpLooking(d) /\ d \notin pending
          /\ asked' = [asked EXCEPT ![d].looks = @ + 1]
          /\ UNCHANGED pending
    /\ UNCHANGED <<server, way, dl, posted>>

Progress(d) ==
    \/ FetchAnswered(d) \/ BodyEnds(d)
    \/ PickerAnswered(d) \/ WorkerFound(d) \/ SinkEnds(d)
    \/ Register(d) \/ Lookup(d)

\* Files expire, are suspended by reports and restored by the operator.
ServerChanges(f) ==
    /\ changes > 0 /\ changes' = changes - 1
    /\ \/ online[f] \in {"up", "suspended"} /\ online' = [online EXCEPT ![f] = "gone"]
       \/ online[f] = "up" /\ online' = [online EXCEPT ![f] = "suspended"]
       \/ online[f] = "suspended" /\ online' = [online EXCEPT ![f] = "up"]
    /\ UNCHANGED <<left, way, dl, worker>>

-----------------------------------------------------------------------------
DownloadTypeOK ==
    /\ online \in [File -> {"up", "gone", "suspended"}]
    /\ left \in [File -> 0 .. Grants] /\ changes \in 0 .. MaxChanges
    /\ way \in {"picker", "worker", "blob"}
    /\ dl \in [Attempt ->
          [files : Seq(File), kind : {"file", "paste", "zip"},
           got : Nat, read : SUBSET Nat,
           src : {"none", "requested", "open", "ended"} \cup Failure,
           sink : {"none", "asking", "waiting", "file", "blob", "worker"},
           end : {None} \cup Outcome]]
    /\ posted \subseteq Attempt /\ pending \subseteq Attempt
    /\ asked \in [Attempt -> [at : {"none", "looking", "served", "missed"},
                              looks : 0 .. Polls]]

\* A page that reports a file or a zip as saved, through the picker or a blob,
\* has saved all of it: every member, to its end, although members may expire or
\* be suspended between two fetches ("Any per-file failure aborts the whole
\* zip", crypto.js).
SavedIsWhole ==
    \A d \in Attempt :
        dl[d].end \in {"filesystem", "blob"} => dl[d].read = 1 .. Len(dl[d].files)

\* Somebody has the next step of a download, and what it waits for: an answer, a
\* choice of where to save, a body that is being read, or the end of the stream.
Ready(d) ==
    \/ dl[d].src = "requested"
    \/ dl[d].sink \in {"asking", "waiting"}
    \/ dl[d].src = "open" /\ Read(d)
    \/ dl[d].sink \in {"file", "blob"} /\ (Saved(d) \/ Broken(d))

\* A download never hangs between its two ends: while its caller waits, one of
\* them can go on, and not only because a connection may break, although a zip
\* fetches only what its saving end takes, and that end learns of a failed member
\* only from the stream.
NeverStuck == \A d \in Attempt : Running(d) => Ready(d)

\* The worker answers 404 only for a stream whose message comes later than all
\* of its lookups: one that came in time is served, in whichever order message
\* and navigation arrived.  (The late one stays in the worker's map for good.)
MissedOnlyIfLate ==
    \A d \in Attempt : asked[d].at = "missed" => d \in posted \cup pending
=============================================================================
