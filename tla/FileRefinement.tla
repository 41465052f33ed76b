---------------------------- MODULE FileRefinement ----------------------------
(***************************************************************************)
(* FileStore implements FileContract.  The contract's file is read off the *)
(* table and the disk: it is offered while it has both its row and its     *)
(* blob, and over as soon as one of them is gone, whichever went first and *)
(* whatever request or pass still has to take the other; but a download    *)
(* that has found the blob, and holds the lock on the row, is counted yet. *)
(***************************************************************************)
EXTENDS FileStore

Counting(id) == \E h \in Handlers : At(h, "count") /\ req[h].id = id

Offered(id) == HasRow(id) /\ (blob[id] # None \/ Counting(id))

State(id) ==
    IF promise[id] = None THEN "none" ELSE IF Offered(id) THEN "offered" ELSE "over"

Terms(id) ==
    IF promise[id] = None THEN None
    ELSE [max |-> promise[id].max, expiry |-> promise[id].expiry]

Paused(id) == Offered(id) /\ files[id].suspended

Contract == INSTANCE FileContract WITH
    state  <- [id \in FileIds |-> State(id)],
    terms  <- [id \in FileIds |-> Terms(id)],
    grants <- granted,
    paused <- [id \in FileIds |-> Paused(id)],
    wanted <- ordered

\* Every behaviour of downloads, removals, reports, expiry and cleaner is, per
\* file, a behaviour of the contract: no download past the limit or of a file
\* suspended at that moment, no file that ends without a reason, none that is
\* offered again after that.
KeepsContract == Contract!Spec
=============================================================================
