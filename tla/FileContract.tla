----------------------------- MODULE FileContract -----------------------------
(***************************************************************************)
(* What the service promises whoever published a file, with no requests,   *)
(* locks, rows, blobs or cleaner: the file is offered once, on terms that  *)
(* never change; it is downloaded at most as often as they allow, and not  *)
(* while it is suspended; and it ends, for good, with its last download,   *)
(* after its expiry or because somebody entitled asked for its removal:    *)
(* at the latest with the download that was under way just then.           *)
(***************************************************************************)
EXTENDS Naturals

CONSTANTS FileIds, Limits, Lifetimes, None

VARIABLES
    state,    \* [FileIds -> {"none", "offered", "over"}]
    terms,    \* [FileIds -> [max : Limits, expiry : Nat] or None]
    grants,   \* how many downloads of each file were counted
    paused,   \* [FileIds -> BOOLEAN]: suspended, while it is offered
    wanted,   \* the files whose removal was asked for
    clock

vars == <<state, terms, grants, paused, wanted, clock>>

Init ==
    /\ state  = [id \in FileIds |-> "none"]
    /\ terms  = [id \in FileIds |-> None]
    /\ grants = [id \in FileIds |-> 0]
    /\ paused = [id \in FileIds |-> FALSE]
    /\ wanted = {}
    /\ clock  = 0

Offer(id, max, life) ==
    /\ state[id] = "none"
    /\ state' = [state EXCEPT ![id] = "offered"]
    /\ terms' = [terms EXCEPT ![id] = [max |-> max, expiry |-> clock + life]]
    /\ UNCHANGED <<grants, paused, wanted, clock>>

Ends(id) ==
    /\ state' = [state EXCEPT ![id] = "over"]
    /\ paused' = [paused EXCEPT ![id] = FALSE]

LastOf(id) == terms[id].max > 0 /\ grants[id] + 1 >= terms[id].max

\* Its removal was asked for, or its expiry has passed.
Withdrawn(id) == id \in wanted \/ terms[id].expiry < clock

Download(id) ==
    /\ state[id] = "offered" /\ ~paused[id]
    /\ grants' = [grants EXCEPT ![id] = @ + 1]
    /\ \/ (LastOf(id) \/ Withdrawn(id)) /\ Ends(id)
       \/ ~LastOf(id) /\ UNCHANGED <<state, paused>>
    /\ UNCHANGED <<terms, wanted, clock>>

Suspend(id, value) ==
    /\ state[id] = "offered"
    /\ paused' = [paused EXCEPT ![id] = value]
    /\ UNCHANGED <<state, terms, grants, wanted, clock>>

\* A removal may be asked for when the file is over but its row still there.
AskRemoval(id) ==
    /\ state[id] # "none"
    /\ wanted' = wanted \cup {id}
    /\ UNCHANGED <<state, terms, grants, paused, clock>>

Withdraw(id) ==
    /\ state[id] = "offered"
    /\ Withdrawn(id)
    /\ Ends(id)
    /\ UNCHANGED <<terms, grants, wanted, clock>>

Tick ==
    /\ clock' = clock + 1
    /\ UNCHANGED <<state, terms, grants, paused, wanted>>

Next ==
    \/ \E id \in FileIds :
           \/ Download(id) \/ AskRemoval(id) \/ Withdraw(id)
           \/ \E value \in BOOLEAN : Suspend(id, value)
           \/ \E max \in Limits, life \in Lifetimes : Offer(id, max, life)
    \/ Tick

Spec == Init /\ [][Next]_vars
=============================================================================
