------------------------------ MODULE ResultPage ------------------------------
(***************************************************************************)
(* What the upload page does with a finished upload (script.js:            *)
(* showResult, showGroupResult, the delete button, resetToUpload): it      *)
(* shows the link and can delete what is behind it.  Deletions run on when *)
(* the user goes back and uploads something else.                          *)
(***************************************************************************)
EXTENDS Naturals, FiniteSets

CONSTANTS
    Results,   \* uploads that finish on this page: 1 .. Results
    FilesOf,   \* [1 .. Results -> files behind it]
    Deletions  \* deletions the user may confirm: 1 .. Deletions

ASSUME ResultBounds ==
    /\ Results \in Nat /\ Deletions \in Nat
    /\ FilesOf \in [1 .. Results -> Nat \ {0}]

VARIABLES
    alive,    \* files on the server
    shown,    \* the link whose result is on the page, or 0 on the upload form
    uploads,  \* links so far
    single,   \* currentFileId with its token, as a set of one file or none
    group,    \* currentGroupMembers
    button,   \* the delete button: "on", "off" or "hidden"
    status,   \* what the page says of a deletion: "", "deleted" or "error"
    deletion, \* [Deletion -> a confirmed deletion]
    abandoned \* history: the user left a result while a deletion of it ran

resultVars == <<alive, shown, uploads, single, group, button, status, deletion, abandoned>>

Deletion == 1 .. Deletions
Behind(l) == {<<l, m>> : m \in 1 .. FilesOf[l]}
Unclicked == [pc |-> "unused", targets |-> {}, waiting |-> {}, failed |-> {},
              isGroup |-> FALSE]

ResultInit ==
    /\ alive = {} /\ shown = 0 /\ uploads = 0
    /\ single = {} /\ group = {}
    /\ button = "hidden" /\ status = "" /\ abandoned = FALSE
    /\ deletion = [c \in Deletion |-> Unclicked]

InFlight(c) == deletion[c].pc = "waiting"

\* An upload is finished: showResult for a file, showGroupResult for several.
Show ==
    LET l == uploads + 1 IN
    /\ shown = 0 /\ l <= Results
    /\ uploads' = l /\ shown' = l
    /\ alive' = alive \cup Behind(l)
    /\ IF FilesOf[l] = 1 THEN single' = Behind(l) /\ group' = {}
                      ELSE single' = {} /\ group' = Behind(l)
    /\ button' = "on" /\ status' = ""
    /\ UNCHANGED <<deletion, abandoned>>

Expire ==
    /\ \E f \in alive : alive' = alive \ {f}
    /\ UNCHANGED <<shown, uploads, single, group, button, status, deletion, abandoned>>

\* The delete button, confirmed
Delete(c) ==
    /\ shown # 0 /\ button = "on" /\ group \cup single # {}
    /\ deletion[c].pc = "unused" /\ \A b \in 1 .. c - 1 : deletion[b].pc # "unused"
    /\ LET targets == IF group # {} THEN group ELSE single IN
       deletion' = [deletion EXCEPT ![c] =
             [pc |-> "waiting", targets |-> targets, waiting |-> targets,
              failed |-> {}, isGroup |-> group # {}]]
    /\ button' = "off"
    /\ UNCHANGED <<alive, shown, uploads, single, group, status, abandoned>>

Answered(c, f, lost) ==
    LET d == deletion[c] IN
    [deletion EXCEPT ![c] = [d EXCEPT !.waiting = d.waiting \ {f},
                                      !.failed = d.failed \cup lost]]

\* One of its DELETE requests: the file is removed; removed while the answer is
\* lost; gone already; or not reached, or refused by the rate limit.
DeleteAnswered(c, f) ==
    /\ f \in deletion[c].waiting
    /\ \/ f \in alive /\ alive' = alive \ {f} /\ deletion' = Answered(c, f, {})
       \/ f \in alive /\ alive' = alive \ {f} /\ deletion' = Answered(c, f, {f})
       \/ deletion' = Answered(c, f, {f}) /\ UNCHANGED alive
    /\ UNCHANGED <<shown, uploads, single, group, button, status, abandoned>>

\* Mutant: a retry forgets the members whose deletion failed.
ForgetsFailed(c) == IF deletion[c].isGroup /\ Cardinality(deletion[c].targets) > 1
                    THEN {f \in deletion[c].failed : f[2] = 1} ELSE group

KeepsFailed(c) == IF deletion[c].isGroup THEN deletion[c].failed ELSE group

\* All have been answered; the page is whatever it is by now.
DeletesDone(c) ==
    /\ InFlight(c) /\ deletion[c].waiting = {}
    /\ deletion' = [deletion EXCEPT ![c].pc = "over"]
    /\ IF deletion[c].failed = {}
       THEN /\ single' = {} /\ group' = {}
            /\ button' = "hidden" /\ status' = "deleted"
       ELSE /\ group' = KeepsFailed(c) /\ UNCHANGED single
            /\ button' = "on" /\ status' = "error"
    /\ UNCHANGED <<alive, shown, uploads, abandoned>>

\* resetToUpload
ResetToUpload ==
    /\ shown # 0 /\ shown' = 0
    /\ single' = {} /\ group' = {}
    /\ abandoned' = (abandoned \/ \E c \in Deletion : InFlight(c))
    /\ UNCHANGED <<alive, uploads, button, status, deletion>>

ResultStep ==
    \/ Show \/ Expire \/ ResetToUpload
    \/ \E c \in Deletion : Delete(c) \/ DeletesDone(c)
    \/ \E c \in Deletion : \E f \in deletion[c].waiting : DeleteAnswered(c, f)

ResultSpec == ResultInit /\ [][ResultStep]_resultVars

-----------------------------------------------------------------------------
ResultTypeOK ==
    LET Fs == UNION {Behind(l) : l \in 1 .. Results} IN
    /\ alive \subseteq Fs /\ single \subseteq Fs /\ group \subseteq Fs
    /\ shown \in 0 .. Results /\ uploads \in 0 .. Results
    /\ button \in {"on", "off", "hidden"} /\ status \in {"", "deleted", "error"}
    /\ deletion \in [Deletion ->
          [pc : {"unused", "waiting", "over"}, targets : SUBSET Fs, waiting : SUBSET Fs,
           failed : SUBSET Fs, isGroup : BOOLEAN]]
    /\ abandoned \in BOOLEAN

\* While a result is shown, whatever of it is still on the server can be deleted
\* from the page, through partial failures, lost answers and retries, and the
\* page says "deleted" only when nothing of it is left.  (The user did not leave
\* an earlier result during its deletion: the answer to that one would take the
\* new result for its own.)
StillDeletable ==
    shown # 0 /\ ~abandoned =>
        /\ Behind(shown) \cap alive \subseteq single \cup group
        /\ status = "deleted" => Behind(shown) \cap alive = {}
        /\ Behind(shown) \cap alive # {} => button # "hidden"
=============================================================================
