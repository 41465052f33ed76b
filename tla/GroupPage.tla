------------------------------- MODULE GroupPage ------------------------------
(***************************************************************************)
(* The page behind the link of a group (script.js: initGroupPage).  Its    *)
(* list is rendered one row at a time, awaiting the decryption of each     *)
(* name, so that two renderings may interleave when the passphrase is      *)
(* submitted twice; downloads of rows and of the zip run meanwhile.        *)
(***************************************************************************)
EXTENDS Download

CONSTANT Unlocks  \* times the user may submit the right passphrase: 1 .. Unlocks

ASSUME GroupBounds == Unlocks \in Nat /\ None \notin Seq(File)

VARIABLES
    withKey,  \* the link needs no passphrase, and carries its key or lacks it
    members,  \* the files of the answer, or None before it
    asking,   \* the passphrase gate is shown
    render,   \* [Render -> how far this rendering is]; 0 is that of a link's key
    rows,     \* the list: [times it was cleared, the files of its rows]
    zip,      \* the zip button: [on, handlers], one handler per rendering
    origin    \* [Attempt -> the row or button it was started from, while it runs]

groupVars == <<withKey, members, asking, render, rows, zip, origin>>

Render == 0 .. Unlocks
Row(k) == <<rows.cleared, k>>
ZipButton == <<0, 0>>

\* The button of a row is disabled while the download started from it runs.
Busy(k) == \E d \in Attempt : origin[d] = Row(k)
Unstarted == [pc |-> "unused", upto |-> 0]

GroupInit ==
    /\ withKey \in {"key", "no key", "passphrase"}
    /\ members = None /\ asking = FALSE
    /\ render = [r \in Render |-> Unstarted]
    /\ rows = [cleared |-> 0, list |-> <<>>]
    /\ zip = [on |-> TRUE, handlers |-> {}]
    /\ origin = [d \in Attempt |-> None]

GroupIdle == GroupInit /\ withKey = "no key"

\* renderFiles, up to its first await
Begins(r) ==
    /\ render' = [render EXCEPT ![r].pc = "rendering"]
    /\ rows' = [cleared |-> rows.cleared + 1, list |-> <<>>]
    /\ asking' = FALSE

\* What /api/group answers: the members that can be downloaded now, in order.
Listed(list) ==
    /\ {list[i] : i \in DOMAIN list} = {f \in File : Refusal(f) = None}
    /\ \A i, j \in DOMAIN list : i < j => list[i] < list[j]

\* An empty list stands for any other status too, or a broken connection.
LoadGroup ==
    /\ members = None
    /\ \E n \in 0 .. Files : \E list \in [1 .. n -> File] :
          /\ n = 0 \/ Listed(list)
          /\ members' = list
          /\ \/ (n = 0 \/ withKey = "no key") /\ UNCHANGED <<asking, render, rows>>
             \/ /\ n > 0 /\ withKey = "passphrase"
                /\ asking' = TRUE /\ UNCHANGED <<render, rows>>
             \/ n > 0 /\ withKey = "key" /\ Begins(0)
    /\ UNCHANGED <<withKey, zip, origin, downloadVars>>

\* handleUnlock, by the button or by Enter, which asks nothing of the button.  A
\* wrong passphrase is refused and changes nothing here.
Unlock(r) ==
    /\ asking
    /\ render[r].pc = "unused" /\ \A q \in 1 .. r - 1 : render[q].pc # "unused"
    /\ render' = [render EXCEPT ![r].pc = "deriving"]
    /\ UNCHANGED <<withKey, members, asking, rows, zip, origin, downloadVars>>

\* Its key derivation is done.
Unlocked(r) ==
    /\ render[r].pc = "deriving" /\ Begins(r)
    /\ UNCHANGED <<withKey, members, zip, origin, downloadVars>>

\* Mutant: a rendering that finds rows listed already takes its first for one
\* of them.
SkipsFirst(r, i) ==
    IF i = 1 /\ rows.list # <<>> THEN rows.list ELSE Append(rows.list, members[i])

Extended(r, i) == Append(rows.list, members[i])

\* One turn of the loop of renderFiles; after the last one the zip button gets a
\* handler, if there is more than one file.
RenderRow(r) ==
    LET i == render[r].upto + 1 IN
    /\ render[r].pc = "rendering"
    /\ rows' = [rows EXCEPT !.list = Extended(r, i)]
    /\ render' = [render EXCEPT ![r] =
          [pc |-> IF i = Len(members) THEN "over" ELSE "rendering", upto |-> i]]
    /\ zip' = IF i = Len(members) /\ i > 1
              THEN [zip EXCEPT !.handlers = @ \cup {r}] ELSE zip
    /\ UNCHANGED <<withKey, members, asking, origin, downloadVars>>

\* downloadOne, up to its first await
ClickRow(d) ==
    \E k \in DOMAIN rows.list :
        /\ ~Busy(k)
        /\ Start(d, <<rows.list[k]>>, "file")
        /\ origin' = [origin EXCEPT ![d] = Row(k)]
        /\ UNCHANGED <<server, way, worker, withKey, members, asking, render, rows, zip>>

\* downloadAllZip: a click runs every handler, one after the other
ClickZip ==
    LET first == Cardinality({e \in Attempt : dl[e] # Idle}) + 1
        ours  == first .. first + Cardinality(zip.handlers) - 1
    IN  /\ zip.on /\ zip.handlers # {} /\ ours \subseteq Attempt
        /\ dl' = [d \in Attempt |-> IF d \in ours THEN Begun(members, "zip") ELSE dl[d]]
        /\ origin' = [d \in Attempt |-> IF d \in ours THEN ZipButton ELSE origin[d]]
        /\ zip' = [zip EXCEPT !.on = FALSE]
        /\ UNCHANGED <<server, way, worker, withKey, members, asking, render, rows>>

\* The rest of downloadOne and downloadAllZip: the button is enabled again,
\* however the download went, the zip's by the first of two that ends.
GroupProgress(d) ==
    /\ Progress(d)
    /\ zip' = [zip EXCEPT !.on = @ \/ (JustEnded(d) /\ origin[d] = ZipButton)]
    /\ origin' = IF JustEnded(d) THEN [origin EXCEPT ![d] = None] ELSE origin
    /\ UNCHANGED <<withKey, members, asking, render, rows>>

GroupStep ==
    \/ LoadGroup \/ ClickZip
    \/ \E r \in Render : RenderRow(r) \/ Unlocked(r)
    \/ \E r \in Render \ {0} : Unlock(r)
    \/ \E d \in Attempt : ClickRow(d) \/ GroupProgress(d)
    \/ \E f \in File : ServerChanges(f) /\ UNCHANGED groupVars

GroupSpec ==
    /\ GroupInit /\ DownloadInit({"picker", "worker", "blob"})
    /\ [][GroupStep]_<<downloadVars, groupVars>>

-----------------------------------------------------------------------------
GroupTypeOK ==
    /\ withKey \in {"key", "no key", "passphrase"} /\ asking \in BOOLEAN
    /\ members = None \/ members \in Seq(File)
    /\ render \in [Render -> [pc : {"unused", "deriving", "rendering", "over"},
                              upto : Nat]]
    /\ rows \in [cleared : Nat, list : Seq(File)]
    /\ zip \in [on : BOOLEAN, handlers : SUBSET Render]

\* However many renderings ran into each other, once all are done every file of
\* the answer is in the list, and the zip button of several files works.
\* (Files may be listed twice then: each rendering clears the list only once.)
EveryFileListed ==
    /\ \A r \in Render : render[r].pc \in {"unused", "over"}
    /\ \E r \in Render : render[r].upto > 0
    => /\ {rows.list[k] : k \in DOMAIN rows.list} = {members[i] : i \in DOMAIN members}
       /\ Len(members) > 1 => zip.handlers # {}
=============================================================================
