------------------------------ MODULE AdminPanel ------------------------------
(***************************************************************************)
(* The operator's panel (admin.js): signing in, the two paged lists, the   *)
(* actions on their rows and the box with the upload token.  Nothing waits *)
(* for an answer but the button that was clicked, so that requests overlap *)
(* and are answered in any order.  Of the server only the admin token, the *)
(* rotations and the length of its lists matter here.                      *)
(***************************************************************************)
EXTENDS Naturals, FiniteSets

CONSTANTS
    Clicks,    \* bound: things the operator does
    Page,      \* rows the server answers with at most: _parse_limit
    MaxTotal,  \* bound: rows the server has at most
    Nothing    \* no token

ASSUME PanelBounds ==
    /\ Clicks \in Nat /\ Page \in Nat \ {0} /\ MaxTotal \in Nat
    /\ Nothing \notin {"good", "bad"} /\ Nothing \notin Nat

VARIABLES
    signed,    \* [token: sent with every request, stored: in sessionStorage,
               \*  dashboard: shown, else the login form]
    files,     \* filesState and its table: [offset, total, rows, more]
    reports,   \* reportsState and its table
    awaited,   \* history: lists that were reset and not filled again so far
    box,       \* the upload token it reveals, by its rotation, or Nothing
    rotated,   \* the server's rotations
    flight,    \* requests whose answer has not been handled
    clicks,
    overlap    \* history: what has been in flight at the same time: "logins",
               \* "tokens" (a reveal and a rotation, or a rotation got lost)

panelVars == <<signed, files, reports, awaited, box, rotated, flight, clicks, overlap>>
lists == <<files, reports, awaited>>

Empty == [offset |-> 0, total |-> 0, rows |-> 0, more |-> FALSE]

PanelInit ==
    /\ \E saved \in {Nothing, "good"} :
          signed = [token |-> Nothing, stored |-> saved, dashboard |-> FALSE]
    /\ files = Empty /\ reports = Empty /\ awaited = {}
    /\ box = Nothing /\ rotated = 0
    /\ flight = {} /\ clicks = 0 /\ overlap = {}

PanelIdle == PanelInit /\ signed.stored = Nothing

Waiting(kind) == \E c \in flight : c.kind = kind

\* A request of the click by, with the token it is sent with and what its handler
\* remembers.
Call(kind, by, token, arg) == [kind |-> kind, by |-> by, token |-> token, arg |-> arg]

Clicked == clicks < Clicks /\ clicks' = clicks + 1
Send(kind, arg) == flight' = flight \cup {Call(kind, clicks + 1, signed.token, arg)}

\* attemptLogin, by button, by Enter, or with the stored token when the page loads
Login(candidate) ==
    /\ ~signed.dashboard
    /\ candidate = signed.stored \/ clicks > 0 \/ signed.stored = Nothing
    /\ Clicked
    /\ flight' = flight \cup {Call("login", clicks + 1, candidate, signed.token)}
    /\ signed' = [signed EXCEPT !.token = candidate]
    /\ overlap' = IF Waiting("login") THEN overlap \cup {"logins"} ELSE overlap
    /\ UNCHANGED <<lists, box, rotated>>

Reset(list) == [offset |-> 0, total |-> 0, rows |-> list.rows, more |-> list.more]

\* The requests of refresh(), two of them here: loadFiles and the others.
Refreshing(by, token) ==
    {Call("refresh files", by, token, 0), Call("refresh rest", by, token, 0)}

Refreshes(c, token) ==
    /\ flight' = (flight \ {c}) \cup Refreshing(c.by, token)
    /\ files' = Reset(files) /\ reports' = Reset(reports)
    /\ awaited' = {"files", "reports"}

Handled(c) == flight' = flight \ {c}

\* Mutant: what is stored is the token of the latest attempt.
StoresLatest(c) == signed.token

Stores(c) == c.token

LoginAnswered(c) ==
    /\ c.kind = "login"
    /\ \/ /\ c.token = "good"
          /\ signed' = [token |-> signed.token, stored |-> Stores(c), dashboard |-> TRUE]
          /\ Refreshes(c, signed.token)
       \/ /\ signed' = [signed EXCEPT !.token = c.arg]   \* refused, or no answer
          /\ Handled(c) /\ UNCHANGED lists
    /\ UNCHANGED <<box, rotated, clicks, overlap>>

Logout ==
    /\ signed.dashboard
    /\ Clicked
    /\ signed' = [token |-> Nothing, stored |-> Nothing, dashboard |-> FALSE]
    /\ UNCHANGED <<lists, box, rotated, flight, overlap>>

RefreshList ==
    /\ signed.dashboard
    /\ Clicked
    /\ flight' = flight \cup Refreshing(clicks + 1, signed.token)
    /\ files' = Reset(files) /\ reports' = Reset(reports)
    /\ awaited' = {"files", "reports"}
    /\ UNCHANGED <<signed, box, rotated, overlap>>

\* setFilesFilter
Filter ==
    /\ signed.dashboard
    /\ Clicked /\ Send("files", 0)
    /\ files' = Reset(files) /\ awaited' = awaited \cup {"files"}
    /\ UNCHANGED <<signed, reports, box, rotated, overlap>>

\* loadMoreFiles, loadMoreReports: the button is disabled while one is under way.
LoadMore(list, kind) ==
    /\ signed.dashboard /\ list.more /\ ~Waiting(kind)
    /\ Clicked /\ Send(kind, list.offset)
    /\ UNCHANGED <<signed, lists, box, rotated, overlap>>

\* The answers a request for rows from an offset on may get: rows and their
\* total, both 0 when the answer is an error.
Replies == [n : 0 .. Page, total : 0 .. MaxTotal]
Answer(c, offset) ==
    {a \in Replies :
        \/ a.n = 0 /\ a.total = 0
        \/ /\ c.token = "good"
           /\ a.n = IF a.total <= offset THEN 0
                    ELSE IF a.total - offset < Page THEN a.total - offset ELSE Page}

Table(offset, total, rows) ==
    [offset |-> offset, total |-> total, rows |-> rows, more |-> offset < total]

\* Mutant: the offset goes on from where the reset left it.
GoesOn(list, a) == Table(list.offset + a.n, a.total, a.n)

StartsAnew(list, a) == Table(a.n, a.total, a.n)

Continues(list, a, total) == Table(list.offset + a.n, total, list.rows + a.n)

\* loadFiles(false); the network may fail too
FilesLoaded(c) ==
    /\ c.kind \in {"files", "refresh files"}
    /\ \/ /\ \E a \in Answer(c, 0) : files' = StartsAnew(files, a)
          /\ awaited' = awaited \ {"files"}
          /\ flight' = (flight \ {c}) \cup
                (IF Call("refresh rest", c.by, c.token, 0) \in flight
                 THEN {Call("files are in", c.by, c.token, 0)} ELSE {})
       \/ Handled(c) /\ UNCHANGED <<files, awaited>>
    /\ UNCHANGED <<signed, reports, box, rotated, clicks, overlap>>

MoreFilesLoaded(c) ==
    /\ c.kind = "more files" /\ Handled(c)
    /\ \/ \E a \in Answer(c, c.arg) : files' = Continues(files, a, a.total)
       \/ UNCHANGED files
    /\ UNCHANGED <<signed, reports, awaited, box, rotated, clicks, overlap>>

\* Overview, reports, log and invites of a refresh: they are rendered together,
\* once its files are in, and not at all when anything failed.
RestLoaded(c) ==
    LET in == Call("files are in", c.by, c.token, 0) IN
    /\ c.kind = "refresh rest"
    /\ \/ /\ in \in flight
          /\ \E a \in Answer(c, 0) : reports' = StartsAnew(reports, a)
          /\ awaited' = awaited \ {"reports"}
          /\ flight' = flight \ {c, in}
       \/ flight' = flight \ {c, in} /\ UNCHANGED <<reports, awaited>>
    /\ UNCHANGED <<signed, files, box, rotated, clicks, overlap>>

MoreReportsLoaded(c) ==
    /\ c.kind = "more reports" /\ Handled(c)
    /\ \/ \E a \in Answer(c, c.arg) :
             reports' = Continues(reports, a, IF a.total = 0 THEN reports.total ELSE a.total)
       \/ UNCHANGED reports
    /\ UNCHANGED <<signed, files, awaited, box, rotated, clicks, overlap>>

\* fileAction on a row, and its answer: when it was done, everything is loaded
\* again.
Act ==
    /\ signed.dashboard /\ files.rows + reports.rows > 0
    /\ Clicked /\ Send("act", 0)
    /\ UNCHANGED <<signed, lists, box, rotated, overlap>>

Acted(c) ==
    /\ c.kind = "act"
    /\ \/ c.token = "good" /\ Refreshes(c, signed.token)
       \/ Handled(c) /\ UNCHANGED lists
    /\ UNCHANGED <<signed, box, rotated, clicks, overlap>>

\* The token's box: hide or ask for the current token; rotate it.
Hide ==
    /\ signed.dashboard /\ box # Nothing /\ ~Waiting("reveal")
    /\ Clicked
    /\ box' = Nothing
    /\ UNCHANGED <<signed, lists, rotated, flight, overlap>>

AskToken(kind, other) ==
    /\ signed.dashboard /\ ~Waiting(kind)
    /\ Clicked /\ Send(kind, Nothing)
    /\ overlap' = IF Waiting(other) THEN overlap \cup {"tokens"} ELSE overlap
    /\ UNCHANGED <<signed, lists, box, rotated>>

RevealToken == box = Nothing /\ AskToken("reveal", "rotate")
RotateToken == AskToken("rotate", "reveal")

\* The server acts on it; the answer carries the token it has then.
TokenServed(c) ==
    /\ c.kind \in {"reveal", "rotate"} /\ c.arg = Nothing /\ c.token = "good"
    /\ rotated' = IF c.kind = "rotate" THEN rotated + 1 ELSE rotated
    /\ flight' = (flight \ {c}) \cup {Call(c.kind, c.by, c.token, rotated')}
    /\ UNCHANGED <<signed, lists, box, clicks, overlap>>

\* Mutant: a rotated token is shown only by the next reveal.
ShowsRevealed(c) == IF c.kind = "reveal" THEN c.arg ELSE box

ShowsToken(c) == c.arg

\* The answer arrives, or is lost, after the server acted or before it.
TokenAnswered(c) ==
    /\ c.kind \in {"reveal", "rotate"} /\ Handled(c)
    /\ \/ c.arg # Nothing /\ box' = ShowsToken(c) /\ UNCHANGED overlap
       \/ /\ UNCHANGED box
          /\ overlap' = IF c.kind = "rotate" /\ c.arg # Nothing
                        THEN overlap \cup {"tokens"} ELSE overlap
    /\ UNCHANGED <<signed, lists, rotated, clicks>>

PanelStep ==
    \/ \E candidate \in {"good", "bad"} : Login(candidate)
    \/ Logout \/ RefreshList \/ Filter \/ Act
    \/ LoadMore(files, "more files") \/ LoadMore(reports, "more reports")
    \/ Hide \/ RevealToken \/ RotateToken
    \/ \E c \in flight :
          \/ LoginAnswered(c) \/ Acted(c)
          \/ FilesLoaded(c) \/ MoreFilesLoaded(c)
          \/ RestLoaded(c) \/ MoreReportsLoaded(c)
          \/ TokenServed(c) \/ TokenAnswered(c)

PanelSpec == PanelInit /\ [][PanelStep]_panelVars

-----------------------------------------------------------------------------
AdminToken == {Nothing, "good", "bad"}
Kind == {"login", "files", "more files", "more reports", "refresh files",
         "refresh rest", "files are in", "act", "reveal", "rotate"}
ListState == [offset : Nat, total : Nat, rows : Nat, more : BOOLEAN]
PanelTypeOK ==
    /\ signed \in [token : AdminToken, stored : AdminToken, dashboard : BOOLEAN]
    /\ files \in ListState /\ reports \in ListState
    /\ awaited \subseteq {"files", "reports"}
    /\ box \in Nat \cup {Nothing} /\ rotated \in Nat
    /\ \A c \in flight :
          /\ c \in [kind : Kind, by : Nat, token : AdminToken, arg : {c.arg}]
          /\ IF c.kind = "login" THEN c.arg \in AdminToken
                                ELSE c.arg \in Nat \cup {Nothing}
    /\ clicks \in Nat /\ overlap \subseteq {"logins", "tokens"}

\* Only a token the server accepted is kept for the next visit, and the dashboard
\* works with one, unless two attempts to sign in were in flight together: an
\* attempt that fails puts back the token it found, not the one of the other.
SignedIn ==
    /\ signed.stored \in {Nothing, "good"}
    /\ signed.dashboard /\ "logins" \notin overlap => signed.token = "good"

\* "Load more" goes on after the last row in the table: however refreshes,
\* filters, actions and further pages overlapped, the offset is the number of
\* rows, unless the list was reset and has not been loaded since.
OffsetCountsRows ==
    /\ "files" \notin awaited => files.offset = files.rows
    /\ "reports" \notin awaited => reports.offset = reports.rows

\* The box never shows a token that was rotated away, which no upload is let in
\* with, unless the operator asked for it while the rotation was under way, or
\* the answer to the rotation got lost.
ShowsCurrent == box # Nothing /\ "tokens" \notin overlap => box = rotated \/ Waiting("rotate")
=============================================================================
