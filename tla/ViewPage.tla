------------------------------- MODULE ViewPage -------------------------------
(***************************************************************************)
(* The page behind the link of one file or paste (script.js: initViewPage, *)
(* initReportLink).  What the user sees of it is the passphrase gate, the  *)
(* download button and the report button; key derivations, downloads and   *)
(* the report run on while the user goes on clicking and typing.           *)
(***************************************************************************)
EXTENDS Download

CONSTANT Submits  \* passphrases the user may submit: 1 .. Submits

VARIABLES
    link,    \* what the link leads to: [protected, paste, key, pauses]
    gate,    \* the passphrase gate is shown
    typed,   \* what its input holds: "", "right" or "wrong"
    btn,     \* the download button: [on, click, gone]
    submit,  \* [Submit -> the passphrase its key derivation is at work on]
    report,  \* the report: "offered", "sent" or "over"
    told     \* history: the page has said that there is nothing to download

viewVars == <<link, gate, typed, btn, submit, report, told>>

Submit == 1 .. Submits
TheFile == <<1>>

\* A passphrase wraps the key; without one the link carries it, or is incomplete.
Links == {l \in [protected : BOOLEAN, paste : BOOLEAN, key : BOOLEAN, pauses : BOOLEAN] :
             ~(l.protected /\ l.key)}

\* The button of the template: visible, disabled, with no handler.  click is the
\* handler; gone means hidden for good, by style or attribute.
FirstButton == [on |-> FALSE, click |-> "load", gone |-> FALSE]

ViewInit ==
    /\ link \in Links
    /\ gate = FALSE /\ typed = ""
    /\ btn = FirstButton
    /\ submit = [s \in Submit |-> "unused"]
    /\ report = "offered" /\ told = FALSE

ViewIdle ==
    /\ link = [protected |-> FALSE, paste |-> FALSE, key |-> FALSE, pauses |-> FALSE]
    /\ gate = FALSE /\ typed = "" /\ btn = FirstButton
    /\ submit = [s \in Submit |-> "unused"]
    /\ report = "offered" /\ told = FALSE

On(click) == [btn EXCEPT !.on = TRUE, !.click = click]

\* Mutant: the button is disabled and stays on the page.
ShowsGone(b) == [b EXCEPT !.on = FALSE]

\* showExpired, showSuspended, showError
Withdrawn(b) == [b EXCEPT !.gone = TRUE]

WithdrawPage == btn' = Withdrawn(btn) /\ gate' = FALSE

\* The answer to /api/meta.  Without a passphrase the key is in the link; a
\* filename that does not decrypt ends in the catch.
Load ==
    /\ btn.click = "load" /\ ~btn.gone
    /\ \/ /\ Refusal(1) # None /\ WithdrawPage /\ told' = TRUE
       \/ /\ WithdrawPage /\ UNCHANGED told
       \/ /\ Refusal(1) = None /\ link.protected
          /\ gate' = TRUE /\ btn' = [btn EXCEPT !.click = "submit"]
          /\ UNCHANGED told
       \/ /\ Refusal(1) = None /\ ~link.protected /\ link.key
          /\ btn' = On("download") /\ UNCHANGED <<gate, told>>
    /\ UNCHANGED <<link, typed, submit, report, downloadVars>>

\* The input handler enables the button, whatever is being derived.
Type ==
    /\ gate
    /\ \E text \in {"", "right", "wrong"} \ {typed} :
          /\ typed' = text
          /\ btn' = [btn EXCEPT !.on = text # ""]
    /\ UNCHANGED <<link, gate, submit, report, told, downloadVars>>

\* handlePasswordSubmit, called by the button or by Enter, which asks nothing of
\* the button; it reads the input before its first await.
SubmitPassword(s) ==
    /\ gate /\ typed # ""
    /\ submit[s] = "unused" /\ \A r \in 1 .. s - 1 : submit[r] # "unused"
    /\ submit' = [submit EXCEPT ![s] = typed]
    /\ btn' = [btn EXCEPT !.on = FALSE]
    /\ UNCHANGED <<link, gate, typed, report, told, downloadVars>>

\* deriveKEK and unwrapContentKey are done, in any order of two submissions.
Derived(s) ==
    /\ submit[s] \in {"right", "wrong"}
    /\ submit' = [submit EXCEPT ![s] = "over"]
    /\ IF submit[s] = "right"
       THEN btn' = On("download") /\ gate' = FALSE
       ELSE btn' = [btn EXCEPT !.on = TRUE] /\ UNCHANGED gate
    /\ UNCHANGED <<link, typed, report, told, downloadVars>>

\* doDownload and doDecryptPaste, up to their first await
Click(d) ==
    /\ btn.click = "download" /\ btn.on /\ ~btn.gone
    /\ Start(d, TheFile, IF link.paste THEN "paste" ELSE "file")
    /\ btn' = [btn EXCEPT !.on = FALSE]
    /\ UNCHANGED <<server, way, worker, link, gate, typed, submit, report, told>>

\* Their rest: the button is armed again, unless a paste is on the page now or
\* there is nothing left to download.
Reacts(how) ==
    CASE how \in {"expired", "suspended"} ->
           btn' = Withdrawn([btn EXCEPT !.on = TRUE]) /\ gate' = FALSE /\ told' = TRUE
      [] how = "blob" /\ link.paste ->
           btn' = [btn EXCEPT !.gone = TRUE] /\ UNCHANGED <<gate, told>>
      [] OTHER -> btn' = [btn EXCEPT !.on = TRUE] /\ UNCHANGED <<gate, told>>

ViewProgress(d) ==
    /\ Progress(d)
    /\ IF JustEnded(d) THEN Reacts(dl'[d].end) ELSE UNCHANGED <<btn, gate, told>>
    /\ UNCHANGED <<link, typed, submit, report>>

\* initReportLink: the report is sent after a prompt, and the server acts on it
\* or refuses it.
Report ==
    /\ report = "offered"
    /\ report' = "sent"
    /\ \/ UNCHANGED online
       \/ /\ link.pauses /\ online[1] = "up"
          /\ online' = [online EXCEPT ![1] = "suspended"]
    /\ UNCHANGED <<left, changes, way, dl, worker, link, gate, typed, btn, submit, told>>

\* Its answer; a refusal or a lost answer offers the report again.
ReportAnswered ==
    /\ report = "sent"
    /\ \/ /\ report' = "over"
          /\ IF link.pauses
             THEN btn' = Withdrawn([btn EXCEPT !.on = FALSE]) /\ told' = TRUE
             ELSE UNCHANGED <<btn, told>>
       \/ report' = "offered" /\ UNCHANGED <<btn, told>>
    /\ UNCHANGED <<downloadVars, link, gate, typed, submit>>

ViewStep ==
    \/ Load \/ Type \/ Report \/ ReportAnswered
    \/ \E s \in Submit : SubmitPassword(s) \/ Derived(s)
    \/ \E d \in Attempt : Click(d) \/ ViewProgress(d)
    \/ ServerChanges(1) /\ UNCHANGED viewVars

ViewSpec ==
    /\ ViewInit /\ DownloadInit({"picker", "worker", "blob"})
    /\ [][ViewStep]_<<downloadVars, viewVars>>

-----------------------------------------------------------------------------
ViewTypeOK ==
    /\ link \in Links /\ gate \in BOOLEAN /\ typed \in {"", "right", "wrong"}
    /\ btn \in [on : BOOLEAN, click : {"load", "submit", "download"}, gone : BOOLEAN]
    /\ submit \in [Submit -> {"unused", "right", "wrong", "over"}]
    /\ report \in {"offered", "sent", "over"} /\ told \in BOOLEAN

\* Once the page has said that its file is expired, suspended or reported, it
\* starts no download any more, although key derivations and other downloads of
\* the page still finish and enable the button.
NoneAfterWithdrawn ==
    [][\A d \in Attempt : dl[d] = Idle /\ dl'[d] # Idle => ~told]_<<dl, told>>
=============================================================================
