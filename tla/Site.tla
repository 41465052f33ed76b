---------------------------------- MODULE Site ---------------------------------
(***************************************************************************)
(* The parts of the site that are not the upload path.  They share no      *)
(* state: a document is one page, on which DOMContentLoaded starts what it *)
(* has elements for, and so a behaviour is one of one part, the others     *)
(* resting.  Two parts are what pages use: the decrypting stream and the   *)
(* naming of zip entries; Credentials is the server the panel's box asks.  *)
(***************************************************************************)
EXTENDS CipherStream, ViewPage, GroupPage, ZipNames, ResultPage, AdminPanel, Credentials,
        Throttle

CONSTANT Ways      \* [page -> ways its browser may have to save a download]

VARIABLE part      \* what is looked at: see Parts

vars == <<part, streamVars, downloadVars, viewVars, groupVars, zipVars, resultVars,
          panelVars, credVars, throttleVars>>

Parts == {"view", "group", "result", "panel", "credentials", "stream", "zip", "throttle"}

Init ==
    /\ part \in Parts
    /\ IF part \in DOMAIN Ways THEN DownloadInit(Ways[part]) ELSE DownloadIdle
    /\ IF part = "view"        THEN ViewInit   ELSE ViewIdle
    /\ IF part = "group"       THEN GroupInit  ELSE GroupIdle
    /\ IF part = "stream"      THEN StreamInit ELSE StreamIdle
    /\ IF part = "zip"         THEN NamesInit  ELSE NamesIdle
    /\ IF part = "panel"       THEN PanelInit  ELSE PanelIdle
    /\ IF part = "credentials" THEN CredInit   ELSE CredIdle
    /\ ResultInit /\ ThrottleInit

View   == /\ part = "view" /\ ViewStep
          /\ UNCHANGED <<part, streamVars, groupVars, zipVars, resultVars,
                         panelVars, credVars, throttleVars>>
Group  == /\ part = "group" /\ GroupStep
          /\ UNCHANGED <<part, streamVars, viewVars, zipVars, resultVars,
                         panelVars, credVars, throttleVars>>
Result == /\ part = "result" /\ ResultStep
          /\ UNCHANGED <<part, streamVars, downloadVars, viewVars, groupVars, zipVars,
                         panelVars, credVars, throttleVars>>
Panel  == /\ part = "panel" /\ PanelStep
          /\ UNCHANGED <<part, streamVars, downloadVars, viewVars, groupVars, zipVars,
                         resultVars, credVars, throttleVars>>
Server == /\ part = "credentials" /\ CredStep
          /\ UNCHANGED <<part, streamVars, downloadVars, viewVars, groupVars, zipVars,
                         resultVars, panelVars, throttleVars>>
Stream == /\ part = "stream" /\ StreamStep
          /\ UNCHANGED <<part, downloadVars, viewVars, groupVars, zipVars, resultVars,
                         panelVars, credVars, throttleVars>>
Zip    == /\ part = "zip" /\ NameNext
          /\ UNCHANGED <<part, streamVars, downloadVars, viewVars, groupVars, resultVars,
                         panelVars, credVars, throttleVars>>
Limits == /\ part = "throttle" /\ ThrottleStep
          /\ UNCHANGED <<part, streamVars, downloadVars, viewVars, groupVars, zipVars,
                         resultVars, panelVars, credVars>>

Next == View \/ Group \/ Result \/ Panel \/ Server \/ Stream \/ Zip \/ Limits

Spec == Init /\ [][Next]_vars
=============================================================================
