---------------------------- MODULE MCUploadClient ----------------------------
(***************************************************************************)
(* Small instances of UploadClient for TLC.  There is one job more than    *)
(* mishaps, and a session for each of their files: EventuallyShown would   *)
(* fail if user or server ran out of either.                               *)
(***************************************************************************)
EXTENDS UploadClient

SingleGroupSingle == <<1, 2, 1>>
AllSingle == <<1, 1, 1>>
=============================================================================
