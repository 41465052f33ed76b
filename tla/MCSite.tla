-------------------------------- MODULE MCSite --------------------------------
(***************************************************************************)
(* A small instance of Site for TLC.                                       *)
(***************************************************************************)
EXTENDS Site, TLC

CONSTANTS h1, h2, i1

\* Names that sanitize to the same, one that looks numbered, and none at all
MCClean ==
    ("a/b" :> <<"a_b">>) @@ ("a_b" :> <<"a_b">>) @@ ("a_b-2" :> <<"a_b", 2>>)
      @@ (".." :> <<"file">>) @@ ("" :> <<>>)
MCRaw == DOMAIN MCClean

\* The worker's streams are run from the page of one file, where a second
\* download can start beside them: the group page has no part in them.
MCWays == [view |-> {"picker", "worker", "blob"}, group |-> {"picker", "blob"}]

PairThenSingle == <<2, 1>>
=============================================================================
