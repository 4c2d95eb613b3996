------------------------- MODULE MCDownloadsTracker -------------------------
(***************************************************************************)
(* Small instances of DownloadsTracker.                                    *)
(***************************************************************************)
EXTENDS DownloadsTracker

CONSTANTS d1, d2

\* The wall clock runs with the time, or is also set back.
SetBack == {1, -1}
=============================================================================
