-------------------------- MODULE MCDownloadsMaster -------------------------
(***************************************************************************)
(* Small instances of DownloadsMaster.  Requests for one job go to one     *)
(* node when the web front end's consistent hashing is stable, and to      *)
(* several when the ring changes.                                          *)
(***************************************************************************)
EXTENDS DownloadsMaster

CONSTANTS n1, n2, n3, j1, j2

Ask(id, job, node) == [id |-> id, job |-> job, node |-> node]

\* One job with two homes.
TwoHomes == {Ask(1, j1, n1), Ask(2, j1, n2)}

\* The same, and one home is asked for another job, which it has to stash.
Mixed == {Ask(1, j1, n1), Ask(2, j2, n1), Ask(3, j1, n2)}

\* There is a crash, or a request for the other job.
OtherJob == {r \in Mixed : r.job = j2}
=============================================================================
