---------------------------- MODULE MCCrawlMaster ---------------------------
(***************************************************************************)
(* Small instances of CrawlMaster.                                         *)
(***************************************************************************)
EXTENDS CrawlMaster

CONSTANTS u, v

\* A second client starts the job too, a page leaves, and somebody stops it.
AllCommands ==
  {[type |-> "StartJob", client |-> v], [type |-> "UnsubscribeFromJob", client |-> u],
   [type |-> "SubscribeToJob", client |-> v], [type |-> "StopJob", client |-> v]}
=============================================================================
