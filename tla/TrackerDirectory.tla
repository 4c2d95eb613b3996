-------------------------- MODULE TrackerDirectory --------------------------
(***************************************************************************)
(* What the DownloadsMasters of a cluster promise to the actors that ask   *)
(* for a download tracker, whichever node they run on: a request is        *)
(* answered once, with a tracker that was created for its job, or is given *)
(* up with its master; trackers come into being only because of a request. *)
(***************************************************************************)
CONSTANTS
  Requests,   \* records with a field job
  Trackers,   \* records with a field job
  NotAsked, Open, Lost,
  NoRef       \* the null reference

VARIABLES
  answer,     \* what each request got
  created,    \* the trackers created so far
  crashed     \* a node of the cluster has crashed

vars == <<answer, created, crashed>>

Init ==
  /\ answer = [r \in Requests |-> NotAsked]
  /\ created = {}
  /\ crashed = FALSE

Request(r) ==
  /\ answer[r] = NotAsked
  /\ answer' = [answer EXCEPT ![r] = Open]
  /\ UNCHANGED <<created, crashed>>

\* An open request is answered with a known tracker of its job, or, after a
\* crash, with a null reference.
Find(r, t) ==
  /\ answer[r] = Open
  /\ \/ t \in created /\ t.job = r.job
     \/ crashed /\ t = NoRef
  /\ answer' = [answer EXCEPT ![r] = t]
  /\ UNCHANGED <<created, crashed>>

\* An open request is answered with a new tracker of its job.
Create(r, t) ==
  /\ answer[r] = Open
  /\ t \notin created
  /\ t.job = r.job
  /\ answer' = [answer EXCEPT ![r] = t]
  /\ created' = created \cup {t}
  /\ UNCHANGED crashed

\* Some open requests will never be answered.  A node may have crashed.
GiveUp(rs) ==
  /\ \A r \in rs : answer[r] = Open
  /\ answer' = [r \in Requests |-> IF r \in rs THEN Lost ELSE answer[r]]
  /\ crashed' \in {crashed, TRUE}
  /\ UNCHANGED created

Next ==
  \/ \E r \in Requests :
       \/ Request(r)
       \/ \E t \in Trackers : Create(r, t)
       \/ \E t \in Trackers \cup {NoRef} : Find(r, t)
  \/ \E rs \in SUBSET Requests : GiveUp(rs)

Spec == Init /\ [][Next]_vars

=============================================================================
