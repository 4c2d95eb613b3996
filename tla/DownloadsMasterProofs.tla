----------------------- MODULE DownloadsMasterProofs -----------------------
(***************************************************************************)
(* Theorems about DownloadsMaster for every cluster, every set of jobs and *)
(* requests and any number of crashes and lost messages.  The first part   *)
(* has the types of the state and the fact that OutstandingAcknowledgments *)
(* counts down from the number of routees to zero without ever passing it. *)
(* The second is about what the actors of a node get from the masters: the *)
(* trackers that are answered, remembered and verified are trackers of the *)
(* right job; no request is lost or served twice by the stash and the      *)
(* restarts; and, from both, the protocol implements TrackerDirectory.     *)
(***************************************************************************)
EXTENDS DownloadsMaster, FiniteSetTheorems, SequenceTheorems, TLAPS

USE DownloadsMasterAssumption DEF clusterVars, searchVars

-----------------------------------------------------------------------------
\* The variables of a search, with the bound on the acknowledgments.
SearchOK ==
  /\ behavior \in [Nodes -> {"Ready", "WaitingForTracker"}]
  /\ acks \in [Nodes -> Int]
  /\ requested \in [Nodes -> Requests \cup {NoRequest}]
  /\ stash \in [Nodes -> Seq(Requests)]
  /\ unstashed \in [Nodes -> Seq(Requests)]
  /\ \A n \in Nodes : behavior[n] = "WaitingForTracker" =>
       /\ up[n]
       /\ requested[n] \in Requests
       /\ acks[n] \in 1..Cardinality(Nodes)

\* The cluster: a node that is up knows itself.
ClusterOK ==
  /\ up \in [Nodes -> BOOLEAN]
  /\ inc \in [Nodes -> 0..crashes]
  /\ crashes \in 0..MaxCrashes
  /\ routees \in [Nodes -> SUBSET Nodes]
  /\ \A n \in Nodes : up[n] => n \in routees[n]

\* The trackers, their references in flight, and the answers.
DataOK ==
  /\ trackers \in [Nodes -> [Jobs -> Ref \cup {NoRef, Absent}]]
  /\ children \in [Nodes -> SUBSET Jobs]
  /\ created \in SUBSET Ref
  /\ asks \in [Nodes -> Seq([job : Jobs, ref : Ref])]
  /\ net \in [Links -> Seq(Message)]
  /\ answer \in [Requests -> Ref \cup {NoRef, NotAsked, Open, Lost}]
  /\ lost \in Nat

\* The inductive invariant: the types and the count of acknowledgments.
IInv == SearchOK /\ ClusterOK /\ DataOK

LEMMA IInvTypes == IInv => TypeOK /\ SearchCountsDown
BY DEF IInv, TypeOK, SearchCountsDown, SearchOK, ClusterOK, DataOK

-----------------------------------------------------------------------------
\* Facts about the messages.


\* A broadcast puts a message in channels and leaves them channels.
LEMMA BroadcastType ==
  ASSUME NEW links \in [Links -> Seq(Message)], NEW n \in Nodes, NEW msg \in Message
  PROVE  Broadcast(links, n, msg) \in [Links -> Seq(Message)]
<1>1. ASSUME NEW e \in Links PROVE Append(links[e], msg) \in Seq(Message)
  BY <1>1
<1>. QED BY <1>1 DEF Broadcast

\* A message that can be taken is a message, and taking it leaves channels.
LEMMA TakenType ==
  ASSUME IInv, NEW m \in Nodes, NEW n \in Nodes, net[<<m, n>>] # <<>>
  PROVE  /\ Taken(m, n) \in [Links -> Seq(Message)]
         /\ Head(net[<<m, n>>]) \in Message
<1>1. <<m, n>> \in Links BY DEF Links
<1>2. net[<<m, n>>] \in Seq(Message) BY <1>1 DEF IInv, DataOK
<1>3. Head(net[<<m, n>>]) \in Message /\ Tail(net[<<m, n>>]) \in Seq(Message)
  BY <1>2, HeadTailProperties
<1>. QED BY <1>3 DEF Taken, IInv, DataOK

\* The messages a master builds are messages.
LEMMA MessageTypes ==
  ASSUME IInv, NEW job \in Jobs
  PROVE  /\ GetDownloadTracker(job) \in Message
         /\ TrackerNotFound(job) \in Message
         /\ TrackerDead(job) \in Message
         /\ \A r \in Ref \cup {NoRef} :
              TrackerFound(job, r) \in Message /\ CreatedTracker(job, r) \in Message
         /\ \A n \in Nodes : RefOf(n, job) \in Ref
<1>1. \A n \in Nodes : inc[n] \in 0..MaxCrashes BY DEF IInv, ClusterOK
<1>. QED BY <1>1 DEF GetDownloadTracker, TrackerNotFound, TrackerDead, TrackerFound,
                     CreatedTracker, RefOf, Message, Ref

\* Between 1 and |Nodes| acknowledgments are expected by a node that is up.
LEMMA ExpectedAcksRange ==
  ASSUME IInv, NEW n \in Nodes, up[n]
  PROVE  ExpectedAcks(n) \in 1..Cardinality(Nodes)
<1>1. routees[n] \subseteq Nodes /\ n \in routees[n] BY DEF IInv, ClusterOK
<1>2. IsFiniteSet(routees[n]) /\ Cardinality(routees[n]) <= Cardinality(Nodes)
  BY <1>1, FS_Subset
<1>3. Cardinality(routees[n]) # 0 BY <1>1, <1>2, FS_EmptySet
<1>4. Cardinality(routees[n]) \in Nat /\ Cardinality(Nodes) \in Nat
  BY <1>2, FS_CardinalityType
<1>. QED BY <1>2, <1>3, <1>4 DEF ExpectedAcks

-----------------------------------------------------------------------------
\* What the shared parts of the handlers preserve.

LEMMA HandleRequestOK ==
  ASSUME IInv, NEW n \in Nodes, NEW r \in Requests, up[n], HandleRequest(n, r),
         up' = up, unstashed' \in [Nodes -> Seq(Requests)]
  PROVE  SearchOK' /\ net' \in [Links -> Seq(Message)]
<1>. USE DEF IInv
<1>1. CASE behavior[n] = "Ready"
  <2>1. BecomeWaitingForTracker(n, r) /\ stash' = stash
    BY <1>1 DEF HandleRequest
  <2>2. ExpectedAcks(n) \in 1..Cardinality(Nodes)
    BY ExpectedAcksRange
  <2>3. SearchOK'
    BY <2>1, <2>2 DEF BecomeWaitingForTracker, SearchOK
  <2>4. r.job \in Jobs /\ GetDownloadTracker(r.job) \in Message
    BY MessageTypes
  <2>5. net' \in [Links -> Seq(Message)]
    BY <2>1, <2>4, BroadcastType DEF BecomeWaitingForTracker, DataOK
  <2>. QED BY <2>3, <2>5
<1>2. CASE behavior[n] = "WaitingForTracker"
  <2>1. /\ stash' = [stash EXCEPT ![n] = Append(@, r)]
        /\ UNCHANGED <<behavior, requested, acks, net>>
    BY <1>2 DEF HandleRequest
  <2>2. Append(stash[n], r) \in Seq(Requests)
    BY DEF SearchOK
  <2>. QED BY <2>1, <2>2 DEF SearchOK, DataOK
<1>. QED BY <1>1, <1>2 DEF SearchOK

LEMMA UnstashAllOK ==
  ASSUME SearchOK, NEW n \in Nodes, UnstashAll(n)
  PROVE  stash' \in [Nodes -> Seq(Requests)] /\ unstashed' \in [Nodes -> Seq(Requests)]
<1>1. stash[n] \in Seq(Requests) /\ unstashed[n] \in Seq(Requests) BY DEF SearchOK
<1>2. stash[n] \o unstashed[n] \in Seq(Requests) BY <1>1
<1>3. <<>> \in Seq(Requests) OBVIOUS
<1>. QED BY <1>2, <1>3 DEF UnstashAll, SearchOK

LEMMA BecomeReadyOK ==
  ASSUME IInv, NEW n \in Nodes, NEW t \in Ref \cup {NoRef}, BecomeReady(n, t),
         up' = up, acks' \in [Nodes -> Int], requested' = requested,
         \A p \in Nodes : p # n => acks'[p] = acks[p]
  PROVE  SearchOK' /\ answer' \in [Requests -> Ref \cup {NoRef, NotAsked, Open, Lost}]
<1>. USE DEF IInv
<1>1. stash' \in [Nodes -> Seq(Requests)] /\ unstashed' \in [Nodes -> Seq(Requests)]
  BY UnstashAllOK DEF BecomeReady
<1>2. answer' \in [Requests -> Ref \cup {NoRef, NotAsked, Open, Lost}]
  BY DEF BecomeReady, DataOK
<1>3. SearchOK'
  BY <1>1 DEF BecomeReady, SearchOK
<1>. QED BY <1>2, <1>3

LEMMA BecomeReadyIfFoundOK ==
  ASSUME IInv, NEW n \in Nodes, NEW job \in Jobs, NEW t \in Ref \cup {NoRef},
         BecomeReadyIfFound(n, job, t), up' = up
  PROVE  SearchOK' /\ answer' \in [Requests -> Ref \cup {NoRef, NotAsked, Open, Lost}]
<1>. USE DEF IInv
<1>1. CASE requested[n].job = job
  <2>1. BecomeReady(n, t) /\ acks' = acks /\ requested' = requested
    BY <1>1 DEF BecomeReadyIfFound
  <2>. QED BY <2>1, BecomeReadyOK DEF SearchOK
<1>2. CASE requested[n].job # job
  BY <1>2 DEF BecomeReadyIfFound, SearchOK, DataOK
<1>. QED BY <1>1, <1>2

LEMMA RestartActorOK ==
  ASSUME IInv, NEW n \in Nodes, RestartActor(n), up' = up
  PROVE  /\ SearchOK'
         /\ answer' \in [Requests -> Ref \cup {NoRef, NotAsked, Open, Lost}]
         /\ trackers' \in [Nodes -> [Jobs -> Ref \cup {NoRef, Absent}]]
<1>. USE DEF IInv
<1>1. stash' \in [Nodes -> Seq(Requests)] /\ unstashed' \in [Nodes -> Seq(Requests)]
  BY UnstashAllOK DEF RestartActor
<1>2. /\ behavior' = [behavior EXCEPT ![n] = "Ready"]
      /\ acks' = [acks EXCEPT ![n] = 0]
      /\ requested' = [requested EXCEPT ![n] = NoRequest]
  BY DEF RestartActor
<1>3. SearchOK'
  BY SMTT(20), <1>1, <1>2 DEF SearchOK
<1>4. answer' \in [Requests -> Ref \cup {NoRef, NotAsked, Open, Lost}]
  BY DEF RestartActor, DataOK
<1>5. trackers' \in [Nodes -> [Jobs -> Ref \cup {NoRef, Absent}]]
  BY DEF RestartActor, DataOK
<1>. QED BY <1>3, <1>4, <1>5

LEMMA ClusterUnchanged == ClusterOK /\ UNCHANGED clusterVars => ClusterOK'
BY DEF ClusterOK

-----------------------------------------------------------------------------
\* One lemma per action.

LEMMA RequestStep ==
  ASSUME IInv, NEW r \in Requests, Request(r) PROVE IInv'
<1>. USE DEF IInv
<1>1. /\ r.node \in Nodes /\ up[r.node]
      /\ HandleRequest(r.node, r) /\ unstashed' = unstashed /\ up' = up
  BY DEF Request
<1>2. SearchOK' /\ net' \in [Links -> Seq(Message)]
  BY <1>1, HandleRequestOK DEF SearchOK
<1>3. DataOK'
  BY <1>2 DEF Request, DataOK
<1>. QED BY <1>2, <1>3, ClusterUnchanged DEF Request

LEMMA ProcessUnstashedStep ==
  ASSUME IInv, NEW n \in Nodes, ProcessUnstashed(n) PROVE IInv'
<1>. USE DEF IInv
<1>1. unstashed[n] \in Seq(Requests) /\ unstashed[n] # <<>>
  BY DEF SearchOK, ProcessUnstashed
<1>2. Head(unstashed[n]) \in Requests /\ Tail(unstashed[n]) \in Seq(Requests)
  BY <1>1, HeadTailProperties
<1>3. unstashed' \in [Nodes -> Seq(Requests)] /\ up' = up /\ up[n]
  BY <1>2 DEF ProcessUnstashed, SearchOK
<1>4. SearchOK' /\ net' \in [Links -> Seq(Message)]
  BY <1>2, <1>3, HandleRequestOK DEF ProcessUnstashed
<1>5. DataOK'
  BY <1>4 DEF ProcessUnstashed, DataOK
<1>. QED BY <1>4, <1>5, ClusterUnchanged DEF ProcessUnstashed

LEMMA OnGetDownloadTrackerStep ==
  ASSUME IInv, NEW m \in Nodes, NEW n \in Nodes, OnGetDownloadTracker(m, n) PROVE IInv'
<1>. USE DEF IInv
<1>. DEFINE job   == Head(net[<<m, n>>]).job
            known == trackers[n][job]
<1>1. /\ net[<<m, n>>] # <<>>
      /\ UNCHANGED <<clusterVars, children, created, lost>>
      /\ up' = up
  BY DEF OnGetDownloadTracker, Receives
<1>2. Taken(m, n) \in [Links -> Seq(Message)] /\ job \in Jobs
  BY <1>1, TakenType DEF Message
<1>3. /\ TrackerFound(job, RefOf(n, job)) \in Message
      /\ TrackerNotFound(job) \in Message
      /\ TrackerDead(job) \in Message
  BY <1>2, MessageTypes
<1>4. CASE /\ \E msg \in Message : net' = Broadcast(Taken(m, n), n, msg)
           /\ UNCHANGED <<searchVars, trackers, asks, answer>>
  <2>1. net' \in [Links -> Seq(Message)] BY <1>2, <1>4, BroadcastType
  <2>2. SearchOK' BY <1>1, <1>4 DEF SearchOK
  <2>3. DataOK' BY <1>1, <1>4, <2>1 DEF DataOK
  <2>. QED BY <1>1, <2>2, <2>3, ClusterUnchanged
<1>5. CASE /\ Askable(known)
           /\ net' = Taken(m, n)
           /\ asks' = [asks EXCEPT ![n] = Append(@, [job |-> job, ref |-> known])]
           /\ UNCHANGED <<searchVars, trackers, answer>>
  <2>1. known \in Ref BY <1>2, <1>5 DEF Askable, DataOK
  <2>2. [job |-> job, ref |-> known] \in [job : Jobs, ref : Ref] BY <1>2, <2>1
  <2>3. Append(asks[n], [job |-> job, ref |-> known]) \in Seq([job : Jobs, ref : Ref])
    <3>1. asks[n] \in Seq([job : Jobs, ref : Ref]) BY DEF DataOK
    <3>. QED BY <2>2, <3>1
  <2>4. SearchOK' BY <1>1, <1>5 DEF SearchOK
  <2>5. DataOK' BY <1>1, <1>2, <1>5, <2>3 DEF DataOK
  <2>. QED BY <1>1, <2>4, <2>5, ClusterUnchanged
<1>6. CASE net' = Taken(m, n) /\ RestartActor(n) /\ UNCHANGED asks
  <2>1. /\ SearchOK'
        /\ answer' \in [Requests -> Ref \cup {NoRef, NotAsked, Open, Lost}]
        /\ trackers' \in [Nodes -> [Jobs -> Ref \cup {NoRef, Absent}]]
    BY <1>1, <1>6, RestartActorOK
  <2>2. DataOK' BY <1>1, <1>2, <1>6, <2>1 DEF DataOK
  <2>. QED BY <1>1, <2>1, <2>2, ClusterUnchanged
<1>. QED BY <1>3, <1>4, <1>5, <1>6 DEF OnGetDownloadTracker

LEMMA OnTrackerNotFoundStep ==
  ASSUME IInv, NEW m \in Nodes, NEW n \in Nodes, OnTrackerNotFound(m, n) PROVE IInv'
<1>. USE DEF IInv
<1>. DEFINE job     == Head(net[<<m, n>>]).job
            counted == behavior[n] = "WaitingForTracker" /\ requested[n].job = job
<1>1. /\ net[<<m, n>>] # <<>>
      /\ UNCHANGED <<clusterVars, asks, lost>>
      /\ up' = up
  BY DEF OnTrackerNotFound, Receives
<1>2. Taken(m, n) \in [Links -> Seq(Message)] /\ job \in Jobs
  BY <1>1, TakenType DEF Message
<1>3. CASE /\ net' = Taken(m, n)
           /\ UNCHANGED <<searchVars, trackers, children, created, answer>>
  <2>1. SearchOK' BY <1>1, <1>3 DEF SearchOK
  <2>2. DataOK' BY <1>1, <1>2, <1>3 DEF DataOK
  <2>. QED BY <1>1, <2>1, <2>2, ClusterUnchanged
<1>4. CASE /\ counted
           /\ ~LastAcknowledgment(n)
           /\ acks' = [acks EXCEPT ![n] = @ - 1]
           /\ net' = Taken(m, n)
           /\ UNCHANGED <<behavior, requested, stash, unstashed, trackers, children, created, answer>>
  <2>1. Cardinality(Nodes) \in Nat BY FS_CardinalityType
  <2>2. acks[n] \in 1..Cardinality(Nodes) /\ acks[n] - 1 # 0
    BY <1>4 DEF SearchOK, LastAcknowledgment
  <2>3. acks[n] - 1 \in 1..Cardinality(Nodes)
    BY <2>1, <2>2
  <2>4. SearchOK' BY <1>1, <1>4, <2>3 DEF SearchOK
  <2>5. DataOK' BY <1>1, <1>2, <1>4 DEF DataOK
  <2>. QED BY <1>1, <2>4, <2>5, ClusterUnchanged
<1>5. CASE /\ acks' = [acks EXCEPT ![n] = @ - 1]
           /\ children' = [children EXCEPT ![n] = @ \cup {job}]
           /\ created' = created \cup {RefOf(n, job)}
           /\ BecomeReady(n, RefOf(n, job))
           /\ net' = Broadcast(Taken(m, n), n, CreatedTracker(job, RefOf(n, job)))
           /\ UNCHANGED <<requested, trackers>>
  <2>1. RefOf(n, job) \in Ref /\ CreatedTracker(job, RefOf(n, job)) \in Message
    BY <1>2, MessageTypes
  <2>2. acks' \in [Nodes -> Int] /\ \A p \in Nodes : p # n => acks'[p] = acks[p]
    BY <1>5 DEF SearchOK
  <2>3. SearchOK' /\ answer' \in [Requests -> Ref \cup {NoRef, NotAsked, Open, Lost}]
    BY <1>1, <1>5, <2>1, <2>2, BecomeReadyOK
  <2>4. net' \in [Links -> Seq(Message)] BY <1>2, <1>5, <2>1, BroadcastType
  <2>5. children' \in [Nodes -> SUBSET Jobs] BY <1>2, <1>5 DEF DataOK
  <2>6. DataOK' BY <1>1, <1>5, <2>1, <2>3, <2>4, <2>5 DEF DataOK
  <2>. QED BY <1>1, <2>3, <2>6, ClusterUnchanged
<1>6. CASE net' = Taken(m, n) /\ RestartActor(n) /\ UNCHANGED <<children, created>>
  <2>1. /\ SearchOK'
        /\ answer' \in [Requests -> Ref \cup {NoRef, NotAsked, Open, Lost}]
        /\ trackers' \in [Nodes -> [Jobs -> Ref \cup {NoRef, Absent}]]
    BY <1>1, <1>6, RestartActorOK
  <2>2. DataOK' BY <1>1, <1>2, <1>6, <2>1 DEF DataOK
  <2>. QED BY <1>1, <2>1, <2>2, ClusterUnchanged
<1>. QED BY <1>3, <1>4, <1>5, <1>6 DEF OnTrackerNotFound

LEMMA OnTrackerStep ==
  ASSUME IInv, NEW m \in Nodes, NEW n \in Nodes, OnTracker(m, n) PROVE IInv'
<1>. USE DEF IInv
<1>. DEFINE msg == Head(net[<<m, n>>])
<1>1. /\ net[<<m, n>>] # <<>>
      /\ net' = Taken(m, n)
      /\ UNCHANGED <<clusterVars, children, created, asks, lost>>
      /\ up' = up
      /\ trackers' = [trackers EXCEPT ![n][msg.job] = msg.ref]
      /\ IF behavior[n] = "WaitingForTracker"
         THEN BecomeReadyIfFound(n, msg.job, msg.ref)
         ELSE UNCHANGED <<searchVars, answer>>
  BY DEF OnTracker, Receives, Remember
<1>2. net' \in [Links -> Seq(Message)] /\ msg.job \in Jobs /\ msg.ref \in Ref \cup {NoRef}
  BY <1>1, TakenType DEF Message
<1>3. SearchOK' /\ answer' \in [Requests -> Ref \cup {NoRef, NotAsked, Open, Lost}]
  <2>1. CASE behavior[n] = "WaitingForTracker"
    BY <1>1, <1>2, <2>1, BecomeReadyIfFoundOK
  <2>2. CASE behavior[n] # "WaitingForTracker"
    <3>1. UNCHANGED <<searchVars, answer>> BY <1>1, <2>2
    <3>2. SearchOK' BY <1>1, <3>1 DEF SearchOK
    <3>3. answer' \in [Requests -> Ref \cup {NoRef, NotAsked, Open, Lost}]
      BY <3>1 DEF DataOK
    <3>. QED BY <3>2, <3>3
  <2>. QED BY <2>1, <2>2
<1>4. trackers' \in [Nodes -> [Jobs -> Ref \cup {NoRef, Absent}]]
  BY <1>1, <1>2 DEF DataOK
<1>5. DataOK' BY <1>1, <1>2, <1>3, <1>4 DEF DataOK
<1>. QED BY <1>1, <1>3, <1>5, ClusterUnchanged

LEMMA OnTrackerDeadStep ==
  ASSUME IInv, NEW m \in Nodes, NEW n \in Nodes, OnTrackerDead(m, n) PROVE IInv'
<1>. USE DEF IInv
<1>1. /\ net[<<m, n>>] # <<>>
      /\ net' = Taken(m, n)
      /\ up' = up
      /\ trackers' = [trackers EXCEPT ![n][Head(net[<<m, n>>]).job] = Absent]
      /\ UNCHANGED <<clusterVars, searchVars, children, created, asks, answer, lost>>
  BY DEF OnTrackerDead, Receives
<1>2. net' \in [Links -> Seq(Message)] /\ Head(net[<<m, n>>]).job \in Jobs
  BY <1>1, TakenType DEF Message
<1>3. trackers' \in [Nodes -> [Jobs -> Ref \cup {NoRef, Absent}]]
  BY <1>1, <1>2 DEF DataOK
<1>4. SearchOK' BY <1>1 DEF SearchOK
<1>5. DataOK' BY <1>1, <1>2, <1>3 DEF DataOK
<1>. QED BY <1>1, <1>4, <1>5, ClusterUnchanged

LEMMA IdentifyDoneStep ==
  ASSUME IInv, NEW n \in Nodes, NEW i \in DOMAIN asks[n], IdentifyDone(n, i) PROVE IInv'
<1>. USE DEF IInv
<1>. DEFINE ask == asks[n][i]
            S == [job : Jobs, ref : Ref]
<1>1. asks[n] \in Seq(S) /\ net \in [Links -> Seq(Message)] BY DEF DataOK
<1>. HIDE DEF S
<1>2. i \in 1..Len(asks[n]) /\ Len(asks[n]) \in Nat /\ \A j \in 1..Len(asks[n]) : asks[n][j] \in S
  <2>1. Len(asks[n]) \in Nat /\ DOMAIN asks[n] = 1..Len(asks[n]) BY <1>1
  <2>2. \A j \in 1..Len(asks[n]) : asks[n][j] \in S BY <1>1
  <2>. QED BY <2>1, <2>2
<1>3. net' \in [Links -> Seq(Message)]
  <2>1. ask.job \in Jobs /\ ask.ref \in Ref BY <1>2 DEF S
  <2>2. \E msg \in Message : net' = Broadcast(net, n, msg)
    BY <2>1, MessageTypes DEF IdentifyDone
  <2>. QED BY <1>1, <2>2, BroadcastType
<1>4. SubSeq(asks[n], 1, i - 1) \in Seq(S) /\ SubSeq(asks[n], i + 1, Len(asks[n])) \in Seq(S)
  <2>1. \A j \in 1..(i - 1) : asks[n][j] \in S BY <1>2
  <2>2. \A j \in (i + 1)..Len(asks[n]) : asks[n][j] \in S BY <1>2
  <2>. QED BY <1>2, <2>1, <2>2, SubSeqProperties
<1>5. SubSeq(asks[n], 1, i - 1) \o SubSeq(asks[n], i + 1, Len(asks[n])) \in Seq(S)
  BY <1>4
<1>6. asks' \in [Nodes -> Seq(S)]
  BY <1>5 DEF IdentifyDone, DataOK, S
<1>7. SearchOK' BY DEF IdentifyDone, SearchOK
<1>8. DataOK' BY <1>3, <1>6 DEF IdentifyDone, DataOK, S
<1>. QED BY <1>7, <1>8, ClusterUnchanged DEF IdentifyDone

LEMMA ReceiveTimeoutStep ==
  ASSUME IInv, NEW n \in Nodes, ReceiveTimeout(n) PROVE IInv'
<1>. USE DEF IInv
<1>1. requested[n].job \in Jobs /\ <<n, n>> \in Links
  BY DEF ReceiveTimeout, SearchOK, Links
<1>2. TrackerNotFound(requested[n].job) \in Message
  BY <1>1, MessageTypes
<1>3. Append(net[<<n, n>>], TrackerNotFound(requested[n].job)) \in Seq(Message)
  BY <1>1, <1>2 DEF DataOK
<1>4. SearchOK' BY DEF ReceiveTimeout, SearchOK
<1>5. DataOK' BY <1>3 DEF ReceiveTimeout, DataOK
<1>. QED BY <1>4, <1>5, ClusterUnchanged DEF ReceiveTimeout

LEMMA LoseStep ==
  ASSUME IInv, NEW m \in Nodes, NEW n \in Nodes, Lose(m, n) PROVE IInv'
<1>. USE DEF IInv
<1>1. net' \in [Links -> Seq(Message)] BY TakenType DEF Lose
<1>2. SearchOK' BY DEF Lose, SearchOK
<1>3. lost' \in Nat BY DEF Lose, DataOK
<1>4. DataOK' BY <1>1, <1>3 DEF Lose, DataOK
<1>. QED BY <1>2, <1>4, ClusterUnchanged DEF Lose

LEMMA CrashStep ==
  ASSUME IInv, NEW n \in Nodes, Crash(n) PROVE IInv'
<1>. USE DEF IInv
<1>1. <<>> \in Seq(Requests) /\ <<>> \in Seq(Message) /\ <<>> \in Seq([job : Jobs, ref : Ref])
  OBVIOUS
<1>2. SearchOK' BY <1>1 DEF Crash, SearchOK
<1>3. ClusterOK' BY DEF Crash, ClusterOK
<1>4. trackers' \in [Nodes -> [Jobs -> Ref \cup {NoRef, Absent}]] BY DEF Crash, DataOK
<1>5. net' \in [Links -> Seq(Message)] BY <1>1 DEF Crash, DataOK
<1>6. asks' \in [Nodes -> Seq([job : Jobs, ref : Ref])] BY <1>1 DEF Crash, DataOK
<1>7. answer' \in [Requests -> Ref \cup {NoRef, NotAsked, Open, Lost}] BY DEF Crash, DataOK
<1>8. DataOK' BY <1>4, <1>5, <1>6, <1>7 DEF Crash, DataOK
<1>. QED BY <1>2, <1>3, <1>8

LEMMA MembershipStep ==
  ASSUME IInv, NEW m \in Nodes, NEW n \in Nodes,
         MemberRemoved(n, m) \/ MemberUp(n, m) \/ Rejoin(n)
  PROVE  IInv'
<1>. USE DEF IInv
<1>1. ClusterOK'
  <2>1. CASE MemberRemoved(n, m) BY <2>1 DEF MemberRemoved, ClusterOK
  <2>2. CASE MemberUp(n, m) BY <2>2 DEF MemberUp, ClusterOK
  <2>3. CASE Rejoin(n) BY <2>3 DEF Rejoin, ClusterOK
  <2>. QED BY <2>1, <2>2, <2>3
<1>2. SearchOK'
  <2>1. UNCHANGED searchVars /\ \A p \in Nodes : up[p] => up'[p]
    BY DEF MemberRemoved, MemberUp, Rejoin, ClusterOK
  <2>. QED BY <2>1 DEF SearchOK
<1>3. DataOK' BY DEF MemberRemoved, MemberUp, Rejoin, DataOK
<1>. QED BY <1>1, <1>2, <1>3

-----------------------------------------------------------------------------
\* The theorems.

LEMMA InitIInv == Init => IInv
<1>. SUFFICES ASSUME Init PROVE IInv OBVIOUS
<1>1. <<>> \in Seq(Requests) /\ <<>> \in Seq(Message) /\ <<>> \in Seq([job : Jobs, ref : Ref])
  OBVIOUS
<1>2. SearchOK BY <1>1 DEF Init, SearchOK
<1>3. ClusterOK BY DEF Init, ClusterOK
<1>4. DataOK BY <1>1 DEF Init, DataOK
<1>. QED BY <1>2, <1>3, <1>4 DEF IInv

LEMMA NextIInv == IInv /\ [Next]_vars => IInv'
<1>. SUFFICES ASSUME IInv, [Next]_vars PROVE IInv' OBVIOUS
<1>1. CASE UNCHANGED vars
  BY <1>1 DEF IInv, SearchOK, ClusterOK, DataOK, vars, clusterVars
<1>2. CASE \E r \in Requests : Request(r) BY <1>2, RequestStep
<1>3. ASSUME NEW n \in Nodes,
             \/ ProcessUnstashed(n)
             \/ \E i \in DOMAIN asks[n] : IdentifyDone(n, i)
             \/ ReceiveTimeout(n)
             \/ Crash(n)
             \/ Rejoin(n)
      PROVE  IInv'
  BY <1>3, ProcessUnstashedStep, IdentifyDoneStep, ReceiveTimeoutStep, CrashStep, MembershipStep
<1>4. ASSUME NEW m \in Nodes, NEW n \in Nodes,
             Deliver(m, n) \/ Lose(m, n) \/ MemberRemoved(n, m) \/ MemberUp(n, m)
      PROVE  IInv'
  BY <1>4, OnGetDownloadTrackerStep, OnTrackerNotFoundStep, OnTrackerStep,
     OnTrackerDeadStep, LoseStep, MembershipStep DEF Deliver
<1>. QED BY <1>1, <1>2, <1>3, <1>4 DEF Next

\* Every state of the tracker discovery is well typed.
THEOREM TypeCorrect == Spec => []TypeOK
<1>1. IInv => TypeOK BY IInvTypes
<1>. QED BY <1>1, InitIInv, NextIInv, PTL DEF Spec

\* A search always waits for between one and |Nodes| acknowledgments, so the
\* test "OutstandingAcknowledgments == 0" (DownloadsMaster.cs:101) cannot be
\* jumped over, whichever replies are lost, repeated or meant for others.
THEOREM AcksNeverSkipZero == Spec => []SearchCountsDown
<1>1. IInv => SearchCountsDown BY IInvTypes
<1>. QED BY <1>1, InitIInv, NextIInv, PTL DEF Spec


-----------------------------------------------------------------------------
\* The invariant, on top of IInv.

\* What a reference for job can be, when the trackers C were created and there
\* were k crashes: a tracker created for the job, or after a crash the null
\* Subject of an identification.
Names(C, k, job, r) ==
  \/ r \in C /\ r.job = job
  \/ r = NoRef /\ k > 0

\* A message that brings a reference brings one for its job.
Genuine(C, k, msg) ==
  msg.type \in {"TrackerFound", "CreatedTracker"} => Names(C, k, msg.job, msg.ref)
GenuineIn(C, k, links) ==
  \A e \in Links : \A i \in 1..Len(links[e]) : Genuine(C, k, links[e][i])

\* References on their way, remembered, asked for and answered.
NetOK   == GenuineIn(created, crashes, net)
CacheOK == \A n \in Nodes, job \in Jobs :
             trackers[n][job] # Absent => Names(created, crashes, job, trackers[n][job])
AsksOK  == \A n \in Nodes : \A i \in 1..Len(asks[n]) :
             asks[n][i].ref \in created /\ asks[n][i].ref.job = asks[n][i].job
AnswersOK ==
  \A r \in Requests :
    answer[r] \notin {NotAsked, Open, Lost} => Names(created, crashes, r.job, answer[r])

\* The children of the running actors are the trackers created under their
\* identity: one that is not created yet is new, and one that was created and
\* no longer runs is of an earlier incarnation of its node.
CreatedOK ==
  /\ \A n \in Nodes : \A job \in children[n] : RefOf(n, job) \in created
  /\ \A t \in created : /\ t.inc <= inc[t.node]
                        /\ t.inc = inc[t.node] => t.job \in children[t.node]

Distinct(s) == \A i, j \in DOMAIN s : s[i] = s[j] => i = j

Serving(n) == IF behavior[n] = "WaitingForTracker" THEN {requested[n]} ELSE {}
OpenAt(n)  == {r \in Requests : r.node = n /\ answer[r] = Open}

\* The request a master serves, the ones returned to its mailbox and its stash
\* share out the open requests of its node.
HeldAt(n) ==
  /\ Serving(n) \cup Range(unstashed[n]) \cup Range(stash[n]) = OpenAt(n)
  /\ Serving(n) \cap Range(unstashed[n]) = {}
  /\ Serving(n) \cap Range(stash[n]) = {}
  /\ Range(unstashed[n]) \cap Range(stash[n]) = {}
  /\ Distinct(unstashed[n])
  /\ Distinct(stash[n])
  /\ behavior[n] = "Ready" => stash[n] = <<>>

HeldOK == \A n \in Nodes : HeldAt(n)

RefsOK == NetOK /\ CacheOK /\ AsksOK /\ AnswersOK /\ CreatedOK

DInv == IInv /\ RefsOK /\ HeldOK

-----------------------------------------------------------------------------
\* Facts about sequences.

LEMMA AppendHolds ==
  ASSUME NEW S, NEW s \in Seq(S), NEW x \in S
  PROVE  /\ Range(Append(s, x)) = Range(s) \cup {x}
         /\ Distinct(s) /\ x \notin Range(s) => Distinct(Append(s, x))
<1>. DEFINE t == Append(s, x)
<1>1. /\ Len(s) \in Nat /\ Len(t) = Len(s) + 1 /\ t[Len(t)] = x
      /\ \A i \in 1..Len(s) : t[i] = s[i]
      /\ DOMAIN s = 1..Len(s) /\ DOMAIN t = 1..(Len(s) + 1)
  BY AppendProperties
<1>. HIDE DEF t
<1>2. Range(t) = Range(s) \cup {x}
  <2>1. ASSUME NEW y \in Range(t) PROVE y \in Range(s) \cup {x}
    BY <1>1, <2>1 DEF Range
  <2>2. x \in Range(t) BY <1>1 DEF Range
  <2>3. ASSUME NEW y \in Range(s) PROVE y \in Range(t)
    BY <1>1, <2>3 DEF Range
  <2>. QED BY <2>1, <2>2, <2>3
<1>3. ASSUME Distinct(s), x \notin Range(s) PROVE Distinct(t)
  BY <1>1, <1>3 DEF Distinct, Range
<1>. QED BY <1>2, <1>3 DEF t

LEMMA HeadTailHold ==
  ASSUME NEW S, NEW s \in Seq(S), s # <<>>
  PROVE  /\ Range(s) = {Head(s)} \cup Range(Tail(s))
         /\ Distinct(s) => Distinct(Tail(s)) /\ Head(s) \notin Range(Tail(s))
<1>1. /\ Len(s) \in Nat \ {0} /\ Head(s) = s[1]
      /\ Len(Tail(s)) = Len(s) - 1 /\ \A i \in 1..(Len(s) - 1) : Tail(s)[i] = s[i + 1]
      /\ DOMAIN s = 1..Len(s) /\ DOMAIN Tail(s) = 1..(Len(s) - 1)
  OBVIOUS
<1>2. Range(Tail(s)) \subseteq Range(s) /\ Head(s) \in Range(s)
  BY <1>1 DEF Range
<1>3. ASSUME NEW x \in Range(s) PROVE x = Head(s) \/ x \in Range(Tail(s))
  <2>1. PICK i \in 1..Len(s) : s[i] = x BY <1>1 DEF Range
  <2>2. CASE i = 1 BY <1>1, <2>1, <2>2
  <2>3. CASE i # 1
    <3>1. i - 1 \in 1..(Len(s) - 1) /\ Tail(s)[i - 1] = x BY <1>1, <2>1, <2>3
    <3>. QED BY <1>1, <3>1 DEF Range
  <2>. QED BY <2>2, <2>3
<1>4. ASSUME Distinct(s) PROVE Distinct(Tail(s)) /\ Head(s) \notin Range(Tail(s))
  BY <1>1, <1>4 DEF Distinct, Range
<1>. QED BY <1>2, <1>3, <1>4

LEMMA ConcatHolds ==
  ASSUME NEW S, NEW s \in Seq(S), NEW t \in Seq(S)
  PROVE  /\ Range(s \o t) = Range(s) \cup Range(t)
         /\ Distinct(s) /\ Distinct(t) /\ Range(s) \cap Range(t) = {} => Distinct(s \o t)
<1>1. Range(s \o t) = Range(s) \cup Range(t) BY RangeConcatenation
<1>2. /\ Len(s) \in Nat /\ Len(t) \in Nat
      /\ DOMAIN s = 1..Len(s) /\ DOMAIN t = 1..Len(t) /\ DOMAIN (s \o t) = 1..(Len(s) + Len(t))
      /\ \A i \in 1..(Len(s) + Len(t)) :
           (s \o t)[i] = IF i <= Len(s) THEN s[i] ELSE t[i - Len(s)]
  BY ConcatProperties
<1>3. ASSUME Distinct(s), Distinct(t), Range(s) \cap Range(t) = {},
             NEW i \in DOMAIN (s \o t), NEW j \in DOMAIN (s \o t), (s \o t)[i] = (s \o t)[j]
      PROVE  i = j
  <2>1. \A k \in DOMAIN (s \o t) : IF k <= Len(s) THEN k \in DOMAIN s ELSE k - Len(s) \in DOMAIN t
    BY <1>2
  <2>2. CASE i <= Len(s) /\ j <= Len(s) BY <1>2, <1>3, <2>1, <2>2 DEF Distinct
  <2>3. CASE ~(i <= Len(s)) /\ ~(j <= Len(s))
    <3>1. t[i - Len(s)] = t[j - Len(s)] BY <1>2, <1>3, <2>3
    <3>2. i - Len(s) = j - Len(s) BY <1>3, <2>1, <2>3, <3>1 DEF Distinct
    <3>. QED BY <1>2, <3>2
  <2>4. CASE i <= Len(s) /\ ~(j <= Len(s))
    <3>1. s[i] \in Range(s) /\ t[j - Len(s)] \in Range(t) BY <2>1, <2>4 DEF Range
    <3>. QED BY <1>2, <1>3, <2>4, <3>1
  <2>5. CASE ~(i <= Len(s)) /\ j <= Len(s)
    <3>1. s[j] \in Range(s) /\ t[i - Len(s)] \in Range(t) BY <2>1, <2>5 DEF Range
    <3>. QED BY <1>2, <1>3, <2>5, <3>1
  <2>. QED BY <2>2, <2>3, <2>4, <2>5
<1>. QED BY <1>1, <1>3 DEF Distinct

\* What is left when one element is removed was there before.
LEMMA RemoveHolds ==
  ASSUME NEW S, NEW s \in Seq(S), NEW i \in 1..Len(s),
         NEW j \in 1..Len(SubSeq(s, 1, i - 1) \o SubSeq(s, i + 1, Len(s)))
  PROVE  \E k \in 1..Len(s) : (SubSeq(s, 1, i - 1) \o SubSeq(s, i + 1, Len(s)))[j] = s[k]
<1>. DEFINE u == SubSeq(s, 1, i - 1)
            v == SubSeq(s, i + 1, Len(s))
<1>1. Len(s) \in Nat OBVIOUS
<1>2. /\ u \in Seq(S) /\ Len(u) = i - 1
      /\ \A k \in 1..(i - 1) : u[k] = s[k]
  BY <1>1, SubSeqProperties
<1>3. /\ v \in Seq(S) /\ Len(v) = Len(s) - i
      /\ \A k \in 1..(Len(s) - i) : v[k] = s[i + k]
  BY <1>1, SubSeqProperties
<1>4. j \in 1..Len(u \o v) OBVIOUS
<1>. HIDE DEF u, v
<1>5. /\ Len(u \o v) = Len(u) + Len(v)
      /\ \A k \in 1..(Len(u) + Len(v)) :
           (u \o v)[k] = IF k <= Len(u) THEN u[k] ELSE v[k - Len(u)]
  <2>1. u \in Seq(S) /\ v \in Seq(S) BY <1>2, <1>3
  <2>. QED BY <2>1, ConcatProperties
<1>6. j \in 1..(Len(s) - 1) /\ Len(u) + Len(v) = Len(s) - 1
  BY <1>1, <1>2, <1>3, <1>4, <1>5
<1>7. (u \o v)[j] = IF j <= i - 1 THEN u[j] ELSE v[j - (i - 1)]
  BY <1>2, <1>5, <1>6
<1>8. \E k \in 1..Len(s) : (u \o v)[j] = s[k]
  <2>1. CASE j <= i - 1
    <3>1. j \in 1..(i - 1) /\ j \in 1..Len(s) BY <1>1, <1>6, <2>1
    <3>. QED BY <1>2, <1>7, <2>1, <3>1
  <2>2. CASE ~(j <= i - 1)
    <3>1. j - (i - 1) \in 1..(Len(s) - i) /\ i + (j - (i - 1)) = j + 1 /\ j + 1 \in 1..Len(s)
      BY <1>1, <1>6, <2>2
    <3>. QED BY <1>3, <1>7, <2>2, <3>1
  <2>. QED BY <2>1, <2>2
<1>. QED BY <1>8 DEF u, v

-----------------------------------------------------------------------------
\* References stay what they were when trackers are added and nodes crash.

LEMMA NamesMonotone ==
  ASSUME NEW C, NEW D, NEW k \in Nat, NEW l \in Nat, C \subseteq D, k <= l,
         NEW job, NEW r, Names(C, k, job, r)
  PROVE  Names(D, l, job, r)
BY DEF Names

LEMMA GenuineMonotone ==
  ASSUME NEW C, NEW D, NEW k \in Nat, NEW l \in Nat, C \subseteq D, k <= l,
         NEW links, GenuineIn(C, k, links)
  PROVE  GenuineIn(D, l, links)
BY NamesMonotone DEF GenuineIn, Genuine

\* What a broadcast and a delivery do to the messages on their way.
LEMMA BroadcastGenuine ==
  ASSUME NEW C, NEW k, NEW links \in [Links -> Seq(Message)], GenuineIn(C, k, links),
         NEW n \in Nodes, NEW msg \in Message, Genuine(C, k, msg)
  PROVE  GenuineIn(C, k, Broadcast(links, n, msg))
<1>1. ASSUME NEW e \in Links, NEW i \in 1..Len(Append(links[e], msg))
      PROVE  Genuine(C, k, Append(links[e], msg)[i])
  <2>1. links[e] \in Seq(Message) OBVIOUS
  <2>2. /\ Len(Append(links[e], msg)) = Len(links[e]) + 1
        /\ Append(links[e], msg)[Len(links[e]) + 1] = msg
        /\ \A j \in 1..Len(links[e]) : Append(links[e], msg)[j] = links[e][j]
        /\ Len(links[e]) \in Nat
    BY <2>1, AppendProperties
  <2>. HIDE DEF Genuine
  <2>. QED BY <1>1, <2>2 DEF GenuineIn
<1>. QED BY <1>1 DEF Broadcast, GenuineIn

LEMMA TakenGenuine ==
  ASSUME IInv, NetOK, NEW m \in Nodes, NEW n \in Nodes, net[<<m, n>>] # <<>>
  PROVE  /\ GenuineIn(created, crashes, Taken(m, n))
         /\ Genuine(created, crashes, Head(net[<<m, n>>]))
<1>. DEFINE s == net[<<m, n>>]
<1>1. <<m, n>> \in Links /\ s \in Seq(Message) /\ net \in [Links -> Seq(Message)]
  BY DEF Links, IInv, DataOK
<1>2. /\ Len(s) \in Nat \ {0} /\ Head(s) = s[1] /\ Len(Tail(s)) = Len(s) - 1
      /\ \A i \in 1..(Len(s) - 1) : Tail(s)[i] = s[i + 1]
  BY <1>1
<1>3. \A i \in 1..Len(s) : Genuine(created, crashes, s[i])
  BY <1>1 DEF NetOK, GenuineIn
<1>4. \A i \in 1..Len(Tail(s)) : Genuine(created, crashes, Tail(s)[i])
  <2>. HIDE DEF s
  <2>. QED BY <1>2, <1>3
<1>5. Genuine(created, crashes, Head(s))
  <2>. HIDE DEF s, Genuine
  <2>. QED BY <1>2, <1>3
<1>6. GenuineIn(created, crashes, Taken(m, n))
  <2>. HIDE DEF Genuine
  <2>. QED BY <1>1, <1>4 DEF Taken, NetOK, GenuineIn
<1>. QED BY <1>5, <1>6

\* The messages without a reference need none.
LEMMA PlainGenuine ==
  ASSUME NEW C, NEW k, NEW job
  PROVE  /\ Genuine(C, k, GetDownloadTracker(job))
         /\ Genuine(C, k, TrackerNotFound(job))
         /\ Genuine(C, k, TrackerDead(job))
         /\ \A r : Names(C, k, job, r) =>
              Genuine(C, k, TrackerFound(job, r)) /\ Genuine(C, k, CreatedTracker(job, r))
BY DEF Genuine, GetDownloadTracker, TrackerNotFound, TrackerDead, TrackerFound, CreatedTracker

-----------------------------------------------------------------------------
\* The requests a node holds.

LEMMA HeldUnchanged ==
  HeldOK /\ UNCHANGED <<behavior, requested, stash, unstashed, answer>> => HeldOK'
BY DEF HeldOK, HeldAt, Serving, OpenAt

\* A node whose search is left alone holds what it held.
LEMMA HeldElsewhere ==
  ASSUME HeldOK, NEW p \in Nodes, Serving(p)' = Serving(p), OpenAt(p)' = OpenAt(p),
         behavior'[p] = behavior[p], stash'[p] = stash[p], unstashed'[p] = unstashed[p]
  PROVE  HeldAt(p)'
<1>1. HeldAt(p) BY DEF HeldOK
<1>. QED BY <1>1 DEF HeldAt

\* A new request is held.
LEMMA TakeRequest ==
  ASSUME IInv, HeldOK, NEW r \in Requests, HandleRequest(r.node, r),
         answer[r] = NotAsked, answer' = [answer EXCEPT ![r] = Open],
         unstashed' = unstashed, unstashed[r.node] = <<>>
  PROVE  HeldOK'
<1>. DEFINE n == r.node
<1>1. /\ n \in Nodes /\ HandleRequest(n, r)
      /\ answer \in [Requests -> Ref \cup {NoRef, NotAsked, Open, Lost}]
      /\ behavior \in [Nodes -> {"Ready", "WaitingForTracker"}]
      /\ requested \in [Nodes -> Requests \cup {NoRequest}]
      /\ stash \in [Nodes -> Seq(Requests)]
  BY DEF IInv, SearchOK, DataOK
<1>2. /\ OpenAt(n)' = OpenAt(n) \cup {r} /\ r \notin OpenAt(n)
      /\ \A p \in Nodes \ {n} : OpenAt(p)' = OpenAt(p)
  BY <1>1 DEF OpenAt
<1>3. ASSUME NEW p \in Nodes \ {n}
      PROVE  /\ Serving(p)' = Serving(p)
             /\ behavior'[p] = behavior[p] /\ stash'[p] = stash[p]
  BY <1>1 DEF HandleRequest, BecomeWaitingForTracker, Serving
<1>4. /\ Range(unstashed[n]) = {} /\ unstashed' = unstashed
      /\ Distinct(unstashed[n])
  BY DEF Range, Distinct
<1>5. \A p \in Nodes \ {n} : HeldAt(p)'
  BY <1>2, <1>3, <1>4, HeldElsewhere
<1>6. HeldAt(n)
  BY <1>1 DEF HeldOK
<1>. HIDE DEF n
<1>7. ASSUME behavior[n] = "Ready" PROVE HeldAt(n)'
  <2>1. behavior'[n] = "WaitingForTracker" /\ requested'[n] = r /\ stash' = stash
    BY <1>1, <1>7 DEF HandleRequest, BecomeWaitingForTracker
  <2>2. Serving(n) = {} /\ Serving(n)' = {r}
    BY <1>7, <2>1 DEF Serving
  <2>3. stash[n] = <<>> /\ Range(stash[n]) = {} /\ Distinct(stash[n])
    BY <1>7, <1>6 DEF HeldAt, Range, Distinct
  <2>. QED BY <1>1, <1>2, <1>4, <1>6, <2>1, <2>2, <2>3 DEF HeldAt
<1>8. ASSUME behavior[n] = "WaitingForTracker" PROVE HeldAt(n)'
  <2>1. /\ stash' = [stash EXCEPT ![n] = Append(@, r)]
        /\ UNCHANGED <<behavior, requested>>
    BY <1>1, <1>8 DEF HandleRequest
  <2>2. Serving(n)' = Serving(n)
    BY <2>1 DEF Serving
  <2>3. r \notin Range(stash[n]) /\ r \notin Serving(n)
    BY <1>2, <1>6 DEF HeldAt
  <2>4. /\ Range(stash'[n]) = Range(stash[n]) \cup {r}
        /\ Distinct(stash[n]) => Distinct(stash'[n])
    BY <1>1, <2>1, <2>3, AppendHolds
  <2>5. behavior'[n] # "Ready"
    BY <1>8, <2>1
  <2>. QED BY <1>1, <1>2, <1>4, <1>6, <2>1, <2>2, <2>3, <2>4, <2>5 DEF HeldAt
<1>. QED BY <1>1, <1>7, <1>8, <1>5 DEF HeldOK

\* A request that is handled again is still held.
LEMMA RetakeRequest ==
  ASSUME IInv, HeldOK, NEW n \in Nodes, ProcessUnstashed(n)
  PROVE  HeldOK'
<1>. DEFINE r == Head(unstashed[n])
            q == Tail(unstashed[n])
<1>1. /\ behavior \in [Nodes -> {"Ready", "WaitingForTracker"}]
      /\ requested \in [Nodes -> Requests \cup {NoRequest}]
      /\ stash \in [Nodes -> Seq(Requests)]
      /\ unstashed \in [Nodes -> Seq(Requests)]
      /\ unstashed[n] \in Seq(Requests) /\ unstashed[n] # <<>>
      /\ unstashed' = [unstashed EXCEPT ![n] = q]
      /\ answer' = answer
      /\ HandleRequest(n, r)
  BY DEF IInv, SearchOK, ProcessUnstashed
<1>2. \A p \in Nodes : OpenAt(p)' = OpenAt(p)
  BY <1>1 DEF OpenAt
<1>3. /\ Range(unstashed[n]) = {r} \cup Range(q)
      /\ Distinct(unstashed[n]) => Distinct(q) /\ r \notin Range(q)
      /\ r \in Requests
  BY <1>1, HeadTailHold, HeadTailProperties
<1>. HIDE DEF r, q
<1>4. ASSUME NEW p \in Nodes, p # n
      PROVE  /\ Serving(p)' = Serving(p)
             /\ behavior'[p] = behavior[p] /\ stash'[p] = stash[p] /\ unstashed'[p] = unstashed[p]
  BY <1>1, <1>4 DEF HandleRequest, BecomeWaitingForTracker, Serving
<1>5. \A p \in Nodes \ {n} : HeldAt(p)'
  BY <1>2, <1>4, HeldElsewhere
<1>6. HeldAt(n)
  BY DEF HeldOK
<1>7. ASSUME behavior[n] = "Ready" PROVE HeldAt(n)'
  <2>1. behavior'[n] = "WaitingForTracker" /\ requested'[n] = r /\ stash' = stash /\ unstashed'[n] = q
    BY <1>1, <1>7 DEF HandleRequest, BecomeWaitingForTracker
  <2>2. Serving(n) = {} /\ Serving(n)' = {r}
    BY <1>7, <2>1 DEF Serving
  <2>. QED BY <1>2, <1>3, <1>6, <2>1, <2>2 DEF HeldAt
<1>8. ASSUME behavior[n] = "WaitingForTracker" PROVE HeldAt(n)'
  <2>1. /\ stash' = [stash EXCEPT ![n] = Append(@, r)]
        /\ UNCHANGED <<behavior, requested>> /\ unstashed'[n] = q
    BY <1>1, <1>8 DEF HandleRequest
  <2>2. Serving(n)' = Serving(n)
    BY <2>1 DEF Serving
  <2>3. r \notin Range(stash[n]) /\ r \notin Serving(n)
    BY <1>3, <1>6 DEF HeldAt, Serving
  <2>4. /\ Range(stash'[n]) = Range(stash[n]) \cup {r}
        /\ Distinct(stash[n]) => Distinct(stash'[n])
    BY <1>1, <1>3, <2>1, <2>3, AppendHolds
  <2>5. behavior'[n] # "Ready"
    BY <1>8, <2>1
  <2>. QED BY <1>2, <1>3, <1>6, <2>1, <2>2, <2>3, <2>4, <2>5 DEF HeldAt
<1>. QED BY <1>1, <1>7, <1>8, <1>5 DEF HeldOK

\* The request that is served is answered or given up, and the stash goes back.
LEMMA ReleaseRequest ==
  ASSUME IInv, HeldOK, NEW n \in Nodes, behavior[n] = "WaitingForTracker",
         NEW t, t # Open, answer' = [answer EXCEPT ![requested[n]] = t],
         behavior' = [behavior EXCEPT ![n] = "Ready"], UnstashAll(n),
         \A p \in Nodes : p # n => requested'[p] = requested[p]
  PROVE  HeldOK'
<1>. DEFINE r == requested[n]
<1>1. /\ behavior \in [Nodes -> {"Ready", "WaitingForTracker"}]
      /\ stash \in [Nodes -> Seq(Requests)]
      /\ unstashed \in [Nodes -> Seq(Requests)]
      /\ r \in Requests
      /\ answer \in [Requests -> Ref \cup {NoRef, NotAsked, Open, Lost}]
  BY DEF IInv, SearchOK, DataOK
<1>2. Serving(n) = {r} /\ Serving(n)' = {}
  BY <1>1 DEF Serving
<1>3. HeldAt(n)
  BY DEF HeldOK
<1>4. r \in OpenAt(n)
  BY <1>2, <1>3 DEF HeldAt
<1>. HIDE DEF r
<1>5. OpenAt(n)' = OpenAt(n) \ {r} /\ \A p \in Nodes : p # n => OpenAt(p)' = OpenAt(p)
  BY <1>1, <1>4 DEF OpenAt, r
<1>6. /\ stash'[n] = <<>> /\ unstashed'[n] = stash[n] \o unstashed[n]
      /\ behavior'[n] = "Ready"
  BY <1>1 DEF UnstashAll
<1>7. /\ Range(unstashed'[n]) = Range(stash[n]) \cup Range(unstashed[n])
      /\ Distinct(unstashed'[n])
      /\ Range(stash'[n]) = {} /\ Distinct(stash'[n])
  <2>1. /\ Distinct(stash[n]) /\ Distinct(unstashed[n])
        /\ Range(stash[n]) \cap Range(unstashed[n]) = {}
    BY <1>3 DEF HeldAt
  <2>2. Range(stash'[n]) = {} /\ Distinct(stash'[n]) BY <1>6 DEF Range, Distinct
  <2>. QED BY <1>1, <1>6, <2>1, <2>2, ConcatHolds
<1>8. ASSUME NEW p \in Nodes, p # n
      PROVE  /\ Serving(p)' = Serving(p)
             /\ behavior'[p] = behavior[p] /\ stash'[p] = stash[p] /\ unstashed'[p] = unstashed[p]
  BY <1>1, <1>8 DEF UnstashAll, Serving
<1>9. HeldAt(n)'
  BY <1>2, <1>5, <1>6, <1>7, <1>3 DEF HeldAt
<1>10. \A p \in Nodes : p # n => HeldAt(p)'
  BY <1>5, <1>8, HeldElsewhere
<1>. QED BY <1>9, <1>10 DEF HeldOK

\* A restart gives up the request that is served, if there is one.
LEMMA RestartHolds ==
  ASSUME IInv, HeldOK, NEW n \in Nodes, RestartActor(n)
  PROVE  HeldOK'
<1>1. /\ behavior \in [Nodes -> {"Ready", "WaitingForTracker"}]
      /\ requested \in [Nodes -> Requests \cup {NoRequest}]
      /\ stash \in [Nodes -> Seq(Requests)]
      /\ unstashed \in [Nodes -> Seq(Requests)]
  BY DEF IInv, SearchOK
<1>2. /\ behavior' = [behavior EXCEPT ![n] = "Ready"]
      /\ UnstashAll(n)
      /\ \A p \in Nodes : p # n => requested'[p] = requested[p]
  BY <1>1 DEF RestartActor
<1>3. CASE behavior[n] = "WaitingForTracker"
  <2>1. answer' = [answer EXCEPT ![requested[n]] = Lost]
    BY <1>3 DEF RestartActor
  <2>. QED BY <1>2, <1>3, <2>1, ReleaseRequest
<1>4. CASE behavior[n] # "WaitingForTracker"
  <2>1. answer' = answer /\ behavior[n] = "Ready"
    BY <1>1, <1>4 DEF RestartActor
  <2>2. stash[n] = <<>>
    BY <2>1 DEF HeldOK, HeldAt
  <2>3. stash[n] \o unstashed[n] = unstashed[n]
    BY <1>1, <2>2, ConcatEmptySeq
  <2>4. stash' = stash /\ unstashed' = unstashed /\ behavior' = behavior
    BY <1>1, <1>2, <2>1, <2>2, <2>3 DEF UnstashAll
  <2>5. \A p \in Nodes : Serving(p)' = Serving(p) /\ OpenAt(p)' = OpenAt(p)
    BY <1>2, <2>1, <2>4 DEF Serving, OpenAt
  <2>. QED BY <2>4, <2>5, HeldElsewhere DEF HeldOK
<1>. QED BY <1>3, <1>4

-----------------------------------------------------------------------------
\* What the parts of the handlers do to the references.

LEMMA RefsUnchanged ==
  /\ CreatedOK /\ UNCHANGED <<inc, children, created>> => CreatedOK'
  /\ CacheOK /\ UNCHANGED <<trackers, created, crashes>> => CacheOK'
  /\ AsksOK /\ UNCHANGED <<asks, created>> => AsksOK'
  /\ AnswersOK /\ UNCHANGED <<answer, created, crashes>> => AnswersOK'
BY DEF CreatedOK, RefOf, CacheOK, AsksOK, AnswersOK

\* A request is opened, answered with a reference for its job, or given up.
LEMMA AnswerRefs ==
  ASSUME IInv, AnswersOK, UNCHANGED <<created, crashes>>,
         NEW r \in Requests, NEW t, answer' = [answer EXCEPT ![r] = t],
         t \in {Open, Lost} \/ Names(created, crashes, r.job, t)
  PROVE  AnswersOK'
<1>1. answer \in [Requests -> Ref \cup {NoRef, NotAsked, Open, Lost}]
  BY DEF IInv, DataOK
<1>2. ASSUME NEW q \in Requests, answer'[q] \notin {NotAsked, Open, Lost}
      PROVE  Names(created, crashes, q.job, answer'[q])
  <2>1. CASE q = r BY <1>1, <1>2, <2>1
  <2>2. CASE q # r BY <1>1, <1>2, <2>2 DEF AnswersOK
  <2>. QED BY <2>1, <2>2
<1>. QED BY <1>2 DEF AnswersOK

LEMMA RestartRefs ==
  ASSUME IInv, CacheOK, AnswersOK, UNCHANGED <<created, crashes>>,
         NEW n \in Nodes, RestartActor(n)
  PROVE  CacheOK' /\ AnswersOK'
<1>1. CacheOK'
  <2>1. trackers \in [Nodes -> [Jobs -> Ref \cup {NoRef, Absent}]]
    BY DEF IInv, DataOK
  <2>2. trackers' = [trackers EXCEPT ![n] = [job \in Jobs |-> Absent]]
    BY DEF RestartActor
  <2>. QED BY <2>1, <2>2 DEF CacheOK
<1>2. AnswersOK'
  <2>1. CASE behavior[n] = "WaitingForTracker"
    <3>1. requested[n] \in Requests /\ answer' = [answer EXCEPT ![requested[n]] = Lost]
      BY <2>1 DEF RestartActor, IInv, SearchOK
    <3>. QED BY <3>1, AnswerRefs
  <2>2. CASE behavior[n] # "WaitingForTracker"
    BY <2>2, RefsUnchanged DEF RestartActor
  <2>. QED BY <2>1, <2>2
<1>. QED BY <1>1, <1>2

\* What is sent for a request brings no reference.
LEMMA HandleRequestRefs ==
  ASSUME IInv, NetOK, UNCHANGED <<created, crashes>>,
         NEW n \in Nodes, NEW r \in Requests, HandleRequest(n, r)
  PROVE  NetOK'
<1>1. CASE net' = net BY <1>1 DEF NetOK
<1>2. CASE net' = Broadcast(net, n, GetDownloadTracker(r.job))
  <2>1. r.job \in Jobs /\ net \in [Links -> Seq(Message)] BY DEF IInv, DataOK
  <2>2. GetDownloadTracker(r.job) \in Message BY <2>1, MessageTypes
  <2>3. GenuineIn(created, crashes, net') BY <1>2, <2>1, <2>2, PlainGenuine, BroadcastGenuine DEF NetOK
  <2>. QED BY <2>3 DEF NetOK
<1>. QED BY <1>1, <1>2 DEF HandleRequest, BecomeWaitingForTracker

\* A tracker for the requested job is answered.
LEMMA BecomeReadyDirectory ==
  ASSUME IInv, HeldOK, NEW n \in Nodes, NEW t, BecomeReady(n, t),
         behavior[n] = "WaitingForTracker", requested' = requested,
         t \in Ref \cup {NoRef}
  PROVE  /\ HeldOK'
         /\ requested[n] \in Requests /\ requested[n].node = n
         /\ answer[requested[n]] = Open
         /\ answer' = [answer EXCEPT ![requested[n]] = t]
<1>1. t # Open
  BY DEF Ref
<1>2. /\ requested[n] \in Requests
      /\ answer' = [answer EXCEPT ![requested[n]] = t]
      /\ behavior' = [behavior EXCEPT ![n] = "Ready"]
      /\ UnstashAll(n)
  BY DEF BecomeReady, IInv, SearchOK
<1>3. HeldOK'
  BY <1>1, <1>2, ReleaseRequest
<1>4. requested[n] \in OpenAt(n)
  BY DEF HeldOK, HeldAt, Serving
<1>. QED BY <1>1, <1>2, <1>3, <1>4 DEF OpenAt

-----------------------------------------------------------------------------
\* One lemma per action.

LEMMA RequestKeeps ==
  ASSUME DInv, NEW r \in Requests, Request(r) PROVE RefsOK' /\ HeldOK'
<1>. USE DEF DInv, RefsOK
<1>1. /\ UNCHANGED <<clusterVars, unstashed, trackers, children, created, asks>>
      /\ answer[r] = NotAsked /\ answer' = [answer EXCEPT ![r] = Open]
      /\ HandleRequest(r.node, r) /\ unstashed[r.node] = <<>>
      /\ r.node \in Nodes
  BY DEF Request
<1>2. HeldOK' BY <1>1, TakeRequest
<1>3. NetOK' BY <1>1, HandleRequestRefs
<1>4. AnswersOK' BY <1>1, AnswerRefs
<1>. QED BY <1>1, <1>2, <1>3, <1>4, RefsUnchanged

LEMMA ProcessUnstashedKeeps ==
  ASSUME DInv, NEW n \in Nodes, ProcessUnstashed(n) PROVE RefsOK' /\ HeldOK'
<1>. USE DEF DInv, RefsOK
<1>1. /\ UNCHANGED <<clusterVars, trackers, children, created, asks, answer>>
      /\ HandleRequest(n, Head(unstashed[n])) /\ unstashed[n] # <<>>
  BY DEF ProcessUnstashed
<1>2. Head(unstashed[n]) \in Requests
  <2>1. unstashed[n] \in Seq(Requests) BY DEF IInv, SearchOK
  <2>. QED BY <1>1, <2>1, HeadTailProperties
<1>3. HeldOK' BY RetakeRequest
<1>4. NetOK' BY <1>1, <1>2, HandleRequestRefs
<1>. QED BY <1>1, <1>3, <1>4, RefsUnchanged

LEMMA OnGetDownloadTrackerKeeps ==
  ASSUME DInv, NEW m \in Nodes, NEW n \in Nodes, OnGetDownloadTracker(m, n)
  PROVE  RefsOK' /\ HeldOK'
<1>. USE DEF DInv, RefsOK
<1>. DEFINE job   == Head(net[<<m, n>>]).job
            known == trackers[n][job]
            G     == GenuineIn(created, crashes, net')
<1>1. /\ net[<<m, n>>] # <<>>
      /\ UNCHANGED <<clusterVars, children, created>>
  BY DEF OnGetDownloadTracker, Receives
<1>2. /\ Taken(m, n) \in [Links -> Seq(Message)] /\ job \in Jobs
      /\ GenuineIn(created, crashes, Taken(m, n))
  BY <1>1, TakenType, TakenGenuine DEF Message
<1>. HIDE DEF job
<1>3. /\ TrackerFound(job, RefOf(n, job)) \in Message
      /\ TrackerNotFound(job) \in Message
      /\ TrackerDead(job) \in Message
  BY <1>2, MessageTypes
<1>4. G => NetOK'
  BY <1>1 DEF NetOK
<1>5. CASE /\ \E msg \in Message : Genuine(created, crashes, msg) /\ net' = Broadcast(Taken(m, n), n, msg)
           /\ UNCHANGED <<searchVars, trackers, asks, answer>>
  <2>1. G BY <1>2, <1>5, BroadcastGenuine
  <2>. QED BY <1>1, <1>4, <1>5, <2>1, RefsUnchanged, HeldUnchanged
<1>6. CASE /\ Askable(known)
           /\ net' = Taken(m, n)
           /\ asks' = [asks EXCEPT ![n] = Append(@, [job |-> job, ref |-> known])]
           /\ UNCHANGED <<searchVars, trackers, answer>>
  <2>1. known \in created /\ known.job = job
    BY <1>2, <1>6 DEF Askable, CacheOK, Names
  <2>2. AsksOK'
    <3>1. asks \in [Nodes -> Seq([job : Jobs, ref : Ref])] BY DEF IInv, DataOK
    <3>. HIDE DEF known
    <3>2. ASSUME NEW i \in 1..Len(asks'[n])
          PROVE  asks'[n][i].ref \in created /\ asks'[n][i].ref.job = asks'[n][i].job
      BY <1>6, <2>1, <3>1, <3>2 DEF AsksOK
    <3>. QED BY <1>1, <1>6, <3>1, <3>2 DEF AsksOK
  <2>. QED BY <1>1, <1>2, <1>4, <1>6, <2>2, RefsUnchanged, HeldUnchanged
<1>7. CASE net' = Taken(m, n) /\ RestartActor(n) /\ UNCHANGED asks
  BY <1>1, <1>2, <1>4, <1>7, RestartRefs, RestartHolds, RefsUnchanged
<1>8. /\ job \in children[n] => Genuine(created, crashes, TrackerFound(job, RefOf(n, job)))
      /\ Genuine(created, crashes, TrackerNotFound(job))
      /\ Genuine(created, crashes, TrackerDead(job))
  <2>1. job \in children[n] => Names(created, crashes, job, RefOf(n, job))
    BY DEF CreatedOK, Names, RefOf
  <2>. QED BY <2>1, PlainGenuine
<1>9. \/ /\ \E msg \in Message : Genuine(created, crashes, msg) /\ net' = Broadcast(Taken(m, n), n, msg)
         /\ UNCHANGED <<searchVars, trackers, asks, answer>>
      \/ /\ Askable(known)
         /\ net' = Taken(m, n)
         /\ asks' = [asks EXCEPT ![n] = Append(@, [job |-> job, ref |-> known])]
         /\ UNCHANGED <<searchVars, trackers, answer>>
      \/ net' = Taken(m, n) /\ RestartActor(n) /\ UNCHANGED asks
  BY <1>3, <1>8 DEF OnGetDownloadTracker, job
<1>. QED BY <1>5, <1>6, <1>7, <1>9

LEMMA OnTrackerNotFoundKeeps ==
  ASSUME DInv, NEW m \in Nodes, NEW n \in Nodes, OnTrackerNotFound(m, n)
  PROVE  RefsOK' /\ HeldOK'
<1>. USE DEF DInv, RefsOK
<1>. DEFINE job     == Head(net[<<m, n>>]).job
            counted == behavior[n] = "WaitingForTracker" /\ requested[n].job = job
            G       == GenuineIn(created, crashes, net')
<1>1. /\ net[<<m, n>>] # <<>>
      /\ UNCHANGED <<clusterVars, asks>>
  BY DEF OnTrackerNotFound, Receives
<1>2. /\ Taken(m, n) \in [Links -> Seq(Message)] /\ job \in Jobs
      /\ GenuineIn(created, crashes, Taken(m, n))
  BY <1>1, TakenType, TakenGenuine DEF Message
<1>. HIDE DEF job
<1>3. CASE /\ net' = Taken(m, n)
           /\ UNCHANGED <<behavior, requested, stash, unstashed, trackers, children, created, answer>>
  <2>1. NetOK' BY <1>1, <1>2, <1>3 DEF NetOK
  <2>. QED BY <1>1, <1>3, <2>1, RefsUnchanged, HeldUnchanged
<1>4. CASE net' = Taken(m, n) /\ RestartActor(n) /\ UNCHANGED <<children, created>>
  <2>1. NetOK' BY <1>1, <1>2, <1>4 DEF NetOK
  <2>. QED BY <1>1, <1>4, <2>1, RestartRefs, RestartHolds, RefsUnchanged
<1>5. CASE /\ counted
           /\ children' = [children EXCEPT ![n] = @ \cup {job}]
           /\ created' = created \cup {RefOf(n, job)}
           /\ BecomeReady(n, RefOf(n, job))
           /\ net' = Broadcast(Taken(m, n), n, CreatedTracker(job, RefOf(n, job)))
           /\ UNCHANGED <<requested, trackers>>
  <2>. DEFINE t == RefOf(n, job)
  <2>1. /\ t \in Ref /\ CreatedTracker(job, t) \in Message
        /\ t.job = job /\ t.node = n /\ t.inc = inc[n]
    BY <1>2, MessageTypes DEF RefOf
  <2>2. /\ created \subseteq Ref /\ created \subseteq created' /\ t \in created'
        /\ crashes \in Nat /\ created' \subseteq Ref
    BY <1>5, <2>1 DEF IInv, DataOK, ClusterOK
  <2>3. Names(created', crashes, job, t)
    BY <2>1, <2>2 DEF Names
  <2>4. /\ HeldOK' /\ requested[n] \in Requests
        /\ answer' = [answer EXCEPT ![requested[n]] = t]
    <3>. HIDE DEF t
    <3>1. BecomeReady(n, t) /\ behavior[n] = "WaitingForTracker" /\ t \in Ref
      BY <1>5, <2>1 DEF t
    <3>. QED BY <1>5, <3>1, BecomeReadyDirectory
  <2>5. NetOK'
    <3>1. GenuineIn(created', crashes, Taken(m, n)) BY <1>2, <2>2, GenuineMonotone
    <3>2. GenuineIn(created', crashes, net')
      BY <1>2, <1>5, <2>1, <2>3, <3>1, BroadcastGenuine, PlainGenuine
    <3>. QED BY <1>1, <3>2 DEF NetOK
  <2>6. CacheOK'
    BY <1>1, <1>5, <2>2, NamesMonotone DEF CacheOK
  <2>7. AsksOK'
    BY <1>1, <2>2 DEF AsksOK
  <2>8. AnswersOK'
    <3>1. answer \in [Requests -> Ref \cup {NoRef, NotAsked, Open, Lost}]
      BY DEF IInv, DataOK
    <3>2. ASSUME NEW q \in Requests, answer'[q] \notin {NotAsked, Open, Lost}
          PROVE  Names(created', crashes, q.job, answer'[q])
      <4>1. CASE q = requested[n] BY <1>5, <2>3, <2>4, <3>1, <4>1
      <4>2. CASE q # requested[n] BY <2>2, <2>4, <3>1, <3>2, <4>2, NamesMonotone DEF AnswersOK
      <4>. QED BY <4>1, <4>2
    <3>. QED BY <1>1, <3>2 DEF AnswersOK
  <2>9. CreatedOK'
    <3>1. children \in [Nodes -> SUBSET Jobs] /\ inc' = inc BY <1>1 DEF IInv, DataOK
    <3>2. ASSUME NEW p \in Nodes, NEW j \in children'[p] PROVE RefOf(p, j) \in created'
      BY <1>5, <2>2, <3>1, <3>2 DEF CreatedOK
    <3>3. ASSUME NEW u \in created'
          PROVE  u.inc <= inc[u.node] /\ (u.inc = inc[u.node] => u.job \in children'[u.node])
      <4>1. CASE u = t
        BY <1>5, <2>1, <3>1, <4>1 DEF IInv, ClusterOK
      <4>2. CASE u \in created
        <5>1. u.node \in Nodes BY <2>2, <4>2 DEF Ref
        <5>. QED BY <1>5, <3>1, <4>2, <5>1 DEF CreatedOK
      <4>. QED BY <1>5, <4>1, <4>2
    <3>. QED BY <3>1, <3>2, <3>3 DEF CreatedOK, RefOf
  <2>. QED BY <2>4, <2>5, <2>6, <2>7, <2>8, <2>9
<1>. QED BY <1>3, <1>4, <1>5 DEF OnTrackerNotFound, job

LEMMA OnTrackerKeeps ==
  ASSUME DInv, NEW m \in Nodes, NEW n \in Nodes, OnTracker(m, n)
  PROVE  RefsOK' /\ HeldOK'
<1>. USE DEF DInv, RefsOK
<1>. DEFINE msg == Head(net[<<m, n>>])
<1>1. /\ net[<<m, n>>] # <<>>
      /\ msg.type \in {"TrackerFound", "CreatedTracker"}
      /\ net' = Taken(m, n)
      /\ UNCHANGED <<clusterVars, children, created, asks>>
      /\ trackers' = [trackers EXCEPT ![n][msg.job] = msg.ref]
      /\ IF behavior[n] = "WaitingForTracker"
         THEN BecomeReadyIfFound(n, msg.job, msg.ref)
         ELSE UNCHANGED <<searchVars, answer>>
  BY DEF OnTracker, Receives, Remember
<1>2. /\ msg.job \in Jobs
      /\ GenuineIn(created, crashes, Taken(m, n))
      /\ Names(created, crashes, msg.job, msg.ref)
  BY <1>1, TakenType, TakenGenuine DEF Message, Genuine
<1>. HIDE DEF msg
<1>3. NetOK'
  BY <1>1, <1>2 DEF NetOK
<1>4. CacheOK'
  <2>1. trackers \in [Nodes -> [Jobs -> Ref \cup {NoRef, Absent}]]
    BY DEF IInv, DataOK
  <2>2. ASSUME NEW p \in Nodes, NEW j \in Jobs, trackers'[p][j] # Absent
        PROVE  Names(created, crashes, j, trackers'[p][j])
    <3>1. CASE p = n /\ j = msg.job BY <1>1, <1>2, <2>1, <3>1
    <3>2. CASE ~(p = n /\ j = msg.job)
      <4>1. trackers'[p][j] = trackers[p][j] BY <1>1, <2>1, <3>2
      <4>. QED BY <2>2, <4>1 DEF CacheOK
    <3>. QED BY <3>1, <3>2
  <2>. QED BY <1>1, <2>2 DEF CacheOK
<1>5. CASE behavior[n] = "WaitingForTracker" /\ requested[n].job = msg.job
  <2>1. BecomeReady(n, msg.ref) /\ requested' = requested
    BY <1>1, <1>5 DEF BecomeReadyIfFound
  <2>2. msg.ref \in Ref \cup {NoRef} BY <1>2 DEF IInv, DataOK, Names
  <2>3. HeldOK' /\ requested[n] \in Requests /\ answer' = [answer EXCEPT ![requested[n]] = msg.ref]
    BY <1>2, <1>5, <2>1, <2>2, BecomeReadyDirectory
  <2>4. AnswersOK'
    BY <1>1, <1>2, <1>5, <2>3, AnswerRefs
  <2>. QED BY <1>1, <1>3, <1>4, <2>3, <2>4, RefsUnchanged
<1>6. CASE ~(behavior[n] = "WaitingForTracker" /\ requested[n].job = msg.job)
  <2>1. UNCHANGED <<searchVars, answer>>
    BY <1>1, <1>6 DEF BecomeReadyIfFound
  <2>. QED BY <1>1, <1>3, <1>4, <2>1, RefsUnchanged, HeldUnchanged
<1>. QED BY <1>5, <1>6

LEMMA OnTrackerDeadKeeps ==
  ASSUME DInv, NEW m \in Nodes, NEW n \in Nodes, OnTrackerDead(m, n)
  PROVE  RefsOK' /\ HeldOK'
<1>. USE DEF DInv, RefsOK
<1>1. /\ net[<<m, n>>] # <<>>
      /\ net' = Taken(m, n)
      /\ trackers' = [trackers EXCEPT ![n][Head(net[<<m, n>>]).job] = Absent]
      /\ UNCHANGED <<clusterVars, searchVars, children, created, asks, answer>>
  BY DEF OnTrackerDead, Receives
<1>2. NetOK'
  BY <1>1, TakenGenuine DEF NetOK
<1>3. CacheOK'
  <2>1. trackers \in [Nodes -> [Jobs -> Ref \cup {NoRef, Absent}]]
    BY DEF IInv, DataOK
  <2>2. \A p \in Nodes, j \in Jobs : trackers'[p][j] \in {trackers[p][j], Absent}
    BY <1>1, <2>1
  <2>. QED BY <1>1, <2>2 DEF CacheOK
<1>. QED BY <1>1, <1>2, <1>3, RefsUnchanged, HeldUnchanged

\* A question that is not answered by its tracker although the tracker's node
\* is up was about an earlier incarnation of that node.
LEMMA NullAfterCrash ==
  ASSUME IInv, CreatedOK, NEW t \in created, up[t.node], ~Alive(t)
  PROVE  crashes > 0
<1>1. t.node \in Nodes /\ t.inc \in Nat BY DEF IInv, DataOK, Ref
<1>2. t.inc <= inc[t.node] /\ t.inc # inc[t.node] BY DEF CreatedOK, Alive
<1>3. inc[t.node] \in 0..crashes /\ crashes \in Nat BY <1>1 DEF IInv, ClusterOK
<1>. QED BY <1>1, <1>2, <1>3

LEMMA IdentifyDoneKeeps ==
  ASSUME DInv, NEW n \in Nodes, NEW i \in DOMAIN asks[n], IdentifyDone(n, i)
  PROVE  RefsOK' /\ HeldOK'
<1>. USE DEF DInv, RefsOK
<1>. DEFINE ask == asks[n][i]
            S   == [job : Jobs, ref : Ref]
            G   == GenuineIn(created, crashes, net')
<1>1. /\ asks \in [Nodes -> Seq(S)] /\ net \in [Links -> Seq(Message)]
      /\ asks' = [asks EXCEPT ![n] = SubSeq(@, 1, i - 1) \o SubSeq(@, i + 1, Len(@))]
      /\ UNCHANGED <<clusterVars, searchVars, trackers, children, created, answer>>
  BY DEF IInv, DataOK, IdentifyDone
<1>. HIDE DEF S
<1>2. /\ asks[n] \in Seq(S) /\ i \in 1..Len(asks[n]) /\ Len(asks[n]) \in Nat
      /\ ask \in S /\ ask.ref \in created /\ ask.ref.job = ask.job
  BY <1>1 DEF AsksOK
<1>3. ask.job \in Jobs /\ ask.ref \in Ref
  BY <1>2 DEF S
<1>. HIDE DEF ask
<1>4. \E msg \in Message : Genuine(created, crashes, msg) /\ net' = Broadcast(net, n, msg)
  <2>1. Names(created, crashes, ask.job, ask.ref)
    BY <1>2 DEF Names
  <2>2. up[ask.ref.node] /\ ~Alive(ask.ref) => Names(created, crashes, ask.job, NoRef)
    BY <1>2, NullAfterCrash DEF Names
  <2>3. /\ TrackerFound(ask.job, ask.ref) \in Message
        /\ TrackerFound(ask.job, NoRef) \in Message
        /\ TrackerDead(ask.job) \in Message
    BY <1>3, MessageTypes
  <2>. QED BY <2>1, <2>2, <2>3, PlainGenuine DEF IdentifyDone, ask
<1>5. NetOK'
  <2>1. G
    <3>1. GenuineIn(created, crashes, net) BY DEF NetOK
    <3>2. PICK msg \in Message : Genuine(created, crashes, msg) /\ net' = Broadcast(net, n, msg)
      BY <1>4
    <3>. QED BY <1>1, <3>1, <3>2, BroadcastGenuine
  <2>. QED BY <1>1, <2>1 DEF NetOK
<1>6. AsksOK'
  <2>. DEFINE s == asks[n]
              w == SubSeq(s, 1, i - 1) \o SubSeq(s, i + 1, Len(s))
  <2>1. asks'[n] = w /\ \A p \in Nodes : p # n => asks'[p] = asks[p]
    BY <1>1
  <2>2. ASSUME NEW j \in 1..Len(w) PROVE \E k \in 1..Len(s) : w[j] = s[k]
    BY ZenonT(30), <1>2, RemoveHolds
  <2>. HIDE DEF w
  <2>3. \A k \in 1..Len(s) : s[k].ref \in created /\ s[k].ref.job = s[k].job
    BY DEF AsksOK
  <2>. HIDE DEF s
  <2>4. \A j \in 1..Len(w) : w[j].ref \in created /\ w[j].ref.job = w[j].job
    BY <2>2, <2>3
  <2>. QED BY ZenonT(30), <1>1, <2>1, <2>4 DEF AsksOK
<1>. QED BY <1>1, <1>5, <1>6, RefsUnchanged, HeldUnchanged

LEMMA ReceiveTimeoutKeeps ==
  ASSUME DInv, NEW n \in Nodes, ReceiveTimeout(n) PROVE RefsOK' /\ HeldOK'
<1>. USE DEF DInv, RefsOK
<1>. DEFINE msg == TrackerNotFound(requested[n].job)
<1>1. /\ net' = [net EXCEPT ![<<n, n>>] = Append(@, msg)]
      /\ net[<<n, n>>] = <<>>
      /\ UNCHANGED <<clusterVars, searchVars, trackers, children, created, asks, answer>>
      /\ net \in [Links -> Seq(Message)] /\ <<n, n>> \in Links
  BY DEF ReceiveTimeout, IInv, DataOK, Links
<1>2. Genuine(created, crashes, msg)
  BY PlainGenuine
<1>. HIDE DEF msg
<1>3. Len(Append(<<>>, msg)) = 1 /\ Append(<<>>, msg)[1] = msg
  OBVIOUS
<1>4. NetOK'
  <2>. HIDE DEF Genuine
  <2>. QED BY <1>1, <1>2, <1>3 DEF NetOK, GenuineIn
<1>. QED BY <1>1, <1>4, RefsUnchanged, HeldUnchanged

LEMMA LoseKeeps ==
  ASSUME DInv, NEW m \in Nodes, NEW n \in Nodes, Lose(m, n) PROVE RefsOK' /\ HeldOK'
<1>. USE DEF DInv, RefsOK
<1>1. /\ net[<<m, n>>] # <<>> /\ net' = Taken(m, n)
      /\ UNCHANGED <<clusterVars, searchVars, trackers, children, created, asks, answer>>
  BY DEF Lose
<1>2. NetOK'
  BY <1>1, TakenGenuine DEF NetOK
<1>. QED BY <1>1, <1>2, RefsUnchanged, HeldUnchanged

LEMMA CrashKeeps ==
  ASSUME DInv, NEW n \in Nodes, Crash(n) PROVE RefsOK' /\ HeldOK'
<1>. USE DEF DInv, RefsOK
<1>1. /\ crashes \in Nat /\ crashes' \in Nat /\ crashes <= crashes'
      /\ created' = created
      /\ net \in [Links -> Seq(Message)]
      /\ trackers \in [Nodes -> [Jobs -> Ref \cup {NoRef, Absent}]]
      /\ asks \in [Nodes -> Seq([job : Jobs, ref : Ref])]
      /\ answer \in [Requests -> Ref \cup {NoRef, NotAsked, Open, Lost}]
  <2>1. crashes \in Nat /\ crashes' = crashes + 1 /\ created' = created
    BY DEF IInv, ClusterOK, Crash
  <2>2. crashes' \in Nat /\ crashes <= crashes'
    BY <2>1
  <2>. QED BY <2>1, <2>2 DEF IInv, DataOK
<1>2. \A job, r : Names(created, crashes, job, r) => Names(created', crashes', job, r)
  BY <1>1 DEF Names
<1>3. NetOK'
  <2>1. \A e \in Links : net'[e] = <<>> \/ net'[e] = net[e]
    BY DEF Crash
  <2>2. GenuineIn(created', crashes', net)
    BY <1>1, GenuineMonotone DEF NetOK
  <2>3. Len(<<>>) = 0 OBVIOUS
  <2>. QED BY <2>1, <2>2, <2>3 DEF NetOK, GenuineIn
<1>4. CacheOK'
  <2>1. \A p \in Nodes, j \in Jobs : trackers'[p][j] \in {trackers[p][j], Absent}
    BY <1>1 DEF Crash
  <2>. QED BY <1>2, <2>1 DEF CacheOK
<1>5. AsksOK'
  <2>1. \A p \in Nodes : asks'[p] = <<>> \/ asks'[p] = asks[p]
    BY <1>1 DEF Crash
  <2>2. 1..Len(<<>>) = {} OBVIOUS
  <2>. QED BY ZenonT(30), <1>1, <2>1, <2>2 DEF AsksOK
<1>6. AnswersOK'
  <2>1. \A r \in Requests : answer'[r] \in {answer[r], Lost}
    BY <1>1 DEF Crash
  <2>. QED BY <1>2, <2>1 DEF AnswersOK
<1>7. CreatedOK'
  <2>1. /\ children \in [Nodes -> SUBSET Jobs] /\ inc \in [Nodes -> 0..crashes]
        /\ children' = [children EXCEPT ![n] = {}] /\ inc' = [inc EXCEPT ![n] = @ + 1]
    BY DEF IInv, ClusterOK, DataOK, Crash
  <2>2. ASSUME NEW p \in Nodes, NEW j \in children'[p] PROVE RefOf(p, j)' \in created
    BY <2>1, <2>2 DEF CreatedOK, RefOf
  <2>3. ASSUME NEW t \in created
        PROVE  t.inc <= inc'[t.node] /\ (t.inc = inc'[t.node] => t.job \in children'[t.node])
    <3>1. t.node \in Nodes /\ t.inc \in Nat /\ t.inc <= inc[t.node] /\ inc[t.node] \in Nat
      BY <2>1 DEF IInv, DataOK, Ref, CreatedOK
    <3>2. CASE t.node = n BY <2>1, <3>1, <3>2
    <3>3. CASE t.node # n BY <2>1, <3>1, <3>3 DEF CreatedOK
    <3>. QED BY <3>2, <3>3
  <2>. QED BY <1>1, <2>2, <2>3 DEF CreatedOK
<1>8. HeldOK'
  <2>1. ASSUME NEW p \in Nodes, p # n PROVE HeldAt(p)'
    <3>1. /\ behavior \in [Nodes -> {"Ready", "WaitingForTracker"}]
          /\ requested \in [Nodes -> Requests \cup {NoRequest}]
          /\ stash \in [Nodes -> Seq(Requests)]
          /\ unstashed \in [Nodes -> Seq(Requests)]
      BY DEF IInv, SearchOK
    <3>2. /\ behavior'[p] = behavior[p] /\ requested'[p] = requested[p]
          /\ stash'[p] = stash[p] /\ unstashed'[p] = unstashed[p]
      BY <2>1, <3>1 DEF Crash
    <3>3. OpenAt(p)' = OpenAt(p)
      BY <1>1, <2>1 DEF OpenAt, Crash
    <3>4. Serving(p)' = Serving(p)
      BY <3>2 DEF Serving
    <3>. QED BY <3>2, <3>3, <3>4, HeldElsewhere
  <2>2. HeldAt(n)'
    <3>1. behavior'[n] = "Ready" /\ stash'[n] = <<>> /\ unstashed'[n] = <<>>
      BY DEF Crash, IInv, SearchOK
    <3>2. Serving(n)' = {} BY <3>1 DEF Serving
    <3>3. OpenAt(n)' = {} BY <1>1 DEF OpenAt, Crash
    <3>4. Range(stash'[n]) = {} /\ Range(unstashed'[n]) = {}
          /\ Distinct(stash'[n]) /\ Distinct(unstashed'[n])
      BY <3>1 DEF Range, Distinct
    <3>. QED BY <3>1, <3>2, <3>3, <3>4 DEF HeldAt
  <2>. QED BY <2>1, <2>2 DEF HeldOK
<1>. QED BY <1>3, <1>4, <1>5, <1>6, <1>7, <1>8

LEMMA MembershipKeeps ==
  ASSUME DInv, NEW m \in Nodes, NEW n \in Nodes,
         MemberRemoved(n, m) \/ MemberUp(n, m) \/ Rejoin(n)
  PROVE  RefsOK' /\ HeldOK'
<1>. USE DEF DInv, RefsOK
<1>1. UNCHANGED <<inc, crashes, searchVars, trackers, children, created, asks, net, answer>>
  BY DEF MemberRemoved, MemberUp, Rejoin
<1>2. NetOK' BY <1>1 DEF NetOK
<1>. QED BY <1>1, <1>2, RefsUnchanged, HeldUnchanged

-----------------------------------------------------------------------------
\* The invariant holds.

LEMMA InitDInv == Init => DInv
<1>. SUFFICES ASSUME Init PROVE DInv OBVIOUS
<1>1. IInv BY InitIInv
<1>2. 1..Len(<<>>) = {} OBVIOUS
<1>3. RefsOK
  BY <1>2 DEF Init, RefsOK, NetOK, GenuineIn, CacheOK, AsksOK, AnswersOK, CreatedOK
<1>4. ASSUME NEW n \in Nodes PROVE HeldAt(n)
  <2>1. behavior[n] = "Ready" /\ stash[n] = <<>> /\ unstashed[n] = <<>>
    BY DEF Init
  <2>2. Serving(n) = {} BY <2>1 DEF Serving
  <2>3. OpenAt(n) = {} BY DEF Init, OpenAt
  <2>4. /\ Range(stash[n]) = {} /\ Range(unstashed[n]) = {}
        /\ Distinct(stash[n]) /\ Distinct(unstashed[n])
    BY <2>1 DEF Range, Distinct
  <2>. QED BY <2>1, <2>2, <2>3, <2>4 DEF HeldAt
<1>. QED BY <1>1, <1>3, <1>4 DEF DInv, HeldOK

LEMMA NextDInv == DInv /\ [Next]_vars => DInv'
<1>. SUFFICES ASSUME DInv, [Next]_vars PROVE DInv' OBVIOUS
<1>1. IInv' BY NextIInv DEF DInv
<1>2. RefsOK' /\ HeldOK'
  <2>1. CASE UNCHANGED vars
    <3>1. NetOK' BY <2>1 DEF vars, NetOK, DInv, RefsOK
    <3>. QED BY <2>1, <3>1, RefsUnchanged, HeldUnchanged DEF vars, DInv, RefsOK
  <2>2. CASE \E r \in Requests : Request(r) BY <2>2, RequestKeeps
  <2>3. ASSUME NEW n \in Nodes,
               \/ ProcessUnstashed(n)
               \/ \E i \in DOMAIN asks[n] : IdentifyDone(n, i)
               \/ ReceiveTimeout(n)
               \/ Crash(n)
               \/ Rejoin(n)
        PROVE  RefsOK' /\ HeldOK'
    BY <2>3, ProcessUnstashedKeeps, IdentifyDoneKeeps, ReceiveTimeoutKeeps, CrashKeeps,
       MembershipKeeps
  <2>4. ASSUME NEW m \in Nodes, NEW n \in Nodes,
               Deliver(m, n) \/ Lose(m, n) \/ MemberRemoved(n, m) \/ MemberUp(n, m)
        PROVE  RefsOK' /\ HeldOK'
    BY <2>4, OnGetDownloadTrackerKeeps, OnTrackerNotFoundKeeps, OnTrackerKeeps,
       OnTrackerDeadKeeps, LoseKeeps, MembershipKeeps DEF Deliver
  <2>. QED BY <2>1, <2>2, <2>3, <2>4 DEF Next
<1>. QED BY <1>1, <1>2 DEF DInv

LEMMA InvariantHolds == Spec => []DInv
BY InitDInv, NextDInv, PTL DEF Spec

-----------------------------------------------------------------------------
\* The safety theorems.

\* No mix-up of concurrent searches: whatever a master answers to a request or
\* keeps in Trackers under a job is a tracker that was created for that job,
\* whichever replies overtake each other, are lost or come from nodes that
\* crashed since (DownloadsMaster.cs:64, :135-145).
THEOREM NoMixUp == Spec => []TrackersMatchJobs
<1>1. DInv => TrackersMatchJobs
  <2>1. SUFFICES ASSUME DInv PROVE TrackersMatchJobs OBVIOUS
  <2>2. ASSUME NEW r \in Requests, answer[r] \in Ref
        PROVE  answer[r] \in created /\ answer[r].job = r.job
    <3>1. answer[r] \notin {NoRef, NotAsked, Open, Lost} BY <2>2 DEF Ref
    <3>. QED BY <2>1, <3>1 DEF DInv, RefsOK, AnswersOK, Names
  <2>3. ASSUME NEW n \in Nodes, NEW job \in Jobs, trackers[n][job] \in Ref
        PROVE  trackers[n][job] \in created /\ trackers[n][job].job = job
    <3>1. trackers[n][job] \notin {NoRef, Absent} BY <2>3 DEF Ref
    <3>. QED BY <2>1, <3>1 DEF DInv, RefsOK, CacheOK, Names
  <2>. QED BY <2>2, <2>3 DEF TrackersMatchJobs
<1>. QED BY <1>1, InvariantHolds, PTL

\* What a master still has to answer, read as one sequence, holds each of its
\* requests once.
LEMMA PendingHolds ==
  ASSUME IInv, NEW n \in Nodes, HeldAt(n)
  PROVE  Range(Pending(n)) = OpenAt(n) /\ Distinct(Pending(n))
<1>. DEFINE w == IF behavior[n] = "WaitingForTracker" THEN <<requested[n]>> ELSE <<>>
<1>1. /\ unstashed[n] \in Seq(Requests) /\ stash[n] \in Seq(Requests)
      /\ behavior[n] = "WaitingForTracker" => requested[n] \in Requests
  BY DEF IInv, SearchOK
<1>2. w \in Seq(Requests) /\ Range(w) = Serving(n) /\ Distinct(w)
  <2>1. CASE behavior[n] = "WaitingForTracker"
    <3>1. w = <<requested[n]>> /\ Serving(n) = {requested[n]} BY <2>1 DEF Serving
    <3>2. DOMAIN <<requested[n]>> = {1} /\ <<requested[n]>>[1] = requested[n] OBVIOUS
    <3>. QED BY <1>1, <2>1, <3>1, <3>2 DEF Range, Distinct
  <2>2. CASE behavior[n] # "WaitingForTracker"
    <3>1. w = <<>> /\ Serving(n) = {} BY <2>2 DEF Serving
    <3>. QED BY <3>1 DEF Range, Distinct
  <2>. QED BY <2>1, <2>2
<1>3. Pending(n) = w \o unstashed[n] \o stash[n]
  BY DEF Pending
<1>. HIDE DEF w
<1>4. /\ w \o unstashed[n] \in Seq(Requests)
      /\ Range(w \o unstashed[n]) = Serving(n) \cup Range(unstashed[n])
      /\ Distinct(w \o unstashed[n])
  <2>1. Range(w) \cap Range(unstashed[n]) = {} /\ Distinct(unstashed[n])
    BY <1>2 DEF HeldAt
  <2>. QED BY <1>1, <1>2, <2>1, ConcatHolds
<1>5. /\ Range(w \o unstashed[n] \o stash[n]) = Range(w \o unstashed[n]) \cup Range(stash[n])
      /\ Distinct(w \o unstashed[n] \o stash[n])
  <2>1. Range(w \o unstashed[n]) \cap Range(stash[n]) = {} /\ Distinct(stash[n])
    BY <1>4 DEF HeldAt
  <2>. DEFINE x == w \o unstashed[n]
              y == stash[n]
  <2>2. x \in Seq(Requests) /\ y \in Seq(Requests) BY <1>1, <1>4
  <2>3. Range(x) \cap Range(y) = {} /\ Distinct(x) /\ Distinct(y) BY <1>4, <2>1
  <2>. HIDE DEF x, y
  <2>4. Range(x \o y) = Range(x) \cup Range(y) /\ Distinct(x \o y) BY <2>2, <2>3, ConcatHolds
  <2>. QED BY <2>4 DEF x, y
<1>. QED BY <1>3, <1>4, <1>5 DEF HeldAt

\* No request is lost or served twice: whenever requests are stashed, returned
\* to the mailbox, or dropped by a restart or a crash, the open requests of a
\* node are the ones its master still holds, each once, and nothing stays in
\* the stash of a master that is not searching (DownloadsMaster.cs:84-87, :142).
THEOREM NoRequestForgotten == Spec => []OpenRequestsAreHeld
<1>1. DInv => OpenRequestsAreHeld
  <2>1. SUFFICES ASSUME DInv, NEW n \in Nodes
        PROVE  /\ {Pending(n)[i] : i \in DOMAIN Pending(n)}
                    = {r \in Requests : r.node = n /\ answer[r] = Open}
               /\ \A i, j \in DOMAIN Pending(n) : Pending(n)[i] = Pending(n)[j] => i = j
               /\ behavior[n] = "Ready" => stash[n] = <<>>
    BY DEF OpenRequestsAreHeld
  <2>2. HeldAt(n) BY <2>1 DEF DInv, HeldOK
  <2>3. Range(Pending(n)) = OpenAt(n) /\ Distinct(Pending(n))
    BY <2>1, <2>2, PendingHolds DEF DInv
  <2>. QED BY <2>2, <2>3 DEF HeldAt, OpenAt, Range, Distinct
<1>. QED BY <1>1, InvariantHolds, PTL

-----------------------------------------------------------------------------
\* The refinement of TrackerDirectory, step by step.

DirectoryStep == [Directory!Next]_(Directory!vars)

LEMMA Stutters ==
  UNCHANGED <<answer, created, crashes>> => DirectoryStep
BY DEF DirectoryStep, Directory!vars

LEMMA RequestImplements ==
  ASSUME NEW r \in Requests, Request(r) PROVE DirectoryStep
<1>1. Directory!Request(r)
  BY DEF Request, Directory!Request
<1>. QED BY <1>1 DEF DirectoryStep, Directory!Next

\* Giving up open requests, because of a restart or a crash.
LEMMA GivesUp ==
  ASSUME NEW rs \in SUBSET Requests, \A r \in rs : answer[r] = Open,
         answer' = [r \in Requests |-> IF r \in rs THEN Lost ELSE answer[r]],
         created' = created, crashes \in Nat, crashes' \in {crashes, crashes + 1}
  PROVE  DirectoryStep
<1>1. (crashes' > 0) \in {crashes > 0, TRUE}
  <2>1. CASE crashes' = crashes BY <2>1
  <2>2. CASE crashes' = crashes + 1
    <3>1. crashes' > 0 BY <2>2
    <3>2. (crashes' > 0) = TRUE BY <3>1
    <3>. QED BY <3>2
  <2>. QED BY <2>1, <2>2
<1>2. Directory!GiveUp(rs)
  BY <1>1 DEF Directory!GiveUp
<1>. QED BY <1>2 DEF DirectoryStep, Directory!Next

LEMMA RestartImplements ==
  ASSUME DInv, NEW n \in Nodes, RestartActor(n), UNCHANGED <<created, crashes>>
  PROVE  DirectoryStep
<1>1. CASE behavior[n] = "WaitingForTracker"
  <2>1. requested[n] \in OpenAt(n)
    BY <1>1 DEF DInv, HeldOK, HeldAt, Serving
  <2>2. requested[n] \in Requests /\ answer[requested[n]] = Open
    BY <2>1 DEF OpenAt
  <2>3. /\ answer \in [Requests -> Ref \cup {NoRef, NotAsked, Open, Lost}]
        /\ crashes \in Nat
    BY DEF DInv, IInv, DataOK, ClusterOK
  <2>4. answer' = [answer EXCEPT ![requested[n]] = Lost]
    BY <1>1 DEF RestartActor
  <2>5. answer' = [r \in Requests |-> IF r \in {requested[n]} THEN Lost ELSE answer[r]]
    BY <2>3, <2>4
  <2>6. {requested[n]} \in SUBSET Requests /\ \A r \in {requested[n]} : answer[r] = Open
    BY <2>2
  <2>7. created' = created /\ crashes' \in {crashes, crashes + 1}
    OBVIOUS
  <2>. QED BY <2>3, <2>5, <2>6, <2>7, GivesUp
<1>2. CASE behavior[n] # "WaitingForTracker"
  BY <1>2, Stutters DEF RestartActor
<1>. QED BY <1>1, <1>2

LEMMA CrashImplements ==
  ASSUME DInv, NEW n \in Nodes, Crash(n) PROVE DirectoryStep
<1>1. answer' = [r \in Requests |-> IF r \in OpenAt(n) THEN Lost ELSE answer[r]]
  BY DEF Crash, OpenAt
<1>2. OpenAt(n) \subseteq Requests /\ \A r \in OpenAt(n) : answer[r] = Open
  BY DEF OpenAt
<1>3. created' = created /\ crashes' = crashes + 1 /\ crashes \in Nat
  BY DEF Crash, DInv, IInv, ClusterOK
<1>. QED BY <1>1, <1>2, <1>3, GivesUp

LEMMA OnTrackerImplements ==
  ASSUME DInv, NEW m \in Nodes, NEW n \in Nodes, OnTracker(m, n) PROVE DirectoryStep
<1>. DEFINE msg == Head(net[<<m, n>>])
<1>1. /\ net[<<m, n>>] # <<>>
      /\ msg.type \in {"TrackerFound", "CreatedTracker"}
      /\ UNCHANGED <<crashes, created>>
      /\ IF behavior[n] = "WaitingForTracker"
         THEN BecomeReadyIfFound(n, msg.job, msg.ref)
         ELSE UNCHANGED <<searchVars, answer>>
  BY DEF OnTracker, Receives
<1>2. Names(created, crashes, msg.job, msg.ref)
  BY <1>1, TakenGenuine DEF Genuine, DInv, RefsOK
<1>3. created \subseteq Ref BY DEF DInv, IInv, DataOK
<1>. HIDE DEF msg
<1>4. CASE behavior[n] = "WaitingForTracker" /\ requested[n].job = msg.job
  <2>1. BecomeReady(n, msg.ref) /\ requested' = requested
    BY <1>1, <1>4 DEF BecomeReadyIfFound
  <2>2. msg.ref \in Ref \cup {NoRef} BY <1>2, <1>3 DEF Names
  <2>3. /\ requested[n] \in Requests
        /\ answer[requested[n]] = Open
        /\ answer' = [answer EXCEPT ![requested[n]] = msg.ref]
    BY <1>4, <2>1, <2>2, BecomeReadyDirectory DEF DInv
  <2>4. Directory!Find(requested[n], msg.ref)
    BY <1>1, <1>2, <1>4, <2>3 DEF Directory!Find, Names
  <2>. QED BY <2>2, <2>3, <2>4 DEF DirectoryStep, Directory!Next
<1>5. CASE ~(behavior[n] = "WaitingForTracker" /\ requested[n].job = msg.job)
  BY <1>1, <1>5, Stutters DEF BecomeReadyIfFound
<1>. QED BY <1>4, <1>5

LEMMA OnTrackerNotFoundImplements ==
  ASSUME DInv, NEW m \in Nodes, NEW n \in Nodes, OnTrackerNotFound(m, n) PROVE DirectoryStep
<1>. DEFINE job == Head(net[<<m, n>>]).job
            t   == RefOf(n, job)
<1>1. net[<<m, n>>] # <<>> /\ crashes' = crashes
  BY DEF OnTrackerNotFound, Receives
<1>2. job \in Jobs
  BY <1>1, TakenType DEF Message, DInv
<1>. HIDE DEF job
<1>3. /\ t \in Ref /\ t.job = job /\ t.node = n /\ t.inc = inc[n]
  BY <1>2, MessageTypes DEF RefOf, DInv
<1>4. CASE /\ behavior[n] = "WaitingForTracker" /\ requested[n].job = job
           /\ job \notin children[n]
           /\ created' = created \cup {t}
           /\ BecomeReady(n, t)
           /\ requested' = requested
  <2>1. t \notin created
    BY <1>3, <1>4 DEF DInv, RefsOK, CreatedOK
  <2>. HIDE DEF t
  <2>2. /\ requested[n] \in Requests
        /\ answer[requested[n]] = Open
        /\ answer' = [answer EXCEPT ![requested[n]] = t]
    BY <1>3, <1>4, BecomeReadyDirectory DEF DInv
  <2>3. Directory!Create(requested[n], t)
    BY <1>1, <1>3, <1>4, <2>1, <2>2 DEF Directory!Create
  <2>. QED BY <1>3, <2>2, <2>3 DEF DirectoryStep, Directory!Next
<1>5. CASE RestartActor(n) /\ created' = created
  BY <1>1, <1>5, RestartImplements
<1>6. CASE UNCHANGED <<answer, created>>
  BY <1>1, <1>6, Stutters
<1>. QED BY <1>4, <1>5, <1>6 DEF OnTrackerNotFound, job

LEMMA NextImplements == DInv /\ [Next]_vars => DirectoryStep
<1>. SUFFICES ASSUME DInv, [Next]_vars PROVE DirectoryStep OBVIOUS
<1>1. CASE UNCHANGED vars
  BY <1>1, Stutters DEF vars
<1>2. CASE \E r \in Requests : Request(r)
  BY <1>2, RequestImplements
<1>3. ASSUME NEW n \in Nodes,
             \/ ProcessUnstashed(n)
             \/ \E i \in DOMAIN asks[n] : IdentifyDone(n, i)
             \/ ReceiveTimeout(n)
             \/ Crash(n)
             \/ Rejoin(n)
      PROVE  DirectoryStep
  <2>1. CASE Crash(n) BY <2>1, CrashImplements
  <2>2. CASE ~Crash(n)
    <3>1. UNCHANGED <<answer, created, crashes>>
      BY <1>3, <2>2 DEF ProcessUnstashed, IdentifyDone, ReceiveTimeout, Rejoin
    <3>. QED BY <3>1, Stutters
  <2>. QED BY <2>1, <2>2
<1>4. ASSUME NEW m \in Nodes, NEW n \in Nodes, Deliver(m, n) PROVE DirectoryStep
  <2>1. CASE OnGetDownloadTracker(m, n)
    <3>1. UNCHANGED <<created, crashes>> /\ (RestartActor(n) \/ answer' = answer)
      BY <2>1 DEF OnGetDownloadTracker
    <3>. QED BY <3>1, RestartImplements, Stutters
  <2>2. CASE OnTrackerNotFound(m, n) BY <2>2, OnTrackerNotFoundImplements
  <2>3. CASE OnTracker(m, n) BY <2>3, OnTrackerImplements
  <2>4. CASE OnTrackerDead(m, n) BY <2>4, Stutters DEF OnTrackerDead
  <2>. QED BY <1>4, <2>1, <2>2, <2>3, <2>4 DEF Deliver
<1>5. ASSUME NEW m \in Nodes, NEW n \in Nodes,
             Lose(m, n) \/ MemberRemoved(n, m) \/ MemberUp(n, m)
      PROVE  DirectoryStep
  BY <1>5, Stutters DEF Lose, MemberRemoved, MemberUp
<1>. QED BY <1>1, <1>2, <1>3, <1>4, <1>5 DEF Next

\* The DownloadsMasters together implement the directory of trackers: every
\* request is answered at most once, with a tracker of its job, with a null
\* reference only after a crash, or is given up with its master; a tracker is
\* created only to answer an open request, and never twice.
THEOREM DirectoryImplemented == Spec => ImplementsDirectory
<1>1. Init => Directory!Init
  BY DEF Init, Directory!Init
<1>2. DInv /\ [Next]_vars => [Directory!Next]_(Directory!vars)
  BY NextImplements DEF DirectoryStep
<1>. QED BY <1>1, <1>2, InvariantHolds, PTL DEF Spec, ImplementsDirectory, Directory!Spec

=============================================================================
