-------------------------- MODULE DownloadsMaster --------------------------
(***************************************************************************)
(* The discovery of download trackers in the web crawler's tracker role.   *)
(* Every tracker node runs one DownloadsMaster (/user/downloads).  An      *)
(* ApiMaster or a CrawlMaster of the same node asks it for the             *)
(* DownloadsTracker of a crawl job; the master broadcasts a query to every *)
(* DownloadsMaster of the cluster, counts the negative replies (which are  *)
(* broadcast too, so that every master hears the replies to every search)  *)
(* and creates the tracker as its own child when the count reaches zero.   *)
(*                                                                         *)
(* Akka.NET facts used here: messages from one actor to another stay in    *)
(* order and are delivered at most once; an exception in a handler         *)
(* restarts the actor, the children survive (PreRestart) and the stash is  *)
(* returned to the mailbox; Identify sent to an actor that no longer       *)
(* exists on a live node is answered with a null Subject.                  *)
(***************************************************************************)
EXTENDS Integers, Sequences, FiniteSets

CONSTANTS
  Nodes,       \* the cluster members with role "tracker"
  Jobs,        \* crawl jobs, identified by their root document
  Requests,    \* requests for a tracker, each made at most once
  MaxCrashes,  \* bound: how many times a node crashes
  MaxLost,     \* bound: how many messages between live nodes are lost
  SlowPeers,   \* TRUE: a receive timeout may overtake messages on their way
  Overlap,     \* TRUE: requests are made while earlier ones are served
  Calm,        \* bound: the requests after which no node crashes, and that
               \* are made only if none has crashed
  NoRef,       \* the null actor reference
  NoRequest,   \* RequestedTracker before the first request
  Absent,      \* no entry for the job in Trackers
  NotAsked,    \* answer to a request: not made yet,
  Open,        \* made and not answered,
  Lost         \* or given up because its master restarted

ASSUME DownloadsMasterAssumption ==
  /\ IsFiniteSet(Nodes)
  /\ Requests \subseteq [id : Nat, job : Jobs, node : Nodes]
  /\ NoRequest \notin Requests
  /\ MaxCrashes \in Nat
  /\ MaxLost \in Nat
  /\ SlowPeers \in BOOLEAN
  /\ Overlap \in BOOLEAN
  /\ \A v \in {NoRef, Absent, NotAsked, Open, Lost} :
       v \notin [node : Nodes, inc : Nat, job : Jobs]
  /\ NoRef \notin {Absent, NotAsked, Open, Lost}
  /\ NotAsked # Open /\ NotAsked # Lost /\ Open # Lost

VARIABLES
  up,         \* up[n]: node n is running
  inc,        \* inc[n]: incarnation of n, part of its actors' identity
  routees,    \* routees[n]: members the broadcast group router of n knows
  behavior,   \* "Ready" or "WaitingForTracker"
  acks,       \* OutstandingAcknowledgments
  requested,  \* RequestedTracker
  stash,      \* requests put aside while waiting
  unstashed,  \* requests UnstashAll put back in front of the mailbox
  trackers,   \* Trackers, the cache of known trackers
  children,   \* jobs whose tracker is a child of this master
  asks,       \* Identify questions whose continuation has not run yet
  net,        \* net[<<m, n>>]: messages on their way from master m to master n
  answer,     \* what each request got
  created,    \* history: every tracker ever created
  crashes,    \* crashes so far
  lost        \* messages lost so far

clusterVars == <<up, inc, routees, crashes>>
searchVars  == <<behavior, acks, requested, stash, unstashed>>
vars == <<clusterVars, searchVars, trackers, children, created, asks, net, answer, lost>>

Links   == Nodes \X Nodes
Ref     == [node : Nodes, inc : 0..MaxCrashes, job : Jobs]
Message ==
  [type : {"GetDownloadTracker", "TrackerNotFound", "TrackerFound",
           "CreatedTracker", "TrackerDead"},
   job : Jobs, ref : Ref \cup {NoRef}]

\* A child of n that tracks job, and whether such an actor still runs.
RefOf(n, job) == [node |-> n, inc |-> inc[n], job |-> job]
Alive(r) == /\ up[r.node]
            /\ inc[r.node] = r.inc
            /\ r.job \in children[r.node]
LiveTrackers(job) == {RefOf(n, job) : n \in {m \in Nodes : up[m] /\ job \in children[m]}}

GetDownloadTracker(job) == [type |-> "GetDownloadTracker", job |-> job, ref |-> NoRef]
TrackerNotFound(job)    == [type |-> "TrackerNotFound", job |-> job, ref |-> NoRef]
TrackerDead(job)        == [type |-> "TrackerDead", job |-> job, ref |-> NoRef]
TrackerFound(job, r)    == [type |-> "TrackerFound", job |-> job, ref |-> r]
CreatedTracker(job, r)  == [type |-> "CreatedTracker", job |-> job, ref |-> r]

-----------------------------------------------------------------------------
\* Messages.

\* MasterBroadcast.Tell: the message goes to every routee; what is sent to a
\* node that is down is lost.
Broadcast(links, n, msg) ==
  [e \in Links |-> IF e[1] = n /\ e[2] \in routees[n] /\ up[e[2]]
                   THEN Append(links[e], msg)
                   ELSE links[e]]

\* n takes the next message m sent it; requests that were unstashed come first.
Receives(m, n, types) ==
  /\ up[n]
  /\ unstashed[n] = <<>>
  /\ net[<<m, n>>] # <<>>
  /\ Head(net[<<m, n>>]).type \in types

Taken(m, n) == [net EXCEPT ![<<m, n>>] = Tail(@)]

\* Nothing is on its way to or between live nodes that could still answer.
Quiet ==
  /\ \A e \in Links : net[e] = <<>>
  /\ \A n \in Nodes : \A i \in DOMAIN asks[n] : ~Alive(asks[n][i].ref)

\* Nothing is on its way at all, no master is searching, and the members that
\* are up know each other.
Settled ==
  /\ \A n \in Nodes : up[n] => routees[n] = {m \in Nodes : up[m]}
  /\ \A e \in Links : net[e] = <<>>
  /\ \A n \in Nodes : behavior[n] = "Ready" /\ unstashed[n] = <<>> /\ asks[n] = <<>>

-----------------------------------------------------------------------------
\* The behaviors.

\* Mutation: the first TrackerNotFound decides.
FirstReplyDecides(n) == 1

\* OutstandingAcknowledgments at the start: one for each routee.
ExpectedAcks(n) == Cardinality(routees[n])

\* BecomeWaitingForTracker
BecomeWaitingForTracker(n, r) ==
  /\ behavior'  = [behavior EXCEPT ![n] = "WaitingForTracker"]
  /\ requested' = [requested EXCEPT ![n] = r]
  /\ acks'      = [acks EXCEPT ![n] = ExpectedAcks(n)]
  /\ net'       = Broadcast(net, n, GetDownloadTracker(r.job))

\* A RequestDownloadTrackerFor message: searched for at once, or stashed.
HandleRequest(n, r) ==
  \/ /\ behavior[n] = "Ready"
     /\ BecomeWaitingForTracker(n, r)
     /\ UNCHANGED stash
  \/ /\ behavior[n] = "WaitingForTracker"
     /\ stash' = [stash EXCEPT ![n] = Append(@, r)]
     /\ UNCHANGED <<behavior, requested, acks, net>>

\* Mutation: the stash is cleared, not returned to the mailbox.
ClearStash(n) ==
  /\ stash' = [stash EXCEPT ![n] = <<>>]
  /\ UNCHANGED unstashed

\* Stash.UnstashAll
UnstashAll(n) ==
  /\ unstashed' = [unstashed EXCEPT ![n] = stash[n] \o @]
  /\ stash'     = [stash EXCEPT ![n] = <<>>]

\* Mutation: the answer is sent without Become(Ready).
AnswerAndKeepWaiting(n, r) ==
  /\ answer' = [answer EXCEPT ![requested[n]] = r]
  /\ UNCHANGED <<behavior, stash, unstashed>>

\* BecomeReadyIfFound, when the tracker is the requested one.
BecomeReady(n, r) ==
  /\ answer'   = [answer EXCEPT ![requested[n]] = r]
  /\ behavior' = [behavior EXCEPT ![n] = "Ready"]
  /\ UnstashAll(n)

\* Mutation: the tracker of another job is taken for the requested one.
AnswerWithAnyTracker(n, job, r) ==
  /\ BecomeReady(n, r)
  /\ UNCHANGED <<acks, requested>>

\* BecomeReadyIfFound
BecomeReadyIfFound(n, job, r) ==
  IF requested[n].job = job
  THEN /\ BecomeReady(n, r)
       /\ UNCHANGED <<acks, requested>>
  ELSE UNCHANGED <<searchVars, answer>>

\* The actor restarts: fields and behavior are lost with the request being
\* served, the children and the Identify continuations stay.
RestartActor(n) ==
  /\ answer'    = IF behavior[n] = "WaitingForTracker"
                  THEN [answer EXCEPT ![requested[n]] = Lost]
                  ELSE answer
  /\ behavior'  = [behavior EXCEPT ![n] = "Ready"]
  /\ acks'      = [acks EXCEPT ![n] = 0]
  /\ requested' = [requested EXCEPT ![n] = NoRequest]
  /\ trackers'  = [trackers EXCEPT ![n] = [job \in Jobs |-> Absent]]
  /\ UnstashAll(n)

-----------------------------------------------------------------------------
\* Handlers.

\* A local actor asks for the tracker of its job.
Request(r) ==
  /\ answer[r] = NotAsked
  /\ Overlap \/ Settled
  /\ r \in Calm => crashes = 0
  /\ up[r.node]
  /\ unstashed[r.node] = <<>>
  /\ HandleRequest(r.node, r)
  /\ answer' = [answer EXCEPT ![r] = Open]
  /\ UNCHANGED <<clusterVars, unstashed, trackers, children, created, asks, lost>>

\* A request that was stashed is handled again.
ProcessUnstashed(n) ==
  /\ up[n]
  /\ unstashed[n] # <<>>
  /\ HandleRequest(n, Head(unstashed[n]))
  /\ unstashed' = [unstashed EXCEPT ![n] = Tail(@)]
  /\ UNCHANGED <<clusterVars, trackers, children, created, asks, answer, lost>>

\* An entry of Trackers that can be asked whether it is alive.
Askable(known) == known \notin {Absent, NoRef}

\* HandleGetDownloadTracker, in both behaviors.  The tracker in the cache may
\* be null (see IdentifyDone): then Ask fails, inside the task or out of it.
OnGetDownloadTracker(m, n) ==
  /\ Receives(m, n, {"GetDownloadTracker"})
  /\ LET job   == Head(net[<<m, n>>]).job
         known == trackers[n][job]
     IN \/ /\ job \in children[n]
           /\ net' = Broadcast(Taken(m, n), n, TrackerFound(job, RefOf(n, job)))
           /\ UNCHANGED <<searchVars, trackers, asks, answer>>
        \/ /\ job \notin children[n]
           /\ known = Absent
           /\ net' = Broadcast(Taken(m, n), n, TrackerNotFound(job))
           /\ UNCHANGED <<searchVars, trackers, asks, answer>>
        \/ /\ job \notin children[n]
           /\ Askable(known)
           /\ net' = Taken(m, n)
           /\ asks' = [asks EXCEPT ![n] = Append(@, [job |-> job, ref |-> known])]
           /\ UNCHANGED <<searchVars, trackers, answer>>
        \/ /\ job \notin children[n]
           /\ known = NoRef
           /\ net' = Broadcast(Taken(m, n), n, TrackerDead(job))
           /\ UNCHANGED <<searchVars, trackers, asks, answer>>
        \/ /\ job \notin children[n]
           /\ known = NoRef
           /\ net' = Taken(m, n)
           /\ RestartActor(n)
           /\ UNCHANGED asks
  /\ UNCHANGED <<clusterVars, children, created, lost>>


\* Mutation: the count is compared before it is decremented.
ZeroBeforeDecrement(n) == acks[n] = 0

\* The decrement reaches zero.
LastAcknowledgment(n) == acks[n] - 1 = 0

\* TrackerNotFound: counted while waiting for this job, else ignored.
OnTrackerNotFound(m, n) ==
  /\ Receives(m, n, {"TrackerNotFound"})
  /\ LET job     == Head(net[<<m, n>>]).job
         counted == behavior[n] = "WaitingForTracker" /\ requested[n].job = job
     IN \/ /\ ~counted
           /\ net' = Taken(m, n)
           /\ UNCHANGED <<searchVars, trackers, children, created, answer>>
        \/ /\ counted
           /\ ~LastAcknowledgment(n)
           /\ acks' = [acks EXCEPT ![n] = @ - 1]
           /\ net' = Taken(m, n)
           /\ UNCHANGED <<behavior, requested, stash, unstashed, trackers, children, created, answer>>
        \/ /\ counted
           /\ LastAcknowledgment(n)
           /\ job \notin children[n]
           /\ acks' = [acks EXCEPT ![n] = @ - 1]
           /\ children' = [children EXCEPT ![n] = @ \cup {job}]
           /\ created' = created \cup {RefOf(n, job)}
           /\ BecomeReady(n, RefOf(n, job))
           /\ net' = Broadcast(Taken(m, n), n, CreatedTracker(job, RefOf(n, job)))
           /\ UNCHANGED <<requested, trackers>>
        \/ /\ counted
           /\ LastAcknowledgment(n)
           /\ job \in children[n]        \* InvalidActorNameException
           /\ net' = Taken(m, n)
           /\ RestartActor(n)
           /\ UNCHANGED <<children, created>>
  /\ UNCHANGED <<clusterVars, asks, lost>>

\* Mutation: a tracker somebody else asked for is not remembered.
RememberOwnOnly(n, job, r) ==
  IF behavior[n] = "WaitingForTracker"
  THEN trackers' = [trackers EXCEPT ![n][job] = r]
  ELSE UNCHANGED trackers

\* Trackers[job] = r
Remember(n, job, r) == trackers' = [trackers EXCEPT ![n][job] = r]

\* TrackerFound and CreatedTracker: remembered, and an answer if awaited.
OnTracker(m, n) ==
  /\ Receives(m, n, {"TrackerFound", "CreatedTracker"})
  /\ LET msg == Head(net[<<m, n>>])
     IN /\ Remember(n, msg.job, msg.ref)
        /\ IF behavior[n] = "WaitingForTracker"
           THEN BecomeReadyIfFound(n, msg.job, msg.ref)
           ELSE UNCHANGED <<searchVars, answer>>
  /\ net' = Taken(m, n)
  /\ UNCHANGED <<clusterVars, children, created, asks, lost>>

\* TrackerDead: forgotten.  It is no acknowledgment.
OnTrackerDead(m, n) ==
  /\ Receives(m, n, {"TrackerDead"})
  /\ trackers' = [trackers EXCEPT ![n][Head(net[<<m, n>>]).job] = Absent]
  /\ net' = Taken(m, n)
  /\ UNCHANGED <<clusterVars, searchVars, children, created, asks, answer, lost>>

\* The continuation of an Identify question runs.  A tracker of a live node is
\* identified, or with slow peers too late; one of an earlier incarnation of a
\* live node is answered with a null Subject; otherwise the question times out.
IdentifyDone(n, i) ==
  /\ up[n]
  /\ i \in DOMAIN asks[n]
  /\ LET ask == asks[n][i]
     IN \/ /\ Alive(ask.ref)
           /\ net' = Broadcast(net, n, TrackerFound(ask.job, ask.ref))
        \/ /\ up[ask.ref.node]
           /\ ~Alive(ask.ref)
           /\ net' = Broadcast(net, n, TrackerFound(ask.job, NoRef))
        \/ /\ ~up[ask.ref.node] \/ SlowPeers
           /\ net' = Broadcast(net, n, TrackerDead(ask.job))
  /\ asks' = [asks EXCEPT ![n] = SubSeq(@, 1, i - 1) \o SubSeq(@, i + 1, Len(@))]
  /\ UNCHANGED <<clusterVars, searchVars, trackers, children, created, answer, lost>>

\* Mutation: SetReceiveTimeout was not called.
NoReceiveTimeout(n) == FALSE

\* 1.5 s without a message: the master tells itself that nothing was found.
ReceiveTimeout(n) ==
  /\ up[n]
  /\ behavior[n] = "WaitingForTracker"
  /\ unstashed[n] = <<>>
  /\ net[<<n, n>>] = <<>>
  /\ SlowPeers \/ Quiet
  /\ net' = [net EXCEPT ![<<n, n>>] = Append(@, TrackerNotFound(requested[n].job))]
  /\ UNCHANGED <<clusterVars, searchVars, trackers, children, created, asks, answer, lost>>

-----------------------------------------------------------------------------
\* The cluster.

\* A message between two live nodes is lost with its connection.
Lose(m, n) ==
  /\ lost < MaxLost
  /\ m # n
  /\ net[<<m, n>>] # <<>>
  /\ net' = Taken(m, n)
  /\ lost' = lost + 1
  /\ UNCHANGED <<clusterVars, searchVars, trackers, children, created, asks, answer>>

\* A node goes down with all its actors and the messages they were to get.
Crash(n) ==
  /\ up[n]
  /\ crashes < MaxCrashes
  /\ \A r \in Requests \cap Calm : answer[r] = NotAsked
  /\ crashes'   = crashes + 1
  /\ up'        = [up EXCEPT ![n] = FALSE]
  /\ inc'       = [inc EXCEPT ![n] = @ + 1]
  /\ behavior'  = [behavior EXCEPT ![n] = "Ready"]
  /\ acks'      = [acks EXCEPT ![n] = 0]
  /\ requested' = [requested EXCEPT ![n] = NoRequest]
  /\ stash'     = [stash EXCEPT ![n] = <<>>]
  /\ unstashed' = [unstashed EXCEPT ![n] = <<>>]
  /\ trackers'  = [trackers EXCEPT ![n] = [job \in Jobs |-> Absent]]
  /\ children'  = [children EXCEPT ![n] = {}]
  /\ asks'      = [asks EXCEPT ![n] = <<>>]
  /\ net'       = [e \in Links |-> IF e[2] = n THEN <<>> ELSE net[e]]
  /\ answer'    = [r \in Requests |-> IF r.node = n /\ answer[r] = Open
                                      THEN Lost ELSE answer[r]]
  /\ UNCHANGED <<routees, created, lost>>

\* The cluster tells n that m is gone, or that it is up.
MemberRemoved(n, m) ==
  /\ up[n]
  /\ ~up[m]
  /\ m \in routees[n]
  /\ routees' = [routees EXCEPT ![n] = @ \ {m}]
  /\ UNCHANGED <<up, inc, crashes, searchVars, trackers, children, created, asks, net, answer, lost>>

MemberUp(n, m) ==
  /\ up[n]
  /\ up[m]
  /\ m \notin routees[n]
  /\ routees' = [routees EXCEPT ![n] = @ \cup {m}]
  /\ UNCHANGED <<up, inc, crashes, searchVars, trackers, children, created, asks, net, answer, lost>>

\* A node comes back at its address once every member has removed the old one.
Rejoin(n) ==
  /\ ~up[n]
  /\ \A m \in Nodes : up[m] => n \notin routees[m]
  /\ up' = [up EXCEPT ![n] = TRUE]
  /\ routees' = [routees EXCEPT ![n] = {m \in Nodes : up[m]} \cup {n}]
  /\ UNCHANGED <<inc, crashes, searchVars, trackers, children, created, asks, net, answer, lost>>

-----------------------------------------------------------------------------
Init ==
  /\ up        = [n \in Nodes |-> TRUE]
  /\ inc       = [n \in Nodes |-> 0]
  /\ routees   = [n \in Nodes |-> Nodes]
  /\ behavior  = [n \in Nodes |-> "Ready"]
  /\ acks      = [n \in Nodes |-> 0]
  /\ requested = [n \in Nodes |-> NoRequest]
  /\ stash     = [n \in Nodes |-> <<>>]
  /\ unstashed = [n \in Nodes |-> <<>>]
  /\ trackers  = [n \in Nodes |-> [job \in Jobs |-> Absent]]
  /\ children  = [n \in Nodes |-> {}]
  /\ asks      = [n \in Nodes |-> <<>>]
  /\ net       = [e \in Links |-> <<>>]
  /\ answer    = [r \in Requests |-> NotAsked]
  /\ created   = {}
  /\ crashes   = 0
  /\ lost      = 0

Deliver(m, n) ==
  \/ OnGetDownloadTracker(m, n)
  \/ OnTrackerNotFound(m, n)
  \/ OnTracker(m, n)
  \/ OnTrackerDead(m, n)

Next ==
  \/ \E r \in Requests : Request(r)
  \/ \E n \in Nodes :
       \/ ProcessUnstashed(n)
       \/ \E i \in DOMAIN asks[n] : IdentifyDone(n, i)
       \/ ReceiveTimeout(n)
       \/ Crash(n)
       \/ Rejoin(n)
  \/ \E m, n \in Nodes :
       \/ Deliver(m, n)
       \/ Lose(m, n)
       \/ MemberRemoved(n, m)
       \/ MemberUp(n, m)

\* The dispatchers run every mailbox, the scheduler fires every timer and
\* gossip reaches every member; nobody has to ask, crash or rejoin.
Fairness ==
  /\ \A m, n \in Nodes : WF_vars(Deliver(m, n))
  /\ \A n \in Nodes : /\ WF_vars(ProcessUnstashed(n))
                      /\ WF_vars(ReceiveTimeout(n))
                      /\ WF_vars(\E i \in DOMAIN asks[n] : IdentifyDone(n, i))
                      /\ \A m \in Nodes : WF_vars(MemberRemoved(n, m))

Spec == Init /\ [][Next]_vars
FairSpec == Spec /\ Fairness

-----------------------------------------------------------------------------
\* Properties.

\* The variables have the types of the code's fields.
TypeOK ==
  /\ up \in [Nodes -> BOOLEAN]
  /\ inc \in [Nodes -> 0..crashes]
  /\ routees \in [Nodes -> SUBSET Nodes]
  /\ behavior \in [Nodes -> {"Ready", "WaitingForTracker"}]
  /\ acks \in [Nodes -> Int]
  /\ requested \in [Nodes -> Requests \cup {NoRequest}]
  /\ stash \in [Nodes -> Seq(Requests)]
  /\ unstashed \in [Nodes -> Seq(Requests)]
  /\ trackers \in [Nodes -> [Jobs -> Ref \cup {NoRef, Absent}]]
  /\ children \in [Nodes -> SUBSET Jobs]
  /\ created \in SUBSET Ref
  /\ asks \in [Nodes -> Seq([job : Jobs, ref : Ref])]
  /\ net \in [Links -> Seq(Message)]
  /\ answer \in [Requests -> Ref \cup {NoRef, NotAsked, Open, Lost}]
  /\ crashes \in 0..MaxCrashes
  /\ lost \in Nat

\* A search waits for at least one and for at most one acknowledgment per
\* member: "OutstandingAcknowledgments == 0" is reached by counting down and
\* never jumped over, whatever replies to other searches are counted.
SearchCountsDown ==
  \A n \in Nodes :
    /\ up[n] => n \in routees[n]
    /\ behavior[n] = "WaitingForTracker" =>
         /\ up[n]
         /\ requested[n] \in Requests
         /\ acks[n] \in 1..Cardinality(Nodes)

\* The requests master n still has to answer, in the order it will.
Pending(n) ==
  (IF behavior[n] = "WaitingForTracker" THEN <<requested[n]>> ELSE <<>>)
    \o unstashed[n] \o stash[n]

\* Neither stash nor restart loses or duplicates a request: the open requests
\* of a node are the ones its master holds, each of them once, and none stays
\* in the stash when no search is on that would return it.
OpenRequestsAreHeld ==
  \A n \in Nodes :
    /\ {Pending(n)[i] : i \in DOMAIN Pending(n)} = {r \in Requests : r.node = n /\ answer[r] = Open}
    /\ \A i, j \in DOMAIN Pending(n) : Pending(n)[i] = Pending(n)[j] => i = j
    /\ behavior[n] = "Ready" => stash[n] = <<>>

\* No mix-up of concurrent searches: what a master answers, remembers or
\* verifies for a job is a tracker that was created for that job.
TrackersMatchJobs ==
  /\ \A r \in Requests : answer[r] \in Ref => answer[r] \in created /\ answer[r].job = r.job
  /\ \A n \in Nodes, job \in Jobs :
       trackers[n][job] \in Ref => trackers[n][job] \in created /\ trackers[n][job].job = job

\* The protocol implements the directory: a request is answered at most once,
\* and a null tracker is given out at most after a crash.
Directory == INSTANCE TrackerDirectory WITH
  Trackers <- Ref, crashed <- crashes > 0

ImplementsDirectory == Directory!Spec

\* A job has one tracker, whichever masters are asked for it one after the
\* other (when their searches do not overlap and no timeout overtakes a reply).
OneTrackerPerJob == \A job \in Jobs : Cardinality(LiveTrackers(job)) <= 1

\* As long as no node has crashed: when nothing is left to do, all caches name
\* the tracker that runs (those that lost the message may have no entry).
SettledCachesAgree ==
  Settled /\ crashes = 0 => \A n \in Nodes, t \in created :
               trackers[n][t.job] = t \/ (lost > 0 /\ trackers[n][t.job] = Absent)

\* Every request is answered, or given up with its master: the search ends
\* although replies are lost, peers crash and trackers turn out dead.
RequestsAreAnswered ==
  \A r \in Requests : answer[r] = Open ~> answer[r] # Open

\* DownloadsMaster.cs:100, "no one has a copy of this tracker, or it's dead":
\* a tracker is created only when no live node has one for the job.
CreatedOnlyWhenNobodyHasIt ==
  [][\A t \in created' \ created : LiveTrackers(t.job) = {}]_vars

=============================================================================
