------------------------------ MODULE ApiMaster -----------------------------
(***************************************************************************)
(* The start of crawl jobs in the tracker role.  Every tracker node runs   *)
(* one ApiMaster (/user/api); the web front end routes a StartJob to one   *)
(* of them, by a hash of its job.  The ApiMaster asks all ApiMasters       *)
(* whether the job runs already.  One that does have it among its children *)
(* broadcasts JobFound, the others broadcast JobNotFound; the searcher     *)
(* counts the latter and creates the job's CrawlMaster when the count      *)
(* reaches zero, or subscribes its client to the job that was found.       *)
(*                                                                         *)
(* Akka.NET facts used here: what is sent to a routee of the same node is  *)
(* in its mailbox at once, what is sent to another node stays in order and *)
(* is delivered at most once; creating a child under a name that is in use *)
(* throws; the actor is then restarted, its children survive (PreRestart)  *)
(* and its stash is returned to the mailbox; UnstashAll puts the stash in  *)
(* front of the mailbox; a message without a handler has no effect.        *)
(* The request for a tracker that goes with a search is answered to an     *)
(* actor with no handler for the answer: see DownloadsMaster for it.       *)
(***************************************************************************)
EXTENDS Integers, Sequences, FiniteSets, SequencesExt

CONSTANTS
  Nodes,      \* the cluster members with role "tracker"
  Jobs,       \* crawl jobs, identified by their root document
  Starts,     \* StartJob commands, numbered in the order in which they are sent
  JobChoices, \* which job each of them may be for, as functions on Starts
  Homes,      \* Homes[s]: the nodes the front end may route command s to
  MaxTrouble, \* bound: crashes, lost messages, answers that take too long and
              \* CrawlMasters that come to their end, together
  NoStart,    \* JobToStart before the first start, and of other messages
  NoJob,      \* the job of a message that has none
  NoRef       \* the null actor reference

ASSUME ApiMasterAssumption ==
  /\ IsFiniteSet(Nodes)
  /\ Starts \subseteq Nat
  /\ JobChoices \subseteq [Starts -> Jobs]
  /\ Homes \in [Starts -> SUBSET Nodes]
  /\ NoStart \notin Starts
  /\ NoJob \notin Jobs
  /\ MaxTrouble \in Nat

VARIABLES
  jobOf,      \* the job of each command; one of JobChoices, it does not change
  up,         \* up[n]: node n is running
  routees,    \* routees[n]: members the broadcast group router of n knows
  behavior,   \* "Ready" or "SearchingForJob"
  acks,       \* OutstandingAcknowledgements
  jobToStart, \* JobToStart
  stash,      \* start commands put aside
  mailbox,    \* messages to be handled, in order
  net,        \* net[<<m, n>>]: messages on their way from node m to node n
  masters,    \* masters[<<n, job>>]: the number of the CrawlMaster, 0: no child
  created,    \* how many CrawlMasters a job had so far
  outcome,    \* what became of each start command
  muddled,    \* history: jobs with a search that other answers got into, see below
  trouble     \* what MaxTrouble bounds, so far

actorVars   == <<behavior, acks, jobToStart, stash>>
jobVars     == <<masters, created>>
clusterVars == <<jobOf, up, routees>>
vars == <<actorVars, mailbox, net, jobVars, clusterVars, outcome, muddled, trouble>>

Links == Nodes \X Nodes
Ref   == [node : Nodes, nr : Nat \ {0}]
Message ==
  [type : {"StartJob", "FindRunningJob", "JobFound", "JobNotFound", "ReceiveTimeout"},
   job : Jobs \cup {NoJob}, start : Starts \cup {NoStart}, ref : Ref \cup {NoRef}]

Msg(type, job)      == [type |-> type, job |-> job, start |-> NoStart, ref |-> NoRef]
StartJob(s)         == [Msg("StartJob", jobOf[s]) EXCEPT !.start = s]
FindRunningJob(job) == Msg("FindRunningJob", job)
JobNotFound(job)    == Msg("JobNotFound", job)
JobFound(job, r)    == [Msg("JobFound", job) EXCEPT !.ref = r]

RunsOn(n, job) == up[n] /\ masters[<<n, job>>] # 0
Alive(job, r)  == up[r.node] /\ masters[<<r.node, job>>] = r.nr

-----------------------------------------------------------------------------
\* Messages.

\* ApiBroadcaster.Tell, in the handler that took the first message of n; rest is
\* what is left of its mailbox.
Broadcast(n, rest, msg) ==
  /\ mailbox' = [mailbox EXCEPT ![n] = IF n \in routees[n] THEN Append(rest, msg) ELSE rest]
  /\ net' = [e \in Links |-> IF e[1] = n /\ e[2] # n /\ e[2] \in routees[n] /\ up[e[2]]
                             THEN Append(net[e], msg) ELSE net[e]]

\* The handler that took the first message of n sends nothing.
SendsNothing(n, rest) ==
  /\ mailbox' = [mailbox EXCEPT ![n] = rest]
  /\ UNCHANGED net

\* Everything on its way to or waiting at a node.
UnderWay == (UNION {ToSet(net[e]) : e \in Links}) \cup (UNION {ToSet(mailbox[n]) : n \in Nodes})

\* Whether a search for job that starts at n now can count an answer to another
\* search for it.
OthersSearch(n, job) ==
  \/ \E msg \in UnderWay : msg.type \in {"FindRunningJob", "JobNotFound"} /\ msg.job = job
  \/ \E m \in Nodes \ {n} : /\ behavior[m] = "SearchingForJob"
                            /\ jobOf[jobToStart[m]] = job

-----------------------------------------------------------------------------
\* The handlers.  Each takes the first message msg of n and leaves rest.

\* Mutation: only one answer is waited for.
OneAck(n) == 1

\* ApiBroadcaster.Ask<Routees>(new GetRoutees()).Result.Members.Count()
ExpectedAcks(n) == Cardinality(routees[n])

\* JobToStart = start
Remember(n, s) == jobToStart' = [jobToStart EXCEPT ![n] = s]

\* Ready: StartJob
BeginSearch(n, msg, rest) ==
  /\ Remember(n, msg.start)
  /\ Broadcast(n, rest, FindRunningJob(msg.job))
  /\ behavior' = [behavior EXCEPT ![n] = "SearchingForJob"]
  /\ acks' = [acks EXCEPT ![n] = ExpectedAcks(n)]
  /\ muddled' = muddled \cup IF OthersSearch(n, msg.job) THEN {msg.job} ELSE {}
  /\ UNCHANGED <<stash, jobVars, outcome>>

\* SearchingForJob: StartJob
PutAside(n, msg, rest) ==
  /\ stash' = [stash EXCEPT ![n] = Append(@, msg)]
  /\ SendsNothing(n, rest)
  /\ UNCHANGED <<behavior, acks, jobToStart, jobVars, outcome, muddled>>

\* !Context.Child(job.Key.Root.ToActorName()).Equals(ActorRefs.Nobody)
HaveChild(n, job) == masters[<<n, job>>] # 0

\* HandleFindRunningJob
HandleFindRunningJob(n, msg, rest) ==
  /\ Broadcast(n, rest,
       IF HaveChild(n, msg.job)
       THEN JobFound(msg.job, [node |-> n, nr |-> masters[<<n, msg.job>>]])
       ELSE JobNotFound(msg.job))
  /\ UNCHANGED <<actorVars, jobVars, outcome, muddled>>

\* Mutation: what was put aside is thrown away.
ThrowAway(n, rest) == rest

\* Stash.UnstashAll
UnstashAll(n, rest) == stash[n] \o rest

\* The actor is Ready again and its stash returned.
BackToReady(n, rest) ==
  /\ behavior' = [behavior EXCEPT ![n] = "Ready"]
  /\ stash' = [stash EXCEPT ![n] = <<>>]
  /\ SendsNothing(n, UnstashAll(n, rest))

\* SearchingForJob: JobFound of the job that is searched for.  The subscription
\* reaches the CrawlMaster if it still runs; a client that is served stays so.
SubscribeToFound(n, msg, rest) ==
  /\ outcome' = [outcome EXCEPT ![jobToStart[n]] =
                   IF @ = "served" \/ Alive(msg.job, msg.ref) THEN "served" ELSE "undelivered"]
  /\ BackToReady(n, rest)
  /\ UNCHANGED <<acks, jobToStart, jobVars, muddled>>

\* SearchingForJob: JobNotFound of the job that is searched for, not the last.
CountDown(n, msg, rest) ==
  /\ acks[n] > 1
  /\ acks' = [acks EXCEPT ![n] = @ - 1]
  /\ SendsNothing(n, rest)
  /\ UNCHANGED <<behavior, jobToStart, stash, jobVars, outcome, muddled>>

\* The last one, or one more than that: the CrawlMaster is created and given
\* the command.
CreateCrawlMaster(n, msg, rest) ==
  /\ acks[n] <= 1
  /\ masters[<<n, msg.job>>] = 0
  /\ acks' = [acks EXCEPT ![n] = @ - 1]
  /\ created' = [created EXCEPT ![msg.job] = @ + 1]
  /\ masters' = [masters EXCEPT ![<<n, msg.job>>] = created'[msg.job]]
  /\ outcome' = [outcome EXCEPT ![jobToStart[n]] = "served"]
  /\ Broadcast(n, rest, JobFound(msg.job, [node |-> n, nr |-> created'[msg.job]]))
  /\ UNCHANGED <<behavior, jobToStart, stash, muddled>>

\* The name of the child is in use: ActorOf throws and the actor is restarted.
RestartOnDuplicateName(n, msg, rest) ==
  /\ acks[n] <= 1
  /\ masters[<<n, msg.job>>] # 0
  /\ acks' = [acks EXCEPT ![n] = 0]
  /\ jobToStart' = [jobToStart EXCEPT ![n] = NoStart]
  /\ BackToReady(n, rest)
  /\ UNCHANGED <<jobVars, outcome, muddled>>

\* Mutation: the timeout is not counted.
NoReply(n, rest) ==
  /\ SendsNothing(n, rest)
  /\ UNCHANGED <<actorVars, jobVars, outcome, muddled>>

\* SearchingForJob: ReceiveTimeout counts, at every ApiMaster, as a reply.
TreatAsNotFound(n, rest) ==
  /\ Broadcast(n, rest, JobNotFound(jobOf[jobToStart[n]]))
  /\ UNCHANGED <<actorVars, jobVars, outcome, muddled>>

Ignore(n, rest) ==
  /\ SendsNothing(n, rest)
  /\ UNCHANGED <<actorVars, jobVars, outcome, muddled>>

Ready(n, msg, rest) ==
  \/ msg.type = "StartJob" /\ BeginSearch(n, msg, rest)
  \/ msg.type = "FindRunningJob" /\ HandleFindRunningJob(n, msg, rest)
  \/ msg.type \notin {"StartJob", "FindRunningJob"} /\ Ignore(n, rest)

SearchingForJob(n, msg, rest) ==
  LET Ours == msg.job = jobOf[jobToStart[n]] IN
  \/ msg.type = "StartJob" /\ PutAside(n, msg, rest)
  \/ msg.type = "FindRunningJob" /\ HandleFindRunningJob(n, msg, rest)
  \/ msg.type = "JobFound" /\ Ours /\ SubscribeToFound(n, msg, rest)
  \/ msg.type = "ReceiveTimeout" /\ TreatAsNotFound(n, rest)
  \/ /\ msg.type = "JobNotFound" /\ Ours
     /\ \/ CountDown(n, msg, rest)
        \/ CreateCrawlMaster(n, msg, rest)
        \/ RestartOnDuplicateName(n, msg, rest)
  \/ msg.type \in {"JobFound", "JobNotFound"} /\ ~Ours /\ Ignore(n, rest)

\* The ApiMaster of n handles its next message.
Handle(n) ==
  /\ up[n] /\ mailbox[n] # <<>>
  /\ LET msg  == Head(mailbox[n])
         rest == Tail(mailbox[n])
     IN  \/ behavior[n] = "Ready" /\ Ready(n, msg, rest)
         \/ behavior[n] = "SearchingForJob" /\ SearchingForJob(n, msg, rest)
  /\ UNCHANGED <<clusterVars, trouble>>

-----------------------------------------------------------------------------
\* What happens around the actors.

\* The front end sends a start command.  Which node it reaches depends on the
\* members its router knows.
SendStart(s, n) ==
  /\ outcome[s] = "unsent"
  /\ \A t \in Starts : t < s => outcome[t] # "unsent"
  /\ n \in Homes[s] /\ up[n]
  /\ outcome' = [outcome EXCEPT ![s] = "open"]
  /\ mailbox' = [mailbox EXCEPT ![n] = Append(@, StartJob(s))]
  /\ UNCHANGED <<actorVars, net, jobVars, clusterVars, muddled, trouble>>

\* A message of another node arrives.
Deliver(m, n) ==
  /\ net[<<m, n>>] # <<>>
  /\ mailbox' = [mailbox EXCEPT ![n] = Append(@, Head(net[<<m, n>>]))]
  /\ net' = [net EXCEPT ![<<m, n>>] = Tail(@)]
  /\ UNCHANGED <<actorVars, jobVars, clusterVars, outcome, muddled, trouble>>

\* A message is lost on its way.
Lose(m, n) ==
  /\ net[<<m, n>>] # <<>>
  /\ trouble < MaxTrouble
  /\ trouble' = trouble + 1
  /\ net' = [net EXCEPT ![<<m, n>>] = Tail(@)]
  /\ muddled' = muddled \cup {Head(net[<<m, n>>]).job}
  /\ UNCHANGED <<actorVars, mailbox, jobVars, clusterVars, outcome>>

\* Three seconds without a message.  An answer that takes longer is counted twice.
FireTimeout(n) ==
  /\ up[n]
  /\ behavior[n] = "SearchingForJob"
  /\ mailbox[n] = <<>>
  /\ mailbox' = [mailbox EXCEPT ![n] = <<Msg("ReceiveTimeout", NoJob)>>]
  /\ \/ UnderWay = {} /\ UNCHANGED <<muddled, trouble>>
     \/ /\ UnderWay # {}
        /\ trouble < MaxTrouble
        /\ trouble' = trouble + 1
        /\ muddled' = muddled \cup {jobOf[jobToStart[n]]}
  /\ UNCHANGED <<actorVars, net, jobVars, clusterVars, outcome>>

\* A CrawlMaster comes to its end.
EndJob(n, job) ==
  /\ RunsOn(n, job)
  /\ trouble < MaxTrouble
  /\ trouble' = trouble + 1
  /\ masters' = [masters EXCEPT ![<<n, job>>] = 0]
  /\ UNCHANGED <<actorVars, mailbox, net, created, clusterVars, outcome, muddled>>

\* A node crashes, with everything on it and on its way to or from it; another
\* one stays.
Crash(n) ==
  /\ up[n]
  /\ trouble < MaxTrouble
  /\ \E m \in Nodes \ {n} : up[m]
  /\ trouble' = trouble + 1
  /\ up' = [up EXCEPT ![n] = FALSE]
  /\ mailbox' = [mailbox EXCEPT ![n] = <<>>]
  /\ net' = [e \in Links |-> IF n \in {e[1], e[2]} THEN <<>> ELSE net[e]]
  /\ behavior' = [behavior EXCEPT ![n] = "Ready"]
  /\ acks' = [acks EXCEPT ![n] = 0]
  /\ jobToStart' = [jobToStart EXCEPT ![n] = NoStart]
  /\ stash' = [stash EXCEPT ![n] = <<>>]
  /\ masters' = [e \in Nodes \X Jobs |-> IF e[1] = n THEN 0 ELSE masters[e]]
  /\ UNCHANGED <<created, jobOf, routees, outcome, muddled>>

\* The cluster tells node n that m is gone.
MemberRemoved(m, n) ==
  /\ up[n] /\ ~up[m] /\ m \in routees[n]
  /\ routees' = [routees EXCEPT ![n] = @ \ {m}]
  /\ UNCHANGED <<actorVars, mailbox, net, jobVars, jobOf, up, outcome, muddled, trouble>>

-----------------------------------------------------------------------------
\* A cluster whose members know each other, before the first command.
Init ==
  /\ jobOf \in JobChoices
  /\ up = [n \in Nodes |-> TRUE]
  /\ routees = [n \in Nodes |-> Nodes]
  /\ behavior = [n \in Nodes |-> "Ready"]
  /\ acks = [n \in Nodes |-> 0]
  /\ jobToStart = [n \in Nodes |-> NoStart]
  /\ stash = [n \in Nodes |-> <<>>]
  /\ mailbox = [n \in Nodes |-> <<>>]
  /\ net = [e \in Links |-> <<>>]
  /\ masters = [e \in Nodes \X Jobs |-> 0]
  /\ created = [job \in Jobs |-> 0]
  /\ outcome = [s \in Starts |-> "unsent"]
  /\ muddled = {}
  /\ trouble = 0

Next ==
  \/ \E n \in Nodes : \/ Handle(n)
                      \/ FireTimeout(n)
                      \/ Crash(n)
                      \/ \E s \in Starts : SendStart(s, n)
                      \/ \E job \in Jobs : EndJob(n, job)
  \/ \E m, n \in Nodes : Deliver(m, n) \/ Lose(m, n) \/ MemberRemoved(m, n)

Spec == Init /\ [][Next]_vars

\* What the actor system does by itself: an actor with messages is run, a message
\* that is not lost is delivered, a receive timeout that is set fires.
Run ==
  \/ \E n \in Nodes : Handle(n) \/ FireTimeout(n)
  \/ \E m, n \in Nodes : Deliver(m, n)

(* Fairness.  The actor system does not stop while it has something to do.     *)
FairSpec == Spec /\ WF_vars(Run)

-----------------------------------------------------------------------------
\* Every variable holds a value of its type, and a search has a command.
TypeOK ==
  /\ jobOf \in [Starts -> Jobs]
  /\ up \in [Nodes -> BOOLEAN]
  /\ routees \in [Nodes -> SUBSET Nodes]
  /\ behavior \in [Nodes -> {"Ready", "SearchingForJob"}]
  /\ acks \in [Nodes -> Int]
  /\ jobToStart \in [Nodes -> Starts \cup {NoStart}]
  /\ \A n \in Nodes : behavior[n] = "SearchingForJob" => jobToStart[n] \in Starts
  /\ stash \in [Nodes -> Seq(Message)]
  /\ mailbox \in [Nodes -> Seq(Message)]
  /\ net \in [Links -> Seq(Message)]
  /\ masters \in [Nodes \X Jobs -> Nat]
  /\ created \in [Jobs -> Nat]
  /\ outcome \in [Starts -> {"unsent", "open", "served", "undelivered"}]
  /\ muddled \subseteq Jobs
  /\ trouble \in 0..MaxTrouble

\* A job has at most one CrawlMaster in the cluster, whichever nodes are asked to
\* start it and whatever crashes and ends in between.  This is said of jobs whose
\* searches had no answers of another search, lost answers or late ones to count.
OneCrawlMasterPerJob ==
  /\ TypeOK
  /\ \A job \in Jobs \ muddled : Cardinality({n \in Nodes : RunsOn(n, job)}) <= 1

\* The command s is with the ApiMaster of n.
HeldBy(n, s) ==
  \/ StartJob(s) \in ToSet(mailbox[n]) \cup ToSet(stash[n])
  \/ behavior[n] = "SearchingForJob" /\ jobToStart[n] = s

\* A command that was neither given to a CrawlMaster nor turned into a
\* subscription is with exactly one ApiMaster, through stashing and restarts.
StartsAreKept ==
  (\A n \in Nodes : up[n]) =>
    \A s \in Starts :
      outcome[s] = "open" /\ jobOf[s] \notin muddled
        => Cardinality({n \in Nodes : HeldBy(n, s)}) = 1

\* Every command an ApiMaster has taken is served, or dropped by a crash or a
\* restart: no lost reply, lost peer or other search makes it wait for ever.
StartsAreAnswered ==
  \A s \in Starts :
    outcome[s] = "open" /\ (\E n \in Nodes : HeldBy(n, s)) ~> \A n \in Nodes : ~HeldBy(n, s)

=============================================================================
