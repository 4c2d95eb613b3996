----------------------------- MODULE CrawlMaster ----------------------------
(***************************************************************************)
(* The actor of one crawl job.  Its ApiMaster creates it and sends it the  *)
(* command that asked for the job.  It waits for a DownloadsTracker, then  *)
(* tries every 20 ms to start: it asks its pool of coordinators for the    *)
(* number of routees and, when the answer says that there are some, has    *)
(* the root document downloaded.  While the job runs it adds up reports    *)
(* and tells its subscribers; when a receive timeout finds it silent it    *)
(* tells them the end and sends itself a PoisonPill.                       *)
(*                                                                         *)
(* Akka.NET facts used here: the receive timeout is a message the          *)
(* scheduler puts in the mailbox; handling any message arms it again, and  *)
(* setting another one does not remove a message that is in the mailbox    *)
(* already; messages of a timer that was cancelled are discarded;          *)
(* UnstashAll puts the stash in front of the mailbox; a PoisonPill is      *)
(* never given to the behavior; stash and mailbox of a stopped actor are   *)
(* dead letters.  What the coordinators do is modelled in CrawlPipeline.   *)
(***************************************************************************)
EXTENDS Integers, Sequences, FiniteSets

CONSTANTS
  Clients,     \* the actors of the front end that ask for the job
  FirstClient, \* the one whose StartJob created this actor
  Commands,    \* what else is sent to the job, each at most once
  MaxCommands, \* bound: how many of the commands are sent
  MaxRoutees,  \* bound: size of the pool of coordinators
  MaxLeaves,   \* bound: how many coordinators are lost
  MaxAsks,     \* bound: GetRoutees questions under way
  MaxReports,  \* bound: how many reports the coordinators send
  NoClient     \* the client of a message that has none

ASSUME CrawlMasterAssumption ==
  /\ FirstClient \in Clients
  /\ NoClient \notin Clients
  /\ Commands \subseteq
       [type : {"StartJob", "SubscribeToJob", "UnsubscribeFromJob", "StopJob"}, client : Clients]
  /\ {MaxCommands, MaxRoutees, MaxLeaves, MaxAsks, MaxReports} \subseteq Nat

VARIABLES
  behavior,     \* "WaitingForTracker", "Ready", "Started", or "Stopped"
  mailbox,      \* messages to be handled, in order
  stash,        \* messages put aside
  subscribers,  \* Subscribers
  status,       \* RunningStatus.Status
  startTimer,   \* whether the timer StartJobKey runs
  wait,         \* the receive timeout that is set: "tracker" (5 s) or "silence" (120 s)
  trackerAsked, \* whether the DownloadsMaster has not answered yet
  asks,         \* GetRoutees questions without an answer
  routees,      \* coordinators in the pool
  leaves,       \* coordinators lost so far
  reports,      \* reports sent so far
  sent,         \* commands sent so far
  told,         \* history: the statuses each client was told
  rootRequests, \* history: how often the pool was told to download the root
  rootLost      \* history: whether it had no routee then

actorVars == <<behavior, mailbox, stash, subscribers, status, startTimer, wait>>
poolVars  == <<routees, leaves, reports>>
outside   == <<trackerAsked, sent>>
historyVars == <<told, rootRequests, rootLost>>
vars == <<actorVars, asks, poolVars, outside, historyVars>>

Message ==
  [type : {"StartJob", "SubscribeToJob", "UnsubscribeFromJob", "StopJob", "TrackerFound",
           "ReceiveTimeout", "AttemptToStartJob", "CrawlCanStart", "CrawlJobStats", "PoisonPill"},
   client : Clients \cup {NoClient}, count : 0..MaxRoutees, wait : {"none", "tracker", "silence"}]

Msg(type)          == [type |-> type, client |-> NoClient, count |-> 0, wait |-> "none"]
Command(cmd)       == [Msg(cmd.type) EXCEPT !.client = cmd.client]
CrawlCanStart(n)   == [Msg("CrawlCanStart") EXCEPT !.count = n]
Timeout(w)         == [Msg("ReceiveTimeout") EXCEPT !.wait = w]

-----------------------------------------------------------------------------
\* Steps of the handlers.  Each starts from Head(mailbox) and says what becomes
\* of the mailbox.

\* PublishJobStatus
PublishJobStatus(st) ==
  told' = [c \in Clients |-> told[c] \cup IF c \in subscribers THEN {st} ELSE {}]

\* Mutation: the actor is not stopped.
NoPoisonPill(msgs) == msgs

\* Self.Tell(PoisonPill.Instance)
Poisoned(msgs) == Append(msgs, Msg("PoisonPill"))

\* EndJob: whatever the final status is, it is reported as Finished.
EndJob ==
  /\ status' = "Finished"
  /\ PublishJobStatus("Finished")
  /\ mailbox' = Poisoned(Tail(mailbox))
  /\ UNCHANGED <<behavior, stash, subscribers, startTimer, wait, asks, rootRequests, rootLost>>

\* Mutation: the stash is thrown away.
Forget(msgs) == msgs

\* Stash.UnstashAll
UnstashAll(msgs) == stash \o msgs

\* Stash.Stash
PutAside ==
  /\ stash' = Append(stash, Head(mailbox))
  /\ mailbox' = Tail(mailbox)
  /\ UNCHANGED <<behavior, subscribers, status, startTimer, wait, asks, historyVars>>

\* Subscribers.Add and Subscribers.Remove
Subscribe ==
  /\ subscribers' = subscribers \cup {Head(mailbox).client}
  /\ mailbox' = Tail(mailbox)
  /\ UNCHANGED <<behavior, stash, status, startTimer, wait, asks, historyVars>>

Unsubscribe ==
  /\ subscribers' = subscribers \ {Head(mailbox).client}
  /\ mailbox' = Tail(mailbox)
  /\ UNCHANGED <<behavior, stash, status, startTimer, wait, asks, historyVars>>

\* A message without effect.
Ignore ==
  /\ mailbox' = Tail(mailbox)
  /\ UNCHANGED <<behavior, stash, subscribers, status, startTimer, wait, asks, historyVars>>

\* BecomeReady
BecomeReady ==
  /\ behavior' = "Ready"
  /\ mailbox' = UnstashAll(Tail(mailbox))
  /\ stash' = <<>>
  /\ wait' = "silence"
  /\ UNCHANGED <<subscribers, status, startTimer, asks, historyVars>>

-----------------------------------------------------------------------------
\* The behaviors.

WaitingForTracker(type) ==
  \/ type = "ReceiveTimeout" /\ EndJob
  \/ type = "SubscribeToJob" /\ Subscribe
  \/ type = "UnsubscribeFromJob" /\ Unsubscribe
  \/ type = "TrackerFound" /\ BecomeReady
  \/ /\ type \notin {"ReceiveTimeout", "SubscribeToJob", "UnsubscribeFromJob", "TrackerFound"}
     /\ PutAside

\* StartJob: subscribe, and try every 20 ms.
BeginToTry ==
  /\ subscribers' = subscribers \cup {Head(mailbox).client}
  /\ startTimer' = TRUE
  /\ mailbox' = Tail(mailbox)
  /\ UNCHANGED <<behavior, stash, status, wait, asks, historyVars>>

\* AttemptToStartJob
AskForRoutees ==
  /\ asks' = asks + 1
  /\ mailbox' = Tail(mailbox)
  /\ UNCHANGED <<behavior, stash, subscribers, status, startTimer, wait, historyVars>>

\* Mutations: the behavior stays Ready; a pool without routees is good enough;
\* one routee is not.
StayReady      == "Ready"
AnyPool(n)     == TRUE
MoreThanOne(n) == n > 1

\* Become(Started)
Become == "Started"

\* The predicate of the first CrawlCanStart handler
EnoughRoutees(n) == n > 0

\* CrawlCanStart with routees: the root is downloaded; without: nothing, and the
\* timer goes on.
KickOff ==
  /\ rootRequests' = rootRequests + 1
  /\ rootLost' = (rootLost \/ routees = 0)
  /\ startTimer' = FALSE
  /\ behavior' = Become
  /\ mailbox' = UnstashAll(Tail(mailbox))
  /\ stash' = <<>>
  /\ UNCHANGED <<subscribers, status, wait, asks, told>>

NoRoutees ==
  /\ mailbox' = Tail(mailbox)
  /\ UNCHANGED <<behavior, stash, subscribers, status, startTimer, wait, asks, historyVars>>

Ready(type) ==
  \/ type = "StartJob" /\ BeginToTry
  \/ type = "AttemptToStartJob" /\ AskForRoutees
  \/ type = "CrawlCanStart" /\ EnoughRoutees(Head(mailbox).count) /\ KickOff
  \/ type = "CrawlCanStart" /\ ~EnoughRoutees(Head(mailbox).count) /\ NoRoutees
  \/ type \notin {"StartJob", "AttemptToStartJob", "CrawlCanStart"} /\ PutAside

\* CrawlJobStats: merge and publish.
Report ==
  /\ PublishJobStatus(status)
  /\ mailbox' = Tail(mailbox)
  /\ UNCHANGED <<behavior, stash, subscribers, status, startTimer, wait, asks,
                 rootRequests, rootLost>>

Started(type) ==
  \/ type \in {"StartJob", "SubscribeToJob"} /\ Subscribe
  \/ type = "UnsubscribeFromJob" /\ Unsubscribe
  \/ type = "CrawlJobStats" /\ Report
  \/ type \in {"StopJob", "ReceiveTimeout"} /\ EndJob
  \/ type \in {"TrackerFound", "AttemptToStartJob", "CrawlCanStart"} /\ Ignore

\* The actor stops; everything it has not handled is lost.
Stop ==
  /\ behavior' = "Stopped"
  /\ mailbox' = <<>>
  /\ stash' = <<>>
  /\ startTimer' = FALSE
  /\ UNCHANGED <<subscribers, status, wait, asks, historyVars>>

\* The actor handles the next message.
Handle ==
  /\ behavior # "Stopped"
  /\ mailbox # <<>>
  /\ LET type == Head(mailbox).type IN
       \/ type = "PoisonPill" /\ Stop
       \/ type = "AttemptToStartJob" /\ ~startTimer /\ Ignore
       \/ /\ type # "PoisonPill"
          /\ type = "AttemptToStartJob" => startTimer
          /\ \/ behavior = "WaitingForTracker" /\ WaitingForTracker(type)
             \/ behavior = "Ready" /\ Ready(type)
             \/ behavior = "Started" /\ Started(type)
  /\ UNCHANGED <<poolVars, outside>>

-----------------------------------------------------------------------------
\* What happens around the actor.

Arrives(msg) ==
  /\ behavior # "Stopped"
  /\ mailbox' = Append(mailbox, msg)
  /\ UNCHANGED <<behavior, stash, subscribers, status, startTimer, wait, historyVars>>

\* A client's command, which ApiMasters pass on.
Send(cmd) ==
  /\ cmd \notin sent
  /\ Cardinality(sent) < MaxCommands
  /\ sent' = sent \cup {cmd}
  /\ Arrives(Command(cmd))
  /\ UNCHANGED <<asks, poolVars, trackerAsked>>

\* The DownloadsMaster answers the request of PreStart.
AnswerTracker ==
  /\ trackerAsked
  /\ trackerAsked' = FALSE
  /\ Arrives(Msg("TrackerFound"))
  /\ UNCHANGED <<asks, poolVars, sent>>

\* The receive timeout fires, when the last one has been handled.  Attempts to
\* start come so often that it does not while there are any.
FireTimeout ==
  /\ \A i \in DOMAIN mailbox : mailbox[i].type # "ReceiveTimeout"
  /\ ~startTimer
  /\ Arrives(Timeout(wait))
  /\ UNCHANGED <<asks, poolVars, outside>>

\* The timer StartJobKey.
Tick ==
  /\ startTimer
  /\ asks < MaxAsks
  /\ \A i \in DOMAIN mailbox : mailbox[i].type # "AttemptToStartJob"
  /\ Arrives(Msg("AttemptToStartJob"))
  /\ UNCHANGED <<asks, poolVars, outside>>

\* The router answers GetRoutees; the answer is piped to the actor.
AnswerRoutees ==
  /\ asks > 0
  /\ asks' = asks - 1
  /\ Arrives(CrawlCanStart(routees))
  /\ UNCHANGED <<poolVars, outside>>

\* A report of a coordinator.
SendReport ==
  /\ rootRequests > 0 /\ ~rootLost
  /\ reports < MaxReports
  /\ reports' = reports + 1
  /\ Arrives(Msg("CrawlJobStats"))
  /\ UNCHANGED <<asks, routees, leaves, outside>>

\* The pool gets a routee, or loses one.
RouteeJoins ==
  /\ behavior \in {"Ready", "Started"}
  /\ routees < MaxRoutees
  /\ routees' = routees + 1
  /\ UNCHANGED <<actorVars, asks, leaves, reports, outside, historyVars>>

RouteeLeaves ==
  /\ routees > 0
  /\ leaves < MaxLeaves
  /\ routees' = routees - 1
  /\ leaves' = leaves + 1
  /\ UNCHANGED <<actorVars, asks, reports, outside, historyVars>>

-----------------------------------------------------------------------------
\* The actor after PreStart, with its first command.
Init ==
  /\ behavior = "WaitingForTracker"
  /\ mailbox = <<Command([type |-> "StartJob", client |-> FirstClient])>>
  /\ stash = <<>>
  /\ subscribers = {}
  /\ status = "Starting"
  /\ startTimer = FALSE
  /\ wait = "tracker"
  /\ trackerAsked = TRUE
  /\ asks = 0 /\ routees = 0 /\ leaves = 0 /\ reports = 0
  /\ sent = {}
  /\ told = [c \in Clients |-> {}]
  /\ rootRequests = 0
  /\ rootLost = FALSE

Next ==
  \/ Handle
  \/ \E cmd \in Commands : Send(cmd)
  \/ AnswerTracker \/ FireTimeout \/ Tick \/ AnswerRoutees \/ SendReport
  \/ RouteeJoins \/ RouteeLeaves

Spec == Init /\ [][Next]_vars

(* Fairness.  The dispatcher runs the actor, its timers fire, and the router   *)
(* answers; whether a tracker is found or routees join is not assumed.         *)
FairSpec == Spec /\ WF_vars(Handle) /\ WF_vars(Tick) /\ WF_vars(FireTimeout) /\ WF_vars(AnswerRoutees)

-----------------------------------------------------------------------------
\* Every variable holds a value of its type.
TypeOK ==
  /\ behavior \in {"WaitingForTracker", "Ready", "Started", "Stopped"}
  /\ mailbox \in Seq(Message)
  /\ stash \in Seq(Message)
  /\ subscribers \subseteq Clients
  /\ status \in {"Starting", "Finished"}
  /\ startTimer \in BOOLEAN /\ trackerAsked \in BOOLEAN
  /\ wait \in {"tracker", "silence"}
  /\ asks \in Nat /\ routees \in 0..MaxRoutees /\ leaves \in 0..MaxLeaves
  /\ reports \in 0..MaxReports
  /\ sent \subseteq Commands
  /\ told \in [Clients -> SUBSET {"Starting", "Finished"}]
  /\ rootRequests \in Nat /\ rootLost \in BOOLEAN

\* Attempts to start overlap with their answers, and several clients may ask
\* for the start: the root is still downloaded on one order only.
RootRequestedOnce == rootRequests <= 1

\* As long as no coordinator is lost, the order to download the root is given to
\* one, and not to an empty pool.
RootReachesACoordinator == leaves = 0 => ~rootLost

\* Who asked for the start, and who was unsubscribed.
AskedToStart == {FirstClient} \cup {c \in Clients : \E cmd \in sent : cmd.type = "StartJob" /\ cmd.client = c}
LeftAgain    == {c \in Clients : \E cmd \in sent : cmd.type = "UnsubscribeFromJob" /\ cmd.client = c}

\* The start command of c is among msgs.
HasStart(msgs, c) == \E i \in DOMAIN msgs : msgs[i].type = "StartJob" /\ msgs[i].client = c

\* A client that asked for the start is a subscriber, or its command is still
\* with the actor, whatever was put aside and taken back in between.
CommandsAreHeld ==
  behavior # "Stopped" =>
    \A c \in AskedToStart \ LeftAgain :
      c \in subscribers \/ HasStart(mailbox, c) \/ HasStart(stash, c)

\* A job that has its tracker is kicked off once its pool has coordinators that
\* stay, unless it is ended before.
JobIsKickedOff ==
  behavior = "Ready" /\ routees > 0 /\ leaves = MaxLeaves
    ~> rootRequests > 0 \/ behavior = "Stopped"

\* A job that was kicked off comes to an end: its silence ends it, and its actor
\* is stopped.
KickedOffJobStops == rootRequests > 0 ~> behavior = "Stopped"

=============================================================================
