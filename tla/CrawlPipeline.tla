---------------------------- MODULE CrawlPipeline ---------------------------
(***************************************************************************)
(* A crawl job at work, from the moment its CrawlMaster has kicked it off. *)
(* The CrawlMaster has a round-robin pool of DownloadCoordinators on the   *)
(* crawler nodes.  A coordinator downloads documents in a stream, asks the *)
(* DownloadsTracker about the documents a page names, and the tracker's    *)
(* answer goes to the pool: one coordinator is told what to download, the  *)
(* next one how much was discovered.  Coordinators count what they         *)
(* discover and download and report it to the CrawlMaster on a timer; a    *)
(* CrawlMaster that hears nothing for two minutes ends the job.            *)
(*                                                                         *)
(* A page is the sequence of the documents of the site it names, each once;*)
(* images are pages without links.  The limit on concurrent downloads and  *)
(* the throttling only delay downloads and are left out.                   *)
(*                                                                         *)
(* Akka.NET facts used here: messages from one actor to another stay in    *)
(* order; a round-robin pool gives each message it is sent to the next of  *)
(* its routees, whatever the message is; a full Source.ActorRef buffer     *)
(* with DropTail gives up its youngest element for the new one.            *)
(***************************************************************************)
EXTENDS Integers, Sequences, FiniteSets, SequencesExt

CONSTANTS
  Documents,     \* the documents of the site
  RootDocument,  \* CrawlJob.Root
  Coordinators,  \* coordinators the pool may have
  Scenarios,     \* the sites and pools a job may meet, see Scenario
  MaxReports,    \* bound: reports of a coordinator on their way
  MaxTime,       \* bound: how much time passes, in units of five seconds
  Unrecorded, NoTimeout, NoEstimate  \* see DownloadsTracker

\* The elements of s that are in S, in their order.
Filter(s, S) ==
  LET I == {i \in DOMAIN s : s[i] \in S}
  IN  [k \in 1..Cardinality(I) |->
         s[CHOOSE i \in I : Cardinality({j \in I : j < i}) = k - 1]]

\* The sum of the values of a function to Nat: the size of the union of disjoint
\* sets of these sizes.  The sum of what the elements of s weigh.
SumOf(f)    == Cardinality(UNION {{x} \X (1..f[x]) : x \in DOMAIN f})
Total(s, w) == SumOf([i \in DOMAIN s |-> w[s[i]]])

\* A scenario fixes links[d], the documents page d names; the documents whose
\* download fails or is empty; the pool at the start and the coordinators that
\* may join it; the capacity of a coordinator's source; whether two minutes may
\* pass without news while there is work; and the bounds: how many coordinators
\* are lost, how much time passes, and a common multiple of all pool sizes,
\* where the router's counter starts again.
Scenario ==
  [links : [Documents -> Seq(Documents)], emptyPages : SUBSET Documents,
   initialPool : Seq(Coordinators), joining : SUBSET Coordinators,
   bufferSize : Nat \ {0}, slowSite : BOOLEAN,
   maxCrashes : Nat, maxTime : 0..MaxTime, period : Nat \ {0}]

ASSUME CrawlPipelineAssumption ==
  /\ IsFiniteSet(Documents) /\ IsFiniteSet(Coordinators)
  /\ RootDocument \in Documents
  /\ MaxReports \in Nat \ {0}
  /\ NoTimeout \notin Int
  /\ Unrecorded \notin [complete : BOOLEAN, timeout : Int \cup {NoTimeout}]
  /\ \A s \in Scenarios :
       /\ s \in Scenario
       /\ \A d \in Documents : IsInjective(s.links[d])
       /\ \A d \in s.emptyPages : s.links[d] = <<>>
       /\ s.initialPool # <<>> /\ IsInjective(s.initialPool)
       /\ \A k \in 1..Cardinality(Coordinators) :
            k <= Cardinality(s.joining \cup ToSet(s.initialPool)) => s.period % k = 0

VARIABLES
  setup,     \* the scenario of this behaviour
  job,       \* "Started" or "Finished"
  total,     \* TotalStats of the CrawlMaster
  pool,      \* the router's routees
  next,      \* the router's counter
  alive,     \* coordinators that run
  crashes,   \* coordinators lost so far
  routed,    \* routed[c]: what the router gave c and c has not handled
  source,    \* source[c]: the buffer of c's stream
  fetching,  \* fetching[c][d]: downloads of d that c's stream has under way
  done,      \* done[c]: CompletedDocument messages of the stream to c
  parsed,    \* parsed[c]: pages whose CheckDocuments the stream sent to c
  asked,     \* asked[c]: CheckDocuments messages from c to the tracker
  stats,     \* stats[c]: what c counted since its last report
  reports,   \* reports[c]: reports of c on their way to the CrawlMaster
  recorded, now, elapsed, claim,  \* the tracker, see DownloadsTracker
  fetched    \* history: how often each document was downloaded

masterVars  == <<job, total>>
poolVars    == <<pool, next, alive, crashes>>
streamVars  == <<routed, source, fetching, done, parsed, stats>>
trackerVars == <<recorded, now, elapsed, claim>>
vars == <<setup, masterVars, poolVars, streamVars, asked, reports, trackerVars, fetched>>

Links      == setup.links
EmptyPages == setup.emptyPages
BufferSize == setup.bufferSize
Period     == setup.period

Tracker == INSTANCE DownloadsTracker WITH
  CrawlTimes <- 0..Cardinality(Documents), DefaultCrawlTime <- 6, ClockSteps <- {1}

-----------------------------------------------------------------------------
\* CrawlJobStats

Stats == [discovered : Nat, downloaded : Nat, bytes : Nat]

Reset == [discovered |-> 0, downloaded |-> 0, bytes |-> 0]

\* Mutation: there is always something to report.
NeverEmpty(s) == FALSE

IsEmpty(s) == s.discovered = 0 /\ s.bytes = 0

WithDiscovered(s, n) == [s EXCEPT !.discovered = @ + n]

WithCompleted(s, d) ==
  [s EXCEPT !.downloaded = @ + 1, !.bytes = @ + IF d \in EmptyPages THEN 0 ELSE 1]

Merge(s, t) ==
  [discovered |-> s.discovered + t.discovered,
   downloaded |-> s.downloaded + t.downloaded,
   bytes      |-> s.bytes + t.bytes]

-----------------------------------------------------------------------------
\* The pool.

Messages ==
  [type : {"DownloadHtmlDocument", "ProcessDocuments", "DiscoveredDocuments"},
   docs : Seq(Documents), count : Nat]

Download(d)   == [type |-> "DownloadHtmlDocument", docs |-> <<d>>, count |-> 0]
Process(docs) == [type |-> "ProcessDocuments", docs |-> docs, count |-> 0]
Found(n)      == [type |-> "DiscoveredDocuments", docs |-> <<>>, count |-> n]

\* The routee that gets the k-th message from now on.
Routee(k) == pool[((next + k) % Len(pool)) + 1]

\* What c is given of the k-th message: what is for a coordinator that is gone is
\* lost.
Given(k, msg, c) == IF Routee(k) = c /\ c \in alive THEN <<msg>> ELSE <<>>

\* The router passes two messages on, one to each of the next routees; without
\* any they are lost.
Route(first, second) ==
  IF pool = <<>> THEN UNCHANGED <<routed, next>>
  ELSE
    /\ routed' = [c \in Coordinators |->
                    routed[c] \o Given(0, first, c) \o Given(1, second, c)]
    /\ next' = (next + 2) % Period

-----------------------------------------------------------------------------
\* A DownloadCoordinator.

\* SourceActor.Tell for one document after the other: one that finds the buffer
\* full takes the place of the youngest.
OfferAll(buffer, docs) ==
  IF Len(buffer) + Len(docs) <= BufferSize THEN buffer \o docs
  ELSE Append(SubSeq(buffer \o docs, 1, BufferSize - 1), docs[Len(docs)])

\* A message from the router: documents to download, or a count.
OnRouted(c) ==
  /\ routed[c] # <<>>
  /\ LET msg == Head(routed[c]) IN
       /\ routed' = [routed EXCEPT ![c] = Tail(@)]
       /\ source' = [source EXCEPT ![c] = OfferAll(@, msg.docs)]
       /\ stats'  = [stats EXCEPT ![c] = WithDiscovered(@, msg.count)]
  /\ UNCHANGED <<masterVars, poolVars, fetching, done, parsed, asked, reports,
                 trackerVars, fetched, setup>>

\* The stream starts the next download.
Fetch(c) ==
  /\ source[c] # <<>>
  /\ source'   = [source EXCEPT ![c] = Tail(@)]
  /\ fetching' = [fetching EXCEPT ![c][Head(source[c])] = @ + 1]
  /\ UNCHANGED <<masterVars, poolVars, routed, done, parsed, stats, asked, reports,
                 trackerVars, fetched, setup>>

\* A download ends; the stream tells the coordinator of the document and, after
\* parsing, of what it names.
FetchDone(c, d) ==
  /\ fetching[c][d] > 0
  /\ fetching' = [fetching EXCEPT ![c][d] = @ - 1]
  /\ done'     = [done EXCEPT ![c] = Append(@, d)]
  /\ parsed'   = [parsed EXCEPT ![c] = Append(@, d)]
  /\ fetched'  = [fetched EXCEPT ![d] = @ + 1]
  /\ UNCHANGED <<masterVars, poolVars, routed, source, stats, asked, reports,
                 trackerVars, setup>>

\* CompletedDocument
OnCompleted(c) ==
  /\ done[c] # <<>>
  /\ done'  = [done EXCEPT ![c] = Tail(@)]
  /\ stats' = [stats EXCEPT ![c] = WithCompleted(@, Head(done[c]))]
  /\ UNCHANGED <<masterVars, poolVars, routed, source, fetching, parsed, asked, reports,
                 trackerVars, fetched, setup>>

\* CheckDocuments from the stream is passed on to the tracker.
OnCheck(c) ==
  /\ parsed[c] # <<>>
  /\ parsed' = [parsed EXCEPT ![c] = Tail(@)]
  /\ asked'  = [asked EXCEPT ![c] = Append(@, Links[Head(parsed[c])])]
  /\ UNCHANGED <<masterVars, poolVars, routed, source, fetching, done, stats, reports,
                 trackerVars, fetched, setup>>

\* Mutation: the counts are sent and kept.
KeepCounts(c) == stats[c]

\* Stats.Reset() after publishing
AfterPublish(c) == Reset

\* PublishStatsTick
Publish(c) ==
  /\ ~IsEmpty(stats[c])
  /\ Len(reports[c]) < MaxReports
  /\ reports' = [reports EXCEPT ![c] = Append(@, stats[c])]
  /\ stats'   = [stats EXCEPT ![c] = AfterPublish(c)]
  /\ UNCHANGED <<masterVars, poolVars, routed, source, fetching, done, parsed, asked,
                 trackerVars, fetched, setup>>

Coordinate(c) ==
  /\ job = "Started"
  /\ c \in alive
  /\ \/ OnRouted(c) \/ Fetch(c) \/ OnCompleted(c) \/ OnCheck(c) \/ Publish(c)
     \/ \E d \in Documents : FetchDone(c, d)

-----------------------------------------------------------------------------
\* The DownloadsTracker.

\* Mutations: everything that was asked about is handed out; new documents are
\* recorded and not handed out.
HandOutAll(docs) == docs
HandOutOld(docs) == Filter(docs, {d \in Documents : recorded[d] # Unrecorded})

\* availableDocs, in the order of the request
HandOut(docs) == Filter(docs, Tracker!Available(ToSet(docs)))

\* CheckDocuments at the tracker, with five seconds for each document; the
\* answers go to the pool.
OnTrackerCheck(c) ==
  /\ job = "Started"
  /\ asked[c] # <<>>
  /\ LET docs == Head(asked[c]) IN
       /\ Tracker!CheckDocuments(ToSet(docs), Len(docs))
       /\ Route(Process(HandOut(docs)), Found(Cardinality(Tracker!Discovered(ToSet(docs)))))
  /\ asked' = [asked EXCEPT ![c] = Tail(@)]
  /\ UNCHANGED <<masterVars, pool, alive, crashes, source, fetching, done, parsed, stats,
                 reports, fetched, setup>>

-----------------------------------------------------------------------------
\* The CrawlMaster.

\* A report arrives.
OnReport(c) ==
  /\ job = "Started"
  /\ reports[c] # <<>>
  /\ total'   = Merge(total, Head(reports[c]))
  /\ reports' = [reports EXCEPT ![c] = Tail(@)]
  /\ UNCHANGED <<job, poolVars, streamVars, asked, trackerVars, fetched, setup>>

\* Nothing is left that would be reported or lead to a download.
Quiet ==
  /\ \A c \in Coordinators : asked[c] = <<>> /\ reports[c] = <<>>
  /\ \A c \in alive :
       /\ routed[c] = <<>> /\ source[c] = <<>> /\ done[c] = <<>> /\ parsed[c] = <<>>
       /\ \A d \in Documents : fetching[c][d] = 0
       /\ IsEmpty(stats[c])

\* The receive timeout: the job is finished, and the coordinators stop with it.
ReceiveTimeout ==
  /\ job = "Started"
  /\ \/ setup.slowSite /\ \A c \in Coordinators : reports[c] = <<>>
     \/ Quiet
  /\ job' = "Finished"
  /\ UNCHANGED <<total, poolVars, streamVars, asked, reports, trackerVars, fetched, setup>>

-----------------------------------------------------------------------------
\* The environment.

PassTime ==
  /\ job = "Started"
  /\ now < setup.maxTime
  /\ Tracker!PassTime
  /\ UNCHANGED <<masterVars, poolVars, streamVars, asked, reports, fetched, setup>>

\* A crawler node with a coordinator is lost, with the end of what it sent.
Crash(c) ==
  /\ job = "Started"
  /\ c \in alive
  /\ crashes < setup.maxCrashes
  /\ crashes' = crashes + 1
  /\ alive'   = alive \ {c}
  /\ routed'   = [routed EXCEPT ![c] = <<>>]
  /\ source'   = [source EXCEPT ![c] = <<>>]
  /\ fetching' = [fetching EXCEPT ![c] = [d \in Documents |-> 0]]
  /\ done'     = [done EXCEPT ![c] = <<>>]
  /\ parsed'   = [parsed EXCEPT ![c] = <<>>]
  /\ stats'    = [stats EXCEPT ![c] = Reset]
  /\ \E i \in 0..Len(asked[c]), j \in 0..Len(reports[c]) :
       /\ asked'   = [asked EXCEPT ![c] = SubSeq(@, 1, i)]
       /\ reports' = [reports EXCEPT ![c] = SubSeq(@, 1, j)]
  /\ UNCHANGED <<masterVars, pool, next, trackerVars, fetched, setup>>

\* The router learns that a coordinator is gone, or gets a new one.
MemberRemoved(c) ==
  /\ job = "Started"
  /\ c \notin alive
  /\ c \in ToSet(pool)
  /\ pool' = Filter(pool, Coordinators \ {c})
  /\ UNCHANGED <<masterVars, next, alive, crashes, streamVars, asked, reports, trackerVars,
                 fetched, setup>>

MemberUp(c) ==
  /\ job = "Started"
  /\ c \in setup.joining \ alive
  /\ c \notin ToSet(pool)
  /\ pool'  = Append(pool, c)
  /\ alive' = alive \cup {c}
  /\ UNCHANGED <<masterVars, next, crashes, streamVars, asked, reports, trackerVars,
                 fetched, setup>>

-----------------------------------------------------------------------------
\* The CrawlMaster has told the pool to download the root and counted it.
Init ==
  /\ setup \in Scenarios
  /\ job = "Started"
  /\ total = [discovered |-> 1, downloaded |-> 0, bytes |-> 0]
  /\ pool = setup.initialPool
  /\ next = 1 % Period
  /\ alive = ToSet(setup.initialPool)
  /\ crashes = 0
  /\ routed = [c \in Coordinators |->
                 IF c = setup.initialPool[1] THEN <<Download(RootDocument)>> ELSE <<>>]
  /\ source   = [c \in Coordinators |-> <<>>]
  /\ fetching = [c \in Coordinators |-> [d \in Documents |-> 0]]
  /\ done     = [c \in Coordinators |-> <<>>]
  /\ parsed   = [c \in Coordinators |-> <<>>]
  /\ asked    = [c \in Coordinators |-> <<>>]
  /\ stats    = [c \in Coordinators |-> Reset]
  /\ reports  = [c \in Coordinators |-> <<>>]
  /\ Tracker!Init
  /\ fetched  = [d \in Documents |-> 0]

Next ==
  \/ \E c \in Coordinators :
       \/ Coordinate(c) \/ OnTrackerCheck(c) \/ OnReport(c)
       \/ Crash(c) \/ MemberRemoved(c) \/ MemberUp(c)
  \/ ReceiveTimeout
  \/ PassTime

Spec == Init /\ [][Next]_vars

-----------------------------------------------------------------------------
(* Fairness.  The dispatcher runs every actor that has messages, streams and *)
(* downloads progress (HttpClient has a timeout), the report timer is        *)
(* periodic, and a receive timeout fires once there is nothing to handle.    *)
(* None is assumed of crashes, cluster events and the clock.                 *)

Fairness ==
  /\ WF_vars(ReceiveTimeout)
  /\ \A c \in Coordinators :
       WF_vars(Coordinate(c)) /\ WF_vars(OnTrackerCheck(c)) /\ WF_vars(OnReport(c))

FairSpec == Spec /\ Fairness

-----------------------------------------------------------------------------
(* Properties.                                                               *)

\* Every variable holds a value of its type, and no stream buffers more than
\* its capacity (Source.ActorRef(5000, DropTail)).
TypeOK ==
  /\ setup \in Scenarios
  /\ job \in {"Started", "Finished"}
  /\ total \in Stats
  /\ pool \in Seq(Coordinators) /\ IsInjective(pool)
  /\ next \in 0..(Period - 1)
  /\ alive \in SUBSET Coordinators
  /\ crashes \in 0..setup.maxCrashes
  /\ routed \in [Coordinators -> Seq(Messages)]
  /\ source \in [Coordinators -> Seq(Documents)]
  /\ \A c \in Coordinators : Len(source[c]) <= BufferSize
  /\ fetching \in [Coordinators -> [Documents -> Nat]]
  /\ done \in [Coordinators -> Seq(Documents)]
  /\ parsed \in [Coordinators -> Seq(Documents)]
  /\ asked \in [Coordinators -> Seq(Seq(Documents))]
  /\ stats \in [Coordinators -> Stats]
  /\ reports \in [Coordinators -> Seq(Stats)]
  /\ Tracker!TypeOK
  /\ fetched \in [Documents -> Nat]

\* What has been counted of a quantity, wherever the count is.
Counted(field) ==
  LET Field == [r \in Stats |-> r[field]]
  IN  total[field] + SumOf([c \in Coordinators |-> Field[stats[c]] + Total(reports[c], Field)])

\* Discoveries and completed downloads the coordinators have not counted yet.
Uncounted ==
  LET Count == [m \in Messages |-> m.count]
  IN  SumOf([c \in Coordinators |-> Total(routed[c], Count)])
NotLogged == SumOf([c \in Coordinators |-> Len(done[c])])

Recorded  == {d \in Documents : recorded[d] # Unrecorded}
Downloads == SumOf(fetched)

\* As long as no coordinator is lost the counts are conserved: on their way
\* from coordinator to coordinator and to the CrawlMaster, no discovery and no
\* download is counted twice or lost (WithDiscovered, WithCompleted, Copy, Reset
\* and Merge of CrawlJobStats).
CountsAreConserved ==
  crashes = 0 =>
    /\ Counted("discovered") + Uncounted = 1 + Cardinality(Recorded)
    /\ Counted("downloaded") + NotLogged = Downloads

\* When coordinators are lost their counts are lost too, but what the user is
\* shown never exceeds what was discovered and downloaded.
NeverOvercounted ==
  /\ TypeOK
  /\ Counted("discovered") + Uncounted <= 1 + Cardinality(Recorded)
  /\ Counted("downloaded") + NotLogged <= Downloads

\* Nothing has disturbed the crawl: no coordinator is lost, no claim can be
\* overdue, and a stream has room for the root and a copy of every document.
Undisturbed == crashes = 0 /\ now = 0 /\ BufferSize > Cardinality(Documents)

\* The documents a crawl of the site should reach: those in every set of pages
\* that has the root and with each page the documents it names.
Reachable ==
  {d \in Documents :
     \A S \in SUBSET Documents :
       RootDocument \in S /\ (\A e \in S : ToSet(Links[e]) \subseteq S) => d \in S}

\* A job that nothing disturbed and that is finished, not given up, has downloaded
\* every document that can be reached from its root, and its total names each of
\* them (the root is counted separately, so that a root that is linked is counted
\* twice).
FinishedIsComplete ==
  job = "Finished" /\ Undisturbed /\ ~setup.slowSite =>
    /\ \A d \in Reachable : fetched[d] > 0
    /\ total.discovered = 1 + Cardinality(UNION {ToSet(Links[d]) : d \in Reachable})

\* How often d is in the sequence docs.
Occurrences(docs, d) == Total(docs, [e \in Documents |-> IF e = d THEN 1 ELSE 0])

\* Copies of a document on their way to or in the streams.
Copies(d) ==
  LET InMessage == [m \in Messages |-> Occurrences(m.docs, d)]
  IN  SumOf([c \in Coordinators |->
               Total(routed[c], InMessage) + Occurrences(source[c], d) + fetching[c][d]])

\* Each claim of the tracker puts one copy of the document to work, whichever
\* coordinator asked and whichever was given it; the root has one more.  A
\* copy may be lost with its coordinator or given up by a full stream, and
\* none is ever made twice.
OneCopyPerClaim ==
  \A d \in Documents :
    LET copies == Copies(d) + fetched[d]
        claims == claim[d].count + IF d = RootDocument THEN 1 ELSE 0
    IN  copies <= claims /\ (Undisturbed => copies = claims)

\* A document whose claim has run out is handed out again, whether or not it was
\* downloaded in the meantime.
RunOutIsRenewed ==
  \E d \in Documents :
    /\ claim[d].count > 0 /\ claim'[d].count > claim[d].count
    /\ elapsed - claim[d].at > claim[d].time

\* Only claims that run out can keep a job alive: unless they are renewed for ever
\* (two pages that name each other on a site slower than its claims), the job
\* comes to an end, however often they were renewed before and also when a
\* coordinator is lost with messages on their way to it.
JobEnds == <>[][~RunOutIsRenewed]_vars => <>(job = "Finished")

\* CheckDocuments: "used to check to see if any of the listed CrawlDocuments are
\* currently being processed or have previously been processed".
ProcessedIsNotHandedOut ==
  [][\A d \in Documents : fetched[d] > 0 => claim'[d].count = claim[d].count]_vars

=============================================================================
