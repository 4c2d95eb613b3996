# Models and proofs for tae

This directory holds TLA+ models of programs in this repository, TLC
configurations that check them on small instances, and proofs checked by TLAPS.
Definitions carry the names of the code they stand for; `PROJECT.json` gives the
source lines of each of them (`map`), the runs, the hazards the properties are
aimed at, and what was found.

    tlc -workers 2 -config DownloadsMaster_trackers.cfg MCDownloadsMaster
    tlapm DownloadsMasterProofs.tla

## 1. The system

The repository is a collection of fifteen programs. One of them, the web crawler
in `Cluster.WebCrawler-dev`, is a distributed system with protocols of its own,
from the crawling nodes up to the list of messages in a browser. This project is
about the whole of it. The Java programs are not modelled (section 7).

### The cluster (C#, Akka.NET)

Nodes have one of three roles: *web* takes a URL from a browser, *tracker* runs
the masters of jobs, *crawler* downloads and parses.

| component | state | operations |
|---|---|---|
| `ApiMaster`, one per tracker node | `JobToStart`, outstanding acknowledgements, stash; its children are the `CrawlMaster`s | `StartJob`, search among all ApiMasters (`FindRunningJob`, `JobFound`, `JobNotFound`), receive timeout |
| `CrawlMaster`, one per job | subscribers, running status and totals, start timer, stash | commands, `TrackerFound`, attempts to start, reports, end |
| `DownloadsMaster`, one per tracker node | `RequestedTracker`, outstanding acknowledgments, cache `Trackers`, stash; its children are the `DownloadsTracker`s | requests, search among all DownloadsMasters, verification of cached trackers |
| `DownloadsTracker`, one per job | a `CrawlStatus` for each known document | `CheckDocuments`, `CompletedDocument` |
| `DownloadCoordinator`, a pool per job on the crawler nodes | statistics since the last report, the stream of documents under way | documents to process, discoveries, completed downloads, reports every 250 ms |
| web front end | none | turns a URL into a `StartJob` and pushes status updates |

The front end routes `StartJob`, by a hash of the job, to an ApiMaster. It
broadcasts a search and creates a CrawlMaster if nobody has one. The CrawlMaster
asks its node's DownloadsMaster for the job's tracker; that one broadcasts a
search too and creates the tracker if nobody has it. The CrawlMaster creates a
round-robin pool of coordinators and sends it the root. A coordinator downloads a
page, parses it, and asks the tracker about the documents it names; the tracker's
answers go to the *pool*, so that any coordinator gets the work. Coordinators
report to the CrawlMaster, which tells its subscribers and stops after 120
seconds without a message.

What is hard: messages between nodes are delivered at most once and only in
order for each pair of actors; replies to searches are broadcast to everybody
and matched by job only; nodes crash, and come back under the same address;
receive timeouts race the answers they replace; commands wait in stashes that
restarts and changes of behaviour return; counts go to the CrawlMaster in
pieces; the claims on documents end by the wall clock.

### The page (JavaScript)

`Index.cshtml` (lines 29–77) opens a SignalR connection to the hub, and puts each
status update into an observable array that is cut to a length (37–45) and shown
between the comments `<!-- ko foreach: messages -->`. The page itself is a few
lines; what it does rests on two libraries that are checked in with it and loaded
by it, `signalr.js` and Knockout 3.3.0. They are vendored, and they are where the
page's state is, so they are modelled as far as the page's behaviour depends on
them: everything between a message of the hub and the nodes of the document. (The
page loads the minified `knockout-3.3.0.js`; line numbers refer to
`knockout-3.3.0.debug.js` next to it, which is the same code in readable form.)

| component | state | operations |
|---|---|---|
| `HubConnection` (signalr.js) | connection state, handshake, timers, callbacks of calls | `start`, `stop`, `invoke`, `stream`, `send`, messages, close |
| `HttpConnection` (signalr.js) | connection state, transport, `startPromise` | negotiation with redirects, fallback through transports, `send`, `stop`, close |
| transports (signalr.js) | socket, event source, or poll loop | `connect`, messages, ends, `stop` |
| promises (signalr.js) | state, result, subscribers of each; the queue | `then`, `resolve`, `reject`, `all`, `race`, `__awaiter`, flush |
| observables and computeds (Knockout) | values, versions, subscriptions, dependencies, timers | write, read, evaluate, sleep, wake, dispose, rate limit, throttle |
| observable array (Knockout) | the array, cached differences, what was known when they were told last | array operations, `compareArrays`, notification of differences |
| `foreach` binding (Knockout) | the mapping of items to nodes, the children of a container | render, move, remove, clean, `beforeRemove` |

What is hard: JavaScript runs one function at a time, but what stands between two
awaits is overtaken by whatever the browser does in the meantime; starts, stops,
fallbacks and closes overlap; callbacks register callbacks, subscribers change
what they are being told of; computeds change what they depend on with each
evaluation; differences are cached by one operation and used by another; the
nodes of an item are recorded once, and its own bindings change them.

## 2. Modules

| module | what it is |
|---|---|
| `TrackerDirectory` | abstract: what DownloadsMasters promise to those who ask for a tracker |
| `DownloadsMaster` | the search protocol for trackers; implements `TrackerDirectory` |
| `DownloadsTracker` | claims on documents and their deadlines |
| `CrawlPipeline` | the crawl: coordinators, pool, tracker (`INSTANCE DownloadsTracker`), reports, totals |
| `CrawlMaster` | the life of one job |
| `ApiMaster` | the search protocol for running jobs |
| `HttpConnection`, `HubConnection`, `SignalRTransports` | the layers of the SignalR client, each extending the one before |
| `SignalRClient` | the client as a whole, with its page, the network and the server |
| `Promises` | promises and async functions |
| `Subscribables`, `Computeds` | Knockout's observables and subscriptions; computeds and their evaluation |
| `KnockoutGraph` | a page over them |
| `ArrayDiff` | `compareArrays`, `findMovesInArrayComparison`, cached differences |
| `VirtualElements` | children of an element, comments as containers, nodes that are bound and cleaned |
| `ArrayMapping` | the `foreach` binding over both |
| `KnockoutArrays` | a page with an observable array and its `foreach` |
| `MC...` | the instances TLC checks |
| `DownloadsMasterProofs` | theorems about `DownloadsMaster`, and that it implements `TrackerDirectory` |
| `DownloadsTrackerProofs`, `CrawlPipelineProofs`, `CrawlMasterProofs`, `ApiMasterProofs` | theorems about these modules |
| `PromisesProofs`, `PromiseFollowsProofs`, `PromiseAnswersProofs` | theorems about `Promises`: that nobody is forgotten and callbacks come in order, about promises that are resolved with others, and about `all()` and `race()` |

A handler of an actor, or a call of a page with everything the library does
before it returns, is one action. In the modules of the page a function of the
source is an operator from the world before the call to the world after it, a
record with one field per variable. Definitions headed *Mutation* are not part of
the models, they are the bugs the properties are tested with.

## 3. The models and what their runs show

State counts are distinct states. Every run but `crawl_again` and
`trackers_copies` passes; these two end in a counterexample that shows a
disagreement of the code with its comments. Several instances of one model are
checked in one run where the model has a variable for what does not change (the
requests, the site, the page), which the initial states choose.

Deadlock is checked in `ko_graph` and `ko_arrays`, whose pages can always do
something. The other models have bounds on what the outside world does, and the
actors and promises really are idle when it does nothing more. That they are not
idle too early is what their liveness properties say, and `NobodyIsForgotten` for
promises.

### DownloadsMaster

One DownloadsMaster per node: `behavior`, `acks`, `requested`, `trackers`,
`children` and `stash` are the fields of the class; `unstashed` is the front of
the mailbox after `UnstashAll`; `net` holds the messages on their way for every
pair of masters, in order; `asks` the `Identify` questions whose continuation
has not run. `inc` tells the actors of a node apart from those of its next
incarnation. Actions: a request arrives (`Request`), unstashed requests are
taken, one action for each message of each behaviour, the continuation of
`Identify`, the receive timeout, loss of a message, crash and rejoin of a node,
and the changes of the routee lists that follow.

- `trackers_outage` (3 nodes, 1 job, 1 crash with rejoin, 1 lost message,
  requests one after the other, 272,653 states): `OneTrackerPerJob`,
  `SettledCachesAgree`.
  Timeouts fire when nothing is on its way that could answer
  (`SlowPeers = FALSE`): with overlapping searches or late replies there can be
  two trackers, which is the subject of `trackers_copies`.
- `trackers` (2 nodes, timeouts at any time, 134,998 states): two requests for
  one job at a time next to a request for another job, or (`Calm`) without the
  other job, with a crash at any moment and a rejoin. `SearchCountsDown`,
  `OpenRequestsAreHeld`, `TrackersMatchJobs`, the refinement
  `ImplementsDirectory`, and `RequestsAreAnswered`. Fairness: the dispatcher runs
  an actor with messages, continuations of tasks run, receive timeouts that are
  set fire, members that are down are removed; nothing is assumed of crashes,
  losses or rejoins.
- `trackers_copies`: two searches for one job at a time both create a tracker.

Two or three nodes are enough: a search, one answer and one bystander are all
the roles there are; replies of more bystanders only repeat the third.

In a cluster whose members do not know each other yet, replies do not reach
everybody and a job may get several trackers. This is not modelled: routee lists
start complete, shrink after a crash and grow again after a rejoin.

### DownloadsTracker

`recorded` is `_recordedDocuments`; `now` is the wall clock that
`Deadline.IsOverdue` reads and `elapsed` the time that has passed, so that
claims on documents can be compared with both. `claim` is a history of what was
handed out.

- `tracker_claims` (2 documents, estimates of 1 and 2 units and the default,
  4 units of time, a clock that is sometimes set back, 19,068 states): `ClaimsLast`.
  `CompletedDocument` is handled, as in the code, and may come at any time,
  although no actor of the repository sends it to the tracker.

With a clock that may be set forward (`ClockSteps` with a step above 1)
`ClaimsLast` fails at once: `Deadline` uses `DateTime.Now`, which jumps at the
start of daylight saving time.

### CrawlPipeline

The site is a function from documents to the documents they name, each once
(`ParseFlow` does not remove repetitions; one more mention of a document only
lengthens the estimate of the crawl time). Each coordinator has the buffer of its
stream (`source`), downloads under way, downloads to be counted (`done`) and
pages to be asked about (`parsed`), its `Stats` and its reports. `next` is the
position of the round-robin pool. A scenario fixes the site, what may happen to
the coordinators, the size of the buffers and how long a claim lasts; `slowSite`
lets the receive timeout of the CrawlMaster fire on work that is left. The
counter `Period` only bounds the round-robin counter. `Counted`, `Copies` and the
like are sums over the coordinators and over the messages on their way; `SumOf`
says what a sum is without recursion, as the size of a union of disjoint sets, so
that facts about sums can be proved.

- `crawl` (518,507 states), with four scenarios: a cyclic site of three pages, one
  of them empty, two coordinators and nothing lost; a triangle of pages, a
  buffer of one document, a site that may be slow, and a coordinator that is lost
  while others join; and twice two pages that name each other, whose claims last
  one unit of time: four units with one coordinator, so that claims run out and
  are renewed twice, before or after the download, and two units with two
  coordinators, one of which may be lost. `CountsAreConserved` and
  `FinishedIsComplete` are about jobs that nothing has disturbed,
  `OneCopyPerClaim` and `NeverOvercounted` about all. `JobEnds` assumes fairness
  of every step of the actors and streams: a scheduler that runs them, downloads
  that come to an end. It says that a job ends unless claims that have run out are
  renewed for ever. That they may be is how the code is (`crawl_again`): two pages
  that name each other, on a site slower than their claims, keep a job alive
  without end. In the run time is bounded, so that renewals stop.
- `crawl_again`: a page that was downloaded is downloaded again, because its
  completion is never reported to the tracker.

Three documents are enough for a cycle, a page reached on two ways, and an empty
one; two coordinators for work that goes to somebody else than who asked.

Seen while modelling: as the tracker's answer is two messages and the pool is
round-robin, in a pool of an even size all documents to process go to the same
half of the routees, against the comment at `DownloadCoordinator.cs:130`.

### CrawlMaster

`mailbox` and `stash` are explicit, because the properties are about what comes
back from the stash when. `wait` is the receive timeout that is set; a timeout
message remembers which one it was. `told`, `rootRequests` and `rootLost` are
history.

- `crawl_master_start` (two clients, at most two further commands, one routee
  that may be lost and come back, two overlapping questions, 306,644 states):
  `RootRequestedOnce`, `RootReachesACoordinator`, `CommandsAreHeld`,
  `JobIsKickedOff`, `KickedOffJobStops`. Fairness: the actor is run, its timers
  fire and the router answers. Two questions suffice because an answer depends
  on the pool only, which changes by one member.

Seen while modelling: a timeout that was set while the actor waited for its
tracker and that fires behind the `TrackerFound` is stashed in `Ready`
(`CrawlMaster.cs:174`), comes back when the job has been kicked off, and ends it
at once.

### ApiMaster

The same search as in `DownloadsMaster`, but what is found or created is the
CrawlMaster of a job. Messages to an ApiMaster of the same node are in its
`mailbox` at once, others are in `net` first: whether an extra reply overtakes
the actor's own one depends on this. `muddled` is a history variable: the jobs
with a search that began while replies to another search for the same job were
under way, or had a reply lost or late.

- `api_master_starts` (2 nodes, two commands for one job or for two, and one
  event out of: a lost message, a late answer, a crash, the end of a job; 179,147
  states): `OneCrawlMasterPerJob` and `StartsAreKept` for jobs that are not
  muddled; `StartsAreAnswered` for all. Fairness: one step of the actor system (a
  handler, a delivery, a timeout) happens as long as there is one.

`OneCrawlMasterPerJob` is false of muddled jobs, without any fault: node 1 runs
the job; node 2 gets two start commands for it; the answer of node 1 to the
first arrives while the `JobNotFound` of node 2 itself is still in its mailbox;
the second search counts that one and its own, and creates a second CrawlMaster
before node 1 has answered.

### SignalRClient

`hub` and `http` are the two connection objects; `attempts` the calls of
`start()`, each with the place it awaits at, in the hub (`pc`) and below it
(`net`); `transports` the transports constructed so far, `stops` the calls of
`stop()`, `calls` the calls of hub methods. `jobs` is the queue of continuations
whose promise has settled: they run in that order, and all of them before the
next event. `told` is a history of the closes the page was told of. Actions: what
the page does, the continuations, the server timeout, answers of the network and
the server to what the client has asked (the fair ones), and messages, closes and
failures that nobody has asked for.

- `signalr_client` (a server that offers web sockets and long polling, or event
  sources; two starts, one stop, one call, 141,372 states): `LayersAgree` (its
  parts: types, a connected connection has a transport, messages are taken for
  such only after the answer to the handshake, what the hub calls connected is
  connected), `SilenceIsNoticed`, `CallsAreSettled`, `CloseIsTold`, and
  `PromisesSettle`, under weak fairness of `System`: continuations run, timers
  fire, requests end with an answer or a failure.

One connection after another is enough for state that is left over from the
first; the offers make every transport the one that is fallen back from or to.

Seen while modelling, and excepted by the properties or the page's guards: a
start while a long polling transport is being stopped is accepted, and the
`onclose` of the old transport then takes the new one away and leaves it open;
after the await of the handshake the hub calls itself Connected without looking
whether the connection has closed meanwhile (`signalr.js:1941`), which a poll
whose first answer is not 200 (3407) makes happen; `stopError` is never reset; a
handler that throws leaves the watchdog off on web sockets; the ping timer is not
armed again if it fires before the hub is Connected.

### Promises

`state`, `result` and `subscribers` are the fields of each promise; `queue`,
`scheduled`, `at` and `pos` say what is queued, whether a flush is coming, and how
far the flush and the publication in it have come; `running` is the callback that
runs, `loop` the call of `all()`, `race()` or await that goes on. A step is one
call, one entry of such a loop, one callback or one entry of the queue. `parent`,
`started`, `order`, `asked`, `meant` and `again` are history; `meant` is what a
promise was first settled or resolved with, by the page or by a loop that makes a
promise for an entry.

- `promises` (five promises; eleven setups: promises resolved with each other,
  callbacks of one promise and of each other, competing settlements, foreign
  objects with a `then`, `all()` and `race()` over promises and values, async
  functions; 281,214 states): `InOrder`, `NobodyIsForgotten`, `Follows`,
  `Answers`, `SettledIsFinal`.

Each setup allows the two to four calls whose overlap it is about; a further
callback or entry repeats the part of one that is there.

Seen while modelling: a promise that is resolved with a pending promise is not
locked in (`signalr.js:468`): called again, it is settled otherwise, against the
comment at 963. `Follows` excepts the promises whose functions are called again.
A promise can also be fulfilled with an object that has a `then()`, when that
object passes itself on (`signalr.js:444`). Whoever waits for such a promise asks
the object once more, and whoever comes later is given the object, so what `all()`
answers depends on when it was called; `Answers` speaks of entries that are
promises and plain values, and of promises that are not fulfilled with such an
object (`Plainly`).

### KnockoutGraph

`node` has, for each observable and computed, its value, version, subscriptions
in order, dependencies, and flags; `graph` is the view model: a computed reads
its `test`, and its `then` only when that gives 1, so that its dependencies
change, and may write the observable it `feeds`. `heard` is what each handler of
the page was told last; a handler may dispose of others. The order of the nodes'
ids, which the library gives out as computeds first read them, is part of the view
model; it decides in which order a computed checks the versions of what it read and
disposes of its subscriptions. Marks are renumbered at the end of a call, so that
there are finitely many states.

- `ko_graph` (75,484 states; seven view models: a diamond of plain and deferred
  computeds whose hearing ends one of them, pure computeds under a plain one with
  handlers that drop each other, rate limited and throttled ones, computeds
  that write what others or themselves read, bound to a node of the document,
  three pure computeds over each other, computeds over a rate limited
  observable, and a pure computed over a rate limited pure one):
  `NobodyIsStale`, `SubscribedToWhatItReads`, `DisposedIsSilent`, `LimitedIsHeard`.
  Fairness: a timer that is set runs (`TimersRun`, which is `WF_vars(Timers)` with
  its ENABLED written out, as the evaluation is recursive).

Values 0 and 1 and three computeds suffice for two or three levels, two paths to
one computed, and dependencies that come and go.

Seen while modelling: the code does leave computeds stale, in two cases.

- A pure computed that wakes with changed dependencies is evaluated when it no
  longer counts as sleeping and without notifying (line 1862), so that its value
  changes and its version does not (lines 1761-1765). A pure computed that has read
  it before compares versions (line 1858, and 1791 when read) and keeps its old
  value. With `P2 = pure(a)` and `P1 = pure(P2)`: read `P1`, write `a`, subscribe to
  `P2`, then read `P1` or subscribe to it. Read asleep or woken, `P1` is stale, and
  so are its subscribers, until `P2` changes again.
- A limited node changes, somebody reads it, and it changes back before its timer
  fires. There is no difference then and nobody is notified (lines 1140-1150): a
  computed that was evaluated in between keeps the value that was undone.

`untold` is a history of exactly these: the computeds that have read a value of a
node that may differ from the present one, with no version raised and no
notification since. `Overtaken(c)` says that `c` rests on such a node, directly or
not, and `NobodyIsStale`, `LimitedIsHeard` and the subscriptions of
`SubscribedToWhatItReads` except these computeds and nobody else. The last three
view models have both cases: without the exception TLC finds each of them.

Also, a handler that is notified, and writes, is told of its own write before
others are told of the first (lines 1091–1109), so that they hear the values in the
wrong order: handlers here dispose and do not write.

### KnockoutArrays

`array` is the underlying array, `track` what the tracking of changes keeps
(previous contents, pending notifications, cached differences, how many wrappers
of `notifySubscribers` there are), `subs` the subscribers of `change` in order, `limit` the
state of the rate limit; `mirror` is the copy each subscriber of `arrayChange`
keeps by applying what it is told. `dom` is a container with its children, its
template and the mapping of items to nodes; the container is an element, or a
pair of comments between other nodes, and an item's nodes may contain an `if` of
their own whose content comes and goes. A subscriber may cut the list, inside
the notification.

- `ko_arrays` (88,448 states; eight pages: shown, shown with nodes that stay for
  a while, tracked, tracked with a rate limit, shown with a rate limit, the list
  of messages of the crawler's page, and items with an `if` of their own, with
  arrays of up to two or three items; and a page that is shown and tracked and
  writes lists of 10 to 13 items): `MirrorsMatch`, `DomShowsList`,
  `GoneIsCleaned`, `NodesAreKept`.

Three items are enough for a move past another item, repetitions, and both
directions of `compareArrays`. The long lists are for the limit on the search for
moves, ten times as many failed comparisons in a row as the shorter list has items
(lines 5109 and 5198). An item that is not in the other list fails at most once with
each, so fewer than ten such items never reach the limit, and `NodesAreKept` says
that then every item that stays keeps its node. The lists have nine of them next
to three items that move (10 items to 12), where not starting the count again at
a match would already lose a node, and ten (10 items to 13), where the code
gives up and renders the moved items anew, as it means to (comment at 5196): what
is shown, cleaned and told must be right then too. `MaxWraps` lets tracking begin twice, which nests
its wrappers; `MaxLingering` bounds the nodes that wait to be removed.

Seen while modelling: a rate limit that is put on after tracking has begun tells
the last difference only; a second subscriber of `arrayChange` that comes while
a rate limit holds a change back is told of that change, although it started from
the array that has it; `dontLimitMoves` is ignored on one path (5129–5131
against 5198). The pages put the limit on first, and have no
second subscriber come while a change is held back; `NodesAreKept` is about
lists that are not limited.

## 4. What the models take from their surroundings

*Akka.NET.* Messages from one actor to another stay in order, are delivered at
most once, and those to a local actor are not lost. An exception restarts an
actor; its children survive where `PreRestart` says so, and its stash is returned
to its mailbox. Creating a child under a name in use throws. `UnstashAll` puts
the stash in front of the mailbox. A receive timeout is an ordinary message: it
can stand in the mailbox when the timeout is set anew. A timer's message is
dropped once the timer is cancelled. A stopped actor's messages are dead letters.
A round-robin pool sends the k-th message to routee k modulo its size.

*The browser.* A function runs to completion. Continuations of native promises
run in the order in which the promises were settled and before the next event.
Timers that are set fire at some time. A request is answered or fails. A socket
that has closed delivers nothing more. `Promises` does not assume the native
order: it is the library for browsers that have none, and models its own queue.

## 5. Proofs

TLC checks the bounds above; the following hold for all values of the constants.

`DownloadsMasterProofs`: from the assumption on the constants only (any finite
set of nodes, any jobs and requests, any number of crashes and losses),

- `TypeCorrect`: `Spec => []TypeOK`;
- `AcksNeverSkipZero`: `Spec => []SearchCountsDown`, so that the test
  `OutstandingAcknowledgments == 0` is reached by counting down.

Neither is inductive. `IInv` is the conjunction of `SearchOK` (a search has a
request of its own node, a count between one and the number of nodes, and a
router that knows the node itself), `ClusterOK` (nodes, incarnations and routee
lists) and `DataOK` (caches, questions and messages). That a count starts above
zero needs the node in its own routee list; that the list is never empty needs
the membership steps; that a null reference is never asked needs the guard on
the cache. There is one lemma per action, one for each step the handlers share
(`HandleRequestOK`, `BecomeReadyOK`, `RestartActorOK`, ...), and `NextIInv` puts
them together.

The second part of the module, with the assumption that the values standing for no
reference, no answer and a lost request are none of the references and differ
from each other (the instances use model values):

- `NoMixUp`: `Spec => []TrackersMatchJobs`;
- `NoRequestForgotten`: `Spec => []OpenRequestsAreHeld`;
- `DirectoryImplemented`: `Spec => ImplementsDirectory`: initial states map to
  initial states, and every step to a step of `TrackerDirectory` or a stutter.

`DInv` adds to `IInv` what the answers and caches are made from. `NetOK`,
`CacheOK`, `AsksOK` and `AnswersOK`: every reference in a message, a cache, a
question or an answer is that of a tracker created for the job it stands for, or
null after a crash; the caches alone would not do, as what enters them was in a
message before. `CreatedOK`: the children of an actor are the trackers created
under its incarnation, so that a tracker that is created is new. `HeldOK`: the
request a master serves, those returned to its mailbox and its stash share out
the open requests of its node. For the refinement there is one lemma for each step that
the directory sees: a request arrives (`RequestImplements`), a known tracker is
answered (`OnTrackerImplements`), a new one is created and answered
(`OnTrackerNotFoundImplements`), requests are given up with their master
(`RestartImplements`, `CrashImplements`); all others are stutters.

`ApiMasterProofs`, for any cluster, any commands and any number of crashes, late
answers, losses and ends of jobs:

- `TypesHold`: `Spec => []TypeOK`;
- `OneMaster`: `Spec => []OneCrawlMasterPerJob`;
- `CommandsKept`: `Spec => []StartsAreKept`.

The inductive invariant `AInv` (`SearchesInvariant`) has three parts. `TInv`: the
messages in each channel, mailbox and stash have the shape their senders give
them, and a timeout stands at the head of a mailbox. `SearchesOK`, of each search
of a job that is not muddled: `QuestionsOK` (one question at most to each node,
and nobody else has asked), `AnswersOK` (a node that said no runs no CrawlMaster;
one that runs one will be asked or has said so), `CountingOK` (at least as many
acknowledgements are outstanding as negative answers can still come), and
`CreatedOK` (after the last of them nothing is left but the master's own
`JobFound`). Together
they say that the last acknowledgement is counted only if nobody runs the job,
which is when a CrawlMaster is created. `HoldersOK` and `KeptOK` say where each
command is.

`DownloadsTrackerProofs`:

- `TypeCorrect`: `Spec => []TypeOK`;
- `ClaimsLastTheirTime`: `Spec => ClaimsLast`, assuming that the clock never
  gains on the time that passes. The invariant `ClockBehind` says that since a
  document was handed out the clock has advanced at most as far as the time, so
  that an overdue deadline means a claim whose time is over.

`CrawlPipelineProofs`, for any site and pool, any capacity of the streams, and any
number of coordinators that are lost or join, assuming that a page names each
document once, that there are finitely many documents and coordinators, and that
the values for no record and no timeout are not records or times:

- `TypeCorrect`: `Spec => []TypeOK`;
- `CountsConserved`: `Spec => []CountsAreConserved`;
- `NothingOvercounted`: `Spec => []NeverOvercounted`;
- `CopiesPerClaim`: `Spec => []OneCopyPerClaim`;
- `FinishedCrawlIsComplete`: `Spec => []FinishedIsComplete`.

The inductive invariant `IInv` (`CrawlInvariant`) is `FinishedIsComplete` and
`WorkOK`, which is about the work under way. `CountsOK` states the conservation of
discoveries, downloads and copies as sums of what each coordinator holds
(`FoundAt`, `LoggedAt`, `CopiesAt`), so that a step of one coordinator has to
balance only there (`CountsStep`, `CountsKept`); the answer of the tracker, which
goes to two routees, balances against what it records (`TrackerCheckCounts`). Four
parts are there for the ends of these sums: `PoolOK` (until a coordinator is lost
all routees run, so that no answer is lost), `ClaimsOK` (a document is recorded if
and only if it was claimed, and until time passes not claimed twice), `GoneAreEmpty`
(nothing is left at a coordinator that is gone), and `CopiesOK` itself: as no
document has more than its claim and the root one more, a stream with room for one
more than there are documents never drops one (`RoomForAll`). For completeness,
`Followed` says that the documents a downloaded page names are recorded, or asked
about, or about to be asked about, and `ReachOK` that nothing is under way that
cannot be reached. When the crawl is quiet (`QuietIsComplete`), the sums leave
`total` and the claims alone, what was claimed was downloaded, and what was
downloaded contains the root and is closed under links, which is what `Reachable`
means. The first sections of the module prove what sums, totals over sequences and
occurrences do under the operations of the model (`SumAdd`, `TotalSplit`,
`OfferAllKeeps`, `RouteTotals`, ...); no induction is needed, as sums are
cardinalities.

`CrawlMasterProofs`, for any clients and commands, any size of the pool and any
number of questions under way:

- `TypeCorrect`: `Spec => []TypeOK`;
- `RootOnce`: `Spec => []RootRequestedOnce`;
- `RootReaches`: `Spec => []RootReachesACoordinator`;
- `StartsHeld`: `Spec => []CommandsAreHeld`.

The inductive invariant `IInv` adds two things to them. `RootOK`: before
`Started` nothing was ordered, which makes one order the last. `Held`, of every
message in the mailbox and in the stash: a command to unsubscribe was sent by
its client, so that nobody else leaves `subscribers`; and the count in a
`CrawlCanStart` is not above the size of the pool as long as no coordinator was
lost, so that an answer that was stashed in between is still good when it is
used. `StartsLeft` says which start commands are left in the four ways a handler
moves the head of the mailbox; `HandlerStep` draws the conclusion for a handler
that orders nothing, `KickOffStep` for the one that does, `EventStep`,
`SendStep` and `PoolStep` for what happens around the actor.

`PromisesProofs`, for any promises, values, objects and calls:

- `TypeCorrect`: `Spec => []TypeOK`;
- `Invariant`: `Spec => []IInv`;
- `NobodyForgotten`: `Spec => []NobodyIsForgotten`;
- `SettledForGood`: `Spec => SettledIsFinal`.

`NobodyIsForgotten` speaks of the moment when the queue is empty. What holds in
between is `IInv`: `TurnOK` (the flush is at an entry of the queue or behind it,
and a callback that runs is the one whose turn it is), `FlushIsScheduled`,
`QueuedAreSettled` (what is queued is about a promise that is settled, so that
taking it from the queue loses nothing), `SubscribersWillHear` (a settled promise
with subscribers has its publication ahead in the queue) and
`CallbacksWillBeCalled` (each callback has been called, or is subscribed to a
pending promise, or stands behind the one that is called now, or is queued). The
effects that calls share (settle, subscribe, publish, take an entry) have lemmas
of their own, on which there is one lemma per action.

On top of it, in the same module:

- `CalledInOrder`: `Spec => []InOrder`.

`InOrder` compares callbacks that have been called. The inductive invariant
`Order` (`OrderInvariant`) compares all: `SubscribedInOrder` and `QueuedInOrder`
(the callbacks of a promise are subscribed, and queued, in the order of
`then()`), `SubscribedComeFirst` (what is queued was added after what is
subscribed, and stands behind the publication of the promise), `CalledInTurn`
(the callbacks that were called are those whose turn has come) and
`ChildrenAreMade` (a callback is added once). `EffectGrows` says once for all
steps in which way histories, queue and subscribers may grow.

`PromiseFollowsProofs`, on top of that, assuming that the value for nothing is none
of the values and records it is compared with, and that the array of `all()` is no
promise and has no `then()`:

- `InOneHand`: `Spec => []HandsInvariant`;
- `OutcomeFollows`: `Spec => []Follows`.

That a promise which was resolved with another one gets its outcome depends on
nobody else settling it in between. `Holds` names the five hands a promise can be
in: a subscriber that has not had its turn, an entry of the queue, a thenable
that has its functions, a callback or async function that runs or waits, and the
page. `OneHand` says that they are at most one, and that a promise in a hand is
pending, unless it is a promise of `all()` or `race()`, which has many, or the page
has called its functions twice. `LinksHold` is the conclusion: a promise resolved
with `q` is subscribed to `q`, or has its outcome, or `q` was fulfilled with an
object that is asked next. The rest of `HandsInvariant` keeps them apart:
`WaitingAreMade`, `OthersAreMade` and `SettledAreMade` (a new promise is in no
hand), `WaitingAreApart` and `OthersAreApart` (callbacks and the page do not hold
promises of `all()`), `OneIsAwaited` (an async function waits for one value, so
that its promise is not handed on twice), `AskingIsKnown`, and `NoPromiseIsValue`
(a promise is not fulfilled with a promise, so that the subscriber that passes an
outcome on settles the other one at once). Most steps hand one promise from one hand
to another, which is proved once (`HandMoves`, `PassedAlone`); what `resolve()` does
with its argument is proved for all callers (`ResolvePasses`, ...).

`PromiseAnswersProofs`, on top of that, assuming that a plain value has no
`then()` and can be asked for it (`PlainAssumption`: what else would be plain):

- `BaseHolds`: `Spec => []BaseInv`;
- `AllAndRaceAnswer`: `Spec => []Answers`.

`Answers` compares, when the queue is empty, an answer with the outcomes of the
entries and the order in which they came. On the way there an entry `i` of `p` can
be still to come in the loop (`ToCome`), have a subscriber that tells `p` of it
(`HeardFrom`: on the entry itself in `race()`, on a promise made for it in
`all()`), or have a callback in the queue (`HeardIn`). The invariant `WillAnswer(p)`
says of them:

- `SubscribersTell`, `QueueTells`, `NoObjectTells`: whoever tells `p` of something
  tells it the outcome of the entry it names (`TellsKept`);
- `NoneIsLost`, `NoneIsTwice`, `NotYet`, `CountIsRight`: an entry whose value is
  not in the array is waited for, in `all()` by one subscriber only; what is still
  to come is not waited for; `remaining` is the number of entries without a value
  (`CountedKept`). So `remaining` is zero exactly once, when nothing is left;
- `HeardInOrder`: of two entries that would settle `p`, the one that had its
  outcome earlier is ahead in the queue. In `all()` an entry reaches `p` in two
  steps, its own publication (`Comes`) and that of the promise made for it
  (`Told`), and the order has to be kept through both (`OrderKept`);
- `Answered`: a promise with an answer has the right one (`AnswerKept`).

`BaseInv` adds what does not depend on `p`: `OrderIsOnce`, `LoopIsFor` (the loop
runs to its end before anything else is settled, so that entries which are settled
in the loop were settled when the call was made) and `InnerIsFor` (what the loop
has made for its entry). A step acts for `p` in one of five ways or leaves
everything that is about `p` as it is (`StepCases`), and each part of the
invariant is proved along these cases; `NewAnswers` starts it when `p` is made.

Where these theorems give a type invariant, the cfg of the run leaves it out.

Only model-checked, and why:

- liveness (`RequestsAreAnswered`, `JobEnds`, `JobIsKickedOff`,
  `KickedOffJobStops`, `StartsAreAnswered`, `PromisesSettle`, `LimitedIsHeard`):
  fairness and ENABLED are out of the prover's reach;
- `OneTrackerPerJob` and `SettledCachesAgree`: they hold for one crash and one
  loss at a time and no slow peers, and an inductive invariant would have to
  tell apart which of them happened;
- `SignalRClient`: its invariant would have to name every pair of continuations
  that can be waiting at the same time, and `CloseIsTold` holds for a client that
  is stopped once;
- `KnockoutGraph` and `KnockoutArrays`: evaluation and `compareArrays` are
  recursive, and facts about them need induction over data.

## 6. What could follow

1. Proofs: the layers of `SignalRClient`.
2. The front end, composed with `ApiMaster` and `CrawlMaster`: what a browser is
   told of its job.
3. Writable computeds and exceptions in `Computeds`; a start during the stop of a
   long polling transport in `SignalRClient`.
4. The debugger: its sessions, the evaluator thread and breakpoints.

## 7. Not modelled

*Of the crawler.* Bootstrap, configuration, HOCON files and health endpoints (set
up once, no state afterwards); HTML parsing, URL handling and HTTP (a document
names others, and a download has content or not); throttling and the degree of
parallelism; the front end beyond its start commands, as its actors keep no
state. Byte counts are kept only as far as `IsEmpty` depends on them.
`UnsubscribeFromJob`, `SubscribeToJob` and `StopJob` are sent by nobody in this
repository except for the `SubscribeToJob` of an ApiMaster, but they are public
commands and `CrawlMaster` handles them, so the model sends them.

*Of the page.* Message formats, access tokens, logging and the HTTP clients of
SignalR; `finally`, subclasses and the choice of a scheduler of the promises;
Knockout's parser of bindings, its other bindings and named templates, writable
computeds, exceptions of read functions, and the events beforeChange, awake and
asleep; jQuery, form validation and date formatting, which keep nothing.

*The Java programs.*

| program | what it does | why it is not modelled |
|---|---|---|
| `order2cash-akka`, `order2cash-kafka`, `order2cash-ws`, `kafka-workflow` | a purchase order becomes, through buyer, supplier, inventory, logistics and bank, an invoice, a payment and a confirmation | a call after a call; what is hard is the one step from a watched directory into the workflow, a hazard in `PROJECT.json` (`BuyerActor.java:69`) |
| `debugger` | debugging sessions of a small script language over RMI | an evaluator thread and its client: worth a model, not done; a hazard (`SimpleScriptEvaluator.java:202`) |
| `rest-crud` | notes in a repository | one call of the repository after another; a hazard (`NoteController.java:87`) |
| `soap-talk` | a chat server that keeps the endpoints of its clients | one call after another |
| `soap-transformer`, `soap-transformer-async`, `soap-transformer-sync-and-async`, `transformer`, `xslt-flights`, `soap-hello`, `kafka-demo` | one answer, or one callback, to one request | pure functions |

Generated parsers, Docker, Kubernetes and CI files, CSS, sample programs and XML
have no behaviour over time.
