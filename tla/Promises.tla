------------------------------ MODULE Promises ------------------------------
(***************************************************************************)
(* The promises that come with the SignalR client (signalr.js holds the    *)
(* es6-promise library for browsers without promises) and the async        *)
(* functions that the client is written with.                              *)
(*                                                                         *)
(* Code of the page and of the client runs in an event, or when a callback *)
(* is called while the queue of callbacks is flushed; it makes promises,   *)
(* settles them and registers callbacks.  A step of this module is one     *)
(* such call, one entry of the loop of all() or race(), one callback, or   *)
(* one entry of the queue.  Events come at any time between two flushes:   *)
(* the flush is scheduled as a timer, a message or a microtask.            *)
(***************************************************************************)
EXTENDS Integers, Sequences, FiniteSets

CONSTANTS
  Promises,    \* promise objects; they are made one after the other
  Plain,       \* values without a method then
  Thenables,   \* objects of others with a method then
  Broken,      \* objects whose property then throws when it is read
  SelfFulfillment, CannotReturnOwn, GetThenError,  \* errors of the library
  None,        \* undefined, or nothing
  Setups       \* what the code of the page may do, see Setup

Errors == {SelfFulfillment, CannotReturnOwn, GetThenError}

\* The array that the promise p of all() is fulfilled with.
ArrayOf(p) == <<p>>

Values == Promises \cup Plain \cup Thenables \cup Broken \cup Errors
         \cup {ArrayOf(p) : p \in Promises}

\* calls: how often each function may be called; made: the promises that the
\* page has made at the start; values, and promises, are what it hands over.
Calls == {"new", "resolve", "reject", "then", "all", "race", "async", "adoption"}
Setup == [calls : [Calls -> Nat], made : Seq(Promises), values : SUBSET (Values \ Promises),
          promises : BOOLEAN]

\* What is done when a promise is settled: a callback of then(), the rest of
\* an async function, the settling of a promise that was resolved with this
\* one, or that of a promise of all() or race().  to is the promise that is
\* settled with the outcome.
Kinds      == {"then", "async", "adopt", "entry", "race"}
Subscriber == [kind : Kinds, to : Promises, i : Nat,
               fulfilled : BOOLEAN, rejected : BOOLEAN]

\* Entries of the queue: publish(promise), invokeCallback() for one callback,
\* and the call of a thenable's then().
Jobs == [type : {"publish"}, promise : Promises]
          \cup [type : {"invoke"}, promise : Promises, subscriber : Subscriber]
          \cup [type : {"thenable"}, promise : Promises, thenable : Thenables]

\* The call of all(), race() or await that goes through its entries; inner is
\* the promise made for the entry, or the entry itself.
Loop == [kind : {"all", "race", "async"}, to : Promises, entries : Seq(Values),
         i : Nat \ {0}, inner : Promises \cup {None}]

\* A thenable's then() runs: it was given the functions adoptions[i].
Asking == [kind : {"thenable"}, to : Promises, i : Nat]

\* The functions that a thenable was given, to settle promise with.
Adoption == [promise : Promises, thenable : Thenables, sealed : BOOLEAN]

\* History: what a promise was first settled with, what all() and race() were
\* asked and how many promises were settled then.
Meaning  == {"fulfilled", "rejected"} \X Values
Question == [kind : {"all", "race", "async"}, entries : Seq(Values), since : Nat]

ASSUME PromisesAssumption ==
  /\ Setups \subseteq Setup
  /\ None \notin Values \cup Subscriber \cup Asking \cup Loop \cup Meaning \cup Question
  /\ Promises \cap (Thenables \cup Broken \cup Plain) = {}

\* Plain values have no method then, and it can be asked for.
ASSUME PlainAssumption == Plain \cap (Thenables \cup Broken) = {}

\* An array is no promise, and has no method then.
ASSUME ArraysAssumption ==
  \A p \in Promises : ArrayOf(p) \notin Promises \cup Thenables \cup Broken

VARIABLES
  made,         \* the promises made so far, in order
  state,        \* _state
  result,       \* _result
  subscribers,  \* _subscribers
  queue,        \* queue: what flush() will do and what it has done
  scheduled,    \* a flush is scheduled
  at,           \* flush() does queue[at], 0 when it does not run
  pos,          \* publish() has come to this subscriber
  running,      \* the callback that runs
  loop,         \* the call of all(), race() or await that goes on
  remaining,    \* _remaining of the enumerator of a promise of all()
  array,        \* _result of the enumerator
  adoptions,    \* what thenables were given
  open,         \* promises whose resolve and reject functions the page has
  left,         \* calls that the page may still make
  setup,        \* what the page may do
  parent,       \* history: the promise whose then() made this one
  started,      \* history: promises whose callback was called, in order
  order,        \* history: promises in the order they were settled
  asked,        \* history: what all() and race() were asked
  meant,        \* history: what a promise was first settled or resolved with
  again         \* history: promises that the page settled more than once

core    == <<state, result, subscribers>>
queueV  == <<queue, scheduled>>
flushV  == <<at, pos, running>>
others  == <<loop, remaining, array, adoptions>>
history == <<parent, started, asked, meant, again>>
vars == <<core, queueV, flushV, others, history, made, open, left, setup, order>>

Pending(p) == state[p] = "pending"
Settled(p) == state[p] \in {"fulfilled", "rejected"}
Made == {made[i] : i \in DOMAIN made}

\* No function of the library runs that the page's code would wait for.
PageRuns == loop = None /\ (running # None \/ at = 0)
Quiet    == loop = None /\ at = 0 /\ queue = <<>>

-----------------------------------------------------------------------------
\* The queue.

Publish(p)     == [type |-> "publish", promise |-> p]
Invoke(p, s)   == [type |-> "invoke", promise |-> p, subscriber |-> s]
AskThenable(p, t) == [type |-> "thenable", promise |-> p, thenable |-> t]

\* asap(): the first entry schedules a flush.
Asap(job) ==
  /\ queue' = Append(queue, job)
  /\ scheduled' = (scheduled \/ queue = <<>>)

-----------------------------------------------------------------------------
\* Settling a promise.

\* Mutation: a promise can be settled twice.
SettleAnyway(p, outcome, v) ==
  /\ state' = [state EXCEPT ![p] = outcome]
  /\ result' = [result EXCEPT ![p] = v]
  /\ order' = Append(order, p)
  /\ Asap(Publish(p))
  /\ UNCHANGED subscribers

\* fulfill() and reject(), which schedules a flush even without subscribers.
Settle(p, outcome, v) ==
  \/ /\ ~Pending(p)
     /\ UNCHANGED <<core, queueV, order>>
  \/ /\ Pending(p)
     /\ state' = [state EXCEPT ![p] = outcome]
     /\ result' = [result EXCEPT ![p] = v]
     /\ order' = Append(order, p)
     /\ UNCHANGED subscribers
     /\ IF outcome = "rejected" \/ subscribers[p] # <<>>
        THEN Asap(Publish(p))
        ELSE UNCHANGED queueV

Fulfill(p, v) == Settle(p, "fulfilled", v)
Reject(p, v)  == Settle(p, "rejected", v)

\* Mutation: the latest subscriber comes first.
SubscribeFirst(p, s) ==
  /\ subscribers' = [subscribers EXCEPT ![p] = <<s>> \o @]
  /\ UNCHANGED <<state, result, order, queueV>>

\* subscribe(): the first subscriber of a settled promise has it published.
Subscribe(p, s) ==
  /\ subscribers' = [subscribers EXCEPT ![p] = Append(@, s)]
  /\ UNCHANGED <<state, result, order>>
  /\ IF subscribers[p] = <<>> /\ Settled(p) THEN Asap(Publish(p)) ELSE UNCHANGED queueV

Adopt(p) == [kind |-> "adopt", to |-> p, i |-> 0, fulfilled |-> TRUE, rejected |-> TRUE]

\* Mutation: the reason of a rejected promise becomes a value.
AdoptValue(p, q) ==
  IF Pending(q) THEN Subscribe(q, Adopt(p)) ELSE Fulfill(p, result[q])

\* handleOwnThenable()
HandleOwnThenable(p, q) ==
  IF Pending(q) THEN Subscribe(q, Adopt(p)) ELSE Settle(p, state[q], result[q])

\* handleForeignThenable(): then() is called later.
HandleForeignThenable(p, t) ==
  /\ Asap(AskThenable(p, t))
  /\ UNCHANGED <<core, order>>

\* resolve() with getThen() and handleMaybeThenable()
Resolve(p, v) ==
  \/ v = p /\ Reject(p, SelfFulfillment)
  \/ v \in Promises \ {p} /\ HandleOwnThenable(p, v)
  \/ v \in Broken /\ Reject(p, GetThenError)
  \/ v \in Thenables /\ HandleForeignThenable(p, v)
  \/ v \in Values \ (Promises \cup Broken \cup Thenables) /\ Fulfill(p, v)

\* then() of a promise: s is subscribed, or called by the next flush.
ThenDo(p, s) ==
  IF Pending(p) THEN Subscribe(p, s)
  ELSE Asap(Invoke(p, s)) /\ UNCHANGED <<core, order>>

-----------------------------------------------------------------------------
\* Calls that the page makes.

MayCall(f)  == PageRuns /\ left[f] > 0
Called(f)   == left' = [left EXCEPT ![f] = @ - 1]
Given       == setup.values \cup (IF setup.promises THEN Made ELSE {})
CanMake     == Made # Promises
Fresh       == CHOOSE p \in Promises \ Made : TRUE
NowMade(p)  == made' = Append(made, p)

\* The first call of the functions of a promise is what it is meant to become.
Means(p, outcome, v) ==
  IF meant[p] = None
  THEN meant' = [meant EXCEPT ![p] = <<outcome, v>>] /\ UNCHANGED again
  ELSE again' = again \cup {p} /\ UNCHANGED meant

\* new Promise(resolver): the page keeps the two functions.  What it calls
\* in the resolver, and the exception that leaves it, are calls of them.
NewPromise ==
  /\ MayCall("new") /\ CanMake
  /\ NowMade(Fresh)
  /\ open' = open \cup {Fresh}
  /\ Called("new")
  /\ UNCHANGED <<core, order, queueV, flushV, others, history, setup>>

\* A function of the promise is called: resolvePromise(), rejectPromise().
ResolvePromise(p, v) ==
  /\ MayCall("resolve") /\ p \in open
  /\ Resolve(p, v)
  /\ Means(p, "fulfilled", v)
  /\ Called("resolve")
  /\ UNCHANGED <<flushV, others, made, open, setup, parent, started, asked>>

RejectPromise(p, v) ==
  /\ MayCall("reject") /\ p \in open
  /\ Reject(p, v)
  /\ Means(p, "rejected", v)
  /\ Called("reject")
  /\ UNCHANGED <<flushV, others, made, open, setup, parent, started, asked>>

\* then(), and catch(), which gives it no first function.
Then(p, fulfilled, rejected) ==
  /\ MayCall("then") /\ p \in Made /\ CanMake
  /\ ThenDo(p, [kind |-> "then", to |-> Fresh, i |-> 0,
                fulfilled |-> fulfilled, rejected |-> rejected])
  /\ NowMade(Fresh)
  /\ parent' = [parent EXCEPT ![Fresh] = p]
  /\ Called("then")
  /\ UNCHANGED <<flushV, others, open, setup, started, asked, meant, again>>

\* all(), race() and an async function that awaits a value make a promise
\* and go through what they are given, one entry for each step.
Begin(kind, entries) ==
  /\ MayCall(kind)
  /\ Cardinality(Promises \ Made) > Len(entries)    \* bound: one for each
  /\ NowMade(Fresh)
  /\ loop' = [kind |-> kind, to |-> Fresh, entries |-> entries, i |-> 1, inner |-> None]
  /\ remaining' = [remaining EXCEPT ![Fresh] = Len(entries)]
  /\ array' = [array EXCEPT ![Fresh] = [i \in DOMAIN entries |-> None]]
  /\ asked' = [asked EXCEPT ![Fresh] =
                 [kind |-> kind, entries |-> entries, since |-> Len(order)]]
  /\ Called(kind)
  /\ UNCHANGED <<core, order, queueV, flushV, adoptions, open, setup, parent, started, meant, again>>

\* A thenable calls one of the functions that it was given: only the first
\* call counts.
ThenableCalls(k, outcome, v) ==
  /\ MayCall("adoption") /\ k \in DOMAIN adoptions
  /\ Called("adoption")
  /\ adoptions' = [adoptions EXCEPT ![k].sealed = TRUE]
  /\ LET a == adoptions[k] IN
     \/ a.sealed /\ UNCHANGED <<core, order, queueV>>
     \/ ~a.sealed /\ outcome = "rejected" /\ Reject(a.promise, v)
     \/ ~a.sealed /\ outcome = "fulfilled" /\ v = a.thenable /\ Fulfill(a.promise, v)
     \/ ~a.sealed /\ outcome = "fulfilled" /\ v # a.thenable /\ Resolve(a.promise, v)
  /\ UNCHANGED <<flushV, loop, remaining, array, made, open, setup, history>>


-----------------------------------------------------------------------------
\* The loops of all(), race() and await.

Entry  == loop.entries[loop.i]
InLoop == loop # None /\ loop.i <= Len(loop.entries)
NextEntry == loop' = [loop EXCEPT !.i = @ + 1, !.inner = None]

\* Mutation: a reason is taken for a value.
SettledAtAny(p, i, outcome, v) ==
  /\ remaining' = [remaining EXCEPT ![p] = @ - 1]
  /\ array' = [array EXCEPT ![p][i] = v]
  /\ IF remaining[p] = 1 THEN Fulfill(p, ArrayOf(p))
     ELSE UNCHANGED <<core, order, queueV>>

\* _settledAt()
SettledAt(p, i, outcome, v) ==
  \/ /\ ~Pending(p)
     /\ UNCHANGED <<core, order, queueV, remaining, array>>
  \/ /\ Pending(p) /\ outcome = "rejected"
     /\ remaining' = [remaining EXCEPT ![p] = @ - 1]
     /\ Reject(p, v)
     /\ UNCHANGED array
  \/ /\ Pending(p) /\ outcome = "fulfilled"
     /\ remaining' = [remaining EXCEPT ![p] = @ - 1]
     /\ array' = [array EXCEPT ![p][i] = v]
     /\ IF remaining[p] = 1 THEN Fulfill(p, ArrayOf(p))
        ELSE UNCHANGED <<core, order, queueV>>

\* _eachEntry(): a promise that is settled, or a value without then().
SettledEntry ==
  /\ InLoop /\ loop.kind = "all" /\ loop.inner = None
  /\ \/ /\ Entry \in Promises /\ Settled(Entry)
        /\ SettledAt(loop.to, loop.i, state[Entry], result[Entry])
     \/ /\ Entry \notin Promises \cup Thenables
        /\ remaining' = [remaining EXCEPT ![loop.to] = @ - 1]
        /\ array' = [array EXCEPT ![loop.to][loop.i] = Entry]
        /\ UNCHANGED <<core, order, queueV>>
  /\ NextEntry
  /\ UNCHANGED <<flushV, adoptions, made, open, left, setup, history>>

\* race(): Promise.resolve() returns a promise as it is.
OwnEntry ==
  /\ InLoop /\ loop.kind = "race" /\ loop.inner = None
  /\ Entry \in Promises
  /\ loop' = [loop EXCEPT !.inner = Entry]
  /\ UNCHANGED <<core, order, queueV, flushV, remaining, array, adoptions, made, open, left, setup, history>>

\* What has to be waited for gets a promise of its own: an entry of all()
\* that is not settled, one of race() that is no promise, what is awaited.
WrapEntry ==
  /\ InLoop /\ loop.inner = None
  /\ \/ loop.kind = "all" /\ Entry \in Promises /\ Pending(Entry)
     \/ loop.kind = "all" /\ Entry \in Thenables
     \/ loop.kind = "race" /\ Entry \notin Promises
     \/ loop.kind = "async"
  /\ CanMake
  /\ NowMade(Fresh)
  /\ Resolve(Fresh, Entry)
  /\ meant' = [meant EXCEPT ![Fresh] = <<"fulfilled", Entry>>]
  /\ loop' = [loop EXCEPT !.inner = Fresh]
  /\ UNCHANGED <<flushV, remaining, array, adoptions, open, left, setup, parent, started, asked, again>>

Awaiter(kind) ==
  [kind |-> kind, to |-> loop.to, i |-> loop.i, fulfilled |-> TRUE, rejected |-> TRUE]

\* _willSettleAt(), and the call of then() in race() and __awaiter().
WaitForEntry ==
  /\ InLoop /\ loop.inner # None
  /\ \/ loop.kind = "all" /\ Subscribe(loop.inner, Awaiter("entry"))
     \/ loop.kind = "race" /\ ThenDo(loop.inner, Awaiter("race"))
     \/ loop.kind = "async" /\ ThenDo(loop.inner, Awaiter("async"))
  /\ NextEntry
  /\ UNCHANGED <<flushV, remaining, array, adoptions, made, open, left, setup, history>>

\* The next entry of the queue, or of the subscribers of the promise.
Advance ==
  IF queue[at].type = "publish"
  THEN pos' = pos + 1 /\ UNCHANGED at
  ELSE at' = at + 1 /\ UNCHANGED pos

\* The loop is over; an async function that has come to await is suspended.
EndLoop ==
  /\ loop # None /\ loop.i > Len(loop.entries)
  /\ IF loop.kind = "all" /\ remaining[loop.to] = 0
     THEN Fulfill(loop.to, ArrayOf(loop.to))
     ELSE UNCHANGED <<core, order, queueV>>
  /\ loop' = None
  /\ IF loop.kind = "async" /\ running # None /\ running.kind = "async" /\ running.to = loop.to
     THEN running' = None /\ Advance
     ELSE UNCHANGED flushV
  /\ UNCHANGED <<remaining, array, adoptions, made, open, left, setup, history>>

-----------------------------------------------------------------------------
\* flush()

FlushRuns == loop = None /\ running = None /\ at \in DOMAIN queue
Job == queue[at]

StartFlush ==
  /\ loop = None /\ at = 0 /\ scheduled
  /\ scheduled' = FALSE
  /\ at' = 1
  /\ UNCHANGED <<core, order, queue, pos, running, others, made, open, left, setup, history>>

\* Mutation: len is not set to 0.
KeepQueue ==
  /\ loop = None /\ running = None /\ at > Len(queue)
  /\ at' = 0
  /\ UNCHANGED <<core, order, queueV, pos, running, others, made, open, left, setup, history>>

EndFlush ==
  /\ loop = None /\ running = None /\ at > Len(queue)
  /\ queue' = <<>>
  /\ at' = 0
  /\ UNCHANGED <<core, order, scheduled, pos, running, others, made, open, left, setup, history>>

HasCallback(s, p) == IF state[p] = "fulfilled" THEN s.fulfilled ELSE s.rejected

\* invokeCallback(), or the call of a function of the library, for the
\* outcome of p.  A callback of the page starts to run.
Call(s, p) ==
  \/ /\ s.kind = "then" /\ HasCallback(s, p)
     /\ running' = s
     /\ started' = Append(started, s.to)
     /\ UNCHANGED <<core, order, queueV, at, pos, remaining, array>>
  \/ /\ s.kind = "async"
     /\ running' = s
     /\ UNCHANGED <<core, order, queueV, at, pos, remaining, array, started>>
  \/ /\ s.kind = "then" /\ ~HasCallback(s, p)
     /\ Settle(s.to, state[p], result[p])
     /\ started' = Append(started, s.to)
     /\ Advance
     /\ UNCHANGED <<running, remaining, array>>
  \/ /\ s.kind \in {"adopt", "race"}
     /\ IF state[p] = "fulfilled" THEN Resolve(s.to, result[p]) ELSE Reject(s.to, result[p])
     /\ Advance
     /\ UNCHANGED <<running, remaining, array, started>>
  \/ /\ s.kind = "entry"
     /\ SettledAt(s.to, s.i, state[p], result[p])
     /\ Advance
     /\ UNCHANGED <<running, started>>

\* publish(): the subscribers are called in turn, and forgotten at the end.
PublishNext ==
  /\ FlushRuns /\ Job.type = "publish"
  /\ pos <= Len(subscribers[Job.promise])
  /\ Call(subscribers[Job.promise][pos], Job.promise)
  /\ UNCHANGED <<loop, adoptions, made, open, left, setup, parent, asked, meant, again>>

EndPublish ==
  /\ FlushRuns /\ Job.type = "publish"
  /\ pos > Len(subscribers[Job.promise])
  /\ subscribers' = [subscribers EXCEPT ![Job.promise] = <<>>]
  /\ at' = at + 1
  /\ pos' = 1
  /\ UNCHANGED <<state, result, order, queueV, running, others, made, open, left, setup, history>>

InvokeNext ==
  /\ FlushRuns /\ Job.type = "invoke"
  /\ Call(Job.subscriber, Job.promise)
  /\ UNCHANGED <<loop, adoptions, made, open, left, setup, parent, asked, meant, again>>

\* tryThen(): then() of the thenable runs, and may call what it is given.
ThenableNext ==
  /\ FlushRuns /\ Job.type = "thenable"
  /\ adoptions' = Append(adoptions, [promise |-> Job.promise, thenable |-> Job.thenable, sealed |-> FALSE])
  /\ running' = [kind |-> "thenable", to |-> Job.promise, i |-> Len(adoptions) + 1]
  /\ UNCHANGED <<core, order, queueV, at, pos, loop, remaining, array, made, open, left, setup, history>>

\* A callback ends, by returning a value or by an exception.
Return(v) ==
  /\ loop = None /\ running # None
  /\ running' = None /\ Advance
  /\ LET c == running.to IN
     \/ /\ running.kind = "thenable" /\ v = None
        /\ UNCHANGED <<core, order, queueV, meant, again>>
     \/ /\ running.kind = "then" /\ v = c
        /\ Reject(c, CannotReturnOwn)
        /\ Means(c, "rejected", CannotReturnOwn)
     \/ /\ \/ running.kind = "then" /\ v # c /\ Pending(c)
           \/ running.kind = "async"
        /\ v # None
        /\ Resolve(c, v)
        /\ Means(c, "fulfilled", v)
  /\ UNCHANGED <<others, made, open, left, setup, parent, started, asked>>

Throw(v) ==
  /\ loop = None /\ running # None
  /\ running' = None /\ Advance
  /\ \/ /\ running.kind \in {"then", "async"}
        /\ Reject(running.to, v)
        /\ Means(running.to, "rejected", v)
        /\ UNCHANGED adoptions
     \/ /\ running.kind = "thenable" /\ adoptions[running.i].sealed
        /\ UNCHANGED <<core, order, queueV, adoptions, meant, again>>
     \/ /\ running.kind = "thenable" /\ ~adoptions[running.i].sealed
        /\ adoptions' = [adoptions EXCEPT ![running.i].sealed = TRUE]
        /\ Reject(running.to, v)
        /\ UNCHANGED <<meant, again>>
  /\ UNCHANGED <<loop, remaining, array, made, open, left, setup, parent, started, asked>>

\* An async function that was resumed awaits another value.
AwaitAgain(v) ==
  /\ MayCall("async") /\ CanMake
  /\ running # None /\ running.kind = "async"
  /\ loop' = [kind |-> "async", to |-> running.to, entries |-> <<v>>, i |-> 1, inner |-> None]
  /\ Called("async")
  /\ UNCHANGED <<core, order, queueV, flushV, remaining, array, adoptions, made, open, setup, history>>

-----------------------------------------------------------------------------
NoPromise(x) == [p \in Promises |-> x]

Init ==
  /\ setup \in Setups
  /\ left = setup.calls
  /\ made = setup.made /\ open = Made /\ adoptions = <<>>
  /\ state = NoPromise("pending") /\ result = NoPromise(None)
  /\ subscribers = NoPromise(<<>>)
  /\ queue = <<>> /\ scheduled = FALSE
  /\ at = 0 /\ pos = 1 /\ running = None /\ loop = None
  /\ remaining = NoPromise(0) /\ array = NoPromise(<<>>)
  /\ parent = NoPromise(None) /\ asked = NoPromise(None) /\ meant = NoPromise(None)
  /\ started = <<>> /\ order = <<>> /\ again = {}

\* What the page may do.
Page ==
  \/ NewPromise
  \/ \E p \in open, v \in Given : ResolvePromise(p, v)
  \/ \E p \in open, v \in setup.values : RejectPromise(p, v)
  \/ \E p \in Made, f, r \in BOOLEAN : Then(p, f, r)
  \/ \E kind \in {"all", "race"}, v, w \in Given : Begin(kind, <<v, w>>)
  \/ \E kind \in {"all", "race"} : Begin(kind, <<>>)
  \/ \E v \in Given : Begin("async", <<v>>) \/ AwaitAgain(v)
  \/ \E k \in DOMAIN adoptions, v \in Given, outcome \in {"fulfilled", "rejected"} :
       ThenableCalls(k, outcome, v)

\* What the library and the callbacks do by themselves.
Library ==
  \/ SettledEntry \/ OwnEntry \/ WrapEntry \/ WaitForEntry \/ EndLoop
  \/ StartFlush \/ EndFlush \/ PublishNext \/ EndPublish \/ InvokeNext \/ ThenableNext
  \/ \E v \in Given \cup {None} : Return(v)
  \/ \E v \in setup.values : Throw(v)

Next == Page \/ Library

Spec == Init /\ [][Next]_vars

-----------------------------------------------------------------------------
\* Properties.

\* The variables have the types of the library's fields.
TypeOK ==
  /\ setup \in Setups
  /\ left \in [Calls -> Nat]
  /\ made \in Seq(Promises)
  /\ state \in [Promises -> {"pending", "fulfilled", "rejected"}]
  /\ result \in [Promises -> Values \cup {None}]
  /\ subscribers \in [Promises -> Seq(Subscriber)]
  /\ queue \in Seq(Jobs)
  /\ scheduled \in BOOLEAN
  /\ at \in Nat /\ pos \in Nat \ {0}
  /\ running \in {None} \cup Subscriber \cup Asking
  /\ loop \in {None} \cup Loop
  /\ remaining \in [Promises -> Int]
  /\ adoptions \in Seq(Adoption)
  /\ open \subseteq Promises
  /\ parent \in [Promises -> Promises \cup {None}]
  /\ started \in Seq(Promises)

\* "A promise can be in one of three states: pending, fulfilled, or rejected"
\* (signalr.js:957), and the settled one is "the final resting state"
\* (signalr.js:955): whoever still holds its functions, the outcome and the
\* value of a promise stay.
SettledIsFinal ==
  [][\A p \in Promises : Settled(p) => state'[p] = state[p] /\ result'[p] = result[p]]_vars

Place(p) == CHOOSE i \in DOMAIN made : made[i] = p

\* Callbacks of one promise are called in the order in which they were
\* registered, each once, whether they came before or after the outcome.
InOrder ==
  \A j \in DOMAIN started :
    /\ \A i \in 1..j-1 : started[i] # started[j]
    /\ \A c \in Made : parent[c] = parent[started[j]] /\ Place(c) < Place(started[j])
                        => \E i \in 1..j-1 : started[i] = c

\* What waits in the queue will be done: a flush is scheduled, or runs.
FlushIsScheduled == at = 0 /\ queue # <<>> => scheduled

\* The callback that was given to make c has been called.
IsStarted(c) == \E i \in DOMAIN started : started[i] = c

\* Nobody is forgotten: a queue that is not empty will be flushed, and when
\* it is empty, nobody waits for the outcome of a settled promise.
NobodyIsForgotten ==
  /\ FlushIsScheduled
  /\ Quiet => \A p \in Made : Settled(p) =>
       /\ subscribers[p] = <<>>
       /\ \A c \in Made : parent[c] = p => IsStarted(c)

\* p was first settled by resolving it with the promise q.
FirstFollows(p, q) == q # p /\ meant[p] = <<"fulfilled", q>>

SameOutcome(p, q) == Settled(q) /\ state[p] = state[q] /\ result[p] = result[q]

\* "If this value is also a promise, then the original promise's settled
\* state will match the value's settled state" (signalr.js:963), when nobody
\* calls the functions of the promise again.  (A promise whose value is an
\* object with a method then asks that object once more.)
Follows ==
  \A p, q \in Made : FirstFollows(p, q) /\ p \notin again /\ result[q] \notin Thenables =>
    /\ Settled(p) => SameOutcome(p, q)
    /\ Quiet /\ Settled(q) => Settled(p)

\* The outcome of an entry of all() and race(), and when it was there: at
\* the call, in the order of the entries, or later.
Outcome(e) == IF e \in Promises THEN state[e] ELSE "fulfilled"
Value(e)   == IF e \in Promises THEN result[e] ELSE e
When(a, i) ==
  LET e == a.entries[i]
      settledAt == {n \in DOMAIN order : order[n] = e}
  IN  IF e \notin Promises \/ \E n \in settledAt : n <= a.since THEN i
      ELSE Len(a.entries) + (CHOOSE n \in settledAt : TRUE)

\* The first of the entries in I.
FirstOf(a, I) == CHOOSE i \in I : \A j \in I : When(a, i) <= When(a, j)

Entries(a)     == DOMAIN a.entries
With(a, what)  == {i \in Entries(a) : Outcome(a.entries[i]) = what}
Ends(p, what, v) == state[p] = what /\ result[p] = v

\* all() is fulfilled with the values of all entries, in their order, or
\* rejected with the reason of the first one that is rejected.
AllAnswers(p, a) ==
  \/ With(a, "rejected") # {} /\ Ends(p, "rejected", Value(a.entries[FirstOf(a, With(a, "rejected"))]))
  \/ /\ With(a, "fulfilled") = Entries(a)
     /\ Ends(p, "fulfilled", ArrayOf(p))
     /\ array[p] = [i \in Entries(a) |-> Value(a.entries[i])]
  \/ With(a, "rejected") = {} /\ With(a, "pending") # {} /\ Pending(p)

\* race() is settled as the first entry that is settled.
RaceAnswers(p, a) ==
  LET done == Entries(a) \ With(a, "pending")
      e == a.entries[FirstOf(a, done)]
  IN  IF done = {} THEN Pending(p) ELSE Ends(p, Outcome(e), Value(e))

\* What was asked for is promises and plain values.  (A promise that is
\* fulfilled with an object that has a then() is not: who waits for it asks
\* that object again, and who comes later is given the object.)
Plainly(a) ==
  \A i \in Entries(a) :
    /\ a.entries[i] \in Promises \cup Plain
    /\ Outcome(a.entries[i]) = "fulfilled" => Value(a.entries[i]) \notin Thenables

\* When the queue is empty, all() and race() have answered as promised.
Answers ==
  Quiet => \A p \in Made :
    asked[p] # None /\ Plainly(asked[p]) =>
      /\ asked[p].kind = "all" => AllAnswers(p, asked[p])
      /\ asked[p].kind = "race" => RaceAnswers(p, asked[p])

=============================================================================
