------------------------- MODULE PromiseFollowsProofs -----------------------
(***************************************************************************)
(* A promise that was resolved with another promise gets the outcome of    *)
(* that one, for any promises, objects and calls.  What has to be known    *)
(* for that is who else may settle it: a promise that is not one of all()  *)
(* or race() is in at most one hand, which is a subscriber, an entry of    *)
(* the queue, a thenable, a function that runs or waits, or the page.      *)
(***************************************************************************)
EXTENDS PromisesProofs

USE PromisesAssumption
-----------------------------------------------------------------------------
(* Who may settle a promise. *)

\* The i-th subscriber of q will settle p, or call the one that will.
WillBeTold(q, i, p) ==
  /\ q \in Promises /\ i \in DOMAIN subscribers[q]
  /\ ~SubscriberHadTurn(q, i) /\ subscribers[q][i].to = p

\* The entry of the queue is about p.
Serves(job, p) ==
  \/ job.type = "invoke" /\ job.subscriber.to = p
  \/ job.type = "thenable" /\ job.promise = p

WillBeDone(i, p) == i \in DOMAIN queue /\ ~EntryHadTurn(i) /\ Serves(queue[i], p)

\* A thenable has functions of p, and has called none.
MayCallBack(i, p) ==
  i \in DOMAIN adoptions /\ ~adoptions[i].sealed /\ adoptions[i].promise = p

\* The async function of p is about to await a value, or awaits it.
Awaits(p) == loop # None /\ loop.kind = "async" /\ loop.to = p

\* A callback, or an async function, whose outcome is that of p runs.
GoesOnFor(p) ==
  \/ InLoop /\ Awaits(p)
  \/ running # None /\ running.kind \in {"then", "async"} /\ running.to = p /\ ~Awaits(p)

Hands == {"subscriber", "entry", "thenable", "function", "page"}

Holds(hand, q, i, p) ==
  \/ hand = "subscriber" /\ WillBeTold(q, i, p)
  \/ hand = "entry" /\ q = None /\ WillBeDone(i, p)
  \/ hand = "thenable" /\ q = None /\ MayCallBack(i, p)
  \/ hand = "function" /\ q = None /\ i = 0 /\ GoesOnFor(p)
  \/ hand = "page" /\ q = None /\ i = 0 /\ p \in open /\ meant[p] = None

\* p is pending as long as somebody may settle it, and that is one.
Alone(p) ==
  \A g, h \in Hands, q, r \in Promises \cup {None}, i, j \in Nat :
    Holds(g, q, i, p) =>
      /\ Pending(p)
      /\ Holds(h, r, j, p) => g = h /\ q = r /\ i = j

-----------------------------------------------------------------------------
(* The inductive invariant. *)

\* p is a promise of all() or race(), which many may settle.
Many(p) == asked[p] # None /\ asked[p].kind \in {"all", "race"}

\* Whatever is about a promise is about one that was made.
WaitingAreMade ==
  /\ \A q \in Promises : \A i \in DOMAIN subscribers[q] : subscribers[q][i].to \in Made
  /\ \A i \in DOMAIN queue : \A p \in Promises : Serves(queue[i], p) => p \in Made

OthersAreMade ==
  /\ \A i \in DOMAIN adoptions : adoptions[i].promise \in Made
  /\ running # None => running.to \in Made
  /\ loop # None => loop.to \in Made
  /\ open \subseteq Made
  /\ \A p \in Promises : meant[p] # None \/ asked[p] # None => p \in Made

SettledAreMade == \A p \in Promises : ~Pending(p) => p \in Made

OfFunction(s) == s.kind \in {"then", "async"}

\* What all() and race() return is not the promise of a callback, of an
\* async function or of the page.
WaitingAreApart ==
  \A p \in Promises : Many(p) =>
    /\ \A q \in Promises : \A i \in DOMAIN subscribers[q] :
         OfFunction(subscribers[q][i]) => subscribers[q][i].to # p
    /\ \A i \in DOMAIN queue : queue[i].type = "invoke" /\ OfFunction(queue[i].subscriber)
         => queue[i].subscriber.to # p

OthersAreApart ==
  /\ \A p \in Promises : Many(p) =>
       /\ p \notin open /\ meant[p] = None
       /\ running # None /\ OfFunction(running) => running.to # p
       /\ ~Awaits(p)
  /\ loop # None /\ loop.kind # "async" => Many(loop.to)

\* An async function awaits one value.
OneIsAwaited ==
  /\ loop # None /\ loop.kind = "async" => Len(loop.entries) = 1
  /\ running # None /\ Awaits(running.to) => running.kind = "async"

\* No promise is fulfilled with a promise, or with what cannot be asked.
IsValue(p) ==
  state[p] = "fulfilled" =>
    result[p] \in Thenables \/ result[p] \in Values \ (Promises \cup Broken)
NoPromiseIsValue == \A p \in Promises : IsValue(p)

OneHand == \A p \in Promises : Many(p) \/ p \in again \/ Alone(p)

\* p waits for the outcome of q.
WaitsFor(p, q) ==
  \E i \in DOMAIN subscribers[q] :
    subscribers[q][i] = Adopt(p) /\ ~SubscriberHadTurn(q, i)

\* A promise that was resolved with q waits for q, or has its outcome, or
\* has asked the object that q was fulfilled with.
Linked(p, q) ==
  \/ Pending(p) /\ WaitsFor(p, q)
  \/ SameOutcome(p, q)
  \/ state[q] = "fulfilled" /\ result[q] \in Thenables
LinksHold ==
  \A p, q \in Promises : FirstFollows(p, q) /\ p \notin again => Linked(p, q)

\* A thenable that is asked was given the functions of the same promise.
AskingIsKnown ==
  running # None /\ running.kind = "thenable" =>
    running.i \in DOMAIN adoptions /\ adoptions[running.i].promise = running.to

HistoryIsTyped == DOMAIN meant = Promises /\ DOMAIN asked = Promises

Others ==
  /\ OthersAreMade /\ OthersAreApart
  /\ OneIsAwaited
  /\ AskingIsKnown
  /\ HistoryIsTyped

HandsInvariant ==
  /\ WaitingAreMade /\ SettledAreMade /\ WaitingAreApart
  /\ Others
  /\ NoPromiseIsValue
  /\ OneHand
  /\ LinksHold

HInv == IInv /\ HandsInvariant
-----------------------------------------------------------------------------
(* What a call of the library does with a promise: p is settled, or passed *)
(* on to one more subscriber or entry of the queue, and no other promise   *)
(* is touched.                                                             *)

SubsKept(c) ==
  \A q \in Promises : \A i \in DOMAIN subscribers'[q] : subscribers'[q][i].to = c =>
    i \in DOMAIN subscribers[q] /\ subscribers'[q][i] = subscribers[q][i]

JobsKept(c) ==
  \A i \in DOMAIN queue' : Serves(queue'[i], c) => i \in DOMAIN queue /\ queue'[i] = queue[i]

OutcomeKept(c) == state'[c] = state[c] /\ result'[c] = result[c]

Touches(p) ==
  \A c \in Promises \ {p} : SubsKept(c) /\ JobsKept(c) /\ OutcomeKept(c)

\* The new hand of p is a subscriber, or an entry of the queue, or nobody.
PassedTo(p, hand, q, n) ==
  /\ \A r \in Promises : \A i \in DOMAIN subscribers'[r] : subscribers'[r][i].to = p =>
       \/ i \in DOMAIN subscribers[r] /\ subscribers'[r][i] = subscribers[r][i]
       \/ hand = "subscriber" /\ r = q /\ i = n /\ state'[p] = state[p]
  /\ \A i \in DOMAIN queue' : Serves(queue'[i], p) =>
       \/ i \in DOMAIN queue /\ queue'[i] = queue[i]
       \/ hand = "entry" /\ q = None /\ i = n /\ state'[p] = state[p]

Passed(p) ==
  /\ \E hand \in {"subscriber", "entry", "nobody"}, q \in Promises \cup {None}, n \in Nat :
       PassedTo(p, hand, q, n) /\ (hand = "nobody" => Settled(p)')
  /\ Pending(p)' => OutcomeKept(p)

\* No function is given to p that it did not have.
NoFunctionAdded(p) ==
  /\ \A q \in Promises : \A i \in DOMAIN subscribers'[q] :
       subscribers'[q][i].to = p /\ OfFunction(subscribers'[q][i]) =>
         i \in DOMAIN subscribers[q] /\ subscribers'[q][i] = subscribers[q][i]
  /\ \A i \in DOMAIN queue' :
       queue'[i].type = "invoke" /\ queue'[i].subscriber.to = p /\ OfFunction(queue'[i].subscriber) =>
         i \in DOMAIN queue /\ queue'[i] = queue[i]

LEMMA PublishServesNobody ==
  ASSUME NEW p \in Promises, NEW c \in Promises
  PROVE  Publish(p) \in Jobs /\ ~Serves(Publish(p), c)
BY PublishIsJob DEF Serves

LEMMA AsapJobs ==
  ASSUME TypeOK, NEW job \in Jobs, Asap(job), NEW c \in Promises, ~Serves(job, c)
  PROVE  JobsKept(c)
<1>1. /\ \A i \in DOMAIN queue : i \in DOMAIN queue' /\ queue'[i] = queue[i]
      /\ \A i \in DOMAIN queue' \ DOMAIN queue : queue'[i] = job
  BY AsapAppends
<1> QED
  BY <1>1 DEF JobsKept

LEMMA PublishJobs ==
  ASSUME TypeOK, NEW p \in Promises, Asap(Publish(p)) \/ UNCHANGED queueV
  PROVE  \A c \in Promises : JobsKept(c)
<1>1. CASE Asap(Publish(p))
  BY <1>1, PublishServesNobody, AsapJobs
<1>2. CASE UNCHANGED queueV
  BY <1>2 DEF JobsKept, queueV
<1> QED
  BY <1>1, <1>2

LEMMA SettlePasses ==
  ASSUME TypeOK, NEW p \in Promises, NEW outcome \in {"fulfilled", "rejected"},
         NEW v \in Values \cup {None}, Settle(p, outcome, v)
  PROVE  /\ Touches(p) /\ Passed(p) /\ NoFunctionAdded(p)
         /\ Settled(p)' /\ SubsKept(p) /\ JobsKept(p)
         /\ Pending(p) => state'[p] = outcome /\ result'[p] = v
<1>1. \A c \in Promises : JobsKept(c)
  <2>1. Asap(Publish(p)) \/ UNCHANGED queueV
    BY DEF Settle
  <2> QED
    BY <2>1, PublishJobs
<1>2. subscribers' = subscribers /\ \A c \in Promises : SubsKept(c)
  BY DEF Settle, core, SubsKept
<1>3. \A c \in Promises \ {p} : OutcomeKept(c)
  BY DEF Settle, core, OutcomeKept, TypeOK
<1>4. Settled(p)' /\ ~Pending(p)' /\ (Pending(p) => state'[p] = outcome /\ result'[p] = v)
  BY DEF Settle, core, Settled, Pending, TypeOK
<1>5. NoFunctionAdded(p)
  <2>1. \A i \in DOMAIN queue' : queue'[i].type = "invoke" /\ queue'[i].subscriber.to = p
          => i \in DOMAIN queue /\ queue'[i] = queue[i]
    BY <1>1 DEF JobsKept, Serves
  <2> QED
    BY <1>2, <2>1 DEF NoFunctionAdded
<1>6. Passed(p)
  <2>1. PassedTo(p, "nobody", None, 0)
    BY <1>1, <1>2 DEF PassedTo, JobsKept
  <2> QED
    BY <1>4, <2>1 DEF Passed
<1> QED
  BY <1>1, <1>2, <1>3, <1>4, <1>5, <1>6 DEF Touches

LEMMA SubscribePasses ==
  ASSUME TypeOK, NEW p \in Promises, NEW s \in Subscriber, Subscribe(p, s)
  PROVE  /\ Touches(s.to) /\ OutcomeKept(s.to) /\ Passed(s.to)
         /\ ~OfFunction(s) => NoFunctionAdded(s.to)
         /\ subscribers[p] \in Seq(Subscriber) /\ subscribers' = [subscribers EXCEPT ![p] = Append(@, s)]
         /\ \A c \in Promises : JobsKept(c) /\ OutcomeKept(c)
<1> DEFINE n == Len(subscribers[p]) + 1
<1>1. \A c \in Promises : JobsKept(c)
  <2>1. Asap(Publish(p)) \/ UNCHANGED queueV
    BY DEF Subscribe
  <2> QED
    BY <2>1, PublishJobs
<1>2. \A c \in Promises : OutcomeKept(c)
  BY DEF Subscribe, OutcomeKept
<1>3. /\ subscribers' = [subscribers EXCEPT ![p] = Append(@, s)]
      /\ subscribers \in [Promises -> Seq(Subscriber)]
  BY DEF Subscribe, TypeOK
<1>4. \A q \in Promises : \A i \in DOMAIN subscribers'[q] :
        \/ i \in DOMAIN subscribers[q] /\ subscribers'[q][i] = subscribers[q][i]
        \/ q = p /\ i = n /\ subscribers'[q][i] = s
  BY <1>3
<1>5. s.to \in Promises /\ n \in Nat
  BY <1>3 DEF Subscriber
<1>6. \A c \in Promises \ {s.to} : SubsKept(c)
  BY <1>4 DEF SubsKept
<1>7. PassedTo(s.to, "subscriber", p, n)
  BY <1>1, <1>2, <1>4, <1>5 DEF PassedTo, JobsKept, OutcomeKept
<1>8. ~OfFunction(s) => NoFunctionAdded(s.to)
  <2>1. \A i \in DOMAIN queue' : queue'[i].type = "invoke" /\ queue'[i].subscriber.to = s.to
          => i \in DOMAIN queue /\ queue'[i] = queue[i]
    BY <1>1, <1>5 DEF JobsKept, Serves
  <2> QED
    BY <1>4, <2>1 DEF NoFunctionAdded
<1>9. Passed(s.to)
  BY <1>2, <1>5, <1>7 DEF Passed
<1> QED
  BY <1>1, <1>2, <1>3, <1>5, <1>6, <1>8, <1>9 DEF Touches

LEMMA AsapPasses ==
  ASSUME TypeOK, NEW p \in Promises, NEW job \in Jobs, Asap(job), UNCHANGED core,
         \A c \in Promises \ {p} : ~Serves(job, c)
  PROVE  /\ Touches(p) /\ OutcomeKept(p) /\ Passed(p)
         /\ (job.type = "invoke" => ~OfFunction(job.subscriber)) => NoFunctionAdded(p)
<1>1. /\ Len(queue) + 1 \in Nat
      /\ \A i \in DOMAIN queue : i \in DOMAIN queue' /\ queue'[i] = queue[i]
      /\ \A i \in DOMAIN queue' \ DOMAIN queue : i = Len(queue) + 1 /\ queue'[i] = job
  BY AsapAppends DEF TypeOK
<1>2. \A c \in Promises \ {p} : JobsKept(c)
  BY AsapJobs
<1>3. \A c \in Promises : SubsKept(c) /\ OutcomeKept(c)
  BY DEF core, SubsKept, OutcomeKept
<1>4. PassedTo(p, "entry", None, Len(queue) + 1)
  BY <1>1, <1>3 DEF PassedTo, SubsKept, OutcomeKept
<1>5. Passed(p)
  BY <1>1, <1>3, <1>4 DEF Passed
<1>6. (job.type = "invoke" => ~OfFunction(job.subscriber)) => NoFunctionAdded(p)
  BY <1>1, <1>3 DEF NoFunctionAdded, SubsKept
<1> QED
  BY <1>2, <1>3, <1>5, <1>6 DEF Touches

LEMMA ThenDoPasses ==
  ASSUME TypeOK, NEW p \in Promises, NEW s \in Subscriber, ThenDo(p, s)
  PROVE  /\ Touches(s.to) /\ OutcomeKept(s.to) /\ Passed(s.to)
         /\ ~OfFunction(s) => NoFunctionAdded(s.to)
<1>1. CASE Subscribe(p, s)
  BY <1>1, SubscribePasses
<1>2. CASE Asap(Invoke(p, s)) /\ UNCHANGED <<core, order>>
  <2>1. /\ Invoke(p, s) \in Jobs /\ s.to \in Promises
        /\ Invoke(p, s).type = "invoke" /\ Invoke(p, s).subscriber = s
    BY DEF Invoke, Jobs, Subscriber
  <2>2. \A c \in Promises \ {s.to} : ~Serves(Invoke(p, s), c)
    BY <2>1 DEF Serves
  <2> QED
    BY <1>2, <2>1, <2>2, AsapPasses
<1> QED
  BY <1>1, <1>2 DEF ThenDo

\* p is given what it is resolved with, waits for it, or is settled.
LEMMA ResolvePasses ==
  ASSUME TypeOK, NEW p \in Promises, NEW v \in Values \cup {None}, Resolve(p, v),
         NoPromiseIsValue
  PROVE  /\ Touches(p) /\ Passed(p) /\ NoFunctionAdded(p)
         /\ IsValue(p)'
         /\ v \in Promises \ {p} /\ Pending(p) =>
              \/ /\ Pending(v) /\ OutcomeKept(p) /\ subscribers[v] \in Seq(Subscriber)
                 /\ subscribers' = [subscribers EXCEPT ![v] = Append(@, Adopt(p))]
              \/ Settled(v) /\ state'[p] = state[v] /\ result'[p] = result[v]
         /\ v \notin Promises /\ v \notin Thenables => SubsKept(p) /\ JobsKept(p) /\ Settled(p)'
<1>1. CASE v = p /\ Reject(p, SelfFulfillment)
  <2>1. SelfFulfillment \in Values
    BY DEF Values, Errors
  <2>2. IsValue(p)'
    BY <1>1 DEF Reject, Settle, IsValue, NoPromiseIsValue, TypeOK, Pending, core
  <2> QED
    BY <1>1, <2>1, <2>2, SettlePasses DEF Reject
<1>2. CASE v \in Promises \ {p} /\ HandleOwnThenable(p, v)
  <2>1. CASE Pending(v) /\ Subscribe(v, Adopt(p))
    <3>1. Adopt(p).to = p /\ ~OfFunction(Adopt(p))
      BY DEF Adopt, OfFunction
    <3>2. /\ Touches(p) /\ OutcomeKept(p) /\ Passed(p) /\ NoFunctionAdded(p)
          /\ subscribers[v] \in Seq(Subscriber)
          /\ subscribers' = [subscribers EXCEPT ![v] = Append(@, Adopt(p))]
      BY <1>2, <2>1, <3>1, AdoptIsSubscriber, SubscribePasses
    <3>3. IsValue(p)'
      BY <3>2 DEF OutcomeKept, NoPromiseIsValue, IsValue
    <3> QED
      BY <1>2, <2>1, <3>2, <3>3
  <2>2. CASE ~Pending(v) /\ Settle(p, state[v], result[v])
    <3>1. state[v] \in {"fulfilled", "rejected"} /\ result[v] \in Values \cup {None} /\ Settled(v)
      BY <2>2, <1>2 DEF TypeOK, Pending, Settled
    <3>2. /\ Touches(p) /\ Passed(p) /\ NoFunctionAdded(p)
          /\ Pending(p) => state'[p] = state[v] /\ result'[p] = result[v]
      BY <2>2, <3>1, SettlePasses
    <3>3. IsValue(p)'
      <4>1. CASE Pending(p)
        BY <1>2, <3>2, <4>1 DEF NoPromiseIsValue, IsValue
      <4>2. CASE ~Pending(p)
        BY <2>2, <4>2 DEF Settle, core, NoPromiseIsValue, IsValue
      <4> QED
        BY <4>1, <4>2
    <3> QED
      BY <1>2, <3>1, <3>2, <3>3
  <2> QED
    BY <1>2, <2>1, <2>2 DEF HandleOwnThenable
<1>3. CASE v \in Broken /\ Reject(p, GetThenError)
  <2>1. GetThenError \in Values /\ v \notin Promises
    BY <1>3 DEF Values, Errors
  <2>2. IsValue(p)'
    BY <1>3 DEF Reject, Settle, IsValue, NoPromiseIsValue, TypeOK, Pending, core
  <2> QED
    BY <1>3, <2>1, <2>2, SettlePasses DEF Reject
<1>4. CASE v \in Thenables /\ HandleForeignThenable(p, v)
  <2>1. /\ AskThenable(p, v) \in Jobs /\ AskThenable(p, v).type = "thenable"
        /\ AskThenable(p, v).promise = p /\ v \notin Promises
    BY <1>4 DEF AskThenable, Jobs
  <2>2. Asap(AskThenable(p, v)) /\ UNCHANGED core
    BY <1>4 DEF HandleForeignThenable
  <2>3. \A c \in Promises \ {p} : ~Serves(AskThenable(p, v), c)
    BY <2>1 DEF Serves
  <2>4. Touches(p) /\ OutcomeKept(p) /\ Passed(p) /\ NoFunctionAdded(p)
    BY <2>1, <2>2, <2>3, AsapPasses
  <2>5. IsValue(p)'
    BY <2>4 DEF OutcomeKept, NoPromiseIsValue, IsValue
  <2> QED
    BY <1>4, <2>1, <2>4, <2>5
<1>5. CASE v \in Values \ (Promises \cup Broken \cup Thenables) /\ Fulfill(p, v)
  <2>1. IsValue(p)'
    BY <1>5 DEF Fulfill, Settle, IsValue, NoPromiseIsValue, TypeOK, Pending, core
  <2> QED
    BY <1>5, <2>1, SettlePasses DEF Fulfill
<1> QED
  BY <1>1, <1>2, <1>3, <1>4, <1>5 DEF Resolve

-----------------------------------------------------------------------------
(* Hands are kept, taken, and passed on.                                   *)

\* Who has had a turn is not given it again.
TurnsKept ==
  /\ \A q \in Promises : \A i \in DOMAIN subscribers[q] :
       SubscriberHadTurn(q, i) => SubscriberHadTurn(q, i)'
  /\ \A i \in DOMAIN queue : queue[i].type # "publish" /\ EntryHadTurn(i) => EntryHadTurn(i)'

\* Only a subscriber that is about p has its turn in this step.
TurnOf(p) ==
  \A q \in Promises : \A i \in DOMAIN subscribers[q] :
    SubscriberHadTurn(q, i)' /\ subscribers[q][i].to # p => SubscriberHadTurn(q, i)

\* Neither a thenable nor a function nor the page has got c.
NobodyElseGets(c) ==
  /\ \A i \in Nat : MayCallBack(i, c)' => MayCallBack(i, c)
  /\ GoesOnFor(c)' => GoesOnFor(c)
  /\ (c \in open /\ meant[c] = None)' => c \in open /\ meant[c] = None

LEMMA HandsKept ==
  ASSUME NEW c \in Promises, SubsKept(c), JobsKept(c), TurnsKept, NobodyElseGets(c),
         NEW g \in Hands, NEW q \in Promises \cup {None}, NEW i \in Nat, Holds(g, q, i, c)'
  PROVE  Holds(g, q, i, c)
<1>1. CASE g = "subscriber" /\ WillBeTold(q, i, c)'
  BY <1>1 DEF SubsKept, TurnsKept, WillBeTold, Holds
<1>2. CASE g = "entry" /\ q = None /\ WillBeDone(i, c)'
  BY <1>2 DEF JobsKept, TurnsKept, WillBeDone, Serves, Holds
<1>3. CASE g = "thenable" /\ q = None /\ MayCallBack(i, c)'
  BY <1>3 DEF NobodyElseGets, Holds
<1>4. CASE g = "function" /\ q = None /\ i = 0 /\ GoesOnFor(c)'
  BY <1>4 DEF NobodyElseGets, Holds
<1>5. CASE g = "page" /\ q = None /\ i = 0 /\ (c \in open /\ meant[c] = None)'
  BY <1>5 DEF NobodyElseGets, Holds
<1> QED
  BY <1>1, <1>2, <1>3, <1>4, <1>5 DEF Holds

LEMMA AloneKept ==
  ASSUME NEW c \in Promises, Alone(c), OutcomeKept(c),
         SubsKept(c), JobsKept(c), TurnsKept, NobodyElseGets(c)
  PROVE  Alone(c)'
<1> SUFFICES ASSUME NEW g \in Hands, NEW h \in Hands,
                    NEW q \in Promises \cup {None}, NEW r \in Promises \cup {None},
                    NEW i \in Nat, NEW j \in Nat, Holds(g, q, i, c)'
             PROVE  Pending(c)' /\ (Holds(h, r, j, c)' => g = h /\ q = r /\ i = j)
  BY DEF Alone
<1>1. Holds(g, q, i, c) /\ (Holds(h, r, j, c)' => Holds(h, r, j, c))
  BY HandsKept
<1>2. Pending(c) /\ (Holds(h, r, j, c)' => g = h /\ q = r /\ i = j)
  BY <1>1 DEF Alone
<1> QED
  BY <1>2 DEF OutcomeKept, Pending

\* The hand g of p was its only one.  When it is gone, one other may be new.
LEMMA HandMoves ==
  ASSUME NEW p \in Promises, Alone(p),
         NEW g \in Hands, NEW q \in Promises \cup {None}, NEW i \in Nat,
         Holds(g, q, i, p), ~Holds(g, q, i, p)',
         NEW hand, NEW r, NEW n,
         \A h \in Hands, s \in Promises \cup {None}, j \in Nat : Holds(h, s, j, p)' =>
           Holds(h, s, j, p) \/ (h = hand /\ s = r /\ j = n /\ state'[p] = state[p])
  PROVE  Alone(p)'
<1>1. Pending(p)
  BY DEF Alone
<1>2. ASSUME NEW h \in Hands, NEW s \in Promises \cup {None}, NEW j \in Nat, Holds(h, s, j, p)'
      PROVE  h = hand /\ s = r /\ j = n /\ state'[p] = state[p]
  <2>1. CASE Holds(h, s, j, p)
    <3>1. h = g /\ s = q /\ j = i
      BY <2>1 DEF Alone
    <3> QED
      BY <1>2, <3>1
  <2> QED
    BY <1>2, <2>1
<1> QED
  BY <1>1, <1>2 DEF Alone, Pending

\* A promise that nobody could settle may get one hand.
LEMMA FirstHand ==
  ASSUME NEW p \in Promises, Pending(p)',
         \A h \in Hands, s \in Promises \cup {None}, j \in Nat : ~Holds(h, s, j, p),
         NEW hand, NEW r, NEW n,
         \A h \in Hands, s \in Promises \cup {None}, j \in Nat : Holds(h, s, j, p)' =>
           Holds(h, s, j, p) \/ (h = hand /\ s = r /\ j = n)
  PROVE  Alone(p)'
BY DEF Alone

\* When p is passed on, its hands are those it had and one more.
LEMMA PassedHands ==
  ASSUME NEW p \in Promises, NEW hand, NEW r, NEW n, PassedTo(p, hand, r, n),
         TurnsKept, NobodyElseGets(p)
  PROVE  \A h \in Hands, s \in Promises \cup {None}, j \in Nat : Holds(h, s, j, p)' =>
           Holds(h, s, j, p) \/ (h = hand /\ s = r /\ j = n /\ state'[p] = state[p])
<1> SUFFICES ASSUME NEW g \in Hands, NEW q \in Promises \cup {None}, NEW i \in Nat,
                    Holds(g, q, i, p)'
             PROVE  Holds(g, q, i, p) \/ (g = hand /\ q = r /\ i = n /\ state'[p] = state[p])
  OBVIOUS
<1>1. CASE g = "subscriber" /\ WillBeTold(q, i, p)'
  BY <1>1 DEF PassedTo, TurnsKept, WillBeTold, Holds
<1>2. CASE g = "entry" /\ q = None /\ WillBeDone(i, p)'
  BY <1>2 DEF PassedTo, TurnsKept, WillBeDone, Serves, Holds
<1>3. CASE g = "thenable" /\ q = None /\ MayCallBack(i, p)'
  BY <1>3 DEF NobodyElseGets, Holds
<1>4. CASE g = "function" /\ q = None /\ i = 0 /\ GoesOnFor(p)'
  BY <1>4 DEF NobodyElseGets, Holds
<1>5. CASE g = "page" /\ q = None /\ i = 0 /\ (p \in open /\ meant[p] = None)'
  BY <1>5 DEF NobodyElseGets, Holds
<1> QED
  BY <1>1, <1>2, <1>3, <1>4, <1>5 DEF Holds

LEMMA PassedAlone ==
  ASSUME NEW p \in Promises, Alone(p), Passed(p), TurnsKept, NobodyElseGets(p),
         NEW g \in Hands, NEW q \in Promises \cup {None}, NEW i \in Nat,
         Holds(g, q, i, p), ~Holds(g, q, i, p)'
  PROVE  Alone(p)'
<1>1. PICK hand \in {"subscriber", "entry", "nobody"}, r \in Promises \cup {None}, n \in Nat :
        PassedTo(p, hand, r, n)
  BY DEF Passed
<1> QED
  BY <1>1, PassedHands, HandMoves

\* Nobody could settle p, which is new.
LEMMA NewAlone ==
  ASSUME NEW p \in Promises, Pending(p), p \notin Made, WaitingAreMade, OthersAreMade, Passed(p), TurnsKept,
         NobodyElseGets(p)
  PROVE  Alone(p)'
<1>1. PICK hand \in {"subscriber", "entry", "nobody"}, r \in Promises \cup {None}, n \in Nat :
        PassedTo(p, hand, r, n) /\ (hand = "nobody" => Settled(p)')
  BY DEF Passed
<1>2. \A h \in Hands, s \in Promises \cup {None}, j \in Nat : ~Holds(h, s, j, p)
  BY DEF WaitingAreMade, OthersAreMade, Holds, WillBeTold, WillBeDone, MayCallBack, GoesOnFor, Awaits
<1>3. \A h \in Hands, s \in Promises \cup {None}, j \in Nat : Holds(h, s, j, p)' =>
        h = hand /\ s = r /\ j = n /\ state'[p] = state[p]
  BY <1>1, <1>2, PassedHands
<1> QED
  BY <1>3 DEF Alone, Pending

-----------------------------------------------------------------------------
(* A step that acts for one promise.                                       *)

\* What is the same for the promise c after a step that acts for another.
Untouched(c) ==
  /\ NobodyElseGets(c)
  /\ UNCHANGED <<meant[c], asked[c]>>
  /\ c \in again => c \in again'

\* What is so for the promise p after a step that acts for it.
ActorOK(p) ==
  /\ (Many(p) \/ p \in again \/ Alone(p))'
  /\ \A q \in Promises : (FirstFollows(p, q) /\ p \notin again)' => Linked(p, q)'

LEMMA WaitsOn ==
  ASSUME NEW p \in Promises, NEW q \in Promises, WaitsFor(p, q), PromisesGrow,
         \A i \in DOMAIN subscribers[q] :
           SubscriberHadTurn(q, i)' /\ subscribers[q][i] = Adopt(p) => SubscriberHadTurn(q, i)
  PROVE  WaitsFor(p, q)'
<1>1. PICK i \in DOMAIN subscribers[q] : subscribers[q][i] = Adopt(p) /\ ~SubscriberHadTurn(q, i)
  BY DEF WaitsFor
<1>2. i \in DOMAIN subscribers'[q] /\ subscribers'[q][i] = Adopt(p)
  BY <1>1 DEF PromisesGrow
<1>3. ~SubscriberHadTurn(q, i)'
  BY <1>1
<1> QED
  BY <1>2, <1>3 DEF WaitsFor, Adopt

LEMMA OutcomesStay ==
  ASSUME NEW p \in Promises, NEW q \in Promises, TypeOK, Final,
         \/ SameOutcome(p, q)
         \/ state[q] = "fulfilled" /\ result[q] \in Thenables
  PROVE  Linked(p, q)'
BY DEF SameOutcome, Settled, Final, Linked

LEMMA ActingKeeps ==
  ASSUME HInv, NEW p \in Promises, Touches(p), Effect, TurnsKept, TurnOf(p),
         \A c \in Promises \ {p} : Untouched(c),
         ActorOK(p)
  PROVE  OneHand' /\ LinksHold'
<1>1. Final /\ PromisesGrow
  BY EffectIsFinal, EffectGrows DEF HInv, HandsInvariant, Others, IInv
<1>2. ASSUME NEW c \in Promises \ {p} PROVE (Many(c) \/ c \in again \/ Alone(c))'
  <2>1. SubsKept(c) /\ JobsKept(c) /\ OutcomeKept(c) /\ Untouched(c)
    BY DEF Touches
  <2>2. Many(c) \/ c \in again \/ Alone(c)
    BY DEF HInv, HandsInvariant, Others, OneHand
  <2>3. CASE Alone(c)
    BY <2>1, <2>3, AloneKept DEF Untouched
  <2> QED
    BY <2>1, <2>2, <2>3 DEF Untouched, Many
<1>3. ASSUME NEW c \in Promises \ {p}, NEW q \in Promises, (FirstFollows(c, q) /\ c \notin again)'
      PROVE  Linked(c, q)'
  <2>1. OutcomeKept(c) /\ FirstFollows(c, q) /\ c \notin again
    BY <1>3 DEF Touches, Untouched, FirstFollows
  <2>2. Linked(c, q)
    BY <2>1 DEF HInv, HandsInvariant, Others, LinksHold
  <2>3. CASE Pending(c) /\ WaitsFor(c, q)
    <3>1. \A i \in DOMAIN subscribers[q] :
            SubscriberHadTurn(q, i)' /\ subscribers[q][i] = Adopt(c) => SubscriberHadTurn(q, i)
      BY DEF TurnOf, Adopt
    <3> QED
      BY <1>1, <2>1, <2>3, <3>1, WaitsOn DEF Linked, OutcomeKept, Pending
  <2> QED
    BY <1>1, <2>2, <2>3, OutcomesStay DEF Linked, HInv, HandsInvariant, Others, IInv
<1> QED
  BY <1>2, <1>3 DEF OneHand, LinksHold, ActorOK

\* A step that acts for nobody.
LEMMA IdleKeeps ==
  ASSUME HInv, Final,
         \A c \in Promises : OutcomeKept(c) /\ Untouched(c),
         \A c \in Promises, g \in Hands, q \in Promises \cup {None}, i \in Nat :
           Holds(g, q, i, c)' => Holds(g, q, i, c),
         \A c, q \in Promises : WaitsFor(c, q) => WaitsFor(c, q)'
  PROVE  OneHand' /\ LinksHold'
<1>1. ASSUME NEW c \in Promises PROVE (Many(c) \/ c \in again \/ Alone(c))'
  <2>1. Many(c) \/ c \in again \/ Alone(c)
    BY DEF HInv, HandsInvariant, Others, OneHand
  <2>2. CASE Alone(c)
    BY <2>2 DEF Alone, OutcomeKept, Pending
  <2> QED
    BY <2>1, <2>2 DEF Untouched, Many
<1>2. ASSUME NEW c \in Promises, NEW q \in Promises, (FirstFollows(c, q) /\ c \notin again)'
      PROVE  Linked(c, q)'
  <2>1. OutcomeKept(c) /\ FirstFollows(c, q) /\ c \notin again
    BY <1>2 DEF Untouched, FirstFollows
  <2>2. Linked(c, q)
    BY <2>1 DEF HInv, HandsInvariant, Others, LinksHold
  <2>3. CASE Pending(c) /\ WaitsFor(c, q)
    BY <2>1, <2>3 DEF Linked, OutcomeKept, Pending
  <2> QED
    BY <2>2, <2>3, OutcomesStay DEF Linked, HInv, HandsInvariant, Others, IInv
<1> QED
  BY <1>1, <1>2 DEF OneHand, LinksHold

-----------------------------------------------------------------------------
(* Turns. *)

\* No subscriber has its turn in this step.
NoTurnTaken ==
  \A q \in Promises : \A i \in DOMAIN subscribers[q] :
    SubscriberHadTurn(q, i)' => SubscriberHadTurn(q, i)

LEMMA NoTurns ==
  ASSUME IInv, Effect, UNCHANGED <<at, pos, running>>
  PROVE  TurnsKept /\ NoTurnTaken
<1>1. TypeOK /\ TurnOK /\ QueueGrows
  BY EffectGrows DEF IInv
<1>2. \A q \in Promises : \A i \in DOMAIN subscribers[q] : i \in Nat /\ i >= 1
  BY <1>1 DEF TypeOK
<1>3. CASE at \in DOMAIN queue
  <2>1. at' \in DOMAIN queue' /\ queue'[at'] = queue[at]
    BY <1>1, <1>3 DEF QueueGrows
  <2> QED
    BY <1>3, <2>1 DEF TurnsKept, NoTurnTaken, SubscriberHadTurn, EntryHadTurn, Publish
<1>4. CASE at \notin DOMAIN queue
  <2>1. pos = 1 /\ running = None
    BY <1>1, <1>4 DEF TurnOK
  <2>2. \A q \in Promises : \A i \in DOMAIN subscribers[q] :
          ~SubscriberHadTurn(q, i)' /\ ~SubscriberHadTurn(q, i)
    BY <1>2, <1>4, <2>1 DEF SubscriberHadTurn
  <2> QED
    BY <2>2 DEF TurnsKept, NoTurnTaken, EntryHadTurn
<1> QED
  BY <1>3, <1>4

\* The turn is taken by a callback, or is over.
PassesTurn ==
  /\ at \in DOMAIN queue
  /\ \/ Stays /\ running' # None
     \/ Advance /\ running' = None

LEMMA TurnsPass ==
  ASSUME IInv, Effect, PassesTurn
  PROVE  /\ TurnsKept
         /\ \A p \in Promises : \A i \in DOMAIN subscribers[p] :
              SubscriberHadTurn(p, i)' =>
                SubscriberHadTurn(p, i) \/ (running = None /\ queue[at] = Publish(p) /\ i = pos)
         /\ \A p \in Promises, i \in Nat :
              queue[at] = Publish(p) /\ i = pos => SubscriberHadTurn(p, i)'
         /\ \A i \in Nat : queue[at].type # "publish" /\ i = at => EntryHadTurn(i)'
<1>1. TypeOK /\ TurnOK /\ QueueGrows
  BY EffectGrows DEF IInv
<1>2. at \in Nat /\ pos \in Nat /\ at \in DOMAIN queue
  BY <1>1 DEF TypeOK, PassesTurn
<1>3. queue'[at] = queue[at] /\ at \in DOMAIN queue'
  BY <1>1, <1>2 DEF QueueGrows
<1>4. \A p \in Promises : \A i \in DOMAIN subscribers[p] : i \in Nat /\ i >= 1
  BY <1>1 DEF TypeOK
<1>5. \A i \in DOMAIN queue : i \in Nat
  BY <1>1 DEF TypeOK
<1>6. CASE Stays /\ running' # None
  <2>1. at' = at /\ pos' = pos
    BY <1>6 DEF Stays
  <2> QED
    BY <1>2, <1>3, <1>4, <1>5, <1>6, <2>1 DEF SubscriberHadTurn, EntryHadTurn, Publish, TurnsKept
<1>7. CASE Advance /\ running' = None /\ queue[at].type = "publish"
  <2>1. at' = at /\ pos' = pos + 1
    BY <1>7 DEF Advance
  <2>2. ASSUME NEW p \in Promises, NEW i \in DOMAIN subscribers[p]
        PROVE  /\ SubscriberHadTurn(p, i) => SubscriberHadTurn(p, i)'
               /\ SubscriberHadTurn(p, i)' =>
                    SubscriberHadTurn(p, i) \/ (running = None /\ queue[at] = Publish(p) /\ i = pos)
    <3>1. i \in Nat
      BY <1>4
    <3>2. SubscriberHadTurn(p, i)' <=> queue[at] = Publish(p) /\ i < pos + 1
      BY <1>3, <1>7, <2>1 DEF SubscriberHadTurn, Publish
    <3> QED
      BY <1>2, <3>1, <3>2 DEF SubscriberHadTurn
  <2>3. \A i \in DOMAIN queue : queue[i].type # "publish" /\ EntryHadTurn(i) => EntryHadTurn(i)'
    BY <1>2, <1>5, <1>7, <2>1 DEF EntryHadTurn
  <2>4. \A p \in Promises, i \in Nat :
          queue[at] = Publish(p) /\ i = pos => SubscriberHadTurn(p, i)'
    BY <1>2, <1>3, <2>1 DEF SubscriberHadTurn, Publish
  <2> QED
    BY <1>7, <2>2, <2>3, <2>4 DEF TurnsKept
<1>8. CASE Advance /\ running' = None /\ queue[at].type # "publish"
  <2>1. at' = at + 1 /\ pos' = 1 /\ pos = 1
    BY <1>1, <1>8 DEF Advance, TurnOK
  <2>2. \A p \in Promises : queue[at] # Publish(p)
    BY <1>8, PublishIsJob
  <2>3. \A p \in Promises : \A i \in DOMAIN subscribers[p] :
          ~SubscriberHadTurn(p, i)' /\ ~SubscriberHadTurn(p, i)
    BY <1>4, <1>8, <2>1, <2>2 DEF SubscriberHadTurn
  <2>4. \A i \in Nat : EntryHadTurn(i) \/ i = at => EntryHadTurn(i)'
    BY <1>2, <1>8, <2>1 DEF EntryHadTurn
  <2> QED
    BY <1>5, <1>8, <2>2, <2>3, <2>4 DEF TurnsKept
<1> QED
  BY <1>6, <1>7, <1>8 DEF PassesTurn

\* The subscriber whose turn it is.
IsNext(s) ==
  /\ at \in DOMAIN queue
  /\ \/ /\ queue[at].type = "invoke" /\ queue[at].subscriber = s
     \/ /\ queue[at].type = "publish" /\ pos \in DOMAIN subscribers[queue[at].promise]
        /\ subscribers[queue[at].promise][pos] = s

\* It takes its turn out of its hand.
LEMMA TakenFromHand ==
  ASSUME IInv, Effect, PassesTurn, running = None, NEW s \in Subscriber, IsNext(s)
  PROVE  /\ TurnsKept /\ TurnOf(s.to)
         /\ \E g \in Hands, q \in Promises \cup {None}, i \in Nat :
              /\ Holds(g, q, i, s.to) /\ ~Holds(g, q, i, s.to)'
              /\ \/ g = "entry" /\ queue[at].type = "invoke" /\ queue[at].subscriber = s
                 \/ /\ g = "subscriber" /\ i \in DOMAIN subscribers[q] /\ subscribers[q][i] = s
                    /\ q \in Promises /\ queue[at] = Publish(q)
<1>1. TypeOK /\ at \in Nat /\ pos \in Nat /\ at \in DOMAIN queue /\ s.to \in Promises
  BY DEF IInv, TypeOK, PassesTurn, Subscriber
<1>2. /\ TurnsKept
      /\ \A p \in Promises : \A i \in DOMAIN subscribers[p] :
           SubscriberHadTurn(p, i)' =>
             SubscriberHadTurn(p, i) \/ (queue[at] = Publish(p) /\ i = pos)
      /\ \A p \in Promises, i \in Nat :
           queue[at] = Publish(p) /\ i = pos => SubscriberHadTurn(p, i)'
      /\ \A i \in Nat : queue[at].type # "publish" /\ i = at => EntryHadTurn(i)'
  BY TurnsPass
<1>3. CASE queue[at].type = "invoke" /\ queue[at].subscriber = s
  <2>1. \A p \in Promises : queue[at] # Publish(p)
    BY <1>3, PublishIsJob
  <2>2. TurnOf(s.to)
    BY <1>2, <2>1 DEF TurnOf
  <2>3. PICK k \in Nat : k = at
    BY <1>1
  <2>4. Holds("entry", None, k, s.to) /\ ~Holds("entry", None, k, s.to)'
    BY <1>1, <1>2, <1>3, <2>3 DEF Holds, WillBeDone, Serves, EntryHadTurn
  <2>5. "entry" \in Hands /\ None \in Promises \cup {None} /\ TurnsKept
    BY <1>2 DEF Hands
  <2> QED
    BY <1>1, <1>3, <2>2, <2>4, <2>5
<1>4. CASE /\ queue[at].type = "publish" /\ pos \in DOMAIN subscribers[queue[at].promise]
           /\ subscribers[queue[at].promise][pos] = s
  <2>1. queue[at] \in Jobs
    BY <1>1 DEF TypeOK
  <2>2. PICK q \in Promises : q = queue[at].promise /\ queue[at] = Publish(q)
    BY <1>4, <2>1, PublishingJob
  <2>3. PICK k \in Nat : k = pos
    BY <1>1
  <2>4. \A p \in Promises : queue[at] = Publish(p) => p = q
    BY <2>2, PublishIsJob
  <2>5. TurnOf(s.to)
    <3> SUFFICES ASSUME NEW p \in Promises, NEW i \in DOMAIN subscribers[p],
                        SubscriberHadTurn(p, i)', subscribers[p][i].to # s.to
                 PROVE  SubscriberHadTurn(p, i)
      BY DEF TurnOf
    <3>1. ~(p = q /\ i = k)
      BY <1>4, <2>2, <2>3
    <3> QED
      BY <1>2, <2>3, <2>4, <3>1
  <2>6. ~SubscriberHadTurn(q, k) /\ SubscriberHadTurn(q, k)'
    BY <1>1, <1>2, <2>2, <2>3 DEF SubscriberHadTurn
  <2>7. k \in DOMAIN subscribers[q] /\ subscribers[q][k] = s
    BY <1>4, <2>2, <2>3
  <2>8. Holds("subscriber", q, k, s.to) /\ ~Holds("subscriber", q, k, s.to)'
    BY <2>6, <2>7 DEF Holds, WillBeTold
  <2>9. "subscriber" \in Hands /\ q \in Promises \cup {None} /\ TurnsKept
    BY <1>2 DEF Hands
  <2> QED
    BY <2>2, <2>5, <2>7, <2>8, <2>9
<1> QED
  BY <1>3, <1>4 DEF IsNext

-----------------------------------------------------------------------------
(* What a step that acts for p leaves of the rest of the invariant.        *)

LEMMA WaitingKept ==
  ASSUME HInv, NEW p \in Promises, Touches(p), Effect,
         Made \subseteq Made', p \in Made', asked' = asked,
         Many(p) => NoFunctionAdded(p)
  PROVE  WaitingAreMade' /\ WaitingAreApart' /\ SettledAreMade'
<1>1. CoreTypes' /\ WaitingAreMade /\ WaitingAreApart /\ SettledAreMade
  BY EffectKeepsTypes DEF HInv, HandsInvariant, Others, IInv
<1>2. \A c \in Promises : Many(c)' <=> Many(c)
  BY DEF Many
<1>3. ASSUME NEW q \in Promises, NEW i \in DOMAIN subscribers'[q]
      PROVE  /\ subscribers'[q][i].to \in Made'
             /\ subscribers'[q][i].to # p =>
                  i \in DOMAIN subscribers[q] /\ subscribers'[q][i] = subscribers[q][i]
  <2>1. subscribers'[q][i].to \in Promises
    <3>1. subscribers'[q] \in Seq(Subscriber)
      BY <1>1 DEF CoreTypes
    <3>2. subscribers'[q][i] \in Subscriber
      BY <3>1
    <3> QED
      BY <3>2 DEF Subscriber
  <2> QED
    BY <1>1, <2>1 DEF Touches, SubsKept, WaitingAreMade
<1>4. ASSUME NEW i \in DOMAIN queue', NEW c \in Promises, Serves(queue'[i], c)
      PROVE  c \in Made' /\ (c # p => i \in DOMAIN queue /\ queue'[i] = queue[i])
  <2>1. CASE c = p
    BY <2>1
  <2>2. CASE c # p
    BY <1>1, <1>4, <2>2 DEF Touches, JobsKept, WaitingAreMade
  <2> QED
    BY <2>1, <2>2
<1>5. ASSUME NEW c \in Promises, Many(c), NEW q \in Promises, NEW i \in DOMAIN subscribers'[q],
             OfFunction(subscribers'[q][i])
      PROVE  subscribers'[q][i].to # c
  <2>1. CASE i \in DOMAIN subscribers[q] /\ subscribers'[q][i] = subscribers[q][i]
    BY <1>1, <1>5, <2>1 DEF WaitingAreApart
  <2>2. CASE ~(i \in DOMAIN subscribers[q] /\ subscribers'[q][i] = subscribers[q][i])
    <3>1. subscribers'[q][i].to = p
      BY <1>3, <2>2
    <3> QED
      BY <1>5, <2>2, <3>1 DEF NoFunctionAdded
  <2> QED
    BY <2>1, <2>2
<1>6. ASSUME NEW c \in Promises, Many(c), NEW i \in DOMAIN queue', queue'[i].type = "invoke",
             OfFunction(queue'[i].subscriber)
      PROVE  queue'[i].subscriber.to # c
  <2>1. CASE i \in DOMAIN queue /\ queue'[i] = queue[i]
    BY <1>1, <1>6, <2>1 DEF WaitingAreApart
  <2>2. CASE ~(i \in DOMAIN queue /\ queue'[i] = queue[i])
    <3>1. queue'[i].subscriber.to = c => c = p
      BY <1>4, <1>6, <2>2 DEF Serves
    <3> QED
      BY <1>6, <2>2, <3>1 DEF NoFunctionAdded
  <2> QED
    BY <2>1, <2>2
<1>7. SettledAreMade'
  BY <1>1 DEF SettledAreMade, Touches, OutcomeKept, Pending
<1>8. WaitingAreMade'
  BY <1>3, <1>4 DEF WaitingAreMade
<1>9. WaitingAreApart'
  BY <1>2, <1>5, <1>6 DEF WaitingAreApart, OfFunction
<1> QED
  BY <1>7, <1>8, <1>9

LEMMA ValuesKept ==
  ASSUME HInv, NEW p \in Promises, Touches(p), IsValue(p)'
  PROVE  NoPromiseIsValue'
BY DEF HInv, HandsInvariant, Others, NoPromiseIsValue, IsValue, Touches, OutcomeKept

\* The promises, the queue and the turns are left as they are.
LEMMA CoreKept ==
  ASSUME IInv, UNCHANGED <<core, queueV, at, pos, running>>
  PROVE  /\ Effect /\ Final /\ TurnsKept /\ NoTurnTaken
         /\ \A c \in Promises : SubsKept(c) /\ JobsKept(c) /\ OutcomeKept(c)
         /\ \A c, q \in Promises : WaitsFor(c, q) => WaitsFor(c, q)'
<1>1. Effect
  BY DEF Effect
<1>2. Final /\ PromisesGrow
  BY <1>1, EffectIsFinal, EffectGrows DEF IInv
<1>3. TurnsKept /\ NoTurnTaken
  BY <1>1, NoTurns
<1>4. \A c \in Promises : SubsKept(c) /\ JobsKept(c) /\ OutcomeKept(c)
  BY DEF SubsKept, JobsKept, OutcomeKept, core, queueV
<1>5. \A c, q \in Promises : WaitsFor(c, q) => WaitsFor(c, q)'
  BY <1>2, <1>3, WaitsOn DEF NoTurnTaken
<1> QED
  BY <1>1, <1>2, <1>3, <1>4, <1>5

\* The same, when the turn passes at the end of a callback.
LEMMA TurnEnds ==
  ASSUME IInv, Effect, running # None, running' = None, Advance
  PROVE  TurnsKept /\ NoTurnTaken
<1>1. PassesTurn
  BY DEF PassesTurn, IInv, TurnOK
<1> QED
  BY <1>1, TurnsPass DEF NoTurnTaken

\* A step that acts for nobody and leaves promises and queue as they are.
LEMMA IdleStep ==
  ASSUME HInv, UNCHANGED <<core, queueV, at, pos, running, asked>>, Made \subseteq Made',
         \A c \in Promises : Untouched(c)
  PROVE  /\ OneHand' /\ LinksHold' /\ NoPromiseIsValue'
         /\ WaitingAreMade' /\ WaitingAreApart' /\ SettledAreMade'
<1>1. /\ Effect /\ Final /\ TurnsKept /\ NoTurnTaken
      /\ \A c \in Promises : SubsKept(c) /\ JobsKept(c) /\ OutcomeKept(c)
      /\ \A c, q \in Promises : WaitsFor(c, q) => WaitsFor(c, q)'
  BY CoreKept DEF HInv, HandsInvariant, Others
<1>2. OneHand' /\ LinksHold'
  BY <1>1, HandsKept, IdleKeeps DEF Untouched
<1>3. NoPromiseIsValue' /\ WaitingAreMade' /\ WaitingAreApart' /\ SettledAreMade'
  BY DEF HInv, HandsInvariant, Others, NoPromiseIsValue, IsValue, WaitingAreMade, WaitingAreApart, SettledAreMade,
         Pending, Many, core, queueV
<1> QED
  BY <1>2, <1>3


-----------------------------------------------------------------------------
(* What is so for the promise that a step acts for. *)

\* Nothing was added for p, whose outcome is kept unless it is settled.
LEMMA NothingPassed ==
  ASSUME NEW p \in Promises, SubsKept(p), JobsKept(p), Pending(p)' => OutcomeKept(p)
  PROVE  Passed(p) /\ NoFunctionAdded(p)
<1>1. PassedTo(p, "entry", None, 0)
  BY DEF PassedTo, SubsKept, JobsKept
<1>2. NoFunctionAdded(p)
  <2>1. \A i \in DOMAIN queue' : queue'[i].type = "invoke" /\ queue'[i].subscriber.to = p
          => i \in DOMAIN queue /\ queue'[i] = queue[i]
    BY DEF JobsKept, Serves
  <2> QED
    BY <2>1 DEF NoFunctionAdded, SubsKept
<1> QED
  BY <1>1, <1>2 DEF Passed

\* One whose promise is that of all() or race().
LEMMA ActorIsMany ==
  ASSUME HInv, NEW p \in Promises, Many(p), UNCHANGED <<meant[p], asked[p]>>
  PROVE  ActorOK(p)
<1>1. meant[p] = None
  BY DEF HInv, HandsInvariant, Others, OthersAreApart
<1>2. \A q \in Promises : ~FirstFollows(p, q)'
  BY <1>1 DEF FirstFollows, Meaning, Values
<1> QED
  BY <1>2 DEF ActorOK, Many

\* One that is new.
LEMMA ActorIsNew ==
  ASSUME HInv, NEW p \in Promises \ Made, UNCHANGED meant[p],
         (Many(p) \/ Alone(p))'
  PROVE  ActorOK(p)
<1>1. meant[p] = None
  BY DEF HInv, HandsInvariant, Others, OthersAreMade
<1>2. \A q \in Promises : ~FirstFollows(p, q)'
  BY <1>1 DEF FirstFollows, Meaning, Values
<1> QED
  BY <1>2 DEF ActorOK

\* One whose hand is taken.
LEMMA ActorByHand ==
  ASSUME HInv, NEW p \in Promises, Effect, Alone(p) => Alone(p)',
         NEW g \in Hands, NEW r \in Promises \cup {None}, NEW n \in Nat,
         Holds(g, r, n, p),
         UNCHANGED <<meant[p], asked[p]>>, p \in again => p \in again',
         g = "subscriber" /\ subscribers[r][n] = Adopt(p) /\ Alone(p) => Linked(p, r)'
  PROVE  ActorOK(p)
<1>1. (Many(p) \/ p \in again \/ Alone(p))'
  BY DEF HInv, HandsInvariant, OneHand, Many
<1>2. ASSUME NEW q \in Promises, (FirstFollows(p, q) /\ p \notin again)'
      PROVE  Linked(p, q)'
  <2>1. FirstFollows(p, q) /\ p \notin again
    BY <1>2 DEF FirstFollows
  <2>2. Linked(p, q) /\ Final
    BY <2>1, EffectIsFinal DEF HInv, HandsInvariant, IInv, LinksHold
  <2>3. meant[p] # None
    BY <2>1 DEF FirstFollows, Meaning, Values
  <2>4. Alone(p)
    BY <2>1, <2>3 DEF HInv, HandsInvariant, Others, OthersAreApart, OneHand
  <2>5. CASE WaitsFor(p, q)
    <3>1. PICK i \in DOMAIN subscribers[q] : subscribers[q][i] = Adopt(p) /\ ~SubscriberHadTurn(q, i)
      BY <2>5 DEF WaitsFor
    <3>2. i \in Nat
      BY DEF HInv, IInv, TypeOK
    <3>3. Holds("subscriber", q, i, p) /\ "subscriber" \in Hands
      BY <3>1 DEF Holds, WillBeTold, Adopt, Hands
    <3>4. g = "subscriber" /\ r = q /\ n = i
      BY <2>4, <3>2, <3>3 DEF Alone
    <3> QED
      BY <2>4, <3>1, <3>4
  <2> QED
    BY <2>2, <2>5, OutcomesStay DEF Linked, HInv, IInv
<1> QED
  BY <1>1, <1>2 DEF ActorOK

\* One that is settled by its own functions, or by the end of its callback.
LEMMA ActorMeans ==
  ASSUME HInv, NEW p \in Promises, ~Many(p), asked' = asked,
         NEW outcome \in {"fulfilled", "rejected"}, NEW v \in Values, Means(p, outcome, v),
         Passed(p), TurnsKept, NobodyElseGets(p),
         meant[p] = None /\ p \notin again =>
           \E g \in Hands, q \in Promises \cup {None}, i \in Nat :
             Holds(g, q, i, p) /\ ~Holds(g, q, i, p)',
         outcome = "fulfilled" /\ v \in Promises \ {p} /\ Pending(p) => Linked(p, v)'
  PROVE  ActorOK(p)
<1>1. CASE p \in again'
  BY <1>1 DEF ActorOK
<1>2. CASE p \notin again'
  <2>1. meant[p] = None /\ again' = again /\ meant' = [meant EXCEPT ![p] = <<outcome, v>>]
    BY <1>2 DEF Means
  <2>2. meant'[p] = <<outcome, v>>
    BY <2>1 DEF HInv, HandsInvariant, Others, HistoryIsTyped
  <2>3. Alone(p)
    BY <1>2, <2>1 DEF HInv, HandsInvariant, OneHand
  <2>4. PICK g \in Hands, q \in Promises \cup {None}, i \in Nat :
          Holds(g, q, i, p) /\ ~Holds(g, q, i, p)'
    BY <1>2, <2>1
  <2>5. Alone(p)'
    BY <2>3, <2>4, PassedAlone
  <2>6. Pending(p)
    BY <2>3, <2>4 DEF Alone
  <2>7. ASSUME NEW s \in Promises, FirstFollows(p, s)' PROVE Linked(p, s)'
    <3>1. outcome = "fulfilled" /\ v = s /\ v # p
      BY <2>2, <2>7 DEF FirstFollows
    <3> QED
      BY <2>6, <3>1
  <2> QED
    BY <2>5, <2>7 DEF ActorOK
<1> QED
  BY <1>1, <1>2

\* Resolving p with the promise v makes p wait for v, or take its outcome.
LEMMA ResolveLinks ==
  ASSUME HInv, IInv', NEW p \in Promises, NEW v \in Promises \ {p}, Pending(p), Resolve(p, v)
  PROVE  Linked(p, v)'
<1>1. TypeOK /\ NoPromiseIsValue /\ v \in Values \cup {None}
  BY DEF HInv, HandsInvariant, IInv, Values
<1>2. /\ Touches(p)
      /\ \/ /\ Pending(v) /\ OutcomeKept(p) /\ subscribers[v] \in Seq(Subscriber)
            /\ subscribers' = [subscribers EXCEPT ![v] = Append(@, Adopt(p))]
         \/ Settled(v) /\ state'[p] = state[v] /\ result'[p] = result[v]
  BY <1>1, ResolvePasses
<1>3. OutcomeKept(v)
  BY <1>2 DEF Touches
<1>4. CASE /\ Pending(v) /\ OutcomeKept(p) /\ subscribers[v] \in Seq(Subscriber)
           /\ subscribers' = [subscribers EXCEPT ![v] = Append(@, Adopt(p))]
  <2>1. subscribers \in [Promises -> Seq(Subscriber)]
    BY <1>1 DEF TypeOK
  <2>2. PICK n \in DOMAIN subscribers'[v] : subscribers'[v][n] = Adopt(p)
    <3>1. subscribers'[v] = Append(subscribers[v], Adopt(p))
      BY <1>4, <2>1
    <3>2. Len(subscribers[v]) + 1 \in DOMAIN subscribers'[v]
      BY <1>4, <3>1, AdoptIsSubscriber
    <3>3. subscribers'[v][Len(subscribers[v]) + 1] = Adopt(p)
      BY <1>4, <3>1, AdoptIsSubscriber
    <3> QED
      BY <3>2, <3>3
  <2>3. ~Settled(v)'
    BY <1>3, <1>4 DEF OutcomeKept, Pending, Settled
  <2>4. ~SubscriberHadTurn(v, n)'
    <3> SUFFICES ASSUME at' \in DOMAIN queue', queue'[at'] = Publish(v) PROVE FALSE
      BY DEF SubscriberHadTurn, Publish
    <3> QED
      BY <2>3, PublishIsJob DEF IInv, QueuedAreSettled
  <2>5. WaitsFor(p, v)'
    BY <2>2, <2>4 DEF WaitsFor, Adopt
  <2> QED
    BY <1>4, <2>5 DEF Linked, OutcomeKept, Pending
<1>5. CASE Settled(v) /\ state'[p] = state[v] /\ result'[p] = result[v]
  BY <1>3, <1>5 DEF OutcomeKept, Linked, SameOutcome, Settled
<1> QED
  BY <1>2, <1>4, <1>5

\* A promise that is settled is settled with a value.
LEMMA SettleValue ==
  ASSUME TypeOK, NoPromiseIsValue, NEW p \in Promises, NEW outcome \in {"fulfilled", "rejected"},
         NEW v \in Values \cup {None}, Settle(p, outcome, v),
         outcome = "fulfilled" => v \in Thenables \/ v \in Values \ (Promises \cup Broken)
  PROVE  IsValue(p)'
BY DEF Settle, core, IsValue, NoPromiseIsValue, TypeOK, Pending

\* A step that acts for p keeps the invariant.
LEMMA ActingStep ==
  ASSUME HInv, NEW p \in Promises, Effect, Touches(p), TurnsKept, TurnOf(p),
         \A c \in Promises \ {p} : Untouched(c), ActorOK(p), IsValue(p)',
         Made \subseteq Made', p \in Made', asked' = asked,
         Many(p) => NoFunctionAdded(p), Others'
  PROVE  HandsInvariant'
BY ActingKeeps, WaitingKept, ValuesKept DEF HandsInvariant

-----------------------------------------------------------------------------
(* The calls of the page. *)

LEMMA FreshIsAdded ==
  ASSUME TypeOK, CanMake, NowMade(Fresh)
  PROVE  \E p \in Promises \ Made : p = Fresh /\ Made' = Made \cup {p}
<1>1. Fresh \in Promises \ Made
  BY FreshIsNew
<1>2. made \in Seq(Promises) /\ made' = Append(made, Fresh)
  BY DEF TypeOK, NowMade
<1>3. /\ DOMAIN made' = DOMAIN made \cup {Len(made) + 1}
      /\ made'[Len(made) + 1] = Fresh
      /\ \A i \in DOMAIN made : made'[i] = made[i]
  BY <1>1, <1>2
<1>4. Made' = Made \cup {Fresh}
  BY <1>3 DEF Made
<1> QED
  BY <1>1, <1>4

LEMMA NewIsPending ==
  ASSUME HInv, NEW p \in Promises \ Made
  PROVE  /\ Pending(p) /\ meant[p] = None
         /\ \A g \in Hands, q \in Promises \cup {None}, i \in Nat : ~Holds(g, q, i, p)
<1>1. Pending(p) /\ meant[p] = None
  BY DEF HInv, HandsInvariant, Others, OthersAreMade, SettledAreMade
<1>2. \A g \in Hands, q \in Promises \cup {None}, i \in Nat : ~Holds(g, q, i, p)
  BY DEF HInv, HandsInvariant, Others, WaitingAreMade, OthersAreMade, Holds, WillBeTold,
         WillBeDone, MayCallBack, GoesOnFor, Awaits
<1> QED
  BY <1>1, <1>2

\* What most steps leave: the functions, the thenables and the page have
\* got nothing.
LEMMA GetNothing ==
  ASSUME UNCHANGED <<running, loop, adoptions, open>>, NEW c \in Promises,
         meant[c] # None => meant'[c] # None
  PROVE  NobodyElseGets(c)
BY DEF NobodyElseGets, MayCallBack, GoesOnFor, Awaits, InLoop

LEMMA OthersKept ==
  ASSUME HInv, UNCHANGED <<running, loop, adoptions, open, asked, meant>>, Made \subseteq Made'
  PROVE  Others'
BY DEF HInv, HandsInvariant, Others, OthersAreMade, OthersAreApart, OneIsAwaited, AskingIsKnown,
       HistoryIsTyped, Many, Awaits, OfFunction

LEMMA NewPromiseHands ==
  ASSUME HInv, NewPromise
  PROVE  HandsInvariant'
<1>1. TypeOK /\ IInv
  BY DEF HInv, IInv
<1>2. PICK p \in Promises \ Made : p = Fresh /\ Made' = Made \cup {p}
  BY <1>1, FreshIsAdded DEF NewPromise
<1>3. /\ UNCHANGED <<core, queueV, at, pos, running, loop, adoptions, meant, asked, again>>
      /\ open' = open \cup {p}
  BY <1>2 DEF NewPromise, flushV, others, history
<1>4. /\ Effect /\ TurnsKept /\ NoTurnTaken
      /\ \A c \in Promises : SubsKept(c) /\ JobsKept(c) /\ OutcomeKept(c)
  BY <1>1, <1>3, CoreKept
<1>5. Alone(p)'
  <2>1. Pending(p)'
    BY <1>2, <1>4, NewIsPending DEF OutcomeKept, Pending
  <2>2. \A h \in Hands, s \in Promises \cup {None}, j \in Nat : Holds(h, s, j, p)' =>
          Holds(h, s, j, p) \/ (h = "page" /\ s = None /\ j = 0)
    BY <1>3 DEF Holds, WillBeTold, WillBeDone, MayCallBack, GoesOnFor, Awaits, InLoop,
                SubscriberHadTurn, EntryHadTurn, Serves, Publish, core, queueV
  <2> QED
    BY <1>2, <2>1, <2>2, NewIsPending, FirstHand
<1>6. ActorOK(p)
  BY <1>2, <1>3, <1>5, ActorIsNew
<1>7. \A c \in Promises \ {p} : Untouched(c)
  BY <1>3 DEF Untouched, NobodyElseGets, MayCallBack, GoesOnFor, Awaits, InLoop
<1>8. IsValue(p)'
  BY <1>2, <1>4 DEF HInv, HandsInvariant, NoPromiseIsValue, IsValue, OutcomeKept
<1>9. Others'
  <2>1. ~Many(p)
    BY <1>2 DEF HInv, HandsInvariant, Others, OthersAreMade, Many
  <2> QED
    BY <1>2, <1>3, <2>1 DEF HInv, HandsInvariant, Others, OthersAreMade, OthersAreApart, OneIsAwaited,
          AskingIsKnown, HistoryIsTyped, Many, Awaits, OfFunction
<1> QED
  BY <1>2, <1>3, <1>4, <1>6, <1>7, <1>8, <1>9, NothingPassed, ActingStep
  DEF Touches, TurnOf, NoTurnTaken

\* What the page first settles a promise with takes the promise from it.
LEMMA MeansTakes ==
  ASSUME HInv, NEW p \in Promises, NEW outcome \in {"fulfilled", "rejected"}, NEW v \in Values,
         Means(p, outcome, v)
  PROVE  /\ \A c \in Promises \ {p} : meant'[c] = meant[c]
         /\ meant'[p] # None
         /\ again \subseteq again' /\ DOMAIN meant' = Promises
<1>1. DOMAIN meant = Promises
  BY DEF HInv, HandsInvariant, Others, HistoryIsTyped
<1>2. <<outcome, v>> # None
  BY DEF Meaning
<1> QED
  BY <1>1, <1>2 DEF Means

LEMMA OthersMeant ==
  ASSUME HInv, NEW p \in Made, ~Many(p), NEW outcome \in {"fulfilled", "rejected"}, NEW v \in Values,
         Means(p, outcome, v), UNCHANGED <<running, loop, adoptions, open, asked>>, Made' = Made
  PROVE  Others'
<1>1. p \in Promises
  BY GivenAreValues DEF HInv, IInv
<1>2. /\ \A c \in Promises \ {p} : meant'[c] = meant[c]
      /\ DOMAIN meant' = Promises
  BY <1>1, MeansTakes
<1> QED
  BY <1>1, <1>2 DEF HInv, HandsInvariant, Others, OthersAreMade, OthersAreApart, OneIsAwaited,
       AskingIsKnown, HistoryIsTyped, Many, Awaits, OfFunction

\* The page calls one of the functions of a promise.
LEMMA FunctionCalled ==
  ASSUME HInv, NEW p \in open, NEW outcome \in {"fulfilled", "rejected"}, NEW v \in Values,
         Means(p, outcome, v), Effect, Touches(p), Passed(p), NoFunctionAdded(p), IsValue(p)',
         outcome = "fulfilled" /\ v \in Promises \ {p} /\ Pending(p) => Linked(p, v)',
         UNCHANGED <<flushV, others, made, open, asked>>
  PROVE  HandsInvariant'
<1>1. p \in Promises /\ p \in Made /\ ~Many(p) /\ None \in Promises \cup {None} /\ Made' = Made
  BY DEF HInv, HandsInvariant, IInv, TypeOK, Others, OthersAreMade, OthersAreApart, Made
<1>2. UNCHANGED <<running, loop, adoptions, open, asked, at, pos>>
  BY DEF flushV, others
<1>3. TurnsKept /\ NoTurnTaken
  BY <1>2, NoTurns DEF HInv
<1>4. /\ \A c \in Promises \ {p} : meant'[c] = meant[c]
      /\ meant'[p] # None /\ again \subseteq again'
  BY <1>1, MeansTakes
<1>5. \A c \in Promises : NobodyElseGets(c)
  BY <1>1, <1>2, <1>4, GetNothing
<1>6. \A c \in Promises \ {p} : Untouched(c)
  BY <1>2, <1>4, <1>5 DEF Untouched
<1>7. meant[p] = None => Holds("page", None, 0, p) /\ ~Holds("page", None, 0, p)'
  BY <1>4 DEF Holds
<1>8. ActorOK(p)
  BY <1>1, <1>2, <1>3, <1>5, <1>7, ActorMeans DEF Hands
<1>9. Others'
  BY <1>1, <1>2, OthersMeant
<1> QED
  BY <1>1, <1>2, <1>3, <1>6, <1>8, <1>9, ActingStep DEF TurnOf, NoTurnTaken

LEMMA ResolvePromiseHands ==
  ASSUME HInv, IInv', NEW p \in open, NEW v \in Given, ResolvePromise(p, v)
  PROVE  HandsInvariant'
<1>1. TypeOK /\ p \in Promises /\ v \in Values /\ NoPromiseIsValue
  BY GivenAreValues DEF HInv, HandsInvariant, IInv, TypeOK
<1>2. Resolve(p, v) /\ Means(p, "fulfilled", v) /\ UNCHANGED <<flushV, others, made, open, asked>>
  BY DEF ResolvePromise
<1>3. Effect /\ Touches(p) /\ Passed(p) /\ NoFunctionAdded(p) /\ IsValue(p)'
  BY <1>1, <1>2, ResolveHasEffect, ResolvePasses
<1>4. v \in Promises \ {p} /\ Pending(p) => Linked(p, v)'
  BY <1>1, <1>2, ResolveLinks
<1> QED
  BY <1>1, <1>2, <1>3, <1>4, FunctionCalled

LEMMA RejectPromiseHands ==
  ASSUME HInv, NEW p \in open, NEW v \in setup.values, RejectPromise(p, v)
  PROVE  HandsInvariant'
<1>1. TypeOK /\ p \in Promises /\ v \in Values /\ NoPromiseIsValue
  BY GivenAreValues DEF HInv, HandsInvariant, IInv, TypeOK
<1>2. /\ Settle(p, "rejected", v) /\ Means(p, "rejected", v)
      /\ UNCHANGED <<flushV, others, made, open, asked>>
  BY DEF RejectPromise, Reject
<1>3. Effect /\ Touches(p) /\ Passed(p) /\ NoFunctionAdded(p) /\ IsValue(p)'
  BY <1>1, <1>2, SettleHasEffect, SettlePasses, SettleValue
<1> QED
  BY <1>1, <1>2, <1>3, FunctionCalled

LEMMA ThenHands ==
  ASSUME HInv, NEW p \in Made, NEW f \in BOOLEAN, NEW r \in BOOLEAN, Then(p, f, r)
  PROVE  HandsInvariant'
<1>1. TypeOK /\ p \in Promises /\ IInv
  BY GivenAreValues DEF HInv, IInv
<1>2. PICK c \in Promises \ Made : c = Fresh /\ Made' = Made \cup {c}
  BY <1>1, FreshIsAdded DEF Then
<1> DEFINE s == [kind |-> "then", to |-> c, i |-> 0, fulfilled |-> f, rejected |-> r]
<1>3. s \in Subscriber /\ s.to = c /\ ThenDo(p, s)
  BY <1>2 DEF Then, Subscriber, Kinds
<1>4. UNCHANGED <<at, pos, running, loop, adoptions, open, meant, asked, again>>
  BY DEF Then, flushV, others
<1> HIDE DEF s
<1>5. Touches(c) /\ OutcomeKept(c) /\ Passed(c) /\ Effect
  BY <1>1, <1>3, ThenDoPasses, ThenHasEffect
<1>6. TurnsKept /\ NoTurnTaken
  BY <1>1, <1>4, <1>5, NoTurns
<1>7. \A d \in Promises : NobodyElseGets(d) /\ Untouched(d)
  BY <1>4, GetNothing DEF Untouched
<1>8. Alone(c)'
  BY <1>2, <1>5, <1>6, <1>7, NewIsPending, NewAlone DEF HInv, HandsInvariant, Others
<1>9. ActorOK(c)
  BY <1>2, <1>4, <1>8, ActorIsNew
<1>10. IsValue(c)'
  BY <1>5 DEF HInv, HandsInvariant, NoPromiseIsValue, IsValue, OutcomeKept
<1>11. Others'
  BY <1>2, <1>4, OthersKept
<1>12. ~Many(c)
  BY <1>2 DEF HInv, HandsInvariant, Others, OthersAreMade, Many
<1> QED
  BY <1>2, <1>4, <1>5, <1>6, <1>7, <1>9, <1>10, <1>11, <1>12, ActingStep DEF TurnOf, NoTurnTaken

LEMMA BeginHands ==
  ASSUME HInv, Len(order) \in Nat, NEW kind \in {"all", "race", "async"},
         NEW entries \in Seq(Values), Begin(kind, entries), kind = "async" => Len(entries) = 1
  PROVE  HandsInvariant'
<1>1. TypeOK /\ IInv
  BY DEF HInv, IInv
<1>2. CanMake
  <2> SUFFICES ASSUME Made = Promises PROVE FALSE
    BY DEF CanMake
  <2>1. Promises \ Made = {}
    OBVIOUS
  <2>2. Cardinality(Promises \ Made) = 0
    BY <2>1, FS_EmptySet
  <2> QED
    BY <2>2 DEF Begin
<1>3. PICK p \in Promises \ Made : p = Fresh /\ Made' = Made \cup {p}
  BY <1>1, <1>2, FreshIsAdded DEF Begin
<1>4. /\ UNCHANGED <<core, queueV, at, pos, running, adoptions, open, meant, again>>
      /\ loop = None
      /\ loop' = [kind |-> kind, to |-> p, entries |-> entries, i |-> 1, inner |-> None]
      /\ \A c \in Promises \ {p} : asked'[c] = asked[c]
      /\ DOMAIN asked' = Promises
      /\ asked'[p] = [kind |-> kind, entries |-> entries, since |-> Len(order)]
  <2>1. DOMAIN asked = Promises
    BY DEF HInv, HandsInvariant, Others, HistoryIsTyped
  <2>2. asked' = [asked EXCEPT ![p] = [kind |-> kind, entries |-> entries, since |-> Len(order)]]
    BY <1>3 DEF Begin
  <2> QED
    BY <1>3, <2>1, <2>2 DEF Begin, MayCall, PageRuns, flushV
<1>5. asked'[p] # None /\ asked'[p].kind = kind /\ asked[p] = None
  <2>1. asked'[p] \in Question
    BY <1>4 DEF Question
  <2>2. asked[p] = None
    BY <1>3 DEF HInv, HandsInvariant, Others, OthersAreMade
  <2> QED
    BY <1>4, <2>1, <2>2
<1>6. (Many(p)' <=> kind # "async") /\ \A c \in Promises \ {p} : Many(c)' <=> Many(c)
  BY <1>4, <1>5 DEF Many
<1>7. /\ Effect /\ Final /\ TurnsKept /\ NoTurnTaken
      /\ \A c \in Promises : SubsKept(c) /\ JobsKept(c) /\ OutcomeKept(c)
  BY <1>1, <1>4, CoreKept
<1>8. loop'.to = p /\ loop'.kind = kind /\ loop'.entries = entries /\ p \in Made'
  BY <1>3, <1>4
<1>9. \A c \in Promises \ {p} : Untouched(c)
  BY <1>4, <1>8 DEF Untouched, NobodyElseGets, MayCallBack, GoesOnFor, Awaits, InLoop
<1>10. (Many(p) \/ Alone(p))'
  <2>1. CASE kind = "async"
    <3>1. Pending(p)'
      BY <1>3, <1>7, NewIsPending DEF OutcomeKept, Pending
    <3>2. \A h \in Hands, s \in Promises \cup {None}, j \in Nat : Holds(h, s, j, p)' =>
            Holds(h, s, j, p) \/ (h = "function" /\ s = None /\ j = 0)
      BY <1>4 DEF Holds, WillBeTold, WillBeDone, MayCallBack,
                  SubscriberHadTurn, EntryHadTurn, Serves, Publish, core, queueV
    <3>3. \A h \in Hands, s \in Promises \cup {None}, j \in Nat : ~Holds(h, s, j, p)
      BY <1>3, NewIsPending
    <3>4. Alone(p)'
      BY <3>1, <3>2, <3>3 DEF Alone
    <3> QED
      BY <3>4
  <2> QED
    BY <1>6, <2>1
<1>11. ActorOK(p)
  BY <1>3, <1>4, <1>10, ActorIsNew
<1>12. OneHand' /\ LinksHold'
  BY <1>3, <1>7, <1>9, <1>11, ActingKeeps DEF Touches, TurnOf, NoTurnTaken
<1>13. WaitingAreMade' /\ SettledAreMade' /\ NoPromiseIsValue'
  BY <1>3, <1>4 DEF HInv, HandsInvariant, WaitingAreMade, SettledAreMade, NoPromiseIsValue, IsValue,
                    Pending, core, queueV
<1>14. WaitingAreApart'
  <2> SUFFICES ASSUME NEW c \in Promises, Many(c)'
               PROVE  /\ \A q \in Promises : \A i \in DOMAIN subscribers[q] :
                           OfFunction(subscribers[q][i]) => subscribers[q][i].to # c
                      /\ \A i \in DOMAIN queue : queue[i].type = "invoke" /\ OfFunction(queue[i].subscriber)
                           => queue[i].subscriber.to # c
    BY <1>4 DEF WaitingAreApart, OfFunction, core, queueV
  <2>1. CASE c = p
    BY <1>3, <2>1 DEF HInv, HandsInvariant, WaitingAreMade, Serves
  <2>2. CASE c # p
    BY <1>6, <2>2 DEF HInv, HandsInvariant, WaitingAreApart
  <2> QED
    BY <2>1, <2>2
<1>15. OthersAreMade' /\ HistoryIsTyped' /\ AskingIsKnown'
  BY <1>3, <1>4, <1>8 DEF HInv, HandsInvariant, Others, OthersAreMade, HistoryIsTyped, AskingIsKnown
<1>16. OneIsAwaited'
  <2>1. loop'.kind = "async" => Len(loop'.entries) = 1
    BY <1>8
  <2>2. running # None => running.to # p
    BY <1>3 DEF HInv, HandsInvariant, Others, OthersAreMade
  <2> QED
    BY <1>4, <1>8, <2>1, <2>2 DEF OneIsAwaited, Awaits
<1>17. OthersAreApart'
  <2>1. ASSUME NEW c \in Promises, Many(c)'
        PROVE  /\ c \notin open /\ meant[c] = None
               /\ running # None /\ OfFunction(running) => running.to # c
               /\ ~Awaits(c)'
    <3>1. CASE c = p
      BY <1>3, <1>6, <1>8, <2>1, <3>1 DEF HInv, HandsInvariant, Others, OthersAreMade, Awaits
    <3>2. CASE c # p
      BY <1>6, <1>8, <2>1, <3>2 DEF HInv, HandsInvariant, Others, OthersAreApart, Awaits
    <3> QED
      BY <3>1, <3>2
  <2>2. loop'.kind # "async" => Many(loop.to)'
    BY <1>6, <1>8 DEF Many
  <2> QED
    BY <1>4, <2>1, <2>2 DEF OthersAreApart, OfFunction
<1> QED
  BY <1>12, <1>13, <1>14, <1>15, <1>16, <1>17 DEF HandsInvariant, Others

LEMMA AwaitAgainHands ==
  ASSUME HInv, NEW v \in Values, AwaitAgain(v)
  PROVE  HandsInvariant'
<1>1. /\ UNCHANGED <<core, queueV, at, pos, running, asked, adoptions, open, meant, again, made>>
      /\ loop = None /\ running # None /\ running.kind = "async"
      /\ loop' = [kind |-> "async", to |-> running.to, entries |-> <<v>>, i |-> 1, inner |-> None]
  BY DEF AwaitAgain, MayCall, PageRuns, flushV, history
<1>2. /\ loop'.kind = "async" /\ loop'.to = running.to /\ Len(loop'.entries) = 1
      /\ Made' = Made
  BY <1>1 DEF Made
<1>3. \A c \in Promises : Untouched(c)
  BY <1>1, <1>2 DEF Untouched, NobodyElseGets, MayCallBack, GoesOnFor, Awaits, InLoop
<1>4. OthersAreMade' /\ AskingIsKnown' /\ HistoryIsTyped' /\ OneIsAwaited'
  BY <1>1, <1>2 DEF HInv, HandsInvariant, Others, OthersAreMade, AskingIsKnown, HistoryIsTyped,
                    OneIsAwaited
<1>5. OthersAreApart'
  BY <1>1, <1>2 DEF HInv, HandsInvariant, Others, OthersAreApart, Many, Awaits, OfFunction
<1> QED
  BY <1>1, <1>2, <1>3, <1>4, <1>5, IdleStep DEF HandsInvariant, Others

\* A function that a thenable was given is called.
LEMMA ThenableCallsHands ==
  ASSUME HInv, IInv', NEW k \in DOMAIN adoptions, NEW v \in Values,
         NEW outcome \in {"fulfilled", "rejected"}, ThenableCalls(k, outcome, v)
  PROVE  HandsInvariant'
<1>1. TypeOK /\ IInv /\ NoPromiseIsValue
  BY DEF HInv, HandsInvariant, IInv
<1>2. /\ UNCHANGED <<at, pos, running, loop, open, meant, asked, again, made>> /\ Made' = Made
      /\ adoptions' = [adoptions EXCEPT ![k].sealed = TRUE]
  BY DEF ThenableCalls, flushV, history, Made
<1>3. PICK p \in Promises, t \in Thenables : adoptions[k].promise = p /\ adoptions[k].thenable = t
  <2>1. adoptions[k] \in Adoption
    BY <1>1 DEF TypeOK
  <2> QED
    BY <2>1 DEF Adoption
<1>4. /\ DOMAIN adoptions' = DOMAIN adoptions /\ k \in Nat
      /\ \A i \in DOMAIN adoptions :
           /\ adoptions'[i].promise = adoptions[i].promise
           /\ adoptions[i].sealed => adoptions'[i].sealed
      /\ adoptions'[k].sealed
  <2>1. adoptions \in Seq(Adoption) /\ adoptions[k] \in Adoption
    BY <1>1 DEF TypeOK
  <2> QED
    BY <1>2, <2>1 DEF Adoption
<1>5. \A c \in Promises : NobodyElseGets(c) /\ Untouched(c)
  BY <1>2, <1>4 DEF Untouched, NobodyElseGets, MayCallBack, GoesOnFor, Awaits, InLoop
<1>6. Others'
  BY <1>2, <1>4 DEF HInv, HandsInvariant, Others, OthersAreMade, OthersAreApart, OneIsAwaited,
                    AskingIsKnown, HistoryIsTyped, Many, Awaits, OfFunction
<1>7. CASE adoptions[k].sealed /\ UNCHANGED <<core, order, queueV>>
  BY <1>2, <1>5, <1>6, <1>7, IdleStep DEF HandsInvariant
<1>8. CASE /\ ~adoptions[k].sealed
           /\ Effect /\ Touches(p) /\ Passed(p) /\ NoFunctionAdded(p) /\ IsValue(p)'
  <2>1. TurnsKept /\ NoTurnTaken
    BY <1>1, <1>2, <1>8, NoTurns
  <2>2. /\ "thenable" \in Hands /\ None \in Promises \cup {None}
        /\ Holds("thenable", None, k, p) /\ ~Holds("thenable", None, k, p)'
    BY <1>3, <1>4, <1>8 DEF Holds, Hands, MayCallBack
  <2>3. ActorOK(p)
    BY <1>2, <1>4, <1>5, <1>8, <2>1, <2>2, PassedAlone, ActorByHand
  <2>4. p \in Made
    BY <1>3 DEF HInv, HandsInvariant, Others, OthersAreMade
  <2> QED
    BY <1>2, <1>5, <1>6, <1>8, <2>1, <2>3, <2>4, ActingStep DEF TurnOf, NoTurnTaken
<1>9. CASE ~adoptions[k].sealed /\ Reject(p, v)
  BY <1>1, <1>8, <1>9, SettleHasEffect, SettlePasses, SettleValue DEF Reject
<1>10. CASE ~adoptions[k].sealed /\ v = t /\ Fulfill(p, v)
  BY <1>1, <1>8, <1>10, SettleHasEffect, SettlePasses, SettleValue DEF Fulfill
<1>11. CASE ~adoptions[k].sealed /\ Resolve(p, v)
  BY <1>1, <1>8, <1>11, ResolveHasEffect, ResolvePasses
<1> QED
  BY <1>3, <1>7, <1>9, <1>10, <1>11 DEF ThenableCalls

-----------------------------------------------------------------------------
(* The loops of all(), race() and await. *)

\* What settledAt() does with a promise of all().
LEMMA SettledAtPasses ==
  ASSUME TypeOK, NoPromiseIsValue, NEW p \in Promises, NEW i \in Nat,
         NEW outcome \in {"fulfilled", "rejected"}, NEW v \in Values \cup {None},
         SettledAt(p, i, outcome, v)
  PROVE  Effect /\ Touches(p) /\ Passed(p) /\ NoFunctionAdded(p) /\ IsValue(p)'
<1>1. Effect
  BY SettledAtHasEffect
<1>2. ArrayOf(p) \in Values \ (Promises \cup Broken)
  BY ArraysAssumption DEF Values
<1>3. CASE UNCHANGED <<core, order, queueV>>
  <2>1. \A c \in Promises : SubsKept(c) /\ JobsKept(c) /\ OutcomeKept(c)
    BY <1>3 DEF SubsKept, JobsKept, OutcomeKept, core, queueV
  <2>2. IsValue(p)'
    BY <2>1 DEF NoPromiseIsValue, IsValue, OutcomeKept
  <2> QED
    BY <1>1, <2>1, <2>2, NothingPassed DEF Touches
<1>4. CASE Settle(p, "rejected", v)
  BY <1>1, <1>4, SettlePasses, SettleValue
<1>5. CASE Settle(p, "fulfilled", ArrayOf(p))
  BY <1>1, <1>2, <1>5, SettlePasses, SettleValue
<1> QED
  BY <1>3, <1>4, <1>5 DEF SettledAt, Reject, Fulfill

\* The loop goes on to the next entry, or has a promise for this one.
LoopGoesOn ==
  /\ loop # None /\ loop' # None
  /\ loop'.kind = loop.kind /\ loop'.to = loop.to /\ loop'.entries = loop.entries
  /\ (loop'.i <= Len(loop'.entries)) => InLoop

LEMMA NextEntryGoesOn ==
  ASSUME TypeOK, InLoop, NextEntry
  PROVE  LoopGoesOn /\ loop'.i = loop.i + 1
<1>1. loop \in Loop
  BY EntryOfLoop
<1>2. loop'.kind = loop.kind /\ loop'.to = loop.to /\ loop'.entries = loop.entries
      /\ loop'.i = loop.i + 1
  BY <1>1 DEF NextEntry, Loop
<1>3. loop' # None
  <2>1. loop' \in Loop
    BY NextEntryIsLoop
  <2>2. None \notin Loop
    OBVIOUS
  <2> QED
    BY <2>1, <2>2
<1> QED
  BY <1>1, <1>2, <1>3 DEF LoopGoesOn, InLoop


LEMMA LoopGets ==
  ASSUME LoopGoesOn, UNCHANGED <<running, adoptions, open, meant>>, NEW c \in Promises
  PROVE  NobodyElseGets(c)
BY DEF LoopGoesOn, NobodyElseGets, MayCallBack, GoesOnFor, Awaits, InLoop

LEMMA LoopOthers ==
  ASSUME HInv, LoopGoesOn, UNCHANGED <<running, adoptions, open, asked, meant>>, Made \subseteq Made'
  PROVE  Others'
BY DEF HInv, HandsInvariant, Others, OthersAreMade, OthersAreApart, OneIsAwaited, AskingIsKnown,
       HistoryIsTyped, Many, Awaits, OfFunction, LoopGoesOn

\* One entry is done for the promise of the loop, or nothing is done for it.
LEMMA EntryDone ==
  ASSUME HInv, NEW p \in Made, Effect, Touches(p), IsValue(p)', ActorOK(p),
         Many(p) => NoFunctionAdded(p), LoopGoesOn,
         UNCHANGED <<flushV, adoptions, made, open, history>>
  PROVE  HandsInvariant'
<1>1. UNCHANGED <<running, adoptions, open, asked, meant, again, at, pos>> /\ Made' = Made
  BY DEF flushV, history, Made
<1>2. TurnsKept /\ NoTurnTaken
  BY <1>1, NoTurns DEF HInv
<1>3. \A c \in Promises : Untouched(c)
  BY <1>1, LoopGets DEF Untouched
<1>4. Others'
  BY <1>1, LoopOthers
<1>5. p \in Promises
  BY GivenAreValues DEF HInv, IInv
<1> QED
  BY <1>1, <1>2, <1>3, <1>4, <1>5, ActingStep DEF TurnOf, NoTurnTaken

LEMMA SettledEntryHands ==
  ASSUME HInv, SettledEntry
  PROVE  HandsInvariant'
<1>1. TypeOK /\ NoPromiseIsValue /\ InLoop /\ IInv
  BY DEF HInv, HandsInvariant, IInv, SettledEntry
<1>2. /\ loop.kind = "all" /\ NextEntry
      /\ UNCHANGED <<flushV, adoptions, made, open, history>>
  BY DEF SettledEntry
<1>3. loop.to \in Promises /\ loop.i \in Nat /\ loop.to \in Made
  BY <1>1, EntryOfLoop DEF HInv, HandsInvariant, Others, OthersAreMade, InLoop
<1>4. PICK p \in Made : p = loop.to
  BY <1>3
<1>5. p \in Promises /\ Many(p)
  BY <1>1, <1>2, <1>3, <1>4 DEF HInv, HandsInvariant, Others, OthersAreApart, InLoop
<1>6. LoopGoesOn
  BY <1>1, <1>2, NextEntryGoesOn
<1>7. ActorOK(p)
  BY <1>2, <1>5, ActorIsMany DEF history
<1>8. CASE Entry \in Promises /\ Settled(Entry) /\ SettledAt(loop.to, loop.i, state[Entry], result[Entry])
  <2>1. state[Entry] \in {"fulfilled", "rejected"} /\ result[Entry] \in Values \cup {None}
    BY <1>1, <1>8 DEF Settled, TypeOK
  <2>2. Effect /\ Touches(p) /\ NoFunctionAdded(p) /\ IsValue(p)'
    BY <1>1, <1>3, <1>4, <1>5, <1>8, <2>1, SettledAtPasses
  <2> QED
    BY <1>2, <1>6, <1>7, <2>2, EntryDone
<1>9. CASE UNCHANGED <<core, order, queueV>>
  <2>1. \A c \in Promises : SubsKept(c) /\ JobsKept(c) /\ OutcomeKept(c)
    BY <1>9 DEF SubsKept, JobsKept, OutcomeKept, core, queueV
  <2>2. Touches(p) /\ NoFunctionAdded(p) /\ IsValue(p)' /\ Effect
    BY <1>1, <1>5, <1>9, <2>1, NoEffect, NothingPassed
    DEF NoPromiseIsValue, IsValue, OutcomeKept, Touches
  <2> QED
    BY <1>2, <1>6, <1>7, <2>2, EntryDone
<1> QED
  BY <1>8, <1>9 DEF SettledEntry

LEMMA OwnEntryHands ==
  ASSUME HInv, OwnEntry
  PROVE  HandsInvariant'
<1>1. TypeOK /\ InLoop /\ loop \in Loop
  BY EntryOfLoop DEF HInv, IInv, OwnEntry
<1>2. LoopGoesOn
  <2>1. /\ loop' = [loop EXCEPT !.inner = Entry]
        /\ Entry \in Promises
    BY DEF OwnEntry
  <2>2. loop' \in Loop /\ None \notin Loop
    BY <1>1, <2>1 DEF Loop
  <2>3. loop'.kind = loop.kind /\ loop'.to = loop.to /\ loop'.entries = loop.entries /\ loop'.i = loop.i
    BY <1>1, <2>1 DEF Loop
  <2> QED
    BY <1>1, <2>2, <2>3 DEF LoopGoesOn, InLoop
<1>3. UNCHANGED <<core, queueV, at, pos, running, asked, adoptions, open, meant, again>> /\ Made' = Made
  BY DEF OwnEntry, flushV, history, Made
<1> QED
  BY <1>2, <1>3, LoopGets, LoopOthers, IdleStep DEF HandsInvariant, Untouched

LEMMA WrapEntryHands ==
  ASSUME HInv, WrapEntry
  PROVE  HandsInvariant'
<1>1. TypeOK /\ NoPromiseIsValue /\ IInv /\ InLoop /\ loop \in Loop /\ Entry \in Values \cup {None}
  BY EntryOfLoop DEF HInv, HandsInvariant, IInv, WrapEntry
<1>2. PICK p \in Promises \ Made : p = Fresh /\ Made' = Made \cup {p}
  BY <1>1, FreshIsAdded DEF WrapEntry
<1>3. /\ Resolve(p, Entry)
      /\ loop' = [loop EXCEPT !.inner = p]
      /\ meant' = [meant EXCEPT ![p] = <<"fulfilled", Entry>>]
      /\ UNCHANGED <<at, pos, running, adoptions, open, asked, again>>
  BY <1>2 DEF WrapEntry, flushV
<1>4. LoopGoesOn
  <2>1. loop' \in Loop /\ None \notin Loop
    BY <1>1, <1>3 DEF Loop
  <2>2. loop'.kind = loop.kind /\ loop'.to = loop.to /\ loop'.entries = loop.entries /\ loop'.i = loop.i
    BY <1>1, <1>3 DEF Loop
  <2> QED
    BY <1>1, <2>1, <2>2 DEF LoopGoesOn, InLoop
<1>5. Touches(p) /\ Passed(p) /\ NoFunctionAdded(p) /\ IsValue(p)' /\ Effect
  BY <1>1, <1>3, ResolvePasses, ResolveHasEffect
<1>6. TurnsKept /\ NoTurnTaken
  BY <1>1, <1>3, <1>5, NoTurns
<1>7. /\ \A c \in Promises \ {p} : meant'[c] = meant[c]
      /\ meant'[p] = <<"fulfilled", Entry>> /\ meant[p] = None
  BY <1>2, <1>3, NewIsPending DEF HInv, HandsInvariant, Others, HistoryIsTyped
<1>8. \A c \in Promises : NobodyElseGets(c)
  BY <1>3, <1>4, <1>7 DEF LoopGoesOn, NobodyElseGets, MayCallBack, GoesOnFor, Awaits, InLoop
<1>9. \A c \in Promises \ {p} : Untouched(c)
  BY <1>3, <1>7, <1>8 DEF Untouched
<1>10. Alone(p)'
  BY <1>2, <1>5, <1>6, <1>8, NewIsPending, NewAlone DEF HInv, HandsInvariant, Others
<1>11. ActorOK(p)
  <2>1. ASSUME NEW q \in Promises, FirstFollows(p, q)' PROVE Linked(p, q)'
    <3>1. q = Entry /\ q # p /\ Pending(p)
      BY <1>2, <1>7, <2>1, NewIsPending DEF FirstFollows
    <3>2. IInv'
      BY <1>1, WrapEntryKeeps
    <3> QED
      BY <1>3, <3>1, <3>2, ResolveLinks
  <2> QED
    BY <1>10, <2>1 DEF ActorOK
<1>12. Others'
  <2>1. asked[p] = None
    BY <1>2 DEF HInv, HandsInvariant, Others, OthersAreMade
  <2> QED
    BY <1>2, <1>3, <1>4, <1>7, <2>1 DEF HInv, HandsInvariant, Others, OthersAreMade, OthersAreApart,
       OneIsAwaited, AskingIsKnown, HistoryIsTyped, Many, Awaits, OfFunction, LoopGoesOn
<1> QED
  BY <1>2, <1>3, <1>5, <1>6, <1>9, <1>11, <1>12, ActingStep DEF TurnOf, NoTurnTaken

LEMMA WaitForEntryHands ==
  ASSUME HInv, WaitForEntry
  PROVE  HandsInvariant'
<1>1. TypeOK /\ NoPromiseIsValue /\ IInv /\ InLoop /\ loop \in Loop
  BY EntryOfLoop DEF HInv, HandsInvariant, IInv, WaitForEntry
<1>2. loop.to \in Promises /\ loop.inner \in Promises /\ loop.to \in Made
  BY <1>1, EntryOfLoop DEF HInv, HandsInvariant, Others, OthersAreMade, InLoop, WaitForEntry
<1>3. PICK p \in Made : p = loop.to
  BY <1>2
<1>4. UNCHANGED <<flushV, adoptions, made, open, history>> /\ UNCHANGED <<at, pos, running, asked, meant, again>>
  BY DEF WaitForEntry, flushV, history
<1>5. LoopGoesOn /\ loop'.i = loop.i + 1
  BY <1>1, NextEntryGoesOn DEF WaitForEntry
<1>6. PICK s \in Subscriber :
        /\ s.to = p /\ s.kind = (IF loop.kind = "all" THEN "entry" ELSE loop.kind)
        /\ \/ Subscribe(loop.inner, s) \/ ThenDo(loop.inner, s)
  BY <1>1, <1>3, EntryOfLoop DEF WaitForEntry, Awaiter
<1>7. p \in Promises /\ Touches(p) /\ Passed(p) /\ OutcomeKept(p) /\ (~OfFunction(s) => NoFunctionAdded(p))
  BY <1>1, <1>2, <1>3, <1>6, SubscribePasses, ThenDoPasses
<1>8. Effect
  BY <1>1, <1>2, <1>6, SubscribeHasEffect, ThenHasEffect
<1>9. IsValue(p)'
  BY <1>1, <1>7 DEF NoPromiseIsValue, IsValue, OutcomeKept
<1>10. CASE loop.kind # "async"
  <2>1. Many(p)
    BY <1>1, <1>3, <1>10 DEF HInv, HandsInvariant, Others, OthersAreApart, InLoop
  <2>2. ActorOK(p)
    BY <1>4, <1>7, <2>1, ActorIsMany
  <2>3. ~OfFunction(s)
    BY <1>1, <1>6, <1>10 DEF Loop, OfFunction
  <2> QED
    BY <1>4, <1>5, <1>7, <1>8, <1>9, <2>2, <2>3, EntryDone
<1>11. CASE loop.kind = "async"
  <2>1. ~Many(p)
    BY <1>1, <1>3, <1>7, <1>11 DEF HInv, HandsInvariant, Others, OthersAreApart, InLoop, Awaits
  <2>2. GoesOnFor(p) /\ ~GoesOnFor(p)'
    <3>1. Len(loop.entries) = 1 /\ loop.i \in Nat \ {0}
      BY <1>1, <1>11 DEF HInv, HandsInvariant, Others, OneIsAwaited, InLoop, Loop
    <3>2. Awaits(p) /\ Awaits(p)'
      BY <1>3, <1>5, <1>11 DEF Awaits, LoopGoesOn
    <3>3. ~InLoop'
      BY <1>5, <3>1 DEF InLoop, LoopGoesOn
    <3> QED
      BY <1>1, <3>2, <3>3 DEF GoesOnFor
  <2>3. "function" \in Hands /\ None \in Promises \cup {None} /\ 0 \in Nat
        /\ Holds("function", None, 0, p) /\ ~Holds("function", None, 0, p)'
    BY <2>2 DEF Hands, Holds
  <2>4. TurnsKept /\ NobodyElseGets(p)
    BY <1>1, <1>4, <1>5, <1>7, <1>8, NoTurns, LoopGets
  <2>5. Alone(p) => Alone(p)'
    BY <1>7, <2>3, <2>4, PassedAlone
  <2>6. ActorOK(p)
    BY <1>4, <1>7, <1>8, <2>3, <2>5, ActorByHand
  <2> QED
    BY <1>4, <1>5, <1>7, <1>8, <1>9, <2>1, <2>6, EntryDone
<1> QED
  BY <1>10, <1>11

\* What the end of the loop leaves.
LEMMA LoopEnds ==
  ASSUME HInv, loop # None, loop' = None, UNCHANGED <<adoptions, open, asked, meant, made>>,
         ~InLoop,
         \/ running' = running /\ ~(loop.kind = "async" /\ running # None /\ running.kind = "async"
                                      /\ running.to = loop.to)
         \/ running' = None
  PROVE  Others' /\ \A c \in Promises : NobodyElseGets(c)
<1>1. Made' = Made
  BY DEF Made
<1>2. Others'
  BY <1>1 DEF HInv, HandsInvariant, Others, OthersAreMade, OthersAreApart, OneIsAwaited,
              AskingIsKnown, HistoryIsTyped, Many, Awaits, OfFunction
<1>3. ASSUME NEW c \in Promises PROVE GoesOnFor(c)' => GoesOnFor(c)
  <2> SUFFICES ASSUME running' = running, running # None, running.kind \in {"then", "async"},
                      running.to = c,
                      ~(loop.kind = "async" /\ running.kind = "async" /\ running.to = loop.to)
               PROVE  ~Awaits(c)
    BY DEF GoesOnFor, InLoop
  <2> QED
    BY DEF HInv, HandsInvariant, Others, OneIsAwaited, Awaits
<1> QED
  BY <1>2, <1>3 DEF NobodyElseGets, MayCallBack

LEMMA EndLoopHands ==
  ASSUME HInv, EndLoop
  PROVE  HandsInvariant'
<1>1. TypeOK /\ NoPromiseIsValue /\ IInv /\ loop \in Loop /\ loop # None /\ ~InLoop
  BY DEF HInv, HandsInvariant, IInv, TypeOK, EndLoop, Loop, InLoop
<1>2. loop.to \in Promises /\ loop.to \in Made
  BY <1>1 DEF HInv, HandsInvariant, Others, OthersAreMade, Loop
<1>3. PICK p \in Made : p = loop.to
  BY <1>2
<1>4. /\ loop' = None /\ UNCHANGED <<adoptions, made, open, asked, meant, again>> /\ Made' = Made
      /\ \/ /\ loop.kind = "async" /\ running # None /\ running.kind = "async" /\ running.to = loop.to
            /\ running' = None /\ Advance
         \/ /\ ~(loop.kind = "async" /\ running # None /\ running.kind = "async" /\ running.to = loop.to)
            /\ UNCHANGED <<at, pos, running>>
  BY DEF EndLoop, history, flushV, Made
<1>5. Others' /\ \A c \in Promises : NobodyElseGets(c)
  BY <1>1, <1>4, LoopEnds
<1>6. \A c \in Promises : Untouched(c)
  BY <1>4, <1>5 DEF Untouched
<1>7. CASE UNCHANGED <<core, order, queueV>>
  <2>1. Effect
    BY <1>7, NoEffect
  <2>2. TurnsKept /\ NoTurnTaken
    BY <1>1, <1>4, <2>1, NoTurns, TurnEnds
  <2>3. \A c \in Promises : SubsKept(c) /\ JobsKept(c) /\ OutcomeKept(c)
    BY <1>7 DEF SubsKept, JobsKept, OutcomeKept, core, queueV
  <2>4. Final /\ PromisesGrow
    BY <1>1, <2>1, EffectIsFinal, EffectGrows
  <2>5. \A c, q \in Promises : WaitsFor(c, q) => WaitsFor(c, q)'
    BY <2>2, <2>4, WaitsOn DEF NoTurnTaken
  <2>6. OneHand' /\ LinksHold'
    BY <1>6, <2>2, <2>3, <2>4, <2>5, HandsKept, IdleKeeps DEF Untouched
  <2>7. WaitingAreMade' /\ SettledAreMade' /\ WaitingAreApart' /\ NoPromiseIsValue'
    BY <1>4, <1>7 DEF HInv, HandsInvariant, WaitingAreMade, SettledAreMade, WaitingAreApart,
         NoPromiseIsValue, IsValue, Many, Pending, core, queueV
  <2> QED
    BY <1>5, <2>6, <2>7 DEF HandsInvariant
<1>8. CASE loop.kind = "all" /\ Settle(p, "fulfilled", ArrayOf(p))
  <2>1. p \in Promises /\ Many(p) /\ ArrayOf(p) \in Values \ (Promises \cup Broken)
    BY <1>1, <1>2, <1>3, <1>8, ArraysAssumption
    DEF HInv, HandsInvariant, Others, OthersAreApart, Values
  <2>2. Effect /\ Touches(p) /\ NoFunctionAdded(p) /\ IsValue(p)'
    BY <1>1, <1>8, <2>1, SettleHasEffect, SettlePasses, SettleValue
  <2>3. TurnsKept /\ NoTurnTaken
    BY <1>1, <1>4, <1>8, <2>2, NoTurns
  <2>4. ActorOK(p)
    BY <1>4, <2>1, ActorIsMany
  <2> QED
    BY <1>4, <1>5, <1>6, <2>1, <2>2, <2>3, <2>4, ActingStep DEF TurnOf, NoTurnTaken
<1> QED
  BY <1>3, <1>7, <1>8 DEF EndLoop, Fulfill

-----------------------------------------------------------------------------
(* flush() *)

\* No turn is taken between two flushes.
LEMMA NoTurnWithoutEntry ==
  ASSUME IInv, at \notin DOMAIN queue
  PROVE  \A q \in Promises : \A i : ~SubscriberHadTurn(q, i)
BY DEF SubscriberHadTurn

LEMMA StartFlushHands ==
  ASSUME HInv, StartFlush
  PROVE  HandsInvariant'
<1>1. TypeOK /\ IInv
  BY DEF HInv, IInv
<1>2. /\ UNCHANGED <<core, queue, pos, running, loop, adoptions, open, asked, meant, again>>
      /\ at = 0 /\ at' = 1 /\ Made' = Made
  BY DEF StartFlush, others, history, Made
<1>3. pos = 1 /\ running = None /\ at \notin DOMAIN queue
  BY <1>1, <1>2 DEF IInv, TurnOK, TypeOK
<1>4. \A q \in Promises : \A i \in DOMAIN subscribers[q] : ~SubscriberHadTurn(q, i)'
  <2>1. \A q \in Promises : \A i \in DOMAIN subscribers[q] : i \in Nat /\ i >= 1
    BY <1>1 DEF TypeOK
  <2> QED
    BY <1>2, <1>3, <2>1 DEF SubscriberHadTurn
<1>5. \A c \in Promises : OutcomeKept(c) /\ Untouched(c)
  BY <1>2, GetNothing DEF OutcomeKept, Untouched, core
<1>6. ASSUME NEW c \in Promises, NEW g \in Hands, NEW q \in Promises \cup {None}, NEW i \in Nat,
             Holds(g, q, i, c)'
      PROVE  Holds(g, q, i, c)
  <2>1. CASE g = "subscriber" /\ WillBeTold(q, i, c)'
    BY <1>1, <1>2, <1>3, <2>1, NoTurnWithoutEntry DEF WillBeTold, core, Holds
  <2>2. CASE g = "entry" /\ q = None /\ WillBeDone(i, c)'
    BY <1>1, <1>2, <1>3, <2>2 DEF WillBeDone, EntryHadTurn, Serves, Holds, TypeOK
  <2>3. CASE g \notin {"subscriber", "entry"}
    BY <1>2, <1>6, <2>3 DEF Holds, MayCallBack, GoesOnFor, InLoop, Awaits
  <2> QED
    BY <1>6, <2>1, <2>2, <2>3 DEF Holds
<1>7. \A c, q \in Promises : WaitsFor(c, q) => WaitsFor(c, q)'
  BY <1>2, <1>4 DEF WaitsFor, core, Adopt
<1>8. Final
  BY <1>2 DEF Final, core
<1>9. OneHand' /\ LinksHold'
  BY <1>5, <1>6, <1>7, <1>8, IdleKeeps
<1>10. WaitingAreMade' /\ SettledAreMade' /\ WaitingAreApart' /\ NoPromiseIsValue'
  BY <1>2 DEF HInv, HandsInvariant, WaitingAreMade, SettledAreMade, WaitingAreApart,
       NoPromiseIsValue, IsValue, Many, Pending, core
<1>11. Others'
  BY <1>2, OthersKept
<1> QED
  BY <1>9, <1>10, <1>11 DEF HandsInvariant

LEMMA EndFlushHands ==
  ASSUME HInv, EndFlush
  PROVE  HandsInvariant'
<1>1. TypeOK /\ IInv
  BY DEF HInv, IInv
<1>2. /\ UNCHANGED <<core, pos, running, loop, adoptions, open, asked, meant, again>>
      /\ at > Len(queue) /\ at' = 0 /\ queue' = <<>> /\ running = None /\ Made' = Made
  BY DEF EndFlush, others, history, Made
<1>3. at \notin DOMAIN queue /\ DOMAIN queue' = {}
  BY <1>1, <1>2 DEF TypeOK
<1>4. \A q \in Promises : \A i : ~SubscriberHadTurn(q, i)'
  BY <1>3 DEF SubscriberHadTurn
<1>5. \A c \in Promises : OutcomeKept(c) /\ Untouched(c)
  BY <1>2, GetNothing DEF OutcomeKept, Untouched, core
<1>6. ASSUME NEW c \in Promises, NEW g \in Hands, NEW q \in Promises \cup {None}, NEW i \in Nat,
             Holds(g, q, i, c)'
      PROVE  Holds(g, q, i, c)
  <2>1. CASE g = "subscriber" /\ WillBeTold(q, i, c)'
    BY <1>1, <1>2, <1>3, <2>1, NoTurnWithoutEntry DEF WillBeTold, core, Holds
  <2>2. CASE g = "entry" /\ q = None /\ WillBeDone(i, c)'
    BY <1>3, <2>2 DEF WillBeDone
  <2>3. CASE g \notin {"subscriber", "entry"}
    BY <1>2, <1>6, <2>3 DEF Holds, MayCallBack, GoesOnFor, InLoop, Awaits
  <2> QED
    BY <1>6, <2>1, <2>2, <2>3 DEF Holds
<1>7. \A c, q \in Promises : WaitsFor(c, q) => WaitsFor(c, q)'
  BY <1>2, <1>4 DEF WaitsFor, core, Adopt
<1>8. Final
  BY <1>2 DEF Final, core
<1>9. OneHand' /\ LinksHold'
  BY <1>5, <1>6, <1>7, <1>8, IdleKeeps
<1>10. SettledAreMade' /\ NoPromiseIsValue' /\ WaitingAreMade' /\ WaitingAreApart'
  BY <1>2, <1>3 DEF HInv, HandsInvariant, WaitingAreMade, SettledAreMade, WaitingAreApart,
       NoPromiseIsValue, IsValue, Many, Pending, core
<1>11. Others'
  BY <1>2, OthersKept
<1> QED
  BY <1>9, <1>10, <1>11 DEF HandsInvariant

LEMMA EndPublishHands ==
  ASSUME HInv, EndPublish
  PROVE  HandsInvariant'
<1>1. TypeOK /\ IInv
  BY DEF HInv, IInv
<1>2. /\ UNCHANGED <<state, result, queue, running, loop, adoptions, open, asked, meant, again>>
      /\ at \in DOMAIN queue /\ queue[at].type = "publish" /\ pos > Len(subscribers[queue[at].promise])
      /\ subscribers' = [subscribers EXCEPT ![queue[at].promise] = <<>>]
      /\ at' = at + 1 /\ pos' = 1 /\ running = None /\ Made' = Made
  BY DEF EndPublish, FlushRuns, Job, queueV, others, history, Made
<1>3. PICK r \in Promises : queue[at].promise = r /\ queue[at] = Publish(r)
  <2>1. queue[at] \in Jobs
    BY <1>1, <1>2 DEF TypeOK
  <2> QED
    BY <1>2, <2>1, PublishingJob
<1>4. /\ subscribers \in [Promises -> Seq(Subscriber)] /\ subscribers[r] \in Seq(Subscriber)
      /\ \A q \in Promises : \A i \in DOMAIN subscribers[q] : i \in Nat /\ i >= 1
      /\ at \in Nat /\ pos \in Nat
  BY <1>1, <1>3 DEF TypeOK
<1>5. /\ subscribers'[r] = <<>> /\ DOMAIN subscribers'[r] = {}
      /\ \A q \in Promises \ {r} : subscribers'[q] = subscribers[q]
  BY <1>2, <1>3, <1>4
<1>6. \A i \in DOMAIN subscribers[r] : SubscriberHadTurn(r, i)
  BY <1>2, <1>3, <1>4 DEF SubscriberHadTurn
<1>7. \A q \in Promises \ {r} : \A i : ~SubscriberHadTurn(q, i)
  BY <1>3, PublishIsJob DEF SubscriberHadTurn
<1>8. \A q \in Promises : \A i \in DOMAIN subscribers'[q] : ~SubscriberHadTurn(q, i)'
  <2>1. \A q \in Promises : \A i \in DOMAIN subscribers'[q] : i \in Nat /\ i >= 1
    BY <1>4, <1>5
  <2> QED
    BY <1>2, <2>1 DEF SubscriberHadTurn
<1>9. \A c \in Promises : OutcomeKept(c) /\ Untouched(c)
  BY <1>2, GetNothing DEF OutcomeKept, Untouched
<1>10. ASSUME NEW c \in Promises, NEW g \in Hands, NEW q \in Promises \cup {None}, NEW i \in Nat,
             Holds(g, q, i, c)'
       PROVE  Holds(g, q, i, c)
  <2>1. CASE g = "subscriber" /\ WillBeTold(q, i, c)'
    BY <1>5, <1>7, <2>1 DEF WillBeTold, Holds
  <2>2. CASE g = "entry" /\ q = None /\ WillBeDone(i, c)'
    BY <1>2, <1>4, <2>2 DEF WillBeDone, EntryHadTurn, Serves, Holds
  <2>3. CASE g \notin {"subscriber", "entry"}
    BY <1>2, <1>10, <2>3 DEF Holds, MayCallBack, GoesOnFor, InLoop, Awaits
  <2> QED
    BY <1>10, <2>1, <2>2, <2>3 DEF Holds
<1>11. ASSUME NEW c \in Promises, NEW q \in Promises, WaitsFor(c, q) PROVE WaitsFor(c, q)'
  <2>1. PICK i \in DOMAIN subscribers[q] : subscribers[q][i] = Adopt(c) /\ ~SubscriberHadTurn(q, i)
    BY <1>11 DEF WaitsFor
  <2>2. q # r
    BY <1>6, <2>1
  <2>3. i \in DOMAIN subscribers'[q] /\ subscribers'[q][i] = Adopt(c)
    BY <1>5, <2>1, <2>2
  <2> QED
    BY <1>8, <2>3 DEF WaitsFor, Adopt
<1>12. Final
  BY <1>2 DEF Final
<1>13. OneHand' /\ LinksHold'
  BY <1>9, <1>10, <1>11, <1>12, IdleKeeps
<1>14. SettledAreMade' /\ NoPromiseIsValue'
  BY <1>2 DEF HInv, HandsInvariant, SettledAreMade, NoPromiseIsValue, IsValue, Pending
<1>15. WaitingAreMade' /\ WaitingAreApart'
  BY <1>2, <1>5 DEF HInv, HandsInvariant, WaitingAreMade, WaitingAreApart, Many, Serves, OfFunction
<1>16. Others'
  BY <1>2, OthersKept
<1> QED
  BY <1>13, <1>14, <1>15, <1>16 DEF HandsInvariant

\* The subscriber whose turn it is, s, or what it is for.
LEMMA NextIsMade ==
  ASSUME HInv, NEW s \in Subscriber, IsNext(s)
  PROVE  /\ s.to \in Promises /\ s.to \in Made
         /\ \A c \in Promises : Many(c) /\ OfFunction(s) => s.to # c
<1>1. s.to \in Promises
  BY DEF Subscriber
<1>2. CASE queue[at].type = "invoke" /\ queue[at].subscriber = s
  BY <1>1, <1>2 DEF HInv, HandsInvariant, WaitingAreMade, WaitingAreApart, Serves, IsNext
<1>3. CASE /\ queue[at].type = "publish" /\ pos \in DOMAIN subscribers[queue[at].promise]
           /\ subscribers[queue[at].promise][pos] = s
  <2>1. queue[at] \in Jobs
    BY DEF HInv, IInv, TypeOK, IsNext
  <2>2. queue[at].promise \in Promises
    BY <1>3, <2>1, PublishingJob
  <2> QED
    BY <1>1, <1>3, <2>2 DEF HInv, HandsInvariant, WaitingAreMade, WaitingAreApart
<1> QED
  BY <1>1, <1>2, <1>3 DEF IsNext

\* The library does what s is for.
LEMMA TurnDone ==
  ASSUME HInv, NEW s \in Subscriber, IsNext(s), running = None, running' = None, Advance,
         Effect, Touches(s.to), Passed(s.to), NoFunctionAdded(s.to), IsValue(s.to)',
         UNCHANGED <<loop, adoptions, made, open, asked, meant, again>>,
         \A q \in Promises : queue[at] = Publish(q) /\ s = Adopt(s.to) /\ Pending(s.to)
           => Linked(s.to, q)'
  PROVE  HandsInvariant'
<1>1. PICK p \in Promises : p = s.to /\ p \in Made
  BY NextIsMade
<1>2. PassesTurn /\ IInv
  BY DEF PassesTurn, IsNext, HInv
<1>3. TurnsKept /\ TurnOf(p)
  BY <1>1, <1>2, TakenFromHand
<1>4. PICK g \in Hands, r \in Promises \cup {None}, n \in Nat :
        /\ Holds(g, r, n, p) /\ ~Holds(g, r, n, p)'
        /\ \/ g = "entry"
           \/ g = "subscriber" /\ subscribers[r][n] = s /\ r \in Promises /\ queue[at] = Publish(r)
  BY <1>1, <1>2, TakenFromHand
<1>5. Others' /\ Made' = Made
  BY OthersKept DEF Made
<1>6. \A c \in Promises : NobodyElseGets(c) /\ Untouched(c)
  BY GetNothing DEF Untouched
<1>7. Alone(p) => Alone(p)'
  BY <1>1, <1>3, <1>4, <1>6, PassedAlone
<1>8. Alone(p) => Pending(p)
  BY <1>4 DEF Alone
<1>9. ActorOK(p)
  BY <1>1, <1>4, <1>7, <1>8, ActorByHand
<1> QED
  BY <1>1, <1>3, <1>5, <1>6, <1>9, ActingStep

\* A callback of the page, or an async function, goes on.
LEMMA TurnTaken ==
  ASSUME HInv, NEW s \in Subscriber, IsNext(s), OfFunction(s), loop = None,
         running = None, running' = s,
         UNCHANGED <<core, queueV, at, pos, loop, adoptions, made, open, asked, meant, again>>
  PROVE  HandsInvariant'
<1>1. PICK p \in Promises : p = s.to /\ p \in Made /\ \A c \in Promises : Many(c) => c # p
  BY NextIsMade
<1>2. s # None
  <2>1. None \notin Subscriber
    OBVIOUS
  <2> QED
    BY <2>1
<1>3. PassesTurn /\ Effect /\ IInv
  BY <1>2, NoEffect DEF PassesTurn, IsNext, Stays, HInv
<1>4. TurnsKept /\ TurnOf(p)
  BY <1>1, <1>3, TakenFromHand
<1>5. PICK g \in Hands, r \in Promises \cup {None}, n \in Nat :
        /\ Holds(g, r, n, p) /\ ~Holds(g, r, n, p)'
        /\ g = "entry" \/ (g = "subscriber" /\ subscribers[r][n] = s)
  BY <1>1, <1>3, TakenFromHand
<1>6. \A c \in Promises : SubsKept(c) /\ JobsKept(c) /\ OutcomeKept(c)
  BY DEF SubsKept, JobsKept, OutcomeKept, core, queueV
<1>7. Touches(p) /\ NoFunctionAdded(p) /\ IsValue(p)'
  BY <1>6, NothingPassed DEF HInv, HandsInvariant, NoPromiseIsValue, IsValue, OutcomeKept, Touches
<1>8. \A h \in Hands, q \in Promises \cup {None}, j \in Nat : Holds(h, q, j, p)' =>
        Holds(h, q, j, p) \/ (h = "function" /\ q = None /\ j = 0 /\ state'[p] = state[p])
  <2> SUFFICES ASSUME NEW h \in Hands, NEW q \in Promises \cup {None}, NEW j \in Nat, Holds(h, q, j, p)',
                      h # "function"
               PROVE  Holds(h, q, j, p)
    BY <1>6 DEF Holds, OutcomeKept
  <2>1. CASE h = "subscriber" /\ WillBeTold(q, j, p)'
    BY <1>4, <2>1 DEF core, TurnsKept, WillBeTold, Holds
  <2>2. CASE h = "entry" /\ q = None /\ WillBeDone(j, p)'
    BY <1>4, <2>2 DEF queueV, TurnsKept, WillBeDone, Serves, Holds
  <2>3. CASE h \in {"thenable", "page"}
    BY <2>3 DEF Holds, MayCallBack
  <2> QED
    BY <2>1, <2>2, <2>3 DEF Holds, Hands
<1>9. Alone(p) => Alone(p)'
  BY <1>5, <1>8, HandMoves
<1>10. subscribers[r][n] = Adopt(p) => g # "subscriber"
  BY <1>5 DEF OfFunction, Adopt
<1>11. ActorOK(p)
  BY <1>3, <1>5, <1>9, <1>10, ActorByHand
<1>12. \A c \in Promises \ {p} : Untouched(c)
  BY <1>1 DEF Untouched, NobodyElseGets, MayCallBack, GoesOnFor, InLoop
<1>13. Others'
  BY <1>1 DEF HInv, HandsInvariant, Others, OthersAreMade, OthersAreApart, OneIsAwaited,
              AskingIsKnown, HistoryIsTyped, Many, Awaits, OfFunction, Made
<1> QED
  BY <1>1, <1>3, <1>4, <1>7, <1>11, <1>12, <1>13, ActingStep DEF Made

\* A promise that waited for p takes its outcome.
LEMMA OutcomeTaken ==
  ASSUME HInv, NEW c \in Promises, NEW p \in Promises, Pending(c), Settled(p), Effect,
         IF state[p] = "fulfilled" THEN Resolve(c, result[p]) ELSE Reject(c, result[p])
  PROVE  Linked(c, p)'
<1>1. TypeOK /\ NoPromiseIsValue /\ Final
  BY EffectIsFinal DEF HInv, HandsInvariant, IInv
<1>2. state'[p] = state[p] /\ result'[p] = result[p] /\ Settled(p)'
  BY <1>1 DEF Final, Settled
<1>3. state[p] \in {"fulfilled", "rejected"} /\ result[p] \in Values \cup {None}
  BY <1>1 DEF Settled, TypeOK
<1>4. CASE state[p] = "fulfilled" /\ result[p] \in Thenables
  BY <1>2, <1>4 DEF Linked
<1>5. CASE state[p] = "fulfilled" /\ result[p] \in Values \ (Promises \cup Broken \cup Thenables)
  <2>1. Settle(c, "fulfilled", result[p])
    BY <1>5 DEF Resolve, Fulfill
  <2>2. state'[c] = "fulfilled" /\ result'[c] = result[p]
    BY <1>1, <1>3, <2>1, SettlePasses
  <2> QED
    BY <1>2, <1>5, <2>2 DEF Linked, SameOutcome
<1>6. CASE state[p] = "rejected"
  <2>1. Settle(c, "rejected", result[p])
    BY <1>6 DEF Reject
  <2>2. state'[c] = "rejected" /\ result'[c] = result[p]
    BY <1>1, <1>3, <2>1, SettlePasses
  <2> QED
    BY <1>2, <1>6, <2>2 DEF Linked, SameOutcome
<1>7. state[p] = "fulfilled" => result[p] \in Thenables \/ result[p] \in Values \ (Promises \cup Broken)
  BY <1>1 DEF NoPromiseIsValue, IsValue
<1> QED
  BY <1>3, <1>4, <1>5, <1>6, <1>7

LEMMA CallHands ==
  ASSUME HInv, NEW s \in Subscriber, NEW p \in Promises, Settled(p), Call(s, p), IsNext(s),
         running = None, loop = None,
         \A q \in Promises : queue[at] = Publish(q) => q = p,
         UNCHANGED <<loop, adoptions, made, open, asked, meant, again>>
  PROVE  HandsInvariant'
<1>1. TypeOK /\ NoPromiseIsValue /\ s.to \in Promises /\ s.i \in Nat
  BY DEF HInv, HandsInvariant, IInv, Subscriber
<1>2. PICK c \in Promises : c = s.to
  BY <1>1
<1>3. state[p] \in {"fulfilled", "rejected"} /\ result[p] \in Values \cup {None}
  BY <1>1 DEF TypeOK, Settled
<1>4. state[p] = "fulfilled" => result[p] \in Thenables \/ result[p] \in Values \ (Promises \cup Broken)
  BY <1>1 DEF NoPromiseIsValue, IsValue
<1>5. CASE s.kind \in {"then", "async"} /\ running' = s /\ UNCHANGED <<core, order, queueV, at, pos>>
  BY <1>5, TurnTaken DEF OfFunction
<1>6. CASE s.kind = "then" /\ Settle(c, state[p], result[p]) /\ Advance /\ running' = None
  <2>1. Effect /\ Touches(c) /\ Passed(c) /\ NoFunctionAdded(c) /\ IsValue(c)'
    BY <1>1, <1>3, <1>4, <1>6, SettleHasEffect, SettlePasses, SettleValue
  <2>2. s # Adopt(c)
    BY <1>6 DEF Adopt
  <2> QED
    BY <1>2, <1>6, <2>1, <2>2, TurnDone
<1>7. CASE /\ s.kind \in {"adopt", "race"} /\ Advance /\ running' = None
           /\ IF state[p] = "fulfilled" THEN Resolve(c, result[p]) ELSE Reject(c, result[p])
  <2>1. Effect /\ Touches(c) /\ Passed(c) /\ NoFunctionAdded(c) /\ IsValue(c)'
    BY <1>1, <1>3, <1>7, ResolveHasEffect, ResolvePasses, SettleHasEffect, SettlePasses, SettleValue
    DEF Reject
  <2>2. Pending(c) => Linked(c, p)'
    BY <1>7, <2>1, OutcomeTaken
  <2>3. \A q \in Promises : queue[at] = Publish(q) /\ Pending(c) => Linked(c, q)'
    BY <2>2
  <2> QED
    BY <1>2, <1>7, <2>1, <2>3, TurnDone
<1>8. CASE s.kind = "entry" /\ SettledAt(c, s.i, state[p], result[p]) /\ Advance /\ running' = None
  <2>1. Effect /\ Touches(c) /\ Passed(c) /\ NoFunctionAdded(c) /\ IsValue(c)'
    BY <1>1, <1>3, <1>8, SettledAtPasses
  <2>2. s # Adopt(c)
    BY <1>8 DEF Adopt
  <2> QED
    BY <1>2, <1>8, <2>1, <2>2, TurnDone
<1> QED
  BY <1>2, <1>5, <1>6, <1>7, <1>8 DEF Call

LEMMA PublishNextHands ==
  ASSUME HInv, PublishNext
  PROVE  HandsInvariant'
<1>1. /\ at \in DOMAIN queue /\ queue[at] \in Jobs /\ queue[at].type = "publish"
      /\ running = None /\ loop = None
      /\ pos \in Nat \ {0} /\ pos <= Len(subscribers[queue[at].promise])
  BY DEF HInv, IInv, TypeOK, PublishNext, FlushRuns, Job
<1>2. PICK p \in Promises : p = queue[at].promise /\ queue[at] = Publish(p)
  BY <1>1, PublishingJob
<1>3. Settled(p) /\ subscribers[p] \in Seq(Subscriber)
  BY <1>1, <1>2 DEF HInv, IInv, TypeOK, QueuedAreSettled
<1>4. PICK s \in Subscriber : s = subscribers[p][pos] /\ pos \in DOMAIN subscribers[p]
  BY <1>1, <1>2, <1>3
<1>5. \A q \in Promises : queue[at] = Publish(q) => q = p
  BY <1>2, PublishIsJob
<1>6. IsNext(s)
  BY <1>1, <1>2, <1>4 DEF IsNext
<1>7. Call(s, p) /\ UNCHANGED <<loop, adoptions, made, open, asked, meant, again>>
  BY <1>2, <1>4 DEF PublishNext, Job
<1> QED
  BY <1>1, <1>3, <1>5, <1>6, <1>7, CallHands

LEMMA InvokeNextHands ==
  ASSUME HInv, InvokeNext
  PROVE  HandsInvariant'
<1>1. /\ at \in DOMAIN queue /\ queue[at] \in Jobs /\ queue[at].type = "invoke"
      /\ running = None /\ loop = None
  BY DEF HInv, IInv, TypeOK, InvokeNext, FlushRuns, Job
<1>2. PICK p \in Promises, s \in Subscriber : p = queue[at].promise /\ s = queue[at].subscriber
  BY <1>1 DEF Jobs
<1>3. Settled(p)
  BY <1>1, <1>2 DEF HInv, IInv, QueuedAreSettled
<1>4. \A q \in Promises : queue[at] # Publish(q)
  BY <1>1, PublishIsJob
<1>5. IsNext(s)
  BY <1>1, <1>2 DEF IsNext
<1>6. Call(s, p) /\ UNCHANGED <<loop, adoptions, made, open, asked, meant, again>>
  BY <1>2 DEF InvokeNext, Job
<1> QED
  BY <1>1, <1>3, <1>4, <1>5, <1>6, CallHands

\* A thenable is given functions of the promise that it was asked for.
LEMMA ThenableNextHands ==
  ASSUME HInv, ThenableNext
  PROVE  HandsInvariant'
<1>1. TypeOK /\ IInv /\ adoptions \in Seq(Adoption)
  BY DEF HInv, IInv, TypeOK
<1>2. /\ at \in DOMAIN queue /\ queue[at] \in Jobs /\ queue[at].type = "thenable"
      /\ running = None /\ loop = None
  BY <1>1 DEF TypeOK, ThenableNext, FlushRuns, Job
<1>3. PICK p \in Promises, t \in Thenables : p = queue[at].promise /\ t = queue[at].thenable
  BY <1>2 DEF Jobs
<1>4. PICK n \in Nat : n = Len(adoptions) + 1
  BY <1>1
<1>5. PICK k \in Nat : k = at
  BY <1>1 DEF TypeOK
<1>6. /\ UNCHANGED <<core, queueV, at, pos, loop, made, open, asked, meant, again>> /\ Made' = Made
      /\ adoptions' = Append(adoptions, [promise |-> p, thenable |-> t, sealed |-> FALSE])
      /\ running' = [kind |-> "thenable", to |-> p, i |-> n]
  BY <1>3, <1>4 DEF ThenableNext, Job, history, Made
<1>7. p \in Made
  BY <1>2, <1>3 DEF HInv, HandsInvariant, WaitingAreMade, Serves
<1>8. running'.kind = "thenable" /\ running'.to = p /\ running'.i = n /\ running' # None
  <2>1. running' \in Asking
    BY <1>6 DEF Asking
  <2>2. None \notin Asking
    OBVIOUS
  <2> QED
    BY <1>6, <2>1, <2>2
<1>9. /\ n \in DOMAIN adoptions' /\ adoptions'[n].promise = p
      /\ \A i \in DOMAIN adoptions' \ {n} : i \in DOMAIN adoptions /\ adoptions'[i] = adoptions[i]
  <2>1. [promise |-> p, thenable |-> t, sealed |-> FALSE] \in Adoption
    BY DEF Adoption
  <2> QED
    BY <1>1, <1>4, <1>6, <2>1
<1>10. PassesTurn /\ Effect
  BY <1>2, <1>6, <1>8, NoEffect DEF PassesTurn, Stays
<1>11. \A q \in Promises : queue[at] # Publish(q)
  BY <1>2, PublishIsJob
<1>12. TurnsKept /\ NoTurnTaken /\ EntryHadTurn(k)'
  BY <1>1, <1>2, <1>5, <1>10, <1>11, TurnsPass DEF NoTurnTaken
<1>13. \A c \in Promises : SubsKept(c) /\ JobsKept(c) /\ OutcomeKept(c)
  BY <1>6 DEF SubsKept, JobsKept, OutcomeKept, core, queueV
<1>14. /\ "entry" \in Hands /\ None \in Promises \cup {None}
       /\ Holds("entry", None, k, p) /\ ~Holds("entry", None, k, p)'
  BY <1>1, <1>2, <1>3, <1>5, <1>12 DEF Holds, Hands, WillBeDone, Serves, EntryHadTurn, TypeOK
<1>15. \A h \in Hands, q \in Promises \cup {None}, j \in Nat : Holds(h, q, j, p)' =>
        Holds(h, q, j, p) \/ (h = "thenable" /\ q = None /\ j = n /\ state'[p] = state[p])
  <2> SUFFICES ASSUME NEW h \in Hands, NEW q \in Promises \cup {None}, NEW j \in Nat, Holds(h, q, j, p)',
                      ~(h = "thenable" /\ j = n)
               PROVE  Holds(h, q, j, p)
    BY <1>13 DEF Holds, OutcomeKept
  <2>1. CASE h = "subscriber" /\ WillBeTold(q, j, p)'
    BY <1>6, <1>12, <2>1 DEF core, TurnsKept, WillBeTold, Holds
  <2>2. CASE h = "entry" /\ q = None /\ WillBeDone(j, p)'
    BY <1>6, <1>12, <2>2 DEF queueV, TurnsKept, WillBeDone, Serves, Holds
  <2>3. CASE h = "thenable"
    BY <1>9, <2>3 DEF Holds, MayCallBack
  <2>4. CASE h = "function"
    BY <1>2, <1>6, <1>8, <2>4 DEF Holds, GoesOnFor, InLoop
  <2>5. CASE h = "page"
    BY <1>6, <2>5 DEF Holds
  <2> QED
    BY <2>1, <2>2, <2>3, <2>4, <2>5 DEF Holds
<1>16. Alone(p) => Alone(p)'
  <2>1. PICK g \in Hands, q \in Promises \cup {None}, i \in Nat :
          Holds(g, q, i, p) /\ ~Holds(g, q, i, p)'
    BY <1>14
  <2>2. PICK hand, r, m : \A h \in Hands, s \in Promises \cup {None}, j \in Nat :
          Holds(h, s, j, p)' =>
            Holds(h, s, j, p) \/ (h = hand /\ s = r /\ j = m /\ state'[p] = state[p])
    BY <1>15
  <2> QED
    BY <2>1, <2>2, HandMoves
<1>17. ActorOK(p)
  BY <1>6, <1>10, <1>14, <1>16, ActorByHand
<1>18. \A c \in Promises \ {p} : Untouched(c)
  BY <1>2, <1>6, <1>8, <1>9 DEF Untouched, NobodyElseGets, MayCallBack, GoesOnFor, InLoop
<1>19. Others'
  <2>1. OthersAreMade' /\ AskingIsKnown' /\ HistoryIsTyped'
    BY <1>2, <1>6, <1>7, <1>8, <1>9 DEF HInv, HandsInvariant, Others, OthersAreMade,
         AskingIsKnown, HistoryIsTyped
  <2>2. OthersAreApart' /\ OneIsAwaited'
    BY <1>2, <1>6, <1>8 DEF HInv, HandsInvariant, Others, OthersAreApart, OneIsAwaited, Many, Awaits,
         OfFunction
  <2> QED
    BY <2>1, <2>2 DEF Others
<1>20. Touches(p) /\ IsValue(p)' /\ NoFunctionAdded(p)
  BY <1>13, NothingPassed DEF Touches, HInv, HandsInvariant, NoPromiseIsValue, IsValue, OutcomeKept
<1> QED
  BY <1>6, <1>7, <1>10, <1>12, <1>17, <1>18, <1>19, <1>20, ActingStep DEF TurnOf, NoTurnTaken

-----------------------------------------------------------------------------
(* The end of a callback. *)

\* A turn is over, and nothing was done.
LEMMA TurnIsOver ==
  ASSUME HInv, running # None, running' = None, Advance,
         UNCHANGED <<core, queueV, loop, adoptions, made, open, asked, meant, again>>, loop = None
  PROVE  HandsInvariant'
<1>1. TypeOK /\ IInv /\ Effect /\ Made' = Made
  BY NoEffect DEF HInv, IInv, Made
<1>2. TurnsKept /\ NoTurnTaken
  BY <1>1, TurnEnds
<1>3. \A c \in Promises : SubsKept(c) /\ JobsKept(c) /\ OutcomeKept(c)
  BY DEF SubsKept, JobsKept, OutcomeKept, core, queueV
<1>4. Final /\ PromisesGrow
  BY <1>1, EffectIsFinal, EffectGrows
<1>5. \A c, q \in Promises : WaitsFor(c, q) => WaitsFor(c, q)'
  BY <1>2, <1>4, WaitsOn DEF NoTurnTaken
<1>6. \A c \in Promises : NobodyElseGets(c) /\ Untouched(c)
  BY DEF Untouched, NobodyElseGets, MayCallBack, GoesOnFor, InLoop
<1>7. OneHand' /\ LinksHold'
  BY <1>2, <1>3, <1>4, <1>5, <1>6, HandsKept, IdleKeeps
<1>8. WaitingAreMade' /\ SettledAreMade' /\ WaitingAreApart' /\ NoPromiseIsValue'
  BY <1>1 DEF HInv, HandsInvariant, WaitingAreMade, SettledAreMade, WaitingAreApart,
       NoPromiseIsValue, IsValue, Many, Pending, core, queueV
<1>9. Others'
  BY <1>1 DEF HInv, HandsInvariant, Others, OthersAreMade, OthersAreApart, OneIsAwaited,
       AskingIsKnown, HistoryIsTyped, Many, Awaits, OfFunction
<1> QED
  BY <1>7, <1>8, <1>9 DEF HandsInvariant

\* The callback, or the async function, of p has an outcome.
LEMMA OutcomeGiven ==
  ASSUME HInv, running # None, OfFunction(running), running' = None, Advance, loop = None,
         NEW p \in Promises, p = running.to,
         NEW outcome \in {"fulfilled", "rejected"}, NEW v \in Values, Means(p, outcome, v),
         Effect, Touches(p), Passed(p), NoFunctionAdded(p), IsValue(p)',
         outcome = "fulfilled" /\ v \in Promises \ {p} /\ Pending(p) => Linked(p, v)',
         UNCHANGED <<loop, adoptions, made, open, asked>>
  PROVE  HandsInvariant'
<1>1. /\ p \in Made /\ ~Many(p) /\ Made' = Made /\ IInv
      /\ None \in Promises \cup {None} /\ 0 \in Nat /\ "function" \in Hands
  BY DEF HInv, HandsInvariant, Others, OthersAreMade, OthersAreApart, Made, Hands
<1>2. TurnsKept /\ NoTurnTaken
  BY <1>1, TurnEnds
<1>3. /\ \A c \in Promises \ {p} : meant'[c] = meant[c]
      /\ meant'[p] # None /\ again \subseteq again' /\ DOMAIN meant' = Promises
  BY MeansTakes
<1>4. ~GoesOnFor(p)' /\ \A c \in Promises : ~GoesOnFor(c)'
  BY DEF GoesOnFor, InLoop
<1>5. \A c \in Promises : NobodyElseGets(c)
  BY <1>3, <1>4 DEF NobodyElseGets, MayCallBack
<1>6. \A c \in Promises \ {p} : Untouched(c)
  BY <1>3, <1>5 DEF Untouched
<1>7. Holds("function", None, 0, p) /\ ~Holds("function", None, 0, p)'
  BY <1>4 DEF Holds, GoesOnFor, Awaits, OfFunction
<1>8. ActorOK(p)
  BY <1>1, <1>2, <1>5, <1>7, ActorMeans
<1>9. Others'
  BY <1>1, <1>3 DEF HInv, HandsInvariant, Others, OthersAreMade, OthersAreApart, OneIsAwaited,
       AskingIsKnown, HistoryIsTyped, Many, Awaits, OfFunction
<1> QED
  BY <1>1, <1>2, <1>6, <1>8, <1>9, ActingStep DEF TurnOf, NoTurnTaken

LEMMA ReturnHands ==
  ASSUME HInv, IInv', NEW v \in Values \cup {None}, Return(v)
  PROVE  HandsInvariant'
<1>1. /\ TypeOK /\ NoPromiseIsValue /\ running # None /\ running' = None /\ Advance /\ loop = None
      /\ UNCHANGED <<loop, adoptions, made, open, asked>>
  BY DEF HInv, HandsInvariant, IInv, Return, others
<1>2. PICK p \in Promises : p = running.to
  BY <1>1, RunningIsTyped
<1>3. CASE UNCHANGED <<core, order, queueV, meant, again>>
  BY <1>1, <1>3, TurnIsOver
<1>4. CASE /\ running.kind = "then" /\ Reject(p, CannotReturnOwn)
           /\ Means(p, "rejected", CannotReturnOwn)
  <2>1. CannotReturnOwn \in Values
    BY DEF Values, Errors
  <2>2. Effect /\ Touches(p) /\ Passed(p) /\ NoFunctionAdded(p) /\ IsValue(p)'
    BY <1>1, <1>4, <2>1, SettleHasEffect, SettlePasses, SettleValue DEF Reject
  <2> QED
    BY <1>1, <1>2, <1>4, <2>1, <2>2, OutcomeGiven DEF OfFunction
<1>5. CASE /\ running.kind \in {"then", "async"} /\ v # None
           /\ Resolve(p, v) /\ Means(p, "fulfilled", v)
  <2>1. v \in Values
    BY <1>5
  <2>2. Effect /\ Touches(p) /\ Passed(p) /\ NoFunctionAdded(p) /\ IsValue(p)'
    BY <1>1, <1>5, ResolveHasEffect, ResolvePasses
  <2>3. v \in Promises \ {p} /\ Pending(p) => Linked(p, v)'
    BY <1>5, ResolveLinks
  <2> QED
    BY <1>1, <1>2, <1>5, <2>1, <2>2, <2>3, OutcomeGiven DEF OfFunction
<1> QED
  BY <1>2, <1>3, <1>4, <1>5 DEF Return

LEMMA ThrowHands ==
  ASSUME HInv, NEW v \in Values, Throw(v)
  PROVE  HandsInvariant'
<1>1. /\ TypeOK /\ IInv /\ NoPromiseIsValue /\ running # None /\ running' = None /\ Advance /\ loop = None
      /\ UNCHANGED <<loop, made, open, asked>> /\ Made' = Made
  BY DEF HInv, HandsInvariant, IInv, Throw, Made
<1>2. PICK p \in Promises : p = running.to
  BY <1>1, RunningIsTyped
<1>3. CASE UNCHANGED <<core, order, queueV, adoptions, meant, again>>
  BY <1>1, <1>3, TurnIsOver
<1>4. CASE /\ running.kind \in {"then", "async"} /\ Reject(p, v) /\ Means(p, "rejected", v)
           /\ UNCHANGED adoptions
  <2>1. Effect /\ Touches(p) /\ Passed(p) /\ NoFunctionAdded(p) /\ IsValue(p)'
    BY <1>1, <1>4, SettleHasEffect, SettlePasses, SettleValue DEF Reject
  <2> QED
    BY <1>1, <1>2, <1>4, <2>1, OutcomeGiven DEF OfFunction
<1>5. CASE /\ running.kind = "thenable" /\ ~adoptions[running.i].sealed
           /\ adoptions' = [adoptions EXCEPT ![running.i].sealed = TRUE]
           /\ Reject(p, v) /\ UNCHANGED <<meant, again>>
  <2>1. PICK k \in DOMAIN adoptions : k = running.i /\ adoptions[k].promise = p
    BY <1>1, <1>2, <1>5 DEF HInv, HandsInvariant, Others, AskingIsKnown
  <2>2. /\ DOMAIN adoptions' = DOMAIN adoptions /\ k \in Nat
        /\ \A i \in DOMAIN adoptions :
             /\ adoptions'[i].promise = adoptions[i].promise
             /\ adoptions[i].sealed => adoptions'[i].sealed
        /\ adoptions'[k].sealed
    <3>1. adoptions \in Seq(Adoption) /\ adoptions[k] \in Adoption
      BY <1>1 DEF TypeOK
    <3> QED
      BY <1>5, <2>1, <3>1 DEF Adoption
  <2>3. Effect /\ Touches(p) /\ Passed(p) /\ NoFunctionAdded(p) /\ IsValue(p)'
    BY <1>1, <1>5, SettleHasEffect, SettlePasses, SettleValue DEF Reject
  <2>4. TurnsKept /\ NoTurnTaken
    BY <1>1, <2>3, TurnEnds
  <2>5. \A c \in Promises : NobodyElseGets(c) /\ Untouched(c)
    BY <1>1, <1>5, <2>2 DEF Untouched, NobodyElseGets, MayCallBack, GoesOnFor, InLoop
  <2>6. /\ "thenable" \in Hands /\ None \in Promises \cup {None}
        /\ Holds("thenable", None, k, p) /\ ~Holds("thenable", None, k, p)'
    BY <1>5, <2>1, <2>2 DEF Holds, Hands, MayCallBack
  <2>7. Alone(p) => Alone(p)'
    BY <2>2, <2>3, <2>4, <2>5, <2>6, PassedAlone
  <2>8. ActorOK(p)
    BY <1>1, <1>5, <2>2, <2>3, <2>6, <2>7, ActorByHand
  <2>9. Others'
    BY <1>1, <1>5, <2>2 DEF HInv, HandsInvariant, Others, OthersAreMade, OthersAreApart, OneIsAwaited,
         AskingIsKnown, HistoryIsTyped, Many, Awaits, OfFunction
  <2>10. p \in Made
    BY <1>1, <1>2 DEF HInv, HandsInvariant, Others, OthersAreMade
  <2> QED
    BY <1>1, <2>3, <2>4, <2>5, <2>8, <2>9, <2>10, ActingStep DEF TurnOf, NoTurnTaken
<1> QED
  BY <1>2, <1>3, <1>4, <1>5 DEF Throw

-----------------------------------------------------------------------------
(* The history of settled promises. *)

OrderGrows == order' = order \/ \E p \in Promises : order' = Append(order, p)

LEMMA ResolveIsCounted ==
  ASSUME NEW p \in Promises, NEW v, Resolve(p, v)
  PROVE  OrderGrows
BY DEF Resolve, Reject, Fulfill, HandleOwnThenable, HandleForeignThenable, Settle, Subscribe, OrderGrows

LEMMA SettledAtIsCounted ==
  ASSUME NEW p \in Promises, NEW i, NEW outcome, NEW v, SettledAt(p, i, outcome, v)
  PROVE  OrderGrows
BY DEF SettledAt, Reject, Fulfill, Settle, OrderGrows

LEMMA ThenIsCounted ==
  ASSUME NEW p, NEW s, ThenDo(p, s) \/ Subscribe(p, s)
  PROVE  OrderGrows
BY DEF ThenDo, Subscribe, OrderGrows

LEMMA PageIsCounted ==
  ASSUME IInv, Page
  PROVE  OrderGrows
<1>1. open \subseteq Promises /\ \A k \in DOMAIN adoptions : adoptions[k].promise \in Promises
  <2>1. open \subseteq Promises /\ \A k \in DOMAIN adoptions : adoptions[k] \in Adoption
    BY DEF IInv, TypeOK
  <2> QED
    BY <2>1 DEF Adoption
<1>2. CASE NewPromise \/ (\E p \in Made, f, r \in BOOLEAN : Then(p, f, r))
  BY <1>2, ThenIsCounted DEF NewPromise, Then, OrderGrows
<1>3. CASE \E p \in open, v \in Given : ResolvePromise(p, v)
  BY <1>1, <1>3, ResolveIsCounted DEF ResolvePromise
<1>4. CASE \E p \in open, v \in setup.values : RejectPromise(p, v)
  BY <1>1, <1>4 DEF RejectPromise, Reject, Settle, OrderGrows
<1>5. CASE \/ \E kind \in {"all", "race"}, v, w \in Given : Begin(kind, <<v, w>>)
           \/ \E kind \in {"all", "race"} : Begin(kind, <<>>)
           \/ \E v \in Given : Begin("async", <<v>>) \/ AwaitAgain(v)
  BY <1>5 DEF Begin, AwaitAgain, OrderGrows
<1>6. CASE \E k \in DOMAIN adoptions, v \in Given, outcome \in {"fulfilled", "rejected"} :
             ThenableCalls(k, outcome, v)
  BY <1>1, <1>6, ResolveIsCounted DEF ThenableCalls, Reject, Fulfill, Settle, OrderGrows
<1> QED
  BY <1>2, <1>3, <1>4, <1>5, <1>6 DEF Page

LEMMA TurnIsCounted ==
  ASSUME NEW s \in Subscriber, NEW p, Call(s, p)
  PROVE  OrderGrows
<1>1. s.to \in Promises
  BY DEF Subscriber
<1> QED
  BY <1>1, ResolveIsCounted, SettledAtIsCounted DEF Call, Reject, Settle, OrderGrows

LEMMA LibraryIsCounted ==
  ASSUME IInv, Library
  PROVE  OrderGrows
<1>1. TypeOK
  BY DEF IInv
<1>2. CASE SettledEntry
  BY <1>1, <1>2, EntryOfLoop, SettledAtIsCounted DEF SettledEntry, OrderGrows
<1>3. CASE OwnEntry \/ StartFlush \/ EndFlush \/ EndPublish \/ ThenableNext
  BY <1>3 DEF OwnEntry, StartFlush, EndFlush, EndPublish, ThenableNext, OrderGrows
<1>4. CASE WrapEntry
  BY <1>1, <1>4, FreshIsNew, ResolveIsCounted DEF WrapEntry
<1>5. CASE WaitForEntry
  BY <1>5, ThenIsCounted DEF WaitForEntry
<1>6. CASE EndLoop
  <2>1. loop.to \in Promises
    BY <1>1, <1>6 DEF TypeOK, EndLoop, Loop
  <2> QED
    BY <1>6, <2>1 DEF EndLoop, Fulfill, Settle, OrderGrows
<1>7. CASE PublishNext
  <2>1. queue[at] \in Jobs /\ queue[at].type = "publish" /\ pos \in Nat \ {0}
        /\ pos <= Len(subscribers[queue[at].promise])
    BY <1>1, <1>7 DEF TypeOK, PublishNext, FlushRuns, Job
  <2>2. queue[at].promise \in Promises
    BY <2>1, PublishingJob
  <2>3. subscribers[queue[at].promise][pos] \in Subscriber
    BY <1>1, <2>1, <2>2 DEF TypeOK
  <2> QED
    BY <1>7, <2>3, TurnIsCounted DEF PublishNext, Job
<1>8. CASE InvokeNext
  <2>1. queue[at] \in Jobs /\ queue[at].type = "invoke"
    BY <1>1, <1>8 DEF TypeOK, InvokeNext, FlushRuns, Job
  <2>2. queue[at].subscriber \in Subscriber
    BY <2>1 DEF Jobs
  <2> QED
    BY <1>8, <2>2, TurnIsCounted DEF InvokeNext, Job
<1>9. CASE \E v \in Given \cup {None} : Return(v)
  BY <1>1, <1>9, RunningIsTyped, ResolveIsCounted DEF Return, Reject, Settle, OrderGrows
<1>10. CASE \E v \in setup.values : Throw(v)
  BY <1>1, <1>10, RunningIsTyped DEF Throw, Reject, Settle, OrderGrows
<1> QED
  BY <1>2, <1>3, <1>4, <1>5, <1>6, <1>7, <1>8, <1>9, <1>10 DEF Library

LEMMA OrderTyped == Spec => [](order \in Seq(Promises))
<1>1. Init => order \in Seq(Promises)
  BY DEF Init
<1>2. IInv /\ order \in Seq(Promises) /\ [Next]_vars => (order \in Seq(Promises))'
  <2> SUFFICES ASSUME IInv, order \in Seq(Promises), [Next]_vars PROVE order' \in Seq(Promises)
    OBVIOUS
  <2>1. CASE UNCHANGED vars
    BY <2>1 DEF vars
  <2>2. CASE OrderGrows
    BY <2>2 DEF OrderGrows
  <2> QED
    BY <2>1, <2>2, PageIsCounted, LibraryIsCounted DEF Next
<1> QED
  BY <1>1, <1>2, Invariant, PTL DEF Spec

-----------------------------------------------------------------------------
(* The theorems. *)

LEMMA HandsAtStart ==
  ASSUME Init
  PROVE  HandsInvariant
<1>1. TypeOK
  BY InitHolds DEF IInv
<1>2. /\ running = None /\ loop = None /\ at = 0 /\ open = Made /\ again = {}
      /\ \A p \in Promises : state[p] = "pending" /\ meant[p] = None /\ asked[p] = None
                             /\ subscribers[p] = <<>>
      /\ DOMAIN meant = Promises /\ DOMAIN asked = Promises
      /\ DOMAIN queue = {} /\ DOMAIN adoptions = {}
  BY DEF Init, NoPromise
<1>3. \A p \in Promises : DOMAIN subscribers[p] = {}
  BY <1>2
<1>4. Made \subseteq Promises
  BY <1>1, GivenAreValues
<1>5. Others
  BY <1>2, <1>4 DEF Others, OthersAreMade, OthersAreApart, OneIsAwaited, AskingIsKnown, HistoryIsTyped, Many
<1>6. WaitingAreMade /\ WaitingAreApart
  BY <1>2, <1>3 DEF WaitingAreMade, WaitingAreApart
<1>7. SettledAreMade /\ NoPromiseIsValue
  BY <1>2 DEF SettledAreMade, NoPromiseIsValue, IsValue, Pending
<1>8. OneHand
  BY <1>2, <1>3 DEF OneHand, Alone, Holds, WillBeTold, WillBeDone, MayCallBack, GoesOnFor, InLoop, Pending
<1>9. LinksHold
  <2>1. \A q \in Promises : <<"fulfilled", q>> # None
    BY DEF Meaning, Values
  <2> QED
    BY <1>2, <2>1 DEF LinksHold, FirstFollows
<1> QED
  BY <1>5, <1>6, <1>7, <1>8, <1>9 DEF HandsInvariant

LEMMA PageHands ==
  ASSUME HInv, IInv', Len(order) \in Nat, Page
  PROVE  HandsInvariant'
<1>1. TypeOK /\ Given \subseteq Values
  BY GivenAreValues DEF HInv, IInv
<1>2. \A v, w \in Given : <<v, w>> \in Seq(Values) /\ <<v>> \in Seq(Values) /\ Len(<<v>>) = 1
  BY <1>1
<1>3. << >> \in Seq(Values)
  OBVIOUS
<1>4. CASE \E kind \in {"all", "race"}, v, w \in Given : Begin(kind, <<v, w>>)
  BY <1>2, <1>4, BeginHands
<1>5. CASE \E kind \in {"all", "race"} : Begin(kind, <<>>)
  BY <1>3, <1>5, BeginHands
<1>6. CASE \E v \in Given : Begin("async", <<v>>) \/ AwaitAgain(v)
  BY <1>1, <1>2, <1>6, BeginHands, AwaitAgainHands
<1>7. CASE \E k \in DOMAIN adoptions, v \in Given, outcome \in {"fulfilled", "rejected"} :
             ThenableCalls(k, outcome, v)
  BY <1>1, <1>7, ThenableCallsHands
<1> QED
  BY <1>4, <1>5, <1>6, <1>7, NewPromiseHands, ResolvePromiseHands, RejectPromiseHands,
     ThenHands DEF Page

LEMMA LibraryHands ==
  ASSUME HInv, IInv', Library
  PROVE  HandsInvariant'
<1>1. Given \cup {None} \subseteq Values \cup {None} /\ setup.values \subseteq Values
  BY GivenAreValues DEF HInv, IInv
<1>2. CASE \E v \in Given \cup {None} : Return(v)
  BY <1>1, <1>2, ReturnHands
<1>3. CASE \E v \in setup.values : Throw(v)
  BY <1>1, <1>3, ThrowHands
<1> QED
  BY <1>2, <1>3, SettledEntryHands, OwnEntryHands, WrapEntryHands, WaitForEntryHands,
     EndLoopHands, StartFlushHands, EndFlushHands, PublishNextHands, EndPublishHands,
     InvokeNextHands, ThenableNextHands DEF Library

\* Who may settle a promise that is not one of all() or race(): while nobody
\* has called its functions twice it is in one hand at most, and a promise
\* that was resolved with another one waits for it or has its outcome.
THEOREM InOneHand == Spec => []HandsInvariant
<1>1. Init => HandsInvariant
  BY HandsAtStart
<1>2. IInv /\ IInv' /\ order \in Seq(Promises) /\ HandsInvariant /\ [Next]_vars => HandsInvariant'
  <2> SUFFICES ASSUME IInv, IInv', order \in Seq(Promises), HandsInvariant, [Next]_vars
               PROVE  HandsInvariant'
    OBVIOUS
  <2>1. HInv /\ Len(order) \in Nat
    BY DEF HInv
  <2>2. CASE UNCHANGED vars
    <3>1. /\ UNCHANGED <<core, queueV, at, pos, running, loop, adoptions, open, asked, meant, again>>
          /\ Made' = Made
      BY <2>2 DEF vars, flushV, others, history, Made
    <3>2. \A c \in Promises : Untouched(c)
      BY <3>1, GetNothing DEF Untouched
    <3> QED
      BY <2>1, <3>1, <3>2, OthersKept, IdleStep DEF HandsInvariant
  <2> QED
    BY <2>1, <2>2, PageHands, LibraryHands DEF Next
<1> QED
  BY <1>1, <1>2, Invariant, OrderTyped, PTL DEF Spec

\* A promise that was resolved with another promise is settled as that one,
\* when nobody calls its functions again: its outcome is never another one,
\* and when nothing is left to do it is there.
THEOREM OutcomeFollows == Spec => []Follows
<1>1. IInv /\ HandsInvariant /\ NobodyIsForgotten => Follows
  <2> SUFFICES ASSUME IInv, HandsInvariant, NobodyIsForgotten,
                      NEW p \in Made, NEW q \in Made, FirstFollows(p, q), p \notin again,
                      result[q] \notin Thenables
               PROVE  /\ Settled(p) => SameOutcome(p, q)
                      /\ Quiet /\ Settled(q) => Settled(p)
    BY DEF Follows
  <2>1. p \in Promises /\ q \in Promises
    BY GivenAreValues DEF IInv
  <2>2. Linked(p, q)
    BY <2>1 DEF HandsInvariant, LinksHold
  <2>3. CASE Pending(p) /\ WaitsFor(p, q)
    <3>1. ~Settled(p)
      BY <2>3 DEF Pending, Settled
    <3>2. subscribers[q] # <<>>
      BY <2>3 DEF WaitsFor
    <3>3. ~(Quiet /\ Settled(q))
      BY <3>2 DEF NobodyIsForgotten
    <3> QED
      BY <3>1, <3>3
  <2>4. CASE SameOutcome(p, q)
    BY <2>4 DEF SameOutcome, Settled
  <2> QED
    BY <2>2, <2>3, <2>4 DEF Linked
<1> QED
  BY <1>1, Invariant, InOneHand, NobodyForgotten, PTL
=============================================================================
