--------------------------- MODULE PromisesProofs ---------------------------
(***************************************************************************)
(* Theorems about Promises, for every set of promises and values and for   *)
(* every page: the outcome of a promise is final, nobody who waits for an  *)
(* outcome is forgotten, and the callbacks of a promise are called in the  *)
(* order in which then() was called.                                       *)
(***************************************************************************)
EXTENDS Promises, TLAPS, FiniteSetTheorems

USE PromisesAssumption

-----------------------------------------------------------------------------
(* What a call into the library may do to the promises and the queue. *)

Settles(p) ==
  /\ p \in Promises /\ Pending(p)
  /\ \E outcome \in {"fulfilled", "rejected"} : state' = [state EXCEPT ![p] = outcome]
  /\ \E v \in Values \cup {None} : result' = [result EXCEPT ![p] = v]
  /\ UNCHANGED subscribers
  /\ \/ Asap(Publish(p))
     \/ subscribers[p] = <<>> /\ UNCHANGED queueV

Subscribes(p, s) ==
  /\ p \in Promises /\ s \in Subscriber
  /\ subscribers' = [subscribers EXCEPT ![p] = Append(@, s)]
  /\ UNCHANGED <<state, result>>
  /\ \/ Asap(Publish(p)) /\ Settled(p)
     \/ (Pending(p) \/ subscribers[p] # <<>>) /\ UNCHANGED queueV

Queues(job) ==
  /\ job \in Jobs /\ job.type # "publish"
  /\ job.type = "invoke" => Settled(job.promise)
  /\ Asap(job)
  /\ UNCHANGED core

Effect ==
  \/ UNCHANGED <<core, queueV>>
  \/ \E p \in Promises : Settles(p)
  \/ \E p \in Promises, s \in Subscriber : Subscribes(p, s)
  \/ \E job \in Jobs : Queues(job)

LEMMA SettleHasEffect ==
  ASSUME TypeOK, NEW p \in Promises, NEW outcome \in {"fulfilled", "rejected"},
         NEW v \in Values \cup {None}, Settle(p, outcome, v)
  PROVE  Effect
BY DEF Settle, Effect, Settles, core, queueV

LEMMA AdoptIsSubscriber ==
  ASSUME NEW p \in Promises
  PROVE  Adopt(p) \in Subscriber
BY DEF Adopt, Subscriber, Kinds

LEMMA SubscribeHasEffect ==
  ASSUME TypeOK, NEW p \in Promises, NEW s \in Subscriber, Subscribe(p, s)
  PROVE  Effect
<1>1. Pending(p) \/ Settled(p)
  BY DEF TypeOK, Pending, Settled
<1>2. Subscribes(p, s)
  BY <1>1 DEF Subscribe, Subscribes, queueV
<1> QED
  BY <1>2 DEF Effect

LEMMA ResolveHasEffect ==
  ASSUME TypeOK, NEW p \in Promises, NEW v \in Values \cup {None}, Resolve(p, v)
  PROVE  Effect
<1>1. CASE v = p /\ Reject(p, SelfFulfillment)
  BY <1>1, SettleHasEffect DEF Reject, Values, Errors
<1>2. CASE v \in Promises \ {p} /\ HandleOwnThenable(p, v)
  <2>1. CASE Pending(v) /\ Subscribe(v, Adopt(p))
    BY <2>1, <1>2, AdoptIsSubscriber, SubscribeHasEffect
  <2>2. CASE ~Pending(v) /\ Settle(p, state[v], result[v])
    <3>1. state[v] \in {"fulfilled", "rejected"} /\ result[v] \in Values \cup {None}
      BY <2>2, <1>2 DEF TypeOK, Pending
    <3> QED
      BY <2>2, <3>1, SettleHasEffect
  <2> QED
    BY <1>2, <2>1, <2>2 DEF HandleOwnThenable
<1>3. CASE v \in Broken /\ Reject(p, GetThenError)
  BY <1>3, SettleHasEffect DEF Reject, Values, Errors
<1>4. CASE v \in Thenables /\ HandleForeignThenable(p, v)
  <2>1. AskThenable(p, v) \in Jobs /\ AskThenable(p, v).type = "thenable"
    BY <1>4 DEF AskThenable, Jobs
  <2> QED
    BY <1>4, <2>1 DEF HandleForeignThenable, Effect, Queues, core
<1>5. CASE v \in Values \ (Promises \cup Broken \cup Thenables) /\ Fulfill(p, v)
  BY <1>5, SettleHasEffect DEF Fulfill
<1> QED
  BY <1>1, <1>2, <1>3, <1>4, <1>5 DEF Resolve

LEMMA ThenHasEffect ==
  ASSUME TypeOK, NEW p \in Promises, NEW s \in Subscriber, ThenDo(p, s)
  PROVE  Effect
<1>1. /\ Invoke(p, s) \in Jobs /\ Invoke(p, s).type # "publish"
      /\ Invoke(p, s).promise = p
      /\ Pending(p) \/ Settled(p)
  BY DEF Invoke, Jobs, TypeOK, Pending, Settled
<1> QED
  BY <1>1, SubscribeHasEffect DEF ThenDo, Effect, Queues, core

LEMMA SettledAtHasEffect ==
  ASSUME TypeOK, NEW p \in Promises, NEW i \in Nat, NEW outcome \in {"fulfilled", "rejected"},
         NEW v \in Values \cup {None}, SettledAt(p, i, outcome, v)
  PROVE  Effect /\ remaining' \in [Promises -> Int]
<1>1. ArrayOf(p) \in Values
  BY DEF Values
<1>2. Effect
  BY <1>1, SettleHasEffect DEF SettledAt, Effect, Fulfill, Reject, core, queueV
<1>3. remaining' \in [Promises -> Int]
  BY DEF SettledAt, TypeOK
<1> QED
  BY <1>2, <1>3

-----------------------------------------------------------------------------
(* The inductive invariant. *)

\* The callback of the subscriber s, if it has one, has been called.
Taken(s) == s.kind = "then" => IsStarted(s.to)

\* flush() is at an entry of the queue, or behind it; while a callback of the
\* page runs, it is the one whose turn it is.
TurnOK ==
  /\ at <= Len(queue) + 1
  /\ (at \in DOMAIN queue /\ queue[at].type = "publish") \/ pos = 1
  /\ running # None =>
       /\ at \in DOMAIN queue
       /\ queue[at].type = "invoke" => Taken(queue[at].subscriber)
       /\ queue[at].type = "publish" =>
            /\ pos \in DOMAIN subscribers[queue[at].promise]
            /\ Taken(subscribers[queue[at].promise][pos])

QueuedAreSettled ==
  \A i \in DOMAIN queue : queue[i].type # "thenable" => Settled(queue[i].promise)

\* publish(p) is still to come, or goes on.
WillBePublished(p) == \E i \in DOMAIN queue : i >= at /\ queue[i] = Publish(p)

SubscribersWillHear ==
  \A p \in Promises : Settled(p) /\ subscribers[p] # <<>> => WillBePublished(p)

\* The i-th subscriber of p has not been called, or is called now.
Waits(p, i) == at \in DOMAIN queue /\ queue[at] = Publish(p) => i >= pos

IsSubscribed(p, c) ==
  \E i \in DOMAIN subscribers[p] :
    Waits(p, i) /\ subscribers[p][i].kind = "then" /\ subscribers[p][i].to = c

IsQueued(c) ==
  \E i \in DOMAIN queue :
    /\ i >= at /\ queue[i].type = "invoke"
    /\ queue[i].subscriber.kind = "then" /\ queue[i].subscriber.to = c

CallbacksWillBeCalled ==
  \A c \in Promises : parent[c] # None =>
    IsStarted(c) \/ IsSubscribed(parent[c], c) \/ IsQueued(c)

IInv ==
  /\ TypeOK
  /\ TurnOK
  /\ FlushIsScheduled
  /\ QueuedAreSettled
  /\ SubscribersWillHear
  /\ CallbacksWillBeCalled

-----------------------------------------------------------------------------
(* What every effect leaves as it was. *)

CoreTypes ==
  /\ state \in [Promises -> {"pending", "fulfilled", "rejected"}]
  /\ result \in [Promises -> Values \cup {None}]
  /\ subscribers \in [Promises -> Seq(Subscriber)]
  /\ queue \in Seq(Jobs)
  /\ scheduled \in BOOLEAN

QueueGrows ==
  /\ Len(queue') >= Len(queue)
  /\ \A i \in DOMAIN queue : i \in DOMAIN queue' /\ queue'[i] = queue[i]
  /\ \A i \in DOMAIN queue' \ DOMAIN queue :
       /\ i = Len(queue) + 1
       /\ queue'[i].type # "thenable" => Settled(queue[i].promise)'
  /\ queue' # <<>> => scheduled' \/ (queue # <<>> /\ scheduled' = scheduled)

PromisesGrow ==
  \A p \in Promises :
    /\ Settled(p) => Settled(p)'
    /\ \A i \in DOMAIN subscribers[p] :
         i \in DOMAIN subscribers'[p] /\ subscribers'[p][i] = subscribers[p][i]
    /\ Settled(p)' /\ subscribers'[p] # <<>> =>
         \/ Settled(p) /\ subscribers[p] # <<>>
         \/ \E i \in DOMAIN queue' : i > Len(queue) /\ queue'[i] = Publish(p)

LEMMA PublishIsJob ==
  ASSUME NEW p \in Promises
  PROVE  Publish(p) \in Jobs /\ Publish(p).type = "publish" /\ Publish(p).promise = p
BY DEF Publish, Jobs

LEMMA PublishingJob ==
  ASSUME NEW job \in Jobs, job.type = "publish"
  PROVE  job = Publish(job.promise) /\ job.promise \in Promises
<1>1. job \in [type : {"publish"}, promise : Promises]
  BY DEF Jobs
<1> QED
  BY <1>1 DEF Publish

LEMMA AsapAppends ==
  ASSUME TypeOK, NEW job \in Jobs, Asap(job)
  PROVE  /\ queue' \in Seq(Jobs)
         /\ scheduled' \in BOOLEAN
         /\ Len(queue') = Len(queue) + 1
         /\ \A i \in DOMAIN queue : i \in DOMAIN queue' /\ queue'[i] = queue[i]
         /\ \A i \in DOMAIN queue' \ DOMAIN queue : i = Len(queue) + 1 /\ queue'[i] = job
         /\ Len(queue) + 1 \in DOMAIN queue'
         /\ queue'[Len(queue) + 1] = job
         /\ queue' # <<>> => scheduled' \/ (queue # <<>> /\ scheduled' = scheduled)
<1>1. scheduled' \/ (queue # <<>> /\ scheduled' = scheduled)
  BY Zenon DEF Asap, TypeOK
<1>2. scheduled' \in BOOLEAN
  BY DEF Asap, TypeOK
<1>3. /\ queue' \in Seq(Jobs)
      /\ Len(queue') = Len(queue) + 1
      /\ \A i \in DOMAIN queue : i \in DOMAIN queue' /\ queue'[i] = queue[i]
      /\ \A i \in DOMAIN queue' \ DOMAIN queue : i = Len(queue) + 1 /\ queue'[i] = job
      /\ Len(queue) + 1 \in DOMAIN queue'
      /\ queue'[Len(queue) + 1] = job
  BY DEF Asap, TypeOK
<1> QED
  BY <1>1, <1>2, <1>3, Zenon

LEMMA EffectKeepsTypes ==
  ASSUME TypeOK, Effect
  PROVE  CoreTypes'
<1>1. CASE UNCHANGED <<core, queueV>>
  BY <1>1 DEF TypeOK, CoreTypes, core, queueV
<1>2. ASSUME NEW p \in Promises, Settles(p) PROVE CoreTypes'
  BY <1>2, PublishIsJob, AsapAppends DEF Settles, TypeOK, CoreTypes, queueV
<1>3. ASSUME NEW p \in Promises, NEW s \in Subscriber, Subscribes(p, s) PROVE CoreTypes'
  BY <1>3, PublishIsJob, AsapAppends DEF Subscribes, TypeOK, CoreTypes, queueV
<1>4. ASSUME NEW job \in Jobs, Queues(job) PROVE CoreTypes'
  BY <1>4, AsapAppends DEF Queues, TypeOK, CoreTypes, core
<1> QED
  BY <1>1, <1>2, <1>3, <1>4 DEF Effect

LEMMA EffectGrows ==
  ASSUME TypeOK, Effect
  PROVE  QueueGrows /\ PromisesGrow
<1>1. CASE UNCHANGED <<core, queueV>>
  BY <1>1 DEF QueueGrows, PromisesGrow, TypeOK, Settled, core, queueV
<1>2. ASSUME NEW p \in Promises, Settles(p) PROVE QueueGrows /\ PromisesGrow
  <2>1. \A q \in Promises : (Settled(q) => Settled(q)') /\ (q # p => state'[q] = state[q])
    BY <1>2 DEF Settles, Settled, Pending, TypeOK
  <2>2. Settled(p)'
    BY <1>2 DEF Settles, Settled, TypeOK
  <2>3. CASE Asap(Publish(p))
    <3>1. QueueGrows
      <4>1. /\ Len(queue') = Len(queue) + 1
            /\ \A i \in DOMAIN queue : i \in DOMAIN queue' /\ queue'[i] = queue[i]
            /\ \A i \in DOMAIN queue' \ DOMAIN queue : i = Len(queue) + 1 /\ queue'[i] = Publish(p)
            /\ queue' # <<>> => scheduled' \/ (queue # <<>> /\ scheduled' = scheduled)
        BY <2>3, PublishIsJob, AsapAppends, Zenon
      <4>2. Len(queue') >= Len(queue)
        BY <4>1 DEF TypeOK
      <4>3. \A i \in DOMAIN queue' \ DOMAIN queue :
              queue'[i].type # "thenable" => Settled(queue[i].promise)'
        BY <2>2, <4>1, PublishIsJob DEF Settled
      <4> QED
        BY <4>1, <4>2, <4>3, Zenon DEF QueueGrows
    <3>2. PromisesGrow
      BY <1>2, <2>1, <2>3, PublishIsJob, AsapAppends DEF PromisesGrow, Settles, Settled, TypeOK
    <3> QED
      BY <3>1, <3>2
  <2>4. CASE subscribers[p] = <<>> /\ UNCHANGED queueV
    BY <1>2, <2>1, <2>4 DEF QueueGrows, PromisesGrow, Settles, Settled, TypeOK, queueV
  <2> QED
    BY <1>2, <2>3, <2>4 DEF Settles
<1>3. ASSUME NEW p \in Promises, NEW s \in Subscriber, Subscribes(p, s)
      PROVE  QueueGrows /\ PromisesGrow
  <2>1. \A q \in Promises : Settled(q)' = Settled(q)
    BY <1>3 DEF Subscribes, Settled
  <2>2. \A q \in Promises : \A i \in DOMAIN subscribers[q] :
          i \in DOMAIN subscribers'[q] /\ subscribers'[q][i] = subscribers[q][i]
    BY <1>3 DEF Subscribes, TypeOK
  <2>3. \A q \in Promises : q # p => subscribers'[q] = subscribers[q]
    BY <1>3 DEF Subscribes, TypeOK
  <2>4. CASE Asap(Publish(p)) /\ Settled(p)
    <3>1. QueueGrows
      <4>1. /\ Len(queue') = Len(queue) + 1
            /\ \A i \in DOMAIN queue : i \in DOMAIN queue' /\ queue'[i] = queue[i]
            /\ \A i \in DOMAIN queue' \ DOMAIN queue : i = Len(queue) + 1 /\ queue'[i] = Publish(p)
            /\ queue' # <<>> => scheduled' \/ (queue # <<>> /\ scheduled' = scheduled)
        BY <2>4, PublishIsJob, AsapAppends, Zenon
      <4>2. Len(queue') >= Len(queue)
        BY <4>1 DEF TypeOK
      <4>3. \A i \in DOMAIN queue' \ DOMAIN queue :
              queue'[i].type # "thenable" => Settled(queue[i].promise)'
        BY <2>1, <2>4, <4>1, PublishIsJob DEF Settled
      <4> QED
        BY <4>1, <4>2, <4>3, Zenon DEF QueueGrows
    <3>2. PromisesGrow
      <4>1. \E i \in DOMAIN queue' : i > Len(queue) /\ queue'[i] = Publish(p)
        <5>1. Len(queue) \in Nat
          BY DEF TypeOK
        <5>2. Len(queue) + 1 \in DOMAIN queue' /\ queue'[Len(queue) + 1] = Publish(p)
          BY <2>4, PublishIsJob, AsapAppends
        <5> QED
          BY <5>1, <5>2
      <4> QED
        BY <2>1, <2>2, <2>3, <4>1 DEF PromisesGrow
    <3> QED
      BY <3>1, <3>2
  <2>5. CASE (Pending(p) \/ subscribers[p] # <<>>) /\ UNCHANGED queueV
    <3>1. QueueGrows
      BY <2>5 DEF QueueGrows, TypeOK, queueV
    <3>2. PromisesGrow
      BY <2>1, <2>2, <2>3, <2>5 DEF PromisesGrow, Pending, Settled
    <3> QED
      BY <3>1, <3>2
  <2> QED
    BY <1>3, <2>4, <2>5 DEF Subscribes
<1>4. ASSUME NEW job \in Jobs, Queues(job) PROVE QueueGrows /\ PromisesGrow
  <2>1. QueueGrows
    <3>1. /\ Len(queue') = Len(queue) + 1
          /\ \A i \in DOMAIN queue : i \in DOMAIN queue' /\ queue'[i] = queue[i]
          /\ \A i \in DOMAIN queue' \ DOMAIN queue : i = Len(queue) + 1 /\ queue'[i] = job
          /\ queue' # <<>> => scheduled' \/ (queue # <<>> /\ scheduled' = scheduled)
      BY <1>4, AsapAppends, Zenon DEF Queues
    <3>2. Len(queue') >= Len(queue)
      BY <3>1 DEF TypeOK
    <3>3. job.type # "thenable" => Settled(job.promise)
      BY <1>4 DEF Queues, Jobs
    <3>4. \A i \in DOMAIN queue' \ DOMAIN queue :
            queue'[i].type # "thenable" => Settled(queue[i].promise)'
      BY <1>4, <3>1, <3>3 DEF Queues, Settled, core
    <3> QED
      BY <3>1, <3>2, <3>4, Zenon DEF QueueGrows
  <2>2. PromisesGrow
    BY <1>4 DEF PromisesGrow, Queues, core, Settled
  <2> QED
    BY <2>1, <2>2
<1> QED
  BY <1>1, <1>2, <1>3, <1>4 DEF Effect

\* A step leaves the outcome and the value of a settled promise.
Final == \A p \in Promises : Settled(p) => state'[p] = state[p] /\ result'[p] = result[p]

LEMMA EffectIsFinal ==
  ASSUME TypeOK, Effect
  PROVE  Final
<1> SUFFICES ASSUME NEW p \in Promises, Settled(p)
             PROVE  state'[p] = state[p] /\ result'[p] = result[p]
  BY DEF Final
<1>1. CASE UNCHANGED <<core, queueV>>
  BY <1>1 DEF core
<1>2. ASSUME NEW q \in Promises, Settles(q)
      PROVE  state'[p] = state[p] /\ result'[p] = result[p]
  <2>1. q # p
    BY <1>2 DEF Settles, Pending, Settled
  <2> QED
    BY <1>2, <2>1 DEF Settles, TypeOK
<1> QED
  BY <1>1, <1>2 DEF Effect, Subscribes, Queues, core

-----------------------------------------------------------------------------
(* What an effect leaves of the invariant, when the turn stays where it is  *)
(* or goes on.                                                              *)

LEMMA QueuedStaySettled ==
  ASSUME IInv, Effect
  PROVE  QueuedAreSettled'
<1>1. QueueGrows /\ PromisesGrow
  BY EffectGrows DEF IInv
<1>2. CoreTypes'
  BY EffectKeepsTypes DEF IInv
<1> SUFFICES ASSUME NEW i \in DOMAIN queue', queue'[i].type # "thenable"
             PROVE  Settled(queue[i].promise)'
  BY DEF QueuedAreSettled
<1>3. CASE i \in DOMAIN queue
  <2>1. Settled(queue[i].promise) /\ queue'[i] = queue[i]
    BY <1>1, <1>3 DEF IInv, QueuedAreSettled, QueueGrows
  <2>2. queue[i].promise \in Promises
    BY <1>3, <2>1 DEF IInv, TypeOK, Jobs
  <2> QED
    BY <1>1, <2>1, <2>2 DEF PromisesGrow, Settled
<1>4. CASE i \notin DOMAIN queue
  BY <1>1, <1>4 DEF QueueGrows
<1> QED
  BY <1>3, <1>4

\* The turn stays at the same entry, and at the same subscriber.
Stays == UNCHANGED <<at, pos>>

\* The callback of the subscriber s, if it has one, is called now at the latest.
TakenNow(s) == s.kind = "then" => \E i \in DOMAIN started' : started'[i] = s.to

\* The turn of a callback, or of a thenable, is over.
GoesOn ==
  /\ at \in DOMAIN queue
  /\ queue[at].type = "invoke" => TakenNow(queue[at].subscriber)
  /\ queue[at].type = "publish" =>
       /\ pos \in DOMAIN subscribers[queue[at].promise]
       /\ TakenNow(subscribers[queue[at].promise][pos])
  /\ Advance

LEMMA StillHear ==
  ASSUME IInv, Effect, Stays \/ GoesOn
  PROVE  SubscribersWillHear'
<1>1. QueueGrows /\ PromisesGrow
  BY EffectGrows DEF IInv
<1> SUFFICES ASSUME NEW p \in Promises, Settled(p)', subscribers'[p] # <<>>
             PROVE  WillBePublished(p)'
  BY DEF SubscribersWillHear
<1>2. at' \in {at, at + 1} /\ at' \in Nat /\ (at' = at + 1 => queue[at].type # "publish")
  BY DEF Stays, GoesOn, Advance, IInv, TypeOK
<1>3. at <= Len(queue) + 1 /\ (at' = at + 1 => at <= Len(queue))
  <2>1. at' = at + 1 => at \in DOMAIN queue
    BY DEF Stays, GoesOn, IInv, TypeOK
  <2> QED
    BY <2>1 DEF IInv, TurnOK, TypeOK
<1>4. CASE Settled(p) /\ subscribers[p] # <<>>
  <2>1. PICK i \in DOMAIN queue : i >= at /\ queue[i] = Publish(p)
    BY <1>4 DEF IInv, SubscribersWillHear, WillBePublished
  <2>2. i \in DOMAIN queue' /\ queue'[i] = Publish(p)
    BY <1>1, <2>1 DEF QueueGrows
  <2>3. i >= at'
    BY <1>2, <2>1, PublishIsJob DEF IInv, TypeOK
  <2> QED
    BY <2>2, <2>3 DEF WillBePublished, Publish
<1>5. CASE \E i \in DOMAIN queue' : i > Len(queue) /\ queue'[i] = Publish(p)
  <2>1. PICK i \in DOMAIN queue' : i > Len(queue) /\ queue'[i] = Publish(p)
    BY <1>5
  <2>2. queue' \in Seq(Jobs)
    BY EffectKeepsTypes DEF IInv, CoreTypes
  <2>3. i >= at'
    BY <1>2, <1>3, <2>1, <2>2 DEF IInv, TypeOK
  <2> QED
    BY <2>1, <2>3 DEF WillBePublished, Publish
<1> QED
  BY <1>1, <1>4, <1>5 DEF PromisesGrow

LEMMA StillCalled ==
  ASSUME IInv, Effect, Stays \/ GoesOn,
         NEW c \in Promises, parent[c] \in Promises,
         \A d \in Promises : IsStarted(d) => IsStarted(d)'
  PROVE  \/ IsStarted(c)'
         \/ \E i \in DOMAIN subscribers'[parent[c]] :
              /\ (at' \in DOMAIN queue' /\ queue'[at'] = Publish(parent[c]) => i >= pos')
              /\ subscribers'[parent[c]][i].kind = "then"
              /\ subscribers'[parent[c]][i].to = c
         \/ IsQueued(c)'
<1> DEFINE p == parent[c]
<1>1. QueueGrows /\ PromisesGrow
  BY EffectGrows DEF IInv
<1>2. CASE IsStarted(c)
  BY <1>2
<1>3. CASE IsSubscribed(p, c)
  <2>1. PICK i \in DOMAIN subscribers[p] :
          Waits(p, i) /\ subscribers[p][i].kind = "then" /\ subscribers[p][i].to = c
    BY <1>3 DEF IsSubscribed
  <2>2. i \in DOMAIN subscribers'[p] /\ subscribers'[p][i] = subscribers[p][i]
    BY <1>1, <2>1 DEF PromisesGrow
  <2>3. i >= 1 /\ i \in Nat /\ pos \in Nat /\ at \in Nat
    BY <2>1 DEF IInv, TypeOK
  <2>4. CASE ~(at' \in DOMAIN queue' /\ queue'[at'] = Publish(p))
    BY <2>1, <2>2, <2>4
  <2>5. CASE at' \in DOMAIN queue' /\ queue'[at'] = Publish(p) /\ at' # at
    <3>1. GoesOn /\ queue[at].type # "publish" /\ pos' = pos
      BY <2>5 DEF Stays, GoesOn, Advance
    <3>2. pos = 1
      BY <3>1 DEF IInv, TurnOK
    <3> QED
      BY <2>1, <2>2, <2>3, <3>1, <3>2
  <2>6. CASE at' = at /\ at \notin DOMAIN queue
    <3>1. pos' = pos
      BY <2>6 DEF Stays, GoesOn
    <3>2. pos = 1
      BY <2>6 DEF IInv, TurnOK
    <3> QED
      BY <2>1, <2>2, <2>3, <3>1, <3>2
  <2>7. CASE at' = at /\ at \in DOMAIN queue /\ queue'[at'] = Publish(p)
    <3>1. queue[at] = Publish(p) /\ i >= pos
      BY <1>1, <2>1, <2>7 DEF QueueGrows, Waits
    <3>2. CASE Stays
      BY <2>1, <2>2, <3>1, <3>2 DEF Stays
    <3>3. CASE GoesOn
      <4>1. queue[at].type = "publish" /\ queue[at].promise = p
        BY <3>1, PublishIsJob
      <4>2. pos' = pos + 1 /\ TakenNow(subscribers[p][pos])
        BY <3>3, <4>1 DEF GoesOn, Advance
      <4>3. CASE i = pos
        BY <2>1, <2>2, <4>2, <4>3 DEF TakenNow, IsStarted
      <4>4. CASE i # pos
        BY <2>1, <2>2, <2>3, <3>1, <4>2, <4>4
      <4> QED
        BY <4>3, <4>4
    <3> QED
      BY <3>2, <3>3
  <2> QED
    BY <2>4, <2>5, <2>6, <2>7
<1>4. CASE IsQueued(c)
  <2>1. PICK i \in DOMAIN queue :
          /\ i >= at /\ queue[i].type = "invoke"
          /\ queue[i].subscriber.kind = "then" /\ queue[i].subscriber.to = c
    BY <1>4 DEF IsQueued
  <2>2. i \in DOMAIN queue' /\ queue'[i] = queue[i] /\ i \in Nat /\ at \in Nat
    BY <1>1, <2>1 DEF QueueGrows, IInv, TypeOK
  <2>3. CASE i >= at'
    BY <2>1, <2>2, <2>3 DEF IsQueued
  <2>4. CASE ~(i >= at')
    <3>1. i = at /\ GoesOn
      BY <2>1, <2>2, <2>4 DEF Stays, GoesOn, Advance
    <3>2. TakenNow(queue[i].subscriber)
      BY <2>1, <3>1 DEF GoesOn
    <3> QED
      BY <2>1, <2>2, <3>2 DEF TakenNow, IsStarted
  <2> QED
    BY <2>3, <2>4
<1>5. parent[c] # None
  BY DEF Values
<1> QED
  BY <1>2, <1>3, <1>4, <1>5 DEF IInv, CallbacksWillBeCalled

LEMMA StillScheduled ==
  ASSUME IInv, Effect, Stays \/ GoesOn
  PROVE  FlushIsScheduled'
<1> SUFFICES ASSUME at' = 0, queue' # <<>> PROVE scheduled'
  BY DEF FlushIsScheduled
<1>1. at = 0
  BY DEF Stays, GoesOn, Advance, IInv, TypeOK
<1>2. scheduled' \/ (queue # <<>> /\ scheduled' = scheduled)
  BY EffectGrows DEF IInv, QueueGrows
<1>3. queue # <<>> => scheduled = TRUE
  BY <1>1 DEF IInv, FlushIsScheduled, TypeOK
<1>4. scheduled' = scheduled /\ scheduled = TRUE => scheduled'
  OBVIOUS
<1> QED
  BY <1>2, <1>3, <1>4, Zenon

LEMMA StillInTurn ==
  ASSUME IInv, Effect,
         \/ Stays /\ UNCHANGED <<running, started>>
         \/ GoesOn /\ running' = None
  PROVE  TurnOK'
<1>1. QueueGrows /\ PromisesGrow /\ CoreTypes'
  BY EffectGrows, EffectKeepsTypes DEF IInv
<1>2. at \in Nat /\ pos \in Nat /\ queue \in Seq(Jobs)
  BY DEF IInv, TypeOK
<1>3. queue' \in Seq(Jobs)
  BY <1>1 DEF CoreTypes
<1>4. at <= Len(queue) + 1 /\ (at \in DOMAIN queue => at <= Len(queue) /\ queue'[at] = queue[at])
  BY <1>1, <1>2 DEF IInv, TurnOK, QueueGrows
<1>5. at' <= Len(queue') + 1
  BY <1>1, <1>2, <1>3, <1>4 DEF Stays, GoesOn, Advance, QueueGrows
<1>6. (at' \in DOMAIN queue' /\ queue'[at'].type = "publish") \/ pos' = 1
  <2>1. CASE at \in DOMAIN queue /\ queue[at].type = "publish"
    <3>1. at' = at
      BY <2>1 DEF Stays, GoesOn, Advance
    <3> QED
      BY <1>1, <2>1, <3>1 DEF QueueGrows
  <2>2. CASE ~(at \in DOMAIN queue /\ queue[at].type = "publish")
    BY <2>2 DEF Stays, GoesOn, Advance, IInv, TurnOK
  <2> QED
    BY <2>1, <2>2
<1>7. running' # None =>
        /\ at' \in DOMAIN queue'
        /\ queue'[at'].type = "invoke" => Taken(queue[at].subscriber)'
        /\ queue'[at'].type = "publish" =>
             /\ pos' \in DOMAIN subscribers'[queue'[at'].promise]
             /\ Taken(subscribers[queue[at].promise][pos])'
  <2> SUFFICES ASSUME running' # None
               PROVE  /\ at' \in DOMAIN queue'
                      /\ queue'[at'].type = "invoke" => Taken(queue[at].subscriber)'
                      /\ queue'[at'].type = "publish" =>
                           /\ pos' \in DOMAIN subscribers'[queue'[at'].promise]
                           /\ Taken(subscribers[queue[at].promise][pos])'
    OBVIOUS
  <2>1. /\ at' = at /\ pos' = pos /\ started' = started
        /\ at \in DOMAIN queue
        /\ queue[at].type = "invoke" => Taken(queue[at].subscriber)
        /\ queue[at].type = "publish" =>
             /\ pos \in DOMAIN subscribers[queue[at].promise]
             /\ Taken(subscribers[queue[at].promise][pos])
    BY DEF Stays, IInv, TurnOK
  <2>2. at' \in DOMAIN queue' /\ queue'[at'] = queue[at]
    BY <1>1, <2>1 DEF QueueGrows
  <2>3. queue[at].type = "publish" => queue[at].promise \in Promises
    BY <1>2, <2>1 DEF Jobs
  <2>4. queue'[at'].type = "publish" =>
          /\ pos' \in DOMAIN subscribers'[queue'[at'].promise]
          /\ subscribers'[queue'[at'].promise][pos'] = subscribers[queue[at].promise][pos]
    BY <1>1, <2>1, <2>2, <2>3 DEF PromisesGrow
  <2> QED
    BY <2>1, <2>2, <2>4 DEF Taken, IsStarted
<1> QED
  BY <1>5, <1>6, <1>7 DEF TurnOK

Rest ==
  /\ TurnOK
  /\ FlushIsScheduled
  /\ QueuedAreSettled
  /\ SubscribersWillHear
  /\ CallbacksWillBeCalled

\* A step with an effect that registers no callback keeps the invariant.
LEMMA EffectKeepsRest ==
  ASSUME IInv, Effect, UNCHANGED parent,
         \/ Stays /\ UNCHANGED <<running, started>>
         \/ /\ GoesOn /\ running' = None
            /\ started' = started \/ \E d \in Promises : started' = Append(started, d)
  PROVE  Rest'
<1>1. \A d \in Promises : IsStarted(d) => IsStarted(d)'
  <2>1. CASE started' = started
    BY <2>1 DEF IsStarted
  <2>2. ASSUME NEW e \in Promises, started' = Append(started, e)
        PROVE  \A d \in Promises : IsStarted(d) => IsStarted(d)'
    <3>1. \A i \in DOMAIN started : i \in DOMAIN started' /\ started'[i] = started[i]
      BY SMTT(20), <2>2 DEF IInv, TypeOK
    <3> QED
      BY <3>1 DEF IsStarted
  <2> QED
    BY <2>1, <2>2
<1>2. CallbacksWillBeCalled'
  <2> SUFFICES ASSUME NEW c \in Promises, parent'[c] # None
               PROVE  IsStarted(c)' \/ IsSubscribed(parent[c], c)' \/ IsQueued(c)'
    BY DEF CallbacksWillBeCalled
  <2>1. parent'[c] = parent[c] /\ parent[c] \in Promises
    BY DEF IInv, TypeOK
  <2> QED
    BY <1>1, <2>1, StillCalled DEF IsSubscribed, Waits, Publish
<1> QED
  BY <1>2, QueuedStaySettled, StillHear, StillScheduled, StillInTurn DEF Rest

-----------------------------------------------------------------------------
(* Every step keeps the invariant. *)

OtherTypes ==
  /\ setup \in Setups
  /\ left \in [Calls -> Nat]
  /\ made \in Seq(Promises)
  /\ at \in Nat /\ pos \in Nat \ {0}
  /\ running \in {None} \cup Subscriber \cup Asking
  /\ loop \in {None} \cup Loop
  /\ remaining \in [Promises -> Int]
  /\ adoptions \in Seq(Adoption)
  /\ open \subseteq Promises
  /\ parent \in [Promises -> Promises \cup {None}]
  /\ started \in Seq(Promises)

LEMMA GivenAreValues ==
  ASSUME TypeOK
  PROVE  /\ setup.values \subseteq Values
         /\ Made \subseteq Promises
         /\ Given \subseteq Values
<1>1. setup.values \subseteq Values
  BY DEF TypeOK, Setup
<1>2. Made \subseteq Promises
  BY DEF TypeOK, Made
<1> QED
  BY <1>1, <1>2 DEF Given, Values

LEMMA FreshIsMade ==
  ASSUME TypeOK, CanMake, NowMade(Fresh)
  PROVE  Fresh \in Promises /\ made' \in Seq(Promises)
<1>1. \E p \in Promises \ Made : TRUE
  BY GivenAreValues DEF CanMake
<1>2. Fresh \in Promises
  BY <1>1 DEF Fresh
<1> QED
  BY <1>2 DEF NowMade, TypeOK

LEMMA CalledIsCounted ==
  ASSUME TypeOK, NEW f \in Calls, MayCall(f), Called(f)
  PROVE  left' \in [Calls -> Nat]
BY DEF TypeOK, MayCall, Called

\* What most actions leave as it was.
LEMMA QuietStep ==
  ASSUME IInv, Effect, OtherTypes', UNCHANGED <<flushV, parent, started>>
  PROVE  IInv' /\ Final
<1>1. TypeOK'
  BY EffectKeepsTypes DEF IInv, TypeOK, CoreTypes, OtherTypes
<1>2. Rest'
  BY EffectKeepsRest DEF Stays, flushV
<1>3. Final
  BY EffectIsFinal DEF IInv
<1> QED
  BY <1>1, <1>2, <1>3 DEF IInv, Rest

LEMMA NoEffect ==
  ASSUME UNCHANGED <<core, queueV>>
  PROVE  Effect
BY DEF Effect

LEMMA NewPromiseKeeps ==
  ASSUME IInv, NewPromise
  PROVE  IInv' /\ Final
<1>1. TypeOK
  BY DEF IInv
<1>2. Fresh \in Promises /\ made' \in Seq(Promises) /\ left' \in [Calls -> Nat]
  BY <1>1, FreshIsMade, CalledIsCounted DEF NewPromise, Calls
<1>3. OtherTypes'
  BY <1>1, <1>2 DEF NewPromise, TypeOK, OtherTypes, flushV, others, history
<1> QED
  BY <1>3, NoEffect, QuietStep DEF NewPromise, history, core, queueV

LEMMA ResolvePromiseKeeps ==
  ASSUME IInv, NEW p \in open, NEW v \in Given, ResolvePromise(p, v)
  PROVE  IInv' /\ Final
<1>1. TypeOK /\ p \in Promises /\ v \in Values
  BY GivenAreValues DEF IInv, TypeOK
<1>2. left' \in [Calls -> Nat]
  BY <1>1, CalledIsCounted DEF ResolvePromise, Calls
<1>3. OtherTypes'
  BY <1>1, <1>2 DEF ResolvePromise, TypeOK, OtherTypes, flushV, others
<1>4. Effect
  BY <1>1, ResolveHasEffect DEF ResolvePromise
<1> QED
  BY <1>3, <1>4, QuietStep DEF ResolvePromise

LEMMA RejectPromiseKeeps ==
  ASSUME IInv, NEW p \in open, NEW v \in setup.values, RejectPromise(p, v)
  PROVE  IInv' /\ Final
<1>1. TypeOK /\ p \in Promises /\ v \in Values
  BY GivenAreValues DEF IInv, TypeOK
<1>2. left' \in [Calls -> Nat]
  BY <1>1, CalledIsCounted DEF RejectPromise, Calls
<1>3. OtherTypes'
  BY <1>1, <1>2 DEF RejectPromise, TypeOK, OtherTypes, flushV, others
<1>4. Effect
  BY <1>1, SettleHasEffect DEF RejectPromise, Reject
<1> QED
  BY <1>3, <1>4, QuietStep DEF RejectPromise

LEMMA BeginKeeps ==
  ASSUME IInv, NEW kind \in {"all", "race", "async"}, NEW entries \in Seq(Values),
         Begin(kind, entries)
  PROVE  IInv' /\ Final
<1>1. TypeOK /\ Made \subseteq Promises
  BY GivenAreValues DEF IInv
<1>2. CanMake
  <2> SUFFICES ASSUME Made = Promises PROVE FALSE
    BY DEF CanMake
  <2>1. Cardinality(Promises \ Made) = 0
    <3>1. Promises \ Made = {}
      OBVIOUS
    <3> QED
      BY <3>1, FS_EmptySet
  <2> QED
    BY <2>1 DEF Begin
<1>3. Fresh \in Promises /\ made' \in Seq(Promises)
  BY <1>1, <1>2, FreshIsMade DEF Begin
<1>4. left' \in [Calls -> Nat]
  BY <1>1, CalledIsCounted DEF Begin, Calls
<1>5. loop' \in Loop /\ remaining' \in [Promises -> Int]
  BY <1>1, <1>3 DEF Begin, Loop, TypeOK
<1>6. OtherTypes'
  BY <1>1, <1>3, <1>4, <1>5 DEF Begin, TypeOK, OtherTypes, flushV
<1> QED
  BY <1>6, NoEffect, QuietStep DEF Begin, core, queueV

LEMMA AwaitAgainKeeps ==
  ASSUME IInv, NEW v \in Values, AwaitAgain(v)
  PROVE  IInv' /\ Final
<1>1. TypeOK
  BY DEF IInv
<1>2. left' \in [Calls -> Nat]
  BY <1>1, CalledIsCounted DEF AwaitAgain, Calls
<1>3. running.to \in Promises
  BY <1>1 DEF AwaitAgain, TypeOK, Subscriber, Asking
<1>4. loop' \in Loop
  BY <1>3 DEF AwaitAgain, Loop
<1>5. OtherTypes'
  BY <1>1, <1>2, <1>4 DEF AwaitAgain, TypeOK, OtherTypes, flushV, history
<1> QED
  BY <1>5, NoEffect, QuietStep DEF AwaitAgain, core, queueV, history

LEMMA ThenableCallsKeeps ==
  ASSUME IInv, NEW k \in DOMAIN adoptions, NEW v \in Values,
         NEW outcome \in {"fulfilled", "rejected"}, ThenableCalls(k, outcome, v)
  PROVE  IInv' /\ Final
<1>1. TypeOK /\ adoptions[k] \in Adoption /\ adoptions[k].promise \in Promises
  <2>1. TypeOK /\ adoptions[k] \in Adoption
    BY DEF IInv, TypeOK
  <2> QED
    BY <2>1 DEF Adoption
<1>2. left' \in [Calls -> Nat]
  BY <1>1, CalledIsCounted DEF ThenableCalls, Calls
<1>3. adoptions' \in Seq(Adoption)
  <2>1. [adoptions[k] EXCEPT !.sealed = TRUE] \in Adoption
    BY <1>1 DEF Adoption
  <2>2. adoptions' = [adoptions EXCEPT ![k] = [adoptions[k] EXCEPT !.sealed = TRUE]]
    BY DEF ThenableCalls
  <2>3. adoptions \in Seq(Adoption)
    BY <1>1 DEF TypeOK
  <2> QED
    BY <2>1, <2>2, <2>3
<1>4. OtherTypes'
  BY <1>1, <1>2, <1>3 DEF ThenableCalls, TypeOK, OtherTypes, flushV, history
<1>5. Effect
  <2>1. CASE UNCHANGED <<core, order, queueV>>
    BY <2>1, NoEffect
  <2>2. CASE Reject(adoptions[k].promise, v)
    BY <2>2, <1>1, SettleHasEffect DEF Reject
  <2>3. CASE Fulfill(adoptions[k].promise, v)
    BY <2>3, <1>1, SettleHasEffect DEF Fulfill
  <2>4. CASE Resolve(adoptions[k].promise, v)
    BY <2>4, <1>1, ResolveHasEffect
  <2> QED
    BY <2>1, <2>2, <2>3, <2>4 DEF ThenableCalls
<1> QED
  BY <1>4, <1>5, QuietStep DEF ThenableCalls, history

\* The entry of the loop, and the promise that is made for it.
LEMMA EntryOfLoop ==
  ASSUME TypeOK, InLoop
  PROVE  /\ loop \in Loop /\ loop.to \in Promises
         /\ loop.i \in DOMAIN loop.entries /\ loop.i \in Nat
         /\ Entry \in Values
         /\ loop.inner # None => loop.inner \in Promises
         /\ Awaiter("entry") \in Subscriber
         /\ Awaiter("race") \in Subscriber
         /\ Awaiter("async") \in Subscriber
<1>1. loop \in Loop
  BY DEF TypeOK, InLoop
<1>2. /\ loop.to \in Promises /\ loop.entries \in Seq(Values) /\ loop.i \in Nat \ {0}
      /\ loop.inner # None => loop.inner \in Promises
  BY <1>1 DEF Loop
<1>3. loop.i \in DOMAIN loop.entries /\ loop.i \in Nat
  BY <1>2 DEF InLoop
<1>4. Entry \in Values
  BY <1>2, <1>3 DEF Entry
<1> QED
  BY <1>1, <1>2, <1>3, <1>4 DEF Awaiter, Subscriber, Kinds

LEMMA NextEntryIsLoop ==
  ASSUME TypeOK, InLoop, NextEntry
  PROVE  loop' \in Loop
<1>1. loop \in Loop
  BY EntryOfLoop
<1>2. loop' = [kind |-> loop.kind, to |-> loop.to, entries |-> loop.entries,
               i |-> loop.i + 1, inner |-> None]
  BY <1>1 DEF NextEntry, Loop
<1>3. /\ loop.kind \in {"all", "race", "async"} /\ loop.to \in Promises
      /\ loop.entries \in Seq(Values) /\ loop.i + 1 \in Nat \ {0}
  BY <1>1 DEF Loop
<1> QED
  BY <1>2, <1>3 DEF Loop

LEMMA SettledEntryKeeps ==
  ASSUME IInv, SettledEntry
  PROVE  IInv' /\ Final
<1>1. TypeOK /\ InLoop
  BY DEF IInv, SettledEntry
<1>2. loop' \in Loop
  BY <1>1, NextEntryIsLoop DEF SettledEntry
<1>3. Effect /\ remaining' \in [Promises -> Int]
  <2>0. loop.to \in Promises /\ loop.i \in Nat
    BY <1>1, EntryOfLoop
  <2>1. CASE /\ Entry \in Promises /\ Settled(Entry)
             /\ SettledAt(loop.to, loop.i, state[Entry], result[Entry])
    <3>1. state[Entry] \in {"fulfilled", "rejected"} /\ result[Entry] \in Values \cup {None}
      BY <1>1, <2>1 DEF Settled, TypeOK
    <3> QED
      BY <1>1, <2>0, <2>1, <3>1, SettledAtHasEffect
  <2>2. CASE /\ remaining' = [remaining EXCEPT ![loop.to] = @ - 1]
             /\ UNCHANGED <<core, order, queueV>>
    BY <1>1, <2>0, <2>2, NoEffect DEF TypeOK
  <2> QED
    BY <2>1, <2>2 DEF SettledEntry
<1>4. OtherTypes'
  BY <1>1, <1>2, <1>3 DEF SettledEntry, TypeOK, OtherTypes, flushV, history
<1> QED
  BY <1>3, <1>4, QuietStep DEF SettledEntry, history

LEMMA OwnEntryKeeps ==
  ASSUME IInv, OwnEntry
  PROVE  IInv' /\ Final
<1>1. TypeOK /\ InLoop
  BY DEF IInv, OwnEntry
<1>2. loop' \in Loop
  BY <1>1, EntryOfLoop DEF OwnEntry, Loop
<1>3. OtherTypes'
  BY <1>1, <1>2 DEF OwnEntry, TypeOK, OtherTypes, flushV, history
<1> QED
  BY <1>3, NoEffect, QuietStep DEF OwnEntry, core, queueV, history

LEMMA WrapEntryKeeps ==
  ASSUME IInv, WrapEntry
  PROVE  IInv' /\ Final
<1>1. TypeOK /\ InLoop
  BY DEF IInv, WrapEntry
<1>2. Fresh \in Promises /\ made' \in Seq(Promises)
  BY <1>1, FreshIsMade DEF WrapEntry
<1>3. loop' \in Loop
  BY <1>1, <1>2, EntryOfLoop DEF WrapEntry, Loop
<1>4. Effect
  BY <1>1, <1>2, EntryOfLoop, ResolveHasEffect DEF WrapEntry
<1>5. OtherTypes'
  BY <1>1, <1>2, <1>3 DEF WrapEntry, TypeOK, OtherTypes, flushV, history
<1> QED
  BY <1>4, <1>5, QuietStep DEF WrapEntry, history

LEMMA WaitForEntryKeeps ==
  ASSUME IInv, WaitForEntry
  PROVE  IInv' /\ Final
<1>1. TypeOK /\ InLoop
  BY DEF IInv, WaitForEntry
<1>2. loop' \in Loop
  BY <1>1, NextEntryIsLoop DEF WaitForEntry
<1>3. Effect
  BY <1>1, EntryOfLoop, SubscribeHasEffect, ThenHasEffect DEF WaitForEntry
<1>4. OtherTypes'
  BY <1>1, <1>2 DEF WaitForEntry, TypeOK, OtherTypes, flushV, history
<1> QED
  BY <1>3, <1>4, QuietStep DEF WaitForEntry, history

-----------------------------------------------------------------------------
(* The steps in which the turn goes on, or a callback starts to run. *)

\* The turn of the callback that runs goes on when it ends.
LEMMA RunningGoesOn ==
  ASSUME IInv, running # None, Advance, UNCHANGED started
  PROVE  GoesOn
BY DEF IInv, TurnOK, GoesOn, TakenNow, Taken, IsStarted

LEMMA AdvanceKeepsTypes ==
  ASSUME TypeOK, Advance
  PROVE  at' \in Nat /\ pos' \in Nat \ {0}
BY DEF TypeOK, Advance

LEMMA GoesOnStep ==
  ASSUME IInv, Effect, OtherTypes', GoesOn, running' = None, UNCHANGED parent,
         started' = started \/ \E d \in Promises : started' = Append(started, d)
  PROVE  IInv' /\ Final
<1>1. TypeOK'
  BY EffectKeepsTypes DEF IInv, TypeOK, CoreTypes, OtherTypes
<1>2. Rest'
  BY EffectKeepsRest
<1>3. Final
  BY EffectIsFinal DEF IInv
<1> QED
  BY <1>1, <1>2, <1>3 DEF IInv, Rest

LEMMA EndLoopKeeps ==
  ASSUME IInv, EndLoop
  PROVE  IInv' /\ Final
<1>1. TypeOK
  BY DEF IInv
<1>2. Effect
  <2>1. loop.to \in Promises
    BY <1>1 DEF EndLoop, TypeOK, Loop
  <2>2. ArrayOf(loop.to) \in Values
    BY <2>1 DEF Values
  <2> QED
    BY <1>1, <2>1, <2>2, SettleHasEffect, NoEffect DEF EndLoop, Fulfill
<1>3. CASE UNCHANGED flushV
  <2>1. OtherTypes'
    BY <1>1, <1>3 DEF EndLoop, TypeOK, OtherTypes, flushV, history
  <2> QED
    BY <1>2, <1>3, <2>1, QuietStep DEF EndLoop, history
<1>4. CASE running # None /\ running' = None /\ Advance
  <2>1. OtherTypes'
    BY <1>1, <1>4, AdvanceKeepsTypes DEF EndLoop, TypeOK, OtherTypes, history
  <2> QED
    BY <1>2, <1>4, <2>1, RunningGoesOn, GoesOnStep DEF EndLoop, history
<1> QED
  BY <1>3, <1>4 DEF EndLoop

LEMMA RunningIsTyped ==
  ASSUME TypeOK, running # None
  PROVE  running.to \in Promises
BY DEF TypeOK, Subscriber, Asking

LEMMA ReturnKeeps ==
  ASSUME IInv, NEW v \in Values \cup {None}, Return(v)
  PROVE  IInv' /\ Final
<1>1. TypeOK /\ running # None /\ running' = None /\ Advance
  BY DEF IInv, Return
<1>2. running.to \in Promises
  BY <1>1, RunningIsTyped
<1>3. Effect
  <2>1. CASE UNCHANGED <<core, order, queueV, meant, again>>
    BY <2>1, NoEffect
  <2>2. CASE Reject(running.to, CannotReturnOwn)
    <3>1. CannotReturnOwn \in Values
      BY DEF Values, Errors
    <3> QED
      BY <1>1, <1>2, <2>2, <3>1, SettleHasEffect DEF Reject
  <2>3. CASE Resolve(running.to, v)
    BY <1>1, <1>2, <2>3, ResolveHasEffect
  <2> QED
    BY <2>1, <2>2, <2>3 DEF Return
<1>4. OtherTypes'
  BY <1>1, AdvanceKeepsTypes DEF Return, TypeOK, OtherTypes, others
<1> QED
  BY <1>1, <1>3, <1>4, RunningGoesOn, GoesOnStep DEF Return

LEMMA ThrowKeeps ==
  ASSUME IInv, NEW v \in Values, Throw(v)
  PROVE  IInv' /\ Final
<1>1. TypeOK /\ running # None /\ running' = None /\ Advance
  BY DEF IInv, Throw
<1>2. running.to \in Promises
  BY <1>1, RunningIsTyped
<1>3. Effect
  <2>1. CASE UNCHANGED <<core, order, queueV, adoptions, meant, again>>
    BY <2>1, NoEffect
  <2>2. CASE Reject(running.to, v)
    BY <1>1, <1>2, <2>2, SettleHasEffect DEF Reject
  <2> QED
    BY <2>1, <2>2 DEF Throw
<1>4. adoptions' \in Seq(Adoption)
  <2>1. CASE UNCHANGED adoptions
    BY <1>1, <2>1 DEF TypeOK
  <2>2. CASE /\ ~adoptions[running.i].sealed
             /\ adoptions' = [adoptions EXCEPT ![running.i].sealed = TRUE]
    <3>1. CASE running.i \in DOMAIN adoptions
      <4>1. adoptions[running.i] \in Adoption
        BY <1>1, <3>1 DEF TypeOK
      <4>2. [adoptions[running.i] EXCEPT !.sealed = TRUE] \in Adoption
        BY <4>1 DEF Adoption
      <4> QED
        BY <1>1, <2>2, <3>1, <4>2 DEF TypeOK
    <3>2. CASE running.i \notin DOMAIN adoptions
      <4>1. adoptions \in [1..Len(adoptions) -> Adoption] /\ Len(adoptions) \in Nat
        BY <1>1 DEF TypeOK
      <4>2. adoptions' = [i \in 1..Len(adoptions) |-> adoptions[i]]
        BY <2>2, <3>2, <4>1
      <4> QED
        BY <4>1, <4>2
    <3> QED
      BY <3>1, <3>2
  <2> QED
    BY <2>1, <2>2 DEF Throw
<1>5. OtherTypes'
  BY <1>1, <1>4, AdvanceKeepsTypes DEF Throw, TypeOK, OtherTypes
<1> QED
  BY <1>1, <1>3, <1>5, RunningGoesOn, GoesOnStep DEF Throw

LEMMA StartedGrows ==
  ASSUME TypeOK, NEW c \in Promises, started' = started \/ started' = Append(started, c)
  PROVE  /\ started' \in Seq(Promises)
         /\ \A i \in DOMAIN started : i \in DOMAIN started' /\ started'[i] = started[i]
<1>1. CASE started' = started
  BY <1>1 DEF TypeOK
<1>2. CASE started' = Append(started, c)
  BY <1>2 DEF TypeOK
<1> QED
  BY <1>1, <1>2

\* The turn of a subscriber: a callback of the page starts to run, or what
\* the library does is done.
LEMMA CallKeeps ==
  ASSUME IInv, at \in DOMAIN queue, running = None,
         NEW s \in Subscriber, NEW p \in Promises, Settled(p), Call(s, p),
         queue[at].type = "invoke" => queue[at].subscriber = s,
         queue[at].type = "publish" =>
           /\ pos \in DOMAIN subscribers[queue[at].promise]
           /\ subscribers[queue[at].promise][pos] = s,
         UNCHANGED <<loop, adoptions, made, open, left, setup, parent>>
  PROVE  IInv' /\ Final
<1>1. TypeOK
  BY DEF IInv
<1>2. s.to \in Promises /\ s.i \in Nat
  BY DEF Subscriber
<1>3. state[p] \in {"fulfilled", "rejected"} /\ result[p] \in Values \cup {None}
  BY <1>1 DEF TypeOK, Settled
<1>4. CASE /\ running' = s /\ TakenNow(s)
           /\ started' = started \/ started' = Append(started, s.to)
           /\ UNCHANGED <<core, order, queueV, at, pos, remaining, array>>
  <2>1. started' \in Seq(Promises) /\ \A i \in DOMAIN started :
          i \in DOMAIN started' /\ started'[i] = started[i]
    BY <1>1, <1>2, <1>4, StartedGrows
  <2>2. TypeOK'
    BY <1>1, <1>4, <2>1 DEF TypeOK, core, queueV
  <2>3. \A d \in Promises : IsStarted(d) => IsStarted(d)'
    BY <2>1 DEF IsStarted
  <2>4. FlushIsScheduled' /\ SubscribersWillHear' /\ QueuedAreSettled'
    BY <1>4 DEF IInv, core, queueV, FlushIsScheduled, SubscribersWillHear, WillBePublished,
                Settled, Publish, QueuedAreSettled
  <2>5. CallbacksWillBeCalled'
    <3> SUFFICES ASSUME NEW c \in Promises, parent'[c] # None
                 PROVE  IsStarted(c)' \/ IsSubscribed(parent[c], c)' \/ IsQueued(c)'
      BY DEF CallbacksWillBeCalled
    <3>1. IsStarted(c) \/ IsSubscribed(parent[c], c) \/ IsQueued(c)
      BY DEF IInv, CallbacksWillBeCalled
    <3>2. IsSubscribed(parent[c], c) => IsSubscribed(parent[c], c)'
      BY <1>4 DEF IsSubscribed, Waits, Publish, core, queueV
    <3>3. IsQueued(c) => IsQueued(c)'
      BY <1>4 DEF IsQueued, queueV
    <3> QED
      BY <2>3, <3>1, <3>2, <3>3
  <2>6. TurnOK'
    <3>1. at' = at /\ pos' = pos /\ queue' = queue /\ subscribers' = subscribers
      BY <1>4 DEF core, queueV
    <3>2. /\ at <= Len(queue) + 1
          /\ (at \in DOMAIN queue /\ queue[at].type = "publish") \/ pos = 1
      BY DEF IInv, TurnOK
    <3> QED
      BY <1>4, <3>1, <3>2 DEF TurnOK, Taken, TakenNow, IsStarted
  <2>7. Final
    BY <1>4 DEF Final, core
  <2> QED
    BY <2>2, <2>4, <2>5, <2>6, <2>7 DEF IInv
<1>5. CASE /\ Effect /\ TakenNow(s) /\ Advance /\ UNCHANGED running
           /\ remaining' \in [Promises -> Int]
           /\ started' = started \/ started' = Append(started, s.to)
  <2>1. GoesOn
    BY <1>5 DEF GoesOn
  <2>2. started' \in Seq(Promises)
    BY <1>1, <1>2, <1>5, StartedGrows
  <2>3. OtherTypes'
    BY <1>1, <1>5, <2>2, AdvanceKeepsTypes DEF TypeOK, OtherTypes
  <2> QED
    BY <1>2, <1>5, <2>1, <2>3, GoesOnStep
<1>6. started' = Append(started, s.to) => TakenNow(s)
  <2> SUFFICES ASSUME started' = Append(started, s.to) PROVE TakenNow(s)
    OBVIOUS
  <2>1. Len(started) + 1 \in DOMAIN started' /\ started'[Len(started) + 1] = s.to
    BY <1>1, <1>2 DEF TypeOK
  <2> QED
    BY <2>1 DEF TakenNow
<1>7. CASE /\ s.kind = "then" /\ ~HasCallback(s, p)
           /\ Settle(s.to, state[p], result[p])
           /\ started' = Append(started, s.to) /\ Advance
           /\ UNCHANGED <<running, remaining, array>>
  BY <1>1, <1>2, <1>3, <1>5, <1>6, <1>7, SettleHasEffect DEF TypeOK
<1>8. CASE /\ s.kind \in {"adopt", "race"}
           /\ IF state[p] = "fulfilled" THEN Resolve(s.to, result[p]) ELSE Reject(s.to, result[p])
           /\ Advance /\ UNCHANGED <<running, remaining, array, started>>
  <2>1. Effect
    BY <1>1, <1>2, <1>3, <1>8, SettleHasEffect, ResolveHasEffect DEF Reject
  <2>2. TakenNow(s)
    BY <1>8 DEF TakenNow
  <2> QED
    BY <1>1, <1>5, <1>8, <2>1, <2>2 DEF TypeOK
<1>9. CASE /\ s.kind = "entry" /\ SettledAt(s.to, s.i, state[p], result[p])
           /\ Advance /\ UNCHANGED <<running, started>>
  <2>1. Effect /\ remaining' \in [Promises -> Int]
    BY <1>1, <1>2, <1>3, <1>9, SettledAtHasEffect
  <2>2. TakenNow(s)
    BY <1>9 DEF TakenNow
  <2> QED
    BY <1>5, <1>9, <2>1, <2>2
<1>10. CASE /\ s.kind = "then" /\ running' = s /\ started' = Append(started, s.to)
            /\ UNCHANGED <<core, order, queueV, at, pos, remaining, array>>
  BY <1>4, <1>6, <1>10
<1>11. CASE /\ s.kind = "async" /\ running' = s
            /\ UNCHANGED <<core, order, queueV, at, pos, remaining, array, started>>
  BY <1>4, <1>11 DEF TakenNow
<1> QED
  BY <1>7, <1>8, <1>9, <1>10, <1>11 DEF Call

LEMMA PublishNextKeeps ==
  ASSUME IInv, PublishNext
  PROVE  IInv' /\ Final
<1> DEFINE p == Job.promise
<1>1. /\ at \in DOMAIN queue /\ queue[at].type = "publish" /\ running = None
      /\ queue \in Seq(Jobs) /\ subscribers \in [Promises -> Seq(Subscriber)]
      /\ pos \in Nat \ {0} /\ pos <= Len(subscribers[p])
  BY DEF IInv, TypeOK, PublishNext, FlushRuns, Job
<1>2. p \in Promises /\ Settled(p)
  <2>1. queue[at] \in Jobs
    BY <1>1
  <2> QED
    BY <1>1, <2>1 DEF Jobs, Job, IInv, QueuedAreSettled
<1>3. pos \in DOMAIN subscribers[p] /\ subscribers[p][pos] \in Subscriber
  BY <1>1, <1>2
<1> HIDE DEF p
<1>4. p = queue[at].promise
  BY DEF p, Job
<1> QED
  BY <1>1, <1>2, <1>3, <1>4, CallKeeps DEF PublishNext, p

LEMMA InvokeNextKeeps ==
  ASSUME IInv, InvokeNext
  PROVE  IInv' /\ Final
<1>1. /\ at \in DOMAIN queue /\ queue[at].type = "invoke" /\ running = None
      /\ queue[at] \in Jobs
  BY DEF IInv, TypeOK, InvokeNext, FlushRuns, Job
<1>2. queue[at].promise \in Promises /\ queue[at].subscriber \in Subscriber
  BY <1>1 DEF Jobs
<1>3. Settled(queue[at].promise)
  BY <1>1 DEF IInv, QueuedAreSettled
<1> QED
  BY <1>1, <1>2, <1>3, CallKeeps DEF InvokeNext, Job

LEMMA ThenableNextKeeps ==
  ASSUME IInv, ThenableNext
  PROVE  IInv' /\ Final
<1>1. /\ at \in DOMAIN queue /\ queue[at].type = "thenable"
      /\ queue[at] \in Jobs /\ adoptions \in Seq(Adoption)
  BY DEF IInv, TypeOK, ThenableNext, FlushRuns, Job
<1>2. queue[at].promise \in Promises /\ queue[at].thenable \in Thenables
  BY <1>1 DEF Jobs
<1>3. adoptions' \in Seq(Adoption) /\ running' \in Asking
  BY <1>1, <1>2 DEF ThenableNext, Job, Adoption, Asking
<1>4. TypeOK'
  BY <1>3 DEF ThenableNext, IInv, TypeOK, core, queueV, history
<1>5. FlushIsScheduled' /\ SubscribersWillHear' /\ QueuedAreSettled' /\ CallbacksWillBeCalled'
  BY DEF ThenableNext, IInv, core, queueV, history, FlushIsScheduled, SubscribersWillHear,
         WillBePublished, Settled, Publish, QueuedAreSettled, CallbacksWillBeCalled,
         IsStarted, IsSubscribed, Waits, IsQueued
<1>6. TurnOK'
  BY <1>1 DEF ThenableNext, IInv, core, queueV, history, TurnOK
<1>7. Final
  BY DEF ThenableNext, Final, core
<1> QED
  BY <1>4, <1>5, <1>6, <1>7 DEF IInv

LEMMA StartFlushKeeps ==
  ASSUME IInv, StartFlush
  PROVE  IInv' /\ Final
<1>1. queue \in Seq(Jobs) /\ at = 0 /\ at' = 1 /\ pos = 1 /\ running = None
  BY DEF IInv, TypeOK, TurnOK, StartFlush
<1>2. TypeOK'
  BY <1>1 DEF StartFlush, IInv, TypeOK, core, others, history
<1>3. FlushIsScheduled' /\ QueuedAreSettled'
  BY <1>1 DEF StartFlush, IInv, core, FlushIsScheduled, QueuedAreSettled, Settled
<1>4. SubscribersWillHear'
  BY <1>1 DEF StartFlush, IInv, core, SubscribersWillHear, WillBePublished, Settled, Publish
<1>5. CallbacksWillBeCalled'
  <2> SUFFICES ASSUME NEW c \in Promises, parent'[c] # None
               PROVE  IsStarted(c)' \/ IsSubscribed(parent[c], c)' \/ IsQueued(c)'
    BY DEF CallbacksWillBeCalled
  <2>1. parent[c] \in Promises /\ parent[c] # None
    BY DEF StartFlush, history, IInv, TypeOK
  <2>2. IsStarted(c) \/ IsSubscribed(parent[c], c) \/ IsQueued(c)
    BY <2>1 DEF IInv, CallbacksWillBeCalled
  <2>3. \A i \in DOMAIN subscribers[parent[c]] : i >= 1
    BY <2>1 DEF IInv, TypeOK
  <2>4. IsSubscribed(parent[c], c) => IsSubscribed(parent[c], c)'
    BY <1>1, <2>3 DEF StartFlush, core, history, IsSubscribed, Waits, Publish
  <2>5. IsQueued(c) => IsQueued(c)'
    BY <1>1 DEF StartFlush, IsQueued
  <2>6. IsStarted(c) => IsStarted(c)'
    BY DEF StartFlush, history, IsStarted
  <2> QED
    BY <2>2, <2>4, <2>5, <2>6
<1>6. TurnOK'
  BY <1>1 DEF StartFlush, TurnOK
<1>7. Final
  BY DEF StartFlush, Final, core
<1> QED
  BY <1>2, <1>3, <1>4, <1>5, <1>6, <1>7 DEF IInv

LEMMA EndFlushKeeps ==
  ASSUME IInv, EndFlush
  PROVE  IInv' /\ Final
<1>1. /\ queue \in Seq(Jobs) /\ at \in Nat /\ at > Len(queue) /\ at' = 0 /\ queue' = <<>>
      /\ pos = 1 /\ running = None
  BY DEF IInv, TypeOK, TurnOK, EndFlush
<1>2. TypeOK'
  BY <1>1 DEF EndFlush, IInv, TypeOK, core, others, history
<1>3. FlushIsScheduled' /\ QueuedAreSettled'
  BY <1>1 DEF FlushIsScheduled, QueuedAreSettled
<1>4. \A i \in DOMAIN queue : ~(i >= at)
  BY <1>1
<1>5. SubscribersWillHear'
  BY <1>4 DEF EndFlush, IInv, core, SubscribersWillHear, WillBePublished, Settled
<1>6. CallbacksWillBeCalled'
  <2> SUFFICES ASSUME NEW c \in Promises, parent'[c] # None
               PROVE  IsStarted(c)' \/ IsSubscribed(parent[c], c)'
    BY DEF CallbacksWillBeCalled
  <2>1. IsStarted(c) \/ IsSubscribed(parent[c], c) \/ IsQueued(c)
    BY DEF EndFlush, history, IInv, CallbacksWillBeCalled
  <2>2. ~IsQueued(c)
    BY <1>4 DEF IsQueued
  <2>3. IsSubscribed(parent[c], c) => IsSubscribed(parent[c], c)'
    BY <1>1 DEF EndFlush, core, history, IsSubscribed, Waits
  <2>4. IsStarted(c) => IsStarted(c)'
    BY DEF EndFlush, history, IsStarted
  <2> QED
    BY <2>1, <2>2, <2>3, <2>4
<1>7. TurnOK'
  BY <1>1 DEF EndFlush, TurnOK
<1>8. Final
  BY DEF EndFlush, Final, core
<1> QED
  BY <1>2, <1>3, <1>5, <1>6, <1>7, <1>8 DEF IInv

LEMMA EndPublishKeeps ==
  ASSUME IInv, EndPublish
  PROVE  IInv' /\ Final
<1> DEFINE p == queue[at].promise
<1>1. /\ at \in DOMAIN queue /\ queue[at].type = "publish" /\ running = None
      /\ queue \in Seq(Jobs) /\ subscribers \in [Promises -> Seq(Subscriber)]
      /\ pos \in Nat \ {0} /\ at \in Nat
      /\ pos > Len(subscribers[p])
      /\ subscribers' = [subscribers EXCEPT ![p] = <<>>]
      /\ at' = at + 1 /\ pos' = 1 /\ queue' = queue
  BY DEF IInv, TypeOK, EndPublish, FlushRuns, Job, queueV
<1>2. queue[at] = Publish(p) /\ p \in Promises
  <2>1. queue[at] \in Jobs
    BY <1>1
  <2> QED
    BY <1>1, <2>1, PublishingJob
<1>3. TypeOK'
  <2>1. subscribers' \in [Promises -> Seq(Subscriber)]
    <3>1. <<>> \in Seq(Subscriber)
      OBVIOUS
    <3> QED
      BY <1>1, <3>1
  <2>2. at' \in Nat /\ pos' \in Nat \ {0}
    BY <1>1
  <2> QED
    BY <2>1, <2>2 DEF EndPublish, IInv, TypeOK, queueV, others, history
<1>4. FlushIsScheduled' /\ QueuedAreSettled'
  BY <1>1 DEF EndPublish, IInv, FlushIsScheduled, QueuedAreSettled, Settled
<1>5. SubscribersWillHear'
  <2> SUFFICES ASSUME NEW q \in Promises, Settled(q)', subscribers'[q] # <<>>
               PROVE  WillBePublished(q)'
    BY DEF SubscribersWillHear
  <2>1. q # p /\ Settled(q) /\ subscribers[q] # <<>>
    BY <1>1, <1>2 DEF EndPublish, Settled
  <2>2. PICK i \in DOMAIN queue : i >= at /\ queue[i] = Publish(q)
    BY <2>1 DEF IInv, SubscribersWillHear, WillBePublished
  <2>3. i # at
    BY <1>2, <2>1, <2>2 DEF Publish
  <2>4. i >= at + 1
    BY <1>1, <2>2, <2>3
  <2> QED
    BY <1>1, <2>2, <2>4 DEF WillBePublished, Publish
<1>6. CallbacksWillBeCalled'
  <2> SUFFICES ASSUME NEW c \in Promises, parent'[c] # None
               PROVE  IsStarted(c)' \/ IsSubscribed(parent[c], c)' \/ IsQueued(c)'
    BY DEF CallbacksWillBeCalled
  <2>1. parent'[c] = parent[c] /\ parent[c] \in Promises
    BY DEF EndPublish, history, IInv, TypeOK
  <2>2. IsStarted(c) \/ IsSubscribed(parent[c], c) \/ IsQueued(c)
    BY <2>1 DEF IInv, CallbacksWillBeCalled
  <2>3. ASSUME IsSubscribed(parent[c], c) PROVE IsSubscribed(parent[c], c)'
    <3>1. PICK i \in DOMAIN subscribers[parent[c]] :
            /\ Waits(parent[c], i)
            /\ subscribers[parent[c]][i].kind = "then" /\ subscribers[parent[c]][i].to = c
      BY <2>3 DEF IsSubscribed
    <3>2. i >= 1 /\ i \in Nat /\ i <= Len(subscribers[parent[c]])
      BY <1>1, <2>1, <3>1
    <3>3. parent[c] # p
      BY <1>1, <1>2, <3>1, <3>2 DEF Waits
    <3>4. subscribers'[parent[c]] = subscribers[parent[c]]
      BY <1>1, <2>1, <3>3
    <3> QED
      BY <1>1, <2>1, <3>1, <3>2, <3>4 DEF IsSubscribed, Waits
  <2>4. IsQueued(c) => IsQueued(c)'
    <3> SUFFICES ASSUME NEW i \in DOMAIN queue, i >= at, queue[i].type = "invoke",
                        queue[i].subscriber.kind = "then", queue[i].subscriber.to = c
                 PROVE  IsQueued(c)'
      BY DEF IsQueued
    <3>1. i >= at + 1
      BY <1>1
    <3> QED
      BY <1>1, <3>1 DEF IsQueued
  <2>5. IsStarted(c) => IsStarted(c)'
    BY DEF EndPublish, history, IsStarted
  <2> QED
    BY <2>2, <2>3, <2>4, <2>5
<1>7. TurnOK'
  <2>1. at + 1 <= Len(queue) + 1
    BY <1>1
  <2> QED
    BY <1>1, <2>1 DEF EndPublish, TurnOK
<1>8. Final
  BY DEF EndPublish, Final
<1> QED
  BY <1>3, <1>4, <1>5, <1>6, <1>7, <1>8 DEF IInv

\* then() registers a callback, which is subscribed or queued.
LEMMA ThenKeeps ==
  ASSUME IInv, NEW p \in Made, NEW fulfilled \in BOOLEAN, NEW rejected \in BOOLEAN,
         Then(p, fulfilled, rejected)
  PROVE  IInv' /\ Final
<1> DEFINE s == [kind |-> "then", to |-> Fresh, i |-> 0,
                 fulfilled |-> fulfilled, rejected |-> rejected]
<1>1. TypeOK /\ p \in Promises
  BY GivenAreValues DEF IInv
<1>2. Fresh \in Promises /\ made' \in Seq(Promises)
  BY <1>1, FreshIsMade DEF Then
<1>3. left' \in [Calls -> Nat]
  BY <1>1, CalledIsCounted DEF Then, Calls
<1>4. s \in Subscriber /\ s.kind = "then" /\ s.to = Fresh
  BY <1>2 DEF Subscriber, Kinds
<1> HIDE DEF s
<1>5. ThenDo(p, s) /\ parent' = [parent EXCEPT ![Fresh] = p]
      /\ UNCHANGED <<flushV, others, open, setup, started, asked, meant, again>>
  BY DEF Then, s
<1>6. Effect
  BY <1>1, <1>4, <1>5, ThenHasEffect
<1>7. TypeOK'
  <2>1. parent' \in [Promises -> Promises \cup {None}]
    BY <1>1, <1>2, <1>5 DEF TypeOK
  <2>2. CoreTypes'
    BY <1>1, <1>6, EffectKeepsTypes
  <2> QED
    BY <1>1, <1>2, <1>3, <1>5, <2>1, <2>2 DEF TypeOK, CoreTypes, flushV, others
<1>8. Stays /\ UNCHANGED <<running, started>>
  BY <1>5 DEF Stays, flushV
<1>9. CallbacksWillBeCalled'
  <2> SUFFICES ASSUME NEW c \in Promises, parent'[c] # None
               PROVE  IsStarted(c)' \/ IsSubscribed(parent[c], c)' \/ IsQueued(c)'
    BY DEF CallbacksWillBeCalled
  <2>1. CASE c # Fresh
    <3>1. parent'[c] = parent[c] /\ parent[c] \in Promises
      BY <1>1, <1>5, <2>1 DEF TypeOK
    <3>2. \A d \in Promises : IsStarted(d) => IsStarted(d)'
      BY <1>8 DEF IsStarted
    <3> QED
      BY <1>6, <1>8, <3>1, <3>2, StillCalled DEF IsSubscribed, Waits, Publish
  <2>2. CASE c = Fresh
    <3>1. parent'[c] = p
      BY <1>1, <1>5, <2>2 DEF TypeOK
    <3>2. CASE Pending(p) /\ Subscribe(p, s)
      <4>1. queue' = queue
        BY <3>2 DEF Subscribe, Pending, Settled, queueV
      <4>2. \A i \in DOMAIN queue : queue[i] # Publish(p)
        <5>1. \A i \in DOMAIN queue : queue[i] = Publish(p) => Settled(p)
          BY PublishIsJob DEF IInv, QueuedAreSettled, Publish
        <5> QED
          BY <3>2, <5>1 DEF Pending, Settled
      <4>3. subscribers' = [subscribers EXCEPT ![p] = Append(@, s)]
        BY <3>2 DEF Subscribe
      <4>4. subscribers[p] \in Seq(Subscriber)
        BY <1>1 DEF TypeOK
      <4>5. /\ Len(subscribers[p]) + 1 \in DOMAIN subscribers'[p]
            /\ subscribers'[p][Len(subscribers[p]) + 1] = s
        BY <1>1, <1>4, <4>3, <4>4 DEF TypeOK
      <4>6. ~(at' \in DOMAIN queue' /\ queue'[at'] = Publish(p))
        BY <1>8, <4>1, <4>2 DEF Stays
      <4> QED
        BY <1>4, <2>2, <3>1, <4>5, <4>6 DEF IsSubscribed, Waits, Publish
    <3>3. CASE Asap(Invoke(p, s))
      <4>1. Invoke(p, s) \in Jobs /\ Invoke(p, s).type = "invoke" /\ Invoke(p, s).subscriber = s
        BY <1>1, <1>4 DEF Invoke, Jobs
      <4>2. /\ Len(queue) + 1 \in DOMAIN queue'
            /\ queue'[Len(queue) + 1] = Invoke(p, s)
        BY <1>1, <3>3, <4>1, AsapAppends
      <4>3. Len(queue) + 1 >= at'
        BY <1>1, <1>8 DEF Stays, IInv, TypeOK, TurnOK
      <4> QED
        BY <1>4, <2>2, <4>1, <4>2, <4>3 DEF IsQueued
    <3> QED
      BY <1>5, <3>2, <3>3 DEF ThenDo
  <2> QED
    BY <2>1, <2>2
<1>10. Final
  BY <1>1, <1>6, EffectIsFinal
<1> QED
  BY <1>6, <1>7, <1>8, <1>9, <1>10, QueuedStaySettled, StillHear, StillScheduled, StillInTurn DEF IInv

-----------------------------------------------------------------------------
(* The theorems. *)

LEMMA InitHolds ==
  ASSUME Init
  PROVE  IInv
<1>1. setup \in Setup
  BY DEF Init
<1>2. made \in Seq(Promises) /\ left \in [Calls -> Nat]
  BY <1>1 DEF Init, Setup
<1>3. open \subseteq Promises
  BY <1>2 DEF Init, Made
<1>4. TypeOK
  <2>1. /\ <<>> \in Seq(Subscriber) /\ <<>> \in Seq(Jobs)
        /\ <<>> \in Seq(Adoption) /\ <<>> \in Seq(Promises)
    OBVIOUS
  <2>2. /\ subscribers \in [Promises -> Seq(Subscriber)]
        /\ state \in [Promises -> {"pending", "fulfilled", "rejected"}]
        /\ result \in [Promises -> Values \cup {None}]
        /\ remaining \in [Promises -> Int]
        /\ parent \in [Promises -> Promises \cup {None}]
    BY <2>1 DEF Init, NoPromise
  <2>3. setup \in Setups /\ running = None /\ loop = None
    BY DEF Init
  <2>4. queue \in Seq(Jobs) /\ adoptions \in Seq(Adoption) /\ started \in Seq(Promises)
    <3>1. queue \in Seq(Jobs)
      BY DEF Init
    <3>2. adoptions \in Seq(Adoption)
      BY DEF Init
    <3>3. started \in Seq(Promises)
      BY DEF Init
    <3> QED
      BY <3>1, <3>2, <3>3
  <2>5. scheduled \in BOOLEAN /\ at \in Nat /\ pos \in Nat \ {0}
    <3>1. scheduled \in BOOLEAN
      BY Zenon DEF Init
    <3>2. at \in Nat /\ pos \in Nat \ {0}
      BY DEF Init
    <3> QED
      BY <3>1, <3>2
  <2>6. running \in {None} \cup Subscriber \cup Asking /\ loop \in {None} \cup Loop
    BY <2>3, Zenon
  <2> QED
    BY <1>2, <1>3, <2>2, <2>3, <2>4, <2>5, <2>6 DEF TypeOK
<1>5. TurnOK /\ FlushIsScheduled /\ QueuedAreSettled
  <2>1. queue = <<>> /\ at = 0 /\ pos = 1 /\ running = None
    BY DEF Init
  <2>2. at <= Len(queue) + 1
    BY <2>1
  <2> QED
    BY <2>1, <2>2 DEF TurnOK, FlushIsScheduled, QueuedAreSettled
<1>6. SubscribersWillHear /\ CallbacksWillBeCalled
  BY DEF Init, NoPromise, SubscribersWillHear, CallbacksWillBeCalled
<1> QED
  BY <1>4, <1>5, <1>6 DEF IInv

LEMMA PageKeeps ==
  ASSUME IInv, Page
  PROVE  IInv' /\ Final
<1>1. TypeOK /\ Given \subseteq Values
  BY GivenAreValues DEF IInv
<1>2. \A v, w \in Given : <<v, w>> \in Seq(Values) /\ <<v>> \in Seq(Values)
  BY <1>1
<1>3. << >> \in Seq(Values)
  OBVIOUS
<1>4. CASE \E kind \in {"all", "race"}, v, w \in Given : Begin(kind, <<v, w>>)
  BY <1>2, <1>4, BeginKeeps
<1>5. CASE \E kind \in {"all", "race"} : Begin(kind, <<>>)
  BY <1>3, <1>5, BeginKeeps
<1>6. CASE \E v \in Given : Begin("async", <<v>>) \/ AwaitAgain(v)
  BY <1>1, <1>2, <1>6, BeginKeeps, AwaitAgainKeeps
<1>7. CASE \E k \in DOMAIN adoptions, v \in Given, outcome \in {"fulfilled", "rejected"} :
             ThenableCalls(k, outcome, v)
  BY <1>1, <1>7, ThenableCallsKeeps
<1> QED
  BY <1>4, <1>5, <1>6, <1>7, NewPromiseKeeps, ResolvePromiseKeeps, RejectPromiseKeeps,
     ThenKeeps DEF Page

LEMMA LibraryKeeps ==
  ASSUME IInv, Library
  PROVE  IInv' /\ Final
<1>1. Given \cup {None} \subseteq Values \cup {None} /\ setup.values \subseteq Values
  BY GivenAreValues DEF IInv
<1>2. CASE \E v \in Given \cup {None} : Return(v)
  BY <1>1, <1>2, ReturnKeeps
<1>3. CASE \E v \in setup.values : Throw(v)
  BY <1>1, <1>3, ThrowKeeps
<1> QED
  BY <1>2, <1>3, SettledEntryKeeps, OwnEntryKeeps, WrapEntryKeeps, WaitForEntryKeeps,
     EndLoopKeeps, StartFlushKeeps, EndFlushKeeps, PublishNextKeeps, EndPublishKeeps,
     InvokeNextKeeps, ThenableNextKeeps DEF Library

\* The invariant of the queue and of those who wait for an outcome.
THEOREM Invariant == Spec => []IInv
<1>1. Init => IInv
  BY InitHolds
<1>2. IInv /\ [Next]_vars => IInv'
  <2> SUFFICES ASSUME IInv, [Next]_vars PROVE IInv'
    OBVIOUS
  <2>1. CASE UNCHANGED vars
    <3>1. TypeOK' /\ TurnOK'
      BY <2>1 DEF IInv, vars, core, queueV, flushV, others, history, TypeOK, TurnOK, Taken, IsStarted
    <3>2. FlushIsScheduled' /\ QueuedAreSettled' /\ SubscribersWillHear'
      BY <2>1 DEF IInv, vars, core, queueV, flushV, FlushIsScheduled, QueuedAreSettled,
                  SubscribersWillHear, WillBePublished, Settled, Publish
    <3>3. CallbacksWillBeCalled'
      BY <2>1 DEF IInv, vars, core, queueV, flushV, history, CallbacksWillBeCalled,
                  IsStarted, IsSubscribed, Waits, Publish, IsQueued
    <3> QED
      BY <3>1, <3>2, <3>3 DEF IInv
  <2> QED
    BY <2>1, PageKeeps, LibraryKeeps DEF Next
<1> QED
  BY <1>1, <1>2, PTL DEF Spec

\* The types of the library's fields.
THEOREM TypeCorrect == Spec => []TypeOK
<1>1. IInv => TypeOK
  BY DEF IInv
<1> QED
  BY <1>1, Invariant, PTL

\* When the queue is empty, nobody waits for the outcome of a settled promise,
\* and when it is not, it will be flushed.
THEOREM NobodyForgotten == Spec => []NobodyIsForgotten
<1>1. IInv => NobodyIsForgotten
  <2> SUFFICES ASSUME IInv PROVE NobodyIsForgotten
    OBVIOUS
  <2>1. ASSUME Quiet, NEW p \in Made, Settled(p)
        PROVE  /\ subscribers[p] = <<>>
               /\ \A c \in Made : parent[c] = p => IsStarted(c)
    <3>1. p \in Promises /\ Made \subseteq Promises
      BY GivenAreValues DEF IInv
    <3>2. DOMAIN queue = {}
      BY <2>1 DEF Quiet
    <3>3. subscribers[p] = <<>>
      BY <2>1, <3>1, <3>2 DEF IInv, SubscribersWillHear, WillBePublished
    <3>4. ASSUME NEW c \in Made, parent[c] = p PROVE IsStarted(c)
      <4>1. c \in Promises /\ parent[c] # None
        BY <3>1, <3>4 DEF Values
      <4> QED
        BY <3>2, <3>3, <3>4, <4>1 DEF IInv, CallbacksWillBeCalled, IsSubscribed, IsQueued
    <3> QED
      BY <3>3, <3>4
  <2> QED
    BY <2>1 DEF NobodyIsForgotten, IInv
<1> QED
  BY <1>1, Invariant, PTL

\* Whoever still holds its functions: the outcome and the value of a settled
\* promise stay.
THEOREM SettledForGood == Spec => SettledIsFinal
<1>1. IInv /\ [Next]_vars => [Final]_vars
  BY PageKeeps, LibraryKeeps DEF Next
<1>2. [Final]_vars => [\A p \in Promises : Settled(p) =>
                         state'[p] = state[p] /\ result'[p] = result[p]]_vars
  BY DEF Final
<1> QED
  BY <1>1, <1>2, Invariant, PTL DEF Spec, SettledIsFinal

-----------------------------------------------------------------------------
(* The order of callbacks.  A callback waits among the subscribers of its  *)
(* promise or in the queue, and goes from one to the other when the        *)
(* promise is settled; the invariant Order says that at every moment what  *)
(* was called, is called now, is subscribed and is queued follow each      *)
(* other in that order.                                                    *)

\* then() made c before it made d.
Before(c, d) == \E i, j \in DOMAIN made : i < j /\ made[i] = c /\ made[j] = d

\* The children of a promise are made once, and before they are called.
ChildrenAreMade ==
  /\ \A c \in Promises : parent[c] # None => c \in Made
  /\ \A i, j \in DOMAIN made : made[i] = made[j] /\ parent[made[i]] # None => i = j
  /\ \A j \in DOMAIN started : parent[started[j]] # None

\* Callbacks that are subscribed are those of the promise, in order.
SubscribedInOrder ==
  \A p \in Promises : \A j \in DOMAIN subscribers[p] :
    subscribers[p][j].kind = "then" =>
      /\ parent[subscribers[p][j].to] = p
      /\ \A i \in DOMAIN subscribers[p] : i < j /\ subscribers[p][i].kind = "then" =>
           Before(subscribers[p][i].to, subscribers[p][j].to)

\* The entry of the queue is the call of a callback.
IsCall(job) == job.type = "invoke" /\ job.subscriber.kind = "then"

\* Callbacks that are queued are those of the promise, in order.
QueuedInOrder ==
  \A j \in DOMAIN queue : IsCall(queue[j]) =>
    /\ parent[queue[j].subscriber.to] = queue[j].promise
    /\ \A i \in DOMAIN queue :
         i < j /\ IsCall(queue[i]) /\ queue[i].promise = queue[j].promise =>
           Before(queue[i].subscriber.to, queue[j].subscriber.to)

\* Callbacks that are subscribed come before those that are queued.
SubscribedComeFirst ==
  \A j \in DOMAIN queue : IsCall(queue[j]) =>
    \A i \in DOMAIN subscribers[queue[j].promise] :
      subscribers[queue[j].promise][i].kind = "then" =>
        /\ Before(subscribers[queue[j].promise][i].to, queue[j].subscriber.to)
        /\ \E k \in DOMAIN queue : at <= k /\ k < j /\ queue[k] = Publish(queue[j].promise)

\* The turn has come to the i-th subscriber of p, to the i-th entry of the queue.
SubscriberHadTurn(p, i) ==
  /\ at \in DOMAIN queue /\ queue[at] = Publish(p)
  /\ i < pos \/ (i = pos /\ running # None)
EntryHadTurn(i) == i < at \/ (i = at /\ running # None)

\* The callbacks that were called are those whose turn has come.
CalledInTurn ==
  /\ \A p \in Promises : \A i \in DOMAIN subscribers[p] :
       subscribers[p][i].kind = "then" =>
         (IsStarted(subscribers[p][i].to) <=> SubscriberHadTurn(p, i))
  /\ \A i \in DOMAIN queue :
       IsCall(queue[i]) => (IsStarted(queue[i].subscriber.to) <=> EntryHadTurn(i))

StartedInOrder ==
  \A j \in DOMAIN started :
    /\ \A i \in DOMAIN started : i < j => started[i] # started[j]
    /\ \A c \in Promises : parent[c] = parent[started[j]] /\ Before(c, started[j])
                            => \E i \in DOMAIN started : i < j /\ started[i] = c

Order ==
  /\ ChildrenAreMade
  /\ SubscribedInOrder
  /\ QueuedInOrder
  /\ SubscribedComeFirst
  /\ CalledInTurn
  /\ StartedInOrder

-----------------------------------------------------------------------------
(* Calls that register no callback. *)

NoCallbackAdded ==
  /\ \A p \in Promises : \A i \in DOMAIN subscribers'[p] :
       i \in DOMAIN subscribers[p] \/ subscribers'[p][i].kind # "then"
  /\ \A i \in DOMAIN queue' : i \in DOMAIN queue \/ ~IsCall(queue'[i])

Silent == Effect /\ NoCallbackAdded

LEMMA NothingIsSilent ==
  ASSUME UNCHANGED <<core, queueV>>
  PROVE  Silent
BY DEF Silent, Effect, NoCallbackAdded, core, queueV

LEMMA AsapIsSilent ==
  ASSUME TypeOK, NEW job \in Jobs, ~IsCall(job), Asap(job)
  PROVE  \A i \in DOMAIN queue' : i \in DOMAIN queue \/ ~IsCall(queue'[i])
<1>1. \A i \in DOMAIN queue' \ DOMAIN queue : queue'[i] = job
  BY AsapAppends
<1> QED
  BY <1>1

LEMMA PublishIsNoCall ==
  ASSUME NEW p \in Promises
  PROVE  Publish(p) \in Jobs /\ ~IsCall(Publish(p))
BY PublishIsJob DEF IsCall

LEMMA SettleIsSilent ==
  ASSUME TypeOK, NEW p \in Promises, NEW outcome \in {"fulfilled", "rejected"},
         NEW v \in Values \cup {None}, Settle(p, outcome, v)
  PROVE  Silent
<1>1. Effect
  BY SettleHasEffect
<1>2. \/ UNCHANGED queue
      \/ Asap(Publish(p))
  BY DEF Settle, queueV
<1>3. subscribers' = subscribers
  BY DEF Settle, core
<1>4. \A i \in DOMAIN queue' : i \in DOMAIN queue \/ ~IsCall(queue'[i])
  BY <1>2, PublishIsNoCall, AsapIsSilent
<1> QED
  BY <1>1, <1>3, <1>4 DEF Silent, NoCallbackAdded

LEMMA SubscribeIsSilent ==
  ASSUME TypeOK, NEW p \in Promises, NEW s \in Subscriber, s.kind # "then", Subscribe(p, s)
  PROVE  Silent
<1>1. Effect
  BY SubscribeHasEffect
<1>2. \/ UNCHANGED queue
      \/ Asap(Publish(p))
  BY DEF Subscribe, queueV
<1>3. \A i \in DOMAIN queue' : i \in DOMAIN queue \/ ~IsCall(queue'[i])
  BY <1>2, PublishIsNoCall, AsapIsSilent
<1>4. ASSUME NEW q \in Promises, NEW i \in DOMAIN subscribers'[q]
      PROVE  i \in DOMAIN subscribers[q] \/ subscribers'[q][i].kind # "then"
  <2>1. subscribers' = [subscribers EXCEPT ![p] = Append(@, s)] /\ subscribers[q] \in Seq(Subscriber)
    BY DEF Subscribe, TypeOK
  <2> QED
    BY <1>4, <2>1 DEF TypeOK
<1> QED
  BY <1>1, <1>3, <1>4 DEF Silent, NoCallbackAdded

LEMMA ResolveIsSilent ==
  ASSUME TypeOK, NEW p \in Promises, NEW v \in Values \cup {None}, Resolve(p, v)
  PROVE  Silent
<1>1. CASE v = p /\ Reject(p, SelfFulfillment)
  BY <1>1, SettleIsSilent DEF Reject, Values, Errors
<1>2. CASE v \in Promises \ {p} /\ HandleOwnThenable(p, v)
  <2>1. CASE Pending(v) /\ Subscribe(v, Adopt(p))
    <3>1. Adopt(p).kind # "then"
      BY DEF Adopt
    <3> QED
      BY <2>1, <1>2, <3>1, AdoptIsSubscriber, SubscribeIsSilent
  <2>2. CASE ~Pending(v) /\ Settle(p, state[v], result[v])
    <3>1. state[v] \in {"fulfilled", "rejected"} /\ result[v] \in Values \cup {None}
      BY <2>2, <1>2 DEF TypeOK, Pending
    <3> QED
      BY <2>2, <3>1, SettleIsSilent
  <2> QED
    BY <1>2, <2>1, <2>2 DEF HandleOwnThenable
<1>3. CASE v \in Broken /\ Reject(p, GetThenError)
  BY <1>3, SettleIsSilent DEF Reject, Values, Errors
<1>4. CASE v \in Thenables /\ HandleForeignThenable(p, v)
  <2>1. AskThenable(p, v) \in Jobs /\ AskThenable(p, v).type = "thenable"
    BY <1>4 DEF AskThenable, Jobs
  <2>2. Asap(AskThenable(p, v)) /\ subscribers' = subscribers
    BY <1>4 DEF HandleForeignThenable, core
  <2>3. \A i \in DOMAIN queue' : i \in DOMAIN queue \/ ~IsCall(queue'[i])
    BY <2>1, <2>2, AsapIsSilent DEF IsCall
  <2> QED
    BY <2>2, <2>3, ResolveHasEffect DEF Silent, NoCallbackAdded
<1>5. CASE v \in Values \ (Promises \cup Broken \cup Thenables) /\ Fulfill(p, v)
  BY <1>5, SettleIsSilent DEF Fulfill
<1> QED
  BY <1>1, <1>2, <1>3, <1>4, <1>5 DEF Resolve

LEMMA ThenDoIsSilent ==
  ASSUME TypeOK, NEW p \in Promises, NEW s \in Subscriber, s.kind # "then", ThenDo(p, s)
  PROVE  Silent
<1>1. Invoke(p, s) \in Jobs /\ ~IsCall(Invoke(p, s))
  BY DEF Invoke, Jobs, IsCall
<1>2. CASE Subscribe(p, s)
  BY <1>2, SubscribeIsSilent
<1>3. CASE Asap(Invoke(p, s)) /\ UNCHANGED <<core, order>>
  <2>1. \A i \in DOMAIN queue' : i \in DOMAIN queue \/ ~IsCall(queue'[i])
    BY <1>1, <1>3, AsapIsSilent
  <2> QED
    BY <1>3, <2>1, ThenHasEffect DEF Silent, NoCallbackAdded, core
<1> QED
  BY <1>2, <1>3 DEF ThenDo

LEMMA SettledAtIsSilent ==
  ASSUME TypeOK, NEW p \in Promises, NEW i \in Nat, NEW outcome \in {"fulfilled", "rejected"},
         NEW v \in Values \cup {None}, SettledAt(p, i, outcome, v)
  PROVE  Silent
<1>1. ArrayOf(p) \in Values
  BY DEF Values
<1>2. CASE UNCHANGED <<core, order, queueV>>
  BY <1>2, NothingIsSilent
<1>3. CASE Reject(p, v)
  BY <1>3, SettleIsSilent DEF Reject
<1>4. CASE Fulfill(p, ArrayOf(p))
  BY <1>1, <1>4, SettleIsSilent DEF Fulfill
<1> QED
  BY <1>2, <1>3, <1>4 DEF SettledAt

-----------------------------------------------------------------------------
(* The order in which promises are made. *)

MadeGrows == made' = made \/ \E p \in Promises \ Made : made' = Append(made, p)

LEMMA FreshIsNew ==
  ASSUME TypeOK, CanMake, NowMade(Fresh)
  PROVE  Fresh \in Promises \ Made /\ MadeGrows
<1>1. \E p \in Promises \ Made : TRUE
  BY GivenAreValues DEF CanMake
<1>2. Fresh \in Promises \ Made
  BY <1>1 DEF Fresh
<1> QED
  BY <1>2 DEF NowMade, MadeGrows

LEMMA MadeKeepsPlaces ==
  ASSUME TypeOK, MadeGrows
  PROVE  /\ DOMAIN made \subseteq DOMAIN made'
         /\ \A i \in DOMAIN made : made'[i] = made[i]
         /\ \A i \in DOMAIN made' \ DOMAIN made :
              i = Len(made) + 1 /\ made'[i] \notin Made /\ made' = Append(made, made'[i])
         /\ DOMAIN made = 1..Len(made) /\ Len(made) \in Nat
<1>1. made \in Seq(Promises)
  BY DEF TypeOK
<1>2. CASE made' = made
  BY <1>1, <1>2
<1>3. ASSUME NEW p \in Promises \ Made, made' = Append(made, p)
      PROVE  /\ DOMAIN made' = 1..Len(made) + 1
             /\ \A i \in DOMAIN made : made'[i] = made[i]
             /\ made'[Len(made) + 1] = p
  BY <1>1, <1>3
<1> QED
  BY <1>1, <1>2, <1>3 DEF MadeGrows

LEMMA BeforeStays ==
  ASSUME TypeOK, MadeGrows, NEW c, NEW d, Before(c, d)
  PROVE  Before(c, d)'
<1>1. PICK i, j \in DOMAIN made : i < j /\ made[i] = c /\ made[j] = d
  BY DEF Before
<1>2. i \in DOMAIN made' /\ j \in DOMAIN made' /\ made'[i] = c /\ made'[j] = d
  BY <1>1, MadeKeepsPlaces
<1> QED
  BY <1>1, <1>2 DEF Before

\* Nobody is put before one who was made.
LEMMA BeforeIsOld ==
  ASSUME TypeOK, MadeGrows, NEW c, NEW d \in Made, Before(c, d)'
  PROVE  Before(c, d)
<1>1. PICK i, j \in DOMAIN made' : i < j /\ made'[i] = c /\ made'[j] = d
  BY DEF Before
<1>2. j \in DOMAIN made
  BY <1>1, MadeKeepsPlaces
<1>3. i \in DOMAIN made
  <2>1. made \in Seq(Promises)
    BY DEF TypeOK
  <2>2. made' \in Seq(Promises)
    BY <2>1 DEF MadeGrows
  <2>3. DOMAIN made' = 1..Len(made')
    BY <2>2
  <2>4. i \in 1..Len(made')
    BY <1>1, <2>3
  <2> QED
    BY <1>1, <1>2, <2>4, MadeKeepsPlaces
<1> QED
  BY <1>1, <1>2, <1>3, MadeKeepsPlaces DEF Before

\* A child is not made before itself.
LEMMA NotBeforeItself ==
  ASSUME ChildrenAreMade, TypeOK, NEW c, NEW d, Before(c, d), parent[d] # None
  PROVE  c # d
<1>1. PICK i, j \in DOMAIN made : i < j /\ made[i] = c /\ made[j] = d
  BY DEF Before
<1>2. made[i] = made[j] /\ parent[made[i]] # None => i = j
  BY <1>1 DEF ChildrenAreMade
<1>3. i # j
  BY <1>1 DEF TypeOK
<1> QED
  BY <1>1, <1>2, <1>3

\* Of two children, one that is made before the other is not made after it.
LEMMA BeforeIsOneWay ==
  ASSUME ChildrenAreMade, TypeOK, NEW c, NEW d, Before(c, d), parent[c] # None, parent[d] # None
  PROVE  ~Before(d, c)
<1>1. PICK i, j \in DOMAIN made : i < j /\ made[i] = c /\ made[j] = d
  BY DEF Before
<1> SUFFICES ASSUME Before(d, c) PROVE FALSE
  OBVIOUS
<1>2. PICK k, l \in DOMAIN made : k < l /\ made[k] = d /\ made[l] = c
  BY DEF Before
<1>3. i = l /\ j = k
  BY <1>1, <1>2 DEF ChildrenAreMade
<1> QED
  BY <1>1, <1>2, <1>3 DEF TypeOK

LEMMA ChildrenStayMade ==
  ASSUME TypeOK, TypeOK', ChildrenAreMade, MadeGrows, UNCHANGED parent,
         \A j \in DOMAIN started' : parent[started'[j]] # None
  PROVE  ChildrenAreMade'
<1>1. Made \subseteq Made'
  BY MadeKeepsPlaces DEF Made
<1>2. \A c \in Promises : parent'[c] # None => c \in Made'
  BY <1>1 DEF ChildrenAreMade
<1>3. ASSUME NEW i \in DOMAIN made', NEW j \in DOMAIN made', made'[i] = made'[j], parent'[made'[i]] # None
      PROVE  i = j
  <2>1. made'[i] \in Promises
    BY DEF TypeOK
  <2>2. made'[i] \in Made
    BY <1>3, <2>1 DEF ChildrenAreMade
  <2>3. i \in DOMAIN made /\ j \in DOMAIN made
    BY <1>3, <2>2, MadeKeepsPlaces
  <2> QED
    BY <1>3, <2>3, MadeKeepsPlaces DEF ChildrenAreMade
<1> QED
  BY <1>2, <1>3 DEF ChildrenAreMade

-----------------------------------------------------------------------------
(* Where callbacks stand. *)

\* s is subscribed to p, or queued for it, as a callback.
LEMMA SubscribedIsChild ==
  ASSUME TypeOK, SubscribedInOrder, NEW p \in Promises, NEW i \in DOMAIN subscribers[p],
         subscribers[p][i].kind = "then"
  PROVE  /\ subscribers[p][i] \in Subscriber
         /\ subscribers[p][i].to \in Promises
         /\ parent[subscribers[p][i].to] = p
         /\ p # None
<1>1. subscribers[p][i] \in Subscriber
  BY DEF TypeOK
<1>2. subscribers[p][i].to \in Promises
  BY <1>1 DEF Subscriber
<1>3. p # None
  BY DEF Values
<1> QED
  BY <1>1, <1>2, <1>3 DEF SubscribedInOrder

LEMMA QueuedIsChild ==
  ASSUME TypeOK, QueuedInOrder, NEW i \in DOMAIN queue, IsCall(queue[i])
  PROVE  /\ queue[i].promise \in Promises
         /\ queue[i].subscriber \in Subscriber
         /\ queue[i].subscriber.to \in Promises
         /\ parent[queue[i].subscriber.to] = queue[i].promise
         /\ queue[i].promise # None
<1>1. queue[i] \in Jobs
  BY DEF TypeOK
<1>2. queue[i].promise \in Promises /\ queue[i].subscriber \in Subscriber
  BY <1>1 DEF Jobs, IsCall
<1>3. queue[i].subscriber.to \in Promises
  BY <1>2 DEF Subscriber
<1>4. queue[i].promise # None
  BY <1>2 DEF Values
<1> QED
  BY <1>2, <1>3, <1>4 DEF QueuedInOrder

\* A callback is subscribed once,
LEMMA SubscribedOnce ==
  ASSUME TypeOK, ChildrenAreMade, SubscribedInOrder,
         NEW p \in Promises, NEW i \in DOMAIN subscribers[p], subscribers[p][i].kind = "then",
         NEW q \in Promises, NEW j \in DOMAIN subscribers[q], subscribers[q][j].kind = "then",
         subscribers[p][i].to = subscribers[q][j].to
  PROVE  p = q /\ i = j
<1>1. p = q
  BY SubscribedIsChild
<1>2. i \in Nat /\ j \in Nat
  BY DEF TypeOK
<1>3. ~(i < j)
  BY <1>1, SubscribedIsChild, NotBeforeItself DEF SubscribedInOrder
<1>4. ~(j < i)
  BY <1>1, SubscribedIsChild, NotBeforeItself DEF SubscribedInOrder
<1> QED
  BY <1>1, <1>2, <1>3, <1>4

\* or queued once,
LEMMA QueuedOnce ==
  ASSUME TypeOK, ChildrenAreMade, QueuedInOrder,
         NEW i \in DOMAIN queue, IsCall(queue[i]), NEW j \in DOMAIN queue, IsCall(queue[j]),
         queue[i].subscriber.to = queue[j].subscriber.to
  PROVE  i = j
<1>1. queue[i].promise = queue[j].promise
  BY QueuedIsChild
<1>2. i \in Nat /\ j \in Nat
  BY DEF TypeOK
<1>3. ~(i < j)
  BY <1>1, QueuedIsChild, NotBeforeItself DEF QueuedInOrder
<1>4. ~(j < i)
  BY <1>1, QueuedIsChild, NotBeforeItself DEF QueuedInOrder
<1> QED
  BY <1>2, <1>3, <1>4

\* but not both.
LEMMA SubscribedOrQueued ==
  ASSUME TypeOK, ChildrenAreMade, SubscribedInOrder, QueuedInOrder, SubscribedComeFirst,
         NEW p \in Promises, NEW i \in DOMAIN subscribers[p], subscribers[p][i].kind = "then",
         NEW j \in DOMAIN queue, IsCall(queue[j])
  PROVE  subscribers[p][i].to # queue[j].subscriber.to
<1> SUFFICES ASSUME subscribers[p][i].to = queue[j].subscriber.to PROVE FALSE
  OBVIOUS
<1>1. queue[j].promise = p /\ p # None
  BY SubscribedIsChild, QueuedIsChild
<1>2. Before(subscribers[p][i].to, queue[j].subscriber.to)
  BY <1>1 DEF SubscribedComeFirst
<1>3. parent[queue[j].subscriber.to] # None
  BY <1>1, QueuedIsChild
<1> QED
  BY <1>2, <1>3, NotBeforeItself

-----------------------------------------------------------------------------
(* A silent step leaves everybody in line. *)

InLine == SubscribedInOrder /\ QueuedInOrder /\ SubscribedComeFirst

\* The turn does not pass a promise that is published.
NobodyIsSkipped == at' = at \/ (at' = at + 1 /\ (at \in DOMAIN queue => queue[at].type # "publish"))

LEMMA StillInLine ==
  ASSUME IInv, TypeOK', InLine, Silent, MadeGrows, UNCHANGED parent, NobodyIsSkipped
  PROVE  InLine'
<1>1. TypeOK /\ QueueGrows /\ PromisesGrow /\ NoCallbackAdded
  BY EffectGrows DEF IInv, Silent
<1>2. ASSUME NEW p \in Promises, NEW i \in DOMAIN subscribers'[p], subscribers'[p][i].kind = "then"
      PROVE  i \in DOMAIN subscribers[p] /\ subscribers'[p][i] = subscribers[p][i]
  BY <1>1, <1>2 DEF NoCallbackAdded, PromisesGrow
<1>3. ASSUME NEW i \in DOMAIN queue', IsCall(queue'[i])
      PROVE  i \in DOMAIN queue /\ queue'[i] = queue[i]
  BY <1>1, <1>3 DEF NoCallbackAdded, QueueGrows
<1>4. \A c, d : Before(c, d) => Before(c, d)'
  BY <1>1, BeforeStays
<1>5. SubscribedInOrder'
  <2> SUFFICES ASSUME NEW p \in Promises, NEW j \in DOMAIN subscribers'[p],
                      subscribers'[p][j].kind = "then"
               PROVE  /\ parent'[subscribers'[p][j].to] = p
                      /\ \A i \in DOMAIN subscribers'[p] :
                           i < j /\ subscribers'[p][i].kind = "then" =>
                             Before(subscribers[p][i].to, subscribers[p][j].to)'
    BY DEF SubscribedInOrder
  <2>1. j \in DOMAIN subscribers[p] /\ subscribers'[p][j] = subscribers[p][j]
    BY <1>2
  <2>2. parent'[subscribers'[p][j].to] = p
    BY <2>1 DEF InLine, SubscribedInOrder
  <2>3. ASSUME NEW i \in DOMAIN subscribers'[p], i < j, subscribers'[p][i].kind = "then"
        PROVE  Before(subscribers[p][i].to, subscribers[p][j].to)'
    <3>1. i \in DOMAIN subscribers[p] /\ subscribers'[p][i] = subscribers[p][i]
      BY <1>2, <2>3
    <3>2. Before(subscribers[p][i].to, subscribers[p][j].to)
      BY <2>1, <2>3, <3>1 DEF InLine, SubscribedInOrder
    <3>3. PICK c, d : c = subscribers[p][i].to /\ d = subscribers[p][j].to
      OBVIOUS
    <3>4. Before(c, d)'
      BY <3>2, <3>3, <1>4
    <3> QED
      BY <2>1, <3>1, <3>3, <3>4 DEF Before
  <2> QED
    BY <2>2, <2>3
<1>6. QueuedInOrder'
  <2> SUFFICES ASSUME NEW j \in DOMAIN queue', IsCall(queue'[j])
               PROVE  /\ parent'[queue'[j].subscriber.to] = queue'[j].promise
                      /\ \A i \in DOMAIN queue' :
                           i < j /\ IsCall(queue'[i]) /\ queue'[i].promise = queue'[j].promise =>
                             Before(queue[i].subscriber.to, queue[j].subscriber.to)'
    BY DEF QueuedInOrder, IsCall
  <2>1. j \in DOMAIN queue /\ queue'[j] = queue[j]
    BY <1>3
  <2>2. parent'[queue'[j].subscriber.to] = queue'[j].promise
    BY <2>1 DEF InLine, QueuedInOrder
  <2>3. ASSUME NEW i \in DOMAIN queue', i < j, IsCall(queue'[i]), queue'[i].promise = queue'[j].promise
        PROVE  Before(queue[i].subscriber.to, queue[j].subscriber.to)'
    <3>1. i \in DOMAIN queue /\ queue'[i] = queue[i]
      BY <1>3, <2>3
    <3>2. Before(queue[i].subscriber.to, queue[j].subscriber.to)
      BY <2>1, <2>3, <3>1 DEF InLine, QueuedInOrder
    <3>3. PICK c, d : c = queue[i].subscriber.to /\ d = queue[j].subscriber.to
      OBVIOUS
    <3>4. Before(c, d)'
      BY <3>2, <3>3, <1>4
    <3> QED
      BY <2>1, <3>1, <3>3, <3>4 DEF Before
  <2> QED
    BY <2>2, <2>3
<1>7. SubscribedComeFirst'
  <2> SUFFICES ASSUME NEW j \in DOMAIN queue', IsCall(queue'[j]),
                      NEW i \in DOMAIN subscribers'[queue'[j].promise],
                      subscribers'[queue'[j].promise][i].kind = "then"
               PROVE  /\ Before(subscribers[queue[j].promise][i].to, queue[j].subscriber.to)'
                      /\ \E k \in DOMAIN queue' :
                           at' <= k /\ k < j /\ queue'[k] = Publish(queue'[j].promise)
    BY DEF SubscribedComeFirst, IsCall, Publish
  <2>1. j \in DOMAIN queue /\ queue'[j] = queue[j] /\ IsCall(queue[j])
    BY <1>3
  <2>2. queue[j].promise \in Promises
    BY <1>1, <2>1, QueuedIsChild DEF InLine
  <2>3. /\ i \in DOMAIN subscribers[queue[j].promise]
        /\ subscribers'[queue[j].promise][i] = subscribers[queue[j].promise][i]
        /\ subscribers[queue[j].promise][i].kind = "then"
    BY <1>2, <2>1, <2>2
  <2>4. /\ Before(subscribers[queue[j].promise][i].to, queue[j].subscriber.to)
        /\ \E k \in DOMAIN queue : at <= k /\ k < j /\ queue[k] = Publish(queue[j].promise)
    BY <2>1, <2>3 DEF InLine, SubscribedComeFirst
  <2>5. PICK k \in DOMAIN queue : at <= k /\ k < j /\ queue[k] = Publish(queue[j].promise)
    BY <2>4
  <2>6. k \in DOMAIN queue' /\ queue'[k] = queue[k]
    BY <1>1 DEF QueueGrows
  <2>7. at' <= k
    <3>1. CASE at' = at
      BY <2>5, <3>1
    <3>2. CASE at' = at + 1 /\ (at \in DOMAIN queue => queue[at].type # "publish")
      <4>1. k # at
        BY <2>2, <2>5, <3>2, PublishIsJob
      <4> QED
        BY <1>1, <2>5, <3>2, <4>1 DEF TypeOK
    <3> QED
      BY <3>1, <3>2 DEF NobodyIsSkipped
  <2>8. Before(subscribers[queue[j].promise][i].to, queue[j].subscriber.to)'
    <3>1. PICK c, d : c = subscribers[queue[j].promise][i].to /\ d = queue[j].subscriber.to
      OBVIOUS
    <3>2. Before(c, d)'
      BY <2>4, <3>1, <1>4
    <3> QED
      BY <2>1, <2>3, <3>1, <3>2 DEF Before
  <2> QED
    BY <2>1, <2>5, <2>6, <2>7, <2>8
<1> QED
  BY <1>5, <1>6, <1>7 DEF InLine

-----------------------------------------------------------------------------
(* Whose turn it is. *)

IsTurnOf(c) ==
  /\ at \in DOMAIN queue
  /\ \/ IsCall(queue[at]) /\ queue[at].subscriber.to = c
     \/ /\ queue[at].type = "publish"
        /\ pos \in DOMAIN subscribers[queue[at].promise]
        /\ subscribers[queue[at].promise][pos].kind = "then"
        /\ subscribers[queue[at].promise][pos].to = c

\* The one whose turn it is comes next among the children of its parent.
LEMMA TurnIsNext ==
  ASSUME IInv, Order, running = None, NEW c \in Promises, IsTurnOf(c)
  PROVE  /\ parent[c] # None /\ ~IsStarted(c)
         /\ \A d \in Promises : parent[d] = parent[c] /\ Before(d, c) => IsStarted(d)
<1> DEFINE p == queue[at].promise
<1>1. TypeOK /\ CallbacksWillBeCalled
  BY DEF IInv
<1>2. /\ ChildrenAreMade /\ SubscribedInOrder /\ QueuedInOrder
      /\ SubscribedComeFirst /\ CalledInTurn
  BY DEF Order
<1>3. CASE IsCall(queue[at]) /\ queue[at].subscriber.to = c
  <2>1. at \in DOMAIN queue /\ p \in Promises /\ p # None /\ parent[c] = p
    BY <1>1, <1>2, <1>3, QueuedIsChild DEF IsTurnOf
  <2>2. ~IsStarted(c)
    <3>1. ~EntryHadTurn(at)
      BY <1>1, <2>1 DEF EntryHadTurn, TypeOK
    <3> QED
      BY <1>2, <1>3, <2>1, <3>1 DEF CalledInTurn
  <2>3. ASSUME NEW d \in Promises, parent[d] = p, Before(d, c)
        PROVE  IsStarted(d)
    <3>1. IsStarted(d) \/ IsSubscribed(p, d) \/ IsQueued(d)
      BY <1>1, <2>1, <2>3 DEF CallbacksWillBeCalled
    <3>2. ~IsSubscribed(p, d)
      <4> SUFFICES ASSUME NEW i \in DOMAIN subscribers[p], subscribers[p][i].kind = "then"
                   PROVE  FALSE
        BY DEF IsSubscribed
      <4>1. \E k \in DOMAIN queue : at <= k /\ k < at
        BY <1>2, <1>3, <2>1 DEF SubscribedComeFirst
      <4> QED
        BY <1>1, <4>1 DEF TypeOK
    <3>3. ~IsQueued(d)
      <4> SUFFICES ASSUME NEW j \in DOMAIN queue, j >= at, IsCall(queue[j]),
                          queue[j].subscriber.to = d
                   PROVE  FALSE
        BY DEF IsQueued, IsCall
      <4>1. queue[j].promise = p
        BY <1>1, <1>2, <2>3, QueuedIsChild
      <4>2. j # at
        BY <1>1, <1>2, <1>3, <2>1, <2>3, NotBeforeItself
      <4>3. at < j
        BY <1>1, <4>2 DEF TypeOK
      <4>4. Before(c, d)
        BY <1>2, <1>3, <2>1, <4>1, <4>3 DEF QueuedInOrder
      <4> QED
        BY <1>1, <1>2, <2>1, <2>3, <4>4, BeforeIsOneWay
    <3> QED
      BY <3>1, <3>2, <3>3
  <2> QED
    BY <2>1, <2>2, <2>3
<1>4. CASE /\ queue[at].type = "publish" /\ pos \in DOMAIN subscribers[p]
           /\ subscribers[p][pos].kind = "then" /\ subscribers[p][pos].to = c
  <2>1. at \in DOMAIN queue /\ queue[at] = Publish(p) /\ p \in Promises
    <3>1. at \in DOMAIN queue /\ queue[at] \in Jobs
      BY <1>1 DEF TypeOK, IsTurnOf
    <3> QED
      BY <1>4, <3>1, PublishingJob
  <2>2. parent[c] = p /\ p # None
    BY <1>1, <1>2, <1>4, <2>1, SubscribedIsChild
  <2>3. ~IsStarted(c)
    <3>1. ~SubscriberHadTurn(p, pos)
      BY <1>1 DEF SubscriberHadTurn, TypeOK
    <3> QED
      BY <1>2, <1>4, <2>1, <3>1 DEF CalledInTurn
  <2>4. ASSUME NEW d \in Promises, parent[d] = p, Before(d, c)
        PROVE  IsStarted(d)
    <3>1. IsStarted(d) \/ IsSubscribed(p, d) \/ IsQueued(d)
      BY <1>1, <2>2, <2>4 DEF CallbacksWillBeCalled
    <3>2. ~IsSubscribed(p, d)
      <4> SUFFICES ASSUME NEW i \in DOMAIN subscribers[p], Waits(p, i),
                          subscribers[p][i].kind = "then", subscribers[p][i].to = d
                   PROVE  FALSE
        BY DEF IsSubscribed
      <4>1. i >= pos
        BY <2>1 DEF Waits
      <4>2. i # pos
        BY <1>1, <1>2, <1>4, <2>2, <2>4, NotBeforeItself
      <4>3. pos < i
        BY <1>1, <2>1, <4>1, <4>2 DEF TypeOK
      <4>4. Before(c, d)
        BY <1>2, <1>4, <2>1, <4>3 DEF SubscribedInOrder
      <4> QED
        BY <1>1, <1>2, <2>2, <2>4, <4>4, BeforeIsOneWay
    <3>3. ~IsQueued(d)
      <4> SUFFICES ASSUME NEW j \in DOMAIN queue, IsCall(queue[j]), queue[j].subscriber.to = d
                   PROVE  FALSE
        BY DEF IsQueued, IsCall
      <4>1. queue[j].promise = p
        BY <1>1, <1>2, <2>4, QueuedIsChild
      <4>2. Before(c, d)
        BY <1>2, <1>4, <4>1 DEF SubscribedComeFirst
      <4> QED
        BY <1>1, <1>2, <2>2, <2>4, <4>2, BeforeIsOneWay
    <3> QED
      BY <3>1, <3>2, <3>3
  <2> QED
    BY <2>2, <2>3, <2>4
<1> QED
  BY <1>3, <1>4 DEF IsTurnOf

\* In a step that adds no callback and in which no turn passes, the callbacks
\* that were called stay those whose turn has come.
LEMMA TurnsStay ==
  ASSUME IInv, IInv', Order, Silent, UNCHANGED <<at, pos, running, started>>
  PROVE  CalledInTurn'
<1>1. /\ TypeOK /\ TurnOK /\ QueueGrows /\ PromisesGrow /\ NoCallbackAdded
      /\ CalledInTurn /\ \A d : IsStarted(d)' <=> IsStarted(d)
  BY EffectGrows DEF IInv, Silent, Order, IsStarted
<1>2. ASSUME NEW p \in Promises, NEW i \in DOMAIN subscribers'[p], subscribers'[p][i].kind = "then"
      PROVE  IsStarted(subscribers[p][i].to)' <=> SubscriberHadTurn(p, i)'
  <2>1. i \in DOMAIN subscribers[p] /\ subscribers'[p][i] = subscribers[p][i]
    BY <1>1, <1>2 DEF NoCallbackAdded, PromisesGrow
  <2>2. IsStarted(subscribers[p][i].to)' <=> IsStarted(subscribers[p][i].to)
    BY <2>1 DEF IsStarted
  <2>3. IsStarted(subscribers[p][i].to) <=> SubscriberHadTurn(p, i)
    BY <1>1, <1>2, <2>1 DEF CalledInTurn
  <2>4. SubscriberHadTurn(p, i)' <=> SubscriberHadTurn(p, i)
    <3>1. CASE at \in DOMAIN queue
      <4>1. at' \in DOMAIN queue' /\ queue'[at'] = queue[at]
        BY <1>1, <3>1 DEF QueueGrows
      <4> QED
        BY <3>1, <4>1 DEF SubscriberHadTurn, Publish
    <3>2. CASE at \notin DOMAIN queue
      <4>1. pos = 1 /\ running = None /\ i \in Nat /\ i >= 1
        BY <1>1, <2>1, <3>2 DEF TurnOK, TypeOK
      <4> QED
        BY <3>2, <4>1 DEF SubscriberHadTurn
    <3> QED
      BY <3>1, <3>2
  <2> QED
    BY <2>2, <2>3, <2>4
<1>3. ASSUME NEW i \in DOMAIN queue', IsCall(queue'[i])
      PROVE  IsStarted(queue[i].subscriber.to)' <=> EntryHadTurn(i)'
  <2>1. i \in DOMAIN queue /\ queue'[i] = queue[i]
    BY <1>1, <1>3 DEF NoCallbackAdded, QueueGrows
  <2>2. IsStarted(queue[i].subscriber.to)' <=> IsStarted(queue[i].subscriber.to)
    BY <2>1 DEF IsStarted
  <2>3. IsStarted(queue[i].subscriber.to) <=> EntryHadTurn(i)
    BY <1>1, <1>3, <2>1 DEF CalledInTurn
  <2> QED
    BY <2>2, <2>3 DEF EntryHadTurn
<1> QED
  BY <1>2, <1>3 DEF CalledInTurn, IsCall

LEMMA StartedStayInOrder ==
  ASSUME TypeOK, MadeGrows, ChildrenAreMade, StartedInOrder, UNCHANGED <<parent, started>>
  PROVE  StartedInOrder'
<1> SUFFICES ASSUME NEW j \in DOMAIN started,
                    NEW c \in Promises, parent[c] = parent[started[j]], Before(c, started[j])'
             PROVE  \E i \in DOMAIN started : i < j /\ started[i] = c
  BY DEF StartedInOrder, Before
<1>1. started[j] \in Made
  BY DEF ChildrenAreMade, TypeOK
<1>2. PICK d : d = started[j]
  OBVIOUS
<1>3. Before(c, d)'
  BY <1>2 DEF Before
<1>4. Before(c, started[j])
  BY <1>1, <1>2, <1>3, BeforeIsOld
<1> QED
  BY <1>4 DEF StartedInOrder

\* A call that registers no callback, in an event or in a callback.
LEMMA SilentKeepsOrder ==
  ASSUME IInv, IInv', Order, Silent, MadeGrows, UNCHANGED <<parent, flushV, started>>
  PROVE  Order'
<1>1. TypeOK /\ TypeOK'
  BY DEF IInv
<1>2. \A j \in DOMAIN started' : parent[started'[j]] # None
  BY DEF Order, ChildrenAreMade
<1>3. ChildrenAreMade'
  BY <1>1, <1>2, ChildrenStayMade DEF Order
<1>4. InLine'
  BY <1>1, StillInLine DEF Order, InLine, NobodyIsSkipped, flushV
<1>5. CalledInTurn'
  BY TurnsStay DEF flushV
<1>6. StartedInOrder'
  BY <1>1, StartedStayInOrder DEF Order
<1> QED
  BY <1>3, <1>4, <1>5, <1>6 DEF Order, InLine

-----------------------------------------------------------------------------
(* A turn begins or ends. *)

\* A callback begins to run, or a turn is over; whoever's turn it is has been
\* called, or is called now.
TakesTurn ==
  /\ at \in DOMAIN queue
  /\ \/ Stays /\ running' # None
     \/ Advance /\ running' = None
  /\ \/ running # None /\ started' = started
     \/ running = None /\ (\A c \in Promises : ~IsTurnOf(c)) /\ started' = started
     \/ running = None /\ \E c \in Promises : IsTurnOf(c) /\ started' = Append(started, c)

LEMMA TurnPasses ==
  ASSUME IInv, Silent, TakesTurn
  PROVE  /\ NobodyIsSkipped
         /\ \A p \in Promises : \A i \in DOMAIN subscribers[p] :
              SubscriberHadTurn(p, i)' <=>
                SubscriberHadTurn(p, i) \/ (queue[at] = Publish(p) /\ i = pos)
         /\ \A i \in DOMAIN queue : IsCall(queue[i]) =>
              (EntryHadTurn(i)' <=> EntryHadTurn(i) \/ i = at)
<1>1. TypeOK /\ TurnOK /\ QueueGrows /\ PromisesGrow
  BY EffectGrows DEF IInv, Silent
<1>2. at \in Nat /\ pos \in Nat /\ at \in DOMAIN queue
  BY <1>1 DEF TypeOK, TakesTurn
<1>3. queue'[at] = queue[at] /\ at \in DOMAIN queue'
  BY <1>1, <1>2 DEF QueueGrows
<1>4. CASE Stays /\ running' # None
  <2>1. at' = at /\ pos' = pos
    BY <1>4 DEF Stays
  <2> QED
    BY <1>1, <1>2, <1>3, <1>4, <2>1 DEF SubscriberHadTurn, EntryHadTurn, Publish, NobodyIsSkipped, TypeOK
<1>5. CASE Advance /\ running' = None /\ queue[at].type = "publish"
  <2>1. at' = at /\ pos' = pos + 1
    BY <1>5 DEF Advance
  <2>2. \A i \in DOMAIN queue : IsCall(queue[i]) => i # at
    BY <1>5 DEF IsCall
  <2> QED
    BY <1>1, <1>2, <1>3, <1>5, <2>1, <2>2
       DEF SubscriberHadTurn, EntryHadTurn, Publish, NobodyIsSkipped, TypeOK
<1>6. CASE Advance /\ running' = None /\ queue[at].type # "publish"
  <2>1. at' = at + 1 /\ pos' = 1 /\ pos = 1
    BY <1>1, <1>6 DEF Advance, TurnOK
  <2>2. \A p \in Promises : queue[at] # Publish(p)
    BY <1>6, PublishIsJob
  <2>3. \A p \in Promises : \A i \in DOMAIN subscribers[p] : i \in Nat /\ i >= 1
    BY <1>1 DEF TypeOK
  <2>4. \A p \in Promises : \A i \in DOMAIN subscribers[p] :
          ~SubscriberHadTurn(p, i)' /\ ~SubscriberHadTurn(p, i)
    BY <1>6, <2>1, <2>2, <2>3 DEF SubscriberHadTurn
  <2>5. \A i \in DOMAIN queue : EntryHadTurn(i)' <=> EntryHadTurn(i) \/ i = at
    <3>1. \A i \in DOMAIN queue : i \in Nat
      BY <1>1 DEF TypeOK
    <3> QED
      BY <1>2, <1>6, <2>1, <3>1 DEF EntryHadTurn
  <2> QED
    BY <1>6, <2>1, <2>2, <2>4, <2>5 DEF NobodyIsSkipped
<1> QED
  BY <1>4, <1>5, <1>6 DEF TakesTurn

LEMMA CallIsCounted ==
  ASSUME started \in Seq(Promises), NEW c \in Promises, started' = Append(started, c)
  PROVE  /\ \A d : IsStarted(d)' <=> IsStarted(d) \/ d = c
         /\ DOMAIN started' = DOMAIN started \cup {Len(started) + 1}
         /\ \A j \in DOMAIN started : started'[j] = started[j] /\ j < Len(started) + 1
         /\ started'[Len(started) + 1] = c
<1>1. /\ DOMAIN started' = DOMAIN started \cup {Len(started) + 1}
      /\ \A j \in DOMAIN started : started'[j] = started[j] /\ j < Len(started) + 1
      /\ started'[Len(started) + 1] = c
  OBVIOUS
<1>2. \A d : IsStarted(d)' <=> IsStarted(d) \/ d = c
  BY <1>1 DEF IsStarted
<1> QED
  BY <1>1, <1>2

LEMMA CalledStayInTurn ==
  ASSUME IInv, IInv', Order, Silent, TakesTurn
  PROVE  CalledInTurn'
<1>1. /\ TypeOK /\ TurnOK /\ QueueGrows /\ PromisesGrow /\ NoCallbackAdded
      /\ ChildrenAreMade /\ SubscribedInOrder /\ QueuedInOrder /\ SubscribedComeFirst /\ CalledInTurn
  BY EffectGrows DEF IInv, Silent, Order
<1>2. at \in DOMAIN queue /\ queue[at] \in Jobs
  BY <1>1 DEF TakesTurn, TypeOK
<1>3. ASSUME NEW p \in Promises, NEW i \in DOMAIN subscribers'[p], subscribers'[p][i].kind = "then"
      PROVE  IsStarted(subscribers[p][i].to)' <=> SubscriberHadTurn(p, i)'
  <2> DEFINE d == subscribers[p][i].to
             Now == queue[at] = Publish(p) /\ i = pos
  <2>1. i \in DOMAIN subscribers[p] /\ subscribers'[p][i] = subscribers[p][i]
    BY <1>1, <1>3 DEF NoCallbackAdded, PromisesGrow
  <2>2. IsStarted(d) <=> SubscriberHadTurn(p, i)
    BY <1>1, <1>3, <2>1 DEF CalledInTurn
  <2>3. SubscriberHadTurn(p, i)' <=> SubscriberHadTurn(p, i) \/ Now
    BY <2>1, TurnPasses
  <2>4. Now => IsTurnOf(d)
    BY <1>2, <1>3, <2>1, PublishIsJob DEF IsTurnOf
  <2>5. d \in Promises
    BY <1>1, <1>3, <2>1, SubscribedIsChild
  <2>6. (\E j \in DOMAIN started' : started'[j] = d) <=> IsStarted(d) \/ Now
    <3>1. CASE running # None /\ started' = started
      <4>1. Now => SubscriberHadTurn(p, i)
        BY <1>2, <3>1 DEF SubscriberHadTurn
      <4> QED
        BY <2>2, <3>1, <4>1 DEF IsStarted
    <3>2. CASE (\A c \in Promises : ~IsTurnOf(c)) /\ started' = started
      BY <2>4, <2>5, <3>2 DEF IsStarted
    <3>3. ASSUME NEW c \in Promises, IsTurnOf(c), started' = Append(started, c)
          PROVE  (\E j \in DOMAIN started' : started'[j] = d) <=> IsStarted(d) \/ Now
      <4>1. Now => d = c
        BY <3>3, PublishIsJob DEF IsTurnOf, IsCall
      <4>2. d = c => Now
        <5>1. CASE IsCall(queue[at]) /\ queue[at].subscriber.to = c
          BY <1>1, <1>2, <1>3, <2>1, <5>1, SubscribedOrQueued
        <5>2. CASE /\ queue[at].type = "publish"
                   /\ pos \in DOMAIN subscribers[queue[at].promise]
                   /\ subscribers[queue[at].promise][pos].kind = "then"
                   /\ subscribers[queue[at].promise][pos].to = c
          <6>1. queue[at] = Publish(queue[at].promise) /\ queue[at].promise \in Promises
            BY <1>2, <5>2, PublishingJob
          <6> HIDE DEF Now
          <6>2. d = c => p = queue[at].promise /\ i = pos
            BY <1>1, <1>3, <2>1, <5>2, <6>1, SubscribedOnce
          <6> QED
            BY <6>1, <6>2 DEF Now
        <5> QED
          BY <3>3, <5>1, <5>2 DEF IsTurnOf
      <4> HIDE DEF Now, d
      <4>3. started \in Seq(Promises)
        BY <1>1 DEF TypeOK
      <4>4. \A e : IsStarted(e)' <=> IsStarted(e) \/ e = c
        BY <3>3, <4>3, CallIsCounted
      <4>5. (\E j \in DOMAIN started' : started'[j] = d) <=> IsStarted(d) \/ d = c
        BY <4>4 DEF IsStarted
      <4> QED
        BY <4>1, <4>2, <4>5
    <3> QED
      BY <3>1, <3>2, <3>3 DEF TakesTurn
  <2>7. IsStarted(subscribers[p][i].to)' <=> (\E j \in DOMAIN started' : started'[j] = d)
    BY <2>1 DEF IsStarted
  <2> QED
    BY <2>2, <2>3, <2>6, <2>7
<1>4. ASSUME NEW i \in DOMAIN queue', IsCall(queue'[i])
      PROVE  IsStarted(queue[i].subscriber.to)' <=> EntryHadTurn(i)'
  <2> DEFINE d == queue[i].subscriber.to
             Now == i = at
  <2>1. i \in DOMAIN queue /\ queue'[i] = queue[i] /\ IsCall(queue[i])
    BY <1>1, <1>4 DEF NoCallbackAdded, QueueGrows
  <2>2. IsStarted(d) <=> EntryHadTurn(i)
    BY <1>1, <2>1 DEF CalledInTurn
  <2>3. EntryHadTurn(i)' <=> EntryHadTurn(i) \/ Now
    BY <2>1, TurnPasses
  <2>4. Now => IsTurnOf(d)
    BY <1>2, <2>1 DEF IsTurnOf
  <2>5. d \in Promises
    BY <1>1, <2>1, QueuedIsChild
  <2>6. (\E j \in DOMAIN started' : started'[j] = d) <=> IsStarted(d) \/ Now
    <3>1. CASE running # None /\ started' = started
      <4>1. Now => EntryHadTurn(i)
        BY <3>1 DEF EntryHadTurn
      <4> QED
        BY <2>2, <3>1, <4>1 DEF IsStarted
    <3>2. CASE (\A c \in Promises : ~IsTurnOf(c)) /\ started' = started
      BY <2>4, <2>5, <3>2 DEF IsStarted
    <3>3. ASSUME NEW c \in Promises, IsTurnOf(c), started' = Append(started, c)
          PROVE  (\E j \in DOMAIN started' : started'[j] = d) <=> IsStarted(d) \/ Now
      <4>1. Now => d = c
        BY <2>1, <3>3 DEF IsTurnOf, IsCall
      <4>2. d = c => Now
        <5>1. CASE IsCall(queue[at]) /\ queue[at].subscriber.to = c
          BY <1>1, <1>2, <2>1, <5>1, QueuedOnce
        <5>2. CASE /\ queue[at].type = "publish"
                   /\ pos \in DOMAIN subscribers[queue[at].promise]
                   /\ subscribers[queue[at].promise][pos].kind = "then"
                   /\ subscribers[queue[at].promise][pos].to = c
          <6>1. queue[at].promise \in Promises
            BY <1>2, <5>2, PublishingJob
          <6> QED
            BY <1>1, <2>1, <5>2, <6>1, SubscribedOrQueued
        <5> QED
          BY <3>3, <5>1, <5>2 DEF IsTurnOf
      <4> HIDE DEF Now, d
      <4>3. started \in Seq(Promises)
        BY <1>1 DEF TypeOK
      <4>4. \A e : IsStarted(e)' <=> IsStarted(e) \/ e = c
        BY <3>3, <4>3, CallIsCounted
      <4>5. (\E j \in DOMAIN started' : started'[j] = d) <=> IsStarted(d) \/ d = c
        BY <4>4 DEF IsStarted
      <4> QED
        BY <4>1, <4>2, <4>5
    <3> QED
      BY <3>1, <3>2, <3>3 DEF TakesTurn
  <2>7. IsStarted(queue[i].subscriber.to)' <=> (\E j \in DOMAIN started' : started'[j] = d)
    BY <2>1 DEF IsStarted
  <2> QED
    BY <2>2, <2>3, <2>6, <2>7
<1> QED
  BY <1>3, <1>4 DEF CalledInTurn, IsCall

\* A step in which a turn begins or ends keeps the order.
LEMMA TurnKeepsOrder ==
  ASSUME IInv, IInv', Order, Silent, TakesTurn, UNCHANGED <<made, parent>>
  PROVE  Order'
<1>1. TypeOK /\ TypeOK' /\ MadeGrows /\ ChildrenAreMade /\ StartedInOrder
  BY DEF IInv, Order, MadeGrows
<1>2. CASE started' = started
  <2>1. ChildrenAreMade'
    BY <1>1, <1>2 DEF ChildrenAreMade, Made
  <2>2. StartedInOrder'
    BY <1>1, <1>2, StartedStayInOrder
  <2>3. InLine' /\ CalledInTurn'
    BY <1>1, TurnPasses, StillInLine, CalledStayInTurn DEF Order, InLine
  <2> QED
    BY <2>1, <2>2, <2>3 DEF Order, InLine
<1>3. ASSUME NEW c \in Promises, running = None, IsTurnOf(c), started' = Append(started, c)
      PROVE  Order'
  <2>1. started \in Seq(Promises)
    BY <1>1 DEF TypeOK
  <2>2. /\ DOMAIN started' = DOMAIN started \cup {Len(started) + 1}
        /\ \A j \in DOMAIN started : started'[j] = started[j] /\ j < Len(started) + 1
        /\ started'[Len(started) + 1] = c
    BY <1>3, <2>1, CallIsCounted
  <2>3. /\ parent[c] # None /\ ~IsStarted(c)
        /\ \A d \in Promises : parent[d] = parent[c] /\ Before(d, c) => IsStarted(d)
    BY <1>3, TurnIsNext
  <2>4. \A c1, d1 : Before(c1, d1)' <=> Before(c1, d1)
    BY DEF Before
  <2>5. ChildrenAreMade'
    BY <1>1, <2>2, <2>3 DEF ChildrenAreMade, Made
  <2>6. StartedInOrder'
    <3> SUFFICES ASSUME NEW j \in DOMAIN started'
                 PROVE  /\ \A i \in DOMAIN started' : i < j => started'[i] # started'[j]
                        /\ \A d \in Promises :
                             parent[d] = parent[started'[j]] /\ Before(d, started[j])' =>
                               \E i \in DOMAIN started' : i < j /\ started'[i] = d
      BY DEF StartedInOrder, Before
    <3>1. CASE j \in DOMAIN started
      <4>1. \A i \in DOMAIN started' : i < j => i \in DOMAIN started /\ started'[i] = started[i]
        BY <2>1, <2>2, <3>1
      <4>2. started'[j] = started[j]
        BY <2>2, <3>1
      <4>3. \A d : Before(d, started[j])' <=> Before(d, started[j])
        BY <4>2 DEF Before
      <4>4. \A i \in DOMAIN started' : i < j => started'[i] # started'[j]
        BY <1>1, <3>1, <4>1, <4>2 DEF StartedInOrder
      <4>5. ASSUME NEW d \in Promises, parent[d] = parent[started'[j]], Before(d, started[j])'
            PROVE  \E i \in DOMAIN started' : i < j /\ started'[i] = d
        <5>1. \E i \in DOMAIN started : i < j /\ started[i] = d
          BY <1>1, <3>1, <4>2, <4>3, <4>5 DEF StartedInOrder
        <5> QED
          BY <2>2, <5>1
      <4> QED
        BY <4>4, <4>5
    <3>2. CASE j = Len(started) + 1
      <4>1. started'[j] = c
        BY <2>2, <3>2
      <4>2. \A i \in DOMAIN started' : i < j => i \in DOMAIN started /\ started'[i] = started[i]
        BY <2>1, <2>2, <3>2
      <4>3. \A i \in DOMAIN started' : i < j => started'[i] # started'[j]
        BY <2>3, <4>1, <4>2 DEF IsStarted
      <4>4. ASSUME NEW d \in Promises, parent[d] = parent[started'[j]], Before(d, started[j])'
            PROVE  \E i \in DOMAIN started' : i < j /\ started'[i] = d
        <5>1. Before(d, c)
          BY <4>1, <4>4 DEF Before
        <5>2. PICK i \in DOMAIN started : started[i] = d
          BY <2>3, <4>1, <4>4, <5>1 DEF IsStarted
        <5> QED
          BY <2>2, <3>2, <5>2
      <4> QED
        BY <4>3, <4>4
    <3> QED
      BY <2>2, <3>1, <3>2
  <2>7. InLine' /\ CalledInTurn'
    BY <1>1, TurnPasses, StillInLine, CalledStayInTurn DEF Order, InLine
  <2> QED
    BY <2>5, <2>6, <2>7 DEF Order, InLine
<1> QED
  BY <1>2, <1>3 DEF TakesTurn

-----------------------------------------------------------------------------
(* Every step keeps the order. *)

LEMMA NewPromiseInOrder ==
  ASSUME IInv, IInv', Order, NewPromise
  PROVE  Order'
<1>1. TypeOK
  BY DEF IInv
<1>2. MadeGrows
  BY <1>1, FreshIsNew DEF NewPromise
<1>3. Silent
  BY NothingIsSilent DEF NewPromise, core, queueV
<1> QED
  BY <1>2, <1>3, SilentKeepsOrder DEF NewPromise, history

LEMMA ResolvePromiseInOrder ==
  ASSUME IInv, IInv', Order, NEW p \in open, NEW v \in Given, ResolvePromise(p, v)
  PROVE  Order'
<1>1. TypeOK /\ p \in Promises /\ v \in Values
  BY GivenAreValues DEF IInv, TypeOK
<1>2. Silent
  BY <1>1, ResolveIsSilent DEF ResolvePromise
<1> QED
  BY <1>2, SilentKeepsOrder DEF ResolvePromise, MadeGrows

LEMMA RejectPromiseInOrder ==
  ASSUME IInv, IInv', Order, NEW p \in open, NEW v \in setup.values, RejectPromise(p, v)
  PROVE  Order'
<1>1. TypeOK /\ p \in Promises /\ v \in Values
  BY GivenAreValues DEF IInv, TypeOK
<1>2. Silent
  BY <1>1, SettleIsSilent DEF RejectPromise, Reject
<1> QED
  BY <1>2, SilentKeepsOrder DEF RejectPromise, MadeGrows

LEMMA BeginInOrder ==
  ASSUME IInv, IInv', Order, NEW kind, NEW entries \in Seq(Values), Begin(kind, entries)
  PROVE  Order'
<1>1. TypeOK
  BY DEF IInv
<1>2. CanMake
  <2> SUFFICES ASSUME Made = Promises PROVE FALSE
    BY DEF CanMake
  <2>1. Cardinality(Promises \ Made) = 0
    <3>1. Promises \ Made = {}
      OBVIOUS
    <3> QED
      BY <3>1, FS_EmptySet
  <2> QED
    BY <2>1 DEF Begin
<1>3. MadeGrows
  BY <1>1, <1>2, FreshIsNew DEF Begin
<1>4. Silent
  BY NothingIsSilent DEF Begin, core, queueV
<1> QED
  BY <1>3, <1>4, SilentKeepsOrder DEF Begin

LEMMA AwaitAgainInOrder ==
  ASSUME IInv, IInv', Order, NEW v \in Values, AwaitAgain(v)
  PROVE  Order'
<1>1. Silent
  BY NothingIsSilent DEF AwaitAgain, core, queueV
<1> QED
  BY <1>1, SilentKeepsOrder DEF AwaitAgain, history, MadeGrows

LEMMA ThenableCallsInOrder ==
  ASSUME IInv, IInv', Order, NEW k \in DOMAIN adoptions, NEW v \in Values,
         NEW outcome \in {"fulfilled", "rejected"}, ThenableCalls(k, outcome, v)
  PROVE  Order'
<1>1. TypeOK
  BY DEF IInv
<1>2. adoptions[k].promise \in Promises
  <2>1. adoptions[k] \in Adoption
    BY <1>1 DEF TypeOK
  <2> QED
    BY <2>1 DEF Adoption
<1>3. Silent
  <2>1. CASE UNCHANGED <<core, order, queueV>>
    BY <2>1, NothingIsSilent
  <2>2. CASE Reject(adoptions[k].promise, v)
    BY <1>1, <1>2, <2>2, SettleIsSilent DEF Reject
  <2>3. CASE Fulfill(adoptions[k].promise, v)
    BY <1>1, <1>2, <2>3, SettleIsSilent DEF Fulfill
  <2>4. CASE Resolve(adoptions[k].promise, v)
    BY <1>1, <1>2, <2>4, ResolveIsSilent
  <2> QED
    BY <2>1, <2>2, <2>3, <2>4 DEF ThenableCalls
<1> QED
  BY <1>3, SilentKeepsOrder DEF ThenableCalls, history, MadeGrows

LEMMA SettledEntryInOrder ==
  ASSUME IInv, IInv', Order, SettledEntry
  PROVE  Order'
<1>1. TypeOK /\ InLoop
  BY DEF IInv, SettledEntry
<1>2. loop.to \in Promises /\ loop.i \in Nat
  BY <1>1, EntryOfLoop
<1>3. Silent
  <2>1. CASE /\ Entry \in Promises /\ Settled(Entry)
             /\ SettledAt(loop.to, loop.i, state[Entry], result[Entry])
    <3>1. state[Entry] \in {"fulfilled", "rejected"} /\ result[Entry] \in Values \cup {None}
      BY <1>1, <2>1 DEF Settled, TypeOK
    <3> QED
      BY <1>1, <1>2, <2>1, <3>1, SettledAtIsSilent
  <2>2. CASE UNCHANGED <<core, order, queueV>>
    BY <2>2, NothingIsSilent
  <2> QED
    BY <2>1, <2>2 DEF SettledEntry
<1> QED
  BY <1>3, SilentKeepsOrder DEF SettledEntry, history, MadeGrows

LEMMA OwnEntryInOrder ==
  ASSUME IInv, IInv', Order, OwnEntry
  PROVE  Order'
<1>1. Silent
  BY NothingIsSilent DEF OwnEntry, core, queueV
<1> QED
  BY <1>1, SilentKeepsOrder DEF OwnEntry, history, MadeGrows

LEMMA WrapEntryInOrder ==
  ASSUME IInv, IInv', Order, WrapEntry
  PROVE  Order'
<1>1. TypeOK /\ InLoop
  BY DEF IInv, WrapEntry
<1>2. MadeGrows /\ Fresh \in Promises
  BY <1>1, FreshIsNew DEF WrapEntry
<1>3. Silent
  BY <1>1, <1>2, EntryOfLoop, ResolveIsSilent DEF WrapEntry
<1> QED
  BY <1>2, <1>3, SilentKeepsOrder DEF WrapEntry, history

LEMMA WaitForEntryInOrder ==
  ASSUME IInv, IInv', Order, WaitForEntry
  PROVE  Order'
<1>1. TypeOK /\ InLoop
  BY DEF IInv, WaitForEntry
<1>2. \A kind \in {"entry", "race", "async"} : Awaiter(kind).kind # "then"
  BY DEF Awaiter
<1>3. Silent
  BY <1>1, <1>2, EntryOfLoop, SubscribeIsSilent, ThenDoIsSilent DEF WaitForEntry
<1> QED
  BY <1>3, SilentKeepsOrder DEF WaitForEntry, history, MadeGrows

\* When the callback that runs ends, its turn is over.
LEMMA RunningTakesTurn ==
  ASSUME IInv, running # None, Advance, running' = None, UNCHANGED started
  PROVE  TakesTurn
BY DEF IInv, TurnOK, TakesTurn

LEMMA EndLoopInOrder ==
  ASSUME IInv, IInv', Order, EndLoop
  PROVE  Order'
<1>1. TypeOK
  BY DEF IInv
<1>2. loop.to \in Promises
  BY <1>1 DEF EndLoop, TypeOK, Loop
<1>3. Silent
  <2>1. ArrayOf(loop.to) \in Values
    BY <1>2 DEF Values
  <2> QED
    BY <1>1, <1>2, <2>1, SettleIsSilent, NothingIsSilent DEF EndLoop, Fulfill
<1>4. CASE UNCHANGED flushV
  BY <1>3, <1>4, SilentKeepsOrder DEF EndLoop, history, MadeGrows
<1>5. CASE running # None /\ running' = None /\ Advance
  BY <1>3, <1>5, RunningTakesTurn, TurnKeepsOrder DEF EndLoop, history
<1> QED
  BY <1>4, <1>5 DEF EndLoop

LEMMA ReturnInOrder ==
  ASSUME IInv, IInv', Order, NEW v \in Values \cup {None}, Return(v)
  PROVE  Order'
<1>1. TypeOK /\ running # None /\ running' = None /\ Advance
  BY DEF IInv, Return
<1>2. running.to \in Promises
  BY <1>1, RunningIsTyped
<1>3. Silent
  <2>1. CASE UNCHANGED <<core, order, queueV, meant, again>>
    BY <2>1, NothingIsSilent
  <2>2. CASE Reject(running.to, CannotReturnOwn)
    BY <1>1, <1>2, <2>2, SettleIsSilent DEF Reject, Values, Errors
  <2>3. CASE Resolve(running.to, v)
    BY <1>1, <1>2, <2>3, ResolveIsSilent
  <2> QED
    BY <2>1, <2>2, <2>3 DEF Return
<1> QED
  BY <1>1, <1>3, RunningTakesTurn, TurnKeepsOrder DEF Return

LEMMA ThrowInOrder ==
  ASSUME IInv, IInv', Order, NEW v \in Values, Throw(v)
  PROVE  Order'
<1>1. TypeOK /\ running # None /\ running' = None /\ Advance
  BY DEF IInv, Throw
<1>2. running.to \in Promises
  BY <1>1, RunningIsTyped
<1>3. Silent
  <2>1. CASE UNCHANGED <<core, order, queueV, adoptions, meant, again>>
    BY <2>1, NothingIsSilent
  <2>2. CASE Reject(running.to, v)
    BY <1>1, <1>2, <2>2, SettleIsSilent DEF Reject
  <2> QED
    BY <2>1, <2>2 DEF Throw
<1> QED
  BY <1>1, <1>3, RunningTakesTurn, TurnKeepsOrder DEF Throw

\* The turn of a subscriber.
LEMMA CallInOrder ==
  ASSUME IInv, IInv', Order, at \in DOMAIN queue, running = None,
         NEW s \in Subscriber, NEW p \in Promises, Settled(p), Call(s, p),
         queue[at].type \in {"publish", "invoke"},
         queue[at].type = "invoke" => queue[at].subscriber = s,
         queue[at].type = "publish" =>
           /\ pos \in DOMAIN subscribers[queue[at].promise]
           /\ subscribers[queue[at].promise][pos] = s,
         UNCHANGED <<made, parent>>
  PROVE  Order'
<1>1. TypeOK
  BY DEF IInv
<1>2. s.to \in Promises /\ s.i \in Nat /\ s # None
  <2>1. s.to \in Promises /\ s.i \in Nat
    BY DEF Subscriber
  <2>2. None \notin Subscriber
    OBVIOUS
  <2> QED
    BY <2>1, <2>2
<1>3. state[p] \in {"fulfilled", "rejected"} /\ result[p] \in Values \cup {None}
  BY <1>1 DEF TypeOK, Settled
<1>4. s.kind = "then" => IsTurnOf(s.to)
  BY DEF IsTurnOf, IsCall
<1>5. s.kind # "then" => \A c \in Promises : ~IsTurnOf(c)
  BY DEF IsTurnOf, IsCall
<1>6. CASE /\ s.kind = "then" /\ running' = s /\ started' = Append(started, s.to)
           /\ UNCHANGED <<core, order, queueV, at, pos, remaining, array>>
  <2>1. TakesTurn
    BY <1>2, <1>4, <1>6 DEF TakesTurn, Stays
  <2> QED
    BY <1>6, <2>1, NothingIsSilent, TurnKeepsOrder
<1>7. CASE /\ s.kind = "async" /\ running' = s
           /\ UNCHANGED <<core, order, queueV, at, pos, remaining, array, started>>
  <2>1. TakesTurn
    BY <1>2, <1>5, <1>7 DEF TakesTurn, Stays
  <2> QED
    BY <1>7, <2>1, NothingIsSilent, TurnKeepsOrder
<1>8. CASE /\ s.kind = "then" /\ Settle(s.to, state[p], result[p])
           /\ started' = Append(started, s.to) /\ Advance
           /\ UNCHANGED <<running, remaining, array>>
  <2>1. TakesTurn
    BY <1>2, <1>4, <1>8 DEF TakesTurn
  <2> QED
    BY <1>1, <1>2, <1>3, <1>8, <2>1, SettleIsSilent, TurnKeepsOrder
<1>9. CASE /\ s.kind \in {"adopt", "race"}
           /\ IF state[p] = "fulfilled" THEN Resolve(s.to, result[p]) ELSE Reject(s.to, result[p])
           /\ Advance /\ UNCHANGED <<running, remaining, array, started>>
  <2>1. Silent
    BY <1>1, <1>2, <1>3, <1>9, SettleIsSilent, ResolveIsSilent DEF Reject
  <2>2. TakesTurn
    BY <1>5, <1>9 DEF TakesTurn
  <2> QED
    BY <2>1, <2>2, TurnKeepsOrder
<1>10. CASE /\ s.kind = "entry" /\ SettledAt(s.to, s.i, state[p], result[p])
            /\ Advance /\ UNCHANGED <<running, started>>
  <2>1. Silent
    BY <1>1, <1>2, <1>3, <1>10, SettledAtIsSilent
  <2>2. TakesTurn
    BY <1>5, <1>10 DEF TakesTurn
  <2> QED
    BY <2>1, <2>2, TurnKeepsOrder
<1> QED
  BY <1>6, <1>7, <1>8, <1>9, <1>10 DEF Call

LEMMA PublishNextInOrder ==
  ASSUME IInv, IInv', Order, PublishNext
  PROVE  Order'
<1> DEFINE p == Job.promise
<1>1. /\ at \in DOMAIN queue /\ queue[at].type = "publish" /\ running = None
      /\ queue \in Seq(Jobs) /\ subscribers \in [Promises -> Seq(Subscriber)]
      /\ pos \in Nat \ {0} /\ pos <= Len(subscribers[p])
  BY DEF IInv, TypeOK, PublishNext, FlushRuns, Job
<1>2. p \in Promises /\ Settled(p)
  <2>1. queue[at] \in Jobs
    BY <1>1
  <2> QED
    BY <1>1, <2>1 DEF Jobs, Job, IInv, QueuedAreSettled
<1>3. pos \in DOMAIN subscribers[p] /\ subscribers[p][pos] \in Subscriber
  BY <1>1, <1>2
<1> HIDE DEF p
<1>4. p = queue[at].promise
  BY DEF p, Job
<1> QED
  BY <1>1, <1>2, <1>3, <1>4, CallInOrder DEF PublishNext, p

LEMMA InvokeNextInOrder ==
  ASSUME IInv, IInv', Order, InvokeNext
  PROVE  Order'
<1>1. /\ at \in DOMAIN queue /\ queue[at].type = "invoke" /\ running = None
      /\ queue[at] \in Jobs
  BY DEF IInv, TypeOK, InvokeNext, FlushRuns, Job
<1>2. queue[at].promise \in Promises /\ queue[at].subscriber \in Subscriber
  BY <1>1 DEF Jobs
<1>3. Settled(queue[at].promise)
  BY <1>1 DEF IInv, QueuedAreSettled
<1> QED
  BY <1>1, <1>2, <1>3, CallInOrder DEF InvokeNext, Job

LEMMA ThenableNextInOrder ==
  ASSUME IInv, IInv', Order, ThenableNext
  PROVE  Order'
<1>1. at \in DOMAIN queue /\ queue[at].type = "thenable" /\ running = None
  BY DEF IInv, ThenableNext, FlushRuns, Job
<1>2. \A c \in Promises : ~IsTurnOf(c)
  BY <1>1 DEF IsTurnOf, IsCall
<1>3. running' \in Asking
  <2>1. queue[at] \in Jobs /\ adoptions \in Seq(Adoption)
    BY <1>1 DEF IInv, TypeOK
  <2>2. queue[at].promise \in Promises
    BY <1>1, <2>1 DEF Jobs
  <2> QED
    BY <2>1, <2>2 DEF ThenableNext, Asking, Job
<1>4. running' # None
  <2>1. None \notin Asking
    OBVIOUS
  <2> QED
    BY <1>3, <2>1
<1>5. TakesTurn
  BY <1>1, <1>2, <1>4 DEF ThenableNext, TakesTurn, Stays, history
<1> QED
  BY <1>5, NothingIsSilent, TurnKeepsOrder DEF ThenableNext, history, core, queueV

LEMMA StartFlushInOrder ==
  ASSUME IInv, IInv', Order, StartFlush
  PROVE  Order'
<1>1. /\ queue \in Seq(Jobs) /\ at = 0 /\ at' = 1 /\ pos = 1 /\ running = None
      /\ subscribers \in [Promises -> Seq(Subscriber)]
      /\ UNCHANGED <<queue, subscribers, made, parent, started, pos, running>>
  BY DEF IInv, TypeOK, TurnOK, StartFlush, core, history
<1>2. ChildrenAreMade' /\ SubscribedInOrder' /\ QueuedInOrder' /\ StartedInOrder'
  BY <1>1 DEF Order, ChildrenAreMade, SubscribedInOrder, QueuedInOrder, StartedInOrder,
              Made, Before, IsCall
<1>3. SubscribedComeFirst'
  <2>1. \A k \in DOMAIN queue : 1 <= k
    BY <1>1
  <2> SUFFICES ASSUME NEW j \in DOMAIN queue, IsCall(queue[j]),
                      NEW i \in DOMAIN subscribers[queue[j].promise],
                      subscribers[queue[j].promise][i].kind = "then"
               PROVE  /\ Before(subscribers[queue[j].promise][i].to, queue[j].subscriber.to)'
                      /\ \E k \in DOMAIN queue : at' <= k /\ k < j /\ queue[k] = Publish(queue[j].promise)
    BY <1>1 DEF SubscribedComeFirst, IsCall, Publish
  <2>2. /\ Before(subscribers[queue[j].promise][i].to, queue[j].subscriber.to)
        /\ \E k \in DOMAIN queue : at <= k /\ k < j /\ queue[k] = Publish(queue[j].promise)
    BY DEF Order, SubscribedComeFirst
  <2>3. Before(subscribers[queue[j].promise][i].to, queue[j].subscriber.to)'
    BY <1>1, <2>2 DEF Before
  <2> QED
    BY <1>1, <2>1, <2>2, <2>3
<1>4. CalledInTurn'
  <2>1. \A p \in Promises : \A i \in DOMAIN subscribers[p] : i \in Nat /\ i >= 1
    BY <1>1
  <2>2. \A i \in DOMAIN queue : i \in Nat /\ i >= 1
    BY <1>1
  <2>3. \A p \in Promises : \A i \in DOMAIN subscribers[p] :
          ~SubscriberHadTurn(p, i) /\ ~SubscriberHadTurn(p, i)'
    BY <1>1, <2>1, <2>2 DEF SubscriberHadTurn
  <2>4. \A i \in DOMAIN queue : ~EntryHadTurn(i) /\ ~EntryHadTurn(i)'
    BY <1>1, <2>2 DEF EntryHadTurn
  <2> QED
    BY <1>1, <2>3, <2>4 DEF Order, CalledInTurn, IsStarted, IsCall
<1> QED
  BY <1>2, <1>3, <1>4 DEF Order

LEMMA EndFlushInOrder ==
  ASSUME IInv, IInv', Order, EndFlush
  PROVE  Order'
<1>1. /\ queue \in Seq(Jobs) /\ at \in Nat /\ at > Len(queue) /\ queue' = <<>>
      /\ UNCHANGED <<subscribers, made, parent, started>>
  BY DEF IInv, TypeOK, EndFlush, core, history
<1>2. DOMAIN queue' = {} /\ at \notin DOMAIN queue
  BY <1>1
<1>3. ChildrenAreMade' /\ SubscribedInOrder' /\ StartedInOrder'
  BY <1>1 DEF Order, ChildrenAreMade, SubscribedInOrder, StartedInOrder, Made, Before
<1>4. QueuedInOrder' /\ SubscribedComeFirst'
  BY <1>2 DEF QueuedInOrder, SubscribedComeFirst
<1>5. CalledInTurn'
  BY <1>1, <1>2 DEF Order, CalledInTurn, SubscriberHadTurn, IsStarted
<1> QED
  BY <1>3, <1>4, <1>5 DEF Order

\* The subscribers are forgotten, who have all been called.
LEMMA EndPublishInOrder ==
  ASSUME IInv, IInv', Order, EndPublish
  PROVE  Order'
<1> DEFINE p == queue[at].promise
<1>1. /\ at \in DOMAIN queue /\ queue[at].type = "publish" /\ running = None
      /\ queue \in Seq(Jobs) /\ subscribers \in [Promises -> Seq(Subscriber)]
      /\ at \in Nat
      /\ subscribers' = [subscribers EXCEPT ![p] = <<>>]
      /\ at' = at + 1 /\ pos' = 1 /\ UNCHANGED <<queue, running, made, parent, started>>
  BY DEF IInv, TypeOK, EndPublish, FlushRuns, Job, queueV, history
<1>2. queue[at] = Publish(p) /\ p \in Promises
  <2>1. queue[at] \in Jobs
    BY <1>1
  <2> QED
    BY <1>1, <2>1, PublishingJob
<1> HIDE DEF p
<1>3. \A q \in Promises : \A i \in DOMAIN subscribers'[q] :
        q # p /\ subscribers'[q] = subscribers[q] /\ i \in DOMAIN subscribers[q]
  <2>1. DOMAIN << >> = {}
    OBVIOUS
  <2>2. subscribers'[p] = << >> /\ \A q \in Promises : q # p => subscribers'[q] = subscribers[q]
    BY <1>1, <1>2
  <2> QED
    BY <2>1, <2>2
<1>4. ChildrenAreMade' /\ QueuedInOrder' /\ StartedInOrder'
  BY <1>1 DEF Order, ChildrenAreMade, QueuedInOrder, StartedInOrder, Made, Before, IsCall
<1>5. SubscribedInOrder'
  BY <1>1, <1>3 DEF Order, SubscribedInOrder, Before
<1>6. SubscribedComeFirst'
  <2> SUFFICES ASSUME NEW j \in DOMAIN queue, IsCall(queue[j]),
                      NEW i \in DOMAIN subscribers'[queue[j].promise],
                      subscribers'[queue[j].promise][i].kind = "then"
               PROVE  /\ Before(subscribers[queue[j].promise][i].to, queue[j].subscriber.to)'
                      /\ \E k \in DOMAIN queue : at' <= k /\ k < j /\ queue[k] = Publish(queue[j].promise)
    BY <1>1 DEF SubscribedComeFirst, IsCall, Publish
  <2> DEFINE q == queue[j].promise
  <2>1. q \in Promises
    BY QueuedIsChild DEF Order, IInv
  <2> HIDE DEF q
  <2>2. q # p /\ subscribers'[q] = subscribers[q] /\ i \in DOMAIN subscribers[q]
    BY <1>3, <2>1 DEF q
  <2>3. /\ Before(subscribers[q][i].to, queue[j].subscriber.to)
        /\ \E k \in DOMAIN queue : at <= k /\ k < j /\ queue[k] = Publish(q)
    BY <2>2 DEF Order, SubscribedComeFirst, q
  <2>4. PICK k \in DOMAIN queue : at <= k /\ k < j /\ queue[k] = Publish(q)
    BY <2>3
  <2>5. k # at
    BY <1>2, <2>2, <2>4 DEF Publish
  <2>6. at' <= k
    BY <1>1, <2>4, <2>5
  <2>7. Before(subscribers[q][i].to, queue[j].subscriber.to)'
    BY <1>1, <2>2, <2>3 DEF Before, q
  <2> QED
    BY <2>4, <2>6, <2>7 DEF q
<1>7. CalledInTurn'
  <2>1. \A q \in Promises : \A i \in DOMAIN subscribers[q] : i \in Nat /\ i >= 1
    BY <1>1
  <2>2. \A q \in Promises : \A i \in DOMAIN subscribers'[q] :
          ~SubscriberHadTurn(q, i) /\ ~SubscriberHadTurn(q, i)'
    <3> SUFFICES ASSUME NEW q \in Promises, NEW i \in DOMAIN subscribers'[q]
                 PROVE  ~SubscriberHadTurn(q, i) /\ ~SubscriberHadTurn(q, i)'
      OBVIOUS
    <3>1. q # p /\ i \in DOMAIN subscribers[q]
      BY <1>3
    <3>2. ~SubscriberHadTurn(q, i)
      BY <1>2, <3>1 DEF SubscriberHadTurn, Publish
    <3>3. ~SubscriberHadTurn(q, i)'
      BY <1>1, <2>1, <3>1 DEF SubscriberHadTurn
    <3> QED
      BY <3>2, <3>3
  <2>3. \A i \in DOMAIN queue : IsCall(queue[i]) => i # at /\ i \in Nat
    BY <1>1 DEF IsCall
  <2>4. \A i \in DOMAIN queue : IsCall(queue[i]) => (EntryHadTurn(i)' <=> EntryHadTurn(i))
    BY <1>1, <2>3 DEF EntryHadTurn
  <2>5. \A q \in Promises : \A i \in DOMAIN subscribers'[q] :
          subscribers'[q][i].kind = "then" => ~IsStarted(subscribers[q][i].to)
    BY <1>3, <2>2 DEF Order, CalledInTurn
  <2> QED
    BY <1>1, <1>3, <2>2, <2>4, <2>5 DEF Order, CalledInTurn, IsStarted, IsCall
<1> QED
  BY <1>4, <1>5, <1>6, <1>7 DEF Order

\* then() puts the callback behind those that were registered before.
LEMMA ThenInOrder ==
  ASSUME IInv, IInv', Order, NEW p \in Made, NEW fulfilled \in BOOLEAN, NEW rejected \in BOOLEAN,
         Then(p, fulfilled, rejected)
  PROVE  Order'
<1> DEFINE s == [kind |-> "then", to |-> Fresh, i |-> 0,
                 fulfilled |-> fulfilled, rejected |-> rejected]
<1>1. /\ TypeOK /\ p \in Promises /\ p # None /\ TurnOK
      /\ ChildrenAreMade /\ SubscribedInOrder /\ QueuedInOrder /\ SubscribedComeFirst
      /\ CalledInTurn /\ StartedInOrder
  BY GivenAreValues DEF IInv, Order, Values
<1>0. PICK f : f = Fresh
  OBVIOUS
<1>2. f \in Promises \ Made /\ MadeGrows /\ made' = Append(made, f)
  BY <1>0, <1>1, FreshIsNew DEF Then, NowMade
<1>3. s \in Subscriber /\ s.kind = "then" /\ s.to = f
  BY <1>0, <1>2 DEF Subscriber, Kinds
<1> HIDE DEF s
<1>4. /\ ThenDo(p, s) /\ parent' = [parent EXCEPT ![f] = p]
      /\ UNCHANGED <<at, pos, running, started>>
  BY <1>0 DEF Then, s, flushV
<1>5. Effect
  BY <1>1, <1>3, <1>4, ThenHasEffect
<1>6. QueueGrows /\ PromisesGrow
  BY <1>1, <1>5, EffectGrows
<1>7. /\ parent[f] = None /\ parent'[f] = p
      /\ \A c \in Promises : parent[c] # None => c # f
      /\ \A c \in Promises : c # f => parent'[c] = parent[c]
  BY <1>1, <1>2, <1>4 DEF ChildrenAreMade, TypeOK
<1>8. /\ \A i \in DOMAIN made : i \in DOMAIN made' /\ made'[i] = made[i] /\ i < Len(made) + 1
      /\ DOMAIN made' = DOMAIN made \cup {Len(made) + 1}
      /\ made'[Len(made) + 1] = f
  <2>1. made \in Seq(Promises) /\ f \in Promises
    BY <1>1, <1>2 DEF TypeOK
  <2> QED
    BY <1>2, <2>1
<1>9. ChildrenAreMade'
  <2>1. \A c \in Promises : parent'[c] # None => c \in Made'
    BY <1>7, <1>8 DEF ChildrenAreMade, Made, Order
  <2>2. \A i \in DOMAIN made : made[i] # f /\ made[i] \in Promises
    BY <1>1, <1>2 DEF Made, TypeOK
  <2>3. \A i, j \in DOMAIN made' : made'[i] = made'[j] /\ parent'[made'[i]] # None => i = j
    BY <1>1, <1>7, <1>8, <2>2 DEF ChildrenAreMade
  <2>4. \A j \in DOMAIN started : parent'[started[j]] # None
    BY <1>1, <1>4, <1>7 DEF ChildrenAreMade, TypeOK
  <2> QED
    BY <1>4, <2>1, <2>3, <2>4 DEF ChildrenAreMade
<1>10. \A c, d : Before(c, d) => Before(c, d)'
  BY <1>1, <1>2, BeforeStays
<1>11. \A c \in Promises : parent[c] # None => Before(c, f)'
  <2> SUFFICES ASSUME NEW c \in Promises, parent[c] # None PROVE Before(c, f)'
    OBVIOUS
  <2>1. PICK i \in DOMAIN made : made[i] = c
    BY <1>1 DEF ChildrenAreMade, Made
  <2>2. \E k, l \in DOMAIN made' : k < l /\ made'[k] = c /\ made'[l] = f
    BY <1>8, <2>1
  <2> QED
    BY <2>2 DEF Before
<1>12. StartedInOrder'
  <2> SUFFICES ASSUME NEW j \in DOMAIN started,
                      NEW c \in Promises, parent'[c] = parent'[started[j]], Before(c, started[j])'
               PROVE  \E i \in DOMAIN started : i < j /\ started[i] = c
    BY <1>1, <1>4 DEF StartedInOrder
  <2>1. started[j] \in Promises /\ parent[started[j]] # None
    BY <1>1 DEF ChildrenAreMade, TypeOK
  <2>2. PICK d : d = started[j]
    OBVIOUS
  <2>3. d \in Made /\ Before(c, d)'
    BY <1>1, <1>4, <2>1, <2>2 DEF ChildrenAreMade, Before
  <2>4. Before(c, d)
    BY <1>1, <1>2, <2>3, BeforeIsOld
  <2>5. c \in Made
    BY <2>4 DEF Before, Made
  <2>6. parent[c] = parent[started[j]]
    BY <1>2, <1>7, <2>1, <2>5
  <2> QED
    BY <1>1, <2>2, <2>4, <2>6 DEF StartedInOrder
<1>13. \A i \in DOMAIN started : started[i] # f
  BY <1>1, <1>7 DEF ChildrenAreMade
<1>14. CASE Pending(p) /\ Subscribe(p, s)
  <2>1. queue' = queue /\ subscribers' = [subscribers EXCEPT ![p] = Append(@, s)]
    BY <1>14 DEF Subscribe, Pending, Settled, queueV
  <2>2. \A i \in DOMAIN queue : queue[i] # Publish(p) /\ ~(IsCall(queue[i]) /\ queue[i].promise = p)
    <3>1. \A i \in DOMAIN queue : queue[i].type # "thenable" => Settled(queue[i].promise)
      BY DEF IInv, QueuedAreSettled
    <3> QED
      BY <1>1, <1>14, <3>1, PublishIsJob DEF Pending, Settled, IsCall
  <2>3. /\ \A q \in Promises : q # p => subscribers'[q] = subscribers[q]
        /\ DOMAIN subscribers'[p] = DOMAIN subscribers[p] \cup {Len(subscribers[p]) + 1}
        /\ \A i \in DOMAIN subscribers[p] :
             subscribers'[p][i] = subscribers[p][i] /\ i < Len(subscribers[p]) + 1
        /\ subscribers'[p][Len(subscribers[p]) + 1] = s
    <3>1. subscribers[p] \in Seq(Subscriber) /\ subscribers'[p] = Append(subscribers[p], s)
      BY <1>1, <2>1 DEF TypeOK
    <3>2. /\ DOMAIN subscribers'[p] = DOMAIN subscribers[p] \cup {Len(subscribers[p]) + 1}
          /\ \A i \in DOMAIN subscribers[p] :
               subscribers'[p][i] = subscribers[p][i] /\ i < Len(subscribers[p]) + 1
          /\ subscribers'[p][Len(subscribers[p]) + 1] = s
      BY <1>3, <3>1
    <3>3. \A q \in Promises : q # p => subscribers'[q] = subscribers[q]
      BY <1>1, <2>1 DEF TypeOK
    <3> QED
      BY <3>2, <3>3
  <2>4. \A q \in Promises : \A i \in DOMAIN subscribers[q] : subscribers[q][i].kind = "then" =>
          /\ subscribers[q][i].to # f /\ parent'[subscribers[q][i].to] = q
          /\ \A c : c = subscribers[q][i].to => Before(c, f)'
    <3> SUFFICES ASSUME NEW q \in Promises, NEW i \in DOMAIN subscribers[q],
                        subscribers[q][i].kind = "then"
                 PROVE  /\ subscribers[q][i].to # f /\ parent'[subscribers[q][i].to] = q
                        /\ \A c : c = subscribers[q][i].to => Before(c, f)'
      OBVIOUS
    <3>1. /\ subscribers[q][i].to \in Promises
          /\ parent[subscribers[q][i].to] = q /\ q # None
      BY <1>1, SubscribedIsChild
    <3> QED
      BY <1>7, <1>11, <3>1
  <2>5. SubscribedInOrder'
    <3> SUFFICES ASSUME NEW q \in Promises, NEW j \in DOMAIN subscribers'[q],
                        subscribers'[q][j].kind = "then"
                 PROVE  /\ parent'[subscribers'[q][j].to] = q
                        /\ \A i \in DOMAIN subscribers'[q] :
                             i < j /\ subscribers'[q][i].kind = "then" =>
                               Before(subscribers[q][i].to, subscribers[q][j].to)'
      BY DEF SubscribedInOrder
    <3>1. CASE j \in DOMAIN subscribers[q]
      <4>1. subscribers'[q][j] = subscribers[q][j]
        BY <2>3, <3>1
      <4>2. ASSUME NEW i \in DOMAIN subscribers'[q], i < j, subscribers'[q][i].kind = "then"
            PROVE  Before(subscribers[q][i].to, subscribers[q][j].to)'
        <5>0. subscribers[q] \in Seq(Subscriber)
          BY <1>1 DEF TypeOK
        <5>1. i \in DOMAIN subscribers[q] /\ subscribers'[q][i] = subscribers[q][i]
          <6>1. CASE q # p
            BY <2>3, <6>1
          <6>2. CASE q = p
            <7>1. j < Len(subscribers[p]) + 1 /\ i # Len(subscribers[p]) + 1
              BY <2>3, <3>1, <4>2, <5>0, <6>2
            <7> QED
              BY <2>3, <6>2, <7>1
          <6> QED
            BY <6>1, <6>2
        <5>2. PICK c, d : c = subscribers[q][i].to /\ d = subscribers[q][j].to
          OBVIOUS
        <5>3. Before(c, d)'
          BY <1>1, <1>10, <3>1, <4>1, <4>2, <5>1, <5>2 DEF SubscribedInOrder
        <5> QED
          BY <4>1, <5>1, <5>2, <5>3 DEF Before
      <4> QED
        BY <2>4, <3>1, <4>1, <4>2
    <3>2. CASE q = p /\ j = Len(subscribers[p]) + 1
      <4>1. subscribers'[q][j] = s
        BY <2>3, <3>2
      <4>2. ASSUME NEW i \in DOMAIN subscribers'[q], i < j, subscribers'[q][i].kind = "then"
            PROVE  Before(subscribers[q][i].to, subscribers[q][j].to)'
        <5>1. i \in DOMAIN subscribers[p] /\ subscribers'[q][i] = subscribers[p][i]
          BY <1>1, <2>3, <3>2, <4>2 DEF TypeOK
        <5>2. PICK c : c = subscribers[p][i].to
          OBVIOUS
        <5>3. Before(c, f)'
          BY <1>1, <2>4, <4>2, <5>1, <5>2
        <5> QED
          BY <1>3, <2>3, <3>2, <4>1, <5>1, <5>2, <5>3 DEF Before
      <4> QED
        BY <1>3, <1>7, <3>2, <4>1, <4>2
    <3> QED
      BY <2>3, <3>1, <3>2
  <2>6. QueuedInOrder'
    <3> SUFFICES ASSUME NEW j \in DOMAIN queue, IsCall(queue[j])
                 PROVE  /\ parent'[queue[j].subscriber.to] = queue[j].promise
                        /\ \A i \in DOMAIN queue :
                             i < j /\ IsCall(queue[i]) /\ queue[i].promise = queue[j].promise =>
                               Before(queue[i].subscriber.to, queue[j].subscriber.to)'
      BY <2>1 DEF QueuedInOrder, IsCall
    <3>1. parent'[queue[j].subscriber.to] = queue[j].promise
      BY <1>1, <1>7, QueuedIsChild
    <3>2. ASSUME NEW i \in DOMAIN queue, i < j, IsCall(queue[i]), queue[i].promise = queue[j].promise
          PROVE  Before(queue[i].subscriber.to, queue[j].subscriber.to)'
      <4>1. PICK c, d : c = queue[i].subscriber.to /\ d = queue[j].subscriber.to
        OBVIOUS
      <4>2. Before(c, d)'
        BY <1>1, <1>10, <3>2, <4>1 DEF QueuedInOrder
      <4> QED
        BY <2>1, <4>1, <4>2 DEF Before
    <3> QED
      BY <3>1, <3>2
  <2>7. SubscribedComeFirst'
    <3> SUFFICES ASSUME NEW j \in DOMAIN queue, IsCall(queue[j]),
                        NEW i \in DOMAIN subscribers'[queue[j].promise],
                        subscribers'[queue[j].promise][i].kind = "then"
                 PROVE  /\ Before(subscribers[queue[j].promise][i].to, queue[j].subscriber.to)'
                        /\ \E k \in DOMAIN queue : at <= k /\ k < j /\ queue[k] = Publish(queue[j].promise)
      BY <1>4, <2>1 DEF SubscribedComeFirst, IsCall, Publish
    <3>1. queue[j].promise \in Promises
      BY <1>1, QueuedIsChild
    <3>2. subscribers'[queue[j].promise] = subscribers[queue[j].promise]
      BY <2>2, <2>3, <3>1
    <3>3. /\ Before(subscribers[queue[j].promise][i].to, queue[j].subscriber.to)
          /\ \E k \in DOMAIN queue : at <= k /\ k < j /\ queue[k] = Publish(queue[j].promise)
      BY <1>1, <3>2 DEF SubscribedComeFirst
    <3>4. PICK c, d : c = subscribers[queue[j].promise][i].to /\ d = queue[j].subscriber.to
      OBVIOUS
    <3>5. Before(c, d)'
      BY <1>10, <3>3, <3>4
    <3>6. Before(subscribers[queue[j].promise][i].to, queue[j].subscriber.to)'
      BY <2>1, <3>2, <3>4, <3>5 DEF Before
    <3> QED
      BY <3>3, <3>6
  <2>8. CalledInTurn'
    <3>1. ASSUME NEW q \in Promises, NEW i \in DOMAIN subscribers'[q], subscribers'[q][i].kind = "then"
          PROVE  IsStarted(subscribers[q][i].to)' <=> SubscriberHadTurn(q, i)'
      <4>1. CASE i \in DOMAIN subscribers[q]
        <5>1. subscribers'[q][i] = subscribers[q][i]
          BY <2>3, <4>1
        <5>2. IsStarted(subscribers[q][i].to) <=> SubscriberHadTurn(q, i)
          BY <1>1, <3>1, <4>1, <5>1 DEF CalledInTurn
        <5>3. SubscriberHadTurn(q, i)' <=> SubscriberHadTurn(q, i)
          BY <1>4, <2>1 DEF SubscriberHadTurn, Publish
        <5> QED
          BY <1>4, <5>1, <5>2, <5>3 DEF IsStarted
      <4>2. CASE q = p /\ i = Len(subscribers[p]) + 1
        <5>1. ~SubscriberHadTurn(q, i)'
          BY <1>4, <2>1, <2>2, <4>2 DEF SubscriberHadTurn, Publish
        <5>2. ~IsStarted(subscribers[q][i].to)'
          BY <1>3, <1>4, <1>13, <2>3, <4>2 DEF IsStarted
        <5> QED
          BY <5>1, <5>2
      <4> QED
        BY <2>3, <4>1, <4>2
    <3>2. \A i \in DOMAIN queue : EntryHadTurn(i)' <=> EntryHadTurn(i)
      BY <1>4 DEF EntryHadTurn
    <3> QED
      BY <1>1, <1>4, <2>1, <3>1, <3>2 DEF CalledInTurn, IsStarted, IsCall
  <2> QED
    BY <1>9, <1>12, <2>5, <2>6, <2>7, <2>8 DEF Order
<1>15. CASE Asap(Invoke(p, s)) /\ UNCHANGED core /\ Settled(p)
  <2> DEFINE job == Invoke(p, s)
  <2>1. /\ job \in Jobs /\ job.type = "invoke" /\ job.promise = p /\ job.subscriber = s
        /\ IsCall(job)
    BY <1>1, <1>3 DEF Invoke, Jobs, IsCall
  <2> HIDE DEF job
  <2>2. Asap(job) /\ subscribers' = subscribers
    BY <1>15 DEF job, core
  <2>3. /\ DOMAIN queue' = DOMAIN queue \cup {Len(queue) + 1}
        /\ \A i \in DOMAIN queue : queue'[i] = queue[i] /\ i < Len(queue) + 1
        /\ queue'[Len(queue) + 1] = job
        /\ Len(queue) + 1 \in Nat
    <3>1. queue \in Seq(Jobs) /\ queue' = Append(queue, job)
      BY <1>1, <2>2 DEF TypeOK, Asap
    <3> QED
      BY <2>1, <3>1
  <2>4. \A i \in DOMAIN queue : IsCall(queue[i]) =>
          /\ queue[i].subscriber.to # f /\ parent'[queue[i].subscriber.to] = queue[i].promise
          /\ \A c : c = queue[i].subscriber.to => Before(c, f)'
    <3> SUFFICES ASSUME NEW i \in DOMAIN queue, IsCall(queue[i])
                 PROVE  /\ queue[i].subscriber.to # f /\ parent'[queue[i].subscriber.to] = queue[i].promise
                        /\ \A c : c = queue[i].subscriber.to => Before(c, f)'
      OBVIOUS
    <3>1. /\ queue[i].subscriber.to \in Promises
          /\ parent[queue[i].subscriber.to] = queue[i].promise /\ queue[i].promise # None
      BY <1>1, QueuedIsChild
    <3> QED
      BY <1>7, <1>11, <3>1
  <2>5. \A q \in Promises : \A i \in DOMAIN subscribers[q] : subscribers[q][i].kind = "then" =>
          /\ subscribers[q][i].to # f /\ parent'[subscribers[q][i].to] = q
          /\ \A c : c = subscribers[q][i].to => Before(c, f)'
    <3> SUFFICES ASSUME NEW q \in Promises, NEW i \in DOMAIN subscribers[q],
                        subscribers[q][i].kind = "then"
                 PROVE  /\ subscribers[q][i].to # f /\ parent'[subscribers[q][i].to] = q
                        /\ \A c : c = subscribers[q][i].to => Before(c, f)'
      OBVIOUS
    <3>1. /\ subscribers[q][i].to \in Promises
          /\ parent[subscribers[q][i].to] = q /\ q # None
      BY <1>1, SubscribedIsChild
    <3> QED
      BY <1>7, <1>11, <3>1
  <2>6. SubscribedInOrder'
    <3> SUFFICES ASSUME NEW q \in Promises, NEW j \in DOMAIN subscribers[q],
                        subscribers[q][j].kind = "then",
                        NEW i \in DOMAIN subscribers[q], i < j, subscribers[q][i].kind = "then"
                 PROVE  Before(subscribers[q][i].to, subscribers[q][j].to)'
      BY <2>2, <2>5 DEF SubscribedInOrder
    <3>1. PICK c, d : c = subscribers[q][i].to /\ d = subscribers[q][j].to
      OBVIOUS
    <3>2. Before(c, d)'
      BY <1>1, <1>10, <3>1 DEF SubscribedInOrder
    <3> QED
      BY <2>2, <3>1, <3>2 DEF Before
  <2>7. QueuedInOrder'
    <3> SUFFICES ASSUME NEW j \in DOMAIN queue', IsCall(queue'[j])
                 PROVE  /\ parent'[queue'[j].subscriber.to] = queue'[j].promise
                        /\ \A i \in DOMAIN queue' :
                             i < j /\ IsCall(queue'[i]) /\ queue'[i].promise = queue'[j].promise =>
                               Before(queue[i].subscriber.to, queue[j].subscriber.to)'
      BY DEF QueuedInOrder, IsCall
    <3>1. CASE j \in DOMAIN queue
      <4>1. queue'[j] = queue[j]
        BY <2>3, <3>1
      <4>2. ASSUME NEW i \in DOMAIN queue', i < j, IsCall(queue'[i]), queue'[i].promise = queue'[j].promise
            PROVE  Before(queue[i].subscriber.to, queue[j].subscriber.to)'
        <5>1. i \in DOMAIN queue
          <6>1. i # Len(queue) + 1
            BY <1>1, <2>3, <3>1, <4>2 DEF TypeOK
          <6> QED
            BY <2>3, <6>1
        <5>2. queue'[i] = queue[i]
          BY <2>3, <5>1
        <5>3. PICK c, d : c = queue[i].subscriber.to /\ d = queue[j].subscriber.to
          OBVIOUS
        <5>4. Before(c, d)'
          BY <1>1, <1>10, <3>1, <4>1, <4>2, <5>1, <5>2, <5>3 DEF QueuedInOrder
        <5> QED
          BY <4>1, <5>2, <5>3, <5>4 DEF Before
      <4> QED
        BY <2>4, <3>1, <4>1, <4>2
    <3>2. CASE j = Len(queue) + 1
      <4>1. queue'[j] = job
        BY <2>3, <3>2
      <4>2. ASSUME NEW i \in DOMAIN queue', i < j, IsCall(queue'[i])
            PROVE  Before(queue[i].subscriber.to, queue[j].subscriber.to)'
        <5>1. i \in DOMAIN queue /\ queue'[i] = queue[i]
          BY <2>3, <3>2, <4>2
        <5>2. PICK c : c = queue[i].subscriber.to
          OBVIOUS
        <5>3. Before(c, f)'
          BY <2>4, <4>2, <5>1, <5>2
        <5> QED
          BY <1>3, <2>1, <4>1, <5>1, <5>2, <5>3 DEF Before
      <4> QED
        BY <1>3, <1>7, <2>1, <4>1, <4>2
    <3> QED
      BY <2>3, <3>1, <3>2
  <2>8. SubscribedComeFirst'
    <3> SUFFICES ASSUME NEW j \in DOMAIN queue', IsCall(queue'[j]),
                        NEW i \in DOMAIN subscribers[queue'[j].promise],
                        subscribers[queue'[j].promise][i].kind = "then"
                 PROVE  /\ Before(subscribers[queue[j].promise][i].to, queue[j].subscriber.to)'
                        /\ \E k \in DOMAIN queue' : at <= k /\ k < j /\ queue'[k] = Publish(queue'[j].promise)
      BY <1>4, <2>2 DEF SubscribedComeFirst, IsCall, Publish
    <3>1. CASE j \in DOMAIN queue
      <4>1. queue'[j] = queue[j]
        BY <2>3, <3>1
      <4>2. /\ Before(subscribers[queue[j].promise][i].to, queue[j].subscriber.to)
            /\ \E k \in DOMAIN queue : at <= k /\ k < j /\ queue[k] = Publish(queue[j].promise)
        BY <1>1, <3>1, <4>1 DEF SubscribedComeFirst
      <4>3. PICK c, d : c = subscribers[queue[j].promise][i].to /\ d = queue[j].subscriber.to
        OBVIOUS
      <4>4. Before(c, d)'
        BY <1>10, <4>2, <4>3
      <4> QED
        BY <2>2, <2>3, <4>1, <4>2, <4>3, <4>4 DEF Before
    <3>2. CASE j = Len(queue) + 1
      <4>1. queue'[j] = job /\ queue'[j].promise = p
        BY <2>1, <2>3, <3>2
      <4>2. subscribers[p] # <<>>
        <5>1. DOMAIN << >> = {}
          OBVIOUS
        <5> QED
          BY <4>1, <5>1
      <4>3. \E k \in DOMAIN queue : k >= at /\ queue[k] = Publish(p)
        BY <1>1, <1>15, <4>2 DEF IInv, SubscribersWillHear, WillBePublished
      <4>4. \E k \in DOMAIN queue' : at <= k /\ k < j /\ queue'[k] = Publish(p)
        BY <1>1, <2>3, <3>2, <4>3 DEF TypeOK
      <4>5. PICK c : c = subscribers[p][i].to
        OBVIOUS
      <4>6. Before(c, f)'
        BY <1>1, <2>5, <4>1, <4>5
      <4> QED
        BY <1>3, <2>1, <2>2, <4>1, <4>4, <4>5, <4>6 DEF Before
    <3> QED
      BY <2>3, <3>1, <3>2
  <2>9. CalledInTurn'
    <3>1. ASSUME NEW q \in Promises, NEW i \in DOMAIN subscribers[q], subscribers[q][i].kind = "then"
          PROVE  IsStarted(subscribers[q][i].to)' <=> SubscriberHadTurn(q, i)'
      <4>1. IsStarted(subscribers[q][i].to) <=> SubscriberHadTurn(q, i)
        BY <1>1, <3>1 DEF CalledInTurn
      <4>2. SubscriberHadTurn(q, i)' <=> SubscriberHadTurn(q, i)
        <5>1. CASE at \in DOMAIN queue
          BY <1>4, <2>3, <5>1 DEF SubscriberHadTurn, Publish
        <5>2. CASE at \notin DOMAIN queue
          <6>1. pos = 1 /\ running = None /\ i \in Nat /\ i >= 1
            BY <1>1, <3>1, <5>2 DEF TurnOK, TypeOK
          <6> QED
            BY <1>4, <5>2, <6>1 DEF SubscriberHadTurn
        <5> QED
          BY <5>1, <5>2
      <4> QED
        BY <1>4, <2>2, <4>1, <4>2 DEF IsStarted
    <3>2. ASSUME NEW i \in DOMAIN queue', IsCall(queue'[i])
          PROVE  IsStarted(queue[i].subscriber.to)' <=> EntryHadTurn(i)'
      <4>1. CASE i \in DOMAIN queue
        <5>1. queue'[i] = queue[i]
          BY <2>3, <4>1
        <5>2. IsStarted(queue[i].subscriber.to) <=> EntryHadTurn(i)
          BY <1>1, <3>2, <4>1, <5>1 DEF CalledInTurn
        <5>3. EntryHadTurn(i)' <=> EntryHadTurn(i)
          BY <1>4 DEF EntryHadTurn
        <5> QED
          BY <1>4, <5>1, <5>2, <5>3 DEF IsStarted
      <4>2. CASE i = Len(queue) + 1
        <5>1. at <= Len(queue) + 1 /\ (running # None => at \in DOMAIN queue) /\ at \in Nat
          BY <1>1 DEF TurnOK, TypeOK
        <5>2. ~EntryHadTurn(i)'
          BY <1>4, <2>3, <4>2, <5>1 DEF EntryHadTurn
        <5>3. ~IsStarted(queue[i].subscriber.to)'
          BY <1>3, <1>4, <1>13, <2>1, <2>3, <4>2 DEF IsStarted
        <5> QED
          BY <5>2, <5>3
      <4> QED
        BY <2>3, <4>1, <4>2
    <3> QED
      BY <2>2, <3>1, <3>2 DEF CalledInTurn, IsCall
  <2> QED
    BY <1>9, <1>12, <2>6, <2>7, <2>8, <2>9 DEF Order
<1> QED
  <2>1. Pending(p) \/ Settled(p)
    BY <1>1 DEF TypeOK, Pending, Settled
  <2> QED
    BY <1>4, <1>14, <1>15, <2>1 DEF ThenDo

LEMMA InitInOrder ==
  ASSUME Init
  PROVE  Order
<1>1. TypeOK
  BY InitHolds DEF IInv
<1>2. /\ parent = [p \in Promises |-> None] /\ subscribers = [p \in Promises |-> <<>>]
      /\ started = <<>> /\ queue = <<>>
  BY DEF Init, NoPromise
<1>3. DOMAIN started = {} /\ DOMAIN queue = {} /\ \A p \in Promises : DOMAIN subscribers[p] = {}
  BY <1>2
<1>4. ChildrenAreMade
  <2>1. \A i \in DOMAIN made : made[i] \in Promises
    BY <1>1 DEF TypeOK
  <2> QED
    BY <1>2, <1>3, <2>1 DEF ChildrenAreMade
<1>5. /\ SubscribedInOrder /\ QueuedInOrder /\ SubscribedComeFirst
      /\ CalledInTurn /\ StartedInOrder
  BY <1>3 DEF SubscribedInOrder, QueuedInOrder, SubscribedComeFirst, CalledInTurn, StartedInOrder
<1> QED
  BY <1>4, <1>5 DEF Order

LEMMA PageInOrder ==
  ASSUME IInv, IInv', Order, Page
  PROVE  Order'
<1>1. TypeOK /\ Given \subseteq Values
  BY GivenAreValues DEF IInv
<1>2. \A v, w \in Given : <<v, w>> \in Seq(Values) /\ <<v>> \in Seq(Values)
  BY <1>1
<1>3. << >> \in Seq(Values)
  OBVIOUS
<1>4. CASE \E kind \in {"all", "race"}, v, w \in Given : Begin(kind, <<v, w>>)
  BY <1>2, <1>4, BeginInOrder
<1>5. CASE \E kind \in {"all", "race"} : Begin(kind, <<>>)
  BY <1>3, <1>5, BeginInOrder
<1>6. CASE \E v \in Given : Begin("async", <<v>>) \/ AwaitAgain(v)
  BY <1>1, <1>2, <1>6, BeginInOrder, AwaitAgainInOrder
<1>7. CASE \E k \in DOMAIN adoptions, v \in Given, outcome \in {"fulfilled", "rejected"} :
             ThenableCalls(k, outcome, v)
  BY <1>1, <1>7, ThenableCallsInOrder
<1> QED
  BY <1>4, <1>5, <1>6, <1>7, NewPromiseInOrder, ResolvePromiseInOrder, RejectPromiseInOrder,
     ThenInOrder DEF Page

LEMMA LibraryInOrder ==
  ASSUME IInv, IInv', Order, Library
  PROVE  Order'
<1>1. Given \cup {None} \subseteq Values \cup {None} /\ setup.values \subseteq Values
  BY GivenAreValues DEF IInv
<1>2. CASE \E v \in Given \cup {None} : Return(v)
  BY <1>1, <1>2, ReturnInOrder
<1>3. CASE \E v \in setup.values : Throw(v)
  BY <1>1, <1>3, ThrowInOrder
<1> QED
  BY <1>2, <1>3, SettledEntryInOrder, OwnEntryInOrder, WrapEntryInOrder, WaitForEntryInOrder,
     EndLoopInOrder, StartFlushInOrder, EndFlushInOrder, PublishNextInOrder, EndPublishInOrder,
     InvokeNextInOrder, ThenableNextInOrder DEF Library

\* Where the callbacks stand: in line for their promise, subscribed before
\* queued, and called when their turn has come.
THEOREM OrderInvariant == Spec => []Order
<1>1. Init => Order
  BY InitInOrder
<1>2. IInv /\ IInv' /\ Order /\ [Next]_vars => Order'
  <2> SUFFICES ASSUME IInv, IInv', Order, [Next]_vars PROVE Order'
    OBVIOUS
  <2>1. CASE UNCHANGED vars
    <3>1. UNCHANGED <<made, parent, subscribers, queue, started, at, pos, running>>
      BY <2>1 DEF vars, core, queueV, flushV, history
    <3>2. ChildrenAreMade' /\ SubscribedInOrder' /\ QueuedInOrder'
      BY <3>1 DEF Order, ChildrenAreMade, SubscribedInOrder, QueuedInOrder, Made, Before, IsCall
    <3>3. SubscribedComeFirst' /\ StartedInOrder'
      BY <3>1 DEF Order, SubscribedComeFirst, StartedInOrder, Before, IsCall, Publish
    <3>4. CalledInTurn'
      BY <3>1 DEF Order, CalledInTurn, SubscriberHadTurn, EntryHadTurn, IsStarted, IsCall, Publish
    <3> QED
      BY <3>2, <3>3, <3>4 DEF Order
  <2> QED
    BY <2>1, PageInOrder, LibraryInOrder DEF Next
<1> QED
  BY <1>1, <1>2, Invariant, PTL DEF Spec

\* Callbacks of one promise are called in the order in which then() registered
\* them, each once, whether they came before or after the outcome.
THEOREM CalledInOrder == Spec => []InOrder
<1>1. IInv /\ Order => InOrder
  <2> SUFFICES ASSUME IInv, Order, NEW j \in DOMAIN started
               PROVE  /\ \A i \in 1..j-1 : started[i] # started[j]
                      /\ \A c \in Made : parent[c] = parent[started[j]] /\ Place(c) < Place(started[j])
                                          => \E i \in 1..j-1 : started[i] = c
    BY DEF InOrder
  <2>1. \A i : i \in 1..j-1 <=> i \in DOMAIN started /\ i < j
    BY SMTT(20) DEF IInv, TypeOK
  <2>2. \A c \in Made : c \in Promises /\ Place(c) \in DOMAIN made /\ made[Place(c)] = c
    BY GivenAreValues DEF IInv, Made, Place
  <2>3. started[j] \in Made
    <3>1. started[j] \in Promises
      BY DEF IInv, TypeOK
    <3> QED
      BY <3>1 DEF Order, ChildrenAreMade
  <2>4. \A c \in Made : Place(c) < Place(started[j]) => Before(c, started[j])
    BY <2>2, <2>3 DEF Before
  <2> QED
    BY <2>1, <2>2, <2>4 DEF Order, StartedInOrder
<1> QED
  BY <1>1, Invariant, OrderInvariant, PTL

=============================================================================
