------------------------- MODULE PromiseAnswersProofs -----------------------
(***************************************************************************)
(* all() and race() answer as promised, for any promises and calls.  What  *)
(* has to be known for that is how each entry reaches the promise that was *)
(* asked, by a promise made for it, by a subscriber, by an entry of the    *)
(* queue, and that those which were settled earlier arrive earlier.        *)
(***************************************************************************)
EXTENDS PromiseFollowsProofs

USE PromisesAssumption
-----------------------------------------------------------------------------
(* What waits for the answer of all() and race(). *)

\* p is a promise of all() or race(), and was asked plainly.
Asks(p) == Many(p) /\ Plainly(asked[p])

IsAll(p)    == asked[p].kind = "all"
Numbers(p)  == Entries(asked[p])
Nth(p, i)   == asked[p].entries[i]

\* The promise q was made for e, and nobody else can settle it.
MadeFor(q, e) == q \notin open /\ q \notin again /\ meant[q] = <<"fulfilled", e>> /\ q # e

\* q is heard for entry i: the entry itself in race(), one that was made for
\* it in all().
StandsFor(q, p, i) ==
  IF IsAll(p)
  THEN /\ Nth(p, i) \in Promises /\ MadeFor(q, Nth(p, i))
       /\ \A j \in Numbers(p) : Nth(p, j) # q
  ELSE q = Nth(p, i)

\* q is settled as the entry e.
SettledAs(q, e) == Settled(q) /\ state[q] = Outcome(e) /\ result[q] = Value(e)

\* The entry i is still to come in the loop.
ToCome(p, i) == loop # None /\ loop.to = p /\ loop.i <= i

\* p will be told of its entry i by the subscriber m of q, or by the entry k
\* of the queue.
HeardFrom(q, m, p, i) ==
  /\ m \in DOMAIN subscribers[q] /\ ~SubscriberHadTurn(q, m)
  /\ subscribers[q][m].to = p /\ subscribers[q][m].i = i
HeardIn(k, p, i) ==
  /\ k \in DOMAIN queue /\ ~EntryHadTurn(k) /\ queue[k].type = "invoke"
  /\ queue[k].subscriber.to = p /\ queue[k].subscriber.i = i

Waited(p, i) ==
  \/ ToCome(p, i)
  \/ \E q \in Promises : \E m \in DOMAIN subscribers[q] : HeardFrom(q, m, p, i)
  \/ \E k \in DOMAIN queue : HeardIn(k, p, i)

\* The entry k of the queue is when p is told of its entry i, or when the
\* promise made for that entry is.
Told(k, p, i) ==
  \/ HeardIn(k, p, i)
  \/ /\ k \in DOMAIN queue /\ k >= at
     /\ \E q \in Promises : queue[k] = Publish(q)
                         /\ \E m \in DOMAIN subscribers[q] : HeardFrom(q, m, p, i)
Comes(k, p, i) ==
  /\ k \in DOMAIN queue /\ k >= at
  /\ Nth(p, i) \in Promises /\ queue[k] = Publish(Nth(p, i))
  /\ \E q \in Promises : Pending(q) /\ \E m \in DOMAIN subscribers[q] : HeardFrom(q, m, p, i)

\* The entry i settles p, unless another one does.
Counts(p, i) ==
  Outcome(Nth(p, i)) \in (IF IsAll(p) THEN {"rejected"} ELSE {"fulfilled", "rejected"})

Earlier(p, i, j) == When(asked[p], i) < When(asked[p], j)

-----------------------------------------------------------------------------
(* The inductive invariant. *)

\* A promise without an outcome has no value, and those with one are ordered.
PendingAreEmpty == \A q \in Promises : Pending(q) => result[q] = None
OrderIsOnce ==
  /\ \A m, n \in DOMAIN order : order[m] = order[n] => m = n
  /\ \A n \in DOMAIN order : Settled(order[n])
  /\ \A q \in Promises : Settled(q) => \E n \in DOMAIN order : order[n] = q

AskedIsTyped ==
  /\ order \in Seq(Promises)
  /\ asked \in [Promises -> Question \cup {None}]
  /\ \A p \in Promises : asked[p] # None => asked[p].since <= Len(order)
  /\ again \subseteq Made
  /\ DOMAIN array = Promises

\* The entries were there before.
EntriesAreMade ==
  \A p \in Promises : Many(p) => \A i \in Numbers(p) :
    Nth(p, i) # p /\ (Nth(p, i) \in Promises => Nth(p, i) \in Made)

\* While the loop goes on, no entry is settled.
LoopIsFor ==
  loop # None /\ loop.kind # "async" =>
    /\ asked[loop.to].kind = loop.kind /\ asked[loop.to].entries = loop.entries
    /\ \A i \in DOMAIN loop.entries : loop.entries[i] \in Promises /\ Settled(loop.entries[i]) =>
         \E n \in DOMAIN order : order[n] = loop.entries[i] /\ n <= asked[loop.to].since

InnerIsFor ==
  loop # None /\ loop.kind # "async" /\ loop.inner # None =>
    /\ InLoop
    /\ loop.kind = "all" =>
         /\ MadeFor(loop.inner, Entry) /\ (\A j \in DOMAIN loop.entries : loop.entries[j] # loop.inner)
         /\ (Entry \in Promises /\ Pending(Entry)) \/ Entry \in Thenables
    /\ loop.kind = "race" =>
         /\ Entry \in Promises => loop.inner = Entry
         /\ Entry \in Plain => SettledAs(loop.inner, Entry)

AnswerBase ==
  /\ PendingAreEmpty /\ OrderIsOnce /\ AskedIsTyped /\ EntriesAreMade
  /\ LoopIsFor /\ InnerIsFor

\* Whoever tells p of something tells it of an entry.
SubscribersTell(p) ==
  \A q \in Promises : \A m \in DOMAIN subscribers[q] : subscribers[q][m].to = p =>
    /\ subscribers[q][m].kind = (IF IsAll(p) THEN "entry" ELSE "race")
    /\ subscribers[q][m].i \in Numbers(p)
    /\ StandsFor(q, p, subscribers[q][m].i)
QueueTells(p) ==
  \A k \in DOMAIN queue : Serves(queue[k], p) =>
    /\ ~IsAll(p) /\ queue[k].type = "invoke" /\ queue[k].subscriber.kind = "race"
    /\ queue[k].subscriber.i \in Numbers(p)
    /\ SettledAs(queue[k].promise, Nth(p, queue[k].subscriber.i))
NoObjectTells(p) == \A k \in DOMAIN adoptions : adoptions[k].promise # p

\* No entry is lost, and none is counted twice.
NoneIsLost(p) ==
  Pending(p) => \A i \in Numbers(p) : array[p][i] # None \/ Waited(p, i)
NoneIsTwice(p) ==
  Pending(p) /\ IsAll(p) => \A i \in Numbers(p) :
    /\ ToCome(p, i) => array[p][i] = None
    /\ \A q \in Promises : \A m \in DOMAIN subscribers[q] : HeardFrom(q, m, p, i) =>
         /\ array[p][i] = None
         /\ \A r \in Promises : \A n \in DOMAIN subscribers[r] :
              HeardFrom(r, n, p, i) => r = q /\ n = m

\* What is to come is not waited for, and what the loop of all() waits for has
\* no outcome.
NotYet(p) ==
  \A i \in Numbers(p) :
    /\ ToCome(p, i) => /\ \A q \in Promises : \A m \in DOMAIN subscribers[q] : ~HeardFrom(q, m, p, i)
                       /\ \A k \in DOMAIN queue : ~HeardIn(k, p, i)
    /\ loop # None /\ loop.to = p /\ IsAll(p) =>
         \A q \in Promises : \A m \in DOMAIN subscribers[q] :
           HeardFrom(q, m, p, i) => Pending(Nth(p, i))

\* What is counted, and what is left.
Left(p) == {i \in Numbers(p) : array[p][i] = None}
CountIsRight(p) ==
  /\ array[p] = [i \in Numbers(p) |-> array[p][i]]
  /\ \A i \in Numbers(p) : array[p][i] # None =>
       IsAll(p) /\ Outcome(Nth(p, i)) = "fulfilled" /\ array[p][i] = Value(Nth(p, i))
  /\ IsAll(p) /\ Pending(p) => remaining[p] = Cardinality(Left(p))
  /\ IsAll(p) /\ Pending(p) /\ ~(loop # None /\ loop.to = p) => Left(p) # {}

\* p is told of its entry i before it is told of j.
GoesBefore(p, i, j) ==
  \A k \in DOMAIN queue :
    /\ Told(k, p, j) => \E n \in DOMAIN queue : n < k /\ Told(n, p, i)
    /\ Comes(k, p, j) => \E n \in DOMAIN queue : Told(n, p, i) \/ (n < k /\ Comes(n, p, i))

\* Who was settled earlier is heard earlier.
HeardInOrder(p) ==
  Pending(p) => \A i, j \in Numbers(p) :
    Counts(p, i) /\ Counts(p, j) /\ Earlier(p, i, j) => GoesBefore(p, i, j)

\* The entry i is the first that counts, and p is settled as it.
AnsweredBy(p, i) ==
  /\ Counts(p, i) /\ Ends(p, Outcome(Nth(p, i)), Value(Nth(p, i)))
  /\ \A j \in Numbers(p) : Counts(p, j) => ~Earlier(p, j, i)
AnsweredByAll(p) ==
  /\ IsAll(p) /\ Ends(p, "fulfilled", ArrayOf(p))
  /\ \A i \in Numbers(p) : array[p][i] # None /\ ~ToCome(p, i)
Answered(p) ==
  Pending(p) \/ AnsweredByAll(p) \/ \E i \in Numbers(p) : AnsweredBy(p, i)

WillAnswer(p) ==
  /\ SubscribersTell(p) /\ QueueTells(p) /\ NoObjectTells(p)
  /\ NoneIsLost(p) /\ NoneIsTwice(p) /\ NotYet(p) /\ CountIsRight(p)
  /\ HeardInOrder(p) /\ Answered(p)

-----------------------------------------------------------------------------
(* When an entry has its outcome. *)

\* When, for any order of settling.
Early(ord, a, i) ==
  a.entries[i] \notin Promises \/ \E n \in DOMAIN ord : ord[n] = a.entries[i] /\ n <= a.since
WhenIn(ord, a, i) ==
  LET settledAt == {n \in DOMAIN ord : ord[n] = a.entries[i]}
  IN  IF a.entries[i] \notin Promises \/ \E n \in settledAt : n <= a.since THEN i
      ELSE Len(a.entries) + (CHOOSE n \in settledAt : TRUE)

Once(ord) == \A m, n \in DOMAIN ord : ord[m] = ord[n] => m = n

\* The place of the entry i in the order is n.
PlaceIs(ord, a, i, n) == n \in DOMAIN ord /\ ord[n] = a.entries[i] /\ ~Early(ord, a, i)

\* x was settled after those of ord.
OneMore(new, ord, x) ==
  /\ ord \in Seq(Promises) /\ x \in Promises /\ Once(ord)
  /\ \A n \in DOMAIN ord : ord[n] # x
  /\ new = Append(ord, x)

LEMMA EntryIsNumber ==
  ASSUME NEW a \in Question, NEW i \in Entries(a)
  PROVE  i \in 1..Len(a.entries) /\ Len(a.entries) \in Nat /\ a.since \in Nat
BY DEF Question, Entries

LEMMA EarlyIsWhen ==
  ASSUME NEW ord, NEW a, NEW i, Early(ord, a, i)
  PROVE  WhenIn(ord, a, i) = i
BY DEF Early, WhenIn

LEMMA PlaceIsWhen ==
  ASSUME NEW ord, Once(ord), NEW a, NEW i, NEW n, PlaceIs(ord, a, i, n)
  PROVE  WhenIn(ord, a, i) = Len(a.entries) + n
<1> DEFINE settledAt == {m \in DOMAIN ord : ord[m] = a.entries[i]}
           c == CHOOSE m \in settledAt : TRUE
<1>1. settledAt = {n}
  BY DEF Once, PlaceIs
<1>2. c = n
  BY <1>1
<1>3. WhenIn(ord, a, i) = Len(a.entries) + c
  BY DEF Early, WhenIn, PlaceIs
<1> HIDE DEF c
<1> QED
  BY <1>2, <1>3

\* The one that is settled now comes last; the others stay where they are.
LEMMA WhenStays ==
  ASSUME NEW ord, NEW new, NEW x, OneMore(new, ord, x),
         NEW a \in Question, a.since <= Len(ord), NEW i \in Entries(a)
  PROVE  /\ Once(new) /\ Len(ord) \in Nat
         /\ Early(ord, a, i) => Early(new, a, i)
         /\ \A n : PlaceIs(ord, a, i, n) => PlaceIs(new, a, i, n) /\ n \in 1..Len(ord)
         /\ a.entries[i] = x => PlaceIs(new, a, i, Len(ord) + 1)
<1>1. /\ new \in Seq(Promises) /\ Len(ord) \in Nat
      /\ DOMAIN new = DOMAIN ord \cup {Len(ord) + 1}
      /\ new[Len(ord) + 1] = x
      /\ \A n \in DOMAIN ord : new[n] = ord[n] /\ n \in 1..Len(ord)
  BY DEF OneMore
<1>2. a.since \in Nat
  BY EntryIsNumber
<1>3. Once(new)
  BY <1>1 DEF Once, OneMore
<1>4. Early(new, a, i) => Early(ord, a, i)
  <2> SUFFICES ASSUME NEW n \in DOMAIN new, new[n] = a.entries[i], n <= a.since
               PROVE  Early(ord, a, i)
    BY DEF Early
  <2>1. n # Len(ord) + 1
    BY <1>1, <1>2
  <2> QED
    BY <1>1, <2>1 DEF Early
<1>5. a.entries[i] = x => ~Early(ord, a, i)
  BY DEF Early, OneMore
<1> QED
  BY <1>1, <1>3, <1>4, <1>5 DEF Early, PlaceIs

\* What that says of two entries.
LEMMA EarlierStays ==
  ASSUME NEW ord, NEW new, NEW x, OneMore(new, ord, x),
         NEW a \in Question, a.since <= Len(ord), NEW i \in Entries(a), NEW j \in Entries(a),
         Early(ord, a, i) \/ \E n : PlaceIs(ord, a, i, n)
  PROVE  /\ Early(ord, a, j) \/ (\E n : PlaceIs(ord, a, j, n)) =>
              WhenIn(new, a, i) = WhenIn(ord, a, i) /\ WhenIn(new, a, j) = WhenIn(ord, a, j)
         /\ a.entries[j] = x => ~(WhenIn(new, a, j) < WhenIn(new, a, i))
<1>1. Once(new) /\ Len(ord) \in Nat /\ i \in 1..Len(a.entries) /\ Len(a.entries) \in Nat
  BY WhenStays, EntryIsNumber
<1>2. ASSUME NEW h \in Entries(a), Early(ord, a, h) \/ \E n : PlaceIs(ord, a, h, n)
      PROVE  /\ WhenIn(new, a, h) = WhenIn(ord, a, h)
             /\ WhenIn(new, a, h) \in Int /\ WhenIn(new, a, h) <= Len(a.entries) + Len(ord)
  <2>1. CASE Early(ord, a, h)
    <3>1. WhenIn(new, a, h) = h /\ WhenIn(ord, a, h) = h
      BY <2>1, EarlyIsWhen, WhenStays
    <3>2. h \in 1..Len(a.entries)
      BY EntryIsNumber
    <3> QED
      BY <1>1, <3>1, <3>2
  <2>2. CASE \E n : PlaceIs(ord, a, h, n)
    <3>1. PICK n : PlaceIs(ord, a, h, n)
      BY <2>2
    <3>2. PlaceIs(new, a, h, n) /\ n \in 1..Len(ord)
      BY <3>1, WhenStays
    <3>3. WhenIn(new, a, h) = Len(a.entries) + n /\ WhenIn(ord, a, h) = Len(a.entries) + n
      BY <1>1, <3>1, <3>2, PlaceIsWhen DEF OneMore
    <3> QED
      BY <1>1, <3>2, <3>3
  <2> QED
    BY <1>2, <2>1, <2>2
<1>3. a.entries[j] = x => WhenIn(new, a, j) = Len(a.entries) + (Len(ord) + 1)
  <2> SUFFICES ASSUME a.entries[j] = x
               PROVE  WhenIn(new, a, j) = Len(a.entries) + (Len(ord) + 1)
    OBVIOUS
  <2>1. PlaceIs(new, a, j, Len(ord) + 1)
    BY WhenStays
  <2>2. PICK n : n = Len(ord) + 1
    OBVIOUS
  <2>3. WhenIn(new, a, j) = Len(a.entries) + n
    BY <1>1, <2>1, <2>2, PlaceIsWhen
  <2> QED
    BY <2>2, <2>3
<1>4. WhenIn(new, a, i) \in Int /\ WhenIn(new, a, i) <= Len(a.entries) + Len(ord)
  BY <1>2
<1>5. a.entries[j] = x => ~(WhenIn(new, a, j) < WhenIn(new, a, i))
  <2>1. PICK l \in Nat, m \in Nat, u \in Int : l = Len(a.entries) /\ m = Len(ord) /\ u = WhenIn(new, a, i)
    BY <1>1, <1>4
  <2>2. u <= l + m
    BY <1>4, <2>1
  <2>3. a.entries[j] = x => WhenIn(new, a, j) = l + (m + 1)
    BY <1>3, <2>1
  <2>4. ~(l + (m + 1) < u)
    BY ONLY <2>2, l \in Nat, m \in Nat, u \in Int
  <2> QED
    BY <2>1, <2>3, <2>4
<1> QED
  BY <1>2, <1>5

-----------------------------------------------------------------------------
(* What a step settles, and what is published for it. *)

NewPublish(y) == \E k \in DOMAIN queue' \ DOMAIN queue : queue'[k] = Publish(y)

SettlesNow(x) ==
  /\ Pending(x) /\ order' = Append(order, x)
  /\ \E outcome \in {"fulfilled", "rejected"}, v \in Values \cup {None} :
       state' = [state EXCEPT ![x] = outcome] /\ result' = [result EXCEPT ![x] = v]
  /\ \A y \in Promises : NewPublish(y) => y = x

SettlesNone ==
  /\ UNCHANGED <<state, result, order>>
  /\ \A y \in Promises : NewPublish(y) => Settled(y) /\ subscribers[y] = <<>>

Moves == SettlesNone \/ \E x \in Promises : SettlesNow(x)

LEMMA PublishedIs ==
  ASSUME TypeOK, NEW x \in Promises, Asap(Publish(x)), NEW y \in Promises, NewPublish(y)
  PROVE  y = x
<1>1. Publish(x) \in Jobs /\ Publish(x).promise = x /\ Publish(y).promise = y
  BY PublishIsJob
<1>2. \A k \in DOMAIN queue' \ DOMAIN queue : queue'[k] = Publish(x)
  BY <1>1, AsapAppends
<1> QED
  BY <1>1, <1>2 DEF NewPublish

LEMMA OtherJobIs ==
  ASSUME TypeOK, NEW job \in Jobs, job.type # "publish", Asap(job), NEW y \in Promises
  PROVE  ~NewPublish(y)
<1>1. \A k \in DOMAIN queue' \ DOMAIN queue : queue'[k] = job
  BY AsapAppends
<1> QED
  BY <1>1, PublishIsJob DEF NewPublish

LEMMA NothingMoves ==
  ASSUME UNCHANGED <<state, result, order, queue>>
  PROVE  Moves
BY DEF Moves, SettlesNone, NewPublish

LEMMA SettleMoves ==
  ASSUME TypeOK, NEW x \in Promises, NEW outcome \in {"fulfilled", "rejected"},
         NEW v \in Values \cup {None}, Settle(x, outcome, v)
  PROVE  Moves
<1>1. CASE ~Pending(x)
  BY <1>1, NothingMoves DEF Settle, core, queueV
<1>2. CASE Pending(x)
  <2>1. \A y \in Promises : NewPublish(y) => y = x
    <3>1. CASE Asap(Publish(x))
      BY <3>1, PublishedIs
    <3>2. CASE UNCHANGED queueV
      BY <3>2 DEF NewPublish, queueV
    <3> QED
      BY <1>2, <3>1, <3>2 DEF Settle
  <2> QED
    BY <1>2, <2>1 DEF Settle, SettlesNow, Moves
<1> QED
  BY <1>1, <1>2

LEMMA SubscribeMoves ==
  ASSUME TypeOK, NEW x \in Promises, NEW s \in Subscriber, Subscribe(x, s)
  PROVE  Moves
<1>1. CASE subscribers[x] = <<>> /\ Settled(x) /\ Asap(Publish(x))
  <2>1. \A y \in Promises : NewPublish(y) => Settled(y) /\ subscribers[y] = <<>>
    BY <1>1, PublishedIs
  <2> QED
    BY <2>1 DEF Subscribe, SettlesNone, Moves
<1>2. CASE UNCHANGED queueV
  BY <1>2, NothingMoves DEF Subscribe, queueV
<1> QED
  BY <1>1, <1>2 DEF Subscribe

LEMMA ResolveMoves ==
  ASSUME TypeOK, NEW x \in Promises, NEW v \in Values \cup {None}, Resolve(x, v)
  PROVE  Moves
<1>1. CASE v = x /\ Reject(x, SelfFulfillment)
  BY <1>1, SettleMoves DEF Reject, Values, Errors
<1>2. CASE v \in Promises \ {x} /\ HandleOwnThenable(x, v)
  <2>1. CASE Pending(v) /\ Subscribe(v, Adopt(x))
    BY <2>1, <1>2, AdoptIsSubscriber, SubscribeMoves
  <2>2. CASE ~Pending(v) /\ Settle(x, state[v], result[v])
    <3>1. state[v] \in {"fulfilled", "rejected"} /\ result[v] \in Values \cup {None}
      BY <2>2, <1>2 DEF TypeOK, Pending
    <3> QED
      BY <2>2, <3>1, SettleMoves
  <2> QED
    BY <1>2, <2>1, <2>2 DEF HandleOwnThenable
<1>3. CASE v \in Broken /\ Reject(x, GetThenError)
  BY <1>3, SettleMoves DEF Reject, Values, Errors
<1>4. CASE v \in Thenables /\ HandleForeignThenable(x, v)
  <2>1. AskThenable(x, v) \in Jobs /\ AskThenable(x, v).type = "thenable"
    BY <1>4 DEF AskThenable, Jobs
  <2>2. UNCHANGED <<state, result, order>> /\ Asap(AskThenable(x, v))
    BY <1>4 DEF HandleForeignThenable, core
  <2> QED
    BY <2>1, <2>2, OtherJobIs DEF SettlesNone, Moves
<1>5. CASE v \in Values \ (Promises \cup Broken \cup Thenables) /\ Fulfill(x, v)
  BY <1>5, SettleMoves DEF Fulfill
<1> QED
  BY <1>1, <1>2, <1>3, <1>4, <1>5 DEF Resolve

LEMMA ThenDoMoves ==
  ASSUME TypeOK, NEW x \in Promises, NEW s \in Subscriber, ThenDo(x, s) \/ Subscribe(x, s)
  PROVE  Moves
<1>1. Invoke(x, s) \in Jobs /\ Invoke(x, s).type # "publish"
  BY DEF Invoke, Jobs
<1>2. CASE Asap(Invoke(x, s)) /\ UNCHANGED <<core, order>>
  BY <1>1, <1>2, OtherJobIs DEF SettlesNone, Moves, core
<1> QED
  BY <1>2, SubscribeMoves DEF ThenDo

LEMMA SettledAtMoves ==
  ASSUME TypeOK, NEW x \in Promises, NEW i, NEW outcome \in {"fulfilled", "rejected"},
         NEW v \in Values \cup {None}, SettledAt(x, i, outcome, v)
  PROVE  Moves
<1>1. ArrayOf(x) \in Values
  BY DEF Values
<1> QED
  BY <1>1, SettleMoves, NothingMoves DEF SettledAt, Fulfill, Reject, core, queueV

LEMMA CallMoves ==
  ASSUME TypeOK, NEW s \in Subscriber, NEW p \in Promises, Settled(p), Call(s, p)
  PROVE  Moves
<1>1. s.to \in Promises
  BY DEF Subscriber
<1>2. state[p] \in {"fulfilled", "rejected"} /\ result[p] \in Values \cup {None}
  BY DEF TypeOK, Settled
<1>3. CASE UNCHANGED <<core, order, queueV>>
  BY <1>3, NothingMoves DEF core, queueV
<1>4. CASE \/ Settle(s.to, state[p], result[p])
           \/ Reject(s.to, result[p])
           \/ SettledAt(s.to, s.i, state[p], result[p])
  BY <1>1, <1>2, <1>4, SettleMoves, SettledAtMoves DEF Reject
<1>5. CASE Resolve(s.to, result[p])
  BY <1>1, <1>2, <1>5, ResolveMoves
<1> QED
  BY <1>3, <1>4, <1>5 DEF Call

LEMMA PageMoves ==
  ASSUME IInv, Page
  PROVE  Moves
<1>1. /\ TypeOK /\ open \subseteq Promises /\ Made \subseteq Promises
      /\ Given \subseteq Values /\ setup.values \subseteq Values
      /\ \A k \in DOMAIN adoptions : adoptions[k].promise \in Promises
  <2>1. open \subseteq Promises /\ (\A k \in DOMAIN adoptions : adoptions[k] \in Adoption) /\ TypeOK
    BY DEF IInv, TypeOK
  <2> QED
    BY <2>1, GivenAreValues DEF Adoption
<1>2. CASE \/ NewPromise
           \/ \E kind \in {"all", "race"}, v, w \in Given : Begin(kind, <<v, w>>)
           \/ \E kind \in {"all", "race"} : Begin(kind, <<>>)
           \/ \E v \in Given : Begin("async", <<v>>) \/ AwaitAgain(v)
  BY <1>2, NothingMoves DEF NewPromise, Begin, AwaitAgain, core, queueV
<1>3. CASE \E p \in open, v \in Given : ResolvePromise(p, v)
  BY <1>1, <1>3, ResolveMoves DEF ResolvePromise
<1>4. CASE \E p \in open, v \in setup.values : RejectPromise(p, v)
  BY <1>1, <1>4, SettleMoves DEF RejectPromise, Reject
<1>5. CASE \E p \in Made, f, r \in BOOLEAN : Then(p, f, r)
  <2>1. PICK p \in Made, f \in BOOLEAN, r \in BOOLEAN : Then(p, f, r)
    BY <1>5
  <2>2. [kind |-> "then", to |-> Fresh, i |-> 0, fulfilled |-> f, rejected |-> r] \in Subscriber
    BY <1>1, <2>1, FreshIsNew DEF Then, Subscriber, Kinds
  <2> QED
    BY <1>1, <2>1, <2>2, ThenDoMoves DEF Then
<1>6. CASE \E k \in DOMAIN adoptions, v \in Given, outcome \in {"fulfilled", "rejected"} :
             ThenableCalls(k, outcome, v)
  <2>1. PICK k \in DOMAIN adoptions, v \in Given, outcome \in {"fulfilled", "rejected"} :
          ThenableCalls(k, outcome, v)
    BY <1>6
  <2>2. \/ UNCHANGED <<core, order, queueV>>
        \/ Settle(adoptions[k].promise, "rejected", v)
        \/ Settle(adoptions[k].promise, "fulfilled", v)
        \/ Resolve(adoptions[k].promise, v)
    BY <2>1 DEF ThenableCalls, Reject, Fulfill
  <2> QED
    BY <1>1, <2>2, NothingMoves, SettleMoves, ResolveMoves DEF core, queueV
<1> QED
  BY <1>2, <1>3, <1>4, <1>5, <1>6 DEF Page

\* The subscriber or the entry of the queue that is called.
LEMMA CalledIs ==
  ASSUME IInv, PublishNext \/ InvokeNext
  PROVE  \E s \in Subscriber, p \in Promises :
           /\ Call(s, p) /\ Settled(p) /\ IsNext(s)
           /\ \/ /\ queue[at] = Publish(p) /\ pos \in DOMAIN subscribers[p] /\ s = subscribers[p][pos]
                 /\ \A q \in Promises : queue[at] = Publish(q) => q = p
              \/ /\ queue[at].type = "invoke" /\ queue[at].subscriber = s /\ queue[at].promise = p
                 /\ \A q \in Promises : queue[at] # Publish(q)
<1>1. TypeOK
  BY DEF IInv
<1>2. CASE PublishNext
  <2>1. /\ at \in DOMAIN queue /\ queue[at] \in Jobs /\ queue[at].type = "publish"
        /\ pos \in Nat \ {0} /\ pos <= Len(subscribers[queue[at].promise])
    BY <1>1, <1>2 DEF TypeOK, PublishNext, FlushRuns, Job
  <2>2. PICK p \in Promises : p = queue[at].promise /\ queue[at] = Publish(p)
    BY <2>1, PublishingJob
  <2>3. Settled(p) /\ subscribers[p] \in Seq(Subscriber)
    BY <1>1, <2>1, <2>2 DEF IInv, TypeOK, QueuedAreSettled
  <2>4. PICK s \in Subscriber : s = subscribers[p][pos] /\ pos \in DOMAIN subscribers[p]
    BY <2>1, <2>2, <2>3
  <2>5. \A q \in Promises : queue[at] = Publish(q) => q = p
    BY <2>2, PublishIsJob
  <2>6. Call(s, p) /\ IsNext(s)
    BY <1>2, <2>1, <2>2, <2>4 DEF PublishNext, Job, IsNext
  <2>7. queue[at] = Publish(p) /\ pos \in DOMAIN subscribers[p] /\ s = subscribers[p][pos] /\ Settled(p)
    BY <2>2, <2>3, <2>4
  <2> QED
    BY <2>5, <2>6, <2>7
<1>3. CASE InvokeNext
  <2>1. at \in DOMAIN queue /\ queue[at] \in Jobs /\ queue[at].type = "invoke"
    BY <1>1, <1>3 DEF TypeOK, InvokeNext, FlushRuns, Job
  <2>2. PICK p \in Promises, s \in Subscriber : p = queue[at].promise /\ s = queue[at].subscriber
    BY <2>1 DEF Jobs
  <2>3. Settled(p) /\ \A q \in Promises : queue[at] # Publish(q)
    BY <2>1, <2>2, PublishIsJob DEF IInv, QueuedAreSettled
  <2>4. Call(s, p) /\ IsNext(s)
    BY <1>3, <2>1, <2>2 DEF InvokeNext, Job, IsNext
  <2> QED
    BY <2>1, <2>2, <2>3, <2>4
<1> QED
  BY <1>2, <1>3

LEMMA LibraryMoves ==
  ASSUME IInv, Library
  PROVE  Moves
<1>1. TypeOK /\ Given \cup {None} \subseteq Values \cup {None} /\ setup.values \subseteq Values
  BY GivenAreValues DEF IInv
<1>2. CASE SettledEntry
  <2>1. InLoop /\ loop.to \in Promises
    BY <1>1, <1>2, EntryOfLoop DEF SettledEntry
  <2>2. CASE Entry \in Promises /\ Settled(Entry) /\ SettledAt(loop.to, loop.i, state[Entry], result[Entry])
    <3>1. state[Entry] \in {"fulfilled", "rejected"} /\ result[Entry] \in Values \cup {None}
      BY <1>1, <2>2 DEF Settled, TypeOK
    <3> QED
      BY <1>1, <2>1, <2>2, <3>1, SettledAtMoves
  <2> QED
    BY <1>2, <2>2, NothingMoves DEF SettledEntry, core, queueV
<1>3. CASE OwnEntry \/ StartFlush
  BY <1>3, NothingMoves DEF OwnEntry, StartFlush, core, queueV
<1>4. CASE EndFlush \/ EndPublish
  BY <1>4 DEF EndFlush, EndPublish, core, queueV, Moves, SettlesNone, NewPublish
<1>5. CASE ThenableNext
  BY <1>5, NothingMoves DEF ThenableNext, core, queueV
<1>6. CASE WrapEntry
  <2>1. Fresh \in Promises /\ Entry \in Values \cup {None}
    BY <1>1, <1>6, FreshIsNew, EntryOfLoop DEF WrapEntry
  <2> QED
    BY <1>1, <1>6, <2>1, ResolveMoves DEF WrapEntry
<1>7. CASE WaitForEntry
  <2>1. InLoop /\ loop.inner \in Promises /\ loop \in Loop /\ loop.i \in Nat /\ loop.to \in Promises
    BY <1>1, <1>7, EntryOfLoop DEF WaitForEntry
  <2>2. \A kind \in {"entry", "race", "async"} : Awaiter(kind) \in Subscriber
    BY <2>1 DEF Awaiter, Subscriber, Kinds
  <2> QED
    BY <1>1, <1>7, <2>1, <2>2, ThenDoMoves DEF WaitForEntry
<1>8. CASE EndLoop
  <2>1. loop.to \in Promises /\ ArrayOf(loop.to) \in Values
    BY <1>1, <1>8 DEF TypeOK, EndLoop, Loop, Values
  <2>2. Settle(loop.to, "fulfilled", ArrayOf(loop.to)) \/ UNCHANGED <<core, order, queueV>>
    BY <1>8 DEF EndLoop, Fulfill
  <2> QED
    BY <1>1, <2>1, <2>2, SettleMoves, NothingMoves DEF core, queueV
<1>9. CASE PublishNext \/ InvokeNext
  BY <1>1, <1>9, CalledIs, CallMoves
<1>10. CASE \E v \in Given \cup {None} : Return(v)
  <2>1. PICK v \in Given \cup {None} : Return(v)
    BY <1>10
  <2>2. running.to \in Promises
    BY <1>1, <2>1, RunningIsTyped DEF Return
  <2>3. \/ UNCHANGED <<core, order, queueV>>
        \/ Settle(running.to, "rejected", CannotReturnOwn)
        \/ Resolve(running.to, v)
    BY <2>1 DEF Return, Reject
  <2>4. CannotReturnOwn \in Values
    BY DEF Values, Errors
  <2> QED
    BY <1>1, <2>1, <2>2, <2>3, <2>4, NothingMoves, SettleMoves, ResolveMoves DEF core, queueV
<1>11. CASE \E v \in setup.values : Throw(v)
  <2>1. PICK v \in setup.values : Throw(v)
    BY <1>11
  <2>2. running.to \in Promises
    BY <1>1, <2>1, RunningIsTyped DEF Throw
  <2>3. Settle(running.to, "rejected", v) \/ UNCHANGED <<core, order, queueV>>
    BY <2>1 DEF Throw, Reject
  <2> QED
    BY <1>1, <2>1, <2>2, <2>3, NothingMoves, SettleMoves DEF core, queueV
<1> QED
  BY <1>2, <1>3, <1>4, <1>5, <1>6, <1>7, <1>8, <1>9, <1>10, <1>11 DEF Library

-----------------------------------------------------------------------------
(* The steps of a loop, and the others. *)

LoopStep == SettledEntry \/ OwnEntry \/ WrapEntry \/ WaitForEntry

LEMMA LoopActs ==
  ASSUME HInv, LoopStep
  PROVE  /\ InLoop /\ loop \in Loop /\ loop.to \in Made /\ loop.to \in Promises
         /\ LoopGoesOn /\ Effect /\ Made \subseteq Made'
         /\ UNCHANGED <<at, pos, running, adoptions, open, asked, again>>
         /\ \E c \in Promises : Touches(c) /\ (c = loop.to \/ c \notin Made)
<1>1. TypeOK /\ NoPromiseIsValue /\ InLoop
  BY DEF HInv, HandsInvariant, IInv, LoopStep, SettledEntry, OwnEntry, WrapEntry, WaitForEntry
<1>2. loop \in Loop /\ loop.to \in Promises /\ loop.i \in Nat /\ Entry \in Values \cup {None}
  BY <1>1, EntryOfLoop
<1>3. loop.to \in Made
  BY <1>1 DEF HInv, HandsInvariant, Others, OthersAreMade, InLoop
<1>4. PICK p \in Promises : p = loop.to
  BY <1>2
<1>5. CASE SettledEntry
  <2>1. LoopGoesOn /\ Made' = Made /\ UNCHANGED <<at, pos, running, adoptions, open, asked, again>>
    BY <1>1, <1>5, NextEntryGoesOn DEF SettledEntry, flushV, history, Made
  <2>2. CASE Entry \in Promises /\ Settled(Entry) /\ SettledAt(loop.to, loop.i, state[Entry], result[Entry])
    <3>1. state[Entry] \in {"fulfilled", "rejected"} /\ result[Entry] \in Values \cup {None}
      BY <1>1, <2>2 DEF Settled, TypeOK
    <3>2. Effect /\ Touches(p)
      BY <1>1, <1>2, <1>4, <2>2, <3>1, SettledAtPasses
    <3> QED
      BY <1>1, <1>2, <1>3, <1>4, <2>1, <3>2
  <2>3. CASE UNCHANGED <<core, order, queueV>>
    <3>1. Effect /\ Touches(p)
      BY <2>3, NoEffect DEF Touches, SubsKept, JobsKept, OutcomeKept, core, queueV
    <3> QED
      BY <1>1, <1>2, <1>3, <1>4, <2>1, <3>1
  <2> QED
    BY <1>5, <2>2, <2>3 DEF SettledEntry
<1>6. CASE OwnEntry \/ WrapEntry
  <2>1. PICK c \in Values \cup Promises : loop' = [loop EXCEPT !.inner = c] /\ c \in Promises
    BY <1>1, <1>6, FreshIsNew DEF OwnEntry, WrapEntry
  <2>2. loop' \in Loop /\ None \notin Loop
    BY <1>2, <2>1 DEF Loop
  <2>3. loop'.kind = loop.kind /\ loop'.to = loop.to /\ loop'.entries = loop.entries /\ loop'.i = loop.i
    BY <1>2, <2>1 DEF Loop
  <2>4. LoopGoesOn
    BY <1>1, <2>2, <2>3 DEF LoopGoesOn, InLoop
  <2>5. UNCHANGED <<at, pos, running, adoptions, open, asked, again>>
    BY <1>6 DEF OwnEntry, WrapEntry, flushV, history
  <2>6. CASE OwnEntry
    <3>1. Effect /\ Touches(p) /\ Made' = Made
      BY <2>6, NoEffect DEF OwnEntry, Touches, SubsKept, JobsKept, OutcomeKept, core, queueV, Made
    <3> QED
      BY <1>1, <1>2, <1>3, <1>4, <2>4, <2>5, <3>1
  <2>7. CASE WrapEntry
    <3>1. PICK q \in Promises \ Made : q = Fresh /\ Made' = Made \cup {q}
      BY <1>1, <2>7, FreshIsAdded DEF WrapEntry
    <3>2. Effect /\ Touches(q)
      BY <1>1, <1>2, <2>7, <3>1, ResolvePasses, ResolveHasEffect DEF WrapEntry
    <3> QED
      BY <1>1, <1>2, <1>3, <2>4, <2>5, <3>1, <3>2
  <2> QED
    BY <1>6, <2>6, <2>7
<1>7. CASE WaitForEntry
  <2>1. LoopGoesOn /\ Made' = Made /\ UNCHANGED <<at, pos, running, adoptions, open, asked, again>>
    BY <1>1, <1>7, NextEntryGoesOn DEF WaitForEntry, flushV, history, Made
  <2>2. loop.inner \in Promises
    BY <1>1, <1>7, EntryOfLoop DEF WaitForEntry
  <2>3. PICK s \in Subscriber : s.to = p /\ (Subscribe(loop.inner, s) \/ ThenDo(loop.inner, s))
    BY <1>1, <1>2, <1>4, <1>7, EntryOfLoop DEF WaitForEntry, Awaiter
  <2>4. Touches(p) /\ Effect
    BY <1>1, <2>2, <2>3, SubscribePasses, ThenDoPasses, SubscribeHasEffect, ThenHasEffect
  <2> QED
    BY <1>1, <1>2, <1>3, <1>4, <2>1, <2>4
<1> QED
  BY <1>5, <1>6, <1>7 DEF LoopStep

\* What all(), race() and await are called with.
LEMMA BeginsWith ==
  ASSUME IInv, NEW kind \in {"all", "race", "async"}, NEW entries, Begin(kind, entries),
         \A i \in DOMAIN entries : entries[i] \in Given, entries \in Seq(Values),
         DOMAIN asked = Promises, order \in Seq(Promises)
  PROVE  \E p \in Promises \ Made :
           /\ Made' = Made \cup {p}
           /\ loop = None
           /\ loop' = [kind |-> kind, to |-> p, entries |-> entries, i |-> 1, inner |-> None]
           /\ remaining' = [remaining EXCEPT ![p] = Len(entries)]
           /\ array' = [array EXCEPT ![p] = [i \in DOMAIN entries |-> None]]
           /\ asked' = [asked EXCEPT ![p] =
                          [kind |-> kind, entries |-> entries, since |-> Len(order)]]
           /\ [kind |-> kind, entries |-> entries, since |-> Len(order)] \in Question
           /\ UNCHANGED <<core, order, queueV, at, pos, running, adoptions, open, meant, again>>
           /\ \A i \in DOMAIN entries : entries[i] \in Promises => entries[i] \in Made
<1>1. CanMake
  <2> SUFFICES ASSUME Made = Promises PROVE FALSE
    BY DEF CanMake
  <2>1. Promises \ Made = {}
    OBVIOUS
  <2>2. Cardinality(Promises \ Made) = 0
    BY <2>1, FS_EmptySet
  <2>3. Len(entries) \in Nat
    OBVIOUS
  <2> QED
    BY <2>2, <2>3 DEF Begin
<1>2. TypeOK
  BY DEF IInv
<1>3. PICK p \in Promises \ Made : p = Fresh /\ Made' = Made \cup {p}
  BY <1>1, <1>2, FreshIsAdded DEF Begin
<1>4. loop = None /\ UNCHANGED <<core, order, queueV, at, pos, running, adoptions, open, meant, again>>
  BY DEF Begin, MayCall, PageRuns, flushV
<1>5. [kind |-> kind, entries |-> entries, since |-> Len(order)] \in Question
  BY DEF Question
<1>6. \A v \in Given : v \in Promises => v \in Made
  BY <1>2 DEF Given, TypeOK, Setup
<1> QED
  BY <1>3, <1>4, <1>5, <1>6 DEF Begin

\* A call of all(), race() or await.
Begins(kind, entries) ==
  /\ Begin(kind, entries)
  /\ entries \in Seq(Values) /\ \A i \in DOMAIN entries : entries[i] \in Given

\* The promise p is made for it.
BeginsFor(p, kind, entries) ==
  /\ Made' = Made \cup {p}
  /\ loop = None
  /\ loop' = [kind |-> kind, to |-> p, entries |-> entries, i |-> 1, inner |-> None]
  /\ remaining' = [remaining EXCEPT ![p] = Len(entries)]
  /\ array' = [array EXCEPT ![p] = [i \in DOMAIN entries |-> None]]
  /\ asked' = [asked EXCEPT ![p] = [kind |-> kind, entries |-> entries, since |-> Len(order)]]
  /\ [kind |-> kind, entries |-> entries, since |-> Len(order)] \in Question
  /\ UNCHANGED <<core, order, queueV, at, pos, running, adoptions, open, meant, again>>
  /\ \A i \in DOMAIN entries : entries[i] \in Promises => entries[i] \in Made

LEMMA BeginsIs ==
  ASSUME HInv, AnswerBase, NEW kind \in {"all", "race", "async"}, NEW entries, Begins(kind, entries)
  PROVE  \E p \in Promises \ Made : BeginsFor(p, kind, entries)
<1>1. IInv /\ Begin(kind, entries) /\ order \in Seq(Promises) /\ DOMAIN asked = Promises
      /\ entries \in Seq(Values) /\ \A i \in DOMAIN entries : entries[i] \in Given
  BY DEF HInv, AnswerBase, AskedIsTyped, Begins
<1> QED
  BY <1>1, BeginsWith DEF BeginsFor

\* What a step is that is none of a loop, and starts none for all() or race().
Between ==
  /\ asked' = asked /\ loop = None
  /\ loop' # None => loop'.kind = "async"
  /\ again' \subseteq again \cup Made

LEMMA StepKinds ==
  ASSUME HInv, Next
  PROVE  \/ LoopStep \/ EndLoop \/ Between
         \/ \E kind \in {"all", "race", "async"}, entries \in Seq(Values) : Begins(kind, entries)
<1>1. TypeOK /\ Given \subseteq Values
  BY GivenAreValues DEF HInv, IInv
<1>2. /\ \A v, w \in Given : <<v, w>> \in Seq(Values) /\ \A i \in DOMAIN <<v, w>> : <<v, w>>[i] \in Given
      /\ \A v \in Given : <<v>> \in Seq(Values) /\ \A i \in DOMAIN <<v>> : <<v>>[i] \in Given
      /\ << >> \in Seq(Values) /\ \A i \in DOMAIN << >> : << >>[i] \in Given
  BY <1>1
<1>3. open \subseteq Made /\ (running # None => running.to \in Made)
  BY DEF HInv, HandsInvariant, Others, OthersAreMade
<1>4. \A p, outcome, v : Means(p, outcome, v) => again' \subseteq again \cup {p}
  BY DEF Means
<1>5. CASE Page
  <2>1. CASE NewPromise \/ (\E p \in Made, f, r \in BOOLEAN : Then(p, f, r))
    BY <2>1 DEF NewPromise, Then, MayCall, PageRuns, Between, others, history
  <2>2. CASE \E p \in open, v \in Given : ResolvePromise(p, v)
    BY <1>3, <1>4, <2>2 DEF ResolvePromise, MayCall, PageRuns, Between, others
  <2>3. CASE \E p \in open, v \in setup.values : RejectPromise(p, v)
    BY <1>3, <1>4, <2>3 DEF RejectPromise, MayCall, PageRuns, Between, others
  <2>4. CASE \E kind \in {"all", "race"}, v, w \in Given : Begin(kind, <<v, w>>)
    BY <1>2, <2>4 DEF Begins
  <2>5. CASE \E kind \in {"all", "race"} : Begin(kind, <<>>)
    BY <1>2, <2>5 DEF Begins
  <2>6. CASE \E v \in Given : Begin("async", <<v>>)
    BY <1>2, <2>6 DEF Begins
  <2>7. CASE \E v \in Given : AwaitAgain(v)
    BY <2>7 DEF AwaitAgain, MayCall, PageRuns, Between, history
  <2>8. CASE \E k \in DOMAIN adoptions, v \in Given, outcome \in {"fulfilled", "rejected"} :
               ThenableCalls(k, outcome, v)
    BY <2>8 DEF ThenableCalls, MayCall, PageRuns, Between, history
  <2> QED
    BY <1>5, <2>1, <2>2, <2>3, <2>4, <2>5, <2>6, <2>7, <2>8 DEF Page
<1>6. CASE Library
  <2>1. CASE StartFlush \/ EndFlush \/ EndPublish \/ ThenableNext
    BY <2>1 DEF StartFlush, EndFlush, EndPublish, ThenableNext, FlushRuns, Between, others, history
  <2>2. CASE PublishNext \/ InvokeNext
    BY <2>2 DEF PublishNext, InvokeNext, FlushRuns, Between
  <2>3. CASE \E v \in Given \cup {None} : Return(v)
    <3>1. PICK v \in Given \cup {None} : Return(v)
      BY <2>3
    <3>2. again' \subseteq again \cup {running.to}
      BY <1>4, <3>1 DEF Return
    <3> QED
      BY <1>3, <3>1, <3>2 DEF Return, Between, others
  <2>4. CASE \E v \in setup.values : Throw(v)
    <3>1. PICK v \in setup.values : Throw(v)
      BY <2>4
    <3>2. again' \subseteq again \cup {running.to}
      BY <1>4, <3>1 DEF Throw
    <3> QED
      BY <1>3, <3>1, <3>2 DEF Throw, Between
  <2> QED
    BY <1>6, <2>1, <2>2, <2>3, <2>4 DEF Library, LoopStep
<1> QED
  BY <1>5, <1>6 DEF Next

-----------------------------------------------------------------------------
(* The base of the invariant. *)

LEMMA MovesKeepOrder ==
  ASSUME HInv, Moves, PendingAreEmpty, OrderIsOnce, order \in Seq(Promises)
  PROVE  /\ PendingAreEmpty' /\ OrderIsOnce'
         /\ Len(order) \in Nat /\ Len(order') \in Nat /\ Len(order) <= Len(order')
         /\ \A n \in DOMAIN order : n \in DOMAIN order' /\ order'[n] = order[n]
<1>1. TypeOK
  BY DEF HInv, IInv
<1>2. CASE SettlesNone
  <2>1. UNCHANGED <<state, result, order>>
    BY <1>2 DEF SettlesNone
  <2>2. PendingAreEmpty' /\ OrderIsOnce'
    BY <2>1 DEF PendingAreEmpty, OrderIsOnce, Pending, Settled
  <2> QED
    BY <2>1, <2>2
<1>3. CASE \E x \in Promises : SettlesNow(x)
  <2>1. PICK x \in Promises : SettlesNow(x)
    BY <1>3
  <2>2. PICK outcome \in {"fulfilled", "rejected"}, v \in Values \cup {None} :
          state' = [state EXCEPT ![x] = outcome] /\ result' = [result EXCEPT ![x] = v]
    BY <2>1 DEF SettlesNow
  <2>3. /\ DOMAIN order' = DOMAIN order \cup {Len(order) + 1} /\ order'[Len(order) + 1] = x
        /\ \A n \in DOMAIN order : order'[n] = order[n] /\ n # Len(order) + 1
        /\ Len(order') = Len(order) + 1 /\ Len(order) \in Nat
    BY <2>1 DEF SettlesNow
  <2>4. /\ \A q \in Promises : q # x => state'[q] = state[q] /\ result'[q] = result[q]
        /\ Settled(x)' /\ Pending(x) /\ ~Settled(x)
    BY <1>1, <2>1, <2>2 DEF SettlesNow, TypeOK, Settled, Pending
  <2>5. \A n \in DOMAIN order : order[n] # x /\ order[n] \in Promises
    BY <2>4 DEF OrderIsOnce
  <2>6. PendingAreEmpty'
    BY <2>4 DEF PendingAreEmpty, Pending, Settled
  <2>7. OrderIsOnce'
    <3>1. \A m, n \in DOMAIN order' : order'[m] = order'[n] => m = n
      BY <2>3, <2>5 DEF OrderIsOnce
    <3>2. \A n \in DOMAIN order' : state'[order'[n]] \in {"fulfilled", "rejected"}
      <4>1. \A n \in DOMAIN order : state'[order[n]] \in {"fulfilled", "rejected"}
        BY <2>4, <2>5 DEF OrderIsOnce, Settled
      <4> QED
        BY <2>3, <2>4, <4>1 DEF Settled
    <3>3. \A q \in Promises : Settled(q)' => \E n \in DOMAIN order' : order'[n] = q
      BY <2>3, <2>4 DEF OrderIsOnce, Settled
    <3> QED
      BY <3>1, <3>2, <3>3 DEF OrderIsOnce, Settled
  <2> QED
    BY <2>3, <2>6, <2>7
<1> QED
  BY <1>2, <1>3 DEF Moves

\* The arrays of all() are kept by promise.
LEMMA ArraysStay ==
  ASSUME Next, DOMAIN array = Promises
  PROVE  DOMAIN array' = Promises
<1>1. \A x, i, outcome, v : SettledAt(x, i, outcome, v) => DOMAIN array' = Promises
  BY DEF SettledAt
<1>2. \A s, p : Call(s, p) => DOMAIN array' = Promises
  BY <1>1 DEF Call
<1>3. CASE Page
  BY <1>3 DEF Page, NewPromise, ResolvePromise, RejectPromise, Then, Begin, AwaitAgain, ThenableCalls, others
<1>4. CASE Library
  BY <1>1, <1>2, <1>4 DEF Library, SettledEntry, OwnEntry, WrapEntry, WaitForEntry, EndLoop, StartFlush,
     EndFlush, PublishNext, EndPublish, InvokeNext, ThenableNext, Return, Throw, others
<1> QED
  BY <1>3, <1>4 DEF Next

LEMMA LoopKeepsBase ==
  ASSUME HInv, AnswerBase, Moves, LoopStep, DOMAIN array' = Promises, order' \in Seq(Promises)
  PROVE  AnswerBase'
<1>1. PICK c \in Promises : Touches(c) /\ (c = loop.to \/ c \notin Made)
  BY LoopActs
<1>2. /\ InLoop /\ loop \in Loop /\ loop.to \in Promises /\ LoopGoesOn /\ Made \subseteq Made'
      /\ UNCHANGED <<open, asked, again>>
  BY LoopActs
<1>3. /\ PendingAreEmpty' /\ OrderIsOnce' /\ Len(order) <= Len(order') /\ Len(order) \in Nat /\ Len(order') \in Nat
      /\ \A n \in DOMAIN order : n \in DOMAIN order' /\ order'[n] = order[n]
  BY MovesKeepOrder DEF AnswerBase, AskedIsTyped
<1>4. AskedIsTyped'
  <2>1. \A p \in Promises : asked[p] # None => asked[p].since \in Nat
    BY DEF AnswerBase, AskedIsTyped, Question
  <2>2. \A p \in Promises : asked[p] # None => asked[p].since <= Len(order')
    BY <1>3, <2>1 DEF AnswerBase, AskedIsTyped
  <2> QED
    BY <1>2, <2>2 DEF AnswerBase, AskedIsTyped
<1>5. EntriesAreMade'
  BY <1>2 DEF AnswerBase, EntriesAreMade, Many, Numbers, Nth, Entries
<1>6. loop.kind # "async" => Many(loop.to)
  BY <1>2 DEF HInv, HandsInvariant, Others, OthersAreApart, InLoop
<1>7. \A p \in Promises : Many(p) => \A i \in Numbers(p) :
        Nth(p, i) \in Promises => Nth(p, i) \in Made /\ Nth(p, i) # p
  BY DEF AnswerBase, EntriesAreMade
<1>8. loop.kind # "async" => \A i \in DOMAIN loop.entries : loop.entries[i] \in Promises =>
        loop.entries[i] \in Made /\ OutcomeKept(loop.entries[i])
  <2>1. loop.kind # "async" => asked[loop.to].entries = loop.entries
    BY <1>2 DEF AnswerBase, LoopIsFor, InLoop
  <2>2. loop.kind # "async" => \A i \in DOMAIN loop.entries : loop.entries[i] \in Promises =>
          loop.entries[i] \in Made /\ loop.entries[i] # loop.to
    BY <1>2, <1>6, <1>7, <2>1 DEF Numbers, Nth, Entries
  <2> QED
    BY <1>1, <2>2 DEF Touches
<1>9. LoopIsFor'
  <2>1. /\ loop'.kind = loop.kind /\ loop'.to = loop.to /\ loop'.entries = loop.entries /\ loop # None
    BY <1>2 DEF LoopGoesOn
  <2>2. loop.kind # "async" =>
          /\ asked[loop.to].kind = loop.kind /\ asked[loop.to].entries = loop.entries
          /\ \A i \in DOMAIN loop.entries : loop.entries[i] \in Promises /\ Settled(loop.entries[i]) =>
               \E n \in DOMAIN order : order[n] = loop.entries[i] /\ n <= asked[loop.to].since
    BY <2>1 DEF AnswerBase, LoopIsFor
  <2>3. \A q \in Promises : OutcomeKept(q) => (state'[q] \in {"fulfilled", "rejected"} <=> Settled(q))
    BY DEF OutcomeKept, Settled
  <2>4. loop.kind # "async" =>
          \A i \in DOMAIN loop.entries : loop.entries[i] \in Promises /\ state'[loop.entries[i]] \in {"fulfilled", "rejected"} =>
               \E n \in DOMAIN order' : order'[n] = loop.entries[i] /\ n <= asked[loop.to].since
    BY <1>3, <1>8, <2>2, <2>3
  <2> QED
    BY <1>2, <2>1, <2>2, <2>4 DEF LoopIsFor, Settled
<1>10. InnerIsFor'
  <2>1. TypeOK
    BY DEF HInv, IInv
  <2>2. CASE SettledEntry \/ WaitForEntry
    <3>1. loop'.inner = None
      BY <1>2, <2>2 DEF SettledEntry, WaitForEntry, NextEntry, Loop
    <3> QED
      BY <3>1 DEF InnerIsFor
  <2>3. CASE OwnEntry
    <3>1. /\ loop'.inner = Entry /\ loop'.i = loop.i /\ loop'.entries = loop.entries
          /\ loop'.kind = "race" /\ Entry \in Promises /\ Entry \notin Plain
      BY <1>2, <2>3 DEF OwnEntry, Loop
    <3>2. Entry' = Entry /\ InLoop'
      BY <1>2, <3>1 DEF Entry, InLoop, LoopGoesOn
    <3> QED
      BY <3>1, <3>2 DEF InnerIsFor
  <2>4. CASE WrapEntry
    <3>1. PICK q \in Promises \ Made : q = Fresh /\ Made' = Made \cup {q}
      BY <2>1, <2>4, FreshIsAdded DEF WrapEntry
    <3>2. /\ loop'.inner = q /\ loop'.i = loop.i /\ loop'.entries = loop.entries /\ loop'.kind = loop.kind
      BY <1>2, <2>4, <3>1 DEF WrapEntry, Loop
    <3>3. Entry' = Entry /\ InLoop' /\ Entry \in Values
      BY <1>2, <2>1, <3>2, EntryOfLoop DEF Entry, InLoop, LoopGoesOn
    <3>4. DOMAIN meant = Promises /\ open \subseteq Made
      BY DEF HInv, HandsInvariant, Others, OthersAreMade, HistoryIsTyped
    <3>5. q \notin open' /\ q \notin again' /\ meant'[q] = <<"fulfilled", Entry>>
      BY <1>2, <2>4, <3>1, <3>4 DEF WrapEntry, AnswerBase, AskedIsTyped
    <3>6. loop.kind # "async" => \A j \in DOMAIN loop.entries : loop.entries[j] # q
      BY <1>8, <3>1
    <3>7. loop.kind # "async" => Entry # q
      BY <2>1, <1>2, <3>6, EntryOfLoop DEF Entry
    <3>8. loop.kind = "all" => (Entry \in Promises /\ Pending(Entry)') \/ Entry \in Thenables
      <4>1. Entry \in Promises => loop.i \in DOMAIN loop.entries /\ Entry = loop.entries[loop.i]
        BY <1>2, <2>1, EntryOfLoop DEF Entry
      <4>2. loop.kind = "all" /\ Entry \in Promises => OutcomeKept(Entry)
        BY <1>8, <4>1
      <4> QED
        BY <2>4, <3>3, <4>2 DEF WrapEntry, OutcomeKept, Pending
    <3>9. loop.kind = "race" => Entry \notin Promises
      BY <1>2, <2>4 DEF WrapEntry
    <3>10. Entry \in Plain => SettledAs(q, Entry)'
      <4> SUFFICES ASSUME Entry \in Plain PROVE SettledAs(q, Entry)'
        OBVIOUS
      <4>1. PICK e \in Plain : e = Entry
        OBVIOUS
      <4>2. e \notin Promises \cup Broken \cup Thenables /\ Resolve(q, e) /\ q # e
        BY <2>4, <3>1, <4>1, PlainAssumption DEF WrapEntry
      <4>3. Settle(q, "fulfilled", e)
        BY <4>2 DEF Resolve, Fulfill
      <4>4. Pending(q)
        BY <3>1, NewIsPending
      <4>5. state'[q] = "fulfilled" /\ result'[q] = e
        BY <2>1, <4>3, <4>4 DEF Settle, TypeOK
      <4>6. SettledAs(q, e)'
        BY <4>2, <4>5 DEF SettledAs, Settled, Outcome, Value
      <4> QED
        BY <3>3, <4>1, <4>6
    <3> QED
      BY <3>2, <3>3, <3>5, <3>6, <3>7, <3>8, <3>9, <3>10 DEF InnerIsFor, MadeFor
  <2> QED
    BY <2>2, <2>3, <2>4 DEF LoopStep
<1> QED
  BY <1>3, <1>4, <1>5, <1>9, <1>10 DEF AnswerBase

LEMMA OtherStepKeepsBase ==
  ASSUME HInv, AnswerBase, Moves, EndLoop \/ Between, DOMAIN array' = Promises,
         order' \in Seq(Promises), Made \subseteq Made'
  PROVE  AnswerBase'
<1>1. /\ PendingAreEmpty' /\ OrderIsOnce' /\ Len(order) <= Len(order') /\ Len(order) \in Nat /\ Len(order') \in Nat
  BY MovesKeepOrder DEF AnswerBase, AskedIsTyped
<1>2. asked' = asked /\ again' \subseteq again \cup Made /\ (loop' # None => loop'.kind = "async")
  BY DEF EndLoop, Between, history
<1>3. AskedIsTyped'
  <2>1. \A p \in Promises : asked[p] # None => asked[p].since \in Nat
    BY DEF AnswerBase, AskedIsTyped, Question
  <2>2. \A p \in Promises : asked[p] # None => asked[p].since <= Len(order')
    BY <1>1, <2>1 DEF AnswerBase, AskedIsTyped
  <2> QED
    BY <1>2, <2>2 DEF AnswerBase, AskedIsTyped
<1>4. EntriesAreMade'
  BY <1>2 DEF AnswerBase, EntriesAreMade, Many, Numbers, Nth, Entries
<1>5. LoopIsFor' /\ InnerIsFor'
  BY <1>2 DEF LoopIsFor, InnerIsFor
<1> QED
  BY <1>1, <1>3, <1>4, <1>5 DEF AnswerBase

LEMMA BeginKeepsBase ==
  ASSUME HInv, AnswerBase, Moves, NEW kind \in {"all", "race", "async"}, NEW entries \in Seq(Values),
         Begins(kind, entries), DOMAIN array' = Promises
  PROVE  AnswerBase'
<1>1. PICK p \in Promises \ Made :
        /\ Made' = Made \cup {p}
        /\ loop' = [kind |-> kind, to |-> p, entries |-> entries, i |-> 1, inner |-> None]
        /\ asked' = [asked EXCEPT ![p] = [kind |-> kind, entries |-> entries, since |-> Len(order)]]
        /\ [kind |-> kind, entries |-> entries, since |-> Len(order)] \in Question
        /\ UNCHANGED <<core, order, again>>
        /\ \A i \in DOMAIN entries : entries[i] \in Promises => entries[i] \in Made
  <2>1. IInv /\ Begin(kind, entries) /\ order \in Seq(Promises) /\ DOMAIN asked = Promises
        /\ \A i \in DOMAIN entries : entries[i] \in Given
    BY DEF HInv, AnswerBase, AskedIsTyped, Begins
  <2> QED
    BY <2>1, BeginsWith
<1>2. /\ UNCHANGED <<state, result, order, again>> /\ Made \subseteq Made' /\ None \notin Question
      /\ order \in Seq(Promises) /\ asked \in [Promises -> Question \cup {None}]
  BY <1>1 DEF core, AnswerBase, AskedIsTyped
<1>3. PendingAreEmpty' /\ OrderIsOnce'
  BY <1>2 DEF AnswerBase, PendingAreEmpty, OrderIsOnce, Pending, Settled
<1>4. /\ asked'[p] = [kind |-> kind, entries |-> entries, since |-> Len(order)]
      /\ \A q \in Promises : q # p => asked'[q] = asked[q]
  BY <1>1, <1>2
<1>5. AskedIsTyped'
  <2>1. asked' \in [Promises -> Question \cup {None}]
    BY <1>1, <1>2
  <2>2. asked'[p].since <= Len(order)
    BY <1>2, <1>4
  <2>3. \A q \in Promises : asked'[q] # None => asked'[q].since <= Len(order)
    BY <1>4, <2>2 DEF AnswerBase, AskedIsTyped
  <2> QED
    BY <1>2, <2>1, <2>3 DEF AnswerBase, AskedIsTyped
<1>6. EntriesAreMade'
  <2>1. \A i \in DOMAIN entries : entries[i] \in Promises => entries[i] \in Made' /\ entries[i] # p
    BY <1>1
  <2>2. \A q \in Promises : asked[q] # None /\ asked[q].kind \in {"all", "race"} =>
          \A i \in DOMAIN asked[q].entries :
            asked[q].entries[i] # q /\ (asked[q].entries[i] \in Promises => asked[q].entries[i] \in Made')
    BY <1>2 DEF AnswerBase, EntriesAreMade, Many, Numbers, Nth, Entries
  <2>3. \A i \in DOMAIN entries : entries[i] # p
    BY <2>1
  <2> QED
    BY <1>4, <2>1, <2>2, <2>3 DEF EntriesAreMade, Many, Numbers, Nth, Entries
<1>7. LoopIsFor'
  <2>1. loop'.kind = kind /\ loop'.to = p /\ loop'.entries = entries
    BY <1>1
  <2>2. \A q \in Promises : Settled(q) => \E n \in DOMAIN order : order[n] = q /\ n <= Len(order)
    BY <1>2 DEF AnswerBase, OrderIsOnce
  <2>3. \A i \in DOMAIN entries : entries[i] \in Promises /\ state'[entries[i]] \in {"fulfilled", "rejected"} =>
          \E n \in DOMAIN order' : order'[n] = entries[i] /\ n <= Len(order)
    BY <1>2, <2>2 DEF Settled
  <2> QED
    BY <1>4, <2>1, <2>3 DEF LoopIsFor, Settled
<1>8. InnerIsFor'
  BY <1>1 DEF InnerIsFor
<1> QED
  BY <1>3, <1>5, <1>6, <1>7, <1>8 DEF AnswerBase

LEMMA BaseAtStart ==
  ASSUME Init
  PROVE  AnswerBase
<1>1. /\ order = <<>> /\ again = {} /\ loop = None
      /\ asked \in [Promises -> Question \cup {None}] /\ DOMAIN array = Promises
      /\ \A p \in Promises : Pending(p) /\ ~Settled(p) /\ result[p] = None /\ asked[p] = None
  BY DEF Init, NoPromise, Pending, Settled
<1>2. DOMAIN order = {} /\ order \in Seq(Promises)
  BY <1>1
<1> QED
  BY <1>1, <1>2 DEF AnswerBase, PendingAreEmpty, OrderIsOnce, AskedIsTyped, EntriesAreMade, LoopIsFor,
     InnerIsFor, Many

\* Promises stay made.
LEMMA MadeStay ==
  ASSUME IInv, Next
  PROVE  Made \subseteq Made'
<1>1. TypeOK
  BY DEF IInv
<1>2. made' = made \/ \E p \in Promises : made' = Append(made, p)
  <2>1. CanMake => Fresh \in Promises
    <3>1. CanMake => \E p \in Promises \ Made : TRUE
      BY <1>1, GivenAreValues DEF CanMake
    <3> QED
      BY <3>1 DEF Fresh
  <2>2. \A kind \in {"all", "race", "async"}, entries \in Seq(Values) : Begin(kind, entries) => CanMake
    <3> SUFFICES ASSUME NEW kind, NEW entries \in Seq(Values), Begin(kind, entries), Made = Promises
                 PROVE  FALSE
      BY DEF CanMake
    <3>1. Promises \ Made = {}
      OBVIOUS
    <3>2. Cardinality(Promises \ Made) = 0
      BY <3>1, FS_EmptySet
    <3>3. Len(entries) \in Nat
      OBVIOUS
    <3> QED
      BY <3>2, <3>3 DEF Begin
  <2>3. \A v, w \in Given : <<v, w>> \in Seq(Values) /\ <<v>> \in Seq(Values) /\ << >> \in Seq(Values)
    BY <1>1, GivenAreValues
  <2>4. << >> \in Seq(Values)
    OBVIOUS
  <2>5. CASE NewPromise \/ \E p \in Made, f, r \in BOOLEAN : Then(p, f, r)
    BY <2>1, <2>5 DEF NewPromise, Then, NowMade
  <2>6. CASE \/ \E p \in open, v \in Given : ResolvePromise(p, v)
             \/ \E p \in open, v \in setup.values : RejectPromise(p, v)
             \/ \E v \in Given : AwaitAgain(v)
             \/ \E k \in DOMAIN adoptions, v \in Given, outcome \in {"fulfilled", "rejected"} :
                  ThenableCalls(k, outcome, v)
    BY <2>6 DEF ResolvePromise, RejectPromise, AwaitAgain, ThenableCalls
  <2>7. CASE \/ \E kind \in {"all", "race"}, v, w \in Given : Begin(kind, <<v, w>>)
             \/ \E kind \in {"all", "race"} : Begin(kind, <<>>)
             \/ \E v \in Given : Begin("async", <<v>>)
    <3>1. PICK kind \in {"all", "race", "async"}, entries \in Seq(Values) : Begin(kind, entries)
      BY <2>3, <2>4, <2>7
    <3>2. Fresh \in Promises
      BY <2>1, <2>2, <3>1
    <3> QED
      BY <3>1, <3>2 DEF Begin, NowMade
  <2>8. CASE Library
    BY <2>1, <2>8 DEF Library, SettledEntry, OwnEntry, WrapEntry, WaitForEntry, EndLoop, StartFlush, EndFlush,
       PublishNext, EndPublish, InvokeNext, ThenableNext, Return, Throw, NowMade
  <2> QED
    BY <2>5, <2>6, <2>7, <2>8 DEF Next, Page
<1>3. made \in Seq(Promises)
  BY <1>1 DEF TypeOK
<1> QED
  BY <1>2, <1>3 DEF Made

LEMMA BaseKept ==
  ASSUME HInv, AnswerBase, Next, order' \in Seq(Promises)
  PROVE  AnswerBase' /\ Moves /\ Made \subseteq Made'
<1>1. Moves
  BY PageMoves, LibraryMoves DEF Next, HInv
<1>2. DOMAIN array' = Promises /\ Made \subseteq Made'
  BY ArraysStay, MadeStay DEF HInv, AnswerBase, AskedIsTyped
<1> QED
  BY <1>1, <1>2, StepKinds, LoopKeepsBase, OtherStepKeepsBase, BeginKeepsBase

BaseInv == HInv /\ AnswerBase

THEOREM BaseHolds == Spec => []BaseInv
<1>1. Init => AnswerBase
  BY BaseAtStart
<1>2. HInv /\ AnswerBase /\ (order \in Seq(Promises))' /\ [Next]_vars => AnswerBase'
  <2> SUFFICES ASSUME HInv, AnswerBase, order' \in Seq(Promises), [Next]_vars PROVE AnswerBase'
    OBVIOUS
  <2>1. CASE Next
    BY <2>1, BaseKept
  <2>2. CASE UNCHANGED vars
    <3>1. UNCHANGED <<state, result, order, asked, again, array, loop, open, meant, made>>
      BY <2>2 DEF vars, core, others, history
    <3>2. PendingAreEmpty' /\ OrderIsOnce' /\ AskedIsTyped' /\ EntriesAreMade'
      BY <3>1 DEF AnswerBase, PendingAreEmpty, OrderIsOnce, AskedIsTyped, EntriesAreMade, Pending, Settled,
         Many, Numbers, Nth, Entries, Made
    <3>3. LoopIsFor'
      BY <3>1 DEF AnswerBase, LoopIsFor, Settled
    <3>4. InnerIsFor'
      BY <3>1 DEF AnswerBase, InnerIsFor, InLoop, Entry, MadeFor, SettledAs, Settled, Pending, Outcome, Value
    <3> QED
      BY <3>2, <3>3, <3>4 DEF AnswerBase
  <2> QED
    BY <2>1, <2>2
<1> QED
  BY <1>1, <1>2, Invariant, InOneHand, OrderTyped, PTL DEF Spec, BaseInv, HInv

-----------------------------------------------------------------------------
(* Who is heard after a step. *)

HeardSame(p, i) ==
  /\ \A q \in Promises : \A m : HeardFrom(q, m, p, i)' <=> HeardFrom(q, m, p, i)
  /\ \A k : HeardIn(k, p, i)' <=> HeardIn(k, p, i)

\* The one whose turn it is was heard; the others will be.
HeardButOne(p, i) ==
  /\ \A q \in Promises : \A m :
       HeardFrom(q, m, p, i)' <=> HeardFrom(q, m, p, i) /\ ~(queue[at] = Publish(q) /\ m = pos)
  /\ \A k : HeardIn(k, p, i)' <=> HeardIn(k, p, i) /\ k # at

\* No callback takes its turn.
NoTurn ==
  \/ UNCHANGED <<at, pos, running>>
  \/ running # None /\ running' = None /\ Advance

LEMMA NoTurnHeard ==
  ASSUME IInv, Effect, NoTurn, NEW p \in Promises, SubsKept(p), JobsKept(p), NEW i
  PROVE  HeardSame(p, i)
<1>1. TypeOK /\ TurnOK /\ QueueGrows /\ PromisesGrow
  BY EffectGrows DEF IInv
<1>2. TurnsKept /\ NoTurnTaken
  BY NoTurns, TurnEnds DEF NoTurn
<1>3. \A k \in DOMAIN queue : queue[k].type = "invoke" => (EntryHadTurn(k)' <=> EntryHadTurn(k))
  <2>1. CASE UNCHANGED <<at, pos, running>>
    BY <2>1 DEF EntryHadTurn
  <2>2. CASE running # None /\ running' = None /\ Advance
    <3>1. at \in Nat /\ \A k \in DOMAIN queue : k \in Nat
      BY <1>1 DEF TypeOK
    <3> QED
      BY <2>2, <3>1 DEF Advance, EntryHadTurn
  <2> QED
    BY <2>1, <2>2 DEF NoTurn
<1>4. ASSUME NEW q \in Promises, NEW m PROVE HeardFrom(q, m, p, i)' <=> HeardFrom(q, m, p, i)
  <2>1. HeardFrom(q, m, p, i) => HeardFrom(q, m, p, i)'
    BY <1>1, <1>2 DEF HeardFrom, PromisesGrow, NoTurnTaken
  <2>2. HeardFrom(q, m, p, i)' => HeardFrom(q, m, p, i)
    BY <1>2 DEF HeardFrom, SubsKept, TurnsKept
  <2> QED
    BY <2>1, <2>2
<1>5. ASSUME NEW k PROVE HeardIn(k, p, i)' <=> HeardIn(k, p, i)
  <2>1. HeardIn(k, p, i) => HeardIn(k, p, i)'
    BY <1>1, <1>3 DEF HeardIn, QueueGrows
  <2>2. HeardIn(k, p, i)' => HeardIn(k, p, i)
    BY <1>3 DEF HeardIn, JobsKept, Serves
  <2> QED
    BY <2>1, <2>2
<1> QED
  BY <1>4, <1>5 DEF HeardSame

LEMMA TurnHeard ==
  ASSUME IInv, Effect, PassesTurn, running = None, NEW p \in Promises, SubsKept(p), JobsKept(p), NEW i
  PROVE  HeardButOne(p, i)
<1>1. TypeOK /\ TurnOK /\ QueueGrows /\ PromisesGrow
  BY EffectGrows DEF IInv
<1>2. /\ at \in Nat /\ pos \in Nat /\ at \in DOMAIN queue
      /\ \A k \in DOMAIN queue : k \in Nat
      /\ \A q \in Promises : \A m \in DOMAIN subscribers[q] : m \in Nat
  BY <1>1 DEF TypeOK, PassesTurn
<1>3. /\ TurnsKept
      /\ \A q \in Promises : \A m \in DOMAIN subscribers[q] :
           SubscriberHadTurn(q, m)' => SubscriberHadTurn(q, m) \/ (queue[at] = Publish(q) /\ m = pos)
      /\ \A q \in Promises, n \in Nat : queue[at] = Publish(q) /\ n = pos => SubscriberHadTurn(q, n)'
  BY <1>2, TurnsPass
<1>4. \A k \in DOMAIN queue : queue[k].type = "invoke" =>
        (EntryHadTurn(k)' <=> EntryHadTurn(k) \/ k = at)
  <2>1. CASE Stays /\ running' # None
    BY <1>2, <2>1 DEF Stays, EntryHadTurn
  <2>2. CASE Advance /\ running' = None
    BY <1>2, <2>2 DEF Advance, EntryHadTurn
  <2> QED
    BY <2>1, <2>2 DEF PassesTurn
<1>5. ASSUME NEW q \in Promises, NEW m
      PROVE  HeardFrom(q, m, p, i)' <=> HeardFrom(q, m, p, i) /\ ~(queue[at] = Publish(q) /\ m = pos)
  <2>1. HeardFrom(q, m, p, i) /\ ~(queue[at] = Publish(q) /\ m = pos) => HeardFrom(q, m, p, i)'
    BY <1>1, <1>3 DEF HeardFrom, PromisesGrow
  <2>2. HeardFrom(q, m, p, i)' => HeardFrom(q, m, p, i)
    BY <1>3 DEF HeardFrom, SubsKept, TurnsKept
  <2>3. HeardFrom(q, m, p, i)' => ~(queue[at] = Publish(q) /\ m = pos)
    BY <1>2, <1>3 DEF HeardFrom
  <2> QED
    BY <2>1, <2>2, <2>3
<1>6. ASSUME NEW k PROVE HeardIn(k, p, i)' <=> HeardIn(k, p, i) /\ k # at
  <2>1. HeardIn(k, p, i) /\ k # at => HeardIn(k, p, i)'
    BY <1>1, <1>4 DEF HeardIn, QueueGrows
  <2>2. HeardIn(k, p, i)' => HeardIn(k, p, i) /\ k # at
    BY <1>4 DEF HeardIn, JobsKept, Serves
  <2> QED
    BY <2>1, <2>2
<1> QED
  BY <1>5, <1>6 DEF HeardButOne

\* The steps of flush() itself.
LEMMA FlushHeard ==
  ASSUME IInv, StartFlush \/ EndFlush \/ EndPublish, NEW p \in Promises, NEW i
  PROVE  HeardSame(p, i) /\ SubsKept(p) /\ JobsKept(p) /\ OutcomeKept(p)
<1>1. TypeOK /\ TurnOK
  BY DEF IInv
<1>2. /\ at \in Nat /\ pos \in Nat /\ Len(queue) \in Nat /\ subscribers \in [Promises -> Seq(Subscriber)]
      /\ \A k \in DOMAIN queue : k \in Nat /\ k >= 1 /\ k <= Len(queue)
      /\ \A q \in Promises : \A m \in DOMAIN subscribers[q] : m \in Nat /\ m >= 1 /\ m <= Len(subscribers[q])
  BY <1>1 DEF TypeOK
<1>3. CASE StartFlush
  <2>1. /\ UNCHANGED <<core, queue, pos, running>> /\ at = 0 /\ at' = 1
    BY <1>3 DEF StartFlush
  <2>2. pos = 1 /\ running = None /\ at \notin DOMAIN queue
    BY <1>1, <1>2, <2>1 DEF TurnOK
  <2>3. \A q \in Promises : \A m \in DOMAIN subscribers[q] :
          ~SubscriberHadTurn(q, m)' /\ ~SubscriberHadTurn(q, m)
    BY <1>2, <2>1, <2>2 DEF SubscriberHadTurn
  <2>4. \A k \in DOMAIN queue : ~EntryHadTurn(k)' /\ ~EntryHadTurn(k)
    BY <1>2, <2>1, <2>2 DEF EntryHadTurn
  <2> QED
    BY <2>1, <2>3, <2>4 DEF HeardSame, HeardFrom, HeardIn, SubsKept, JobsKept, OutcomeKept, core
<1>4. CASE EndFlush
  <2>1. /\ UNCHANGED <<core, pos, running>> /\ at > Len(queue) /\ queue' = <<>> /\ running = None
    BY <1>4 DEF EndFlush
  <2>2. at \notin DOMAIN queue /\ DOMAIN queue' = {}
    BY <1>2, <2>1
  <2>3. \A q \in Promises : \A m : ~SubscriberHadTurn(q, m)' /\ ~SubscriberHadTurn(q, m)
    BY <2>2 DEF SubscriberHadTurn
  <2>4. \A k \in DOMAIN queue : EntryHadTurn(k)
    BY <1>2, <2>1 DEF EntryHadTurn
  <2> QED
    BY <2>1, <2>2, <2>3, <2>4 DEF HeardSame, HeardFrom, HeardIn, SubsKept, JobsKept, OutcomeKept, core
<1>5. CASE EndPublish
  <2>1. /\ UNCHANGED <<state, result, queue, running>>
        /\ at \in DOMAIN queue /\ queue[at] \in Jobs /\ queue[at].type = "publish"
        /\ pos > Len(subscribers[queue[at].promise])
        /\ subscribers' = [subscribers EXCEPT ![queue[at].promise] = <<>>]
        /\ at' = at + 1 /\ pos' = 1 /\ running = None
    BY <1>1, <1>5 DEF EndPublish, FlushRuns, Job, queueV, TypeOK
  <2>2. PICK r \in Promises : queue[at].promise = r /\ queue[at] = Publish(r)
    BY <2>1, PublishingJob
  <2>3. /\ DOMAIN subscribers'[r] = {} /\ \A q \in Promises \ {r} : subscribers'[q] = subscribers[q]
    BY <1>2, <2>1, <2>2
  <2>4. \A m \in DOMAIN subscribers[r] : SubscriberHadTurn(r, m)
    BY <1>2, <2>1, <2>2 DEF SubscriberHadTurn
  <2>5. \A q \in Promises \ {r} : \A m : ~SubscriberHadTurn(q, m)
    BY <2>2, PublishIsJob DEF SubscriberHadTurn
  <2>6. \A q \in Promises \ {r} : \A m \in DOMAIN subscribers[q] : ~SubscriberHadTurn(q, m)'
    BY <1>2, <2>1 DEF SubscriberHadTurn
  <2>7. \A k \in DOMAIN queue : queue[k].type = "invoke" => (EntryHadTurn(k)' <=> EntryHadTurn(k))
    BY <1>2, <2>1 DEF EntryHadTurn
  <2>8. ASSUME NEW q \in Promises, NEW m PROVE HeardFrom(q, m, p, i)' <=> HeardFrom(q, m, p, i)
    <3>1. CASE q = r
      BY <2>3, <2>4, <3>1 DEF HeardFrom
    <3>2. CASE q # r
      BY <2>3, <2>5, <2>6, <3>2 DEF HeardFrom
    <3> QED
      BY <3>1, <3>2
  <2>9. SubsKept(p)
    BY <2>3 DEF SubsKept
  <2> QED
    BY <2>1, <2>7, <2>8, <2>9 DEF HeardSame, HeardIn, JobsKept, OutcomeKept
<1> QED
  BY <1>3, <1>4, <1>5

-----------------------------------------------------------------------------
(* What a step does to the promise p of all() or race(). *)

LoopFor(p) == loop # None /\ loop.to = p

\* Nobody acts for p.
Kept(p) ==
  /\ SubsKept(p) /\ JobsKept(p) /\ OutcomeKept(p)
  /\ array'[p] = array[p] /\ remaining'[p] = remaining[p]

\* The subscriber or the callback s of q has its turn.
TurnIs(s, q) ==
  /\ Call(s, q) /\ Settled(q)
  /\ \/ queue[at] = Publish(q) /\ pos \in DOMAIN subscribers[q] /\ s = subscribers[q][pos]
     \/ queue[at].type = "invoke" /\ queue[at].subscriber = s /\ queue[at].promise = q
  /\ \A r \in Promises : queue[at] = Publish(r) => queue[at].type = "publish" /\ r = q
  /\ at \in DOMAIN queue /\ running = None /\ loop = None /\ loop' = None
  /\ Effect /\ PassesTurn

StepOf(p) ==
  \/ StartFlush \/ EndFlush \/ EndPublish
  \/ Effect /\ NoTurn /\ Kept(p)
  \/ Effect /\ NoTurn /\ LoopFor(p) /\ (SettledEntry \/ WaitForEntry \/ EndLoop)
  \/ Effect /\ PassesTurn /\ running = None /\ Kept(p) /\ queue[at].type = "thenable"
  \/ \E s \in Subscriber, q \in Promises : TurnIs(s, q) /\ (s.to = p \/ Kept(p))

LEMMA TouchesNot ==
  ASSUME NEW p \in Promises, NEW c \in Promises, c # p, Touches(c),
         array'[p] = array[p] /\ remaining'[p] = remaining[p]
  PROVE  Kept(p)
BY DEF Touches, Kept

LEMMA CoreStays ==
  ASSUME UNCHANGED <<core, queueV>>, NEW p \in Promises,
         array'[p] = array[p] /\ remaining'[p] = remaining[p]
  PROVE  Effect /\ Kept(p)
BY NoEffect DEF Kept, SubsKept, JobsKept, OutcomeKept, core, queueV

LEMMA ManyIsApart ==
  ASSUME HInv, NEW p \in Promises, Many(p)
  PROVE  p \in Made /\ p \notin open /\ (running # None /\ OfFunction(running) => running.to # p)
BY DEF HInv, HandsInvariant, Others, OthersAreMade, OthersAreApart, Many

LEMMA PageIs ==
  ASSUME HInv, AnswerBase, Page, NEW p \in Promises, Many(p), NoObjectTells(p)
  PROVE  Effect /\ NoTurn /\ Kept(p)
<1>1. /\ TypeOK /\ IInv /\ NoPromiseIsValue /\ open \subseteq Promises /\ Made \subseteq Promises
      /\ Given \subseteq Values /\ setup.values \subseteq Values
      /\ \A k \in DOMAIN adoptions : adoptions[k].promise \in Promises
      /\ p \in Made /\ p \notin open
  <2>1. open \subseteq Promises /\ (\A k \in DOMAIN adoptions : adoptions[k] \in Adoption) /\ TypeOK /\ IInv
    BY DEF HInv, IInv, TypeOK
  <2> QED
    BY <2>1, GivenAreValues, ManyIsApart DEF Adoption, HInv, HandsInvariant
<1>2. CASE NewPromise \/ \E v \in Given : AwaitAgain(v)
  <2>1. UNCHANGED <<core, queueV, array, remaining, at, pos, running>>
    BY <1>2 DEF NewPromise, AwaitAgain, others, flushV
  <2> QED
    BY <2>1, CoreStays DEF NoTurn
<1>3. CASE \E p0 \in open, v \in Given : ResolvePromise(p0, v)
  <2>1. PICK c \in open, v \in Given : ResolvePromise(c, v)
    BY <1>3
  <2>2. Effect /\ Touches(c) /\ c # p
    BY <1>1, <2>1, ResolvePasses, ResolveHasEffect DEF ResolvePromise
  <2> QED
    BY <1>1, <2>1, <2>2, TouchesNot DEF ResolvePromise, others, flushV, NoTurn
<1>4. CASE \E p0 \in open, v \in setup.values : RejectPromise(p0, v)
  <2>1. PICK c \in open, v \in setup.values : RejectPromise(c, v)
    BY <1>4
  <2>2. Effect /\ Touches(c) /\ c # p
    BY <1>1, <2>1, SettlePasses, SettleHasEffect DEF RejectPromise, Reject
  <2> QED
    BY <1>1, <2>1, <2>2, TouchesNot DEF RejectPromise, others, flushV, NoTurn
<1>5. CASE \E p0 \in Made, f, r \in BOOLEAN : Then(p0, f, r)
  <2>1. PICK q \in Made, f \in BOOLEAN, r \in BOOLEAN : Then(q, f, r)
    BY <1>5
  <2>2. PICK c \in Promises \ Made : c = Fresh
    BY <1>1, <2>1, FreshIsNew DEF Then
  <2>3. PICK s \in Subscriber : s.to = c /\ ThenDo(q, s)
    BY <2>1, <2>2 DEF Then, Subscriber, Kinds
  <2>4. Effect /\ Touches(c) /\ c # p
    BY <1>1, <2>2, <2>3, ThenDoPasses, ThenHasEffect
  <2> QED
    BY <2>1, <2>2, <2>4, TouchesNot DEF Then, others, flushV, NoTurn
<1>6. CASE \/ \E kind \in {"all", "race"}, v, w \in Given : Begin(kind, <<v, w>>)
           \/ \E kind \in {"all", "race"} : Begin(kind, <<>>)
           \/ \E v \in Given : Begin("async", <<v>>)
  <2>1. \A v, w \in Given : <<v, w>> \in Seq(Values) /\ <<v>> \in Seq(Values)
        /\ (\A i \in DOMAIN <<v, w>> : <<v, w>>[i] \in Given) /\ (\A i \in DOMAIN <<v>> : <<v>>[i] \in Given)
    BY <1>1
  <2>2. << >> \in Seq(Values) /\ \A i \in DOMAIN << >> : << >>[i] \in Given
    OBVIOUS
  <2>3. PICK kind \in {"all", "race", "async"}, entries \in Seq(Values) :
          Begin(kind, entries) /\ \A i \in DOMAIN entries : entries[i] \in Given
    BY <1>6, <2>1, <2>2
  <2>4. PICK c \in Promises \ Made :
          /\ remaining' = [remaining EXCEPT ![c] = Len(entries)]
          /\ array' = [array EXCEPT ![c] = [i \in DOMAIN entries |-> None]]
          /\ UNCHANGED <<core, queueV, at, pos, running>>
    <3>1. Begins(kind, entries)
      BY <2>3 DEF Begins
    <3>2. PICK c \in Promises \ Made : BeginsFor(c, kind, entries)
      BY <3>1, BeginsIs
    <3> QED
      BY <3>2 DEF BeginsFor
  <2>5. remaining'[p] = remaining[p] /\ array'[p] = array[p]
    BY <1>1, <2>4
  <2> QED
    BY <2>4, <2>5, CoreStays DEF NoTurn
<1>7. CASE \E k \in DOMAIN adoptions, v \in Given, outcome \in {"fulfilled", "rejected"} :
             ThenableCalls(k, outcome, v)
  <2>1. PICK k \in DOMAIN adoptions, v \in Given, outcome \in {"fulfilled", "rejected"} :
          ThenableCalls(k, outcome, v)
    BY <1>7
  <2>2. PICK c \in Promises : c = adoptions[k].promise /\ c # p
    BY <1>1, <2>1 DEF NoObjectTells
  <2>3. UNCHANGED <<array, remaining, at, pos, running>>
    BY <2>1 DEF ThenableCalls, flushV
  <2>4. CASE UNCHANGED <<core, order, queueV>>
    BY <2>3, <2>4, CoreStays DEF NoTurn
  <2>5. CASE Settle(c, "rejected", v) \/ Settle(c, "fulfilled", v) \/ Resolve(c, v)
    <3>1. Effect /\ Touches(c)
      BY <1>1, <2>5, SettlePasses, SettleHasEffect, ResolvePasses, ResolveHasEffect
    <3> QED
      BY <2>2, <2>3, <3>1, TouchesNot DEF NoTurn
  <2> QED
    BY <2>1, <2>2, <2>4, <2>5 DEF ThenableCalls, Reject, Fulfill
<1> QED
  BY <1>2, <1>3, <1>4, <1>5, <1>6, <1>7 DEF Page

LEMMA SettledAtLeaves ==
  ASSUME TypeOK, DOMAIN array = Promises, NEW c \in Promises, NEW p \in Promises, c # p,
         NEW i, NEW outcome, NEW v, SettledAt(c, i, outcome, v)
  PROVE  array'[p] = array[p] /\ remaining'[p] = remaining[p]
BY DEF SettledAt, TypeOK

LEMMA LoopStepIs ==
  ASSUME HInv, AnswerBase, LoopStep \/ EndLoop, NEW p \in Promises, Many(p)
  PROVE  StepOf(p)
<1>1. TypeOK /\ IInv /\ NoPromiseIsValue /\ p \in Made
  BY ManyIsApart DEF HInv, IInv, HandsInvariant
<1>2. CASE SettledEntry
  <2>1. InLoop /\ loop \in Loop /\ loop.to \in Promises /\ loop.i \in Nat /\ Entry \in Values
    BY <1>1, <1>2, EntryOfLoop DEF SettledEntry
  <2>2. PICK c \in Promises : c = loop.to
    BY <2>1
  <2>3. Effect /\ Touches(c)
    <3>1. CASE Entry \in Promises /\ Settled(Entry) /\ SettledAt(c, loop.i, state[Entry], result[Entry])
      <4>1. state[Entry] \in {"fulfilled", "rejected"} /\ result[Entry] \in Values \cup {None}
        BY <1>1, <3>1 DEF Settled, TypeOK
      <4> QED
        BY <1>1, <2>1, <3>1, <4>1, SettledAtPasses
    <3>2. CASE UNCHANGED <<core, order, queueV>>
      BY <3>2, NoEffect DEF Touches, SubsKept, JobsKept, OutcomeKept, core, queueV
    <3> QED
      BY <1>2, <2>2, <3>1, <3>2 DEF SettledEntry
  <2>4. c # p => array'[p] = array[p] /\ remaining'[p] = remaining[p]
    <3>1. DOMAIN array = Promises
      BY DEF AnswerBase, AskedIsTyped
    <3>2. CASE SettledAt(c, loop.i, state[Entry], result[Entry])
      BY <1>1, <3>1, <3>2, SettledAtLeaves
    <3>3. CASE /\ remaining' = [remaining EXCEPT ![c] = @ - 1]
               /\ array' = [array EXCEPT ![c][loop.i] = Entry]
      BY <1>1, <3>1, <3>3 DEF TypeOK
    <3> QED
      BY <1>2, <2>2, <3>2, <3>3 DEF SettledEntry
  <2>5. UNCHANGED <<at, pos, running>>
    BY <1>2 DEF SettledEntry, flushV
  <2>6. c # p => Kept(p)
    BY <2>3, <2>4, TouchesNot
  <2> QED
    BY <1>2, <2>1, <2>2, <2>3, <2>5, <2>6 DEF StepOf, NoTurn, LoopFor, InLoop
<1>3. CASE OwnEntry
  <2>1. UNCHANGED <<core, queueV, array, remaining, at, pos, running>>
    BY <1>3 DEF OwnEntry, flushV
  <2>2. Effect /\ Kept(p)
    BY <2>1, CoreStays
  <2> QED
    BY <2>1, <2>2 DEF StepOf, NoTurn
<1>4. CASE WrapEntry
  <2>1. PICK c \in Promises \ Made : c = Fresh
    BY <1>1, <1>4, FreshIsNew DEF WrapEntry
  <2>2. Entry \in Values
    BY <1>1, <1>4, EntryOfLoop DEF WrapEntry
  <2>3. Effect /\ Touches(c) /\ c # p
    BY <1>1, <1>4, <2>1, <2>2, ResolvePasses, ResolveHasEffect DEF WrapEntry
  <2>4. UNCHANGED <<array, remaining, at, pos, running>>
    BY <1>4 DEF WrapEntry, flushV
  <2>5. Kept(p)
    BY <2>3, <2>4, TouchesNot
  <2> QED
    BY <2>3, <2>4, <2>5 DEF StepOf, NoTurn
<1>5. CASE WaitForEntry
  <2>1. InLoop /\ loop.to \in Promises /\ loop.inner \in Promises
    BY <1>1, <1>5, EntryOfLoop DEF WaitForEntry
  <2>2. PICK c \in Promises : c = loop.to
    BY <2>1
  <2>3. PICK s \in Subscriber : s.to = c /\ (Subscribe(loop.inner, s) \/ ThenDo(loop.inner, s))
    BY <1>1, <1>5, <2>1, <2>2, EntryOfLoop DEF WaitForEntry, Awaiter
  <2>4. Effect /\ Touches(c)
    BY <1>1, <2>1, <2>3, SubscribePasses, ThenDoPasses, SubscribeHasEffect, ThenHasEffect
  <2>5. UNCHANGED <<array, remaining, at, pos, running>>
    BY <1>5 DEF WaitForEntry, flushV
  <2>6. c # p => Kept(p)
    BY <2>4, <2>5, TouchesNot
  <2> QED
    BY <1>5, <2>1, <2>2, <2>4, <2>5, <2>6 DEF StepOf, NoTurn, LoopFor, InLoop
<1>6. CASE EndLoop
  <2>1. PICK c \in Promises : c = loop.to /\ ArrayOf(c) \in Values
    BY <1>1, <1>6 DEF TypeOK, EndLoop, Loop, Values
  <2>2. Effect /\ Touches(c)
    <3>1. CASE Settle(c, "fulfilled", ArrayOf(c))
      BY <1>1, <2>1, <3>1, SettlePasses, SettleHasEffect
    <3>2. CASE UNCHANGED <<core, order, queueV>>
      BY <3>2, NoEffect DEF Touches, SubsKept, JobsKept, OutcomeKept, core, queueV
    <3> QED
      BY <1>6, <2>1, <3>1, <3>2 DEF EndLoop, Fulfill
  <2>3. NoTurn /\ UNCHANGED <<array, remaining>>
    BY <1>6 DEF EndLoop, NoTurn, flushV
  <2>4. c # p => Kept(p)
    BY <2>2, <2>3, TouchesNot
  <2> QED
    BY <1>6, <2>1, <2>2, <2>3, <2>4 DEF StepOf, LoopFor, EndLoop
<1> QED
  BY <1>2, <1>3, <1>4, <1>5, <1>6 DEF LoopStep

LEMMA TurnStepIs ==
  ASSUME HInv, AnswerBase, PublishNext \/ InvokeNext, NEW p \in Promises
  PROVE  StepOf(p)
<1>1. TypeOK /\ IInv /\ NoPromiseIsValue
  BY DEF HInv, IInv, HandsInvariant
<1>2. PICK s \in Subscriber, q \in Promises :
        /\ Call(s, q) /\ Settled(q) /\ IsNext(s)
        /\ \/ queue[at] = Publish(q) /\ pos \in DOMAIN subscribers[q] /\ s = subscribers[q][pos]
           \/ queue[at].type = "invoke" /\ queue[at].subscriber = s /\ queue[at].promise = q
        /\ \A r \in Promises : queue[at] = Publish(r) => r = q
  <2>1. PICK s \in Subscriber, q \in Promises :
         /\ Call(s, q) /\ Settled(q) /\ IsNext(s)
         /\ \/ /\ queue[at] = Publish(q) /\ pos \in DOMAIN subscribers[q] /\ s = subscribers[q][pos]
               /\ \A r \in Promises : queue[at] = Publish(r) => r = q
            \/ /\ queue[at].type = "invoke" /\ queue[at].subscriber = s /\ queue[at].promise = q
               /\ \A r \in Promises : queue[at] # Publish(r)
    BY <1>1, CalledIs
  <2> QED
    BY <2>1
<1>3. loop = None /\ loop' = None /\ running = None /\ at \in DOMAIN queue
  BY DEF PublishNext, InvokeNext, FlushRuns
<1>4. PICK c \in Promises : c = s.to
  BY DEF Subscriber
<1>5. s # None /\ s.i \in Nat
  <2>1. None \notin Subscriber
    OBVIOUS
  <2> QED
    BY <2>1 DEF Subscriber
<1>6. PassesTurn
  BY <1>2, <1>3, <1>5 DEF Call, PassesTurn, Stays
<1>7. state[q] \in {"fulfilled", "rejected"} /\ result[q] \in Values \cup {None}
  BY <1>1, <1>2 DEF TypeOK, Settled
<1>8. Effect /\ Touches(c)
  <2>1. CASE UNCHANGED <<core, order, queueV>>
    BY <2>1, NoEffect DEF Touches, SubsKept, JobsKept, OutcomeKept, core, queueV
  <2>2. CASE Settle(c, state[q], result[q]) \/ Settle(c, "rejected", result[q])
    BY <1>1, <1>7, <2>2, SettlePasses, SettleHasEffect
  <2>3. CASE Resolve(c, result[q])
    BY <1>1, <1>7, <2>3, ResolvePasses, ResolveHasEffect
  <2>4. CASE SettledAt(c, s.i, state[q], result[q])
    BY <1>1, <1>5, <1>7, <2>4, SettledAtPasses
  <2> QED
    BY <1>2, <1>4, <2>1, <2>2, <2>3, <2>4 DEF Call, Reject
<1>9. c # p => array'[p] = array[p] /\ remaining'[p] = remaining[p]
  BY <1>1, <1>2, <1>4, SettledAtLeaves DEF Call, AnswerBase, AskedIsTyped
<1>10. c # p => Kept(p)
  BY <1>8, <1>9, TouchesNot
<1>11. \A r \in Promises : queue[at] = Publish(r) => queue[at].type = "publish"
  BY DEF Publish
<1>12. TurnIs(s, q)
  BY <1>2, <1>3, <1>6, <1>8, <1>11 DEF TurnIs
<1> QED
  BY <1>4, <1>10, <1>12 DEF StepOf

LEMMA StepIs ==
  ASSUME HInv, AnswerBase, Next, NEW p \in Promises, Many(p), NoObjectTells(p)
  PROVE  StepOf(p)
<1>1. TypeOK /\ IInv /\ NoPromiseIsValue
      /\ Given \cup {None} \subseteq Values \cup {None} /\ setup.values \subseteq Values
  BY GivenAreValues DEF HInv, IInv, HandsInvariant
<1>2. CASE Page
  BY <1>2, PageIs DEF StepOf
<1>3. CASE Library
  <2>1. CASE LoopStep \/ EndLoop
    BY <2>1, LoopStepIs
  <2>2. CASE PublishNext \/ InvokeNext
    BY <2>2, TurnStepIs
  <2>3. CASE ThenableNext
    <3>1. /\ UNCHANGED <<core, queueV, array, remaining, at, pos>> /\ at \in DOMAIN queue
          /\ running = None /\ queue[at].type = "thenable"
      BY <2>3 DEF ThenableNext, FlushRuns, Job
    <3>2. running' # None
      <4>1. running' \in Asking
        <5>1. queue[at] \in Jobs /\ Len(adoptions) \in Nat
          BY <1>1, <3>1 DEF TypeOK
        <5>2. queue[at].promise \in Promises
          BY <3>1, <5>1 DEF Jobs
        <5> QED
          BY <2>3, <5>1, <5>2 DEF ThenableNext, Job, Asking
      <4>2. None \notin Asking
        OBVIOUS
      <4> QED
        BY <4>1, <4>2
    <3>3. Effect /\ Kept(p)
      BY <3>1, CoreStays
    <3> QED
      BY <3>1, <3>2, <3>3 DEF StepOf, PassesTurn, Stays
  <2>4. CASE (\E v \in Given \cup {None} : Return(v)) \/ (\E v \in setup.values : Throw(v))
    <3>1. running # None /\ running' = None /\ Advance /\ UNCHANGED <<array, remaining>>
      BY <2>4 DEF Return, Throw, others
    <3>2. PICK c \in Promises : c = running.to
      BY <1>1, <3>1, RunningIsTyped
    <3>3. c # p
      <4>1. running.kind = "thenable" => running.to # p
        BY <3>1 DEF HInv, HandsInvariant, Others, AskingIsKnown, NoObjectTells
      <4>2. OfFunction(running) => running.to # p
        BY <3>1, ManyIsApart
      <4> QED
        BY <2>4, <3>2, <4>1, <4>2 DEF Return, Throw, OfFunction
    <3>4. PICK v \in Values \cup {None} :
            \/ UNCHANGED <<core, order, queueV>>
            \/ Settle(c, "rejected", CannotReturnOwn)
            \/ Settle(c, "rejected", v)
            \/ Resolve(c, v)
      BY <1>1, <2>4, <3>2 DEF Return, Throw, Reject
    <3>5. CannotReturnOwn \in Values
      BY DEF Values, Errors
    <3>6. Effect /\ Touches(c)
      <4>1. CASE UNCHANGED <<core, order, queueV>>
        BY <4>1, NoEffect DEF Touches, SubsKept, JobsKept, OutcomeKept, core, queueV
      <4>2. CASE Settle(c, "rejected", CannotReturnOwn) \/ Settle(c, "rejected", v)
        BY <1>1, <3>5, <4>2, SettlePasses, SettleHasEffect
      <4>3. CASE Resolve(c, v)
        BY <1>1, <4>3, ResolvePasses, ResolveHasEffect
      <4> QED
        BY <3>4, <4>1, <4>2, <4>3
    <3>7. Kept(p)
      BY <3>1, <3>3, <3>6, TouchesNot
    <3> QED
      BY <3>1, <3>6, <3>7 DEF StepOf, NoTurn
  <2> QED
    BY <1>3, <2>1, <2>2, <2>3, <2>4 DEF Library, LoopStep, StepOf
<1> QED
  BY <1>2, <1>3 DEF Next

\* The loop acts for p.
LoopActsFor(p) == LoopFor(p) /\ (SettledEntry \/ WaitForEntry \/ EndLoop)

Steady(p) ==
  /\ Kept(p) /\ asked'[p] = asked[p]
  /\ LoopFor(p)' <=> LoopFor(p)
  /\ \A i : HeardSame(p, i) /\ (ToCome(p, i)' <=> ToCome(p, i))

LEMMA AskedStays ==
  ASSUME HInv, AnswerBase, Next, NEW p \in Promises, asked[p] # None
  PROVE  asked'[p] = asked[p]
<1>0. DOMAIN asked = Promises
  BY DEF AnswerBase, AskedIsTyped
<1>1. CASE LoopStep \/ EndLoop \/ Between
  BY <1>1, LoopActs DEF EndLoop, Between, history
<1>2. CASE \E kind \in {"all", "race", "async"}, entries \in Seq(Values) : Begins(kind, entries)
  <2>1. PICK kind \in {"all", "race", "async"}, entries \in Seq(Values) : Begins(kind, entries)
    BY <1>2
  <2>3. PICK c \in Promises \ Made : BeginsFor(c, kind, entries)
    BY <2>1, BeginsIs
  <2>4. p \in Made
    BY DEF HInv, HandsInvariant, Others, OthersAreMade
  <2> QED
    BY <1>0, <2>3, <2>4 DEF BeginsFor
<1> QED
  BY <1>1, <1>2, StepKinds

LEMMA LoopSame ==
  ASSUME HInv, HandsInvariant', AnswerBase, Next, NEW p \in Promises, Many(p), ~LoopActsFor(p), NEW i
  PROVE  (LoopFor(p)' <=> LoopFor(p)) /\ (ToCome(p, i)' <=> ToCome(p, i))
<1>1. CASE LoopStep
  <2>1. loop \in Loop /\ loop # None /\ loop' # None /\ loop'.to = loop.to
    BY <1>1, LoopActs DEF LoopGoesOn
  <2>2. CASE loop.to = p
    <3>1. OwnEntry \/ WrapEntry
      BY <1>1, <2>1, <2>2 DEF LoopStep, LoopActsFor, LoopFor
    <3>2. loop'.i = loop.i
      BY <2>1, <3>1 DEF OwnEntry, WrapEntry, Loop
    <3> QED
      BY <2>1, <2>2, <3>2 DEF LoopFor, ToCome
  <2> QED
    BY <2>1, <2>2 DEF LoopFor, ToCome
<1>2. CASE EndLoop
  BY <1>2 DEF EndLoop, LoopActsFor, LoopFor, ToCome
<1>3. CASE Between
  <2>1. Many(p)'
    BY AskedStays DEF Many
  <2>2. ~Awaits(p)'
    BY <2>1 DEF HandsInvariant, Others, OthersAreApart
  <2> QED
    BY <1>3, <2>2 DEF Between, Awaits, LoopFor, ToCome
<1>4. CASE \E kind \in {"all", "race", "async"}, entries \in Seq(Values) : Begins(kind, entries)
  <2>1. PICK kind \in {"all", "race", "async"}, entries \in Seq(Values) : Begins(kind, entries)
    BY <1>4
  <2>3. PICK c \in Promises \ Made : BeginsFor(c, kind, entries)
    BY <2>1, BeginsIs
  <2>4. p \in Made /\ loop'.to = c /\ loop = None
    BY <2>3, ManyIsApart DEF BeginsFor
  <2> QED
    BY <2>3, <2>4 DEF LoopFor, ToCome
<1> QED
  BY <1>1, <1>2, <1>3, <1>4, StepKinds

\* A step acts for p, or leaves all that is about p as it is.
LEMMA SteadyOrNot ==
  ASSUME HInv, HandsInvariant', AnswerBase, Next, NEW p \in Promises, Many(p), StepOf(p)
  PROVE  \/ Steady(p)
         \/ LoopActsFor(p)
         \/ \E s \in Subscriber, q \in Promises : TurnIs(s, q) /\ s.to = p
<1> SUFFICES ASSUME ~LoopActsFor(p),
                    ~\E s \in Subscriber, q \in Promises : TurnIs(s, q) /\ s.to = p
             PROVE  Steady(p)
  OBVIOUS
<1>1. IInv
  BY DEF HInv
<1>2. asked'[p] = asked[p]
  BY AskedStays DEF Many
<1>3. \A i : (LoopFor(p)' <=> LoopFor(p)) /\ (ToCome(p, i)' <=> ToCome(p, i))
  BY LoopSame
<1>4. CASE StartFlush \/ EndFlush \/ EndPublish
  <2>1. \A i : HeardSame(p, i) /\ SubsKept(p) /\ JobsKept(p) /\ OutcomeKept(p)
    BY <1>1, <1>4, FlushHeard
  <2>2. UNCHANGED <<array, remaining>>
    BY <1>4 DEF StartFlush, EndFlush, EndPublish, others
  <2> QED
    BY <1>2, <1>3, <2>1, <2>2 DEF Steady, Kept
<1>5. CASE Effect /\ NoTurn /\ Kept(p)
  <2>1. \A i : HeardSame(p, i)
    BY <1>1, <1>5, NoTurnHeard DEF Kept
  <2> QED
    BY <1>2, <1>3, <1>5, <2>1 DEF Steady
<1>6. CASE Effect /\ PassesTurn /\ running = None /\ Kept(p) /\ queue[at].type = "thenable"
  <2>1. \A i : HeardButOne(p, i)
    BY <1>1, <1>6, TurnHeard DEF Kept
  <2>2. \A q \in Promises : queue[at] # Publish(q)
    BY <1>6 DEF Publish
  <2>3. \A i : ~HeardIn(at, p, i)
    BY <1>6 DEF HeardIn
  <2>4. \A i : HeardSame(p, i)
    BY <2>1, <2>2, <2>3 DEF HeardButOne, HeardSame
  <2> QED
    BY <1>2, <1>3, <1>6, <2>4 DEF Steady
<1>7. CASE \E s \in Subscriber, q \in Promises : TurnIs(s, q) /\ Kept(p)
  <2>1. PICK s \in Subscriber, q \in Promises : TurnIs(s, q) /\ Kept(p)
    BY <1>7
  <2>2. s.to # p
    BY <2>1
  <2>3. \A i : HeardButOne(p, i)
    BY <1>1, <2>1, TurnHeard DEF Kept, TurnIs
  <2>4. \A i, r, m : r \in Promises /\ queue[at] = Publish(r) /\ m = pos => ~HeardFrom(r, m, p, i)
    <3> SUFFICES ASSUME NEW i, NEW r \in Promises, NEW m, queue[at] = Publish(r), m = pos, HeardFrom(r, m, p, i)
                 PROVE  FALSE
      OBVIOUS
    <3>1. subscribers[r][pos].to = p /\ queue[at].type = "publish" /\ r = q
      BY <2>1 DEF TurnIs, HeardFrom
    <3>2. s = subscribers[q][pos]
      BY <2>1, <3>1 DEF TurnIs
    <3> QED
      BY <2>2, <3>1, <3>2
  <2>5. \A i : ~HeardIn(at, p, i)
    <3> SUFFICES ASSUME NEW i, HeardIn(at, p, i) PROVE FALSE
      OBVIOUS
    <3>1. queue[at].type = "invoke" /\ queue[at].subscriber.to = p
      BY DEF HeardIn
    <3>2. queue[at].subscriber = s
      BY <2>1, <3>1 DEF TurnIs
    <3> QED
      BY <2>2, <3>1, <3>2
  <2>6. \A i : HeardSame(p, i)
    BY <2>3, <2>4, <2>5 DEF HeardButOne, HeardSame
  <2> QED
    BY <1>2, <1>3, <2>1, <2>6 DEF Steady
<1> QED
  BY <1>4, <1>5, <1>6, <1>7 DEF StepOf, LoopActsFor

-----------------------------------------------------------------------------
(* How flush() goes on. *)

QueueMoves ==
  \/ queue' = <<>> /\ at > Len(queue)
  \/ /\ \A k \in DOMAIN queue : k \in DOMAIN queue' /\ queue'[k] = queue[k]
     /\ \A k \in DOMAIN queue' \ DOMAIN queue : k = Len(queue) + 1
     /\ at' \in {at, at + 1}
     /\ at' # at => \A q \in Promises : queue[at] = Publish(q) /\ at \in DOMAIN queue =>
                      \A m \in DOMAIN subscribers[q] : SubscriberHadTurn(q, m)

\* Who has its turn, or is forgotten, is a subscriber of what is published.
TurnIsAt ==
  \A q \in Promises : \A m \in DOMAIN subscribers[q] :
    ~SubscriberHadTurn(q, m) /\ (\/ m \notin DOMAIN subscribers'[q] \/ SubscriberHadTurn(q, m)'
                                 \/ subscribers'[q][m] # subscribers[q][m])
      => at \in DOMAIN queue /\ queue[at] = Publish(q)

LEMMA FlushMoves ==
  ASSUME IInv, NEW p \in Promises, StepOf(p)
  PROVE  QueueMoves /\ TurnIsAt
<1>1. TypeOK /\ TurnOK
  BY DEF IInv
<1>2. /\ at \in Nat /\ pos \in Nat /\ Len(queue) \in Nat
      /\ \A k \in DOMAIN queue : k \in Nat /\ k >= 1 /\ k <= Len(queue)
      /\ \A q \in Promises : \A m \in DOMAIN subscribers[q] : m \in Nat /\ m >= 1 /\ m <= Len(subscribers[q])
  BY <1>1 DEF TypeOK
<1>3. CASE Effect /\ NoTurn
  <2>1. QueueGrows /\ PromisesGrow /\ TurnsKept /\ NoTurnTaken
    BY <1>1, <1>3, EffectGrows, NoTurns, TurnEnds DEF NoTurn
  <2>2. TurnIsAt
    BY <2>1 DEF TurnIsAt, PromisesGrow, NoTurnTaken
  <2>3. at' \in {at, at + 1} /\ (at' # at => running # None /\ queue[at].type # "publish")
    BY <1>3 DEF NoTurn, Advance
  <2>4. \A q \in Promises : Publish(q).type = "publish"
    BY DEF Publish
  <2> QED
    BY <2>1, <2>2, <2>3, <2>4 DEF QueueMoves, QueueGrows
<1>4. CASE Effect /\ PassesTurn /\ running = None
  <2>1. /\ QueueGrows /\ PromisesGrow /\ TurnsKept /\ at \in DOMAIN queue
        /\ \A q \in Promises : \A m \in DOMAIN subscribers[q] :
             SubscriberHadTurn(q, m)' => SubscriberHadTurn(q, m) \/ (queue[at] = Publish(q) /\ m = pos)
    BY <1>1, <1>4, EffectGrows, TurnsPass DEF PassesTurn
  <2>2. TurnIsAt
    BY <2>1 DEF TurnIsAt, PromisesGrow
  <2>3. at' \in {at, at + 1} /\ (at' # at => queue[at].type # "publish")
    BY <1>4 DEF PassesTurn, Stays, Advance
  <2>4. \A q \in Promises : Publish(q).type = "publish"
    BY DEF Publish
  <2> QED
    BY <2>1, <2>2, <2>3, <2>4 DEF QueueMoves, QueueGrows
<1>5. CASE StartFlush
  <2>1. /\ UNCHANGED <<subscribers, queue, pos, running>> /\ at = 0 /\ at' = 1
    BY <1>5 DEF StartFlush, core
  <2>2. pos = 1 /\ at \notin DOMAIN queue /\ running = None
    BY <1>1, <1>2, <2>1 DEF TurnOK
  <2>3. \A q \in Promises : \A m \in DOMAIN subscribers[q] : ~SubscriberHadTurn(q, m)'
    BY <1>2, <2>1, <2>2 DEF SubscriberHadTurn
  <2> QED
    BY <2>1, <2>2, <2>3 DEF QueueMoves, TurnIsAt
<1>6. CASE EndFlush
  <2>1. UNCHANGED subscribers /\ queue' = <<>> /\ at > Len(queue)
    BY <1>6 DEF EndFlush, core
  <2>2. \A q \in Promises : \A m : ~SubscriberHadTurn(q, m)'
    BY <2>1 DEF SubscriberHadTurn
  <2> QED
    BY <2>1, <2>2 DEF QueueMoves, TurnIsAt
<1>7. CASE EndPublish
  <2>1. /\ UNCHANGED <<queue, running>> /\ running = None
        /\ at \in DOMAIN queue /\ queue[at] \in Jobs /\ queue[at].type = "publish"
        /\ pos > Len(subscribers[queue[at].promise])
        /\ subscribers' = [subscribers EXCEPT ![queue[at].promise] = <<>>]
        /\ at' = at + 1 /\ pos' = 1
    BY <1>1, <1>7 DEF EndPublish, FlushRuns, Job, queueV, TypeOK
  <2>2. PICK r \in Promises : queue[at].promise = r /\ queue[at] = Publish(r)
    BY <2>1, PublishingJob
  <2>3. \A q \in Promises : queue[at] = Publish(q) => q = r
    BY <2>2, PublishIsJob
  <2>4. \A q \in Promises \ {r} : subscribers'[q] = subscribers[q]
    BY <1>1, <2>1, <2>2 DEF TypeOK
  <2>5. \A m \in DOMAIN subscribers[r] : SubscriberHadTurn(r, m)
    BY <1>2, <2>1, <2>2 DEF SubscriberHadTurn
  <2>6. \A q \in Promises \ {r} : \A m \in DOMAIN subscribers[q] : ~SubscriberHadTurn(q, m)'
    BY <1>2, <2>1 DEF SubscriberHadTurn
  <2> QED
    BY <2>1, <2>3, <2>4, <2>5, <2>6 DEF QueueMoves, TurnIsAt
<1> QED
  BY <1>3, <1>4, <1>5, <1>6, <1>7 DEF StepOf, TurnIs

-----------------------------------------------------------------------------
(* What stays. *)

LEMMA MovesAreFinal ==
  ASSUME TypeOK, Moves
  PROVE  Final
<1>1. CASE SettlesNone
  BY <1>1 DEF SettlesNone, Final
<1>2. CASE \E x \in Promises : SettlesNow(x)
  <2>1. PICK x \in Promises : SettlesNow(x)
    BY <1>2
  <2>2. \A q \in Promises : q # x => state'[q] = state[q] /\ result'[q] = result[q]
    BY <2>1 DEF SettlesNow, TypeOK
  <2>3. ~Settled(x)
    BY <2>1 DEF SettlesNow, Pending, Settled
  <2> QED
    BY <2>2, <2>3 DEF Final
<1> QED
  BY <1>1, <1>2 DEF Moves

\* What p was asked.
LEMMA AskedIs ==
  ASSUME AnswerBase, NEW p \in Promises, Many(p)
  PROVE  /\ asked[p] \in Question /\ asked[p].since <= Len(order) /\ order \in Seq(Promises) /\ Once(order)
         /\ Len(asked[p].entries) \in Nat /\ Numbers(p) = 1..Len(asked[p].entries)
         /\ \A i \in Numbers(p) : Nth(p, i) \in Values /\ Nth(p, i) # None /\ Nth(p, i) # p
<1>1. asked[p] \in Question /\ asked[p].since <= Len(order) /\ order \in Seq(Promises) /\ Once(order)
  BY DEF AnswerBase, AskedIsTyped, Many, OrderIsOnce, Once
<1>2. asked[p].entries \in Seq(Values)
  BY <1>1 DEF Question
<1>3. Len(asked[p].entries) \in Nat /\ DOMAIN asked[p].entries = 1..Len(asked[p].entries)
      /\ \A i \in DOMAIN asked[p].entries : asked[p].entries[i] \in Values
  BY <1>2
<1>4. \A i \in Numbers(p) : Nth(p, i) # p
  BY DEF AnswerBase, EntriesAreMade
<1>5. \A e \in Values : e # None
  OBVIOUS
<1> QED
  BY <1>1, <1>3, <1>4, <1>5 DEF Numbers, Nth, Entries

LEMMA OutcomeStays ==
  ASSUME TypeOK, Final, NEW e
  PROVE  /\ Outcome(e) \in {"pending", "fulfilled", "rejected"}
         /\ Outcome(e) # "pending" => Outcome(e)' = Outcome(e) /\ Value(e)' = Value(e)
         /\ e \in Promises => (Pending(e) <=> Outcome(e) = "pending") /\ (Settled(e) <=> Outcome(e) # "pending")
BY DEF TypeOK, Final, Outcome, Value, Settled, Pending

LEMMA SameQuestion ==
  ASSUME NEW p, asked'[p] = asked[p]
  PROVE  /\ IsAll(p)' = IsAll(p) /\ Numbers(p)' = Numbers(p) /\ Many(p)' = Many(p)
         /\ \A i : Nth(p, i)' = Nth(p, i)
BY DEF IsAll, Numbers, Nth, Many, Entries

LEMMA AsksStayed ==
  ASSUME TypeOK, Final, NEW p, asked'[p] = asked[p], Asks(p)'
  PROVE  Asks(p)
<1>1. Many(p)
  BY DEF Asks, Many
<1>2. ASSUME NEW i \in Entries(asked[p])
      PROVE  /\ asked[p].entries[i] \in Promises \cup Plain
             /\ Outcome(asked[p].entries[i]) = "fulfilled" => Value(asked[p].entries[i]) \notin Thenables
  <2>1. PICK e : e = asked[p].entries[i]
    OBVIOUS
  <2>2. e \in Promises \cup Plain /\ (Outcome(e)' = "fulfilled" => Value(e)' \notin Thenables)
    BY <2>1 DEF Asks, Plainly, Entries, Outcome, Value
  <2>3. Outcome(e) # "pending" => Outcome(e)' = Outcome(e) /\ Value(e)' = Value(e)
    BY OutcomeStays
  <2> QED
    BY <2>1, <2>2, <2>3
<1> QED
  BY <1>1, <1>2 DEF Asks, Plainly

\* What is settled as an entry stays so.
LEMMA SettledAsStays ==
  ASSUME TypeOK, Final, NEW q \in Promises, NEW e, SettledAs(q, e)
  PROVE  SettledAs(q, e)'
<1>1. state'[q] = state[q] /\ result'[q] = result[q] /\ Outcome(e) # "pending"
  BY DEF SettledAs, Final, Settled
<1>2. Outcome(e)' = Outcome(e) /\ Value(e)' = Value(e)
  BY <1>1, OutcomeStays
<1> QED
  BY <1>1, <1>2 DEF SettledAs, Settled

-----------------------------------------------------------------------------
(* Whoever tells p of something tells it of an entry. *)

\* The promise q was made for e, and waits for it or has its outcome.
LEMMA MadeForIsLinked ==
  ASSUME HInv, NEW q \in Promises, NEW e \in Promises, MadeFor(q, e),
         ~(state[e] = "fulfilled" /\ result[e] \in Thenables)
  PROVE  /\ Alone(q) /\ q \in Made /\ ~Many(q)
         /\ (Pending(q) /\ WaitsFor(q, e)) \/ SameOutcome(q, e)
<1>1. meant[q] = <<"fulfilled", e>> /\ q # e /\ q \notin again
  BY DEF MadeFor
<1>2. meant[q] # None
  <2>1. meant[q] \in Meaning
    BY <1>1 DEF Meaning, Values
  <2> QED
    BY <2>1
<1>3. q \in Made /\ ~Many(q)
  BY <1>2 DEF HInv, HandsInvariant, Others, OthersAreMade, OthersAreApart
<1>4. Alone(q)
  BY <1>1, <1>3 DEF HInv, HandsInvariant, OneHand
<1>5. Linked(q, e)
  BY <1>1 DEF HInv, HandsInvariant, LinksHold, FirstFollows
<1> QED
  BY <1>3, <1>4, <1>5 DEF Linked

\* A promise that waits is not that of a function that runs.
LEMMA WaitingDoesNotRun ==
  ASSUME HInv, NEW q \in Promises, NEW e \in Promises, MadeFor(q, e),
         ~(state[e] = "fulfilled" /\ result[e] \in Thenables),
         loop = None, running # None, OfFunction(running)
  PROVE  running.to # q
<1> SUFFICES ASSUME running.to = q PROVE FALSE
  OBVIOUS
<1>1. TypeOK /\ Alone(q) /\ ((Pending(q) /\ WaitsFor(q, e)) \/ SameOutcome(q, e))
  BY MadeForIsLinked DEF HInv, IInv
<1>2. Holds("function", None, 0, q)
  BY DEF Holds, GoesOnFor, Awaits, OfFunction
<1>3. Pending(q)
  BY <1>1, <1>2 DEF Alone, Hands
<1>4. PICK m \in DOMAIN subscribers[e] : subscribers[e][m] = Adopt(q) /\ ~SubscriberHadTurn(e, m)
  BY <1>1, <1>3 DEF SameOutcome, Settled, Pending, WaitsFor
<1>5. m \in Nat
  BY <1>1, <1>4 DEF TypeOK
<1>6. Holds("subscriber", e, m, q)
  BY <1>4 DEF Holds, WillBeTold, Adopt
<1> QED
  BY <1>1, <1>2, <1>5, <1>6 DEF Alone, Hands

LEMMA MadeForStays ==
  ASSUME HInv, Next, NEW q \in Promises, NEW e \in Promises, MadeFor(q, e),
         ~(state[e] = "fulfilled" /\ result[e] \in Thenables)
  PROVE  MadeFor(q, e)'
<1>1. /\ q \notin open /\ q \notin again /\ meant[q] = <<"fulfilled", e>> /\ q # e /\ q \in Made
      /\ DOMAIN meant = Promises
  BY MadeForIsLinked DEF MadeFor, HInv, HandsInvariant, Others, HistoryIsTyped
<1>2. loop = None /\ running # None /\ OfFunction(running) => running.to # q
  BY WaitingDoesNotRun
<1>3. CanMake => Fresh \in Promises /\ Fresh # q
  <2>1. TypeOK
    BY DEF HInv, IInv
  <2>2. CanMake => \E c \in Promises \ Made : TRUE
    BY <2>1, GivenAreValues DEF CanMake
  <2>3. CanMake => Fresh \in Promises \ Made
    BY <2>2 DEF Fresh
  <2> QED
    BY <1>1, <2>3
<1>4. \A c, outcome, v : c # q /\ Means(c, outcome, v) => q \notin again' /\ meant'[q] = meant[q]
  BY <1>1 DEF Means
<1> SUFFICES q \notin open' /\ q \notin again' /\ meant'[q] = meant[q]
  BY <1>1 DEF MadeFor
<1>5. CASE Page
  BY <1>1, <1>3, <1>4, <1>5 DEF Page, NewPromise, ResolvePromise, RejectPromise, Then, Begin, AwaitAgain,
     ThenableCalls, history
<1>6. CASE Library
  <2>1. CASE \E v \in Given \cup {None} : Return(v)
    BY <1>1, <1>2, <1>4, <2>1 DEF Return, OfFunction
  <2>2. CASE \E v \in setup.values : Throw(v)
    BY <1>1, <1>2, <1>4, <2>2 DEF Throw, OfFunction
  <2>3. CASE WrapEntry
    BY <1>1, <1>3, <2>3 DEF WrapEntry
  <2> QED
    BY <1>1, <1>6, <2>1, <2>2, <2>3 DEF Library, SettledEntry, OwnEntry, WaitForEntry, EndLoop, StartFlush,
       EndFlush, PublishNext, EndPublish, InvokeNext, ThenableNext, history
<1> QED
  BY <1>5, <1>6 DEF Next

LEMMA NoObjectIsGiven ==
  ASSUME HInv, Next, NEW p \in Promises, NoObjectTells(p), QueueTells(p)
  PROVE  NoObjectTells(p)'
<1>1. adoptions \in Seq(Adoption)
  BY DEF HInv, IInv, TypeOK
<1>2. ASSUME NEW k \in DOMAIN adoptions, adoptions' = [adoptions EXCEPT ![k].sealed = TRUE]
      PROVE  NoObjectTells(p)'
  <2>1. \A j \in DOMAIN adoptions : adoptions[j] \in Adoption
    BY <1>1
  <2>2. \A j \in DOMAIN adoptions : adoptions'[j].promise = adoptions[j].promise
    BY <1>2, <2>1 DEF Adoption
  <2>3. DOMAIN adoptions' = DOMAIN adoptions
    BY <1>2
  <2> QED
    BY <2>2, <2>3 DEF NoObjectTells
<1>3. CASE Page
  <2>1. CASE \E k \in DOMAIN adoptions, v \in Given, outcome \in {"fulfilled", "rejected"} :
               ThenableCalls(k, outcome, v)
    BY <1>2, <2>1 DEF ThenableCalls, NoObjectTells
  <2>2. CASE UNCHANGED adoptions
    BY <2>2 DEF NoObjectTells
  <2> QED
    BY <1>3, <2>1, <2>2 DEF Page, NewPromise, ResolvePromise, RejectPromise, Then, Begin, AwaitAgain, others
<1>4. CASE Library
  <2>1. CASE \E v \in setup.values : Throw(v)
    <3>1. PICK v \in setup.values : Throw(v)
      BY <2>1
    <3>2. running.kind = "thenable" => running.i \in DOMAIN adoptions
      BY <3>1 DEF Throw, HInv, HandsInvariant, Others, AskingIsKnown
    <3> QED
      BY <1>2, <3>1, <3>2 DEF Throw, NoObjectTells
  <2>2. CASE ThenableNext
    <3>1. at \in DOMAIN queue /\ queue[at].type = "thenable"
          /\ adoptions' = Append(adoptions, [promise |-> queue[at].promise, thenable |-> queue[at].thenable, sealed |-> FALSE])
      BY <2>2 DEF ThenableNext, FlushRuns, Job
    <3>2. queue[at].promise # p
      BY <3>1 DEF QueueTells, Serves
    <3> QED
      BY <1>1, <3>1, <3>2 DEF NoObjectTells
  <2>3. CASE UNCHANGED adoptions
    BY <2>3 DEF NoObjectTells
  <2> QED
    BY <1>4, <2>1, <2>2, <2>3 DEF Library, SettledEntry, OwnEntry, WrapEntry, WaitForEntry, EndLoop, StartFlush,
       EndFlush, PublishNext, EndPublish, InvokeNext, Return, others
<1> QED
  BY <1>3, <1>4 DEF Next

\* What happens to p and what it was asked, in a step.
StepFor(p) ==
  /\ HInv /\ HInv' /\ AnswerBase /\ AnswerBase' /\ Next /\ Moves
  /\ Asks(p) /\ Asks(p)' /\ asked'[p] = asked[p]
  /\ StepOf(p) /\ QueueMoves /\ TurnIsAt

Tells(p) == SubscribersTell(p) /\ QueueTells(p) /\ NoObjectTells(p)

LEMMA StepForIs ==
  ASSUME HInv, HInv', AnswerBase, AnswerBase', Next, Moves, NEW p \in Promises, Asks(p)',
         asked'[p] = asked[p], NoObjectTells(p)
  PROVE  StepFor(p)
<1>1. IInv /\ TypeOK
  BY DEF HInv, IInv
<1>2. Asks(p)
  BY <1>1, MovesAreFinal, AsksStayed
<1>3. Many(p) /\ StepOf(p)
  BY <1>2, StepIs DEF Asks
<1>4. QueueMoves /\ TurnIsAt
  BY <1>1, <1>3, FlushMoves
<1> QED
  BY <1>2, <1>3, <1>4 DEF StepFor

LEMMA StepForFacts ==
  ASSUME NEW p \in Promises, StepFor(p)
  PROVE  /\ IInv /\ TypeOK /\ IInv' /\ TypeOK' /\ Final /\ Many(p) /\ Many(p)'
         /\ Numbers(p)' = Numbers(p) /\ IsAll(p)' = IsAll(p)
         /\ \A i : Nth(p, i)' = Nth(p, i)
         /\ Steady(p) \/ LoopActsFor(p) \/ \E s \in Subscriber, q \in Promises : TurnIs(s, q) /\ s.to = p
<1>1. IInv /\ TypeOK /\ IInv' /\ TypeOK' /\ HandsInvariant'
  BY DEF StepFor, HInv, IInv
<1>2. Final /\ Many(p) /\ Many(p)'
  BY <1>1, MovesAreFinal DEF StepFor, Asks
<1>3. Steady(p) \/ LoopActsFor(p) \/ \E s \in Subscriber, q \in Promises : TurnIs(s, q) /\ s.to = p
  BY <1>1, <1>2, SteadyOrNot DEF StepFor
<1> QED
  BY <1>1, <1>2, <1>3, SameQuestion DEF StepFor

\* The entries are promises and plain values, and none is an object to ask.
LEMMA EntryIsPlain ==
  ASSUME NEW p, Asks(p), NEW i \in Numbers(p)
  PROVE  /\ Nth(p, i) \in Promises \cup Plain /\ Nth(p, i) \notin Thenables
         /\ Outcome(Nth(p, i)) = "fulfilled" => Value(Nth(p, i)) \notin Thenables
         /\ Nth(p, i) \in Promises =>
              ~(state[Nth(p, i)] = "fulfilled" /\ result[Nth(p, i)] \in Thenables)
BY PlainAssumption DEF Asks, Plainly, Nth, Numbers, Outcome, Value

LEMMA StandsForStays ==
  ASSUME NEW p \in Promises, StepFor(p), NEW q \in Promises, NEW i \in Numbers(p), StandsFor(q, p, i)
  PROVE  StandsFor(q, p, i)'
<1>1. /\ Numbers(p)' = Numbers(p) /\ IsAll(p)' = IsAll(p) /\ (\A j : Nth(p, j)' = Nth(p, j))
      /\ HInv /\ Next
  BY StepForFacts DEF StepFor
<1>2. CASE IsAll(p)
  <2>1. PICK e \in Promises : e = Nth(p, i) /\ MadeFor(q, e)
    BY <1>2 DEF StandsFor
  <2>2. ~(state[e] = "fulfilled" /\ result[e] \in Thenables)
    BY <2>1, EntryIsPlain DEF StepFor
  <2>3. MadeFor(q, e)'
    BY <1>1, <2>1, <2>2, MadeForStays
  <2> QED
    BY <1>1, <1>2, <2>1, <2>3 DEF StandsFor, MadeFor
<1>3. CASE ~IsAll(p)
  BY <1>1, <1>3 DEF StandsFor
<1> QED
  BY <1>2, <1>3

\* Whoever tells p of something did so before, or tells it of an entry.
SubscribersAsked(p) ==
  \A q \in Promises : \A m \in DOMAIN subscribers'[q] : subscribers'[q][m].to = p =>
    \/ m \in DOMAIN subscribers[q] /\ subscribers'[q][m] = subscribers[q][m]
    \/ /\ subscribers'[q][m].kind = (IF IsAll(p) THEN "entry" ELSE "race")
       /\ subscribers'[q][m].i \in Numbers(p)
       /\ StandsFor(q, p, subscribers'[q][m].i)
JobsAsked(p) ==
  \A k \in DOMAIN queue' : Serves(queue'[k], p) =>
    \/ k \in DOMAIN queue /\ queue'[k] = queue[k]
    \/ /\ ~IsAll(p) /\ queue'[k].type = "invoke" /\ queue'[k].subscriber.kind = "race"
       /\ queue'[k].subscriber.i \in Numbers(p)
       /\ SettledAs(queue'[k].promise, Nth(p, queue'[k].subscriber.i))

LEMMA TellsStay ==
  ASSUME NEW p \in Promises, StepFor(p), Tells(p), SubscribersAsked(p), JobsAsked(p)
  PROVE  Tells(p)'
<1>1. /\ Numbers(p)' = Numbers(p) /\ IsAll(p)' = IsAll(p) /\ (\A j : Nth(p, j)' = Nth(p, j))
      /\ TypeOK /\ Final /\ TypeOK' /\ HInv /\ Next
  BY StepForFacts DEF StepFor
<1>2. SubscribersTell(p)'
  <2> SUFFICES ASSUME NEW q \in Promises, NEW m \in DOMAIN subscribers'[q], subscribers'[q][m].to = p
               PROVE  /\ subscribers'[q][m].kind = (IF IsAll(p) THEN "entry" ELSE "race")
                      /\ subscribers'[q][m].i \in Numbers(p)
                      /\ \A i : i = subscribers'[q][m].i => StandsFor(q, p, i)'
    BY <1>1 DEF SubscribersTell
  <2>1. PICK i \in Numbers(p) : i = subscribers'[q][m].i /\ StandsFor(q, p, i)
                              /\ subscribers'[q][m].kind = (IF IsAll(p) THEN "entry" ELSE "race")
    BY DEF SubscribersAsked, Tells, SubscribersTell
  <2>2. StandsFor(q, p, i)'
    BY <2>1, StandsForStays
  <2> QED
    BY <2>1, <2>2
<1>3. QueueTells(p)'
  <2> SUFFICES ASSUME NEW k \in DOMAIN queue', Serves(queue'[k], p)
               PROVE  /\ ~IsAll(p) /\ queue'[k].type = "invoke" /\ queue'[k].subscriber.kind = "race"
                      /\ queue'[k].subscriber.i \in Numbers(p)
                      /\ \A q, e : q = queue'[k].promise /\ e = Nth(p, queue'[k].subscriber.i) => SettledAs(q, e)'
    BY <1>1 DEF QueueTells, SettledAs, Outcome, Value, Settled, Serves
  <2>1. /\ ~IsAll(p) /\ queue'[k].type = "invoke" /\ queue'[k].subscriber.kind = "race"
        /\ queue'[k].subscriber.i \in Numbers(p)
        /\ SettledAs(queue'[k].promise, Nth(p, queue'[k].subscriber.i))
    BY DEF JobsAsked, Tells, QueueTells
  <2>2. queue'[k].promise \in Promises
    <3>1. queue'[k] \in Jobs
      BY <1>1 DEF TypeOK
    <3> QED
      BY <2>1, <3>1 DEF Jobs
  <2>3. \A q, e : q = queue'[k].promise /\ e = Nth(p, queue'[k].subscriber.i) => SettledAs(q, e)'
    BY <1>1, <2>1, <2>2, SettledAsStays
  <2> QED
    BY <2>1, <2>3
<1>4. NoObjectTells(p)'
  BY <1>1, NoObjectIsGiven DEF Tells
<1> QED
  BY <1>2, <1>3, <1>4 DEF Tells

\* Who is told of nothing new is told of entries.
LEMMA TellsAsBefore ==
  ASSUME NEW p \in Promises, StepFor(p), Tells(p), SubsKept(p), JobsKept(p)
  PROVE  Tells(p)'
BY TellsStay DEF SubsKept, JobsKept, SubscribersAsked, JobsAsked
-----------------------------------------------------------------------------
(* What is done for p. *)

\* p is settled as its entry i.
EndsBy(p, i) ==
  /\ Pending(p) /\ Counts(p, i) /\ Settle(p, Outcome(Nth(p, i)), Value(Nth(p, i)))
  /\ UNCHANGED array

\* The value of the entry i is kept.
Collects(p, i) ==
  /\ Pending(p) /\ IsAll(p) /\ Outcome(Nth(p, i)) = "fulfilled"
  /\ remaining' = [remaining EXCEPT ![p] = @ - 1]
  /\ array' = [array EXCEPT ![p][i] = Value(Nth(p, i))]
  /\ \/ remaining[p] = 1 /\ Settle(p, "fulfilled", ArrayOf(p))
     \/ UNCHANGED <<core, order, queueV>>

TooLate(p) == ~Pending(p) /\ UNCHANGED <<core, order, queueV>>
Keeps(p, i) == /\ IsAll(p) /\ Outcome(Nth(p, i)) = "fulfilled"
               /\ array' = [array EXCEPT ![p][i] = Value(Nth(p, i))]

\* The loop comes to the entry i of p.
LoopAt(p, i) ==
  /\ LoopFor(p) /\ InLoop /\ i = loop.i /\ i \in Numbers(p) /\ ToCome(p, i)
  /\ Entry = Nth(p, i) /\ loop.kind = asked[p].kind /\ loop.entries = asked[p].entries

LEMMA LoopOf ==
  ASSUME NEW p \in Promises, StepFor(p), LoopFor(p)
  PROVE  /\ loop \in Loop /\ loop.kind = asked[p].kind /\ loop.kind \in {"all", "race"}
         /\ loop.entries = asked[p].entries /\ loop.i \in Nat
         /\ InLoop => \E i \in Nat : LoopAt(p, i)
<1>1. TypeOK /\ Many(p)
  BY StepForFacts
<1>2. loop \in Loop /\ loop # None /\ loop.to = p
  BY <1>1 DEF TypeOK, LoopFor
<1>3. loop.kind # "async"
  BY <1>1, <1>2 DEF StepFor, HInv, HandsInvariant, Others, OthersAreApart, Awaits
<1>4. loop.kind = asked[p].kind /\ loop.entries = asked[p].entries
  BY <1>2, <1>3 DEF StepFor, AnswerBase, LoopIsFor
<1>5. loop.kind \in {"all", "race"} /\ loop.i \in Nat /\ loop.i >= 1 /\ loop.entries \in Seq(Values)
  BY <1>2, <1>3 DEF Loop
<1>6. InLoop => loop.i \in DOMAIN loop.entries
  BY <1>5 DEF InLoop
<1>7. InLoop => LoopAt(p, loop.i)
  BY <1>2, <1>4, <1>5, <1>6 DEF LoopAt, LoopFor, Numbers, Entries, Nth, Entry, ToCome
<1> QED
  BY <1>2, <1>4, <1>5, <1>7

\* The loop goes on to the next entry.
LEMMA NextOf ==
  ASSUME NEW p \in Promises, StepFor(p), NEW i, LoopAt(p, i), NextEntry
  PROVE  /\ LoopFor(p)' /\ loop'.kind = loop.kind
         /\ \A j \in Numbers(p) : ToCome(p, j)' <=> ToCome(p, j) /\ j # i
<1>1. loop \in Loop /\ loop.i \in Nat /\ loop # None /\ loop.to = p /\ i = loop.i /\ InLoop /\ TypeOK
  BY LoopOf, StepForFacts DEF LoopAt, LoopFor
<1>2. LoopGoesOn /\ loop'.i = loop.i + 1
  BY <1>1, NextEntryGoesOn
<1>3. \A j \in Numbers(p) : j \in Nat
  BY StepForFacts, AskedIs DEF StepFor
<1> QED
  BY <1>1, <1>2, <1>3 DEF LoopFor, ToCome, LoopGoesOn

LEMMA SettledEntryOf ==
  ASSUME NEW p \in Promises, StepFor(p), LoopFor(p), SettledEntry
  PROVE  \E i \in Numbers(p) :
           /\ LoopAt(p, i) /\ IsAll(p) /\ Effect /\ NoTurn /\ SubsKept(p) /\ JobsKept(p)
           /\ Outcome(Nth(p, i)) # "pending" /\ NextEntry
           /\ \/ TooLate(p) /\ (UNCHANGED array \/ Keeps(p, i))
              \/ EndsBy(p, i) \/ Collects(p, i)
<1>1. /\ TypeOK /\ IInv /\ HInv /\ Asks(p) /\ Final /\ NoPromiseIsValue
      /\ p \in Promises
  BY StepForFacts DEF StepFor, HInv, HandsInvariant
<1>2. PICK i \in Numbers(p) : LoopAt(p, i)
  BY LoopOf DEF SettledEntry, LoopAt
<1>3. IsAll(p) /\ NextEntry
  BY <1>2 DEF SettledEntry, LoopAt, IsAll
<1>4. Effect /\ NoTurn
  BY <1>1, LoopActs DEF LoopStep, NoTurn
<1>5. PICK e : e = Nth(p, i) /\ e = Entry
  BY <1>2 DEF LoopAt
<1>6. CASE e \in Promises /\ Settled(e) /\ SettledAt(p, i, state[e], result[e])
  <2>1. Outcome(e) = state[e] /\ Value(e) = result[e] /\ Outcome(e) \in {"fulfilled", "rejected"}
        /\ result[e] \in Values \cup {None}
    BY <1>1, <1>6 DEF Outcome, Value, Settled, TypeOK
  <2>2. SubsKept(p) /\ JobsKept(p)
    <3>1. CASE UNCHANGED <<core, order, queueV>>
      BY <3>1, CoreStays DEF SubsKept, JobsKept, core, queueV
    <3>2. CASE Settle(p, "rejected", result[e]) \/ Settle(p, "fulfilled", ArrayOf(p))
      <4>1. ArrayOf(p) \in Values
        BY DEF Values
      <4> QED
        BY <1>1, <2>1, <3>2, <4>1, SettlePasses
    <3> QED
      BY <1>6, <3>1, <3>2 DEF SettledAt, Reject, Fulfill
  <2>3. (TooLate(p) /\ UNCHANGED array) \/ EndsBy(p, i) \/ Collects(p, i)
    BY <1>3, <1>5, <1>6, <2>1 DEF SettledAt, TooLate, EndsBy, Collects, Counts, Reject, Fulfill
  <2> QED
    BY <1>2, <1>3, <1>4, <1>5, <2>1, <2>2, <2>3
<1>7. CASE /\ e \notin Promises \cup Thenables
           /\ remaining' = [remaining EXCEPT ![p] = @ - 1]
           /\ array' = [array EXCEPT ![p][i] = e]
           /\ UNCHANGED <<core, order, queueV>>
  <2>1. Outcome(e) = "fulfilled" /\ Value(e) = e
    BY <1>7 DEF Outcome, Value
  <2>2. SubsKept(p) /\ JobsKept(p)
    BY <1>7 DEF SubsKept, JobsKept, core, queueV
  <2>3. (TooLate(p) /\ Keeps(p, i)) \/ Collects(p, i)
    BY <1>3, <1>5, <1>7, <2>1 DEF TooLate, Keeps, Collects
  <2> QED
    BY <1>2, <1>3, <1>4, <1>5, <2>1, <2>2, <2>3
<1> QED
  BY <1>2, <1>5, <1>6, <1>7 DEF SettledEntry, LoopAt, LoopFor

LEMMA EndLoopOf ==
  ASSUME NEW p \in Promises, StepFor(p), LoopFor(p), EndLoop
  PROVE  /\ Effect /\ NoTurn /\ SubsKept(p) /\ JobsKept(p) /\ UNCHANGED <<array, remaining>>
         /\ ~LoopFor(p)' /\ (\A i \in Numbers(p) : ~ToCome(p, i) /\ ~ToCome(p, i)')
         /\ \/ remaining[p] = 0 /\ IsAll(p) /\ Settle(p, "fulfilled", ArrayOf(p))
            \/ (IsAll(p) => remaining[p] # 0) /\ UNCHANGED <<core, order, queueV>>
<1>1. TypeOK /\ IInv /\ ArrayOf(p) \in Values
  BY StepForFacts DEF Values
<1>2. /\ loop \in Loop /\ loop.kind = asked[p].kind /\ loop.entries = asked[p].entries /\ loop.i \in Nat
      /\ loop # None /\ loop.to = p
  BY LoopOf DEF LoopFor
<1>3. \/ remaining[p] = 0 /\ IsAll(p) /\ Settle(p, "fulfilled", ArrayOf(p))
      \/ (IsAll(p) => remaining[p] # 0) /\ UNCHANGED <<core, order, queueV>>
  BY <1>2 DEF EndLoop, IsAll, Fulfill
<1>4. Effect /\ SubsKept(p) /\ JobsKept(p)
  <2>1. CASE UNCHANGED <<core, order, queueV>>
    BY <2>1, NoEffect DEF SubsKept, JobsKept, core, queueV
  <2>2. CASE Settle(p, "fulfilled", ArrayOf(p))
    BY <1>1, <2>2, SettlePasses, SettleHasEffect
  <2> QED
    BY <1>3, <2>1, <2>2
<1>5. NoTurn /\ UNCHANGED <<array, remaining>>
  BY DEF EndLoop, NoTurn, flushV
<1>6. \A i \in Numbers(p) : i \in Nat /\ i <= Len(asked[p].entries) /\ Len(asked[p].entries) \in Nat
  BY StepForFacts, AskedIs DEF StepFor
<1>7. \A i \in Numbers(p) : ~ToCome(p, i)
  BY <1>2, <1>6 DEF ToCome, EndLoop
<1>8. loop' = None
  BY DEF EndLoop
<1> QED
  BY <1>3, <1>4, <1>5, <1>7, <1>8 DEF LoopFor, ToCome

\* The outcome that p is told is that of the entry.
LEMMA ToldIsEntry ==
  ASSUME HInv, NEW p \in Promises, Asks(p), NEW q \in Promises, Settled(q), NEW i \in Numbers(p),
         StandsFor(q, p, i)
  PROVE  SettledAs(q, Nth(p, i))
<1>1. CASE IsAll(p)
  <2>1. PICK e \in Promises : e = Nth(p, i) /\ MadeFor(q, e)
    BY <1>1 DEF StandsFor
  <2>2. ~(state[e] = "fulfilled" /\ result[e] \in Thenables)
    BY <2>1, EntryIsPlain
  <2>3. SameOutcome(q, e)
    BY <2>1, <2>2, MadeForIsLinked DEF Pending, Settled
  <2> QED
    BY <2>1, <2>3 DEF SameOutcome, SettledAs, Outcome, Value
<1>2. CASE ~IsAll(p)
  BY <1>2 DEF StandsFor, SettledAs, Outcome, Value
<1> QED
  BY <1>1, <1>2

\* The turn of s comes, which tells p of its entry i.
TurnOfEntry(p, i) ==
  /\ loop = None /\ loop' = None /\ running = None /\ Effect /\ PassesTurn
  /\ \/ \E q \in Promises : queue[at] = Publish(q) /\ at \in DOMAIN queue /\ HeardFrom(q, pos, p, i)
     \/ HeardIn(at, p, i)
  /\ Outcome(Nth(p, i)) # "pending"
  /\ SubsKept(p) /\ JobsKept(p)
  /\ \/ TooLate(p) /\ UNCHANGED array
     \/ EndsBy(p, i)
     \/ Collects(p, i) /\ (remaining[p] = 1 => ~Pending(p)')

LEMMA TurnToEntry ==
  ASSUME NEW p \in Promises, StepFor(p), Tells(p), NEW s \in Subscriber, NEW q \in Promises,
         TurnIs(s, q), s.to = p
  PROVE  \E i \in Numbers(p) : TurnOfEntry(p, i)
<1>1. /\ TypeOK /\ IInv /\ HInv /\ Asks(p) /\ NoPromiseIsValue
  BY StepForFacts DEF StepFor, HInv, HandsInvariant
<1>2. PICK i : i = s.i
  OBVIOUS
<1>3. /\ i \in Numbers(p) /\ SettledAs(q, Nth(p, i)) /\ s.kind = (IF IsAll(p) THEN "entry" ELSE "race")
      /\ \/ queue[at] = Publish(q) /\ pos \in DOMAIN subscribers[q] /\ subscribers[q][pos] = s
         \/ queue[at].type = "invoke" /\ queue[at].subscriber = s
  <2>1. CASE queue[at] = Publish(q) /\ pos \in DOMAIN subscribers[q] /\ s = subscribers[q][pos]
    <3>1. i \in Numbers(p) /\ StandsFor(q, p, i) /\ s.kind = (IF IsAll(p) THEN "entry" ELSE "race")
      BY <1>2, <2>1 DEF Tells, SubscribersTell
    <3>2. SettledAs(q, Nth(p, i))
      BY <1>1, <3>1, ToldIsEntry DEF TurnIs
    <3> QED
      BY <2>1, <3>1, <3>2
  <2>2. CASE queue[at].type = "invoke" /\ queue[at].subscriber = s /\ queue[at].promise = q
    <3>1. Serves(queue[at], p) /\ at \in DOMAIN queue
      BY <2>2 DEF Serves, TurnIs
    <3> QED
      BY <1>2, <2>2, <3>1 DEF Tells, QueueTells
  <2> QED
    BY <2>1, <2>2 DEF TurnIs
<1>4. \/ \E r \in Promises : queue[at] = Publish(r) /\ at \in DOMAIN queue /\ HeardFrom(r, pos, p, i)
      \/ HeardIn(at, p, i)
  <2>1. at \in Nat /\ pos \in Nat /\ at \in DOMAIN queue /\ running = None
    BY <1>1 DEF TypeOK, TurnIs
  <2>2. ~SubscriberHadTurn(q, pos) /\ ~EntryHadTurn(at)
    BY <2>1 DEF SubscriberHadTurn, EntryHadTurn
  <2> QED
    BY <1>2, <1>3, <2>1, <2>2 DEF HeardFrom, HeardIn
<1>5. PICK e : e = Nth(p, i)
  OBVIOUS
<1>6. /\ Settled(q) /\ state[q] = Outcome(e) /\ result[q] = Value(e) /\ Outcome(e) \in {"fulfilled", "rejected"}
      /\ state[q] = "fulfilled" => result[q] \in Values \ (Promises \cup Broken \cup Thenables)
      /\ result[q] \in Values \cup {None}
  <2>1. Settled(q) /\ state[q] = Outcome(e) /\ result[q] = Value(e) /\ Outcome(e) \in {"fulfilled", "rejected"}
    BY <1>3, <1>5 DEF SettledAs, Settled
  <2>2. state[q] = "fulfilled" => result[q] \notin Thenables
    <3>1. Outcome(Nth(p, i)) = "fulfilled" => Value(Nth(p, i)) \notin Thenables
      BY <1>1, <1>3, EntryIsPlain
    <3> QED
      BY <1>5, <2>1, <3>1
  <2>3. IsValue(q)
    BY <1>1 DEF NoPromiseIsValue
  <2> QED
    BY <1>1, <2>1, <2>2, <2>3 DEF IsValue, TypeOK
<1>7. \/ TooLate(p) /\ UNCHANGED array
      \/ EndsBy(p, i)
      \/ Collects(p, i) /\ (remaining[p] = 1 => ~Pending(p)')
  <2>1. CASE IsAll(p)
    <3>1. SettledAt(p, i, Outcome(e), Value(e))
      BY <1>2, <1>3, <1>6, <2>1 DEF TurnIs, Call
    <3>2. CASE ~Pending(p)
      BY <3>1, <3>2 DEF SettledAt, TooLate
    <3>3. CASE Pending(p) /\ Outcome(e) = "rejected"
      BY <1>5, <2>1, <3>1, <3>3 DEF SettledAt, EndsBy, Counts, Reject
    <3>4. CASE Pending(p) /\ Outcome(e) = "fulfilled"
      <4>1. Collects(p, i) /\ (remaining[p] = 1 => Settle(p, "fulfilled", ArrayOf(p)))
        BY <1>5, <2>1, <3>1, <3>4 DEF SettledAt, Collects, Fulfill
      <4>2. Settle(p, "fulfilled", ArrayOf(p)) => ~Pending(p)'
        BY <1>1, <3>4 DEF Settle, Pending, TypeOK
      <4> QED
        BY <4>1, <4>2
    <3> QED
      BY <1>6, <3>2, <3>3, <3>4
  <2>2. CASE ~IsAll(p)
    <3>1. UNCHANGED array /\ Settle(p, Outcome(e), Value(e))
      <4>1. UNCHANGED array
            /\ IF state[q] = "fulfilled" THEN Resolve(p, result[q]) ELSE Reject(p, result[q])
        BY <1>3, <2>2 DEF TurnIs, Call
      <4>2. CASE state[q] = "fulfilled"
        <5>1. result[q] \notin Promises /\ result[q] \notin Broken /\ result[q] \notin Thenables /\ result[q] # p
          BY <1>6, <4>2
        <5> QED
          BY <1>6, <4>1, <4>2, <5>1 DEF Resolve, Fulfill
      <4>3. CASE state[q] # "fulfilled"
        BY <1>6, <4>1, <4>3 DEF Reject
      <4> QED
        BY <4>2, <4>3
    <3>2. Counts(p, i)
      BY <1>5, <1>6, <2>2 DEF Counts
    <3> QED
      BY <1>5, <3>1, <3>2 DEF Settle, TooLate, EndsBy
  <2> QED
    BY <2>1, <2>2
<1>8. SubsKept(p) /\ JobsKept(p)
  <2>1. CASE UNCHANGED <<core, order, queueV>>
    BY <2>1, NoEffect DEF SubsKept, JobsKept, core, queueV
  <2>2. CASE Settle(p, Outcome(e), Value(e)) \/ Settle(p, "fulfilled", ArrayOf(p))
    <3>1. ArrayOf(p) \in Values /\ Value(e) \in Values \cup {None}
      BY <1>6 DEF Values
    <3> QED
      BY <1>1, <1>6, <2>2, <3>1, SettlePasses
  <2> QED
    BY <1>5, <1>7, <2>1, <2>2 DEF TooLate, EndsBy, Collects
<1> QED
  BY <1>3, <1>4, <1>5, <1>6, <1>7, <1>8 DEF TurnOfEntry, TurnIs

\* p waits for q, which stands for its entry i.
WaitsMore(p, i, q, s) ==
  /\ Pending(q) /\ StandsFor(q, p, i) /\ UNCHANGED queue
  /\ (IsAll(p) => Nth(p, i) \in Promises /\ Pending(Nth(p, i)))
  /\ subscribers' = [subscribers EXCEPT ![q] = Append(@, s)]

\* p will be told of q, which has the outcome of its entry i.
WillTell(p, i, q, s) ==
  /\ ~IsAll(p) /\ SettledAs(q, Nth(p, i))
  /\ UNCHANGED subscribers /\ queue' = Append(queue, Invoke(q, s))

LEMMA WaitOf ==
  ASSUME NEW p \in Promises, StepFor(p), LoopFor(p), WaitForEntry
  PROVE  /\ Effect /\ NoTurn /\ NextEntry
         /\ UNCHANGED <<state, result, order, array, remaining, open, again, meant, at, pos, running>>
         /\ \E i \in Numbers(p), q \in Promises, s \in Subscriber :
              /\ LoopAt(p, i) /\ s.to = p /\ s.i = i /\ s.kind = (IF IsAll(p) THEN "entry" ELSE "race")
              /\ WaitsMore(p, i, q, s) \/ WillTell(p, i, q, s)
<1>1. /\ TypeOK /\ IInv /\ HInv /\ Asks(p) /\ p \in Promises
  BY StepForFacts DEF StepFor, HInv
<1>2. PICK i \in Numbers(p) : LoopAt(p, i)
  BY LoopOf DEF WaitForEntry, LoopAt
<1>3. loop.inner \in Promises /\ loop.inner # None /\ loop.to = p /\ loop # None /\ InLoop /\ loop.i \in Nat
  BY <1>1, EntryOfLoop DEF WaitForEntry, LoopFor
<1>4. PICK q \in Promises, e \in Values : q = loop.inner /\ e = Nth(p, i) /\ e = Entry
  BY <1>1, <1>2, <1>3, AskedIs DEF LoopAt, StepFor, Asks
<1>5. Effect /\ NoTurn
  BY <1>1, LoopActs DEF LoopStep, NoTurn
<1>6. UNCHANGED <<array, remaining, open, again, meant, at, pos, running>> /\ NextEntry
  BY DEF WaitForEntry, flushV, history
<1>7. /\ loop.kind = asked[p].kind /\ loop.entries = asked[p].entries /\ loop.kind \in {"all", "race"} /\ i = loop.i
      /\ e \in Promises \cup Plain /\ e \notin Thenables
  BY <1>1, <1>2, <1>4, LoopOf, EntryIsPlain DEF LoopAt
<1>8. /\ loop.kind = "all" => /\ MadeFor(q, e) /\ (\A j \in Numbers(p) : Nth(p, j) # q)
                              /\ e \in Promises /\ Pending(e)
      /\ loop.kind = "race" => (e \in Promises => q = e) /\ (e \in Plain => SettledAs(q, e))
  <2>1. InnerIsFor
    BY DEF StepFor, AnswerBase
  <2> QED
    BY <1>3, <1>4, <1>7, <2>1 DEF InnerIsFor, Numbers, Nth, Entries
<1>9. \A kind \in {"entry", "race"} :
        Awaiter(kind) \in Subscriber /\ Awaiter(kind).to = p /\ Awaiter(kind).i = loop.i /\ Awaiter(kind).kind = kind
  BY <1>3 DEF Awaiter, Subscriber, Kinds
<1>10. CASE loop.kind = "all"
  <2>1. Pending(q)
    <3>1. e \in Promises /\ MadeFor(q, e) /\ ~Settled(e)
      BY <1>8, <1>10 DEF Pending, Settled
    <3>2. ~(state[e] = "fulfilled" /\ result[e] \in Thenables)
      BY <3>1 DEF Settled
    <3> QED
      BY <1>1, <3>1, <3>2, MadeForIsLinked DEF SameOutcome
  <2>2. PICK s \in Subscriber : s = Awaiter("entry") /\ s.to = p /\ s.i = i /\ s.kind = "entry"
    BY <1>1, <1>7, <1>9
  <2>3. Subscribe(q, s)
    BY <1>4, <1>10, <2>2 DEF WaitForEntry
  <2>4. UNCHANGED <<state, result, order, queue>> /\ subscribers' = [subscribers EXCEPT ![q] = Append(@, s)]
    BY <2>1, <2>3 DEF Subscribe, Pending, Settled, queueV
  <2>5. IsAll(p) /\ StandsFor(q, p, i)
    BY <1>4, <1>7, <1>8, <1>10 DEF IsAll, StandsFor
  <2>6. WaitsMore(p, i, q, s)
    BY <1>4, <1>8, <1>10, <2>1, <2>4, <2>5 DEF WaitsMore
  <2> QED
    BY <1>2, <1>5, <1>6, <2>2, <2>4, <2>5, <2>6
<1>11. CASE loop.kind = "race"
  <2>1. PICK s \in Subscriber : s = Awaiter("race") /\ s.to = p /\ s.i = i /\ s.kind = "race"
    BY <1>1, <1>7, <1>9
  <2>2. ThenDo(q, s) /\ ~IsAll(p)
    BY <1>4, <1>7, <1>11, <2>1 DEF WaitForEntry, IsAll
  <2>3. CASE Pending(q)
    <3>1. q = e
      BY <1>7, <1>8, <1>11, <2>3 DEF SettledAs, Settled, Pending
    <3>2. UNCHANGED <<state, result, order, queue>> /\ subscribers' = [subscribers EXCEPT ![q] = Append(@, s)]
      BY <2>2, <2>3 DEF ThenDo, Subscribe, Pending, Settled, queueV
    <3>3. WaitsMore(p, i, q, s)
      BY <1>4, <2>2, <2>3, <3>1, <3>2 DEF WaitsMore, StandsFor
    <3> QED
      BY <1>2, <1>5, <1>6, <2>1, <2>2, <3>2, <3>3
  <2>4. CASE ~Pending(q)
    <3>1. Settled(q)
      BY <1>1, <2>4 DEF TypeOK, Settled, Pending
    <3>2. SettledAs(q, e)
      BY <1>7, <1>8, <1>11, <3>1 DEF SettledAs, Outcome, Value
    <3>3. UNCHANGED <<state, result, order, subscribers>> /\ queue' = Append(queue, Invoke(q, s))
      BY <2>2, <2>4 DEF ThenDo, Asap, core
    <3>4. WillTell(p, i, q, s)
      BY <1>4, <2>2, <3>2, <3>3 DEF WillTell
    <3> QED
      BY <1>2, <1>5, <1>6, <2>1, <2>2, <3>3, <3>4
  <2> QED
    BY <2>3, <2>4
<1> QED
  BY <1>7, <1>10, <1>11

\* Who is heard when p waits for one more entry.
HeardMore(p, i) ==
  /\ \A j : j # i => HeardSame(p, j)
  /\ \/ \E q \in Promises, n \in Nat :
          /\ Pending(q) /\ StandsFor(q, p, i) /\ UNCHANGED queue
          /\ IsAll(p) => Nth(p, i) \in Promises /\ Pending(Nth(p, i))
          /\ HeardFrom(q, n, p, i)'
          /\ \A r \in Promises : \A m : HeardFrom(r, m, p, i)' <=> HeardFrom(r, m, p, i) \/ (r = q /\ m = n)
          /\ \A k : HeardIn(k, p, i)' <=> HeardIn(k, p, i)
     \/ \E q \in Promises, l \in Nat :
          /\ ~IsAll(p) /\ SettledAs(q, Nth(p, i)) /\ l = Len(queue) + 1 /\ Len(queue') = l
          /\ HeardIn(l, p, i)' /\ \A r \in Promises : queue'[l] # Publish(r)
          /\ \A r \in Promises : \A m : HeardFrom(r, m, p, i)' <=> HeardFrom(r, m, p, i)
          /\ \A k : HeardIn(k, p, i)' <=> HeardIn(k, p, i) \/ k = l

LEMMA WaitHeard ==
  ASSUME NEW p \in Promises, StepFor(p), NEW i \in Numbers(p), NEW q \in Promises, NEW s \in Subscriber,
         UNCHANGED <<state, at, pos, running>>, s.to = p, s.i = i,
         WaitsMore(p, i, q, s) \/ WillTell(p, i, q, s)
  PROVE  HeardMore(p, i)
<1>1. TypeOK /\ IInv /\ IInv' /\ subscribers \in [Promises -> Seq(Subscriber)] /\ queue \in Seq(Jobs)
      /\ at \in Nat /\ Len(queue) \in Nat
  <2>1. TypeOK /\ IInv /\ IInv'
    BY StepForFacts
  <2>2. subscribers \in [Promises -> Seq(Subscriber)] /\ queue \in Seq(Jobs) /\ at \in Nat
    BY <2>1 DEF TypeOK
  <2> QED
    BY <2>1, <2>2
<1>2. CASE WaitsMore(p, i, q, s)
  <2> DEFINE n == Len(subscribers[q]) + 1
  <2>1. /\ n \in Nat /\ DOMAIN subscribers'[q] = DOMAIN subscribers[q] \cup {n} /\ subscribers'[q][n] = s
        /\ \A m \in DOMAIN subscribers[q] : subscribers'[q][m] = subscribers[q][m] /\ m # n
        /\ \A r \in Promises : r # q => subscribers'[r] = subscribers[r]
        /\ queue' = queue
    <3>1. subscribers'[q] = Append(subscribers[q], s) /\ subscribers[q] \in Seq(Subscriber)
          /\ \A r \in Promises : r # q => subscribers'[r] = subscribers[r]
      BY <1>1, <1>2 DEF WaitsMore
    <3> QED
      BY <1>2, <3>1 DEF WaitsMore
  <2>2. \A r \in Promises : \A m : SubscriberHadTurn(r, m)' <=> SubscriberHadTurn(r, m)
    BY <2>1 DEF SubscriberHadTurn, Publish
  <2>3. \A k : EntryHadTurn(k)' <=> EntryHadTurn(k)
    BY DEF EntryHadTurn
  <2>4. ~SubscriberHadTurn(q, n)
    <3>1. Pending(q) /\ QueuedAreSettled
      BY <1>1, <1>2 DEF WaitsMore, IInv
    <3>2. at \in DOMAIN queue => queue[at] # Publish(q)
      BY <1>2, <3>1, PublishIsJob DEF QueuedAreSettled, Settled, Pending
    <3> QED
      BY <3>2 DEF SubscriberHadTurn
  <2>5. PICK l \in Nat : l = n
    BY <2>1
  <2>6. \A r \in Promises : \A m, j : HeardFrom(r, m, p, j)' <=> HeardFrom(r, m, p, j) \/ (r = q /\ m = l /\ j = i)
    <3> HIDE DEF n
    <3> SUFFICES ASSUME NEW r \in Promises, NEW m, NEW j
                 PROVE  HeardFrom(r, m, p, j)' <=> HeardFrom(r, m, p, j) \/ (r = q /\ m = l /\ j = i)
      OBVIOUS
    <3>1. CASE r # q
      BY <2>1, <2>2, <3>1 DEF HeardFrom
    <3>2. CASE r = q /\ m # l
      BY <2>1, <2>2, <2>5, <3>2 DEF HeardFrom
    <3>3. CASE r = q /\ m = l
      BY <2>1, <2>2, <2>4, <2>5, <3>3 DEF HeardFrom
    <3> QED
      BY <3>1, <3>2, <3>3
  <2>7. \A k, j : HeardIn(k, p, j)' <=> HeardIn(k, p, j)
    BY <2>1, <2>3 DEF HeardIn
  <2>8. \A j : j # i => HeardSame(p, j)
    BY <2>6, <2>7 DEF HeardSame
  <2>9. HeardFrom(q, l, p, i)'
    BY <2>6
  <2> QED
    BY <1>2, <2>6, <2>7, <2>8, <2>9 DEF HeardMore, WaitsMore
<1>3. CASE WillTell(p, i, q, s)
  <2>1. /\ DOMAIN queue' = DOMAIN queue \cup {Len(queue) + 1} /\ queue'[Len(queue) + 1] = Invoke(q, s)
        /\ \A k \in DOMAIN queue : queue'[k] = queue[k] /\ k # Len(queue) + 1
        /\ Len(queue') = Len(queue) + 1 /\ subscribers' = subscribers
    <3>1. Invoke(q, s) \in Jobs
      BY DEF Invoke, Jobs
    <3> QED
      BY <1>1, <1>3, <3>1 DEF WillTell
  <2>2. PICK l \in Nat : l = Len(queue) + 1
    BY <1>1
  <2>3. at <= Len(queue) + 1 /\ (running # None => at \in DOMAIN queue)
    BY <1>1 DEF IInv, TurnOK
  <2>4. \A r \in Promises : Publish(r) # Invoke(q, s)
    BY DEF Publish, Invoke
  <2>5. Invoke(q, s).type = "invoke" /\ Invoke(q, s).subscriber = s
    BY DEF Invoke
  <2>6. \A r \in Promises : \A m : SubscriberHadTurn(r, m)' <=> SubscriberHadTurn(r, m)
    BY <2>1, <2>4 DEF SubscriberHadTurn, Publish
  <2>7. \A k : EntryHadTurn(k)' <=> EntryHadTurn(k)
    BY DEF EntryHadTurn
  <2>8. ~EntryHadTurn(l)
    <3>1. ~(l < at)
      BY <1>1, <2>2, <2>3
    <3>2. running # None => l # at
      BY <2>1, <2>2, <2>3
    <3> QED
      BY <3>1, <3>2 DEF EntryHadTurn
  <2>9. \A r \in Promises : \A m, j : HeardFrom(r, m, p, j)' <=> HeardFrom(r, m, p, j)
    BY <2>1, <2>6 DEF HeardFrom
  <2>10. \A k, j : HeardIn(k, p, j)' <=> HeardIn(k, p, j) \/ (k = l /\ j = i)
    <3> SUFFICES ASSUME NEW k, NEW j PROVE HeardIn(k, p, j)' <=> HeardIn(k, p, j) \/ (k = l /\ j = i)
      OBVIOUS
    <3>1. CASE k # l
      BY <2>1, <2>2, <2>7, <3>1 DEF HeardIn
    <3>2. CASE k = l
      BY <2>1, <2>2, <2>5, <2>7, <2>8, <3>2 DEF HeardIn
    <3> QED
      BY <3>1, <3>2
  <2>11. \A j : j # i => HeardSame(p, j)
    BY <2>9, <2>10 DEF HeardSame
  <2>12. HeardIn(l, p, i)'
    BY <2>10
  <2>13. \A r \in Promises : queue'[l] # Publish(r)
    BY <2>1, <2>2, <2>4
  <2>14. ~IsAll(p) /\ SettledAs(q, Nth(p, i)) /\ Len(queue') = l
    BY <1>3, <2>1, <2>2 DEF WillTell
  <2> QED
    BY <2>2, <2>9, <2>10, <2>11, <2>12, <2>13, <2>14 DEF HeardMore
<1> QED
  BY <1>2, <1>3

-----------------------------------------------------------------------------
(* A step, as far as p is concerned. *)

\* The loop takes the entry i, which has its outcome.
EntryStep(p, i) ==
  /\ LoopAt(p, i) /\ IsAll(p) /\ Outcome(Nth(p, i)) # "pending"
  /\ LoopFor(p)' /\ \A j \in Numbers(p) : ToCome(p, j)' <=> ToCome(p, j) /\ j # i
  /\ \A j : HeardSame(p, j)
  /\ \/ TooLate(p) /\ (UNCHANGED array \/ Keeps(p, i))
     \/ EndsBy(p, i) \/ Collects(p, i)

\* The loop waits for the entry i.
WaitStep(p, i) ==
  /\ LoopAt(p, i) /\ HeardMore(p, i)
  /\ LoopFor(p)' /\ \A j \in Numbers(p) : ToCome(p, j)' <=> ToCome(p, j) /\ j # i
  /\ UNCHANGED <<state, result, order, array, remaining, at>>

\* The loop is over.
EndStep(p) ==
  /\ LoopFor(p) /\ ~LoopFor(p)'
  /\ \A j \in Numbers(p) : ~ToCome(p, j) /\ ~ToCome(p, j)'
  /\ \A j : HeardSame(p, j)
  /\ UNCHANGED <<array, remaining>>
  /\ \/ remaining[p] = 0 /\ IsAll(p) /\ Settle(p, "fulfilled", ArrayOf(p))
     \/ (IsAll(p) => remaining[p] # 0) /\ UNCHANGED <<core, order, queueV>>

\* p is told of the entry i.
TurnStep(p, i) ==
  /\ TurnOfEntry(p, i) /\ ~LoopFor(p) /\ ~LoopFor(p)'
  /\ \A j : ~ToCome(p, j) /\ ~ToCome(p, j)' /\ HeardButOne(p, j)

LEMMA StepCases ==
  ASSUME NEW p \in Promises, StepFor(p), Tells(p)
  PROVE  \/ Steady(p) \/ EndStep(p)
         \/ \E i \in Numbers(p) : EntryStep(p, i) \/ WaitStep(p, i) \/ TurnStep(p, i)
<1>1. IInv /\ Numbers(p)' = Numbers(p)
  BY StepForFacts
<1>2. CASE LoopFor(p) /\ SettledEntry
  <2>1. PICK i \in Numbers(p) :
          /\ LoopAt(p, i) /\ IsAll(p) /\ Effect /\ NoTurn /\ SubsKept(p) /\ JobsKept(p)
          /\ Outcome(Nth(p, i)) # "pending" /\ NextEntry
          /\ \/ TooLate(p) /\ (UNCHANGED array \/ Keeps(p, i))
             \/ EndsBy(p, i) \/ Collects(p, i)
    BY <1>2, SettledEntryOf
  <2>2. \A j : HeardSame(p, j)
    BY <1>1, <2>1, NoTurnHeard
  <2>3. LoopFor(p)' /\ \A j \in Numbers(p) : ToCome(p, j)' <=> ToCome(p, j) /\ j # i
    BY <2>1, NextOf
  <2> QED
    BY <2>1, <2>2, <2>3 DEF EntryStep
<1>3. CASE LoopFor(p) /\ WaitForEntry
  <2>1. /\ NextEntry /\ UNCHANGED <<state, result, order, array, remaining, at, pos, running>>
        /\ \E i \in Numbers(p), q \in Promises, s \in Subscriber :
             /\ LoopAt(p, i) /\ s.to = p /\ s.i = i /\ s.kind = (IF IsAll(p) THEN "entry" ELSE "race")
             /\ WaitsMore(p, i, q, s) \/ WillTell(p, i, q, s)
    BY <1>3, WaitOf
  <2>2. PICK i \in Numbers(p), q \in Promises, s \in Subscriber :
          LoopAt(p, i) /\ s.to = p /\ s.i = i /\ (WaitsMore(p, i, q, s) \/ WillTell(p, i, q, s))
    BY <2>1
  <2>3. HeardMore(p, i)
    BY <2>1, <2>2, WaitHeard
  <2>4. LoopFor(p)' /\ \A j \in Numbers(p) : ToCome(p, j)' <=> ToCome(p, j) /\ j # i
    BY <2>1, <2>2, NextOf
  <2> QED
    BY <2>1, <2>2, <2>3, <2>4 DEF WaitStep
<1>4. CASE LoopFor(p) /\ EndLoop
  <2>1. /\ Effect /\ NoTurn /\ SubsKept(p) /\ JobsKept(p) /\ UNCHANGED <<array, remaining>>
        /\ ~LoopFor(p)' /\ (\A i \in Numbers(p) : ~ToCome(p, i) /\ ~ToCome(p, i)')
        /\ \/ remaining[p] = 0 /\ IsAll(p) /\ Settle(p, "fulfilled", ArrayOf(p))
           \/ (IsAll(p) => remaining[p] # 0) /\ UNCHANGED <<core, order, queueV>>
    BY <1>4, EndLoopOf
  <2>2. \A j : HeardSame(p, j)
    BY <1>1, <2>1, NoTurnHeard
  <2> QED
    BY <1>4, <2>1, <2>2 DEF EndStep
<1>5. CASE \E s \in Subscriber, q \in Promises : TurnIs(s, q) /\ s.to = p
  <2>1. PICK i \in Numbers(p) : TurnOfEntry(p, i)
    BY <1>5, TurnToEntry
  <2>2. \A j : HeardButOne(p, j)
    BY <1>1, <2>1, TurnHeard DEF TurnOfEntry
  <2>3. ~LoopFor(p) /\ ~LoopFor(p)' /\ \A j : ~ToCome(p, j) /\ ~ToCome(p, j)'
    BY <2>1 DEF TurnOfEntry, LoopFor, ToCome
  <2> QED
    BY <2>1, <2>2, <2>3 DEF TurnStep
<1> QED
  BY <1>2, <1>3, <1>4, <1>5, StepForFacts DEF LoopActsFor

LEMMA TellsKept ==
  ASSUME NEW p \in Promises, StepFor(p), Tells(p)
  PROVE  Tells(p)'
<1>1. TypeOK
  BY StepForFacts
<1>2. CASE Steady(p)
  BY <1>2, TellsAsBefore DEF Steady, Kept
<1>3. CASE LoopFor(p) /\ (SettledEntry \/ EndLoop)
  BY <1>3, SettledEntryOf, EndLoopOf, TellsAsBefore
<1>4. CASE LoopFor(p) /\ WaitForEntry
  <2>1. PICK i \in Numbers(p), q \in Promises, s \in Subscriber :
             /\ s.to = p /\ s.i = i /\ s.kind = (IF IsAll(p) THEN "entry" ELSE "race")
             /\ WaitsMore(p, i, q, s) \/ WillTell(p, i, q, s)
    BY <1>4, WaitOf
  <2>2. CASE WaitsMore(p, i, q, s)
    <3>1. subscribers' = [subscribers EXCEPT ![q] = Append(@, s)] /\ StandsFor(q, p, i) /\ queue' = queue
      BY <2>2 DEF WaitsMore
    <3>2. subscribers[q] \in Seq(Subscriber) /\ DOMAIN subscribers = Promises
      BY <1>1 DEF TypeOK
    <3>3. \A r \in Promises : \A m \in DOMAIN subscribers'[r] :
            \/ m \in DOMAIN subscribers[r] /\ subscribers'[r][m] = subscribers[r][m]
            \/ r = q /\ subscribers'[r][m] = s
      BY <3>1, <3>2
    <3>4. SubscribersAsked(p)
      BY <2>1, <3>1, <3>3 DEF SubscribersAsked
    <3>5. JobsAsked(p)
      BY <3>1 DEF JobsAsked
    <3> QED
      BY <3>4, <3>5, TellsStay
  <2>3. CASE WillTell(p, i, q, s)
    <3>1. queue' = Append(queue, Invoke(q, s)) /\ subscribers' = subscribers /\ ~IsAll(p) /\ SettledAs(q, Nth(p, i))
      BY <2>3 DEF WillTell
    <3>2. queue \in Seq(Jobs) /\ Invoke(q, s) \in Jobs
      BY <1>1 DEF TypeOK, Invoke, Jobs
    <3>3. \A k \in DOMAIN queue' : (k \in DOMAIN queue /\ queue'[k] = queue[k]) \/ queue'[k] = Invoke(q, s)
      BY <3>1, <3>2
    <3>4. Invoke(q, s).type = "invoke" /\ Invoke(q, s).subscriber = s /\ Invoke(q, s).promise = q
      BY DEF Invoke
    <3>5. JobsAsked(p)
      BY <2>1, <3>1, <3>3, <3>4 DEF JobsAsked
    <3>6. SubscribersAsked(p)
      BY <3>1 DEF SubscribersAsked
    <3> QED
      BY <3>5, <3>6, TellsStay
  <2> QED
    BY <2>1, <2>2, <2>3
<1>5. CASE \E s \in Subscriber, q \in Promises : TurnIs(s, q) /\ s.to = p
  BY <1>5, TurnToEntry, TellsAsBefore DEF TurnOfEntry
<1> QED
  BY <1>2, <1>3, <1>4, <1>5, StepForFacts DEF LoopActsFor

-----------------------------------------------------------------------------
(* No entry is lost or counted twice. *)

Counted(p) == NoneIsLost(p) /\ NoneIsTwice(p) /\ NotYet(p) /\ CountIsRight(p)

\* What a fulfilled entry is fulfilled with is something.
LEMMA ValueIsSome ==
  ASSUME HInv, NEW e \in Values, Outcome(e) = "fulfilled"
  PROVE  Value(e) \in Values /\ Value(e) # None
<1>1. CASE e \in Promises
  <2>1. IsValue(e)
    BY <1>1 DEF HInv, HandsInvariant, NoPromiseIsValue
  <2>2. Value(e) = result[e] /\ state[e] = "fulfilled"
    BY <1>1 DEF Value, Outcome
  <2> QED
    BY <2>1, <2>2 DEF IsValue, Values
<1>2. CASE e \notin Promises
  BY <1>2 DEF Value
<1> QED
  BY <1>1, <1>2

LEMMA KeepIsAt ==
  ASSUME NEW p \in Promises, NEW S, NEW i \in S, NEW v, DOMAIN array = Promises,
         array[p] = [k \in S |-> array[p][k]], array' = [array EXCEPT ![p][i] = v]
  PROVE  /\ array'[p][i] = v /\ \A k \in S : k # i => array'[p][k] = array[p][k]
         /\ array'[p] = [k \in S |-> array'[p][k]]
<1>1. array'[p] = [array[p] EXCEPT ![i] = v]
  OBVIOUS
<1>2. DOMAIN array[p] = S
  OBVIOUS
<1> QED
  BY <1>1, <1>2

\* The loop of all() settles no entry.
LEMMA LoopSettlesNone ==
  ASSUME NEW p \in Promises, StepFor(p), LoopFor(p)', NEW i \in Numbers(p), NEW e \in Promises,
         e = Nth(p, i), Pending(e)
  PROVE  Pending(e)'
<1> SUFFICES ASSUME ~Pending(e)' PROVE FALSE
  OBVIOUS
<1>1. TypeOK /\ TypeOK' /\ Many(p)' /\ Many(p) /\ Numbers(p)' = Numbers(p) /\ asked'[p] = asked[p]
  BY StepForFacts DEF StepFor
<1>2. Settled(e)'
  BY <1>1 DEF TypeOK, Settled, Pending
<1>3. loop' # None /\ loop'.to = p /\ loop'.kind # "async"
  BY <1>1 DEF LoopFor, StepFor, HInv, HandsInvariant, Others, OthersAreApart, Awaits
<1>4. asked[p].entries = loop'.entries /\ i \in DOMAIN loop'.entries /\ loop'.entries[i] = e
  BY <1>1, <1>3 DEF StepFor, AnswerBase, LoopIsFor, Numbers, Nth, Entries
<1>5. PICK n \in DOMAIN order' : order'[n] = e /\ n <= asked[p].since
  BY <1>1, <1>2, <1>3, <1>4 DEF StepFor, AnswerBase, LoopIsFor, Settled
<1>6. /\ Len(order) \in Nat /\ order \in Seq(Promises) /\ order' \in Seq(Promises)
      /\ \A k \in DOMAIN order : k \in DOMAIN order' /\ order'[k] = order[k]
      /\ asked[p].since <= Len(order) /\ asked[p].since \in Nat
  BY <1>1, MovesKeepOrder, AskedIs DEF StepFor, AnswerBase, AskedIsTyped, Question
<1>7. n \in DOMAIN order /\ order[n] = e
  BY <1>5, <1>6
<1>8. Settled(e)
  BY <1>7 DEF StepFor, AnswerBase, OrderIsOnce
<1> QED
  BY <1>8 DEF Settled, Pending

LEMMA WaitedStays ==
  ASSUME NEW p, NEW i, Waited(p, i), HeardSame(p, i), ToCome(p, i) => ToCome(p, i)'
  PROVE  Waited(p, i)'
<1>1. CASE ToCome(p, i)
  BY <1>1 DEF Waited
<1>2. CASE \E q \in Promises : \E m \in DOMAIN subscribers[q] : HeardFrom(q, m, p, i)
  <2>1a. PICK q \in Promises : \E m : HeardFrom(q, m, p, i)
    BY <1>2
  <2>1. PICK m : HeardFrom(q, m, p, i)
    BY <2>1a
  <2>2. HeardFrom(q, m, p, i)'
    BY <2>1 DEF HeardSame
  <2> QED
    BY <2>2 DEF Waited, HeardFrom
<1>3. CASE \E k \in DOMAIN queue : HeardIn(k, p, i)
  <2>1. PICK k : HeardIn(k, p, i)'
    BY <1>3 DEF HeardSame
  <2> QED
    BY <2>1 DEF Waited, HeardIn
<1> QED
  BY <1>1, <1>2, <1>3 DEF Waited

\* What has to be shown after a step.
LEMMA CountedIs ==
  ASSUME NEW p \in Promises, StepFor(p),
         Pending(p)' => \A i \in Numbers(p) : array'[p][i] # None \/ Waited(p, i)',
         Pending(p)' /\ IsAll(p) => \A i \in Numbers(p) :
           /\ ToCome(p, i)' => array'[p][i] = None
           /\ \A q \in Promises : \A m : HeardFrom(q, m, p, i)' =>
                /\ array'[p][i] = None
                /\ \A r \in Promises : \A n : HeardFrom(r, n, p, i)' => r = q /\ n = m,
         \A i \in Numbers(p) :
           /\ ToCome(p, i)' => (\A q \in Promises : \A m : ~HeardFrom(q, m, p, i)') /\ \A k : ~HeardIn(k, p, i)'
           /\ LoopFor(p)' /\ IsAll(p) => \A q \in Promises : \A m : HeardFrom(q, m, p, i)' =>
                \A e : e = Nth(p, i) => Pending(e)',
         array'[p] = [i \in Numbers(p) |-> array'[p][i]],
         \A i \in Numbers(p) : array'[p][i] # None =>
           IsAll(p) /\ \A e : e = Nth(p, i) => Outcome(e)' = "fulfilled" /\ array'[p][i] = Value(e)',
         IsAll(p) /\ Pending(p)' =>
           \A S : S = {i \in Numbers(p) : array'[p][i] = None} =>
             remaining'[p] = Cardinality(S) /\ (LoopFor(p)' \/ S # {})
  PROVE  Counted(p)'
<1>1. Numbers(p)' = Numbers(p) /\ IsAll(p)' = IsAll(p) /\ (\A j : Nth(p, j)' = Nth(p, j))
  BY StepForFacts
<1>2. NoneIsLost(p)'
  BY <1>1 DEF NoneIsLost
<1>3. NoneIsTwice(p)'
  BY <1>1 DEF NoneIsTwice
<1>4. NotYet(p)'
  BY <1>1 DEF NotYet, LoopFor, Pending
<1>5. CountIsRight(p)'
  <2>1. Left(p)' = {i \in Numbers(p) : array'[p][i] = None}
    BY <1>1 DEF Left
  <2>2. IsAll(p) /\ Pending(p)' => remaining'[p] = Cardinality(Left(p)') /\ (LoopFor(p)' \/ Left(p)' # {})
    BY <2>1
  <2>3. \A i \in Numbers(p) : array'[p][i] # None =>
          IsAll(p) /\ Outcome(Nth(p, i))' = "fulfilled" /\ array'[p][i] = Value(Nth(p, i))'
    BY <1>1 DEF Outcome, Value
  <2> QED
    BY <1>1, <2>2, <2>3 DEF CountIsRight, LoopFor
<1> QED
  BY <1>2, <1>3, <1>4, <1>5 DEF Counted

LEMMA KeptIsRight ==
  ASSUME NEW p \in Promises, StepFor(p), CountIsRight(p), NEW i \in Numbers(p), array[p][i] # None
  PROVE  IsAll(p) /\ \A e : e = Nth(p, i) => Outcome(e)' = "fulfilled" /\ array[p][i] = Value(e)'
<1>1. PICK e : e = Nth(p, i)
  OBVIOUS
<1>2. IsAll(p) /\ Outcome(e) = "fulfilled" /\ array[p][i] = Value(e)
  BY <1>1 DEF CountIsRight
<1>3. Outcome(e)' = Outcome(e) /\ Value(e)' = Value(e)
  BY <1>2, OutcomeStays, StepForFacts
<1> QED
  BY <1>1, <1>2, <1>3

LEMMA HeardStaysPending ==
  ASSUME NEW p \in Promises, StepFor(p), Tells(p), NotYet(p), LoopFor(p), LoopFor(p)', IsAll(p),
         NEW i \in Numbers(p), NEW q \in Promises, NEW m, HeardFrom(q, m, p, i)
  PROVE  \A e : e = Nth(p, i) => Pending(e)'
<1>1. StandsFor(q, p, i) /\ Pending(Nth(p, i))
  BY DEF HeardFrom, Tells, SubscribersTell, NotYet, LoopFor
<1>2. PICK e \in Promises : e = Nth(p, i) /\ Pending(e)
  BY <1>1 DEF StandsFor
<1> QED
  BY <1>2, LoopSettlesNone

LEMMA SteadyCounts ==
  ASSUME NEW p \in Promises, StepFor(p), Tells(p), Counted(p), Steady(p)
  PROVE  Counted(p)'
<1>1. /\ array'[p] = array[p] /\ remaining'[p] = remaining[p] /\ (Pending(p)' <=> Pending(p))
      /\ (LoopFor(p)' <=> LoopFor(p)) /\ \A i : HeardSame(p, i) /\ (ToCome(p, i)' <=> ToCome(p, i))
  BY DEF Steady, Kept, OutcomeKept, Pending
<1>2. Pending(p)' => \A i \in Numbers(p) : array'[p][i] # None \/ Waited(p, i)'
  BY <1>1, WaitedStays DEF Counted, NoneIsLost
<1>3. Pending(p)' /\ IsAll(p) => \A i \in Numbers(p) :
        /\ ToCome(p, i)' => array'[p][i] = None
        /\ \A q \in Promises : \A m : HeardFrom(q, m, p, i)' =>
             /\ array'[p][i] = None
             /\ \A r \in Promises : \A n : HeardFrom(r, n, p, i)' => r = q /\ n = m
  <2>1. Pending(p)' /\ IsAll(p) => \A i \in Numbers(p) : ToCome(p, i)' => array'[p][i] = None
    BY <1>1 DEF Counted, NoneIsTwice
  <2>2. Pending(p)' /\ IsAll(p) => \A i \in Numbers(p) : \A q \in Promises : \A m : HeardFrom(q, m, p, i)' =>
          /\ array'[p][i] = None
          /\ \A r \in Promises : \A n : HeardFrom(r, n, p, i)' => r = q /\ n = m
    <3> SUFFICES ASSUME Pending(p)', IsAll(p), NEW i \in Numbers(p), NEW q \in Promises, NEW m,
                        HeardFrom(q, m, p, i)'
                 PROVE  /\ array'[p][i] = None
                        /\ \A r \in Promises : \A n : HeardFrom(r, n, p, i)' => r = q /\ n = m
      OBVIOUS
    <3>1. HeardFrom(q, m, p, i) /\ \A r \in Promises : \A n : HeardFrom(r, n, p, i)' => HeardFrom(r, n, p, i)
      BY <1>1 DEF HeardSame
    <3> QED
      BY <1>1, <3>1 DEF Counted, NoneIsTwice, HeardFrom
  <2> QED
    BY <2>1, <2>2
<1>4. \A i \in Numbers(p) :
        /\ ToCome(p, i)' => (\A q \in Promises : \A m : ~HeardFrom(q, m, p, i)') /\ \A k : ~HeardIn(k, p, i)'
        /\ LoopFor(p)' /\ IsAll(p) => \A q \in Promises : \A m : HeardFrom(q, m, p, i)' =>
             \A e : e = Nth(p, i) => Pending(e)'
  <2> SUFFICES ASSUME NEW i \in Numbers(p)
               PROVE  /\ ToCome(p, i)' => (\A q \in Promises : \A m : ~HeardFrom(q, m, p, i)') /\ \A k : ~HeardIn(k, p, i)'
                      /\ LoopFor(p)' /\ IsAll(p) => \A q \in Promises : \A m : HeardFrom(q, m, p, i)' =>
                           \A e : e = Nth(p, i) => Pending(e)'
    OBVIOUS
  <2>1. ToCome(p, i)' => (\A q \in Promises : \A m : ~HeardFrom(q, m, p, i)') /\ \A k : ~HeardIn(k, p, i)'
    BY <1>1 DEF Counted, NotYet, HeardSame, HeardFrom, HeardIn
  <2>2. LoopFor(p)' /\ IsAll(p) => \A q \in Promises : \A m : HeardFrom(q, m, p, i)' =>
          \A e : e = Nth(p, i) => Pending(e)'
    BY <1>1, HeardStaysPending DEF Counted, HeardSame
  <2> QED
    BY <2>1, <2>2
<1>5. \A i \in Numbers(p) : array'[p][i] # None =>
        IsAll(p) /\ \A e : e = Nth(p, i) => Outcome(e)' = "fulfilled" /\ array'[p][i] = Value(e)'
  BY <1>1, KeptIsRight DEF Counted
<1>6. array'[p] = [i \in Numbers(p) |-> array'[p][i]]
  BY <1>1 DEF Counted, CountIsRight
<1>7. IsAll(p) /\ Pending(p)' =>
        \A S : S = {i \in Numbers(p) : array'[p][i] = None} =>
          remaining'[p] = Cardinality(S) /\ (LoopFor(p)' \/ S # {})
  BY <1>1 DEF Counted, CountIsRight, Left, LoopFor
<1> QED
  BY <1>2, <1>3, <1>4, <1>5, <1>6, <1>7, CountedIs

LEMMA EndCounts ==
  ASSUME NEW p \in Promises, StepFor(p), Tells(p), Counted(p), EndStep(p)
  PROVE  Counted(p)'
<1>1. /\ array'[p] = array[p] /\ remaining'[p] = remaining[p]
      /\ ~LoopFor(p)' /\ \A i \in Numbers(p) : HeardSame(p, i) /\ ~ToCome(p, i)' /\ ~ToCome(p, i)
  BY DEF EndStep
<1>2. Pending(p)' => Pending(p) /\ (IsAll(p) => remaining[p] # 0)
  BY StepForFacts DEF EndStep, Settle, Pending, core, TypeOK
<1>3. Pending(p)' => \A i \in Numbers(p) : array'[p][i] # None \/ Waited(p, i)'
  BY <1>1, <1>2, WaitedStays DEF Counted, NoneIsLost
<1>4. Pending(p)' /\ IsAll(p) => \A i \in Numbers(p) :
        /\ ToCome(p, i)' => array'[p][i] = None
        /\ \A q \in Promises : \A m : HeardFrom(q, m, p, i)' =>
             /\ array'[p][i] = None
             /\ \A r \in Promises : \A n : HeardFrom(r, n, p, i)' => r = q /\ n = m
  BY <1>1, <1>2 DEF Counted, NoneIsTwice, HeardSame, HeardFrom
<1>5. \A i \in Numbers(p) :
        /\ ToCome(p, i)' => (\A q \in Promises : \A m : ~HeardFrom(q, m, p, i)') /\ \A k : ~HeardIn(k, p, i)'
        /\ LoopFor(p)' /\ IsAll(p) => \A q \in Promises : \A m : HeardFrom(q, m, p, i)' =>
             \A e : e = Nth(p, i) => Pending(e)'
  BY <1>1
<1>6. \A i \in Numbers(p) : array'[p][i] # None =>
        IsAll(p) /\ \A e : e = Nth(p, i) => Outcome(e)' = "fulfilled" /\ array'[p][i] = Value(e)'
  BY <1>1, KeptIsRight DEF Counted
<1>7. array'[p] = [i \in Numbers(p) |-> array'[p][i]]
  BY <1>1 DEF Counted, CountIsRight
<1>8. IsAll(p) /\ Pending(p)' =>
        \A S : S = {i \in Numbers(p) : array'[p][i] = None} =>
          remaining'[p] = Cardinality(S) /\ (LoopFor(p)' \/ S # {})
  <2>1. IsAll(p) /\ Pending(p)' =>
          \A S : S = {i \in Numbers(p) : array'[p][i] = None} => remaining'[p] = Cardinality(S) /\ Cardinality(S) # 0
    BY <1>1, <1>2 DEF Counted, CountIsRight, Left
  <2> QED
    BY <2>1, FS_EmptySet
<1> QED
  BY <1>3, <1>4, <1>5, <1>6, <1>7, <1>8, CountedIs

LEMMA WaitCounts ==
  ASSUME NEW p \in Promises, StepFor(p), Tells(p), Counted(p), NEW i \in Numbers(p), WaitStep(p, i)
  PROVE  Counted(p)'
<1>1. /\ array'[p] = array[p] /\ remaining'[p] = remaining[p] /\ (Pending(p)' <=> Pending(p))
      /\ LoopFor(p)' /\ LoopFor(p) /\ ToCome(p, i)
      /\ \A j \in Numbers(p) : ToCome(p, j)' <=> ToCome(p, j) /\ j # i
      /\ \A j \in Numbers(p) : j # i => HeardSame(p, j)
      /\ \A e : Pending(e)' <=> Pending(e)
  BY DEF WaitStep, Pending, LoopAt, HeardMore
<1>2. (\A q \in Promises : \A m : ~HeardFrom(q, m, p, i)) /\ \A k : ~HeardIn(k, p, i)
  BY <1>1 DEF Counted, NotYet, HeardFrom, HeardIn
<1>3. \/ \E q \in Promises, n \in Nat :
           /\ HeardFrom(q, n, p, i)'
           /\ IsAll(p) => \A e : e = Nth(p, i) => Pending(e)'
           /\ \A r \in Promises : \A m : HeardFrom(r, m, p, i)' => r = q /\ m = n
      \/ ~IsAll(p) /\ \E l \in Nat : HeardIn(l, p, i)'
  BY <1>1, <1>2 DEF WaitStep, HeardMore
<1>4. Waited(p, i)'
  BY <1>3 DEF Waited, HeardFrom, HeardIn
<1>5. Pending(p)' => \A j \in Numbers(p) : array'[p][j] # None \/ Waited(p, j)'
  BY <1>1, <1>4, WaitedStays DEF Counted, NoneIsLost
<1>6. Pending(p)' /\ IsAll(p) => \A j \in Numbers(p) :
        /\ ToCome(p, j)' => array'[p][j] = None
        /\ \A q \in Promises : \A m : HeardFrom(q, m, p, j)' =>
             /\ array'[p][j] = None
             /\ \A r \in Promises : \A n : HeardFrom(r, n, p, j)' => r = q /\ n = m
  <2> SUFFICES ASSUME Pending(p)', IsAll(p), NEW j \in Numbers(p)
               PROVE  /\ ToCome(p, j)' => array'[p][j] = None
                      /\ \A q \in Promises : \A m : HeardFrom(q, m, p, j)' =>
                           /\ array'[p][j] = None
                           /\ \A r \in Promises : \A n : HeardFrom(r, n, p, j)' => r = q /\ n = m
    OBVIOUS
  <2>1. CASE j = i
    BY <1>1, <1>3, <2>1 DEF Counted, NoneIsTwice
  <2>2. CASE j # i
    BY <1>1, <2>2 DEF Counted, NoneIsTwice, HeardSame, HeardFrom
  <2> QED
    BY <2>1, <2>2
<1>7. \A j \in Numbers(p) :
        /\ ToCome(p, j)' => (\A q \in Promises : \A m : ~HeardFrom(q, m, p, j)') /\ \A k : ~HeardIn(k, p, j)'
        /\ LoopFor(p)' /\ IsAll(p) => \A q \in Promises : \A m : HeardFrom(q, m, p, j)' =>
             \A e : e = Nth(p, j) => Pending(e)'
  <2> SUFFICES ASSUME NEW j \in Numbers(p)
               PROVE  /\ ToCome(p, j)' => (\A q \in Promises : \A m : ~HeardFrom(q, m, p, j)') /\ \A k : ~HeardIn(k, p, j)'
                      /\ LoopFor(p)' /\ IsAll(p) => \A q \in Promises : \A m : HeardFrom(q, m, p, j)' =>
                           \A e : e = Nth(p, j) => Pending(e)'
    OBVIOUS
  <2>1. ToCome(p, j)' => (\A q \in Promises : \A m : ~HeardFrom(q, m, p, j)') /\ \A k : ~HeardIn(k, p, j)'
    BY <1>1 DEF Counted, NotYet, HeardSame, HeardFrom, HeardIn
  <2>2. CASE j = i
    BY <1>3, <2>1, <2>2
  <2>3. CASE j # i
    <3>1. IsAll(p) => \A q \in Promises : \A m : HeardFrom(q, m, p, j)' => \A e : e = Nth(p, j) => Pending(e)'
      BY <1>1, <2>3, HeardStaysPending DEF Counted, HeardSame
    <3> QED
      BY <2>1, <3>1
  <2> QED
    BY <2>2, <2>3
<1>8. \A j \in Numbers(p) : array'[p][j] # None =>
        IsAll(p) /\ \A e : e = Nth(p, j) => Outcome(e)' = "fulfilled" /\ array'[p][j] = Value(e)'
  BY <1>1, KeptIsRight DEF Counted
<1>9. array'[p] = [j \in Numbers(p) |-> array'[p][j]]
  BY <1>1 DEF Counted, CountIsRight
<1>10. IsAll(p) /\ Pending(p)' =>
        \A S : S = {j \in Numbers(p) : array'[p][j] = None} =>
          remaining'[p] = Cardinality(S) /\ (LoopFor(p)' \/ S # {})
  BY <1>1 DEF Counted, CountIsRight, Left
<1> QED
  BY <1>5, <1>6, <1>7, <1>8, <1>9, <1>10, CountedIs

\* What is right when the value of the entry i was kept.
LEMMA KeepIsRight ==
  ASSUME NEW p \in Promises, StepFor(p), CountIsRight(p), NEW i \in Numbers(p), Keeps(p, i)
  PROVE  /\ array'[p][i] # None /\ \A j \in Numbers(p) : j # i => array'[p][j] = array[p][j]
         /\ array'[p] = [j \in Numbers(p) |-> array'[p][j]]
         /\ \A j \in Numbers(p) : array'[p][j] # None =>
              IsAll(p) /\ \A e : e = Nth(p, j) => Outcome(e)' = "fulfilled" /\ array'[p][j] = Value(e)'
<1>1. PICK e \in Values : e = Nth(p, i)
  BY StepForFacts, AskedIs DEF StepFor
<1>2. Outcome(e) = "fulfilled" /\ array' = [array EXCEPT ![p][i] = Value(e)] /\ IsAll(p)
  BY <1>1 DEF Keeps
<1>3. Value(e) # None /\ Outcome(e)' = "fulfilled" /\ Value(e)' = Value(e)
  BY <1>2, ValueIsSome, StepForFacts, OutcomeStays DEF StepFor
<1>4. DOMAIN array = Promises /\ array[p] = [j \in Numbers(p) |-> array[p][j]]
  BY DEF StepFor, AnswerBase, AskedIsTyped, CountIsRight
<1>5. /\ array'[p][i] = Value(e) /\ (\A j \in Numbers(p) : j # i => array'[p][j] = array[p][j])
      /\ array'[p] = [j \in Numbers(p) |-> array'[p][j]]
  BY <1>2, <1>4, KeepIsAt
<1>6. \A j \in Numbers(p) : array'[p][j] # None =>
        IsAll(p) /\ \A d : d = Nth(p, j) => Outcome(d)' = "fulfilled" /\ array'[p][j] = Value(d)'
  BY <1>1, <1>2, <1>3, <1>5, KeptIsRight
<1> QED
  BY <1>3, <1>5, <1>6

LEMMA OneIsLess ==
  ASSUME NEW p \in Promises, StepFor(p), CountIsRight(p), NEW i \in Numbers(p), Collects(p, i), array[p][i] = None
  PROVE  /\ Keeps(p, i) /\ (Pending(p)' => Pending(p))
         /\ \A S : S = {j \in Numbers(p) : array'[p][j] = None} =>
              remaining'[p] = Cardinality(S) /\ (remaining[p] # 1 => S # {})
<1>1. TypeOK /\ Numbers(p) = 1..Len(asked[p].entries) /\ Len(asked[p].entries) \in Nat
  BY StepForFacts, AskedIs DEF StepFor
<1>2. Keeps(p, i) /\ Pending(p) /\ IsAll(p) /\ remaining' = [remaining EXCEPT ![p] = @ - 1]
  BY DEF Collects, Keeps
<1>3. PICK L : L = Left(p)
  OBVIOUS
<1>4. remaining[p] = Cardinality(L) /\ i \in L
  BY <1>2, <1>3 DEF CountIsRight, Left
<1>5. IsFiniteSet(L)
  <2>1. IsFiniteSet(1..Len(asked[p].entries))
    BY <1>1, FS_Interval
  <2>2. L \subseteq 1..Len(asked[p].entries)
    BY <1>1, <1>3 DEF Left
  <2> QED
    BY <2>1, <2>2, FS_Subset
<1>6. {j \in Numbers(p) : array'[p][j] = None} = L \ {i}
  <2>1. array'[p][i] # None /\ \A j \in Numbers(p) : j # i => array'[p][j] = array[p][j]
    BY <1>2, KeepIsRight
  <2> QED
    BY <1>3, <2>1 DEF Left
<1>7. Cardinality(L \ {i}) = Cardinality(L) - 1
  BY <1>4, <1>5, FS_RemoveElement
<1>8. remaining'[p] = remaining[p] - 1
  BY <1>1, <1>2 DEF TypeOK
<1>9. Cardinality(L) # 1 => L \ {i} # {}
  <2> SUFFICES ASSUME L \ {i} = {} PROVE Cardinality(L) = 1
    OBVIOUS
  <2>1. L = {i}
    BY <1>4
  <2> QED
    BY <2>1, FS_Singleton
<1> QED
  BY <1>2, <1>4, <1>6, <1>7, <1>8, <1>9

LEMMA EntryCounts ==
  ASSUME NEW p \in Promises, StepFor(p), Tells(p), Counted(p), NEW i \in Numbers(p), EntryStep(p, i)
  PROVE  Counted(p)'
<1>1. /\ LoopFor(p) /\ LoopFor(p)' /\ ToCome(p, i) /\ IsAll(p)
      /\ \A j \in Numbers(p) : (ToCome(p, j)' <=> ToCome(p, j) /\ j # i) /\ HeardSame(p, j)
      /\ CountIsRight(p) /\ DOMAIN array = Promises
  BY DEF EntryStep, LoopAt, Counted, StepFor, AnswerBase, AskedIsTyped
<1>2. Pending(p)' => Collects(p, i) /\ Pending(p)
  <2>1. EndsBy(p, i) => ~Pending(p)'
    <3> SUFFICES ASSUME EndsBy(p, i), Pending(p)' PROVE FALSE
      OBVIOUS
    <3>1. PICK e : e = Nth(p, i)
      OBVIOUS
    <3>2. Settle(p, Outcome(e), Value(e)) /\ Pending(p) /\ Outcome(e) # "pending"
      BY <3>1 DEF EndsBy, EntryStep
    <3> QED
      BY <3>2, StepForFacts DEF Settle, Pending, TypeOK
  <2>2. TooLate(p) => ~Pending(p)'
    BY DEF TooLate, core, Pending
  <2>3. Collects(p, i) => Pending(p)
    BY DEF Collects
  <2> QED
    BY <2>1, <2>2, <2>3 DEF EntryStep
<1>3. Pending(p) => array[p][i] = None
  BY <1>1 DEF Counted, NoneIsTwice
<1>4. UNCHANGED array \/ Keeps(p, i)
  BY DEF EntryStep, EndsBy, Collects, Keeps
<1>5. Pending(p)' => /\ Pending(p) /\ Keeps(p, i) /\ array'[p][i] # None
                     /\ \A j \in Numbers(p) : j # i => array'[p][j] = array[p][j]
  <2>1. Pending(p)' => Pending(p) /\ Keeps(p, i)
    BY <1>2 DEF Collects, Keeps
  <2>2. Keeps(p, i) => /\ array'[p][i] # None
                       /\ \A j \in Numbers(p) : j # i => array'[p][j] = array[p][j]
    BY <1>1, KeepIsRight
  <2> QED
    BY <2>1, <2>2
<1>6. (\A q \in Promises : \A m : ~HeardFrom(q, m, p, i)) /\ \A k : ~HeardIn(k, p, i)
  BY <1>1 DEF Counted, NotYet, HeardFrom, HeardIn
<1>7. Pending(p)' => \A j \in Numbers(p) : array'[p][j] # None \/ Waited(p, j)'
  BY <1>1, <1>5, WaitedStays DEF Counted, NoneIsLost
<1>8. Pending(p)' /\ IsAll(p) => \A j \in Numbers(p) :
        /\ ToCome(p, j)' => array'[p][j] = None
        /\ \A q \in Promises : \A m : HeardFrom(q, m, p, j)' =>
             /\ array'[p][j] = None
             /\ \A r \in Promises : \A n : HeardFrom(r, n, p, j)' => r = q /\ n = m
  <2> SUFFICES ASSUME Pending(p)', IsAll(p), NEW j \in Numbers(p)
               PROVE  /\ ToCome(p, j)' => array'[p][j] = None
                      /\ \A q \in Promises : \A m : HeardFrom(q, m, p, j)' =>
                           /\ array'[p][j] = None
                           /\ \A r \in Promises : \A n : HeardFrom(r, n, p, j)' => r = q /\ n = m
    OBVIOUS
  <2>1. CASE j = i
    BY <1>1, <1>6, <2>1 DEF HeardSame
  <2>2. CASE j # i
    BY <1>1, <1>5, <2>2 DEF Counted, NoneIsTwice, HeardSame, HeardFrom
  <2> QED
    BY <2>1, <2>2
<1>9. \A j \in Numbers(p) :
        /\ ToCome(p, j)' => (\A q \in Promises : \A m : ~HeardFrom(q, m, p, j)') /\ \A k : ~HeardIn(k, p, j)'
        /\ LoopFor(p)' /\ IsAll(p) => \A q \in Promises : \A m : HeardFrom(q, m, p, j)' =>
             \A e : e = Nth(p, j) => Pending(e)'
  <2> SUFFICES ASSUME NEW j \in Numbers(p)
               PROVE  /\ ToCome(p, j)' => (\A q \in Promises : \A m : ~HeardFrom(q, m, p, j)') /\ \A k : ~HeardIn(k, p, j)'
                      /\ LoopFor(p)' /\ IsAll(p) => \A q \in Promises : \A m : HeardFrom(q, m, p, j)' =>
                           \A e : e = Nth(p, j) => Pending(e)'
    OBVIOUS
  <2>1. ToCome(p, j)' => (\A q \in Promises : \A m : ~HeardFrom(q, m, p, j)') /\ \A k : ~HeardIn(k, p, j)'
    BY <1>1 DEF Counted, NotYet, HeardSame, HeardFrom, HeardIn
  <2>2. LoopFor(p)' /\ IsAll(p) => \A q \in Promises : \A m : HeardFrom(q, m, p, j)' =>
          \A e : e = Nth(p, j) => Pending(e)'
    BY <1>1, HeardStaysPending DEF Counted, HeardSame
  <2> QED
    BY <2>1, <2>2
<1>10. array'[p] = [j \in Numbers(p) |-> array'[p][j]]
  BY <1>1, <1>4, KeepIsRight DEF CountIsRight
<1>11. \A j \in Numbers(p) : array'[p][j] # None =>
        IsAll(p) /\ \A e : e = Nth(p, j) => Outcome(e)' = "fulfilled" /\ array'[p][j] = Value(e)'
  <2>1. CASE UNCHANGED array
    BY <1>1, <2>1, KeptIsRight
  <2>2. CASE Keeps(p, i)
    BY <1>1, <2>2, KeepIsRight
  <2> QED
    BY <1>4, <2>1, <2>2
<1>12. IsAll(p) /\ Pending(p)' =>
        \A S : S = {j \in Numbers(p) : array'[p][j] = None} =>
          remaining'[p] = Cardinality(S) /\ (LoopFor(p)' \/ S # {})
  BY <1>1, <1>2, <1>3, OneIsLess
<1> QED
  BY <1>7, <1>8, <1>9, <1>10, <1>11, <1>12, CountedIs

\* The turn of the entry i is no turn of another.
LEMMA OthersAreHeard ==
  ASSUME NEW p, NEW i, NEW j, j # i, TurnOfEntry(p, i), HeardButOne(p, j)
  PROVE  HeardSame(p, j)
<1>1. \A q \in Promises : \A m : HeardFrom(q, m, p, j) => ~(queue[at] = Publish(q) /\ m = pos)
  <2> SUFFICES ASSUME NEW q \in Promises, HeardFrom(q, pos, p, j), queue[at] = Publish(q) PROVE FALSE
    OBVIOUS
  <2>1. CASE \E r \in Promises : queue[at] = Publish(r) /\ HeardFrom(r, pos, p, i)
    <3>1. HeardFrom(q, pos, p, i)
      BY <2>1, PublishIsJob
    <3> QED
      BY <3>1 DEF HeardFrom
  <2>2. CASE HeardIn(at, p, i)
    BY <2>2, PublishIsJob DEF HeardIn
  <2> QED
    BY <2>1, <2>2 DEF TurnOfEntry
<1>2. ~HeardIn(at, p, j)
  BY PublishIsJob DEF TurnOfEntry, HeardIn
<1> QED
  BY <1>1, <1>2 DEF HeardButOne, HeardSame

LEMMA TurnCounts ==
  ASSUME NEW p \in Promises, StepFor(p), Tells(p), Counted(p), NEW i \in Numbers(p), TurnStep(p, i)
  PROVE  Counted(p)'
<1>1. /\ TurnOfEntry(p, i) /\ ~LoopFor(p) /\ ~LoopFor(p)'
      /\ \A j : ~ToCome(p, j) /\ ~ToCome(p, j)' /\ HeardButOne(p, j)
      /\ CountIsRight(p)
  BY DEF TurnStep, Counted
<1>2. Pending(p)' => Collects(p, i) /\ Pending(p) /\ remaining[p] # 1
  <2>1. EndsBy(p, i) => ~Pending(p)'
    <3> SUFFICES ASSUME EndsBy(p, i), Pending(p)' PROVE FALSE
      OBVIOUS
    <3>1. PICK e : e = Nth(p, i)
      OBVIOUS
    <3>2. Settle(p, Outcome(e), Value(e)) /\ Pending(p) /\ Outcome(e) # "pending"
      BY <1>1, <3>1 DEF EndsBy, TurnOfEntry
    <3> QED
      BY <3>2, StepForFacts DEF Settle, Pending, TypeOK
  <2>2. TooLate(p) => ~Pending(p)'
    BY DEF TooLate, core, Pending
  <2>3. Collects(p, i) => Pending(p)
    BY DEF Collects
  <2> QED
    BY <1>1, <2>1, <2>2, <2>3 DEF TurnOfEntry
<1>3. IsAll(p) => \E q \in Promises : queue[at] = Publish(q) /\ HeardFrom(q, pos, p, i)
  BY <1>1 DEF TurnOfEntry, HeardIn, Tells, QueueTells, Serves
<1>4. Pending(p) /\ IsAll(p) => array[p][i] = None
  BY <1>3 DEF Counted, NoneIsTwice, HeardFrom
<1>5. UNCHANGED array \/ Keeps(p, i)
  BY <1>1 DEF TurnOfEntry, EndsBy, Collects, Keeps
<1>6. Pending(p)' => /\ Pending(p) /\ IsAll(p) /\ array[p][i] = None /\ Keeps(p, i) /\ array'[p][i] # None
                     /\ \A j \in Numbers(p) : j # i => array'[p][j] = array[p][j]
  BY <1>1, <1>2, <1>4, OneIsLess, KeepIsRight DEF Collects
<1>7. \A j : j # i => HeardSame(p, j)
  BY <1>1, OthersAreHeard
<1>8. Pending(p)' => \A j \in Numbers(p) : array'[p][j] # None \/ Waited(p, j)'
  BY <1>1, <1>6, <1>7, WaitedStays DEF Counted, NoneIsLost
<1>9. Pending(p)' /\ IsAll(p) => \A j \in Numbers(p) :
        /\ ToCome(p, j)' => array'[p][j] = None
        /\ \A q \in Promises : \A m : HeardFrom(q, m, p, j)' =>
             /\ array'[p][j] = None
             /\ \A r \in Promises : \A n : HeardFrom(r, n, p, j)' => r = q /\ n = m
  <2> SUFFICES ASSUME Pending(p)', IsAll(p), NEW j \in Numbers(p), NEW q \in Promises, NEW m, HeardFrom(q, m, p, j)'
               PROVE  /\ array'[p][j] = None
                      /\ \A r \in Promises : \A n : HeardFrom(r, n, p, j)' => r = q /\ n = m
    BY <1>1
  <2>1. CASE j = i
    <3>1. HeardFrom(q, m, p, i) /\ ~(queue[at] = Publish(q) /\ m = pos)
      BY <1>1, <2>1 DEF HeardButOne
    <3>2. PICK r \in Promises : queue[at] = Publish(r) /\ HeardFrom(r, pos, p, i)
      BY <1>3
    <3>3. q = r /\ m = pos
      BY <1>6, <3>1, <3>2 DEF Counted, NoneIsTwice, HeardFrom
    <3> QED
      BY <3>1, <3>2, <3>3
  <2>2. CASE j # i
    <3>1. HeardFrom(q, m, p, j) /\ \A r \in Promises : \A n : HeardFrom(r, n, p, j)' => HeardFrom(r, n, p, j)
      BY <1>7, <2>2 DEF HeardSame
    <3> QED
      BY <1>6, <2>2, <3>1 DEF Counted, NoneIsTwice, HeardFrom
  <2> QED
    BY <2>1, <2>2
<1>10. \A j \in Numbers(p) :
        /\ ToCome(p, j)' => (\A q \in Promises : \A m : ~HeardFrom(q, m, p, j)') /\ \A k : ~HeardIn(k, p, j)'
        /\ LoopFor(p)' /\ IsAll(p) => \A q \in Promises : \A m : HeardFrom(q, m, p, j)' =>
             \A e : e = Nth(p, j) => Pending(e)'
  BY <1>1
<1>11. array'[p] = [j \in Numbers(p) |-> array'[p][j]]
  BY <1>1, <1>5, KeepIsRight DEF CountIsRight
<1>12. \A j \in Numbers(p) : array'[p][j] # None =>
        IsAll(p) /\ \A e : e = Nth(p, j) => Outcome(e)' = "fulfilled" /\ array'[p][j] = Value(e)'
  <2>1. CASE UNCHANGED array
    BY <1>1, <2>1, KeptIsRight
  <2>2. CASE Keeps(p, i)
    BY <1>1, <2>2, KeepIsRight
  <2> QED
    BY <1>5, <2>1, <2>2
<1>13. IsAll(p) /\ Pending(p)' =>
        \A S : S = {j \in Numbers(p) : array'[p][j] = None} =>
          remaining'[p] = Cardinality(S) /\ (LoopFor(p)' \/ S # {})
  BY <1>1, <1>2, <1>4, OneIsLess
<1> QED
  BY <1>8, <1>9, <1>10, <1>11, <1>12, <1>13, CountedIs

LEMMA CountedKept ==
  ASSUME NEW p \in Promises, StepFor(p), Tells(p), Counted(p)
  PROVE  Counted(p)'
BY StepCases, SteadyCounts, EndCounts, EntryCounts, WaitCounts, TurnCounts

-----------------------------------------------------------------------------
(* Who was settled earlier stays so. *)

LEMMA EntryHasPlace ==
  ASSUME TypeOK, AnswerBase, NEW p \in Promises, Many(p), NEW i \in Numbers(p), Outcome(Nth(p, i)) # "pending"
  PROVE  Early(order, asked[p], i) \/ \E n : PlaceIs(order, asked[p], i, n)
<1>1. PICK e : e = Nth(p, i) /\ e = asked[p].entries[i]
  BY DEF Nth
<1>2. CASE e \notin Promises
  BY <1>1, <1>2 DEF Early
<1>3. CASE e \in Promises
  <2>1. Settled(e)
    BY <1>1, <1>3 DEF Outcome, Settled, TypeOK
  <2>2. PICK n \in DOMAIN order : order[n] = e
    BY <1>3, <2>1 DEF AnswerBase, OrderIsOnce
  <2> QED
    BY <1>1, <2>2 DEF PlaceIs
<1> QED
  BY <1>2, <1>3

LEMMA WhenIs ==
  ASSUME NEW a, NEW i
  PROVE  When(a, i) = WhenIn(order, a, i)
BY DEF When, WhenIn

\* The entry j had no outcome, and gets it now.
Now(p, j) == Nth(p, j) \in Promises /\ Pending(Nth(p, j)) /\ SettlesNow(Nth(p, j))

LEMMA NowOrBefore ==
  ASSUME NEW p \in Promises, StepFor(p), NEW i \in Numbers(p), Counts(p, i)'
  PROVE  Counts(p, i) \/ Now(p, i)
<1>1. TypeOK /\ Final /\ IsAll(p)' = IsAll(p) /\ (\A j : Nth(p, j)' = Nth(p, j))
  BY StepForFacts
<1>2. PICK e : e = Nth(p, i)
  OBVIOUS
<1>3. Outcome(e)' \in (IF IsAll(p) THEN {"rejected"} ELSE {"fulfilled", "rejected"})
  BY <1>1, <1>2 DEF Counts, Outcome
<1>4. CASE Outcome(e) # "pending"
  <2>1. Outcome(e)' = Outcome(e)
    BY <1>1, <1>4, OutcomeStays
  <2> QED
    BY <1>2, <1>3, <2>1 DEF Counts
<1>5. CASE Outcome(e) = "pending"
  <2>1. e \in Promises /\ state[e] = "pending" /\ state'[e] # "pending"
    BY <1>3, <1>5 DEF Outcome
  <2>2. PICK x \in Promises : SettlesNow(x)
    BY <2>1 DEF StepFor, Moves, SettlesNone
  <2>3. x = e
    BY <1>1, <2>1, <2>2 DEF SettlesNow, TypeOK
  <2> QED
    BY <1>2, <2>1, <2>2, <2>3 DEF Now, Pending
<1> QED
  BY <1>4, <1>5

LEMMA OneMoreSettled ==
  ASSUME NEW p \in Promises, StepFor(p), NEW x \in Promises, SettlesNow(x)
  PROVE  OneMore(order', order, x)
<1>1. order \in Seq(Promises) /\ Once(order)
  BY StepForFacts, AskedIs DEF StepFor
<1>2. \A n \in DOMAIN order : order[n] # x
  BY DEF StepFor, AnswerBase, OrderIsOnce, SettlesNow, Pending, Settled
<1> QED
  BY <1>1, <1>2 DEF OneMore, SettlesNow

\* Those that have an outcome keep their times; who gets it now is not earlier.
LEMMA EarlierIs ==
  ASSUME NEW p \in Promises, StepFor(p), NEW i \in Numbers(p), NEW j \in Numbers(p),
         Outcome(Nth(p, i)) # "pending"
  PROVE  /\ Outcome(Nth(p, j)) # "pending" =>
              (Earlier(p, i, j)' <=> Earlier(p, i, j)) /\ (Earlier(p, j, i)' <=> Earlier(p, j, i))
         /\ Now(p, j) => ~Earlier(p, j, i)'
<1>1. PICK a \in Question : a = asked[p] /\ a.since <= Len(order) /\ Numbers(p) = Entries(a) /\ asked'[p] = a
  BY StepForFacts, AskedIs DEF StepFor, Numbers
<1>2. TypeOK /\ AnswerBase /\ Many(p) /\ \A h : a.entries[h] = Nth(p, h)
  BY <1>1, StepForFacts DEF StepFor, Nth
<1>3. \A h \in {i, j} : Outcome(Nth(p, h)) # "pending" => Early(order, a, h) \/ \E n : PlaceIs(order, a, h, n)
  BY <1>1, <1>2, EntryHasPlace
<1>4. \A h, k : (Earlier(p, h, k) <=> WhenIn(order, a, h) < WhenIn(order, a, k))
  BY <1>1, WhenIs DEF Earlier
<1>5. \A h, k : (Earlier(p, h, k)' <=> WhenIn(order', a, h) < WhenIn(order', a, k))
  BY <1>1 DEF Earlier, When, WhenIn
<1>6. CASE SettlesNone
  <2>1. order' = order
    BY <1>6 DEF SettlesNone
  <2>2. ~Now(p, j)
    BY <1>2, <1>6 DEF SettlesNone, SettlesNow, Now, TypeOK, Pending
  <2> QED
    BY <1>4, <1>5, <2>1, <2>2
<1>7. CASE \E x \in Promises : SettlesNow(x)
  <2>1. PICK x \in Promises : SettlesNow(x)
    BY <1>7
  <2>2. OneMore(order', order, x)
    BY <2>1, OneMoreSettled
  <2>3. /\ Outcome(Nth(p, j)) # "pending" =>
             WhenIn(order', a, i) = WhenIn(order, a, i) /\ WhenIn(order', a, j) = WhenIn(order, a, j)
        /\ a.entries[j] = x => ~(WhenIn(order', a, j) < WhenIn(order', a, i))
    BY <1>1, <1>3, <2>2, EarlierStays
  <2>4. Now(p, j) => a.entries[j] = x
    <3> SUFFICES ASSUME Now(p, j), Nth(p, j) # x PROVE FALSE
      BY <1>2
    <3>1. PICK e \in Promises : e = Nth(p, j) /\ SettlesNow(e) /\ Pending(e)
      BY DEF Now
    <3>2. state'[e] = state[e] /\ state'[e] # "pending"
      BY <1>2, <2>1, <3>1 DEF SettlesNow, TypeOK
    <3> QED
      BY <3>1, <3>2 DEF Pending
  <2> QED
    BY <1>4, <1>5, <2>3, <2>4
<1> QED
  BY <1>6, <1>7 DEF StepFor, Moves

\* Two that are settled at once are settled at the same time.
LEMMA NowIsOnce ==
  ASSUME NEW p \in Promises, StepFor(p), NEW i \in Numbers(p), NEW j \in Numbers(p), Now(p, i), Now(p, j)
  PROVE  ~Earlier(p, i, j)' /\ Nth(p, i) = Nth(p, j)
<1>1. PICK a \in Question : a = asked[p] /\ a.since <= Len(order) /\ Numbers(p) = Entries(a) /\ asked'[p] = a
  BY StepForFacts, AskedIs DEF StepFor, Numbers
<1>2. TypeOK /\ \A h : a.entries[h] = Nth(p, h)
  BY <1>1, StepForFacts DEF Nth
<1>3. PICK x \in Promises : x = Nth(p, i) /\ SettlesNow(x)
  BY DEF Now
<1>4. Nth(p, j) = x
  <2>1. PICK e \in Promises : e = Nth(p, j) /\ SettlesNow(e) /\ Pending(e)
    BY DEF Now
  <2>2. e # x => state'[e] = state[e] /\ state'[e] # "pending"
    BY <1>2, <1>3, <2>1 DEF SettlesNow, TypeOK
  <2> QED
    BY <2>1, <2>2 DEF Pending
<1>5. OneMore(order', order, x)
  BY <1>3, OneMoreSettled
<1>6. Once(order') /\ \A h \in {i, j} : PlaceIs(order', a, h, Len(order) + 1)
  BY <1>1, <1>2, <1>3, <1>4, <1>5, WhenStays
<1>7. \A h \in {i, j} : WhenIn(order', a, h) = Len(a.entries) + (Len(order) + 1)
  BY <1>6, PlaceIsWhen
<1>8. Len(a.entries) \in Nat /\ Len(order) \in Nat
  BY <1>1, <1>5, EntryIsNumber, WhenStays
<1>9. ~(WhenIn(order', a, i) < WhenIn(order', a, j))
  <2>1. WhenIn(order', a, i) = WhenIn(order', a, j) /\ WhenIn(order', a, i) \in Int
    BY <1>7, <1>8
  <2> QED
    BY <2>1
<1> QED
  BY <1>1, <1>3, <1>4, <1>9 DEF Earlier, When, WhenIn

LEMMA EarlierWas ==
  ASSUME NEW p \in Promises, StepFor(p), NEW i \in Numbers(p), NEW j \in Numbers(p),
         Counts(p, i)', Counts(p, j)', Earlier(p, i, j)'
  PROVE  Counts(p, i) /\ ((Counts(p, j) /\ Earlier(p, i, j)) \/ Now(p, j))
<1>1. \A h \in Numbers(p) : Counts(p, h) => Outcome(Nth(p, h)) # "pending"
  BY DEF Counts
<1>2. (Counts(p, i) \/ Now(p, i)) /\ (Counts(p, j) \/ Now(p, j))
  BY NowOrBefore
<1>3. ~(Now(p, i) /\ Counts(p, j))
  BY <1>1, EarlierIs
<1>4. ~(Now(p, i) /\ Now(p, j))
  BY NowIsOnce
<1> QED
  BY <1>1, <1>2, <1>3, <1>4, EarlierIs

\* The loop of p goes on: those that are settled were so at the start.
LEMMA LoopIsEarly ==
  ASSUME NEW p \in Promises, StepFor(p), LoopFor(p), NEW i \in Numbers(p), NEW j \in Numbers(p),
         Counts(p, i), Counts(p, j), Earlier(p, i, j)
  PROVE  i < j
<1>1. loop.kind # "async" /\ loop # None /\ loop.entries = asked[p].entries /\ loop.to = p
  BY LoopOf DEF LoopFor
<1>2. \A h \in Numbers(p) : Counts(p, h) => Early(order, asked[p], h)
  <2> SUFFICES ASSUME NEW h \in Numbers(p), Counts(p, h), asked[p].entries[h] \in Promises
               PROVE  \E n \in DOMAIN order : order[n] = asked[p].entries[h] /\ n <= asked[p].since
    BY DEF Early
  <2>1. h \in DOMAIN loop.entries /\ loop.entries[h] \in Promises /\ Settled(loop.entries[h])
    BY <1>1, StepForFacts DEF Counts, Numbers, Nth, Entries, Outcome, Settled
  <2> QED
    BY <1>1, <2>1 DEF StepFor, AnswerBase, LoopIsFor
<1>3. WhenIn(order, asked[p], i) = i /\ WhenIn(order, asked[p], j) = j
  BY <1>2, EarlyIsWhen
<1> QED
  BY <1>3, WhenIs DEF Earlier

-----------------------------------------------------------------------------
(* Who was settled earlier is heard earlier. *)

\* A promise made for the entry, or the entry itself.
LEMMA HeardIsFor ==
  ASSUME HInv, NEW p \in Promises, Asks(p), Tells(p), NEW i \in Numbers(p), NEW q \in Promises, NEW m,
         HeardFrom(q, m, p, i)
  PROVE  /\ m \in DOMAIN subscribers[q] /\ StandsFor(q, p, i)
         /\ Settled(q) => Outcome(Nth(p, i)) # "pending"
         /\ Pending(q) /\ Counts(p, i) =>
              /\ IsAll(p) /\ Nth(p, i) \in Promises /\ MadeFor(q, Nth(p, i)) /\ q # Nth(p, i)
              /\ Settled(Nth(p, i)) /\ WaitsFor(q, Nth(p, i))
<1>1. m \in DOMAIN subscribers[q] /\ StandsFor(q, p, i)
  BY DEF HeardFrom, Tells, SubscribersTell
<1>2. Settled(q) => Outcome(Nth(p, i)) # "pending"
  BY <1>1, ToldIsEntry DEF SettledAs, Settled
<1>3. ASSUME Pending(q), Counts(p, i)
      PROVE  /\ IsAll(p) /\ Nth(p, i) \in Promises /\ MadeFor(q, Nth(p, i)) /\ q # Nth(p, i)
             /\ Settled(Nth(p, i)) /\ WaitsFor(q, Nth(p, i))
  <2>1. IsAll(p)
    BY <1>1, <1>3 DEF StandsFor, Counts, Outcome, Pending
  <2>2. PICK e \in Promises : e = Nth(p, i) /\ MadeFor(q, e) /\ state[e] = "rejected"
    BY <1>1, <1>3, <2>1 DEF StandsFor, Counts, Outcome
  <2>3. Settled(e) /\ WaitsFor(q, e)
    BY <1>3, <2>2, MadeForIsLinked DEF SameOutcome, Pending, Settled
  <2> QED
    BY <2>1, <2>2, <2>3 DEF MadeFor
<1> QED
  BY <1>1, <1>2, <1>3

\* The entry that counts, and is waited for, is on its way in the queue.
LEMMA OnItsWay ==
  ASSUME HInv, NEW p \in Promises, Asks(p), Tells(p), NEW i \in Numbers(p), Counts(p, i), Waited(p, i), ~ToCome(p, i)
  PROVE  \E n \in DOMAIN queue : Told(n, p, i) \/ (IsAll(p) /\ Comes(n, p, i))
<1>1. SubscribersWillHear
  BY DEF HInv, IInv
<1>2. CASE \E k \in DOMAIN queue : HeardIn(k, p, i)
  BY <1>2 DEF Told
<1>3. CASE \E q \in Promises : \E m \in DOMAIN subscribers[q] : HeardFrom(q, m, p, i)
  <2>1a. PICK q \in Promises : \E m : HeardFrom(q, m, p, i) /\ m \in DOMAIN subscribers[q]
    BY <1>3
  <2>1. PICK m : HeardFrom(q, m, p, i) /\ m \in DOMAIN subscribers[q]
    BY <2>1a
  <2>2. CASE Settled(q)
    <3>1. PICK n \in DOMAIN queue : n >= at /\ queue[n] = Publish(q)
      BY <1>1, <2>1, <2>2 DEF SubscribersWillHear, WillBePublished
    <3> QED
      BY <2>1, <3>1 DEF Told
  <2>3. CASE Pending(q)
    <3>1. PICK e \in Promises : e = Nth(p, i) /\ Settled(e) /\ WaitsFor(q, e) /\ IsAll(p)
      BY <2>1, <2>3, HeardIsFor
    <3>2. PICK n \in DOMAIN queue : n >= at /\ queue[n] = Publish(e)
      BY <1>1, <3>1 DEF SubscribersWillHear, WillBePublished, WaitsFor
    <3> QED
      BY <2>1, <2>3, <3>1, <3>2 DEF Comes
  <2> QED
    BY <2>2, <2>3 DEF HInv, IInv, TypeOK, Settled, Pending
<1> QED
  BY <1>2, <1>3 DEF Waited

\* flush() does not pass who was not told.
LEMMA ToldStays ==
  ASSUME QueueMoves, at \in Nat, queue \in Seq(Jobs), NEW p, NEW i, HeardSame(p, i), NEW n, Told(n, p, i)
  PROVE  Told(n, p, i)'
<1>1. CASE HeardIn(n, p, i)
  BY <1>1 DEF Told, HeardSame
<1>2. CASE /\ n \in DOMAIN queue /\ n >= at
           /\ \E q \in Promises : queue[n] = Publish(q) /\ \E m \in DOMAIN subscribers[q] : HeardFrom(q, m, p, i)
  <2>1a. PICK q \in Promises : queue[n] = Publish(q) /\ \E m : HeardFrom(q, m, p, i)
    BY <1>2
  <2>1. PICK m : /\ queue[n] = Publish(q) /\ HeardFrom(q, m, p, i) /\ HeardFrom(q, m, p, i)'
                 /\ m \in DOMAIN subscribers[q] /\ m \in DOMAIN subscribers'[q]
    BY <2>1a, <1>2 DEF HeardSame, HeardFrom
  <2>2. n \in Nat /\ n <= Len(queue) /\ Len(queue) \in Nat
    BY <1>2
  <2>3. ~(at > Len(queue))
    BY <1>2, <2>2
  <2>4. n \in DOMAIN queue' /\ queue'[n] = queue[n] /\ at' \in {at, at + 1}
    BY <1>2, <2>3 DEF QueueMoves
  <2>5. at' # at => n # at
    BY <1>2, <2>1, <2>3 DEF QueueMoves, HeardFrom
  <2>6. n >= at'
    BY <1>2, <2>2, <2>4, <2>5
  <2> QED
    BY <2>1, <2>4, <2>6 DEF Told
<1> QED
  BY <1>1, <1>2 DEF Told

\* The same, after a step.
WaysAreKnown ==
  \A p \in Promises : \A i \in Numbers(p) :
    HInv /\ Asks(p) /\ Tells(p) /\ Counts(p, i) /\ Waited(p, i) /\ ~ToCome(p, i) =>
      \E n \in DOMAIN queue : Told(n, p, i) \/ (IsAll(p) /\ Comes(n, p, i))
LinksAreKnown ==
  \A p, q \in Promises : \A i \in Numbers(p) :
    HInv /\ Asks(p) /\ Nth(p, i) \in Promises /\ MadeFor(q, Nth(p, i)) => Alone(q)

LEMMA KnownAlways == WaysAreKnown /\ LinksAreKnown
<1>1. WaysAreKnown
  BY OnItsWay DEF WaysAreKnown
<1>2. LinksAreKnown
  <2> SUFFICES ASSUME NEW p \in Promises, NEW q \in Promises, NEW i \in Numbers(p),
                      HInv, Asks(p), Nth(p, i) \in Promises, MadeFor(q, Nth(p, i))
               PROVE  Alone(q)
    BY DEF LinksAreKnown
  <2>1. PICK e \in Promises : e = Nth(p, i) /\ MadeFor(q, e)
    OBVIOUS
  <2>2. ~(state[e] = "fulfilled" /\ result[e] \in Thenables)
    BY <2>1, EntryIsPlain
  <2> QED
    BY <2>1, <2>2, MadeForIsLinked
<1> QED
  BY <1>1, <1>2

LEMMA KnownAfter == WaysAreKnown' /\ LinksAreKnown'
BY KnownAlways, PTL

\* The turn of the entry j is that of who waits for it in a promise of its own.
LEMMA WrapperTurn ==
  ASSUME NEW p \in Promises, StepFor(p), Tells(p), NEW j \in Numbers(p), Counts(p, j),
         NEW q \in Promises, NEW m, HeardFrom(q, m, p, j), Pending(q), ~Pending(q)'
  PROVE  at \in DOMAIN queue /\ Comes(at, p, j)
<1>1. /\ HInv /\ HInv' /\ TypeOK /\ TypeOK' /\ Asks(p) /\ Asks(p)' /\ Next /\ TurnIsAt
      /\ Numbers(p)' = Numbers(p) /\ Nth(p, j)' = Nth(p, j) /\ at \in Nat
  BY StepForFacts DEF StepFor, TypeOK
<1>2. PICK e \in Promises : e = Nth(p, j) /\ MadeFor(q, e) /\ WaitsFor(q, e)
  BY <1>1, HeardIsFor
<1>3. PICK k \in DOMAIN subscribers[e] : subscribers[e][k] = Adopt(q) /\ ~SubscriberHadTurn(e, k)
  BY <1>2 DEF WaitsFor
<1>4. MadeFor(q, e)'
  <2>1. ~(state[e] = "fulfilled" /\ result[e] \in Thenables)
    BY <1>1, <1>2, EntryIsPlain
  <2> QED
    BY <1>1, <1>2, <2>1, MadeForStays
<1>5. Alone(q)'
  <2>1. \A i \in Numbers(p)' : Nth(p, i)' \in Promises /\ MadeFor(q, Nth(p, i))' => Alone(q)'
    BY <1>1, KnownAfter DEF LinksAreKnown
  <2>2. MadeFor(q, Nth(p, j))'
    BY <1>1, <1>2, <1>4 DEF MadeFor
  <2> QED
    BY <1>1, <1>2, <2>1, <2>2
<1>6. k \in Nat
  <2>1. subscribers[e] \in Seq(Subscriber)
    BY <1>1 DEF TypeOK
  <2>2. DOMAIN subscribers[e] \subseteq Nat
    BY <2>1
  <2> QED
    BY <1>3, <2>2
<1>7. ~(k \in DOMAIN subscribers'[e] /\ subscribers'[e][k] = subscribers[e][k] /\ ~SubscriberHadTurn(e, k)')
  <2> SUFFICES ASSUME k \in DOMAIN subscribers'[e], subscribers'[e][k] = Adopt(q), ~SubscriberHadTurn(e, k)'
               PROVE  FALSE
    BY <1>3
  <2>1. Holds("subscriber", e, k, q)'
    BY DEF Holds, WillBeTold, Adopt
  <2> QED
    BY <1>5, <1>6, <2>1 DEF Alone, Hands
<1>8. at \in DOMAIN queue /\ queue[at] = Publish(e)
  BY <1>1, <1>2, <1>3, <1>7 DEF TurnIsAt
<1> QED
  BY <1>1, <1>2, <1>8 DEF Comes, HeardFrom

LEMMA ComesStays ==
  ASSUME NEW p \in Promises, StepFor(p), Tells(p), NEW i \in Numbers(p), Counts(p, i), HeardSame(p, i),
         NEW n, Comes(n, p, i)
  PROVE  Comes(n, p, i)' \/ \E k \in DOMAIN queue' : Told(k, p, i)'
<1>1. /\ HInv /\ IInv' /\ TypeOK /\ TypeOK' /\ Asks(p) /\ QueueMoves
      /\ Nth(p, i)' = Nth(p, i) /\ at \in Nat /\ queue \in Seq(Jobs)
  BY StepForFacts DEF StepFor, TypeOK
<1>2a. PICK q \in Promises : \E m : Pending(q) /\ HeardFrom(q, m, p, i)
  BY DEF Comes
<1>2. PICK m : Pending(q) /\ HeardFrom(q, m, p, i)
  BY <1>2a
<1>3. PICK e \in Promises : e = Nth(p, i) /\ WaitsFor(q, e) /\ queue[n] = Publish(e) /\ n \in DOMAIN queue /\ n >= at
  BY <1>1, <1>2, HeardIsFor DEF Comes
<1>4. HeardFrom(q, m, p, i)' /\ m \in DOMAIN subscribers'[q]
  BY <1>2 DEF HeardSame, HeardFrom
<1>5. n \in Nat /\ n <= Len(queue) /\ Len(queue) \in Nat
  BY <1>1, <1>3
<1>6. ~(at > Len(queue))
  BY <1>1, <1>3, <1>5
<1>7. n \in DOMAIN queue' /\ queue'[n] = queue[n] /\ at' \in {at, at + 1}
  BY <1>1, <1>3, <1>6 DEF QueueMoves
<1>8. at' # at => n # at
  BY <1>1, <1>3, <1>6 DEF QueueMoves, WaitsFor
<1>9. n >= at'
  BY <1>1, <1>3, <1>5, <1>7, <1>8
<1>10. CASE Pending(q)'
  BY <1>1, <1>3, <1>4, <1>7, <1>9, <1>10 DEF Comes
<1>11. CASE ~Pending(q)'
  <2>1. Settled(q)' /\ subscribers'[q] # <<>>
    <3>1. state'[q] \in {"pending", "fulfilled", "rejected"}
      BY <1>1 DEF TypeOK
    <3>2. Settled(q)'
      BY <1>11, <3>1 DEF Pending, Settled
    <3>3. subscribers'[q] # <<>>
      BY <1>4
    <3> QED
      BY <3>2, <3>3
  <2>2. PICK k \in DOMAIN queue' : k >= at' /\ queue'[k] = Publish(q)
    BY <1>1, <2>1 DEF IInv, SubscribersWillHear, WillBePublished
  <2>3. Told(k, p, i)'
    BY <1>4, <2>2 DEF Told
  <2> QED
    BY <2>3
<1> QED
  BY <1>10, <1>11

\* The entry k of the queue was there, or comes last.
LEMMA QueueIsOld ==
  ASSUME NEW p \in Promises, StepFor(p), NEW k \in DOMAIN queue'
  PROVE  /\ k \in Nat /\ Len(queue) \in Nat /\ at \in Nat /\ at' \in Nat /\ at' >= at
         /\ DOMAIN queue \subseteq DOMAIN queue' /\ \A n \in DOMAIN queue : queue'[n] = queue[n] /\ n \in Nat /\ n <= Len(queue)
         /\ k \in DOMAIN queue \/ (k = Len(queue) + 1 /\ \A n \in DOMAIN queue' : n # k => n < k)
<1>1. TypeOK /\ TypeOK' /\ QueueMoves
  BY StepForFacts DEF StepFor
<1>2. /\ k \in Nat /\ Len(queue) \in Nat /\ at \in Nat /\ at' \in Nat /\ queue' # <<>>
      /\ \A n \in DOMAIN queue : n \in Nat /\ n <= Len(queue)
  <2>1. queue \in Seq(Jobs) /\ queue' \in Seq(Jobs) /\ at \in Nat /\ at' \in Nat
    BY <1>1 DEF TypeOK
  <2>2. PICK new \in Seq(Jobs) : new = queue'
    BY <2>1
  <2>3. k \in DOMAIN new
    BY <2>2
  <2> QED
    BY <2>1, <2>2, <2>3
<1>3. /\ \A n \in DOMAIN queue : n \in DOMAIN queue' /\ queue'[n] = queue[n]
      /\ \A n \in DOMAIN queue' \ DOMAIN queue : n = Len(queue) + 1
      /\ at' \in {at, at + 1}
  BY <1>1, <1>2 DEF QueueMoves
<1>4. \A n \in DOMAIN queue' : n \in DOMAIN queue \/ n = Len(queue) + 1
  BY <1>3
<1>5. k \in DOMAIN queue \/ (k = Len(queue) + 1 /\ \A n \in DOMAIN queue' : n # k => n < k)
  <2> SUFFICES ASSUME k \notin DOMAIN queue, NEW n \in DOMAIN queue', n # k
               PROVE  n < k
    BY <1>4
  <2>1. k = Len(queue) + 1 /\ n \in DOMAIN queue
    BY <1>4
  <2> QED
    BY <1>2, <2>1
<1>6. at' >= at
  BY <1>2, <1>3
<1> QED
  BY <1>2, <1>3, <1>5, <1>6

\* p is told of j by what was there, or by what is published now for the
\* promise that was made for j.
LEMMA ToldWas ==
  ASSUME NEW p \in Promises, StepFor(p), Tells(p), NEW j \in Numbers(p), Counts(p, j), HeardSame(p, j),
         NEW k \in DOMAIN queue', Told(k, p, j)'
  PROVE  \/ k \in DOMAIN queue /\ Told(k, p, j)
         \/ at \in DOMAIN queue /\ Comes(at, p, j) /\ k \notin DOMAIN queue
<1>1. /\ IInv /\ Moves /\ at \in Nat /\ at' \in Nat /\ at' >= at /\ k \in Nat
      /\ k \in DOMAIN queue => queue'[k] = queue[k]
  BY StepForFacts, QueueIsOld DEF StepFor
<1>2. CASE HeardIn(k, p, j)'
  BY <1>2 DEF HeardSame, Told, HeardIn
<1>3. CASE ~HeardIn(k, p, j)'
  <2>1a. PICK q \in Promises : \E m : k >= at' /\ queue'[k] = Publish(q) /\ HeardFrom(q, m, p, j)'
    BY <1>3 DEF Told
  <2>1. PICK m : k >= at' /\ queue'[k] = Publish(q) /\ HeardFrom(q, m, p, j)'
    BY <2>1a
  <2>2. HeardFrom(q, m, p, j) /\ m \in DOMAIN subscribers[q]
    BY <2>1 DEF HeardSame, HeardFrom
  <2>3. CASE k \in DOMAIN queue
    BY <1>1, <2>1, <2>2, <2>3 DEF Told
  <2>4. CASE k \notin DOMAIN queue
    <3>1. NewPublish(q)
      BY <2>1, <2>4 DEF NewPublish
    <3>2. ~SettlesNone
      BY <2>2, <3>1 DEF SettlesNone
    <3>3. SettlesNow(q)
      BY <1>1, <3>1, <3>2 DEF Moves, SettlesNow
    <3>4. Pending(q) /\ ~Pending(q)'
      BY <3>3, StepForFacts DEF SettlesNow, Pending, TypeOK
    <3> QED
      BY <2>2, <2>4, <3>4, WrapperTurn
  <2> QED
    BY <2>3, <2>4
<1> QED
  BY <1>2, <1>3

LEMMA ComesWas ==
  ASSUME NEW p \in Promises, StepFor(p), Tells(p), NEW j \in Numbers(p), Counts(p, j), HeardSame(p, j),
         NEW k \in DOMAIN queue', Comes(k, p, j)'
  PROVE  k \in DOMAIN queue /\ Comes(k, p, j)
<1>1. /\ HInv /\ Asks(p) /\ Moves /\ Final /\ at \in Nat /\ at' \in Nat /\ at' >= at /\ k \in Nat
      /\ k \in DOMAIN queue => queue'[k] = queue[k]
      /\ Nth(p, j)' = Nth(p, j) /\ TypeOK
  BY StepForFacts, QueueIsOld DEF StepFor
<1>2a. PICK q \in Promises : \E m : Pending(q)' /\ HeardFrom(q, m, p, j)'
  BY DEF Comes
<1>2. PICK m : Pending(q)' /\ HeardFrom(q, m, p, j)'
  BY <1>2a
<1>3. PICK e \in Promises : e = Nth(p, j) /\ k >= at' /\ queue'[k] = Publish(e)
  BY <1>1 DEF Comes
<1>4. HeardFrom(q, m, p, j) /\ m \in DOMAIN subscribers[q]
  BY <1>2 DEF HeardSame, HeardFrom
<1>5. Pending(q)
  BY <1>1, <1>2 DEF Final, Pending, Settled, TypeOK
<1>6. Settled(e) /\ WaitsFor(q, e)
  BY <1>1, <1>3, <1>4, <1>5, HeardIsFor
<1>7. CASE k \in DOMAIN queue
  BY <1>1, <1>3, <1>4, <1>5, <1>7 DEF Comes
<1>8. CASE k \notin DOMAIN queue
  <2>1. NewPublish(e)
    BY <1>3, <1>8 DEF NewPublish
  <2>2. ~SettlesNone
    BY <1>6, <2>1 DEF SettlesNone, WaitsFor
  <2>3. SettlesNow(e)
    BY <1>1, <2>1, <2>2 DEF Moves, SettlesNow
  <2> QED
    BY <1>6, <2>3 DEF SettlesNow, Pending, Settled
<1> QED
  BY <1>7, <1>8

\* Neither i nor j is heard in this step.
LEMMA SameInOrder ==
  ASSUME NEW p \in Promises, StepFor(p), Tells(p), NEW i \in Numbers(p), NEW j \in Numbers(p),
         Counts(p, i), Counts(p, j), GoesBefore(p, i, j), HeardSame(p, i), HeardSame(p, j)
  PROVE  GoesBefore(p, i, j)'
<1>1. QueueMoves /\ at \in Nat /\ queue \in Seq(Jobs)
  BY StepForFacts DEF StepFor, TypeOK
<1>2. ASSUME NEW n, Told(n, p, i)
      PROVE  n \in DOMAIN queue' /\ Told(n, p, i)' /\ n \in DOMAIN queue
  <2>1. Told(n, p, i)'
    BY <1>1, <1>2, ToldStays
  <2> QED
    BY <1>2, <2>1 DEF Told, HeardIn
<1>3. ASSUME NEW k \in DOMAIN queue', Told(k, p, j)'
      PROVE  \E n \in DOMAIN queue' : n < k /\ Told(n, p, i)'
  <2>1. CASE k \in DOMAIN queue /\ Told(k, p, j)
    BY <1>2, <2>1 DEF GoesBefore
  <2>2. CASE at \in DOMAIN queue /\ Comes(at, p, j) /\ k \notin DOMAIN queue
    <3>1. PICK n \in DOMAIN queue : Told(n, p, i) \/ (n < at /\ Comes(n, p, i))
      BY <2>2 DEF GoesBefore
    <3>2. n \in Nat /\ n <= Len(queue) /\ k = Len(queue) + 1 /\ Len(queue) \in Nat
      BY <2>2, QueueIsOld
    <3>3. Told(n, p, i)
      BY <1>1, <3>1, <3>2 DEF Comes
    <3>4. n < k
      BY <3>2
    <3> QED
      BY <1>2, <3>3, <3>4
  <2> QED
    BY <1>3, <2>1, <2>2, ToldWas
<1>4. ASSUME NEW k \in DOMAIN queue', Comes(k, p, j)'
      PROVE  \E n \in DOMAIN queue' : Told(n, p, i)' \/ (n < k /\ Comes(n, p, i)')
  <2>1. k \in DOMAIN queue /\ Comes(k, p, j)
    BY <1>4, ComesWas
  <2>2. PICK n \in DOMAIN queue : Told(n, p, i) \/ (n < k /\ Comes(n, p, i))
    BY <2>1 DEF GoesBefore
  <2>3. CASE Told(n, p, i)
    BY <1>2, <2>3
  <2>4. CASE n < k /\ Comes(n, p, i)
    <3>1. CASE Comes(n, p, i)'
      <4>1. n \in DOMAIN queue'
        BY <3>1 DEF Comes
      <4> QED
        BY <2>4, <3>1, <4>1
    <3>2. CASE \E l \in DOMAIN queue' : Told(l, p, i)'
      BY <3>2
    <3> QED
      BY <2>4, <3>1, <3>2, ComesStays
  <2> QED
    BY <2>2, <2>3, <2>4
<1> QED
  BY <1>3, <1>4 DEF GoesBefore

\* An entry that is not heard yet is on its way after the step.
LEMMA WayAfter ==
  ASSUME NEW p \in Promises, StepFor(p), Tells(p)', Counted(p)', NEW i \in Numbers(p), Counts(p, i)',
         Pending(p)', ~ToCome(p, i)'
  PROVE  \E n \in DOMAIN queue' : Told(n, p, i)' \/ (IsAll(p) /\ Comes(n, p, i)')
<1>1. HInv' /\ Asks(p)' /\ Numbers(p)' = Numbers(p) /\ IsAll(p)' = IsAll(p)
  BY StepForFacts DEF StepFor
<1>2. array'[p][i] # None => IsAll(p)' /\ (Outcome(Nth(p, i)))' = "fulfilled"
  BY <1>1 DEF Counted, CountIsRight
<1>3. array'[p][i] = None
  BY <1>2 DEF Counts
<1>4. Waited(p, i)'
  BY <1>1, <1>3 DEF Counted, NoneIsLost
<1>5. WaysAreKnown'
  BY KnownAfter
<1> QED
  BY <1>1, <1>4, <1>5 DEF WaysAreKnown

\* What gets its outcome now gets it in a step that does nothing for p.
LEMMA NowIsSteady ==
  ASSUME NEW p \in Promises, StepFor(p), Tells(p), NEW j \in Numbers(p), Now(p, j)
  PROVE  Steady(p)
<1> DEFINE e == Nth(p, j)
<1>1. e \in Promises /\ e # p /\ Pending(e) /\ state'[e] # state[e]
  <2>1. e # p
    BY AskedIs, StepForFacts DEF StepFor
  <2>2. e \in Promises /\ Pending(e) /\ SettlesNow(e)
    BY DEF Now
  <2>3. state \in [Promises -> {"pending", "fulfilled", "rejected"}]
    BY StepForFacts DEF TypeOK
  <2>4. state'[e] # state[e]
    BY <2>2, <2>3 DEF SettlesNow, Pending
  <2> QED
    BY <2>1, <2>2, <2>4
<1> HIDE DEF e
<1>2. ~(UNCHANGED state)
  BY <1>1
<1>3. ASSUME NEW outcome, NEW v, Settle(p, outcome, v)
      PROVE  FALSE
  <2>1. state \in [Promises -> {"pending", "fulfilled", "rejected"}]
    BY StepForFacts DEF TypeOK
  <2>2. UNCHANGED state \/ state' = [state EXCEPT ![p] = outcome]
    BY <1>3 DEF Settle, core
  <2> QED
    BY <1>1, <1>2, <2>1, <2>2
<1>4. ~EndStep(p)
  BY <1>2, <1>3 DEF EndStep, core
<1>5. \A i \in Numbers(p) : ~EntryStep(p, i)
  BY <1>2, <1>3 DEF EntryStep, TooLate, EndsBy, Collects, core
<1>6. \A i \in Numbers(p) : ~WaitStep(p, i)
  BY <1>2 DEF WaitStep
<1>7. \A i \in Numbers(p) : ~TurnStep(p, i)
  BY <1>2, <1>3 DEF TurnStep, TurnOfEntry, TooLate, EndsBy, Collects, core
<1> QED
  BY <1>4, <1>5, <1>6, <1>7, StepCases

\* Then p has no entry to come.
LEMMA NowIsNoLoop ==
  ASSUME NEW p \in Promises, StepFor(p), NEW j \in Numbers(p), Now(p, j)
  PROVE  \A i : ~ToCome(p, i)'
<1>1. PICK e \in Promises : e = Nth(p, j) /\ Pending(e) /\ SettlesNow(e)
  BY DEF Now
<1>2. ~Pending(e)'
  BY <1>1, StepForFacts DEF SettlesNow, Pending, TypeOK
<1>3. ~LoopFor(p)'
  BY <1>1, <1>2, LoopSettlesNone
<1> QED
  BY <1>3 DEF ToCome, LoopFor

\* What is published is settled.
LEMMA PublishedAreSettled ==
  ASSUME IInv, NEW k \in DOMAIN queue, NEW q \in Promises, queue[k] = Publish(q)
  PROVE  Settled(q)
  BY DEF IInv, QueuedAreSettled, Publish

LEMMA NowInRace ==
  ASSUME NEW p \in Promises, StepFor(p), Tells(p), Tells(p)', Counted(p)', ~IsAll(p),
         NEW i \in Numbers(p), NEW j \in Numbers(p), Counts(p, i), Counts(p, i)', Now(p, j), Pending(p)'
  PROVE  GoesBefore(p, i, j)'
<1>1. /\ HInv /\ IInv /\ Asks(p) /\ Moves /\ Steady(p) /\ TypeOK
      /\ \A l : HeardSame(p, l)
  BY StepForFacts, NowIsSteady DEF StepFor, Steady
<1>2. PICK e \in Promises : e = Nth(p, j) /\ Pending(e) /\ ~Settled(e) /\ SettlesNow(e)
  BY DEF Now, Pending, Settled
<1>3. ~Pending(e)'
  BY <1>1, <1>2 DEF SettlesNow, Pending, TypeOK
<1>4. e # Nth(p, i)
  BY <1>2 DEF Counts, Outcome, Pending
<1>5. ASSUME NEW q \in Promises, NEW m, NEW l \in Numbers(p), HeardFrom(q, m, p, l)'
      PROVE  q = Nth(p, l)
  <2>1. HeardFrom(q, m, p, l)
    BY <1>1, <1>5 DEF HeardSame
  <2> QED
    BY <1>1, <2>1, HeardIsFor DEF StandsFor
<1>6. ASSUME NEW k, HeardIn(k, p, j)'
      PROVE  FALSE
  <2>1. HeardIn(k, p, j)
    BY <1>1, <1>6 DEF HeardSame
  <2>2. k \in DOMAIN queue /\ Serves(queue[k], p) /\ queue[k].subscriber.i = j
    BY <2>1 DEF HeardIn, Serves
  <2>3. SettledAs(queue[k].promise, Nth(p, j))
    BY <2>2 DEF Tells, QueueTells
  <2>4. SettledAs(queue[k].promise, e)
    BY <1>2, <2>3
  <2> QED
    BY <1>2, <2>4 DEF SettledAs, Outcome, Settled, Pending
<1>7. PICK n \in DOMAIN queue' : Told(n, p, i)'
  BY NowIsNoLoop, WayAfter
<1>8. ASSUME NEW k \in DOMAIN queue', Told(k, p, j)'
      PROVE  n < k
  <2>1a. PICK q \in Promises : \E m : queue'[k] = Publish(q) /\ HeardFrom(q, m, p, j)'
    BY <1>6, <1>8 DEF Told
  <2>1. PICK m : queue'[k] = Publish(q) /\ HeardFrom(q, m, p, j)'
    BY <2>1a
  <2>2. queue'[k] = Publish(e)
    BY <1>2, <1>5, <2>1
  <2>3. k \notin DOMAIN queue
    BY <1>1, <1>2, <2>2, QueueIsOld, PublishedAreSettled
  <2>4. n # k
    <3> SUFFICES ASSUME Told(k, p, i)'
                 PROVE  FALSE
      BY <1>7
    <3>1. ~HeardIn(k, p, i)'
      BY <2>2 DEF HeardIn, Publish
    <3>2a. PICK r \in Promises : \E l : queue'[k] = Publish(r) /\ HeardFrom(r, l, p, i)'
      BY <3>1 DEF Told
    <3>2. PICK l : queue'[k] = Publish(r) /\ HeardFrom(r, l, p, i)'
      BY <3>2a
    <3>3. r = e
      BY <2>2, <3>2 DEF Publish
    <3> QED
      BY <1>4, <1>5, <3>2, <3>3
  <2> QED
    BY <2>3, <2>4, QueueIsOld
<1>9. ASSUME NEW k \in DOMAIN queue', Comes(k, p, j)'
      PROVE  FALSE
  <2>1a. PICK q \in Promises : \E m : Pending(q)' /\ HeardFrom(q, m, p, j)'
    BY <1>9 DEF Comes
  <2>1. PICK m : Pending(q)' /\ HeardFrom(q, m, p, j)'
    BY <2>1a
  <2> QED
    BY <1>2, <1>3, <1>5, <2>1
<1> QED
  BY <1>7, <1>8, <1>9 DEF GoesBefore

LEMMA NowInAll ==
  ASSUME NEW p \in Promises, StepFor(p), Tells(p), Tells(p)', Counted(p)', IsAll(p),
         NEW i \in Numbers(p), NEW j \in Numbers(p), Counts(p, i), Counts(p, i)', Now(p, j), Pending(p)'
  PROVE  GoesBefore(p, i, j)'
<1>1. /\ HInv /\ IInv /\ Asks(p) /\ Moves /\ Steady(p) /\ TypeOK
      /\ \A l : HeardSame(p, l)
      /\ \A l : Nth(p, l)' = Nth(p, l)
  BY StepForFacts, NowIsSteady DEF StepFor, Steady
<1>2. PICK e \in Promises : e = Nth(p, j) /\ Pending(e) /\ ~Settled(e) /\ SettlesNow(e)
  BY DEF Now, Pending, Settled
<1>3. e # Nth(p, i)
  BY <1>2 DEF Counts, Outcome, Pending
<1>4. ASSUME NEW k \in DOMAIN queue', Told(k, p, j)'
      PROVE  FALSE
  <2>1. ~HeardIn(k, p, j)'
    <3> SUFFICES ASSUME HeardIn(k, p, j)
                 PROVE  FALSE
      BY <1>1 DEF HeardSame
    <3>1. k \in DOMAIN queue /\ Serves(queue[k], p)
      BY DEF HeardIn, Serves
    <3> QED
      BY <3>1 DEF Tells, QueueTells
  <2>2a. PICK q \in Promises : \E m : queue'[k] = Publish(q) /\ HeardFrom(q, m, p, j)'
    BY <1>4, <2>1 DEF Told
  <2>2. PICK m : queue'[k] = Publish(q) /\ HeardFrom(q, m, p, j)'
    BY <2>2a
  <2>3. HeardFrom(q, m, p, j)
    BY <1>1, <2>2 DEF HeardSame
  <2>4. q # e /\ ~Settled(q)
    <3>1. StandsFor(q, p, j) /\ (Settled(q) => Outcome(Nth(p, j)) # "pending")
      BY <1>1, <2>3, HeardIsFor
    <3>2. q # Nth(p, j)
      BY <3>1 DEF StandsFor
    <3>3. Outcome(Nth(p, j)) = "pending"
      BY <1>2 DEF Outcome, Pending
    <3> QED
      BY <1>2, <3>1, <3>2, <3>3
  <2>5. k \notin DOMAIN queue
    BY <1>1, <2>2, <2>4, QueueIsOld, PublishedAreSettled
  <2>6. NewPublish(q)
    BY <2>2, <2>5 DEF NewPublish
  <2> QED
    BY <1>2, <2>4, <2>6 DEF SettlesNow
<1>5. PICK n \in DOMAIN queue' : Told(n, p, i)' \/ Comes(n, p, i)'
  BY NowIsNoLoop, WayAfter
<1>6. ASSUME NEW k \in DOMAIN queue', Comes(k, p, j)', Comes(n, p, i)'
      PROVE  n < k
  <2>1. queue'[k] = Publish(e)
    BY <1>1, <1>2, <1>6 DEF Comes
  <2>2. queue'[n] # Publish(e)
    BY <1>1, <1>3, <1>6 DEF Comes, Publish
  <2>3. k \notin DOMAIN queue
    BY <1>1, <1>2, <2>1, QueueIsOld, PublishedAreSettled
  <2> QED
    BY <2>1, <2>2, <2>3, QueueIsOld
<1> QED
  BY <1>4, <1>5, <1>6 DEF GoesBefore

\* The loop waits for the entry j.
LEMMA WaitInOrder ==
  ASSUME NEW p \in Promises, StepFor(p), Tells(p), Tells(p)', Counted(p), Counted(p)',
         NEW l \in Numbers(p), WaitStep(p, l),
         NEW i \in Numbers(p), NEW j \in Numbers(p), Counts(p, i), Counts(p, j), Counts(p, i)',
         Earlier(p, i, j), GoesBefore(p, i, j), Pending(p)'
  PROVE  GoesBefore(p, i, j)'
<1>1. /\ TypeOK /\ LoopFor(p) /\ ToCome(p, l) /\ l = loop.i /\ HeardMore(p, l)
      /\ \A n \in Numbers(p) : ToCome(p, n)' <=> ToCome(p, n) /\ n # l
      /\ \A n : n # l => HeardSame(p, n)
  BY StepForFacts DEF WaitStep, LoopAt, HeardMore
<1>2. i < j /\ i \in Nat /\ j \in Nat
  <2>1. i < j
    BY <1>1, LoopIsEarly
  <2>2. Numbers(p) \subseteq Nat
    BY AskedIs, StepForFacts DEF StepFor
  <2> QED
    BY <2>1, <2>2
<1>3. \A k, q, m : ~(k \in DOMAIN queue /\ HeardIn(k, p, l)) /\ ~(q \in Promises /\ HeardFrom(q, m, p, l))
  BY <1>1 DEF Counted, NotYet, HeardFrom
<1>4. CASE l = i
  <2>1. HeardSame(p, j)
    BY <1>1, <1>2, <1>4
  <2>2. ASSUME NEW n, Told(n, p, i) \/ Comes(n, p, i)
        PROVE  FALSE
    BY <1>3, <1>4, <2>2 DEF Told, Comes, HeardIn
  <2>3. ASSUME NEW k \in DOMAIN queue', Told(k, p, j)' \/ Comes(k, p, j)'
        PROVE  \E n \in DOMAIN queue : Told(n, p, j) \/ Comes(n, p, j)
    BY <2>1, <2>3, ToldWas, ComesWas
  <2>4. ~(\E n \in DOMAIN queue : Told(n, p, j) \/ Comes(n, p, j))
    BY <2>2 DEF GoesBefore
  <2> QED
    BY <2>3, <2>4 DEF GoesBefore
<1>5. CASE l = j
  <2>1. Outcome(Nth(p, j)) # "pending"
    BY DEF Counts
  <2>2. PICK q \in Promises, n \in Nat :
          /\ ~IsAll(p) /\ n = Len(queue) + 1 /\ HeardIn(n, p, j)' /\ \A r \in Promises : queue'[n] # Publish(r)
          /\ \A r \in Promises : \A m : HeardFrom(r, m, p, j)' <=> HeardFrom(r, m, p, j)
          /\ \A k : HeardIn(k, p, j)' <=> HeardIn(k, p, j) \/ k = n
    <3>1. ~(\E q \in Promises : /\ Pending(q) /\ StandsFor(q, p, j)
                                /\ IsAll(p) => Nth(p, j) \in Promises /\ Pending(Nth(p, j)))
      BY <2>1 DEF StandsFor, Outcome, Pending
    <3> QED
      BY <1>1, <1>5, <3>1 DEF HeardMore
  <2>3. ~ToCome(p, i)'
    BY <1>1, <1>2, <1>5, StepForFacts DEF ToCome
  <2>4. PICK k \in DOMAIN queue' : Told(k, p, i)'
    BY <2>2, <2>3, WayAfter
  <2>5. k # n
    <3>1. ~HeardIn(n, p, i)'
      BY <1>2, <2>2 DEF HeardIn
    <3>2. ~(\E r \in Promises : queue'[n] = Publish(r))
      BY <2>2
    <3> QED
      BY <2>4, <3>1, <3>2 DEF Told
  <2>6. n \in DOMAIN queue' /\ n \notin DOMAIN queue
    <3>1. n \in DOMAIN queue'
      BY <2>2 DEF HeardIn
    <3>2. n \notin DOMAIN queue
      BY <2>2, <1>1 DEF TypeOK
    <3> QED
      BY <3>1, <3>2
  <2>7. k < n
    BY <2>5, <2>6, QueueIsOld
  <2>8. ASSUME NEW g \in DOMAIN queue', Told(g, p, j)'
        PROVE  g = n
    <3>1. ~(\E r \in Promises : \E m : HeardFrom(r, m, p, j)')
      BY <1>3, <1>5, <2>2
    <3>2. HeardIn(g, p, j)'
      BY <2>8, <3>1 DEF Told
    <3>3. HeardIn(g, p, j) => g \in DOMAIN queue
      BY DEF HeardIn
    <3> QED
      BY <1>3, <1>5, <2>2, <3>2, <3>3
  <2>9. ASSUME NEW g \in DOMAIN queue', Comes(g, p, j)'
        PROVE  FALSE
    BY <1>3, <1>5, <2>2, <2>9 DEF Comes
  <2> QED
    BY <2>4, <2>7, <2>8, <2>9 DEF GoesBefore
<1>6. CASE l # i /\ l # j
  BY <1>1, <1>6, SameInOrder
<1> QED
  BY <1>4, <1>5, <1>6

\* p is told of the entry l, and waits on: then l does not count.
LEMMA TurnDoesNotCount ==
  ASSUME NEW p \in Promises, StepFor(p), NEW l \in Numbers(p), TurnStep(p, l), Pending(p)'
  PROVE  ~Counts(p, l)
<1>1. TypeOK /\ Final
  BY StepForFacts
<1>2. Pending(p)
  BY <1>1 DEF Final, Pending, Settled, TypeOK
<1>3. ~TooLate(p)
  BY <1>2 DEF TooLate
<1>4. CASE EndsBy(p, l)
  <2>1. Outcome(Nth(p, l)) # "pending"
    BY <1>4 DEF EndsBy, Counts
  <2>2. state' = [state EXCEPT ![p] = Outcome(Nth(p, l))]
    BY <1>2, <1>4 DEF EndsBy, Settle
  <2> QED
    BY <1>1, <2>1, <2>2 DEF TypeOK, Pending
<1>5. CASE Collects(p, l)
  BY <1>5 DEF Collects, Counts
<1> QED
  BY <1>3, <1>4, <1>5 DEF TurnStep, TurnOfEntry

LEMMA OrderKept ==
  ASSUME NEW p \in Promises, StepFor(p), Tells(p), Tells(p)', Counted(p), Counted(p)', HeardInOrder(p)
  PROVE  HeardInOrder(p)'
<1>1. TypeOK /\ Final /\ Numbers(p)' = Numbers(p)
  BY StepForFacts
<1> SUFFICES ASSUME Pending(p)', NEW i \in Numbers(p), NEW j \in Numbers(p),
                    Counts(p, i)', Counts(p, j)', Earlier(p, i, j)'
             PROVE  GoesBefore(p, i, j)'
  BY <1>1 DEF HeardInOrder
<1>2. Pending(p)
  BY <1>1 DEF Final, Pending, Settled, TypeOK
<1>3. Counts(p, i) /\ ((Counts(p, j) /\ Earlier(p, i, j)) \/ Now(p, j))
  BY EarlierWas
<1>4. CASE Now(p, j)
  BY <1>3, <1>4, NowInRace, NowInAll
<1>5. CASE Counts(p, j) /\ Earlier(p, i, j)
  <2>1. GoesBefore(p, i, j)
    BY <1>2, <1>3, <1>5 DEF HeardInOrder
  <2>2. CASE HeardSame(p, i) /\ HeardSame(p, j)
    BY <1>3, <1>5, <2>1, <2>2, SameInOrder
  <2>3. CASE \E l \in Numbers(p) : WaitStep(p, l)
    BY <1>3, <1>5, <2>1, <2>3, WaitInOrder
  <2>4. CASE \E l \in Numbers(p) : TurnStep(p, l)
    <3>1. PICK l \in Numbers(p) : TurnStep(p, l)
      BY <2>4
    <3>2. l # i /\ l # j
      BY <1>3, <1>5, <3>1, TurnDoesNotCount
    <3>3. HeardSame(p, i) /\ HeardSame(p, j)
      BY <3>1, <3>2, OthersAreHeard DEF TurnStep
    <3> QED
      BY <2>2, <3>3
  <2>5. CASE Steady(p) \/ EndStep(p) \/ \E l \in Numbers(p) : EntryStep(p, l)
    BY <2>2, <2>5 DEF Steady, EndStep, EntryStep
  <2> QED
    BY <2>3, <2>4, <2>5, StepCases
<1> QED
  BY <1>3, <1>4, <1>5

-----------------------------------------------------------------------------
(* The answer. *)

LEMMA CountsStays ==
  ASSUME NEW p \in Promises, StepFor(p), NEW i \in Numbers(p), Counts(p, i)
  PROVE  /\ Counts(p, i)' /\ ~Now(p, i)
         /\ Outcome(Nth(p, i))' = Outcome(Nth(p, i)) /\ Value(Nth(p, i))' = Value(Nth(p, i))
<1>1. Nth(p, i)' = Nth(p, i) /\ IsAll(p)' = IsAll(p) /\ TypeOK /\ Final
  BY StepForFacts
<1>2. PICK e : e = Nth(p, i)
  OBVIOUS
<1>3. Outcome(e) # "pending"
  BY <1>2 DEF Counts
<1>4. Outcome(e)' = Outcome(e) /\ Value(e)' = Value(e)
  BY <1>1, <1>3, OutcomeStays
<1>5. Outcome(Nth(p, i))' = Outcome(Nth(p, i)) /\ Value(Nth(p, i))' = Value(Nth(p, i))
  BY <1>1, <1>2, <1>4 DEF Outcome, Value
<1>6. ~Now(p, i)
  BY <1>2, <1>3 DEF Now, Outcome, Pending
<1> QED
  BY <1>1, <1>5, <1>6 DEF Counts

\* p has its outcome, and who is the first that counts.
LEMMA FirstCounts ==
  ASSUME NEW p \in Promises, StepFor(p), NEW i \in Numbers(p), Counts(p, i),
         state'[p] = Outcome(Nth(p, i)), result'[p] = Value(Nth(p, i)),
         \A j \in Numbers(p) : ~(Counts(p, j) /\ Earlier(p, j, i))
  PROVE  AnsweredBy(p, i)'
<1>1. /\ Counts(p, i)' /\ ~Now(p, i) /\ Numbers(p)' = Numbers(p)
      /\ Outcome(Nth(p, i))' = Outcome(Nth(p, i)) /\ Value(Nth(p, i))' = Value(Nth(p, i))
  BY CountsStays, StepForFacts
<1>2. Ends(p, Outcome(Nth(p, i)), Value(Nth(p, i)))'
  BY <1>1 DEF Ends
<1>3. \A j \in Numbers(p) : Counts(p, j)' => ~Earlier(p, j, i)'
  BY <1>1, EarlierWas
<1> QED
  BY <1>1, <1>2, <1>3 DEF AnsweredBy

\* A promise that has its answer keeps it.
LEMMA AnswerStays ==
  ASSUME NEW p \in Promises, StepFor(p), Tells(p), Answered(p), ~Pending(p)
  PROVE  Answered(p)'
<1>1. /\ TypeOK /\ Final /\ Numbers(p)' = Numbers(p) /\ IsAll(p)' = IsAll(p)
      /\ state'[p] = state[p] /\ result'[p] = result[p]
  <2>1. TypeOK /\ Final /\ Numbers(p)' = Numbers(p) /\ IsAll(p)' = IsAll(p)
    BY StepForFacts
  <2>2. state[p] \in {"pending", "fulfilled", "rejected"}
    BY <2>1 DEF TypeOK
  <2>3. Settled(p)
    BY <2>2 DEF Pending, Settled
  <2> QED
    BY <2>1, <2>3 DEF Final
<1>2. ASSUME NEW i \in Numbers(p), AnsweredBy(p, i)
      PROVE  AnsweredBy(p, i)'
  <2>1. Counts(p, i) /\ \A j \in Numbers(p) : ~(Counts(p, j) /\ Earlier(p, j, i))
    BY <1>2 DEF AnsweredBy
  <2>2. state'[p] = Outcome(Nth(p, i)) /\ result'[p] = Value(Nth(p, i))
    BY <1>1, <1>2 DEF AnsweredBy, Ends
  <2> QED
    BY <2>1, <2>2, FirstCounts
<1>3. ASSUME AnsweredByAll(p)
      PROVE  AnsweredByAll(p)'
  <2>1. \A l \in Numbers(p) : ~ToCome(p, l)
    BY <1>3 DEF AnsweredByAll
  <2>2. array'[p] = array[p] /\ \A i \in Numbers(p) : ~ToCome(p, i)'
    <3>1. CASE Steady(p)
      BY <2>1, <3>1 DEF Steady, Kept
    <3>2. CASE EndStep(p)
      BY <3>2 DEF EndStep
    <3>3. \A l \in Numbers(p) : ~EntryStep(p, l) /\ ~WaitStep(p, l)
      BY <2>1 DEF EntryStep, WaitStep, LoopAt
    <3>4. CASE \E l \in Numbers(p) : TurnStep(p, l)
      BY <3>4 DEF TurnStep, TurnOfEntry, EndsBy, Collects
    <3> QED
      BY <3>1, <3>2, <3>3, <3>4, StepCases
  <2> QED
    BY <1>1, <1>3, <2>2 DEF AnsweredByAll, Ends
<1> QED
  BY <1>1, <1>2, <1>3 DEF Answered

\* What is left of p is finite.
LEMMA LeftIsFinite ==
  ASSUME NEW p \in Promises, StepFor(p)
  PROVE  IsFiniteSet(Left(p))
<1>1. Numbers(p) = 1..Len(asked[p].entries) /\ Len(asked[p].entries) \in Nat
  BY AskedIs, StepForFacts DEF StepFor
<1>2. IsFiniteSet(Numbers(p))
  BY <1>1, FS_Interval
<1> QED
  BY <1>2, FS_Subset DEF Left

\* The value of the last entry is kept.
LEMMA LastIsKept ==
  ASSUME NEW p \in Promises, StepFor(p), Counted(p), NEW l \in Numbers(p), Collects(p, l), ~Pending(p)',
         array[p][l] = None, \A j \in Numbers(p) : ToCome(p, j)' => ToCome(p, j) /\ j # l
  PROVE  AnsweredByAll(p)'
<1>1. /\ TypeOK /\ Numbers(p)' = Numbers(p) /\ IsAll(p)' = IsAll(p)
      /\ IsAll(p) /\ Pending(p) /\ CountIsRight(p) /\ NoneIsTwice(p)
  BY StepForFacts DEF Counted, Collects
<1>2. remaining[p] = 1 /\ Settle(p, "fulfilled", ArrayOf(p))
  BY <1>1 DEF Collects, Pending, core
<1>3. Cardinality(Left(p)) = 1
  BY <1>1, <1>2 DEF CountIsRight
<1>4. PICK x : Left(p) = {x}
  BY <1>3, LeftIsFinite, FS_Singleton
<1>5. \A j \in Numbers(p) : array[p][j] = None => j = l
  BY <1>4 DEF Left
<1>6. \A j \in Numbers(p) : array'[p][j] # None
  <2>1. Keeps(p, l)
    BY DEF Collects, Keeps
  <2>2. array'[p][l] # None /\ \A j \in Numbers(p) : j # l => array'[p][j] = array[p][j]
    BY <1>1, <2>1, KeepIsRight
  <2> QED
    BY <1>5, <2>2
<1>7. \A j \in Numbers(p) : ~ToCome(p, j)'
  BY <1>1, <1>5 DEF NoneIsTwice
<1>8. Ends(p, "fulfilled", ArrayOf(p))'
  BY <1>1, <1>2 DEF Settle, Ends, TypeOK
<1> QED
  BY <1>1, <1>6, <1>7, <1>8 DEF AnsweredByAll

LEMMA EndAnswers ==
  ASSUME NEW p \in Promises, StepFor(p), Counted(p), EndStep(p), Pending(p), ~Pending(p)'
  PROVE  AnsweredByAll(p)'
<1>1. /\ TypeOK /\ Numbers(p)' = Numbers(p) /\ IsAll(p)' = IsAll(p) /\ CountIsRight(p)
  BY StepForFacts DEF Counted
<1>2. remaining[p] = 0 /\ IsAll(p) /\ Settle(p, "fulfilled", ArrayOf(p))
  BY DEF EndStep, Pending, core
<1>3. Cardinality(Left(p)) = 0
  BY <1>1, <1>2 DEF CountIsRight
<1>4. Left(p) = {}
  BY <1>3, LeftIsFinite, FS_EmptySet
<1>5. \A j \in Numbers(p) : array'[p][j] # None /\ ~ToCome(p, j)'
  BY <1>4 DEF Left, EndStep
<1>6. Ends(p, "fulfilled", ArrayOf(p))'
  BY <1>1, <1>2 DEF Settle, Ends, TypeOK
<1> QED
  BY <1>1, <1>2, <1>5, <1>6 DEF AnsweredByAll

LEMMA EntryAnswers ==
  ASSUME NEW p \in Promises, StepFor(p), Tells(p), Counted(p), NEW l \in Numbers(p), EntryStep(p, l),
         Pending(p), ~Pending(p)'
  PROVE  Answered(p)'
<1>1. /\ TypeOK /\ Numbers(p)' = Numbers(p) /\ IsAll(p) /\ LoopFor(p) /\ ToCome(p, l) /\ l = loop.i
      /\ \A j \in Numbers(p) : ToCome(p, j)' <=> ToCome(p, j) /\ j # l
  BY StepForFacts DEF EntryStep, LoopAt
<1>2. CASE EndsBy(p, l)
  <2>1. Counts(p, l) /\ state'[p] = Outcome(Nth(p, l)) /\ result'[p] = Value(Nth(p, l))
    BY <1>1, <1>2 DEF EndsBy, Settle, TypeOK
  <2>2. ASSUME NEW j \in Numbers(p), Counts(p, j), Earlier(p, j, l)
        PROVE  FALSE
    <3>1. j < l
      BY <1>1, <2>1, <2>2, LoopIsEarly
    <3>2. Numbers(p) \subseteq Nat
      BY AskedIs, StepForFacts DEF StepFor
    <3>3. ~ToCome(p, j)
      BY <1>1, <3>1, <3>2 DEF ToCome
    <3>4. array[p][j] = None
      BY <1>1, <2>2 DEF Counted, CountIsRight, Counts
    <3>5. Waited(p, j)
      BY <3>4 DEF Counted, NoneIsLost
    <3>6. Outcome(Nth(p, j)) # "pending"
      BY <2>2 DEF Counts
    <3>7. ASSUME NEW q \in Promises, NEW m \in DOMAIN subscribers[q], HeardFrom(q, m, p, j)
          PROVE  FALSE
      <4>1. Pending(Nth(p, j))
        BY <1>1, <3>7 DEF Counted, NotYet, LoopFor
      <4>2. StandsFor(q, p, j)
        BY <3>7, HeardIsFor DEF StepFor
      <4>3. Nth(p, j) \in Promises
        BY <1>1, <4>2 DEF StandsFor
      <4> QED
        BY <3>6, <4>1, <4>3 DEF Outcome, Pending
    <3>8. ASSUME NEW k \in DOMAIN queue, HeardIn(k, p, j)
          PROVE  FALSE
      BY <1>1, <3>8 DEF HeardIn, Serves, Tells, QueueTells
    <3> QED
      BY <3>3, <3>5, <3>7, <3>8 DEF Waited
  <2> QED
    BY <1>1, <2>1, <2>2, FirstCounts DEF Answered
<1>3. CASE Collects(p, l)
  <2>1. array[p][l] = None
    BY <1>1 DEF Counted, NoneIsTwice
  <2> QED
    BY <1>1, <1>3, <2>1, LastIsKept DEF Answered
<1>4. ~TooLate(p)
  BY DEF TooLate
<1> QED
  BY <1>2, <1>3, <1>4 DEF EntryStep

LEMMA TurnAnswers ==
  ASSUME NEW p \in Promises, StepFor(p), Tells(p), Counted(p), HeardInOrder(p), NEW l \in Numbers(p),
         TurnStep(p, l), Pending(p), ~Pending(p)'
  PROVE  Answered(p)'
<1>1. TypeOK /\ Numbers(p)' = Numbers(p) /\ at \in Nat
  BY StepForFacts DEF TypeOK
<1>2. at \in DOMAIN queue /\ Told(at, p, l)
  BY <1>1 DEF TurnStep, TurnOfEntry, Told, HeardIn, HeardFrom
<1>3. CASE EndsBy(p, l)
  <2>1. Counts(p, l) /\ state'[p] = Outcome(Nth(p, l)) /\ result'[p] = Value(Nth(p, l))
    BY <1>1, <1>3 DEF EndsBy, Settle, TypeOK
  <2>2. ASSUME NEW j \in Numbers(p), Counts(p, j), Earlier(p, j, l)
        PROVE  FALSE
    <3>1. GoesBefore(p, j, l)
      BY <2>1, <2>2 DEF HeardInOrder
    <3>2. PICK n \in DOMAIN queue : n < at /\ Told(n, p, j)
      BY <1>2, <3>1 DEF GoesBefore
    <3>3. n \in Nat
      BY <1>1 DEF TypeOK
    <3> QED
      BY <1>1, <3>2, <3>3 DEF Told, HeardIn, EntryHadTurn
  <2> QED
    BY <1>1, <2>1, <2>2, FirstCounts DEF Answered
<1>4. CASE Collects(p, l)
  <2>1. ~HeardIn(at, p, l)
    BY <1>4 DEF HeardIn, Serves, Tells, QueueTells, Collects
  <2>2. PICK q \in Promises : HeardFrom(q, pos, p, l)
    BY <2>1 DEF TurnStep, TurnOfEntry
  <2>3. array[p][l] = None
    BY <1>4, <2>2 DEF Counted, NoneIsTwice, HeardFrom, Collects
  <2> QED
    BY <1>4, <2>3, LastIsKept DEF Answered, TurnStep
<1>5. ~TooLate(p)
  BY DEF TooLate
<1> QED
  BY <1>3, <1>4, <1>5 DEF TurnStep, TurnOfEntry

LEMMA AnswerKept ==
  ASSUME NEW p \in Promises, StepFor(p), Tells(p), Counted(p), HeardInOrder(p), Answered(p)
  PROVE  Answered(p)'
<1>1. CASE ~Pending(p)
  BY <1>1, AnswerStays
<1>2. CASE Pending(p)'
  BY <1>2 DEF Answered
<1>3. CASE Pending(p) /\ ~Pending(p)'
  <2>1. CASE Steady(p)
    BY <1>3, <2>1 DEF Steady, Kept, OutcomeKept, Pending
  <2>2. CASE EndStep(p)
    BY <1>3, <2>2, EndAnswers DEF Answered
  <2>3. CASE \E l \in Numbers(p) : EntryStep(p, l)
    BY <1>3, <2>3, EntryAnswers
  <2>4. CASE \E l \in Numbers(p) : WaitStep(p, l)
    BY <1>3, <2>4 DEF WaitStep, Pending
  <2>5. CASE \E l \in Numbers(p) : TurnStep(p, l)
    BY <1>3, <2>5, TurnAnswers
  <2> QED
    BY <2>1, <2>2, <2>3, <2>4, <2>5, StepCases
<1> QED
  BY <1>1, <1>2, <1>3

-----------------------------------------------------------------------------
(* The answer that is asked for is given. *)

WillAllAnswer == \A p \in Promises : Asks(p) => WillAnswer(p)

\* Who has been asked goes on as before.
LEMMA OldAnswers ==
  ASSUME HInv, HInv', AnswerBase, AnswerBase', Next, Moves, WillAllAnswer,
         NEW p \in Promises, Asks(p)', asked[p] # None
  PROVE  WillAnswer(p)'
<1>1. asked'[p] = asked[p] /\ TypeOK /\ Final
  BY AskedStays, MovesAreFinal DEF HInv, IInv
<1>2. Asks(p)
  BY <1>1, AsksStayed
<1>3. Tells(p) /\ Counted(p) /\ HeardInOrder(p) /\ Answered(p)
  BY <1>2 DEF WillAllAnswer, WillAnswer, Tells, Counted
<1>4. StepFor(p)
  BY <1>1, <1>3, StepForIs DEF Tells
<1>5. Tells(p)' /\ Counted(p)'
  BY <1>3, <1>4, TellsKept, CountedKept
<1>6. HeardInOrder(p)' /\ Answered(p)'
  BY <1>3, <1>4, <1>5, OrderKept, AnswerKept
<1> QED
  BY <1>5, <1>6 DEF WillAnswer, Tells, Counted

\* Nobody tells the promise that is made now of anything.
LEMMA NewIsNotTold ==
  ASSUME HInv, NEW p \in Promises \ Made, UNCHANGED <<core, queueV, at, pos, running, adoptions>>
  PROVE  /\ \A q \in Promises : \A m \in DOMAIN subscribers'[q] : subscribers'[q][m].to # p
         /\ \A k \in DOMAIN queue' : ~Serves(queue'[k], p)
         /\ \A k \in DOMAIN adoptions' : adoptions'[k].promise # p
         /\ Pending(p)'
<1>1. /\ subscribers' = subscribers /\ queue' = queue /\ adoptions' = adoptions /\ state' = state
  BY DEF core, queueV
<1> QED
  BY <1>1 DEF HInv, HandsInvariant, WaitingAreMade, Others, OthersAreMade, SettledAreMade, Pending

LEMMA NewAnswers ==
  ASSUME HInv, HInv', AnswerBase, AnswerBase', NEW kind \in {"all", "race"}, NEW entries \in Seq(Values),
         NEW p \in Promises \ Made, BeginsFor(p, kind, entries)
  PROVE  WillAnswer(p)'
<1>1. /\ \A q \in Promises : \A m \in DOMAIN subscribers'[q] : subscribers'[q][m].to # p
      /\ \A k \in DOMAIN queue' : ~Serves(queue'[k], p)
      /\ \A k \in DOMAIN adoptions' : adoptions'[k].promise # p
      /\ Pending(p)'
  BY NewIsNotTold DEF BeginsFor
<1>2. Tells(p)'
  BY <1>1 DEF Tells, SubscribersTell, QueueTells, NoObjectTells
<1>3. /\ \A q, m, i : ~(q \in Promises /\ HeardFrom(q, m, p, i)')
      /\ \A k, i : ~HeardIn(k, p, i)'
  BY <1>1 DEF HeardFrom, HeardIn, Serves
<1>4. /\ DOMAIN array = Promises /\ DOMAIN asked = Promises /\ DOMAIN remaining = Promises
  BY DEF AnswerBase, AskedIsTyped, HInv, IInv, TypeOK
<1>5. /\ asked'[p] = [kind |-> kind, entries |-> entries, since |-> Len(order)]
      /\ array'[p] = [i \in DOMAIN entries |-> None] /\ remaining'[p] = Len(entries)
      /\ loop' # None /\ loop'.to = p /\ loop'.i = 1
  <2>1. loop' # None
    <3>1. loop' = [kind |-> kind, to |-> p, entries |-> entries, i |-> 1, inner |-> None]
      BY DEF BeginsFor
    <3>2. loop' \in Loop
      BY <3>1 DEF Loop
    <3> QED
      BY <3>2
  <2> QED
    BY <1>4, <2>1 DEF BeginsFor
<1>6. Numbers(p)' = DOMAIN entries /\ (IsAll(p)' <=> kind = "all")
  BY <1>5 DEF Numbers, Entries, IsAll
<1>7. DOMAIN entries = 1..Len(entries) /\ Len(entries) \in Nat
  OBVIOUS
<1>8. \A i \in DOMAIN entries : ToCome(p, i)' /\ array'[p][i] = None
  BY <1>5, <1>7 DEF ToCome
<1>9. NoneIsLost(p)' /\ NoneIsTwice(p)'
  BY <1>3, <1>6, <1>8 DEF NoneIsLost, NoneIsTwice, Waited
<1>10. NotYet(p)'
  BY <1>3, <1>6 DEF NotYet
<1>11. CountIsRight(p)'
  <2>1. Left(p)' = 1..Len(entries)
    BY <1>6, <1>7, <1>8 DEF Left
  <2>2. remaining'[p] = Cardinality(Left(p))'
    <3>1. \A n \in Nat : Cardinality(1..n) = n
      <4> SUFFICES ASSUME NEW n \in Nat PROVE Cardinality(1..n) = n
        OBVIOUS
      <4>1. Cardinality(1..n) = IF 1 > n THEN 0 ELSE n - 1 + 1
        BY FS_Interval
      <4> QED
        BY <4>1
    <3>2. Cardinality(1..Len(entries)) = Len(entries)
      BY <1>7, <3>1
    <3> QED
      BY <1>5, <2>1, <3>2
  <2>3. array'[p] = [i \in Numbers(p)' |-> array'[p][i]]
    BY <1>5, <1>6, <1>8
  <2> QED
    BY <1>5, <1>6, <1>8, <2>2, <2>3 DEF CountIsRight
<1>12. HeardInOrder(p)'
  <2>1. \A k, i : ~Told(k, p, i)' /\ ~Comes(k, p, i)'
    BY <1>3 DEF Told, Comes
  <2> QED
    BY <2>1 DEF HeardInOrder, GoesBefore
<1> QED
  BY <1>1, <1>2, <1>9, <1>10, <1>11, <1>12 DEF WillAnswer, Tells, Answered

LEMMA AllAnswerAfter ==
  ASSUME HInv, HInv', AnswerBase, AnswerBase', Next, WillAllAnswer
  PROVE  WillAllAnswer'
<1>1. Moves
  BY BaseKept DEF AnswerBase, AskedIsTyped
<1> SUFFICES ASSUME NEW p \in Promises, Asks(p)'
             PROVE  WillAnswer(p)'
  BY DEF WillAllAnswer
<1>2. asked'[p] # None /\ asked'[p].kind \in {"all", "race"}
  BY DEF Asks, Many
<1>3. CASE asked[p] # None
  BY <1>1, <1>3, OldAnswers
<1>4. CASE asked[p] = None
  <2>1. asked' # asked
    BY <1>2, <1>4
  <2>2. ~LoopStep
    BY <2>1, LoopActs
  <2>3. ~EndLoop /\ ~Between
    BY <2>1 DEF EndLoop, Between, history
  <2>4. PICK kind \in {"all", "race", "async"}, entries \in Seq(Values) : Begins(kind, entries)
    BY <2>2, <2>3, StepKinds
  <2>5. PICK q \in Promises \ Made : BeginsFor(q, kind, entries)
    BY <2>4, BeginsIs
  <2>6. q = p /\ kind \in {"all", "race"}
    <3>1. asked' = [asked EXCEPT ![q] = [kind |-> kind, entries |-> entries, since |-> Len(order)]]
          /\ DOMAIN asked = Promises
      BY <2>5 DEF BeginsFor, AnswerBase, AskedIsTyped
    <3>2. q = p
      BY <1>2, <1>4, <3>1
    <3> QED
      BY <1>2, <3>1, <3>2
  <2> QED
    BY <2>5, <2>6, NewAnswers
<1> QED
  BY <1>3, <1>4

\* A step that changes nothing.
LEMMA NothingIsAnswered ==
  ASSUME UNCHANGED vars, WillAllAnswer
  PROVE  WillAllAnswer'
<1>1. UNCHANGED <<state, result, order, asked, again, array, remaining, loop, open, meant, subscribers,
                  queue, at, pos, running, adoptions>>
  BY DEF vars, core, queueV, flushV, others, history
<1> SUFFICES ASSUME NEW p \in Promises, Asks(p)'
             PROVE  WillAnswer(p)'
  BY DEF WillAllAnswer
<1>2. Asks(p)
  BY <1>1 DEF Asks, Many, Plainly, Entries, Outcome, Value
<1>3. WillAnswer(p)
  BY <1>2 DEF WillAllAnswer
<1>4. SubscribersTell(p)' /\ QueueTells(p)' /\ NoObjectTells(p)'
  <2>1. SubscribersTell(p)'
    BY <1>1, <1>3 DEF WillAnswer, SubscribersTell, IsAll, Numbers, Entries, Nth, Serves, StandsFor, MadeFor
  <2>2. QueueTells(p)'
    BY <1>1, <1>3 DEF WillAnswer, QueueTells, IsAll, Numbers, Entries, Nth, Serves, StandsFor, MadeFor,
       SettledAs, Settled, Outcome, Value
  <2>3. NoObjectTells(p)'
    BY <1>1, <1>3 DEF WillAnswer, NoObjectTells
  <2> QED
    BY <2>1, <2>2, <2>3
<1>5. /\ \A q, m, i : HeardFrom(q, m, p, i)' <=> HeardFrom(q, m, p, i)
      /\ \A k, i : HeardIn(k, p, i)' <=> HeardIn(k, p, i)
      /\ \A i : ToCome(p, i)' <=> ToCome(p, i)
      /\ Numbers(p)' = Numbers(p) /\ IsAll(p)' = IsAll(p)
  BY <1>1 DEF HeardFrom, HeardIn, ToCome, SubscriberHadTurn, EntryHadTurn, Numbers, Entries, IsAll
<1>6. \A i : Outcome(Nth(p, i))' = Outcome(Nth(p, i)) /\ Value(Nth(p, i))' = Value(Nth(p, i))
  BY <1>1 DEF Outcome, Value, Nth
<1>7. \A i : (Counts(p, i)' <=> Counts(p, i)) /\ (Pending(Nth(p, i))' <=> Pending(Nth(p, i)))
  BY <1>1, <1>5, <1>6 DEF Counts, Pending, Nth
<1>8. \A i : Waited(p, i)' <=> Waited(p, i)
  BY <1>1, <1>5 DEF Waited
<1>9. NoneIsLost(p)' /\ NoneIsTwice(p)' /\ NotYet(p)'
  BY <1>1, <1>3, <1>5, <1>7, <1>8 DEF WillAnswer, NoneIsLost, NoneIsTwice, NotYet, Pending
<1>10. CountIsRight(p)'
  <2>1. Left(p)' = Left(p)
    BY <1>1, <1>5 DEF Left
  <2> QED
    BY <1>1, <1>3, <1>5, <1>6, <2>1 DEF WillAnswer, CountIsRight, Pending
<1>11. \A i, j : Earlier(p, i, j)' <=> Earlier(p, i, j)
  BY <1>1 DEF Earlier, When
<1>12. \A i, j : GoesBefore(p, i, j)' <=> GoesBefore(p, i, j)
  <2>1. \A k, i : Told(k, p, i)' <=> Told(k, p, i)
    BY <1>1, <1>5 DEF Told
  <2>2. \A k, i : Comes(k, p, i)' <=> Comes(k, p, i)
    BY <1>1, <1>5 DEF Comes, Pending, Nth
  <2> QED
    BY <1>1, <2>1, <2>2 DEF GoesBefore
<1>13. HeardInOrder(p)'
  BY <1>1, <1>3, <1>5, <1>7, <1>11, <1>12 DEF WillAnswer, HeardInOrder, Pending
<1>14. Answered(p)'
  BY <1>1, <1>3, <1>5, <1>6, <1>7, <1>11 DEF WillAnswer, Answered, AnsweredByAll, AnsweredBy, Ends, Pending
<1> QED
  BY <1>4, <1>9, <1>10, <1>13, <1>14 DEF WillAnswer

-----------------------------------------------------------------------------
(* What all() and race() promise. *)

\* When the queue is empty, what is waited for has no outcome.
LEMMA QuietIsPending ==
  ASSUME HInv, Quiet, NEW p \in Promises, Asks(p), Tells(p), NEW i \in Numbers(p), Waited(p, i)
  PROVE  Outcome(Nth(p, i)) = "pending"
<1>1. /\ loop = None /\ \A k : k \notin DOMAIN queue
      /\ TypeOK /\ IInv
  BY DEF Quiet, HInv, IInv
<1>2. ASSUME NEW q \in Promises, Settled(q)
      PROVE  subscribers[q] = <<>>
  BY <1>1, <1>2 DEF IInv, SubscribersWillHear, WillBePublished
<1>3a. PICK q \in Promises : \E m : HeardFrom(q, m, p, i)
  BY <1>1 DEF Waited, ToCome
<1>3. PICK m : HeardFrom(q, m, p, i)
  BY <1>3a
<1>4. StandsFor(q, p, i) /\ m \in DOMAIN subscribers[q]
  BY <1>3, HeardIsFor
<1>5. Pending(q) /\ ~Settled(q)
  BY <1>1, <1>2, <1>4 DEF Settled, Pending, TypeOK
<1>6. CASE IsAll(p)
  <2>1. PICK e \in Promises : e = Nth(p, i) /\ MadeFor(q, e)
    BY <1>4, <1>6 DEF StandsFor
  <2>2. ~(state[e] = "fulfilled" /\ result[e] \in Thenables)
    BY <2>1, EntryIsPlain
  <2>3. WaitsFor(q, e) \/ SameOutcome(q, e)
    BY <2>1, <2>2, MadeForIsLinked
  <2>4. ~Settled(e)
    BY <1>2, <1>5, <2>3 DEF WaitsFor, SameOutcome, Settled, Pending
  <2>5. state[e] = "pending"
    BY <1>1, <2>4 DEF Settled, TypeOK
  <2> QED
    BY <2>1, <2>5 DEF Outcome
<1>7. CASE ~IsAll(p)
  BY <1>4, <1>5, <1>7 DEF StandsFor, Outcome, Pending
<1> QED
  BY <1>6, <1>7

\* The number that When is.
LEMMA WhenIsKnown ==
  ASSUME TypeOK, AnswerBase, NEW p \in Promises, Many(p), NEW i \in Numbers(p), Outcome(Nth(p, i)) # "pending"
  PROVE  /\ When(asked[p], i) \in Nat
         /\ \/ When(asked[p], i) = i /\ i <= Len(asked[p].entries)
            \/ \E n \in DOMAIN order : /\ When(asked[p], i) = Len(asked[p].entries) + n
                                       /\ n >= 1 /\ order[n] = Nth(p, i)
<1>1. /\ Len(asked[p].entries) \in Nat /\ i \in 1..Len(asked[p].entries)
      /\ order \in Seq(Promises) /\ Once(order)
  BY AskedIs
<1>2. When(asked[p], i) = WhenIn(order, asked[p], i)
  BY WhenIs
<1>3. CASE Early(order, asked[p], i)
  <2>1. WhenIn(order, asked[p], i) = i
    BY <1>3, EarlyIsWhen
  <2> QED
    BY <1>1, <1>2, <2>1
<1>4. CASE \E n : PlaceIs(order, asked[p], i, n)
  <2>1. PICK n : PlaceIs(order, asked[p], i, n)
    BY <1>4
  <2>2. n \in DOMAIN order /\ order[n] = Nth(p, i)
    BY <2>1 DEF PlaceIs, Nth
  <2>3. n \in Nat /\ n >= 1
    BY <1>1, <2>2
  <2>4. WhenIn(order, asked[p], i) = Len(asked[p].entries) + n
    BY <1>1, <2>1, PlaceIsWhen
  <2> QED
    BY <1>1, <1>2, <2>2, <2>3, <2>4
<1> QED
  BY <1>3, <1>4, EntryHasPlace

\* The first of the entries in I is the one that none is earlier than.
LEMMA FirstIs ==
  ASSUME TypeOK, AnswerBase, NEW p \in Promises, Many(p), NEW I \in SUBSET Numbers(p), NEW i \in I,
         \A j \in I : Outcome(Nth(p, j)) # "pending" /\ ~Earlier(p, j, i)
  PROVE  /\ FirstOf(asked[p], I) \in I
         /\ Nth(p, FirstOf(asked[p], I)) = Nth(p, i)
<1> DEFINE f == FirstOf(asked[p], I)
<1>1. \A j \in I : When(asked[p], j) \in Nat
  BY WhenIsKnown
<1>2. \A j \in I : When(asked[p], i) <= When(asked[p], j)
  BY <1>1 DEF Earlier
<1>3. f \in I /\ \A j \in I : When(asked[p], f) <= When(asked[p], j)
  BY <1>2 DEF FirstOf
<1> HIDE DEF f
<1>4. When(asked[p], f) = When(asked[p], i)
  BY <1>1, <1>2, <1>3
<1>5. i \in Numbers(p) /\ f \in Numbers(p) /\ Outcome(Nth(p, i)) # "pending" /\ Outcome(Nth(p, f)) # "pending"
  BY <1>3
<1>6. Len(asked[p].entries) \in Nat /\ i \in Nat /\ f \in Nat /\ DOMAIN order \subseteq Nat
  <2>1. Len(asked[p].entries) \in Nat /\ Numbers(p) = 1..Len(asked[p].entries) /\ order \in Seq(Promises)
    BY AskedIs
  <2> QED
    BY <1>5, <2>1
<1>7. /\ \/ When(asked[p], i) = i /\ i <= Len(asked[p].entries)
         \/ \E n \in DOMAIN order : /\ When(asked[p], i) = Len(asked[p].entries) + n
                                    /\ n >= 1 /\ order[n] = Nth(p, i)
      /\ \/ When(asked[p], f) = f /\ f <= Len(asked[p].entries)
         \/ \E n \in DOMAIN order : /\ When(asked[p], f) = Len(asked[p].entries) + n
                                    /\ n >= 1 /\ order[n] = Nth(p, f)
  BY <1>5, WhenIsKnown
<1>8. Nth(p, f) = Nth(p, i)
  BY <1>4, <1>6, <1>7
<1> QED
  BY <1>3, <1>8 DEF f

\* An outcome is one of three.
LEMMA OutcomeIs ==
  ASSUME TypeOK, NEW e
  PROVE  Outcome(e) \in {"pending", "fulfilled", "rejected"}
  BY DEF TypeOK, Outcome

\* When the queue is empty, a promise that has no answer waits for entries
\* that have no outcome.
LEMMA QuietIsUnanswered ==
  ASSUME HInv, Quiet, NEW p \in Promises, Asks(p), WillAnswer(p), Pending(p), NEW i \in Numbers(p),
         array[p][i] = None
  PROVE  Outcome(Nth(p, i)) = "pending"
<1>1. Waited(p, i)
  BY DEF WillAnswer, NoneIsLost
<1>2. Tells(p)
  BY DEF WillAnswer, Tells
<1> QED
  BY <1>1, <1>2, QuietIsPending

LEMMA RaceIsAnswered ==
  ASSUME HInv, AnswerBase, Quiet, NEW p \in Promises, Asks(p), WillAnswer(p), ~IsAll(p)
  PROVE  RaceAnswers(p, asked[p])
<1>1. TypeOK /\ Many(p) /\ Numbers(p) = Entries(asked[p])
  BY DEF HInv, IInv, Asks, Numbers
<1> DEFINE done == Entries(asked[p]) \ With(asked[p], "pending")
<1>2. \A i : i \in done <=> i \in Numbers(p) /\ Outcome(Nth(p, i)) # "pending"
  BY DEF With, Numbers, Nth
<1>3. \A i \in Numbers(p) : Counts(p, i) <=> i \in done
  BY <1>1, <1>2, OutcomeIs DEF Counts
<1> HIDE DEF done
<1>4. CASE Pending(p)
  <2>1. \A i \in Numbers(p) : array[p][i] = None
    BY DEF WillAnswer, CountIsRight
  <2>2. done = {}
    BY <1>2, <1>4, <2>1, QuietIsUnanswered
  <2> QED
    BY <1>4, <2>2 DEF RaceAnswers, done
<1>5. CASE ~Pending(p)
  <2>1. PICK i \in Numbers(p) : AnsweredBy(p, i)
    BY <1>5 DEF WillAnswer, Answered, AnsweredByAll
  <2>2. i \in done /\ done \in SUBSET Numbers(p)
        /\ \A j \in done : Outcome(Nth(p, j)) # "pending" /\ ~Earlier(p, j, i)
    BY <1>2, <1>3, <2>1 DEF AnsweredBy
  <2>3. Nth(p, FirstOf(asked[p], done)) = Nth(p, i)
    BY <1>1, <2>2, FirstIs
  <2>4. Ends(p, Outcome(Nth(p, FirstOf(asked[p], done))), Value(Nth(p, FirstOf(asked[p], done))))
    BY <2>1, <2>3 DEF AnsweredBy
  <2> QED
    BY <2>2, <2>4 DEF RaceAnswers, done, Nth
<1> QED
  BY <1>4, <1>5

LEMMA AllIsAnswered ==
  ASSUME HInv, AnswerBase, Quiet, NEW p \in Promises, Asks(p), WillAnswer(p), IsAll(p)
  PROVE  AllAnswers(p, asked[p])
<1>1. TypeOK /\ Many(p) /\ Numbers(p) = Entries(asked[p]) /\ loop = None
  BY DEF HInv, IInv, Asks, Numbers, Quiet
<1>2. \A what, i : i \in With(asked[p], what) <=> i \in Numbers(p) /\ Outcome(Nth(p, i)) = what
  BY DEF With, Numbers, Nth
<1>3. \A i \in Numbers(p) : array[p][i] # None => Outcome(Nth(p, i)) = "fulfilled" /\ array[p][i] = Value(Nth(p, i))
  BY DEF WillAnswer, CountIsRight
<1>4. CASE Pending(p)
  <2>1. With(asked[p], "rejected") = {}
    BY <1>2, <1>3, <1>4, QuietIsUnanswered
  <2>2. PICK i \in Numbers(p) : array[p][i] = None
    <3>1. CountIsRight(p) /\ ~(loop # None /\ loop.to = p)
      BY <1>1 DEF WillAnswer
    <3>2. Left(p) # {}
      BY <1>4, <3>1 DEF CountIsRight
    <3> QED
      BY <3>2 DEF Left
  <2>3. With(asked[p], "pending") # {}
    BY <1>2, <1>4, <2>2, QuietIsUnanswered
  <2> QED
    BY <1>4, <2>1, <2>3 DEF AllAnswers
<1>5. CASE AnsweredByAll(p)
  <2>1. Ends(p, "fulfilled", ArrayOf(p)) /\ \A i \in Numbers(p) : array[p][i] # None
    BY <1>5 DEF AnsweredByAll
  <2>2. With(asked[p], "fulfilled") = Entries(asked[p])
    <3>1. \A i : i \in With(asked[p], "fulfilled") <=> i \in Numbers(p)
      BY <1>2, <1>3, <2>1
    <3>2. \A i \in With(asked[p], "fulfilled") : i \in Entries(asked[p])
      BY DEF With
    <3> QED
      BY <1>1, <3>1, <3>2
  <2>3. array[p] = [i \in Entries(asked[p]) |-> Value(asked[p].entries[i])]
    <3>1. array[p] = [i \in Numbers(p) |-> array[p][i]]
      BY DEF WillAnswer, CountIsRight
    <3>2. \A i \in Entries(asked[p]) : array[p][i] = Value(asked[p].entries[i])
      BY <1>1, <1>3, <2>1 DEF Nth
    <3> QED
      BY <1>1, <3>1, <3>2
  <2> QED
    BY <2>1, <2>2, <2>3 DEF AllAnswers
<1>6. CASE \E i \in Numbers(p) : AnsweredBy(p, i)
  <2>1. PICK i \in Numbers(p) : AnsweredBy(p, i)
    BY <1>6
  <2> DEFINE I == With(asked[p], "rejected")
  <2>2. i \in I /\ I \in SUBSET Numbers(p)
        /\ \A j \in I : Outcome(Nth(p, j)) # "pending" /\ ~Earlier(p, j, i)
    BY <1>2, <2>1 DEF AnsweredBy, Counts
  <2> HIDE DEF I
  <2>3. Nth(p, FirstOf(asked[p], I)) = Nth(p, i)
    BY <1>1, <2>2, FirstIs
  <2>4. Outcome(Nth(p, i)) = "rejected"
    BY <2>1 DEF AnsweredBy, Counts
  <2>5. Ends(p, "rejected", Value(Nth(p, FirstOf(asked[p], I))))
    BY <2>1, <2>3, <2>4 DEF AnsweredBy
  <2> QED
    BY <2>2, <2>5 DEF AllAnswers, I, Nth
<1> QED
  BY <1>4, <1>5, <1>6 DEF WillAnswer, Answered

\* When nothing is left to do, all() and race() have answered: with the values
\* of all entries, in their order, with the reason of the first one that was
\* rejected, or as the first one that was settled, whatever came in between.
THEOREM AllAndRaceAnswer == Spec => []Answers
<1>1. Init => WillAllAnswer
  BY DEF Init, NoPromise, WillAllAnswer, Asks, Many
<1>2. BaseInv /\ BaseInv' /\ WillAllAnswer /\ [Next]_vars => WillAllAnswer'
  BY AllAnswerAfter, NothingIsAnswered DEF BaseInv
<1>3. BaseInv /\ WillAllAnswer => Answers
  <2> SUFFICES ASSUME BaseInv, WillAllAnswer, Quiet, NEW p \in Made, asked[p] # None, Plainly(asked[p])
               PROVE  /\ asked[p].kind = "all" => AllAnswers(p, asked[p])
                      /\ asked[p].kind = "race" => RaceAnswers(p, asked[p])
    BY DEF Answers
  <2>1. HInv /\ AnswerBase /\ p \in Promises
    BY DEF BaseInv, HInv, IInv, TypeOK, Made
  <2>2. asked[p].kind \in {"all", "race"} => Asks(p) /\ WillAnswer(p)
    BY <2>1 DEF Asks, Many, WillAllAnswer
  <2> QED
    BY <2>1, <2>2, AllIsAnswered, RaceIsAnswered DEF IsAll
<1> QED
  BY <1>1, <1>2, <1>3, BaseHolds, PTL DEF Spec

=============================================================================
