----------------------------- MODULE Computeds ------------------------------
(***************************************************************************)
(* How Knockout keeps computeds up to date: notification, evaluation with  *)
(* dependency detection, pure computeds that fall asleep and wake, and the *)
(* timers.  The operators follow the calls of the library, which go round: *)
(* a notification evaluates computeds, which read, subscribe to and notify *)
(* others.  They all go round through Do.                                  *)
(*                                                                         *)
(* "frame" is the computed whose evaluation is reading, None when none is. *)
(* What returns a value returns a record of the world after it and the     *)
(* value.                                                                  *)
(***************************************************************************)
EXTENDS Subscribables

RECURSIVE Do(_, _)

Evaluate(w, c, notifyChange) ==
  Do(w, [call |-> "evaluateImmediate", of |-> c, notifyChange |-> notifyChange])

Subscribe(w, n, to) == Do(w, [call |-> "subscribe", of |-> n, to |-> to])

Unsubscribe(w, n, to, mark) ==
  Do(w, [call |-> "dispose", of |-> n, to |-> to, mark |-> mark])

GetVersion(w, n) == Do(w, [call |-> "getVersion", of |-> n])

-----------------------------------------------------------------------------
(* Is a sleeping computed up to date?                                      *)

Compare(r, version) == [w |-> r.w, changed |-> r.version # version]

HaveChanged(w, c) ==
  FoldLeft(LAMBDA r, n : IF r.changed THEN r
                         ELSE Compare(GetVersion(r.w, n), w.node[c].deps[n].version),
           [w |-> w, changed |-> FALSE], ById(w, c))

EvaluateIfChanged(r, c) == IF r.changed THEN Evaluate(r.w, c, FALSE) ELSE r.w

Refresh(w, n) ==
  IF ~w.node[n].sleeping THEN w
  ELSE IF w.node[n].needs THEN Evaluate(w, n, FALSE)
  ELSE EvaluateIfChanged(HaveChanged(w, n), n)

VersionOf(w, n) == [w |-> w, version |-> w.node[n].version]

DoGetVersion(w, n) == VersionOf(Refresh(w, n), n)

-----------------------------------------------------------------------------
(* Subscriptions.                                                          *)

SetMark(w, c, n) == [w EXCEPT !.node[c].deps[n].mark = w.born]

SubscribeToDependencies(w, c) ==
  FoldLeft(LAMBDA v, n : SetMark(Subscribe(v, n, c), c, n), w, InOrder(w, c))

EvaluateAnew(w, c) ==
  Evaluate([w EXCEPT !.node[c].deps = <<>>, !.node[c].needs = TRUE], c, FALSE)

\* Mutation: a computed wakes with the value it fell asleep with.
WakeAsItWas(r, c) == SubscribeToDependencies(r.w, c)

WakeUp(r, c) ==
  IF r.changed THEN EvaluateAnew(r.w, c) ELSE SubscribeToDependencies(r.w, c)

(* beforeSubscriptionAdd: a pure computed wakes up, a deferred one is      *)
(* evaluated.                                                              *)
Wake(w, c) ==
  LET awake == [w EXCEPT !.node[c].sleeping = FALSE]
  IN  IF w.node[c].needs THEN EvaluateAnew(awake, c)
      ELSE WakeUp(HaveChanged(awake, c), c)

BeforeSubscriptionAdd(w, n) ==
  IF n \notin Computeds THEN w
  ELSE IF Kind[n] = "pure" /\ ~w.node[n].disposed /\ w.node[n].sleeping
  THEN Wake(w, n)
  ELSE IF Kind[n] = "deferred" /\ w.node[n].needs /\ ~HasDependencies(w, n)
  THEN Evaluate(w, n, FALSE)
  ELSE w

DoSubscribe(w, n, to) == AddSubscription(BeforeSubscriptionAdd(w, n), n, to)

(* The subscriptions of c to some of what it depends on are disposed.      *)
Release(w, c, deps) ==
  FoldLeft(LAMBDA v, n : IF deps[n].mark = None THEN v
                         ELSE Unsubscribe(v, n, c, deps[n].mark),
           w, SelectSeq(Nodes, LAMBDA n : n \in DOMAIN deps))

(* dispose() of a computed, for good.                                      *)
Disposed(w, c) ==
  [w EXCEPT !.node[c].deps = <<>>, !.node[c].disposed = TRUE,
            !.node[c].needs = FALSE, !.node[c].sleeping = FALSE]

Dispose(w, c) ==
  Disposed(IF w.node[c].sleeping THEN w ELSE Release(w, c, w.node[c].deps), c)

WithoutMarks(w, c) ==
  [w EXCEPT !.node[c].deps = [n \in DOMAIN @ |-> [@[n] EXCEPT !.mark = None]]]

(* afterSubscriptionRemove: a pure computed that nobody watches any more   *)
(* falls asleep.                                                           *)
FallsAsleep(w, n) ==
  /\ n \in Computeds /\ Kind[n] = "pure" /\ ~w.node[n].disposed
  /\ w.node[n].subs = <<>>

AfterSubscriptionRemove(w, n) ==
  IF FallsAsleep(w, n)
  THEN [Release(WithoutMarks(w, n), n, w.node[n].deps) EXCEPT
          !.node[n].sleeping = TRUE]
  ELSE w

DoUnsubscribe(w, n, to, mark) ==
  AfterSubscriptionRemove(RemoveSubscription(w, n, to, mark), n)

-----------------------------------------------------------------------------
(* Notification.                                                           *)

EvaluatePossiblyAsync(w, c) ==
  IF c \in graph.throttled THEN [w EXCEPT !.node[c].throttle = TRUE]
  ELSE IF IsLimited(c) THEN EvalRateLimited(w, c)
  ELSE Evaluate(w, c, TRUE)

(* A handler of the page notes the value, and disposes some subscriptions  *)
(* and computeds.                                                          *)
DisposeHandler(w, h) ==
  LET n == Watches[h]
      i == SelectInSeq(w.node[n].subs, LAMBDA s : s.to = h)
  IN  IF i = 0 THEN w
      ELSE Unsubscribe([w EXCEPT !.heard[h] = None], n, h, w.node[n].subs[i].mark)

Handle(w, h, value) ==
  FoldLeft(LAMBDA v, x : IF x \notin Computeds THEN DisposeHandler(v, x)
                         ELSE IF v.node[x].created THEN Dispose(v, x) ELSE v,
           [w EXCEPT !.heard[h] = value], SetToSeq(graph.drops[h]))

Callback(w, to, value) ==
  IF to \in Computeds THEN EvaluatePossiblyAsync(w, to) ELSE Handle(w, to, value)

(* notifySubscribers(): those that had subscribed before it began and are  *)
(* not disposed by now.                                                    *)
Notify(w, n, value) ==
  FoldLeft(LAMBDA v, s : IF IsLive(v, n, s) THEN Callback(v, s.to, value) ELSE v,
           [w EXCEPT !.node[n].version = @ + 1, !.node[n].untold = {}], w.node[n].subs)

Changed(w, n, value) ==
  IF IsLimited(n) THEN RateLimitedChange(w, n, value) ELSE Notify(w, n, value)

Write(w, o, value) ==
  IF w.node[o].value = value THEN w
  ELSE Changed([WillChange(w, o) EXCEPT !.node[o].value = value], o, value)

-----------------------------------------------------------------------------
(* Reading, which registers a dependency of the computed being evaluated.  *)

AddTracking(r, c, n, mark) == Track(r.w, c, n, mark, r.version)

(* A dependency the last evaluation had too keeps its subscription.        *)
TrackAgain(w, c, n) ==
  AddTracking(GetVersion([w EXCEPT !.node[c].candidates =
                            [m \in DOMAIN @ \ {n} |-> @[m]]], n),
              c, n, w.node[c].candidates[n].mark)

TrackSubscribed(w, c, n) == AddTracking(GetVersion(w, n), c, n, w.born)

TrackNew(w, c, n) ==
  IF w.node[c].sleeping THEN AddTracking(GetVersion(w, n), c, n, None)
  ELSE TrackSubscribed(Subscribe(w, n, c), c, n)

Register(w, n, c) ==
  IF c = None THEN w
  ELSE IF w.node[c].disposed THEN w
  ELSE IF n \in DOMAIN w.node[c].candidates THEN TrackAgain(w, c, n)
  ELSE IF n \in DOMAIN w.node[c].deps THEN w
  ELSE TrackNew(w, c, n)

ValueOf(w, n) == [w |-> w, value |-> w.node[n].value]

(* Is evaluated when dirty, and when it sleeps and may be out of date.     *)
UpToDate(w, n) ==
  IF w.node[n].needs THEN Evaluate(w, n, FALSE) ELSE Refresh(w, n)

(* A change that is held back may be undone before anybody is notified.    *)
IsUndecided(w, n) == w.node[n].pending /\ w.node[n].value # w.node[n].prev

Noted(w, n, frame) ==
  [w EXCEPT !.node[n].untold = IF IsUndecided(w, n) THEN @ \cup {frame} ELSE @ \ {frame}]

Read(w, n, frame) == ValueOf(Noted(UpToDate(Register(w, n, frame), n), n, frame), n)

-----------------------------------------------------------------------------
(* Evaluation.                                                             *)

(* The read function of a computed, which may also write.                  *)
Branch(r, c) == IF r.value = 1 THEN Read(r.w, graph.then[c], c) ELSE [r EXCEPT !.value = 0]

Feed(r, c) ==
  IF graph.feeds[c] = None THEN r ELSE [r EXCEPT !.w = Write(r.w, graph.feeds[c], r.value)]

Compute(w, c) == Feed(Branch(Read(w, graph.test[c], c), c), c)

\* Mutation: the subscriptions to what is not read any more are kept.
KeepCandidates(w, c) ==
  [w EXCEPT !.node[c].candidates = <<>>, !.node[c].needs = FALSE]

DropCandidates(w, c) ==
  LET v == [w EXCEPT !.node[c].candidates = <<>>, !.node[c].needs = FALSE]
  IN  IF w.node[c].sleeping THEN v ELSE Release(v, c, w.node[c].candidates)

Announce(w, c, notifyChange) ==
  IF notifyChange THEN Changed(w, c, w.node[c].value) ELSE Silently(w, c)

NewValue(w, c, value, notifyChange) ==
  IF w.node[c].value = value THEN w
  ELSE IF w.node[c].sleeping
  THEN [w EXCEPT !.node[c].value = value, !.node[c].version = @ + 1,
                 !.node[c].untold = {}]
  ELSE Announce([WillChange(w, c) EXCEPT !.node[c].value = value], c, notifyChange)

Computed(r, c, notifyChange) ==
  [NewValue(DropCandidates(r.w, c), c, r.value, notifyChange) EXCEPT
     !.node[c].evaluating = FALSE]

DisposeIfConstant(w, c) == IF HasDependencies(w, c) THEN w ELSE Dispose(w, c)

EvaluateNow(w, c, notifyChange) ==
  LET begun == [w EXCEPT !.node[c].evaluating = TRUE,
                         !.node[c].candidates = w.node[c].deps,
                         !.node[c].deps = <<>>]
  IN  DisposeIfConstant(Computed(Compute(begun, c), c, notifyChange), c)

(* The node of the document that a computed belongs to is not in it (any   *)
(* more); removeNode() was not called.                                     *)
DisposeWhen(w, c) == c \in graph.bound /\ ~w.node[c].attached

\* Mutation: a disposed computed is evaluated too.
EvaluateDisposed(w, c, notifyChange) ==
  IF w.node[c].evaluating THEN w ELSE EvaluateNow(w, c, notifyChange)

DoEvaluate(w, c, notifyChange) ==
  IF w.node[c].evaluating \/ w.node[c].disposed THEN w
  ELSE IF ~DisposeWhen(w, c)
  THEN EvaluateNow([w EXCEPT !.node[c].suppress = FALSE], c, notifyChange)
  ELSE IF w.node[c].suppress THEN EvaluateNow(w, c, notifyChange)
  ELSE Dispose(w, c)

Do(w, f) ==
  CASE f.call = "evaluateImmediate" -> DoEvaluate(w, f.of, f.notifyChange)
    [] f.call = "subscribe" -> DoSubscribe(w, f.of, f.to)
    [] f.call = "dispose" -> DoUnsubscribe(w, f.of, f.to, f.mark)
    [] f.call = "getVersion" -> DoGetVersion(w, f.of)

-----------------------------------------------------------------------------
(* The timer of a limited node.                                            *)

NotifyIfDifferent(r, n) ==
  LET v == [r.w EXCEPT !.node[n].pending = FALSE, !.node[n].next = None]
  IN  IF r.w.node[n].prev = r.value THEN v
      ELSE Notify([v EXCEPT !.node[n].prev = r.value], n, r.value)

Finish(w, n) ==
  NotifyIfDifferent(IF w.node[n].next = Itself THEN Read(w, n, None)
                    ELSE [w |-> w, value |-> w.node[n].next], n)

=============================================================================
