--------------------------- MODULE KnockoutGraph ----------------------------
(***************************************************************************)
(* A page over the observables and computeds of Computeds: it creates and  *)
(* disposes computeds, writes, reads, subscribes, changes the document,    *)
(* and waits for timers.  Each action is one call of the page, with        *)
(* everything the library does before it returns.                          *)
(***************************************************************************)
EXTENDS Computeds

Init ==
  /\ graph \in Graphs
  /\ node = [n \in AllNodes |-> IF n \in Observables THEN NewObservable ELSE NewNode]
  /\ heard = [h \in Handlers |-> None]
  /\ born = 1

Live(c) == node[c].created /\ ~node[c].disposed

(* The nodes of the document are there when the computeds are created.     *)
PageCreates(c) ==
  /\ ~node[c].created
  /\ node[graph.test[c]].created /\ node[graph.then[c]].created
  /\ LET w == [World EXCEPT !.node[c] = [NewComputed(c) EXCEPT
                                          !.attached = node[c].attached]]
     IN  Becomes(IF Kind[c] = "plain" THEN Evaluate(w, c, FALSE) ELSE w)

PageWrites(o, value) ==
  /\ node[o].value # value
  /\ Becomes(Write(World, o, value))

PageReads(c) ==
  /\ node[c].created
  /\ Becomes(Read(World, c, None).w)

(* The page subscribes and reads the value it starts from, which is not    *)
(* undefined.  It does so when no change of the node is being held back.   *)
PageSubscribes(h) ==
  LET n == Watches[h] IN
  /\ heard[h] = None /\ node[n].created /\ ~node[n].pending
  /\ LET r == Read(Subscribe(World, n, h), n, None)
     IN  /\ r.value # None
         /\ Becomes([r.w EXCEPT !.heard[h] = r.value])

PageUnsubscribes(h) ==
  /\ heard[h] # None
  /\ Becomes(DisposeHandler(World, h))

PageDisposes(c) ==
  /\ Live(c)
  /\ Becomes(Dispose(World, c))

Attach(c) ==
  /\ c \in graph.bound /\ ~node[c].disposed /\ ~node[c].attached
  /\ Becomes([World EXCEPT !.node[c].attached = TRUE])

Detach(c) ==
  /\ c \in graph.bound /\ Live(c) /\ node[c].attached
  /\ Becomes([World EXCEPT !.node[c].attached = FALSE])

TimerFires(n) ==
  /\ node[n].timer
  /\ Becomes(Finish([World EXCEPT !.node[n].timer = FALSE], n))

ThrottleFires(c) ==
  /\ node[c].throttle
  /\ Becomes(Evaluate([World EXCEPT !.node[c].throttle = FALSE], c, TRUE))

NoTimers == \A n \in AllNodes : ~node[n].timer /\ ~node[n].throttle

Timers == (\E n \in AllNodes : TimerFires(n)) \/ (\E c \in Computeds : ThrottleFires(c))

Next ==
  \/ Timers
  \/ \E c \in Computeds :
       PageCreates(c) \/ PageReads(c) \/ PageDisposes(c) \/ Attach(c) \/ Detach(c)
  \/ \E o \in Observables, value \in Values : PageWrites(o, value)
  \/ \E h \in DOMAIN Watches : PageSubscribes(h) \/ PageUnsubscribes(h)

(* A browser runs a timer that is set, sooner or later.  This is           *)
(* WF_vars(Timers), with ENABLED spelled out.                              *)
TimersRun == []<>NoTimers \/ []<><<Timers>>_vars

Spec == Init /\ [][Next]_vars /\ TimersRun

-----------------------------------------------------------------------------
(* What a computed should be, from the observables.                        *)

RECURSIVE Truth(_)
Truth(n) == IF n \notin Computeds THEN node[n].value
            ELSE IF node[n].disposed THEN node[n].value
            ELSE IF Truth(graph.test[n]) = 1 THEN Truth(graph.then[n]) ELSE 0

ReadsNow(c) == {graph.test[c]} \cup IF Truth(graph.test[c]) = 1 THEN {graph.then[c]} ELSE {}

Awake(c) == Live(c) /\ ~node[c].sleeping /\ ~node[c].needs

Subs(n, to) == SelectSeq(node[n].subs, LAMBDA s : s.to = to)

(* Nothing is being evaluated between two calls.                           *)
TypeOK ==
  \A n \in AllNodes :
    /\ node[n].value \in Values \cup {None}
    /\ ~node[n].evaluating /\ node[n].candidates = <<>>
    /\ DOMAIN node[n].deps \subseteq AllNodes
    /\ node[n].pending = node[n].timer
    /\ \A i \in DOMAIN node[n].subs : node[n].subs[i].to \in Computeds \cup Handlers

(* c rests on what it has read of a node, directly or not, that has changed *)
(* since without telling: a pure computed that was evaluated on waking,     *)
(* which raises no version, or a limited node whose change was read and     *)
(* undone while it was held back.  Until the node notifies, c is stale.     *)
RECURSIVE Overtaken(_)
Overtaken(c) ==
  /\ c \in Computeds
  /\ \E n \in DOMAIN node[c].deps \cup ReadsNow(c) : c \in node[n].untold \/ Overtaken(n)

(* Every computed that is awake has the value its dependencies give.       *)
AwakeIsCurrent ==
  \A c \in Computeds : Awake(c) /\ ~Overtaken(c) => node[c].value = Truth(c)

(* A handler has been given the current value last.                        *)
HeardIsCurrent ==
  \A h \in DOMAIN Watches :
    heard[h] # None /\ ~node[Watches[h]].disposed /\ ~Overtaken(Watches[h])
      => heard[h] = Truth(Watches[h])

(* What a read of a sleeping computed gives is current.                    *)
SleeperIsCurrent ==
  \A c \in Computeds :
    Live(c) /\ node[c].sleeping /\ ~Overtaken(c) => Read(World, c, None).value = Truth(c)

(* When a call has returned and no timer is pending, nobody has an old     *)
(* value: whatever the order in which computeds and handlers were          *)
(* notified, however the dependencies have changed, and whoever has        *)
(* disposed of, put to sleep or woken whom meanwhile.  Nobody, but those   *)
(* that were overtaken, awake or asleep, and who watches them.             *)
NobodyIsStale ==
  TypeOK /\ (NoTimers => SleeperIsCurrent /\ AwakeIsCurrent /\ HeardIsCurrent)

(* A pure computed sleeps exactly while nobody watches it.                 *)
SleepsUnwatched ==
  \A c \in Computeds :
    Live(c) /\ Kind[c] = "pure" => (node[c].sleeping <=> node[c].subs = <<>>)

(* A computed that is awake is subscribed, once, to what it has just read  *)
(* and to nothing else; one that sleeps, because nobody watches it, or is  *)
(* disposed to nothing at all.  One that writes what it reads does not     *)
(* trigger itself; one that was overtaken may have read something else.    *)
SubscribedToWhatItReads ==
  /\ SleepsUnwatched
  /\ NoTimers => \A c \in Computeds, n \in AllNodes :
       graph.feeds[c] \notin {graph.test[c], graph.then[c]} /\ ~Overtaken(c) =>
       Len(Subs(n, c)) = IF Awake(c) /\ n \in ReadsNow(c) THEN 1 ELSE 0

(* A disposed computed is never evaluated again, also by a timer.          *)
DisposedIsSilent ==
  [][\A c \in Computeds : node[c].disposed =>
       node'[c].value = node[c].value /\ node'[c].deps = <<>>]_vars

(* Once the page only waits, every handler is given the current value,     *)
(* those of limited and throttled nodes too, unless what it watches was    *)
(* overtaken.                                                              *)
LimitedIsHeard ==
  (<>[][Timers]_vars) =>
    []<>(\A h \in DOMAIN Watches :
           heard[h] # None /\ ~node[Watches[h]].disposed /\ ~Overtaken(Watches[h])
             => heard[h] = Truth(Watches[h]))

=============================================================================
