--------------------------- MODULE KnockoutArrays ---------------------------
(***************************************************************************)
(* An observable array of Knockout, and what follows its changes: the      *)
(* subscribers of "arrayChange", who are given the differences, and the    *)
(* "foreach" binding, which shows its items, or none while its condition   *)
(* does not hold.  The list of messages of the crawler's page is one.      *)
(* Each action is one call of the page, with everything the library does   *)
(* before it returns.                                                      *)
(*                                                                         *)
(* Tracking of changes wraps the array's notifySubscribers each time it    *)
(* starts, and so does the rateLimit extender, once.  The page puts its    *)
(* limit on before tracking has begun, so that every notification passes   *)
(* the wrappers of tracking, and those of the timer none.                  *)
(***************************************************************************)
EXTENDS ArrayMapping, FiniteSets

CONSTANTS
  Handlers,   \* subscribers of arrayChange
  Setups,     \* the pages
  MaxShown,   \* the page's list is cut to this length
  MaxWraps,   \* BOUND on how often tracking starts
  MaxLingering \* BOUND on the nodes that wait to be removed

ASSUME KnockoutArraysAssumption ==
  \A s \in Setups :
    /\ s.foreach \in {"none", "plain", "beforeRemove"}
    /\ s.limits \in BOOLEAN         \* the page may limit the array
    /\ s.handlers \subseteq Handlers
    /\ s.container \in {"element", "comment"}   \* of foreach, and an item's
    /\ s.template \in {<<"element">>, <<"text", "element", "text">>,
                       <<"start", "element", "end">>}
    /\ s.trims \in BOOLEAN          \* the page cuts the list
    /\ s.destroys \in BOOLEAN       \* the page marks items as destroyed
    /\ s.items # {} /\ s.length \in Nat   \* BOUND on the length of the array
    /\ \A list \in s.writes : Len(list) \in Nat  \* longer arrays it writes

VARIABLES
  setup,
  array,     \* the underlying array
  destroyed, \* its items that are marked with _destroy
  open,      \* the items whose content an "if" in the template shows
  track,     \* what the tracking of changes keeps
  subs,      \* the subscribers of "change", in order
  limit,     \* "none", "idle", or "pending": a timer is set
  mirror,    \* of each subscriber of arrayChange, in "told": from the diffs
  told,      \* the subscribers of arrayChange, in order
  binding,   \* the foreach binding: "unbound", "shown", "hidden" or "removed"
  dom

vars == <<setup, array, destroyed, open, track, subs, limit, mirror, told,
          binding, dom>>

World == [array |-> array, destroyed |-> destroyed, open |-> open, track |-> track,
          subs |-> subs, limit |-> limit, mirror |-> mirror, told |-> told,
          binding |-> binding, dom |-> Settled(dom)]

(* The nodes of items that are gone, which the page is yet to remove.      *)
Lingering(w) ==
  IF w.binding \notin {"shown", "hidden"} THEN {}
  ELSE ToSet(Ids(ChildNodes(w.dom.children, w.dom.container))) \ Live(w.dom)

Becomes(world) == \E w \in {world} :
  /\ Cardinality(Lingering(w)) <= MaxLingering
  /\ array' = w.array /\ destroyed' = w.destroyed /\ open' = w.open
  /\ track' = w.track
  /\ subs' = w.subs /\ limit' = w.limit /\ mirror' = w.mirror
  /\ told' = w.told /\ binding' = w.binding /\ dom' = w.dom
  /\ UNCHANGED setup

Untracked == [on |-> FALSE, wraps |-> 0, pending |-> 0,
              cached |-> None, previous |-> <<>>]

-----------------------------------------------------------------------------
(* The foreach binding.  Its update is a computed that reads the condition *)
(* and makes another, the template computed, which renders what it reads:  *)
(* the array, or no item at all.  That one is disposed of when the next    *)
(* has been made.                                                          *)

Shown(w) == SelectSeq(w.array, LAMBDA x : x \notin w.destroyed)

(* "foreach: { data: ..., beforeRemove: ... }" is an option of the template. *)
BeforeRemove == setup.foreach = "beforeRemove"

(* An item is an element between the comments of an "if" binding.          *)
HasIf == setup.template[1] = "start"

RenderForEach(w, items) ==
  [w EXCEPT !.dom = SetChildrenFromArray(@, items,
                      [beforeRemove |-> BeforeRemove, open |-> w.open])]

RenderTemplateForEach(w, shouldDisplay) ==
  [RenderForEach(w, IF shouldDisplay THEN Shown(w) ELSE <<>>) EXCEPT
     !.subs = IF shouldDisplay THEN Append(@, "foreach") ELSE @]

(* The first time, and after nothing was shown, there is no old one.       *)
DisposeOldComputed(w, wasShown) ==
  [w EXCEPT !.subs = IF wasShown THEN RemoveFirst(@, "foreach") ELSE @]

Update(w, shouldDisplay) ==
  [DisposeOldComputed(RenderTemplateForEach(w, shouldDisplay), w.binding = "shown")
     EXCEPT !.binding = IF shouldDisplay THEN "shown" ELSE "hidden"]

InitTemplate(w) == [w EXCEPT !.dom = MoveToTemplate(@)]

(* The page is bound: its element, or the container's neighbours and it.   *)
In(w) == w.dom.children

ApplyBindings(world, shouldDisplay) ==
  LET foreach(w) == Update(InitTemplate(w), shouldDisplay)
      bind(w, id) ==
        LET bound == [w EXCEPT !.dom = ApplyToNode(@, id)]
        IN  IF id = w.dom.container THEN foreach(bound) ELSE bound
  IN  IF world.dom.container = NoNode THEN foreach(world)
      ELSE Walk(world, FirstChild(In(world), NoNode), NoNode, In, bind)

(* The callback of trackChanges: the difference is the one that was cached *)
(* for a known operation, unless more than one notification was due.       *)
\* Mutation: what was cached is used whenever there is something.
WhatWasCached(w) ==
  IF w.track.cached = None THEN CompareSparse(w.track.previous, w.array)
  ELSE w.track.cached

Changes(w) ==
  IF w.track.cached = None \/ w.track.pending > 1
  THEN CompareSparse(w.track.previous, w.array)
  ELSE w.track.cached

Tell(w, diff) ==
  IF diff = <<>> THEN w
  ELSE [w EXCEPT !.mirror = [h \in Handlers |->
                               IF h \in ToSet(w.told) THEN Replayed(@[h], diff)
                               ELSE @[h]]]

ArrayChanged(w) ==
  Tell([w EXCEPT !.track.previous = w.array, !.track.cached = None,
                 !.track.pending = 0],
       Changes(w))

-----------------------------------------------------------------------------
(* The operations.  A subscriber may call one while it is being notified.  *)

(* cacheDiffForKnownOperation: before the array is changed.                *)
CacheDiff(w, op) ==
  IF ~w.track.on \/ w.track.pending > 0 \/ ~IsKnown(op) THEN w
  ELSE [w EXCEPT !.track.cached = KnownDiff(w.array, op)]

(* pendingNotifications: none, one, or more than one.                      *)
Counted(w, n) == [w EXCEPT !.track.pending = Least(2, @ + n)]

RECURSIVE Deliver(_)

(* valueHasMutated: through the wrappers, to the subscribers or the timer. *)
ValueHasMutated(w) ==
  LET counted == Counted(w, w.track.wraps)
  IN  IF w.limit = "none" THEN Deliver(counted)
      ELSE [counted EXCEPT !.limit = "pending"]

Mutate(w, op) ==
  ValueHasMutated([CacheDiff(w, op) EXCEPT !.array = Applied(@, op)])

Trim(w) == IF Len(w.array) > MaxShown THEN Mutate(w, Op("pop", <<>>)) ELSE w

Callback(w, s) ==
  CASE s = "foreach" -> RenderForEach(w, Shown(w)) [] s = "tracking" -> ArrayChanged(w)
    [] s = "trim" -> Trim(w)

Deliver(w) == FoldLeft(Callback, w, w.subs)

(* An operation that is not known to cacheDiffForKnownOperation.           *)
Becoming(w, items) == ValueHasMutated([w EXCEPT !.array = items])

TimerFires(w) == Deliver([w EXCEPT !.limit = "idle"])

-----------------------------------------------------------------------------
(* Subscribing to arrayChange and disposing of that.                       *)

StartTracking(w) ==
  IF w.track.on THEN w
  ELSE [w EXCEPT !.track = [@ EXCEPT !.on = TRUE, !.wraps = @ + 1,
                                     !.cached = None, !.previous = w.array],
                 !.subs = Append(@, "tracking")]

StopTracking(w) ==
  IF w.told = <<>>
  THEN [w EXCEPT !.track.on = FALSE, !.subs = RemoveFirst(@, "tracking")] ELSE w

-----------------------------------------------------------------------------
(* What the page does.                                                     *)

Lists == BoundedSeq(setup.items, setup.length) \cup setup.writes

(* The document before the page is bound: the container holds what is to   *)
(* be its template.                                                        *)
Unbound(container, template) ==
  LET node(kind, shows) == [id |-> 0, kind |-> kind, shows |-> shows, bound |-> 0]
      content == [i \in DOMAIN template |-> node(template[i], "template")]
      nodes == IF container = "element" THEN content
               ELSE <<node("element", "before"), node("start", "container")>> \o
                    content \o
                    <<node("end", "container"), node("element", "after")>>
  IN  [container |-> IF container = "element" THEN NoNode ELSE 2,
       template |-> <<>>, mapped |-> <<>>, cleaned |-> {}, last |-> Len(nodes),
       children |-> [i \in DOMAIN nodes |-> [nodes[i] EXCEPT !.id = i]]]

Init ==
  /\ setup \in Setups
  /\ array = <<>> /\ destroyed = {} /\ open = {} /\ track = Untracked
  /\ subs = <<>> /\ binding = "unbound"
  /\ limit = "none"
  /\ mirror = [h \in Handlers |-> <<>>] /\ told = <<>>
  /\ dom = Unbound(setup.container, setup.template)

Operations ==
  {Op(name, <<x>>) : name \in {"push", "unshift"}, x \in setup.items} \cup
  {Op(name, <<>>) : name \in {"pop", "shift", "reverse"}} \cup
  {Splice(start, count, items) :
     start \in {-1, 1}, count \in 0..1, items \in BoundedSeq(setup.items, 1)} \cup
  {Splice(start, None, <<>>) : start \in {-1, 1}}

PageMutates(op) ==
  /\ Len(Applied(array, op)) <= setup.length
  /\ Becomes(Mutate(World, op))

(* addMessage(): the list of messages is a bounded buffer.                 *)
AddMessage(x) ==
  /\ setup.trims /\ Len(array) < setup.length
  /\ \E w \in {Mutate(World, Op("unshift", <<x>>))} : Becomes(Trim(w))

PageWrites(items) ==
  /\ setup.foreach # "none"
  /\ Becomes(Becoming(World, items))

PageRemoves(x) ==
  /\ x \in ToSet(array)
  /\ Becomes(Becoming(World, SelectSeq(array, LAMBDA y : y # x)))

PageRemovesAll == Becomes(Becoming(World, <<>>))

PageReplaces(x, y) ==
  /\ x \in ToSet(array)
  /\ Becomes(Becoming(World, ReplaceAt(array, SelectInSeq(array, LAMBDA z : z = x), y)))

PageDestroys(x) ==
  /\ setup.destroys
  /\ Becomes(Becoming([World EXCEPT !.destroyed = @ \cup ({x} \cap ToSet(array))],
                      array))

(* Not next to others while a change is held back: the subscriber starts   *)
(* from the present array, and would be told of a change that it has.      *)
PageSubscribes(h) ==
  /\ h \notin ToSet(told) /\ (track.on \/ track.wraps < MaxWraps)
  /\ limit = "pending" => ~track.on
  /\ Becomes([StartTracking(World) EXCEPT !.told = Append(@, h),
                                          !.mirror[h] = array])

PageUnsubscribes(h) ==
  /\ h \in ToSet(told)
  /\ Becomes(StopTracking([World EXCEPT !.told = RemoveFirst(@, h),
                                        !.mirror[h] = <<>>]))

PageTrims ==
  /\ setup.trims /\ "trim" \notin ToSet(subs)
  /\ Becomes([World EXCEPT !.subs = Append(@, "trim")])

(* The limit is put around notifySubscribers, once, before tracking begins.*)
PageLimits ==
  /\ setup.limits /\ limit = "none" /\ track.wraps = 0
  /\ Becomes([World EXCEPT !.limit = "idle"])

Timer == limit = "pending" /\ Becomes(TimerFires(World))

ItemChanges(x) == Becomes([World EXCEPT !.dom = Remapped(@, x, open)])

(* An item's observable, which an "if" binding of the template reads.      *)
ItemOpens(x) ==
  /\ HasIf
  /\ LET opened == IF x \in open THEN open \ {x} ELSE open \cup {x}
     IN  Becomes([World EXCEPT !.open = opened,
                               !.dom = Toggled(@, x, x \in opened)])

PageApplies(shouldDisplay) ==
  /\ setup.foreach # "none" /\ binding = "unbound"
  /\ \E w \in {World} : Becomes(ApplyBindings(w, shouldDisplay))

(* The condition of the binding changes.                                   *)
PageSwitches ==
  /\ binding \in {"shown", "hidden"}
  /\ Becomes(Update(World, binding = "hidden"))

PageRemovesContainer ==
  /\ binding \in {"shown", "hidden"}
  /\ Becomes([World EXCEPT !.dom = RemoveContainer(@), !.binding = "removed",
                            !.subs = RemoveFirst(@, "foreach")])

PageRemovesNode ==
  \E id \in Lingering(World) :
    Becomes([World EXCEPT !.dom.children = Without(@, id)])

Next ==
  \/ \E op \in Operations : PageMutates(op)
  \/ \E items \in Lists : PageWrites(items)
  \/ \E x \in setup.items :
       AddMessage(x) \/ PageRemoves(x) \/ PageDestroys(x) \/ ItemChanges(x)
       \/ ItemOpens(x)
  \/ \E x, y \in setup.items : PageReplaces(x, y)
  \/ PageRemovesAll
  \/ \E h \in setup.handlers : PageSubscribes(h) \/ PageUnsubscribes(h)
  \/ PageTrims \/ PageLimits \/ Timer \/ PageRemovesNode
  \/ \E shouldDisplay \in BOOLEAN : PageApplies(shouldDisplay)
  \/ PageSwitches \/ PageRemovesContainer

Spec == Init /\ [][Next]_vars

-----------------------------------------------------------------------------
(* Who has applied every difference that it was told has the array: the    *)
(* cached differences and the computed ones, also when a subscriber        *)
(* changes the array while it is being notified, and with a rate limit.    *)
(* The array is watched once while somebody subscribes to its differences, *)
(* and not at all when nobody does.                                        *)
TrackedOnce ==
  /\ track.on <=> told # <<>>
  /\ Len(SelectSeq(subs, LAMBDA s : s = "tracking")) = IF told = <<>> THEN 0 ELSE 1

MirrorsMatch ==
  /\ TrackedOnce
  /\ limit # "pending" => \A h \in ToSet(told) : mirror[h] = array

(* Between the container's start and end, the document shows the items     *)
(* that are not destroyed and that are open, in their order, among the     *)
(* nodes that are on their way out, and none while the condition of the    *)
(* binding does not hold.  What is around the container stays as it was.   *)
(* Each item knows its index, and bindings were applied once to each node  *)
(* that has some, wherever it has moved to since.                          *)
DomShowsList ==
  LET ids == Live(dom)
      live == SelectSeq(ChildNodes(dom.children, dom.container),
                        LAMBDA n : n.id \in ids)
      elements == SelectSeq(live, LAMBDA n : n.kind = "element")
      shows == [i \in DOMAIN elements |-> elements[i].shows]
      bindable == SelectSeq(live, LAMBDA n : n.kind \in {"element", "start"})
      around == SelectSeq(dom.children, LAMBDA n : n.shows \in {"before", "container", "after"})
      bound(n) == n.bound = 1
  IN  /\ binding = "shown" /\ limit # "pending"
           => shows = SelectSeq(Shown(World), LAMBDA x : HasIf => x \in open)
      /\ binding # "shown" => shows = <<>>
      /\ \A i \in DOMAIN dom.mapped : dom.mapped[i].index = i - 1
      /\ \A i \in DOMAIN bindable : bound(bindable[i])
      /\ setup.container = "comment" /\ binding \in {"shown", "hidden"} =>
           /\ [i \in DOMAIN around |-> around[i].kind]
                = <<"element", "start", "end", "element">>
           /\ dom.children[1].shows = "before" /\ Last(dom.children).shows = "after"
           /\ dom.container = around[2].id
           /\ bound(around[1]) /\ bound(around[2]) /\ bound(around[4])

(* A node that was there before a call is cleaned during it if and only if *)
(* it is not there any more: no binding is left behind, and none is lost   *)
(* by an item that has only moved.                                         *)
GoneIsCleaned ==
  [][LET before == Live(Settled(dom))
     IN  before \cap Live(dom') = before \ dom'.cleaned]_vars

(* The items of one list that are not in another, each as often as it is   *)
(* not.                                                                    *)
Strangers(list, other) == FoldLeft(RemoveFirst, list, other)

Count(s, x) == Len(SelectSeq(s, LAMBDA y : y = x))

Entries(d) == [i \in DOMAIN d.mapped |-> d.mapped[i].arrayEntry]

FirstNodes(d, x) ==
  {FixUpContinuousNodeArray(d.children, d.mapped[i].nodes)[1] :
     i \in {i \in DOMAIN d.mapped : d.mapped[i].arrayEntry = x}}

FewAreStrange(old, new) ==
  Len(IF Len(old) <= Len(new) THEN Strangers(new, old) ELSE Strangers(old, new)) < 10

(* As many items keep their nodes as there are items that stay, wherever   *)
(* they move to: only what is new in the list is rendered.  That is as     *)
(* long as fewer than ten items of the longer list are not in the other:   *)
(* the search for moves may give up after ten in a row that it has         *)
(* compared with everything ("a limit on the number of consecutive non-    *)
(* matching comparisons"), and moved items are rendered anew then.         *)
NodesAreKept ==
  [][LET old == Entries(dom)
         new == Entries(dom')
     IN  ~setup.trims /\ ~setup.limits /\ array' # array /\ FewAreStrange(old, new) =>
           \A x \in ToSet(old \o new) :
             Cardinality(FirstNodes(Settled(dom), x) \cap FirstNodes(dom', x))
               = Least(Count(old, x), Count(new, x))]_vars

=============================================================================
