---------------------------- MODULE Subscribables ---------------------------
(***************************************************************************)
(* Observables, computeds and subscriptions of Knockout 3.3.0, which the   *)
(* crawler's page loads (wwwroot/lib/knockoutjs): what each of them keeps, *)
(* and the operations that call nobody back.                               *)
(*                                                                         *)
(* A node is an observable or a computed.  The page's script runs to       *)
(* completion, so a function of the library is an operator from the state  *)
(* before the call to the state after it, a "world" w.  The subscriptions  *)
(* of a node to one subscriber are told apart by a mark: 1 before the      *)
(* page's current call, and a number of its own when made during it.  A    *)
(* version is only ever compared for equality.  The library numbers a node *)
(* when it is first read by a computed; here the view model gives the      *)
(* order of the numbers, which decides only in which order a computed      *)
(* checks and releases what it depends on.                                 *)
(***************************************************************************)
EXTENDS Naturals, Sequences, SequencesExt, FiniteSets

CONSTANTS
  AllNodes,   \* observables and computeds
  Handlers,   \* the callbacks of the page
  Graphs,     \* the view models
  None,
  Itself      \* in the place of a value: to be read from the node, then

(* A view model.  A computed c reads test[c], and then[c] only when that   *)
(* gives 1; its evaluation may also write the observable feeds[c].         *)
Values == {0, 1}

IsGraph(g) ==
  LET computeds == DOMAIN g.test
      nodes == ToSet(g.nodes)
  IN  /\ nodes \subseteq AllNodes       \* in the order of their ids
      /\ computeds \subseteq nodes
      /\ {g.test, g.then} \subseteq [computeds -> nodes]
      /\ g.kind \in [computeds -> {"plain", "deferred", "pure"}]
      /\ g.feeds \in [computeds -> (nodes \ computeds) \cup {None}]
      /\ g.bound \subseteq computeds     \* belong to a node of the document
      /\ g.throttled \subseteq computeds \* have a throttled evaluation
      /\ g.limited \subseteq nodes       \* have a rateLimit
      /\ DOMAIN g.watches \subseteq Handlers
      /\ \A h \in DOMAIN g.watches :     \* subscribes to, and disposes
           g.watches[h] \in nodes /\ g.drops[h] \subseteq DOMAIN g.watches \cup computeds

ASSUME SubscribablesAssumption ==
  {None, Itself} \cap Values = {} /\ \A g \in Graphs : IsGraph(g)

VARIABLES
  graph,  \* the view model of this page
  node,   \* the nodes
  heard,  \* the value each handler was given last, None when not subscribed
  born    \* the last mark that was given out

vars == <<graph, node, heard, born>>

Nodes       == graph.nodes
Computeds   == DOMAIN graph.test
Observables == ToSet(Nodes) \ Computeds
Kind        == graph.kind
Watches     == graph.watches
IsLimited(n) == n \in graph.limited

World == [node |-> node, heard |-> heard, born |-> born]

NewNode == [created |-> FALSE, value |-> None, version |-> 1, subs |-> <<>>,
            \* of a limited node
            pending |-> FALSE, prev |-> None, next |-> None, timer |-> FALSE,
            \* of a computed
            deps |-> <<>>, candidates |-> <<>>, needs |-> TRUE,
            evaluating |-> FALSE, sleeping |-> FALSE, disposed |-> FALSE,
            throttle |-> FALSE, attached |-> FALSE, suppress |-> FALSE,
            \* history: computeds that may have read another value of it than
            \* the present one, with neither a version nor a notification since
            untold |-> {}]

NewObservable == [NewNode EXCEPT !.created = TRUE, !.value = 0, !.needs = FALSE]

NewComputed(c) == [NewNode EXCEPT !.created = TRUE,
                                  !.sleeping = Kind[c] = "pure",
                                  !.suppress = c \in graph.bound]

Readers(w, n) == {c \in Computeds : n \in DOMAIN w.node[c].deps}

(* A computed has changed, and no version and no timer tells its readers.  *)
Silently(w, n) ==
  IF w.node[n].pending THEN w ELSE [w EXCEPT !.node[n].untold = Readers(w, n)]

(* A call of the page is over: what its subscriptions and versions are     *)
(* called does not matter any more.                                        *)
Settle(w) ==
  LET subs(n) == [i \in DOMAIN w.node[n].subs |->
                    [w.node[n].subs[i] EXCEPT !.mark = 1]]
      dep(c, n) ==
        LET d == w.node[c].deps[n] IN
        [d EXCEPT !.mark = IF @ = None THEN None ELSE 1,
                  !.version = IF @ = w.node[n].version THEN 1 ELSE 0]
      deps(c) == [n \in DOMAIN w.node[c].deps |-> dep(c, n)]
  IN  [w EXCEPT !.born = 1,
                !.node = [n \in AllNodes |->
                            [w.node[n] EXCEPT !.version = 1, !.subs = subs(n),
                                              !.deps = deps(n),
                                              !.untold = @ \cap Readers(w, n)]]]

Becomes(w) == LET v == Settle(w) IN
              graph' = graph /\ node' = v.node /\ heard' = v.heard /\ born' = v.born

-----------------------------------------------------------------------------
HasDependencies(w, c) == DOMAIN w.node[c].deps # {}

(* What a computed depends on, by id, and in the order it was read.        *)
ById(w, c) == SelectSeq(Nodes, LAMBDA n : n \in DOMAIN w.node[c].deps)

InOrder(w, c) ==
  LET deps == w.node[c].deps
  IN  SetToSortSeq(DOMAIN deps, LAMBDA m, n : deps[m].order < deps[n].order)

Track(w, c, n, mark, version) ==
  LET deps == w.node[c].deps
      d == [order |-> Cardinality(DOMAIN deps), mark |-> mark, version |-> version]
  IN  [w EXCEPT !.node[c].deps =
                  [m \in DOMAIN deps \cup {n} |-> IF m = n THEN d ELSE deps[m]]]

IsLive(w, n, subscription) == subscription \in ToSet(w.node[n].subs)

AddSubscription(w, n, to) ==
  [w EXCEPT !.born = @ + 1,
            !.node[n].subs = Append(@, [to |-> to, mark |-> w.born + 1])]

RemoveSubscription(w, n, to, mark) ==
  [w EXCEPT !.node[n].subs =
              SelectSeq(@, LAMBDA s : s # [to |-> to, mark |-> mark])]

-----------------------------------------------------------------------------
(* limit(): instead of being notified of a change, the subscribers are     *)
(* when a timer fires that the change has started.                         *)

(* notifySubscribers(.., "beforeChange"), which nobody subscribes to here, *)
(* keeps the value of the last notification.                               *)
WillChange(w, n) ==
  IF IsLimited(n) /\ ~w.node[n].pending
  THEN [w EXCEPT !.node[n].prev = w.node[n].value] ELSE w

\* Mutation: the timer is not started.
NoTimer(w, n, value) ==
  [w EXCEPT !.node[n].pending = TRUE, !.node[n].next = value]

RateLimitedChange(w, n, value) ==
  [w EXCEPT !.node[n].pending = TRUE, !.node[n].next = value,
            !.node[n].timer = TRUE]

(* _evalRateLimited: the computed is dirty, and evaluated when it is time. *)
EvalRateLimited(w, c) ==
  RateLimitedChange([WillChange(w, c) EXCEPT !.node[c].needs = TRUE], c, Itself)

=============================================================================
