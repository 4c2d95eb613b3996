-------------------------- MODULE MCKnockoutGraph ---------------------------
(* Instances of KnockoutGraph for TLC: view models over a and b.           *)
EXTENDS KnockoutGraph

MCNodes == {"a", "b", "c", "d", "e"}

MCHandlers == {"h", "i"}

Basic(computeds) ==
  [nodes |-> <<"a", "b">> \o computeds,
   feeds |-> [c \in ToSet(computeds) |-> None],
   bound |-> {}, throttled |-> {}, limited |-> {},
   drops |-> [h \in MCHandlers |-> {}]]

(* A diamond whose arms depend on different observables as they change.    *)
(* Hearing of it ends one of the arms.                                     *)
Diamond == [Basic(<<"c", "d", "e">>) EXCEPT !.drops = [h |-> {"c"}, i |-> {}]] @@
  [test |-> [c |-> "a", d |-> "b", e |-> "c"],
   then |-> [c |-> "b", d |-> "a", e |-> "d"],
   kind |-> [c |-> "plain", d |-> "plain", e |-> "deferred"],
   watches |-> [h |-> "d", i |-> "e"]]

(* Pure computeds under a plain one, and handlers that drop each other.    *)
Pure == [Basic(<<"c", "d", "e">>) EXCEPT !.drops = [h |-> {"i"}, i |-> {}]] @@
  [test |-> [c |-> "a", d |-> "b", e |-> "c"],
   then |-> [c |-> "b", d |-> "b", e |-> "d"],
   kind |-> [c |-> "pure", d |-> "pure", e |-> "plain"],
   watches |-> [h |-> "c", i |-> "c"]]

(* A limited computed and a throttled one, and a limited observable.       *)
Timed == [Basic(<<"c", "d">>) EXCEPT !.nodes = <<"a", "b", "e", "c", "d">>,
                                     !.limited = {"c", "e"},
                                     !.throttled = {"d"}] @@
  [test |-> [c |-> "a", d |-> "b"],
   then |-> [c |-> "b", d |-> "a"],
   kind |-> [c |-> "pure", d |-> "plain"],
   watches |-> [h |-> "c", i |-> "e"]]

(* A computed that writes what another one reads, and belongs to the       *)
(* document; a computed that writes what it reads.                         *)
Feeding == [Basic(<<"c", "d", "e">>) EXCEPT !.bound = {"c"},
                                     !.feeds = [c |-> "b", d |-> None, e |-> "b"]] @@
  [test |-> [c |-> "a", d |-> "a", e |-> "b"],
   then |-> [c |-> "a", d |-> "b", e |-> "a"],
   kind |-> [c |-> "plain", d |-> "plain", e |-> "plain"],
   watches |-> [h |-> "d", i |-> "e"]]

(* Pure computeds that read pure computeds, watched at both ends.          *)
Nested == Basic(<<"d", "c", "e">>) @@
  [test |-> [c |-> "d", d |-> "a", e |-> "c"],
   then |-> [c |-> "b", d |-> "b", e |-> "d"],
   kind |-> [c |-> "pure", d |-> "pure", e |-> "pure"],
   watches |-> [h |-> "e", i |-> "d"]]

(* Computeds that read a limited observable.                               *)
Held == [Basic(<<"c", "d">>) EXCEPT !.nodes = <<"a", "e", "c", "d">>, !.limited = {"e"}] @@
  [test |-> [c |-> "a", d |-> "e"],
   then |-> [c |-> "e", d |-> "a"],
   kind |-> [c |-> "plain", d |-> "pure"],
   watches |-> [h |-> "c", i |-> "d"]]

(* A pure computed that reads a limited pure computed.                     *)
HeldPure == [Basic(<<"d", "c">>) EXCEPT !.limited = {"d"}] @@
  [test |-> [c |-> "d", d |-> "a"],
   then |-> [c |-> "b", d |-> "b"],
   kind |-> [c |-> "pure", d |-> "pure"],
   watches |-> [h |-> "c", i |-> "d"]]

MCGraphs == {Diamond, Pure, Timed, Feeding, Nested, Held, HeldPure}

=============================================================================
