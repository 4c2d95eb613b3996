-------------------------- MODULE MCKnockoutArrays --------------------------
(* Instances of KnockoutArrays for TLC: pages that use some of it each.    *)
EXTENDS KnockoutArrays

MCHandlers == {"h", "i"}

Page(items, length) ==
  [foreach |-> "none", container |-> "element", template |-> <<"element">>,
   limits |-> FALSE, handlers |-> {}, trims |-> FALSE, destroys |-> FALSE,
   items |-> items, length |-> length, writes |-> {}]

(* A list that is shown, and changes in every way.                         *)
Rendered == [Page({"x", "y", "z"}, 3) EXCEPT !.foreach = "plain"]

(* Nodes that stay for a while.                                            *)
Animated == [Page({"x", "y"}, 2) EXCEPT
  !.foreach = "beforeRemove", !.destroys = TRUE]

(* Subscribers of the differences, and one who changes the list.           *)
Tracked == [Page({"x", "y"}, 3) EXCEPT !.handlers = MCHandlers, !.trims = TRUE]

(* The same with a rate limit.                                             *)
Limited == [Tracked EXCEPT !.limits = TRUE]

(* A list that is shown with a rate limit.                                 *)
Delayed == [Page({"x", "y"}, 2) EXCEPT
  !.foreach = "plain", !.limits = TRUE, !.destroys = TRUE]

(* The list of messages of the crawler's page, in its comments.            *)
Messages == [Page({"x", "y"}, 3) EXCEPT
  !.foreach = "plain", !.container = "comment", !.trims = TRUE,
  !.template = <<"text", "element", "text">>]

(* Items with an "if" of their own, in comments.                           *)
Nested == [Page({"x", "y"}, 2) EXCEPT
  !.foreach = "plain", !.container = "comment", !.destroys = TRUE,
  !.template = <<"start", "element", "end">>]

(* Lists so long that the search for moves comes to its limit, or close:   *)
(* three items move to the front, seven go, and nine or ten come.          *)
Old == <<"o1", "o2", "a", "b", "c", "o3", "o4", "o5", "o6", "o7">>
New(n) == <<"a", "b", "c">> \o
  SubSeq(<<"n1", "n2", "n3", "n4", "n5", "n6", "n7", "n8", "n9", "n10">>, 1, n)

Long == [Page({"a"}, 0) EXCEPT
  !.foreach = "plain", !.handlers = {"h"}, !.writes = {Old, New(9), New(10)}]

MCSetups == {Rendered, Animated, Tracked, Limited, Delayed, Messages, Nested, Long}
=============================================================================
