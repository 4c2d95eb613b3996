--------------------------- MODULE MCCrawlPipeline --------------------------
(***************************************************************************)
(* Small instances of CrawlPipeline: sites of a few pages.                 *)
(***************************************************************************)
EXTENDS CrawlPipeline

CONSTANTS r, a, b, c1, c2, c3

Site(links) == [d \in Documents |-> IF d \in DOMAIN links THEN links[d] ELSE <<>>]

\* The root names a, and a names the root and b.
Cycle == Site((r :> <<a>>) @@ (a :> <<r, b>>))

\* The root names a and b, which name each other.
Triangle == Site((r :> <<a, b>>) @@ (a :> <<b>>) @@ (b :> <<a>>))

Undisturbed2 ==
  [links |-> Cycle, emptyPages |-> {b}, initialPool |-> <<c1, c2>>, joining |-> {},
   bufferSize |-> 9, slowSite |-> FALSE, maxCrashes |-> 0, maxTime |-> 0, period |-> 2]

Disturbed3 ==
  [links |-> Triangle, emptyPages |-> {}, initialPool |-> <<c1, c2>>, joining |-> {c1, c2, c3},
   bufferSize |-> 1, slowSite |-> TRUE, maxCrashes |-> 1, maxTime |-> 2, period |-> 6]

\* The root names a, and a and b name each other.
Mutual == Site((r :> <<a>>) @@ (a :> <<b>>) @@ (b :> <<a>>))

\* Each page names one other, so that a claim lasts one unit of time.
Overdue2 == [Undisturbed2 EXCEPT !.links = Mutual, !.emptyPages = {}, !.maxTime = 2]
JustOverdue == {Overdue2}

\* One coordinator, and claims that run out twice.
Overdue4 == [Overdue2 EXCEPT !.initialPool = <<c1>>, !.maxTime = 4]

\* One of two coordinators is lost, and claims run out.
OverdueLost == [Overdue2 EXCEPT !.maxCrashes = 1]

FourScenarios == {Undisturbed2, Disturbed3, Overdue4, OverdueLost}
=============================================================================
