-------------------------- MODULE DownloadsTracker --------------------------
(***************************************************************************)
(* The actor that decides which documents of a crawl job are downloaded.   *)
(* A download coordinator that has parsed a page asks it about the         *)
(* documents the page names (CheckDocuments); the tracker claims those     *)
(* that nobody has claimed, and those whose claim is overdue, and hands    *)
(* them back.  A claim is a deadline in the wall clock's local time        *)
(* (DateTime.Now), which daylight saving time and clock adjustments move   *)
(* independently of the time that passes.                                  *)
(*                                                                         *)
(* The owner of a claim (CrawlStatus.Owner) is stored and never read, and  *)
(* is left out.  One CheckDocuments message is handled at one clock value. *)
(***************************************************************************)
EXTENDS Integers

CONSTANTS
  Documents,       \* the documents of the site
  CrawlTimes,      \* the estimates a request may carry
  DefaultCrawlTime,\* _defaultCrawlTime
  NoEstimate,      \* EstimatedCrawlTime = null
  Unrecorded,      \* no entry in _recordedDocuments
  NoTimeout,       \* Timeout = null
  ClockSteps,      \* how far the wall clock may move while one time unit passes
  MaxTime          \* bound: how much time passes

ASSUME DownloadsTrackerAssumption ==
  /\ CrawlTimes \subseteq Nat
  /\ DefaultCrawlTime \in Nat
  /\ NoEstimate \notin Nat
  /\ NoTimeout \notin Int
  /\ Unrecorded \notin [complete : BOOLEAN, timeout : Int \cup {NoTimeout}]
  /\ ClockSteps \subseteq Int
  /\ MaxTime \in Nat

VARIABLES
  recorded,  \* _recordedDocuments: a CrawlStatus for each known document
  now,       \* DateTime.Now
  elapsed,   \* the time that has really passed
  claim      \* history: for each document, how often it was handed out, and
             \* when and for how long the last time

vars == <<recorded, now, elapsed, claim>>

\* A document under a deadline, or complete and under none.
CrawlStatus == [complete : {FALSE}, timeout : Int] \cup [complete : {TRUE}, timeout : {NoTimeout}]
Claim       == [count : Nat, at : Nat, time : Nat]

-----------------------------------------------------------------------------
\* CrawlStatus

\* Mutation: a document can be claimed in the last moment of a claim.
InTime(s) == ~s.complete /\ (s.timeout # NoTimeout => now >= s.timeout)

\* CanProcess
CanProcess(s) == ~s.complete /\ (s.timeout # NoTimeout => now > s.timeout)

\* EstimatedCrawlTime ?? _defaultCrawlTime
CrawlTime(estimate) == IF estimate = NoEstimate THEN DefaultCrawlTime ELSE estimate

\* TryClaim, and the same for a new CrawlStatus (StartCrawl)
Claimed(time) == [complete |-> FALSE, timeout |-> now + time]

\* MarkAsComplete
MarkAsComplete(s) == [complete |-> TRUE, timeout |-> NoTimeout]

-----------------------------------------------------------------------------
\* The handlers.

\* Documents of a request nobody has seen before, and those handed out.
Discovered(docs) == {d \in docs : recorded[d] = Unrecorded}
Available(docs)  ==
  {d \in docs : IF recorded[d] = Unrecorded THEN TRUE ELSE CanProcess(recorded[d])}

CheckDocuments(docs, estimate) ==
  LET time == CrawlTime(estimate) IN
  /\ recorded' = [d \in Documents |-> IF d \in Available(docs)
                                      THEN Claimed(time) ELSE recorded[d]]
  /\ claim' = [d \in Documents |-> IF d \in Available(docs)
                 THEN [count |-> claim[d].count + 1, at |-> elapsed, time |-> time]
                 ELSE claim[d]]
  /\ UNCHANGED <<now, elapsed>>

\* The tracker handles the message; no actor of the repository sends it one.
CompletedDocument(d) ==
  /\ recorded' = [recorded EXCEPT ![d] = MarkAsComplete(@)]
  /\ UNCHANGED <<now, elapsed, claim>>

\* One unit of time passes, and the wall clock moves.
PassTime ==
  /\ elapsed < MaxTime
  /\ elapsed' = elapsed + 1
  /\ \E s \in ClockSteps : now' = now + s
  /\ UNCHANGED <<recorded, claim>>

-----------------------------------------------------------------------------
Init ==
  /\ recorded = [d \in Documents |-> Unrecorded]
  /\ now = 0
  /\ elapsed = 0
  /\ claim = [d \in Documents |-> [count |-> 0, at |-> 0, time |-> 0]]

Next ==
  \/ \E docs \in SUBSET Documents, e \in CrawlTimes \cup {NoEstimate} : CheckDocuments(docs, e)
  \/ \E d \in Documents : CompletedDocument(d)
  \/ PassTime

Spec == Init /\ [][Next]_vars

-----------------------------------------------------------------------------
\* Every variable holds a value of its C# type, and a CrawlStatus has a deadline
\* as long as its document is not complete (StartCrawl, MarkAsComplete): the
\* null deadline CanProcess provides for does not occur in a claim.
TypeOK ==
  /\ recorded \in [Documents -> CrawlStatus \cup {Unrecorded}]
  /\ now \in Int
  /\ elapsed \in Nat
  /\ claim \in [Documents -> Claim]

HandedOut(d) == claim'[d].count # claim[d].count

\* "If the crawl operation isn't completed before the elapsed time, another
\* actor can start the process" (CrawlStatus): a document is handed out again
\* only when the time its last claim was made for has passed.
ClaimsLast ==
  [][\A d \in Documents :
       HandedOut(d) /\ claim[d].count > 0 => elapsed - claim[d].at > claim[d].time]_vars

=============================================================================
