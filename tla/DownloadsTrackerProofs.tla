----------------------- MODULE DownloadsTrackerProofs -----------------------
(***************************************************************************)
(* Theorems about DownloadsTracker, for every set of documents, every      *)
(* crawl time and every behavior of the wall clock the statements allow.   *)
(***************************************************************************)
EXTENDS DownloadsTracker, TLAPS

USE DownloadsTrackerAssumption

\* The estimates a request can carry are natural numbers once null is replaced.
LEMMA CrawlTimeIsNat ==
  ASSUME NEW e \in CrawlTimes \cup {NoEstimate}
  PROVE  CrawlTime(e) \in Nat
BY DEF CrawlTime

\* What a CheckDocuments message does to one document.
LEMMA CheckOneDocument ==
  ASSUME NEW docs \in SUBSET Documents, NEW e \in CrawlTimes \cup {NoEstimate},
         CheckDocuments(docs, e), NEW d \in Documents
  PROVE  /\ d \in Available(docs) =>
              /\ recorded'[d] = [complete |-> FALSE, timeout |-> now + CrawlTime(e)]
              /\ claim'[d] = [count |-> claim[d].count + 1, at |-> elapsed, time |-> CrawlTime(e)]
         /\ d \notin Available(docs) => recorded'[d] = recorded[d] /\ claim'[d] = claim[d]
BY DEF CheckDocuments, Claimed

-----------------------------------------------------------------------------
(* Type correctness. *)

\* CheckDocuments keeps the types.
LEMMA CheckKeepsTypes ==
  ASSUME TypeOK, NEW docs \in SUBSET Documents, NEW e \in CrawlTimes \cup {NoEstimate},
         CheckDocuments(docs, e)
  PROVE  TypeOK'
<1>1. CrawlTime(e) \in Nat
  BY CrawlTimeIsNat
<1>2. now + CrawlTime(e) \in Int
  BY <1>1 DEF TypeOK
<1>3. recorded' \in [Documents -> CrawlStatus \cup {Unrecorded}]
  BY <1>2 DEF CheckDocuments, TypeOK, Claimed, CrawlStatus
<1>4. claim' \in [Documents -> Claim]
  BY <1>1 DEF CheckDocuments, TypeOK, Claim
<1> QED
  BY <1>3, <1>4 DEF CheckDocuments, TypeOK

\* CompletedDocument keeps the types.
LEMMA CompletedKeepsTypes ==
  ASSUME TypeOK, NEW d \in Documents, CompletedDocument(d)
  PROVE  TypeOK'
BY DEF CompletedDocument, TypeOK, MarkAsComplete, CrawlStatus

\* The passing of time keeps the types.
LEMMA PassTimeKeepsTypes ==
  ASSUME TypeOK, PassTime
  PROVE  TypeOK'
<1>1. PICK s \in ClockSteps : now' = now + s
  BY DEF PassTime
<1>2. s \in Int
  BY <1>1
<1> QED
  BY <1>1, <1>2 DEF PassTime, TypeOK

\* TypeOK holds in every reachable state: in particular a document is under a
\* deadline exactly as long as it is not complete.
THEOREM TypeCorrect == Spec => []TypeOK
<1>1. Init => TypeOK
  BY DEF Init, TypeOK, Claim
<1>2. TypeOK /\ [Next]_vars => TypeOK'
  <2> SUFFICES ASSUME TypeOK, [Next]_vars PROVE TypeOK'
    OBVIOUS
  <2>1. ASSUME NEW docs \in SUBSET Documents, NEW e \in CrawlTimes \cup {NoEstimate},
               CheckDocuments(docs, e)
        PROVE  TypeOK'
    BY <2>1, CheckKeepsTypes
  <2>2. ASSUME NEW d \in Documents, CompletedDocument(d) PROVE TypeOK'
    BY <2>2, CompletedKeepsTypes
  <2>3. CASE PassTime
    BY <2>3, PassTimeKeepsTypes
  <2>4. CASE UNCHANGED vars
    BY <2>4 DEF vars, TypeOK
  <2> QED
    BY <2>1, <2>2, <2>3, <2>4 DEF Next
<1> QED
  BY <1>1, <1>2, PTL DEF Spec

-----------------------------------------------------------------------------
(* Claims last as long as they were made for, unless the wall clock is set  *)
(* forward.  The invariant relates the wall clock to the time that passed   *)
(* since a claim: the clock has not gained on it.                           *)

NotGained(d) ==
  claim[d].count > 0 =>
    /\ recorded[d] # Unrecorded
    /\ ~recorded[d].complete =>
         now - recorded[d].timeout + claim[d].time <= elapsed - claim[d].at

ClockBehind == \A d \in Documents : NotGained(d)

IInv == TypeOK /\ ClockBehind

\* A claim is made at the clock's present value.
LEMMA CheckKeepsClock ==
  ASSUME IInv, NEW docs \in SUBSET Documents, NEW e \in CrawlTimes \cup {NoEstimate},
         CheckDocuments(docs, e)
  PROVE  ClockBehind'
<1> SUFFICES ASSUME NEW d \in Documents PROVE NotGained(d)'
  BY DEF ClockBehind
<1>1. now' = now /\ elapsed' = elapsed /\ now \in Int /\ elapsed \in Nat
  BY DEF CheckDocuments, IInv, TypeOK
<1>2. CASE d \in Available(docs)
  <2>1. CrawlTime(e) \in Nat
    BY CrawlTimeIsNat
  <2>2. /\ recorded'[d] = [complete |-> FALSE, timeout |-> now + CrawlTime(e)]
        /\ claim'[d] = [count |-> claim[d].count + 1, at |-> elapsed, time |-> CrawlTime(e)]
    BY <1>2, CheckOneDocument
  <2>3. recorded'[d] \in CrawlStatus
    BY <1>1, <2>1, <2>2 DEF CrawlStatus
  <2>4. recorded'[d] # Unrecorded
    BY <2>3 DEF CrawlStatus
  <2> QED
    BY <1>1, <2>1, <2>2, <2>4 DEF NotGained
<1>3. CASE d \notin Available(docs)
  <2>1. recorded'[d] = recorded[d] /\ claim'[d] = claim[d]
    BY <1>3, CheckOneDocument
  <2>2. NotGained(d)
    BY DEF IInv, ClockBehind
  <2> QED
    BY <1>1, <2>1, <2>2 DEF NotGained
<1> QED
  BY <1>2, <1>3

\* Completing a document ends its claim.
LEMMA CompletedKeepsClock ==
  ASSUME IInv, NEW c \in Documents, CompletedDocument(c)
  PROVE  ClockBehind'
<1> SUFFICES ASSUME NEW d \in Documents PROVE NotGained(d)'
  BY DEF ClockBehind
<1>1. now' = now /\ elapsed' = elapsed /\ claim' = claim
  BY DEF CompletedDocument
<1>2. CASE d = c
  <2>1. recorded'[d] = [complete |-> TRUE, timeout |-> NoTimeout]
    BY <1>2 DEF CompletedDocument, MarkAsComplete, IInv, TypeOK
  <2>2. recorded'[d] # Unrecorded
    <3>1. recorded'[d] \in [complete : BOOLEAN, timeout : Int \cup {NoTimeout}]
      BY <2>1
    <3> QED
      BY <3>1
  <2> QED
    BY <2>1, <2>2 DEF NotGained
<1>3. CASE d # c
  <2>1. recorded'[d] = recorded[d]
    BY <1>3 DEF CompletedDocument, IInv, TypeOK
  <2>2. NotGained(d)
    BY DEF IInv, ClockBehind
  <2> QED
    BY <1>1, <2>1, <2>2 DEF NotGained
<1> QED
  BY <1>2, <1>3

\* A clock that moves by at most one unit while a unit of time passes does not
\* gain on the time.
LEMMA PassTimeKeepsClock ==
  ASSUME \A s \in ClockSteps : s <= 1, IInv, PassTime
  PROVE  ClockBehind'
<1> SUFFICES ASSUME NEW d \in Documents PROVE NotGained(d)'
  BY DEF ClockBehind
<1>1. PICK s \in ClockSteps : now' = now + s
  BY DEF PassTime
<1>2. s \in Int /\ s <= 1
  BY <1>1
<1>3. elapsed' = elapsed + 1 /\ recorded' = recorded /\ claim' = claim
  BY DEF PassTime
<1>4. NotGained(d)
  BY DEF IInv, ClockBehind
<1>5. /\ now \in Int /\ elapsed \in Nat /\ claim[d] \in Claim
      /\ recorded[d] \in CrawlStatus \cup {Unrecorded}
  BY DEF IInv, TypeOK
<1>6. claim[d].time \in Nat /\ claim[d].at \in Nat
  BY <1>5 DEF Claim
<1>7. CASE /\ claim[d].count > 0
           /\ ~recorded[d].complete
  <2>1. recorded[d] # Unrecorded
    BY <1>4, <1>7 DEF NotGained
  <2>2. recorded[d].timeout \in Int
    BY <1>5, <1>7, <2>1 DEF CrawlStatus
  <2>3. now - recorded[d].timeout + claim[d].time <= elapsed - claim[d].at
    BY <1>4, <1>7 DEF NotGained
  <2>4. now' - recorded[d].timeout + claim[d].time <= elapsed' - claim[d].at
    BY <1>1, <1>2, <1>3, <1>5, <1>6, <2>2, <2>3
  <2> QED
    BY <1>3, <2>1, <2>4 DEF NotGained
<1>8. CASE ~(claim[d].count > 0 /\ ~recorded[d].complete)
  BY <1>3, <1>4, <1>8 DEF NotGained
<1> QED
  BY <1>7, <1>8

\* A step that hands a document out again finds its claim over.
LEMMA ClaimStep ==
  ASSUME IInv, [Next]_vars, NEW d \in Documents, HandedOut(d), claim[d].count > 0
  PROVE  elapsed - claim[d].at > claim[d].time
<1>1. PICK docs \in SUBSET Documents, e \in CrawlTimes \cup {NoEstimate} : CheckDocuments(docs, e)
  <2>1. ASSUME NEW c \in Documents, CompletedDocument(c) PROVE FALSE
    BY <2>1 DEF CompletedDocument, HandedOut
  <2>2. ~PassTime
    BY DEF PassTime, HandedOut
  <2>3. ~UNCHANGED vars
    BY DEF vars, HandedOut
  <2> QED
    BY <2>1, <2>2, <2>3 DEF Next
<1>2. d \in Available(docs)
  BY <1>1, CheckOneDocument DEF HandedOut
<1>3. NotGained(d)
  BY DEF IInv, ClockBehind
<1>4. recorded[d] # Unrecorded
  BY <1>3 DEF NotGained
<1>5. CanProcess(recorded[d])
  BY <1>2, <1>4 DEF Available
<1>6. recorded[d] \in CrawlStatus /\ now \in Int /\ elapsed \in Nat /\ claim[d] \in Claim
  BY <1>4 DEF IInv, TypeOK
<1>7. ~recorded[d].complete /\ recorded[d].timeout \in Int
  BY <1>5, <1>6 DEF CanProcess, CrawlStatus
<1>8. now > recorded[d].timeout
  BY <1>5, <1>7 DEF CanProcess
<1>9. now - recorded[d].timeout + claim[d].time <= elapsed - claim[d].at
  BY <1>3, <1>7 DEF NotGained
<1>10. claim[d].time \in Nat /\ claim[d].at \in Nat
  BY <1>6 DEF Claim
<1> QED
  BY <1>6, <1>7, <1>8, <1>9, <1>10

\* IInv is inductive for a clock that is never set forward.
LEMMA Inductive ==
  ASSUME \A s \in ClockSteps : s <= 1
  PROVE  /\ Init => IInv
         /\ IInv /\ [Next]_vars => IInv'
<1>1. Init => IInv
  <2>1. Init => TypeOK
    BY DEF Init, TypeOK, Claim
  <2>2. Init => ClockBehind
    BY DEF Init, ClockBehind, NotGained
  <2> QED
    BY <2>1, <2>2 DEF IInv
<1>2. ASSUME IInv, [Next]_vars PROVE IInv'
  <2>1. ASSUME NEW docs \in SUBSET Documents, NEW e \in CrawlTimes \cup {NoEstimate},
               CheckDocuments(docs, e)
        PROVE  IInv'
    BY <1>2, <2>1, CheckKeepsTypes, CheckKeepsClock DEF IInv
  <2>2. ASSUME NEW d \in Documents, CompletedDocument(d) PROVE IInv'
    BY <1>2, <2>2, CompletedKeepsTypes, CompletedKeepsClock DEF IInv
  <2>3. CASE PassTime
    BY <1>2, <2>3, PassTimeKeepsTypes, PassTimeKeepsClock DEF IInv
  <2>4. CASE UNCHANGED vars
    BY <1>2, <2>4 DEF vars, IInv, TypeOK, ClockBehind, NotGained
  <2> QED
    BY <1>2, <2>1, <2>2, <2>3, <2>4 DEF Next
<1> QED
  BY <1>1, <1>2

\* As long as the wall clock is never set forward, a document is handed out
\* again only when the time its last claim was made for has really passed.
THEOREM ClaimsLastTheirTime ==
  ASSUME \A s \in ClockSteps : s <= 1
  PROVE  Spec => ClaimsLast
<1>1. Init => IInv
  BY Inductive
<1>2. IInv /\ [Next]_vars => IInv'
  BY Inductive
<1>3. IInv /\ [Next]_vars =>
        [\A d \in Documents :
           HandedOut(d) /\ claim[d].count > 0 => elapsed - claim[d].at > claim[d].time]_vars
  BY ClaimStep
<1> QED
  BY <1>1, <1>2, <1>3, PTL DEF Spec, ClaimsLast

=============================================================================
