--------------------------- MODULE ApiMasterProofs --------------------------
(***************************************************************************)
(* Theorems about ApiMaster for every cluster, every set of start commands *)
(* and jobs, and any number of crashes, losses, late answers and ends of   *)
(* CrawlMasters: the types of the state; that a job whose searches counted *)
(* only answers of their own never has two CrawlMasters; and that no start *)
(* command of such a job is forgotten or held by two nodes.                *)
(***************************************************************************)
EXTENDS ApiMaster, FiniteSetTheorems, SequenceTheorems, TLAPS

USE ApiMasterAssumption

-----------------------------------------------------------------------------
\* Where x is in the sequence s, and how often.
At(s, x)    == {i \in 1..Len(s) : s[i] = x}
Count(s, x) == Cardinality(At(s, x))

\* A JobFound of job is in the sequence s.
IsFound(msg, job) == msg.type = "JobFound" /\ msg.job = job
FoundIn(s, job)   == \E msg \in ToSet(s) : IsFound(msg, job)

TimerMsg == Msg("ReceiveTimeout", NoJob)

\* What the messages in a channel, a stash and a mailbox look like.
Sent(msg) ==
  /\ msg.job \in Jobs
  /\ \/ msg = FindRunningJob(msg.job)
     \/ msg = JobNotFound(msg.job)
     \/ msg.ref \in Ref /\ msg = JobFound(msg.job, msg.ref)
IsStart(msg)    == msg.start \in Starts /\ msg = StartJob(msg.start)
WellFormed(msg) == Sent(msg) \/ IsStart(msg) \/ msg = TimerMsg

ShapeOK ==
  /\ \A n \in Nodes : \A msg \in ToSet(mailbox[n]) : WellFormed(msg)
  /\ \A n \in Nodes : \A msg \in ToSet(stash[n]) : IsStart(msg)
  /\ \A e \in Links : \A msg \in ToSet(net[e]) : Sent(msg)

\* A node that is up knows the others that are; only one that is up searches,
\* and only one that searches has a timeout; that is the next thing it handles.
\* What a node sends itself is in its mailbox at once.
LocalOK ==
  /\ \A m, n \in Nodes : up[m] /\ up[n] => m \in routees[n]
  /\ \A n \in Nodes : behavior[n] = "SearchingForJob" => up[n]
  /\ \A n \in Nodes : net[<<n, n>>] = <<>>
  /\ \A n \in Nodes :
       TimerMsg \in ToSet(mailbox[n]) =>
         behavior[n] = "SearchingForJob" /\ TimerMsg \notin ToSet(Tail(mailbox[n]))

-----------------------------------------------------------------------------
\* A search of n for job.
Searching(n, job) == behavior[n] = "SearchingForJob" /\ jobOf[jobToStart[n]] = job

\* The question of n whether p runs job, as far as p has not handled it, and
\* the answers that say no, at n and on their way.
Questions(n, p, job) == Count(mailbox[p], FindRunningJob(job)) + Count(net[<<n, p>>], FindRunningJob(job))
Negatives(p, n, job) == Count(net[<<p, n>>], JobNotFound(job))
Counted(n, job)      == Count(mailbox[n], JobNotFound(job)) + Count(mailbox[n], TimerMsg)

\* The answer of p that says yes.
Answered(p, n, job) == FoundIn(mailbox[n], job) \/ FoundIn(net[<<p, n>>], job)

\* The nodes that may still answer, or will not because they run the job.
Owing(n, job) ==
  {p \in Nodes : Questions(n, p, job) > 0 \/ Negatives(p, n, job) > 0 \/ RunsOn(p, job)}

\* The questions of a search of n: one at most for each node, and no other
\* search has sent any.  A node that said no has no question left and no
\* CrawlMaster; one that has a CrawlMaster will be asked or has said so.
QuestionsOK(n, job) ==
  /\ \A p \in Nodes : Questions(n, p, job) <= 1
  /\ \A m, p \in Nodes : m # n => Count(net[<<m, p>>], FindRunningJob(job)) = 0
AnswersOK(n, job) ==
  \A p \in Nodes :
    /\ Negatives(p, n, job) <= 1
    /\ Negatives(p, n, job) > 0 => Questions(n, p, job) = 0 /\ masters[<<p, job>>] = 0
    /\ RunsOn(p, job) /\ Questions(n, p, job) = 0
         => Answered(p, n, job)

\* While n counts, more acknowledgements are outstanding than negative answers
\* can come: each node that runs the job is one that will not be counted.
CountingOK(n, job) ==
  acks[n] > 0 =>
    /\ QuestionsOK(n, job)
    /\ AnswersOK(n, job)
    /\ acks[n] >= Counted(n, job) + Cardinality(Owing(n, job))

\* Once n has created the CrawlMaster no answer is left, and its own JobFound
\* ends the search.
CreatedOK(n, job) ==
  acks[n] <= 0 =>
    /\ \A p \in Nodes : Questions(n, p, job) = 0 /\ Negatives(p, n, job) = 0
    /\ \A m, p \in Nodes : Count(net[<<m, p>>], FindRunningJob(job)) = 0
    /\ Counted(n, job) = 0
    /\ FoundIn(mailbox[n], job)
    /\ outcome[jobToStart[n]] # "open"

\* A job that is not muddled has one search at a time, and at most one
\* CrawlMaster.
SearchOK(job) ==
  /\ \A m, n \in Nodes : Searching(m, job) /\ Searching(n, job) => m = n
  /\ \A n \in Nodes : Searching(n, job) => CountingOK(n, job) /\ CreatedOK(n, job)
  /\ \A m, n \in Nodes : RunsOn(m, job) /\ RunsOn(n, job) => m = n
SearchesOK == \A job \in Jobs \ muddled : SearchOK(job)

\* A command is with one node at most, with none before it is sent, and with
\* one until something has become of it.
HoldersOK ==
  \A s \in Starts :
    /\ \A m, n \in Nodes : HeldBy(m, s) /\ HeldBy(n, s) => m = n
    /\ outcome[s] = "unsent" => \A n \in Nodes : ~HeldBy(n, s)
KeptOK ==
  (\A n \in Nodes : up[n]) =>
    \A s \in Starts :
      outcome[s] = "open" /\ jobOf[s] \notin muddled => \E n \in Nodes : HeldBy(n, s)

TInv == TypeOK /\ ShapeOK /\ LocalOK
AInv == TInv /\ SearchesOK /\ HoldersOK /\ KeptOK

-----------------------------------------------------------------------------
\* Facts about sequences.

LEMMA CountType ==
  ASSUME NEW S, NEW s \in Seq(S), NEW x
  PROVE  /\ IsFiniteSet(At(s, x))
         /\ Count(s, x) \in Nat
         /\ Count(s, x) = 0 <=> \A i \in 1..Len(s) : s[i] # x
<1>1. Len(s) \in Nat /\ IsFiniteSet(1..Len(s)) BY FS_Interval
<1>2. IsFiniteSet(At(s, x)) BY <1>1, FS_Subset DEF At
<1>3. Count(s, x) \in Nat BY <1>2, FS_CardinalityType DEF Count
<1>4. Count(s, x) = 0 <=> At(s, x) = {} BY <1>2, FS_EmptySet DEF Count
<1>. QED BY <1>2, <1>3, <1>4 DEF At

LEMMA CountEmpty ==
  \A x : Count(<<>>, x) = 0
<1>1. <<>> \in Seq({}) /\ Len(<<>>) = 0 OBVIOUS
<1>2. 1..Len(<<>>) = {} BY <1>1
<1>. QED BY <1>1, <1>2, CountType

LEMMA CountAppend ==
  ASSUME NEW S, NEW s \in Seq(S), NEW y \in S, NEW x
  PROVE  Count(Append(s, y), x) = Count(s, x) + (IF y = x THEN 1 ELSE 0)
<1>. DEFINE t == Append(s, y)
<1>1. /\ Len(s) \in Nat /\ Len(t) = Len(s) + 1 /\ t[Len(s) + 1] = y
      /\ \A i \in 1..Len(s) : t[i] = s[i]
  BY AppendProperties
<1>2. IsFiniteSet(At(s, x)) /\ Count(s, x) \in Nat BY CountType
<1>. HIDE DEF t
<1>3. CASE y = x
  <2>1. At(t, x) = At(s, x) \cup {Len(s) + 1} BY <1>1, <1>3 DEF At
  <2>2. Len(s) + 1 \notin At(s, x) BY <1>1 DEF At
  <2>3. Cardinality(At(t, x)) = Cardinality(At(s, x)) + 1 BY <1>2, <2>1, <2>2, FS_AddElement
  <2>. QED BY <1>3, <2>3 DEF Count, t
<1>4. CASE y # x
  <2>1. At(t, x) = At(s, x) BY <1>1, <1>4 DEF At
  <2>. QED BY <1>2, <1>4, <2>1 DEF Count, t
<1>. QED BY <1>3, <1>4

LEMMA CountTail ==
  ASSUME NEW S, NEW s \in Seq(S), s # <<>>, NEW x
  PROVE  Count(s, x) = Count(Tail(s), x) + (IF Head(s) = x THEN 1 ELSE 0)
<1>1. /\ Len(s) \in Nat \ {0} /\ Head(s) = s[1] /\ Tail(s) \in Seq(S)
      /\ Len(Tail(s)) = Len(s) - 1 /\ \A i \in 1..(Len(s) - 1) : Tail(s)[i] = s[i + 1]
  OBVIOUS
<1>. DEFINE t == Tail(s)
            f == [i \in At(t, x) |-> i + 1]
            Rest == At(s, x) \ {1}
<1>2. /\ IsFiniteSet(At(s, x)) /\ Count(s, x) \in Nat
      /\ IsFiniteSet(At(t, x)) /\ Count(t, x) \in Nat
  <2>1. t \in Seq(S) BY <1>1
  <2>. HIDE DEF t
  <2>. QED BY <1>1, <2>1, CountType
<1>3. f \in Bijection(At(t, x), Rest)
  <2>1. \A i \in At(t, x) : i \in Int /\ i + 1 \in Rest BY <1>1 DEF At
  <2>2. f \in [At(t, x) -> Rest] BY <2>1
  <2>3. \A i, k \in At(t, x) : f[i] = f[k] => i = k BY <2>1
  <2>4. \A k \in Rest : k - 1 \in At(t, x) /\ f[k - 1] = k
    <3>1. ASSUME NEW k \in Rest PROVE k - 1 \in At(t, x) BY <1>1 DEF At
    <3>2. \A k \in Rest : k \in Int BY DEF At
    <3>. QED BY <3>1, <3>2
  <2>5. \A k \in Rest : \E i \in At(t, x) : f[i] = k BY <2>4
  <2>. HIDE DEF t, f, Rest
  <2>. QED BY <2>2, <2>3, <2>5 DEF Bijection, Injection, IsInjective, Surjection
<1>4. ExistsBijection(At(t, x), Rest) BY <1>3 DEF ExistsBijection
<1>5. Cardinality(Rest) = Cardinality(At(t, x)) BY <1>2, <1>4, FS_Bijection
<1>6. Cardinality(Rest) = IF 1 \in At(s, x) THEN Cardinality(At(s, x)) - 1 ELSE Cardinality(At(s, x))
  BY <1>2, FS_RemoveElement
<1>7. 1 \in At(s, x) <=> Head(s) = x BY <1>1 DEF At
<1>. QED BY <1>2, <1>5, <1>6, <1>7 DEF Count

\* What is put in front of a sequence does not change how often it has something else.
LEMMA CountConcat ==
  ASSUME NEW S, NEW u \in Seq(S), NEW s \in Seq(S), NEW x, \A i \in 1..Len(u) : u[i] # x
  PROVE  Count(u \o s, x) = Count(s, x)
<1>1. /\ Len(u) \in Nat /\ Len(s) \in Nat /\ Len(u \o s) = Len(u) + Len(s)
      /\ \A i \in 1..(Len(u) + Len(s)) :
           (u \o s)[i] = IF i <= Len(u) THEN u[i] ELSE s[i - Len(u)]
  BY ConcatProperties
<1>. DEFINE t == u \o s
            f == [i \in At(s, x) |-> i + Len(u)]
<1>2. IsFiniteSet(At(s, x)) BY CountType
<1>3. f \in Bijection(At(s, x), At(t, x))
  <2>1. \A i \in At(s, x) : i \in Int /\ i + Len(u) \in At(t, x) BY <1>1 DEF At
  <2>2. f \in [At(s, x) -> At(t, x)] BY <2>1
  <2>3. \A i, k \in At(s, x) : f[i] = f[k] => i = k BY <1>1, <2>1
  <2>4. \A k \in At(t, x) : k - Len(u) \in At(s, x) /\ f[k - Len(u)] = k
    <3>1. ASSUME NEW k \in At(t, x) PROVE k \in Int /\ k - Len(u) \in At(s, x)
      <4>1. k \in 1..(Len(u) + Len(s)) /\ t[k] = x BY <1>1 DEF At
      <4>2. ~(k <= Len(u)) BY <1>1, <4>1
      <4>. QED BY <1>1, <4>1, <4>2 DEF At
    <3>. QED BY <1>1, <3>1
  <2>5. \A k \in At(t, x) : \E i \in At(s, x) : f[i] = k BY <2>4
  <2>. HIDE DEF t, f
  <2>. QED BY <2>2, <2>3, <2>5 DEF Bijection, Injection, IsInjective, Surjection
<1>4. ExistsBijection(At(s, x), At(t, x)) BY <1>3 DEF ExistsBijection
<1>. QED BY <1>2, <1>4, FS_Bijection DEF Count

LEMMA EmptyToSet ==
  ToSet(<<>>) = {}
BY DEF ToSet

LEMMA ToSetFacts ==
  ASSUME NEW S, NEW s \in Seq(S)
  PROVE  /\ ToSet(s) \subseteq S
         /\ \A y \in S : ToSet(Append(s, y)) = ToSet(s) \cup {y}
         /\ s # <<>> => ToSet(s) = {Head(s)} \cup ToSet(Tail(s))
         /\ \A u \in Seq(S) : ToSet(u \o s) = ToSet(u) \cup ToSet(s)
         /\ \A x : Count(s, x) = 0 <=> x \notin ToSet(s)
<1>1. Len(s) \in Nat /\ DOMAIN s = 1..Len(s) /\ \A i \in 1..Len(s) : s[i] \in S OBVIOUS
<1>2. ASSUME NEW y \in S PROVE ToSet(Append(s, y)) = ToSet(s) \cup {y}
  <2>. DEFINE t == Append(s, y)
  <2>1. /\ DOMAIN t = 1..(Len(s) + 1) /\ t[Len(s) + 1] = y
        /\ \A i \in 1..Len(s) : t[i] = s[i]
    BY AppendProperties
  <2>. HIDE DEF t
  <2>2. ToSet(t) \subseteq ToSet(s) \cup {y} BY <1>1, <2>1 DEF ToSet
  <2>3. ToSet(s) \cup {y} \subseteq ToSet(t) BY <1>1, <2>1 DEF ToSet
  <2>. QED BY <2>2, <2>3 DEF t
<1>3. ASSUME s # <<>> PROVE ToSet(s) = {Head(s)} \cup ToSet(Tail(s))
  <2>. DEFINE t == Tail(s)
  <2>1. /\ Len(s) # 0 /\ Head(s) = s[1] /\ DOMAIN t = 1..(Len(s) - 1)
        /\ \A i \in 1..(Len(s) - 1) : t[i] = s[i + 1]
    BY <1>3
  <2>. HIDE DEF t
  <2>2. ASSUME NEW x \in ToSet(s) PROVE x \in {Head(s)} \cup ToSet(t)
    <3>1. PICK i \in 1..Len(s) : s[i] = x BY <1>1, <2>2 DEF ToSet
    <3>2. CASE i = 1 BY <2>1, <3>1, <3>2
    <3>3. CASE i # 1
      <4>1. i - 1 \in 1..(Len(s) - 1) /\ t[i - 1] = x BY <1>1, <2>1, <3>1, <3>3
      <4>. QED BY <2>1, <4>1 DEF ToSet
    <3>. QED BY <3>2, <3>3
  <2>3. {Head(s)} \cup ToSet(t) \subseteq ToSet(s) BY <1>1, <2>1 DEF ToSet
  <2>. QED BY <2>2, <2>3 DEF t
<1>4. ASSUME NEW u \in Seq(S) PROVE ToSet(u \o s) = ToSet(u) \cup ToSet(s)
  <2>1. \A v : ToSet(v) = Range(v) BY DEF ToSet, Range
  <2>2. Range(u \o s) = Range(u) \cup Range(s) BY RangeConcatenation
  <2>. QED BY <2>1, <2>2
<1>5. \A x : Count(s, x) = 0 <=> x \notin ToSet(s)
  BY <1>1, CountType DEF ToSet
<1>6. ToSet(s) \subseteq S BY <1>1 DEF ToSet
<1>. QED BY <1>2, <1>3, <1>4, <1>5, <1>6

-----------------------------------------------------------------------------
\* Messages.

\* Messages of different kinds or jobs differ, and all are of their type.
LEMMA MessageFacts ==
  ASSUME TypeOK, NEW job \in Jobs
  PROVE  /\ FindRunningJob(job).type = "FindRunningJob" /\ FindRunningJob(job).job = job
         /\ JobNotFound(job).type = "JobNotFound" /\ JobNotFound(job).job = job
         /\ TimerMsg.type = "ReceiveTimeout" /\ TimerMsg.job = NoJob
         /\ \A s \in Starts : /\ StartJob(s).type = "StartJob" /\ StartJob(s).job = jobOf[s]
                              /\ StartJob(s).start = s /\ jobOf[s] \in Jobs
         /\ \A r \in Ref : /\ JobFound(job, r).type = "JobFound" /\ JobFound(job, r).job = job
                           /\ JobFound(job, r).ref = r
         /\ Sent(FindRunningJob(job)) /\ Sent(JobNotFound(job))
         /\ \A r \in Ref : Sent(JobFound(job, r))
         /\ \A s \in Starts : IsStart(StartJob(s))
BY DEF TypeOK, Sent, IsStart, TimerMsg, FindRunningJob, JobNotFound, StartJob, JobFound, Msg

LEMMA KindFacts ==
  ASSUME TypeOK, NEW msg, WellFormed(msg)
  PROVE  /\ msg \in Message
         /\ msg.type = "StartJob" => IsStart(msg) /\ msg.job = jobOf[msg.start]
         /\ msg.type = "FindRunningJob" => Sent(msg) /\ msg = FindRunningJob(msg.job)
         /\ msg.type = "JobNotFound" => Sent(msg) /\ msg = JobNotFound(msg.job)
         /\ msg.type = "JobFound" => Sent(msg) /\ msg.ref \in Ref
         /\ msg.type = "ReceiveTimeout" => msg = TimerMsg
         /\ msg.type # "ReceiveTimeout" => msg.job \in Jobs
<1>1. CASE IsStart(msg)
  <2>1. msg.start \in Starts /\ jobOf[msg.start] \in Jobs BY <1>1 DEF TypeOK, IsStart
  <2>2. msg = [type |-> "StartJob", job |-> jobOf[msg.start], start |-> msg.start, ref |-> NoRef]
    BY <1>1 DEF IsStart, StartJob, Msg
  <2>3. msg \in Message BY <2>1, <2>2 DEF Message
  <2>4. msg.type = "StartJob" /\ msg.job = jobOf[msg.start] BY <2>2
  <2>. QED BY <1>1, <2>1, <2>3, <2>4
<1>2. CASE msg.job \in Jobs /\ msg = FindRunningJob(msg.job)
  BY <1>2 DEF FindRunningJob, Sent, Msg, Message
<1>3. CASE msg.job \in Jobs /\ msg = JobNotFound(msg.job)
  BY <1>3 DEF JobNotFound, Sent, Msg, Message
<1>4. CASE msg.job \in Jobs /\ msg.ref \in Ref /\ msg = JobFound(msg.job, msg.ref)
  BY <1>4 DEF JobFound, Sent, Msg, Message
<1>5. CASE msg = TimerMsg
  BY <1>5 DEF TimerMsg, Msg, Message
<1>. QED BY <1>1, <1>2, <1>3, <1>4, <1>5 DEF WellFormed, Sent

-----------------------------------------------------------------------------
\* What the handlers do to the mailboxes and the channels.

\* The handler that took the first message of n sent out to every ApiMaster that
\* is up, and put kept in front of its mailbox.
Goes(n, m, p) == m = n /\ p # n /\ up[p]
Moves(n, kept, out) ==
  /\ mailbox' \in [Nodes -> Seq(Message)]
  /\ net' \in [Links -> Seq(Message)]
  /\ \A p \in Nodes \ {n} : mailbox'[p] = mailbox[p]
  /\ \A p \in Nodes : net'[<<p, p>>] = net[<<p, p>>]
  /\ ToSet(mailbox'[n]) = kept \cup ToSet(Tail(mailbox[n])) \cup out
  /\ \A m, p \in Nodes :
       ToSet(net'[<<m, p>>]) = ToSet(net[<<m, p>>]) \cup IF Goes(n, m, p) THEN out ELSE {}
  /\ \A x : x \notin kept =>
       Count(mailbox'[n], x) = Count(mailbox[n], x) - (IF x = Head(mailbox[n]) THEN 1 ELSE 0)
                                                    + (IF x \in out THEN 1 ELSE 0)
  /\ \A m, p \in Nodes : \A x :
       Count(net'[<<m, p>>], x) = Count(net[<<m, p>>], x)
                                  + (IF Goes(n, m, p) /\ x \in out THEN 1 ELSE 0)

\* The first message of a node is well formed, and so are the others.
LEMMA HeadFacts ==
  ASSUME TypeOK, ShapeOK, NEW n \in Nodes, mailbox[n] # <<>>
  PROVE  /\ mailbox[n] \in Seq(Message) /\ Tail(mailbox[n]) \in Seq(Message)
         /\ Head(mailbox[n]) \in ToSet(mailbox[n])
         /\ WellFormed(Head(mailbox[n])) /\ Head(mailbox[n]) \in Message
         /\ ToSet(mailbox[n]) = {Head(mailbox[n])} \cup ToSet(Tail(mailbox[n]))
         /\ \A x : /\ Count(mailbox[n], x) \in Nat /\ Count(Tail(mailbox[n]), x) \in Nat
                   /\ Count(mailbox[n], x) = Count(Tail(mailbox[n]), x)
                                             + (IF x = Head(mailbox[n]) THEN 1 ELSE 0)
<1>1. mailbox[n] \in Seq(Message) BY DEF TypeOK
<1>2. Tail(mailbox[n]) \in Seq(Message) BY <1>1
<1>3. ToSet(mailbox[n]) = {Head(mailbox[n])} \cup ToSet(Tail(mailbox[n]))
  BY <1>1, ToSetFacts
<1>4. WellFormed(Head(mailbox[n])) BY <1>3 DEF ShapeOK
<1>5. Head(mailbox[n]) \in Message BY <1>4, KindFacts
<1>6. \A x : Count(mailbox[n], x) \in Nat /\ Count(Tail(mailbox[n]), x) \in Nat
  BY <1>1, <1>2, CountType
<1>7. \A x : Count(mailbox[n], x) = Count(Tail(mailbox[n]), x)
                                    + (IF x = Head(mailbox[n]) THEN 1 ELSE 0)
  BY <1>1, CountTail
<1>. QED BY <1>1, <1>2, <1>3, <1>4, <1>5, <1>6, <1>7

LEMMA CountNat ==
  ASSUME TypeOK
  PROVE  /\ \A n \in Nodes : \A x : Count(mailbox[n], x) \in Nat
         /\ \A m, n \in Nodes : \A x : Count(net[<<m, n>>], x) \in Nat
<1>1. \A n \in Nodes : mailbox[n] \in Seq(Message) BY DEF TypeOK
<1>2. \A m, n \in Nodes : net[<<m, n>>] \in Seq(Message) BY DEF TypeOK, Links
<1>. QED BY <1>1, <1>2, CountType

LEMMA MovesNothing ==
  ASSUME TypeOK, ShapeOK, NEW n \in Nodes, mailbox[n] # <<>>,
         SendsNothing(n, Tail(mailbox[n]))
  PROVE  Moves(n, {}, {})
<1>1. /\ mailbox' = [mailbox EXCEPT ![n] = Tail(mailbox[n])]
      /\ net' = net
  BY DEF SendsNothing
<1>2. mailbox'[n] = Tail(mailbox[n]) /\ \A p \in Nodes \ {n} : mailbox'[p] = mailbox[p]
  BY <1>1 DEF TypeOK
<1>3. mailbox' \in [Nodes -> Seq(Message)] /\ net' \in [Links -> Seq(Message)]
  BY <1>1, HeadFacts DEF TypeOK
<1>4. ToSet(mailbox'[n]) = {} \cup ToSet(Tail(mailbox[n])) \cup {} BY <1>2
<1>5. \A m, p \in Nodes :
        ToSet(net'[<<m, p>>]) = ToSet(net[<<m, p>>]) \cup IF Goes(n, m, p) THEN {} ELSE {}
  BY <1>1
<1>6. ASSUME NEW x
      PROVE  Count(mailbox'[n], x) = Count(mailbox[n], x) - (IF x = Head(mailbox[n]) THEN 1 ELSE 0)
                                                    + (IF x \in {} THEN 1 ELSE 0)
  <2>1. Count(mailbox'[n], x) = Count(Tail(mailbox[n]), x) BY <1>2
  <2>. QED BY <2>1, HeadFacts
<1>7. ASSUME NEW m \in Nodes, NEW p \in Nodes, NEW x
      PROVE  Count(net'[<<m, p>>], x) = Count(net[<<m, p>>], x)
                                  + (IF Goes(n, m, p) /\ x \in {} THEN 1 ELSE 0)
  <2>1. Count(net'[<<m, p>>], x) = Count(net[<<m, p>>], x) BY <1>1
  <2>2. Count(net[<<m, p>>], x) \in Nat BY CountNat
  <2>. QED BY <2>1, <2>2
<1>8. \A p \in Nodes : net'[<<p, p>>] = net[<<p, p>>] BY <1>1
<1>. QED BY <1>2, <1>3, <1>4, <1>5, <1>6, <1>7, <1>8 DEF Moves

LEMMA MovesBroadcast ==
  ASSUME TypeOK, ShapeOK, LocalOK, NEW n \in Nodes, up[n], mailbox[n] # <<>>,
         NEW msg, Sent(msg), Broadcast(n, Tail(mailbox[n]), msg)
  PROVE  Moves(n, {}, {msg})
<1>1. n \in routees[n] /\ \A p \in Nodes : up[p] => p \in routees[n] BY DEF LocalOK
<1>2. mailbox' = [mailbox EXCEPT ![n] = Append(Tail(mailbox[n]), msg)]
  BY <1>1 DEF Broadcast
<1>3. net' = [e \in Links |-> IF e[1] = n /\ e[2] # n /\ e[2] \in routees[n] /\ up[e[2]]
                             THEN Append(net[e], msg) ELSE net[e]]
  BY DEF Broadcast
<1>4. msg \in Message BY KindFacts DEF WellFormed
<1>5. \A m, p \in Nodes : net[<<m, p>>] \in Seq(Message) BY DEF TypeOK, Links
<1>6. \A m, p \in Nodes : net'[<<m, p>>] = IF Goes(n, m, p) THEN Append(net[<<m, p>>], msg)
                                                          ELSE net[<<m, p>>]
  BY <1>1, <1>3 DEF Goes, Links
<1>7. mailbox'[n] = Append(Tail(mailbox[n]), msg) /\ \A p \in Nodes \ {n} : mailbox'[p] = mailbox[p]
  BY <1>2 DEF TypeOK
<1>8. mailbox' \in [Nodes -> Seq(Message)]
  BY <1>2, <1>4, HeadFacts, AppendProperties DEF TypeOK
<1>9. net' \in [Links -> Seq(Message)]
  BY <1>3, <1>4, AppendProperties DEF TypeOK
<1>10. ToSet(mailbox'[n]) = {} \cup ToSet(Tail(mailbox[n])) \cup {msg}
  <2>. DEFINE rest == Tail(mailbox[n])
  <2>1. rest \in Seq(Message) BY HeadFacts
  <2>2. mailbox'[n] = Append(rest, msg) BY <1>7
  <2>. HIDE DEF rest
  <2>3. ToSet(Append(rest, msg)) = ToSet(rest) \cup {msg} BY <1>4, <2>1, ToSetFacts
  <2>4. ToSet(mailbox'[n]) = {} \cup ToSet(rest) \cup {msg} BY <2>2, <2>3
  <2>. QED BY <2>4 DEF rest
<1>11. \A m, p \in Nodes :
         ToSet(net'[<<m, p>>]) = ToSet(net[<<m, p>>]) \cup IF Goes(n, m, p) THEN {msg} ELSE {}
  <2>. TAKE m, p \in Nodes
  <2>1. ToSet(Append(net[<<m, p>>], msg)) = ToSet(net[<<m, p>>]) \cup {msg}
    BY <1>4, <1>5, ToSetFacts
  <2>. QED BY <1>6, <2>1
<1>12. ASSUME NEW x
       PROVE  Count(mailbox'[n], x) = Count(mailbox[n], x) - (IF x = Head(mailbox[n]) THEN 1 ELSE 0)
                                                    + (IF x \in {msg} THEN 1 ELSE 0)
  <2>. DEFINE rest == Tail(mailbox[n])
  <2>1. /\ rest \in Seq(Message) /\ mailbox'[n] = Append(rest, msg)
        /\ Count(mailbox[n], x) \in Nat /\ Count(rest, x) \in Nat
        /\ Count(mailbox[n], x) = Count(rest, x) + (IF x = Head(mailbox[n]) THEN 1 ELSE 0)
    BY <1>7, HeadFacts
  <2>. HIDE DEF rest
  <2>2. Count(Append(rest, msg), x) = Count(rest, x) + (IF msg = x THEN 1 ELSE 0)
    BY <1>4, <2>1, CountAppend
  <2>. QED BY <2>1, <2>2
<1>13. ASSUME NEW m \in Nodes, NEW p \in Nodes, NEW x
       PROVE  Count(net'[<<m, p>>], x) = Count(net[<<m, p>>], x)
                                  + (IF Goes(n, m, p) /\ x \in {msg} THEN 1 ELSE 0)
  <2>1. Count(Append(net[<<m, p>>], msg), x) = Count(net[<<m, p>>], x) + (IF msg = x THEN 1 ELSE 0)
    BY <1>4, <1>5, CountAppend
  <2>. QED BY <1>6, <2>1, CountNat
<1>14. \A p \in Nodes : net'[<<p, p>>] = net[<<p, p>>] BY <1>6 DEF Goes
<1>. QED BY <1>7, <1>8, <1>9, <1>10, <1>11, <1>12, <1>13, <1>14 DEF Moves

LEMMA MovesBack ==
  ASSUME TypeOK, ShapeOK, NEW n \in Nodes, mailbox[n] # <<>>,
         BackToReady(n, Tail(mailbox[n]))
  PROVE  Moves(n, ToSet(stash[n]), {})
<1>1. /\ mailbox' = [mailbox EXCEPT ![n] = stash[n] \o Tail(mailbox[n])]
      /\ net' = net
  BY DEF BackToReady, SendsNothing, UnstashAll
<1>2. stash[n] \in Seq(Message) BY DEF TypeOK
<1>3. /\ mailbox'[n] = stash[n] \o Tail(mailbox[n])
      /\ \A p \in Nodes \ {n} : mailbox'[p] = mailbox[p]
  BY <1>1 DEF TypeOK
<1>4. stash[n] \o Tail(mailbox[n]) \in Seq(Message) BY <1>2, HeadFacts, ConcatProperties
<1>5. mailbox' \in [Nodes -> Seq(Message)] /\ net' \in [Links -> Seq(Message)]
  BY <1>1, <1>4 DEF TypeOK
<1>6. ToSet(mailbox'[n]) = ToSet(stash[n]) \cup ToSet(Tail(mailbox[n])) \cup {}
  <2>. DEFINE rest == Tail(mailbox[n])
  <2>1. rest \in Seq(Message) /\ mailbox'[n] = stash[n] \o rest BY <1>3, HeadFacts
  <2>. HIDE DEF rest
  <2>2. ToSet(stash[n] \o rest) = ToSet(stash[n]) \cup ToSet(rest) BY <1>2, <2>1, ToSetFacts
  <2>3. ToSet(mailbox'[n]) = ToSet(stash[n]) \cup ToSet(rest) \cup {} BY <2>1, <2>2
  <2>. QED BY <2>3 DEF rest
<1>7. ASSUME NEW x, x \notin ToSet(stash[n])
      PROVE  Count(mailbox'[n], x) = Count(mailbox[n], x) - (IF x = Head(mailbox[n]) THEN 1 ELSE 0)
                                                    + (IF x \in {} THEN 1 ELSE 0)
  <2>. DEFINE rest == Tail(mailbox[n])
            held == stash[n]
  <2>1. /\ rest \in Seq(Message) /\ mailbox'[n] = held \o rest
        /\ Count(mailbox[n], x) \in Nat /\ Count(rest, x) \in Nat
        /\ Count(mailbox[n], x) = Count(rest, x) + (IF x = Head(mailbox[n]) THEN 1 ELSE 0)
    BY <1>3, HeadFacts
  <2>2. held \in Seq(Message) /\ \A i \in 1..Len(held) : held[i] # x BY <1>2, <1>7 DEF ToSet
  <2>. HIDE DEF rest, held
  <2>3. Count(held \o rest, x) = Count(rest, x) BY <2>1, <2>2, CountConcat
  <2>. QED BY <2>1, <2>3
<1>8. ASSUME NEW m \in Nodes, NEW p \in Nodes, NEW x
      PROVE  Count(net'[<<m, p>>], x) = Count(net[<<m, p>>], x)
                                  + (IF Goes(n, m, p) /\ x \in {} THEN 1 ELSE 0)
  <2>1. Count(net'[<<m, p>>], x) = Count(net[<<m, p>>], x) BY <1>1
  <2>2. Count(net[<<m, p>>], x) \in Nat BY CountNat
  <2>. QED BY <2>1, <2>2
<1>9. \A m, p \in Nodes :
        ToSet(net'[<<m, p>>]) = ToSet(net[<<m, p>>]) \cup IF Goes(n, m, p) THEN {} ELSE {}
  BY <1>1
<1>10. \A p \in Nodes : net'[<<p, p>>] = net[<<p, p>>] BY <1>1
<1>. QED BY <1>3, <1>5, <1>6, <1>7, <1>8, <1>9, <1>10 DEF Moves

\* What a handler leaves is well formed, and has no timeout.
LEMMA MovesKeepShape ==
  ASSUME TInv, NEW n \in Nodes, mailbox[n] # <<>>,
         NEW kept, kept \subseteq ToSet(stash[n]),
         NEW out, \A msg \in out : Sent(msg), Moves(n, kept, out),
         UNCHANGED clusterVars,
         \A p \in Nodes \ {n} : behavior'[p] = behavior[p] /\ stash'[p] = stash[p],
         behavior'[n] = "SearchingForJob" => up[n],
         \A msg \in ToSet(stash'[n]) : IsStart(msg)
  PROVE  ShapeOK' /\ LocalOK'
<1>. USE DEF TInv
<1>1. jobOf' = jobOf /\ up' = up /\ routees' = routees BY DEF clusterVars
<1>2. \A msg : (IsStart(msg)' <=> IsStart(msg)) /\ (WellFormed(msg)' <=> WellFormed(msg))
  BY <1>1 DEF IsStart, WellFormed, StartJob
<1>3. TimerMsg \notin ToSet(Tail(mailbox[n]))
  BY HeadFacts DEF LocalOK
<1>4. \A msg : Sent(msg) \/ IsStart(msg) => msg # TimerMsg
  <2>. SUFFICES ASSUME NEW msg, Sent(msg) \/ IsStart(msg) PROVE msg.type # "ReceiveTimeout"
    BY DEF TimerMsg, Msg
  <2>1. CASE Sent(msg) BY <2>1 DEF Sent, FindRunningJob, JobNotFound, JobFound, Msg
  <2>2. CASE IsStart(msg)
    <3>1. msg.type = "StartJob" BY <2>2 DEF IsStart, StartJob, Msg
    <3>. QED BY <3>1
  <2>. QED BY <2>1, <2>2
<1>5. ToSet(mailbox'[n]) = kept \cup ToSet(Tail(mailbox[n])) \cup out BY DEF Moves
<1>6. \A msg \in ToSet(mailbox'[n]) : WellFormed(msg) /\ msg # TimerMsg
  <2>. TAKE msg \in ToSet(mailbox'[n])
  <2>1. CASE msg \in kept BY <2>1, <1>4 DEF ShapeOK, WellFormed
  <2>2. CASE msg \in ToSet(Tail(mailbox[n]))
    <3>1. msg \in ToSet(mailbox[n]) BY <2>2, HeadFacts
    <3>. QED BY <1>3, <2>2, <3>1 DEF ShapeOK
  <2>3. CASE msg \in out BY <2>3, <1>4 DEF WellFormed
  <2>. QED BY <1>5, <2>1, <2>2, <2>3
<1>7. \A p \in Nodes \ {n} : mailbox'[p] = mailbox[p] BY DEF Moves
<1>8. \A p \in Nodes : \A msg \in ToSet(mailbox'[p]) : WellFormed(msg)
  BY <1>6, <1>7 DEF ShapeOK
<1>9. \A p \in Nodes : \A msg \in ToSet(stash'[p]) : IsStart(msg) BY DEF ShapeOK
<1>10. \A e \in Links : \A msg \in ToSet(net'[e]) : Sent(msg)
  <2>1. ASSUME NEW m \in Nodes, NEW p \in Nodes, NEW msg \in ToSet(net'[<<m, p>>])
        PROVE  Sent(msg)
    <3>1. msg \in ToSet(net[<<m, p>>]) \/ msg \in out BY <2>1 DEF Moves
    <3>2. <<m, p>> \in Links BY DEF Links
    <3>. QED BY <3>1, <3>2 DEF ShapeOK
  <2>. QED BY <2>1 DEF Links
<1>11. ShapeOK' BY <1>2, <1>8, <1>9, <1>10 DEF ShapeOK
<1>12. \A p \in Nodes : behavior'[p] = "SearchingForJob" => up[p] BY DEF LocalOK
<1>13. \A p \in Nodes : net'[<<p, p>>] = <<>> BY DEF Moves, LocalOK
<1>14. ASSUME NEW p \in Nodes, TimerMsg \in ToSet(mailbox'[p])
       PROVE  behavior'[p] = "SearchingForJob" /\ TimerMsg \notin ToSet(Tail(mailbox'[p]))
  <2>1. p # n BY <1>6, <1>14
  <2>. QED BY <1>7, <1>14, <2>1 DEF LocalOK
<1>15. LocalOK' BY <1>1, <1>12, <1>13, <1>14 DEF LocalOK
<1>. QED BY <1>11, <1>15

LEMMA MovesTyped ==
  ASSUME NEW n, NEW kept, NEW out, Moves(n, kept, out)
  PROVE  mailbox' \in [Nodes -> Seq(Message)] /\ net' \in [Links -> Seq(Message)]
BY DEF Moves

-----------------------------------------------------------------------------
\* The types.

LEMMA HandleKeepsTypes ==
  ASSUME TInv, NEW n \in Nodes, Handle(n)
  PROVE  TInv'
<1>. USE DEF TInv
<1>. DEFINE msg  == Head(mailbox[n])
            rest == Tail(mailbox[n])
<1>1. /\ up[n] /\ mailbox[n] # <<>> /\ UNCHANGED clusterVars /\ trouble' = trouble
      /\ jobOf' = jobOf /\ up' = up /\ routees' = routees
  BY DEF Handle, clusterVars
<1>2. /\ msg \in Message /\ WellFormed(msg)
      /\ msg.type = "StartJob" => IsStart(msg) /\ msg.start \in Starts /\ msg.job \in Jobs
      /\ msg.type = "FindRunningJob" => msg.job \in Jobs
      /\ msg.type = "JobNotFound" => msg.job \in Jobs
      /\ behavior[n] = "SearchingForJob" => jobToStart[n] \in Starts /\ jobOf[jobToStart[n]] \in Jobs
  <2>1. msg \in Message /\ WellFormed(msg) BY <1>1, HeadFacts
  <2>2. msg.type = "StartJob" => IsStart(msg) /\ msg.start \in Starts /\ msg.job \in Jobs
    BY <2>1, KindFacts DEF IsStart
  <2>3. msg.type \in {"FindRunningJob", "JobNotFound"} => msg.job \in Jobs
    BY <2>1, KindFacts
  <2>. QED BY <2>1, <2>2, <2>3 DEF TypeOK
<1>3. \A m \in ToSet(stash[n]) : IsStart(m) BY DEF ShapeOK
<1>. HIDE DEF msg, rest
<1>4. CASE behavior[n] = "Ready" /\ msg.type = "StartJob" /\ BeginSearch(n, msg, rest)
  <2>1. Sent(FindRunningJob(msg.job)) BY <1>2, <1>4, MessageFacts
  <2>2. Moves(n, {}, {FindRunningJob(msg.job)})
    BY <1>1, <1>4, <2>1, MovesBroadcast DEF BeginSearch, rest
  <2>3. ExpectedAcks(n) \in Int
    <3>1. routees[n] \in SUBSET Nodes BY DEF TypeOK
    <3>2. IsFiniteSet(routees[n]) BY <3>1, FS_Subset
    <3>. QED BY <3>2, FS_CardinalityType DEF ExpectedAcks
  <2>4. TypeOK'
    BY <1>1, <1>2, <1>4, <2>2, <2>3, MovesTyped DEF BeginSearch, Remember, TypeOK, jobVars
  <2>5. /\ \A p \in Nodes \ {n} : behavior'[p] = behavior[p] /\ stash'[p] = stash[p]
        /\ stash'[n] = stash[n]
    BY <1>4 DEF BeginSearch, TypeOK
  <2>. QED BY <1>1, <1>3, <2>1, <2>2, <2>4, <2>5, MovesKeepShape
<1>5. CASE HandleFindRunningJob(n, msg, rest) /\ msg.type = "FindRunningJob"
  <2>. DEFINE out == IF HaveChild(n, msg.job)
                     THEN JobFound(msg.job, [node |-> n, nr |-> masters[<<n, msg.job>>]])
                     ELSE JobNotFound(msg.job)
  <2>1. Sent(out)
    <3>1. HaveChild(n, msg.job) => [node |-> n, nr |-> masters[<<n, msg.job>>]] \in Ref
      BY <1>2, <1>5 DEF HaveChild, Ref, TypeOK
    <3>. QED BY <1>2, <1>5, <3>1, MessageFacts
  <2>2. Broadcast(n, rest, out) BY <1>5 DEF HandleFindRunningJob
  <2>3. UNCHANGED <<actorVars, jobVars, outcome, muddled>> BY <1>5 DEF HandleFindRunningJob
  <2>. HIDE DEF out
  <2>4. Moves(n, {}, {out}) BY <1>1, <2>1, <2>2, MovesBroadcast DEF rest
  <2>5. TypeOK' BY <1>1, <2>3, <2>4, MovesTyped DEF TypeOK, actorVars, jobVars
  <2>6. behavior' = behavior /\ stash' = stash BY <2>3 DEF actorVars
  <2>7. \A m \in {out} : Sent(m) BY <2>1
  <2>. QED BY <1>1, <1>3, <2>4, <2>5, <2>6, <2>7, MovesKeepShape
<1>6. CASE Ignore(n, rest)
  <2>1. UNCHANGED <<actorVars, jobVars, outcome, muddled>> BY <1>6 DEF Ignore
  <2>2. Moves(n, {}, {}) BY <1>1, <1>6, MovesNothing DEF Ignore, rest
  <2>3. TypeOK' BY <1>1, <2>1, <2>2, MovesTyped DEF TypeOK, actorVars, jobVars
  <2>. QED BY <1>1, <1>3, <2>1, <2>2, <2>3, MovesKeepShape DEF actorVars
<1>7. CASE PutAside(n, msg, rest) /\ msg.type = "StartJob"
  <2>1. Moves(n, {}, {}) BY <1>1, <1>7, MovesNothing DEF PutAside, rest
  <2>2. stash' = [stash EXCEPT ![n] = Append(stash[n], msg)] BY <1>7 DEF PutAside
  <2>3. stash[n] \in Seq(Message) BY DEF TypeOK
  <2>4. Append(stash[n], msg) \in Seq(Message) BY <1>2, <2>3, AppendProperties
  <2>5. ToSet(Append(stash[n], msg)) = ToSet(stash[n]) \cup {msg} BY <1>2, <2>3, ToSetFacts
  <2>6. TypeOK'
    <3>1. stash' \in [Nodes -> Seq(Message)] BY <2>2, <2>4 DEF TypeOK
    <3>2. UNCHANGED <<behavior, acks, jobToStart, masters, created, outcome, muddled>>
      BY <1>7 DEF PutAside, jobVars
    <3>. QED BY <1>1, <2>1, <3>1, <3>2, MovesTyped DEF TypeOK
  <2>7. /\ \A p \in Nodes \ {n} : behavior'[p] = behavior[p] /\ stash'[p] = stash[p]
        /\ \A m \in ToSet(stash'[n]) : IsStart(m)
    BY <1>2, <1>3, <1>7, <2>2, <2>5 DEF PutAside, TypeOK
  <2>. QED BY <1>1, <2>1, <2>6, <2>7, MovesKeepShape
<1>8. CASE BackToReady(n, rest) /\ UNCHANGED <<jobVars, muddled>>
           /\ acks' \in [Nodes -> Int] /\ jobToStart' \in [Nodes -> Starts \cup {NoStart}]
           /\ (\A p \in Nodes \ {n} : jobToStart'[p] = jobToStart[p])
           /\ outcome' \in [Starts -> {"unsent", "open", "served", "undelivered"}]
  <2>1. Moves(n, ToSet(stash[n]), {}) BY <1>1, <1>8, MovesBack DEF rest
  <2>2. /\ behavior' = [behavior EXCEPT ![n] = "Ready"]
        /\ stash' = [stash EXCEPT ![n] = <<>>]
    BY <1>8 DEF BackToReady
  <2>3. TypeOK'
    <3>1. behavior' \in [Nodes -> {"Ready", "SearchingForJob"}] /\ behavior'[n] = "Ready"
      BY <2>2 DEF TypeOK
    <3>2. stash' \in [Nodes -> Seq(Message)]
      <4>1. <<>> \in Seq(Message) OBVIOUS
      <4>. QED BY <2>2, <4>1 DEF TypeOK
    <3>3. \A p \in Nodes : behavior'[p] = "SearchingForJob" => jobToStart'[p] \in Starts
      BY <1>8, <2>2, <3>1 DEF TypeOK
    <3>4. UNCHANGED <<masters, created, muddled>> BY <1>8 DEF jobVars
    <3>. QED BY <1>1, <1>8, <2>1, <3>1, <3>2, <3>3, <3>4, MovesTyped DEF TypeOK
  <2>4. ToSet(<<>>) = {} BY DEF ToSet
  <2>5. /\ \A p \in Nodes \ {n} : behavior'[p] = behavior[p] /\ stash'[p] = stash[p]
        /\ \A m \in ToSet(stash'[n]) : IsStart(m)
    BY <2>2, <2>4 DEF TypeOK
  <2>. QED BY <1>1, <2>1, <2>3, <2>5, MovesKeepShape
<1>9. CASE SubscribeToFound(n, msg, rest) /\ behavior[n] = "SearchingForJob"
  <2>1. outcome' \in [Starts -> {"unsent", "open", "served", "undelivered"}]
    BY <1>9 DEF SubscribeToFound, TypeOK
  <2>. QED BY <1>8, <1>9, <2>1 DEF SubscribeToFound, TypeOK
<1>10. CASE RestartOnDuplicateName(n, msg, rest)
  <2>1. acks' \in [Nodes -> Int] /\ jobToStart' \in [Nodes -> Starts \cup {NoStart}]
        /\ \A p \in Nodes \ {n} : jobToStart'[p] = jobToStart[p]
    <3>1. acks' = [acks EXCEPT ![n] = 0] /\ jobToStart' = [jobToStart EXCEPT ![n] = NoStart]
      BY <1>10 DEF RestartOnDuplicateName
    <3>2. acks \in [Nodes -> Int] /\ jobToStart \in [Nodes -> Starts \cup {NoStart}]
      BY DEF TypeOK
    <3>. QED BY <3>1, <3>2
  <2>2. BackToReady(n, rest) /\ UNCHANGED <<jobVars, muddled>> /\ outcome' = outcome
    BY <1>10 DEF RestartOnDuplicateName
  <2>. QED BY <1>8, <2>1, <2>2 DEF TypeOK
<1>11. CASE CountDown(n, msg, rest)
  <2>1. Moves(n, {}, {}) BY <1>1, <1>11, MovesNothing DEF CountDown, rest
  <2>2. TypeOK'
    <3>1. acks' = [acks EXCEPT ![n] = acks[n] - 1]
          /\ UNCHANGED <<behavior, jobToStart, stash, masters, created, outcome, muddled>>
      BY <1>11 DEF CountDown, jobVars
    <3>2. acks' \in [Nodes -> Int]
      <4>1. acks \in [Nodes -> Int] BY DEF TypeOK
      <4>2. acks[n] - 1 \in Int BY <4>1
      <4>. QED BY <3>1, <4>1, <4>2
    <3>. QED BY <1>1, <2>1, <3>1, <3>2, MovesTyped DEF TypeOK
  <2>. QED BY <1>1, <1>3, <1>11, <2>1, <2>2, MovesKeepShape DEF CountDown
<1>12. CASE CreateCrawlMaster(n, msg, rest) /\ msg.type = "JobNotFound" /\ behavior[n] = "SearchingForJob"
  <2>. DEFINE nr  == created[msg.job] + 1
              out == JobFound(msg.job, [node |-> n, nr |-> nr])
  <2>1. /\ created' = [created EXCEPT ![msg.job] = nr] /\ nr \in Nat \ {0}
        /\ created'[msg.job] = nr
    <3>1. created \in [Jobs -> Nat] /\ msg.job \in Jobs BY <1>2, <1>12 DEF TypeOK
    <3>2. created' = [created EXCEPT ![msg.job] = nr] BY <1>12 DEF CreateCrawlMaster
    <3>. QED BY <3>1, <3>2
  <2>2. /\ masters' = [masters EXCEPT ![<<n, msg.job>>] = nr]
        /\ Broadcast(n, rest, out)
        /\ acks' = [acks EXCEPT ![n] = acks[n] - 1]
        /\ outcome' = [outcome EXCEPT ![jobToStart[n]] = "served"]
        /\ UNCHANGED <<behavior, jobToStart, stash, muddled>>
    BY <1>12, <2>1 DEF CreateCrawlMaster
  <2>3. Sent(out)
    <3>1. [node |-> n, nr |-> nr] \in Ref BY <2>1 DEF Ref
    <3>. QED BY <1>2, <1>12, <3>1, MessageFacts
  <2>. HIDE DEF out, nr
  <2>4. Moves(n, {}, {out}) BY <1>1, <2>2, <2>3, MovesBroadcast DEF rest
  <2>5. TypeOK'
    <3>1. masters' \in [Nodes \X Jobs -> Nat] BY <1>2, <1>12, <2>1, <2>2 DEF TypeOK
    <3>2. created' \in [Jobs -> Nat] BY <2>1 DEF TypeOK
    <3>3. acks' \in [Nodes -> Int]
      <4>1. acks \in [Nodes -> Int] BY DEF TypeOK
      <4>2. acks[n] - 1 \in Int BY <4>1
      <4>. QED BY <2>2, <4>1, <4>2
    <3>4. outcome' \in [Starts -> {"unsent", "open", "served", "undelivered"}]
      BY <2>2 DEF TypeOK
    <3>. QED BY <1>1, <2>2, <2>4, <3>1, <3>2, <3>3, <3>4, MovesTyped DEF TypeOK
  <2>. QED BY <1>1, <1>3, <2>2, <2>3, <2>4, <2>5, MovesKeepShape
<1>13. CASE TreatAsNotFound(n, rest) /\ behavior[n] = "SearchingForJob"
  <2>. DEFINE out == JobNotFound(jobOf[jobToStart[n]])
  <2>1. Sent(out) BY <1>2, <1>13, MessageFacts
  <2>2. Broadcast(n, rest, out) /\ UNCHANGED <<actorVars, jobVars, outcome, muddled>>
    BY <1>13 DEF TreatAsNotFound
  <2>. HIDE DEF out
  <2>3. Moves(n, {}, {out}) BY <1>1, <2>1, <2>2, MovesBroadcast DEF rest
  <2>4. TypeOK' BY <1>1, <2>2, <2>3, MovesTyped DEF TypeOK, actorVars, jobVars
  <2>. QED BY <1>1, <1>3, <2>1, <2>2, <2>3, <2>4, MovesKeepShape DEF actorVars
<1>14. \/ behavior[n] = "Ready" /\ Ready(n, msg, rest)
       \/ behavior[n] = "SearchingForJob" /\ SearchingForJob(n, msg, rest)
  BY DEF Handle, msg, rest
<1>15. CASE behavior[n] = "Ready" /\ Ready(n, msg, rest)
  BY <1>4, <1>5, <1>6, <1>15 DEF Ready
<1>16. CASE behavior[n] = "SearchingForJob" /\ SearchingForJob(n, msg, rest)
  BY <1>5, <1>6, <1>7, <1>9, <1>10, <1>11, <1>12, <1>13, <1>16 DEF SearchingForJob
<1>. QED BY <1>14, <1>15, <1>16

\* What arrives at a node, other than a timeout, goes to the end of its mailbox.
LEMMA ArrivalFacts ==
  ASSUME TypeOK, NEW n \in Nodes, NEW msg \in Message,
         mailbox' = [mailbox EXCEPT ![n] = Append(@, msg)]
  PROVE  /\ mailbox' \in [Nodes -> Seq(Message)]
         /\ \A p \in Nodes \ {n} : mailbox'[p] = mailbox[p]
         /\ ToSet(mailbox'[n]) = ToSet(mailbox[n]) \cup {msg}
         /\ ToSet(Tail(mailbox'[n])) \subseteq ToSet(Tail(mailbox[n])) \cup {msg}
         /\ \A x : Count(mailbox'[n], x) = Count(mailbox[n], x) + (IF x = msg THEN 1 ELSE 0)
<1>. DEFINE s == mailbox[n]
            t == Append(s, msg)
<1>1. s \in Seq(Message) /\ mailbox \in [Nodes -> Seq(Message)] BY DEF TypeOK
<1>2. t \in Seq(Message) /\ t # <<>> BY <1>1, AppendProperties
<1>3. mailbox'[n] = t /\ (\A p \in Nodes \ {n} : mailbox'[p] = mailbox[p])
      /\ mailbox' \in [Nodes -> Seq(Message)]
  BY <1>1, <1>2
<1>4. ToSet(Tail(t)) \subseteq ToSet(Tail(s)) \cup {msg}
  <2>1. Len(s) \in Nat BY <1>1
  <2>2. CASE s = <<>>
    <3>1. Tail(t) = <<>> BY <2>2
    <3>. QED BY <3>1 DEF ToSet
  <2>3. CASE s # <<>>
    <3>1. Tail(s) \in Seq(Message) /\ Tail(t) = Append(Tail(s), msg) BY <1>1, <2>3
    <3>. DEFINE u == Tail(s)
    <3>2. u \in Seq(Message) BY <3>1
    <3>. HIDE DEF u, s
    <3>3. ToSet(Append(u, msg)) = ToSet(u) \cup {msg} BY <3>2, ToSetFacts
    <3>. QED BY <3>1, <3>3 DEF u
  <2>. QED BY <2>2, <2>3
<1>5. ToSet(t) = ToSet(s) \cup {msg} BY <1>1, ToSetFacts
<1>6. ASSUME NEW x PROVE Count(t, x) = Count(s, x) + (IF x = msg THEN 1 ELSE 0)
  BY <1>1, CountAppend
<1>. HIDE DEF t, s
<1>7. \A x : Count(mailbox'[n], x) = Count(s, x) + (IF x = msg THEN 1 ELSE 0)
  BY <1>3, <1>6
<1>. QED BY <1>3, <1>4, <1>5, <1>7 DEF s

\* The first message of a channel leaves it.
LEMMA DepartureFacts ==
  ASSUME TInv, NEW m \in Nodes, NEW n \in Nodes, net[<<m, n>>] # <<>>,
         net' = [net EXCEPT ![<<m, n>>] = Tail(@)]
  PROVE  /\ m # n /\ Sent(Head(net[<<m, n>>])) /\ Head(net[<<m, n>>]) \in Message
         /\ net' \in [Links -> Seq(Message)]
         /\ \A p, q \in Nodes : <<p, q>> # <<m, n>> => net'[<<p, q>>] = net[<<p, q>>]
         /\ ToSet(net[<<m, n>>]) = {Head(net[<<m, n>>])} \cup ToSet(net'[<<m, n>>])
         /\ \A x : Count(net[<<m, n>>], x) = Count(net'[<<m, n>>], x)
                                          + (IF x = Head(net[<<m, n>>]) THEN 1 ELSE 0)
<1>. USE DEF TInv
<1>. DEFINE s == net[<<m, n>>]
            t == Tail(s)
<1>1. s \in Seq(Message) /\ s # <<>> /\ net \in [Links -> Seq(Message)] /\ <<m, n>> \in Links
  BY DEF TypeOK, Links
<1>2. t \in Seq(Message)
  <2>. HIDE DEF s
  <2>. QED BY <1>1
<1>3. net'[<<m, n>>] = t /\ net' \in [Links -> Seq(Message)]
      /\ \A p, q \in Nodes : <<p, q>> # <<m, n>> => net'[<<p, q>>] = net[<<p, q>>]
  BY <1>1, <1>2 DEF Links
<1>4. ToSet(s) = {Head(s)} \cup ToSet(t) BY <1>1, ToSetFacts
<1>5. Sent(Head(s)) BY <1>1, <1>4 DEF ShapeOK
<1>6. Head(s) \in Message BY <1>5, KindFacts DEF WellFormed
<1>7. m # n BY DEF LocalOK
<1>8. ASSUME NEW x PROVE Count(s, x) = Count(t, x) + (IF x = Head(s) THEN 1 ELSE 0)
  BY <1>1, CountTail
<1>. HIDE DEF t, s
<1>. QED BY <1>3, <1>4, <1>5, <1>6, <1>7, <1>8 DEF s

\* The shapes of messages depend on the jobs of the commands only.
LEMMA SameShapes ==
  ASSUME jobOf' = jobOf
  PROVE  \A msg : (IsStart(msg)' <=> IsStart(msg)) /\ (WellFormed(msg)' <=> WellFormed(msg))
BY DEF IsStart, WellFormed, StartJob

LEMMA SentIsNoTimer ==
  \A msg : Sent(msg) => msg # TimerMsg /\ ~IsStart(msg)
<1>. SUFFICES ASSUME NEW msg, Sent(msg) PROVE msg # TimerMsg /\ ~IsStart(msg)
  OBVIOUS
<1>1. msg.type \in {"FindRunningJob", "JobNotFound", "JobFound"}
  BY DEF Sent, FindRunningJob, JobNotFound, JobFound, Msg
<1>2. msg # TimerMsg BY <1>1 DEF TimerMsg, Msg
<1>3. ASSUME IsStart(msg) PROVE FALSE
  <2>1. msg.type = "StartJob" BY <1>3 DEF IsStart, StartJob, Msg
  <2>. QED BY <1>1, <2>1
<1>. QED BY <1>2, <1>3

\* A message arrives in the mailbox of n.
LEMMA ArrivalKeepsShape ==
  ASSUME TInv, NEW n \in Nodes, NEW msg \in Message, Sent(msg) \/ IsStart(msg),
         mailbox' = [mailbox EXCEPT ![n] = Append(@, msg)],
         \A m, p \in Nodes : ToSet(net'[<<m, p>>]) \subseteq ToSet(net[<<m, p>>]),
         \A p \in Nodes : net'[<<p, p>>] = net[<<p, p>>],
         UNCHANGED <<clusterVars, stash, behavior>>
  PROVE  ShapeOK' /\ LocalOK'
<1>. USE DEF TInv
<1>1. jobOf' = jobOf /\ up' = up /\ routees' = routees /\ stash' = stash /\ behavior' = behavior
  BY DEF clusterVars
<1>2. msg # TimerMsg
  <2>1. ASSUME IsStart(msg) PROVE msg.type = "StartJob" BY <2>1 DEF IsStart, StartJob, Msg
  <2>. QED BY <2>1, SentIsNoTimer DEF TimerMsg, Msg
<1>3. \A p \in Nodes : \A x \in ToSet(mailbox'[p]) : WellFormed(x)
  <2>1. /\ \A p \in Nodes \ {n} : mailbox'[p] = mailbox[p]
        /\ ToSet(mailbox'[n]) = ToSet(mailbox[n]) \cup {msg}
    BY ArrivalFacts
  <2>2. WellFormed(msg) /\ \A p \in Nodes : \A x \in ToSet(mailbox[p]) : WellFormed(x)
    BY DEF ShapeOK, WellFormed
  <2>. QED BY <2>1, <2>2
<1>4. \A e \in Links : \A x \in ToSet(net'[e]) : Sent(x)
  BY DEF ShapeOK, Links
<1>5. ShapeOK' BY <1>1, <1>3, <1>4, SameShapes DEF ShapeOK
<1>6. \A p \in Nodes : TimerMsg \in ToSet(mailbox'[p]) =>
        behavior[p] = "SearchingForJob" /\ TimerMsg \notin ToSet(Tail(mailbox'[p]))
  <2>1. /\ \A p \in Nodes \ {n} : mailbox'[p] = mailbox[p]
        /\ ToSet(mailbox'[n]) = ToSet(mailbox[n]) \cup {msg}
        /\ ToSet(Tail(mailbox'[n])) \subseteq ToSet(Tail(mailbox[n])) \cup {msg}
    BY ArrivalFacts
  <2>. QED BY <1>2, <2>1 DEF LocalOK
<1>7. LocalOK' BY <1>1, <1>6 DEF LocalOK
<1>. QED BY <1>5, <1>7

LEMMA TroubleGrows ==
  ASSUME TypeOK, trouble < MaxTrouble, trouble' = trouble + 1
  PROVE  trouble' \in 0..MaxTrouble
<1>1. trouble \in 0..MaxTrouble BY DEF TypeOK
<1>. QED BY <1>1

LEMMA OthersKeepTypes ==
  ASSUME TInv, NEW m \in Nodes, NEW n \in Nodes,
         \/ FireTimeout(n) \/ Crash(n) \/ Deliver(m, n) \/ Lose(m, n) \/ MemberRemoved(m, n)
         \/ \E s \in Starts : SendStart(s, n)
         \/ \E job \in Jobs : EndJob(n, job)
  PROVE  TInv'
<1>. USE DEF TInv
<1>1. CASE FireTimeout(n)
  <2>1. /\ behavior[n] = "SearchingForJob" /\ up[n]
        /\ mailbox' = [mailbox EXCEPT ![n] = <<TimerMsg>>]
        /\ UNCHANGED <<behavior, acks, jobToStart, stash, net, masters, created, jobOf, up, routees, outcome>>
    BY <1>1 DEF FireTimeout, actorVars, jobVars, clusterVars, TimerMsg
  <2>2. <<TimerMsg>> \in Seq(Message) /\ Tail(<<TimerMsg>>) = <<>>
    BY DEF Message, TimerMsg, Msg
  <2>3. ToSet(<<TimerMsg>>) = {TimerMsg} /\ ToSet(<<>>) = {} BY DEF ToSet
  <2>4. mailbox' \in [Nodes -> Seq(Message)] BY <2>1, <2>2 DEF TypeOK
  <2>5. muddled' \subseteq Jobs /\ trouble' \in 0..MaxTrouble
    <3>1. muddled' \subseteq Jobs
      <4>1. jobToStart[n] \in Starts BY <2>1 DEF TypeOK
      <4>2. jobOf[jobToStart[n]] \in Jobs /\ muddled \subseteq Jobs BY <4>1 DEF TypeOK
      <4>3. muddled' = muddled \/ muddled' = muddled \cup {jobOf[jobToStart[n]]}
        BY <1>1 DEF FireTimeout
      <4>. QED BY <4>2, <4>3
    <3>2. trouble' = trouble \/ (trouble < MaxTrouble /\ trouble' = trouble + 1)
      BY <1>1 DEF FireTimeout
    <3>3. trouble \in 0..MaxTrouble BY DEF TypeOK
    <3>. QED BY <3>1, <3>2, <3>3, TroubleGrows
  <2>6. TypeOK' BY <2>1, <2>4, <2>5 DEF TypeOK
  <2>7. mailbox'[n] = <<TimerMsg>> /\ \A p \in Nodes \ {n} : mailbox'[p] = mailbox[p]
    BY <2>1 DEF TypeOK
  <2>8. \A p \in Nodes : \A x \in ToSet(mailbox'[p]) : WellFormed(x)
    BY <2>3, <2>7 DEF ShapeOK, WellFormed
  <2>9. ShapeOK' BY <2>1, <2>8, SameShapes DEF ShapeOK
  <2>10. LocalOK' BY <2>1, <2>2, <2>3, <2>7 DEF LocalOK
  <2>. QED BY <2>6, <2>9, <2>10
<1>2. CASE Crash(n)
  <2>1. /\ up' = [up EXCEPT ![n] = FALSE]
        /\ mailbox' = [mailbox EXCEPT ![n] = <<>>]
        /\ net' = [e \in Links |-> IF n \in {e[1], e[2]} THEN <<>> ELSE net[e]]
        /\ behavior' = [behavior EXCEPT ![n] = "Ready"]
        /\ acks' = [acks EXCEPT ![n] = 0]
        /\ jobToStart' = [jobToStart EXCEPT ![n] = NoStart]
        /\ stash' = [stash EXCEPT ![n] = <<>>]
        /\ masters' = [e \in Nodes \X Jobs |-> IF e[1] = n THEN 0 ELSE masters[e]]
        /\ trouble < MaxTrouble /\ trouble' = trouble + 1
        /\ UNCHANGED <<created, jobOf, routees, outcome, muddled>>
    BY <1>2 DEF Crash
  <2>2. <<>> \in Seq(Message) /\ ToSet(<<>>) = {} BY DEF ToSet
  <2>3. TypeOK'
    <3>1. up' \in [Nodes -> BOOLEAN] BY <2>1 DEF TypeOK
    <3>2. mailbox' \in [Nodes -> Seq(Message)] /\ stash' \in [Nodes -> Seq(Message)]
      BY <2>1, <2>2 DEF TypeOK
    <3>3. net' \in [Links -> Seq(Message)] BY <2>1, <2>2 DEF TypeOK
    <3>4. acks' \in [Nodes -> Int]
      <4>1. acks \in [Nodes -> Int] BY DEF TypeOK
      <4>. QED BY <2>1, <4>1
    <3>5. /\ behavior' \in [Nodes -> {"Ready", "SearchingForJob"}]
          /\ jobToStart' \in [Nodes -> Starts \cup {NoStart}]
          /\ \A p \in Nodes : behavior'[p] = "SearchingForJob" => jobToStart'[p] \in Starts
      BY <2>1 DEF TypeOK
    <3>6. masters' \in [Nodes \X Jobs -> Nat] BY <2>1 DEF TypeOK
    <3>7. trouble' \in 0..MaxTrouble BY <2>1, TroubleGrows
    <3>. QED BY <2>1, <3>1, <3>2, <3>3, <3>4, <3>5, <3>6, <3>7 DEF TypeOK
  <2>4. \A p \in Nodes : /\ mailbox'[p] = IF p = n THEN <<>> ELSE mailbox[p]
                         /\ stash'[p] = IF p = n THEN <<>> ELSE stash[p]
                         /\ behavior'[p] = IF p = n THEN "Ready" ELSE behavior[p]
    <3>1. /\ mailbox \in [Nodes -> Seq(Message)] /\ stash \in [Nodes -> Seq(Message)]
          /\ behavior \in [Nodes -> {"Ready", "SearchingForJob"}]
      BY DEF TypeOK
    <3>2. \A p \in Nodes : mailbox'[p] = IF p = n THEN <<>> ELSE mailbox[p]
      BY <2>1, <3>1
    <3>3. \A p \in Nodes : stash'[p] = IF p = n THEN <<>> ELSE stash[p]
      BY <2>1, <3>1
    <3>4. \A p \in Nodes : behavior'[p] = IF p = n THEN "Ready" ELSE behavior[p]
      BY <2>1, <3>1
    <3>. QED BY <3>2, <3>3, <3>4
  <2>5. \A e \in Links : net'[e] = <<>> \/ net'[e] = net[e] BY <2>1
  <2>6. ShapeOK' BY <2>1, <2>2, <2>4, <2>5, SameShapes DEF ShapeOK
  <2>7. /\ ~up'[n] /\ \A p \in Nodes : up'[p] => up[p]
        /\ \A p \in Nodes \ {n} : up[p] => up'[p]
    BY <2>1 DEF TypeOK
  <2>8. \A p, q \in Nodes : up'[p] /\ up'[q] => p \in routees'[q]
    BY <2>1, <2>7 DEF LocalOK
  <2>9. \A p \in Nodes : behavior'[p] = "SearchingForJob" => up'[p]
    BY <2>4, <2>7 DEF LocalOK
  <2>10. \A p \in Nodes : net'[<<p, p>>] = <<>>
    BY <2>5 DEF LocalOK, Links
  <2>11. \A p \in Nodes : TimerMsg \in ToSet(mailbox'[p]) =>
           behavior'[p] = "SearchingForJob" /\ TimerMsg \notin ToSet(Tail(mailbox'[p]))
    <3>. TAKE p \in Nodes
    <3>1. CASE p = n BY <2>2, <2>4, <3>1
    <3>2. CASE p # n
      <4>1. mailbox'[p] = mailbox[p] /\ behavior'[p] = behavior[p] BY <2>4, <3>2
      <4>. QED BY <4>1 DEF LocalOK
    <3>. QED BY <3>1, <3>2
  <2>12. LocalOK' BY <2>8, <2>9, <2>10, <2>11 DEF LocalOK
  <2>. QED BY <2>3, <2>6, <2>12
<1>3. CASE Deliver(m, n)
  <2>. DEFINE msg == Head(net[<<m, n>>])
  <2>1. /\ net[<<m, n>>] # <<>>
        /\ mailbox' = [mailbox EXCEPT ![n] = Append(@, msg)]
        /\ net' = [net EXCEPT ![<<m, n>>] = Tail(@)]
        /\ UNCHANGED <<behavior, acks, jobToStart, stash, masters, created, jobOf, up, routees,
                       outcome, muddled, trouble>>
    BY <1>3 DEF Deliver, actorVars, jobVars, clusterVars
  <2>2. msg \in Message /\ Sent(msg) /\ net' \in [Links -> Seq(Message)] /\ m # n
    BY <2>1, DepartureFacts
  <2>3. \A p, q \in Nodes : ToSet(net'[<<p, q>>]) \subseteq ToSet(net[<<p, q>>])
    <3>1. ToSet(net'[<<m, n>>]) \subseteq ToSet(net[<<m, n>>]) BY ZenonT(30), <2>1, DepartureFacts
    <3>2. \A p, q \in Nodes : <<p, q>> # <<m, n>> => net'[<<p, q>>] = net[<<p, q>>]
      BY <2>1, DepartureFacts
    <3>. QED BY <3>1, <3>2
  <2>4. \A p \in Nodes : net'[<<p, p>>] = net[<<p, p>>]
    BY <2>1, <2>2, DepartureFacts
  <2>. HIDE DEF msg
  <2>5. mailbox' \in [Nodes -> Seq(Message)] BY <2>1, <2>2, ArrivalFacts
  <2>6. TypeOK' BY <2>1, <2>2, <2>5 DEF TypeOK
  <2>. QED BY <2>1, <2>2, <2>3, <2>4, <2>6, ArrivalKeepsShape DEF clusterVars
<1>4. CASE Lose(m, n)
  <2>1. /\ net[<<m, n>>] # <<>>
        /\ net' = [net EXCEPT ![<<m, n>>] = Tail(@)]
        /\ trouble < MaxTrouble /\ trouble' = trouble + 1
        /\ muddled' = muddled \cup {Head(net[<<m, n>>]).job}
        /\ UNCHANGED <<behavior, acks, jobToStart, stash, mailbox, masters, created, jobOf, up,
                       routees, outcome>>
    BY <1>4 DEF Lose, actorVars, jobVars, clusterVars
  <2>2. Sent(Head(net[<<m, n>>])) /\ net' \in [Links -> Seq(Message)] /\ m # n
    BY <2>1, DepartureFacts
  <2>3. \A p, q \in Nodes : ToSet(net'[<<p, q>>]) \subseteq ToSet(net[<<p, q>>])
    <3>1. ToSet(net'[<<m, n>>]) \subseteq ToSet(net[<<m, n>>]) BY ZenonT(30), <2>1, DepartureFacts
    <3>2. \A p, q \in Nodes : <<p, q>> # <<m, n>> => net'[<<p, q>>] = net[<<p, q>>]
      BY <2>1, DepartureFacts
    <3>. QED BY <3>1, <3>2
  <2>4. \A p \in Nodes : net'[<<p, p>>] = net[<<p, p>>]
    BY <2>1, <2>2, DepartureFacts
  <2>5. Head(net[<<m, n>>]).job \in Jobs BY <2>2 DEF Sent
  <2>6. trouble' \in 0..MaxTrouble BY <2>1, TroubleGrows
  <2>7. TypeOK' BY <2>1, <2>2, <2>5, <2>6 DEF TypeOK
  <2>8. \A e \in Links : \A x \in ToSet(net'[e]) : Sent(x) BY <2>3 DEF ShapeOK, Links
  <2>9. ShapeOK' BY <2>1, <2>8, SameShapes DEF ShapeOK
  <2>10. LocalOK' BY <2>1, <2>4 DEF LocalOK
  <2>. QED BY <2>7, <2>9, <2>10
<1>5. CASE MemberRemoved(m, n)
  <2>1. /\ up[n] /\ ~up[m] /\ routees' = [routees EXCEPT ![n] = @ \ {m}]
        /\ UNCHANGED <<behavior, acks, jobToStart, stash, mailbox, net, masters, created, jobOf,
                       up, outcome, muddled, trouble>>
    BY <1>5 DEF MemberRemoved, actorVars, jobVars
  <2>2. \A p \in Nodes : routees'[p] = IF p = n THEN routees[p] \ {m} ELSE routees[p]
    BY <2>1 DEF TypeOK
  <2>3. TypeOK' BY <2>1 DEF TypeOK
  <2>4. ShapeOK' BY <2>1, SameShapes DEF ShapeOK
  <2>5. LocalOK' BY <2>1, <2>2 DEF LocalOK
  <2>. QED BY <2>3, <2>4, <2>5
<1>6. ASSUME NEW s \in Starts, SendStart(s, n) PROVE TInv'
  <2>. DEFINE msg == StartJob(s)
  <2>1. /\ mailbox' = [mailbox EXCEPT ![n] = Append(@, msg)]
        /\ outcome' = [outcome EXCEPT ![s] = "open"]
        /\ UNCHANGED <<behavior, acks, jobToStart, stash, net, masters, created, jobOf, up, routees,
                       muddled, trouble>>
    BY <1>6 DEF SendStart, actorVars, jobVars, clusterVars
  <2>2. IsStart(msg)
    <3>1. msg.start = s BY DEF StartJob, Msg
    <3>. QED BY <3>1 DEF IsStart
  <2>3. msg \in Message BY <2>2, KindFacts DEF WellFormed
  <2>. HIDE DEF msg
  <2>4. mailbox' \in [Nodes -> Seq(Message)] BY <2>1, <2>3, ArrivalFacts
  <2>5. outcome' \in [Starts -> {"unsent", "open", "served", "undelivered"}]
    BY <2>1 DEF TypeOK
  <2>6. TypeOK' BY <2>1, <2>4, <2>5 DEF TypeOK
  <2>. QED BY <2>1, <2>2, <2>3, <2>6, ArrivalKeepsShape DEF clusterVars
<1>7. ASSUME NEW job \in Jobs, EndJob(n, job) PROVE TInv'
  <2>1. /\ masters' = [masters EXCEPT ![<<n, job>>] = 0]
        /\ trouble < MaxTrouble /\ trouble' = trouble + 1
        /\ UNCHANGED <<behavior, acks, jobToStart, stash, mailbox, net, created, jobOf, up, routees,
                       outcome, muddled>>
    BY <1>7 DEF EndJob, actorVars, clusterVars
  <2>2. trouble' \in 0..MaxTrouble BY <2>1, TroubleGrows
  <2>3. masters' \in [Nodes \X Jobs -> Nat] BY <2>1 DEF TypeOK
  <2>4. TypeOK' BY <2>1, <2>2, <2>3 DEF TypeOK
  <2>5. ShapeOK' BY <2>1, SameShapes DEF ShapeOK
  <2>6. LocalOK' BY <2>1 DEF LocalOK
  <2>. QED BY <2>4, <2>5, <2>6
<1>. QED BY <1>1, <1>2, <1>3, <1>4, <1>5, <1>6, <1>7

LEMMA TypesInductive ==
  ASSUME TInv, [Next]_vars
  PROVE  TInv'
<1>1. ASSUME NEW n \in Nodes, Handle(n) PROVE TInv' BY <1>1, HandleKeepsTypes
<1>2. ASSUME NEW n \in Nodes, NEW m \in Nodes,
             \/ FireTimeout(n) \/ Crash(n) \/ Deliver(m, n) \/ Lose(m, n) \/ MemberRemoved(m, n)
             \/ \E s \in Starts : SendStart(s, n)
             \/ \E job \in Jobs : EndJob(n, job)
      PROVE  TInv'
  BY <1>2, OthersKeepTypes
<1>3. CASE UNCHANGED vars
  BY <1>3 DEF TInv, TypeOK, ShapeOK, LocalOK, WellFormed, IsStart, StartJob,
              vars, actorVars, jobVars, clusterVars
<1>. QED BY <1>1, <1>2, <1>3 DEF Next

LEMMA InitTypes ==
  Init => TInv
<1>. SUFFICES ASSUME Init PROVE TInv
  OBVIOUS
<1>1. <<>> \in Seq(Message) /\ ToSet(<<>>) = {} BY DEF ToSet
<1>2. /\ jobOf \in [Starts -> Jobs] /\ acks \in [Nodes -> Int] /\ trouble \in 0..MaxTrouble
      /\ up \in [Nodes -> BOOLEAN] /\ routees \in [Nodes -> SUBSET Nodes]
      /\ behavior \in [Nodes -> {"Ready", "SearchingForJob"}]
      /\ jobToStart \in [Nodes -> Starts \cup {NoStart}]
      /\ outcome \in [Starts -> {"unsent", "open", "served", "undelivered"}]
  <2>1. jobOf \in [Starts -> Jobs] BY DEF Init
  <2>2. acks \in [Nodes -> Int] /\ trouble \in 0..MaxTrouble
    <3>1. acks = [n \in Nodes |-> 0] /\ trouble = 0 BY DEF Init
    <3>. QED BY <3>1
  <2>3. up \in [Nodes -> BOOLEAN] BY DEF Init
  <2>4. routees \in [Nodes -> SUBSET Nodes] BY DEF Init
  <2>5. /\ behavior \in [Nodes -> {"Ready", "SearchingForJob"}]
        /\ jobToStart \in [Nodes -> Starts \cup {NoStart}]
        /\ outcome \in [Starts -> {"unsent", "open", "served", "undelivered"}]
    BY DEF Init
  <2>. QED BY <2>1, <2>2, <2>3, <2>4, <2>5
<1>3. /\ stash \in [Nodes -> Seq(Message)] /\ mailbox \in [Nodes -> Seq(Message)]
      /\ net \in [Links -> Seq(Message)]
      /\ masters \in [Nodes \X Jobs -> Nat] /\ created \in [Jobs -> Nat]
      /\ muddled \subseteq Jobs
      /\ \A n \in Nodes : behavior[n] = "Ready"
  BY <1>1 DEF Init
<1>4. TypeOK BY <1>2, <1>3 DEF TypeOK
<1>5. ShapeOK BY <1>1 DEF Init, ShapeOK
<1>6. LocalOK BY <1>1 DEF Init, LocalOK, Links
<1>. QED BY <1>4, <1>5, <1>6 DEF TInv

\* Every variable holds a value of its type, in every reachable state of every
\* cluster; a search has a command.
THEOREM TypesHold == Spec => []TypeOK
<1>1. TInv /\ [Next]_vars => TInv' BY TypesInductive
<1>2. TInv => TypeOK BY DEF TInv
<1>. QED BY InitTypes, <1>1, <1>2, PTL DEF Spec

-----------------------------------------------------------------------------
\* The searches.

LEMMA CountsAreNat ==
  ASSUME NEW M \in [Nodes -> Seq(Message)], NEW N \in [Links -> Seq(Message)]
  PROVE  /\ \A n \in Nodes : \A x : Count(M[n], x) \in Nat
         /\ \A m, n \in Nodes : \A x : Count(N[<<m, n>>], x) \in Nat
<1>1. \A n \in Nodes : M[n] \in Seq(Message) OBVIOUS
<1>2. \A m, n \in Nodes : N[<<m, n>>] \in Seq(Message) BY DEF Links
<1>. QED BY <1>1, <1>2, CountType

\* A step that does not disturb the search for job: there are fewer questions and
\* answers and CrawlMasters than before, and a CrawlMaster that is not asked any
\* more is answered for.
CalmFor(n, p, job) ==
  /\ Questions(n, p, job)' <= Questions(n, p, job)
  /\ Negatives(p, n, job)' <= Negatives(p, n, job)
  /\ RunsOn(p, job)' /\ Questions(n, p, job)' = 0
       /\ (Questions(n, p, job) = 0 => Answered(p, n, job))
     => Answered(p, n, job)'
CalmAt(n, job) ==
  Searching(n, job)' =>
    /\ Searching(n, job) /\ acks'[n] = acks[n]
    /\ outcome[jobToStart[n]] # "open" => outcome'[jobToStart'[n]] # "open"
    /\ Counted(n, job)' <= Counted(n, job)
    /\ FoundIn(mailbox[n], job) => FoundIn(mailbox'[n], job)
    /\ \A p \in Nodes : CalmFor(n, p, job)
Calm(job) ==
  /\ \A n \in Nodes : CalmAt(n, job)
  /\ \A m, p \in Nodes :
       Count(net'[<<m, p>>], FindRunningJob(job)) <= Count(net[<<m, p>>], FindRunningJob(job))
  /\ \A p \in Nodes : /\ RunsOn(p, job)' => RunsOn(p, job)
                      /\ masters[<<p, job>>] = 0 => masters'[<<p, job>>] = 0

LEMMA OwingFacts ==
  ASSUME TypeOK, NEW n \in Nodes, NEW job \in Jobs
  PROVE  /\ IsFiniteSet(Owing(n, job)) /\ Cardinality(Owing(n, job)) \in Nat
         /\ Cardinality(Owing(n, job)) = 0 <=> Owing(n, job) = {}
         /\ \A S \in SUBSET Owing(n, job) : Cardinality(S) <= Cardinality(Owing(n, job))
<1>1. Owing(n, job) \in SUBSET Nodes BY DEF Owing
<1>2. IsFiniteSet(Owing(n, job)) BY <1>1, FS_Subset
<1>. QED BY <1>2, FS_CardinalityType, FS_EmptySet, FS_Subset

LEMMA CalmSearch ==
  ASSUME TypeOK, TypeOK', NEW job \in Jobs, SearchOK(job), Calm(job)
  PROVE  SearchOK(job)'
<1>1. /\ mailbox \in [Nodes -> Seq(Message)] /\ net \in [Links -> Seq(Message)]
      /\ mailbox' \in [Nodes -> Seq(Message)] /\ net' \in [Links -> Seq(Message)]
      /\ acks \in [Nodes -> Int]
  BY DEF TypeOK
<1>2. \A m, n \in Nodes : Searching(m, job)' /\ Searching(n, job)' => m = n
  BY DEF Calm, CalmAt, SearchOK
<1>3. \A m, n \in Nodes : RunsOn(m, job)' /\ RunsOn(n, job)' => m = n
  BY DEF Calm, SearchOK
<1>4. ASSUME NEW n \in Nodes, Searching(n, job)'
      PROVE  CountingOK(n, job)' /\ CreatedOK(n, job)'
  <2>1. /\ Searching(n, job) /\ acks'[n] = acks[n] /\ acks[n] \in Int
        /\ outcome[jobToStart[n]] # "open" => outcome'[jobToStart'[n]] # "open"
        /\ Counted(n, job)' <= Counted(n, job)
        /\ FoundIn(mailbox[n], job) => FoundIn(mailbox'[n], job)
        /\ \A p \in Nodes : CalmFor(n, p, job)
    BY <1>1, <1>4 DEF Calm, CalmAt
  <2>2. CountingOK(n, job) /\ CreatedOK(n, job) BY <2>1 DEF SearchOK
  <2>3. /\ Counted(n, job) \in Nat /\ Counted(n, job)' \in Nat
        /\ \A p \in Nodes : /\ Questions(n, p, job) \in Nat /\ Questions(n, p, job)' \in Nat
                            /\ Negatives(p, n, job) \in Nat /\ Negatives(p, n, job)' \in Nat
        /\ \A m, p \in Nodes : /\ Count(net[<<m, p>>], FindRunningJob(job)) \in Nat
                               /\ Count(net'[<<m, p>>], FindRunningJob(job)) \in Nat
    <3>1. /\ \A p \in Nodes : \A x : Count(mailbox[p], x) \in Nat
          /\ \A m, p \in Nodes : \A x : Count(net[<<m, p>>], x) \in Nat
      BY <1>1, CountsAreNat
    <3>2. /\ \A p \in Nodes : \A x : Count(mailbox'[p], x) \in Nat
          /\ \A m, p \in Nodes : \A x : Count(net'[<<m, p>>], x) \in Nat
      BY <1>1, CountsAreNat
    <3>3. Counted(n, job) \in Nat /\ Counted(n, job)' \in Nat
      <4>1. Counted(n, job) \in Nat BY <3>1 DEF Counted
      <4>2. Counted(n, job)' \in Nat BY <3>2 DEF Counted
      <4>. QED BY <4>1, <4>2
    <3>4. \A p \in Nodes : Questions(n, p, job) \in Nat /\ Negatives(p, n, job) \in Nat
      BY <3>1 DEF Questions, Negatives
    <3>5. \A p \in Nodes : Questions(n, p, job)' \in Nat /\ Negatives(p, n, job)' \in Nat
      BY <3>2 DEF Questions, Negatives
    <3>. QED BY <3>1, <3>2, <3>3, <3>4, <3>5
  <2>4. /\ \A p \in Nodes : /\ Questions(n, p, job)' <= Questions(n, p, job)
                            /\ Negatives(p, n, job)' <= Negatives(p, n, job)
        /\ \A m, p \in Nodes :
             Count(net'[<<m, p>>], FindRunningJob(job)) <= Count(net[<<m, p>>], FindRunningJob(job))
        /\ \A p \in Nodes : /\ RunsOn(p, job)' => RunsOn(p, job)
                            /\ masters[<<p, job>>] = 0 => masters'[<<p, job>>] = 0
    BY <2>1 DEF Calm, CalmFor
  <2>5. CountingOK(n, job)'
    <3>1. SUFFICES ASSUME acks'[n] > 0
                   PROVE  /\ QuestionsOK(n, job)' /\ AnswersOK(n, job)'
                          /\ acks'[n] >= Counted(n, job)' + Cardinality(Owing(n, job)')
      BY DEF CountingOK
    <3>2. /\ QuestionsOK(n, job) /\ AnswersOK(n, job)
          /\ acks[n] >= Counted(n, job) + Cardinality(Owing(n, job))
      BY <2>1, <2>2, <3>1 DEF CountingOK
    <3>3. QuestionsOK(n, job)' BY <2>3, <2>4, <3>2 DEF QuestionsOK
    <3>4. ASSUME NEW p \in Nodes
          PROVE  /\ Negatives(p, n, job)' <= 1
                 /\ Negatives(p, n, job)' > 0 => Questions(n, p, job)' = 0 /\ masters'[<<p, job>>] = 0
                 /\ RunsOn(p, job)' /\ Questions(n, p, job)' = 0 => Answered(p, n, job)'
      <4>1. /\ Negatives(p, n, job) <= 1
            /\ Negatives(p, n, job) > 0 => Questions(n, p, job) = 0 /\ masters[<<p, job>>] = 0
            /\ RunsOn(p, job) /\ Questions(n, p, job) = 0 => Answered(p, n, job)
        BY <3>2 DEF AnswersOK
      <4>2. RunsOn(p, job)' /\ Questions(n, p, job)' = 0
              /\ (Questions(n, p, job) = 0 => Answered(p, n, job)) => Answered(p, n, job)'
        BY <2>1 DEF CalmFor
      <4>. QED BY <2>3, <2>4, <4>1, <4>2
    <3>5. AnswersOK(n, job)' BY <3>4 DEF AnswersOK
    <3>6. Owing(n, job)' \in SUBSET Owing(n, job)
      <4>1. \A p \in Nodes : /\ Questions(n, p, job)' > 0 => Questions(n, p, job) > 0
                             /\ Negatives(p, n, job)' > 0 => Negatives(p, n, job) > 0
        BY <2>3, <2>4
      <4>2. \A p \in Nodes : RunsOn(p, job)' => RunsOn(p, job) BY <2>4
      <4>. QED BY <4>1, <4>2 DEF Owing
    <3>7. /\ Cardinality(Owing(n, job)') <= Cardinality(Owing(n, job))
          /\ Cardinality(Owing(n, job)) \in Nat /\ Cardinality(Owing(n, job)') \in Nat
      <4>1. IsFiniteSet(Owing(n, job)) BY OwingFacts
      <4>. QED BY <3>6, <4>1, FS_Subset, FS_CardinalityType
    <3>. QED BY <2>1, <2>3, <3>2, <3>3, <3>5, <3>7
  <2>6. CreatedOK(n, job)'
    BY <2>1, <2>2, <2>3, <2>4 DEF CreatedOK
  <2>. QED BY <2>5, <2>6
<1>. QED BY <1>2, <1>3, <1>4 DEF SearchOK

\* What a handler leaves in the mailboxes and channels of the messages that
\* a search for job counts.
CountsMove(n, out, x) ==
  /\ \A p \in Nodes :
       /\ Count(mailbox[p], x) \in Nat /\ Count(mailbox'[p], x) \in Nat
       /\ Count(mailbox'[p], x) = Count(mailbox[p], x)
                                  - (IF p = n /\ x = Head(mailbox[n]) THEN 1 ELSE 0)
                                  + (IF p = n /\ x \in out THEN 1 ELSE 0)
  /\ \A m, p \in Nodes :
       /\ Count(net[<<m, p>>], x) \in Nat /\ Count(net'[<<m, p>>], x) \in Nat
       /\ Count(net'[<<m, p>>], x) = Count(net[<<m, p>>], x)
                                     + (IF Goes(n, m, p) /\ x \in out THEN 1 ELSE 0)

LEMMA MovesCounts ==
  ASSUME TInv, NEW n \in Nodes, mailbox[n] # <<>>,
         NEW kept, kept \subseteq ToSet(stash[n]), NEW out, Moves(n, kept, out)
  PROVE  \A x : x = TimerMsg \/ Sent(x) => CountsMove(n, out, x)
<1>. TAKE x
<1>. HAVE x = TimerMsg \/ Sent(x)
<1>1. x \notin kept
  <2>1. ~IsStart(x)
    <3>1. CASE x = TimerMsg
      <4>1. ASSUME IsStart(x) PROVE FALSE
        <5>1. x.type = "StartJob" BY <4>1 DEF IsStart, StartJob, Msg
        <5>. QED BY <3>1, <5>1 DEF TimerMsg, Msg
      <4>. QED BY <4>1
    <3>. QED BY <3>1, SentIsNoTimer
  <2>. QED BY <2>1 DEF TInv, ShapeOK
<1>2. /\ mailbox \in [Nodes -> Seq(Message)] /\ net \in [Links -> Seq(Message)]
      /\ mailbox' \in [Nodes -> Seq(Message)] /\ net' \in [Links -> Seq(Message)]
  BY MovesTyped DEF TInv, TypeOK
<1>3. /\ \A p \in Nodes : Count(mailbox[p], x) \in Nat
      /\ \A m, p \in Nodes : Count(net[<<m, p>>], x) \in Nat
  BY <1>2, CountsAreNat
<1>4. /\ \A p \in Nodes : Count(mailbox'[p], x) \in Nat
      /\ \A m, p \in Nodes : Count(net'[<<m, p>>], x) \in Nat
  BY <1>2, CountsAreNat
<1>5. /\ \A p \in Nodes \ {n} : mailbox'[p] = mailbox[p]
      /\ Count(mailbox'[n], x) = Count(mailbox[n], x) - (IF x = Head(mailbox[n]) THEN 1 ELSE 0)
                                                     + (IF x \in out THEN 1 ELSE 0)
      /\ \A m, p \in Nodes :
           Count(net'[<<m, p>>], x) = Count(net[<<m, p>>], x)
                                      + (IF Goes(n, m, p) /\ x \in out THEN 1 ELSE 0)
  BY <1>1 DEF Moves
<1>6. ASSUME NEW p \in Nodes
      PROVE  Count(mailbox'[p], x) = Count(mailbox[p], x)
                                     - (IF p = n /\ x = Head(mailbox[n]) THEN 1 ELSE 0)
                                     + (IF p = n /\ x \in out THEN 1 ELSE 0)
  BY <1>3, <1>5
<1>. QED BY <1>3, <1>4, <1>5, <1>6 DEF CountsMove

\* And of the answers that it runs.
LEMMA MovesFound ==
  ASSUME TInv, NEW n \in Nodes, mailbox[n] # <<>>,
         NEW kept, kept \subseteq ToSet(stash[n]), NEW out, Moves(n, kept, out), NEW job
  PROVE  /\ \A p \in Nodes : p # n => mailbox'[p] = mailbox[p]
         /\ ~IsFound(Head(mailbox[n]), job) /\ FoundIn(mailbox[n], job) => FoundIn(mailbox'[n], job)
         /\ (\E y \in out : IsFound(y, job)) => FoundIn(mailbox'[n], job)
         /\ \A m, p \in Nodes : FoundIn(net[<<m, p>>], job) => FoundIn(net'[<<m, p>>], job)
         /\ \A p \in Nodes : p # n /\ up[p] /\ (\E y \in out : IsFound(y, job))
              => FoundIn(net'[<<n, p>>], job)
<1>1. ToSet(mailbox[n]) = {Head(mailbox[n])} \cup ToSet(Tail(mailbox[n]))
  BY HeadFacts DEF TInv
<1>2. /\ \A p \in Nodes : p # n => mailbox'[p] = mailbox[p]
      /\ ToSet(mailbox'[n]) = kept \cup ToSet(Tail(mailbox[n])) \cup out
      /\ \A m, p \in Nodes : ToSet(net[<<m, p>>]) \subseteq ToSet(net'[<<m, p>>])
      /\ \A p \in Nodes : p # n /\ up[p] => out \subseteq ToSet(net'[<<n, p>>])
  <2>1. /\ \A p \in Nodes \ {n} : mailbox'[p] = mailbox[p]
        /\ ToSet(mailbox'[n]) = kept \cup ToSet(Tail(mailbox[n])) \cup out
        /\ \A m, p \in Nodes :
             ToSet(net'[<<m, p>>]) = ToSet(net[<<m, p>>]) \cup IF Goes(n, m, p) THEN out ELSE {}
    BY DEF Moves
  <2>2. \A p \in Nodes : p # n /\ up[p] => Goes(n, n, p) BY DEF Goes
  <2>. QED BY SMTT(20), <2>1, <2>2
<1>. QED BY <1>1, <1>2 DEF FoundIn

\* A handler that answers no question about job in the negative, counts nothing for
\* its search and ends no other, and creates no CrawlMaster for it.
LeavesSearch(n, out, job) ==
  /\ FindRunningJob(job) \notin out
  /\ JobNotFound(job) \in out =>
       Head(mailbox[n]) = TimerMsg /\ \A q \in Nodes : Searching(q, job)' => q = n
  /\ Head(mailbox[n]) = FindRunningJob(job) => \E y \in out : IsFound(y, job)
  /\ \A q \in Nodes : Searching(q, job)' =>
       /\ Searching(q, job) /\ acks'[q] = acks[q]
       /\ outcome[jobToStart[q]] # "open" => outcome'[jobToStart'[q]] # "open"
       /\ q = n => ~IsFound(Head(mailbox[n]), job)
  /\ TimerMsg \notin out
  /\ up' = up /\ \A p \in Nodes : masters'[<<p, job>>] = masters[<<p, job>>]

LEMMA MovesCalm ==
  ASSUME TInv, NEW n \in Nodes, mailbox[n] # <<>>,
         NEW kept, kept \subseteq ToSet(stash[n]), NEW out, Moves(n, kept, out),
         NEW job \in Jobs, LeavesSearch(n, out, job)
  PROVE  Calm(job)
<1>. USE DEF LeavesSearch
<1>. DEFINE F == FindRunningJob(job)
            N == JobNotFound(job)
            msg == Head(mailbox[n])
<1>1. Sent(F) /\ Sent(N) /\ F # N /\ F # TimerMsg /\ N # TimerMsg
  BY MessageFacts, SentIsNoTimer DEF TInv
<1>2. /\ \A p \in Nodes :
           /\ Count(mailbox[p], F) \in Nat /\ Count(mailbox'[p], F) \in Nat
           /\ Count(mailbox'[p], F) = Count(mailbox[p], F) - (IF p = n /\ F = msg THEN 1 ELSE 0)
      /\ \A m, p \in Nodes :
           /\ Count(net[<<m, p>>], F) \in Nat
           /\ Count(net'[<<m, p>>], F) = Count(net[<<m, p>>], F)
  <2>1. F \notin out OBVIOUS
  <2>. HIDE DEF F
  <2>2. CountsMove(n, out, F) BY <1>1, MovesCounts
  <2>. QED BY <2>1, <2>2 DEF CountsMove
<1>3. /\ Count(mailbox[n], N) \in Nat /\ Count(mailbox'[n], N) \in Nat
      /\ Count(mailbox'[n], N) = Count(mailbox[n], N) - (IF N = msg THEN 1 ELSE 0)
                                                     + (IF N \in out THEN 1 ELSE 0)
      /\ \A m, p \in Nodes :
           /\ Count(net[<<m, p>>], N) \in Nat
           /\ Count(net'[<<m, p>>], N) = Count(net[<<m, p>>], N)
                                         + (IF Goes(n, m, p) /\ N \in out THEN 1 ELSE 0)
  <2>. HIDE DEF N
  <2>1. CountsMove(n, out, N) BY <1>1, MovesCounts
  <2>. QED BY <2>1 DEF CountsMove
<1>4. /\ Count(mailbox[n], TimerMsg) \in Nat
      /\ Count(mailbox'[n], TimerMsg) = Count(mailbox[n], TimerMsg) - (IF TimerMsg = msg THEN 1 ELSE 0)
  <2>1. CountsMove(n, out, TimerMsg) BY MovesCounts
  <2>. QED BY <2>1 DEF CountsMove
<1>5. /\ \A p \in Nodes : p # n => mailbox'[p] = mailbox[p]
      /\ ~IsFound(msg, job) /\ FoundIn(mailbox[n], job) => FoundIn(mailbox'[n], job)
      /\ (\E y \in out : IsFound(y, job)) => FoundIn(mailbox'[n], job)
      /\ \A m, p \in Nodes : FoundIn(net[<<m, p>>], job) => FoundIn(net'[<<m, p>>], job)
      /\ \A p \in Nodes : p # n /\ up[p] /\ (\E y \in out : IsFound(y, job))
           => FoundIn(net'[<<n, p>>], job)
  BY MovesFound
<1>. HIDE DEF F, N, msg
<1>6. ASSUME NEW q \in Nodes, Searching(q, job)' PROVE CalmAt(q, job)
  <2>1. /\ Searching(q, job) /\ acks'[q] = acks[q] /\ up[q]
        /\ outcome[jobToStart[q]] # "open" => outcome'[jobToStart'[q]] # "open"
        /\ q = n => ~IsFound(msg, job)
        /\ N \in out => q = n /\ msg = TimerMsg
    BY <1>6 DEF msg, N, Searching, TInv, LocalOK
  <2>2. Counted(q, job)' <= Counted(q, job)
    <3>1. CASE q = n
      <4>1. Count(mailbox'[n], N) + Count(mailbox'[n], TimerMsg)
              <= Count(mailbox[n], N) + Count(mailbox[n], TimerMsg)
        BY <1>1, <1>3, <1>4, <2>1 DEF N
      <4>. QED BY <3>1, <4>1 DEF Counted, N
    <3>2. CASE q # n
      <4>1. mailbox'[q] = mailbox[q] BY <1>5, <3>2
      <4>2. Count(mailbox[q], N) \in Nat /\ Count(mailbox[q], TimerMsg) \in Nat
        BY CountNat DEF TInv
      <4>. QED BY <4>1, <4>2 DEF Counted, N
    <3>. QED BY <3>1, <3>2
  <2>3. FoundIn(mailbox[q], job) => FoundIn(mailbox'[q], job) BY <1>5, <2>1
  <2>4. ASSUME NEW p \in Nodes PROVE CalmFor(q, p, job)
    <3>1. Questions(q, p, job)' = Questions(q, p, job) - (IF p = n /\ F = msg THEN 1 ELSE 0)
      BY <1>2 DEF Questions, F
    <3>2. Questions(q, p, job) \in Nat /\ Questions(q, p, job)' \in Nat
      BY <1>2 DEF Questions, F
    <3>3. Negatives(p, q, job)' <= Negatives(p, q, job)
      <4>1. ~(Goes(n, p, q) /\ N \in out) BY <2>1 DEF Goes
      <4>2. Count(net'[<<p, q>>], N) = Count(net[<<p, q>>], N) /\ Count(net[<<p, q>>], N) \in Nat
        BY <1>3, <4>1
      <4>. QED BY <4>2 DEF Negatives, N
    <3>4. Answered(p, q, job) => Answered(p, q, job)'
      BY <1>5, <2>3 DEF Answered
    <3>5. ASSUME p = n, F = msg PROVE Answered(p, q, job)'
      <4>1. \E y \in out : IsFound(y, job) BY <3>5 DEF F, msg
      <4>. QED BY <1>5, <2>1, <3>5, <4>1 DEF Answered
    <3>. QED BY <3>1, <3>2, <3>3, <3>4, <3>5 DEF CalmFor
  <2>. QED BY <2>1, <2>2, <2>3, <2>4 DEF CalmAt
<1>7. \A m, p \in Nodes :
        Count(net'[<<m, p>>], FindRunningJob(job)) <= Count(net[<<m, p>>], FindRunningJob(job))
  <2>1. ASSUME NEW m \in Nodes, NEW p \in Nodes
        PROVE  Count(net'[<<m, p>>], F) <= Count(net[<<m, p>>], F)
    <3>1. Count(net'[<<m, p>>], F) = Count(net[<<m, p>>], F) /\ Count(net[<<m, p>>], F) \in Nat
      BY <1>2
    <3>. QED BY <3>1
  <2>. QED BY <2>1 DEF F
<1>8. \A p \in Nodes : RunsOn(p, job)' => RunsOn(p, job) BY DEF RunsOn
<1>. QED BY <1>6, <1>7, <1>8 DEF Calm, CalmAt

\* The first message of a mailbox counts.
LEMMA HeadCounts ==
  ASSUME TInv, NEW n \in Nodes, mailbox[n] # <<>>
  PROVE  Count(mailbox[n], Head(mailbox[n])) >= 1
<1>1. \A x : /\ Count(mailbox[n], x) \in Nat /\ Count(Tail(mailbox[n]), x) \in Nat
             /\ Count(mailbox[n], x) = Count(Tail(mailbox[n]), x)
                                       + (IF x = Head(mailbox[n]) THEN 1 ELSE 0)
  BY HeadFacts DEF TInv
<1>. QED BY <1>1

\* When the last answer that was waited for says no, no question and no answer is
\* left and no node runs the job.
LEMMA LastAnswer ==
  ASSUME TInv, NEW n \in Nodes, mailbox[n] # <<>>, NEW job \in Jobs, SearchOK(job),
         Searching(n, job), Head(mailbox[n]) = JobNotFound(job), acks[n] <= 1
  PROVE  /\ acks[n] = 1 /\ Counted(n, job) = 1 /\ Owing(n, job) = {}
         /\ QuestionsOK(n, job)
<1>1. /\ Count(mailbox[n], JobNotFound(job)) \in Nat /\ Count(mailbox[n], TimerMsg) \in Nat
      /\ acks[n] \in Int
  BY CountNat DEF TInv, TypeOK
<1>2. Count(mailbox[n], JobNotFound(job)) >= 1 BY HeadCounts
<1>3. Counted(n, job) \in Nat /\ Counted(n, job) >= 1 BY <1>1, <1>2 DEF Counted
<1>4. CountingOK(n, job) /\ CreatedOK(n, job) BY DEF SearchOK
<1>5. acks[n] = 1 BY <1>1, <1>3, <1>4 DEF CreatedOK
<1>6. QuestionsOK(n, job) /\ 1 >= Counted(n, job) + Cardinality(Owing(n, job))
  BY <1>4, <1>5 DEF CountingOK
<1>7. Cardinality(Owing(n, job)) \in Nat /\ (Cardinality(Owing(n, job)) = 0 <=> Owing(n, job) = {})
  BY OwingFacts DEF TInv
<1>8. Counted(n, job) = 1 /\ Cardinality(Owing(n, job)) = 0 BY <1>3, <1>6, <1>7
<1>. QED BY <1>5, <1>6, <1>7, <1>8

\* What is in a mailbox or a channel is under way.
LEMMA UnderWayFacts ==
  /\ \A p \in Nodes : \A x \in ToSet(mailbox[p]) : x \in UnderWay
  /\ \A m, p \in Nodes : \A x \in ToSet(net[<<m, p>>]) : x \in UnderWay
<1>. DEFINE A == {ToSet(mailbox[n]) : n \in Nodes}
            B == {ToSet(net[e]) : e \in Links}
<1>1. UnderWay = (UNION B) \cup (UNION A) BY DEF UnderWay
<1>2. \A p \in Nodes : ToSet(mailbox[p]) \in A OBVIOUS
<1>3. \A m, p \in Nodes : ToSet(net[<<m, p>>]) \in B BY DEF Links
<1>. HIDE DEF A, B
<1>4. \A a \in A \cup B : \A x \in a : x \in (UNION B) \cup (UNION A) OBVIOUS
<1>. QED BY <1>1, <1>2, <1>3, <1>4

LEMMA BeginSearchKeeps ==
  ASSUME TInv, TypeOK', NEW n \in Nodes, up[n], mailbox[n] # <<>>, UNCHANGED clusterVars,
         behavior[n] = "Ready", Head(mailbox[n]).type = "StartJob",
         BeginSearch(n, Head(mailbox[n]), Tail(mailbox[n])),
         NEW job \in Jobs, job \notin muddled', SearchOK(job)
  PROVE  SearchOK(job)'
<1>. USE DEF TInv
<1>. DEFINE msg == Head(mailbox[n])
            F   == FindRunningJob(job)
            N   == JobNotFound(job)
<1>1. /\ msg.start \in Starts /\ msg.job = jobOf[msg.start] /\ msg.job \in Jobs
      /\ Sent(FindRunningJob(msg.job))
  <2>1. msg.start \in Starts /\ msg.job = jobOf[msg.start] BY HeadFacts, KindFacts DEF IsStart
  <2>2. msg.job \in Jobs BY <2>1 DEF TypeOK
  <2>. QED BY <2>1, <2>2, MessageFacts
<1>2. /\ jobToStart' = [jobToStart EXCEPT ![n] = msg.start]
      /\ behavior' = [behavior EXCEPT ![n] = "SearchingForJob"]
      /\ acks' = [acks EXCEPT ![n] = Cardinality(routees[n])]
      /\ Broadcast(n, Tail(mailbox[n]), FindRunningJob(msg.job))
      /\ muddled' = muddled \cup IF OthersSearch(n, msg.job) THEN {msg.job} ELSE {}
      /\ UNCHANGED <<stash, masters, created, outcome, jobOf, up, routees>>
  BY DEF BeginSearch, Remember, ExpectedAcks, jobVars, clusterVars
<1>3. Moves(n, {}, {FindRunningJob(msg.job)}) BY <1>1, <1>2, MovesBroadcast
<1>4. \A q \in Nodes : /\ q # n => /\ behavior'[q] = behavior[q] /\ acks'[q] = acks[q]
                                   /\ jobToStart'[q] = jobToStart[q]
                      /\ q = n => /\ behavior'[q] = "SearchingForJob" /\ jobToStart'[q] = msg.start
                                   /\ acks'[q] = Cardinality(routees[n])
  <2>1. /\ behavior \in [Nodes -> {"Ready", "SearchingForJob"}] /\ acks \in [Nodes -> Int]
        /\ jobToStart \in [Nodes -> Starts \cup {NoStart}]
    BY DEF TypeOK
  <2>. QED BY <1>2, <2>1
<1>5. CASE job # msg.job
  <2>1. \A q \in Nodes : Searching(q, job)' =>
          /\ Searching(q, job) /\ acks'[q] = acks[q] /\ q # n
          /\ outcome[jobToStart[q]] # "open" => outcome'[jobToStart'[q]] # "open"
    BY <1>1, <1>2, <1>4, <1>5 DEF Searching
  <2>2. /\ F # FindRunningJob(msg.job) /\ N # FindRunningJob(msg.job)
        /\ TimerMsg # FindRunningJob(msg.job) /\ msg # F
    BY <1>1, <1>5, MessageFacts
  <2>3. {} \subseteq ToSet(stash[n]) /\ ~IsFound(msg, job)
    BY DEF IsFound
  <2>4. LeavesSearch(n, {FindRunningJob(msg.job)}, job)
    BY <1>2, <2>1, <2>2, <2>3 DEF LeavesSearch
  <2>5. Calm(job) BY <1>3, <2>3, <2>4, MovesCalm
  <2>. QED BY <2>5, CalmSearch
<1>6. CASE job = msg.job
  <2>1. ~OthersSearch(n, job) BY <1>2, <1>6
  <2>2. \A q \in Nodes : Searching(q, job)' => q = n
    BY <1>2, <1>4, <2>1 DEF OthersSearch, Searching
  <2>3. Sent(F) /\ Sent(N) /\ F # N /\ F.type = "FindRunningJob" /\ N.type = "JobNotFound"
        /\ F.job = job /\ N.job = job
    BY MessageFacts
  <2>4. \A x \in UnderWay : x # F /\ x # N BY <2>1, <2>3 DEF OthersSearch
  <2>5. \A p \in Nodes : /\ mailbox[p] \in Seq(Message)
                         /\ F \notin ToSet(mailbox[p]) /\ N \notin ToSet(mailbox[p])
    <3>1. \A p \in Nodes : \A x \in ToSet(mailbox[p]) : x \in UnderWay BY UnderWayFacts
    <3>2. \A p \in Nodes : mailbox[p] \in Seq(Message) BY DEF TypeOK
    <3>. QED BY <2>4, <3>1, <3>2
  <2>6. \A m, p \in Nodes : /\ net[<<m, p>>] \in Seq(Message)
                            /\ F \notin ToSet(net[<<m, p>>]) /\ N \notin ToSet(net[<<m, p>>])
    <3>1. \A m, p \in Nodes : \A x \in ToSet(net[<<m, p>>]) : x \in UnderWay BY UnderWayFacts
    <3>2. \A m, p \in Nodes : net[<<m, p>>] \in Seq(Message) BY DEF TypeOK, Links
    <3>. QED BY <2>4, <3>1, <3>2
  <2>7. Moves(n, {}, {F}) BY <1>3, <1>6
  <2>. HIDE DEF F, N
  <2>8. CountsMove(n, {F}, F) /\ CountsMove(n, {F}, N) /\ CountsMove(n, {F}, TimerMsg)
    BY <2>3, <2>7, MovesCounts
  <2>9. /\ \A p \in Nodes : Count(mailbox[p], F) = 0 /\ Count(mailbox[p], N) = 0
        /\ \A m, p \in Nodes : Count(net[<<m, p>>], F) = 0 /\ Count(net[<<m, p>>], N) = 0
    BY <2>5, <2>6, ToSetFacts
  <2>10. /\ \A p \in Nodes : Count(mailbox'[p], F) = IF p = n THEN 1 ELSE 0
         /\ \A m, p \in Nodes : Count(net'[<<m, p>>], F) = IF Goes(n, m, p) THEN 1 ELSE 0
    <3>1. msg # F
      <4>1. F \notin ToSet(mailbox[n]) BY <2>5
      <4>. QED BY <4>1, HeadFacts
    <3>. QED BY SMTT(20), <2>8, <2>9, <3>1 DEF CountsMove
  <2>11. /\ \A p \in Nodes : Count(mailbox'[p], N) = 0
         /\ \A m, p \in Nodes : Count(net'[<<m, p>>], N) = 0
    <3>1. msg # N
      <4>1. N \notin ToSet(mailbox[n]) BY <2>5
      <4>. QED BY <4>1, HeadFacts
    <3>. QED BY <2>3, <2>8, <2>9, <3>1 DEF CountsMove
  <2>12. Count(mailbox'[n], TimerMsg) = 0
    <3>1. TimerMsg \notin ToSet(mailbox[n]) BY DEF LocalOK
    <3>2. mailbox[n] \in Seq(Message) BY DEF TypeOK
    <3>3. Count(mailbox[n], TimerMsg) = 0 BY <3>1, <3>2, ToSetFacts
    <3>4. msg # TimerMsg BY <3>1, HeadFacts
    <3>5. TimerMsg # F BY <2>3, SentIsNoTimer
    <3>. QED BY <2>8, <3>3, <3>4, <3>5 DEF CountsMove
  <2>13. /\ IsFiniteSet(routees[n]) /\ Cardinality(routees[n]) \in Nat
         /\ Cardinality(routees[n]) > 0 /\ \A p \in Nodes : up[p] => p \in routees[n]
    <3>1. routees[n] \in SUBSET Nodes BY DEF TypeOK
    <3>2. IsFiniteSet(routees[n]) BY <3>1, FS_Subset
    <3>3. n \in routees[n] /\ \A p \in Nodes : up[p] => p \in routees[n] BY DEF LocalOK
    <3>. QED BY <3>2, <3>3, FS_CardinalityType, FS_EmptySet
  <2>14. \A p \in Nodes : /\ Questions(n, p, job)' = IF up[p] THEN 1 ELSE 0
                          /\ Negatives(p, n, job)' = 0
    BY <2>10, <2>11 DEF Questions, Negatives, F, N, Goes
  <2>15. Counted(n, job)' = 0 BY <2>11, <2>12 DEF Counted, N
  <2>16. \A p \in Nodes : RunsOn(p, job)' <=> RunsOn(p, job) BY <1>2 DEF RunsOn
  <2>17. QuestionsOK(n, job)' BY <2>10, <2>14 DEF QuestionsOK, Goes, F
  <2>18. AnswersOK(n, job)' BY <2>14, <2>16 DEF AnswersOK, RunsOn
  <2>19. Owing(n, job)' \in SUBSET routees[n]
    BY <2>13, <2>14, <2>16 DEF Owing, RunsOn
  <2>20. /\ Cardinality(Owing(n, job)') <= Cardinality(routees[n])
         /\ Cardinality(Owing(n, job)') \in Nat
    BY <2>13, <2>19, FS_Subset, FS_CardinalityType
  <2>21. CountingOK(n, job)' /\ CreatedOK(n, job)'
    BY <1>4, <2>13, <2>15, <2>17, <2>18, <2>20 DEF CountingOK, CreatedOK
  <2>22. \A m, q \in Nodes : RunsOn(m, job)' /\ RunsOn(q, job)' => m = q
    BY <2>16 DEF SearchOK
  <2>. QED BY <2>2, <2>21, <2>22 DEF SearchOK
<1>. QED BY <1>5, <1>6

LEMMA AnswerKeeps ==
  ASSUME TInv, TypeOK', NEW n \in Nodes, up[n], mailbox[n] # <<>>, UNCHANGED clusterVars,
         Head(mailbox[n]).type = "FindRunningJob",
         HandleFindRunningJob(n, Head(mailbox[n]), Tail(mailbox[n])),
         NEW job \in Jobs, SearchOK(job)
  PROVE  SearchOK(job)'
<1>. USE DEF TInv
<1>. DEFINE msg == Head(mailbox[n])
            F   == FindRunningJob(job)
            N   == JobNotFound(job)
            ref == [node |-> n, nr |-> masters[<<n, msg.job>>]]
<1>1. msg = FindRunningJob(msg.job) /\ msg.job \in Jobs BY HeadFacts, KindFacts
<1>2. /\ \A q \in Nodes : /\ behavior'[q] = behavior[q] /\ acks'[q] = acks[q]
                          /\ jobToStart'[q] = jobToStart[q]
      /\ UNCHANGED <<masters, outcome, jobOf, up>>
  BY DEF HandleFindRunningJob, actorVars, jobVars, clusterVars
<1>3. \A q \in Nodes : (Searching(q, job)' <=> Searching(q, job)) /\ (RunsOn(q, job)' <=> RunsOn(q, job))
  BY <1>2 DEF Searching, RunsOn
<1>4. ~IsFound(msg, job) /\ msg # TimerMsg /\ {} \subseteq ToSet(stash[n])
  BY MessageFacts DEF IsFound
<1>5. CASE HaveChild(n, msg.job)
  <2>. DEFINE out == JobFound(msg.job, ref)
  <2>1. ref \in Ref BY <1>1, <1>5 DEF HaveChild, Ref, TypeOK
  <2>2. Sent(out) /\ out.type = "JobFound" /\ out.job = msg.job BY <1>1, <2>1, MessageFacts
  <2>3. Broadcast(n, Tail(mailbox[n]), out) BY <1>5 DEF HandleFindRunningJob
  <2>. HIDE DEF out
  <2>4. Moves(n, {}, {out}) BY <2>2, <2>3, MovesBroadcast
  <2>5. F # out /\ N # out /\ TimerMsg # out /\ (msg = F => IsFound(out, job))
    BY <1>1, <2>2, MessageFacts DEF IsFound
  <2>6. LeavesSearch(n, {out}, job) BY <1>2, <1>3, <1>4, <2>5 DEF LeavesSearch
  <2>7. Calm(job) BY <1>4, <2>4, <2>6, MovesCalm
  <2>. QED BY <2>7, CalmSearch
<1>6. CASE ~HaveChild(n, msg.job)
  <2>1. Sent(JobNotFound(msg.job)) BY <1>1, MessageFacts
  <2>2. Broadcast(n, Tail(mailbox[n]), JobNotFound(msg.job)) BY <1>6 DEF HandleFindRunningJob
  <2>3. Moves(n, {}, {JobNotFound(msg.job)}) BY <2>1, <2>2, MovesBroadcast
  <2>4. CASE job # msg.job
    <3>1. /\ F # JobNotFound(msg.job) /\ N # JobNotFound(msg.job)
          /\ TimerMsg # JobNotFound(msg.job) /\ msg # F
      BY <1>1, <2>4, MessageFacts
    <3>2. LeavesSearch(n, {JobNotFound(msg.job)}, job) BY <1>2, <1>3, <1>4, <3>1 DEF LeavesSearch
    <3>3. Calm(job) BY <1>4, <2>3, <3>2, MovesCalm
    <3>. QED BY <3>3, CalmSearch
  <2>5. CASE job = msg.job
    <3>1. masters[<<n, job>>] = 0 BY <1>6, <2>5 DEF HaveChild
    <3>2. msg = F /\ Sent(F) /\ Sent(N) /\ F # N /\ F # TimerMsg /\ N # TimerMsg
      BY <1>1, <2>5, MessageFacts
    <3>3. Moves(n, {}, {N}) BY <2>3, <2>5
    <3>4. Count(mailbox[n], F) >= 1 BY <3>2, HeadCounts
    <3>5. \A p \in Nodes : net[<<p, p>>] = <<>> /\ (behavior[p] = "SearchingForJob" => up[p])
      BY DEF LocalOK
    <3>. HIDE DEF F, N
    <3>6. CountsMove(n, {N}, F) /\ CountsMove(n, {N}, N) /\ CountsMove(n, {N}, TimerMsg)
      BY <1>4, <3>2, <3>3, MovesCounts
    <3>7. /\ \A p \in Nodes :
               /\ Count(mailbox[p], F) \in Nat /\ Count(mailbox'[p], F) \in Nat
               /\ Count(mailbox'[p], F) = Count(mailbox[p], F) - (IF p = n THEN 1 ELSE 0)
          /\ \A m, p \in Nodes :
               Count(net[<<m, p>>], F) \in Nat /\ Count(net'[<<m, p>>], F) = Count(net[<<m, p>>], F)
      <4>1. \A p \in Nodes :
               /\ Count(mailbox[p], F) \in Nat /\ Count(mailbox'[p], F) \in Nat
               /\ Count(mailbox'[p], F) = Count(mailbox[p], F) - (IF p = n THEN 1 ELSE 0)
        BY <3>2, <3>6 DEF CountsMove
      <4>2. \A m, p \in Nodes :
               Count(net[<<m, p>>], F) \in Nat /\ Count(net'[<<m, p>>], F) = Count(net[<<m, p>>], F)
        <5>. TAKE m, p \in Nodes
        <5>1. /\ Count(net[<<m, p>>], F) \in Nat
              /\ Count(net'[<<m, p>>], F) = Count(net[<<m, p>>], F)
                                            + (IF Goes(n, m, p) /\ F \in {N} THEN 1 ELSE 0)
          BY <3>6 DEF CountsMove
        <5>. QED BY <3>2, <5>1
      <4>. QED BY <4>1, <4>2
    <3>8. /\ \A p \in Nodes :
               /\ Count(mailbox[p], N) \in Nat
               /\ Count(mailbox'[p], N) = Count(mailbox[p], N) + (IF p = n THEN 1 ELSE 0)
          /\ \A m, p \in Nodes :
               /\ Count(net[<<m, p>>], N) \in Nat
               /\ Count(net'[<<m, p>>], N) = Count(net[<<m, p>>], N)
                                             + (IF Goes(n, m, p) THEN 1 ELSE 0)
      <4>1. /\ \A p \in Nodes :
                 /\ Count(mailbox[p], N) \in Nat
                 /\ Count(mailbox'[p], N) = Count(mailbox[p], N) + (IF p = n THEN 1 ELSE 0)
        BY SMTT(20), <3>2, <3>6 DEF CountsMove
      <4>2. \A m, p \in Nodes :
               /\ Count(net[<<m, p>>], N) \in Nat
               /\ Count(net'[<<m, p>>], N) = Count(net[<<m, p>>], N)
                                             + (IF Goes(n, m, p) THEN 1 ELSE 0)
        BY <3>6 DEF CountsMove
      <4>. QED BY <4>1, <4>2
    <3>9. \A p \in Nodes :
            Count(mailbox[p], TimerMsg) \in Nat /\ Count(mailbox'[p], TimerMsg) = Count(mailbox[p], TimerMsg)
      BY <1>4, <3>2, <3>6 DEF CountsMove
    <3>10. ASSUME NEW q \in Nodes, Searching(q, job)'
           PROVE  CountingOK(q, job)' /\ CreatedOK(q, job)'
      <4>1. Searching(q, job) /\ up[q] /\ acks'[q] = acks[q] /\ acks[q] \in Int
        BY <1>2, <1>3, <3>5, <3>10 DEF Searching, TypeOK
      <4>2. CountingOK(q, job) /\ CreatedOK(q, job) BY <4>1 DEF SearchOK
      <4>3. /\ \A p \in Nodes :
                 /\ Questions(q, p, job) \in Nat /\ Questions(q, p, job)' \in Nat
                 /\ Questions(q, p, job)' = Questions(q, p, job) - (IF p = n THEN 1 ELSE 0)
            /\ Questions(q, n, job) >= 1
        BY SMTT(20), <3>4, <3>7 DEF Questions, F
      <4>4. \A p \in Nodes :
              /\ Negatives(p, q, job) \in Nat
              /\ Negatives(p, q, job)' = Negatives(p, q, job) + (IF p = n /\ q # n THEN 1 ELSE 0)
        BY <3>8, <4>1 DEF Negatives, N, Goes
      <4>5. Counted(q, job) \in Nat /\ Counted(q, job)' = Counted(q, job) + (IF q = n THEN 1 ELSE 0)
        BY <3>8, <3>9 DEF Counted, N
      <4>6. acks[q] > 0 BY <4>1, <4>2, <4>3 DEF CreatedOK
      <4>7. /\ QuestionsOK(q, job) /\ AnswersOK(q, job)
            /\ acks[q] >= Counted(q, job) + Cardinality(Owing(q, job))
        BY <4>2, <4>6 DEF CountingOK
      <4>8. Questions(q, n, job) = 1 /\ Questions(q, n, job)' = 0 BY <4>3, <4>7 DEF QuestionsOK
      <4>9. Negatives(n, q, job) = 0
        <5>1. Negatives(n, q, job) > 0 => Questions(q, n, job) = 0 BY <4>7 DEF AnswersOK
        <5>2. Negatives(n, q, job) \in Nat BY <4>4
        <5>. QED BY <4>8, <5>1, <5>2
      <4>10. QuestionsOK(q, job)'
        <5>1. \A m, p \in Nodes : m # q => Count(net'[<<m, p>>], F) = 0
          BY <3>7, <4>7 DEF QuestionsOK, F
        <5>2. \A p \in Nodes : Questions(q, p, job)' <= 1 BY <4>3, <4>7 DEF QuestionsOK
        <5>. QED BY <5>1, <5>2 DEF QuestionsOK, F
      <4>11. \A p \in Nodes : Answered(p, q, job) => Answered(p, q, job)'
        BY <1>4, <3>3, MovesFound DEF Answered
      <4>12. ASSUME NEW p \in Nodes
             PROVE  /\ Negatives(p, q, job)' <= 1
                    /\ Negatives(p, q, job)' > 0 => Questions(q, p, job)' = 0 /\ masters'[<<p, job>>] = 0
                    /\ RunsOn(p, job)' /\ Questions(q, p, job)' = 0 => Answered(p, q, job)'
        <5>1. CASE p = n BY <1>2, <1>3, <3>1, <4>4, <4>8, <4>9, <5>1 DEF RunsOn
        <5>2. CASE p # n BY <1>2, <1>3, <4>3, <4>4, <4>7, <4>11, <5>2 DEF AnswersOK
        <5>. QED BY <5>1, <5>2
      <4>13. AnswersOK(q, job)' BY <4>12 DEF AnswersOK
      <4>14. IsFiniteSet(Owing(q, job)) BY OwingFacts
      <4>15. n \in Owing(q, job) BY <4>8 DEF Owing
      <4>16. Owing(q, job)' \in SUBSET Owing(q, job)
        BY <1>3, <4>3, <4>4, <4>15 DEF Owing
      <4>17. acks'[q] >= Counted(q, job)' + Cardinality(Owing(q, job)')
        <5>1. CASE q = n
          <6>1. n \notin Owing(q, job)'
            <7>1. Negatives(n, q, job)' = 0 BY <4>4, <4>9, <5>1
            <7>2. ~RunsOn(n, job)' BY <1>3, <3>1 DEF RunsOn
            <7>. QED BY <4>8, <7>1, <7>2 DEF Owing
          <6>2. Owing(q, job)' \in SUBSET (Owing(q, job) \ {n}) BY <4>16, <6>1
          <6>3. /\ IsFiniteSet(Owing(q, job) \ {n})
                /\ Cardinality(Owing(q, job) \ {n}) = Cardinality(Owing(q, job)) - 1
            BY <4>14, <4>15, FS_RemoveElement
          <6>4. /\ Cardinality(Owing(q, job)') <= Cardinality(Owing(q, job) \ {n})
                /\ Cardinality(Owing(q, job)') \in Nat /\ Cardinality(Owing(q, job)) \in Nat
            BY <4>14, <6>2, <6>3, FS_Subset, FS_CardinalityType
          <6>. QED BY <4>1, <4>5, <4>7, <5>1, <6>3, <6>4
        <5>2. CASE q # n
          <6>1. /\ Cardinality(Owing(q, job)') <= Cardinality(Owing(q, job))
                /\ Cardinality(Owing(q, job)') \in Nat /\ Cardinality(Owing(q, job)) \in Nat
            BY <4>14, <4>16, FS_Subset, FS_CardinalityType
          <6>. QED BY <4>1, <4>5, <4>7, <5>2, <6>1
        <5>. QED BY <5>1, <5>2
      <4>. QED BY <4>1, <4>6, <4>10, <4>13, <4>17 DEF CountingOK, CreatedOK
    <3>. QED BY <1>3, <3>10 DEF SearchOK
  <2>. QED BY <2>4, <2>5
<1>. QED BY <1>5, <1>6

\* A message that has no effect, or is put aside.
LEMMA QuietKeeps ==
  ASSUME TInv, TypeOK', NEW n \in Nodes, up[n], mailbox[n] # <<>>, UNCHANGED clusterVars,
         SendsNothing(n, Tail(mailbox[n])),
         UNCHANGED <<behavior, acks, jobToStart, jobVars, outcome>>,
         Head(mailbox[n]).type # "FindRunningJob",
         NEW job \in Jobs, SearchOK(job),
         Searching(n, job) => ~IsFound(Head(mailbox[n]), job)
  PROVE  SearchOK(job)'
<1>. USE DEF TInv
<1>1. Moves(n, {}, {}) BY MovesNothing
<1>2. Head(mailbox[n]) # FindRunningJob(job) BY MessageFacts
<1>3. \A q \in Nodes : Searching(q, job)' <=> Searching(q, job)
  BY DEF Searching, clusterVars
<1>4. LeavesSearch(n, {}, job)
  BY <1>2, <1>3 DEF LeavesSearch, jobVars, clusterVars
<1>5. {} \subseteq ToSet(stash[n]) OBVIOUS
<1>6. Calm(job) BY <1>1, <1>4, <1>5, MovesCalm
<1>. QED BY <1>6, CalmSearch

\* The search of n ends with a subscription.
LEMMA SubscribeKeeps ==
  ASSUME TInv, TypeOK', NEW n \in Nodes, up[n], mailbox[n] # <<>>, UNCHANGED clusterVars,
         Head(mailbox[n]).type = "JobFound",
         SubscribeToFound(n, Head(mailbox[n]), Tail(mailbox[n])),
         NEW job \in Jobs, SearchOK(job)
  PROVE  SearchOK(job)'
<1>. USE DEF TInv
<1>1. /\ BackToReady(n, Tail(mailbox[n]))
      /\ behavior' = [behavior EXCEPT ![n] = "Ready"]
      /\ UNCHANGED <<acks, jobToStart, masters, jobOf, up>>
  BY DEF SubscribeToFound, BackToReady, jobVars, clusterVars
<1>2. Moves(n, ToSet(stash[n]), {}) BY <1>1, MovesBack
<1>3. Head(mailbox[n]) # FindRunningJob(job) BY MessageFacts
<1>4. /\ behavior \in [Nodes -> {"Ready", "SearchingForJob"}]
      /\ outcome \in [Starts -> {"unsent", "open", "served", "undelivered"}]
  BY DEF TypeOK
<1>5. \A q \in Nodes : Searching(q, job)' => q # n /\ Searching(q, job) /\ jobToStart'[q] = jobToStart[q]
  BY <1>1, <1>4 DEF Searching
<1>6. \A s \in Starts : outcome[s] # "open" => outcome'[s] # "open"
  <2>1. outcome' = [outcome EXCEPT ![jobToStart[n]] =
                   IF @ = "served" \/ Alive(Head(mailbox[n]).job, Head(mailbox[n]).ref)
                   THEN "served" ELSE "undelivered"]
    BY DEF SubscribeToFound
  <2>. QED BY <1>4, <2>1
<1>7. \A q \in Nodes : Searching(q, job) => jobToStart[q] \in Starts
  BY DEF Searching, TypeOK
<1>8. \A q \in Nodes : Searching(q, job)' =>
        /\ Searching(q, job) /\ acks'[q] = acks[q]
        /\ outcome[jobToStart[q]] # "open" => outcome'[jobToStart'[q]] # "open"
        /\ q # n
  BY <1>1, <1>5, <1>6, <1>7
<1>9. LeavesSearch(n, {}, job) BY <1>1, <1>3, <1>8 DEF LeavesSearch
<1>10. Calm(job) BY <1>2, <1>9, MovesCalm
<1>. QED BY <1>10, CalmSearch

\* A timeout: everyone is told that one more answer says no, but only n counts.
LEMMA TimeoutKeeps ==
  ASSUME TInv, TypeOK', NEW n \in Nodes, up[n], mailbox[n] # <<>>, UNCHANGED clusterVars,
         behavior[n] = "SearchingForJob",
         Head(mailbox[n]).type = "ReceiveTimeout",
         TreatAsNotFound(n, Tail(mailbox[n])),
         NEW job \in Jobs, SearchOK(job)
  PROVE  SearchOK(job)'
<1>. USE DEF TInv
<1>. DEFINE J == jobOf[jobToStart[n]]
<1>1. J \in Jobs /\ jobToStart[n] \in Starts BY DEF TypeOK
<1>2. /\ Broadcast(n, Tail(mailbox[n]), JobNotFound(J))
      /\ UNCHANGED <<behavior, acks, jobToStart, masters, outcome, jobOf, up>>
  BY DEF TreatAsNotFound, actorVars, jobVars, clusterVars
<1>3. Head(mailbox[n]) = TimerMsg BY HeadFacts, KindFacts
<1>4. Searching(n, J) BY DEF Searching
<1>. HIDE DEF J
<1>5. Sent(JobNotFound(J)) BY <1>1, MessageFacts
<1>6. Moves(n, {}, {JobNotFound(J)}) BY <1>2, <1>5, MovesBroadcast
<1>7. \A q \in Nodes : Searching(q, job)' <=> Searching(q, job)
  BY <1>2 DEF Searching
<1>8. /\ FindRunningJob(job) # JobNotFound(J) /\ TimerMsg # JobNotFound(J)
      /\ TimerMsg # FindRunningJob(job) /\ ~IsFound(TimerMsg, job)
      /\ JobNotFound(job) = JobNotFound(J) => job = J
  BY <1>1, MessageFacts DEF IsFound
<1>9. job = J => \A q \in Nodes : Searching(q, job)' => q = n
  BY <1>4, <1>7 DEF SearchOK
<1>10. LeavesSearch(n, {JobNotFound(J)}, job)
  BY <1>2, <1>3, <1>7, <1>8, <1>9 DEF LeavesSearch
<1>11. {} \subseteq ToSet(stash[n]) OBVIOUS
<1>12. Calm(job) BY <1>6, <1>10, <1>11, MovesCalm
<1>. QED BY <1>12, CalmSearch

\* A negative answer that n counts in its search for J is no concern of the searches
\* for other jobs.
LEMMA ElsewhereKeeps ==
  ASSUME TInv, TypeOK', NEW n \in Nodes, up[n], mailbox[n] # <<>>, UNCHANGED clusterVars,
         NEW J \in Jobs, Searching(n, J), Head(mailbox[n]) = JobNotFound(J),
         NEW kept, kept \subseteq ToSet(stash[n]), NEW out, Moves(n, kept, out),
         \A y \in out : IsFound(y, J),
         \A q \in Nodes \ {n} : /\ behavior'[q] = behavior[q] /\ acks'[q] = acks[q]
                                /\ jobToStart'[q] = jobToStart[q],
         behavior'[n] = "SearchingForJob" => jobToStart'[n] = jobToStart[n],
         \A s \in Starts : outcome[s] # "open" => outcome'[s] # "open",
         NEW job \in Jobs, job # J, SearchOK(job),
         \A p \in Nodes : masters'[<<p, job>>] = masters[<<p, job>>]
  PROVE  SearchOK(job)'
<1>. USE DEF TInv
<1>1. jobOf' = jobOf /\ up' = up BY DEF clusterVars
<1>2. \A q \in Nodes : Searching(q, job)' => q # n
  BY <1>1 DEF Searching
<1>3. \A q \in Nodes : Searching(q, job)' =>
        /\ Searching(q, job) /\ acks'[q] = acks[q] /\ jobToStart'[q] = jobToStart[q]
        /\ jobToStart[q] \in Starts
  BY <1>1, <1>2 DEF Searching, TypeOK
<1>4. \A q \in Nodes : Searching(q, job)' =>
        (outcome[jobToStart[q]] # "open" => outcome'[jobToStart'[q]] # "open")
  BY <1>3
<1>5. /\ FindRunningJob(job) # JobNotFound(J) /\ ~IsFound(FindRunningJob(job), J)
      /\ ~IsFound(JobNotFound(job), J) /\ ~IsFound(TimerMsg, J)
      /\ ~IsFound(JobNotFound(J), job)
  BY MessageFacts DEF IsFound
<1>6. /\ FindRunningJob(job) \notin out /\ JobNotFound(job) \notin out /\ TimerMsg \notin out
  BY <1>5
<1>7. LeavesSearch(n, out, job)
  BY <1>1, <1>2, <1>3, <1>4, <1>5, <1>6 DEF LeavesSearch
<1>8. Calm(job) BY <1>7, MovesCalm
<1>. QED BY <1>8, CalmSearch

\* A negative answer that is not the last one.
LEMMA CountDownKeeps ==
  ASSUME TInv, TypeOK', NEW n \in Nodes, up[n], mailbox[n] # <<>>, UNCHANGED clusterVars,
         NEW J \in Jobs, Searching(n, J), Head(mailbox[n]) = JobNotFound(J),
         CountDown(n, Head(mailbox[n]), Tail(mailbox[n])),
         NEW job \in Jobs, SearchOK(job)
  PROVE  SearchOK(job)'
<1>. USE DEF TInv
<1>. DEFINE F == FindRunningJob(job)
            N == JobNotFound(job)
<1>1. /\ acks[n] > 1 /\ acks' = [acks EXCEPT ![n] = @ - 1]
      /\ SendsNothing(n, Tail(mailbox[n]))
      /\ UNCHANGED <<behavior, jobToStart, masters, outcome, jobOf, up>>
  BY DEF CountDown, jobVars, clusterVars
<1>2. Moves(n, {}, {}) /\ {} \subseteq ToSet(stash[n]) BY <1>1, MovesNothing
<1>3. acks \in [Nodes -> Int] /\ acks'[n] = acks[n] - 1 /\ \A q \in Nodes \ {n} : acks'[q] = acks[q]
  BY <1>1 DEF TypeOK
<1>4. CASE job # J
  BY <1>1, <1>2, <1>3, <1>4, ElsewhereKeeps
<1>5. CASE job = J
  <2>1. Sent(F) /\ Sent(N) /\ F # N /\ F # TimerMsg /\ N # TimerMsg /\ ~IsFound(N, job)
    BY MessageFacts, SentIsNoTimer DEF IsFound
  <2>2. Head(mailbox[n]) = N BY <1>5
  <2>. HIDE DEF F, N
  <2>3. CountsMove(n, {}, F) /\ CountsMove(n, {}, N) /\ CountsMove(n, {}, TimerMsg)
    BY <1>2, <2>1, MovesCounts
  <2>4. /\ \A p \in Nodes : Count(mailbox'[p], F) = Count(mailbox[p], F) /\ Count(mailbox[p], F) \in Nat
        /\ \A m, p \in Nodes : Count(net'[<<m, p>>], F) = Count(net[<<m, p>>], F)
    BY SMTT(20), <2>1, <2>2, <2>3 DEF CountsMove
  <2>5. /\ Count(mailbox'[n], N) = Count(mailbox[n], N) - 1 /\ Count(mailbox[n], N) \in Nat
        /\ \A m, p \in Nodes : Count(net'[<<m, p>>], N) = Count(net[<<m, p>>], N)
    BY <2>2, <2>3 DEF CountsMove
  <2>6. Count(mailbox'[n], TimerMsg) = Count(mailbox[n], TimerMsg) /\ Count(mailbox[n], TimerMsg) \in Nat
    BY <2>1, <2>2, <2>3 DEF CountsMove
  <2>7. \A q \in Nodes : (Searching(q, job)' <=> Searching(q, job)) /\ (RunsOn(q, job)' <=> RunsOn(q, job))
    BY <1>1 DEF Searching, RunsOn
  <2>8. \A q \in Nodes : Searching(q, job) <=> q = n BY <1>5 DEF SearchOK
  <2>9. CountingOK(n, job) BY <2>8 DEF SearchOK
  <2>10. /\ QuestionsOK(n, job) /\ AnswersOK(n, job)
         /\ acks[n] >= Counted(n, job) + Cardinality(Owing(n, job))
    BY <1>1, <1>3, <2>9 DEF CountingOK
  <2>11. \A p \in Nodes : /\ Questions(n, p, job)' = Questions(n, p, job)
                          /\ Negatives(p, n, job)' = Negatives(p, n, job)
    BY <2>4, <2>5 DEF Questions, Negatives, F, N
  <2>12. Counted(n, job)' = Counted(n, job) - 1 /\ Counted(n, job) \in Nat
    BY <2>5, <2>6 DEF Counted, N
  <2>13. Owing(n, job)' = Owing(n, job) BY <2>7, <2>11 DEF Owing
  <2>14. QuestionsOK(n, job)' BY <2>4, <2>10, <2>11 DEF QuestionsOK, F
  <2>15. \A p \in Nodes : Answered(p, n, job) => Answered(p, n, job)'
    BY <1>2, <2>1, <2>2, MovesFound DEF Answered
  <2>16. AnswersOK(n, job)' BY <1>1, <2>7, <2>10, <2>11, <2>15 DEF AnswersOK
  <2>17. Cardinality(Owing(n, job)) \in Nat BY OwingFacts
  <2>18. CountingOK(n, job)' /\ CreatedOK(n, job)'
    BY <1>1, <1>3, <2>10, <2>12, <2>13, <2>14, <2>16, <2>17 DEF CountingOK, CreatedOK
  <2>. QED BY <2>7, <2>8, <2>18 DEF SearchOK
<1>. QED BY <1>4, <1>5

\* The last negative answer: no other node runs the job or will be asked, so the
\* CrawlMaster is the only one.
LEMMA CreateKeeps ==
  ASSUME TInv, TypeOK', NEW n \in Nodes, up[n], mailbox[n] # <<>>, UNCHANGED clusterVars,
         NEW J \in Jobs, Searching(n, J), Head(mailbox[n]) = JobNotFound(J),
         CreateCrawlMaster(n, Head(mailbox[n]), Tail(mailbox[n])),
         NEW job \in Jobs, SearchOK(job)
  PROVE  SearchOK(job)'
<1>. USE DEF TInv
<1>. DEFINE F == FindRunningJob(job)
            N == JobNotFound(job)
            ref == [node |-> n, nr |-> created'[J]]
            out == JobFound(J, ref)
<1>1. Head(mailbox[n]).job = J BY MessageFacts
<1>2. /\ acks[n] <= 1 /\ acks' = [acks EXCEPT ![n] = @ - 1]
      /\ masters' = [masters EXCEPT ![<<n, J>>] = created'[J]]
      /\ created' = [created EXCEPT ![J] = @ + 1]
      /\ outcome' = [outcome EXCEPT ![jobToStart[n]] = "served"]
      /\ Broadcast(n, Tail(mailbox[n]), out)
      /\ UNCHANGED <<behavior, jobToStart, jobOf, up>>
  BY <1>1 DEF CreateCrawlMaster, clusterVars
<1>3. /\ acks \in [Nodes -> Int] /\ masters \in [Nodes \X Jobs -> Nat] /\ created \in [Jobs -> Nat]
      /\ outcome \in [Starts -> {"unsent", "open", "served", "undelivered"}]
      /\ jobToStart[n] \in Starts
  BY DEF TypeOK, Searching
<1>4. ref \in Ref
  <2>1. created'[J] = created[J] + 1 /\ created[J] \in Nat BY <1>2, <1>3
  <2>2. created'[J] \in Nat \ {0} BY <2>1
  <2>. QED BY <2>2 DEF Ref
<1>5. Sent(out) /\ IsFound(out, J) BY <1>4, MessageFacts DEF IsFound
<1>. HIDE DEF out
<1>6. Moves(n, {}, {out}) /\ {} \subseteq ToSet(stash[n]) BY <1>2, <1>5, MovesBroadcast
<1>7. /\ acks'[n] = acks[n] - 1 /\ \A q \in Nodes \ {n} : acks'[q] = acks[q]
      /\ \A s \in Starts : outcome[s] # "open" => outcome'[s] # "open"
      /\ outcome'[jobToStart[n]] = "served"
  BY <1>2, <1>3
<1>8. CASE job # J
  <2>1. \A p \in Nodes : masters'[<<p, job>>] = masters[<<p, job>>] BY <1>2, <1>3, <1>8
  <2>2. \A y \in {out} : IsFound(y, J) BY <1>5
  <2>3. /\ behavior'[n] = "SearchingForJob" => jobToStart'[n] = jobToStart[n]
        /\ \A q \in Nodes \ {n} : /\ behavior'[q] = behavior[q] /\ acks'[q] = acks[q]
                                  /\ jobToStart'[q] = jobToStart[q]
    BY <1>2, <1>7
  <2>. QED BY <1>6, <1>7, <1>8, <2>1, <2>2, <2>3, ElsewhereKeeps
<1>9. CASE job = J
  <2>1. Sent(F) /\ Sent(N) /\ F # N /\ F # TimerMsg /\ N # TimerMsg /\ out \notin {F, N, TimerMsg}
    BY <1>5, MessageFacts, SentIsNoTimer DEF IsFound
  <2>2. Head(mailbox[n]) = N BY <1>9
  <2>3. acks[n] = 1 /\ Counted(n, job) = 1 /\ Owing(n, job) = {} /\ QuestionsOK(n, job)
    BY <1>2, <1>9, LastAnswer
  <2>. HIDE DEF F, N
  <2>4. CountsMove(n, {out}, F) /\ CountsMove(n, {out}, N) /\ CountsMove(n, {out}, TimerMsg)
    BY <1>6, <2>1, MovesCounts
  <2>5. /\ \A p \in Nodes : Count(mailbox'[p], F) = Count(mailbox[p], F) /\ Count(mailbox[p], F) \in Nat
        /\ \A m, p \in Nodes : /\ Count(net'[<<m, p>>], F) = Count(net[<<m, p>>], F)
                               /\ Count(net[<<m, p>>], F) \in Nat
    BY SMTT(20), <2>1, <2>2, <2>4 DEF CountsMove
  <2>6. /\ Count(mailbox'[n], N) = Count(mailbox[n], N) - 1 /\ Count(mailbox[n], N) \in Nat
        /\ \A m, p \in Nodes : /\ Count(net'[<<m, p>>], N) = Count(net[<<m, p>>], N)
                               /\ Count(net[<<m, p>>], N) \in Nat
    BY <2>1, <2>2, <2>4 DEF CountsMove
  <2>7. Count(mailbox'[n], TimerMsg) = Count(mailbox[n], TimerMsg) /\ Count(mailbox[n], TimerMsg) \in Nat
    BY <2>1, <2>2, <2>4 DEF CountsMove
  <2>8. \A q \in Nodes : (Searching(q, job)' <=> Searching(q, job)) /\ (Searching(q, job) <=> q = n)
    BY <1>2, <1>9 DEF Searching, SearchOK
  <2>9. \A p \in Nodes : Questions(n, p, job) = 0 /\ Negatives(p, n, job) = 0 /\ ~RunsOn(p, job)
    <3>1. \A p \in Nodes : Questions(n, p, job) \in Nat /\ Negatives(p, n, job) \in Nat
      BY <2>5, <2>6 DEF Questions, Negatives, F, N
    <3>. QED BY <2>3, <3>1 DEF Owing
  <2>10. \A p \in Nodes : Questions(n, p, job)' = 0 /\ Negatives(p, n, job)' = 0
    BY <2>5, <2>6, <2>9 DEF Questions, Negatives, F, N
  <2>11. \A m, p \in Nodes : Count(net'[<<m, p>>], F) = 0
    <3>. TAKE m, p \in Nodes
    <3>1. CASE m = n
      <4>1. /\ Count(mailbox[p], F) \in Nat /\ Count(net[<<m, p>>], F) \in Nat
            /\ Count(mailbox[p], F) + Count(net[<<m, p>>], F) = 0
        BY <2>5, <2>9, <3>1 DEF Questions, F
      <4>. QED BY <2>5, <4>1
    <3>2. CASE m # n BY <2>3, <2>5, <3>2 DEF QuestionsOK, F
    <3>. QED BY <3>1, <3>2
  <2>12. Counted(n, job)' = 0 BY <2>3, <2>6, <2>7 DEF Counted, N
  <2>13. FoundIn(mailbox'[n], job) BY <1>5, <1>6, <1>9, MovesFound
  <2>14. CreatedOK(n, job)'
    BY <1>2, <1>7, <2>10, <2>11, <2>12, <2>13 DEF CreatedOK, F
  <2>15. CountingOK(n, job)'
    <3>1. acks'[n] = 0 BY <1>7, <2>3
    <3>. QED BY <3>1 DEF CountingOK
  <2>16. \A p \in Nodes : RunsOn(p, job)' => p = n
    BY <1>2, <1>3, <1>9, <2>9 DEF RunsOn
  <2>. QED BY <2>8, <2>14, <2>15, <2>16 DEF SearchOK
<1>. QED BY <1>8, <1>9

\* The last negative answer never finds the name of the CrawlMaster in use.
LEMMA RestartKeeps ==
  ASSUME TInv, TypeOK', NEW n \in Nodes, up[n], mailbox[n] # <<>>, UNCHANGED clusterVars,
         NEW J \in Jobs, Searching(n, J), Head(mailbox[n]) = JobNotFound(J),
         RestartOnDuplicateName(n, Head(mailbox[n]), Tail(mailbox[n])),
         NEW job \in Jobs, SearchOK(job)
  PROVE  SearchOK(job)'
<1>. USE DEF TInv
<1>1. Head(mailbox[n]).job = J BY MessageFacts
<1>2. /\ acks[n] <= 1 /\ masters[<<n, J>>] # 0 /\ acks' = [acks EXCEPT ![n] = 0]
      /\ jobToStart' = [jobToStart EXCEPT ![n] = NoStart]
      /\ BackToReady(n, Tail(mailbox[n])) /\ behavior' = [behavior EXCEPT ![n] = "Ready"]
      /\ UNCHANGED <<masters, outcome>>
  BY <1>1 DEF RestartOnDuplicateName, BackToReady, jobVars
<1>3. CASE job # J
  <2>1. Moves(n, ToSet(stash[n]), {}) BY <1>2, MovesBack
  <2>2. /\ behavior'[n] = "Ready"
        /\ \A q \in Nodes \ {n} : /\ behavior'[q] = behavior[q] /\ acks'[q] = acks[q]
                                  /\ jobToStart'[q] = jobToStart[q]
    BY <1>2 DEF TypeOK
  <2>. QED BY <1>2, <1>3, <2>1, <2>2, ElsewhereKeeps
<1>4. CASE job = J
  <2>1. Owing(n, job) = {} BY <1>2, <1>4, LastAnswer
  <2>2. n \in Owing(n, job) BY <1>2, <1>4 DEF Owing, RunsOn
  <2>. QED BY <2>1, <2>2
<1>. QED BY <1>3, <1>4

\* No handler disturbs a search that is not muddled.
LEMMA HandleKeepsSearch ==
  ASSUME TInv, TypeOK', NEW n \in Nodes, Handle(n),
         NEW job \in Jobs, job \notin muddled', SearchOK(job)
  PROVE  SearchOK(job)'
<1>. USE DEF TInv
<1>. DEFINE msg  == Head(mailbox[n])
            rest == Tail(mailbox[n])
            J    == jobOf[jobToStart[n]]
<1>1. up[n] /\ mailbox[n] # <<>> /\ UNCHANGED clusterVars BY DEF Handle
<1>2. WellFormed(msg) /\ msg.type \in {"StartJob", "FindRunningJob", "JobFound", "JobNotFound", "ReceiveTimeout"}
  <2>1. WellFormed(msg) /\ msg \in Message BY <1>1, HeadFacts
  <2>. QED BY <2>1 DEF Message
<1>3. CASE behavior[n] = "Ready" /\ Ready(n, msg, rest)
  <2>1. CASE msg.type = "StartJob" /\ BeginSearch(n, msg, rest)
    BY <1>1, <1>3, <2>1, BeginSearchKeeps
  <2>2. CASE msg.type = "FindRunningJob" /\ HandleFindRunningJob(n, msg, rest)
    BY <1>1, <2>2, AnswerKeeps
  <2>3. CASE msg.type \notin {"StartJob", "FindRunningJob"} /\ Ignore(n, rest)
    <3>1. ~Searching(n, job) BY <1>3 DEF Searching
    <3>. QED BY <1>1, <2>3, <3>1, QuietKeeps DEF Ignore, actorVars
  <2>. QED BY <1>3, <2>1, <2>2, <2>3 DEF Ready
<1>4. CASE behavior[n] = "SearchingForJob" /\ SearchingForJob(n, msg, rest)
  <2>1. CASE msg.type = "StartJob" /\ PutAside(n, msg, rest)
    BY <1>1, <2>1, QuietKeeps DEF PutAside, IsFound
  <2>2. CASE msg.type = "FindRunningJob" /\ HandleFindRunningJob(n, msg, rest)
    BY <1>1, <2>2, AnswerKeeps
  <2>3. CASE msg.type = "JobFound" /\ msg.job = J /\ SubscribeToFound(n, msg, rest)
    BY <1>1, <2>3, SubscribeKeeps
  <2>4. CASE msg.type = "ReceiveTimeout" /\ TreatAsNotFound(n, rest)
    BY <1>1, <1>4, <2>4, TimeoutKeeps
  <2>5. CASE /\ msg.type = "JobNotFound" /\ msg.job = J
             /\ \/ CountDown(n, msg, rest)
                \/ CreateCrawlMaster(n, msg, rest)
                \/ RestartOnDuplicateName(n, msg, rest)
    <3>1. msg = JobNotFound(J) /\ J \in Jobs BY <1>2, <2>5, KindFacts DEF Sent
    <3>2. Searching(n, J) BY <1>4 DEF Searching
    <3>. HIDE DEF J
    <3>3. CASE CountDown(n, msg, rest) BY <1>1, <3>1, <3>2, <3>3, CountDownKeeps
    <3>4. CASE CreateCrawlMaster(n, msg, rest) BY <1>1, <3>1, <3>2, <3>4, CreateKeeps
    <3>5. CASE RestartOnDuplicateName(n, msg, rest) BY <1>1, <3>1, <3>2, <3>5, RestartKeeps
    <3>. QED BY <2>5, <3>3, <3>4, <3>5
  <2>6. CASE msg.type \in {"JobFound", "JobNotFound"} /\ msg.job # J /\ Ignore(n, rest)
    <3>1. Searching(n, job) => ~IsFound(msg, job) BY <2>6 DEF Searching, IsFound
    <3>. QED BY <1>1, <2>6, <3>1, QuietKeeps DEF Ignore, actorVars
  <2>. QED BY <1>4, <2>1, <2>2, <2>3, <2>4, <2>5, <2>6 DEF SearchingForJob
<1>. QED BY <1>3, <1>4 DEF Handle

\* Nothing happens to the messages.
LEMMA StillCalm ==
  ASSUME TypeOK, NEW job \in Jobs,
         UNCHANGED <<behavior, acks, jobToStart, jobOf, mailbox, net, outcome>>,
         \A p \in Nodes : /\ RunsOn(p, job)' => RunsOn(p, job)
                          /\ masters[<<p, job>>] = 0 => masters'[<<p, job>>] = 0
  PROVE  Calm(job)
<1>1. /\ \A p \in Nodes : \A x : Count(mailbox[p], x) \in Nat
      /\ \A m, p \in Nodes : \A x : Count(net[<<m, p>>], x) \in Nat
  BY CountNat
<1>2. ASSUME NEW q \in Nodes PROVE CalmAt(q, job)
  <2>1. (Searching(q, job)' <=> Searching(q, job)) /\ Counted(q, job)' = Counted(q, job)
    BY DEF Searching, Counted
  <2>2. Counted(q, job) \in Nat BY <1>1 DEF Counted
  <2>3. ASSUME NEW p \in Nodes PROVE CalmFor(q, p, job)
    <3>1. /\ Questions(q, p, job)' = Questions(q, p, job)
          /\ Negatives(p, q, job)' = Negatives(p, q, job)
          /\ Answered(p, q, job)' <=> Answered(p, q, job)
      BY DEF Questions, Negatives, Answered
    <3>2. Questions(q, p, job) \in Nat /\ Negatives(p, q, job) \in Nat
      BY <1>1 DEF Questions, Negatives
    <3>. QED BY <3>1, <3>2 DEF CalmFor
  <2>. QED BY <2>1, <2>2, <2>3 DEF CalmAt
<1>3. \A m, p \in Nodes :
        Count(net'[<<m, p>>], FindRunningJob(job)) <= Count(net[<<m, p>>], FindRunningJob(job))
  <2>. TAKE m, p \in Nodes
  <2>1. Count(net[<<m, p>>], FindRunningJob(job)) \in Nat BY <1>1
  <2>. QED BY <2>1
<1>. QED BY <1>2, <1>3 DEF Calm

\* A message arrives that the search for job does not count.
LEMMA ArrivalCalm ==
  ASSUME TInv, NEW n \in Nodes, NEW msg \in Message,
         mailbox' = [mailbox EXCEPT ![n] = Append(@, msg)],
         UNCHANGED <<behavior, acks, jobToStart, masters, jobOf, up>>,
         NEW job \in Jobs,
         \A q \in Nodes : Searching(q, job) =>
           /\ outcome[jobToStart[q]] # "open" => outcome'[jobToStart[q]] # "open"
           /\ q = n => msg # JobNotFound(job) /\ msg # TimerMsg
           /\ \A p \in Nodes : Questions(q, p, job)' = Questions(q, p, job),
         \A m, p \in Nodes :
           ToSet(net[<<m, p>>]) \subseteq ToSet(net'[<<m, p>>]) \cup IF p = n THEN {msg} ELSE {},
         \A m, p \in Nodes : \A x : Count(net'[<<m, p>>], x) <= Count(net[<<m, p>>], x)
  PROVE  Calm(job)
<1>. USE DEF TInv
<1>1. /\ \A p \in Nodes \ {n} : mailbox'[p] = mailbox[p]
      /\ ToSet(mailbox'[n]) = ToSet(mailbox[n]) \cup {msg}
      /\ \A x : Count(mailbox'[n], x) = Count(mailbox[n], x) + (IF x = msg THEN 1 ELSE 0)
  BY ArrivalFacts
<1>2. /\ \A p \in Nodes : \A x : Count(mailbox[p], x) \in Nat
      /\ \A m, p \in Nodes : \A x : Count(net[<<m, p>>], x) \in Nat
  BY CountNat
<1>3. ASSUME NEW q \in Nodes, Searching(q, job)' PROVE CalmAt(q, job)
  <2>1. Searching(q, job) BY <1>3 DEF Searching
  <2>2. Counted(q, job)' <= Counted(q, job)
    <3>1. /\ Count(mailbox'[q], JobNotFound(job)) = Count(mailbox[q], JobNotFound(job))
          /\ Count(mailbox'[q], TimerMsg) = Count(mailbox[q], TimerMsg)
      <4>1. CASE q = n
        <5>1. msg # JobNotFound(job) /\ msg # TimerMsg BY <2>1, <4>1
        <5>2. /\ Count(mailbox[n], JobNotFound(job)) \in Nat
              /\ Count(mailbox[n], TimerMsg) \in Nat
          BY <1>2
        <5>. QED BY <1>1, <4>1, <5>1, <5>2
      <4>2. CASE q # n BY <1>1, <4>2
      <4>. QED BY <4>1, <4>2
    <3>2. Counted(q, job)' = Counted(q, job) BY <3>1 DEF Counted
    <3>3. Counted(q, job) \in Nat BY <1>2 DEF Counted
    <3>. QED BY <3>2, <3>3
  <2>3. FoundIn(mailbox[q], job) => FoundIn(mailbox'[q], job) BY <1>1 DEF FoundIn
  <2>4. ASSUME NEW p \in Nodes PROVE CalmFor(q, p, job)
    <3>1. Questions(q, p, job)' = Questions(q, p, job) /\ Questions(q, p, job) \in Nat
      BY <1>2, <2>1 DEF Questions
    <3>2. Negatives(p, q, job)' <= Negatives(p, q, job) BY DEF Negatives
    <3>3. FoundIn(net[<<p, q>>], job) => FoundIn(mailbox'[q], job) \/ FoundIn(net'[<<p, q>>], job)
      BY <1>1 DEF FoundIn
    <3>. QED BY <2>3, <3>1, <3>2, <3>3 DEF CalmFor, Answered
  <2>5. jobToStart'[q] = jobToStart[q] /\ acks'[q] = acks[q]
        /\ (outcome[jobToStart[q]] # "open" => outcome'[jobToStart[q]] # "open")
    BY <2>1
  <2>. QED BY <2>1, <2>2, <2>3, <2>4, <2>5 DEF CalmAt
<1>4. \A p \in Nodes : RunsOn(p, job)' => RunsOn(p, job) BY DEF RunsOn
<1>. QED BY <1>3, <1>4 DEF Calm, CalmAt

\* A command is sent.
LEMMA SendStartKeepsSearch ==
  ASSUME TInv, TypeOK', HoldersOK, NEW n \in Nodes, NEW s \in Starts, SendStart(s, n),
         NEW job \in Jobs, SearchOK(job)
  PROVE  SearchOK(job)'
<1>. USE DEF TInv
<1>. DEFINE msg == StartJob(s)
<1>1. /\ outcome[s] = "unsent" /\ outcome' = [outcome EXCEPT ![s] = "open"]
      /\ mailbox' = [mailbox EXCEPT ![n] = Append(@, msg)]
      /\ UNCHANGED <<behavior, acks, jobToStart, net, masters, jobOf, up>>
  BY DEF SendStart, actorVars, jobVars, clusterVars
<1>2. IsStart(msg) /\ msg.type = "StartJob" BY MessageFacts
<1>3. msg \in Message BY <1>2, KindFacts DEF WellFormed
<1>4. msg # FindRunningJob(job) /\ msg # JobNotFound(job) /\ msg # TimerMsg
  BY <1>2, MessageFacts
<1>. HIDE DEF msg
<1>5. \A q \in Nodes : Searching(q, job) => jobToStart[q] # s
  BY <1>1 DEF HoldersOK, HeldBy, Searching
<1>6. \A q \in Nodes : Searching(q, job) =>
        (outcome[jobToStart[q]] # "open" => outcome'[jobToStart[q]] # "open")
  BY <1>1, <1>5 DEF TypeOK, Searching
<1>7. /\ \A p \in Nodes \ {n} : mailbox'[p] = mailbox[p]
      /\ \A x : Count(mailbox'[n], x) = Count(mailbox[n], x) + (IF x = msg THEN 1 ELSE 0)
  BY <1>1, <1>3, ArrivalFacts
<1>8. \A p \in Nodes : \A x : Count(mailbox[p], x) \in Nat
  BY CountNat
<1>9. \A p \in Nodes : Count(mailbox'[p], FindRunningJob(job)) = Count(mailbox[p], FindRunningJob(job))
  <2>. TAKE p \in Nodes
  <2>1. Count(mailbox[p], FindRunningJob(job)) \in Nat BY <1>8
  <2>2. CASE p = n BY <1>4, <1>7, <2>1, <2>2
  <2>3. CASE p # n BY <1>7, <2>3
  <2>. QED BY <2>2, <2>3
<1>10. \A q, p \in Nodes : Questions(q, p, job)' = Questions(q, p, job)
  BY <1>1, <1>9 DEF Questions
<1>11. \A m, p \in Nodes : \A x : Count(net'[<<m, p>>], x) <= Count(net[<<m, p>>], x)
  <2>. TAKE m, p \in Nodes
  <2>. TAKE x
  <2>1. Count(net[<<m, p>>], x) \in Nat BY CountNat
  <2>2. Count(net'[<<m, p>>], x) = Count(net[<<m, p>>], x) BY <1>1
  <2>. QED BY <2>1, <2>2
<1>12. Calm(job) BY <1>1, <1>3, <1>4, <1>6, <1>10, <1>11, ArrivalCalm
<1>. QED BY <1>12, CalmSearch

\* A message arrives from another node.
LEMMA DeliverKeepsSearch ==
  ASSUME TInv, TypeOK', NEW m \in Nodes, NEW n \in Nodes, Deliver(m, n),
         NEW job \in Jobs, SearchOK(job)
  PROVE  SearchOK(job)'
<1>. USE DEF TInv
<1>. DEFINE msg == Head(net[<<m, n>>])
            F   == FindRunningJob(job)
            N   == JobNotFound(job)
<1>1. /\ net[<<m, n>>] # <<>> /\ net' = [net EXCEPT ![<<m, n>>] = Tail(@)]
      /\ mailbox' = [mailbox EXCEPT ![n] = Append(@, msg)]
      /\ UNCHANGED <<behavior, acks, jobToStart, masters, outcome, jobOf, up>>
  BY DEF Deliver, actorVars, jobVars, clusterVars
<1>2. /\ m # n /\ Sent(msg) /\ msg \in Message
      /\ \A p, q \in Nodes : <<p, q>> # <<m, n>> => net'[<<p, q>>] = net[<<p, q>>]
      /\ ToSet(net[<<m, n>>]) = {msg} \cup ToSet(net'[<<m, n>>])
      /\ \A x : Count(net[<<m, n>>], x) = Count(net'[<<m, n>>], x) + (IF x = msg THEN 1 ELSE 0)
  BY ZenonT(30), <1>1, DepartureFacts
<1>3. msg # TimerMsg BY <1>2, SentIsNoTimer
<1>4. Sent(F) /\ Sent(N) /\ F # N /\ F # TimerMsg /\ N # TimerMsg /\ ~IsFound(N, job)
  BY MessageFacts, SentIsNoTimer DEF IsFound
<1>. HIDE DEF msg, F, N
<1>5. /\ \A p \in Nodes \ {n} : mailbox'[p] = mailbox[p]
      /\ ToSet(mailbox'[n]) = ToSet(mailbox[n]) \cup {msg}
      /\ \A x : Count(mailbox'[n], x) = Count(mailbox[n], x) + (IF x = msg THEN 1 ELSE 0)
  BY <1>1, <1>2, ArrivalFacts
<1>6. /\ \A p \in Nodes : \A x : Count(mailbox[p], x) \in Nat
      /\ \A q, p \in Nodes : \A x : Count(net[<<q, p>>], x) \in Nat
  BY CountNat
<1>7. \A q, p \in Nodes : \A x : Count(net'[<<q, p>>], x) \in Nat
  BY CountsAreNat DEF TypeOK
<1>8. \A q, p \in Nodes : \A x : Count(net'[<<q, p>>], x) <= Count(net[<<q, p>>], x)
  <2>. TAKE q, p \in Nodes
  <2>. TAKE x
  <2>1. CASE <<q, p>> = <<m, n>>
    <3>1. Count(net[<<m, n>>], x) = Count(net'[<<m, n>>], x) + (IF x = msg THEN 1 ELSE 0)
      BY <1>2
    <3>2. Count(net'[<<m, n>>], x) \in Nat BY <1>7
    <3>. QED BY <2>1, <3>1, <3>2
  <2>2. CASE <<q, p>> # <<m, n>>
    <3>1. net'[<<q, p>>] = net[<<q, p>>] BY <1>2, <2>2
    <3>2. Count(net[<<q, p>>], x) \in Nat BY <1>6
    <3>. QED BY <3>1, <3>2
  <2>. QED BY <2>1, <2>2
<1>9. \A q, p \in Nodes : Searching(q, job) => Questions(q, p, job)' = Questions(q, p, job)
  <2>. SUFFICES ASSUME NEW q \in Nodes, NEW p \in Nodes, Searching(q, job)
                PROVE  Count(mailbox'[p], F) + Count(net'[<<q, p>>], F)
                         = Count(mailbox[p], F) + Count(net[<<q, p>>], F)
    BY DEF Questions, F
  <2>1. /\ Count(mailbox[p], F) \in Nat /\ Count(net[<<q, p>>], F) \in Nat
        /\ Count(net'[<<q, p>>], F) \in Nat
    BY <1>6, <1>7
  <2>2. CASE p = n /\ q = m
    <3>1. Count(mailbox'[p], F) = Count(mailbox[p], F) + (IF F = msg THEN 1 ELSE 0) BY <1>5, <2>2
    <3>2. Count(net[<<q, p>>], F) = Count(net'[<<q, p>>], F) + (IF F = msg THEN 1 ELSE 0)
      BY <1>2, <2>2
    <3>. QED BY <2>1, <3>1, <3>2
  <2>3. CASE p = n /\ q # m
    <3>1. net'[<<q, p>>] = net[<<q, p>>] BY <1>2, <2>3
    <3>2. F # msg
      <4>1. SUFFICES ASSUME F = msg PROVE FALSE OBVIOUS
      <4>2. Count(net[<<m, n>>], F) > 0
        <5>1. Count(net[<<m, n>>], F) = Count(net'[<<m, n>>], F) + 1 BY <1>2, <4>1
        <5>2. Count(net'[<<m, n>>], F) \in Nat BY <1>7
        <5>. QED BY <5>1, <5>2
      <4>3. acks[q] > 0 => Count(net[<<m, n>>], F) = 0
        BY <2>3 DEF SearchOK, CountingOK, QuestionsOK, F
      <4>4. acks[q] <= 0 => Count(net[<<m, n>>], F) = 0
        BY DEF SearchOK, CreatedOK, F
      <4>5. acks[q] \in Int BY DEF TypeOK
      <4>. QED BY <4>2, <4>3, <4>4, <4>5
    <3>3. Count(mailbox'[p], F) = Count(mailbox[p], F) BY <1>5, <2>1, <2>3, <3>2
    <3>. QED BY <3>1, <3>3
  <2>4. CASE p # n BY <1>2, <1>5, <2>4
  <2>. QED BY <2>2, <2>3, <2>4
<1>10. \A q, p \in Nodes :
        ToSet(net[<<q, p>>]) \subseteq ToSet(net'[<<q, p>>]) \cup IF p = n THEN {msg} ELSE {}
  <2>. TAKE q, p \in Nodes
  <2>1. CASE <<q, p>> = <<m, n>> BY <1>2, <2>1
  <2>2. CASE <<q, p>> # <<m, n>> BY <1>2, <2>2
  <2>. QED BY <2>1, <2>2
<1>11. CASE ~(Searching(n, job) /\ msg = N)
  <2>1. \A q \in Nodes : Searching(q, job) =>
           /\ outcome[jobToStart[q]] # "open" => outcome'[jobToStart[q]] # "open"
           /\ q = n => msg # JobNotFound(job) /\ msg # TimerMsg
           /\ \A p \in Nodes : Questions(q, p, job)' = Questions(q, p, job)
    BY <1>1, <1>3, <1>9, <1>11 DEF N
  <2>2. mailbox' = [mailbox EXCEPT ![n] = Append(@, msg)] /\ msg \in Message
    BY <1>1, <1>2
  <2>3. UNCHANGED <<behavior, acks, jobToStart, masters, jobOf, up>> BY <1>1
  <2>4. Calm(job) BY <1>8, <1>10, <2>1, <2>2, <2>3, ArrivalCalm
  <2>. QED BY <2>4, CalmSearch
<1>12. CASE Searching(n, job) /\ msg = N
  <2>1. \A q \in Nodes : (Searching(q, job)' <=> Searching(q, job)) /\ (RunsOn(q, job)' <=> RunsOn(q, job))
    BY <1>1 DEF Searching, RunsOn
  <2>2. \A q \in Nodes : Searching(q, job) => q = n BY <1>12 DEF SearchOK
  <2>3. CountingOK(n, job) /\ CreatedOK(n, job) BY <1>12 DEF SearchOK
  <2>4. /\ Negatives(m, n, job) = Negatives(m, n, job)' + 1
        /\ \A p \in Nodes : p # m => Negatives(p, n, job)' = Negatives(p, n, job)
        /\ \A p \in Nodes : Negatives(p, n, job) \in Nat /\ Negatives(p, n, job)' \in Nat
    <3>1. Negatives(m, n, job) = Negatives(m, n, job)' + 1 BY <1>2, <1>12 DEF Negatives, N
    <3>2. \A p \in Nodes : p # m => Negatives(p, n, job)' = Negatives(p, n, job)
      BY <1>2 DEF Negatives
    <3>3. \A p \in Nodes : Negatives(p, n, job) \in Nat /\ Negatives(p, n, job)' \in Nat
      BY <1>6, <1>7 DEF Negatives
    <3>. QED BY <3>1, <3>2, <3>3
  <2>5. Counted(n, job)' = Counted(n, job) + 1 /\ Counted(n, job) \in Nat
    <3>1. Count(mailbox'[n], N) = Count(mailbox[n], N) + 1 BY <1>5, <1>12
    <3>2. Count(mailbox[n], TimerMsg) \in Nat /\ Count(mailbox[n], N) \in Nat BY <1>6
    <3>3. Count(mailbox'[n], TimerMsg) = Count(mailbox[n], TimerMsg) BY <1>3, <1>5, <3>2
    <3>. QED BY <3>1, <3>2, <3>3 DEF Counted, N
  <2>6. acks[n] \in Int /\ acks[n] > 0 /\ acks'[n] = acks[n]
    <3>1. acks[n] \in Int BY DEF TypeOK
    <3>2. Negatives(m, n, job) > 0 BY <2>4
    <3>. QED BY <1>1, <2>3, <3>1, <3>2 DEF CreatedOK
  <2>7. /\ QuestionsOK(n, job) /\ AnswersOK(n, job)
        /\ acks[n] >= Counted(n, job) + Cardinality(Owing(n, job))
    BY <2>3, <2>6 DEF CountingOK
  <2>8. /\ Negatives(m, n, job) = 1 /\ Negatives(m, n, job)' = 0
        /\ Questions(n, m, job) = 0 /\ masters[<<m, job>>] = 0
    BY <2>4, <2>7 DEF AnswersOK
  <2>9. \A p \in Nodes : Questions(n, p, job)' = Questions(n, p, job) BY <1>9, <1>12
  <2>10. \A q, p \in Nodes : q # n => Count(net'[<<q, p>>], F) = 0
    <3>. TAKE q, p \in Nodes
    <3>1. Count(net'[<<q, p>>], F) <= Count(net[<<q, p>>], F) /\ Count(net'[<<q, p>>], F) \in Nat
      BY <1>7, <1>8
    <3>. QED BY <2>7, <3>1 DEF QuestionsOK, F
  <2>11. QuestionsOK(n, job)' BY <2>7, <2>9, <2>10 DEF QuestionsOK, F
  <2>12. \A p \in Nodes : Answered(p, n, job) => Answered(p, n, job)'
    BY <1>2, <1>4, <1>5, <1>12 DEF Answered, FoundIn
  <2>13. ASSUME NEW p \in Nodes
         PROVE  /\ Negatives(p, n, job)' <= 1
                /\ Negatives(p, n, job)' > 0 => Questions(n, p, job)' = 0 /\ masters'[<<p, job>>] = 0
                /\ RunsOn(p, job)' /\ Questions(n, p, job)' = 0 => Answered(p, n, job)'
    <3>1. CASE p = m BY <1>1, <2>1, <2>8, <3>1 DEF RunsOn
    <3>2. CASE p # m BY <1>1, <2>1, <2>4, <2>7, <2>9, <2>12, <3>2 DEF AnswersOK
    <3>. QED BY <3>1, <3>2
  <2>14. AnswersOK(n, job)' BY <2>13 DEF AnswersOK
  <2>15. m \in Owing(n, job) /\ m \notin Owing(n, job)'
    <3>1. m \in Owing(n, job) BY <2>8 DEF Owing
    <3>2. ~(Questions(n, m, job)' > 0) /\ ~(Negatives(m, n, job)' > 0) /\ ~RunsOn(m, job)'
      BY <2>1, <2>8, <2>9 DEF RunsOn
    <3>. QED BY <3>1, <3>2 DEF Owing
  <2>16. Owing(n, job)' \in SUBSET (Owing(n, job) \ {m})
    <3>1. \A p \in Nodes : p # m =>
            /\ Negatives(p, n, job)' = Negatives(p, n, job)
            /\ Questions(n, p, job)' = Questions(n, p, job)
            /\ RunsOn(p, job)' <=> RunsOn(p, job)
      BY <2>1, <2>4, <2>9
    <3>. QED BY <2>15, <3>1 DEF Owing
  <2>17. IsFiniteSet(Owing(n, job)) BY OwingFacts
  <2>18. /\ IsFiniteSet(Owing(n, job) \ {m})
         /\ Cardinality(Owing(n, job) \ {m}) = Cardinality(Owing(n, job)) - 1
    <3>1. m \in Owing(n, job) BY <2>15
    <3>. QED BY <2>17, <3>1, FS_RemoveElement
  <2>19. /\ Cardinality(Owing(n, job)') <= Cardinality(Owing(n, job) \ {m})
         /\ Cardinality(Owing(n, job)') \in Nat /\ Cardinality(Owing(n, job)) \in Nat
    BY <2>16, <2>17, <2>18, FS_Subset, FS_CardinalityType
  <2>20. CountingOK(n, job)' /\ CreatedOK(n, job)'
    BY <2>5, <2>6, <2>7, <2>11, <2>14, <2>18, <2>19 DEF CountingOK, CreatedOK
  <2>. QED BY <2>1, <2>2, <2>20 DEF SearchOK
<1>. QED BY <1>11, <1>12

\* A message is lost; its job is muddled.
LEMMA LoseKeepsSearch ==
  ASSUME TInv, TypeOK', NEW m \in Nodes, NEW n \in Nodes, Lose(m, n),
         NEW job \in Jobs, job \notin muddled', SearchOK(job)
  PROVE  SearchOK(job)'
<1>. USE DEF TInv
<1>. DEFINE msg == Head(net[<<m, n>>])
<1>1. /\ net[<<m, n>>] # <<>> /\ net' = [net EXCEPT ![<<m, n>>] = Tail(@)]
      /\ muddled' = muddled \cup {msg.job}
      /\ UNCHANGED <<behavior, acks, jobToStart, mailbox, masters, outcome, jobOf, up>>
  BY DEF Lose, actorVars, jobVars, clusterVars
<1>2. /\ \A p, q \in Nodes : <<p, q>> # <<m, n>> => net'[<<p, q>>] = net[<<p, q>>]
      /\ ToSet(net[<<m, n>>]) = {msg} \cup ToSet(net'[<<m, n>>])
      /\ \A x : Count(net[<<m, n>>], x) = Count(net'[<<m, n>>], x) + (IF x = msg THEN 1 ELSE 0)
  BY <1>1, DepartureFacts
<1>3. msg # FindRunningJob(job) /\ msg # JobNotFound(job) /\ ~IsFound(msg, job)
  BY <1>1, MessageFacts DEF IsFound
<1>. HIDE DEF msg
<1>4. /\ \A p \in Nodes : \A x : Count(mailbox[p], x) \in Nat
      /\ \A q, p \in Nodes : \A x : Count(net[<<q, p>>], x) \in Nat
      /\ \A q, p \in Nodes : \A x : Count(net'[<<q, p>>], x) \in Nat
  <2>1. \A q, p \in Nodes : \A x : Count(net'[<<q, p>>], x) \in Nat
    BY CountsAreNat DEF TypeOK
  <2>. QED BY <2>1, CountNat
<1>5. ASSUME NEW x \in {FindRunningJob(job), JobNotFound(job)}, NEW q \in Nodes, NEW p \in Nodes
      PROVE  Count(net'[<<q, p>>], x) = Count(net[<<q, p>>], x)
  <2>1. CASE <<q, p>> = <<m, n>>
    <3>1. x # msg BY <1>3
    <3>2. Count(net'[<<m, n>>], x) \in Nat BY <1>4
    <3>. QED BY <1>2, <2>1, <3>1, <3>2
  <2>2. CASE <<q, p>> # <<m, n>> BY <1>2, <2>2
  <2>. QED BY <2>1, <2>2
<1>6. \A q, p \in Nodes : FoundIn(net[<<q, p>>], job) => FoundIn(net'[<<q, p>>], job)
  <2>. TAKE q, p \in Nodes
  <2>1. CASE <<q, p>> = <<m, n>> BY <1>2, <1>3, <2>1 DEF FoundIn
  <2>2. CASE <<q, p>> # <<m, n>> BY <1>2, <2>2
  <2>. QED BY <2>1, <2>2
<1>7. ASSUME NEW q \in Nodes PROVE CalmAt(q, job)
  <2>1. (Searching(q, job)' <=> Searching(q, job)) /\ Counted(q, job)' = Counted(q, job)
    BY <1>1 DEF Searching, Counted
  <2>2. Counted(q, job) \in Nat BY <1>4 DEF Counted
  <2>3. ASSUME NEW p \in Nodes PROVE CalmFor(q, p, job)
    <3>1. Questions(q, p, job)' = Questions(q, p, job) BY <1>1, <1>5 DEF Questions
    <3>2. Negatives(p, q, job)' = Negatives(p, q, job) BY <1>5 DEF Negatives
    <3>3. Answered(p, q, job) => Answered(p, q, job)' BY <1>1, <1>6 DEF Answered
    <3>4. Questions(q, p, job) \in Nat /\ Negatives(p, q, job) \in Nat
      BY <1>4 DEF Questions, Negatives
    <3>. QED BY <3>1, <3>2, <3>3, <3>4 DEF CalmFor
  <2>. QED BY <1>1, <2>1, <2>2, <2>3 DEF CalmAt
<1>8. \A q, p \in Nodes :
        Count(net'[<<q, p>>], FindRunningJob(job)) <= Count(net[<<q, p>>], FindRunningJob(job))
  <2>. TAKE q, p \in Nodes
  <2>1. Count(net[<<q, p>>], FindRunningJob(job)) \in Nat BY <1>4
  <2>2. Count(net'[<<q, p>>], FindRunningJob(job)) = Count(net[<<q, p>>], FindRunningJob(job)) BY <1>5
  <2>. QED BY <2>1, <2>2
<1>9. \A p \in Nodes : RunsOn(p, job)' => RunsOn(p, job) BY <1>1 DEF RunsOn
<1>10. Calm(job) BY <1>1, <1>7, <1>8, <1>9 DEF Calm
<1>. QED BY <1>10, CalmSearch

\* A timeout fires.  When nothing is under way it stands for a node that does not
\* answer any more: all others have said no, and none runs the job.
LEMMA TimeoutFires ==
  ASSUME TInv, TypeOK', NEW n \in Nodes, FireTimeout(n),
         NEW job \in Jobs, job \notin muddled', SearchOK(job)
  PROVE  SearchOK(job)'
<1>. USE DEF TInv
<1>1. /\ behavior[n] = "SearchingForJob" /\ mailbox[n] = <<>>
      /\ mailbox' = [mailbox EXCEPT ![n] = <<TimerMsg>>]
      /\ UNCHANGED <<behavior, acks, jobToStart, net, masters, outcome, jobOf, up>>
      /\ UnderWay = {} \/ muddled' = muddled \cup {jobOf[jobToStart[n]]}
  BY DEF FireTimeout, TimerMsg, actorVars, jobVars, clusterVars
<1>2. /\ \A p \in Nodes \ {n} : mailbox'[p] = mailbox[p]
      /\ mailbox'[n] = Append(<<>>, TimerMsg)
  <2>1. mailbox \in [Nodes -> Seq(Message)] BY DEF TypeOK
  <2>2. <<TimerMsg>> = Append(<<>>, TimerMsg) OBVIOUS
  <2>3. mailbox'[n] = <<TimerMsg>> /\ \A p \in Nodes \ {n} : mailbox'[p] = mailbox[p]
    BY <1>1, <2>1
  <2>. QED BY <2>2, <2>3
<1>3. \A x : /\ Count(mailbox[n], x) = 0 /\ Count(<<>>, x) = 0
             /\ Count(mailbox'[n], x) = IF TimerMsg = x THEN 1 ELSE 0
  <2>. TAKE x
  <2>1. Count(<<>>, x) = 0 BY CountEmpty
  <2>2. <<>> \in Seq({TimerMsg}) OBVIOUS
  <2>3. Count(Append(<<>>, TimerMsg), x) = Count(<<>>, x) + (IF TimerMsg = x THEN 1 ELSE 0)
    BY ZenonT(30), <2>2, CountAppend
  <2>. QED BY <1>1, <1>2, <2>1, <2>3
<1>4. /\ FindRunningJob(job) # TimerMsg /\ JobNotFound(job) # TimerMsg
  BY MessageFacts
<1>5. /\ \A p \in Nodes : \A x : Count(mailbox[p], x) \in Nat
      /\ \A q, p \in Nodes : \A x : Count(net[<<q, p>>], x) \in Nat
  BY CountNat
<1>6. \A p \in Nodes : /\ Count(mailbox'[p], FindRunningJob(job)) = Count(mailbox[p], FindRunningJob(job))
                       /\ Count(mailbox'[p], JobNotFound(job)) = Count(mailbox[p], JobNotFound(job))
  <2>. TAKE p \in Nodes
  <2>1. CASE p = n BY <1>3, <1>4, <2>1
  <2>2. CASE p # n BY <1>2, <2>2
  <2>. QED BY <2>1, <2>2
<1>7. \A q, p \in Nodes : /\ Questions(q, p, job)' = Questions(q, p, job)
                          /\ Negatives(p, q, job)' = Negatives(p, q, job)
                          /\ Questions(q, p, job) \in Nat /\ Negatives(p, q, job) \in Nat
  <2>. TAKE q, p \in Nodes
  <2>1. net' = net BY <1>1
  <2>2. /\ Questions(q, p, job)' = Questions(q, p, job)
        /\ Negatives(p, q, job)' = Negatives(p, q, job)
    BY <1>6, <2>1 DEF Questions, Negatives
  <2>3. Questions(q, p, job) \in Nat /\ Negatives(p, q, job) \in Nat
    BY <1>5 DEF Questions, Negatives
  <2>. QED BY <2>2, <2>3
<1>8. ~FoundIn(mailbox[n], job)
  <2>1. ToSet(<<>>) = {} BY DEF ToSet
  <2>. QED BY <1>1, <2>1 DEF FoundIn
<1>9. \A q, p \in Nodes : Answered(p, q, job) => Answered(p, q, job)'
  BY <1>1, <1>2, <1>8 DEF Answered
<1>10. \A q \in Nodes : (Searching(q, job)' <=> Searching(q, job)) /\ (RunsOn(q, job)' <=> RunsOn(q, job))
  BY <1>1 DEF Searching, RunsOn
<1>11. CASE ~Searching(n, job)
  <2>1. ASSUME NEW q \in Nodes, Searching(q, job)' PROVE CalmAt(q, job)
    <3>1. q # n /\ Searching(q, job) BY <1>10, <1>11, <2>1
    <3>2. mailbox'[q] = mailbox[q] BY <1>2, <3>1
    <3>3. Counted(q, job)' = Counted(q, job) /\ Counted(q, job) \in Nat
      BY <1>5, <3>2 DEF Counted
    <3>4. \A p \in Nodes : CalmFor(q, p, job)
      <4>. TAKE p \in Nodes
      <4>1. /\ Questions(q, p, job)' <= Questions(q, p, job)
            /\ Negatives(p, q, job)' <= Negatives(p, q, job)
            /\ Questions(q, p, job)' = Questions(q, p, job)
        BY <1>7
      <4>2. Answered(p, q, job) => Answered(p, q, job)' BY <1>9
      <4>. QED BY <4>1, <4>2 DEF CalmFor
    <3>. QED BY <1>1, <3>1, <3>2, <3>3, <3>4 DEF CalmAt
  <2>2. \A q, p \in Nodes :
          Count(net'[<<q, p>>], FindRunningJob(job)) <= Count(net[<<q, p>>], FindRunningJob(job))
    <3>. TAKE q, p \in Nodes
    <3>1. Count(net[<<q, p>>], FindRunningJob(job)) \in Nat BY <1>5
    <3>2. Count(net'[<<q, p>>], FindRunningJob(job)) = Count(net[<<q, p>>], FindRunningJob(job)) BY <1>1
    <3>. QED BY <3>1, <3>2
  <2>3. Calm(job) BY <1>1, <1>10, <2>1, <2>2 DEF Calm, CalmAt
  <2>. QED BY <2>3, CalmSearch
<1>12. CASE Searching(n, job)
  <2>1. UnderWay = {} BY <1>1, <1>12 DEF Searching
  <2>2. \A q \in Nodes : Searching(q, job) => q = n BY <1>12 DEF SearchOK
  <2>3. CountingOK(n, job) /\ CreatedOK(n, job) BY <1>12 DEF SearchOK
  <2>4. acks[n] > 0 /\ acks[n] \in Int /\ acks'[n] = acks[n]
    <3>1. acks[n] \in Int BY DEF TypeOK
    <3>. QED BY <1>1, <1>8, <2>3, <3>1 DEF CreatedOK
  <2>5. QuestionsOK(n, job) /\ AnswersOK(n, job) BY <2>3, <2>4 DEF CountingOK
  <2>6. \A q, p \in Nodes : ~FoundIn(net[<<q, p>>], job) /\ \A x : Count(net[<<q, p>>], x) = 0
    <3>. TAKE q, p \in Nodes
    <3>1. net[<<q, p>>] \in Seq(Message) BY DEF TypeOK, Links
    <3>2. \A x : x \notin ToSet(net[<<q, p>>]) BY <2>1, UnderWayFacts
    <3>. QED BY <3>1, <3>2, ToSetFacts DEF FoundIn
  <2>7. \A p \in Nodes : /\ Questions(n, p, job) = 0 /\ Negatives(p, n, job) = 0 /\ ~RunsOn(p, job)
    <3>. TAKE p \in Nodes
    <3>1. Count(mailbox[p], FindRunningJob(job)) = 0
      <4>1. mailbox[p] \in Seq(Message) BY DEF TypeOK
      <4>2. FindRunningJob(job) \notin ToSet(mailbox[p]) BY <2>1, UnderWayFacts
      <4>. QED BY <4>1, <4>2, ToSetFacts
    <3>2. Questions(n, p, job) = 0 /\ Negatives(p, n, job) = 0
      BY <2>6, <3>1 DEF Questions, Negatives
    <3>3. ~Answered(p, n, job) BY <1>8, <2>6 DEF Answered
    <3>. QED BY <2>5, <3>2, <3>3 DEF AnswersOK
  <2>8. \A p \in Nodes : Questions(n, p, job)' = 0 /\ Negatives(p, n, job)' = 0 /\ ~RunsOn(p, job)'
    BY <1>7, <1>10, <2>7
  <2>9. Owing(n, job)' = {} BY <2>8 DEF Owing
  <2>10. Cardinality(Owing(n, job)') = 0 BY <2>9, FS_EmptySet
  <2>11. Counted(n, job)' = 1 BY <1>3, <1>4 DEF Counted
  <2>12. QuestionsOK(n, job)' BY <1>1, <2>5, <2>8 DEF QuestionsOK
  <2>13. AnswersOK(n, job)' BY <2>8 DEF AnswersOK
  <2>14. CountingOK(n, job)' /\ CreatedOK(n, job)'
    BY <2>4, <2>10, <2>11, <2>12, <2>13 DEF CountingOK, CreatedOK
  <2>. QED BY <1>10, <2>2, <2>8, <2>14 DEF SearchOK
<1>. QED BY <1>11, <1>12

\* A node crashes.
LEMMA CrashKeepsSearch ==
  ASSUME TInv, TypeOK', NEW n \in Nodes, Crash(n), NEW job \in Jobs, SearchOK(job)
  PROVE  SearchOK(job)'
<1>. USE DEF TInv
<1>1. /\ up' = [up EXCEPT ![n] = FALSE]
      /\ mailbox' = [mailbox EXCEPT ![n] = <<>>]
      /\ net' = [e \in Links |-> IF n \in {e[1], e[2]} THEN <<>> ELSE net[e]]
      /\ behavior' = [behavior EXCEPT ![n] = "Ready"]
      /\ acks' = [acks EXCEPT ![n] = 0]
      /\ jobToStart' = [jobToStart EXCEPT ![n] = NoStart]
      /\ masters' = [e \in Nodes \X Jobs |-> IF e[1] = n THEN 0 ELSE masters[e]]
      /\ jobOf' = jobOf /\ outcome' = outcome
  BY DEF Crash
<1>2. /\ up'[n] = FALSE /\ behavior'[n] = "Ready"
      /\ \A q \in Nodes \ {n} : /\ mailbox'[q] = mailbox[q] /\ behavior'[q] = behavior[q]
                                /\ acks'[q] = acks[q] /\ jobToStart'[q] = jobToStart[q]
                                /\ up'[q] = up[q]
  <2>1. /\ up \in [Nodes -> BOOLEAN]
        /\ behavior \in [Nodes -> {"Ready", "SearchingForJob"}]
        /\ jobToStart \in [Nodes -> Starts \cup {NoStart}]
    BY DEF TypeOK
  <2>2. /\ acks \in [Nodes -> Int]
        /\ mailbox \in [Nodes -> Seq(Message)]
    BY DEF TypeOK
  <2>3. /\ up'[n] = FALSE /\ behavior'[n] = "Ready"
        /\ \A q \in Nodes \ {n} : /\ behavior'[q] = behavior[q] /\ up'[q] = up[q]
                                  /\ jobToStart'[q] = jobToStart[q]
    BY <1>1, <2>1
  <2>4. \A q \in Nodes \ {n} : mailbox'[q] = mailbox[q] /\ acks'[q] = acks[q]
    BY <1>1, <2>2
  <2>. QED BY <2>3, <2>4
<1>3. /\ \A q, p \in Nodes : n \in {q, p} => net'[<<q, p>>] = <<>>
      /\ \A q, p \in Nodes : n \notin {q, p} => net'[<<q, p>>] = net[<<q, p>>]
  BY <1>1 DEF Links
<1>4. /\ \A p \in Nodes : masters[<<p, job>>] = 0 => masters'[<<p, job>>] = 0
      /\ \A p \in Nodes \ {n} : masters'[<<p, job>>] = masters[<<p, job>>]
  BY <1>1
<1>5. /\ \A p \in Nodes : \A x : Count(mailbox[p], x) \in Nat
      /\ \A q, p \in Nodes : \A x : Count(net[<<q, p>>], x) \in Nat
      /\ \A x : Count(<<>>, x) = 0
  BY CountNat, CountEmpty
<1>6. \A q, p \in Nodes : \A x : Count(net'[<<q, p>>], x) <= Count(net[<<q, p>>], x)
  <2>. TAKE q, p \in Nodes
  <2>. TAKE x
  <2>1. Count(net[<<q, p>>], x) \in Nat /\ Count(<<>>, x) = 0 BY <1>5
  <2>2. CASE n \in {q, p}
    <3>1. net'[<<q, p>>] = <<>> BY <1>3, <2>2
    <3>. QED BY <2>1, <3>1
  <2>3. CASE n \notin {q, p}
    <3>1. net'[<<q, p>>] = net[<<q, p>>] BY <1>3, <2>3
    <3>. QED BY <2>1, <3>1
  <2>. QED BY <2>2, <2>3
<1>7. ASSUME NEW q \in Nodes, Searching(q, job)' PROVE CalmAt(q, job)
  <2>1. q # n /\ Searching(q, job)
    BY <1>1, <1>2, <1>7 DEF Searching
  <2>2. /\ mailbox'[q] = mailbox[q] /\ acks'[q] = acks[q] /\ jobToStart'[q] = jobToStart[q]
    BY <1>2, <2>1
  <2>3. Counted(q, job)' = Counted(q, job) /\ Counted(q, job) \in Nat
    <3>1. Counted(q, job)' = Counted(q, job) BY <2>2 DEF Counted
    <3>2. Counted(q, job) \in Nat BY SMTT(20), <1>5 DEF Counted
    <3>. QED BY <3>1, <3>2
  <2>4. ASSUME NEW p \in Nodes PROVE CalmFor(q, p, job)
    <3>1. Negatives(p, q, job)' <= Negatives(p, q, job) BY <1>6 DEF Negatives
    <3>2. CASE p = n
      <4>1. ~RunsOn(p, job)' BY <1>2, <3>2 DEF RunsOn
      <4>2. Questions(q, p, job)' <= Questions(q, p, job)
        <5>1. mailbox'[p] = <<>>
          <6>1. mailbox \in [Nodes -> Seq(Message)] BY DEF TypeOK
          <6>. QED BY <1>1, <3>2, <6>1
        <5>2. net'[<<q, p>>] = <<>> BY <1>3, <3>2
        <5>3. Questions(q, p, job)' = 0 BY <1>5, <5>1, <5>2 DEF Questions
        <5>4. Questions(q, p, job) \in Nat BY <1>5 DEF Questions
        <5>. QED BY <5>3, <5>4
      <4>. QED BY <3>1, <4>1, <4>2 DEF CalmFor
    <3>3. CASE p # n
      <4>1. mailbox'[p] = mailbox[p] BY <1>2, <3>3
      <4>2. net'[<<q, p>>] = net[<<q, p>>] /\ net'[<<p, q>>] = net[<<p, q>>]
        BY <1>3, <2>1, <3>3
      <4>3. Questions(q, p, job)' = Questions(q, p, job) BY <4>1, <4>2 DEF Questions
      <4>4. Questions(q, p, job) \in Nat BY <1>5 DEF Questions
      <4>5. Answered(p, q, job)' <=> Answered(p, q, job) BY <2>2, <4>2 DEF Answered
      <4>. QED BY <3>1, <4>3, <4>4, <4>5 DEF CalmFor
    <3>. QED BY <3>2, <3>3
  <2>. QED BY <1>1, <2>1, <2>2, <2>3, <2>4 DEF CalmAt
<1>8. \A p \in Nodes : RunsOn(p, job)' => RunsOn(p, job)
  BY <1>2, <1>4 DEF RunsOn
<1>9. Calm(job) BY <1>4, <1>6, <1>7, <1>8 DEF Calm, CalmAt
<1>. QED BY <1>9, CalmSearch

\* No step disturbs the searches that are not muddled.
LEMMA SearchesInductive ==
  TInv /\ SearchesOK /\ HoldersOK /\ TInv' /\ [Next]_vars => SearchesOK'
<1>. SUFFICES ASSUME TInv, SearchesOK, HoldersOK, TInv', [Next]_vars,
                     NEW job \in Jobs, job \notin muddled'
              PROVE  SearchOK(job)'
  BY DEF SearchesOK
<1>1. TypeOK /\ TypeOK' BY DEF TInv
<1>2. CASE UNCHANGED vars
  <2>1. /\ UNCHANGED <<behavior, acks, jobToStart, jobOf, up, mailbox, net, masters, outcome>>
        /\ muddled' = muddled
    BY <1>2 DEF vars, actorVars, jobVars, clusterVars
  <2>2. SearchOK(job) BY <2>1 DEF SearchesOK
  <2>3. Calm(job) BY <1>1, <2>1, StillCalm DEF RunsOn
  <2>. QED BY <1>1, <2>2, <2>3, CalmSearch
<1>3. ASSUME NEW n \in Nodes, Handle(n) PROVE SearchOK(job)'
  <2>1. muddled \subseteq muddled'
    BY <1>3 DEF Handle, Ready, SearchingForJob, BeginSearch, HandleFindRunningJob, Ignore, PutAside,
                SubscribeToFound, TreatAsNotFound, CountDown, CreateCrawlMaster, RestartOnDuplicateName
  <2>2. SearchOK(job) BY <2>1 DEF SearchesOK
  <2>. QED BY <1>1, <1>3, <2>2, HandleKeepsSearch
<1>4. ASSUME NEW n \in Nodes, FireTimeout(n) PROVE SearchOK(job)'
  <2>1. SearchOK(job) BY <1>4 DEF SearchesOK, FireTimeout
  <2>. QED BY <1>1, <1>4, <2>1, TimeoutFires
<1>5. ASSUME NEW n \in Nodes, Crash(n) PROVE SearchOK(job)'
  <2>1. SearchOK(job) BY <1>5 DEF SearchesOK, Crash
  <2>. QED BY <1>1, <1>5, <2>1, CrashKeepsSearch
<1>6. ASSUME NEW n \in Nodes, NEW s \in Starts, SendStart(s, n) PROVE SearchOK(job)'
  <2>1. SearchOK(job) BY <1>6 DEF SearchesOK, SendStart
  <2>. QED BY <1>1, <1>6, <2>1, SendStartKeepsSearch
<1>7. ASSUME NEW n \in Nodes, NEW j \in Jobs, EndJob(n, j) PROVE SearchOK(job)'
  <2>1. /\ UNCHANGED <<behavior, acks, jobToStart, jobOf, up, mailbox, net, outcome>>
        /\ muddled' = muddled /\ masters' = [masters EXCEPT ![<<n, j>>] = 0]
    BY <1>7 DEF EndJob, actorVars, clusterVars
  <2>2. SearchOK(job) BY <2>1 DEF SearchesOK
  <2>3. \A p \in Nodes : /\ masters[<<p, job>>] = 0 => masters'[<<p, job>>] = 0
                         /\ masters'[<<p, job>>] # 0 => masters[<<p, job>>] # 0
    BY <1>1, <2>1 DEF TypeOK
  <2>4. \A p \in Nodes : RunsOn(p, job)' => RunsOn(p, job) BY <2>1, <2>3 DEF RunsOn
  <2>5. Calm(job) BY <1>1, <2>1, <2>3, <2>4, StillCalm
  <2>. QED BY <1>1, <2>2, <2>5, CalmSearch
<1>8. ASSUME NEW m \in Nodes, NEW n \in Nodes, Deliver(m, n) PROVE SearchOK(job)'
  <2>1. SearchOK(job) BY <1>8 DEF SearchesOK, Deliver
  <2>. QED BY <1>1, <1>8, <2>1, DeliverKeepsSearch
<1>9. ASSUME NEW m \in Nodes, NEW n \in Nodes, Lose(m, n) PROVE SearchOK(job)'
  <2>1. SearchOK(job) BY <1>9 DEF SearchesOK, Lose
  <2>. QED BY <1>1, <1>9, <2>1, LoseKeepsSearch
<1>10. ASSUME NEW m \in Nodes, NEW n \in Nodes, MemberRemoved(m, n) PROVE SearchOK(job)'
  <2>1. /\ UNCHANGED <<behavior, acks, jobToStart, jobOf, up, mailbox, net, masters, outcome>>
        /\ muddled' = muddled
    BY <1>10 DEF MemberRemoved, actorVars, jobVars
  <2>2. SearchOK(job) BY <2>1 DEF SearchesOK
  <2>3. Calm(job) BY <1>1, <2>1, StillCalm DEF RunsOn
  <2>. QED BY <1>1, <2>2, <2>3, CalmSearch
<1>. QED BY <1>2, <1>3, <1>4, <1>5, <1>6, <1>7, <1>8, <1>9, <1>10 DEF Next

-----------------------------------------------------------------------------
\* The commands.

\* A step that gives the command s to no other node and takes it from none, unless
\* something becomes of it, its job is muddled or a node is down.
KeepsHolders(s) ==
  /\ \A p \in Nodes : HeldBy(p, s)' => HeldBy(p, s)
  /\ outcome'[s] = "unsent" => outcome[s] = "unsent"
  /\ outcome'[s] = "open" => outcome[s] = "open"
  /\ (\A p \in Nodes : up'[p]) => \A p \in Nodes : up[p]
  /\ muddled \subseteq muddled'
  /\ (\A p \in Nodes : up'[p]) /\ jobOf[s] \notin muddled'
       => \A p \in Nodes : HeldBy(p, s) => HeldBy(p, s)' \/ outcome'[s] # "open"

LEMMA HoldersKept ==
  ASSUME jobOf' = jobOf, HoldersOK, KeptOK, \A s \in Starts : KeepsHolders(s)
  PROVE  HoldersOK' /\ KeptOK'
<1>1. HoldersOK' BY DEF HoldersOK, KeepsHolders
<1>2. ASSUME \A p \in Nodes : up'[p],
             NEW s \in Starts, outcome'[s] = "open", jobOf[s] \notin muddled'
      PROVE  \E p \in Nodes : HeldBy(p, s)'
  <2>1. KeepsHolders(s) OBVIOUS
  <2>2. (\A p \in Nodes : up[p]) /\ outcome[s] = "open" /\ jobOf[s] \notin muddled
    BY <1>2, <2>1 DEF KeepsHolders
  <2>3. PICK p \in Nodes : HeldBy(p, s) BY <2>2 DEF KeptOK
  <2>4. HeldBy(p, s)' BY <1>2, <2>1, <2>3 DEF KeepsHolders
  <2>. QED BY <2>4
<1>3. KeptOK' BY <1>2 DEF KeptOK
<1>. QED BY <1>1, <1>3

\* The search and the stash of the nodes but n do not change.
OthersStay(n) ==
  \A p \in Nodes \ {n} : /\ behavior'[p] = behavior[p] /\ stash'[p] = stash[p]
                         /\ jobToStart'[p] = jobToStart[p]

\* The command of s is in the mailbox of n after a step that handles the head and
\* puts back what is in kept if it is in kept or in the rest of the mailbox.
CommandMoved(n, kept, s) ==
  /\ StartJob(s)' = StartJob(s) /\ StartJob(s).start = s /\ StartJob(s).type = "StartJob"
  /\ \A p \in Nodes \ {n} : HeldBy(p, s)' <=> HeldBy(p, s)
  /\ StartJob(s) \in ToSet(mailbox'[n])
       <=> StartJob(s) \in kept \/ StartJob(s) \in ToSet(Tail(mailbox[n]))
  /\ StartJob(s) \in ToSet(mailbox[n])
       <=> StartJob(s) = Head(mailbox[n]) \/ StartJob(s) \in ToSet(Tail(mailbox[n]))

AllSent(out) == \A x \in out : Sent(x)

\* What a handler of n leaves of the commands in its mailbox.
LEMMA MovesCommands ==
  ASSUME TInv, NEW n \in Nodes, mailbox[n] # <<>>, jobOf' = jobOf,
         NEW kept, NEW out, AllSent(out), Moves(n, kept, out), OthersStay(n),
         NEW s \in Starts
  PROVE  CommandMoved(n, kept, s)
<1>. USE DEF TInv
<1>1. StartJob(s)' = StartJob(s) BY DEF StartJob
<1>2. IsStart(StartJob(s)) /\ StartJob(s).start = s /\ StartJob(s).type = "StartJob"
  <2>1. \E job \in Jobs : TRUE BY DEF TypeOK
  <2>2. PICK job \in Jobs : TRUE BY <2>1
  <2>. QED BY <2>2, MessageFacts
<1>3. StartJob(s) \notin out BY <1>2, SentIsNoTimer DEF AllSent
<1>4. \A p \in Nodes \ {n} : mailbox'[p] = mailbox[p] BY DEF Moves
<1>5. \A p \in Nodes \ {n} : HeldBy(p, s)' <=> HeldBy(p, s)
  BY <1>1, <1>4 DEF HeldBy, OthersStay
<1>6. ToSet(mailbox'[n]) = kept \cup ToSet(Tail(mailbox[n])) \cup out BY DEF Moves
<1>7. ToSet(mailbox[n]) = {Head(mailbox[n])} \cup ToSet(Tail(mailbox[n])) BY HeadFacts
<1>. QED BY <1>1, <1>2, <1>3, <1>5, <1>6, <1>7 DEF CommandMoved

\* A message that is no command is handled, and the search of n, if any, goes on.
LEMMA OtherHolders ==
  ASSUME TInv, NEW n \in Nodes, mailbox[n] # <<>>, UNCHANGED clusterVars,
         NEW out, \A x \in out : Sent(x), Moves(n, {}, out),
         UNCHANGED <<behavior, jobToStart, stash>>, muddled \subseteq muddled',
         Head(mailbox[n]).type # "StartJob",
         \/ outcome' = outcome
         \/ /\ behavior[n] = "SearchingForJob"
            /\ outcome' = [outcome EXCEPT ![jobToStart[n]] = "served"],
         NEW s \in Starts
  PROVE  KeepsHolders(s)
<1>1. /\ jobOf' = jobOf /\ up' = up BY DEF clusterVars
<1>2. /\ StartJob(s)' = StartJob(s) /\ StartJob(s).type = "StartJob"
      /\ \A p \in Nodes \ {n} : HeldBy(p, s)' <=> HeldBy(p, s)
      /\ StartJob(s) \in ToSet(mailbox'[n]) <=> StartJob(s) \in ToSet(Tail(mailbox[n]))
      /\ StartJob(s) \in ToSet(mailbox[n])
           <=> StartJob(s) = Head(mailbox[n]) \/ StartJob(s) \in ToSet(Tail(mailbox[n]))
  <2>1. OthersStay(n) /\ AllSent(out) BY DEF OthersStay, AllSent
  <2>2. CommandMoved(n, {}, s) BY <1>1, <2>1, MovesCommands
  <2>. QED BY <2>2 DEF CommandMoved
<1>3. HeldBy(n, s)' <=> HeldBy(n, s) BY <1>1, <1>2 DEF HeldBy
<1>4. outcome \in [Starts -> {"unsent", "open", "served", "undelivered"}] BY DEF TInv, TypeOK
<1>5. outcome'[s] = outcome[s] \/ outcome'[s] = "served" BY <1>4
<1>. QED BY <1>1, <1>2, <1>3, <1>5 DEF KeepsHolders

\* The search of n ends, and what was put aside is returned.
LEMMA BackHolders ==
  ASSUME TInv, NEW n \in Nodes, mailbox[n] # <<>>, UNCHANGED clusterVars,
         BackToReady(n, Tail(mailbox[n])), muddled' = muddled,
         Head(mailbox[n]).type # "StartJob",
         \A p \in Nodes \ {n} : jobToStart'[p] = jobToStart[p],
         NEW s \in Starts,
         outcome'[s] = outcome[s] \/ outcome'[s] \in {"served", "undelivered"},
         behavior[n] = "SearchingForJob" /\ jobToStart[n] = s
           => outcome'[s] # "open" \/ jobOf[s] \in muddled
  PROVE  KeepsHolders(s)
<1>1. /\ jobOf' = jobOf /\ up' = up BY DEF clusterVars
<1>2. Moves(n, ToSet(stash[n]), {}) BY MovesBack DEF TInv
<1>3. /\ behavior'[n] = "Ready" /\ stash'[n] = <<>>
      /\ \A p \in Nodes \ {n} : behavior'[p] = behavior[p] /\ stash'[p] = stash[p]
  <2>1. behavior \in [Nodes -> {"Ready", "SearchingForJob"}] /\ stash \in [Nodes -> Seq(Message)]
    BY DEF TInv, TypeOK
  <2>. QED BY <2>1 DEF BackToReady
<1>4. /\ StartJob(s)' = StartJob(s) /\ StartJob(s).type = "StartJob"
      /\ \A p \in Nodes \ {n} : HeldBy(p, s)' <=> HeldBy(p, s)
      /\ StartJob(s) \in ToSet(mailbox'[n])
           <=> StartJob(s) \in ToSet(stash[n]) \/ StartJob(s) \in ToSet(Tail(mailbox[n]))
      /\ StartJob(s) \in ToSet(mailbox[n])
           <=> StartJob(s) = Head(mailbox[n]) \/ StartJob(s) \in ToSet(Tail(mailbox[n]))
  <2>1. OthersStay(n) BY <1>3 DEF OthersStay
  <2>2. AllSent({}) BY DEF AllSent
  <2>3. CommandMoved(n, ToSet(stash[n]), s) BY <1>1, <1>2, <2>1, <2>2, MovesCommands
  <2>. QED BY <2>3 DEF CommandMoved
<1>5. ToSet(<<>>) = {} BY EmptyToSet
<1>6. HeldBy(n, s)' => HeldBy(n, s) BY <1>3, <1>4, <1>5 DEF HeldBy
<1>7. HeldBy(n, s) => HeldBy(n, s)' \/ outcome'[s] # "open" \/ jobOf[s] \in muddled
  BY <1>3, <1>4 DEF HeldBy
<1>. QED BY <1>1, <1>4, <1>6, <1>7 DEF KeepsHolders

LEMMA HandleKeepsHolders ==
  ASSUME TInv, SearchesOK, NEW n \in Nodes, Handle(n), NEW s \in Starts
  PROVE  KeepsHolders(s)
<1>. USE DEF TInv
<1>. DEFINE msg  == Head(mailbox[n])
            rest == Tail(mailbox[n])
            J    == jobOf[jobToStart[n]]
<1>1. /\ up[n] /\ mailbox[n] # <<>> /\ UNCHANGED clusterVars
      /\ jobOf' = jobOf /\ up' = up
  BY DEF Handle, clusterVars
<1>2. WellFormed(msg) BY <1>1, HeadFacts
<1>3. /\ outcome \in [Starts -> {"unsent", "open", "served", "undelivered"}]
      /\ stash \in [Nodes -> Seq(Message)] /\ msg \in Message
      /\ behavior \in [Nodes -> {"Ready", "SearchingForJob"}]
      /\ jobToStart \in [Nodes -> Starts \cup {NoStart}]
  BY <1>1, HeadFacts DEF TypeOK
<1>4. ASSUME SendsNothing(n, rest), UNCHANGED <<behavior, jobToStart, stash, outcome, muddled>>,
             msg.type # "StartJob"
      PROVE  KeepsHolders(s)
  <2>1. Moves(n, {}, {}) BY <1>1, <1>4, MovesNothing
  <2>. QED BY <1>1, <1>4, <2>1, OtherHolders
<1>5. ASSUME HandleFindRunningJob(n, msg, rest), msg.type = "FindRunningJob"
      PROVE  KeepsHolders(s)
  <2>1. msg.job \in Jobs BY <1>2, <1>5, KindFacts
  <2>2. PICK x : Sent(x) /\ Broadcast(n, rest, x)
    <3>1. CASE HaveChild(n, msg.job)
      <4>1. [node |-> n, nr |-> masters[<<n, msg.job>>]] \in Ref
        BY <2>1, <3>1 DEF HaveChild, Ref, TypeOK
      <4>2. Sent(JobFound(msg.job, [node |-> n, nr |-> masters[<<n, msg.job>>]]))
        BY <2>1, <4>1, MessageFacts
      <4>. QED BY <1>5, <3>1, <4>2 DEF HandleFindRunningJob
    <3>2. CASE ~HaveChild(n, msg.job)
      BY <1>5, <2>1, <3>2, MessageFacts DEF HandleFindRunningJob
    <3>. QED BY <3>1, <3>2
  <2>3. Moves(n, {}, {x}) BY <1>1, <2>2, MovesBroadcast
  <2>4. UNCHANGED <<behavior, jobToStart, stash, outcome, muddled>> /\ msg.type # "StartJob"
    BY <1>5 DEF HandleFindRunningJob, actorVars
  <2>. QED BY <1>1, <2>2, <2>3, <2>4, OtherHolders
<1>6. CASE behavior[n] = "Ready" /\ msg.type = "StartJob" /\ BeginSearch(n, msg, rest)
  <2>1. msg.start \in Starts /\ msg = StartJob(msg.start) /\ msg.job \in Jobs
    BY <1>2, <1>6, KindFacts DEF IsStart
  <2>2. /\ jobToStart' = [jobToStart EXCEPT ![n] = msg.start]
        /\ behavior' = [behavior EXCEPT ![n] = "SearchingForJob"]
        /\ Broadcast(n, rest, FindRunningJob(msg.job)) /\ muddled \subseteq muddled'
        /\ stash' = stash /\ outcome' = outcome
    BY <1>6 DEF BeginSearch, Remember
  <2>3. Sent(FindRunningJob(msg.job)) BY <2>1, MessageFacts
  <2>4. Moves(n, {}, {FindRunningJob(msg.job)}) BY <1>1, <2>2, <2>3, MovesBroadcast
  <2>5. /\ behavior'[n] = "SearchingForJob" /\ jobToStart'[n] = msg.start
        /\ \A p \in Nodes \ {n} : /\ behavior'[p] = behavior[p] /\ stash'[p] = stash[p]
                                  /\ jobToStart'[p] = jobToStart[p]
    BY <1>3, <2>2
  <2>6. /\ StartJob(s)' = StartJob(s) /\ StartJob(s).start = s
        /\ \A p \in Nodes \ {n} : HeldBy(p, s)' <=> HeldBy(p, s)
        /\ StartJob(s) \in ToSet(mailbox'[n]) <=> StartJob(s) \in ToSet(Tail(mailbox[n]))
        /\ StartJob(s) \in ToSet(mailbox[n])
             <=> StartJob(s) = msg \/ StartJob(s) \in ToSet(Tail(mailbox[n]))
    <3>1. OthersStay(n) /\ AllSent({FindRunningJob(msg.job)})
      BY <2>3, <2>5 DEF OthersStay, AllSent
    <3>2. CommandMoved(n, {}, s) BY <1>1, <2>4, <3>1, MovesCommands
    <3>. QED BY <3>2 DEF CommandMoved
  <2>7. StartJob(s) = msg <=> s = msg.start BY <2>1, <2>6
  <2>8. HeldBy(n, s)' <=> HeldBy(n, s)
    BY <1>6, <2>2, <2>5, <2>6, <2>7 DEF HeldBy
  <2>. QED BY <1>1, <2>2, <2>6, <2>8 DEF KeepsHolders
<1>7. CASE behavior[n] = "SearchingForJob" /\ msg.type = "StartJob" /\ PutAside(n, msg, rest)
  <2>1. /\ UNCHANGED <<behavior, jobToStart, outcome, muddled>>
        /\ stash' = [stash EXCEPT ![n] = Append(@, msg)] /\ SendsNothing(n, rest)
    BY <1>7 DEF PutAside
  <2>2. Moves(n, {}, {}) BY <1>1, <2>1, MovesNothing
  <2>3. /\ stash'[n] = Append(stash[n], msg) /\ stash[n] \in Seq(Message)
        /\ \A p \in Nodes \ {n} : stash'[p] = stash[p]
    BY <1>3, <2>1
  <2>4. ToSet(stash'[n]) = ToSet(stash[n]) \cup {msg}
    <3>1. msg \in Message BY <1>3
    <3>. HIDE DEF msg
    <3>2. ToSet(Append(stash[n], msg)) = ToSet(stash[n]) \cup {msg} BY <2>3, <3>1, ToSetFacts
    <3>. QED BY <2>3, <3>2
  <2>5. /\ StartJob(s)' = StartJob(s)
        /\ \A p \in Nodes \ {n} : HeldBy(p, s)' <=> HeldBy(p, s)
        /\ StartJob(s) \in ToSet(mailbox'[n]) <=> StartJob(s) \in ToSet(Tail(mailbox[n]))
        /\ StartJob(s) \in ToSet(mailbox[n])
             <=> StartJob(s) = msg \/ StartJob(s) \in ToSet(Tail(mailbox[n]))
    <3>1. OthersStay(n) /\ AllSent({}) BY <2>1, <2>3 DEF OthersStay, AllSent
    <3>2. CommandMoved(n, {}, s) BY <1>1, <2>2, <3>1, MovesCommands
    <3>. QED BY <3>2 DEF CommandMoved
  <2>6. HeldBy(n, s)' <=> HeldBy(n, s)
    BY <2>1, <2>4, <2>5 DEF HeldBy
  <2>. QED BY <1>1, <2>1, <2>5, <2>6 DEF KeepsHolders
<1>8. CASE behavior[n] = "Ready" /\ msg.type \notin {"StartJob", "FindRunningJob"} /\ Ignore(n, rest)
  BY <1>4, <1>8 DEF Ignore, actorVars
<1>9. CASE behavior[n] = "SearchingForJob" /\ msg.type = "JobFound" /\ msg.job = J
             /\ SubscribeToFound(n, msg, rest)
  <2>1. jobToStart[n] \in Starts BY <1>9 DEF TypeOK
  <2>2. /\ outcome' = [outcome EXCEPT ![jobToStart[n]] =
                   IF @ = "served" \/ Alive(msg.job, msg.ref) THEN "served" ELSE "undelivered"]
        /\ BackToReady(n, rest) /\ jobToStart' = jobToStart /\ muddled' = muddled
    BY <1>9 DEF SubscribeToFound
  <2>3. /\ outcome'[s] = outcome[s] \/ outcome'[s] \in {"served", "undelivered"}
        /\ jobToStart[n] = s => outcome'[s] # "open"
    BY <1>3, <2>1, <2>2
  <2>4. msg.type # "StartJob" BY <1>9
  <2>. QED BY <1>1, <2>2, <2>3, <2>4, BackHolders
<1>10. CASE behavior[n] = "SearchingForJob" /\ msg.type = "ReceiveTimeout" /\ TreatAsNotFound(n, rest)
  <2>1. J \in Jobs BY <1>10 DEF TypeOK
  <2>2. Broadcast(n, rest, JobNotFound(J)) BY <1>10 DEF TreatAsNotFound
  <2>. HIDE DEF J
  <2>3. Sent(JobNotFound(J)) BY <2>1, MessageFacts
  <2>4. Moves(n, {}, {JobNotFound(J)}) BY <1>1, <2>2, <2>3, MovesBroadcast
  <2>5. UNCHANGED <<behavior, jobToStart, stash, outcome, muddled>> /\ msg.type # "StartJob"
    BY <1>10 DEF TreatAsNotFound, actorVars
  <2>. QED BY <1>1, <2>3, <2>4, <2>5, OtherHolders
<1>11. CASE behavior[n] = "SearchingForJob" /\ msg.type = "JobNotFound" /\ msg.job = J
              /\ CountDown(n, msg, rest)
  BY <1>4, <1>11 DEF CountDown
<1>12. CASE behavior[n] = "SearchingForJob" /\ msg.type = "JobNotFound" /\ msg.job = J
              /\ CreateCrawlMaster(n, msg, rest)
  <2>. DEFINE ref == [node |-> n, nr |-> created'[msg.job]]
  <2>1. msg.job \in Jobs BY <1>2, <1>12, KindFacts
  <2>2. /\ created' = [created EXCEPT ![msg.job] = @ + 1]
        /\ Broadcast(n, rest, JobFound(msg.job, ref))
        /\ outcome' = [outcome EXCEPT ![jobToStart[n]] = "served"]
        /\ UNCHANGED <<behavior, jobToStart, stash, muddled>>
    BY <1>12 DEF CreateCrawlMaster
  <2>3. created'[msg.job] \in Nat \ {0}
    <3>1. created'[msg.job] = created[msg.job] + 1 /\ created[msg.job] \in Nat
      BY <2>1, <2>2 DEF TypeOK
    <3>. QED BY <3>1
  <2>4. ref \in Ref BY <2>3 DEF Ref
  <2>. HIDE DEF ref
  <2>5. Sent(JobFound(msg.job, ref)) BY <2>1, <2>4, MessageFacts
  <2>6. Moves(n, {}, {JobFound(msg.job, ref)}) BY <1>1, <2>2, <2>5, MovesBroadcast
  <2>7. msg.type # "StartJob" /\ muddled \subseteq muddled' BY <1>12, <2>2
  <2>8. UNCHANGED <<behavior, jobToStart, stash>> BY <2>2
  <2>9. /\ behavior[n] = "SearchingForJob"
        /\ outcome' = [outcome EXCEPT ![jobToStart[n]] = "served"]
    BY <1>12, <2>2
  <2>10. \A x \in {JobFound(msg.job, ref)} : Sent(x) BY <2>5
  <2>. QED BY ZenonT(30), <1>1, <2>6, <2>7, <2>8, <2>9, <2>10, OtherHolders
<1>13. CASE behavior[n] = "SearchingForJob" /\ msg.type = "JobNotFound" /\ msg.job = J
              /\ RestartOnDuplicateName(n, msg, rest)
  <2>1. /\ acks[n] <= 1 /\ masters[<<n, msg.job>>] # 0
        /\ jobToStart' = [jobToStart EXCEPT ![n] = NoStart]
        /\ BackToReady(n, rest) /\ outcome' = outcome /\ muddled' = muddled
    BY <1>13 DEF RestartOnDuplicateName
  <2>2. msg = JobNotFound(J) /\ J \in Jobs /\ msg.job = J /\ Searching(n, J)
    BY <1>2, <1>13, KindFacts DEF Sent, Searching
  <2>3. J \in muddled
    <3>. HIDE DEF J
    <3>1. SUFFICES ASSUME J \notin muddled PROVE FALSE OBVIOUS
    <3>2. SearchOK(J) BY <2>2, <3>1 DEF SearchesOK
    <3>3. Owing(n, J) = {} BY <1>1, <2>1, <2>2, <3>2, LastAnswer
    <3>4. n \in Owing(n, J) BY <1>1, <2>1, <2>2 DEF Owing, RunsOn
    <3>. QED BY <3>3, <3>4
  <2>4. \A p \in Nodes \ {n} : jobToStart'[p] = jobToStart[p] BY <1>3, <2>1
  <2>5. outcome'[s] = outcome[s] /\ msg.type # "StartJob"
    BY <1>13, <2>1
  <2>. QED BY <1>1, <2>1, <2>3, <2>4, <2>5, BackHolders
<1>14. CASE behavior[n] = "SearchingForJob" /\ msg.type \in {"JobFound", "JobNotFound"} /\ Ignore(n, rest)
  BY <1>4, <1>14 DEF Ignore, actorVars
<1>15. CASE behavior[n] = "Ready" /\ Ready(n, msg, rest)
  BY <1>5, <1>6, <1>8, <1>15 DEF Ready
<1>16. CASE behavior[n] = "SearchingForJob" /\ SearchingForJob(n, msg, rest)
  BY <1>5, <1>7, <1>9, <1>10, <1>11, <1>12, <1>13, <1>14, <1>16 DEF SearchingForJob
<1>. QED BY <1>15, <1>16 DEF Handle

\* Nothing happens to the commands.
LEMMA StillHolders ==
  ASSUME UNCHANGED <<behavior, jobToStart, stash, outcome, jobOf>>,
         (\A p \in Nodes : up'[p]) => \A p \in Nodes : up[p],
         muddled \subseteq muddled', NEW s \in Starts,
         \A p \in Nodes : StartJob(s) \in ToSet(mailbox'[p]) <=> StartJob(s) \in ToSet(mailbox[p])
  PROVE  KeepsHolders(s)
<1>1. StartJob(s)' = StartJob(s) BY DEF StartJob
<1>2. \A p \in Nodes : HeldBy(p, s)' <=> HeldBy(p, s) BY <1>1 DEF HeldBy
<1>. QED BY <1>2 DEF KeepsHolders

LEMMA CrashKeepsHolders ==
  ASSUME TInv, NEW n \in Nodes, Crash(n), NEW s \in Starts
  PROVE  KeepsHolders(s)
<1>1. /\ up' = [up EXCEPT ![n] = FALSE]
      /\ mailbox' = [mailbox EXCEPT ![n] = <<>>]
      /\ behavior' = [behavior EXCEPT ![n] = "Ready"]
      /\ jobToStart' = [jobToStart EXCEPT ![n] = NoStart]
      /\ stash' = [stash EXCEPT ![n] = <<>>]
      /\ jobOf' = jobOf /\ outcome' = outcome /\ muddled' = muddled
  BY DEF Crash
<1>2. /\ up \in [Nodes -> BOOLEAN] /\ mailbox \in [Nodes -> Seq(Message)]
      /\ behavior \in [Nodes -> {"Ready", "SearchingForJob"}]
      /\ jobToStart \in [Nodes -> Starts \cup {NoStart}]
      /\ stash \in [Nodes -> Seq(Message)]
  BY DEF TInv, TypeOK
<1>3. /\ up'[n] = FALSE /\ mailbox'[n] = <<>> /\ stash'[n] = <<>> /\ behavior'[n] = "Ready"
      /\ \A p \in Nodes \ {n} : /\ mailbox'[p] = mailbox[p] /\ stash'[p] = stash[p]
                                /\ behavior'[p] = behavior[p] /\ jobToStart'[p] = jobToStart[p]
  BY <1>1, <1>2
<1>4. StartJob(s)' = StartJob(s) BY <1>1 DEF StartJob
<1>5. ~HeldBy(n, s)' BY <1>3, EmptyToSet DEF HeldBy
<1>6. \A p \in Nodes \ {n} : HeldBy(p, s)' => HeldBy(p, s) BY <1>3, <1>4 DEF HeldBy
<1>. QED BY <1>1, <1>3, <1>5, <1>6 DEF KeepsHolders

LEMMA DeliverKeepsHolders ==
  ASSUME TInv, NEW m \in Nodes, NEW n \in Nodes, Deliver(m, n), NEW s \in Starts
  PROVE  KeepsHolders(s)
<1>. DEFINE msg == Head(net[<<m, n>>])
<1>1. /\ net[<<m, n>>] # <<>> /\ net' = [net EXCEPT ![<<m, n>>] = Tail(@)]
      /\ mailbox' = [mailbox EXCEPT ![n] = Append(@, msg)]
      /\ UNCHANGED <<behavior, jobToStart, stash, outcome, jobOf, up, muddled>>
  BY DEF Deliver, actorVars, clusterVars
<1>2. Sent(msg) /\ msg \in Message BY <1>1, DepartureFacts
<1>3. StartJob(s) # msg
  <2>1. IsStart(StartJob(s)) BY DEF IsStart, StartJob, Msg
  <2>. QED BY <1>2, <2>1, SentIsNoTimer
<1>. HIDE DEF msg
<1>4. /\ \A p \in Nodes \ {n} : mailbox'[p] = mailbox[p]
      /\ ToSet(mailbox'[n]) = ToSet(mailbox[n]) \cup {msg}
  BY <1>1, <1>2, ArrivalFacts DEF TInv
<1>. QED BY <1>1, <1>3, <1>4, StillHolders

LEMMA TimeoutKeepsHolders ==
  ASSUME TInv, NEW n \in Nodes, FireTimeout(n), NEW s \in Starts
  PROVE  KeepsHolders(s)
<1>1. /\ mailbox[n] = <<>> /\ mailbox' = [mailbox EXCEPT ![n] = <<TimerMsg>>]
      /\ UNCHANGED <<behavior, jobToStart, stash, outcome, jobOf, up>>
      /\ muddled \subseteq muddled'
  BY DEF FireTimeout, TimerMsg, actorVars, clusterVars
<1>2. mailbox \in [Nodes -> Seq(Message)] BY DEF TInv, TypeOK
<1>3. /\ mailbox'[n] = <<TimerMsg>>
      /\ \A p \in Nodes \ {n} : mailbox'[p] = mailbox[p]
  BY <1>1, <1>2
<1>4. StartJob(s) \notin ToSet(<<TimerMsg>>)
  <2>1. StartJob(s) # TimerMsg BY DEF StartJob, TimerMsg, Msg
  <2>2. ToSet(<<TimerMsg>>) = {TimerMsg} BY DEF ToSet
  <2>. QED BY <2>1, <2>2
<1>5. \A p \in Nodes : StartJob(s) \in ToSet(mailbox'[p]) <=> StartJob(s) \in ToSet(mailbox[p])
  BY <1>1, <1>3, <1>4, EmptyToSet
<1>. QED BY <1>1, <1>5, StillHolders

\* The only step that gives a command to a node is the one that sends it.
LEMMA SendStartKeepsHolders ==
  ASSUME TInv, HoldersOK, KeptOK, NEW n \in Nodes, NEW s \in Starts, SendStart(s, n)
  PROVE  HoldersOK' /\ KeptOK'
<1>1. /\ outcome[s] = "unsent" /\ outcome' = [outcome EXCEPT ![s] = "open"]
      /\ mailbox' = [mailbox EXCEPT ![n] = Append(@, StartJob(s))]
      /\ UNCHANGED <<behavior, jobToStart, stash, jobOf, up, muddled>>
  BY DEF SendStart, actorVars, clusterVars
<1>2. outcome \in [Starts -> {"unsent", "open", "served", "undelivered"}] BY DEF TInv, TypeOK
<1>3. \A t \in Starts : outcome'[t] = IF t = s THEN "open" ELSE outcome[t] BY <1>1, <1>2
<1>4. \A t \in Starts : StartJob(t).start = t /\ StartJob(t)' = StartJob(t)
  BY <1>1 DEF StartJob, Msg
<1>5. StartJob(s) \in Message
  <2>1. IsStart(StartJob(s)) BY DEF IsStart, StartJob, Msg
  <2>. QED BY <2>1, KindFacts DEF WellFormed, TInv
<1>6. /\ \A p \in Nodes \ {n} : mailbox'[p] = mailbox[p]
      /\ ToSet(mailbox'[n]) = ToSet(mailbox[n]) \cup {StartJob(s)}
  BY <1>1, <1>5, ArrivalFacts DEF TInv
<1>7. \A p \in Nodes : \A t \in Starts : HeldBy(p, t)' <=> HeldBy(p, t) \/ (p = n /\ t = s)
  BY <1>1, <1>4, <1>6 DEF HeldBy
<1>8. \A p \in Nodes : ~HeldBy(p, s) BY <1>1 DEF HoldersOK
<1>9. HoldersOK' BY <1>3, <1>7, <1>8 DEF HoldersOK
<1>10. KeptOK' BY <1>1, <1>3, <1>7 DEF KeptOK
<1>. QED BY <1>9, <1>10

LEMMA HoldersInductive ==
  TInv /\ SearchesOK /\ HoldersOK /\ KeptOK /\ [Next]_vars => HoldersOK' /\ KeptOK'
<1>. SUFFICES ASSUME TInv, SearchesOK, HoldersOK, KeptOK, [Next]_vars
              PROVE  HoldersOK' /\ KeptOK'
  OBVIOUS
<1>1. CASE UNCHANGED vars
  <2>1. UNCHANGED <<behavior, jobToStart, stash, outcome, jobOf, up, mailbox, muddled>>
    BY <1>1 DEF vars, actorVars, clusterVars
  <2>2. \A s \in Starts : KeepsHolders(s) BY <2>1, StillHolders
  <2>. QED BY <2>1, <2>2, HoldersKept
<1>2. ASSUME NEW n \in Nodes, Handle(n) PROVE HoldersOK' /\ KeptOK'
  <2>1. \A s \in Starts : KeepsHolders(s) BY <1>2, HandleKeepsHolders
  <2>2. jobOf' = jobOf BY <1>2 DEF Handle, clusterVars
  <2>. QED BY <2>1, <2>2, HoldersKept
<1>3. ASSUME NEW n \in Nodes, FireTimeout(n) PROVE HoldersOK' /\ KeptOK'
  <2>1. \A s \in Starts : KeepsHolders(s) BY <1>3, TimeoutKeepsHolders
  <2>2. jobOf' = jobOf BY <1>3 DEF FireTimeout, clusterVars
  <2>. QED BY <2>1, <2>2, HoldersKept
<1>4. ASSUME NEW n \in Nodes, Crash(n) PROVE HoldersOK' /\ KeptOK'
  <2>1. \A s \in Starts : KeepsHolders(s) BY <1>4, CrashKeepsHolders
  <2>2. jobOf' = jobOf BY <1>4 DEF Crash
  <2>. QED BY <2>1, <2>2, HoldersKept
<1>5. ASSUME NEW n \in Nodes, NEW s \in Starts, SendStart(s, n) PROVE HoldersOK' /\ KeptOK'
  BY <1>5, SendStartKeepsHolders
<1>6. ASSUME NEW n \in Nodes, NEW job \in Jobs, EndJob(n, job) PROVE HoldersOK' /\ KeptOK'
  <2>1. UNCHANGED <<behavior, jobToStart, stash, outcome, jobOf, up, mailbox, muddled>>
    BY <1>6 DEF EndJob, actorVars, clusterVars
  <2>2. \A s \in Starts : KeepsHolders(s) BY <2>1, StillHolders
  <2>. QED BY <2>1, <2>2, HoldersKept
<1>7. ASSUME NEW m \in Nodes, NEW n \in Nodes, Deliver(m, n) PROVE HoldersOK' /\ KeptOK'
  <2>1. \A s \in Starts : KeepsHolders(s) BY <1>7, DeliverKeepsHolders
  <2>2. jobOf' = jobOf BY <1>7 DEF Deliver, clusterVars
  <2>. QED BY <2>1, <2>2, HoldersKept
<1>8. ASSUME NEW m \in Nodes, NEW n \in Nodes, Lose(m, n) PROVE HoldersOK' /\ KeptOK'
  <2>1. /\ UNCHANGED <<behavior, jobToStart, stash, outcome, jobOf, up, mailbox>>
        /\ muddled \subseteq muddled'
    BY <1>8 DEF Lose, actorVars, clusterVars
  <2>2. \A s \in Starts : KeepsHolders(s) BY <2>1, StillHolders
  <2>. QED BY <2>1, <2>2, HoldersKept
<1>9. ASSUME NEW m \in Nodes, NEW n \in Nodes, MemberRemoved(m, n) PROVE HoldersOK' /\ KeptOK'
  <2>1. UNCHANGED <<behavior, jobToStart, stash, outcome, jobOf, up, mailbox, muddled>>
    BY <1>9 DEF MemberRemoved, actorVars
  <2>2. \A s \in Starts : KeepsHolders(s) BY <2>1, StillHolders
  <2>. QED BY <2>1, <2>2, HoldersKept
<1>. QED BY <1>1, <1>2, <1>3, <1>4, <1>5, <1>6, <1>7, <1>8, <1>9 DEF Next

-----------------------------------------------------------------------------
\* The theorems.

LEMMA InitSearches ==
  Init => SearchesOK /\ HoldersOK /\ KeptOK
<1>. SUFFICES ASSUME Init PROVE SearchesOK /\ HoldersOK /\ KeptOK OBVIOUS
<1>1. \A n \in Nodes : /\ behavior[n] = "Ready" /\ ToSet(mailbox[n]) = {} /\ ToSet(stash[n]) = {}
                       /\ \A job \in Jobs : masters[<<n, job>>] = 0
  BY EmptyToSet DEF Init
<1>2. \A n \in Nodes : \A job \in Jobs : ~RunsOn(n, job) /\ ~Searching(n, job)
  BY <1>1 DEF RunsOn, Searching
<1>3. SearchesOK BY <1>2 DEF SearchesOK, SearchOK
<1>4. \A n \in Nodes : \A s \in Starts : ~HeldBy(n, s) BY <1>1 DEF HeldBy
<1>5. \A s \in Starts : outcome[s] = "unsent" BY DEF Init
<1>. QED BY <1>3, <1>4, <1>5 DEF HoldersOK, KeptOK

\* AInv, the inductive invariant the theorems below rest on: messages have the
\* shapes and stand in the order that the handlers count on, every search that is
\* not muddled waits for at least as many acknowledgements as negative answers can
\* still come, and the commands are where the ApiMasters left them.
THEOREM SearchesInvariant == Spec => []AInv
<1>1. Init => AInv BY InitTypes, InitSearches DEF AInv
<1>2. AInv /\ [Next]_vars => AInv'
  <2>. SUFFICES ASSUME AInv, [Next]_vars PROVE AInv' OBVIOUS
  <2>1. TInv' BY TypesInductive DEF AInv
  <2>2. SearchesOK' BY <2>1, SearchesInductive DEF AInv
  <2>3. HoldersOK' /\ KeptOK' BY HoldersInductive DEF AInv
  <2>. QED BY <2>1, <2>2, <2>3 DEF AInv
<1>. QED BY <1>1, <1>2, PTL DEF Spec

\* Whichever nodes are asked to start a job, and whatever crashes, is late, is lost
\* or ends in between, two nodes never run a CrawlMaster of the same job, as long
\* as the searches for it counted only answers of their own.
THEOREM OneMaster == Spec => []OneCrawlMasterPerJob
<1>1. AInv => OneCrawlMasterPerJob
  <2>. SUFFICES ASSUME AInv, NEW job \in Jobs \ muddled
                PROVE  Cardinality({n \in Nodes : RunsOn(n, job)}) <= 1
    BY DEF OneCrawlMasterPerJob, AInv, TInv
  <2>. DEFINE R == {n \in Nodes : RunsOn(n, job)}
  <2>1. \A m, n \in Nodes : RunsOn(m, job) /\ RunsOn(n, job) => m = n
    BY DEF AInv, SearchesOK, SearchOK
  <2>2. CASE R = {}
    <3>1. Cardinality(R) = 0 BY <2>2, FS_EmptySet
    <3>. QED BY <3>1
  <2>3. CASE R # {}
    <3>1. PICK n \in R : TRUE BY <2>3
    <3>2. R = {n} BY <2>1, <3>1
    <3>3. Cardinality(R) = 1 BY <3>2, FS_Singleton
    <3>. QED BY <3>3
  <2>. QED BY <2>2, <2>3
<1>. QED BY <1>1, SearchesInvariant, PTL

\* A start command that nothing has become of yet is with exactly one ApiMaster,
\* through stashing, restarts and routing, as long as no node has crashed and the
\* searches for its job counted only answers of their own.
THEOREM CommandsKept == Spec => []StartsAreKept
<1>1. AInv => StartsAreKept
  <2>. SUFFICES ASSUME AInv, \A n \in Nodes : up[n], NEW s \in Starts,
                       outcome[s] = "open", jobOf[s] \notin muddled
                PROVE  Cardinality({n \in Nodes : HeldBy(n, s)}) = 1
    BY DEF StartsAreKept
  <2>1. PICK n \in Nodes : HeldBy(n, s) BY DEF AInv, KeptOK
  <2>2. \A m \in Nodes : HeldBy(m, s) => m = n BY <2>1 DEF AInv, HoldersOK
  <2>3. {m \in Nodes : HeldBy(m, s)} = {n} BY <2>1, <2>2
  <2>. QED BY <2>3, FS_Singleton
<1>. QED BY <1>1, SearchesInvariant, PTL

=============================================================================
