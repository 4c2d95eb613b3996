------------------------- MODULE CrawlMasterProofs --------------------------
(***************************************************************************)
(* Theorems about CrawlMaster for every set of clients and commands, pool  *)
(* size and number of overlapping questions: the types of the state, and   *)
(* that the root is ordered once, not from an empty pool while no          *)
(* coordinator was lost, and that no command to start is dropped.          *)
(***************************************************************************)
EXTENDS CrawlMaster, SequenceTheorems, TLAPS

USE CrawlMasterAssumption DEF actorVars, poolVars, outside, historyVars

-----------------------------------------------------------------------------
\* What holds of every message the actor has: commands name a client, who left
\* again if the command says so; and unless a coordinator was lost since, the
\* pool still has the routees an answer counted.
Held ==
  {msg \in Message :
     /\ msg.type \in {"StartJob", "SubscribeToJob", "UnsubscribeFromJob"} => msg.client \in Clients
     /\ msg.type = "UnsubscribeFromJob" => msg.client \in LeftAgain
     /\ msg.type = "CrawlCanStart" /\ leaves = 0 => msg.count <= routees}

ActorOK ==
  /\ behavior \in {"WaitingForTracker", "Ready", "Started", "Stopped"}
  /\ mailbox \in Seq(Held) /\ stash \in Seq(Held)
  /\ subscribers \subseteq Clients
  /\ status \in {"Starting", "Finished"}
  /\ startTimer \in BOOLEAN
  /\ wait \in {"tracker", "silence"}

AroundOK ==
  /\ trackerAsked \in BOOLEAN
  /\ asks \in Nat /\ routees \in 0..MaxRoutees /\ leaves \in 0..MaxLeaves
  /\ reports \in 0..MaxReports
  /\ sent \subseteq Commands

\* Before Started nothing was ordered.
RootOK ==
  /\ told \in [Clients -> SUBSET {"Starting", "Finished"}]
  /\ rootRequests \in 0..1 /\ rootLost \in BOOLEAN
  /\ behavior \in {"WaitingForTracker", "Ready"} => rootRequests = 0
  /\ RootReachesACoordinator

\* The inductive invariant.
IInv == ActorOK /\ AroundOK /\ RootOK /\ CommandsAreHeld

-----------------------------------------------------------------------------
\* Facts about sequences of messages.

LEMMA SeqMonotone ==
  ASSUME NEW S, NEW T, S \subseteq T, NEW q \in Seq(S)
  PROVE  q \in Seq(T)
<1>1. q \in [1..Len(q) -> T] /\ Len(q) \in Nat BY LenProperties
<1>. QED BY <1>1, SeqDef

LEMMA HasStartTail ==
  ASSUME NEW S, NEW q \in Seq(S), q # <<>>, NEW c, HasStart(q, c)
  PROVE  (Head(q).type = "StartJob" /\ Head(q).client = c) \/ HasStart(Tail(q), c)
<1>1. PICK i \in DOMAIN q : q[i].type = "StartJob" /\ q[i].client = c BY DEF HasStart
<1>2. /\ Len(q) \in Nat /\ DOMAIN q = 1..Len(q) /\ Len(Tail(q)) = Len(q) - 1
      /\ Tail(q) \in Seq(S) /\ Head(q) = q[1]
      /\ \A k \in 1..Len(Tail(q)) : Tail(q)[k] = q[k + 1]
  BY HeadTailProperties, LenProperties
<1>3. CASE i = 1 BY <1>1, <1>2, <1>3
<1>4. CASE i # 1
  <2>1. i - 1 \in 1..Len(Tail(q)) /\ Tail(q)[i - 1] = q[i] BY <1>2, <1>4
  <2>2. DOMAIN Tail(q) = 1..Len(Tail(q)) BY <1>2, LenProperties
  <2>. QED BY <1>1, <2>1, <2>2 DEF HasStart
<1>. QED BY <1>3, <1>4

LEMMA HasStartConcat ==
  ASSUME NEW S, NEW p \in Seq(S), NEW q \in Seq(S), NEW c, HasStart(p, c) \/ HasStart(q, c)
  PROVE  HasStart(p \o q, c)
<1>1. /\ p \o q \in Seq(S) /\ Len(p \o q) = Len(p) + Len(q)
      /\ \A i \in 1..(Len(p) + Len(q)) :
           (p \o q)[i] = IF i <= Len(p) THEN p[i] ELSE q[i - Len(p)]
  BY ConcatProperties
<1>2. /\ Len(p) \in Nat /\ DOMAIN p = 1..Len(p) /\ Len(q) \in Nat /\ DOMAIN q = 1..Len(q)
      /\ DOMAIN (p \o q) = 1..(Len(p) + Len(q))
  BY <1>1, LenProperties
<1>3. CASE HasStart(p, c)
  <2>1. PICK i \in DOMAIN p : p[i].type = "StartJob" /\ p[i].client = c BY <1>3 DEF HasStart
  <2>2. i \in DOMAIN (p \o q) /\ (p \o q)[i] = p[i] BY <1>1, <1>2
  <2>. QED BY <2>1, <2>2 DEF HasStart
<1>4. CASE HasStart(q, c)
  <2>1. PICK i \in DOMAIN q : q[i].type = "StartJob" /\ q[i].client = c BY <1>4 DEF HasStart
  <2>2. i + Len(p) \in DOMAIN (p \o q) /\ (p \o q)[i + Len(p)] = q[i]
    BY <1>1, <1>2
  <2>. QED BY <2>1, <2>2 DEF HasStart
<1>. QED BY <1>3, <1>4

LEMMA HasStartAppend ==
  ASSUME NEW S, NEW q \in Seq(S), NEW msg \in S, NEW c,
         HasStart(q, c) \/ (msg.type = "StartJob" /\ msg.client = c)
  PROVE  HasStart(Append(q, msg), c)
<1>1. /\ Append(q, msg) \in Seq(S) /\ Len(Append(q, msg)) = Len(q) + 1
      /\ \A i \in 1..Len(q) : Append(q, msg)[i] = q[i]
      /\ Append(q, msg)[Len(q) + 1] = msg
  BY AppendProperties
<1>2. /\ Len(q) \in Nat /\ DOMAIN q = 1..Len(q)
      /\ DOMAIN Append(q, msg) = 1..(Len(q) + 1)
  BY <1>1, LenProperties
<1>3. CASE HasStart(q, c)
  <2>1. PICK i \in DOMAIN q : q[i].type = "StartJob" /\ q[i].client = c BY <1>3 DEF HasStart
  <2>2. i \in DOMAIN Append(q, msg) /\ Append(q, msg)[i] = q[i] BY <1>1, <1>2
  <2>. QED BY <2>1, <2>2 DEF HasStart
<1>4. CASE msg.type = "StartJob" /\ msg.client = c
  <2>1. Len(q) + 1 \in DOMAIN Append(q, msg) BY <1>2
  <2>. QED BY <1>1, <1>4, <2>1 DEF HasStart
<1>. QED BY <1>3, <1>4

-----------------------------------------------------------------------------
\* The state at the start.
LEMMA InitIInv == Init => IInv
<1> SUFFICES ASSUME Init PROVE IInv
  OBVIOUS
<1>. DEFINE first == Command([type |-> "StartJob", client |-> FirstClient])
<1>1. /\ first \in Held
      /\ first.type = "StartJob" /\ first.client = FirstClient
  BY DEF Command, Msg, Message, Held
<1>2. mailbox = <<first>> BY DEF Init
<1>3. mailbox \in Seq(Held) /\ stash \in Seq(Held)
  <2>. HIDE DEF first
  <2>. QED BY <1>1, <1>2 DEF Init
<1>4. ActorOK BY <1>3 DEF Init, ActorOK
<1>5. AroundOK BY DEF Init, AroundOK
<1>6. RootOK
  <2>1. told \in [Clients -> SUBSET {"Starting", "Finished"}]
    <3>1. {} \in SUBSET {"Starting", "Finished"} OBVIOUS
    <3>. QED BY <3>1 DEF Init
  <2>2. rootRequests \in 0..1 /\ rootRequests = 0 /\ rootLost = FALSE BY DEF Init
  <2>. QED BY <2>1, <2>2 DEF RootOK, RootReachesACoordinator
<1>7. CommandsAreHeld
  <2>1. AskedToStart = {FirstClient} BY DEF Init, AskedToStart
  <2>2. HasStart(mailbox, FirstClient)
    <3>1. DOMAIN mailbox = 1..1 /\ mailbox[1] = first
      <4>. HIDE DEF first
      <4>. QED BY <1>2
    <3>. QED BY <1>1, <3>1 DEF HasStart
  <2>. QED BY <2>1, <2>2 DEF CommandsAreHeld
<1>. QED BY <1>4, <1>5, <1>6, <1>7 DEF IInv

-----------------------------------------------------------------------------
\* The handlers.  None of them changes what Held depends on.

LEMMA HandleFrame ==
  ASSUME UNCHANGED <<poolVars, outside>>
  PROVE  Held' = Held /\ AskedToStart' = AskedToStart /\ LeftAgain' = LeftAgain
BY DEF Held, AskedToStart, LeftAgain

\* What is left of the mailbox, and what was at its head.
LEMMA HeadOK ==
  ASSUME IInv, mailbox # <<>>
  PROVE  /\ Head(mailbox) \in Held /\ Tail(mailbox) \in Seq(Held)
         /\ UnstashAll(Tail(mailbox)) \in Seq(Held)
         /\ Poisoned(Tail(mailbox)) \in Seq(Held)
         /\ Append(stash, Head(mailbox)) \in Seq(Held)
<1>1. Head(mailbox) \in Held /\ Tail(mailbox) \in Seq(Held) /\ stash \in Seq(Held)
  BY HeadTailProperties DEF IInv, ActorOK
<1>2. UnstashAll(Tail(mailbox)) \in Seq(Held)
  BY <1>1, ConcatProperties DEF UnstashAll
<1>3. Msg("PoisonPill") \in Held
  BY DEF Held, Msg, Message
<1>. QED BY <1>1, <1>2, <1>3, AppendProperties DEF Poisoned

\* The start commands that are left when the head is taken: only the head's is
\* gone, whether the rest of the mailbox stays, the stash is put in front of it
\* or a PoisonPill behind it.
LEMMA StartsLeft ==
  ASSUME IInv, mailbox # <<>>, NEW c, HasStart(mailbox, c) \/ HasStart(stash, c)
  PROVE  LET here == Head(mailbox).type = "StartJob" /\ Head(mailbox).client = c IN
         /\ here \/ HasStart(Tail(mailbox), c) \/ HasStart(stash, c)
         /\ here \/ HasStart(UnstashAll(Tail(mailbox)), c)
         /\ here \/ HasStart(Poisoned(Tail(mailbox)), c) \/ HasStart(stash, c)
         /\ HasStart(Tail(mailbox), c) \/ HasStart(Append(stash, Head(mailbox)), c)
<1>1. /\ Head(mailbox) \in Held /\ Tail(mailbox) \in Seq(Held)
      /\ mailbox \in Seq(Held) /\ stash \in Seq(Held)
  BY HeadOK DEF IInv, ActorOK
<1>2. HasStart(mailbox, c) => \/ Head(mailbox).type = "StartJob" /\ Head(mailbox).client = c
                              \/ HasStart(Tail(mailbox), c)
  BY <1>1, HasStartTail
<1>3. Msg("PoisonPill") \in Held
  BY DEF Held, Msg, Message
<1>4. HasStart(Tail(mailbox), c) => HasStart(Poisoned(Tail(mailbox)), c)
  BY <1>1, <1>3, HasStartAppend DEF Poisoned
<1>5. HasStart(Tail(mailbox), c) \/ HasStart(stash, c) => HasStart(UnstashAll(Tail(mailbox)), c)
  BY <1>1, HasStartConcat DEF UnstashAll
<1>6. \/ HasStart(stash, c)
      \/ Head(mailbox).type = "StartJob" /\ Head(mailbox).client = c
      => HasStart(Append(stash, Head(mailbox)), c)
  BY <1>1, HasStartAppend
<1>. QED BY <1>2, <1>4, <1>5, <1>6

\* The history keeps its type when a status is published.
LEMMA PublishType ==
  ASSUME IInv, NEW st \in {"Starting", "Finished"}, PublishJobStatus(st)
  PROVE  told' \in [Clients -> SUBSET {"Starting", "Finished"}]
BY DEF PublishJobStatus, IInv, RootOK

\* Whoever is subscribed or has a start command here keeps the one or the other.
StartsStay ==
  \A c \in Clients \ LeftAgain :
    c \in subscribers \/ HasStart(mailbox, c) \/ HasStart(stash, c)
      => c \in subscribers' \/ HasStart(mailbox', c) \/ HasStart(stash', c)

\* A step of the actor that keeps its behavior's phase, its order and its reports
\* in type, and no start command goes but to make its client a subscriber.
LEMMA HandlerStep ==
  ASSUME IInv, UNCHANGED <<poolVars, outside>>,
         behavior # "Stopped", mailbox # <<>>,
         ActorOK', asks' \in Nat,
         told' \in [Clients -> SUBSET {"Starting", "Finished"}],
         UNCHANGED <<rootRequests, rootLost>>,
         behavior' \in {"WaitingForTracker", "Ready"} => behavior \in {"WaitingForTracker", "Ready"},
         StartsStay \/ behavior' = "Stopped"
  PROVE  IInv'
<1>1. AroundOK' BY DEF IInv, AroundOK
<1>2. RootOK' BY DEF IInv, RootOK, RootReachesACoordinator
<1>3. CommandsAreHeld'
  <2>1. AskedToStart \subseteq Clients BY DEF AskedToStart
  <2>. QED BY <2>1, HandleFrame DEF IInv, CommandsAreHeld, StartsStay
<1>. QED BY <1>1, <1>2, <1>3 DEF IInv

\* A message without effect on the actor.
LEMMA QuietStep ==
  ASSUME IInv, UNCHANGED <<poolVars, outside>>, behavior # "Stopped", mailbox # <<>>,
         Head(mailbox).type # "StartJob",
         mailbox' = Tail(mailbox),
         UNCHANGED <<behavior, stash, subscribers, status, startTimer, wait,
                     rootRequests, rootLost>>,
         asks' \in Nat, told' \in [Clients -> SUBSET {"Starting", "Finished"}]
  PROVE  IInv'
<1>1. ActorOK' BY HeadOK, HandleFrame DEF IInv, ActorOK
<1>2. StartsStay BY StartsLeft DEF StartsStay
<1>. QED BY <1>1, <1>2, HandlerStep

LEMMA SubscribeStep ==
  ASSUME IInv, UNCHANGED <<poolVars, outside>>, behavior # "Stopped", mailbox # <<>>,
         Head(mailbox).type \in {"StartJob", "SubscribeToJob"},
         subscribers' = subscribers \cup {Head(mailbox).client},
         startTimer' \in BOOLEAN,
         mailbox' = Tail(mailbox),
         UNCHANGED <<behavior, stash, status, wait, asks, historyVars>>
  PROVE  IInv'
<1>1. Head(mailbox).client \in Clients BY HeadOK DEF Held
<1>2. ActorOK' BY <1>1, HeadOK, HandleFrame DEF IInv, ActorOK
<1>3. StartsStay BY StartsLeft DEF StartsStay
<1>4. asks' \in Nat /\ told' \in [Clients -> SUBSET {"Starting", "Finished"}]
  BY DEF IInv, AroundOK, RootOK
<1>. QED BY <1>2, <1>3, <1>4, HandlerStep

\* Who is unsubscribed has sent the command for it.
LEMMA UnsubscribeStep ==
  ASSUME IInv, UNCHANGED <<poolVars, outside>>, behavior # "Stopped", mailbox # <<>>,
         Head(mailbox).type = "UnsubscribeFromJob", Unsubscribe
  PROVE  IInv'
<1>1. Head(mailbox).client \in LeftAgain BY HeadOK DEF Held
<1>2. ActorOK' BY HeadOK, HandleFrame DEF IInv, ActorOK, Unsubscribe
<1>3. StartsStay BY <1>1, StartsLeft DEF StartsStay, Unsubscribe
<1>4. /\ asks' \in Nat /\ told' \in [Clients -> SUBSET {"Starting", "Finished"}]
      /\ UNCHANGED <<behavior, rootRequests, rootLost>>
  BY DEF IInv, AroundOK, RootOK, Unsubscribe
<1>. QED BY <1>2, <1>3, <1>4, HandlerStep

LEMMA PutAsideStep ==
  ASSUME IInv, UNCHANGED <<poolVars, outside>>, behavior # "Stopped", mailbox # <<>>, PutAside
  PROVE  IInv'
<1>1. ActorOK' BY HeadOK, HandleFrame DEF IInv, ActorOK, PutAside
<1>2. StartsStay BY StartsLeft DEF StartsStay, PutAside
<1>3. /\ asks' \in Nat /\ told' \in [Clients -> SUBSET {"Starting", "Finished"}]
      /\ UNCHANGED <<behavior, rootRequests, rootLost>>
  BY DEF IInv, AroundOK, RootOK, PutAside
<1>. QED BY <1>1, <1>2, <1>3, HandlerStep

LEMMA EndJobStep ==
  ASSUME IInv, UNCHANGED <<poolVars, outside>>, behavior # "Stopped", mailbox # <<>>,
         Head(mailbox).type # "StartJob", EndJob
  PROVE  IInv'
<1>1. ActorOK' BY HeadOK, HandleFrame DEF IInv, ActorOK, EndJob
<1>2. StartsStay BY StartsLeft DEF StartsStay, EndJob
<1>3. /\ asks' \in Nat /\ told' \in [Clients -> SUBSET {"Starting", "Finished"}]
      /\ UNCHANGED <<behavior, rootRequests, rootLost>>
  BY PublishType DEF IInv, AroundOK, EndJob
<1>. QED BY <1>1, <1>2, <1>3, HandlerStep

LEMMA BecomeReadyStep ==
  ASSUME IInv, UNCHANGED <<poolVars, outside>>, behavior = "WaitingForTracker", mailbox # <<>>,
         Head(mailbox).type # "StartJob", BecomeReady
  PROVE  IInv'
<1>1. ActorOK' BY HeadOK, HandleFrame DEF IInv, ActorOK, BecomeReady
<1>2. StartsStay BY StartsLeft DEF StartsStay, BecomeReady
<1>3. /\ asks' \in Nat /\ told' \in [Clients -> SUBSET {"Starting", "Finished"}]
      /\ behavior' = "Ready" /\ UNCHANGED <<rootRequests, rootLost>>
  BY DEF IInv, AroundOK, RootOK, BecomeReady
<1>. QED BY <1>1, <1>2, <1>3, HandlerStep

\* The root is ordered: it was not before, and as no coordinator was lost the
\* pool has the routees of the answer.
LEMMA KickOffStep ==
  ASSUME IInv, UNCHANGED <<poolVars, outside>>, behavior = "Ready", mailbox # <<>>,
         Head(mailbox).type = "CrawlCanStart", EnoughRoutees(Head(mailbox).count), KickOff
  PROVE  IInv'
<1>1. ActorOK'
  <2>1. mailbox' \in Seq(Held') /\ stash' \in Seq(Held')
    BY HeadOK, HandleFrame, EmptySeq DEF KickOff
  <2>2. behavior' = "Started" /\ startTimer' = FALSE /\ UNCHANGED <<subscribers, status, wait>>
    BY DEF KickOff, Become
  <2>. QED BY <2>1, <2>2 DEF IInv, ActorOK
<1>2. AroundOK' BY DEF IInv, AroundOK, KickOff
<1>3. RootOK'
  <2>1. Head(mailbox) \in Message /\ (leaves = 0 => Head(mailbox).count <= routees)
    BY HeadOK DEF Held
  <2>2. Head(mailbox).count \in Nat /\ routees \in Nat
    BY <2>1 DEF Message, IInv, AroundOK
  <2>3. leaves = 0 => routees # 0 BY <2>1, <2>2 DEF EnoughRoutees
  <2>. QED BY <2>3 DEF IInv, RootOK, RootReachesACoordinator, KickOff, Become
<1>4. CommandsAreHeld'
  <2>1. AskedToStart \subseteq Clients BY DEF AskedToStart
  <2>2. \A c \in Clients \ LeftAgain :
          c \in subscribers \/ HasStart(mailbox, c) \/ HasStart(stash, c)
            => c \in subscribers' \/ HasStart(mailbox', c)
    BY StartsLeft DEF KickOff
  <2>. QED BY <2>1, <2>2, HandleFrame DEF IInv, CommandsAreHeld
<1>. QED BY <1>1, <1>2, <1>3, <1>4 DEF IInv

LEMMA StopStep ==
  ASSUME IInv, UNCHANGED <<poolVars, outside>>, behavior # "Stopped", mailbox # <<>>, Stop
  PROVE  IInv'
<1>1. ActorOK'
  <2>1. mailbox' \in Seq(Held') /\ stash' \in Seq(Held')
    BY EmptySeq DEF Stop
  <2>. QED BY <2>1 DEF IInv, ActorOK, Stop
<1>2. /\ asks' \in Nat /\ told' \in [Clients -> SUBSET {"Starting", "Finished"}]
      /\ behavior' = "Stopped" /\ UNCHANGED <<rootRequests, rootLost>>
  BY DEF IInv, AroundOK, RootOK, Stop
<1>. QED BY <1>1, <1>2, HandlerStep

LEMMA HandleStep ==
  ASSUME IInv, Handle
  PROVE  IInv'
<1>. DEFINE type == Head(mailbox).type
<1>0. behavior # "Stopped" /\ mailbox # <<>> /\ UNCHANGED <<poolVars, outside>>
  BY DEF Handle
<1>1. /\ asks \in Nat /\ told \in [Clients -> SUBSET {"Starting", "Finished"}]
      /\ status \in {"Starting", "Finished"} /\ startTimer \in BOOLEAN
  BY DEF IInv, AroundOK, RootOK, ActorOK
<1>2. ASSUME Ignore, type # "StartJob" PROVE IInv'
  BY <1>0, <1>1, <1>2, QuietStep DEF Ignore
<1>3. ASSUME type \in {"StartJob", "SubscribeToJob"}, Subscribe PROVE IInv'
  BY <1>0, <1>1, <1>3, SubscribeStep DEF Subscribe
<1>4. CASE type = "PoisonPill" /\ Stop
  BY <1>0, <1>4, StopStep
<1>5. CASE type = "AttemptToStartJob" /\ ~startTimer /\ Ignore
  BY <1>2, <1>5
<1>6. CASE behavior = "WaitingForTracker" /\ WaitingForTracker(type)
  <2>1. CASE type = "ReceiveTimeout" /\ EndJob BY <1>0, <2>1, EndJobStep
  <2>2. CASE type = "SubscribeToJob" /\ Subscribe BY <1>3, <2>2
  <2>3. CASE type = "UnsubscribeFromJob" /\ Unsubscribe BY <1>0, <2>3, UnsubscribeStep
  <2>4. CASE type = "TrackerFound" /\ BecomeReady BY <1>0, <1>6, <2>4, BecomeReadyStep
  <2>5. CASE PutAside BY <1>0, <2>5, PutAsideStep
  <2>. QED BY <1>6, <2>1, <2>2, <2>3, <2>4, <2>5 DEF WaitingForTracker
<1>7. CASE behavior = "Ready" /\ Ready(type)
  <2>1. CASE type = "StartJob" /\ BeginToTry
    BY <1>0, <2>1, SubscribeStep DEF BeginToTry
  <2>2. CASE type = "AttemptToStartJob" /\ AskForRoutees
    BY <1>0, <1>1, <2>2, QuietStep DEF AskForRoutees
  <2>3. CASE type = "CrawlCanStart" /\ EnoughRoutees(Head(mailbox).count) /\ KickOff
    BY <1>0, <1>7, <2>3, KickOffStep
  <2>4. CASE type = "CrawlCanStart" /\ NoRoutees
    BY <1>0, <1>1, <2>4, QuietStep DEF NoRoutees
  <2>5. CASE PutAside BY <1>0, <2>5, PutAsideStep
  <2>. QED BY <1>7, <2>1, <2>2, <2>3, <2>4, <2>5 DEF Ready
<1>8. CASE behavior = "Started" /\ Started(type)
  <2>1. CASE type \in {"StartJob", "SubscribeToJob"} /\ Subscribe BY <1>3, <2>1
  <2>2. CASE type = "UnsubscribeFromJob" /\ Unsubscribe BY <1>0, <2>2, UnsubscribeStep
  <2>3. CASE type = "CrawlJobStats" /\ Report
    <3>1. told' \in [Clients -> SUBSET {"Starting", "Finished"}]
      BY <1>1, <2>3, PublishType DEF Report
    <3>. QED BY <1>0, <1>1, <2>3, <3>1, QuietStep DEF Report
  <2>4. CASE type \in {"StopJob", "ReceiveTimeout"} /\ EndJob BY <1>0, <2>4, EndJobStep
  <2>5. CASE type \in {"TrackerFound", "AttemptToStartJob", "CrawlCanStart"} /\ Ignore
    BY <1>2, <2>5
  <2>. QED BY <1>8, <2>1, <2>2, <2>3, <2>4, <2>5 DEF Started
<1>. QED BY <1>4, <1>5, <1>6, <1>7, <1>8 DEF Handle

-----------------------------------------------------------------------------
\* What happens around the actor.

\* A message arrives: it is one the actor may have, and what may be there stays.
LEMMA ArrivesStep ==
  ASSUME IInv, NEW msg, msg \in Held', Held \subseteq Held', Arrives(msg)
  PROVE  /\ ActorOK'
         /\ \A c : HasStart(mailbox, c) \/ (msg.type = "StartJob" /\ msg.client = c)
                     => HasStart(mailbox', c)
<1>1. mailbox \in Seq(Held') /\ stash \in Seq(Held')
  BY SeqMonotone DEF IInv, ActorOK
<1>2. mailbox' \in Seq(Held') BY <1>1, AppendProperties DEF Arrives
<1>3. ActorOK' BY <1>1, <1>2 DEF IInv, ActorOK, Arrives
<1>4. \A c : HasStart(mailbox, c) \/ (msg.type = "StartJob" /\ msg.client = c) => HasStart(mailbox', c)
  BY <1>1, HasStartAppend DEF Arrives
<1>. QED BY <1>3, <1>4

\* The same for everything but a command, which changes neither sent nor Held.
LEMMA EventStep ==
  ASSUME IInv, NEW msg \in Held, Arrives(msg), UNCHANGED <<routees, leaves, sent>>, AroundOK'
  PROVE  IInv'
<1>1. Held' = Held /\ AskedToStart' = AskedToStart /\ LeftAgain' = LeftAgain
  BY DEF Held, AskedToStart, LeftAgain
<1>2. ActorOK' /\ \A c : HasStart(mailbox, c) => HasStart(mailbox', c)
  BY <1>1, ArrivesStep
<1>3. RootOK' BY DEF IInv, RootOK, RootReachesACoordinator, Arrives
<1>4. CommandsAreHeld' BY <1>1, <1>2 DEF IInv, CommandsAreHeld, Arrives
<1>. QED BY <1>2, <1>3, <1>4 DEF IInv

LEMMA SendStep ==
  ASSUME IInv, NEW cmd \in Commands, Send(cmd)
  PROVE  IInv'
<1>. DEFINE msg == Command(cmd)
<1>1. /\ cmd.client \in Clients
      /\ cmd.type \in {"StartJob", "SubscribeToJob", "UnsubscribeFromJob", "StopJob"}
  OBVIOUS
<1>2. /\ msg \in Message /\ msg.type = cmd.type /\ msg.client = cmd.client
  BY <1>1 DEF Command, Msg, Message
<1>3. /\ sent' = sent \cup {cmd} /\ UNCHANGED <<routees, leaves>> /\ Arrives(msg)
  BY DEF Send
<1>4. LeftAgain \subseteq LeftAgain'
  BY <1>3 DEF LeftAgain
<1>5. Held \subseteq Held' BY <1>3, <1>4 DEF Held
<1>6. msg.type = "UnsubscribeFromJob" => msg.client \in LeftAgain'
  BY <1>1, <1>2, <1>3 DEF LeftAgain
<1>7. msg \in Held' BY <1>1, <1>2, <1>6 DEF Held
<1>8. \A c \in AskedToStart' : c \in AskedToStart \/ (msg.type = "StartJob" /\ msg.client = c)
  BY <1>1, <1>2, <1>3 DEF AskedToStart
<1>9. /\ ActorOK'
      /\ \A c : HasStart(mailbox, c) \/ (msg.type = "StartJob" /\ msg.client = c)
                  => HasStart(mailbox', c)
  <2>. HIDE DEF msg
  <2>. QED BY <1>3, <1>5, <1>7, ArrivesStep
<1>10. AroundOK' BY <1>3 DEF IInv, AroundOK, Send
<1>11. RootOK' BY <1>3 DEF IInv, RootOK, RootReachesACoordinator, Arrives
<1>12. UNCHANGED <<behavior, stash, subscribers>> BY <1>3 DEF Arrives
<1>13. CommandsAreHeld'
  <2>. HIDE DEF msg
  <2> SUFFICES ASSUME behavior # "Stopped", NEW c \in AskedToStart' \ LeftAgain'
               PROVE  c \in subscribers \/ HasStart(mailbox', c) \/ HasStart(stash, c)
    BY <1>12 DEF CommandsAreHeld, HasStart
  <2>1. CASE c \in AskedToStart
    BY <1>4, <1>9, <2>1 DEF IInv, CommandsAreHeld
  <2>2. CASE msg.type = "StartJob" /\ msg.client = c
    BY <1>9, <2>2
  <2>. QED BY <1>8, <2>1, <2>2
<1>. QED BY <1>9, <1>10, <1>11, <1>13 DEF IInv

\* Messages that are neither commands nor answers may always be there.
LEMMA EventHeld ==
  /\ \A type \in {"TrackerFound", "AttemptToStartJob", "CrawlJobStats"} : Msg(type) \in Held
  /\ \A w \in {"tracker", "silence"} : Timeout(w) \in Held
BY DEF Held, Msg, Timeout, Message

LEMMA AnswerRouteesStep ==
  ASSUME IInv, AnswerRoutees
  PROVE  IInv'
<1>1. CrawlCanStart(routees) \in Held
  BY DEF IInv, AroundOK, Held, Msg, CrawlCanStart, Message
<1>2. AroundOK' BY DEF IInv, AroundOK, AnswerRoutees
<1>. QED BY <1>1, <1>2, EventStep DEF AnswerRoutees

\* The pool changes: what an answer counted may be more than there is only when a
\* coordinator was lost.
LEMMA PoolStep ==
  ASSUME IInv, RouteeJoins \/ RouteeLeaves
  PROVE  IInv'
<1>1. Held \subseteq Held'
  <2> SUFFICES ASSUME NEW msg \in Held PROVE msg \in Held'
    OBVIOUS
  <2>1. msg \in Message /\ msg.count \in Nat BY DEF Held, Message
  <2>2. LeftAgain' = LeftAgain BY DEF RouteeJoins, RouteeLeaves, LeftAgain
  <2>3. leaves' = 0 => leaves = 0 /\ routees' >= routees
    BY DEF IInv, AroundOK, RouteeJoins, RouteeLeaves
  <2>4. routees \in Nat /\ routees' \in Nat
    BY DEF IInv, AroundOK, RouteeJoins, RouteeLeaves
  <2>5. msg.type = "CrawlCanStart" /\ leaves' = 0 => msg.count <= routees'
    BY <2>1, <2>3, <2>4 DEF Held
  <2>. QED BY <2>1, <2>2, <2>5 DEF Held
<1>2. UNCHANGED <<actorVars, asks, reports, outside, historyVars>>
  BY DEF RouteeJoins, RouteeLeaves
<1>3. mailbox \in Seq(Held') /\ stash \in Seq(Held')
  BY <1>1, SeqMonotone DEF IInv, ActorOK
<1>4. ActorOK' BY <1>2, <1>3 DEF IInv, ActorOK
<1>5. AroundOK' BY <1>2 DEF IInv, AroundOK, RouteeJoins, RouteeLeaves
<1>6. leaves' = 0 => leaves = 0
  BY DEF IInv, AroundOK, RouteeJoins, RouteeLeaves
<1>7. RootOK' BY <1>2, <1>6 DEF IInv, RootOK, RootReachesACoordinator
<1>8. CommandsAreHeld'
  BY <1>2 DEF IInv, CommandsAreHeld, AskedToStart, LeftAgain, HasStart
<1>. QED BY <1>4, <1>5, <1>7, <1>8 DEF IInv

-----------------------------------------------------------------------------
LEMMA NextIInv ==
  ASSUME IInv, [Next]_vars
  PROVE  IInv'
<1>1. CASE Handle BY <1>1, HandleStep
<1>2. ASSUME NEW cmd \in Commands, Send(cmd) PROVE IInv' BY <1>2, SendStep
<1>3. CASE AnswerTracker
  <2>1. AroundOK' BY <1>3 DEF IInv, AroundOK, AnswerTracker
  <2>. QED BY <1>3, <2>1, EventHeld, EventStep DEF AnswerTracker
<1>4. CASE FireTimeout
  <2>1. AroundOK' BY <1>4 DEF IInv, AroundOK, FireTimeout
  <2>2. Timeout(wait) \in Held BY EventHeld DEF IInv, ActorOK
  <2>. QED BY <1>4, <2>1, <2>2, EventStep DEF FireTimeout
<1>5. CASE Tick
  <2>1. AroundOK' BY <1>5 DEF IInv, AroundOK, Tick
  <2>. QED BY <1>5, <2>1, EventHeld, EventStep DEF Tick
<1>6. CASE AnswerRoutees BY <1>6, AnswerRouteesStep
<1>7. CASE SendReport
  <2>1. AroundOK' BY <1>7 DEF IInv, AroundOK, SendReport
  <2>. QED BY <1>7, <2>1, EventHeld, EventStep DEF SendReport
<1>8. CASE RouteeJoins \/ RouteeLeaves BY <1>8, PoolStep
<1>9. CASE UNCHANGED vars
  BY <1>9 DEF IInv, ActorOK, AroundOK, RootOK, CommandsAreHeld, RootReachesACoordinator, vars,
       Held, AskedToStart, LeftAgain, HasStart
<1>. QED BY <1>1, <1>2, <1>3, <1>4, <1>5, <1>6, <1>7, <1>8, <1>9 DEF Next

THEOREM IInvariant == Spec => []IInv
<1>1. IInv /\ [Next]_vars => IInv' BY NextIInv
<1>. QED BY InitIInv, <1>1, PTL DEF Spec

\* Every variable holds a value of its type.
THEOREM TypeCorrect == Spec => []TypeOK
<1>1. IInv => TypeOK
  <2> SUFFICES ASSUME IInv PROVE TypeOK
    OBVIOUS
  <2>1. Held \subseteq Message BY DEF Held
  <2>2. mailbox \in Seq(Message) /\ stash \in Seq(Message)
    BY <2>1, SeqMonotone DEF IInv, ActorOK
  <2>. QED BY <2>2 DEF IInv, ActorOK, AroundOK, RootOK, TypeOK
<1>. QED BY IInvariant, <1>1, PTL

\* However many attempts to start and answers overlap and however many clients
\* ask, the root document is ordered at most once.
THEOREM RootOnce == Spec => []RootRequestedOnce
<1>1. IInv => RootRequestedOnce BY DEF IInv, RootOK, RootRequestedOnce
<1>. QED BY IInvariant, <1>1, PTL

\* While no coordinator was lost, the order for the root was given to one.
THEOREM RootReaches == Spec => []RootReachesACoordinator
<1>1. IInv => RootReachesACoordinator BY DEF IInv, RootOK
<1>. QED BY IInvariant, <1>1, PTL

\* No command to start is dropped by putting messages aside and taking them back.
THEOREM StartsHeld == Spec => []CommandsAreHeld
<1>1. IInv => CommandsAreHeld BY DEF IInv
<1>. QED BY IInvariant, <1>1, PTL

=============================================================================
