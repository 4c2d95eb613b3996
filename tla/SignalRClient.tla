--------------------------- MODULE SignalRClient ----------------------------
(***************************************************************************)
(* The SignalR client of the crawler's page as a whole: the page that      *)
(* starts, calls and stops it, the three transports, and the network and   *)
(* the server, which answer, fail or drop the connection.                  *)
(***************************************************************************)
EXTENDS SignalRTransports, FiniteSets

CONSTANTS
  MaxStarts,   \* calls of start() the page makes
  MaxStops     \* calls of stop() by the page and closes by the server

ASSUME SignalRClientAssumption == MaxStarts \in Nat \ {0} /\ MaxStops \in Nat

-----------------------------------------------------------------------------
(* The page.                                                               *)

Init ==
  /\ hub = NewHub
  /\ http = NewConnection
  /\ attempts = <<>> /\ transports = <<>> /\ stops = <<>>
  /\ calls = [c \in Calls |-> NewCall]
  /\ jobs = <<>> /\ told = <<>>

StartsDone == \A k \in DOMAIN attempts : attempts[k].pc \in {"resolved", "rejected"}
StopsDone  == \A j \in DOMAIN stops : stops[j].pc = "done"
AtRest     == Quiet /\ StartsDone /\ StopsDone

(* The page awaits a start before it starts again, from any handler or     *)
(* continuation, and starts only what is not connected.  It is kept from   *)
(* starting while a long polling transport is being stopped, which takes   *)
(* a request: the connection accepts that, and the onclose of the old      *)
(* transport then takes the new one away and leaves it open.               *)
PageStarts ==
  /\ Len(attempts) < MaxStarts
  /\ StartsDone
  /\ hub.state = "Disconnected"
  /\ \/ StopsDone
     \/ \A t \in DOMAIN transports :
          transports[t].kind = "LongPolling" => transports[t].phase = "closed"
  /\ Becomes(Start(World))

PageStops ==
  /\ Len(stops) < MaxStops
  /\ Len(attempts) > 0
  /\ Becomes(HubStop(World))

PageCalls ==
  \E c \in Calls :
    /\ calls[c].status = "unused"
    /\ \A d \in Calls : d < c => calls[d].status # "unused"
    /\ Len(attempts) > 0
    /\ \/ Becomes(Invoke(World, c))
       \/ Becomes(Stream(World, c))
       \/ Becomes(HubSend(World, c))

PageCancels ==
  \E c \in Calls :
    /\ calls[c].kind = "stream" /\ calls[c].status = "pending"
    /\ Becomes(CancelStream(World, c))

-----------------------------------------------------------------------------
(* The continuations, and the timers.                                      *)

RunJob ==
  /\ ~Quiet
  /\ LET job == Head(jobs)
         w == [World EXCEPT !.jobs = Tail(@)]
     IN  Becomes(IF job.of = "start" THEN ContinueStart(w, job.n)
                 ELSE ContinueStop(w, job.n))

ServerTimeout ==
  /\ Quiet /\ hub.timeout
  /\ Becomes(Stop(CleanupTimeout(World)))

-----------------------------------------------------------------------------
(* Answers of the server to what the client has sent, or their failure.    *)

NegotiationAnswered(k) ==
  /\ Quiet /\ attempts[k].net = "negotiate"
  /\ LET w == World
         more == [w EXCEPT !.attempts[k].redirects = @ + 1]
     IN  \/ http.state = "Disconnected" /\ Becomes(SettleStart(w, k, "resolved"))
         \/ /\ http.state # "Disconnected"
            /\ \/ Becomes(StartFailed(w, k))
               \/ /\ more.attempts[k].redirects < MaxRedirects
                  /\ Becomes(more)
               \/ /\ more.attempts[k].redirects = MaxRedirects
                  /\ Becomes(StartFailed(more, k))
               \/ \E offer \in Offers : Becomes(CreateTransport(w, k, offer, TRUE))

NegotiationFailed(k) ==
  /\ Quiet /\ attempts[k].net = "negotiate"
  /\ Becomes(StartFailed(World, k))

NegotiatedAgain(k) ==
  /\ Quiet /\ attempts[k].net = "renegotiate"
  /\ \/ Becomes(StartFailed(World, k))
     \/ Becomes([World EXCEPT !.attempts[k].net = "connect",
                              !.transports[Len(transports)].phase = "connecting"])

Connecting(t, kind) == Quiet /\ transports[t].phase = "connecting"
                             /\ transports[t].kind = kind

(* connect() resolves, and startInternal goes on.                          *)
ConnectedAs(t, phase) ==
  Becomes(Connected([World EXCEPT !.transports[t].phase = phase],
                    transports[t].attempt))

SocketConnects(t) ==
  /\ Connecting(t, "WebSockets")
  /\ ConnectedAs(t, "open") \/ Becomes(ConnectFailed(World, t))

EventSourceConnects(t) ==
  /\ Connecting(t, "ServerSentEvents")
  /\ ConnectedAs(t, "open") \/ Becomes(ConnectFailed(World, t))

(* The first poll.  When its answer is not 200 the loop that polls ends    *)
(* before it has begun, with no handler to tell; connect() does not fail.  *)
PollingConnects(t) ==
  /\ Connecting(t, "LongPolling")
  /\ \/ ConnectedAs(t, "open")
     \/ ConnectedAs(t, "ended")
     \/ Becomes(ConnectFailed(World, t))

(* The POST of the handshake request, on the transports that send by POST. *)
HandshakePosted(k) ==
  /\ Quiet /\ attempts[k].pc = "send"
  /\ \/ Becomes(AwaitHandshake(World, k))
     \/ Becomes([World EXCEPT !.attempts[k].pc = "rejected"])

CallPosted(c) ==
  /\ Quiet /\ calls[c].posting
  /\ Becomes(CallSent(World, c)) \/ Becomes(CallNotSent(World, c))

(* The DELETE of long polling is answered or fails: onclose either way.    *)
Deleted(j) ==
  LET t == stops[j].transport IN
  /\ Quiet /\ stops[j].pc = "transport" /\ t # 0
  /\ Becomes(Enqueue(DeleteAnswered(World, t), <<StopJob(j)>>))

-----------------------------------------------------------------------------
(* What the server sends.  It answers the handshake it was asked for, in   *)
(* data of its own or before a message, and calls only after that.         *)

ServerAnswers(t) ==
  {<<[type |-> "completion", id |-> c]>> : c \in {c \in Calls : calls[c].on = t}}
  \cup {<<[type |-> "item", id |-> c]>> :
          c \in {c \in Calls : calls[c].on = t /\ calls[c].kind = "stream"}}

ServerSpeaks ==
  {<<Frame(type)>> : type \in {"invocation", "bad invocation", "ping",
                              "unknown", "malformed"}}

ServerCloses == {<<Frame("close")>>, <<Frame("request")>>,
                 <<Frame("invocation"), Frame("close")>>}

Deliver(w, t, data) ==
  CASE w.transports[t].kind = "WebSockets" -> SocketMessage(w, t, data)
    [] w.transports[t].kind = "ServerSentEvents" -> EventSourceMessage(w, t, data)
    [] w.transports[t].kind = "LongPolling" -> PollContent(w, t, data)

Hears(t) == Quiet /\ transports[t].wired /\ transports[t].phase = "open"

HandshakeAnswered(t) ==
  /\ Hears(t) /\ transports[t].asked /\ ~transports[t].answered
  /\ LET w == [World EXCEPT !.transports[t].answered = TRUE] IN
     \/ Becomes(Deliver(w, t, <<Frame("handshake")>>))
     \/ Becomes(Deliver(w, t, <<Frame("refusal")>>))
     \/ Becomes(Deliver(w, t, <<Frame("fragment")>>))
     \/ \E data \in ServerSpeaks :
          Becomes(Deliver(w, t, <<Frame("handshake")>> \o data))

MessageArrives(t) ==
  /\ Hears(t) /\ transports[t].answered
  /\ \E data \in ServerAnswers(t) \cup ServerSpeaks :
       Becomes(Deliver(World, t, data))

ServerClosesHub(t) ==
  /\ Hears(t) /\ transports[t].answered
  /\ Len(stops) < MaxStops
  /\ \E data \in ServerCloses : Becomes(Deliver(World, t, data))

SocketCloses(t) ==
  /\ Quiet /\ transports[t].phase = "open" /\ transports[t].kind = "WebSockets"
  /\ Becomes(SocketClosed(World, t))

EventSourceFails(t) ==
  /\ Quiet /\ transports[t].phase = "open"
  /\ transports[t].kind = "ServerSentEvents"
  /\ Becomes(EventSourceClosed(World, t))

(* A poll is answered 204, or fails otherwise than by its timeout.         *)
PollFails(t) ==
  /\ Quiet /\ transports[t].phase = "open" /\ transports[t].kind = "LongPolling"
  /\ Becomes(PollEnded(World, t))

-----------------------------------------------------------------------------
Answers ==
  \/ \E k \in DOMAIN attempts :
       NegotiationAnswered(k) \/ NegotiationFailed(k) \/ NegotiatedAgain(k)
       \/ HandshakePosted(k)
  \/ \E t \in DOMAIN transports :
       SocketConnects(t) \/ EventSourceConnects(t) \/ PollingConnects(t)
       \/ HandshakeAnswered(t)
  \/ \E c \in Calls : CallPosted(c)
  \/ \E j \in DOMAIN stops : Deleted(j)

System == RunJob \/ ServerTimeout \/ Answers

Others ==
  \/ PageStarts \/ PageStops \/ PageCalls \/ PageCancels
  \/ \E t \in DOMAIN transports :
       MessageArrives(t) \/ ServerClosesHub(t)
       \/ SocketCloses(t) \/ EventSourceFails(t) \/ PollFails(t)

Next == System \/ Others

Spec == Init /\ [][Next]_vars /\ WF_vars(System)

-----------------------------------------------------------------------------
(* Type correctness.                                                       *)
TypeOK ==
  /\ hub.state \in {"Disconnected", "Connected"}
  /\ hub.shaker \in 0 .. Len(attempts)
  /\ {hub.received, hub.timeout} \subseteq BOOLEAN
  /\ http.state \in {"Disconnected", "Connecting", "Connected"}
  /\ http.transport \in 0 .. Len(transports)
  /\ http.start \in 0 .. Len(attempts)
  /\ \A k \in DOMAIN attempts :
       /\ attempts[k].pc \in {"connect", "send", "shake", "resolved", "rejected"}
       /\ attempts[k].net \in {"negotiate", "renegotiate", "connect",
                               "resolved", "rejected"}
       /\ attempts[k].shake \in {"pending", "resolved", "rejected"}
  /\ \A t \in DOMAIN transports :
       /\ transports[t].phase \in {"new", "connecting", "open", "ended",
                                  "deleting", "closed"}
       /\ transports[t].attempt \in DOMAIN attempts
  /\ \A j \in DOMAIN stops : stops[j].pc \in {"start", "transport", "done"}
  /\ \A c \in Calls : calls[c].status \in {"unused", "pending", "resolved",
                                           "rejected", "cancelled"}

(* send() relies on it ("Transport will not be null if state is            *)
(* connected"), whatever stops, fallbacks and closes overlap.              *)
ConnectedHasTransport == http.state = "Connected" => http.transport # 0

(* Messages are taken for messages only on a connection whose handshake    *)
(* the server has answered, also after a reconnection.                     *)
HandshakeFirst ==
  (Quiet /\ hub.received /\ http.transport # 0
     /\ transports[http.transport].phase = "open")
  => transports[http.transport].answered

(* On a socket, what the hub connection calls Connected is connected: at   *)
(* rest the open socket is under it, with its handlers.                    *)
ConnectedOnSocket ==
  (AtRest /\ hub.state = "Connected"
     /\ transports[Len(transports)].kind = "WebSockets") =>
    /\ ConnectedHasTransport /\ http.state = "Connected"
    /\ transports[http.transport].phase = "open"
    /\ transports[http.transport].wired

(* The two connections, the transport and the server agree on what is      *)
(* connected, whatever starts, stops, fallbacks and closes overlap.        *)
LayersAgree ==
  TypeOK /\ ConnectedHasTransport /\ HandshakeFirst /\ ConnectedOnSocket

(* A connected client always has the timer armed that notices a silent     *)
(* server, unless the transport notices by itself or the last data made a  *)
(* handler throw.                                                          *)
SilenceIsNoticed ==
  (Quiet /\ hub.state = "Connected" /\ http.state = "Connected") =>
    hub.timeout \/ http.inherentKeepAlive \/ transports[http.transport].threw

(* Every promise of a call that is pending has its callback registered,    *)
(* so that an answer or the close can settle it, or is that of a send      *)
(* whose POST is on its way; and none waits for an answer when the         *)
(* connection has closed and nothing is going on any more.  No answer      *)
(* reaches a call that has ended: cancelled, failed to be sent, or told of *)
(* the close.                                                              *)
CallsAreSettled ==
  \A c \in Calls :
    /\ ~calls[c].late
    /\ calls[c].status = "pending" =>
         /\ calls[c].registered # (calls[c].kind = "send" /\ calls[c].posting)
         /\ ~(AtRest /\ http.state = "Disconnected" /\ calls[c].registered)

(* A connection that is disconnected and at rest has left no transport     *)
(* open behind: stop() has closed what the fallback has opened meanwhile.  *)
NothingLeftOpen ==
  (AtRest /\ http.state = "Disconnected") =>
    \A t \in DOMAIN transports : transports[t].phase \in {"closed", "new"}

(* Every connection that the page was given ends once: the transport is    *)
(* closed, and the page is told, on sockets and event sources once.        *)
CloseIsTold ==
  /\ NothingLeftOpen
  /\ \A t \in DOMAIN transports : transports[t].wired =>
       LET times == Cardinality({i \in DOMAIN told : told[i] = transports[t].attempt})
       IN  /\ Quiet /\ transports[t].phase = "closed" => times >= 1
           /\ transports[t].kind # "LongPolling" => times <= 1

(* Every start() and every stop() settles: no order of closes, refusals,   *)
(* stops and fallbacks leaves the page waiting for a promise.              *)
PromisesSettle == []<>(StartsDone /\ StopsDone)

=============================================================================
