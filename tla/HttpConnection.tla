--------------------------- MODULE HttpConnection ---------------------------
(***************************************************************************)
(* The connection under the hub connection of the SignalR client that the  *)
(* crawler's page loads (wwwroot/lib/signalr/signalr.js): negotiation, the *)
(* choice of a transport with its fallback, sending and stopping.          *)
(*                                                                         *)
(* A JavaScript function runs to completion, so a function of the source   *)
(* is an operator from the state of the client before the call to the      *)
(* state after it, a "world" w with one field per variable.  What follows  *)
(* an await is a job: the jobs run in the order in which what they wait    *)
(* for is settled, and all of them before the next event of the browser.   *)
(* Transports and the calls of start() and stop() are numbered in their    *)
(* order, 0 is none.  What an error says is left out.                      *)
(***************************************************************************)
EXTENDS Naturals, Sequences, SequencesExt

CONSTANTS
  Offers,        \* the lists of transports a server may offer
  Supported,     \* the transports this browser has
  MaxRedirects,  \* MAX_REDIRECTS
  Calls          \* the calls of hub methods the page makes, 1 .. n

ASSUME HttpConnectionAssumption ==
  /\ \A o \in Offers : \A i \in DOMAIN o :
       o[i] \in {"WebSockets", "ServerSentEvents", "LongPolling"}
  /\ MaxRedirects \in Nat \ {0}

VARIABLES
  hub,         \* the HubConnection: state, handshake, timers
  http,        \* the HttpConnection: state, transport, startPromise
  attempts,    \* the calls of HubConnection.start, with their startInternal
  transports,  \* the transports constructed so far
  stops,       \* the calls of HttpConnection.stop
  calls,       \* what became of each call of a hub method
  jobs,        \* the continuations that are ready to run
  told         \* the connections whose close the page was told of, in order

vars == <<hub, http, attempts, transports, stops, calls, jobs, told>>

World == [hub |-> hub, http |-> http, attempts |-> attempts,
          transports |-> transports, stops |-> stops, calls |-> calls,
          jobs |-> jobs, told |-> told]

Becomes(w) == /\ hub' = w.hub               /\ http' = w.http
              /\ attempts' = w.attempts     /\ transports' = w.transports
              /\ stops' = w.stops           /\ calls' = w.calls
              /\ jobs' = w.jobs             /\ told' = w.told

Quiet == jobs = <<>>

StartJob(k) == [of |-> "start", n |-> k]
StopJob(j)  == [of |-> "stop", n |-> j]

Enqueue(w, js) == [w EXCEPT !.jobs = @ \o js]

NewConnection == [state |-> "Disconnected", transport |-> 0, start |-> 0,
                  inherentKeepAlive |-> FALSE]

-----------------------------------------------------------------------------
(* stop(): the state at once, the transport once the startPromise of the   *)
(* moment is settled.                                                      *)

StartSettled(w, k) == k = 0 \/ w.attempts[k].net \in {"resolved", "rejected"}

Stop(w) ==
  LET v == [w EXCEPT !.http.state = "Disconnected",
                     !.stops = Append(@, [pc |-> "start", of |-> w.http.start,
                                          transport |-> 0])]
  IN  IF StartSettled(w, w.http.start)
      THEN Enqueue(v, <<StopJob(Len(v.stops))>>)
      ELSE v

(* startPromise is settled: HubConnection.start waits for it, and then the *)
(* calls of stop(), in their order.                                        *)
SettleStart(w, k, outcome) ==
  LET waits(job) == w.stops[job.n].pc = "start" /\ w.stops[job.n].of = k
      all == [j \in 1 .. Len(w.stops) |-> StopJob(j)]
  IN  Enqueue([w EXCEPT !.attempts[k].net = outcome],
              <<StartJob(k)>> \o SelectSeq(all, waits))

(* send(): it throws unless Connected.  A socket sends at once, the other  *)
(* transports by a POST; each rejects what it is not open for.             *)
SocketSend(transport) == IF transport.phase = "open" THEN "sent" ELSE "rejects"

EventSourceSend(transport) ==
  IF transport.phase = "open" THEN "posting" ELSE "rejects"

PollingSend(transport) ==
  IF transport.phase = "open" THEN "posting" ELSE "rejects"

Send(w) ==
  LET transport == w.transports[w.http.transport] IN
  CASE w.http.state # "Connected" -> "throws"
    [] w.http.state = "Connected" /\ transport.kind = "WebSockets" ->
         SocketSend(transport)
    [] w.http.state = "Connected" /\ transport.kind = "ServerSentEvents" ->
         EventSourceSend(transport)
    [] w.http.state = "Connected" /\ transport.kind = "LongPolling" ->
         PollingSend(transport)

-----------------------------------------------------------------------------
(* start(), for the k-th call of HubConnection.start.                      *)
HttpStart(w, k) ==
  IF w.http.state = "Disconnected"
  THEN [w EXCEPT !.http.state = "Connecting", !.http.start = k]
  ELSE Enqueue([w EXCEPT !.attempts[k].net = "rejected"], <<StartJob(k)>>)

(* startInternal() and what it awaits.                                     *)

StartFailed(w, k) ==
  SettleStart([w EXCEPT !.http.state = "Disconnected", !.http.transport = 0],
              k, "rejected")

NewTransport(kind, k) ==
  [kind |-> kind, attempt |-> k, phase |-> "new", wired |-> FALSE,
   asked |-> FALSE, answered |-> FALSE, threw |-> FALSE]

ChangeState(w, from, to) ==
  IF w.http.state = from THEN [w EXCEPT !.http.state = to] ELSE w

(* resolveTransport: what this browser lacks is skipped.                   *)
Resolve(offered) == SelectSeq(offered, LAMBDA kind : kind \in Supported)

(* The loop of createTransport, from the transports not tried yet: the     *)
(* ones this browser lacks are skipped, and a server that has given no     *)
(* connection id since the last failure is asked for one again.            *)
CreateTransport(w, k, offered, known) ==
  LET usable == Resolve(offered)
      t == Len(w.transports) + 1
      phase == IF known THEN "connecting" ELSE "new"
  IN  IF usable = <<>>
      THEN StartFailed(w, k)
      ELSE [w EXCEPT !.http.state = "Connecting",
                     !.http.transport = t,
                     !.transports = Append(@, [NewTransport(Head(usable), k)
                                               EXCEPT !.phase = phase]),
                     !.attempts[k].offer = Tail(usable),
                     !.attempts[k].redirects = 0,
                     !.attempts[k].net = IF known THEN "connect"
                                         ELSE "renegotiate"]

(* The transport is connected: it gets its handlers only now.  A transport *)
(* that was taken away meanwhile is a TypeError, caught as any failure.    *)
Connected(w, k) ==
  LET t == w.http.transport
      v == ChangeState(w, "Connecting", "Connected")
  IN  IF t = 0 THEN StartFailed(v, k)
      ELSE SettleStart([v EXCEPT !.http.inherentKeepAlive =
                                   @ \/ v.transports[t].kind = "LongPolling",
                                 !.transports[t].wired = TRUE],
                       k, "resolved")

(* connect() failed: the next transport, with a new connection id.         *)
ConnectFailed(w, t) ==
  LET k == w.transports[t].attempt IN
  CreateTransport([w EXCEPT !.transports[t].phase = "closed",
                            !.http.state = "Disconnected"],
                  k, w.attempts[k].offer, FALSE)

=============================================================================
