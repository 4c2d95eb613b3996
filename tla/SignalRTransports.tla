------------------------- MODULE SignalRTransports --------------------------
(***************************************************************************)
(* The three transports of the SignalR client (signalr.js): how each one   *)
(* closes, is stopped, and what an exception does that leaves the handler  *)
(* of the data it delivers.  A transport is open while its socket or event *)
(* source is, and a long polling transport while it is "running".          *)
(***************************************************************************)
EXTENDS HubConnection

Closed(w, t) == [w EXCEPT !.transports[t].phase = "closed",
                          !.transports[t].threw = FALSE]

-----------------------------------------------------------------------------
(* WebSockets.  The onclose of a transport is set by startInternal.        *)

\* Mutation: the close of a socket is not reported.
SocketClosedSilently(w, t) ==
  [w EXCEPT !.transports[t].phase = "closed", !.http.transport = 0,
            !.http.state = "Disconnected", !.hub.state = "Disconnected"]

SocketClosed(w, t) ==
  IF w.transports[t].wired THEN StopConnection(Closed(w, t), t) ELSE Closed(w, t)

StopSocket(w, t) ==
  IF w.transports[t].phase = "open" THEN SocketClosed(w, t) ELSE w

(* An exception of the handler goes to the browser.                        *)
SocketMessage(w, t, data) ==
  LET r == ProcessIncomingData(w, data)
  IN  [r.w EXCEPT !.transports[t].threw = r.threw]

-----------------------------------------------------------------------------
(* Server-sent events.                                                     *)

EventSourceClosed(w, t) ==
  IF w.transports[t].phase # "open" THEN w
  ELSE IF w.transports[t].wired THEN StopConnection(Closed(w, t), t)
  ELSE Closed(w, t)

(* An exception of the handler closes the source.                          *)
EventSourceMessage(w, t, data) ==
  LET r == ProcessIncomingData(w, data)
  IN  IF r.threw THEN EventSourceClosed(r.w, t) ELSE r.w

-----------------------------------------------------------------------------
(* Long polling.                                                           *)

RaiseOnClose(w, t) ==
  IF w.transports[t].wired THEN StopConnection(w, t) ELSE w

(* The loop of poll() has ended; stop() raises onclose if it has aborted   *)
(* the poll.                                                               *)
PollEnded(w, t) == RaiseOnClose(Closed(w, t), t)

(* stop(): the poll is aborted and the loop ends without a word; what      *)
(* follows waits for the answer to the DELETE request.                     *)
StopPolling(w, t) == [w EXCEPT !.transports[t].phase = "deleting"]

DeleteAnswered(w, t) == RaiseOnClose(Closed(w, t), t)

(* An exception of the handler is taken for a failed poll: the loop ends.  *)
PollContent(w, t, data) ==
  LET r == ProcessIncomingData(w, data)
  IN  IF r.threw THEN PollEnded(r.w, t) ELSE r.w

-----------------------------------------------------------------------------
(* HttpConnection.stop(), what follows its awaits: startPromise is         *)
(* settled, the transport is stopped.                                      *)

StopDone(stop) == [stop EXCEPT !.pc = "done", !.of = 0, !.transport = 0]

StopTransport(w, j, t) ==
  LET v == [w EXCEPT !.stops[j].pc = "transport", !.stops[j].transport = t] IN
  CASE w.transports[t].kind = "WebSockets" ->
         Enqueue(StopSocket(v, t), <<StopJob(j)>>)
    [] w.transports[t].kind = "ServerSentEvents" ->
         Enqueue(EventSourceClosed(v, t), <<StopJob(j)>>)
    [] w.transports[t].kind = "LongPolling" -> StopPolling(v, t)

ContinueStop(w, j) ==
  IF w.stops[j].pc = "start" /\ w.http.transport # 0
  THEN StopTransport(w, j, w.http.transport)
  ELSE IF w.stops[j].pc = "start"
  THEN [w EXCEPT !.stops[j] = StopDone(@)]
  ELSE [w EXCEPT !.stops[j] = StopDone(@), !.http.transport = 0]

=============================================================================
