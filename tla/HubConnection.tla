--------------------------- MODULE HubConnection ----------------------------
(***************************************************************************)
(* The hub connection of the SignalR client (signalr.js): the handshake,   *)
(* the timers, the calls of hub methods and their answers, and what is     *)
(* done when the connection closes.                                        *)
(*                                                                         *)
(* Data is the sequence of the frames a transport delivers at once; its    *)
(* last one may be a fragment, without the separator.                      *)
(***************************************************************************)
EXTENDS HttpConnection

NewHub == [state |-> "Disconnected", received |-> FALSE, shaker |-> 0,
           timeout |-> FALSE]

NewCall == [kind |-> "invoke", status |-> "unused", registered |-> FALSE,
            posting |-> FALSE, on |-> 0, late |-> FALSE]

Frame(type) == [type |-> type, id |-> 0]

-----------------------------------------------------------------------------
(* The timer that notices a silent server.  (The timer that sends pings    *)
(* changes nothing else, and is left out.)                                 *)

CleanupTimeout(w) == [w EXCEPT !.hub.timeout = FALSE]

ResetTimeoutPeriod(w) ==
  IF w.http.inherentKeepAlive THEN w ELSE [w EXCEPT !.hub.timeout = TRUE]

-----------------------------------------------------------------------------
(* The handshake promise of the latest start(), settled at most once.      *)

SettleHandshake(w, outcome) ==
  LET k == w.hub.shaker IN
  IF \/ k = 0
     \/ w.attempts[k].shake # "pending"
     \/ w.attempts[k].pc = "rejected"    \* nobody waits for it
  THEN w
  ELSE Enqueue([w EXCEPT !.attempts[k].shake = outcome],
               IF w.attempts[k].pc = "shake" THEN <<StartJob(k)>> ELSE <<>>)

\* Mutation: the flag of the last handshake is kept.
StartAsBefore(w) ==
  LET k == Len(w.attempts) + 1
      new == [pc |-> "connect", net |-> "negotiate", offer |-> <<>>,
              shake |-> "pending", redirects |-> 0]
  IN  HttpStart([w EXCEPT !.hub.shaker = k, !.attempts = Append(@, new)], k)

(* start(), up to its first await.                                         *)
Start(w) ==
  LET k == Len(w.attempts) + 1
      new == [pc |-> "connect", net |-> "negotiate", offer |-> <<>>,
              shake |-> "pending", redirects |-> 0]
  IN  HttpStart([w EXCEPT !.hub.received = FALSE, !.hub.shaker = k,
                          !.attempts = Append(@, new)], k)

(* start(), what follows each await: the connection is there, the request  *)
(* is sent, the handshake is settled.                                      *)
SendHandshake(w, k) ==
  LET t == w.http.transport
      r == Send(w)
      asked == [w EXCEPT !.attempts[k].pc = "send", !.transports[t].asked = TRUE]
  IN  IF r \in {"throws", "rejects"}
      THEN [w EXCEPT !.attempts[k].pc = "rejected"]
      ELSE IF r = "sent" THEN Enqueue(asked, <<StartJob(k)>>) ELSE asked

AwaitHandshake(w, k) ==
  LET v == ResetTimeoutPeriod(CleanupTimeout(w))
  IN  Enqueue([v EXCEPT !.attempts[k].pc = "shake"],
              IF w.attempts[k].shake = "pending" THEN <<>> ELSE <<StartJob(k)>>)

ContinueStart(w, k) ==
  LET a == w.attempts[k] IN
  CASE a.pc = "connect" /\ a.net = "rejected" ->
         [w EXCEPT !.attempts[k].pc = "rejected"]
    [] a.pc = "connect" /\ a.net = "resolved" -> SendHandshake(w, k)
    [] a.pc = "send" -> AwaitHandshake(w, k)
    [] a.pc = "shake" /\ a.shake = "resolved" ->
         [w EXCEPT !.attempts[k].pc = "resolved", !.hub.state = "Connected"]
    [] OTHER -> [w EXCEPT !.attempts[k].pc = "rejected"]

(* stop() of the hub connection, as the page calls it.                     *)
HubStop(w) == Stop(CleanupTimeout(w))

-----------------------------------------------------------------------------
(* invoke() and stream(): the callback is registered before the send.  It  *)
(* stays registered when the send throws, and goes when the send fails.    *)

Call(w, c, kind) ==
  LET r == Send(w)
      failed == r \in {"throws", "rejects"}
  IN  [w EXCEPT
         !.calls[c].kind = kind,
         !.calls[c].registered = r # "rejects",
         !.calls[c].status = IF failed THEN "rejected" ELSE "pending",
         !.calls[c].posting = r = "posting",
         !.calls[c].on = IF failed THEN 0 ELSE w.http.transport]

Invoke(w, c) == Call(w, c, "invoke")

Stream(w, c) == Call(w, c, "stream")

(* send(), which waits for no answer: it has no callback.                  *)
HubSend(w, c) ==
  LET r == Send(w) IN
  [w EXCEPT !.calls[c].kind = "send",
            !.calls[c].status = CASE r \in {"throws", "rejects"} -> "rejected"
                                  [] r = "sent" -> "resolved"
                                  [] r = "posting" -> "pending",
            !.calls[c].posting = r = "posting"]

CallSent(w, c) ==
  [w EXCEPT !.calls[c].posting = FALSE,
            !.calls[c].status = IF w.calls[c].kind = "send" THEN "resolved" ELSE @]

(* The POST of a call has failed: the promise, or the subject, first, then *)
(* the callback.                                                           *)
CallNotSent(w, c) ==
  [w EXCEPT !.calls[c].posting = FALSE, !.calls[c].registered = FALSE,
            !.calls[c].status = IF @ = "pending" THEN "rejected" ELSE @]

(* The last observer of a stream goes: no callback any more, and a message *)
(* to the server, whose failure nobody looks at.                           *)
CancelStream(w, c) ==
  [w EXCEPT
     !.calls[c].registered = FALSE,
     !.calls[c].status = IF @ = "pending" THEN "cancelled" ELSE @]

(* An answer for a registered callback.  late notes one that comes when    *)
(* the call has ended already.                                             *)
Answer(w, c, final) ==
  [w EXCEPT !.calls[c].registered = ~final,
            !.calls[c].late = @ \/ w.calls[c].status # "pending",
            !.calls[c].status = IF final /\ @ = "pending" THEN "resolved" ELSE @]

-----------------------------------------------------------------------------
(* connectionClosed(): every registered callback is told, the handshake is *)
(* rejected if it is still awaited, the timers go, the page is told.       *)

\* Mutations: the callbacks are dropped and not called; the handshake is
\* left pending.
CallbacksDropped(w, k) ==
  [SettleHandshake(CleanupTimeout(w), "rejected") EXCEPT
     !.hub.state = "Disconnected",
     !.calls = [c \in DOMAIN @ |-> [@[c] EXCEPT !.registered = FALSE]],
     !.told = Append(@, k)]

HandshakeLeft(w, k) ==
  [CleanupTimeout(w) EXCEPT !.hub.state = "Disconnected", !.told = Append(@, k)]

ConnectionClosed(w, k) ==
  LET v == SettleHandshake([w EXCEPT !.hub.state = "Disconnected"], "rejected")
      closed(call) ==
        [call EXCEPT !.registered = FALSE,
                     !.status = IF call.registered /\ @ = "pending"
                                THEN "rejected" ELSE @]
  IN  [CleanupTimeout(v) EXCEPT
         !.calls = [c \in DOMAIN @ |-> closed(@[c])],
         !.told = Append(@, k)]

(* HttpConnection.stopConnection(), the onclose of every wired transport.  *)
StopConnection(w, t) ==
  ConnectionClosed([w EXCEPT !.http.transport = 0,
                             !.http.state = "Disconnected"],
                   w.transports[t].attempt)

-----------------------------------------------------------------------------
(* processIncomingData() and the two functions it is built from.  r.w is   *)
(* the world, r.threw says that an exception has left the function.        *)

(* The response is what precedes the first separator, and has no type.     *)
ParseHandshakeFails(data) == data[1].type \notin {"handshake", "refusal"}

(* TextMessageFormat: the last message must end with the separator.        *)
Incomplete(data) == data[Len(data)].type = "fragment"

ParseMessagesFails(data) ==
  Incomplete(data) \/ \E i \in DOMAIN data : data[i].type = "malformed"

ProcessHandshakeResponse(w, data) ==
  IF ParseHandshakeFails(data)
  THEN [w |-> SettleHandshake(Stop(w), "rejected"), threw |-> TRUE]
  ELSE IF data[1].type = "refusal"
  THEN [w |-> Stop(SettleHandshake(w, "rejected")), threw |-> TRUE]
  ELSE [w |-> [SettleHandshake(w, "resolved") EXCEPT !.hub.received = TRUE],
        threw |-> FALSE]

(* The handlers of the page; a "bad invocation" is one that makes a        *)
(* handler throw, a request one that wants an answer, which this version   *)
(* does not give.                                                          *)
InvokeClientMethod(r, m) ==
  CASE m.type = "invocation" -> r
    [] m.type = "bad invocation" -> [r EXCEPT !.threw = TRUE]
    [] m.type = "request" -> [r EXCEPT !.w = Stop(r.w)]

Process(r, m) ==
  CASE r.threw -> r
    [] m.type \in {"invocation", "bad invocation", "request"} ->
         InvokeClientMethod(r, m)
    [] m.type \in {"completion", "item"} /\ r.w.calls[m.id].registered ->
         [r EXCEPT !.w = Answer(r.w, m.id, m.type = "completion")]
    [] m.type = "close" -> [r EXCEPT !.w = Stop(r.w)]
    [] OTHER -> r

ProcessMessages(w, data) ==
  LET known == SelectSeq(data, LAMBDA m : m.type # "unknown") IN
  IF ParseMessagesFails(data) THEN [w |-> w, threw |-> TRUE]
  ELSE FoldLeft(Process, [w |-> w, threw |-> FALSE], known)

\* Mutation: the timer is cleaned up and not set again.
TimerNotReset(w, data) ==
  LET v == CleanupTimeout(w)
      h == IF v.hub.received THEN [w |-> v, threw |-> FALSE]
           ELSE ProcessHandshakeResponse(v, data)
      rest == IF v.hub.received THEN data ELSE Tail(data)
  IN  IF h.threw \/ rest = <<>> THEN h ELSE ProcessMessages(h.w, rest)

ProcessIncomingData(w, data) ==
  LET v == CleanupTimeout(w)
      h == IF v.hub.received THEN [w |-> v, threw |-> FALSE]
           ELSE ProcessHandshakeResponse(v, data)
      rest == IF v.hub.received THEN data ELSE Tail(data)
      r == IF h.threw \/ rest = <<>> THEN h ELSE ProcessMessages(h.w, rest)
  IN  IF r.threw THEN r ELSE [r EXCEPT !.w = ResetTimeoutPeriod(r.w)]

=============================================================================
