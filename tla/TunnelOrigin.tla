----------------------------- MODULE TunnelOrigin -----------------------------
(***************************************************************************)
(* services/tunnel/origin: the daemon of each origin host, which dials the *)
(* edge, advertises its hostnames, serves requests, watches the link with  *)
(* pings, reconnects when the socket closes and drains when it is stopped. *)
(* One event loop; its awaits are the signing of the token, the local      *)
(* fetch of a request and the drain.                                       *)
(***************************************************************************)
EXTENDS TunnelWire, FiniteSets

VARIABLE daemons  \* the OriginDaemon of each origin

(***************************************************************************)
(* signing: the sockets whose handleOpen waits for the token.  heartbeat:  *)
(* pingTimer is set.  deadlines: the pong timers that are armed, of which  *)
(* pongDeadline is the one whose handle is kept.  reconnect: the reconnect *)
(* timer is armed.  draining: stop() waits for the requests in flight.     *)
(* 0 stands for null.                                                      *)
(***************************************************************************)
OriginDaemon ==
  [state: {"idle", "connecting", "authenticating", "open", "closing", "stopped"},
   socket: 0..MaxSockets, signing: SUBSET SocketIds,
   inFlight: SUBSET Requests, heartbeat: BOOLEAN,
   outstandingPing: 0..MaxPings, pongDeadline: 0..MaxPings,
   deadlines: SUBSET (1..MaxPings), reconnect: BOOLEAN, draining: BOOLEAN]

OriginInit ==
  daemons = [o \in Origins |->
    [state |-> "idle", socket |-> 0, signing |-> {}, inFlight |-> {},
     heartbeat |-> FALSE, outstandingPing |-> 0, pongDeadline |-> 0,
     deadlines |-> {}, reconnect |-> FALSE, draining |-> FALSE]]

(* Each handle is cancelled; a pong timer whose handle was overwritten is  *)
(* not.                                                                    *)
CancelTimers(d) ==
  [d EXCEPT !.heartbeat = FALSE, !.deadlines = @ \ {d.pongDeadline},
            !.pongDeadline = 0, !.reconnect = FALSE]

(* sendIfOpen on the socket the daemon has now, if any; ws: the sockets. *)
SendIfOpen(ws, d, f) ==
  IF d.socket = 0 THEN ws ELSE [ws EXCEPT ![d.socket] = Up(@, f)]

-------------------------------------------------------------------------------
(* connect() with the next socket, the daemon being d. *)
Dial(o, d) ==
  /\ dialled < MaxSockets
  /\ dialled' = dialled + 1
  /\ sockets' = [sockets EXCEPT ![dialled + 1].owner = o,
                                ![dialled + 1].client = "dialling"]
  /\ daemons' = [daemons EXCEPT ![o] =
                   [d EXCEPT !.state = "authenticating", !.socket = dialled + 1]]

Start(o) ==
  /\ daemons[o].state = "idle"
  /\ Dial(o, daemons[o])
  /\ UNCHANGED faults

(* Mutant: connect() does not look at the state. *)
ReconnectUnchecked(o) ==
  /\ daemons[o].reconnect
  /\ Dial(o, [daemons[o] EXCEPT !.reconnect = FALSE])
  /\ UNCHANGED faults

(* The reconnect timer. *)
Reconnect(o) ==
  LET d == [daemons[o] EXCEPT !.reconnect = FALSE] IN
  /\ daemons[o].reconnect
  /\ \/ d.state \notin {"closing", "stopped"} /\ Dial(o, d)
     \/ /\ d.state \in {"closing", "stopped"}
        /\ daemons' = [daemons EXCEPT ![o] = d]
        /\ UNCHANGED <<sockets, dialled>>
  /\ UNCHANGED faults

(* handleOpen up to the signing. *)
ClientOpened(s) ==
  LET o == sockets[s].owner IN
  /\ sockets[s].client = "dialling"
  /\ sockets[s].server = "open" /\ ~sockets[s].broken
  /\ sockets' = [sockets EXCEPT ![s].client = "open"]
  /\ daemons' = IF daemons[o].socket = 0 THEN daemons
                ELSE [daemons EXCEPT ![o].signing = @ \cup {s}]
  /\ UNCHANGED <<dialled, faults>>

(* The rest of handleOpen, on the socket the daemon has by now: with none, *)
(* or with one still dialling, send() throws and nothing else happens.     *)
Signed(o, s) ==
  LET d == [daemons[o] EXCEPT !.signing = @ \ {s}]
      mute == d.socket = 0 \/ sockets[d.socket].client = "dialling" IN
  /\ s \in daemons[o].signing
  /\ sockets' = IF mute THEN sockets ELSE SendIfOpen(sockets, d, <<"advertise", 0>>)
  /\ daemons' = [daemons EXCEPT ![o] =
                   IF mute THEN d
                   ELSE [CancelTimers(d) EXCEPT !.state = "open",
                                                !.heartbeat = TRUE]]
  /\ UNCHANGED <<dialled, faults>>

(* Mutant: the ceiling is checked with > instead of >=. *)
BusyLate(d) == Cardinality(d.inFlight) > MaxInFlight

Busy(d) == Cardinality(d.inFlight) >= MaxInFlight

(* handlePong: only the last ping's pong disarms a timer. *)
HandlePong(d, k) ==
  IF d.outstandingPing # k THEN d
  ELSE [d EXCEPT !.outstandingPing = 0, !.deadlines = @ \ {d.pongDeadline},
                 !.pongDeadline = 0]

(* handleMessage: a request is served, or answered 503 at the ceiling. *)
OriginReceive(s) ==
  LET o  == sockets[s].owner
      d  == daemons[o]
      f  == Head(sockets[s].down)
      ws == [sockets EXCEPT ![s].down = Tail(@)] IN
  /\ sockets[s].client = "open" /\ sockets[s].down # << >>
  /\ \/ /\ f[1] = "request" /\ Busy(d)
        /\ sockets' = SendIfOpen(ws, d, <<"response", f[2]>>)
        /\ UNCHANGED daemons
     \/ /\ f[1] = "request" /\ ~Busy(d)
        /\ daemons' = [daemons EXCEPT ![o].inFlight = @ \cup {f[2]}]
        /\ sockets' = ws
     \/ /\ f[1] = "pong"
        /\ daemons' = [daemons EXCEPT ![o] = HandlePong(d, f[2])]
        /\ sockets' = ws
  /\ UNCHANGED <<dialled, faults>>

(* forwardRequest has settled, and its response, or a 502, is sent on the   *)
(* socket of that moment.                                                   *)
Served(o, r) ==
  /\ r \in daemons[o].inFlight
  /\ sockets' = SendIfOpen(sockets, daemons[o], <<"response", r>>)
  /\ daemons' = [daemons EXCEPT ![o].inFlight = @ \ {r}]
  /\ UNCHANGED <<dialled, faults>>

-------------------------------------------------------------------------------
(* sendPing, from the heartbeat, with a fresh id k; the handle of the timer *)
(* before is lost.  late: its pong, or the handshake, is still under way.   *)
SendPing(o, k, late) ==
  LET d == daemons[o] IN
  /\ d.heartbeat /\ d.state = "open" /\ d.socket # 0
  /\ k \notin d.deadlines
  /\ sockets' = SendIfOpen(sockets, d, <<"ping", k>>)
  /\ daemons' = [daemons EXCEPT ![o] =
                   [d EXCEPT !.outstandingPing = k, !.pongDeadline = k,
                             !.deadlines = @ \cup {k}]]
  /\ IF late THEN Fault ELSE faults' = faults
  /\ UNCHANGED dialled

CloseSocket(ws, d) ==
  IF d.socket = 0 THEN ws ELSE [ws EXCEPT ![d.socket] = CloseClient(@)]

(* Mutant: the pong timer reconnects at once, and so will the close event. *)
PongTimeoutReconnects(o, k, late) ==
  /\ k \in daemons[o].deadlines
  /\ sockets' = CloseSocket(sockets, daemons[o])
  /\ daemons' = [daemons EXCEPT ![o].deadlines = @ \ {k},
                                ![o].outstandingPing = 0,
                                ![o].reconnect = TRUE]
  /\ IF late THEN Fault ELSE faults' = faults
  /\ UNCHANGED dialled

(* The timer of ping k: it closes the socket of that moment.  late: the    *)
(* ping or its pong was still under way.                                   *)
PongTimeout(o, k, late) ==
  /\ k \in daemons[o].deadlines
  /\ sockets' = CloseSocket(sockets, daemons[o])
  /\ daemons' = [daemons EXCEPT ![o].deadlines = @ \ {k},
                                ![o].outstandingPing = 0]
  /\ IF late THEN Fault ELSE faults' = faults
  /\ UNCHANGED dialled

(* Mutant: only a link that was up is dialled again. *)
HandleCloseOnceOpen(d) ==
  LET c == CancelTimers([d EXCEPT !.socket = 0]) IN
  IF d.state # "open" THEN c
  ELSE [c EXCEPT !.state = "connecting", !.reconnect = TRUE]

HandleClose(d) ==
  LET c == CancelTimers([d EXCEPT !.socket = 0]) IN
  IF d.state \in {"closing", "stopped"} THEN c
  ELSE [c EXCEPT !.state = "connecting", !.reconnect = TRUE]

(* The close event of socket s, whichever socket the daemon has by then. *)
ClientClosed(s) ==
  LET o == sockets[s].owner IN
  /\ ClientGone(sockets[s])
  /\ sockets' = [sockets EXCEPT ![s].client = "closed", ![s].down = << >>]
  /\ daemons' = [daemons EXCEPT ![o] = HandleClose(@)]
  /\ UNCHANGED <<dialled, faults>>

Stopped(d) == [d EXCEPT !.socket = 0, !.state = "stopped", !.draining = FALSE]

(* stop(): with nothing in flight it closes at once, otherwise it drains ... *)
Stop(o) ==
  LET d  == CancelTimers(daemons[o])
      ws == SendIfOpen(sockets, d, <<"shutdown", 0>>) IN
  /\ daemons[o].state \notin {"idle", "stopped"} /\ ~daemons[o].draining
  /\ \/ /\ d.inFlight = {}
        /\ sockets' = CloseSocket(ws, d)
        /\ daemons' = [daemons EXCEPT ![o] = Stopped(d)]
     \/ /\ d.inFlight # {}
        /\ sockets' = ws
        /\ daemons' = [daemons EXCEPT ![o] =
                         [d EXCEPT !.state = "closing", !.draining = TRUE]]
  /\ UNCHANGED <<dialled, faults>>

(* ... until nothing is in flight any more, or, late, drainMs have passed. *)
StopDone(o) ==
  /\ daemons[o].draining
  /\ IF daemons[o].inFlight = {} THEN faults' = faults ELSE Fault
  /\ sockets' = CloseSocket(sockets, daemons[o])
  /\ daemons' = [daemons EXCEPT ![o] = Stopped(@)]
  /\ UNCHANGED dialled
===============================================================================
