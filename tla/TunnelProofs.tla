----------------------------- MODULE TunnelProofs -----------------------------
(***************************************************************************)
(* Tunnel for any origins, hostnames, sharing of hostnames between origins *)
(* and bounds: a daemon has no socket but the one it knows of and dials    *)
(* none once stopped, and the edge routes a hostname to the connection     *)
(* that registered it last.                                                *)
(***************************************************************************)
EXTENDS Tunnel, FiniteSetTheorems, TLAPS

-------------------------------------------------------------------------------
(***************************************************************************)
(* One socket.  Ages(w, v): w may become v in a step that does not dial    *)
(* it.  Its owner stays, neither end opens again, and nothing is on its    *)
(* way up that was not sent on a dialled socket.                           *)
(***************************************************************************)
Ages(w, v) ==
  /\ v \in Socket
  /\ v.owner = w.owner
  /\ v.client = "unused" <=> w.client = "unused"
  /\ v.client \in {"dialling", "open"} => w.client \in {"dialling", "open"}
  /\ v.client = "closing" => w.client \in {"dialling", "open", "closing"}
  /\ v.server = "open" => w.server = "open"
  /\ v.up # << >> => w.up # << >> \/ w.client # "unused"

LEMMA AgesSelf == ASSUME NEW w \in Socket PROVE Ages(w, w)
BY DEF Ages

(* What each end does to a socket it sends on or closes. *)
LEMMA AgesUp ==
  ASSUME NEW w, NEW v, Ages(w, v), NEW f \in Frames
  PROVE  Ages(w, Up(v, f)) /\ Up(v, f).client = v.client
<1> DEFINE q == Append(v.up, f)
<1>1. v \in Socket /\ v.up \in Seq(Frames)
  BY DEF Ages, Socket
<1>2. q \in Seq(Frames)
  BY <1>1
<1> HIDE DEF q
<1>3. CASE v.client = "open"
  <2> DEFINE u == [v EXCEPT !.up = q]
  <2>1. u \in Socket /\ u.owner = v.owner /\ u.client = v.client
          /\ u.server = v.server /\ (u.up = v.up \/ u.client # "unused")
    BY <1>1, <1>2, <1>3 DEF Socket
  <2>2. Up(v, f) \in {u, v}
    BY DEF Up, q
  <2>. QED  BY <1>3, <2>1, <2>2 DEF Ages
<1>4. CASE v.client # "open"
  BY <1>4 DEF Up
<1>. QED  BY <1>3, <1>4

LEMMA AgesDown ==
  ASSUME NEW w, NEW v, Ages(w, v), NEW f \in Frames
  PROVE  Ages(w, Down(v, f)) /\ Down(v, f).client = v.client
<1> DEFINE q == Append(v.down, f)
<1>1. v \in Socket /\ v.down \in Seq(Frames)
  BY DEF Ages, Socket
<1>2. q \in Seq(Frames)
  BY <1>1
<1> HIDE DEF q
<1>3. CASE v.client = "open"
  <2> DEFINE u == [v EXCEPT !.down = q]
  <2>1. u \in Socket /\ u.owner = v.owner /\ u.client = v.client
          /\ u.server = v.server /\ (u.up = v.up \/ u.client # "unused")
    BY <1>1, <1>2, <1>3 DEF Socket
  <2>2. Down(v, f) \in {u, v}
    BY DEF Down, q
  <2>. QED  BY <1>3, <2>1, <2>2 DEF Ages
<1>4. CASE v.client # "open"
  BY <1>4 DEF Down
<1>. QED  BY <1>3, <1>4

LEMMA AgesCloseClient ==
  ASSUME NEW w, NEW v, Ages(w, v)
  PROVE  /\ Ages(w, CloseClient(v))
         /\ CloseClient(v).client \notin {"dialling", "open"}
<1> DEFINE u == [v EXCEPT !.client = "closing", !.down = << >>]
<1>1. v \in Socket /\ << >> \in Seq(Frames)
  BY DEF Ages
<1>2. /\ u \in Socket /\ u.owner = v.owner /\ u.client = "closing"
      /\ u.server = v.server /\ u.up = v.up
  BY <1>1 DEF Socket
<1>3. CASE v.client \in {"dialling", "open"}
  BY <1>2, <1>3 DEF Ages, CloseClient
<1>4. CASE v.client \notin {"dialling", "open"}
  BY <1>4 DEF CloseClient
<1>. QED  BY <1>3, <1>4

LEMMA AgesCloseServer ==
  ASSUME NEW w, NEW v, Ages(w, v)
  PROVE  /\ Ages(w, CloseServer(v))
         /\ CloseServer(v).client = v.client
         /\ CloseServer(v).server # "open"
<1> DEFINE u == [v EXCEPT !.server = "closing", !.up = << >>]
<1>1. v \in Socket /\ << >> \in Seq(Frames)
  BY DEF Ages
<1>2. /\ u \in Socket /\ u.owner = v.owner /\ u.client = v.client
      /\ u.server = "closing" /\ u.up = << >>
  BY <1>1 DEF Socket
<1>3. CASE v.server = "open"
  BY <1>2, <1>3 DEF Ages, CloseServer
<1>4. CASE v.server # "open"
  BY <1>4 DEF CloseServer
<1>. QED  BY <1>3, <1>4

(* A frame read at one end. *)
LEMMA AgesReadUp ==
  ASSUME NEW w \in Socket, w.up # << >>
  PROVE  Ages(w, [w EXCEPT !.up = Tail(@)]) /\ Head(w.up) \in Frames
<1>1. w.up \in Seq(Frames)
  BY DEF Socket
<1>2. Tail(w.up) \in Seq(Frames) /\ Head(w.up) \in Frames
  BY <1>1
<1>. QED  BY <1>2 DEF Ages, Socket

LEMMA AgesReadDown ==
  ASSUME NEW w \in Socket, w.down # << >>
  PROVE  Ages(w, [w EXCEPT !.down = Tail(@)]) /\ Head(w.down) \in Frames
<1>1. w.down \in Seq(Frames)
  BY DEF Socket
<1>2. Tail(w.down) \in Seq(Frames) /\ Head(w.down) \in Frames
  BY <1>1
<1>. QED  BY <1>2 DEF Ages, Socket

(* All sockets at once, and the step that changes one of them. *)
AllAge(ws) ==
  ws \in [SocketIds -> Socket] /\ \A s \in SocketIds : Ages(sockets[s], ws[s])

LEMMA AllAgeSelf ==
  ASSUME sockets \in [SocketIds -> Socket] PROVE AllAge(sockets)
BY AgesSelf DEF AllAge

LEMMA AllAgeAt ==
  ASSUME NEW ws, AllAge(ws), NEW s \in SocketIds, NEW v, Ages(sockets[s], v)
  PROVE  AllAge([ws EXCEPT ![s] = v])
BY DEF AllAge, Ages

LEMMA SendIfOpenAges ==
  ASSUME NEW ws, AllAge(ws), NEW d \in OriginDaemon, NEW f \in Frames
  PROVE  AllAge(SendIfOpen(ws, d, f))
<1>1. d.socket = 0 \/ d.socket \in SocketIds
  BY TunnelAssumption DEF OriginDaemon, SocketIds
<1>2. ASSUME d.socket \in SocketIds, d.socket # 0
      PROVE  AllAge([ws EXCEPT ![d.socket] = Up(ws[d.socket], f)])
  <2>1. Ages(sockets[d.socket], ws[d.socket])
    BY <1>2 DEF AllAge
  <2>. QED  BY <1>2, <2>1, AgesUp, AllAgeAt
<1>. QED  BY <1>1, <1>2 DEF SendIfOpen

(* A daemon's close() ages its socket and leaves it no longer open. *)
LEMMA CloseSocketAges ==
  ASSUME NEW ws, AllAge(ws), NEW d \in OriginDaemon
  PROVE  /\ AllAge(CloseSocket(ws, d))
         /\ \A s \in SocketIds :
              /\ s # d.socket => CloseSocket(ws, d)[s] = ws[s]
              /\ s = d.socket
                   => CloseSocket(ws, d)[s].client \notin {"dialling", "open"}
<1>1. d.socket = 0 \/ d.socket \in SocketIds
  BY TunnelAssumption DEF OriginDaemon, SocketIds
<1>2. CASE d.socket = 0
  BY <1>2, TunnelAssumption DEF CloseSocket, SocketIds
<1>3. CASE d.socket \in SocketIds /\ d.socket # 0
  <2> DEFINE v == CloseClient(ws[d.socket])
  <2>1. Ages(sockets[d.socket], ws[d.socket])
    BY <1>3 DEF AllAge
  <2>2. Ages(sockets[d.socket], v) /\ v.client \notin {"dialling", "open"}
    BY <2>1, AgesCloseClient
  <2>3. CloseSocket(ws, d) = [ws EXCEPT ![d.socket] = v]
    BY <1>3 DEF CloseSocket
  <2> HIDE DEF v
  <2>4. AllAge([ws EXCEPT ![d.socket] = v])
    BY <1>3, <2>2, AllAgeAt
  <2>. QED  BY <1>3, <2>2, <2>3, <2>4 DEF AllAge
<1>. QED  BY <1>1, <1>2, <1>3

-------------------------------------------------------------------------------
(***************************************************************************)
(* One daemon.  It has no socket before it is started, none once it is     *)
(* stopped and none while its reconnect timer is armed.                    *)
(***************************************************************************)
Ceiling(d) ==
  IsFiniteSet(d.inFlight) /\ Cardinality(d.inFlight) <= MaxInFlight

GoodDaemon(d) ==
  /\ d \in OriginDaemon
  /\ Ceiling(d)
  /\ d.state = "idle" => d.socket = 0 /\ ~d.reconnect
  /\ d.state = "stopped" => d.socket = 0
  /\ d.reconnect => d.socket = 0

LEMMA Nothing == 0 \in 0..MaxSockets /\ 0 \in 0..MaxPings
BY TunnelAssumption

(* An edit that keeps the socket and the state keeps a good daemon good,   *)
(* unless it arms the reconnect timer or takes a request.                  *)
LEMMA EditKeepsGood ==
  ASSUME NEW d, GoodDaemon(d), NEW e \in OriginDaemon,
         e.state = d.state, e.socket = d.socket, e.inFlight = d.inFlight,
         e.reconnect => d.reconnect
  PROVE  GoodDaemon(e)
BY DEF GoodDaemon, Ceiling

LEMMA CancelTimersFields ==
  ASSUME NEW d, GoodDaemon(d)
  PROVE  LET c == CancelTimers(d) IN
         /\ GoodDaemon(c) /\ ~c.reconnect
         /\ c.state = d.state /\ c.socket = d.socket /\ c.inFlight = d.inFlight
<1> DEFINE ks == d.deadlines \ {d.pongDeadline}
           c == [d EXCEPT !.heartbeat = FALSE, !.deadlines = ks,
                          !.pongDeadline = 0, !.reconnect = FALSE]
<1>1. d \in OriginDaemon /\ ks \in SUBSET (1..MaxPings)
  BY DEF GoodDaemon, OriginDaemon
<1>2. CancelTimers(d) = c
  BY DEF CancelTimers
<1> HIDE DEF ks
<1>3. /\ c \in OriginDaemon /\ c.reconnect = FALSE
      /\ c.state = d.state /\ c.socket = d.socket /\ c.inFlight = d.inFlight
  BY <1>1, Nothing DEF OriginDaemon
<1> HIDE DEF c
<1>4. GoodDaemon(c)
  BY <1>3, EditKeepsGood
<1>. QED  BY <1>2, <1>3, <1>4

LEMMA HandlePongFields ==
  ASSUME NEW d, GoodDaemon(d), NEW k
  PROVE  LET e == HandlePong(d, k) IN
         GoodDaemon(e) /\ e.socket = d.socket /\ e.state = d.state
<1> DEFINE ks == d.deadlines \ {d.pongDeadline}
           e == [d EXCEPT !.outstandingPing = 0, !.deadlines = ks,
                          !.pongDeadline = 0]
<1>1. d \in OriginDaemon /\ ks \in SUBSET (1..MaxPings)
  BY DEF GoodDaemon, OriginDaemon
<1>3. HandlePong(d, k) \in {d, e}
  BY DEF HandlePong
<1> HIDE DEF ks
<1>2. /\ e \in OriginDaemon /\ e.reconnect = d.reconnect
      /\ e.state = d.state /\ e.socket = d.socket /\ e.inFlight = d.inFlight
  BY <1>1, Nothing DEF OriginDaemon
<1> HIDE DEF e
<1>4. GoodDaemon(e)
  BY <1>2, EditKeepsGood
<1>. QED  BY <1>2, <1>3, <1>4

(* handleClose forgets the socket, and leaves a stopped daemon stopped. *)
LEMMA HandleCloseFields ==
  ASSUME NEW d, GoodDaemon(d)
  PROVE  LET e == HandleClose(d) IN
         /\ GoodDaemon(e) /\ e.socket = 0
         /\ d.state = "stopped" => e.state = "stopped"
<1> DEFINE a == [d EXCEPT !.socket = 0]
           c == CancelTimers(a)
           e == [c EXCEPT !.state = "connecting", !.reconnect = TRUE]
<1>1. d \in OriginDaemon /\ Ceiling(d)
  BY DEF GoodDaemon
<1>2. a \in OriginDaemon /\ a.socket = 0 /\ a.state = d.state
        /\ a.inFlight = d.inFlight /\ a.reconnect = d.reconnect
  BY <1>1, TunnelAssumption DEF OriginDaemon
<1>3. GoodDaemon(a)
  BY <1>1, <1>2 DEF GoodDaemon, Ceiling
<1> HIDE DEF a
<1>4. GoodDaemon(c) /\ c.socket = 0 /\ c.state = d.state /\ c.inFlight = d.inFlight
  BY <1>2, <1>3, CancelTimersFields
<1> HIDE DEF c
<1>5. c \in OriginDaemon
  BY <1>4 DEF GoodDaemon
<1>6. e \in OriginDaemon /\ e.socket = 0 /\ e.state = "connecting"
        /\ e.inFlight = d.inFlight
  BY <1>4, <1>5 DEF OriginDaemon
<1>7. HandleClose(d) = IF d.state \in {"closing", "stopped"} THEN c ELSE e
  BY DEF HandleClose, c, a
<1> HIDE DEF e
<1>8. GoodDaemon(e)
  BY <1>1, <1>6 DEF GoodDaemon, Ceiling
<1>. QED  BY <1>4, <1>6, <1>7, <1>8

LEMMA StoppedFields ==
  ASSUME NEW d, GoodDaemon(d)
  PROVE  GoodDaemon(Stopped(d)) /\ Stopped(d).socket = 0
           /\ Stopped(d).state = "stopped"
<1> DEFINE e == Stopped(d)
<1>1. d \in OriginDaemon /\ Ceiling(d)
  BY DEF GoodDaemon
<1>2. e \in OriginDaemon /\ e.socket = 0 /\ e.state = "stopped"
        /\ e.inFlight = d.inFlight
  BY <1>1, Nothing DEF OriginDaemon, Stopped
<1> HIDE DEF e
<1>3. GoodDaemon(e)
  BY <1>1, <1>2 DEF GoodDaemon, Ceiling
<1>. QED  BY <1>2, <1>3 DEF e

-------------------------------------------------------------------------------
(***************************************************************************)
(* The inductive invariant.  Dialled: what was never dialled carries no    *)
(* frame and is known to nobody.  Linked: a daemon knows the socket it has *)
(* open, and one it is closing unless it has stopped; so a daemon that     *)
(* knows no socket, and has not stopped, has none.                         *)
(***************************************************************************)
EdgeTyped ==
  /\ conns \in [SocketIds -> ConnRecord]
  /\ live \subseteq SocketIds
  /\ routes \in [Hosts -> 0..MaxSockets]
  /\ asked \in [Requests -> Forwarded]

Typed ==
  /\ sockets \in [SocketIds -> Socket]
  /\ dialled \in 0..MaxSockets
  /\ faults \in Nat
  /\ EdgeTyped
  /\ daemons \in [Origins -> OriginDaemon]

Dialled ==
  \A s \in SocketIds :
    /\ sockets[s].client = "unused" <=> s > dialled
    /\ sockets[s].up # << >> => s <= dialled
    /\ conns[s].verifying > 0 => s <= dialled
    /\ s \in live => s <= dialled

Linked ==
  /\ \A o \in Origins :
       daemons[o].socket # 0
         => /\ daemons[o].socket <= dialled
            /\ sockets[daemons[o].socket].owner = o
  /\ \A s \in SocketIds :
       /\ sockets[s].client \in {"dialling", "open"}
            => daemons[sockets[s].owner].socket = s
       /\ sockets[s].client = "closing"
            => \/ daemons[sockets[s].owner].socket = s
               \/ daemons[sockets[s].owner].state = "stopped"

IInv ==
  /\ Typed
  /\ Dialled
  /\ \A o \in Origins : GoodDaemon(daemons[o])
  /\ Linked

(* What any step does to the sockets dialled before it, and whom it dials   *)
(* for.                                                                     *)
Grows ==
  /\ dialled <= dialled'
  /\ \A s \in SocketIds : s <= dialled =>
       /\ sockets'[s].owner = sockets[s].owner
       /\ sockets'[s].server = "open" => sockets[s].server = "open"
  /\ \A s \in SocketIds : s > dialled /\ s <= dialled' =>
       daemons[sockets'[s].owner].state # "stopped"

Advances == IInv' /\ Grows

LEMMA AgingGrows ==
  ASSUME Typed, AllAge(sockets'), dialled' = dialled PROVE Grows
<1>1. dialled \in Nat /\ \A s \in SocketIds : s \in Nat
  BY TunnelAssumption DEF Typed, SocketIds
<1>. QED  BY <1>1 DEF AllAge, Ages, Grows

(* Whatever ages the sockets and leaves the edge's records alone keeps what *)
(* was never dialled out of it.                                             *)
LEMMA DialledKept ==
  ASSUME Typed, Dialled, AllAge(sockets'), dialled' = dialled,
         UNCHANGED <<conns, live>>
  PROVE  Dialled'
<1>1. SUFFICES ASSUME NEW s \in SocketIds
      PROVE  /\ sockets'[s].client = "unused" <=> s > dialled
             /\ sockets'[s].up # << >> => s <= dialled
             /\ conns[s].verifying > 0 => s <= dialled
             /\ s \in live => s <= dialled
  BY DEF Dialled
<1>2. Ages(sockets[s], sockets'[s])
  BY DEF AllAge
<1>3. s \in Nat /\ dialled \in Nat
  BY TunnelAssumption DEF Typed, SocketIds
<1>. QED  BY <1>2, <1>3 DEF Ages, Dialled

(* A step of one daemon that dials nothing: it keeps its socket and stays   *)
(* stopped, or it forgets its socket, which is then closed, or closing and  *)
(* the daemon stopped.                                                      *)
LEMMA DaemonStepKept ==
  ASSUME IInv, AllAge(sockets'), dialled' = dialled, faults' \in Nat,
         UNCHANGED edge, NEW o \in Origins, NEW e, GoodDaemon(e),
         daemons' = [daemons EXCEPT ![o] = e],
         \/ /\ e.socket = daemons[o].socket
            /\ daemons[o].state = "stopped" => e.state = "stopped"
         \/ /\ e.socket = 0
            /\ \A s \in SocketIds : sockets[s].owner = o =>
                 /\ sockets'[s].client \notin {"dialling", "open"}
                 /\ sockets'[s].client = "closing" => e.state = "stopped"
  PROVE  Advances
<1>1. Typed'
  BY DEF IInv, Typed, EdgeTyped, edge, AllAge, GoodDaemon
<1>2. Dialled'
  BY DialledKept DEF IInv, edge
<1>3. \A p \in Origins : daemons'[p] = IF p = o THEN e ELSE daemons[p]
  BY DEF IInv, Typed
<1>4. \A p \in Origins : GoodDaemon(daemons'[p])
  BY <1>3 DEF IInv
<1>5. \A s \in SocketIds : Ages(sockets[s], sockets'[s]) /\ sockets[s].owner \in Origins
  BY DEF IInv, Typed, AllAge, Socket
<1>6. ASSUME NEW p \in Origins, daemons'[p].socket # 0
      PROVE  /\ daemons'[p].socket <= dialled
             /\ sockets'[daemons'[p].socket].owner = p
  <2>1. daemons'[p].socket = daemons[p].socket /\ daemons[p].socket \in SocketIds
    BY <1>3, <1>6, TunnelAssumption DEF IInv, Typed, OriginDaemon, SocketIds
  <2>. QED  BY <1>5, <1>6, <2>1 DEF IInv, Linked, Ages
<1>7. ASSUME NEW s \in SocketIds
      PROVE  /\ sockets'[s].client \in {"dialling", "open"}
                  => daemons'[sockets'[s].owner].socket = s
             /\ sockets'[s].client = "closing"
                  => \/ daemons'[sockets'[s].owner].socket = s
                     \/ daemons'[sockets'[s].owner].state = "stopped"
  <2> DEFINE p == sockets[s].owner
  <2>1. p \in Origins /\ sockets'[s].owner = p
    BY <1>5 DEF Ages
  <2>2. /\ sockets'[s].client \in {"dialling", "open"} => daemons[p].socket = s
        /\ sockets'[s].client = "closing"
             => daemons[p].socket = s \/ daemons[p].state = "stopped"
    BY <1>5 DEF Ages, IInv, Linked
  <2>. QED  BY <1>3, <2>1, <2>2
<1>8. Linked'
  BY <1>6, <1>7 DEF Linked
<1>9. Grows
  BY AgingGrows DEF IInv
<1>. QED  BY <1>1, <1>2, <1>4, <1>8, <1>9 DEF IInv, Advances

(* A step of the edge: the daemons' side of the invariant is kept. *)
LEMMA EdgeStepKept ==
  ASSUME IInv, AllAge(sockets'), dialled' = dialled, faults' \in Nat,
         EdgeTyped', UNCHANGED daemons,
         \A s \in SocketIds :
           /\ conns'[s].verifying > 0 => s <= dialled
           /\ s \in live' => s <= dialled
  PROVE  Advances
<1>0. Dialled'
  <2>1. SUFFICES ASSUME NEW s \in SocketIds
        PROVE  /\ sockets'[s].client = "unused" <=> s > dialled
               /\ sockets'[s].up # << >> => s <= dialled
    BY DEF Dialled
  <2>2. Ages(sockets[s], sockets'[s]) /\ s \in Nat /\ dialled \in Nat
    BY TunnelAssumption DEF AllAge, IInv, Typed, SocketIds
  <2>. QED  BY <2>2 DEF Ages, IInv, Dialled
<1>1. Typed'
  BY DEF IInv, Typed, AllAge
<1>2. \A s \in SocketIds : Ages(sockets[s], sockets'[s]) /\ sockets[s].owner \in Origins
  BY DEF IInv, Typed, AllAge, Socket
<1>3. ASSUME NEW p \in Origins, daemons[p].socket # 0
      PROVE  /\ daemons[p].socket <= dialled
             /\ sockets'[daemons[p].socket].owner = p
  <2>1. daemons[p].socket \in SocketIds
    BY <1>3, TunnelAssumption DEF IInv, Typed, OriginDaemon, SocketIds
  <2>. QED  BY <1>2, <1>3, <2>1 DEF IInv, Linked, Ages
<1>4. Linked'
  BY <1>2, <1>3 DEF IInv, Linked, Ages
<1>5. Grows
  BY AgingGrows DEF IInv
<1>. QED  BY <1>0, <1>1, <1>4, <1>5 DEF IInv, Advances

(* A dial, by a daemon that has no socket and has not stopped. *)
LEMMA DialKept ==
  ASSUME IInv, NEW o \in Origins, NEW d, GoodDaemon(d), Dial(o, d),
         ~d.reconnect, daemons[o].socket = 0, daemons[o].state # "stopped",
         UNCHANGED <<faults, edge>>
  PROVE  Advances
<1> DEFINE n == dialled + 1
           w == [sockets[n] EXCEPT !.owner = o, !.client = "dialling"]
           e == [d EXCEPT !.state = "authenticating", !.socket = n]
<1>1. dialled \in Nat /\ MaxSockets \in Nat /\ n \in SocketIds /\ n # 0
        /\ n \in 0..MaxSockets
  BY TunnelAssumption DEF IInv, Typed, Dial, SocketIds
<1>2. w \in Socket /\ w.owner = o /\ w.client = "dialling" /\ w.up = sockets[n].up
  BY <1>1 DEF IInv, Typed, Socket
<1>3. e \in OriginDaemon /\ e.state = "authenticating" /\ e.socket = n
        /\ e.inFlight = d.inFlight /\ e.reconnect = FALSE
  BY <1>1 DEF GoodDaemon, OriginDaemon
<1>4. GoodDaemon(e)
  BY <1>3 DEF GoodDaemon, Ceiling
<1>5. dialled' = n /\ daemons' = [daemons EXCEPT ![o] = e]
  BY DEF Dial
<1>6. sockets' = [sockets EXCEPT ![n] = w]
  BY <1>1 DEF Dial, IInv, Typed
<1> HIDE DEF w, e
<1>7. \A s \in SocketIds : sockets'[s] = IF s = n THEN w ELSE sockets[s]
  BY <1>6 DEF IInv, Typed
<1>8. \A p \in Origins : daemons'[p] = IF p = o THEN e ELSE daemons[p]
  BY <1>5 DEF IInv, Typed
<1>9. Typed'
  BY <1>1, <1>2, <1>3, <1>5, <1>6 DEF IInv, Typed, EdgeTyped, edge
<1>10. Dialled'
  BY <1>1, <1>2, <1>5, <1>7 DEF IInv, Dialled, edge, SocketIds
<1>11. \A p \in Origins : GoodDaemon(daemons'[p])
  BY <1>4, <1>8 DEF IInv
<1>12. ASSUME NEW p \in Origins, daemons'[p].socket # 0
       PROVE  /\ daemons'[p].socket <= n
              /\ sockets'[daemons'[p].socket].owner = p
  <2>1. CASE p = o
    BY <1>1, <1>2, <1>3, <1>7, <1>8, <2>1
  <2>2. CASE p # o
    <3>1. daemons'[p] = daemons[p] /\ daemons[p].socket \in SocketIds
      BY <1>8, <1>12, <2>2, TunnelAssumption DEF IInv, Typed, OriginDaemon, SocketIds
    <3>2. daemons[p].socket <= dialled /\ sockets[daemons[p].socket].owner = p
      BY <1>12, <3>1 DEF IInv, Linked
    <3>3. daemons[p].socket <= n /\ daemons[p].socket # n
      BY <1>1, <3>1, <3>2 DEF SocketIds
    <3>. QED  BY <1>7, <3>1, <3>2, <3>3
  <2>. QED  BY <2>1, <2>2
<1>13. ASSUME NEW s \in SocketIds
       PROVE  /\ sockets'[s].client \in {"dialling", "open"}
                   => daemons'[sockets'[s].owner].socket = s
              /\ sockets'[s].client = "closing"
                   => \/ daemons'[sockets'[s].owner].socket = s
                      \/ daemons'[sockets'[s].owner].state = "stopped"
  <2>1. CASE s = n
    BY <1>2, <1>3, <1>7, <1>8, <2>1
  <2>2. CASE s # n
    <3>1. sockets'[s] = sockets[s] /\ sockets[s].owner \in Origins /\ s # 0
      BY <1>7, <2>2 DEF IInv, Typed, Socket, SocketIds
    <3>. QED  BY <1>8, <3>1 DEF IInv, Linked
  <2>. QED  BY <2>1, <2>2
<1>14. Linked'
  BY <1>5, <1>12, <1>13 DEF Linked
<1>15. Grows
  BY <1>1, <1>2, <1>5, <1>7 DEF Grows, SocketIds
<1>. QED  BY <1>9, <1>10, <1>11, <1>14, <1>15 DEF IInv, Advances

-------------------------------------------------------------------------------
(***************************************************************************)
(* The steps of an origin daemon.                                          *)
(***************************************************************************)
LEMMA InvFacts ==
  ASSUME IInv
  PROVE  /\ sockets \in [SocketIds -> Socket] /\ AllAge(sockets)
         /\ \A s \in SocketIds : sockets[s] \in Socket /\ sockets[s].owner \in Origins
         /\ \A o \in Origins : /\ GoodDaemon(daemons[o])
                               /\ daemons[o] \in OriginDaemon
         /\ daemons \in [Origins -> OriginDaemon]
         /\ faults \in Nat
<1>1. sockets \in [SocketIds -> Socket]
  BY DEF IInv, Typed
<1>. QED  BY <1>1, AllAgeSelf DEF IInv, Typed, Socket

(* A fault is counted, or not. *)
LEMMA FaultCounted ==
  ASSUME faults \in Nat, Fault \/ faults' = faults
  PROVE  faults' \in Nat
BY DEF Fault

LEMMA FramesSent ==
  /\ <<"advertise", 0>> \in Frames /\ <<"shutdown", 0>> \in Frames
  /\ \A r \in Requests :
       <<"request", r>> \in Frames /\ <<"response", r>> \in Frames
  /\ \A k \in 1..MaxPings : <<"ping", k>> \in Frames /\ <<"pong", k>> \in Frames
BY TunnelAssumption DEF Frames

LEMMA RequestFrame ==
  ASSUME NEW f \in Frames, f[1] \in {"request", "response"}
  PROVE  f[2] \in Requests
<1>1. PICK a \in {"request", "response"} \cup {"advertise", "ping", "pong", "shutdown"},
           b \in Requests \cup 0..MaxPings :
        /\ f = <<a, b>>
        /\ \/ a \in {"request", "response"} /\ b \in Requests
           \/ a \in {"advertise", "ping", "pong", "shutdown"}
  BY DEF Frames
<1>. QED  BY <1>1

LEMMA StartKept ==
  ASSUME IInv, NEW o \in Origins, Start(o), UNCHANGED edge
  PROVE  Advances
<1>1. /\ GoodDaemon(daemons[o]) /\ daemons[o].state = "idle"
      /\ daemons[o].socket = 0 /\ ~daemons[o].reconnect
  BY InvFacts DEF Start, GoodDaemon
<1>. QED  BY <1>1, DialKept DEF Start

LEMMA ReconnectKept ==
  ASSUME IInv, NEW o \in Origins, Reconnect(o), UNCHANGED edge
  PROVE  Advances
<1> DEFINE d == [daemons[o] EXCEPT !.reconnect = FALSE]
<1>1. GoodDaemon(daemons[o]) /\ daemons[o] \in OriginDaemon /\ daemons[o].reconnect
  BY InvFacts DEF Reconnect
<1>2. d \in OriginDaemon /\ d.state = daemons[o].state /\ d.reconnect = FALSE
        /\ d.socket = daemons[o].socket /\ d.inFlight = daemons[o].inFlight
  BY <1>1 DEF OriginDaemon
<1>3. \/ d.state \notin {"closing", "stopped"} /\ Dial(o, d) /\ faults' = faults
      \/ /\ daemons' = [daemons EXCEPT ![o] = d]
         /\ UNCHANGED <<sockets, dialled, faults>>
  BY DEF Reconnect
<1> HIDE DEF d
<1>4. GoodDaemon(d)
  BY <1>1, <1>2, EditKeepsGood
<1>5. CASE d.state \notin {"closing", "stopped"} /\ Dial(o, d) /\ faults' = faults
  BY <1>1, <1>2, <1>4, <1>5, DialKept DEF GoodDaemon
<1>6. CASE /\ daemons' = [daemons EXCEPT ![o] = d]
           /\ UNCHANGED <<sockets, dialled, faults>>
  <2>1. AllAge(sockets') /\ faults' \in Nat /\ dialled' = dialled
    BY <1>6, InvFacts
  <2>. QED  BY <1>2, <1>4, <1>6, <2>1, DaemonStepKept
<1>. QED  BY <1>3, <1>5, <1>6

LEMMA ClientOpenedKept ==
  ASSUME IInv, NEW s \in SocketIds, ClientOpened(s), UNCHANGED edge
  PROVE  Advances
<1> DEFINE o == sockets[s].owner
           w == [sockets[s] EXCEPT !.client = "open"]
           d == daemons[o]
           x == d.signing \cup {s}
           e == [d EXCEPT !.signing = x]
<1>1. o \in Origins /\ GoodDaemon(d) /\ d \in OriginDaemon /\ sockets[s] \in Socket
        /\ sockets[s].client = "dialling" /\ AllAge(sockets) /\ faults' \in Nat
        /\ daemons \in [Origins -> OriginDaemon]
  BY InvFacts DEF ClientOpened
<1>2. Ages(sockets[s], w)
  BY <1>1 DEF Ages, Socket
<1>3. sockets' = [sockets EXCEPT ![s] = w] /\ dialled' = dialled
  BY DEF ClientOpened
<1>4. AllAge(sockets')
  BY <1>1, <1>2, <1>3, AllAgeAt
<1>5. x \in SUBSET SocketIds
  BY <1>1 DEF OriginDaemon
<1>6. daemons' = [daemons EXCEPT ![o] = d] \/ daemons' = [daemons EXCEPT ![o] = e]
  BY <1>1 DEF ClientOpened
<1> HIDE DEF x
<1>7. e \in OriginDaemon /\ e.state = d.state /\ e.socket = d.socket
        /\ e.inFlight = d.inFlight /\ e.reconnect = d.reconnect
  BY <1>1, <1>5 DEF OriginDaemon
<1> HIDE DEF e
<1>8. GoodDaemon(e)
  BY <1>1, <1>7, EditKeepsGood
<1> HIDE DEF d, o, w
<1>9. CASE daemons' = [daemons EXCEPT ![o] = d]
  BY <1>1, <1>3, <1>4, <1>9, DaemonStepKept DEF d
<1>10. CASE daemons' = [daemons EXCEPT ![o] = e]
  BY <1>1, <1>3, <1>4, <1>7, <1>8, <1>10, DaemonStepKept DEF d
<1>. QED  BY <1>6, <1>9, <1>10

LEMMA SignedKept ==
  ASSUME IInv, NEW o \in Origins, NEW s \in SocketIds, Signed(o, s), UNCHANGED edge
  PROVE  Advances
<1> DEFINE x == daemons[o].signing \ {s}
           d == [daemons[o] EXCEPT !.signing = x]
           mute == d.socket = 0 \/ sockets[d.socket].client = "dialling"
           c == CancelTimers(d)
           e == [c EXCEPT !.state = "open", !.heartbeat = TRUE]
<1>1. GoodDaemon(daemons[o]) /\ daemons[o] \in OriginDaemon /\ faults' \in Nat
        /\ AllAge(sockets) /\ dialled' = dialled
  BY InvFacts DEF Signed
<1>2. x \in SUBSET SocketIds
  BY <1>1 DEF OriginDaemon
<1>3. /\ sockets' = IF mute THEN sockets ELSE SendIfOpen(sockets, d, <<"advertise", 0>>)
      /\ daemons' = [daemons EXCEPT ![o] = IF mute THEN d ELSE e]
  BY DEF Signed
<1> HIDE DEF x
<1>4. d \in OriginDaemon /\ d.state = daemons[o].state /\ d.socket = daemons[o].socket
        /\ d.inFlight = daemons[o].inFlight /\ d.reconnect = daemons[o].reconnect
  BY <1>1, <1>2 DEF OriginDaemon
<1> HIDE DEF d
<1>5. GoodDaemon(d)
  BY <1>1, <1>4, EditKeepsGood
<1>6. GoodDaemon(c) /\ c.socket = d.socket /\ c.inFlight = d.inFlight /\ ~c.reconnect
  BY <1>5, CancelTimersFields
<1>7. AllAge(sockets')
  BY <1>1, <1>3, <1>4, SendIfOpenAges, FramesSent
<1>8. CASE mute
  BY <1>1, <1>3, <1>4, <1>5, <1>7, <1>8, DaemonStepKept
<1>9. CASE ~mute
  <2> HIDE DEF c
  <2>1. d.socket # 0 /\ d.state # "stopped"
    BY <1>5, <1>9 DEF GoodDaemon
  <2>2. c \in OriginDaemon
    BY <1>6 DEF GoodDaemon
  <2>3. e \in OriginDaemon /\ e.state = "open" /\ e.socket = c.socket
          /\ e.inFlight = c.inFlight /\ e.reconnect = c.reconnect
    BY <2>2 DEF OriginDaemon
  <2> HIDE DEF e
  <2>4. GoodDaemon(e)
    BY <1>6, <2>3 DEF GoodDaemon, Ceiling
  <2>5. daemons' = [daemons EXCEPT ![o] = e] /\ e.socket = daemons[o].socket
          /\ daemons[o].state # "stopped"
    BY <1>3, <1>4, <1>6, <1>9, <2>1, <2>3
  <2>. QED  BY <1>1, <1>7, <2>4, <2>5, DaemonStepKept
<1>. QED  BY <1>8, <1>9

LEMMA OriginReceiveKept ==
  ASSUME IInv, NEW s \in SocketIds, OriginReceive(s), UNCHANGED edge
  PROVE  Advances
<1> DEFINE o  == sockets[s].owner
           d  == daemons[o]
           w  == [sockets[s] EXCEPT !.down = Tail(@)]
           ws == [sockets EXCEPT ![s] = w]
           f  == Head(sockets[s].down)
           x  == d.inFlight \cup {f[2]}
           e  == [d EXCEPT !.inFlight = x]
<1>1. o \in Origins /\ GoodDaemon(d) /\ d \in OriginDaemon /\ sockets[s] \in Socket
        /\ sockets[s].down # << >> /\ AllAge(sockets) /\ faults' \in Nat
        /\ daemons \in [Origins -> OriginDaemon] /\ dialled' = dialled
  BY InvFacts DEF OriginReceive
<1>2. Ages(sockets[s], w) /\ f \in Frames
  BY <1>1, AgesReadDown
<1>3. AllAge(ws)
  BY <1>1, <1>2, AllAgeAt
<1>4. \/ /\ sockets' = SendIfOpen(ws, d, <<"response", f[2]>>) /\ f[1] = "request"
         /\ daemons' = daemons
      \/ /\ f[1] = "request" /\ ~Busy(d)
         /\ daemons' = [daemons EXCEPT ![o] = e] /\ sockets' = ws
      \/ /\ daemons' = [daemons EXCEPT ![o] = HandlePong(d, f[2])]
         /\ sockets' = ws
  BY DEF OriginReceive
<1> HIDE DEF d, o, w, ws, f
<1>5. ASSUME f[1] = "request" PROVE f[2] \in Requests
  BY <1>2, <1>5, RequestFrame
<1>6. CASE /\ sockets' = SendIfOpen(ws, d, <<"response", f[2]>>)
           /\ f[1] = "request" /\ daemons' = daemons
  <2>1. AllAge(sockets')
    BY <1>1, <1>3, <1>5, <1>6, SendIfOpenAges, FramesSent
  <2>2. daemons' = [daemons EXCEPT ![o] = d]
    BY <1>1, <1>6 DEF d
  <2>. QED  BY <1>1, <2>1, <2>2, DaemonStepKept DEF d
<1>7. CASE /\ f[1] = "request" /\ ~Busy(d)
           /\ daemons' = [daemons EXCEPT ![o] = e] /\ sockets' = ws
  <2>1. f[2] \in Requests
    BY <1>5, <1>7
  <2>2. x \in SUBSET Requests
    BY <1>1, <2>1 DEF OriginDaemon
  <2>3. IsFiniteSet(d.inFlight) /\ Cardinality(d.inFlight) \in Nat
          /\ Cardinality(d.inFlight) < MaxInFlight
    <3>1. IsFiniteSet(d.inFlight) /\ Cardinality(d.inFlight) \in Nat
      BY <1>1, FS_CardinalityType DEF GoodDaemon, Ceiling
    <3>. QED  BY <1>7, <3>1, TunnelAssumption DEF Busy
  <2>4. /\ IsFiniteSet(x)
        /\ Cardinality(x) = IF f[2] \in d.inFlight THEN Cardinality(d.inFlight)
                            ELSE Cardinality(d.inFlight) + 1
    BY <2>3, FS_AddElement
  <2> HIDE DEF x
  <2>5. Cardinality(x) <= MaxInFlight
    BY <2>3, <2>4, TunnelAssumption
  <2>6. e \in OriginDaemon /\ e.state = d.state /\ e.socket = d.socket
          /\ e.inFlight = x /\ e.reconnect = d.reconnect
    BY <1>1, <2>2 DEF OriginDaemon
  <2> HIDE DEF e
  <2>7. GoodDaemon(e)
    BY <1>1, <2>4, <2>5, <2>6 DEF GoodDaemon, Ceiling
  <2>. QED  BY <1>1, <1>3, <1>7, <2>6, <2>7, DaemonStepKept DEF d
<1>8. CASE /\ daemons' = [daemons EXCEPT ![o] = HandlePong(d, f[2])] /\ sockets' = ws
  BY <1>1, <1>3, <1>8, HandlePongFields, DaemonStepKept DEF d
<1>. QED  BY <1>4, <1>6, <1>7, <1>8

LEMMA ServedKept ==
  ASSUME IInv, NEW o \in Origins, NEW r \in Requests, Served(o, r), UNCHANGED edge
  PROVE  Advances
<1> DEFINE d == daemons[o]
           x == d.inFlight \ {r}
           e == [d EXCEPT !.inFlight = x]
<1>1. GoodDaemon(d) /\ d \in OriginDaemon /\ AllAge(sockets) /\ faults' \in Nat
        /\ dialled' = dialled /\ daemons' = [daemons EXCEPT ![o] = e]
  BY InvFacts DEF Served
<1>2. AllAge(sockets')
  BY <1>1, SendIfOpenAges, FramesSent DEF Served
<1>3. x \in SUBSET Requests /\ IsFiniteSet(x) /\ Cardinality(x) <= MaxInFlight
  <2>1. IsFiniteSet(d.inFlight) /\ Cardinality(d.inFlight) <= MaxInFlight
          /\ d.inFlight \in SUBSET Requests
    BY <1>1 DEF GoodDaemon, Ceiling, OriginDaemon
  <2>2. Cardinality(d.inFlight) \in Nat
    BY <2>1, FS_CardinalityType
  <2>3. /\ IsFiniteSet(x)
        /\ Cardinality(x) = IF r \in d.inFlight THEN Cardinality(d.inFlight) - 1
                            ELSE Cardinality(d.inFlight)
    BY <2>1, FS_RemoveElement
  <2>4. x \in SUBSET Requests
    BY <2>1
  <2> HIDE DEF x
  <2>. QED  BY <2>1, <2>2, <2>3, <2>4, TunnelAssumption
<1> HIDE DEF x
<1>4. e \in OriginDaemon /\ e.state = d.state /\ e.socket = d.socket
        /\ e.inFlight = x /\ e.reconnect = d.reconnect
  BY <1>1, <1>3 DEF OriginDaemon
<1> HIDE DEF e
<1>5. GoodDaemon(e)
  BY <1>1, <1>3, <1>4 DEF GoodDaemon, Ceiling
<1>. QED  BY <1>1, <1>2, <1>4, <1>5, DaemonStepKept

LEMMA SendPingKept ==
  ASSUME IInv, NEW o \in Origins, NEW k \in 1..MaxPings, NEW late \in BOOLEAN,
         SendPing(o, k, late), UNCHANGED edge
  PROVE  Advances
<1> DEFINE d == daemons[o]
           x == d.deadlines \cup {k}
           e == [d EXCEPT !.outstandingPing = k, !.pongDeadline = k, !.deadlines = x]
<1>1. GoodDaemon(d) /\ d \in OriginDaemon /\ AllAge(sockets) /\ faults' \in Nat
        /\ dialled' = dialled
  BY InvFacts, FaultCounted DEF SendPing
<1>2. daemons' = [daemons EXCEPT ![o] = e]
  BY DEF SendPing
<1>3. AllAge(sockets')
  BY <1>1, SendIfOpenAges, FramesSent DEF SendPing
<1>4. x \in SUBSET (1..MaxPings) /\ k \in 0..MaxPings
  BY <1>1, TunnelAssumption DEF OriginDaemon
<1> HIDE DEF x
<1>5. e \in OriginDaemon /\ e.state = d.state /\ e.socket = d.socket
        /\ e.inFlight = d.inFlight /\ e.reconnect = d.reconnect
  BY <1>1, <1>4 DEF OriginDaemon
<1> HIDE DEF e
<1>6. GoodDaemon(e)
  BY <1>1, <1>5, EditKeepsGood
<1>. QED  BY <1>1, <1>2, <1>3, <1>5, <1>6, DaemonStepKept

(* The timer closes the socket and keeps it, for the close event. *)
LEMMA PongTimeoutKept ==
  ASSUME IInv, NEW o \in Origins, NEW k \in 1..MaxPings, NEW late \in BOOLEAN,
         PongTimeout(o, k, late), UNCHANGED edge
  PROVE  Advances
<1> DEFINE d == daemons[o]
           x == d.deadlines \ {k}
           e == [d EXCEPT !.deadlines = x, !.outstandingPing = 0]
<1>1. GoodDaemon(d) /\ d \in OriginDaemon /\ AllAge(sockets) /\ faults' \in Nat
        /\ dialled' = dialled /\ daemons \in [Origins -> OriginDaemon]
  BY InvFacts, FaultCounted DEF PongTimeout
<1>2. daemons' = [daemons EXCEPT ![o] = e]
  BY <1>1 DEF PongTimeout
<1>3. AllAge(sockets')
  BY <1>1, CloseSocketAges DEF PongTimeout
<1>4. x \in SUBSET (1..MaxPings)
  BY <1>1 DEF OriginDaemon
<1> HIDE DEF x
<1>5. e \in OriginDaemon /\ e.state = d.state /\ e.socket = d.socket
        /\ e.inFlight = d.inFlight /\ e.reconnect = d.reconnect
  BY <1>1, <1>4, Nothing DEF OriginDaemon
<1> HIDE DEF e
<1>6. GoodDaemon(e)
  BY <1>1, <1>5, EditKeepsGood
<1>. QED  BY <1>1, <1>2, <1>3, <1>5, <1>6, DaemonStepKept

(* The close event of a socket: were it not the daemon's, the daemon has    *)
(* stopped; otherwise it was the daemon's only one.                         *)
LEMMA ClientClosedKept ==
  ASSUME IInv, NEW s \in SocketIds, ClientClosed(s), UNCHANGED edge
  PROVE  Advances
<1> DEFINE o == sockets[s].owner
           w == [sockets[s] EXCEPT !.client = "closed", !.down = << >>]
           e == HandleClose(daemons[o])
<1>1. o \in Origins /\ GoodDaemon(daemons[o]) /\ sockets[s] \in Socket
        /\ AllAge(sockets) /\ faults' \in Nat /\ dialled' = dialled
        /\ sockets \in [SocketIds -> Socket]
  BY InvFacts DEF ClientClosed
<1>2. sockets[s].client \in {"dialling", "open", "closing"}
  BY DEF ClientClosed, ClientGone, ClientDue
<1>3. << >> \in Seq(Frames)
  OBVIOUS
<1>4. w \in Socket /\ w.owner = o /\ w.client = "closed"
        /\ w.server = sockets[s].server /\ w.up = sockets[s].up
  BY <1>1, <1>3 DEF Socket
<1>5. sockets' = [sockets EXCEPT ![s] = w] /\ daemons' = [daemons EXCEPT ![o] = e]
  BY <1>1 DEF ClientClosed
<1>6. GoodDaemon(e) /\ e.socket = 0
        /\ (daemons[o].state = "stopped" => e.state = "stopped")
  BY <1>1, HandleCloseFields
<1> HIDE DEF w, e
<1>7. Ages(sockets[s], w)
  BY <1>2, <1>4 DEF Ages
<1>8. AllAge(sockets')
  BY <1>1, <1>5, <1>7, AllAgeAt
<1>9. ASSUME NEW t \in SocketIds, sockets[t].owner = o
      PROVE  /\ sockets'[t].client \notin {"dialling", "open"}
             /\ sockets'[t].client = "closing" => e.state = "stopped"
  <2>1. CASE t = s
    BY <1>1, <1>4, <1>5, <2>1
  <2>2. CASE t # s
    <3>1. sockets'[t] = sockets[t]
      BY <1>1, <1>5, <2>2
    <3>2. daemons[o].socket = s \/ daemons[o].state = "stopped"
      BY <1>2 DEF IInv, Linked
    <3>3. daemons[o].state = "stopped" => daemons[o].socket = 0 /\ t # 0
      BY <1>1 DEF GoodDaemon, SocketIds
    <3>4. sockets[t].client \notin {"dialling", "open"}
      BY <1>9, <2>2, <3>2, <3>3 DEF IInv, Linked
    <3>5. sockets[t].client = "closing" => daemons[o].state = "stopped"
      BY <1>9, <2>2, <3>2, <3>3 DEF IInv, Linked
    <3>. QED  BY <1>6, <3>1, <3>4, <3>5
  <2>. QED  BY <2>1, <2>2
<1>. QED  BY <1>1, <1>5, <1>6, <1>8, <1>9, DaemonStepKept

(* A daemon that has closed its socket and stopped: what is not its socket  *)
(* was closed, or closing under a stopped daemon, before.                   *)
LEMMA StoppedKept ==
  ASSUME IInv, NEW o \in Origins, NEW d, GoodDaemon(d), d.socket = daemons[o].socket,
         NEW ws, AllAge(ws), \A s \in SocketIds : ws[s].client = sockets[s].client,
         sockets' = CloseSocket(ws, d), dialled' = dialled, faults' \in Nat,
         daemons' = [daemons EXCEPT ![o] = Stopped(d)], UNCHANGED edge
  PROVE  Advances
<1>1. GoodDaemon(Stopped(d)) /\ Stopped(d).socket = 0 /\ Stopped(d).state = "stopped"
  BY StoppedFields
<1>2. d \in OriginDaemon
  BY DEF GoodDaemon
<1>3. AllAge(sockets')
  BY <1>2, CloseSocketAges
<1>4. ASSUME NEW s \in SocketIds, sockets[s].owner = o
      PROVE  sockets'[s].client \notin {"dialling", "open"}
  <2>1. CASE s = d.socket
    BY <1>2, <2>1, CloseSocketAges
  <2>2. CASE s # d.socket
    <3>1. sockets'[s] = ws[s]
      BY <1>2, <2>2, CloseSocketAges
    <3>. QED  BY <1>4, <2>2, <3>1 DEF IInv, Linked
  <2>. QED  BY <2>1, <2>2
<1>. QED  BY <1>1, <1>3, <1>4, DaemonStepKept

LEMMA StopKept ==
  ASSUME IInv, NEW o \in Origins, Stop(o), UNCHANGED edge
  PROVE  Advances
<1> DEFINE d  == CancelTimers(daemons[o])
           ws == SendIfOpen(sockets, d, <<"shutdown", 0>>)
           e  == [d EXCEPT !.state = "closing", !.draining = TRUE]
<1>1. GoodDaemon(daemons[o]) /\ AllAge(sockets) /\ faults' \in Nat
        /\ dialled' = dialled /\ sockets \in [SocketIds -> Socket]
        /\ daemons[o].state \notin {"idle", "stopped"}
  BY InvFacts DEF Stop
<1>2. GoodDaemon(d) /\ ~d.reconnect /\ d.socket = daemons[o].socket
        /\ d.state = daemons[o].state
  BY <1>1, CancelTimersFields
<1>3. \/ /\ sockets' = CloseSocket(ws, d)
         /\ daemons' = [daemons EXCEPT ![o] = Stopped(d)]
      \/ /\ sockets' = ws
         /\ daemons' = [daemons EXCEPT ![o] = e]
  BY DEF Stop
<1> HIDE DEF d
<1>4. d \in OriginDaemon
  BY <1>2 DEF GoodDaemon
<1>5. AllAge(ws)
  BY <1>1, <1>4, SendIfOpenAges, FramesSent
<1>6. \A s \in SocketIds : ws[s].client = sockets[s].client
  <2>1. d.socket = 0 \/ d.socket \in SocketIds
    BY <1>4, TunnelAssumption DEF OriginDaemon, SocketIds
  <2>2. \A s \in SocketIds : Up(sockets[s], <<"shutdown", 0>>).client = sockets[s].client
    BY <1>1, AgesSelf, AgesUp, FramesSent
  <2>. QED  BY <1>1, <2>1, <2>2 DEF SendIfOpen
<1> HIDE DEF ws
<1>7. CASE /\ sockets' = CloseSocket(ws, d)
           /\ daemons' = [daemons EXCEPT ![o] = Stopped(d)]
  BY <1>1, <1>2, <1>5, <1>6, <1>7, StoppedKept
<1>8. CASE /\ sockets' = ws
           /\ daemons' = [daemons EXCEPT ![o] = e]
  <2>1. e \in OriginDaemon /\ e.state = "closing" /\ e.socket = d.socket
          /\ e.inFlight = d.inFlight /\ e.reconnect = d.reconnect
    BY <1>4 DEF OriginDaemon
  <2> HIDE DEF e
  <2>2. GoodDaemon(e)
    BY <1>2, <2>1 DEF GoodDaemon, Ceiling
  <2>. QED  BY <1>1, <1>2, <1>5, <1>8, <2>1, <2>2, DaemonStepKept
<1>. QED  BY <1>3, <1>7, <1>8

LEMMA StopDoneKept ==
  ASSUME IInv, NEW o \in Origins, StopDone(o), UNCHANGED edge
  PROVE  Advances
<1>1. GoodDaemon(daemons[o]) /\ AllAge(sockets) /\ faults' \in Nat
        /\ daemons \in [Origins -> OriginDaemon]
  BY InvFacts, FaultCounted DEF StopDone
<1>2. daemons' = [daemons EXCEPT ![o] = Stopped(daemons[o])]
  BY <1>1 DEF StopDone
<1>. QED  BY <1>1, <1>2, StoppedKept DEF StopDone

(* All the steps of the origins. *)
LEMMA OriginKept ==
  ASSUME IInv, OriginStep, UNCHANGED edge
  PROVE  Advances
<1>1. ASSUME NEW s \in SocketIds, ClientOpened(s) \/ OriginReceive(s) \/ ClientClosed(s)
      PROVE  Advances
  BY <1>1, ClientOpenedKept, OriginReceiveKept, ClientClosedKept
<1>2. ASSUME NEW o \in Origins, Start(o) \/ Reconnect(o) \/ Stop(o) \/ StopDone(o)
      PROVE  Advances
  BY <1>2, StartKept, ReconnectKept, StopKept, StopDoneKept
<1>3. ASSUME NEW o \in Origins, NEW s \in SocketIds, Signed(o, s)
      PROVE  Advances
  BY <1>3, SignedKept
<1>4. ASSUME NEW o \in Origins, NEW r \in Requests, Served(o, r)
      PROVE  Advances
  BY <1>4, ServedKept
<1>5. ASSUME NEW o \in Origins, NEW k \in 1..MaxPings, SendPing(o, k, Slow(o))
      PROVE  Advances
  BY <1>5, SendPingKept DEF Slow
<1>6. ASSUME NEW o \in Origins, NEW k \in 1..MaxPings, PongTimeout(o, k, PingUnderway(k))
      PROVE  Advances
  BY <1>6, PongTimeoutKept DEF PingUnderway
<1>. QED  BY <1>1, <1>2, <1>3, <1>4, <1>5, <1>6 DEF OriginStep

-------------------------------------------------------------------------------
(***************************************************************************)
(* The steps of the edge, and a break.                                     *)
(***************************************************************************)
LEMMA EdgeFacts ==
  ASSUME IInv
  PROVE  /\ EdgeTyped
         /\ conns \in [SocketIds -> ConnRecord]
         /\ \A s \in SocketIds :
              /\ conns[s] \in ConnRecord /\ conns[s].verifying \in Nat
              /\ sockets[s].up # << >> => s <= dialled
              /\ conns[s].verifying > 0 => s <= dialled
              /\ s \in live => s <= dialled
BY DEF IInv, Typed, EdgeTyped, Dialled, ConnRecord

LEMMA DoneForwarded ==
  ASSUME NEW how \in {"response", "error"} PROVE Done(how) \in Forwarded
BY Nothing DEF Done, Forwarded

(* The handshake counter of one connection changes, or its state. *)
LEMMA ConnEdits ==
  ASSUME NEW c \in ConnRecord, NEW state \in {"open", "closed"},
         NEW n \in Nat, NEW b \in BOOLEAN
  PROVE  /\ [c EXCEPT !.state = state] \in ConnRecord
         /\ [c EXCEPT !.state = state].verifying = c.verifying
         /\ [c EXCEPT !.state = state, !.verifying = n] \in ConnRecord
         /\ [c EXCEPT !.state = state, !.verifying = n].verifying = n
         /\ [c EXCEPT !.verifying = n] \in ConnRecord
         /\ [c EXCEPT !.verifying = n].verifying = n
         /\ [state |-> state, registered |-> b, verifying |-> n] \in ConnRecord
BY DEF ConnRecord

LEMMA EdgeReceiveKept ==
  ASSUME IInv, NEW s \in SocketIds, EdgeReceive(s), UNCHANGED daemons
  PROVE  Advances /\ UNCHANGED <<live, routes, dialled>> /\ AllAge(sockets')
<1> DEFINE f == Head(sockets[s].up)
           w == [sockets[s] EXCEPT !.up = Tail(@)]
           c == conns[s]
<1>1. /\ sockets[s] \in Socket /\ sockets[s].up # << >> /\ s <= dialled
      /\ AllAge(sockets) /\ dialled' = dialled /\ faults' \in Nat /\ EdgeTyped
      /\ c \in ConnRecord /\ c.verifying \in Nat
      /\ conns \in [SocketIds -> ConnRecord]
  BY InvFacts, EdgeFacts DEF EdgeReceive
<1>2. Ages(sockets[s], w) /\ f \in Frames
  BY <1>1, AgesReadUp
<1>3. \/ Handshake(s, f, w)
      \/ OpenFrame(s, f, w)
      \/ sockets' = [sockets EXCEPT ![s] = w] /\ UNCHANGED edge
  BY DEF EdgeReceive
<1> HIDE DEF f, w
<1>4. ASSUME Close(s, w)
      PROVE  Advances /\ UNCHANGED <<live, routes>> /\ AllAge(sockets')
  <2> DEFINE x == [c EXCEPT !.state = "closed"]
  <2>1. conns' = [conns EXCEPT ![s] = x] /\ sockets' = [sockets EXCEPT ![s] = CloseServer(w)]
          /\ UNCHANGED <<live, routes, asked>>
    BY <1>1, <1>4 DEF Close
  <2>2. x \in ConnRecord /\ x.verifying = c.verifying
    BY <1>1, ConnEdits
  <2> HIDE DEF x
  <2>3. EdgeTyped' /\ \A t \in SocketIds : conns'[t].verifying = conns[t].verifying
    BY <1>1, <2>1, <2>2 DEF EdgeTyped
  <2>4. AllAge(sockets')
    BY <1>1, <1>2, <2>1, AgesCloseServer, AllAgeAt
  <2>. QED  BY <1>1, <2>1, <2>3, <2>4, EdgeFacts, EdgeStepKept
<1>5. ASSUME sockets' = [sockets EXCEPT ![s] = w]
      PROVE  AllAge(sockets')
  BY <1>1, <1>2, <1>5, AllAgeAt
<1>6. ASSUME conns' = [conns EXCEPT ![s].verifying = @ + 1],
             sockets' = [sockets EXCEPT ![s] = w], UNCHANGED <<live, routes, asked>>
      PROVE  Advances
  <2> DEFINE n == c.verifying + 1
             x == [c EXCEPT !.verifying = n]
  <2>1. conns' = [conns EXCEPT ![s] = x] /\ n \in Nat
    BY <1>1, <1>6
  <2> HIDE DEF n
  <2>2. x \in ConnRecord
    BY <1>1, <2>1, ConnEdits
  <2> HIDE DEF x
  <2>3. EdgeTyped' /\ \A t \in SocketIds : t # s => conns'[t] = conns[t]
    BY <1>1, <1>6, <2>1, <2>2 DEF EdgeTyped
  <2>4. \A t \in SocketIds : conns'[t].verifying > 0 => t <= dialled
    BY <1>1, <2>3, EdgeFacts
  <2>. QED  BY <1>1, <1>5, <1>6, <2>3, <2>4, EdgeFacts, EdgeStepKept
<1>7. ASSUME asked' = IF f[1] = "response" /\ asked[f[2]].phase = "pending"
                        THEN [asked EXCEPT ![f[2]] = Done("response")] ELSE asked,
             sockets' = [sockets EXCEPT ![s] =
                           IF f[1] = "ping" THEN Down(w, <<"pong", f[2]>>) ELSE w],
             UNCHANGED <<conns, live, routes>>
      PROVE  Advances /\ AllAge(sockets')
  <2>1. asked' \in [Requests -> Forwarded]
    BY <1>1, <1>2, <1>7, RequestFrame, DoneForwarded DEF EdgeTyped
  <2>2. EdgeTyped'
    BY <1>1, <1>7, <2>1 DEF EdgeTyped
  <2>3. AllAge(sockets')
    <3>1. CASE f[1] = "ping"
      <4>1. <<"pong", f[2]>> \in Frames
        BY <1>2, <3>1 DEF Frames
      <4>2. sockets' = [sockets EXCEPT ![s] = Down(w, <<"pong", f[2]>>)]
        BY <1>7, <3>1
      <4>. QED  BY <1>1, <1>2, <4>1, <4>2, AgesDown, AllAgeAt
    <3>2. CASE f[1] # "ping"
      BY <1>1, <1>2, <1>7, <3>2, AllAgeAt
    <3>. QED  BY <3>1, <3>2
  <2>. QED  BY <1>1, <1>7, <2>2, <2>3, EdgeFacts, EdgeStepKept
<1>8. CASE Handshake(s, f, w)
  BY <1>1, <1>4, <1>5, <1>6, <1>8 DEF Handshake
<1>9. CASE OpenFrame(s, f, w)
  BY <1>1, <1>4, <1>7, <1>9 DEF OpenFrame
<1>10. CASE sockets' = [sockets EXCEPT ![s] = w] /\ UNCHANGED edge
  <2>1. EdgeTyped' /\ UNCHANGED <<conns, live, routes>>
    BY <1>1, <1>10 DEF EdgeTyped, edge
  <2>. QED  BY <1>1, <1>5, <1>10, <2>1, EdgeFacts, EdgeStepKept
<1>. QED  BY <1>1, <1>3, <1>8, <1>9, <1>10

(* register closes, of the other connections, those it displaces. *)
LEMMA RegisterAges ==
  ASSUME IInv, NEW s \in SocketIds, Register(s)
  PROVE  AllAge(sockets')
<1>1. ASSUME NEW t \in SocketIds
      PROVE  sockets'[t] \in {CloseServer(sockets[t]), sockets[t]}
  BY DEF Register
<1>2. ASSUME NEW t \in SocketIds
      PROVE  Ages(sockets[t], sockets'[t])
  BY <1>1, InvFacts, AgesSelf, AgesCloseServer
<1>3. sockets' = [t \in SocketIds |-> sockets'[t]]
  BY DEF Register
<1>. QED  BY <1>2, <1>3 DEF AllAge, Ages

LEMMA VerifiedKept ==
  ASSUME IInv, NEW s \in SocketIds, Verified(s), UNCHANGED daemons
  PROVE  Advances /\ AllAge(sockets') /\ UNCHANGED dialled
<1> DEFINE n == conns[s].verifying - 1
           x == [state |-> "open", registered |-> TRUE, verifying |-> n]
<1>1. /\ s <= dialled /\ conns[s] \in ConnRecord /\ n \in Nat
      /\ dialled' = dialled /\ faults' \in Nat /\ EdgeTyped
      /\ conns \in [SocketIds -> ConnRecord] /\ asked' = asked
      /\ Register(s) /\ s \in 0..MaxSockets
  BY InvFacts, EdgeFacts, TunnelAssumption DEF Verified, SocketIds
<1>2. conns' = [conns EXCEPT ![s] = x]
  BY DEF Verified
<1>3. AllAge(sockets')
  BY <1>1, RegisterAges
<1> HIDE DEF n
<1>4. x \in ConnRecord
  BY <1>1, ConnEdits
<1> HIDE DEF x
<1>5. \A t \in SocketIds : t # s => conns'[t] = conns[t]
  BY <1>1, <1>2
<1>6. live' = live \cup {s} /\ routes' \in [Hosts -> 0..MaxSockets]
  BY <1>1 DEF Register, EdgeTyped
<1>7. EdgeTyped'
  BY <1>1, <1>2, <1>4, <1>6 DEF EdgeTyped
<1>. QED  BY <1>1, <1>3, <1>5, <1>6, <1>7, EdgeFacts, EdgeStepKept

LEMMA RefusedKept ==
  ASSUME IInv, NEW s \in SocketIds, Refused(s), UNCHANGED daemons
  PROVE  Advances /\ AllAge(sockets') /\ UNCHANGED <<dialled, live, routes>>
<1> DEFINE n == conns[s].verifying - 1
           x == [conns[s] EXCEPT !.state = "closed", !.verifying = n]
<1>1. /\ s <= dialled /\ conns[s] \in ConnRecord /\ n \in Nat
      /\ dialled' = dialled /\ faults' \in Nat /\ EdgeTyped
      /\ conns \in [SocketIds -> ConnRecord] /\ UNCHANGED <<live, routes, asked>>
      /\ AllAge(sockets) /\ sockets[s] \in Socket
      /\ sockets' = [sockets EXCEPT ![s] = CloseServer(sockets[s])]
  BY InvFacts, EdgeFacts, FaultCounted DEF Refused
<1>2. conns' = [conns EXCEPT ![s] = x]
  BY <1>1 DEF Refused
<1>3. AllAge(sockets')
  BY <1>1, AgesSelf, AgesCloseServer, AllAgeAt
<1> HIDE DEF n
<1>4. x \in ConnRecord
  BY <1>1, ConnEdits
<1> HIDE DEF x
<1>5. \A t \in SocketIds : t # s => conns'[t] = conns[t]
  BY <1>1, <1>2
<1>6. EdgeTyped'
  BY <1>1, <1>2, <1>4 DEF EdgeTyped
<1>. QED  BY <1>1, <1>3, <1>5, <1>6, EdgeFacts, EdgeStepKept

LEMMA ServerClosedKept ==
  ASSUME IInv, NEW s \in SocketIds, ServerClosed(s), UNCHANGED daemons
  PROVE  Advances /\ AllAge(sockets') /\ UNCHANGED dialled
<1> DEFINE w == [sockets[s] EXCEPT !.server = "closed", !.up = << >>]
           x == [conns[s] EXCEPT !.state = "closed"]
<1>1. /\ dialled' = dialled /\ faults' \in Nat /\ EdgeTyped
      /\ conns[s] \in ConnRecord /\ conns \in [SocketIds -> ConnRecord]
      /\ AllAge(sockets) /\ sockets[s] \in Socket /\ << >> \in Seq(Frames)
      /\ sockets \in [SocketIds -> Socket]
  BY InvFacts, EdgeFacts DEF ServerClosed
<1>2. sockets' = [sockets EXCEPT ![s] = w] /\ conns' = [conns EXCEPT ![s] = x]
  BY <1>1 DEF ServerClosed
<1>3. Ages(sockets[s], w)
  BY <1>1 DEF Ages, Socket
<1>4. AllAge(sockets')
  BY <1>1, <1>2, <1>3, AllAgeAt
<1>5. x \in ConnRecord /\ x.verifying = conns[s].verifying
  BY <1>1, ConnEdits
<1> HIDE DEF x, w
<1>6. conns' \in [SocketIds -> ConnRecord]
        /\ \A t \in SocketIds : conns'[t].verifying = conns[t].verifying
  BY <1>1, <1>2, <1>5
<1>7. Rejected(s) \in [Requests -> Forwarded]
  BY <1>1, DoneForwarded DEF Rejected, EdgeTyped
<1>8. /\ live' \subseteq live /\ routes' \in [Hosts -> 0..MaxSockets]
      /\ asked' \in [Requests -> Forwarded]
  BY <1>1, <1>7, Nothing DEF ServerClosed, Unregister, EdgeTyped
<1>9. EdgeTyped'
  BY <1>1, <1>6, <1>8 DEF EdgeTyped
<1>. QED  BY <1>1, <1>4, <1>6, <1>8, <1>9, EdgeFacts, EdgeStepKept

(* The public side touches no connection but to send on it. *)
LEMMA PublicKept ==
  ASSUME IInv, NEW r \in Requests, UNCHANGED daemons,
         \/ \E h \in Hosts : Arrive(r, h)
         \/ Dispatch(r)
         \/ \E late \in BOOLEAN : Timeout(r, late)
  PROVE  Advances /\ AllAge(sockets') /\ UNCHANGED <<dialled, live, routes>>
<1>1. /\ EdgeTyped /\ AllAge(sockets) /\ faults \in Nat
      /\ \A s \in SocketIds : sockets[s] \in Socket
      /\ asked \in [Requests -> Forwarded] /\ asked[r] \in Forwarded
      /\ routes \in [Hosts -> 0..MaxSockets]
  BY InvFacts, EdgeFacts DEF EdgeTyped
<1>2. /\ UNCHANGED <<dialled, conns, live, routes>>
      /\ Fault \/ faults' = faults
  BY DEF Arrive, Dispatch, Timeout, wire
<1>3. asked' \in [Requests -> Forwarded]
  <2>1. ASSUME NEW h \in Hosts, Arrive(r, h)
        PROVE  asked' \in [Requests -> Forwarded]
    <3> DEFINE x == [asked[r] EXCEPT !.phase = "reading", !.conn = routes[h]]
    <3>1. x \in Forwarded
      BY <1>1 DEF Forwarded
    <3>2. asked' \in {[asked EXCEPT ![r] = Done("error")], [asked EXCEPT ![r] = x]}
      BY <1>1, <2>1 DEF Arrive
    <3> HIDE DEF x
    <3>. QED  BY <1>1, <3>1, <3>2, DoneForwarded
  <2>2. ASSUME Dispatch(r) PROVE asked' \in [Requests -> Forwarded]
    <3> DEFINE x == [asked[r] EXCEPT !.phase = "pending"]
    <3>1. x \in Forwarded
      BY <1>1 DEF Forwarded
    <3>2. asked' = [asked EXCEPT ![r] = x]
      BY <1>1, <2>2 DEF Dispatch
    <3> HIDE DEF x
    <3>. QED  BY <1>1, <3>1, <3>2
  <2>3. ASSUME NEW late \in BOOLEAN, Timeout(r, late)
        PROVE  asked' \in [Requests -> Forwarded]
    BY <1>1, <2>3, DoneForwarded DEF Timeout
  <2>. QED  BY <2>1, <2>2, <2>3
<1>4. AllAge(sockets')
  <2>1. CASE Dispatch(r)
    <3> DEFINE s == asked[r].conn
    <3>1. sockets' = [sockets EXCEPT ![s] = Down(sockets[s], <<"request", r>>)]
      BY <2>1 DEF Dispatch
    <3>2. s \in SocketIds \/ s \notin SocketIds
      OBVIOUS
    <3>3. CASE s \in SocketIds
      BY <1>1, <3>1, <3>3, AgesSelf, AgesDown, AllAgeAt, FramesSent
    <3>4. CASE s \notin SocketIds
      <4>1. sockets' = sockets
        BY <3>1, <3>4, InvFacts
      <4>. QED  BY <1>1, <4>1
    <3>. QED  BY <3>3, <3>4
  <2>2. CASE sockets' = sockets
    BY <1>1, <2>2
  <2>. QED  BY <2>1, <2>2 DEF Arrive, Timeout, wire
<1>5. EdgeTyped'
  BY <1>1, <1>2, <1>3 DEF EdgeTyped
<1>. QED  BY <1>1, <1>2, <1>4, <1>5, EdgeFacts, EdgeStepKept, FaultCounted

LEMMA BreakKept ==
  ASSUME IInv, NEW s \in SocketIds, Break(s), UNCHANGED <<edge, daemons>>
  PROVE  Advances /\ AllAge(sockets') /\ UNCHANGED <<dialled, live, routes>>
<1> DEFINE w == [sockets[s] EXCEPT !.broken = TRUE, !.up = << >>, !.down = << >>]
<1>1. /\ AllAge(sockets) /\ sockets[s] \in Socket /\ << >> \in Seq(Frames)
      /\ sockets \in [SocketIds -> Socket] /\ EdgeTyped
      /\ dialled' = dialled /\ faults' \in Nat
      /\ UNCHANGED <<conns, live, routes, asked>>
  BY InvFacts, EdgeFacts, FaultCounted DEF Break, edge
<1>2. sockets' = [sockets EXCEPT ![s] = w]
  BY <1>1 DEF Break
<1>3. Ages(sockets[s], w)
  BY <1>1 DEF Ages, Socket
<1>4. AllAge(sockets') /\ EdgeTyped'
  BY <1>1, <1>2, <1>3, AllAgeAt DEF EdgeTyped
<1>. QED  BY <1>1, <1>4, EdgeFacts, EdgeStepKept

-------------------------------------------------------------------------------
(***************************************************************************)
(* The invariant holds, and with it what it implies.                       *)
(***************************************************************************)
LEMMA InitHolds == Init => IInv
<1>1. SUFFICES ASSUME Init PROVE IInv
  OBVIOUS
<1>2. /\ dialled = 0 /\ faults = 0 /\ live = {} /\ MaxInFlight \in Nat
      /\ MaxSockets \in Nat /\ dialled \in 0..MaxSockets
      /\ Origins # {}
  BY <1>1, TunnelAssumption, Nothing DEF Init, WireInit, EdgeInit
<1>3. << >> \in Seq(Frames) /\ (CHOOSE o \in Origins : TRUE) \in Origins
  BY TunnelAssumption
<1>4. /\ sockets \in [SocketIds -> Socket]
      /\ \A s \in SocketIds : sockets[s].client = "unused" /\ sockets[s].up = << >>
  BY <1>1, <1>3 DEF Init, WireInit, Socket
<1>5. /\ EdgeTyped /\ \A s \in SocketIds : conns[s].verifying = 0
  BY <1>1, Nothing DEF Init, EdgeInit, EdgeTyped, ConnRecord, Forwarded
<1>6. daemons \in [Origins -> OriginDaemon]
  BY <1>1, Nothing DEF Init, OriginInit, OriginDaemon
<1>7. \A o \in Origins : daemons[o].socket = 0 /\ daemons[o].inFlight = {}
                          /\ daemons[o].state = "idle" /\ daemons[o].reconnect = FALSE
  BY <1>1 DEF Init, OriginInit
<1>8. \A o \in Origins : GoodDaemon(daemons[o])
  <2>1. IsFiniteSet({}) /\ Cardinality({}) = 0
    BY FS_EmptySet
  <2>2. 0 <= MaxInFlight
    BY <1>2
  <2>. QED  BY <1>6, <1>7, <2>1, <2>2 DEF GoodDaemon, Ceiling
<1>9. Dialled
  BY <1>2, <1>4, <1>5 DEF Dialled, SocketIds
<1>10. Linked
  BY <1>4, <1>7 DEF Linked
<1>. QED  BY <1>2, <1>4, <1>5, <1>6, <1>8, <1>9, <1>10 DEF IInv, Typed

(* A step of the edge changes who is registered only in Verified and        *)
(* ServerClosed.                                                            *)
LEMMA EdgeKept ==
  ASSUME IInv, EdgeStep, UNCHANGED daemons
  PROVE  /\ Advances /\ AllAge(sockets') /\ UNCHANGED dialled
         /\ \/ UNCHANGED <<live, routes>>
            \/ \E s \in SocketIds : Verified(s) \/ ServerClosed(s)
<1>1. ASSUME NEW s \in SocketIds, EdgeReceive(s) \/ Refused(s)
      PROVE  Advances /\ AllAge(sockets') /\ UNCHANGED <<dialled, live, routes>>
  BY <1>1, EdgeReceiveKept, RefusedKept
<1>2. ASSUME NEW s \in SocketIds, Verified(s) \/ ServerClosed(s)
      PROVE  Advances /\ AllAge(sockets') /\ UNCHANGED dialled
  BY <1>2, VerifiedKept, ServerClosedKept
<1>3. ASSUME NEW r \in Requests,
             \/ \E h \in Hosts : Arrive(r, h)
             \/ Dispatch(r)
             \/ Timeout(r, RequestUnderway(r))
      PROVE  Advances /\ AllAge(sockets') /\ UNCHANGED <<dialled, live, routes>>
  <2>1. RequestUnderway(r) \in BOOLEAN
    BY DEF RequestUnderway
  <2>. QED  BY <1>3, <2>1, PublicKept
<1>. QED  BY <1>1, <1>2, <1>3 DEF EdgeStep

LEMMA NextAdvances ==
  ASSUME IInv, [Next]_vars PROVE Advances
<1>1. ASSUME EdgeStep, UNCHANGED daemons PROVE Advances
  BY <1>1, EdgeKept
<1>2. ASSUME OriginStep, UNCHANGED edge PROVE Advances
  BY <1>2, OriginKept
<1>3. ASSUME NEW s \in SocketIds, Break(s), UNCHANGED <<edge, daemons>> PROVE Advances
  BY <1>3, BreakKept
<1>4. CASE UNCHANGED vars
  <2>1. UNCHANGED <<sockets, dialled, faults, conns, live, routes, asked, daemons>>
    BY <1>4 DEF vars, wire, edge
  <2>2. EdgeTyped' /\ AllAge(sockets') /\ faults' \in Nat
    BY <2>1, InvFacts, EdgeFacts DEF EdgeTyped
  <2>. QED  BY <2>1, <2>2, EdgeFacts, EdgeStepKept
<1>. QED  BY <1>1, <1>2, <1>3, <1>4 DEF Next

LEMMA IInvHolds == Spec => []IInv
<1>1. IInv /\ [Next]_vars => IInv'
  BY NextAdvances DEF Advances
<1>. QED  BY <1>1, InitHolds, PTL DEF Spec

(* Every reachable state is well typed, and no origin serves more requests  *)
(* at a time than maxInFlight.                                              *)
THEOREM TypeCorrect == Spec => []TypeOK
<1>1. IInv => TypeOK
  BY DEF IInv, Typed, EdgeTyped, GoodDaemon, Ceiling, TypeOK
<1>. QED  BY <1>1, IInvHolds, PTL

(* Reconnects, pong timeouts, late handshakes and stops never leave a       *)
(* daemon with a second socket.                                             *)
THEOREM OneSocketEach == Spec => []OneSocket
<1>1. IInv => OneSocket
  BY DEF IInv, Linked, OneSocket
<1>. QED  BY <1>1, IInvHolds, PTL

(* A daemon that has stopped never dials again.                             *)
THEOREM StoppedStaysDown == Spec => StaysDown
<1>1. ASSUME IInv, IInv', [Next]_vars, NEW o \in Origins, daemons[o].state = "stopped"
      PROVE  {s \in 1..dialled' : sockets'[s].owner = o}
               = {s \in 1..dialled : sockets[s].owner = o}
  <2>1. Grows
    BY <1>1, NextAdvances DEF Advances
  <2>2. dialled \in Nat /\ dialled' \in Nat /\ 1..dialled' \subseteq SocketIds
          /\ dialled <= dialled'
    BY <1>1, <2>1, TunnelAssumption DEF IInv, Typed, SocketIds, Grows
  <2>3. ASSUME NEW s \in 1..dialled'
        PROVE  sockets'[s].owner = o <=> (s \in 1..dialled /\ sockets[s].owner = o)
    <3>1. s \in SocketIds /\ s \in Nat /\ s <= dialled' /\ s >= 1
      BY <2>2
    <3>2. CASE s <= dialled
      BY <2>1, <2>2, <3>1, <3>2 DEF Grows
    <3>3. CASE s > dialled
      BY <1>1, <2>1, <2>2, <3>1, <3>3 DEF Grows
    <3>. QED  BY <2>2, <3>1, <3>2, <3>3
  <2>4. 1..dialled \subseteq 1..dialled'
    BY <2>2
  <2>. QED  BY <2>3, <2>4
<1>2. IInv /\ IInv' /\ [Next]_vars
        => [\A o \in Origins : daemons[o].state = "stopped"
              => {s \in 1..dialled' : sockets'[s].owner = o}
                   = {s \in 1..dialled : sockets[s].owner = o}]_vars
  BY <1>1
<1>. QED  BY <1>2, IInvHolds, PTL DEF Spec, StaysDown

-------------------------------------------------------------------------------
(***************************************************************************)
(* The routes.  The two properties are inductive together, given IInv: a   *)
(* step that registers nobody keeps the owners of the live connections and *)
(* opens none again.                                                       *)
(***************************************************************************)
Routed == RoutesAreLive /\ LiveIsRouted

LEMMA RoutesKept ==
  ASSUME IInv, Advances, Routed, UNCHANGED <<live, routes>>
  PROVE  Routed'
<1>1. \A s \in live :
        /\ s \in SocketIds /\ s <= dialled
        /\ sockets'[s].owner = sockets[s].owner
        /\ sockets'[s].server = "open" => sockets[s].server = "open"
  BY DEF IInv, Typed, EdgeTyped, Dialled, Advances, Grows
<1>2. \A s \in live : Hostnames(s)' = Hostnames(s)
  BY <1>1 DEF Hostnames
<1>3. RoutesAreLive'
  BY <1>2 DEF Routed, RoutesAreLive
<1>4. LiveIsRouted'
  BY <1>1, <1>2 DEF Routed, LiveIsRouted
<1>. QED  BY <1>3, <1>4 DEF Routed

(* Registering: the displaced connections are closed. *)
LEMMA RegisterRouted ==
  ASSUME IInv, AllAge(sockets'), Routed, NEW s \in SocketIds, Register(s)
  PROVE  Routed'
<1>1. /\ live' = live \cup {s} /\ live \subseteq SocketIds
      /\ \A h \in Hosts : routes'[h] = IF h \in Hostnames(s) THEN s ELSE routes[h]
  BY DEF Register, IInv, Typed, EdgeTyped
<1>2. \A t \in SocketIds : Hostnames(t)' = Hostnames(t)
        /\ (sockets'[t].server = "open" => sockets[t].server = "open")
  BY DEF AllAge, Ages, Hostnames
<1>3. \A t \in SocketIds, h \in Hosts :
        t # s /\ h \in Hostnames(s) /\ routes[h] = t => sockets'[t].server # "open"
  <2>1. SUFFICES ASSUME NEW t \in SocketIds, NEW h \in Hosts,
                        t # s, h \in Hostnames(s), routes[h] = t
                 PROVE  sockets'[t].server # "open"
    OBVIOUS
  <2>2. sockets'[t] = CloseServer(sockets[t])
    BY <2>1 DEF Register
  <2>. QED  BY <2>2, InvFacts, AgesSelf, AgesCloseServer
<1>4. \A t \in SocketIds : Hostnames(t) \subseteq Hosts
  BY TunnelAssumption, InvFacts DEF Hostnames
<1>5. RoutesAreLive'
  BY <1>1, <1>2, <1>4 DEF Routed, RoutesAreLive
<1>6. ASSUME NEW t \in live', NEW h \in Hostnames(t)', sockets'[t].server = "open"
      PROVE  routes'[h] = t
  <2>1. t \in SocketIds /\ h \in Hostnames(t) /\ h \in Hosts
          /\ sockets[t].server = "open"
    BY <1>1, <1>2, <1>4, <1>6
  <2>2. CASE t = s
    BY <1>1, <2>1, <2>2
  <2>3. CASE t # s
    <3>1. routes[h] = t
      BY <1>1, <2>1, <2>3 DEF Routed, LiveIsRouted
    <3>. QED  BY <1>1, <1>3, <1>6, <2>1, <2>3, <3>1
  <2>. QED  BY <2>2, <2>3
<1>. QED  BY <1>5, <1>6 DEF Routed, LiveIsRouted

(* A close takes back only the hostnames the connection still has. *)
LEMMA ServerClosedRouted ==
  ASSUME IInv, Advances, AllAge(sockets'), Routed,
         NEW s \in SocketIds, ServerClosed(s)
  PROVE  Routed'
<1>1. CASE UNCHANGED <<live, routes>>
  BY <1>1, RoutesKept
<1>2. CASE Unregister(s)
  <2>1. /\ live' = live \ {s} /\ live \subseteq SocketIds
        /\ \A h \in Hosts : routes'[h] =
             IF h \in Hostnames(s) /\ routes[h] = s THEN 0 ELSE routes[h]
    BY <1>2 DEF Unregister, IInv, Typed, EdgeTyped
  <2>2. \A t \in SocketIds : Hostnames(t)' = Hostnames(t)
          /\ (sockets'[t].server = "open" => sockets[t].server = "open")
          /\ Hostnames(t) \subseteq Hosts
    BY TunnelAssumption, InvFacts DEF AllAge, Ages, Hostnames
  <2>3. RoutesAreLive'
    BY <2>1, <2>2 DEF Routed, RoutesAreLive
  <2>4. LiveIsRouted'
    BY <2>1, <2>2 DEF Routed, LiveIsRouted
  <2>. QED  BY <2>3, <2>4 DEF Routed
<1>. QED  BY <1>1, <1>2 DEF ServerClosed

LEMMA RoutedHolds == Spec => []Routed
<1>1. Init => Routed
  BY DEF Init, EdgeInit, Routed, RoutesAreLive, LiveIsRouted
<1>2. ASSUME IInv, Routed, [Next]_vars PROVE Routed'
  <2>1. Advances
    BY <1>2, NextAdvances
  <2>2. CASE UNCHANGED <<live, routes>>
    BY <1>2, <2>1, <2>2, RoutesKept
  <2>3. CASE EdgeStep /\ UNCHANGED daemons
    <3>1. /\ AllAge(sockets')
          /\ \/ UNCHANGED <<live, routes>>
             \/ \E s \in SocketIds : Verified(s) \/ ServerClosed(s)
      BY <1>2, <2>3, EdgeKept
    <3>2. ASSUME NEW s \in SocketIds, Verified(s) PROVE Routed'
      BY <1>2, <3>1, <3>2, RegisterRouted DEF Verified
    <3>3. ASSUME NEW s \in SocketIds, ServerClosed(s) PROVE Routed'
      BY <1>2, <2>1, <3>1, <3>3, ServerClosedRouted
    <3>. QED  BY <2>2, <3>1, <3>2, <3>3
  <2>4. CASE UNCHANGED edge
    BY <2>2, <2>4 DEF edge
  <2>5. CASE UNCHANGED vars
    BY <2>2, <2>5 DEF vars, edge
  <2>. QED  BY <1>2, <2>3, <2>4, <2>5 DEF Next
<1>3. IInv /\ Routed /\ [Next]_vars => Routed'
  BY <1>2
<1>. QED  BY <1>1, <1>3, IInvHolds, PTL DEF Spec

(* A hostname is only ever routed to a connection that is registered and    *)
(* advertised it, whoever shares it and however late it was verified.       *)
THEOREM RoutesLead == Spec => []RoutesAreLive
<1>1. Routed => RoutesAreLive
  BY DEF Routed
<1>. QED  BY <1>1, RoutedHolds, PTL

(* A registered connection that the edge did not close has every hostname   *)
(* it advertised, also when several origins advertise the same ones.        *)
THEOREM LatestWins == Spec => []LiveIsRouted
<1>1. Routed => LiveIsRouted
  BY DEF Routed
<1>. QED  BY <1>1, RoutedHolds, PTL

-------------------------------------------------------------------------------
(***************************************************************************)
(* Nobody is stranded.  A daemon that has not stopped has something ahead  *)
(* of it: its start, its drain, its reconnect timer, or an event of the    *)
(* one socket it knows of, and on an open socket the token that is being   *)
(* signed or the heartbeat.                                                *)
(***************************************************************************)
Held(d, ws) ==
  d.socket # 0 => ws[d.socket].client \in {"dialling", "open", "closing"}

Going(d, ws) ==
  \/ d.draining
  \/ d.state \in {"idle", "stopped"}
  \/ d.state = "connecting" /\ d.reconnect
  \/ /\ d.state = "authenticating" /\ d.socket # 0
     /\ ws[d.socket].client = "open" => d.socket \in d.signing
  \/ d.state = "open" /\ d.socket # 0 /\ d.heartbeat

Tended(d, ws) == Held(d, ws) /\ Going(d, ws)

NeverStranded == \A o \in Origins : Tended(daemons[o], sockets)

(* What a step of the edge, and most steps of a daemon, do to the client's *)
(* ends: nothing, or a close() of one.                                     *)
Settles(s, ws) ==
  \/ ws[s].client = sockets[s].client
  \/ ws[s].client = "closing" /\ sockets[s].client \in {"dialling", "open"}

SameClients(ws) == \A s \in SocketIds : ws[s].client = sockets[s].client

LEMMA EditTended ==
  ASSUME NEW d \in OriginDaemon, NEW e, NEW ws, Tended(d, sockets),
         \A s \in SocketIds : Settles(s, ws),
         e.state = d.state, e.socket = d.socket, e.signing = d.signing,
         e.heartbeat = d.heartbeat, e.reconnect = d.reconnect, e.draining = d.draining
  PROVE  Tended(e, ws)
<1>1. d.socket # 0 => d.socket \in SocketIds
  BY TunnelAssumption DEF OriginDaemon, SocketIds
<1>2. Held(e, ws)
  BY <1>1 DEF Tended, Held, Settles
<1>3. Going(e, ws)
  BY <1>1 DEF Tended, Going, Settles
<1>. QED  BY <1>2, <1>3 DEF Tended

(* The others keep their sockets as they are. *)
LEMMA OthersTended ==
  ASSUME IInv, NeverStranded, NEW o \in Origins, NEW e,
         daemons' = [daemons EXCEPT ![o] = e], Tended(e, sockets'),
         \A s \in SocketIds :
           sockets[s].owner # o /\ s <= dialled => sockets'[s].client = sockets[s].client
  PROVE  NeverStranded'
<1>1. SUFFICES ASSUME NEW p \in Origins, p # o
               PROVE  Tended(daemons[p], sockets')
  BY InvFacts DEF NeverStranded
<1>2. daemons[p].socket # 0 =>
        /\ daemons[p].socket \in SocketIds /\ daemons[p].socket <= dialled
        /\ sockets[daemons[p].socket].owner # o
  BY <1>1, InvFacts, TunnelAssumption DEF IInv, Linked, OriginDaemon, SocketIds
<1>3. Tended(daemons[p], sockets)
  BY DEF NeverStranded
<1>. QED  BY <1>2, <1>3 DEF Tended, Held, Going

(* All client ends stay, and all daemons. *)
LEMMA SameTended ==
  ASSUME IInv, NeverStranded, SameClients(sockets'), UNCHANGED daemons
  PROVE  NeverStranded'
<1>1. SUFFICES ASSUME NEW o \in Origins PROVE Tended(daemons[o], sockets')
  BY DEF NeverStranded
<1>2. daemons[o] \in OriginDaemon /\ Tended(daemons[o], sockets)
  BY InvFacts DEF NeverStranded
<1>3. \A s \in SocketIds : Settles(s, sockets')
  BY DEF SameClients, Settles
<1>. QED  BY <1>2, <1>3, EditTended

LEMMA SendKeepsClients ==
  ASSUME IInv, NEW ws, AllAge(ws), SameClients(ws), NEW d \in OriginDaemon,
         NEW f \in Frames
  PROVE  SameClients(SendIfOpen(ws, d, f))
<1>1. \A s \in SocketIds : Up(ws[s], f).client = ws[s].client
  BY AgesUp DEF AllAge
<1>2. ws \in [SocketIds -> Socket]
  BY DEF AllAge
<1>. QED  BY <1>1, <1>2 DEF SendIfOpen, SameClients

(* close() on the socket of the moment. *)
LEMMA CloseSettles ==
  ASSUME IInv, NEW d \in OriginDaemon
  PROVE  \A s \in SocketIds :
           /\ Settles(s, CloseSocket(sockets, d))
           /\ s # d.socket => CloseSocket(sockets, d)[s] = sockets[s]
<1>1. SUFFICES ASSUME NEW s \in SocketIds, s = d.socket, d.socket # 0
               PROVE  Settles(s, [sockets EXCEPT ![d.socket] = CloseClient(@)])
  BY InvFacts, CloseSocketAges DEF CloseSocket, Settles
<1> DEFINE v == [sockets[s] EXCEPT !.client = "closing", !.down = << >>]
<1>2. v.client = "closing" /\ sockets[s] \in Socket
  BY InvFacts DEF Socket
<1>3. [sockets EXCEPT ![d.socket] = CloseClient(@)][s] = CloseClient(sockets[s])
  BY <1>1, InvFacts
<1>. QED  BY <1>2, <1>3 DEF CloseClient, Settles

LEMMA DialTended ==
  ASSUME IInv, NeverStranded, NEW o \in Origins, NEW d \in OriginDaemon, Dial(o, d)
  PROVE  NeverStranded'
<1> DEFINE n == dialled + 1
           e == [d EXCEPT !.state = "authenticating", !.socket = n]
<1>1. dialled \in Nat /\ n \in SocketIds /\ n # 0
  BY TunnelAssumption DEF IInv, Typed, Dial, SocketIds
<1>2. daemons' = [daemons EXCEPT ![o] = e] /\ e.state = "authenticating" /\ e.socket = n
  BY <1>1 DEF Dial, OriginDaemon
<1>3. \A s \in SocketIds : s # n => sockets'[s] = sockets[s]
  BY InvFacts DEF Dial
<1>4. sockets'[n].client = "dialling"
  BY <1>1, InvFacts DEF Dial, Socket
<1> HIDE DEF e
<1>5. Tended(e, sockets')
  BY <1>1, <1>2, <1>4 DEF Tended, Held, Going
<1>6. \A s \in SocketIds : s <= dialled => sockets'[s] = sockets[s]
  BY <1>1, <1>3 DEF SocketIds
<1>. QED  BY <1>2, <1>5, <1>6, OthersTended

LEMMA ReconnectTended ==
  ASSUME IInv, NeverStranded, NEW o \in Origins, Reconnect(o)
  PROVE  NeverStranded'
<1> DEFINE d == [daemons[o] EXCEPT !.reconnect = FALSE]
<1>1. daemons[o] \in OriginDaemon /\ Tended(daemons[o], sockets)
  BY InvFacts DEF NeverStranded
<1>2. d \in OriginDaemon /\ d.state = daemons[o].state /\ d.socket = daemons[o].socket
        /\ d.draining = daemons[o].draining
  BY <1>1 DEF OriginDaemon
<1>3. \/ Dial(o, d)
      \/ /\ d.state \in {"closing", "stopped"} /\ sockets' = sockets
         /\ daemons' = [daemons EXCEPT ![o] = d]
  BY DEF Reconnect
<1> HIDE DEF d
<1>4. CASE Dial(o, d)
  BY <1>2, <1>4, DialTended
<1>5. CASE /\ d.state \in {"closing", "stopped"} /\ sockets' = sockets
           /\ daemons' = [daemons EXCEPT ![o] = d]
  <2>1. Tended(d, sockets')
    BY <1>1, <1>2, <1>5 DEF Tended, Held, Going
  <2>. QED  BY <1>5, <2>1, OthersTended
<1>. QED  BY <1>3, <1>4, <1>5

(* The socket that opened is the daemon's: its token will be signed. *)
LEMMA ClientOpenedTended ==
  ASSUME IInv, NeverStranded, NEW s \in SocketIds, ClientOpened(s)
  PROVE  NeverStranded'
<1> DEFINE o == sockets[s].owner
           d == daemons[o]
           x == d.signing \cup {s}
           e == [d EXCEPT !.signing = x]
<1>1. o \in Origins /\ d \in OriginDaemon /\ Tended(d, sockets) /\ s # 0
  BY InvFacts DEF NeverStranded, SocketIds
<1>2. d.socket = s
  BY DEF ClientOpened, IInv, Linked
<1>3. daemons' = [daemons EXCEPT ![o] = e]
  BY <1>1, <1>2 DEF ClientOpened
<1>4. sockets'[s].client = "open" /\ \A t \in SocketIds : t # s => sockets'[t] = sockets[t]
  BY InvFacts DEF ClientOpened, Socket
<1>5. e.state = d.state /\ e.socket = s /\ s \in e.signing /\ e.heartbeat = d.heartbeat
        /\ e.reconnect = d.reconnect /\ e.draining = d.draining
  BY <1>1, <1>2 DEF OriginDaemon
<1> HIDE DEF d, e, x
<1>6. Tended(e, sockets')
  BY <1>1, <1>2, <1>4, <1>5 DEF Tended, Held, Going
<1> HIDE DEF o
<1>7. \A t \in SocketIds : sockets[t].owner # o => sockets'[t].client = sockets[t].client
  BY <1>4 DEF o
<1>. QED  BY <1>1, <1>3, <1>6, <1>7, OthersTended

(* A token signed for a socket that is gone leaves the one that is dialled  *)
(* to be opened.                                                            *)
LEMMA SignedTended ==
  ASSUME IInv, NeverStranded, NEW o \in Origins, NEW s \in SocketIds, Signed(o, s)
  PROVE  NeverStranded'
<1> DEFINE x == daemons[o].signing \ {s}
           d == [daemons[o] EXCEPT !.signing = x]
           mute == d.socket = 0 \/ sockets[d.socket].client = "dialling"
           c == CancelTimers(d)
           e == [c EXCEPT !.state = "open", !.heartbeat = TRUE]
<1>1. daemons[o] \in OriginDaemon /\ Tended(daemons[o], sockets) /\ GoodDaemon(daemons[o])
  BY InvFacts DEF NeverStranded
<1>2. /\ sockets' = IF mute THEN sockets ELSE SendIfOpen(sockets, d, <<"advertise", 0>>)
      /\ daemons' = [daemons EXCEPT ![o] = IF mute THEN d ELSE e]
  BY DEF Signed
<1>3. x \in SUBSET SocketIds
  BY <1>1 DEF OriginDaemon
<1> HIDE DEF x
<1>4. d \in OriginDaemon /\ d.state = daemons[o].state /\ d.socket = daemons[o].socket
        /\ d.heartbeat = daemons[o].heartbeat /\ d.reconnect = daemons[o].reconnect
        /\ d.draining = daemons[o].draining /\ d.inFlight = daemons[o].inFlight
  BY <1>1, <1>3 DEF OriginDaemon
<1> HIDE DEF d
<1>5. SameClients(sockets) /\ SameClients(SendIfOpen(sockets, d, <<"advertise", 0>>))
  <2>1. SameClients(sockets)
    BY DEF SameClients
  <2>. QED  BY <1>4, <2>1, InvFacts, SendKeepsClients, FramesSent
<1>6. SameClients(sockets')
  BY <1>2, <1>5
<1>7. CASE mute
  <2>1. Tended(d, sockets')
    BY <1>1, <1>2, <1>4, <1>7 DEF Tended, Held, Going
  <2>. QED  BY <1>2, <1>6, <1>7, <2>1, OthersTended DEF SameClients
<1>8. CASE ~mute
  <2>1. GoodDaemon(d)
    BY <1>1, <1>4, EditKeepsGood
  <2>2. GoodDaemon(c) /\ c.socket = d.socket
    BY <2>1, CancelTimersFields
  <2> HIDE DEF c
  <2>3. e.state = "open" /\ e.socket = d.socket /\ e.heartbeat = TRUE
    BY <2>2 DEF GoodDaemon, OriginDaemon
  <2> HIDE DEF e
  <2>4. d.socket \in SocketIds /\ d.socket # 0
    BY <1>4, <1>8, TunnelAssumption DEF OriginDaemon, SocketIds
  <2>5. Tended(e, sockets')
    BY <1>1, <1>4, <1>6, <2>3, <2>4 DEF Tended, Held, Going, SameClients
  <2>6. daemons' = [daemons EXCEPT ![o] = e]
    BY <1>2, <1>8
  <2>. QED  BY <1>6, <2>5, <2>6, OthersTended DEF SameClients
<1>. QED  BY <1>7, <1>8

(* A step that edits a daemon's requests or pings, and sends or closes. *)
LEMMA EditStepTended ==
  ASSUME IInv, NeverStranded, NEW o \in Origins, NEW e,
         daemons' = [daemons EXCEPT ![o] = e],
         \/ SameClients(sockets')
         \/ sockets' = CloseSocket(sockets, daemons[o]),
         e.state = daemons[o].state, e.socket = daemons[o].socket,
         e.signing = daemons[o].signing, e.heartbeat = daemons[o].heartbeat,
         e.reconnect = daemons[o].reconnect, e.draining = daemons[o].draining
  PROVE  NeverStranded'
<1>1. daemons[o] \in OriginDaemon /\ Tended(daemons[o], sockets)
  BY InvFacts DEF NeverStranded
<1>2. \A s \in SocketIds :
        /\ Settles(s, sockets')
        /\ sockets[s].owner # o => sockets'[s].client = sockets[s].client
  <2>1. CASE SameClients(sockets')
    BY <2>1 DEF SameClients, Settles
  <2>2. CASE sockets' = CloseSocket(sockets, daemons[o])
    <3>1. \A s \in SocketIds : s = daemons[o].socket /\ s # 0 => sockets[s].owner = o
      BY DEF IInv, Linked
    <3>2. \A s \in SocketIds : s # 0
      BY DEF SocketIds
    <3>. QED  BY <1>1, <2>2, <3>1, <3>2, CloseSettles
  <2>. QED  BY <2>1, <2>2
<1>3. Tended(e, sockets')
  BY <1>1, <1>2, EditTended
<1>. QED  BY <1>2, <1>3, OthersTended

LEMMA OriginReceiveTended ==
  ASSUME IInv, NeverStranded, NEW s \in SocketIds, OriginReceive(s)
  PROVE  NeverStranded'
<1> DEFINE o  == sockets[s].owner
           d  == daemons[o]
           w  == [sockets[s] EXCEPT !.down = Tail(@)]
           ws == [sockets EXCEPT ![s] = w]
           f  == Head(sockets[s].down)
           x  == d.inFlight \cup {f[2]}
           e  == [d EXCEPT !.inFlight = x]
           g  == HandlePong(d, f[2])
<1>1. o \in Origins /\ d \in OriginDaemon /\ sockets[s] \in Socket
        /\ sockets[s].down # << >> /\ AllAge(sockets)
        /\ daemons \in [Origins -> OriginDaemon]
  BY InvFacts DEF OriginReceive
<1>2. Ages(sockets[s], w) /\ f \in Frames
  BY <1>1, AgesReadDown
<1>3. w.client = sockets[s].client
  BY <1>1 DEF Socket
<1>4. \/ /\ sockets' = SendIfOpen(ws, d, <<"response", f[2]>>) /\ f[1] = "request"
         /\ daemons' = daemons
      \/ daemons' = [daemons EXCEPT ![o] = e] /\ sockets' = ws
      \/ daemons' = [daemons EXCEPT ![o] = g] /\ sockets' = ws
  BY DEF OriginReceive
<1>5. /\ e.state = d.state /\ e.socket = d.socket /\ e.signing = d.signing
      /\ e.heartbeat = d.heartbeat /\ e.reconnect = d.reconnect /\ e.draining = d.draining
  BY <1>1 DEF OriginDaemon
<1>6. /\ g.state = d.state /\ g.socket = d.socket /\ g.signing = d.signing
      /\ g.heartbeat = d.heartbeat /\ g.reconnect = d.reconnect /\ g.draining = d.draining
  BY <1>1 DEF OriginDaemon, HandlePong
<1> HIDE DEF w, f, e, g, x
<1>7. AllAge(ws) /\ SameClients(ws)
  <2>1. AllAge(ws)
    BY <1>1, <1>2, AllAgeAt
  <2>2. SameClients(ws)
    BY <1>3, InvFacts DEF SameClients
  <2>. QED  BY <2>1, <2>2
<1>8. CASE /\ sockets' = SendIfOpen(ws, d, <<"response", f[2]>>) /\ f[1] = "request"
           /\ daemons' = daemons
  <2>1. <<"response", f[2]>> \in Frames
    BY <1>2, <1>8, RequestFrame, FramesSent
  <2> HIDE DEF ws, d, o
  <2>2. SameClients(sockets')
    BY <1>1, <1>7, <1>8, <2>1, SendKeepsClients
  <2>. QED  BY <1>8, <2>2, SameTended
<1>9. CASE daemons' = [daemons EXCEPT ![o] = e] /\ sockets' = ws
  <2> HIDE DEF ws, o
  <2>. QED  BY <1>1, <1>5, <1>7, <1>9, EditStepTended
<1>10. CASE daemons' = [daemons EXCEPT ![o] = g] /\ sockets' = ws
  <2> HIDE DEF ws, o
  <2>. QED  BY <1>1, <1>6, <1>7, <1>10, EditStepTended
<1>. QED  BY <1>4, <1>8, <1>9, <1>10

LEMMA ServedTended ==
  ASSUME IInv, NeverStranded, NEW o \in Origins, NEW r \in Requests, Served(o, r)
  PROVE  NeverStranded'
<1> DEFINE d == daemons[o]
           x == d.inFlight \ {r}
           e == [d EXCEPT !.inFlight = x]
<1>1. d \in OriginDaemon /\ AllAge(sockets) /\ SameClients(sockets)
        /\ daemons' = [daemons EXCEPT ![o] = e]
        /\ sockets' = SendIfOpen(sockets, d, <<"response", r>>)
  BY InvFacts DEF Served, SameClients
<1>2. SameClients(sockets')
  BY <1>1, SendKeepsClients, FramesSent
<1>3. /\ e.state = d.state /\ e.socket = d.socket /\ e.signing = d.signing
      /\ e.heartbeat = d.heartbeat /\ e.reconnect = d.reconnect /\ e.draining = d.draining
  BY <1>1 DEF OriginDaemon
<1> HIDE DEF e
<1>. QED  BY <1>1, <1>2, <1>3, EditStepTended

LEMMA SendPingTended ==
  ASSUME IInv, NeverStranded, NEW o \in Origins, NEW k \in 1..MaxPings, NEW late,
         SendPing(o, k, late)
  PROVE  NeverStranded'
<1> DEFINE d == daemons[o]
           x == d.deadlines \cup {k}
           e == [d EXCEPT !.outstandingPing = k, !.pongDeadline = k, !.deadlines = x]
<1>1. d \in OriginDaemon /\ AllAge(sockets) /\ SameClients(sockets)
        /\ daemons' = [daemons EXCEPT ![o] = e]
        /\ sockets' = SendIfOpen(sockets, d, <<"ping", k>>)
  BY InvFacts DEF SendPing, SameClients
<1>2. SameClients(sockets')
  BY <1>1, SendKeepsClients, FramesSent
<1>3. /\ e.state = d.state /\ e.socket = d.socket /\ e.signing = d.signing
      /\ e.heartbeat = d.heartbeat /\ e.reconnect = d.reconnect /\ e.draining = d.draining
  BY <1>1 DEF OriginDaemon
<1> HIDE DEF e
<1>. QED  BY <1>1, <1>2, <1>3, EditStepTended

LEMMA PongTimeoutTended ==
  ASSUME IInv, NeverStranded, NEW o \in Origins, NEW k \in 1..MaxPings, NEW late,
         PongTimeout(o, k, late)
  PROVE  NeverStranded'
<1> DEFINE d == daemons[o]
           x == d.deadlines \ {k}
           e == [d EXCEPT !.deadlines = x, !.outstandingPing = 0]
<1>1. d \in OriginDaemon /\ sockets' = CloseSocket(sockets, d)
        /\ daemons \in [Origins -> OriginDaemon]
  BY InvFacts DEF PongTimeout
<1>2. daemons' = [daemons EXCEPT ![o] = e]
  BY <1>1 DEF PongTimeout
<1>3. /\ e.state = d.state /\ e.socket = d.socket /\ e.signing = d.signing
      /\ e.heartbeat = d.heartbeat /\ e.reconnect = d.reconnect /\ e.draining = d.draining
  BY <1>1 DEF OriginDaemon
<1> HIDE DEF e
<1>. QED  BY <1>1, <1>2, <1>3, EditStepTended

(* The close event arms the timer, but for a daemon that has stopped or is  *)
(* marked as closing, which drains.                                         *)
LEMMA ClientClosedTended ==
  ASSUME IInv, NeverStranded, NEW s \in SocketIds, ClientClosed(s)
  PROVE  NeverStranded'
<1> DEFINE o == sockets[s].owner
           d == daemons[o]
           c == CancelTimers([d EXCEPT !.socket = 0])
           e == [c EXCEPT !.state = "connecting", !.reconnect = TRUE]
           g == HandleClose(d)
<1>1. o \in Origins /\ d \in OriginDaemon /\ Tended(d, sockets)
  BY InvFacts DEF NeverStranded
<1>2. daemons' = [daemons EXCEPT ![o] = g]
        /\ \A t \in SocketIds : t # s => sockets'[t] = sockets[t]
  BY <1>1, InvFacts DEF ClientClosed
<1>3. g = IF d.state \in {"closing", "stopped"} THEN c ELSE e
  BY DEF HandleClose
<1>4. /\ c.socket = 0 /\ c.state = d.state /\ c.draining = d.draining
      /\ e.socket = 0 /\ e.state = "connecting" /\ e.reconnect = TRUE
  BY <1>1 DEF CancelTimers, OriginDaemon
<1> HIDE DEF c, e
<1>5. Tended(g, sockets')
  BY <1>1, <1>3, <1>4 DEF Tended, Held, Going
<1> HIDE DEF o, g
<1>6. \A t \in SocketIds : sockets[t].owner # o => sockets'[t].client = sockets[t].client
  BY <1>2 DEF o
<1>. QED  BY <1>1, <1>2, <1>5, <1>6, OthersTended

LEMMA StopTended ==
  ASSUME IInv, NeverStranded, NEW o \in Origins, Stop(o) \/ StopDone(o)
  PROVE  NeverStranded'
<1>1. daemons[o] \in OriginDaemon /\ GoodDaemon(daemons[o]) /\ AllAge(sockets)
        /\ SameClients(sockets)
  BY InvFacts DEF SameClients
<1>2. CASE StopDone(o)
  <2>1. sockets' = CloseSocket(sockets, daemons[o])
          /\ daemons' = [daemons EXCEPT ![o] = Stopped(daemons[o])]
    BY <1>2, InvFacts DEF StopDone
  <2>2. Tended(Stopped(daemons[o]), sockets')
    BY <1>1, StoppedFields DEF Tended, Held, Going
  <2>3. \A s \in SocketIds : sockets[s].owner # o => sockets'[s] = sockets[s]
    <3>1. \A s \in SocketIds : s # 0 /\ (s = daemons[o].socket => sockets[s].owner = o)
      BY DEF IInv, Linked, SocketIds
    <3>. QED  BY <1>1, <2>1, <3>1, CloseSettles
  <2>. QED  BY <2>1, <2>2, <2>3, OthersTended
<1>3. CASE Stop(o)
  <2> DEFINE d  == CancelTimers(daemons[o])
             ws == SendIfOpen(sockets, d, <<"shutdown", 0>>)
             e  == [d EXCEPT !.state = "closing", !.draining = TRUE]
  <2>1. GoodDaemon(d) /\ d.socket = daemons[o].socket
    BY <1>1, CancelTimersFields
  <2>2. \/ /\ sockets' = CloseSocket(ws, d)
           /\ daemons' = [daemons EXCEPT ![o] = Stopped(d)]
        \/ sockets' = ws /\ daemons' = [daemons EXCEPT ![o] = e]
    BY <1>3 DEF Stop
  <2> HIDE DEF d
  <2>3. d \in OriginDaemon
    BY <2>1 DEF GoodDaemon
  <2>4. SameClients(ws) /\ AllAge(ws)
    BY <1>1, <2>3, SendKeepsClients, SendIfOpenAges, FramesSent
  <2> HIDE DEF ws
  <2>5. CASE sockets' = CloseSocket(ws, d) /\ daemons' = [daemons EXCEPT ![o] = Stopped(d)]
    <3>1. Tended(Stopped(d), sockets')
      BY <2>1, StoppedFields DEF Tended, Held, Going
    <3>2. \A s \in SocketIds : s # 0 /\ (s = d.socket => sockets[s].owner = o)
      BY <2>1 DEF IInv, Linked, SocketIds
    <3>3. \A s \in SocketIds : s # d.socket => sockets'[s] = ws[s]
      BY <2>3, <2>4, <2>5, CloseSocketAges
    <3>. QED  BY <2>4, <2>5, <3>1, <3>2, <3>3, OthersTended DEF SameClients
  <2>6. CASE sockets' = ws /\ daemons' = [daemons EXCEPT ![o] = e]
    <3>1. e.draining = TRUE /\ e.socket = daemons[o].socket
      BY <2>1, <2>3 DEF OriginDaemon
    <3> HIDE DEF e
    <3>2. daemons[o].socket # 0 => daemons[o].socket \in SocketIds
      BY <1>1, TunnelAssumption DEF OriginDaemon, SocketIds
    <3>3. Tended(daemons[o], sockets)
      BY DEF NeverStranded
    <3>4. Tended(e, sockets')
      BY <2>4, <2>6, <3>1, <3>2, <3>3 DEF Tended, Held, Going, SameClients
    <3>. QED  BY <2>4, <2>6, <3>4, OthersTended DEF SameClients
  <2>. QED  BY <2>2, <2>5, <2>6
<1>. QED  BY <1>2, <1>3

(* The edge, and a break, leave the client's ends alone. *)
LEMMA EdgeTended ==
  ASSUME IInv, NeverStranded, EdgeStep \/ \E s \in SocketIds : Break(s),
         UNCHANGED daemons
  PROVE  NeverStranded'
<1> DEFINE Only(s, w) == sockets' = [sockets EXCEPT ![s] = w]
<1>1. \A s \in SocketIds : sockets[s] \in Socket
  BY InvFacts
<1>2. ASSUME NEW s \in SocketIds, NEW w, sockets' = [sockets EXCEPT ![s] = w],
             w.client = sockets[s].client
      PROVE  NeverStranded'
  <2>1. SameClients(sockets')
    BY <1>2, InvFacts DEF SameClients
  <2>. QED  BY <2>1, SameTended
<1>3. ASSUME NEW w \in Socket
      PROVE  CloseServer(w).client = w.client
  BY <1>3, AgesSelf, AgesCloseServer
<1>4. ASSUME NEW s \in SocketIds, EdgeReceive(s)
      PROVE  NeverStranded'
  <2> DEFINE f == Head(sockets[s].up)
             w == [sockets[s] EXCEPT !.up = Tail(@)]
  <2>1. sockets[s].up # << >> /\ sockets[s] \in Socket
    BY <1>1, <1>4 DEF EdgeReceive
  <2>2. Ages(sockets[s], w) /\ f \in Frames /\ w.client = sockets[s].client
    BY <2>1, AgesReadUp DEF Socket
  <2>3. sockets' \in {[sockets EXCEPT ![s] = w], [sockets EXCEPT ![s] = CloseServer(w)]}
          \/ (f[1] = "ping" /\ sockets' = [sockets EXCEPT ![s] = Down(w, <<"pong", f[2]>>)])
    BY <1>4 DEF EdgeReceive, Handshake, OpenFrame, Close
  <2> HIDE DEF f, w
  <2>4. CloseServer(w).client = w.client
    BY <1>3, <2>2 DEF Ages
  <2>5. f[1] = "ping" => Down(w, <<"pong", f[2]>>).client = w.client
    <3>1. f[1] = "ping" => <<"pong", f[2]>> \in Frames
      BY <2>2 DEF Frames
    <3>. QED  BY <2>2, <3>1, AgesDown
  <2>. QED  BY <1>2, <2>2, <2>3, <2>4, <2>5
<1>5. ASSUME NEW s \in SocketIds, Verified(s)
      PROVE  NeverStranded'
  <2>1. \A t \in SocketIds : sockets'[t] \in {CloseServer(sockets[t]), sockets[t]}
    BY <1>5 DEF Verified, Register
  <2>2. SameClients(sockets')
    BY <1>1, <1>3, <2>1 DEF SameClients
  <2>. QED  BY <2>2, SameTended
<1>6. ASSUME NEW s \in SocketIds, Refused(s)
      PROVE  NeverStranded'
  <2>1. sockets' = [sockets EXCEPT ![s] = CloseServer(sockets[s])]
    BY <1>6 DEF Refused
  <2>. QED  BY <1>1, <1>2, <1>3, <2>1
<1>7. ASSUME NEW s \in SocketIds, ServerClosed(s)
      PROVE  NeverStranded'
  <2> DEFINE w == [sockets[s] EXCEPT !.server = "closed", !.up = << >>]
  <2>1. sockets' = [sockets EXCEPT ![s] = w] /\ w.client = sockets[s].client
    BY <1>1, <1>7, InvFacts DEF ServerClosed, Socket
  <2>. QED  BY <1>2, <2>1
<1>8. ASSUME NEW s \in SocketIds, Break(s)
      PROVE  NeverStranded'
  <2> DEFINE w == [sockets[s] EXCEPT !.broken = TRUE, !.up = << >>, !.down = << >>]
  <2>1. sockets' = [sockets EXCEPT ![s] = w] /\ w.client = sockets[s].client
    BY <1>1, <1>8, InvFacts DEF Break, Socket
  <2>. QED  BY <1>2, <2>1
<1>9. ASSUME NEW r \in Requests, Dispatch(r)
      PROVE  NeverStranded'
  <2> DEFINE s == asked[r].conn
  <2>1. sockets' = [sockets EXCEPT ![s] = Down(sockets[s], <<"request", r>>)]
    BY <1>9 DEF Dispatch
  <2>2. CASE s \in SocketIds
    <3>1. Down(sockets[s], <<"request", r>>).client = sockets[s].client
      BY <1>1, <2>2, AgesSelf, AgesDown, FramesSent
    <3>. QED  BY <1>2, <2>1, <2>2, <3>1
  <2>3. CASE s \notin SocketIds
    <3>1. SameClients(sockets')
      BY <2>1, <2>3, InvFacts DEF SameClients
    <3>. QED  BY <3>1, SameTended
  <2>. QED  BY <2>2, <2>3
<1>10. ASSUME NEW r \in Requests, (\E h \in Hosts : Arrive(r, h)) \/ (\E late : Timeout(r, late))
       PROVE  NeverStranded'
  <2>1. SameClients(sockets')
    BY <1>10 DEF Arrive, Timeout, SameClients, wire
  <2>. QED  BY <2>1, SameTended
<1>. QED  BY <1>4, <1>5, <1>6, <1>7, <1>8, <1>9, <1>10 DEF EdgeStep

LEMMA OriginTended ==
  ASSUME IInv, NeverStranded, OriginStep
  PROVE  NeverStranded'
<1>1. ASSUME NEW s \in SocketIds, ClientOpened(s) \/ OriginReceive(s) \/ ClientClosed(s)
      PROVE  NeverStranded'
  BY <1>1, ClientOpenedTended, OriginReceiveTended, ClientClosedTended
<1>2. ASSUME NEW o \in Origins, Start(o) \/ Reconnect(o) \/ Stop(o) \/ StopDone(o)
      PROVE  NeverStranded'
  <2>1. daemons[o] \in OriginDaemon
    BY InvFacts
  <2>. QED  BY <1>2, <2>1, DialTended, ReconnectTended, StopTended DEF Start
<1>3. ASSUME NEW o \in Origins, NEW s \in SocketIds, Signed(o, s)
      PROVE  NeverStranded'
  BY <1>3, SignedTended
<1>4. ASSUME NEW o \in Origins, NEW r \in Requests, Served(o, r)
      PROVE  NeverStranded'
  BY <1>4, ServedTended
<1>5. ASSUME NEW o \in Origins, NEW k \in 1..MaxPings, SendPing(o, k, Slow(o))
      PROVE  NeverStranded'
  BY <1>5, SendPingTended
<1>6. ASSUME NEW o \in Origins, NEW k \in 1..MaxPings, PongTimeout(o, k, PingUnderway(k))
      PROVE  NeverStranded'
  BY <1>6, PongTimeoutTended
<1>. QED  BY <1>1, <1>2, <1>3, <1>4, <1>5, <1>6 DEF OriginStep

(* Whatever broke, whichever token was being signed and whatever the edge   *)
(* closed, no daemon that has not stopped is left with nothing to wake it:  *)
(* Heals needs no more than that what is pending happens                    *)
(* (daemon.ts 204-248, 263-284, 419-440).                                   *)
THEOREM NobodyStranded == Spec => []NeverStranded
<1>1. Init => NeverStranded
  <2>1. ASSUME Init
        PROVE  \A o \in Origins : daemons[o].socket = 0 /\ daemons[o].state = "idle"
    BY <2>1 DEF Init, OriginInit
  <2>. QED  BY <2>1 DEF NeverStranded, Tended, Held, Going
<1>2. ASSUME IInv, NeverStranded, [Next]_vars PROVE NeverStranded'
  <2>1. CASE Next
    BY <1>2, <2>1, EdgeTended, OriginTended DEF Next
  <2>2. CASE UNCHANGED vars
    BY <1>2, <2>2 DEF vars, wire, NeverStranded, Tended, Held, Going
  <2>. QED  BY <1>2, <2>1, <2>2
<1>3. IInv /\ NeverStranded /\ [Next]_vars => NeverStranded'
  BY <1>2
<1>. QED  BY <1>1, <1>3, IInvHolds, PTL DEF Spec
===============================================================================
