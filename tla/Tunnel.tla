-------------------------------- MODULE Tunnel --------------------------------
(***************************************************************************)
(* services/tunnel: the edge, the origin daemons and the sockets between   *)
(* them.  Every step is one event at one daemon, or a break.               *)
(***************************************************************************)
EXTENDS TunnelEdge, TunnelOrigin

vars == <<wire, edge, daemons>>

Init == WireInit /\ EdgeInit /\ OriginInit

(* The request, or its response, can still reach its reader. *)
RequestUnderway(r) ==
  \/ OnTheWay(<<"request", r>>) \/ OnTheWay(<<"response", r>>)
  \/ \E o \in Origins : r \in daemons[o].inFlight

PingUnderway(k) == OnTheWay(<<"ping", k>>) \/ OnTheWay(<<"pong", k>>)

(* A round trip on the socket of o takes longer than pingIntervalMs. *)
Slow(o) ==
  \/ PingUnderway(daemons[o].outstandingPing)
  \/ \E s \in SocketIds :
       /\ s = daemons[o].socket
       /\ conns[s].verifying > 0 \/ OnTheWay(<<"advertise", 0>>)

EdgeStep ==
  \/ \E s \in SocketIds :
       EdgeReceive(s) \/ Verified(s) \/ Refused(s) \/ ServerClosed(s)
  \/ \E r \in Requests :
       \/ \E h \in Hosts : Arrive(r, h)
       \/ Dispatch(r)
       \/ Timeout(r, RequestUnderway(r))

OriginStep ==
  \/ \E s \in SocketIds :
       ClientOpened(s) \/ OriginReceive(s) \/ ClientClosed(s)
  \/ \E o \in Origins :
       \/ Start(o) \/ Reconnect(o) \/ Stop(o) \/ StopDone(o)
       \/ \E s \in SocketIds : Signed(o, s)
       \/ \E r \in Requests : Served(o, r)
       \/ \E k \in 1..MaxPings :
            \/ ~PingUnderway(k) /\ SendPing(o, k, Slow(o))
            \/ PongTimeout(o, k, PingUnderway(k))

Next ==
  \/ EdgeStep /\ UNCHANGED daemons
  \/ OriginStep /\ UNCHANGED edge
  \/ \E s \in SocketIds : Break(s) /\ UNCHANGED <<edge, daemons>>

Spec == Init /\ [][Next]_vars

(***************************************************************************)
(* Frames arrive, a close asked for is noticed, awaits settle and timers   *)
(* fire.  A break need not be noticed, and nothing is assumed of new       *)
(* requests, of stop() or of what the environment does wrong.              *)
(***************************************************************************)
SocketFairness(s) ==
  /\ WF_vars((EdgeReceive(s) \/ (ServerDue(sockets[s]) /\ ServerClosed(s)))
                /\ UNCHANGED daemons)
  /\ WF_vars(Verified(s) /\ UNCHANGED daemons)
  /\ WF_vars((ClientOpened(s) \/ OriginReceive(s)
                 \/ (ClientDue(sockets[s]) /\ ClientClosed(s)))
                /\ UNCHANGED edge)

RequestFairness(r) ==
  WF_vars((Dispatch(r) \/ (~RequestUnderway(r) /\ Timeout(r, FALSE)))
            /\ UNCHANGED daemons)

DaemonFairness(o) ==
  /\ WF_vars((Start(o) \/ Reconnect(o)) /\ UNCHANGED edge)
  /\ WF_vars(daemons[o].inFlight = {} /\ StopDone(o) /\ UNCHANGED edge)
  /\ WF_vars((\E s \in SocketIds : Signed(o, s)) /\ UNCHANGED edge)
  /\ WF_vars((\E r \in Requests : Served(o, r)) /\ UNCHANGED edge)
  /\ WF_vars((\E k \in 1..MaxPings :
                ~PingUnderway(k) /\ ~Slow(o) /\ SendPing(o, k, FALSE))
                /\ UNCHANGED edge)
  /\ WF_vars((\E k \in 1..MaxPings :
                ~PingUnderway(k) /\ PongTimeout(o, k, FALSE))
                /\ UNCHANGED edge)

FairSpec ==
  /\ Spec
  /\ \A s \in SocketIds : SocketFairness(s)
  /\ \A r \in Requests : RequestFairness(r)
  /\ \A o \in Origins : DaemonFairness(o)

-------------------------------------------------------------------------------
(* The last conjunct is the ceiling of origin/src/daemon.ts 331. *)
TypeOK ==
  /\ sockets \in [SocketIds -> Socket]
  /\ dialled \in 0..MaxSockets
  /\ faults \in Nat
  /\ conns \in [SocketIds -> ConnRecord]
  /\ live \subseteq SocketIds
  /\ routes \in [Hosts -> 0..MaxSockets]
  /\ asked \in [Requests -> Forwarded]
  /\ daemons \in [Origins -> OriginDaemon]
  /\ \A o \in Origins : Cardinality(daemons[o].inFlight) <= MaxInFlight

(* A registered connection that the edge has not closed is the route of    *)
(* every hostname it advertised: displacement closes the loser, and the    *)
(* late close of a loser takes no hostname from the winner                 *)
(* (registry.ts 41-59).                                                    *)
LiveIsRouted ==
  \A s \in live : \A h \in Hostnames(s) :
    sockets[s].server = "open" => routes[h] = s

(* A hostname is routed to a registered connection that advertised it, also *)
(* after closes, displacements and handshakes verified too late             *)
(* (registry.ts 41-59).                                                     *)
RoutesAreLive ==
  \A h \in Hosts :
    routes[h] # 0 => routes[h] \in live /\ h \in Hostnames(routes[h])

(* A daemon has no socket but the one it knows of: every other socket it   *)
(* ever dialled is closed or closing, after reconnects, pong timeouts and  *)
(* a stop (daemon.ts 204-248, 404-440).                                    *)
OneSocket ==
  \A s \in SocketIds :
    sockets[s].client \in {"dialling", "open"}
      => daemons[sockets[s].owner].socket = s

(* A daemon whose stop() has returned dials no more, although a handshake  *)
(* that was being signed may have marked it open meanwhile and a timer may *)
(* still be armed (daemon.ts 185-214, 219, 263-284, 422).                           *)
StaysDown ==
  [][\A o \in Origins : daemons[o].state = "stopped"
       => {s \in 1..dialled' : sockets'[s].owner = o}
            = {s \in 1..dialled : sockets[s].owner = o}]_vars

(* The edge routes every hostname of o to the open socket of o. *)
Connected(o) ==
  /\ daemons[o].state = "open" /\ daemons[o].socket # 0
  /\ \A h \in Serves[o] : routes[h] = daemons[o].socket
  /\ sockets[daemons[o].socket].server = "open"

(* Once the network behaves, a daemon that nobody stops ends up connected  *)
(* with its hostnames routed to it, whatever broke before                  *)
(* (daemon.ts 419-440).                                                    *)
Heals ==
  \A o \in Origins :
    <>[](Connected(o) \/ daemons[o].draining
           \/ daemons[o].state = "stopped")

(* A public request is answered in the end, by the origin or with an error *)
(* (forward.ts 61-87).                                                     *)
ForwardSettles ==
  \A r \in Requests : asked[r].phase # "new" ~> asked[r].phase = "done"
===============================================================================
