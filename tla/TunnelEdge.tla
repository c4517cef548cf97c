------------------------------ MODULE TunnelEdge ------------------------------
(***************************************************************************)
(* services/tunnel/edge: the handshake and frame handler of each accepted  *)
(* socket, the OriginRegistry, and the public requests forwarded through   *)
(* it.  One event loop; verifyHandshake and request.arrayBuffer() are the  *)
(* two awaits at which other events run.                                   *)
(***************************************************************************)
EXTENDS TunnelWire

VARIABLES
  conns,   \* the ConnRecord of each socket
  live,    \* registry.byConnId
  routes,  \* registry.byHostname, 0 if none
  asked    \* the public requests, registry.pending among them

edge == <<conns, live, routes, asked>>

(* verifying: handshakes of the socket inside verifyHandshake. *)
ConnRecord == [state: {"awaiting-advertise", "open", "closed"},
               registered: BOOLEAN, verifying: Nat]

(* conn: the connection a request was looked up for, 0 before that. *)
Forwarded == [phase: {"new", "reading", "pending", "done"},
              conn: 0..MaxSockets, answer: {"none", "response", "error"}]

EdgeInit ==
  /\ conns = [s \in SocketIds |-> [state |-> "awaiting-advertise",
                                   registered |-> FALSE, verifying |-> 0]]
  /\ live = {}
  /\ routes = [h \in Hosts |-> 0]
  /\ asked = [r \in Requests |-> [phase |-> "new", conn |-> 0, answer |-> "none"]]

Hostnames(s) == Serves[sockets[s].owner]

Done(how) == [phase |-> "done", conn |-> 0, answer |-> how]

-------------------------------------------------------------------------------
(* OriginRegistry.register: the latest connection wins a hostname, and the *)
(* one that had it is closed.                                              *)
Register(s) ==
  /\ live' = live \cup {s}
  /\ routes' = [h \in Hosts |-> IF h \in Hostnames(s) THEN s ELSE routes[h]]
  /\ sockets' = [t \in SocketIds |->
                   IF t # s /\ \E h \in Hostnames(s) : routes[h] = t
                     THEN CloseServer(sockets[t]) ELSE sockets[t]]

(* The rejection of what is pending on a connection that closes. *)
Rejected(s) ==
  [r \in Requests |-> IF asked[r].phase = "pending" /\ asked[r].conn = s
                        THEN Done("error") ELSE asked[r]]

(* Mutant: the hostnames are dropped without looking whose they are now. *)
UnregisterUnchecked(s) ==
  /\ live' = live \ {s}
  /\ routes' = [h \in Hosts |-> IF h \in Hostnames(s) THEN 0 ELSE routes[h]]
  /\ asked' = Rejected(s)

(* Mutant: the hostnames are left to whoever connects next. *)
UnregisterKeepingRoutes(s) ==
  /\ live' = live \ {s}
  /\ routes' = routes
  /\ asked' = Rejected(s)

(* OriginRegistry.unregister. *)
Unregister(s) ==
  /\ live' = live \ {s}
  /\ routes' = [h \in Hosts |->
                  IF h \in Hostnames(s) /\ routes[h] = s THEN 0 ELSE routes[h]]
  /\ asked' = Rejected(s)

(***************************************************************************)
(* onFrame with the frame f at the head of socket s.                       *)
(***************************************************************************)
Close(s, w) ==
  /\ conns' = [conns EXCEPT ![s].state = "closed"]
  /\ sockets' = [sockets EXCEPT ![s] = CloseServer(w)]
  /\ UNCHANGED <<live, routes, asked>>

(* handleHandshakeFrame up to its await.  The state is not changed before  *)
(* it, so a second frame that arrives meanwhile is a handshake frame too.  *)
Handshake(s, f, w) ==
  \/ /\ f[1] # "advertise"
     /\ Close(s, w)
  \/ /\ f[1] = "advertise"
     /\ conns' = [conns EXCEPT ![s].verifying = @ + 1]
     /\ sockets' = [sockets EXCEPT ![s] = w]
     /\ UNCHANGED <<live, routes, asked>>

(* handleOpenFrame.  A response is correlated by its id alone, whichever    *)
(* connection it comes in on.                                               *)
OpenFrame(s, f, w) ==
  \/ f[1] = "shutdown" /\ Close(s, w)
  \/ /\ f[1] # "shutdown"
     /\ asked' = IF f[1] = "response" /\ asked[f[2]].phase = "pending"
                   THEN [asked EXCEPT ![f[2]] = Done("response")] ELSE asked
     /\ sockets' = [sockets EXCEPT ![s] =
                      IF f[1] = "ping" THEN Down(w, <<"pong", f[2]>>) ELSE w]
     /\ UNCHANGED <<conns, live, routes>>

EdgeReceive(s) ==
  LET f == Head(sockets[s].up)
      w == [sockets[s] EXCEPT !.up = Tail(@)] IN
  /\ sockets[s].server = "open" /\ sockets[s].up # << >>
  /\ \/ conns[s].state = "awaiting-advertise" /\ Handshake(s, f, w)
     \/ conns[s].state = "open" /\ OpenFrame(s, f, w)
     \/ /\ conns[s].state = "closed"
        /\ sockets' = [sockets EXCEPT ![s] = w]
        /\ UNCHANGED edge
  /\ UNCHANGED <<dialled, faults>>

(* The rest of handleHandshakeFrame: whatever became of the socket during   *)
(* the await, it is registered and marked open.                             *)
Verified(s) ==
  /\ conns[s].verifying > 0
  /\ Register(s)
  /\ conns' = [conns EXCEPT ![s] = [state |-> "open", registered |-> TRUE,
                                    verifying |-> @.verifying - 1]]
  /\ UNCHANGED <<asked, dialled, faults>>

(* A token that is stale or not signed with the edge's secret. *)
Refused(s) ==
  /\ conns[s].verifying > 0
  /\ Fault
  /\ conns' = [conns EXCEPT ![s].state = "closed", ![s].verifying = @ - 1]
  /\ sockets' = [sockets EXCEPT ![s] = CloseServer(@)]
  /\ UNCHANGED <<live, routes, asked, dialled>>

(* onClose. *)
ServerClosed(s) ==
  /\ ServerGone(sockets[s])
  /\ sockets' = [sockets EXCEPT ![s].server = "closed", ![s].up = << >>]
  /\ conns' = [conns EXCEPT ![s].state = "closed"]
  /\ IF conns[s].registered THEN Unregister(s)
                            ELSE UNCHANGED <<live, routes, asked>>
  /\ UNCHANGED <<dialled, faults>>

-------------------------------------------------------------------------------
(* forwardThroughOrigin: look up the connection, read the body, ... *)
Arrive(r, h) ==
  /\ asked[r].phase = "new"
  /\ asked' = IF routes[h] = 0 THEN [asked EXCEPT ![r] = Done("error")]
              ELSE [asked EXCEPT ![r].phase = "reading", ![r].conn = routes[h]]
  /\ UNCHANGED <<wire, conns, live, routes>>

(* ... then track the request and send it to the connection looked up. *)
Dispatch(r) ==
  /\ asked[r].phase = "reading"
  /\ asked' = [asked EXCEPT ![r].phase = "pending"]
  /\ sockets' = [sockets EXCEPT ![asked[r].conn] = Down(@, <<"request", r>>)]
  /\ UNCHANGED <<conns, live, routes, dialled, faults>>

(* Mutant: the timer is of the connection, and goes with it. *)
TimeoutOfLive(r, late) ==
  /\ asked[r].phase = "pending" /\ asked[r].conn \in live
  /\ asked' = [asked EXCEPT ![r] = Done("error")]
  /\ IF late THEN Fault ELSE faults' = faults
  /\ UNCHANGED <<sockets, dialled, conns, live, routes>>

(* The request timer; late: the answer was still under way. *)
Timeout(r, late) ==
  /\ asked[r].phase = "pending"
  /\ asked' = [asked EXCEPT ![r] = Done("error")]
  /\ IF late THEN Fault ELSE faults' = faults
  /\ UNCHANGED <<sockets, dialled, conns, live, routes>>
===============================================================================
