------------------------------ MODULE TunnelWire ------------------------------
(***************************************************************************)
(* The WebSocket between an origin daemon and the edge, as both daemons of *)
(* services/tunnel use it: two FIFO streams of frames, a close that either *)
(* end may ask for, and one close event per end, which comes after the     *)
(* frames that were on their way when the other end closed.  A break loses *)
(* the frames under way, and an end may or may not learn of it.            *)
(*                                                                         *)
(* A frame is <<type, id>>; 0 stands for an id that nobody looks at.       *)
(***************************************************************************)
EXTENDS Naturals, Sequences

CONSTANTS Origins, Hosts, Requests,
          Serves,      \* the hostnames each origin advertises
          MaxInFlight, \* config.maxInFlight of the origins
          MaxSockets,  \* bound: sockets dialled
          MaxPings,    \* bound: pings remembered at a time
          MaxFaults    \* bound: what the environment does wrong

ASSUME TunnelAssumption ==
  /\ Serves \in [Origins -> SUBSET Hosts]
  /\ MaxInFlight \in Nat /\ MaxSockets \in Nat
  /\ MaxPings \in Nat /\ MaxFaults \in Nat
  /\ Origins # {} /\ Requests \cap Nat = {}

VARIABLES
  sockets,  \* the state of each socket, indexed by the order of dialling
  dialled,  \* how many were dialled
  faults    \* breaks, failed dials, refused handshakes and late answers

wire == <<sockets, dialled, faults>>

SocketIds == 1..MaxSockets

Frames == ({"request", "response"} \X Requests)
            \cup ({"advertise", "ping", "pong", "shutdown"} \X (0..MaxPings))

(* client and server: what each end's WebSocket object says. *)
Socket == [owner: Origins, broken: BOOLEAN,
           client: {"unused", "dialling", "open", "closing", "closed"},
           server: {"open", "closing", "closed"},
           up: Seq(Frames), down: Seq(Frames)]

WireInit ==
  /\ sockets = [s \in SocketIds |->
       [owner |-> CHOOSE o \in Origins : TRUE, broken |-> FALSE,
        client |-> "unused", server |-> "open", up |-> << >>, down |-> << >>]]
  /\ dialled = 0
  /\ faults = 0

Fault == faults < MaxFaults /\ faults' = faults + 1

(* send() at one end; what the other end can no longer read is dropped. *)
Up(w, f) ==
  IF w.client = "open" /\ w.server = "open" /\ ~w.broken
    THEN [w EXCEPT !.up = Append(@, f)] ELSE w

Down(w, f) ==
  IF w.client = "open" /\ w.server = "open" /\ ~w.broken
    THEN [w EXCEPT !.down = Append(@, f)] ELSE w

(* close() at one end: that end reads no more frames. *)
CloseClient(w) ==
  IF w.client \in {"dialling", "open"}
    THEN [w EXCEPT !.client = "closing", !.down = << >>] ELSE w

CloseServer(w) ==
  IF w.server = "open"
    THEN [w EXCEPT !.server = "closing", !.up = << >>] ELSE w

(* The close event of one end comes ... *)
ClientDue(w) ==
  \/ w.client = "closing"
  \/ w.client = "dialling" /\ (w.broken \/ w.server # "open")
  \/ w.client = "open" /\ ~w.broken /\ w.server # "open" /\ w.down = << >>

ServerDue(w) ==
  \/ w.server = "closing"
  \/ w.server = "open" /\ ~w.broken
       /\ w.client \in {"closing", "closed"} /\ w.up = << >>

(* ... or may come, when the connection is broken. *)
ClientGone(w) == ClientDue(w) \/ (w.client = "open" /\ w.broken)
ServerGone(w) ==
  ServerDue(w) \/ (w.client # "unused" /\ w.server = "open" /\ w.broken)

(* The network, or the dial, fails. *)
Break(s) ==
  /\ sockets[s].client # "unused" /\ ~sockets[s].broken
  /\ Fault
  /\ sockets' = [sockets EXCEPT ![s].broken = TRUE,
                                ![s].up = << >>, ![s].down = << >>]
  /\ UNCHANGED dialled

(* A frame is under way on some socket. *)
OnTheWay(f) ==
  \E s \in SocketIds : \E q \in {sockets[s].up, sockets[s].down} :
    \E i \in DOMAIN q : q[i] = f
===============================================================================
