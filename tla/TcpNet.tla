------------------------------- MODULE TcpNet -------------------------------
(***************************************************************************)
(* Two hosts that run TCP.C, a client program and a server program, and a  *)
(* network between them that loses, delays, reorders and duplicates        *)
(* frames.  Each program is a loop that receives a frame and polls its     *)
(* sockets; the applications are the upcalls, with every result the        *)
(* programs of the repository give, and what the client's main loop        *)
(* writes, reads and closes.                                               *)
(***************************************************************************)
EXTENDS TcpSock, FiniteSets

CONSTANTS
  NSOCKS,                  (* sockets in the table of each program         *)
  IsnStep,                 (* least distance of two sequence starts        *)
  Plans                    (* see PlanOK                                   *)

C == "client"
S == "server"
Hosts == {C, S}
Peer(h) == IF h = C THEN S ELSE C
Socks == 1 .. NSOCKS

(* The network and the buffers; ups: what the applications do in an        *)
(* upcall (the client's, client_action of TELNET.C, always agrees); the    *)
(* hosts whose program may end, and those that may be given a frame twice; *)
(* and bounds: the bytes a host writes on a connection, which with SYN and *)
(* FIN fit in the IsnStep numbers a connection has, the sequence starts it *)
(* chooses, restarts of a program, and frames under way to a host.         *)
PlanOK(p) ==
  /\ p.ethernet \in BOOLEAN /\ p.room \in 1 .. RxWin - 1
  /\ \A h \in Hosts : \A up \in p.ups[h] : 
       up.ok \in BOOLEAN /\ up.write \in Nat /\ up.read \in BOOLEAN
  /\ \A up \in p.ups[C] : up.ok
  /\ p.ends \subseteq Hosts /\ p.duplicates \subseteq Hosts
  /\ p.writes \in [Hosts -> 0 .. IsnStep - 2] /\ p.starts \in [Hosts -> Nat]
  /\ {p.restarts, p.netcap} \subseteq Nat

ASSUME TcpNetAssumption ==
  {NSOCKS, IsnStep} \subseteq Nat \ {0} /\ \A p \in Plans : PlanOK(p)

VARIABLES
  sock,                    (* sock[h][i]: the sockets of host h            *)
  net,                     (* net[h]: the frames under way to host h       *)
  eport,                   (* the static port counter of the client's TCP  *)
  starts,                  (* sequence starts each host has chosen so far  *)
  restarts,                (* restarts of a program so far                 *)
  phase                    (* phase[h]: how far the program of host h is   *)

vars == <<plan, sock, net, eport, starts, restarts, phase>>

Started == [h \in Hosts |-> IF h = C THEN "start" ELSE "run"]

(* mstime() * 0x100, or * 100 for a client, gives each connection a later  *)
(* sequence number than the last.  That a program starts no two in one     *)
(* tick, and that none sends more than the number moves on until the next  *)
(* starts, is taken for granted here and in PlanOK.                        *)
Offset(h) == IF h = C THEN 0 ELSE IsnStep \div 2
Isn(h) == IsnStep * (starts[h] + 1) + Offset(h)

(* A frame that finds its way full is lost.                                *)
Put(n, h, frames) == 
  [n EXCEPT ![Peer(h)] = IF Cardinality(@ \union frames) <= plan.netcap 
                         THEN @ \union frames ELSE @]

(* Socket i of host h takes result r, and its segments are sent.           *)
Apply(h, i, r, n) == 
  /\ sock' = [sock EXCEPT ![h][i] = r.s]
  /\ net' = Put(n, h, r.tx)

(* Socket i of host h, in state s, receives a segment or is polled.        *)
Run(h, i, s, seg, n) ==
  \E up \in plan.ups[h] :
    LET r == tsock_rx(s, seg, up, Isn(h), eport + 1)
        fresh == s.state = "ARPR" \/ (s.state = "CLOSED" /\ seg.flags = {"SYN"})
    IN /\ up.write > 0 => r.s.wrote <= plan.writes[h]
       /\ Apply(h, i, r, n)
       /\ fresh => starts[h] < plan.starts[h]
       /\ starts' = [starts EXCEPT ![h] = @ + (IF fresh THEN 1 ELSE 0)]
       /\ eport' = IF s.state = "ARPR" THEN eport + 1 ELSE eport

-----------------------------------------------------------------------------
(* tcp_receive: the socket of the connection, else the first closed one,   *)
(* gets the segment; without either the answer is a reset.                 *)
First(I) == CHOOSE i \in I : \A j \in I : i <= j
Matching(h, seg) == {i \in Socks : sock[h][i].port = seg.port}
Idle(h) == {i \in Socks : sock[h][i].state = "CLOSED"}

tcp_receive(h, seg, n) ==
  IF Matching(h, seg) # {}
  THEN LET i == First(Matching(h, seg)) IN Run(h, i, sock[h][i], seg, n)
  ELSE IF Idle(h) # {}
  THEN LET i == First(Idle(h)) IN 
       Run(h, i, [sock[h][i] EXCEPT !.port = seg.port], seg, n)
  ELSE net' = Put(n, h, {make_reset_resp(seg)}) /\ UNCHANGED <<sock, eport, starts>>

(* arp_receive: the socket that waits for the answer sends its SYN (the    *)
(* programs open one socket at a time).                                    *)
Waiting(h) == {i \in Socks : sock[h][i].state = "ARPS"}

arp_receive(h, n) ==
  IF Waiting(h) = {} THEN net' = n /\ UNCHANGED <<sock, eport, starts>>
  ELSE LET i == First(Waiting(h)) IN
       Run(h, i, new_state(sock[h][i], "ARPR"), NoSeg, n)

(* do_receive: one frame is taken from the network.                        *)
Receive(h) ==
  \E seg \in net[h], keep \in {FALSE, (h \in plan.duplicates)} :
    LET n == IF keep THEN net ELSE [net EXCEPT ![h] = @ \ {seg}] IN
    /\ \/ /\ seg = ArpReq
          /\ net' = Put(n, h, {ArpResp}) /\ UNCHANGED <<sock, eport, starts>>
       \/ seg = ArpResp /\ arp_receive(h, n)
       \/ seg \notin {ArpReq, ArpResp} /\ tcp_receive(h, seg, n)
    /\ UNCHANGED <<restarts, phase>>

Lose(h) ==
  /\ \E seg \in net[h] : net' = [net EXCEPT ![h] = @ \ {seg}]
  /\ UNCHANGED <<sock, eport, starts, restarts, phase>>

(* tcp_poll for one socket whose timer has not expired.                    *)
Poll(h, i) ==
  LET s == sock[h][i] IN
  /\ s.state # "CLOSED"
  /\ Run(h, i, s, NoSeg, net)
  /\ UNCHANGED <<restarts, phase>>

(* tcp_poll for one socket whose timer has expired.                        *)
Timeout(h, i) ==
  LET s == sock[h][i] IN
  /\ s.state # "CLOSED"
  /\ Apply(h, i, Expire(s), net)
  /\ UNCHANGED <<eport, starts, restarts, phase>>

(* The client program opens its one connection with open_tcp, and ends     *)
(* when that is closed.                                                    *)
Open ==
  /\ phase[C] = "start"
  /\ phase' = [phase EXCEPT ![C] = "run"]
  /\ Apply(C, 1, InAopen([new_state(sock[C][1], "AOPEN") EXCEPT !.port = 0]), net)
  /\ UNCHANGED <<eport, starts, restarts>>

(* The main loop of the client program: a key is put in the transmit       *)
(* buffer, received data is displayed.                                     *)
Key ==
  /\ phase[C] = "run" /\ sock[C][1].state # "CLOSED"
  /\ sock[C][1].wrote < plan.writes[C]
  /\ sock' = [sock EXCEPT ![C][1] = AppPut(@, 1)]
  /\ UNCHANGED <<net, eport, starts, restarts, phase>>

Display ==
  /\ phase[C] = "run" /\ sock[C][1].unread > 0
  /\ sock' = [sock EXCEPT ![C][1].unread = 0]
  /\ UNCHANGED <<net, eport, starts, restarts, phase>>

(* A program that ends closes its sockets time and again, and resets those *)
(* that have not closed within a second.                                   *)
Close(h) ==
  /\ h \in plan.ends /\ phase[h] \in {"run", "close"}
  /\ phase' = [phase EXCEPT ![h] = "close"]
  /\ sock' = [sock EXCEPT ![h] = [i \in Socks |-> close_tcp(@[i])]]
  /\ UNCHANGED <<net, eport, starts, restarts>>

Reset(h) ==
  LET r == [i \in Socks |-> reset_tcp(sock[h][i])] IN
  /\ phase[h] = "close"
  /\ phase' = [phase EXCEPT ![h] = "reset"]
  /\ sock' = [sock EXCEPT ![h] = [i \in Socks |-> r[i].s]]
  /\ net' = Put(net, h, UNION {r[i].tx : i \in Socks})
  /\ UNCHANGED <<eport, starts, restarts>>

(* A program ends, in order or not, and is started again: its sockets and  *)
(* its port counter are back at their start, the network is not.           *)
Restart(h) ==
  /\ restarts < plan.restarts
  /\ restarts' = restarts + 1
  /\ phase' = [phase EXCEPT ![h] = Started[h]]
  /\ sock' = [sock EXCEPT ![h] = [i \in Socks |-> InitSock]]
  /\ eport' = IF h = C THEN 0 ELSE eport
  /\ UNCHANGED <<net, starts>>

Init ==
  /\ plan \in Plans
  /\ sock = [h \in Hosts |-> [i \in Socks |-> InitSock]]
  /\ net = [h \in Hosts |-> {}]
  /\ eport = 0 /\ restarts = 0
  /\ starts = [h \in Hosts |-> 0]
  /\ phase = Started

Next ==
  /\ UNCHANGED plan
  /\ \/ \E h \in Hosts : Receive(h) \/ Lose(h) \/ Close(h) \/ Reset(h) \/ Restart(h)
     \/ \E h \in Hosts, i \in Socks : Poll(h, i) \/ Timeout(h, i)
     \/ Open \/ Key \/ Display

Spec == Init /\ [][Next]_vars

(* Fairness, with the enabling conditions written out.  The programs loop  *)
(* for ever, so a frame that waits is received or lost.  The timer of a    *)
(* socket that is opening or closing runs on whatever it receives, so it   *)
(* expires; that of an established one is set anew by every frame for it,  *)
(* so it expires if it waits for one again and again: the other side, if   *)
(* it has nothing to send, waits twice as long after each of its own       *)
(* timeouts.                                                               *)
Live(h, i) == sock[h][i].state # "CLOSED"
Passing(h, i) == sock[h][i].state \notin {"CLOSED", "EST"}
Quiet(h, i) == Live(h, i) /\ \A seg \in net[h] : seg.port # sock[h][i].port

Take(h) == Receive(h) \/ Lose(h)
PassingTimeout(h, i) == Passing(h, i) /\ Timeout(h, i)
QuietTimeout(h, i) == Quiet(h, i) /\ Timeout(h, i)

LoopFairness ==
  /\ \A h \in Hosts : []<>(net[h] = {}) \/ []<><<Take(h)>>_vars
  /\ \A h \in Hosts, i \in Socks : 
       /\ []<>~Passing(h, i) \/ []<><<PassingTimeout(h, i)>>_vars
       /\ <>[]~Quiet(h, i) \/ []<><<QuietTimeout(h, i)>>_vars

(* The network may lose a frame, but not all frames of a kind.             *)
HasData(h) == \E seg \in net[h] : seg.data # <<>>
TakeData(h) == Receive(h) /\ \E seg \in net[h] \ net'[h] : seg.data # <<>>

NetFairness ==
  \A h \in Hosts : 
    /\ <>[](net[h] = {}) \/ []<><<Receive(h)>>_vars
    /\ <>[]~HasData(h) \/ []<><<TakeData(h)>>_vars

LoopSpec == Spec /\ LoopFairness

-----------------------------------------------------------------------------
(* Two sockets are connected to each other: each expected the first byte   *)
(* of the other's stream where that began.                                 *)
Connected(s, t) == 
  s.port = t.port /\ s.port > 0 /\ t.irs = s.iss /\ s.irs = t.iss

ForStreams(P(_, _)) ==
  \A h \in Hosts, i \in Socks, j \in Socks :
    LET s == sock[h][i]
        t == sock[Peer(h)][j]
    IN Connected(s, t) => P(s, t)

(* Whatever the network does, the bytes put into a receive buffer are the  *)
(* bytes the other application wrote on this connection, in order, without *)
(* a gap and without a repeat.                                             *)
StreamIntegrity ==
  \A h \in Hosts, i \in Socks : 
    \A n \in 1 .. Len(sock[h][i].got) : sock[h][i].got[n] = n

(* A byte leaves the transmit buffer only when the other side has it, and  *)
(* the other side has no byte that was not written.                        *)
AckedWasReceived ==
  ForStreams(LAMBDA s, t : s.txo - s.iss <= Len(t.got) /\ Len(t.got) <= s.wrote)

(* A socket that has sent its FIN after an active close left nothing       *)
(* behind: the other side has every byte the application wrote.            *)
OrderlyClose ==
  ForStreams(LAMBDA s, t : 
    s.state \in {"FINWT1", "FINWT2", "CLING", "TWAIT"} => Len(t.got) = s.wrote)

(* Two sockets that are established with each other's port are connected   *)
(* to each other: neither takes a segment of an earlier connection for its *)
(* own, though ports are used again and old segments are still under way.  *)
ConnectionsAgree ==
  \A i, j \in Socks :
    LET s == sock[C][i]
        t == sock[S][j]
    IN s.state = "EST" /\ t.state = "EST" /\ s.port = t.port => Connected(s, t)

(* No socket stays half way: one that is opening or closing is established *)
(* or closed in the end, though the other side may be gone and the network *)
(* may lose every frame.                                                   *)
TransientEnds == \A h \in Hosts, i \in Socks : Passing(h, i) ~> ~Passing(h, i)

(* If the client is gone for good the server does not keep its half of the *)
(* connection.                                                             *)
HalfOpenEnds ==
  <>[](\A i \in Socks : ~Live(C, i)) => <>[](\A i \in Socks : ~Live(S, i))

(* A socket of a connection that is not to be is free again in the end.    *)
SocketsFreed == TransientEnds /\ HalfOpenEnds

(* If the network does not lose everything, what the client has written is *)
(* acknowledged in the end, unless the connection is lost.                 *)
StreamProgress ==
  \A i \in Socks : 
    NetFairness => (sock[C][i].txq # <<>> ~> sock[C][i].txq = <<>> \/ ~Live(C, i))

=============================================================================
