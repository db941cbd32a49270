------------------------------ MODULE RouterNet ------------------------------
(* ROUTER between two Ethernets and a SLIP line, with DATAGRAM, PING and    *)
(* ARPSCAN on the hosts.  A frame waits in its receiver's queue, in the     *)
(* order in which it was sent; it may be lost.                              *)
EXTENDS IpNode, FiniteSets

CONSTANTS
    Cases,       \* [hosts, maxrems, trouble]: the hosts by name, the size of the
                 \* router's address cache, and a bound on lost plus early
    MaxPings     \* bound: requests a PING sends

(* An address on B that no station has *)
Nobody == "nobody"

(* A host has a name of its own and its program has just started, with what *)
(* its user asks of it; the line has one host at its end.                   *)
Others == {"router", bcast, "none", Nobody, "far", "rA", "rB", "rS"}
Starts(name, h) ==
    /\ h = [Host(name, h.net, h.neighbours, h.app)
              EXCEPT !.remip = h.remip, !.port = h.port, !.len = h.len,
                     !.flood = h.flood, !.scan = h.scan]
    /\ h.net \in {"A", "B", "S"} /\ h.app \in {"datagram", "ping", "arpscan"}
    /\ h.len \in 0..MAXGEN /\ (h.app = "ping" => h.len <= 2 * Mtu(h.net))

ASSUME NetAssumption ==
    \A c \in Cases :
        /\ c.maxrems \in Nat \ {0}
        /\ \A s \in DOMAIN c.hosts :
              /\ s \notin Others /\ Starts(s, c.hosts[s])
              /\ c.hosts[s].remip \in (DOMAIN c.hosts \cup Others) \ {"router", bcast}
        /\ \A s, t \in DOMAIN c.hosts :
              c.hosts[s].net = "S" /\ c.hosts[t].net = "S" => s = t

VARIABLES
    case,        \* the case looked at
    router,
    hosts,       \* the hosts by name
    inbox,       \* frames received and not yet read, by station
    lost,        \* frames lost
    early        \* timeouts while frames are under way

vars == <<case, router, hosts, inbox, lost, early>>

Names == DOMAIN case.hosts
Stations == Names \cup {"router"}

Fixed == [rA |-> "A", rB |-> "B", rS |-> "S", nobody |-> "B", far |-> "none"]
Subnet(hs) ==
    [ip \in DOMAIN hs \cup DOMAIN Fixed |-> IF ip \in DOMAIN hs THEN hs[ip].net ELSE Fixed[ip]]

IsOn(s) == IF s = "router" THEN TRUE ELSE ~hosts[s].off
Reaches(f, s) ==
    /\ IF s = "router" THEN TRUE ELSE hosts[s].net = f.net
    /\ s # f.src
    /\ f.net \notin Ethers \/ f.dst \in {bcast, s}

(* The frames that reach s, in order *)
Reaching(frames, s) ==
    LET g[i \in 0..Len(frames)] ==
          IF i = 0 THEN <<>>
          ELSE IF Reaches(frames[i], s) THEN Append(g[i - 1], frames[i]) ELSE g[i - 1]
    IN g[Len(frames)]

(* What a station has sent is in the queues at the end of its pass; its     *)
(* own queue has become q.                                                  *)
Deliver(s, q, frames) ==
    inbox' = [t \in Stations |->
                (IF t = s THEN q ELSE inbox[t])
                \o IF IsOn(t) THEN Reaching(frames, t) ELSE <<>>]

Stopped(h) == h.app = "ping" /\ h.txseq = MaxPings
Busy(h) == ~h.off /\ ~Stopped(h) /\ Tx(h, FALSE) # h
Quiet == (\A s \in Stations : inbox[s] = <<>>) /\ (\A s \in Names : ~Busy(hosts[s]))
Trouble == lost + early < case.trouble

(* One pass of a host's main loop *)
HostPass(s, expired) ==
    LET h == IF Stopped(hosts[s]) THEN hosts[s] ELSE Tx(hosts[s], expired)
        n == IF inbox[s] = <<>> THEN h ELSE Rx(h, Head(inbox[s]))
        q == IF inbox[s] = <<>> \/ n.off THEN <<>> ELSE Tail(inbox[s])
    IN /\ hosts' = [hosts EXCEPT ![s] = [n EXCEPT !.tx = <<>>]]
       /\ Deliver(s, q, n.tx)

HostLoop(s) ==
    /\ ~hosts[s].off /\ (inbox[s] # <<>> \/ Busy(hosts[s]))
    /\ HostPass(s, FALSE)
    /\ UNCHANGED <<case, router, lost, early>>

(* A timer runs out: when nothing is under way, or before its answer is     *)
(* there.                                                                   *)
Expire(s) ==
    /\ ~hosts[s].off /\ ~Stopped(hosts[s]) /\ Tx(hosts[s], TRUE) # hosts[s]
    /\ Quiet \/ Trouble
    /\ HostPass(s, TRUE)
    /\ early' = IF Quiet THEN early ELSE early + 1
    /\ UNCHANGED <<case, router, lost>>

RouterLoop ==
    /\ inbox["router"] # <<>>
    /\ LET n == RouterRx(router, Head(inbox["router"]))
       IN /\ router' = [n EXCEPT !.tx = <<>>]
          /\ Deliver("router", Tail(inbox["router"]), n.tx)
    /\ UNCHANGED <<case, hosts, lost, early>>

Lose(s) ==
    /\ inbox[s] # <<>> /\ Trouble
    /\ inbox' = [inbox EXCEPT ![s] = Tail(@)]
    /\ lost' = lost + 1
    /\ UNCHANGED <<case, router, hosts, early>>

Init ==
    /\ case \in Cases
    /\ hosts = case.hosts
    /\ router = Router(Subnet(case.hosts), case.maxrems)
    /\ inbox = [s \in Stations |-> <<>>]
    /\ lost = 0 /\ early = 0

Next == RouterLoop \/ \E s \in Stations : Lose(s) \/ (s \in Names /\ (HostLoop(s) \/ Expire(s)))

Spec == Init /\ [][Next]_vars

-----------------------------------------------------------------------------
(* A datagram reaches only the station that has the address in it: neither  *)
(* the cache nor the answer to an ARP request sends one elsewhere.          *)
RightStation ==
    \A s \in Names : \A i \in DOMAIN inbox[s] :
        inbox[s][i].pcol = "ip" => inbox[s][i].dip = s

(* What is left to the users: every program knows which hosts are on its    *)
(* own network, and the datagrams of a DATAGRAM client, and their echoes,   *)
(* need no second fragment where they are sent, for make_udp takes the sum  *)
(* too late.  A longer one, through the router to the line, needs three.    *)
Plain(c) ==
    \A s \in DOMAIN c.hosts :
        LET h == c.hosts[s] IN
        /\ h.remip \in DOMAIN c.hosts =>
             (h.remip \in h.neighbours <=> c.hosts[h.remip].net = h.net)
        /\ h.app = "datagram" =>
             /\ h.len <= Mtu(h.net)
             /\ h.port = ECHOPORT /\ h.remip \in DOMAIN c.hosts =>
                  h.len <= Mtu(c.hosts[h.remip].net)

(* No station sees a wrong checksum: halves of different datagrams are not  *)
(* put together, a datagram that has waited leaves as it came, and none is  *)
(* cut into more than the two fragments that make_ip gets right.            *)
SumsAgree == Plain(case) => \A s \in Names : ~hosts[s].badsum

(* PING counts no reply twice and no error, though its requests may wait in *)
(* the router's store and several answers to ARP requests may find them.    *)
PingCounts ==
    \A s \in Names : /\ hosts[s].rxcount <= hosts[s].txcount
                     /\ hosts[s].rxseq <= hosts[s].txseq
                     /\ hosts[s].errcount = 0

(* What waits in the store is still asked for: the request for its          *)
(* destination's address, or the answer, is under way unless a frame was    *)
(* lost or the destination has gone.  No frame is passed over when the      *)
(* answer comes.                                                            *)
WaitingIsAsked ==
    \A i \in 0..(NFRAMES - 1) :
        LET ip == router.framestore[i].dip
        IN ip \in Names /\ lost = 0 /\ IsOn(ip) =>
             \/ \E j \in DOMAIN inbox[ip] :
                   LET f == inbox[ip][j] IN f.pcol = "arp" /\ f.op = "req" /\ f.dip = ip
             \/ \E j \in DOMAIN inbox["router"] :
                   LET f == inbox["router"][j] IN f.pcol = "arp" /\ f.op = "resp" /\ f.sip = ip

(* A client whose datagrams are plain gives up on a server that is there    *)
(* only if enough has gone wrong: the first datagram for a station does not *)
(* cost a try, for it waits in the router until the station's address is    *)
(* known.  The cache must have room for the stations, and one entry more    *)
(* (see Seen).                                                              *)
GaveUp(h) == h.app = "datagram" /\ h.off /\ h.cstate # CLIENT_DONE
TriesSuffice ==
    \A s \in Names :
        /\ Plain(case) /\ case.maxrems > Cardinality(Names)
        /\ GaveUp(hosts[s]) /\ hosts[s].remip \in Names
        => lost + early >= MAXTRIES
==============================================================================
