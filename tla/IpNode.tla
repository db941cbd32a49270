------------------------------- MODULE IpNode -------------------------------
(* The programs of tcplean that use IP and no TCP: ROUTER, DATAGRAM, PING   *)
(* and ARPSCAN, with the IP, ICMP and UDP functions they share.  Each is a  *)
(* function from a node to the node after one pass of its main loop; the    *)
(* frames it has sent are in the field tx.                                  *)
(* A datagram is a sequence of units <<m, i>>: the i-th part of the message *)
(* m.  MTUs and offsets count units.  A checksum tells a message that is    *)
(* whole from any other sequence of units; that of UDP also covers the two  *)
(* addresses.                                                               *)
EXTENDS Integers, Sequences, FiniteSetsExt

CONSTANTS
    NFRAMES,     \* frames the router stores
    NFRAGS,      \* fragments a node stores
    FRAGTRIES,   \* unmatched fragments a stored one outlives
    MAXTRIES     \* a DATAGRAM client's tries

ASSUME ConstAssumption ==
    /\ NFRAMES \in Nat \ {0, 1} /\ NFRAGS \in Nat \ {0}
    /\ FRAGTRIES \in Nat \ {0} /\ MAXTRIES \in Nat

(* Networks: two of Ethernet and one of SLIP *)
Ethers == {"A", "B"}
Nets == <<"A", "B", "S">>
Mtu(net) == IF net \in Ethers THEN 2 ELSE 1

(* A buffer holds two full frames of an Ethernet.                           *)
MAXGEN == 4

RouterIp == [A |-> "rA", B |-> "rB", S |-> "rS"]
bcast == "all"

ECHOPORT == 7
DAYPORT == 13
MINEPORT == 1024

ARP_TX == 1
ARP_RX == 2
CLIENT_DONE == 3

Whole(m) == [i \in 1..m.len |-> <<m, i>>]
SumOk(data) == data # <<>> /\ data = Whole(data[1][1])
Message(data) == data[1][1]

-----------------------------------------------------------------------------
(* ARP, IP, ICMP and UDP of a node n; net is the network the frame is for.  *)

NoFrag == [tries |-> 0, ident |-> 0, sip |-> "none", oset |-> 0, data |-> <<>>]

(* A frame that is broadcast on SLIP or addressed to nobody reaches the     *)
(* other end all the same.                                                  *)
make_arp(n, net, op, sip, dip, mac) ==
    [n EXCEPT !.tx = Append(@, [net |-> net, src |-> n.name, dst |-> mac, pcol |-> "arp",
                                op |-> op, sip |-> sip, dip |-> dip])]

(* What a buffer holds beyond the data: of no datagram that has a sum.       *)
Junk == <<[len |-> 0], 0>>

Part(data, skip, len) ==
    [i \in 1..len |-> IF skip + i <= Len(data) THEN data[skip + i] ELSE Junk]

(* A datagram that is longer than the MTU goes out in fragments with one    *)
(* ident, and each of them moves the ident on.  It is a 16-bit number that  *)
(* would come round after 65536 fragments: no run goes on so long.          *)
(* A fragment's data are copied out of what was left for the one before it, *)
(* from the offset in the whole datagram: the first two are right, those    *)
(* after them have skipped too much.                                        *)
make_ip(n, net, sip, dip, mac, prot, data) ==
    LET m == Mtu(net)
        last == Max({1} \cup {j \in 1..MAXGEN : m * (j - 1) < Len(data)})
        Frag(j) ==
            [net |-> net, src |-> n.name, dst |-> mac, pcol |-> "ip", sip |-> sip,
             dip |-> dip, prot |-> prot, ident |-> n.ident, oset |-> m * (j - 1),
             more |-> j < last,
             data |-> Part(data, m * ((j * (j - 1)) \div 2), Min({m, Len(data) - m * (j - 1)}))]
    IN [n EXCEPT !.tx = @ \o [j \in 1..last |-> Frag(j)], !.ident = @ + last]

Send(n, net, sip, dip, mac, m) == make_ip(n, net, sip, dip, mac, m.prot, Whole(m))

(* Mutant: any fragment of the same sender is taken for the other half. *)
Matches_Sip(n, f) == {k \in 1..NFRAGS : n.frags[k].tries > 0 /\ n.frags[k].sip = f.sip}

(* The stored fragments that match, and those that are looked at *)
Matches(n, f) == {k \in 1..NFRAGS : n.frags[k].tries > 0 /\ n.frags[k].ident = f.ident
                                    /\ n.frags[k].sip = f.sip}
LookedAt(n, f) == IF Matches(n, f) = {} THEN 1..NFRAGS ELSE 1..(Min(Matches(n, f)) - 1)

Adjacent(f, g) ==
    /\ f.oset + Len(f.data) = g.oset \/ g.oset + Len(g.data) = f.oset
    /\ Len(f.data) + Len(g.data) <= MAXGEN

(* The buffer of f when f's data have been moved to their place and g's     *)
(* copied to theirs                                                         *)
Placed(f, g) ==
    LET In(x, i) == i \in x.oset + 1 .. x.oset + Len(x.data)
    IN [i \in 1 .. Len(f.data) + Len(g.data) |->
          IF In(g, i) THEN g.data[i - g.oset]
          ELSE IF In(f, i) THEN f.data[i - f.oset]
          ELSE IF i <= Len(f.data) THEN f.data[i] ELSE Junk]

(* A fragment completes the other half, or is dropped if it does not fit    *)
(* it, or is stored in a free place that is left.  Any two that fit are     *)
(* taken for a datagram.                                                    *)
defrag_ip(n, f) ==
    LET free == {k \in LookedAt(n, f) : n.frags[k].tries = 0}
        aged == [k \in 1..NFRAGS |->
                   IF k \in LookedAt(n, f) \ free
                   THEN [n.frags[k] EXCEPT !.tries = @ - 1] ELSE n.frags[k]]
    IN IF Matches(n, f) # {}
       THEN LET k == Min(Matches(n, f))
                g == n.frags[k]
            IN IF Adjacent(f, g)
               THEN [node |-> [n EXCEPT !.frags = [aged EXCEPT ![k].tries = 0]],
                     data |-> Placed(f, g)]
               ELSE [node |-> [n EXCEPT !.frags = aged], data |-> <<>>]
       ELSE [node |-> [n EXCEPT !.frags =
                        IF free = {} THEN aged
                        ELSE [aged EXCEPT ![Max(free)] =
                                [tries |-> FRAGTRIES, ident |-> f.ident, sip |-> f.sip,
                                 oset |-> f.oset, data |-> f.data]]],
             data |-> <<>>]

(* The data of a frame, none if it is not yet complete *)
is_ip(n, f) ==
    IF f.oset # 0 \/ f.more THEN defrag_ip(n, f) ELSE [node |-> n, data |-> f.data]

is_icmp(f, data) == f.prot = "icmp" /\ SumOk(data)
is_udp(f, data) == f.prot = "udp" /\ SumOk(data) /\ Message(data).ok
                   /\ Message(data).from = f.sip /\ Message(data).to = f.dip

(* A wrong sum is displayed *)
CheckSum(n, f, data) ==
    [n EXCEPT !.badsum = @ \/ (data # <<>> /\ ~is_icmp(f, data) /\ ~is_udp(f, data))]

Echoes(m) == m.prot = "icmp" /\ m.type = "req"

(* Mutant: the reply has the length of the last fragment. *)
EchoReply_Short(m) == [m EXCEPT !.type = "rep", !.len = 1]

EchoReply(m) == [m EXCEPT !.type = "rep"]
Unreach == [prot |-> "icmp", type |-> "unreach", seq |-> 0, len |-> 1]

-----------------------------------------------------------------------------
(* A host is a DATAGRAM, a PING or an ARPSCAN on one network; its name is   *)
(* its IP address and its hardware address.                                 *)

Gate(h) == RouterIp[h.net]
NetOf(h, ip) == IF ip \in h.neighbours \cup {Gate(h)} THEN h.net ELSE "other"
gate_ip(h) == IF NetOf(h, h.remip) = h.net THEN h.remip ELSE Gate(h)

ArpReq(h, dip) == make_arp(h, h.net, "req", h.name, dip, bcast)
ArpReply(h, f) == make_arp(h, h.net, "resp", h.name, f.sip, f.src)
Asked(h, f) == f.op = "req" /\ f.dip = h.name

Reply(h, f, m) == Send(h, h.net, h.name, f.sip, f.src, m)

(* The sum is taken when make_ip has made the second fragment in the middle *)
(* of the data, so it is wrong for a datagram in two fragments.             *)
make_udp(h, dip, mac, sport, dport, text, len) ==
    Send(h, h.net, h.name, dip, mac,
         [prot |-> "udp", from |-> h.name, to |-> dip, sport |-> sport, dport |-> dport,
          text |-> text, len |-> len, ok |-> len <= Mtu(h.net)])

(* DATAGRAM *)
udp_receive(h, f, m) ==
    CASE m.dport = MINEPORT -> [h EXCEPT !.shown = m.text, !.cstate = CLIENT_DONE]
      [] m.dport = ECHOPORT -> make_udp(h, f.sip, f.src, ECHOPORT, m.sport, m.text, m.len)
      [] m.dport = DAYPORT -> make_udp(h, f.sip, f.src, DAYPORT, m.sport, "time", 1)
      [] OTHER -> Reply(h, f, Unreach)

DatagramArp(h, f) ==
    CASE Asked(h, f) -> ArpReply(h, f)
      [] f.op = "resp" /\ f.dip = h.name -> [h EXCEPT !.mac = f.src, !.cstate = ARP_RX]
      [] OTHER -> h

DatagramIp(h, f) ==
    LET r == is_ip(h, f) n == CheckSum(r.node, f, r.data) IN
    CASE f.dip = h.name /\ is_icmp(f, r.data) ->
           IF Echoes(Message(r.data)) THEN Reply(n, f, EchoReply(Message(r.data))) ELSE n
      [] f.dip = h.name /\ is_udp(f, r.data) -> udp_receive(n, f, Message(r.data))
      [] OTHER -> n

(* A client sends what its state calls for when the state is new or a       *)
(* second has passed.                                                       *)
DatagramTx(h, expired) ==
    IF h.remip = "none" \/ ~(expired \/ h.cstate # h.lastcstate) THEN h
    ELSE LET n == [h EXCEPT !.tries = @ + 1, !.lastcstate = h.cstate] IN
         CASE h.tries > MAXTRIES -> [n EXCEPT !.off = TRUE]
           [] h.tries <= MAXTRIES /\ h.cstate = ARP_TX -> ArpReq(n, gate_ip(h))
           [] h.tries <= MAXTRIES /\ h.cstate = ARP_RX ->
                make_udp(n, h.remip, h.mac, MINEPORT, h.port, h.name, h.len)
           [] h.tries <= MAXTRIES /\ h.cstate = CLIENT_DONE -> [n EXCEPT !.off = TRUE]

(* PING.  Its random data are told by the number of the request.            *)
PingArp(h, f) ==
    CASE f.op = "resp" /\ f.sip = h.remip -> [h EXCEPT !.mac = f.src, !.arped = TRUE]
      [] Asked(h, f) -> ArpReply(h, f)
      [] OTHER -> h

PingIp(h, f) ==
    LET r == is_ip(h, f) n == CheckSum(r.node, f, r.data) m == Message(r.data) IN
    CASE ~(f.dip = h.name /\ is_icmp(f, r.data)) -> n
      [] f.dip = h.name /\ is_icmp(f, r.data) /\ m.type = "rep" ->
           IF m.len = h.len THEN [n EXCEPT !.rxseq = m.seq, !.rxcount = @ + 1]
           ELSE [n EXCEPT !.rxseq = m.seq, !.errcount = @ + 1]
      [] f.dip = h.name /\ is_icmp(f, r.data) /\ m.type = "req" -> Reply(n, f, EchoReply(m))
      [] OTHER -> n

PingDue(h, expired) == expired \/ (h.arped /\ h.flood /\ h.txseq = h.rxseq)

PingTx(h, expired) ==
    IF h.remip = "none" \/ ~PingDue(h, expired) THEN h
    ELSE IF ~h.arped THEN ArpReq(h, gate_ip(h))
    ELSE Send([h EXCEPT !.txseq = @ + 1, !.txcount = @ + 1], h.net, h.name, h.remip, h.mac,
              [prot |-> "icmp", type |-> "req", seq |-> h.txseq + 1, len |-> h.len])

(* ARPSCAN asks for one address after another; remip is the last it looked  *)
(* at, which a request for its own address changes too.                     *)
ArpscanArp(h, f) ==
    CASE f.op = "resp" /\ f.sip = h.remip -> [h EXCEPT !.listed = @ \cup {f.sip}]
      [] Asked(h, f) -> [ArpReply(h, f) EXCEPT !.remip = f.sip]
      [] OTHER -> h

ArpscanTx(h, expired) ==
    CASE expired /\ h.scan # <<>> ->
           ArpReq([h EXCEPT !.remip = Head(h.scan), !.scan = Tail(@)], Head(h.scan))
      [] expired /\ h.scan = <<>> -> [h EXCEPT !.off = TRUE]
      [] OTHER -> h

Tx(h, expired) ==
    CASE h.app = "datagram" -> DatagramTx(h, expired)
      [] h.app = "ping" -> PingTx(h, expired)
      [] h.app = "arpscan" -> ArpscanTx(h, expired)

Rx(h, f) ==
    CASE h.app = "datagram" -> IF f.pcol = "arp" THEN DatagramArp(h, f) ELSE DatagramIp(h, f)
      [] h.app = "ping" -> IF f.pcol = "arp" THEN PingArp(h, f) ELSE PingIp(h, f)
      [] h.app = "arpscan" -> IF f.pcol = "arp" THEN ArpscanArp(h, f) ELSE h

(* A host as it is when its program has started *)
Host(name, net, neighbours, app) ==
    [name |-> name, net |-> net, neighbours |-> neighbours, app |-> app, off |-> FALSE,
     tx |-> <<>>, ident |-> 1, frags |-> [k \in 1..NFRAGS |-> NoFrag], badsum |-> FALSE,
     remip |-> "none", mac |-> bcast, len |-> 1,
     port |-> DAYPORT, cstate |-> IF net \in Ethers THEN ARP_TX ELSE ARP_RX,
     lastcstate |-> 0, tries |-> 0, shown |-> "none",
     arped |-> net \notin Ethers, flood |-> FALSE, txseq |-> 0, rxseq |-> 0,
     txcount |-> 0, rxcount |-> 0, errcount |-> 0,
     scan |-> <<>>, listed |-> {}]

-----------------------------------------------------------------------------
(* ROUTER.  The subnet of an address is subnet[ip], "none" if no network of *)
(* the router has it.                                                       *)

NoWait == [dip |-> "none", sip |-> "none", prot |-> "none", data |-> <<>>]

(* The cache is searched downwards from the newest entry.  The index then   *)
(* becomes negative, as C's % does, and what lies before the array has no   *)
(* station's address: what is seen are the entries below remidx, and the    *)
(* first one.                                                               *)
Seen(r) == {0} \cup 0..(r.remidx - 1)

(* Mutant: any entry in use is taken. *)
Known_Any(r, ip) == {i \in Seen(r) : r.remnodes[i].ip # "none"}

Known(r, ip) == {i \in Seen(r) : r.remnodes[i].ip = ip}
lookup_cache(r, ip) == r.remnodes[Max(Known(r, ip))].mac

add_cache(r, ip, mac) ==
    IF Known(r, ip) # {} THEN r
    ELSE [r EXCEPT !.remnodes[r.remidx] = [ip |-> ip, mac |-> mac],
                   !.remidx = (@ + 1) % r.maxrems]

Forward(r, w, net, mac) == make_ip(r, net, w.sip, w.dip, mac, w.prot, w.data)

(* Mutant: the datagram is not kept. *)
Hold_Dropped(r, w, net) ==
    make_arp(r, net, "req", RouterIp[net], w.dip, bcast)

(* A datagram whose next node is not known waits; the request for its       *)
(* address is built in the next frame of the store, whatever is there.      *)
Hold(r, w, net) ==
    LET next == (r.frameidx + 1) % NFRAMES
        n == [r EXCEPT !.framestore = [@ EXCEPT ![r.frameidx] = w, ![next] = NoWait],
                       !.frameidx = next]
    IN make_arp(n, net, "req", RouterIp[net], w.dip, bcast)

Route(r, f, data) ==
    LET n == add_cache(r, f.sip, IF f.net \in Ethers THEN f.src ELSE bcast)
        w == [dip |-> f.dip, sip |-> f.sip, prot |-> f.prot, data |-> data]
        net == r.subnet[f.dip]
    IN CASE net = "none" -> n
         [] net # "none" /\ net \notin Ethers -> Forward(n, w, net, bcast)
         [] net \in Ethers /\ Known(n, f.dip) # {} -> Forward(n, w, net, lookup_cache(n, f.dip))
         [] net \in Ethers /\ Known(n, f.dip) = {} -> Hold(n, w, net)

(* The i-th stored frame after the current one is sent if it waits for f's  *)
(* sender.                                                                  *)
Waits(w, ip) == w.dip = ip

Flush(r, f, i) ==
    LET k == (r.frameidx + i) % NFRAMES
        w == r.framestore[k]
    IN IF Waits(w, f.sip)
       THEN [Forward(r, [w EXCEPT !.dip = f.sip], f.net, f.src)
             EXCEPT !.framestore[k] = NoWait]
       ELSE r

(* Mutant: the search ends one frame early. *)
FlushAll_Short(r, f) ==
    LET g[i \in 0..(NFRAMES - 2)] == IF i = 0 THEN r ELSE Flush(g[i - 1], f, i)
    IN g[NFRAMES - 2]

FlushAll(r, f) ==
    LET g[i \in 0..(NFRAMES - 1)] == IF i = 0 THEN r ELSE Flush(g[i - 1], f, i)
    IN g[NFRAMES - 1]

RouterArp(r, f) ==
    CASE f.dip = RouterIp[f.net] /\ f.op = "req" ->
           make_arp(r, f.net, "resp", RouterIp[f.net], f.sip, f.src)
      [] f.dip = RouterIp[f.net] /\ f.op = "resp" -> FlushAll(add_cache(r, f.sip, f.src), f)
      [] OTHER -> r

(* A datagram for the router that is not ICMP is routed without its data    *)
RouterIpRx(r, f) ==
    LET d == is_ip(r, f) n == d.node
        mine == f.dip = RouterIp[f.net]
    IN CASE d.data = <<>> \/ (f.net \in Ethers /\ f.dst = bcast) -> n
         [] d.data # <<>> /\ ~(f.net \in Ethers /\ f.dst = bcast) ->
              IF mine /\ is_icmp(f, d.data)
              THEN IF Echoes(Message(d.data))
                   THEN Send(n, f.net, RouterIp[f.net], f.sip, f.src, EchoReply(Message(d.data)))
                   ELSE n
              ELSE Route(n, f, IF mine THEN <<>> ELSE d.data)

RouterRx(r, f) == IF f.pcol = "arp" THEN RouterArp(r, f) ELSE RouterIpRx(r, f)

(* A router as it is when started, with a cache of maxrems entries *)
Router(subnet, maxrems) ==
    [name |-> "router", subnet |-> subnet, maxrems |-> maxrems, tx |-> <<>>, ident |-> 1,
     frags |-> [k \in 1..NFRAGS |-> NoFrag],
     framestore |-> [i \in 0..(NFRAMES - 1) |-> NoWait], frameidx |-> 0,
     remnodes |-> [i \in 0..(maxrems - 1) |-> [ip |-> "none", mac |-> "none"]], remidx |-> 0]
==============================================================================
