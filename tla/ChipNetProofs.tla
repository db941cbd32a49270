---------------------------- MODULE ChipNetProofs ----------------------------
(* What ChipNet promises of the lease, of the time server's address and of  *)
(* the page a browser gets, for every node, every lease, every file and     *)
(* every way of losing frames.                                              *)
EXTENDS ChipNet, ProofFacts

-----------------------------------------------------------------------------
(* The invariant *)

DhcpStates == {DHCP_INIT, DHCP_DISCOVER, DHCP_REQUEST, DHCP_RENEWING, DHCP_BOUND}

(* The time client is the only one that asks for hardware addresses, and    *)
(* asks for that of the router.                                             *)
OnlyTime(n) == n.mailport = 0 /\ n.tserver_ip = "time" /\ "time" \in n.far

(* A frame the node sends: what is sent from the port of the address client *)
(* goes to no station but the address server.                               *)
Goes(n, f) ==
    /\ f.pcol = "ip" /\ f.prot = "udp" /\ f.body.sport = DHCPCLIENT_PORT
         => f.dip \in {All, Null, "lessor"}
    /\ OnlyTime(n) /\ f.pcol = "arp" /\ f.op = "req" => f.tip = Router
AllGo(n, s) == IsSeq(s) /\ \A i \in DOMAIN s : Goes(n, s[i])

(* A frame that comes to it: what comes to that port is from the address    *)
(* server.                                                                  *)
ForDhcp(f) == f.pcol = "ip" /\ f.prot = "udp" /\ f.body.dport = DHCPCLIENT_PORT
IsAck(f) == ForDhcp(f) /\ f.body.data.type = "ACK"
Comes(n, f) ==
    /\ f.pcol \in {"arp", "ip"} /\ (f.pcol = "ip" => f.prot \in {"icmp", "udp", "tcp"})
    /\ ForDhcp(f) => f.sip = "lessor" /\ f.body.data.lease = Lease
    /\ OnlyTime(n) /\ f.pcol = "arp" /\ f.op # "req" => f.src = Router
AllCome(n, s) == IsSeq(s) /\ \A i \in DOMAIN s : Comes(n, s[i])

Fields == {"incl", "far", "mailport", "tx", "myip", "txbuffnum", "txbuff1", "srce",
           "arp_resp", "remeth", "remip", "locport", "dhcp_state", "dhcp_secs",
           "lease_secs", "secdue", "dhcp_newip", "dhcp_hosteth", "dhcp_hostip",
           "net_ok", "tserver_ip", "tserver_eth", "tserver_arp_ok"}

NodeOK(n) ==
    /\ Fields \subseteq DOMAIN n
    /\ AllGo(n, n.tx) /\ AllGo(n, n.txbuff1)
    /\ n.dhcp_state \in DhcpStates /\ n.dhcp_secs \in Nat /\ n.lease_secs \in Nat
    /\ n.secdue \in BOOLEAN /\ n.dhcp_hostip \in {Null, "lessor"}
    /\ OnlyTime(n) /\ n.arp_resp => n.remeth = Router
    /\ OnlyTime(n) /\ n.tserver_arp_ok => n.tserver_eth = Router
    /\ "time" \notin n.incl => ~n.tserver_arp_ok

LessorOK(l) ==
    /\ DOMAIN l = {"holder", "left"} /\ l.holder \in {"none", "chip", "other"}
    /\ l.left \in Nat /\ l.left <= Lease

(* A lease is not shorter than the least the node believes in.             *)
Long == LeaseMin <= Lease

(* While the node is bound the server keeps the address for it, and what is *)
(* left of the lease at the server is at least what the node thinks is left *)
(* (of which a second may be due that it has not counted yet).              *)
InLease(n, l) ==
    /\ n.dhcp_state \in {DHCP_BOUND, DHCP_RENEWING} =>
         /\ l.holder = "chip"
         /\ n.dhcp_secs < n.lease_secs
         /\ n.lease_secs <= n.dhcp_secs + l.left + (IF n.secdue THEN 1 ELSE 0)
    /\ n.dhcp_state = DHCP_INIT /\ n.myip # Null => l.holder = "chip"
    /\ n.dhcp_state \in {DHCP_DISCOVER, DHCP_REQUEST} => n.myip = Null

(* An acknowledgement on its way is of a lease just given.                  *)
AcksFresh(r, l) ==
    \A i \in DOMAIN r : IsAck(r[i]) => l.holder = "chip" /\ l.left = Lease

LeaseInv ==
    /\ NodeOK(chip) /\ LessorOK(lessor)
    /\ AllGo(chip, wire) /\ AllCome(chip, ring)
    /\ AcksFresh(ring, lessor)
    /\ Long /\ "dhcp" \in chip.incl => InLease(chip, lessor)

-----------------------------------------------------------------------------
(* What most functions of the node leave alone *)

Constant(n, m) ==
    /\ m.incl = n.incl /\ m.far = n.far /\ m.mailport = n.mailport
    /\ m.tserver_ip = n.tserver_ip
SameLease(n, m) ==
    /\ m.myip = n.myip /\ m.dhcp_state = n.dhcp_state /\ m.dhcp_secs = n.dhcp_secs
    /\ m.lease_secs = n.lease_secs /\ m.secdue = n.secdue
Kept(n, m) == NodeOK(m) /\ Constant(n, m) /\ SameLease(n, m)

LEMMA KeptTwice ==
  ASSUME NEW n, NEW m, NEW k, Kept(n, m), Kept(m, k) PROVE Kept(n, k)
  BY DEF Kept, Constant, SameLease

LEMMA AllGoSame ==
  ASSUME NEW n, NEW m, Constant(n, m), NEW s, AllGo(n, s) PROVE AllGo(m, s)
  BY DEF AllGo, Goes, OnlyTime, Constant

LEMMA AllGoBoth ==
  ASSUME NEW n, NEW s, NEW t, AllGo(n, s), AllGo(n, t) PROVE AllGo(n, s \o t)
<1>1. IsSeq(s) /\ IsSeq(t) BY DEF AllGo
<1>4. IsSeq(s \o t) BY <1>1, Concat
<1>3. ASSUME NEW i \in DOMAIN (s \o t) PROVE Goes(n, (s \o t)[i])
  <2>1. CASE \E j \in DOMAIN s : (s \o t)[i] = s[j]
    <3>1. PICK j \in DOMAIN s : (s \o t)[i] = s[j] BY <2>1
    <3> QED BY <3>1, Zenon DEF AllGo
  <2>2. CASE \E j \in DOMAIN t : (s \o t)[i] = t[j]
    <3>1. PICK j \in DOMAIN t : (s \o t)[i] = t[j] BY <2>2
    <3> QED BY <3>1, Zenon DEF AllGo
  <2> QED BY <1>1, <2>1, <2>2, InConcat
<1> QED BY <1>3, <1>4 DEF AllGo

(* Sending.                                                                 *)
LEMMA TransmitKeeps ==
  ASSUME NEW n, NodeOK(n), NEW f, Goes(n, f) PROVE Kept(n, Transmit(n, f))
<1> DEFINE m == Transmit(n, f)
<1>1. AllGo(n, <<f>>) BY OneIsSeq DEF AllGo
<1>2. AllGo(n, Append(n.tx, f)) BY Appended DEF AllGo, NodeOK
<1>3. Constant(n, m) /\ SameLease(n, m) /\ Fields \subseteq DOMAIN m
  BY DEF Transmit, NodeOK, Fields, Constant, SameLease
<1>4. m.tx = Append(n.tx, f) /\ m.txbuff1 \in {<<f>>, n.txbuff1}
  BY DEF Transmit, NodeOK, Fields
<1>5. AllGo(n, m.tx) /\ AllGo(n, m.txbuff1) BY <1>1, <1>2, <1>4 DEF NodeOK
<1>6. AllGo(m, m.tx) /\ AllGo(m, m.txbuff1) BY <1>3, <1>5, AllGoSame
<1>7. /\ m.dhcp_hostip = n.dhcp_hostip /\ m.arp_resp = n.arp_resp /\ m.remeth = n.remeth
      /\ m.tserver_eth = n.tserver_eth /\ m.tserver_arp_ok = n.tserver_arp_ok
  BY DEF Transmit, NodeOK, Fields
<1> QED BY <1>3, <1>6, <1>7 DEF Kept, NodeOK, Constant, SameLease, OnlyTime

(* A node of which other variables have changed.                            *)
Relevant == {"incl", "far", "mailport", "tx", "txbuff1", "myip", "arp_resp", "remeth",
             "dhcp_state", "dhcp_secs", "lease_secs", "secdue", "dhcp_hostip",
             "tserver_ip", "tserver_eth", "tserver_arp_ok"}
Agree(n, m) == DOMAIN m = DOMAIN n /\ \A x \in Relevant : m[x] = n[x]

LEMMA AgreeKeeps ==
  ASSUME NEW n, NodeOK(n), NEW m, Agree(n, m) PROVE Kept(n, m)
<1>1. Constant(n, m) /\ SameLease(n, m) /\ Fields \subseteq DOMAIN m
  BY DEF Agree, Relevant, Constant, SameLease, NodeOK
<1>2. AllGo(m, m.tx) /\ AllGo(m, m.txbuff1)
  BY <1>1, AllGoSame DEF NodeOK, Agree, Relevant
<1>3. /\ m.dhcp_hostip = n.dhcp_hostip /\ m.arp_resp = n.arp_resp /\ m.remeth = n.remeth
      /\ m.tserver_eth = n.tserver_eth /\ m.tserver_arp_ok = n.tserver_arp_ok
  BY DEF Agree, Relevant
<1> QED BY <1>1, <1>2, <1>3 DEF Kept, NodeOK, Constant, SameLease, OnlyTime

LEMMA InitTxbuffKeeps ==
  ASSUME NEW n, NodeOK(n), NEW b
  PROVE Kept(n, InitTxbuff(n, b)) /\ Agree(n, InitTxbuff(n, b))
<1>1. Agree(n, InitTxbuff(n, b)) BY DEF InitTxbuff, Agree, Relevant
<1> QED BY <1>1, AgreeKeeps

LEMMA RetransmitKeeps ==
  ASSUME NEW n, NodeOK(n) PROVE Kept(n, Retransmit(n))
<1> DEFINE m == Retransmit(n)
<1>1. Constant(n, m) /\ SameLease(n, m) /\ Fields \subseteq DOMAIN m
  BY DEF Retransmit, NodeOK, Fields, Constant, SameLease
<1>2. m.tx = n.tx \o n.txbuff1 /\ m.txbuff1 = n.txbuff1
  BY DEF Retransmit, NodeOK, Fields
<1>3. AllGo(n, m.tx) /\ AllGo(n, m.txbuff1) BY <1>2, AllGoBoth DEF NodeOK
<1>4. AllGo(m, m.tx) /\ AllGo(m, m.txbuff1) BY <1>1, <1>3, AllGoSame
<1>5. /\ m.dhcp_hostip = n.dhcp_hostip /\ m.arp_resp = n.arp_resp /\ m.remeth = n.remeth
      /\ m.tserver_eth = n.tserver_eth /\ m.tserver_arp_ok = n.tserver_arp_ok
  BY DEF Retransmit, NodeOK, Fields
<1> QED BY <1>1, <1>4, <1>5 DEF Kept, NodeOK, Constant, SameLease, OnlyTime

LEMMA PutIpKeeps ==
  ASSUME NEW n, NodeOK(n), NEW prot, NEW body,
         prot = "udp" /\ body.sport = DHCPCLIENT_PORT => n.remip \in {All, Null, "lessor"}
  PROVE Kept(n, PutIp(n, prot, body))
<1> DEFINE f == [dst |-> n.srce, src |-> n.myeth, pcol |-> "ip",
                 sip |-> n.myip, dip |-> n.remip, prot |-> prot, body |-> body]
<1>1. Goes(n, f) BY DEF Goes
<1> QED BY <1>1, TransmitKeeps DEF PutIp

LEMMA TcpXmitKeeps ==
  ASSUME NEW n, NodeOK(n), NEW flags, NEW data PROVE Kept(n, TcpXmit(n, flags, data))
<1> DEFINE b == [sport |-> n.locport, dport |-> n.remport, seq |-> n.rack,
                 ack |-> n.rseq, flags |-> flags, data |-> data]
<1>1. Kept(n, PutIp(n, "tcp", b)) BY PutIpKeeps
<1> QED BY <1>1 DEF TcpXmit

LEMMA UdpXmitKeeps ==
  ASSUME NEW n, NodeOK(n), NEW data,
         n.locport = DHCPCLIENT_PORT => n.remip \in {All, Null, "lessor"}
  PROVE Kept(n, UdpXmit(n, data))
<1> DEFINE b == [sport |-> n.locport, dport |-> n.remport, data |-> data]
<1>1. Kept(n, PutIp(n, "udp", b)) BY PutIpKeeps
<1> QED BY <1>1 DEF UdpXmit

(* ARP.                                                                     *)
LEMMA ArpXmitKeeps ==
  ASSUME NEW n, NodeOK(n), NEW op, OnlyTime(n) /\ op = "req" => n.remip = Router
  PROVE Kept(n, ArpXmit(n, op))
<1> DEFINE m == [InitTxbuff(n, 0) EXCEPT !.srce = IF op = "req" THEN All ELSE @]
           f == [dst |-> m.srce, src |-> m.myeth, pcol |-> "arp", op |-> op,
                 sip |-> m.myip, tip |-> m.remip]
<1>1. Agree(n, m) BY DEF InitTxbuff, Agree, Relevant
<1>2. Kept(n, m) BY <1>1, AgreeKeeps
<1>3. m.remip = n.remip BY DEF InitTxbuff, NodeOK, Fields
<1>4. OnlyTime(m) = OnlyTime(n) BY <1>2 DEF Kept, Constant, OnlyTime
<1>5. Goes(m, f) BY <1>3, <1>4 DEF Goes
<1>6. Kept(m, Transmit(m, f)) BY <1>2, <1>5, TransmitKeeps DEF Kept
<1>7. ArpXmit(n, op) = Transmit(m, f) BY DEF ArpXmit
<1> QED BY <1>2, <1>6, <1>7, KeptTwice

LEMMA ArpHostKeeps ==
  ASSUME NEW n, NodeOK(n), NEW ip, OnlyTime(n) => ip = "time"
  PROVE Kept(n, ArpHost(n, ip))
<1> DEFINE m == [n EXCEPT !.remip = IF InSubnet(n, ip) THEN ip ELSE Router]
<1>1. Agree(n, m) BY DEF Agree, Relevant
<1>2. Kept(n, m) BY <1>1, AgreeKeeps
<1>3. OnlyTime(n) => m.remip = Router BY DEF OnlyTime, InSubnet, NodeOK, Fields
<1>4. OnlyTime(m) = OnlyTime(n) BY <1>2 DEF Kept, Constant, OnlyTime
<1>5. NodeOK(m) BY <1>2 DEF Kept
<1> HIDE DEF m
<1>6. Kept(m, ArpXmit(m, "req")) BY <1>3, <1>4, <1>5, ArpXmitKeeps
<1>7. ArpHost(n, ip) = ArpXmit(m, "req") BY DEF ArpHost, m
<1> QED BY <1>2, <1>6, <1>7, KeptTwice

(* The mail dialogues and the TCP client.                                   *)
LEMMA LedsKeeps ==
  ASSUME NEW n, NodeOK(n), NEW x, NEW y PROVE Kept(n, Leds(n, x, y))
<1>1. Agree(n, Leds(n, x, y)) BY DEF Leds, Agree, Relevant
<1> QED BY <1>1, AgreeKeeps

LEMMA SmtpKeeps ==
  ASSUME NEW n, NodeOK(n), NEW data PROVE Kept(n, SmtpClientData(n, data).n)
<1> DEFINE m == [n EXCEPT !.mstate = @ + 1]
<1>1. Agree(n, n) /\ Agree(n, m) BY DEF Agree, Relevant
<1>2. Kept(n, n) /\ Kept(n, m) BY <1>1, AgreeKeeps
<1>3. NodeOK(m) BY <1>2 DEF Kept
<1> HIDE DEF m
<1>4. Kept(n, Leds(n, Dark, Lit)) BY LedsKeeps
<1>5. Kept(n, Leds(m, Dark, Dark)) BY <1>2, <1>3, LedsKeeps, KeptTwice
<1>6. SmtpClientData(n, data).n \in {n, m, Leds(n, Dark, Lit), Leds(m, Dark, Dark)}
  BY DEF SmtpClientData, Says, m
<1> QED BY <1>2, <1>4, <1>5, <1>6

LEMMA Pop3Keeps ==
  ASSUME NEW n, NodeOK(n), NEW data PROVE Kept(n, Pop3ClientData(n, data).n)
<1> DEFINE r == Pop3ClientData(n, data).n
           left == IF Lines(n, data) = <<>> THEN n.lbuff \/ data # <<>>
                   ELSE n.mstate = POP_DATA /\ data[Len(data)] = Part
           m == [n EXCEPT !.lbuff = left]
<1>1. Agree(n, m) BY DEF Agree, Relevant
<1>2. Kept(n, m) BY <1>1, AgreeKeeps
<1>3. NodeOK(m) BY <1>2 DEF Kept
<1>4. Kept(n, Leds(m, Dark, Dark)) BY <1>2, <1>3, LedsKeeps, KeptTwice
<1>5. r = Leds(m, Dark, Dark) \/ Agree(n, r)
  BY DEF Pop3ClientData, Says, Agree, Relevant
<1> HIDE DEF r, m
<1>6. Kept(n, r) BY <1>4, <1>5, AgreeKeeps
<1> QED BY <1>6 DEF r

LEMMA NewCstateKeeps ==
  ASSUME NEW n, NodeOK(n), NEW news
  PROVE Kept(n, NewCstate(n, news)) /\ Agree(n, NewCstate(n, news))
<1>1. Agree(n, NewCstate(n, news)) BY DEF NewCstate, Agree, Relevant
<1> QED BY <1>1, AgreeKeeps

LEMMA ClientXmitKeeps ==
  ASSUME NEW n, NodeOK(n), NEW flags, NEW data PROVE Kept(n, ClientXmit(n, flags, data))
<1> DEFINE rseq == n.rseq + n.rpdlen
           len == Len(data) + IF flags \cap {TSYN, TFIN} # {} THEN 1 ELSE 0
           m == [n EXCEPT !.rseq = rseq, !.ctack = rseq, !.ctseq = n.rack + len]
<1>1. Agree(n, m) BY DEF Agree, Relevant
<1>2. Kept(n, m) BY <1>1, AgreeKeeps
<1>3. ClientXmit(n, flags, data) = TcpXmit(m, flags, data) BY DEF ClientXmit
<1> HIDE DEF m
<1> QED BY <1>2, <1>3, TcpXmitKeeps, KeptTwice DEF Kept

LEMMA ClientRstKeeps ==
  ASSUME NEW n, NodeOK(n) PROVE Kept(n, ClientRstXmit(n))
<1> DEFINE m == InitTxbuff(n, 0)
<1>1. Kept(n, m) BY InitTxbuffKeeps
<1>2. ClientRstXmit(n) = ClientXmit(m, {TRST, TACK}, <<>>) BY DEF ClientRstXmit
<1> HIDE DEF m
<1> QED BY <1>1, <1>2, ClientXmitKeeps, KeptTwice DEF Kept

LEMMA ClientEstKeeps ==
  ASSUME NEW n, NodeOK(n), NEW rflags, NEW data PROVE Kept(n, ClientEst(n, rflags, data))
<1> DEFINE fresh == IF n.rpdlen > 0 THEN NewCstate(n, CLIENT_EST) ELSE n
           said == IF n.remport = SMTP_PORT THEN SmtpClientData(fresh, data)
                   ELSE Pop3ClientData(fresh, data)
           plus == [said.n EXCEPT !.rpdlen = @ + 1]
           closed == NewCstate(plus, CLIENT_LASTACK)
           waits == NewCstate(said.n, CLIENT_FINWT)
<1>1. Agree(n, n) BY DEF Agree
<1>2. Kept(n, fresh) BY <1>1, AgreeKeeps, NewCstateKeeps
<1>3. ClientEst(n, rflags, data) \in
        {ClientXmit(closed, {TFIN, TACK}, said.out), ClientXmit(waits, said.flags, said.out),
         said.n, ClientXmit(said.n, said.flags, said.out)}
  BY DEF ClientEst
<1> HIDE DEF fresh
<1>4. Kept(n, said.n) BY <1>2, SmtpKeeps, Pop3Keeps, KeptTwice DEF Kept
<1> HIDE DEF said
<1>5. Agree(said.n, plus) BY DEF Agree, Relevant
<1>6. Kept(n, plus) BY <1>4, <1>5, AgreeKeeps, KeptTwice DEF Kept
<1> HIDE DEF plus
<1>7. Kept(n, closed) BY <1>6, NewCstateKeeps, KeptTwice DEF Kept
<1>8. Kept(n, waits) BY <1>4, NewCstateKeeps, KeptTwice DEF Kept
<1> HIDE DEF closed, waits
<1>9. Kept(n, ClientXmit(closed, {TFIN, TACK}, said.out))
  BY <1>7, ClientXmitKeeps, KeptTwice DEF Kept
<1>10. Kept(n, ClientXmit(waits, said.flags, said.out))
  BY <1>8, ClientXmitKeeps, KeptTwice DEF Kept
<1>11. Kept(n, ClientXmit(said.n, said.flags, said.out))
  BY <1>4, ClientXmitKeeps, KeptTwice DEF Kept
<1> QED BY <1>3, <1>4, <1>9, <1>10, <1>11

LEMMA TcpClientRecvKeeps ==
  ASSUME NEW n0, NodeOK(n0), NEW rflags, NEW data
  PROVE Kept(n0, TcpClientRecv(n0, rflags, data))
<1> DEFINE n == InitTxbuff(n0, 1)
           plus1 == [n EXCEPT !.rpdlen = @ + 1]
           greet == ClientXmit(plus1, {TACK}, <<>>)
           begin == [greet EXCEPT !.mstate = 0]
           connected == NewCstate(begin, CLIENT_EST)
           ended == NewCstate(greet, CLIENT_INIT)
<1>1. TcpClientRecv(n0, rflags, data) \in
        {ClientRstXmit(n), connected, ClientEst(n, rflags, data), NewCstate(n, CLIENT_INIT),
         n, ended, ClientXmit(n, {TACK}, <<>>)}
  BY DEF TcpClientRecv
<1>2. Kept(n0, n) BY InitTxbuffKeeps
<1> HIDE DEF n
<1>3. Agree(n, plus1) BY DEF Agree, Relevant
<1>4. Kept(n0, plus1) BY <1>2, <1>3, AgreeKeeps, KeptTwice DEF Kept
<1> HIDE DEF plus1
<1>5. Kept(n0, greet) BY <1>4, ClientXmitKeeps, KeptTwice DEF Kept
<1> HIDE DEF greet
<1>6. Agree(greet, begin) BY DEF Agree, Relevant
<1>7. Kept(n0, begin) BY <1>5, <1>6, AgreeKeeps, KeptTwice DEF Kept
<1> HIDE DEF begin
<1>8. Kept(n0, connected) BY <1>7, NewCstateKeeps, KeptTwice DEF Kept
<1>9. Kept(n0, ended) BY <1>5, NewCstateKeeps, KeptTwice DEF Kept
<1> HIDE DEF connected, ended
<1>10. Kept(n0, ClientRstXmit(n)) BY <1>2, ClientRstKeeps, KeptTwice DEF Kept
<1>11. Kept(n0, ClientEst(n, rflags, data)) BY <1>2, ClientEstKeeps, KeptTwice DEF Kept
<1>12. Kept(n0, NewCstate(n, CLIENT_INIT)) BY <1>2, NewCstateKeeps, KeptTwice DEF Kept
<1>13. Kept(n0, ClientXmit(n, {TACK}, <<>>)) BY <1>2, ClientXmitKeeps, KeptTwice DEF Kept
<1> QED BY <1>1, <1>2, <1>8, <1>9, <1>10, <1>11, <1>12, <1>13

LEMMA StartClientKeeps ==
  ASSUME NEW n, NodeOK(n), n.mailport # 0, NEW hport PROVE Kept(n, StartClient(n, hport))
<1> DEFINE p == [n EXCEPT !.remport = hport]
           m == Leds(p, Lit, Dark)
           k == ArpHost(m, n.chostip)
<1>1. Agree(n, n) /\ Agree(n, p) BY DEF Agree, Relevant
<1>2. Kept(n, n) /\ Kept(n, p) BY <1>1, AgreeKeeps
<1>3. StartClient(n, hport) \in {n, NewCstate(k, CLIENT_ARPS)} BY DEF StartClient
<1> HIDE DEF p
<1>4. Kept(n, m) BY <1>2, LedsKeeps, KeptTwice DEF Kept
<1>5. ~OnlyTime(m) BY <1>4 DEF Kept, Constant, OnlyTime
<1> HIDE DEF m
<1>6. Kept(n, k) BY <1>4, <1>5, ArpHostKeeps, KeptTwice DEF Kept
<1> HIDE DEF k
<1> QED BY <1>2, <1>3, <1>6, NewCstateKeeps, KeptTwice DEF Kept

LEMMA CheckClientKeeps ==
  ASSUME NEW n, NodeOK(n), n.mailport # 0, NEW expired \in BOOLEAN
  PROVE Kept(n, CheckClient(n, expired))
<1> DEFINE port == IF n.cport + 1 < MIN_CLIENT_PORT \/ n.cport + 1 >= MAX_CLIENT_PORT
                   THEN MIN_CLIENT_PORT ELSE n.cport + 1
           first == InitTxbuff(n, 1)
           opening == [first EXCEPT !.cport = port, !.locport = port,
                                    !.rseq = 0, !.rack = CLIENT_SEQ_START]
           syn == ClientXmit(opening, {TSYN}, <<>>)
           less == [n EXCEPT !.ctries = @ - 1]
           reset == IF n.cstate > CLIENT_SYNS THEN ClientRstXmit(n) ELSE n
           stopped == NewCstate(n, CLIENT_INIT)
           stopped2 == NewCstate(reset, CLIENT_INIT)
           lit == [stopped EXCEPT !.led1 = Lit]
           lit2 == [stopped2 EXCEPT !.led2 = Lit]
<1>1. CheckClient(n, expired) \in
        {NewCstate(syn, CLIENT_SYNS), ArpHost(less, n.chostip), lit, Retransmit(less), lit2, n}
  BY DEF CheckClient
<1>2. Agree(n, n) /\ Agree(n, less) BY DEF Agree, Relevant
<1>3. Kept(n, n) /\ Kept(n, less) BY <1>2, AgreeKeeps
<1>4. ~OnlyTime(less) BY <1>3 DEF Kept, Constant, OnlyTime
<1> HIDE DEF less
<1>5. Kept(n, first) BY InitTxbuffKeeps
<1> HIDE DEF first, port
<1>6. Agree(first, opening) BY DEF Agree, Relevant
<1>7. Kept(n, opening) BY <1>5, <1>6, AgreeKeeps, KeptTwice DEF Kept
<1> HIDE DEF opening
<1>8. Kept(n, syn) BY <1>7, ClientXmitKeeps, KeptTwice DEF Kept
<1> HIDE DEF syn
<1>9. Kept(n, NewCstate(syn, CLIENT_SYNS)) BY <1>8, NewCstateKeeps, KeptTwice DEF Kept
<1>10. Kept(n, ArpHost(less, n.chostip)) BY <1>3, <1>4, ArpHostKeeps, KeptTwice DEF Kept
<1>11. Kept(n, Retransmit(less)) BY <1>3, RetransmitKeeps, KeptTwice DEF Kept
<1>12. Kept(n, reset) BY <1>3, ClientRstKeeps
<1> HIDE DEF reset
<1>13. Kept(n, stopped) /\ Kept(n, stopped2)
  BY <1>12, NewCstateKeeps, KeptTwice DEF Kept
<1> HIDE DEF stopped, stopped2
<1>14. Agree(stopped, lit) /\ Agree(stopped2, lit2) BY DEF Agree, Relevant
<1>15. Kept(n, lit) /\ Kept(n, lit2) BY <1>13, <1>14, AgreeKeeps, KeptTwice DEF Kept
<1> HIDE DEF lit, lit2
<1> QED BY <1>1, <1>3, <1>9, <1>10, <1>11, <1>15

(* The TCP server.                                                          *)
LEMMA HttpKeeps ==
  ASSUME NEW n, NodeOK(n), NEW data PROVE Kept(n, HttpRecv(n, data).n)
<1>1. Agree(n, n) BY DEF Agree
<1>2. HttpRecv(n, data).n = n
        \/ HttpRecv(n, data).n = Leds(n, FileArgs[data[1]], FileArgs[data[1]])
  BY DEF HttpRecv, Says
<1> QED BY <1>1, <1>2, AgreeKeeps, LedsKeeps

LEMMA TcpServerRecvKeeps ==
  ASSUME NEW n, NodeOK(n), NEW rflags, NEW data
  PROVE Kept(n, TcpServerRecv(n, rflags, data))
<1> DEFINE after == [n EXCEPT !.rseq = @ + n.rpdlen]
           syn == [n EXCEPT !.rseq = @ + 1]
           accept == [syn EXCEPT !.rack = SERVER_SEQ(n.concount), !.concount = @ + 1]
           fin == [after EXCEPT !.rseq = @ + 1]
           page == HttpRecv(after, data)
<1>1. TcpServerRecv(n, rflags, data) \in
        {n, TcpXmit(accept, {TSYN, TACK}, <<>>), TcpXmit(syn, {TRST, TACK}, <<>>),
         TcpXmit(fin, {TACK}, <<>>), TcpXmit(after, {TFIN, TACK}, <<"daytime">>),
         TcpXmit(page.n, page.flags, page.out), TcpXmit(after, {TACK}, <<>>)}
  BY DEF TcpServerRecv
<1>2. Agree(n, n) /\ Agree(n, after) /\ Agree(n, syn) /\ Agree(n, fin)
  BY DEF Agree, Relevant
<1>3. Agree(n, accept) BY DEF Agree, Relevant
<1>4. Kept(n, n) /\ Kept(n, after) /\ Kept(n, syn) /\ Kept(n, fin) /\ Kept(n, accept)
  BY <1>2, <1>3, AgreeKeeps
<1> HIDE DEF after, syn, fin, accept
<1>5. Kept(n, page.n) BY <1>4, HttpKeeps, KeptTwice DEF Kept
<1> HIDE DEF page
<1>6. ASSUME NEW m, Kept(n, m), NEW flags, NEW out PROVE Kept(n, TcpXmit(m, flags, out))
  BY <1>6, TcpXmitKeeps, KeptTwice DEF Kept
<1> QED BY <1>1, <1>4, <1>5, <1>6

LEMMA TcpRecvKeeps ==
  ASSUME NEW n, NodeOK(n), NEW s PROVE Kept(n, TcpRecv(n, s))
<1> DEFINE head == [n EXCEPT !.remport = s.sport, !.locport = s.dport,
                             !.rseq = s.seq, !.rack = s.ack]
           len == [head EXCEPT !.rpdlen = Len(s.data)]
           m == InitTxbuff(len, 0)
<1>1. TcpRecv(n, s) \in {head, TcpClientRecv(m, s.flags, s.data),
                          TcpServerRecv(m, s.flags, s.data)}
  BY DEF TcpRecv
<1>2. Agree(n, head) /\ Agree(n, len) BY DEF Agree, Relevant
<1>3. Kept(n, head) /\ Kept(n, len) BY <1>2, AgreeKeeps
<1> HIDE DEF head, len
<1>4. Kept(n, m) BY <1>3, InitTxbuffKeeps, KeptTwice DEF Kept
<1> HIDE DEF m
<1>5. Kept(n, TcpClientRecv(m, s.flags, s.data))
  BY <1>4, TcpClientRecvKeeps, KeptTwice DEF Kept
<1>6. Kept(n, TcpServerRecv(m, s.flags, s.data))
  BY <1>4, TcpServerRecvKeeps, KeptTwice DEF Kept
<1> QED BY <1>1, <1>3, <1>5, <1>6

-----------------------------------------------------------------------------
(* The clients over UDP *)

LEMMA DhcpTxKeeps ==
  ASSUME NEW n, NodeOK(n) PROVE Kept(n, DhcpTx(n))
<1> DEFINE to == IF n.dhcp_state = DHCP_RENEWING
                 THEN [n EXCEPT !.srce = n.dhcp_hosteth, !.remip = n.dhcp_hostip]
                 ELSE [n EXCEPT !.srce = All, !.remip = All]
           m == [to EXCEPT !.locport = DHCPCLIENT_PORT, !.remport = DHCPSERVER_PORT]
           request == n.dhcp_state = DHCP_REQUEST
           data == [type |-> IF n.dhcp_state = DHCP_DISCOVER THEN "DISCOVER" ELSE "REQUEST",
                    ciaddr |-> n.myip,
                    server |-> IF request THEN n.dhcp_hostip ELSE Null,
                    wanted |-> IF request THEN n.dhcp_newip ELSE Null]
<1>1. Agree(n, m) BY DEF Agree, Relevant
<1>2. Kept(n, m) BY <1>1, AgreeKeeps
<1>3. m.remip \in {All, Null, "lessor"} BY DEF NodeOK, Fields
<1>4. DhcpTx(n) = UdpXmit(m, data) BY DEF DhcpTx
<1> HIDE DEF m, data
<1> QED BY <1>2, <1>3, <1>4, UdpXmitKeeps, KeptTwice DEF Kept

LEMMA RequestTimeKeeps ==
  ASSUME NEW n, NodeOK(n) PROVE Kept(n, RequestTime(n))
<1> DEFINE m == [InitTxbuff(n, 0) EXCEPT !.remip = n.tserver_ip, !.srce = n.tserver_eth,
                          !.locport = TIMECLIENT_PORT, !.remport = TIMESERVER_PORT]
<1>1. Agree(n, m) BY DEF Agree, Relevant, InitTxbuff
<1>2. Kept(n, m) BY <1>1, AgreeKeeps
<1>3. m.locport # DHCPCLIENT_PORT
  BY DEF NodeOK, Fields, InitTxbuff, TIMECLIENT_PORT, DHCPCLIENT_PORT
<1>4. RequestTime(n) = UdpXmit(m, "time?") BY DEF RequestTime
<1> HIDE DEF m
<1> QED BY <1>2, <1>3, <1>4, UdpXmitKeeps, KeptTwice DEF Kept

(* With the time client alone a response to a request for a hardware        *)
(* address is always the router's, so what is taken is right.               *)
LEMMA CheckTimeKeeps ==
  ASSUME NEW n, NodeOK(n), "time" \in n.incl, NEW expired \in BOOLEAN
  PROVE Kept(n, CheckTime(n, expired))
<1> DEFINE m == [n EXCEPT !.tserver_eth = n.remeth, !.tserver_arp_ok = TRUE]
<1>1. \/ CheckTime(n, expired) = RequestTime(m) /\ n.arp_resp
      \/ CheckTime(n, expired) \in {ArpHost(n, n.tserver_ip), RequestTime(n), n}
  BY DEF CheckTime, HostArped
<1>2. Agree(n, n) BY DEF Agree
<1>3. Kept(n, n) BY <1>2, AgreeKeeps
<1>4. Kept(n, ArpHost(n, n.tserver_ip)) BY ArpHostKeeps DEF OnlyTime
<1>5. Kept(n, RequestTime(n)) BY RequestTimeKeeps
<1>6. ASSUME n.arp_resp PROVE Kept(n, RequestTime(m))
  <2>1. Constant(n, m) /\ SameLease(n, m) /\ Fields \subseteq DOMAIN m
    BY DEF NodeOK, Fields, Constant, SameLease
  <2>2. /\ m.tx = n.tx /\ m.txbuff1 = n.txbuff1 /\ m.dhcp_hostip = n.dhcp_hostip
        /\ m.arp_resp = n.arp_resp /\ m.remeth = n.remeth /\ m.tserver_eth = n.remeth
    BY DEF NodeOK, Fields
  <2>3. AllGo(m, m.tx) /\ AllGo(m, m.txbuff1) BY <2>1, <2>2, AllGoSame DEF NodeOK
  <2> HIDE DEF m
  <2>4. NodeOK(m)
    BY <1>6, <2>1, <2>2, <2>3 DEF NodeOK, Constant, SameLease, OnlyTime
  <2>5. Kept(n, m) BY <2>1, <2>4 DEF Kept
  <2> QED BY <2>4, <2>5, RequestTimeKeeps, KeptTwice
<1> QED BY <1>1, <1>3, <1>4, <1>5, <1>6

-----------------------------------------------------------------------------
(* The lease *)

Stays(n, m, l) ==
    /\ NodeOK(m) /\ Constant(n, m)
    /\ Long /\ "dhcp" \in n.incl /\ InLease(n, l) => InLease(m, l)

LEMMA KeptStays ==
  ASSUME NEW n, NEW m, Kept(n, m), NEW l PROVE Stays(n, m, l)
  BY DEF Kept, Stays, SameLease, InLease

LEMMA StaysTwice ==
  ASSUME NEW n, NEW m, NEW k, NEW l, Stays(n, m, l), Stays(m, k, l) PROVE Stays(n, k, l)
  BY DEF Stays, Constant

(* A second of the lease is counted at the node, or the lease is over.      *)
LEMMA DhcpSecondStays ==
  ASSUME NEW n, NodeOK(n), NEW l, LessorOK(l), n.secdue,
         n.dhcp_state \in {DHCP_BOUND, DHCP_RENEWING}
  PROVE Stays(n, DhcpSecond(n), l)
<1> DEFINE m == DhcpSecond(n)
<1>1. DOMAIN m = DOMAIN n /\ m.dhcp_secs = n.dhcp_secs + 1 /\ m.secdue = FALSE
  BY DEF DhcpSecond, NodeOK, Fields
<1>2. /\ m.incl = n.incl /\ m.far = n.far /\ m.mailport = n.mailport
      /\ m.tserver_ip = n.tserver_ip /\ m.tx = n.tx /\ m.txbuff1 = n.txbuff1
      /\ m.lease_secs = n.lease_secs /\ m.dhcp_hostip = n.dhcp_hostip
      /\ m.arp_resp = n.arp_resp /\ m.remeth = n.remeth
      /\ m.tserver_eth = n.tserver_eth /\ m.tserver_arp_ok = n.tserver_arp_ok
  BY DEF DhcpSecond, NodeOK, Fields
<1>3. m.dhcp_state = IF n.dhcp_secs + 1 = n.lease_secs \div 2 THEN DHCP_RENEWING
                     ELSE IF n.dhcp_secs + 1 >= n.lease_secs THEN DHCP_INIT
                     ELSE n.dhcp_state
  BY DEF DhcpSecond, NodeOK, Fields
<1> HIDE DEF m
<1>4. Constant(n, m) BY <1>2 DEF Constant
<1>5. AllGo(m, m.tx) /\ AllGo(m, m.txbuff1) BY <1>2, <1>4, AllGoSame DEF NodeOK
<1>6. m.dhcp_state \in DhcpStates BY <1>3 DEF NodeOK, DhcpStates
<1>9. m.dhcp_secs \in Nat /\ m.lease_secs \in Nat /\ m.secdue \in BOOLEAN
  <2>1. PICK d \in Nat : n.dhcp_secs = d BY DEF NodeOK
  <2>2. m.dhcp_secs = d + 1 BY <1>1, <2>1
  <2>3. m.lease_secs \in Nat BY <1>2 DEF NodeOK
  <2>4. m.secdue \in BOOLEAN BY <1>1
  <2>5. d + 1 \in Nat OBVIOUS
  <2> QED BY <2>2, <2>3, <2>4, <2>5
<1>10. /\ Fields \subseteq DOMAIN m /\ m.dhcp_hostip \in {Null, "lessor"}
       /\ OnlyTime(m) /\ m.arp_resp => m.remeth = Router
       /\ OnlyTime(m) /\ m.tserver_arp_ok => m.tserver_eth = Router
       /\ "time" \notin m.incl => ~m.tserver_arp_ok
  BY <1>1, <1>2 DEF NodeOK, OnlyTime
<1>7. NodeOK(m) BY <1>5, <1>6, <1>9, <1>10 DEF NodeOK
<1>8. InLease(n, l) => InLease(m, l)
  <2> SUFFICES ASSUME InLease(n, l) PROVE InLease(m, l) OBVIOUS
  <2>1. l.holder = "chip" /\ n.dhcp_secs < n.lease_secs
        /\ n.lease_secs <= n.dhcp_secs + l.left + 1
    BY DEF InLease
  <2>2. n.dhcp_secs \in Nat /\ n.lease_secs \in Nat /\ l.left \in Nat
    BY DEF NodeOK, LessorOK
  <2>3. PICK d \in Nat, e \in Nat, f \in Nat :
          n.dhcp_secs = d /\ n.lease_secs = e /\ l.left = f
    BY <2>2
  <2>4. m.dhcp_state \in {DHCP_BOUND, DHCP_RENEWING} => d + 1 < e
    BY <1>3, <2>1, <2>3 DEF DHCP_BOUND, DHCP_RENEWING, DHCP_INIT
  <2>5. m.dhcp_state \notin {DHCP_DISCOVER, DHCP_REQUEST}
    BY <1>3 DEF DHCP_BOUND, DHCP_RENEWING, DHCP_INIT, DHCP_DISCOVER, DHCP_REQUEST
  <2> QED BY <1>1, <1>2, <2>1, <2>3, <2>4, <2>5 DEF InLease
<1> QED BY <1>4, <1>7, <1>8 DEF Stays, m

LEMMA CheckDhcpStays ==
  ASSUME NEW n, NodeOK(n), NEW l, LessorOK(l), NEW expired \in BOOLEAN
  PROVE Stays(n, CheckDhcp(n, expired), l)
<1> DEFINE wake == [n EXCEPT !.myip = Null, !.dhcp_secs = 0, !.secdue = TRUE,
                             !.dhcp_state = DHCP_DISCOVER]
           asks == n.dhcp_state \in {DHCP_DISCOVER, DHCP_REQUEST, DHCP_RENEWING}
           m == IF n.dhcp_state = DHCP_INIT THEN wake
                ELSE IF asks /\ expired THEN DhcpTx(n) ELSE n
<1>1. Agree(n, n) BY DEF Agree
<1>2. Kept(n, n) BY <1>1, AgreeKeeps
<1>3. Stays(n, wake, l)
  <2>1. Constant(n, wake) /\ Fields \subseteq DOMAIN wake /\ wake.dhcp_state = DHCP_DISCOVER
        /\ wake.myip = Null /\ wake.dhcp_secs = 0 /\ wake.secdue = TRUE
    BY DEF NodeOK, Fields, Constant
  <2>2. /\ wake.tx = n.tx /\ wake.txbuff1 = n.txbuff1 /\ wake.lease_secs = n.lease_secs
        /\ wake.dhcp_hostip = n.dhcp_hostip /\ wake.arp_resp = n.arp_resp
        /\ wake.remeth = n.remeth /\ wake.tserver_eth = n.tserver_eth
        /\ wake.tserver_arp_ok = n.tserver_arp_ok
    BY DEF NodeOK, Fields
  <2> HIDE DEF wake
  <2>3. AllGo(wake, wake.tx) /\ AllGo(wake, wake.txbuff1)
    BY <2>1, <2>2, AllGoSame DEF NodeOK
  <2>4. wake.dhcp_state \in DhcpStates /\ wake.dhcp_secs \in Nat BY <2>1 DEF DhcpStates
  <2>5. NodeOK(wake) BY <2>1, <2>2, <2>3, <2>4 DEF NodeOK, OnlyTime, Constant
  <2>6. InLease(wake, l)
    BY <2>1 DEF InLease, DHCP_BOUND, DHCP_RENEWING, DHCP_INIT, DHCP_DISCOVER
  <2> QED BY <2>1, <2>5, <2>6 DEF Stays
<1>4. Stays(n, m, l) BY <1>2, <1>3, DhcpTxKeeps, KeptStays
<1>5. CheckDhcp(n, expired) = IF m.dhcp_state \in {DHCP_BOUND, DHCP_RENEWING} /\ m.secdue
                              THEN DhcpSecond(m) ELSE m
  BY DEF CheckDhcp
<1> HIDE DEF m
<1> QED BY <1>4, <1>5, DhcpSecondStays, StaysTwice DEF Stays

(* An answer of the address server.  What is acknowledged is a lease that   *)
(* has just been given.                                                     *)
LEMMA DhcpHandlerStays ==
  ASSUME NEW n, NodeOK(n), NEW l, LessorOK(l), NEW d,
         n.remip = "lessor", d.lease = Lease,
         d.type = "ACK" => l.holder = "chip" /\ l.left = Lease
  PROVE Stays(n, DhcpHandler(n, d), l)
<1> DEFINE lease == IF d.lease < LeaseMin THEN LeaseMin
                    ELSE IF d.lease > LeaseMax THEN LeaseMax ELSE d.lease
           offered == [n EXCEPT !.dhcp_hosteth = n.srce, !.dhcp_hostip = n.remip,
                                !.dhcp_newip = d.yiaddr, !.dhcp_state = DHCP_REQUEST]
           bound == [n EXCEPT !.lease_secs = lease, !.dhcp_secs = 0, !.myip = n.dhcp_newip,
                              !.dhcp_state = DHCP_BOUND, !.net_ok = TRUE]
           m == DhcpHandler(n, d)
<1>1. \/ m = n
      \/ m = offered /\ n.dhcp_state = DHCP_DISCOVER
      \/ m = bound /\ d.type = "ACK"
  BY DEF DhcpHandler
<1>2. CASE m = n
  <2>1. Agree(n, n) BY DEF Agree
  <2> QED BY <1>2, <2>1, AgreeKeeps, KeptStays
<1>3. CASE m = offered /\ n.dhcp_state = DHCP_DISCOVER
  <2>1. Constant(n, m) /\ Fields \subseteq DOMAIN m /\ m.dhcp_state = DHCP_REQUEST
        /\ m.dhcp_hostip = "lessor"
    BY <1>3 DEF NodeOK, Fields, Constant
  <2>2. /\ m.tx = n.tx /\ m.txbuff1 = n.txbuff1 /\ m.lease_secs = n.lease_secs
        /\ m.myip = n.myip /\ m.dhcp_secs = n.dhcp_secs /\ m.secdue = n.secdue
        /\ m.arp_resp = n.arp_resp /\ m.remeth = n.remeth
        /\ m.tserver_eth = n.tserver_eth /\ m.tserver_arp_ok = n.tserver_arp_ok
    BY <1>3 DEF NodeOK, Fields
  <2> HIDE DEF m
  <2>3. AllGo(m, m.tx) /\ AllGo(m, m.txbuff1) BY <2>1, <2>2, AllGoSame DEF NodeOK
  <2>4. m.dhcp_state \in DhcpStates BY <2>1 DEF DhcpStates
  <2>5. NodeOK(m) BY <2>1, <2>2, <2>3, <2>4 DEF NodeOK, OnlyTime, Constant
  <2>6. InLease(n, l) => InLease(m, l)
    BY <1>3, <2>1, <2>2
       DEF InLease, DHCP_BOUND, DHCP_RENEWING, DHCP_INIT, DHCP_DISCOVER, DHCP_REQUEST
  <2> QED BY <2>1, <2>5, <2>6 DEF Stays, m
<1>4. CASE m = bound /\ d.type = "ACK"
  <2>1. Constant(n, m) /\ Fields \subseteq DOMAIN m /\ m.dhcp_state = DHCP_BOUND
        /\ m.lease_secs = lease /\ m.dhcp_secs = 0
    BY <1>4 DEF NodeOK, Fields, Constant
  <2>2. /\ m.tx = n.tx /\ m.txbuff1 = n.txbuff1 /\ m.secdue = n.secdue
        /\ m.dhcp_hostip = n.dhcp_hostip /\ m.arp_resp = n.arp_resp /\ m.remeth = n.remeth
        /\ m.tserver_eth = n.tserver_eth /\ m.tserver_arp_ok = n.tserver_arp_ok
    BY <1>4 DEF NodeOK, Fields
  <2>3. lease \in Nat /\ 0 < lease /\ (Long => lease <= Lease)
    BY LimitsAssumption, ChipNetAssumption DEF Long
  <2> HIDE DEF m, lease
  <2>4. AllGo(m, m.tx) /\ AllGo(m, m.txbuff1) BY <2>1, <2>2, AllGoSame DEF NodeOK
  <2>5. m.dhcp_state \in DhcpStates /\ m.dhcp_secs \in Nat /\ m.lease_secs \in Nat
    BY <2>1, <2>3 DEF DhcpStates
  <2>6. NodeOK(m) BY <2>1, <2>2, <2>4, <2>5 DEF NodeOK, OnlyTime, Constant
  <2>7. Long => InLease(m, l)
    BY <1>4, <2>1, <2>2, <2>3, ChipNetAssumption
       DEF InLease, DHCP_BOUND, DHCP_RENEWING, DHCP_INIT, DHCP_DISCOVER, DHCP_REQUEST
  <2> QED BY <2>1, <2>6, <2>7 DEF Stays, m
<1> QED BY <1>1, <1>2, <1>3, <1>4

-----------------------------------------------------------------------------
(* A frame received, and what is polled *)

LEMMA GetNetKeeps ==
  ASSUME NEW n, NodeOK(n), NEW f
  PROVE Kept(n, GetNet(n, f)) /\ ~GetNet(n, f).arp_resp
<1> DEFINE m == GetNet(n, f)
<1>1. Constant(n, m) /\ SameLease(n, m) /\ Fields \subseteq DOMAIN m
  BY DEF GetNet, NodeOK, Fields, Constant, SameLease
<1>2. /\ m.tx = n.tx /\ m.txbuff1 = n.txbuff1 /\ m.dhcp_hostip = n.dhcp_hostip
      /\ m.arp_resp = FALSE /\ m.tserver_eth = n.tserver_eth
      /\ m.tserver_arp_ok = n.tserver_arp_ok
  BY DEF GetNet, NodeOK, Fields
<1>3. AllGo(m, m.tx) /\ AllGo(m, m.txbuff1) BY <1>1, <1>2, AllGoSame DEF NodeOK
<1> QED BY <1>1, <1>2, <1>3 DEF Kept, NodeOK, Constant, SameLease, OnlyTime

LEMMA ArpRecvKeeps ==
  ASSUME NEW n, NodeOK(n), ~n.arp_resp, NEW f, Comes(n, f), f.pcol = "arp"
  PROVE Kept(n, ArpRecv(n, f))
<1> DEFINE m == [n EXCEPT !.remeth = f.src, !.remip = f.sip]
           k == [m EXCEPT !.arp_resp = TRUE]
<1>1. Constant(n, m) /\ SameLease(n, m) /\ Fields \subseteq DOMAIN m
  BY DEF NodeOK, Fields, Constant, SameLease
<1>2. /\ m.tx = n.tx /\ m.txbuff1 = n.txbuff1 /\ m.dhcp_hostip = n.dhcp_hostip
      /\ m.arp_resp = n.arp_resp /\ m.tserver_eth = n.tserver_eth
      /\ m.tserver_arp_ok = n.tserver_arp_ok /\ m.remeth = f.src
  BY DEF NodeOK, Fields
<1>3. \/ ArpRecv(n, f) = m \/ ArpRecv(n, f) = ArpXmit(m, "resp")
      \/ ArpRecv(n, f) = k /\ f.op # "req"
  BY DEF ArpRecv
<1> HIDE DEF m
<1>4. AllGo(m, m.tx) /\ AllGo(m, m.txbuff1) BY <1>1, <1>2, AllGoSame DEF NodeOK
<1>5. Kept(n, m)
  BY <1>1, <1>2, <1>4 DEF Kept, NodeOK, Constant, SameLease, OnlyTime
<1>6. Kept(n, ArpXmit(m, "resp")) BY <1>5, ArpXmitKeeps, KeptTwice DEF Kept
<1>7. ASSUME f.op # "req" PROVE Kept(n, k)
  <2>1. Constant(m, k) /\ SameLease(m, k) /\ Fields \subseteq DOMAIN k
    BY <1>1 DEF Fields, Constant, SameLease
  <2>2. /\ k.tx = m.tx /\ k.txbuff1 = m.txbuff1 /\ k.dhcp_hostip = m.dhcp_hostip
        /\ k.remeth = m.remeth /\ k.tserver_eth = m.tserver_eth
        /\ k.tserver_arp_ok = m.tserver_arp_ok
    BY <1>1 DEF Fields
  <2>3. OnlyTime(n) => m.remeth = Router BY <1>2, <1>7 DEF Comes
  <2> HIDE DEF k
  <2>4. AllGo(k, k.tx) /\ AllGo(k, k.txbuff1) BY <1>4, <2>1, <2>2, AllGoSame
  <2>5. NodeOK(m) BY <1>5 DEF Kept
  <2>6. OnlyTime(k) = OnlyTime(n) /\ OnlyTime(k) = OnlyTime(m)
    BY <1>1, <2>1 DEF Constant, OnlyTime
  <2>7. NodeOK(k)
    BY <2>1, <2>2, <2>3, <2>4, <2>5, <2>6 DEF NodeOK, Constant, SameLease
  <2> QED BY <1>5, <2>1, <2>7, KeptTwice DEF Kept
<1> QED BY <1>3, <1>5, <1>6, <1>7

LEMMA IcmpRecvKeeps ==
  ASSUME NEW n, NodeOK(n), NEW d PROVE Kept(n, IcmpRecv(n, d))
<1>1. Agree(n, n) BY DEF Agree
<1>2. Kept(n, n) BY <1>1, AgreeKeeps
<1>3. Kept(n, PutIp(n, "icmp", [d EXCEPT !.type = "reply"])) BY PutIpKeeps
<1>4. IcmpRecv(n, d) \in {n, PutIp(n, "icmp", [d EXCEPT !.type = "reply"])}
  BY DEF IcmpRecv
<1> QED BY <1>2, <1>3, <1>4

LEMMA UdpRecvStays ==
  ASSUME NEW n0, NodeOK(n0), NEW l, LessorOK(l), NEW d,
         d.dport = DHCPCLIENT_PORT =>
           /\ n0.remip = "lessor" /\ d.data.lease = Lease
           /\ d.data.type = "ACK" => l.holder = "chip" /\ l.left = Lease
  PROVE Stays(n0, UdpRecv(n0, d), l)
<1> DEFINE k == [n0 EXCEPT !.remport = d.sport, !.locport = d.dport]
           n == InitTxbuff(k, 0)
           t == [n EXCEPT !.time = d.data]
<1>1. Agree(n0, k) BY DEF Agree, Relevant
<1>2. Kept(n0, k) BY <1>1, AgreeKeeps
<1>3. n.locport = d.dport /\ n.remip = n0.remip BY DEF InitTxbuff, NodeOK, Fields
<1>4. \/ UdpRecv(n0, d) = UdpXmit(n, d.data) /\ d.dport = ECHOPORT
      \/ UdpRecv(n0, d) = UdpXmit(n, "daytime") /\ d.dport = DAYPORT
      \/ UdpRecv(n0, d) = DhcpHandler(n, d.data) /\ d.dport = DHCPCLIENT_PORT
      \/ UdpRecv(n0, d) = t
      \/ UdpRecv(n0, d) = n
  BY DEF UdpRecv
<1> HIDE DEF k
<1>5. Kept(n0, n) BY <1>2, InitTxbuffKeeps, KeptTwice DEF Kept
<1> HIDE DEF n
<1>6. NodeOK(n) /\ Stays(n0, n, l) BY <1>5, KeptStays DEF Kept
<1>7. Agree(n, t) BY DEF Agree, Relevant
<1>8. Stays(n, t, l) BY <1>6, <1>7, AgreeKeeps, KeptStays
<1> HIDE DEF t
<1>9. CASE UdpRecv(n0, d) = UdpXmit(n, d.data) /\ d.dport = ECHOPORT
  <2>1. n.locport # DHCPCLIENT_PORT BY <1>3, <1>9 DEF ECHOPORT, DHCPCLIENT_PORT
  <2> QED BY <1>6, <1>9, <2>1, UdpXmitKeeps, KeptStays, StaysTwice
<1>10. CASE UdpRecv(n0, d) = UdpXmit(n, "daytime") /\ d.dport = DAYPORT
  <2>1. n.locport # DHCPCLIENT_PORT BY <1>3, <1>10 DEF DAYPORT, DHCPCLIENT_PORT
  <2> QED BY <1>6, <1>10, <2>1, UdpXmitKeeps, KeptStays, StaysTwice
<1>11. CASE UdpRecv(n0, d) = DhcpHandler(n, d.data) /\ d.dport = DHCPCLIENT_PORT
  <2>1. Stays(n, DhcpHandler(n, d.data), l) BY <1>3, <1>6, <1>11, DhcpHandlerStays
  <2> QED BY <1>6, <1>11, <2>1, StaysTwice
<1> QED BY <1>4, <1>6, <1>8, <1>9, <1>10, <1>11, StaysTwice

LEMMA ReceiveStays ==
  ASSUME NEW n, NodeOK(n), NEW l, LessorOK(l), NEW f, Comes(n, f),
         IsAck(f) => l.holder = "chip" /\ l.left = Lease
  PROVE Stays(n, Receive(n, f), l)
<1> DEFINE g == GetNet(n, f)
           m == InitTxbuff(g, 0)
           ip == IpRecv(m, f)
<1>1. Kept(n, g) /\ ~g.arp_resp BY GetNetKeeps
<1>2. \/ Receive(n, f) = ArpRecv(m, f) /\ f.pcol = "arp"
      \/ Receive(n, f) \in {ip, IcmpRecv(ip, f.body), TcpRecv(ip, f.body)}
      \/ Receive(n, f) = UdpRecv(ip, f.body) /\ f.pcol = "ip" /\ f.prot = "udp"
  BY DEF Receive, Comes
<1> HIDE DEF g
<1>3. Kept(g, m) /\ Agree(g, m) BY <1>1, InitTxbuffKeeps DEF Kept
<1>4. Kept(n, m) /\ ~m.arp_resp BY <1>1, <1>3, KeptTwice DEF Agree, Relevant
<1>5. NodeOK(m) BY <1>4 DEF Kept
<1> HIDE DEF m
<1>6. Agree(m, ip) /\ ip.remip = f.sip BY <1>5 DEF IpRecv, Agree, Relevant, NodeOK, Fields
<1>7. Kept(n, ip) BY <1>4, <1>5, <1>6, AgreeKeeps, KeptTwice
<1>8. NodeOK(ip) BY <1>7 DEF Kept
<1> HIDE DEF ip
<1>9. Comes(m, f) BY <1>4 DEF Kept, Comes, OnlyTime, Constant
<1>10. CASE Receive(n, f) = ArpRecv(m, f) /\ f.pcol = "arp"
  BY <1>4, <1>5, <1>9, <1>10, ArpRecvKeeps, KeptTwice, KeptStays
<1>11. CASE Receive(n, f) \in {ip, IcmpRecv(ip, f.body), TcpRecv(ip, f.body)}
  BY <1>7, <1>8, <1>11, IcmpRecvKeeps, TcpRecvKeeps, KeptTwice, KeptStays
<1>12. CASE Receive(n, f) = UdpRecv(ip, f.body) /\ f.pcol = "ip" /\ f.prot = "udp"
  <2>1. f.body.dport = DHCPCLIENT_PORT =>
           /\ ip.remip = "lessor" /\ f.body.data.lease = Lease
           /\ f.body.data.type = "ACK" => l.holder = "chip" /\ l.left = Lease
    BY <1>6, <1>12 DEF Comes, ForDhcp, IsAck
  <2>2. Stays(ip, UdpRecv(ip, f.body), l) BY <1>8, <2>1, UdpRecvStays
  <2> QED BY <1>7, <1>12, <2>2, KeptStays, StaysTwice
<1> QED BY <1>2, <1>10, <1>11, <1>12

LEMMA PollStays ==
  ASSUME NEW n, NodeOK(n), NEW l, LessorOK(l), NEW expired, NEW pressed \in BOOLEAN,
         pressed => n.mailport # 0
  PROVE Stays(n, Poll(n, expired, pressed), l)
<1> DEFINE n1 == IF "dhcp" \in n.incl THEN CheckDhcp(n, "dhcp" \in expired) ELSE n
           n2 == IF "time" \in n.incl THEN CheckTime(n1, "time" \in expired) ELSE n1
           n3 == IF n.mailport # 0 THEN CheckClient(n2, "client" \in expired) ELSE n2
<1>1. Agree(n, n) BY DEF Agree
<1>2. Stays(n, n, l) BY <1>1, AgreeKeeps, KeptStays
<1>13. ("dhcp" \in expired) \in BOOLEAN /\ ("time" \in expired) \in BOOLEAN
       /\ ("client" \in expired) \in BOOLEAN
  OBVIOUS
<1>3. Stays(n, n1, l) BY <1>2, <1>13, CheckDhcpStays
<1>4. Poll(n, expired, pressed) = IF pressed THEN StartClient(n3, n.mailport) ELSE n3
  BY DEF Poll
<1> HIDE DEF n1
<1>5. NodeOK(n1) /\ n1.incl = n.incl /\ n1.mailport = n.mailport
  BY <1>3 DEF Stays, Constant
<1>6. "time" \in n.incl => Stays(n1, CheckTime(n1, "time" \in expired), l)
  BY <1>5, <1>13, CheckTimeKeeps, KeptStays
<1>7. Stays(n, n2, l) BY <1>3, <1>6, StaysTwice
<1> HIDE DEF n2
<1>8. NodeOK(n2) /\ n2.mailport = n.mailport BY <1>7 DEF Stays, Constant
<1>9. n.mailport # 0 => Stays(n2, CheckClient(n2, "client" \in expired), l)
  BY <1>8, <1>13, CheckClientKeeps, KeptStays
<1>10. Stays(n, n3, l) BY <1>7, <1>9, StaysTwice
<1> HIDE DEF n3
<1>11. NodeOK(n3) /\ n3.mailport = n.mailport BY <1>10 DEF Stays, Constant
<1>12. pressed => Stays(n3, StartClient(n3, n.mailport), l)
  BY <1>11, StartClientKeeps, KeptStays
<1> QED BY <1>4, <1>10, <1>12, StaysTwice

-----------------------------------------------------------------------------
(* The frames under way *)

(* Frames that come in, with what an acknowledgement among them says.       *)
Arrive(n, l, s) == AllCome(n, s) /\ AcksFresh(s, l)

LEMMA ArriveNone == ASSUME NEW n, NEW l PROVE Arrive(n, l, <<>>)
  BY EmptyIsSeq DEF Arrive, AllCome, AcksFresh

LEMMA ArriveOne ==
  ASSUME NEW n, NEW l, NEW f, Comes(n, f),
         IsAck(f) => l.holder = "chip" /\ l.left = Lease
  PROVE Arrive(n, l, <<f>>)
<1>1. IsSeq(<<f>>) /\ \A i \in DOMAIN <<f>> : <<f>>[i] = f BY OneIsSeq
<1> QED BY <1>1, Zenon DEF Arrive, AllCome, AcksFresh

LEMMA ArriveBoth ==
  ASSUME NEW n, NEW l, NEW s, NEW t, Arrive(n, l, s), Arrive(n, l, t)
  PROVE Arrive(n, l, s \o t)
<1>1. IsSeq(s) /\ IsSeq(t) BY DEF Arrive, AllCome
<1>2. IsSeq(s \o t) BY <1>1, Concat
<1> DEFINE Fit(f) == Comes(n, f) /\ (IsAck(f) => l.holder = "chip" /\ l.left = Lease)
<1>4. (\A i \in DOMAIN s : Fit(s[i])) /\ (\A i \in DOMAIN t : Fit(t[i]))
  BY DEF Arrive, AllCome, AcksFresh
<1> HIDE DEF Fit
<1>5. ASSUME NEW i \in DOMAIN (s \o t) PROVE Fit((s \o t)[i])
  <2>1. CASE \E j \in DOMAIN s : (s \o t)[i] = s[j]
    <3>1. PICK j \in DOMAIN s : (s \o t)[i] = s[j] BY <2>1
    <3> QED BY <1>4, <3>1, Zenon
  <2>2. CASE \E j \in DOMAIN t : (s \o t)[i] = t[j]
    <3>1. PICK j \in DOMAIN t : (s \o t)[i] = t[j] BY <2>2
    <3> QED BY <1>4, <3>1, Zenon
  <2> QED BY <1>1, <2>1, <2>2, InConcat
<1> QED BY <1>2, <1>5 DEF Arrive, AllCome, AcksFresh, Fit

LEMMA ArriveTail ==
  ASSUME NEW n, NEW l, NEW s, s # <<>>, Arrive(n, l, s)
  PROVE /\ Arrive(n, l, Tail(s)) /\ Comes(n, Head(s))
        /\ IsAck(Head(s)) => l.holder = "chip" /\ l.left = Lease
<1>1. IsSeq(s) BY DEF Arrive, AllCome
<1>2. 1 \in DOMAIN s /\ Head(s) = s[1] /\ IsSeq(Tail(s))
      /\ \A i \in DOMAIN Tail(s) : i + 1 \in DOMAIN s /\ Tail(s)[i] = s[i + 1]
  BY <1>1, HeadTail
<1> QED BY <1>2 DEF Arrive, AllCome, AcksFresh

LEMMA GoTail ==
  ASSUME NEW n, NEW s, s # <<>>, AllGo(n, s)
  PROVE AllGo(n, Tail(s)) /\ Goes(n, Head(s))
<1>1. IsSeq(s) BY DEF AllGo
<1>2. 1 \in DOMAIN s /\ Head(s) = s[1] /\ IsSeq(Tail(s))
      /\ \A i \in DOMAIN Tail(s) : i + 1 \in DOMAIN s /\ Tail(s)[i] = s[i + 1]
  BY <1>1, HeadTail
<1> QED BY <1>2 DEF AllGo

(* A node that keeps what it was built with lets the same frames come.      *)
LEMMA ArriveSame ==
  ASSUME NEW n, NEW m, Constant(n, m), NEW l, NEW s, Arrive(n, l, s)
  PROVE Arrive(m, l, s)
  BY DEF Arrive, AllCome, Comes, OnlyTime, Constant

(* The card takes frames or drops them.                                     *)
LEMMA PutArrives ==
  ASSUME NEW n, NEW l, Arrive(n, l, ring), NEW frames, Arrive(n, l, frames), Put(frames)
  PROVE Arrive(n, l, ring')
<1>1. ring' = ring \/ ring' = ring \o frames BY DEF Put
<1> QED BY <1>1, ArriveBoth

(* What the two TCP stations send is neither for the address client nor an  *)
(* answer to a request for a hardware address.                              *)
LEMMA TcpComes ==
  ASSUME NEW n, NEW l, NEW s
  PROVE Arrive(n, l, <<FromMail(s)>>) /\ Arrive(n, l, <<FromWeb("tcp", s)>>)
<1>1. Comes(n, FromMail(s)) /\ ~IsAck(FromMail(s))
  BY DEF FromMail, Comes, ForDhcp, IsAck
<1>2. Comes(n, FromWeb("tcp", s)) /\ ~IsAck(FromWeb("tcp", s))
  BY DEF FromWeb, Comes, ForDhcp, IsAck
<1> QED BY <1>1, <1>2, ArriveOne

LEMMA ReplyIsShort ==
  ASSUME NEW p, NEW q, NEW s
  PROVE PeerReply(p, q, s) = <<>> \/ \E x : PeerReply(p, q, s) = <<x>>
  BY DEF PeerReply

LEMMA MailEach ==
  ASSUME NEW n, NEW l, NEW seq, seq = <<>> \/ \E x : seq = <<x>>
  PROVE Arrive(n, l, Each(FromMail, seq))
<1>1. CASE seq = <<>>
  <2>1. Each(FromMail, seq) = <<>> BY <1>1 DEF Each
  <2> QED BY <2>1, ArriveNone
<1>2. CASE \E x : seq = <<x>>
  <2>1. PICK x : seq = <<x>> BY <1>2
  <2>2. Each(FromMail, seq) = <<FromMail(x)>> BY <2>1 DEF Each
  <2> QED BY <2>2, TcpComes
<1> QED BY <1>1, <1>2

LEMMA WebEach ==
  ASSUME NEW n, NEW l, NEW seq, seq = <<>> \/ \E x : seq = <<x>>
  PROVE Arrive(n, l, Each(LAMBDA b : FromWeb("tcp", b), seq))
<1>1. CASE seq = <<>>
  <2>1. Each(LAMBDA b : FromWeb("tcp", b), seq) = <<>> BY <1>1 DEF Each
  <2> QED BY <2>1, ArriveNone
<1>2. CASE \E x : seq = <<x>>
  <2>1. PICK x : seq = <<x>> BY <1>2
  <2>2. Each(LAMBDA b : FromWeb("tcp", b), seq) = <<FromWeb("tcp", x)>> BY <2>1 DEF Each
  <2> QED BY <2>2, TcpComes
<1> QED BY <1>1, <1>2

-----------------------------------------------------------------------------
(* The steps.  Each keeps the invariant and what the node was built with.   *)

Holds == LeaseInv' /\ Constant(chip, chip')

(* A step of which the node and the address server know nothing.            *)
LEMMA OutsideHolds ==
  ASSUME LeaseInv, chip' = chip, lessor' = lessor,
         AllGo(chip, wire'), Arrive(chip, lessor, ring')
  PROVE Holds
<1>1. Constant(chip, chip') BY DEF Constant
<1>2. AllCome(chip, ring') /\ AcksFresh(ring', lessor) BY DEF Arrive
<1> QED BY <1>1, <1>2 DEF Holds, LeaseInv

(* A frame is taken from the wire, and answered or not.                     *)
LEMMA AnswerHolds ==
  ASSUME LeaseInv, chip' = chip, lessor' = lessor, NEW f, Arrives(f),
         NEW frames, Arrive(chip, lessor, frames),
         Put(frames) \/ ring' = ring
  PROVE Holds
<1>1. wire # <<>> /\ wire' = Tail(wire) BY DEF Arrives
<1>2. AllGo(chip, wire') BY <1>1, GoTail DEF LeaseInv
<1>3. Arrive(chip, lessor, ring) BY DEF LeaseInv, Arrive
<1>4. Arrive(chip, lessor, ring') BY <1>3, PutArrives
<1> QED BY <1>2, <1>4, OutsideHolds

(* A frame of its own is sent by a station.                                 *)
LEMMA SendHolds ==
  ASSUME LeaseInv, chip' = chip, lessor' = lessor, wire' = wire,
         NEW frames, Arrive(chip, lessor, frames), Put(frames) \/ ring' = frames
  PROVE Holds
<1>1. AllGo(chip, wire') BY DEF LeaseInv
<1>2. Arrive(chip, lessor, ring) BY DEF LeaseInv, Arrive
<1>3. Arrive(chip, lessor, ring') BY <1>2, PutArrives
<1> QED BY <1>1, <1>3, OutsideHolds

(* Neither the card nor the wire is touched.                                *)
LEMMA AsideHolds ==
  ASSUME LeaseInv, chip' = chip, lessor' = lessor, wire' = wire, ring' = ring
  PROVE Holds
<1>1. AllGo(chip, wire') /\ Arrive(chip, lessor, ring') BY DEF LeaseInv, Arrive
<1> QED BY <1>1, OutsideHolds

(* The frame that an action takes is at the head of the wire.               *)
LEMMA HeadGoes ==
  ASSUME LeaseInv, NEW f, Arrives(f) PROVE Goes(chip, f)
  BY GoTail DEF LeaseInv, Arrives

LEMMA ArpAnswerHolds == LeaseInv /\ ArpAnswer => Holds
<1> SUFFICES ASSUME LeaseInv, ArpAnswer PROVE Holds OBVIOUS
<1> DEFINE r(f) == [dst |-> "chip", src |-> f.tip, pcol |-> "arp", op |-> "resp",
                    sip |-> f.tip, tip |-> f.sip]
<1>1. PICK f : Arrives(f) /\ f.pcol = "arp" /\ f.op = "req" /\ Put(<<r(f)>>)
               /\ chip' = chip /\ lessor' = lessor
  BY DEF ArpAnswer
<1>2. Goes(chip, f) BY <1>1, HeadGoes
<1>3. Comes(chip, r(f)) /\ ~IsAck(r(f))
  BY <1>1, <1>2 DEF Goes, Comes, ForDhcp, IsAck
<1> HIDE DEF r
<1>4. Arrive(chip, lessor, <<r(f)>>) BY <1>3, ArriveOne
<1> QED BY <1>1, <1>4, AnswerHolds

LEMMA MailHolds == LeaseInv /\ (MailAccept \/ MailReceive \/ MailSend \/ MailResend) => Holds
<1> SUFFICES ASSUME LeaseInv, MailAccept \/ MailReceive \/ MailSend \/ MailResend
             PROVE Holds
  OBVIOUS
<1>1. CASE MailAccept
  <2>1. PICK f : Arrives(f) /\ ring' = ring /\ chip' = chip /\ lessor' = lessor
    BY <1>1, ZenonT(30) DEF MailAccept
  <2> QED BY <2>1, ArriveNone, AnswerHolds
<1>2. CASE MailReceive
  <2>1. PICK f, p :
          /\ Arrives(f) /\ chip' = chip /\ lessor' = lessor
          /\ \/ Put(Each(FromMail, PeerReply(mail, p, f.body)))
             \/ Put(Each(FromMail, <<Reset(mail, f.body)>>))
    BY <1>2 DEF MailReceive
  <2>2. PICK seq : Put(Each(FromMail, seq)) /\ (seq = <<>> \/ \E x : seq = <<x>>)
    BY <2>1, ReplyIsShort
  <2> QED BY <2>1, <2>2, MailEach, AnswerHolds
<1>3. CASE MailSend
  <2>1. PICK s : Put(<<FromMail(s)>>) /\ chip' = chip /\ lessor' = lessor /\ wire' = wire
    BY <1>3 DEF MailSend
  <2> QED BY <2>1, TcpComes, SendHolds
<1>4. CASE MailResend
  <2>1. PICK s : ring' = <<FromMail(s)>> /\ chip' = chip /\ lessor' = lessor /\ wire' = wire
    BY <1>4 DEF MailResend
  <2> QED BY <2>1, TcpComes, SendHolds
<1> QED BY <1>1, <1>2, <1>3, <1>4

LEMMA WebHolds == LeaseInv /\ (WebOpen \/ WebReceive \/ WebSend \/ WebResend) => Holds
<1> SUFFICES ASSUME LeaseInv, WebOpen \/ WebReceive \/ WebSend \/ WebResend
             PROVE Holds
  OBVIOUS
<1>1. CASE WebOpen BY <1>1, AsideHolds DEF WebOpen
<1>2. CASE WebReceive
  <2>1. PICK f, p :
          /\ Arrives(f) /\ chip' = chip /\ lessor' = lessor
          /\ \/ Put(Each(LAMBDA b : FromWeb("tcp", b), PeerReply(web, p, f.body)))
             \/ Put(Each(LAMBDA b : FromWeb("tcp", b), <<Reset(web, f.body)>>))
    BY <1>2 DEF WebReceive
  <2>2. PICK seq : Put(Each(LAMBDA b : FromWeb("tcp", b), seq)) /\ (seq = <<>> \/ \E x : seq = <<x>>)
    BY <2>1, ReplyIsShort
  <2> QED BY <2>1, <2>2, WebEach, AnswerHolds
<1>3. CASE WebSend
  <2>1. PICK s : Put(<<FromWeb("tcp", s)>>) /\ chip' = chip /\ lessor' = lessor /\ wire' = wire
    BY <1>3 DEF WebSend
  <2> QED BY <2>1, TcpComes, SendHolds
<1>4. CASE WebResend
  <2>1. PICK s : ring' = <<FromWeb("tcp", s)>> /\ chip' = chip /\ lessor' = lessor
                 /\ wire' = wire
    BY <1>4 DEF WebResend
  <2> QED BY <2>1, TcpComes, SendHolds
<1> QED BY <1>1, <1>2, <1>3, <1>4

LEMMA ProbeHolds == LeaseInv /\ Probe => Holds
<1> SUFFICES ASSUME LeaseInv, Probe PROVE Holds OBVIOUS
<1>1. PICK f \in Probes : Put(<<f>>) /\ chip' = chip /\ lessor' = lessor /\ wire' = wire
  BY DEF Probe
<1>2. Comes(chip, f) /\ ~IsAck(f)
  BY <1>1 DEF Probes, FromWeb, Comes, ForDhcp, IsAck, ECHOPORT, DHCPCLIENT_PORT
<1>3. Arrive(chip, lessor, <<f>>) BY <1>2, ArriveOne
<1> QED BY <1>1, <1>3, SendHolds

(* The time server answers the port that asked, which is not that of the    *)
(* address client.                                                          *)
LEMMA TimeAnswerHolds == LeaseInv /\ TimeAnswer => Holds
<1> SUFFICES ASSUME LeaseInv, TimeAnswer PROVE Holds OBVIOUS
<1> DEFINE r(f) == [dst |-> "chip", src |-> Mac(chip, "time"), pcol |-> "ip", sip |-> "time",
                    dip |-> f.sip, prot |-> "udp",
                    body |-> [sport |-> f.body.dport, dport |-> f.body.sport, data |-> "time"]]
<1>1. PICK f : Arrives(f) /\ For(f, "time", "udp") /\ Put(<<r(f)>>)
               /\ chip' = chip /\ lessor' = lessor
  BY DEF TimeAnswer
<1>2. Goes(chip, f) BY <1>1, HeadGoes
<1>3. f.body.sport # DHCPCLIENT_PORT BY <1>1, <1>2 DEF Goes, For, All, Null
<1>4. Comes(chip, r(f)) /\ ~IsAck(r(f)) BY <1>3 DEF Comes, ForDhcp, IsAck
<1> HIDE DEF r
<1>5. Arrive(chip, lessor, <<r(f)>>) BY <1>4, ArriveOne
<1> QED BY <1>1, <1>5, AnswerHolds

LEMMA IgnoreHolds == LeaseInv /\ Ignore => Holds
<1> SUFFICES ASSUME LeaseInv, Ignore PROVE Holds OBVIOUS
<1>1. PICK f : Arrives(f) /\ ring' = ring /\ chip' = chip /\ lessor' = lessor
  BY DEF Ignore
<1> QED BY <1>1, ArriveNone, AnswerHolds

LEMMA LoseHolds == LeaseInv /\ Lose => Holds
<1> SUFFICES ASSUME LeaseInv, Lose PROVE Holds OBVIOUS
<1>1. chip' = chip /\ lessor' = lessor BY DEF Lose
<1>2. AllGo(chip, wire) /\ Arrive(chip, lessor, ring) BY DEF LeaseInv, Arrive
<1>3. CASE ring # <<>> /\ ring' = Tail(ring) /\ wire' = wire
  BY <1>1, <1>2, <1>3, ArriveTail, OutsideHolds
<1>4. CASE wire # <<>> /\ wire' = Tail(wire) /\ ring' = ring
  BY <1>1, <1>2, <1>4, GoTail, OutsideHolds
<1> QED BY <1>3, <1>4 DEF Lose

(* What the address server sends.                                           *)
LEMMA LeaseReplyComes ==
  ASSUME NEW n, NEW l, NEW to, NEW type,
         type = "ACK" => l.holder = "chip" /\ l.left = Lease
  PROVE Arrive(n, l, <<LeaseReply(type, to)>>)
<1>1. Comes(n, LeaseReply(type, to)) BY DEF LeaseReply, Comes, ForDhcp
<1>2. IsAck(LeaseReply(type, to)) => type = "ACK" BY DEF LeaseReply, IsAck, ForDhcp
<1> QED BY <1>1, <1>2, ArriveOne

(* The address server gives the lease when it acknowledges.                 *)
LEMMA AckHolds ==
  ASSUME LeaseInv, NEW f, Arrives(f), chip' = chip, NEW to,
         lessor.holder # "other", Put(<<LeaseReply("ACK", to)>>),
         lessor' = [holder |-> "chip", left |-> Lease]
  PROVE Holds
<1>1. AllGo(chip, wire') BY GoTail DEF Arrives, LeaseInv
<1>2. lessor'.holder = "chip" /\ lessor'.left = Lease /\ LessorOK(lessor')
  BY ChipNetAssumption DEF LessorOK
<1>3. Arrive(chip, lessor', <<LeaseReply("ACK", to)>>) BY <1>2, LeaseReplyComes
<1>4. Arrive(chip, lessor', ring) BY <1>2 DEF LeaseInv, Arrive, AcksFresh
<1>5. Arrive(chip, lessor', ring') BY <1>3, <1>4, PutArrives
<1>6. InLease(chip, lessor) => InLease(chip, lessor')
  <2>1. lessor.left \in Nat /\ lessor.left <= Lease BY DEF LeaseInv, LessorOK
  <2>2. PICK x \in Nat, d \in Nat, e \in Nat :
          lessor.left = x /\ chip.dhcp_secs = d /\ chip.lease_secs = e
    BY <2>1 DEF LeaseInv, NodeOK
  <2> QED BY <1>2, <2>1, <2>2, ChipNetAssumption DEF InLease
<1>7. Constant(chip, chip') BY DEF Constant
<1>8. AllCome(chip, ring') /\ AcksFresh(ring', lessor') BY <1>5 DEF Arrive
<1> QED BY <1>1, <1>2, <1>6, <1>7, <1>8 DEF Holds, LeaseInv

LEMMA LessorReceiveHolds == LeaseInv /\ LessorReceive => Holds
<1> SUFFICES ASSUME LeaseInv, LessorReceive PROVE Holds OBVIOUS
<1>1. PICK f, to :
        /\ Arrives(f) /\ chip' = chip
        /\ \/ lessor' = lessor /\ (Put(<<LeaseReply("OFFER", to)>>) \/ ring' = ring)
           \/ /\ Put(<<LeaseReply(IF lessor.holder # "other" THEN "ACK" ELSE "NAK", to)>>)
              /\ lessor' = IF lessor.holder # "other"
                           THEN [holder |-> "chip", left |-> Lease] ELSE lessor
  BY DEF LessorReceive
<1>2. Arrives(f) /\ chip' = chip BY <1>1
<1>3. CASE lessor' = lessor /\ (Put(<<LeaseReply("OFFER", to)>>) \/ ring' = ring)
  <2>1. Arrive(chip, lessor, <<LeaseReply("OFFER", to)>>) BY LeaseReplyComes
  <2> QED BY <1>2, <1>3, <2>1, AnswerHolds
<1>4. CASE lessor' = lessor /\ Put(<<LeaseReply("NAK", to)>>)
  <2>1. Arrive(chip, lessor, <<LeaseReply("NAK", to)>>) BY LeaseReplyComes
  <2> QED BY <1>2, <1>4, <2>1, AnswerHolds
<1>5. CASE /\ lessor.holder # "other" /\ Put(<<LeaseReply("ACK", to)>>)
           /\ lessor' = [holder |-> "chip", left |-> Lease]
  BY <1>2, <1>5, AckHolds
<1> QED BY <1>1, <1>3, <1>4, <1>5

LEMMA OtherHostHolds == LeaseInv /\ OtherHost => Holds
<1> SUFFICES ASSUME LeaseInv, OtherHost PROVE Holds OBVIOUS
<1>1. lessor.holder # "chip" /\ lessor'.holder # "chip" /\ LessorOK(lessor')
  BY DEF OtherHost, LeaseInv, LessorOK
<1>2. chip' = chip /\ ring' = ring /\ wire' = wire BY DEF OtherHost
<1>3. AcksFresh(ring', lessor') BY <1>1, <1>2 DEF LeaseInv, AcksFresh
<1>4. InLease(chip, lessor) => InLease(chip, lessor') BY <1>1 DEF InLease
<1>5. Constant(chip, chip') BY <1>2 DEF Constant
<1> QED BY <1>1, <1>2, <1>3, <1>4, <1>5 DEF Holds, LeaseInv

(* A second less is left of the lease, and the node has one more to count.  *)
LEMMA SecondHolds == LeaseInv /\ Second => Holds
<1> SUFFICES ASSUME LeaseInv, Second PROVE Holds OBVIOUS
<1>1. ring = <<>> /\ wire = <<>> /\ ring' = ring /\ wire' = wire /\ ~chip.secdue
      /\ (lessor.holder = "chip" => lessor.left > 0)
  BY DEF Second, Quiet
<1>2. NodeOK(chip) /\ LessorOK(lessor) BY DEF LeaseInv
<1>3. DOMAIN chip' = DOMAIN chip /\ chip'.secdue = TRUE
      /\ \A x \in Relevant \ {"secdue"} : chip'[x] = chip[x]
  BY <1>2 DEF Second, NodeOK, Fields, Relevant
<1>4. Constant(chip, chip') BY <1>3 DEF Constant, Relevant
<1>5. AllGo(chip', chip'.tx) /\ AllGo(chip', chip'.txbuff1)
  BY <1>2, <1>3, <1>4, AllGoSame DEF NodeOK, Relevant
<1>6. NodeOK(chip')
  <2>1. chip'.dhcp_secs \in Nat /\ chip'.lease_secs \in Nat /\ chip'.dhcp_state \in DhcpStates
    BY <1>2, <1>3 DEF NodeOK, Relevant
  <2>2. OnlyTime(chip') = OnlyTime(chip) BY <1>4 DEF OnlyTime, Constant
  <2> QED BY <1>2, <1>3, <1>5, <2>1, <2>2 DEF NodeOK, Relevant
<1>7. PICK x \in Nat, d \in Nat, e \in Nat :
        lessor.left = x /\ chip.dhcp_secs = d /\ chip.lease_secs = e /\ x <= Lease
  BY <1>2 DEF NodeOK, LessorOK
<1>8. lessor'.holder = lessor.holder /\ lessor'.left = (IF x > 0 THEN x - 1 ELSE 0)
      /\ DOMAIN lessor' = DOMAIN lessor
  BY <1>2, <1>7 DEF Second, LessorOK
<1>9. lessor'.left \in Nat /\ lessor'.left <= Lease BY <1>7, <1>8, ChipNetAssumption
<1>10. LessorOK(lessor') BY <1>2, <1>8, <1>9 DEF LessorOK
<1>11. chip'.dhcp_secs = d /\ chip'.lease_secs = e /\ chip'.dhcp_state = chip.dhcp_state
       /\ chip'.myip = chip.myip
  BY <1>3, <1>7 DEF Relevant
<1>12. InLease(chip, lessor) => InLease(chip', lessor')
  BY <1>1, <1>3, <1>7, <1>8, <1>11 DEF InLease
<1>13. Arrive(chip', lessor', ring') /\ AllGo(chip', wire')
  BY <1>1, ArriveNone, EmptyIsSeq DEF AllGo
<1>14. chip'.incl = chip.incl BY <1>4 DEF Constant
<1> QED BY <1>4, <1>6, <1>10, <1>12, <1>13, <1>14 DEF Holds, LeaseInv, Arrive

(* When a lease ends at the server the node has already given it up.        *)
LEMMA LeaseEndsHolds == LeaseInv /\ LeaseEnds => Holds
<1> SUFFICES ASSUME LeaseInv, LeaseEnds PROVE Holds OBVIOUS
<1>1. chip' = chip /\ ring = <<>> /\ wire' = wire /\ ring' = ring
  BY DEF LeaseEnds, Quiet
<1>2. LessorOK(lessor') /\ lessor'.holder = "none" BY DEF LeaseEnds, LeaseInv, LessorOK
<1>3. Arrive(chip', lessor', ring') /\ AllGo(chip', wire')
  BY <1>1, ArriveNone DEF LeaseInv
<1>4. InLease(chip, lessor) => InLease(chip, lessor')
  <2>1. PICK d \in Nat, e \in Nat : chip.dhcp_secs = d /\ chip.lease_secs = e
    BY DEF LeaseInv, NodeOK
  <2> QED BY <2>1 DEF InLease, LeaseEnds
<1>5. Constant(chip, chip') BY <1>1 DEF Constant
<1> QED BY <1>1, <1>2, <1>3, <1>4, <1>5 DEF Holds, LeaseInv, Arrive

(* At the end of a pass what was sent is gone from the node.                *)
LEMMA EmptiedStays ==
  ASSUME NEW n, NodeOK(n), NEW x, NEW l PROVE Stays(n, [n EXCEPT !.tx = <<>>, !.shown = x], l)
<1> DEFINE m == [n EXCEPT !.tx = <<>>, !.shown = x]
<1>1. Constant(n, m) /\ SameLease(n, m) /\ Fields \subseteq DOMAIN m
  BY DEF NodeOK, Fields, Constant, SameLease
<1>2. /\ m.tx = <<>> /\ m.txbuff1 = n.txbuff1 /\ m.dhcp_hostip = n.dhcp_hostip
      /\ m.arp_resp = n.arp_resp /\ m.remeth = n.remeth /\ m.tserver_eth = n.tserver_eth
      /\ m.tserver_arp_ok = n.tserver_arp_ok
  BY DEF NodeOK, Fields
<1>3. AllGo(m, m.txbuff1) BY <1>1, <1>2, AllGoSame DEF NodeOK
<1>4. AllGo(m, m.tx) BY <1>2, EmptyIsSeq DEF AllGo
<1> HIDE DEF m
<1>5. NodeOK(m) BY <1>1, <1>2, <1>3, <1>4 DEF NodeOK, Constant, SameLease, OnlyTime
<1> QED BY <1>1, <1>5, KeptStays DEF Kept, m

LEMMA PassHolds ==
  ASSUME LeaseInv, NEW expired, NEW pressed \in BOOLEAN, pressed => chip.mailport # 0,
         Pass(expired, pressed), lessor' = lessor
  PROVE Holds
<1> DEFINE polled == Poll(chip, expired, pressed)
           n == IF overrun \/ ring = <<>> THEN polled ELSE Receive(polled, Head(ring))
<1>1. /\ chip' = [n EXCEPT !.tx = <<>>, !.shown = IF pressed THEN <<>> ELSE @]
      /\ wire' = wire \o n.tx
      /\ ring' = IF overrun \/ ring = <<>> THEN <<>> ELSE Tail(ring)
  BY DEF Pass, InitNet
<1>2. NodeOK(chip) /\ LessorOK(lessor) /\ AllGo(chip, wire) /\ Arrive(chip, lessor, ring)
  BY DEF LeaseInv, Arrive
<1>3. Stays(chip, polled, lessor) BY <1>2, PollStays
<1> HIDE DEF polled
<1>4. ASSUME ring # <<>> PROVE Stays(polled, Receive(polled, Head(ring)), lessor)
  <2>1. NodeOK(polled) /\ Arrive(polled, lessor, ring)
    BY <1>2, <1>3, ArriveSame DEF Stays
  <2>2. /\ Comes(polled, Head(ring))
        /\ IsAck(Head(ring)) => lessor.holder = "chip" /\ lessor.left = Lease
    BY <1>4, <2>1, ArriveTail
  <2> QED BY <1>2, <2>1, <2>2, ReceiveStays
<1>5. Stays(chip, n, lessor) BY <1>3, <1>4, StaysTwice
<1> HIDE DEF n
<1>6. PICK x : chip' = [n EXCEPT !.tx = <<>>, !.shown = x] BY <1>1
<1>7. Stays(n, chip', lessor) BY <1>5, <1>6, EmptiedStays DEF Stays
<1>8. Stays(chip, chip', lessor) BY <1>5, <1>7, StaysTwice
<1>9. AllGo(n, n.tx) /\ AllGo(n, wire) BY <1>2, <1>5, AllGoSame DEF Stays, NodeOK
<1>10. AllGo(chip', wire') BY <1>1, <1>7, <1>9, AllGoBoth, AllGoSame DEF Stays
<1>11. Arrive(chip, lessor, ring') BY <1>1, <1>2, ArriveNone, ArriveTail
<1>12. Arrive(chip', lessor, ring') BY <1>8, <1>11, ArriveSame DEF Stays
<1>13. chip'.incl = chip.incl BY <1>8 DEF Stays, Constant
<1> QED BY <1>2, <1>8, <1>10, <1>12, <1>13 DEF Holds, LeaseInv, Stays, Arrive

LEMMA LoopHolds ==
  LeaseInv /\ (Loop \/ Press \/ \E timer \in {"client", "dhcp", "time"} : Expire(timer)) => Holds
<1> SUFFICES ASSUME LeaseInv,
                    Loop \/ Press \/ \E timer \in {"client", "dhcp", "time"} : Expire(timer)
             PROVE Holds
  OBVIOUS
<1>1. CASE Loop
  <2>1. Pass({}, FALSE) /\ lessor' = lessor BY <1>1 DEF Loop
  <2> QED BY <2>1, PassHolds
<1>2. CASE Press
  <2>1. Pass({}, TRUE) /\ lessor' = lessor /\ chip.mailport # 0 BY <1>2 DEF Press
  <2> QED BY <2>1, PassHolds
<1>3. CASE \E timer \in {"client", "dhcp", "time"} : Expire(timer)
  <2>1. PICK timer : Pass({timer}, FALSE) /\ lessor' = lessor BY <1>3 DEF Expire
  <2> QED BY <2>1, PassHolds
<1> QED BY <1>1, <1>2, <1>3

LEMMA InitLease == Init => LeaseInv
<1> SUFFICES ASSUME Init PROVE LeaseInv OBVIOUS
<1>1. PICK c \in Cases : chip = c.node BY DEF Init
<1>2. PICK incl, far, mailport : chip = PowerUp(incl, far, mailport)
  BY <1>1, ChipNetAssumption
<1>10. Fields \subseteq DOMAIN chip BY <1>2, ZenonT(30) DEF PowerUp, Fields
<1>3. ring = <<>> /\ wire = <<>> /\ LessorOK(lessor)
  BY ChipNetAssumption DEF Init, LessorOK
<1>4. chip.tx = <<>> /\ chip.txbuff1 = <<>> /\ ~chip.arp_resp /\ ~chip.tserver_arp_ok
      /\ chip.dhcp_hostip = Null /\ chip.secdue = FALSE /\ chip.dhcp_secs = 0
      /\ chip.lease_secs = 0 /\ chip.dhcp_state = DHCP_INIT
      /\ ("dhcp" \in chip.incl => chip.myip = Null)
  BY <1>2 DEF PowerUp
<1>5. AllGo(chip, <<>>) /\ Arrive(chip, lessor, <<>>) BY EmptyIsSeq, ArriveNone DEF AllGo
<1>8. AllGo(chip, chip.tx) /\ AllGo(chip, chip.txbuff1) BY <1>4, <1>5
<1>9. chip.dhcp_state \in DhcpStates /\ chip.dhcp_secs \in Nat /\ chip.lease_secs \in Nat
      /\ chip.secdue \in BOOLEAN
  <2>1. chip.dhcp_state = DHCP_INIT /\ chip.dhcp_secs = 0 /\ chip.lease_secs = 0
        /\ chip.secdue = FALSE
    BY <1>4
  <2>2. 0 \in Nat /\ FALSE \in BOOLEAN /\ DHCP_INIT \in DhcpStates BY DEF DhcpStates
  <2> QED BY <2>1, <2>2, Zenon
<1>6. NodeOK(chip) BY <1>4, <1>8, <1>9, <1>10 DEF NodeOK
<1>7. "dhcp" \in chip.incl => InLease(chip, lessor)
  BY <1>4 DEF InLease, DHCP_INIT, DHCP_BOUND, DHCP_RENEWING, DHCP_DISCOVER, DHCP_REQUEST
<1> QED BY <1>3, <1>5, <1>6, <1>7 DEF LeaseInv, Arrive

LEMMA NextLease == LeaseInv /\ [Next]_vars => Holds
<1> SUFFICES ASSUME LeaseInv, [Next]_vars PROVE Holds OBVIOUS
<1>1. CASE UNCHANGED vars
  <2>1. chip' = chip /\ lessor' = lessor /\ wire' = wire /\ ring' = ring BY <1>1 DEF vars
  <2> QED BY <2>1, AsideHolds
<1>2. CASE Next
  BY <1>2, LoopHolds, ArpAnswerHolds, MailHolds, WebHolds, ProbeHolds, TimeAnswerHolds,
     IgnoreHolds, LoseHolds, LessorReceiveHolds, OtherHostHolds, SecondHolds,
     LeaseEndsHolds
     DEF Next
<1> QED BY <1>1, <1>2


-----------------------------------------------------------------------------
(* What the browser gets *)

(* A browser asks for the time of day, or for a file that is in the ROM.    *)
VisitOK(v) ==
    \/ v.port = DAYPORT /\ v.request = <<>>
    \/ /\ v.port = HTTPORT
       /\ \E name \in STRING \ {"SYN", "FIN", Rest} : v.request = <<name>> /\ Found(name) = name
PageFor(v) == IF v.port = DAYPORT THEN "daytime" ELSE v.request[1]
Asking(v) == <<"SYN">> \o v.request

(* The page, in an answer to a segment that acknowledges the SYN of the     *)
(* server and no more, and to the whole request (k units were sent).        *)
IsPage(v, k, s) ==
    /\ s.data = <<PageFor(v)>> /\ {TFIN, TACK} \subseteq s.flags
    /\ s.seq \in Nat /\ s.seq % 65536 = 0
    /\ v.port = HTTPORT => s.ack = 102 /\ k >= 2

(* A frame to the browser greets it, has nothing in it, or is the page.     *)
Tells(v, k, s) ==
    TRST \notin s.flags =>
        IF TSYN \in s.flags
        THEN TACK \in s.flags => s.seq \in Nat /\ s.seq % 65536 = 65535
        ELSE (s.data = <<>> /\ TFIN \notin s.flags) \/ IsPage(v, k, s)
ToWeb(v, k, f) ==
    f.pcol = "ip" /\ f.prot = "tcp" /\ f.dip = "web" => Tells(v, k, f.body)

(* A frame from the browser that has data in it is the request, sent before *)
(* there was an answer.                                                     *)
IsRequest(v, k, s) ==
    /\ v.port = HTTPORT /\ s.data = v.request /\ s.seq = 101 /\ k >= 2
    /\ s.ack % 65536 = 0
Asks(v, k, s) ==
    /\ TRST \notin s.flags => s.dport = v.port
    /\ s.flags \cap {TRST, TSYN, TFIN} = {} =>
         s.ack \in Nat /\ (s.data = <<>> \/ IsRequest(v, k, s))
OfWeb(v, k, f) == f.pcol = "ip" /\ f.prot = "tcp" /\ f.sip = "web" => Asks(v, k, f.body)

AllTo(v, k, s) == IsSeq(s) /\ \A i \in DOMAIN s : ToWeb(v, k, s[i])
AllOf(v, k, s) == IsSeq(s) /\ \A i \in DOMAIN s : OfWeb(v, k, s[i])

(* What the node sends, and what it could send again.                       *)
ServerFields == {"tx", "txbuffnum", "txbuff1", "remip", "remport", "locport", "rseq",
                 "rack", "rpdlen", "chostip", "concount", "led1", "led2"}
Serves(v, k, n) ==
    /\ ServerFields \subseteq DOMAIN n
    /\ AllTo(v, k, n.tx) /\ AllTo(v, k, n.txbuff1)
    /\ n.concount \in Nat /\ n.chostip # "web"

(* The browser has nothing or the page.  Once it has the page its request   *)
(* is acknowledged, and is not sent again.                                  *)
WebFields == {"chipport", "iss", "up", "out", "acked", "sent", "rcv", "got"}
Browser(v, w) ==
    /\ WebFields \subseteq DOMAIN w
    /\ w.chipport = v.port /\ w.iss = 100
    /\ w.out \in {Asking(v), Append(Asking(v), "FIN")}
    /\ w.acked \in Nat /\ w.sent \in Nat /\ w.rcv \in Nat
    /\ w.got \in {<<>>, <<PageFor(v), "FIN">>}
Browses(v, w) ==
    /\ Browser(v, w)
    /\ w.acked <= w.sent /\ w.sent <= Len(w.out)
    /\ w.rcv = 0 => w.acked = 0 /\ w.got = <<>>
    /\ w.got = <<>> => w.rcv % 65536 = 0 /\ w.out = Asking(v)
    /\ w.got # <<>> => w.rcv % 65536 = 2 /\ (v.port = HTTPORT => w.acked >= 2)

PageOK(v, w, n, s, r) ==
    /\ VisitOK(v) /\ Browses(v, w) /\ Serves(v, w.sent, n)
    /\ AllTo(v, w.sent, s) /\ AllOf(v, w.sent, r)
PageInv ==
    /\ "chipport" \in DOMAIN web /\ web.chipport = case.visit.port
    /\ case.visit.port # 0 => PageOK(case.visit, web, chip, wire, ring)

-----------------------------------------------------------------------------
(* The node *)

(* A node in which nothing of this has changed, and one that also sends to  *)
(* the same address.                                                        *)
Like(n, m) ==
    /\ DOMAIN m = DOMAIN n
    /\ \A x \in {"tx", "txbuff1", "chostip", "concount"} : m[x] = n[x]
Alike(n, m) == Like(n, m) /\ m.remip = n.remip

LEMMA LikeServes ==
  ASSUME NEW v, NEW k, NEW n, Serves(v, k, n), NEW m, Like(n, m) PROVE Serves(v, k, m)
  BY DEF Serves, Like

LEMMA AllToBoth ==
  ASSUME NEW v, NEW k, NEW s, NEW t, AllTo(v, k, s), AllTo(v, k, t) PROVE AllTo(v, k, s \o t)
<1>1. IsSeq(s) /\ IsSeq(t) BY DEF AllTo
<1>2. IsSeq(s \o t) BY <1>1, Concat
<1>3. ASSUME NEW i \in DOMAIN (s \o t) PROVE ToWeb(v, k, (s \o t)[i])
  <2>1. CASE \E j \in DOMAIN s : (s \o t)[i] = s[j]
    <3>1. PICK j \in DOMAIN s : (s \o t)[i] = s[j] BY <2>1
    <3> QED BY <3>1, Zenon DEF AllTo
  <2>2. CASE \E j \in DOMAIN t : (s \o t)[i] = t[j]
    <3>1. PICK j \in DOMAIN t : (s \o t)[i] = t[j] BY <2>2
    <3> QED BY <3>1, Zenon DEF AllTo
  <2> QED BY <1>1, <2>1, <2>2, InConcat
<1> QED BY <1>2, <1>3 DEF AllTo

LEMMA TransmitServes ==
  ASSUME NEW v, NEW k, NEW n, Serves(v, k, n), NEW f, ToWeb(v, k, f)
  PROVE Serves(v, k, Transmit(n, f))
<1> DEFINE m == Transmit(n, f)
<1>1. AllTo(v, k, <<f>>) BY OneIsSeq DEF AllTo
<1>2. AllTo(v, k, Append(n.tx, f)) BY Appended DEF AllTo, Serves
<1>3. m.tx = Append(n.tx, f) /\ m.txbuff1 \in {<<f>>, n.txbuff1} /\ DOMAIN m = DOMAIN n
      /\ m.chostip = n.chostip /\ m.concount = n.concount
  BY DEF Transmit, Serves, ServerFields
<1> QED BY <1>1, <1>2, <1>3 DEF Serves

LEMMA RetransmitServes ==
  ASSUME NEW v, NEW k, NEW n, Serves(v, k, n) PROVE Serves(v, k, Retransmit(n))
<1> DEFINE m == Retransmit(n)
<1>1. m.tx = n.tx \o n.txbuff1 /\ m.txbuff1 = n.txbuff1 /\ DOMAIN m = DOMAIN n
      /\ m.chostip = n.chostip /\ m.concount = n.concount
  BY DEF Retransmit, Serves, ServerFields
<1> QED BY <1>1, AllToBoth DEF Serves

LEMMA PutIpServes ==
  ASSUME NEW v, NEW k, NEW n, Serves(v, k, n), NEW prot, NEW body,
         prot = "tcp" /\ n.remip = "web" => Tells(v, k, body)
  PROVE Serves(v, k, PutIp(n, prot, body))
<1> DEFINE f == [dst |-> n.srce, src |-> n.myeth, pcol |-> "ip",
                 sip |-> n.myip, dip |-> n.remip, prot |-> prot, body |-> body]
<1>1. ToWeb(v, k, f) BY DEF ToWeb
<1> QED BY <1>1, TransmitServes DEF PutIp

LEMMA UdpXmitServes ==
  ASSUME NEW v, NEW k, NEW n, Serves(v, k, n), NEW data PROVE Serves(v, k, UdpXmit(n, data))
<1> DEFINE b == [sport |-> n.locport, dport |-> n.remport, data |-> data]
<1>1. Serves(v, k, PutIp(n, "udp", b)) BY PutIpServes
<1> QED BY <1>1 DEF UdpXmit

LEMMA TcpXmitServes ==
  ASSUME NEW v, NEW k, NEW n, Serves(v, k, n), NEW flags, NEW data,
         n.remip = "web" =>
           Tells(v, k, [seq |-> n.rack, ack |-> n.rseq, flags |-> flags, data |-> data])
  PROVE Serves(v, k, TcpXmit(n, flags, data))
<1> DEFINE b == [sport |-> n.locport, dport |-> n.remport, seq |-> n.rack,
                 ack |-> n.rseq, flags |-> flags, data |-> data]
<1>1. n.remip = "web" => Tells(v, k, b) BY DEF Tells, IsPage
<1>2. Serves(v, k, PutIp(n, "tcp", b)) BY <1>1, PutIpServes
<1> QED BY <1>2 DEF TcpXmit

LEMMA ArpXmitServes ==
  ASSUME NEW v, NEW k, NEW n, Serves(v, k, n), NEW op PROVE Serves(v, k, ArpXmit(n, op))
<1> DEFINE m == [InitTxbuff(n, 0) EXCEPT !.srce = IF op = "req" THEN All ELSE @]
           f == [dst |-> m.srce, src |-> m.myeth, pcol |-> "arp", op |-> op,
                 sip |-> m.myip, tip |-> m.remip]
<1>1. Like(n, m) BY DEF InitTxbuff, Like
<1>2. Serves(v, k, m) BY <1>1, LikeServes
<1>3. ToWeb(v, k, f) BY DEF ToWeb
<1> HIDE DEF m
<1>4. Serves(v, k, Transmit(m, f)) BY <1>2, <1>3, TransmitServes
<1> QED BY <1>4 DEF ArpXmit, m

LEMMA ArpHostServes ==
  ASSUME NEW v, NEW k, NEW n, Serves(v, k, n), NEW ip PROVE Serves(v, k, ArpHost(n, ip))
<1> DEFINE m == [n EXCEPT !.remip = IF InSubnet(n, ip) THEN ip ELSE Router]
<1>1. Like(n, m) BY DEF Like
<1>2. Serves(v, k, m) BY <1>1, LikeServes
<1>3. ArpHost(n, ip) = ArpXmit(m, "req") BY DEF ArpHost
<1> HIDE DEF m
<1> QED BY <1>2, <1>3, ArpXmitServes

(* What the mail client sends has data or a FIN only for its own host.      *)
Mute(flags, data) ==
    TRST \in flags \/ (TFIN \notin flags /\ data = <<>> /\ (TSYN \in flags => TACK \notin flags))

LEMMA ClientXmitServes ==
  ASSUME NEW v, NEW k, NEW n, Serves(v, k, n), NEW flags, NEW data,
         Mute(flags, data) \/ n.remip # "web"
  PROVE Serves(v, k, ClientXmit(n, flags, data))
<1> DEFINE rseq == n.rseq + n.rpdlen
           len == Len(data) + IF flags \cap {TSYN, TFIN} # {} THEN 1 ELSE 0
           m == [n EXCEPT !.rseq = rseq, !.ctack = rseq, !.ctseq = n.rack + len]
<1>1. Alike(n, m) BY DEF Alike, Like, Serves, ServerFields
<1>2. Serves(v, k, m) /\ m.remip = n.remip BY <1>1, LikeServes DEF Alike
<1>3. ClientXmit(n, flags, data) = TcpXmit(m, flags, data) BY DEF ClientXmit
<1> HIDE DEF m
<1>4. m.remip = "web" =>
        Tells(v, k, [seq |-> m.rack, ack |-> m.rseq, flags |-> flags, data |-> data])
  BY <1>2 DEF Mute, Tells
<1> QED BY <1>2, <1>3, <1>4, TcpXmitServes

LEMMA ClientRstServes ==
  ASSUME NEW v, NEW k, NEW n, Serves(v, k, n) PROVE Serves(v, k, ClientRstXmit(n))
<1> DEFINE m == InitTxbuff(n, 0)
<1>1. Like(n, m) BY DEF Like, InitTxbuff
<1>2. Serves(v, k, m) BY <1>1, LikeServes
<1>3. ClientRstXmit(n) = ClientXmit(m, {TRST, TACK}, <<>>) BY DEF ClientRstXmit
<1> HIDE DEF m
<1>4. Mute({TRST, TACK}, <<>>) BY DEF Mute
<1> QED BY <1>2, <1>3, <1>4, ClientXmitServes

LEMMA AlikeTwice ==
  ASSUME NEW n, NEW m, NEW p, Alike(n, m), Alike(m, p) PROVE Alike(n, p)
  BY DEF Alike, Like

LEMMA NewCstateAlike ==
  ASSUME NEW v, NEW k, NEW n, Serves(v, k, n), NEW news PROVE Alike(n, NewCstate(n, news))
  BY DEF NewCstate, Alike, Like, Serves, ServerFields

LEMMA SaidAlike ==
  ASSUME NEW v, NEW k, NEW n, Serves(v, k, n), NEW data
  PROVE Alike(n, SmtpClientData(n, data).n) /\ Alike(n, Pop3ClientData(n, data).n)
<1> DEFINE m == [n EXCEPT !.mstate = @ + 1]
<1>1. Alike(n, n) /\ Alike(n, m) BY DEF Alike, Like, Serves, ServerFields
<1>2. Alike(n, Leds(n, Dark, Lit)) /\ Alike(n, Leds(m, Dark, Dark))
  BY DEF Leds, Alike, Like, Serves, ServerFields
<1>3. SmtpClientData(n, data).n \in {n, m, Leds(n, Dark, Lit), Leds(m, Dark, Dark)}
  BY DEF SmtpClientData, Says
<1> HIDE DEF m
<1>4. Alike(n, SmtpClientData(n, data).n) BY <1>1, <1>2, <1>3
<1>5. Alike(n, Pop3ClientData(n, data).n)
  BY DEF Pop3ClientData, Says, Leds, Alike, Like, Serves, ServerFields
<1> QED BY <1>4, <1>5

LEMMA ClientEstServes ==
  ASSUME NEW v, NEW k, NEW n, Serves(v, k, n), n.remip # "web", NEW rflags, NEW data
  PROVE Serves(v, k, ClientEst(n, rflags, data))
<1> DEFINE fresh == IF n.rpdlen > 0 THEN NewCstate(n, CLIENT_EST) ELSE n
           said == IF n.remport = SMTP_PORT THEN SmtpClientData(fresh, data)
                   ELSE Pop3ClientData(fresh, data)
           plus == [said.n EXCEPT !.rpdlen = @ + 1]
           closed == NewCstate(plus, CLIENT_LASTACK)
           waits == NewCstate(said.n, CLIENT_FINWT)
           Safe(m) == Serves(v, k, m) /\ m.remip # "web"
<1>1. ClientEst(n, rflags, data) \in
        {ClientXmit(closed, {TFIN, TACK}, said.out), ClientXmit(waits, said.flags, said.out),
         said.n, ClientXmit(said.n, said.flags, said.out)}
  BY DEF ClientEst
<1>2. ASSUME NEW m, Safe(m), NEW p, Alike(m, p) PROVE Safe(p)
  BY <1>2, LikeServes DEF Alike
<1>3. Safe(n) OBVIOUS
<1> HIDE DEF Safe
<1>4. Safe(NewCstate(n, CLIENT_EST)) BY <1>2, <1>3, NewCstateAlike DEF Safe
<1>5. Safe(fresh) BY <1>3, <1>4
<1> HIDE DEF fresh
<1>6. Alike(fresh, said.n) BY <1>5, SaidAlike DEF Safe
<1>7. Safe(said.n) BY <1>2, <1>5, <1>6
<1> HIDE DEF said
<1>8. Alike(said.n, plus) BY <1>7 DEF Safe, Alike, Like, Serves, ServerFields
<1>9. Safe(plus) BY <1>2, <1>7, <1>8
<1> HIDE DEF plus
<1>10. Safe(closed) BY <1>2, <1>9, NewCstateAlike DEF Safe
<1>11. Safe(waits) BY <1>2, <1>7, NewCstateAlike DEF Safe
<1> HIDE DEF closed, waits
<1>12. ASSUME NEW m, Safe(m), NEW flags, NEW out PROVE Serves(v, k, ClientXmit(m, flags, out))
  BY <1>12, ClientXmitServes DEF Safe
<1> QED BY <1>1, <1>7, <1>10, <1>11, <1>12 DEF Safe

(* A frame of the browser that gets to the client is never in order, as the *)
(* client's host is another.                                                *)
LEMMA TcpClientRecvServes ==
  ASSUME NEW v, NEW k, NEW n0, Serves(v, k, n0), NEW rflags, NEW data
  PROVE Serves(v, k, TcpClientRecv(n0, rflags, data))
<1> DEFINE n == InitTxbuff(n0, 1)
           plus1 == [n EXCEPT !.rpdlen = @ + 1]
           greet == ClientXmit(plus1, {TACK}, <<>>)
           begin == [greet EXCEPT !.mstate = 0]
           connected == NewCstate(begin, CLIENT_EST)
           ended == NewCstate(greet, CLIENT_INIT)
           shut == NewCstate(n, CLIENT_INIT)
           thanks == ClientXmit(n, {TACK}, <<>>)
<1>1. \/ TcpClientRecv(n0, rflags, data) \in {ClientRstXmit(n), connected, shut, n, ended, thanks}
      \/ TcpClientRecv(n0, rflags, data) = ClientEst(n, rflags, data) /\ n.remip = n.chostip
  BY DEF TcpClientRecv, InOrder
<1>2. Alike(n0, n) BY DEF InitTxbuff, Alike, Like, Serves, ServerFields
<1>3. Serves(v, k, n) BY <1>2, LikeServes DEF Alike
<1> HIDE DEF n
<1>4. Alike(n, plus1) BY <1>3 DEF Alike, Like, Serves, ServerFields
<1>5. Serves(v, k, plus1) BY <1>3, <1>4, LikeServes DEF Alike
<1> HIDE DEF plus1
<1>6. Mute({TACK}, <<>>) BY DEF Mute, TACK, TRST, TFIN, TSYN
<1>7. Serves(v, k, greet) BY <1>5, <1>6, ClientXmitServes
<1>8. Serves(v, k, thanks) BY <1>3, <1>6, ClientXmitServes
<1> HIDE DEF greet, thanks
<1>9. Like(greet, begin) BY DEF Like
<1>10. Serves(v, k, begin) BY <1>7, <1>9, LikeServes
<1> HIDE DEF begin
<1>11. ASSUME NEW m, Serves(v, k, m), NEW news PROVE Serves(v, k, NewCstate(m, news))
  BY <1>11, NewCstateAlike, LikeServes DEF Alike
<1>12. Serves(v, k, connected) /\ Serves(v, k, ended) /\ Serves(v, k, shut)
  BY <1>3, <1>7, <1>10, <1>11
<1> HIDE DEF connected, ended, shut
<1>13. Serves(v, k, ClientRstXmit(n)) BY <1>3, ClientRstServes
<1>14. n.remip = n.chostip => Serves(v, k, ClientEst(n, rflags, data))
  BY <1>3, ClientEstServes DEF Serves
<1> QED BY <1>1, <1>3, <1>8, <1>12, <1>13, <1>14

LEMMA StartClientServes ==
  ASSUME NEW v, NEW k, NEW n, Serves(v, k, n), NEW hport
  PROVE Serves(v, k, StartClient(n, hport))
<1> DEFINE p == [n EXCEPT !.remport = hport]
           m == Leds(p, Lit, Dark)
           a == ArpHost(m, n.chostip)
<1>1. StartClient(n, hport) \in {n, NewCstate(a, CLIENT_ARPS)} BY DEF StartClient
<1>2. Like(n, m) BY DEF Leds, Like
<1>3. Serves(v, k, m) BY <1>2, LikeServes
<1> HIDE DEF m
<1>4. Serves(v, k, a) BY <1>3, ArpHostServes
<1> HIDE DEF a
<1>5. Serves(v, k, NewCstate(a, CLIENT_ARPS)) BY <1>4, NewCstateAlike, LikeServes DEF Alike
<1> QED BY <1>1, <1>5

LEMMA CheckClientServes ==
  ASSUME NEW v, NEW k, NEW n, Serves(v, k, n), NEW expired \in BOOLEAN
  PROVE Serves(v, k, CheckClient(n, expired))
<1> DEFINE port == IF n.cport + 1 < MIN_CLIENT_PORT \/ n.cport + 1 >= MAX_CLIENT_PORT
                   THEN MIN_CLIENT_PORT ELSE n.cport + 1
           first == InitTxbuff(n, 1)
           opening == [first EXCEPT !.cport = port, !.locport = port,
                                    !.rseq = 0, !.rack = CLIENT_SEQ_START]
           syn == ClientXmit(opening, {TSYN}, <<>>)
           less == [n EXCEPT !.ctries = @ - 1]
           reset == IF n.cstate > CLIENT_SYNS THEN ClientRstXmit(n) ELSE n
           stopped == NewCstate(n, CLIENT_INIT)
           stopped2 == NewCstate(reset, CLIENT_INIT)
           lit == [stopped EXCEPT !.led1 = Lit]
           lit2 == [stopped2 EXCEPT !.led2 = Lit]
<1>1. CheckClient(n, expired) \in
        {NewCstate(syn, CLIENT_SYNS), ArpHost(less, n.chostip), lit, Retransmit(less), lit2, n}
  BY DEF CheckClient
<1>2. Like(n, opening) BY DEF InitTxbuff, Like
<1>3. Serves(v, k, opening) BY <1>2, LikeServes
<1> HIDE DEF opening
<1>4. Mute({TSYN}, <<>>) BY DEF Mute, TACK, TRST, TFIN, TSYN
<1>5. Serves(v, k, syn) BY <1>3, <1>4, ClientXmitServes
<1> HIDE DEF syn
<1>6. ASSUME NEW m, Serves(v, k, m), NEW news PROVE Serves(v, k, NewCstate(m, news))
  BY <1>6, NewCstateAlike, LikeServes DEF Alike
<1>7. Like(n, less) BY DEF Like
<1>8. Serves(v, k, less) BY <1>7, LikeServes
<1> HIDE DEF less
<1>9. Serves(v, k, ArpHost(less, n.chostip)) /\ Serves(v, k, Retransmit(less))
  BY <1>8, ArpHostServes, RetransmitServes
<1>10. Serves(v, k, reset) BY ClientRstServes
<1> HIDE DEF reset
<1>11. Serves(v, k, stopped) /\ Serves(v, k, stopped2) BY <1>6, <1>10
<1> HIDE DEF stopped, stopped2
<1>12. Like(stopped, lit) /\ Like(stopped2, lit2) BY DEF Like
<1>13. Serves(v, k, lit) /\ Serves(v, k, lit2) BY <1>11, <1>12, LikeServes
<1> HIDE DEF lit, lit2
<1> QED BY <1>1, <1>5, <1>6, <1>9, <1>13

(* A browser is answered with a greeting, with nothing or with its page.    *)
LEMMA TcpServerRecvServes ==
  ASSUME NEW v, VisitOK(v), NEW k, NEW n, Serves(v, k, n), NEW s,
         n.locport = s.dport, n.rseq = s.seq, n.rack = s.ack, n.rpdlen = Len(s.data),
         n.remip = "web" => Asks(v, k, s)
  PROVE Serves(v, k, TcpServerRecv(n, s.flags, s.data))
<1> DEFINE after == [n EXCEPT !.rseq = @ + n.rpdlen]
           syn == [n EXCEPT !.rseq = @ + 1]
           accept == [syn EXCEPT !.rack = SERVER_SEQ(n.concount), !.concount = @ + 1]
           fin == [after EXCEPT !.rseq = @ + 1]
           page == HttpRecv(after, s.data)
           r == TcpServerRecv(n, s.flags, s.data)
           Plain == s.flags \cap {TRST, TSYN, TFIN} = {}
<1>1. \/ r = n
      \/ r = TcpXmit(accept, {TSYN, TACK}, <<>>)
      \/ r = TcpXmit(syn, {TRST, TACK}, <<>>)
      \/ r = TcpXmit(fin, {TACK}, <<>>)
      \/ r = TcpXmit(after, {TFIN, TACK}, <<"daytime">>) /\ Plain /\ DayRequest(n)
      \/ r = TcpXmit(page.n, page.flags, page.out) /\ Plain /\ n.locport = HTTPORT
         /\ s.data # <<>>
      \/ r = TcpXmit(after, {TACK}, <<>>)
  BY DEF TcpServerRecv, TRST, TSYN, TFIN
<1>2. Alike(n, after) /\ Alike(n, syn) /\ Alike(n, fin)
  BY DEF Alike, Like, Serves, ServerFields
<1>3. /\ Serves(v, k, after) /\ Serves(v, k, syn) /\ Serves(v, k, fin)
      /\ after.remip = n.remip
  BY <1>2, LikeServes DEF Alike
<1>4. /\ DOMAIN accept = DOMAIN n /\ accept.tx = n.tx /\ accept.txbuff1 = n.txbuff1
      /\ accept.chostip = n.chostip /\ accept.concount = n.concount + 1 /\ accept.rack = 65536 * n.concount + 65535
  BY DEF Serves, ServerFields, SERVER_SEQ
<1>5. /\ after.rack = s.ack /\ after.rseq = s.seq + Len(s.data) /\ after.locport = s.dport
  BY DEF Serves, ServerFields
<1> HIDE DEF after, syn, accept, fin, r
<1>6. n.concount \in Nat BY DEF Serves
<1>7. n.concount + 1 \in Nat BY <1>6
<1>8. Serves(v, k, accept) BY <1>4, <1>7 DEF Serves
<1>9. accept.rack \in Nat /\ accept.rack % 65536 = 65535
  <2>1. PICK c \in Nat : n.concount = c BY <1>6
  <2>2. accept.rack = 65536 * c + 65535 BY <1>4, <2>1
  <2>3. (65536 * c + 65535) % 65536 = 65535 /\ 65536 * c + 65535 \in Nat OBVIOUS
  <2> QED BY <2>2, <2>3
<1>10. Serves(v, k, TcpXmit(accept, {TSYN, TACK}, <<>>))
  <2>1. Tells(v, k, [seq |-> accept.rack, ack |-> accept.rseq, flags |-> {TSYN, TACK},
                     data |-> <<>>])
    BY <1>9 DEF Tells
  <2> QED BY <1>8, <2>1, TcpXmitServes
<1>11. Serves(v, k, TcpXmit(syn, {TRST, TACK}, <<>>))
  <2>1. Tells(v, k, [seq |-> syn.rack, ack |-> syn.rseq, flags |-> {TRST, TACK}, data |-> <<>>])
    BY DEF Tells
  <2> QED BY <1>3, <2>1, TcpXmitServes
<1>12. TACK \notin {TSYN, TFIN, TRST} BY DEF TACK, TSYN, TFIN, TRST
<1>13. ASSUME NEW m, Serves(v, k, m) PROVE Serves(v, k, TcpXmit(m, {TACK}, <<>>))
  <2>1. Tells(v, k, [seq |-> m.rack, ack |-> m.rseq, flags |-> {TACK}, data |-> <<>>])
    BY <1>12 DEF Tells
  <2> QED BY <1>13, <2>1, TcpXmitServes
<1>14. CASE r = TcpXmit(after, {TFIN, TACK}, <<"daytime">>) /\ Plain /\ DayRequest(n)
  <2>1. ASSUME n.remip = "web"
        PROVE Tells(v, k, [seq |-> after.rack, ack |-> after.rseq,
                           flags |-> {TFIN, TACK}, data |-> <<"daytime">>])
    <3>1. v.port = DAYPORT /\ s.ack \in Nat /\ s.ack % 65536 = 0
      BY <1>14, <2>1 DEF Asks, DayRequest
    <3> QED BY <1>5, <3>1 DEF Tells, IsPage, PageFor, TFIN, TACK, TSYN, DAYPORT, HTTPORT
  <2>2. Serves(v, k, TcpXmit(after, {TFIN, TACK}, <<"daytime">>))
    BY <1>3, <2>1, TcpXmitServes
  <2> QED BY <1>14, <2>2 DEF r
<1>15. CASE r = TcpXmit(page.n, page.flags, page.out) /\ Plain /\ n.locport = HTTPORT
            /\ s.data # <<>>
  <2>1. page.n = after \/ \E x, y : page.n = Leds(after, x, y) BY DEF HttpRecv, Says
  <2>2. Alike(after, page.n) /\ page.n.rack = after.rack /\ page.n.rseq = after.rseq
    BY <1>3, <2>1 DEF Leds, Alike, Like, Serves, ServerFields
  <2>3. Serves(v, k, page.n) /\ page.n.remip = n.remip BY <1>3, <2>2, LikeServes DEF Alike
  <2>4. ASSUME n.remip = "web"
        PROVE Tells(v, k, [seq |-> page.n.rack, ack |-> page.n.rseq,
                           flags |-> page.flags, data |-> page.out])
    <3>1. v.port = HTTPORT /\ s.ack \in Nat /\ IsRequest(v, k, s)
      BY <1>15, <2>4 DEF Asks
    <3>2. PICK name : v.request = <<name>> /\ name # Rest /\ Found(name) = name
      BY <3>1 DEF VisitOK, DAYPORT, HTTPORT
    <3>3. s.data[1] = name /\ Len(s.data) = 1 BY <3>1, <3>2 DEF IsRequest
    <3>4. page.flags = {TFIN, TACK} /\ page.out = <<name>>
      BY <3>2, <3>3 DEF HttpRecv, Says
    <3>5. PageFor(v) = name BY <3>1, <3>2 DEF PageFor, DAYPORT, HTTPORT
    <3>6. page.n.rack = s.ack /\ page.n.rseq = 102 /\ k >= 2 /\ s.ack % 65536 = 0
      BY <1>5, <2>2, <3>1, <3>3 DEF IsRequest
    <3> HIDE DEF page
    <3> QED BY <3>1, <3>4, <3>5, <3>6 DEF Tells, IsPage, TFIN, TACK, TSYN
  <2> HIDE DEF page
  <2> DEFINE m == page.n  flags == page.flags  out == page.out
  <2>5. /\ Serves(v, k, m)
        /\ m.remip = "web" =>
             Tells(v, k, [seq |-> m.rack, ack |-> m.rseq, flags |-> flags, data |-> out])
    BY <2>3, <2>4
  <2>6. r = TcpXmit(m, flags, out) BY <1>15
  <2> HIDE DEF m, flags, out
  <2>7. Serves(v, k, TcpXmit(m, flags, out)) BY <2>5, TcpXmitServes
  <2> QED BY <2>6, <2>7 DEF r
<1> QED BY <1>1, <1>3, <1>10, <1>11, <1>13, <1>14, <1>15 DEF r

LEMMA TcpRecvServes ==
  ASSUME NEW v, VisitOK(v), NEW k, NEW n, Serves(v, k, n), NEW s,
         n.remip = "web" => Asks(v, k, s)
  PROVE Serves(v, k, TcpRecv(n, s))
<1> DEFINE head == [n EXCEPT !.remport = s.sport, !.locport = s.dport,
                             !.rseq = s.seq, !.rack = s.ack]
           m == InitTxbuff([head EXCEPT !.rpdlen = Len(s.data)], 0)
<1>1. TcpRecv(n, s) \in {head, TcpClientRecv(m, s.flags, s.data),
                          TcpServerRecv(m, s.flags, s.data)}
  BY DEF TcpRecv
<1>2. Like(n, head) BY DEF Like
<1>3. Alike(n, m) /\ m.locport = s.dport /\ m.rseq = s.seq /\ m.rack = s.ack
      /\ m.rpdlen = Len(s.data)
  BY DEF InitTxbuff, Alike, Like, Serves, ServerFields
<1> HIDE DEF head, m
<1>4. Serves(v, k, head) BY <1>2, LikeServes
<1>5. Serves(v, k, m) /\ m.remip = n.remip BY <1>3, LikeServes DEF Alike
<1>6. Serves(v, k, TcpClientRecv(m, s.flags, s.data)) BY <1>5, TcpClientRecvServes
<1>7. Serves(v, k, TcpServerRecv(m, s.flags, s.data)) BY <1>3, <1>5, TcpServerRecvServes
<1> QED BY <1>1, <1>4, <1>6, <1>7

LEMMA CheckDhcpServes ==
  ASSUME NEW v, NEW k, NEW n, Serves(v, k, n), NEW expired \in BOOLEAN
  PROVE Serves(v, k, CheckDhcp(n, expired))
<1> DEFINE to == IF n.dhcp_state = DHCP_RENEWING
                 THEN [n EXCEPT !.srce = n.dhcp_hosteth, !.remip = n.dhcp_hostip]
                 ELSE [n EXCEPT !.srce = All, !.remip = All]
           asked == [to EXCEPT !.locport = DHCPCLIENT_PORT, !.remport = DHCPSERVER_PORT]
           wake == [n EXCEPT !.myip = Null, !.dhcp_secs = 0, !.secdue = TRUE,
                             !.dhcp_state = DHCP_DISCOVER]
           asks == n.dhcp_state \in {DHCP_DISCOVER, DHCP_REQUEST, DHCP_RENEWING}
           m == IF n.dhcp_state = DHCP_INIT THEN wake
                ELSE IF asks /\ expired THEN DhcpTx(n) ELSE n
<1>1. CheckDhcp(n, expired) \in {m, DhcpSecond(m)} BY DEF CheckDhcp
<1>2. Like(n, asked) /\ Like(n, wake) BY DEF Like
<1>3. Serves(v, k, asked) /\ Serves(v, k, wake) BY <1>2, LikeServes
<1>4. \E data : DhcpTx(n) = UdpXmit(asked, data) BY DEF DhcpTx
<1> HIDE DEF asked, wake
<1>5. Serves(v, k, DhcpTx(n)) BY <1>3, <1>4, UdpXmitServes
<1>6. Serves(v, k, m) BY <1>3, <1>5
<1> HIDE DEF m
<1>7. Like(m, DhcpSecond(m)) BY DEF Like, DhcpSecond
<1>8. Serves(v, k, DhcpSecond(m)) BY <1>6, <1>7, LikeServes
<1> QED BY <1>1, <1>6, <1>8

LEMMA CheckTimeServes ==
  ASSUME NEW v, NEW k, NEW n, Serves(v, k, n), NEW expired \in BOOLEAN
  PROVE Serves(v, k, CheckTime(n, expired))
<1> DEFINE m == [n EXCEPT !.tserver_eth = n.remeth, !.tserver_arp_ok = TRUE]
<1>1. CheckTime(n, expired) \in
        {RequestTime(m), ArpHost(n, n.tserver_ip), RequestTime(n), n}
  BY DEF CheckTime
<1>2. ASSUME NEW p, Serves(v, k, p) PROVE Serves(v, k, RequestTime(p))
  <2> DEFINE q == [InitTxbuff(p, 0) EXCEPT !.remip = p.tserver_ip, !.srce = p.tserver_eth,
                          !.locport = TIMECLIENT_PORT, !.remport = TIMESERVER_PORT]
  <2>1. Like(p, q) BY DEF Like, InitTxbuff
  <2>2. Serves(v, k, q) BY <1>2, <2>1, LikeServes
  <2>3. RequestTime(p) = UdpXmit(q, "time?") BY DEF RequestTime
  <2> HIDE DEF q
  <2> QED BY <2>2, <2>3, UdpXmitServes
<1>3. Like(n, m) BY DEF Like
<1>4. Serves(v, k, m) BY <1>3, LikeServes
<1> HIDE DEF m
<1> QED BY <1>1, <1>2, <1>4, ArpHostServes

LEMMA UdpRecvServes ==
  ASSUME NEW v, NEW k, NEW n0, Serves(v, k, n0), NEW d PROVE Serves(v, k, UdpRecv(n0, d))
<1> DEFINE n == InitTxbuff([n0 EXCEPT !.remport = d.sport, !.locport = d.dport], 0)
           t == [n EXCEPT !.time = d.data]
<1>1. UdpRecv(n0, d) \in
        {UdpXmit(n, d.data), UdpXmit(n, "daytime"), DhcpHandler(n, d.data), t, n}
  BY DEF UdpRecv
<1>2. Like(n0, n) BY DEF Like, InitTxbuff
<1>3. Serves(v, k, n) BY <1>2, LikeServes
<1> HIDE DEF n
<1>4. Like(n, t) /\ Like(n, DhcpHandler(n, d.data)) BY DEF Like, DhcpHandler
<1>5. Serves(v, k, t) /\ Serves(v, k, DhcpHandler(n, d.data)) BY <1>3, <1>4, LikeServes
<1> HIDE DEF t
<1> QED BY <1>1, <1>3, <1>5, UdpXmitServes

LEMMA ReceiveServes ==
  ASSUME NEW v, VisitOK(v), NEW k, NEW n, Serves(v, k, n), NEW f, OfWeb(v, k, f),
         f.pcol \in {"arp", "ip"}, f.pcol = "ip" => f.prot \in {"icmp", "udp", "tcp"}
  PROVE Serves(v, k, Receive(n, f))
<1> DEFINE m == InitTxbuff(GetNet(n, f), 0)
           ip == IpRecv(m, f)
           a == [m EXCEPT !.remeth = f.src, !.remip = f.sip]
           heard == [a EXCEPT !.arp_resp = TRUE]
           echo == PutIp(ip, "icmp", [f.body EXCEPT !.type = "reply"])
<1>1. \/ Receive(n, f) \in {a, ArpXmit(a, "resp"), heard, ip, echo, UdpRecv(ip, f.body)}
      \/ Receive(n, f) = TcpRecv(ip, f.body) /\ f.pcol = "ip" /\ f.prot = "tcp"
  BY DEF Receive, ArpRecv, IcmpRecv
<1>2. Like(n, m) /\ m.remip = n.remip
  BY DEF Like, InitTxbuff, GetNet, Serves, ServerFields
<1>3. Serves(v, k, m) BY <1>2, LikeServes
<1> HIDE DEF m
<1>4. Like(m, a) /\ Like(m, ip) /\ ip.remip = f.sip
  BY <1>3 DEF Like, IpRecv, Serves, ServerFields
<1>5. Serves(v, k, a) /\ Serves(v, k, ip) BY <1>3, <1>4, LikeServes
<1> HIDE DEF a, ip
<1>6. Like(a, heard) BY DEF Like
<1>7. Serves(v, k, heard) BY <1>5, <1>6, LikeServes
<1> HIDE DEF heard
<1>8. Serves(v, k, ArpXmit(a, "resp")) BY <1>5, ArpXmitServes
<1>9. Serves(v, k, echo) BY <1>5, PutIpServes
<1> HIDE DEF echo
<1>10. Serves(v, k, UdpRecv(ip, f.body)) BY <1>5, UdpRecvServes
<1>11. CASE Receive(n, f) = TcpRecv(ip, f.body) /\ f.pcol = "ip" /\ f.prot = "tcp"
  <2>1. ip.remip = "web" => Asks(v, k, f.body) BY <1>4, <1>11 DEF OfWeb
  <2>2. Serves(v, k, TcpRecv(ip, f.body)) BY <1>5, <2>1, TcpRecvServes
  <2> QED BY <1>11, <2>2
<1> QED BY <1>1, <1>5, <1>7, <1>8, <1>9, <1>10, <1>11

LEMMA PollServes ==
  ASSUME NEW v, NEW k, NEW n, Serves(v, k, n), NEW expired, NEW pressed
  PROVE Serves(v, k, Poll(n, expired, pressed))
<1> DEFINE n1 == IF "dhcp" \in n.incl THEN CheckDhcp(n, "dhcp" \in expired) ELSE n
           n2 == IF "time" \in n.incl THEN CheckTime(n1, "time" \in expired) ELSE n1
           n3 == IF n.mailport # 0 THEN CheckClient(n2, "client" \in expired) ELSE n2
<1>1. ("dhcp" \in expired) \in BOOLEAN /\ ("time" \in expired) \in BOOLEAN
      /\ ("client" \in expired) \in BOOLEAN
  OBVIOUS
<1>2. Serves(v, k, n1) BY <1>1, CheckDhcpServes
<1>3. Poll(n, expired, pressed) = IF pressed THEN StartClient(n3, n.mailport) ELSE n3
  BY DEF Poll
<1> HIDE DEF n1
<1>4. Serves(v, k, n2) BY <1>1, <1>2, CheckTimeServes
<1> HIDE DEF n2
<1>5. Serves(v, k, n3) BY <1>1, <1>4, CheckClientServes
<1> HIDE DEF n3
<1> QED BY <1>3, <1>5, StartClientServes

-----------------------------------------------------------------------------
(* The frames, and the browser *)

LEMMA ToTail ==
  ASSUME NEW v, NEW k, NEW s, s # <<>>, AllTo(v, k, s)
  PROVE AllTo(v, k, Tail(s)) /\ ToWeb(v, k, Head(s))
<1>1. IsSeq(s) BY DEF AllTo
<1>2. 1 \in DOMAIN s /\ Head(s) = s[1] /\ IsSeq(Tail(s))
      /\ \A i \in DOMAIN Tail(s) : i + 1 \in DOMAIN s /\ Tail(s)[i] = s[i + 1]
  BY <1>1, HeadTail
<1> QED BY <1>2 DEF AllTo

LEMMA OfTail ==
  ASSUME NEW v, NEW k, NEW s, s # <<>>, AllOf(v, k, s)
  PROVE AllOf(v, k, Tail(s)) /\ OfWeb(v, k, Head(s))
<1>1. IsSeq(s) BY DEF AllOf
<1>2. 1 \in DOMAIN s /\ Head(s) = s[1] /\ IsSeq(Tail(s))
      /\ \A i \in DOMAIN Tail(s) : i + 1 \in DOMAIN s /\ Tail(s)[i] = s[i + 1]
  BY <1>1, HeadTail
<1> QED BY <1>2 DEF AllOf

LEMMA OfOne ==
  ASSUME NEW v, NEW k, NEW f, OfWeb(v, k, f) PROVE AllOf(v, k, <<f>>)
  BY OneIsSeq DEF AllOf

LEMMA OfNone == ASSUME NEW v, NEW k PROVE AllOf(v, k, <<>>) /\ AllTo(v, k, <<>>)
  BY EmptyIsSeq DEF AllOf, AllTo

LEMMA OfBoth ==
  ASSUME NEW v, NEW k, NEW s, NEW t, AllOf(v, k, s), AllOf(v, k, t) PROVE AllOf(v, k, s \o t)
<1>1. IsSeq(s) /\ IsSeq(t) BY DEF AllOf
<1>2. IsSeq(s \o t) BY <1>1, Concat
<1>3. ASSUME NEW i \in DOMAIN (s \o t) PROVE OfWeb(v, k, (s \o t)[i])
  <2>1. CASE \E j \in DOMAIN s : (s \o t)[i] = s[j]
    <3>1. PICK j \in DOMAIN s : (s \o t)[i] = s[j] BY <2>1
    <3> QED BY <3>1, Zenon DEF AllOf
  <2>2. CASE \E j \in DOMAIN t : (s \o t)[i] = t[j]
    <3>1. PICK j \in DOMAIN t : (s \o t)[i] = t[j] BY <2>2
    <3> QED BY <3>1, Zenon DEF AllOf
  <2> QED BY <1>1, <2>1, <2>2, InConcat
<1> QED BY <1>2, <1>3 DEF AllOf

(* More may have been sent since.                                           *)
LEMMA StillFits ==
  ASSUME NEW v, NEW k \in Nat
  PROVE /\ \A f : ToWeb(v, k, f) => ToWeb(v, k + 1, f)
        /\ \A f : OfWeb(v, k, f) => OfWeb(v, k + 1, f)
  BY DEF ToWeb, Tells, IsPage, OfWeb, Asks, IsRequest

LEMMA StillServes ==
  ASSUME NEW v, NEW k \in Nat, NEW n, NEW s, NEW r, Serves(v, k, n), AllTo(v, k, s), AllOf(v, k, r)
  PROVE Serves(v, k + 1, n) /\ AllTo(v, k + 1, s) /\ AllOf(v, k + 1, r)
<1>1. AllTo(v, k + 1, s) /\ AllTo(v, k + 1, n.tx) /\ AllTo(v, k + 1, n.txbuff1)
  BY StillFits DEF AllTo, Serves
<1>2. AllOf(v, k + 1, r) BY StillFits DEF AllOf
<1> QED BY <1>1, <1>2 DEF Serves

(* What a browser has to send.                                              *)
LEMMA Script ==
  ASSUME NEW v, VisitOK(v), NEW out \in {Asking(v), Append(Asking(v), "FIN")}
  PROVE \/ v.port = DAYPORT /\ out \in {<<"SYN">>, <<"SYN", "FIN">>}
        \/ /\ v.port = HTTPORT
           /\ \E name : /\ v.request = <<name>> /\ name \notin {"SYN", "FIN"}
                        /\ out \in {<<"SYN", name>>, <<"SYN", name, "FIN">>}
<1>1. CASE v.port = DAYPORT /\ v.request = <<>>
  <2>1. Asking(v) = <<"SYN">> BY <1>1 DEF Asking
  <2>2. Append(<<"SYN">>, "FIN") = <<"SYN", "FIN">> BY OneAndOne
  <2> QED BY <1>1, <2>1, <2>2
<1>2. ASSUME NEW name, v.port = HTTPORT, v.request = <<name>>, name \notin {"SYN", "FIN"}
      PROVE /\ v.port = HTTPORT /\ v.request = <<name>> /\ name \notin {"SYN", "FIN"}
            /\ out \in {<<"SYN", name>>, <<"SYN", name, "FIN">>}
  <2>1. <<"SYN">> \o <<name>> = <<"SYN", name>> BY OneAndOne
  <2>2. Asking(v) = <<"SYN", name>> BY <1>2, <2>1 DEF Asking
  <2>3. Append(<<"SYN", name>>, "FIN") = <<"SYN", name, "FIN">> BY TwoAndOne
  <2> QED BY <1>2, <2>2, <2>3
<1> QED BY <1>1, <1>2 DEF VisitOK

LEMMA OneUnit ==
  ASSUME NEW u, u \notin {"SYN", "FIN"} PROVE Data(<<u>>) = <<u>>
<1>1. Len(<<u>>) = 1 /\ <<u>>[1] = u /\ <<u>> # <<>> OBVIOUS
<1>2. SubSeq(<<u>>, 1, 1) = <<u>>
  <2> DEFINE t == <<u>>
  <2>1. t \in Seq({u}) /\ 1 \in 1 .. Len(t) /\ t[1] = u OBVIOUS
  <2> HIDE DEF t
  <2>2. SubSeq(t, 1, 1) = <<t[1]>> BY <2>1, OneCut
  <2>3. SubSeq(t, 1, 1) = <<u>> BY <2>1, <2>2
  <2> QED BY <2>3 DEF t
<1> QED BY <1>1, <1>2 DEF Data

LEMMA NoUnit == Data(<<>>) = <<>>
<1>1. Len(<<>>) = 0 /\ SubSeq(<<>>, 1, 0) = <<>> OBVIOUS
<1> QED BY <1>1 DEF Data

LEMMA OutIsSeq ==
  ASSUME NEW v, VisitOK(v), NEW out \in {Asking(v), Append(Asking(v), "FIN")}
  PROVE \E S : out \in Seq(S)
<1>1. ASSUME NEW x PROVE <<"SYN">> \in Seq({"SYN", "FIN", x})
  OBVIOUS
<1>2. ASSUME NEW x PROVE <<"SYN", x>> \in Seq({"SYN", "FIN", x})
  OBVIOUS
<1>3. ASSUME NEW x PROVE <<"SYN", x, "FIN">> \in Seq({"SYN", "FIN", x})
  OBVIOUS
<1>4. CASE out \in {<<"SYN">>, <<"SYN", "FIN">>}
  <2>1. out \in Seq({"SYN", "FIN", "FIN"}) BY <1>1, <1>2, <1>4
  <2> QED BY <2>1
<1>5. CASE \E name : out \in {<<"SYN", name>>, <<"SYN", name, "FIN">>}
  <2>1. PICK name : out \in {<<"SYN", name>>, <<"SYN", name, "FIN">>} BY <1>5
  <2>2. out \in Seq({"SYN", "FIN", name}) BY <1>2, <1>3, <2>1
  <2> QED BY <2>2
<1> QED BY <1>4, <1>5, Script

(* A segment with the next unit, or one sent again.                         *)
LEMMA SegmentAsks ==
  ASSUME NEW v, VisitOK(v), NEW w, Browses(v, w), NEW i \in Nat, w.acked < i, i <= w.sent
  PROVE Asks(v, w.sent, Segment(w, i, i))
<1> DEFINE s == Segment(w, i, i)
<1>1. /\ w.out \in {Asking(v), Append(Asking(v), "FIN")} /\ w.chipport = v.port /\ w.iss = 100
      /\ w.rcv \in Nat /\ w.acked \in Nat /\ w.sent \in Nat
      /\ w.sent <= Len(w.out) /\ (w.got = <<>> => w.rcv % 65536 = 0)
      /\ (w.got # <<>> /\ v.port = HTTPORT => w.acked >= 2)
  BY DEF Browses, Browser
<1>2. w.out \in {Asking(v), Append(Asking(v), "FIN")} BY <1>1
<1>3. \E S : w.out \in Seq(S) BY <1>2, OutIsSeq
<1>4. s.dport = v.port /\ s.ack = w.rcv /\ s.seq = 100 + i - 1 /\ s.data = Data(SubSeq(w.out, i, i))
      /\ (w.out[i] = "SYN" => TSYN \in s.flags) /\ (w.out[i] = "FIN" => TFIN \in s.flags)
  BY <1>1 DEF Segment
<1> HIDE DEF s
<1>5. ASSUME w.out[i] \notin {"SYN", "FIN"} PROVE IsRequest(v, w.sent, s)
  <2>1. i \in 1 .. Len(w.out)
    <3>1. PICK S : w.out \in Seq(S) BY <1>3
    <3>2. Len(w.out) \in Nat BY <3>1
    <3> QED BY <1>1, <3>2
  <2>2. \E name : /\ v.port = HTTPORT /\ v.request = <<name>>
                  /\ i = 2 /\ w.out[2] = name
    <3>1. CASE w.out \in {<<"SYN">>, <<"SYN", "FIN">>} BY <1>5, <2>1, <3>1
    <3>2. ASSUME NEW name, w.out \in {<<"SYN", name>>, <<"SYN", name, "FIN">>}
          PROVE i = 2 /\ w.out[2] = name
      <4>1. CASE w.out = <<"SYN", name>> BY <1>5, <2>1, <4>1
      <4>2. CASE w.out = <<"SYN", name, "FIN">> BY <1>5, <2>1, <4>2
      <4> QED BY <3>2, <4>1, <4>2
    <3>3. \/ v.port = DAYPORT /\ w.out \in {<<"SYN">>, <<"SYN", "FIN">>}
          \/ /\ v.port = HTTPORT
             /\ \E name : /\ v.request = <<name>> /\ name \notin {"SYN", "FIN"}
                          /\ w.out \in {<<"SYN", name>>, <<"SYN", name, "FIN">>}
      BY <1>2, Script
    <3> QED BY <3>1, <3>2, <3>3
  <2>3. PICK name : v.port = HTTPORT /\ v.request = <<name>> /\ i = 2 /\ w.out[2] = name
    BY <2>2
  <2>4. w.got = <<>> /\ w.sent >= 2 BY <1>1, <2>3
  <2>5. SubSeq(w.out, i, i) = <<name>>
    <3>1. PICK S : w.out \in Seq(S) BY <1>3
    <3>2. SubSeq(w.out, i, i) = <<w.out[i]>> BY <2>1, <3>1, OneCut
    <3> QED BY <2>3, <3>2
  <2>6. name \notin {"SYN", "FIN"} BY <1>5, <2>3
  <2>7. s.data = <<name>> BY <1>4, <2>5, <2>6, OneUnit
  <2>8. s.seq = 101 BY <1>4, <2>3
  <2>9. s.ack % 65536 = 0 BY <1>1, <1>4, <2>4
  <2> QED BY <2>3, <2>4, <2>7, <2>8, <2>9 DEF IsRequest
<1>6. s.flags \cap {TRST, TSYN, TFIN} = {} => w.out[i] \notin {"SYN", "FIN"}
  BY <1>4
<1> QED BY <1>1, <1>4, <1>5, <1>6 DEF Asks, s

LEMMA AckAsks ==
  ASSUME NEW v, VisitOK(v), NEW w, Browses(v, w), NEW k PROVE Asks(v, k, AckOnly(w))
<1> DEFINE s == Segment(w, w.sent + 1, w.sent)
<1>1. /\ w.out \in {Asking(v), Append(Asking(v), "FIN")} /\ w.chipport = v.port
      /\ w.rcv \in Nat /\ w.sent \in Nat
  BY DEF Browses, Browser
<1>2. SubSeq(w.out, w.sent + 1, w.sent) = <<>>
  <2>1. PICK S : w.out \in Seq(S) BY <1>1, OutIsSeq
  <2> QED BY <1>1, <2>1
<1>3. s.data = <<>> /\ s.ack = w.rcv /\ s.dport = v.port BY <1>1, <1>2, NoUnit DEF Segment
<1> HIDE DEF s
<1>4. Asks(v, k, s) BY <1>1, <1>3 DEF Asks
<1> QED BY <1>4 DEF AckOnly, s

LEMMA ResetAsks == ASSUME NEW v, NEW k, NEW p, NEW s PROVE Asks(v, k, Reset(p, s))
  BY DEF Reset, Asks

(* The browser takes what is for it.                                        *)
LEMMA AckTaken ==
  ASSUME NEW v, NEW w, Browses(v, w), w.rcv # 0, NEW s
  PROVE /\ Browses(v, TakeAck(w, s))
        /\ TakeAck(w, s).sent = w.sent /\ TakeAck(w, s).rcv = w.rcv
        /\ TakeAck(w, s).got = w.got /\ TakeAck(w, s).out = w.out
        /\ TACK \in s.flags /\ s.ack = 102 /\ w.acked <= 2 /\ w.sent >= 2
             => TakeAck(w, s).acked = 2
<1> DEFINE a == s.ack - w.iss
           q == [w EXCEPT !.acked = a]
           r == TakeAck(w, s)
<1>1. Browser(v, w) /\ w.acked \in Nat /\ w.sent \in Nat /\ w.iss = 100
  BY DEF Browses, Browser
<1>2. r = IF TACK \in s.flags /\ a \in w.acked .. w.sent THEN q ELSE w BY DEF TakeAck
<1>3. CASE TACK \in s.flags /\ a \in w.acked .. w.sent
  <2>1. a \in Nat /\ a <= w.sent /\ w.acked <= a BY <1>1, <1>3
  <2>3. /\ DOMAIN q = DOMAIN w /\ q.chipport = w.chipport /\ q.iss = w.iss
        /\ q.acked = a /\ q.sent = w.sent /\ q.rcv = w.rcv /\ q.got = w.got /\ q.out = w.out
    BY <1>1 DEF Browser, WebFields
  <2>4. s.ack = 102 => a = 2 BY <1>1
  <2> HIDE DEF a, q
  <2>2. Browser(v, q) BY <1>1, <2>1, <2>3 DEF Browser
  <2>5. Browses(v, q)
    <3>1. w.got # <<>> /\ v.port = HTTPORT => a >= 2 BY <1>1, <2>1 DEF Browses
    <3> QED BY <2>1, <2>2, <2>3, <3>1 DEF Browses
  <2>6. r = q BY <1>2, <1>3
  <2> HIDE DEF r
  <2>7. Browses(v, r) /\ r.sent = w.sent /\ r.rcv = w.rcv /\ r.got = w.got /\ r.out = w.out
        /\ (s.ack = 102 => r.acked = 2)
    BY <2>3, <2>4, <2>5, <2>6
  <2> QED BY <2>7 DEF r
<1>4. CASE ~(TACK \in s.flags /\ a \in w.acked .. w.sent)
  <2>1. r = w BY <1>2, <1>4
  <2>2. ~(TACK \in s.flags /\ s.ack = 102 /\ w.acked <= 2 /\ w.sent >= 2)
    BY <1>1, <1>4
  <2> HIDE DEF r
  <2> QED BY <2>1, <2>2 DEF r
<1> QED BY <1>3, <1>4

(* A page is taken only once: then the number of the next is another.       *)
LEMMA DataTaken ==
  ASSUME NEW v, VisitOK(v), NEW w, Browses(v, w), w.rcv # 0, NEW s,
         (s.data = <<>> /\ TFIN \notin s.flags) \/ IsPage(v, w.sent, s)
  PROVE LET r == TakeData(TakeAck(w, s), s) IN Browses(v, r) /\ r.sent = w.sent
<1> DEFINE t == TakeAck(w, s)
           r == TakeData(t, s)
           u == Units(s)
           q == [t EXCEPT !.rcv = @ + Len(u), !.got = @ \o u]
<1> SUFFICES Browses(v, r) /\ r.sent = w.sent OBVIOUS
<1>1. Browses(v, t) /\ t.sent = w.sent /\ t.rcv = w.rcv /\ t.got = w.got /\ t.out = w.out
      /\ (TACK \in s.flags /\ s.ack = 102 /\ w.acked <= 2 /\ w.sent >= 2 => t.acked = 2)
  BY AckTaken
<1>2. r = IF s.seq = t.rcv THEN q ELSE t BY DEF TakeData
<1> HIDE DEF t, r
<1>3. Browser(v, t) /\ t.rcv \in Nat /\ t.rcv # 0 /\ t.acked \in Nat
      /\ t.got \in {<<>>, <<PageFor(v), "FIN">>}
  BY <1>1 DEF Browses, Browser
<1>4. CASE s.seq # t.rcv BY <1>1, <1>2, <1>4
<1>5. CASE s.seq = t.rcv /\ s.data = <<>> /\ TFIN \notin s.flags
  <2>1. u = <<>> BY <1>5 DEF Units
  <2>2. t.got \o <<>> = t.got
    <3>1. \E S : t.got \in Seq(S)
      <4>1. ASSUME NEW x, NEW y PROVE <<>> \in Seq({x, y}) /\ <<x, y>> \in Seq({x, y}) OBVIOUS
      <4>2. t.got \in Seq({PageFor(v), "FIN"}) BY <1>3, <4>1
      <4> QED BY <4>2
    <3> QED BY <3>1, ConcatNone
  <2>3. Len(u) = 0 /\ t.got \o u = t.got BY <2>1, <2>2
  <2> HIDE DEF u
  <2>4. /\ DOMAIN q = DOMAIN t /\ q.chipport = t.chipport /\ q.iss = t.iss
        /\ q.acked = t.acked /\ q.sent = t.sent /\ q.rcv = t.rcv /\ q.got = t.got
        /\ q.out = t.out
    BY <1>3, <2>3 DEF Browser, WebFields
  <2> HIDE DEF q
  <2>5. Browses(v, q) BY <1>1, <2>4 DEF Browses, Browser
  <2> QED BY <1>1, <1>2, <1>5, <2>4, <2>5
<1>6. CASE s.seq = t.rcv /\ IsPage(v, w.sent, s)
  <2>1. t.got = <<>> BY <1>1, <1>6 DEF IsPage, Browses
  <2>2. u = <<PageFor(v), "FIN">> BY <1>6, OneAndOne DEF IsPage, Units
  <2>3. Len(u) = 2 /\ t.got \o u = <<PageFor(v), "FIN">>
    <3>1. ASSUME NEW x, NEW y PROVE <<>> \o <<x, y>> = <<x, y>>
      <4>1. <<x, y>> \in Seq({x, y}) OBVIOUS
      <4> QED BY <4>1, ConcatNone
    <3> QED BY <2>1, <2>2, <3>1
  <2> HIDE DEF u
  <2>4. t.rcv % 65536 = 0 BY <1>6 DEF IsPage
  <2>5. t.rcv + 2 \in Nat /\ t.rcv + 2 # 0 /\ (t.rcv + 2) % 65536 = 2
    <3>1. PICK x \in Nat : t.rcv = x /\ x % 65536 = 0 BY <1>3, <2>4
    <3>2. x + 2 \in Nat /\ x + 2 # 0 /\ (x + 2) % 65536 = 2 BY <3>1
    <3> QED BY <3>1, <3>2
  <2>6. v.port = HTTPORT => t.acked = 2
    <3> SUFFICES ASSUME v.port = HTTPORT PROVE t.acked = 2 OBVIOUS
    <3>1. s.ack = 102 /\ w.sent >= 2 /\ TACK \in s.flags BY <1>6 DEF IsPage
    <3>2. w.out = Asking(v) /\ w.acked <= w.sent /\ w.sent <= Len(w.out)
          /\ w.acked \in Nat /\ w.sent \in Nat
      BY <1>1, <2>1 DEF Browses, Browser
    <3>3. PICK name : v.request = <<name>> BY DEF VisitOK, HTTPORT, DAYPORT
    <3>4. w.out = <<"SYN", name>> BY <3>2, <3>3, OneAndOne DEF Asking
    <3>5. Len(w.out) = 2 BY <3>4
    <3> QED BY <1>1, <3>1, <3>2, <3>5
  <2>7. /\ DOMAIN q = DOMAIN t /\ q.chipport = t.chipport /\ q.iss = t.iss
        /\ q.acked = t.acked /\ q.sent = t.sent /\ q.out = t.out /\ q.rcv = t.rcv + 2
        /\ q.got = <<PageFor(v), "FIN">>
    BY <1>3, <2>3 DEF Browser, WebFields
  <2> HIDE DEF q
  <2>8. Browser(v, q) BY <1>3, <2>5, <2>7 DEF Browser
  <2>9. <<PageFor(v), "FIN">> # <<>> OBVIOUS
  <2>10. Browses(v, q) BY <1>1, <2>5, <2>6, <2>7, <2>8, <2>9 DEF Browses
  <2> QED BY <1>1, <1>2, <1>6, <2>7, <2>10
<1> QED BY <1>4, <1>5, <1>6

LEMMA PeerRxBrowses ==
  ASSUME NEW v, VisitOK(v), NEW w, Browses(v, w), NEW s, Tells(v, w.sent, s)
  PROVE Browses(v, PeerRx(w, s)) /\ PeerRx(w, s).sent = w.sent
<1> DEFINE down == [w EXCEPT !.up = FALSE]
           t == TakeAck(w, s)
           open == [t EXCEPT !.rcv = s.seq + 1]
<1>1. \/ PeerRx(w, s) \in {w, down}
      \/ /\ TRST \notin s.flags /\ TSYN \in s.flags /\ w.rcv = 0 /\ TACK \in s.flags
         /\ PeerRx(w, s) = open
      \/ /\ TRST \notin s.flags /\ TSYN \notin s.flags /\ w.rcv # 0
         /\ PeerRx(w, s) = TakeData(t, s)
  BY DEF PeerRx
<1>2. Browser(v, w) /\ w.acked \in Nat /\ w.sent \in Nat BY DEF Browses, Browser
<1>3. Browses(v, down) /\ down.sent = w.sent
  <2>1. /\ DOMAIN down = DOMAIN w /\ down.chipport = w.chipport /\ down.iss = w.iss
        /\ down.acked = w.acked /\ down.sent = w.sent /\ down.out = w.out
        /\ down.rcv = w.rcv /\ down.got = w.got
    BY <1>2 DEF Browser, WebFields
  <2> HIDE DEF down
  <2> QED BY <2>1 DEF Browses, Browser
<1>4. CASE /\ TRST \notin s.flags /\ TSYN \in s.flags /\ w.rcv = 0 /\ TACK \in s.flags
           /\ PeerRx(w, s) = open
  <2>1. s.seq \in Nat /\ s.seq % 65536 = 65535 BY <1>4 DEF Tells
  <2>2. s.seq + 1 \in Nat /\ s.seq + 1 # 0 /\ (s.seq + 1) % 65536 = 0 BY <2>1
  <2>3. w.got = <<>> /\ w.out = Asking(v) /\ w.sent <= Len(w.out) /\ w.acked <= w.sent
    BY <1>4 DEF Browses
  <2> DEFINE a == s.ack - w.iss
             p == [w EXCEPT !.acked = a]
  <2>4. Browser(v, t) /\ t.acked <= t.sent /\ t.sent = w.sent /\ t.out = w.out /\ t.got = w.got
    <3>1. t = w \/ (t = p /\ a \in w.acked .. w.sent) BY DEF TakeAck
    <3>2. ASSUME a \in w.acked .. w.sent
          PROVE Browser(v, p) /\ p.acked <= p.sent /\ p.sent = w.sent /\ p.out = w.out
                /\ p.got = w.got
      <4>1. a \in Nat /\ a <= w.sent BY <1>2, <3>2
      <4>2. /\ DOMAIN p = DOMAIN w /\ p.chipport = w.chipport /\ p.iss = w.iss
            /\ p.acked = a /\ p.sent = w.sent /\ p.out = w.out
            /\ p.rcv = w.rcv /\ p.got = w.got
        BY <1>2 DEF Browser, WebFields
      <4> HIDE DEF a, p
      <4> QED BY <1>2, <4>1, <4>2 DEF Browser
    <3> HIDE DEF t, p
    <3> QED BY <1>2, <2>3, <3>1, <3>2
  <2> HIDE DEF t
  <2>5. /\ DOMAIN open = DOMAIN t /\ open.chipport = t.chipport /\ open.iss = t.iss
        /\ open.acked = t.acked /\ open.sent = t.sent /\ open.out = t.out
        /\ open.rcv = s.seq + 1 /\ open.got = t.got
    BY <2>4 DEF Browser, WebFields
  <2> HIDE DEF open
  <2>6. Browser(v, open) BY <2>2, <2>4, <2>5 DEF Browser
  <2>7. Browses(v, open) BY <2>2, <2>3, <2>4, <2>5, <2>6 DEF Browses
  <2> QED BY <1>4, <2>4, <2>5, <2>7
<1>5. CASE /\ TRST \notin s.flags /\ TSYN \notin s.flags /\ w.rcv # 0
           /\ PeerRx(w, s) = TakeData(t, s)
  <2>1. (s.data = <<>> /\ TFIN \notin s.flags) \/ IsPage(v, w.sent, s) BY <1>5 DEF Tells
  <2>2. Browses(v, TakeData(t, s)) /\ TakeData(t, s).sent = w.sent BY <1>5, <2>1, DataTaken
  <2> QED BY <1>5, <2>2
<1> QED BY <1>1, <1>3, <1>4, <1>5

-----------------------------------------------------------------------------
(* The steps again.  What the browser asks for does not change.             *)

Visiting == PageOK(case.visit, web, chip, wire, ring)
StillVisiting == PageOK(case.visit, web', chip', wire', ring')

LEMMA PutOf ==
  ASSUME NEW v, NEW k, AllOf(v, k, ring), NEW frames, AllOf(v, k, frames), Put(frames)
  PROVE AllOf(v, k, ring')
<1>1. ring' = ring \/ ring' = ring \o frames BY DEF Put
<1> QED BY <1>1, OfBoth

(* The browser may have taken the frame, and sends nothing new.             *)
LEMMA AnswerVisits ==
  ASSUME Visiting, chip' = chip, Browses(case.visit, web'), web'.sent = web.sent,
         NEW f, Arrives(f), NEW frames, AllOf(case.visit, web.sent, frames),
         Put(frames) \/ ring' = ring
  PROVE StillVisiting
<1>1. wire # <<>> /\ wire' = Tail(wire) BY DEF Arrives
<1>2. AllTo(case.visit, web.sent, wire') BY <1>1, ToTail DEF Visiting, PageOK
<1>3. AllOf(case.visit, web.sent, ring') BY PutOf DEF Visiting, PageOK
<1> QED BY <1>2, <1>3 DEF Visiting, StillVisiting, PageOK

LEMMA SendVisits ==
  ASSUME Visiting, chip' = chip, web' = web, wire' = wire,
         NEW frames, AllOf(case.visit, web.sent, frames), Put(frames) \/ ring' = frames
  PROVE StillVisiting
<1>1. AllOf(case.visit, web.sent, ring') BY PutOf DEF Visiting, PageOK
<1> QED BY <1>1 DEF Visiting, StillVisiting, PageOK

(* What the other stations send, and what the browser does not send by TCP. *)
LEMMA OthersSend ==
  ASSUME NEW v, NEW k
  PROVE /\ \A f : f.pcol # "ip" \/ f.prot # "tcp" \/ f.sip # "web" => AllOf(v, k, <<f>>)
        /\ \A s : AllOf(v, k, <<FromMail(s)>>)
        /\ \A s : Asks(v, k, s) => AllOf(v, k, <<FromWeb("tcp", s)>>)
<1>1. ASSUME NEW f, f.pcol # "ip" \/ f.prot # "tcp" \/ f.sip # "web"
      PROVE AllOf(v, k, <<f>>)
  BY <1>1, OfOne DEF OfWeb
<1>2. ASSUME NEW s PROVE AllOf(v, k, <<FromMail(s)>>)
  <2>1. FromMail(s).sip # "web" BY DEF FromMail
  <2> QED BY <1>1, <2>1
<1>3. ASSUME NEW s, Asks(v, k, s) PROVE AllOf(v, k, <<FromWeb("tcp", s)>>)
  <2>1. OfWeb(v, k, FromWeb("tcp", s)) BY <1>3 DEF FromWeb, OfWeb
  <2> QED BY <2>1, OfOne
<1> QED BY <1>1, <1>2, <1>3

LEMMA MailVisits ==
  Visiting /\ (MailAccept \/ MailReceive \/ MailSend \/ MailResend) => StillVisiting
<1> SUFFICES ASSUME Visiting, MailAccept \/ MailReceive \/ MailSend \/ MailResend
             PROVE StillVisiting
  OBVIOUS
<1>1. Browses(case.visit, web) BY DEF Visiting, PageOK
<1>2. CASE MailAccept
  <2>1. PICK f : Arrives(f) /\ ring' = ring /\ chip' = chip /\ web' = web
    BY <1>2, ZenonT(30) DEF MailAccept
  <2> QED BY <1>1, <2>1, OfNone, AnswerVisits
<1>3. CASE MailReceive
  <2>1. PICK f, p :
          /\ Arrives(f) /\ chip' = chip /\ web' = web
          /\ \/ Put(Each(FromMail, PeerReply(mail, p, f.body)))
             \/ Put(Each(FromMail, <<Reset(mail, f.body)>>))
    BY <1>3 DEF MailReceive
  <2>2. PICK seq : Put(Each(FromMail, seq)) /\ (seq = <<>> \/ \E x : seq = <<x>>)
    BY <2>1, ReplyIsShort
  <2>3. AllOf(case.visit, web.sent, Each(FromMail, seq))
    <3>1. CASE seq = <<>>
      <4>1. Each(FromMail, seq) = <<>> BY <3>1 DEF Each
      <4> QED BY <4>1, OfNone
    <3>2. CASE \E x : seq = <<x>>
      <4>1. PICK x : seq = <<x>> BY <3>2
      <4>2. Each(FromMail, seq) = <<FromMail(x)>> BY <4>1 DEF Each
      <4> QED BY <4>2, OthersSend
    <3> QED BY <2>2, <3>1, <3>2
  <2> QED BY <1>1, <2>1, <2>2, <2>3, AnswerVisits
<1>4. CASE MailSend
  <2>1. PICK s : Put(<<FromMail(s)>>) /\ chip' = chip /\ web' = web /\ wire' = wire
    BY <1>4 DEF MailSend
  <2> QED BY <2>1, OthersSend, SendVisits
<1>5. CASE MailResend
  <2>1. PICK s : ring' = <<FromMail(s)>> /\ chip' = chip /\ web' = web /\ wire' = wire
    BY <1>5 DEF MailResend
  <2> QED BY <2>1, OthersSend, SendVisits
<1> QED BY <1>2, <1>3, <1>4, <1>5

LEMMA OthersVisit ==
  Visiting /\ (ArpAnswer \/ Probe \/ TimeAnswer \/ LessorReceive) => StillVisiting
<1> SUFFICES ASSUME Visiting, ArpAnswer \/ Probe \/ TimeAnswer \/ LessorReceive
             PROVE StillVisiting
  OBVIOUS
<1>1. Browses(case.visit, web) BY DEF Visiting, PageOK
<1>2. CASE ArpAnswer
  <2>1. PICK f, g : Arrives(f) /\ Put(<<g>>) /\ g.pcol = "arp" /\ chip' = chip /\ web' = web
    BY <1>2 DEF ArpAnswer
  <2>2. AllOf(case.visit, web.sent, <<g>>) BY <2>1, OthersSend
  <2> QED BY <1>1, <2>1, <2>2, AnswerVisits
<1>3. CASE Probe
  <2>1. PICK f \in Probes : Put(<<f>>) /\ chip' = chip /\ web' = web /\ wire' = wire
    BY <1>3 DEF Probe
  <2>2. f.pcol # "ip" \/ f.prot # "tcp" BY <2>1 DEF Probes, FromWeb
  <2>3. AllOf(case.visit, web.sent, <<f>>) BY <2>2, OthersSend
  <2> QED BY <2>1, <2>3, SendVisits
<1>4. CASE TimeAnswer
  <2>1. PICK f, g : Arrives(f) /\ Put(<<g>>) /\ g.prot = "udp" /\ chip' = chip /\ web' = web
    BY <1>4 DEF TimeAnswer
  <2>2. AllOf(case.visit, web.sent, <<g>>) BY <2>1, OthersSend
  <2> QED BY <1>1, <2>1, <2>2, AnswerVisits
<1>5. CASE LessorReceive
  <2>1. PICK f, type, to :
          /\ Arrives(f) /\ chip' = chip /\ web' = web
          /\ Put(<<LeaseReply(type, to)>>) \/ ring' = ring
    BY <1>5 DEF LessorReceive
  <2>2. LeaseReply(type, to).prot = "udp" BY DEF LeaseReply
  <2>3. AllOf(case.visit, web.sent, <<LeaseReply(type, to)>>) BY <2>2, OthersSend
  <2> QED BY <1>1, <2>1, <2>3, AnswerVisits
<1> QED BY <1>2, <1>3, <1>4, <1>5

LEMMA AsideVisits ==
  Visiting /\ (Ignore \/ Lose \/ OtherHost \/ Second \/ LeaseEnds \/ UNCHANGED vars)
    => StillVisiting
<1> SUFFICES ASSUME Visiting,
                    Ignore \/ Lose \/ OtherHost \/ Second \/ LeaseEnds \/ UNCHANGED vars
             PROVE StillVisiting
  OBVIOUS
<1>1. web' = web BY DEF Ignore, Lose, OtherHost, Second, LeaseEnds, vars
<1>2. \/ wire' = wire
      \/ wire # <<>> /\ wire' = Tail(wire)
  BY DEF Ignore, Lose, OtherHost, Second, LeaseEnds, vars, Arrives
<1>3. \/ ring' = ring
      \/ ring # <<>> /\ ring' = Tail(ring)
  BY DEF Ignore, Lose, OtherHost, Second, LeaseEnds, vars
<1>4. AllTo(case.visit, web.sent, wire') /\ AllOf(case.visit, web.sent, ring')
  BY <1>2, <1>3, ToTail, OfTail DEF Visiting, PageOK
<1>5. chip' = chip \/ chip' = [chip EXCEPT !.secdue = TRUE]
  BY DEF Ignore, Lose, OtherHost, Second, LeaseEnds, vars
<1>6. Like(chip, chip')
  <2>1. Like(chip, chip) /\ Like(chip, [chip EXCEPT !.secdue = TRUE]) BY DEF Like
  <2> QED BY <1>5, <2>1
<1>7. Serves(case.visit, web.sent, chip') BY <1>6, LikeServes DEF Visiting, PageOK
<1> QED BY <1>1, <1>4, <1>7 DEF Visiting, StillVisiting, PageOK

LEMMA WebVisits ==
  Visiting /\ (WebOpen \/ WebReceive \/ WebSend \/ WebResend) => StillVisiting
<1> SUFFICES ASSUME Visiting, WebOpen \/ WebReceive \/ WebSend \/ WebResend
             PROVE StillVisiting
  OBVIOUS
<1> DEFINE v == case.visit
<1>1. VisitOK(v) /\ Browses(v, web) /\ Serves(v, web.sent, chip)
      /\ AllTo(v, web.sent, wire) /\ AllOf(v, web.sent, ring)
  BY DEF Visiting, PageOK
<1>2. Browser(v, web) /\ web.sent \in Nat /\ web.acked \in Nat BY <1>1 DEF Browses, Browser
<1>3. CASE WebOpen
  <2>1. web' = [web EXCEPT !.up = TRUE] /\ chip' = chip /\ wire' = wire /\ ring' = ring
    BY <1>3 DEF WebOpen
  <2>2. /\ DOMAIN web' = DOMAIN web /\ web'.chipport = web.chipport /\ web'.iss = web.iss
        /\ web'.acked = web.acked /\ web'.sent = web.sent /\ web'.out = web.out
        /\ web'.rcv = web.rcv /\ web'.got = web.got
    BY <1>2, <2>1 DEF Browser, WebFields
  <2>3. Browses(v, web') BY <1>1, <2>2 DEF Browses, Browser
  <2> QED BY <1>1, <2>1, <2>2, <2>3 DEF StillVisiting, PageOK
<1>4. CASE WebReceive
  <2> DEFINE Sent(b) == FromWeb("tcp", b)
             Q(s) == IF s.dport = web.port /\ s.sport = web.chipport /\ web.up
                     THEN PeerRx(web, s) ELSE web
             fin(q) == [q EXCEPT !.out = Append(@, "FIN")]
             ends(q) == "FIN" \in {q.got[i] : i \in DOMAIN q.got}
                          /\ web.out[Len(web.out)] # "FIN"
  <2>1. PICK f :
          /\ Arrives(f) /\ For(f, "web", "tcp") /\ chip' = chip
          /\ web' = IF ends(Q(f.body)) THEN fin(Q(f.body)) ELSE Q(f.body)
          /\ \/ Put(Each(Sent, PeerReply(web, web', f.body)))
             \/ Put(Each(Sent, <<Reset(web, f.body)>>))
    BY <1>4 DEF WebReceive
  <2> DEFINE s == f.body
             q == Q(s)
  <2>2. Tells(v, web.sent, s)
    <3>1. ToWeb(v, web.sent, f) BY <1>1, <2>1, ToTail DEF Arrives
    <3> QED BY <2>1, <3>1 DEF For, ToWeb
  <2>3. Browses(v, q) /\ q.sent = web.sent BY <1>1, <2>2, PeerRxBrowses
  <2>4. q.out = web.out
    <3>1. TakeAck(web, s).out = web.out BY <1>2 DEF TakeAck, Browser, WebFields
    <3>2. WebFields \subseteq DOMAIN TakeAck(web, s) BY <1>2 DEF TakeAck, Browser
    <3>3. PeerRx(web, s).out = web.out BY <1>2, <3>1, <3>2 DEF PeerRx, TakeData, Browser, WebFields
    <3> QED BY <3>3
  <2>5. web' = IF ends(q) THEN fin(q) ELSE q BY <2>1
  <2>6. ends(q) = ("FIN" \in {q.got[i] : i \in DOMAIN q.got} /\ web.out[Len(web.out)] # "FIN")
        /\ fin(q) = [q EXCEPT !.out = Append(@, "FIN")]
    OBVIOUS
  <2> DEFINE p == fin(q)
             over == ends(q)
  <2> HIDE DEF Q, q, s
  <2>7. ASSUME over PROVE Browses(v, p) /\ p.sent = web.sent
    <3>1. q.got # <<>>
      <4>1. q.got = <<>> => DOMAIN q.got = {} OBVIOUS
      <4> QED BY <2>7, <4>1
    <3>2. web.out = Asking(v)
      <4>1. \E S : Asking(v) \in Seq(S) BY <1>1, OutIsSeq
      <4>2. PICK S : Asking(v) \in Seq(S) BY <4>1
      <4> DEFINE o == Append(Asking(v), "FIN")
      <4>3. Len(o) = Len(Asking(v)) + 1 /\ o[Len(Asking(v)) + 1] = "FIN" BY <4>2
      <4>4. o[Len(o)] = "FIN" BY <4>3
      <4> HIDE DEF o
      <4>5. web.out # o BY <2>7, <4>4
      <4> QED BY <1>2, <4>5 DEF o, Browser
    <3>3. /\ DOMAIN p = DOMAIN q /\ p.chipport = q.chipport /\ p.iss = q.iss
          /\ p.acked = q.acked /\ p.sent = q.sent /\ p.out = Append(Asking(v), "FIN")
          /\ p.rcv = q.rcv /\ p.got = q.got
      BY <2>3, <2>4, <3>2 DEF Browses, Browser, WebFields
    <3>4. Browser(v, q) /\ q.acked <= q.sent /\ q.sent <= Len(Asking(v)) /\ q.sent \in Nat
          /\ (q.rcv = 0 => q.acked = 0 /\ q.got = <<>>) /\ q.rcv % 65536 = 2
          /\ (v.port = HTTPORT => q.acked >= 2)
      BY <2>3, <2>4, <3>1, <3>2 DEF Browses, Browser
    <3>5. q.sent <= Len(Append(Asking(v), "FIN"))
      <4>1. PICK S : Asking(v) \in Seq(S) BY <1>1, OutIsSeq
      <4>2. Len(Append(Asking(v), "FIN")) = Len(Asking(v)) + 1 /\ Len(Asking(v)) \in Nat
        BY <4>1
      <4> QED BY <3>4, <4>2
    <3> HIDE DEF p
    <3>6. Browser(v, p) BY <3>3, <3>4 DEF Browser
    <3>7. Browses(v, p) BY <3>1, <3>3, <3>4, <3>5, <3>6 DEF Browses
    <3> QED BY <2>3, <3>3, <3>7
  <2>8. Browses(v, web') /\ web'.sent = web.sent
    <3>1. web' = IF over THEN p ELSE q BY <2>5
    <3> HIDE DEF over, p
    <3> QED BY <2>3, <2>7, <3>1
  <2>9. \/ PeerReply(web, web', s) = <<>>
        \/ PeerReply(web, web', s) = <<Reset(web, s)>>
        \/ PeerReply(web, web', s) = <<AckOnly(web')>>
    BY DEF PeerReply
  <2>10. ASSUME NEW x, Asks(v, web.sent, x) PROVE AllOf(v, web.sent, Each(Sent, <<x>>))
    <3>1. Each(Sent, <<x>>) = <<FromWeb("tcp", x)>> BY DEF Each
    <3> QED BY <2>10, <3>1, OthersSend
  <2>11. AllOf(v, web.sent, Each(Sent, <<>>))
    <3>1. Each(Sent, <<>>) = <<>> BY DEF Each
    <3> QED BY <3>1, OfNone
  <2>12. PICK frames : AllOf(v, web.sent, frames) /\ Put(frames)
    <3>1. Asks(v, web.sent, Reset(web, s)) BY ResetAsks
    <3>2. Asks(v, web.sent, AckOnly(web')) BY <1>1, <2>8, AckAsks
    <3>3. AllOf(v, web.sent, Each(Sent, <<Reset(web, s)>>)) BY <2>10, <3>1
    <3>4. AllOf(v, web.sent, Each(Sent, <<AckOnly(web')>>)) BY <2>10, <3>2
    <3>5. Put(Each(Sent, PeerReply(web, web', s))) \/ Put(Each(Sent, <<Reset(web, s)>>))
      BY <2>1 DEF s
    <3> HIDE DEF Sent
    <3> QED BY <2>9, <2>11, <3>3, <3>4, <3>5
  <2> QED BY <2>1, <2>8, <2>12, AnswerVisits
<1>5. CASE WebSend
  <2> DEFINE p == [web EXCEPT !.sent = @ + 1]
  <2>1. /\ web' = p /\ Put(<<FromWeb("tcp", Segment(p, p.sent, p.sent))>>)
        /\ chip' = chip /\ wire' = wire /\ web.sent < Len(web.out)
    BY <1>5 DEF WebSend
  <2>2. /\ DOMAIN p = DOMAIN web /\ p.chipport = web.chipport /\ p.iss = web.iss
        /\ p.acked = web.acked /\ p.sent = web.sent + 1 /\ p.out = web.out
        /\ p.rcv = web.rcv /\ p.got = web.got
    BY <1>2 DEF Browser, WebFields
  <2> HIDE DEF p
  <2>3. web.sent + 1 <= Len(web.out)
    <3>1. web.out \in {Asking(v), Append(Asking(v), "FIN")} BY <1>2 DEF Browser
    <3>2. PICK S : web.out \in Seq(S) BY <1>1, <3>1, OutIsSeq
    <3>3. Len(web.out) \in Nat BY <3>2
    <3> QED BY <1>2, <2>1, <3>3
  <2>4. web.acked <= web.sent + 1 /\ web.acked < web.sent + 1 /\ web.sent + 1 \in Nat
    BY <1>1, <1>2 DEF Browses
  <2>5. Browses(v, p) BY <1>1, <1>2, <2>2, <2>3, <2>4 DEF Browses, Browser
  <2>6. Asks(v, p.sent, Segment(p, p.sent, p.sent)) BY <1>1, <2>2, <2>4, <2>5, SegmentAsks
  <2>7. Serves(v, p.sent, chip) /\ AllTo(v, p.sent, wire) /\ AllOf(v, p.sent, ring)
    BY <1>1, <1>2, <2>2, StillServes
  <2>8. AllOf(v, p.sent, ring') BY <2>1, <2>6, <2>7, OthersSend, PutOf
  <2> QED BY <1>1, <2>1, <2>5, <2>7, <2>8 DEF StillVisiting, PageOK
<1>6. CASE WebResend
  <2> DEFINE i == web.acked + 1
  <2>1. /\ ring' = <<FromWeb("tcp", Segment(web, i, i))>> /\ web.acked < web.sent
        /\ chip' = chip /\ wire' = wire /\ web' = web
    BY <1>6 DEF WebResend
  <2>2. i \in Nat /\ web.acked < i /\ i <= web.sent BY <1>2, <2>1
  <2> HIDE DEF i
  <2>3. Asks(v, web.sent, Segment(web, i, i)) BY <1>1, <2>2, SegmentAsks
  <2>4. AllOf(v, web.sent, <<FromWeb("tcp", Segment(web, i, i))>>) BY <2>3, OthersSend
  <2> QED BY <2>1, <2>4, SendVisits
<1> QED BY <1>3, <1>4, <1>5, <1>6

LEMMA PassVisits ==
  ASSUME Visiting, LeaseInv, NEW expired, NEW pressed, Pass(expired, pressed), web' = web
  PROVE StillVisiting
<1> DEFINE v == case.visit
           k == web.sent
           polled == Poll(chip, expired, pressed)
           n == IF overrun \/ ring = <<>> THEN polled ELSE Receive(polled, Head(ring))
<1>1. /\ chip' = [n EXCEPT !.tx = <<>>, !.shown = IF pressed THEN <<>> ELSE @]
      /\ wire' = wire \o n.tx
      /\ ring' = IF overrun \/ ring = <<>> THEN <<>> ELSE Tail(ring)
  BY DEF Pass, InitNet
<1>2. VisitOK(v) /\ Serves(v, k, chip) /\ AllTo(v, k, wire) /\ AllOf(v, k, ring)
  BY DEF Visiting, PageOK
<1>3. Serves(v, k, polled) BY <1>2, PollServes
<1> HIDE DEF polled
<1>4. ASSUME ring # <<>> PROVE Serves(v, k, Receive(polled, Head(ring)))
  <2>1. OfWeb(v, k, Head(ring)) BY <1>2, <1>4, OfTail
  <2>2. Comes(chip, Head(ring)) BY <1>4, ArriveTail DEF LeaseInv, Arrive
  <2>3. Head(ring).pcol \in {"arp", "ip"}
        /\ (Head(ring).pcol = "ip" => Head(ring).prot \in {"icmp", "udp", "tcp"})
    BY <2>2 DEF Comes
  <2> QED BY <1>2, <1>3, <2>1, <2>3, ReceiveServes
<1>5. Serves(v, k, n) BY <1>3, <1>4
<1> HIDE DEF n
<1>6. PICK x : chip' = [n EXCEPT !.tx = <<>>, !.shown = x] BY <1>1
<1>7. DOMAIN chip' = DOMAIN n /\ chip'.tx = <<>> /\ chip'.txbuff1 = n.txbuff1
      /\ chip'.chostip = n.chostip /\ chip'.concount = n.concount
  BY <1>5, <1>6 DEF Serves, ServerFields
<1>8. Serves(v, k, chip') BY <1>5, <1>7, OfNone DEF Serves
<1>9. AllTo(v, k, wire') BY <1>1, <1>2, <1>5, AllToBoth DEF Serves
<1>10. AllOf(v, k, ring') BY <1>1, <1>2, OfNone, OfTail
<1> QED BY <1>8, <1>9, <1>10 DEF Visiting, StillVisiting, PageOK

LEMMA LoopVisits ==
  Visiting /\ LeaseInv /\ (Loop \/ Press \/ \E timer \in {"client", "dhcp", "time"} : Expire(timer))
    => StillVisiting
<1> SUFFICES ASSUME Visiting, LeaseInv,
                    Loop \/ Press \/ \E timer \in {"client", "dhcp", "time"} : Expire(timer)
             PROVE StillVisiting
  OBVIOUS
<1>1. CASE Loop
  <2>1. Pass({}, FALSE) /\ web' = web BY <1>1 DEF Loop
  <2> QED BY <2>1, PassVisits
<1>2. CASE Press
  <2>1. Pass({}, TRUE) /\ web' = web BY <1>2 DEF Press
  <2> QED BY <2>1, PassVisits
<1>3. CASE \E timer \in {"client", "dhcp", "time"} : Expire(timer)
  <2>1. PICK timer : Pass({timer}, FALSE) /\ web' = web BY <1>3 DEF Expire
  <2> QED BY <2>1, PassVisits
<1> QED BY <1>1, <1>2, <1>3

(* The browser keeps the port it asks, and may have none.                   *)
LEMMA SamePort ==
  ASSUME "chipport" \in DOMAIN web, [Next]_vars
  PROVE case' = case /\ "chipport" \in DOMAIN web' /\ web'.chipport = web.chipport
<1>1. case' = case
  BY DEF Next, vars, Loop, Press, Expire, ArpAnswer, MailAccept, MailReceive, MailSend,
     MailResend, WebOpen, WebReceive, WebSend, WebResend, Probe, TimeAnswer, Ignore, Lose,
     LessorReceive, OtherHost, Second, LeaseEnds
<1>2. \/ web' = web \/ WebOpen \/ WebReceive \/ WebSend
  BY DEF Next, vars, Loop, Press, Expire, ArpAnswer, MailAccept, MailReceive, MailSend,
     MailResend, WebResend, Probe, TimeAnswer, Ignore, Lose,
     LessorReceive, OtherHost, Second, LeaseEnds
<1> DEFINE Same(w) == "chipport" \in DOMAIN w /\ w.chipport = web.chipport
<1>3. CASE web' = web BY <1>1, <1>3
<1>4. CASE WebOpen BY <1>1, <1>4 DEF WebOpen
<1>5. CASE WebSend BY <1>1, <1>5 DEF WebSend
<1>6. CASE WebReceive
  <2>1. PICK s, q : q \in {PeerRx(web, s), web}
                    /\ web' \in {q, [q EXCEPT !.out = Append(@, "FIN")]}
    BY <1>6 DEF WebReceive
  <2>2. Same(TakeAck(web, s)) BY DEF TakeAck
  <2>3. Same(TakeData(TakeAck(web, s), s)) BY <2>2 DEF TakeData
  <2>4. Same(PeerRx(web, s)) BY <2>2, <2>3 DEF PeerRx
  <2>5. Same(q) BY <2>1, <2>4
  <2>6. Same(web') BY <2>1, <2>5
  <2> QED BY <1>1, <2>6
<1> QED BY <1>2, <1>3, <1>4, <1>5, <1>6

LEMMA NextPage == PageInv /\ LeaseInv /\ [Next]_vars => PageInv'
<1> SUFFICES ASSUME PageInv, LeaseInv, [Next]_vars PROVE PageInv' OBVIOUS
<1>1. case' = case /\ "chipport" \in DOMAIN web' /\ web'.chipport = web.chipport
      /\ web.chipport = case.visit.port
  BY SamePort DEF PageInv
<1>2. ASSUME case.visit.port # 0 PROVE StillVisiting
  <2>1. Visiting BY <1>2 DEF PageInv, Visiting
  <2> QED BY <2>1, MailVisits, OthersVisit, AsideVisits, WebVisits, LoopVisits DEF Next
<1>3. case.visit.port # 0 => PageOK(case.visit', web', chip', wire', ring')
  BY <1>1, <1>2 DEF StillVisiting
<1> QED BY <1>1, <1>3 DEF PageInv

-----------------------------------------------------------------------------
(* The results *)

(* The node never has an address that the server has not leased to it,      *)
(* whatever is lost or comes late, if the lease is not shorter than the     *)
(* least the node believes in (p16_dhcp.c).                                 *)
THEOREM Leased == LeaseMin <= Lease => (Spec => []AddressLeased)
<1>1. LeaseInv /\ Long => AddressLeased
  BY DEF LeaseInv, NodeOK, InLease, AddressLeased, DhcpStates
<1>2. LeaseInv /\ [Next]_vars => LeaseInv' BY NextLease DEF Holds
<1>3. Long => Long' BY DEF Long
<1>4. Long /\ Spec => [](LeaseInv /\ Long) BY <1>2, <1>3, InitLease, PTL DEF Spec
<1>5. Long = (LeaseMin <= Lease) BY DEF Long
<1>6. Long => (Spec => []AddressLeased) BY <1>1, <1>4, PTL
<1> QED BY <1>5, <1>6

(* A node that has the time client has no mail client, and its time server  *)
(* is behind the router.                                                    *)
TimeAlone ==
    \A c \in Cases : "time" \in c.node.incl => c.node.mailport = 0 /\ "time" \in c.node.far

(* The time client of such a node, once it has a hardware address for the   *)
(* time server, has that of the router, whatever frames came before         *)
(* (p16_time.c check_time).                                                 *)
THEOREM TimeFound == TimeAlone => (Spec => []TimeServerFound)
<1> DEFINE Alone == "time" \in chip.incl => OnlyTime(chip)
<1>1. TimeAlone /\ Init => Alone
  <2> SUFFICES ASSUME TimeAlone, Init, "time" \in chip.incl PROVE OnlyTime(chip) OBVIOUS
  <2>1. PICK c \in Cases : chip = c.node BY DEF Init
  <2>2. chip.mailport = 0 /\ "time" \in chip.far BY <2>1 DEF TimeAlone
  <2>3. PICK incl, far, mailport : chip = PowerUp(incl, far, mailport)
    BY <2>1, ChipNetAssumption
  <2>4. chip.tserver_ip = "time" BY <2>3 DEF PowerUp
  <2> QED BY <2>2, <2>4 DEF OnlyTime
<1>2. Holds /\ Alone => Alone' BY DEF Holds, Constant, OnlyTime
<1>3. LeaseInv /\ [Next]_vars => Holds /\ LeaseInv' BY NextLease DEF Holds
<1>4. LeaseInv /\ Alone => TimeServerFound
  BY DEF LeaseInv, NodeOK, OnlyTime, TimeServerFound, Mac
<1> HIDE DEF Alone
<1>5. TimeAlone /\ Spec => [](LeaseInv /\ Alone)
  BY <1>1, <1>2, <1>3, InitLease, PTL DEF Spec
<1> QED BY <1>4, <1>5, PTL


(* In every case the browser asks nothing, or for what the node has.        *)
Visits == \A c \in Cases : c.visit.port = 0 \/ VisitOK(c.visit)

LEMMA InitPage == Visits /\ Init => PageInv
<1> SUFFICES ASSUME Visits, Init PROVE PageInv OBVIOUS
<1> DEFINE v == case.visit
<1>1. /\ web = [Peer("web", 2000) EXCEPT !.chipport = v.port, !.iss = 100,
                                         !.out = <<"SYN">> \o v.request]
      /\ ring = <<>> /\ wire = <<>> /\ case \in Cases /\ chip = case.node
  BY DEF Init
<1>2. /\ WebFields \subseteq DOMAIN web /\ web.chipport = v.port /\ web.iss = 100
      /\ web.out = Asking(v) /\ web.acked = 0 /\ web.sent = 0 /\ web.rcv = 0 /\ web.got = <<>>
  BY <1>1 DEF Peer, WebFields, Asking
<1>3. ASSUME v.port # 0 PROVE PageOK(v, web, chip, wire, ring)
  <2>1. VisitOK(v) BY <1>1, <1>3 DEF Visits
  <2>2. Browser(v, web) BY <1>2 DEF Browser
  <2>3. 0 <= Len(web.out)
    <3>1. web.out \in {Asking(v), Append(Asking(v), "FIN")} BY <1>2
    <3>2. PICK S : web.out \in Seq(S) BY <2>1, <3>1, OutIsSeq
    <3>3. Len(web.out) \in Nat BY <3>2
    <3> QED BY <3>3
  <2>4. 0 % 65536 = 0 OBVIOUS
  <2>5. Browses(v, web) BY <1>2, <2>2, <2>3, <2>4 DEF Browses
  <2>6. PICK incl, far, mailport : chip = PowerUp(incl, far, mailport)
    BY <1>1, ChipNetAssumption
  <2>7. ServerFields \subseteq DOMAIN chip BY <2>6, ZenonT(30) DEF PowerUp, ServerFields
  <2>8. chip.tx = <<>> /\ chip.txbuff1 = <<>> /\ chip.concount = 0 /\ chip.chostip = "mail"
    BY <2>6 DEF PowerUp
  <2>9. Serves(v, web.sent, chip) BY <2>7, <2>8, OfNone DEF Serves
  <2>10. AllTo(v, web.sent, wire) /\ AllOf(v, web.sent, ring) BY <1>1, OfNone
  <2> QED BY <2>1, <2>5, <2>9, <2>10 DEF PageOK
<1>4. "chipport" \in DOMAIN web BY <1>2 DEF WebFields
<1> QED BY <1>2, <1>3, <1>4 DEF PageInv

(* What the browser has got is its page or nothing.                         *)
LEMMA PageIsAsked == PageInv => PageFits
<1> SUFFICES ASSUME PageInv, web.chipport # 0 PROVE Prefix(Data(web.got), <<Page>>)
  BY DEF PageFits
<1> DEFINE v == case.visit
           page == PageFor(v)
<1>1. /\ VisitOK(v) /\ web.chipport = v.port /\ web.got \in {<<>>, <<page, "FIN">>}
      /\ web.out \in {Asking(v), Append(Asking(v), "FIN")}
  BY DEF PageInv, PageOK, Browses, Browser
<1>2. CASE web.got = <<>>
  <2>1. Data(web.got) = <<>> BY <1>2, NoUnit
  <2>2. <<Page>> \in Seq({Page}) /\ Len(<<Page>>) = 1 /\ Len(<<>>) = 0 OBVIOUS
  <2>3. SubSeq(<<Page>>, 1, 0) = <<>> BY <2>2
  <2> QED BY <2>1, <2>2, <2>3 DEF Prefix
<1>3. CASE web.got = <<page, "FIN">>
  <2>1. page = Page /\ page # "SYN"
    <3>1. CASE v.port = DAYPORT BY <1>1, <3>1 DEF PageFor, Page
    <3>2. ASSUME NEW name, v.port = HTTPORT, v.request = <<name>>, name \notin {"SYN", "FIN"},
                 web.out \in {<<"SYN", name>>, <<"SYN", name, "FIN">>}
          PROVE page = Page /\ page # "SYN"
      BY <1>1, <3>2 DEF PageFor, Page, DAYPORT, HTTPORT
    <3> QED BY <1>1, <3>1, <3>2, Script
  <2> HIDE DEF page
  <2> DEFINE g == <<page, "FIN">>
             o == <<page>>
  <2>2. g \in Seq({page, "FIN"}) /\ Len(g) = 2 /\ g[1] = page /\ g[2] = "FIN" /\ g # <<>>
    OBVIOUS
  <2>3. o \in Seq({page}) /\ Len(o) = 1 /\ o[1] = page OBVIOUS
  <2> HIDE DEF g
  <2>4. SubSeq(g, 1, 1) = o BY <2>2, OneCut
  <2> HIDE DEF o
  <2>5. Data(g) = o BY <2>1, <2>2, <2>4 DEF Data
  <2>6. SubSeq(o, 1, 1) = o
    <3>1. SubSeq(o, 1, 1) = <<o[1]>> BY <2>3, OneCut
    <3> QED BY <2>3, <3>1 DEF o
  <2>7. Prefix(o, o) BY <2>3, <2>6 DEF Prefix
  <2>8. Data(web.got) = o /\ <<Page>> = o BY <1>3, <2>1, <2>5 DEF g, o
  <2> QED BY <2>7, <2>8
<1> QED BY <1>1, <1>2, <1>3

(* A browser that asks for what the node has gets that and no other page,   *)
(* and gets it once, however often its request or the answer is sent again  *)
(* and whoever else the node talks to in between with the same variables    *)
(* (p16_tcp.c tcp_recv).                                                    *)
THEOREM OnePage == Visits => (Spec => []PageFits)
<1>1. PageInv /\ LeaseInv /\ [Next]_vars => PageInv' BY NextPage
<1>2. LeaseInv /\ [Next]_vars => LeaseInv' BY NextLease DEF Holds
<1>3. Visits /\ Spec => [](PageInv /\ LeaseInv)
  BY <1>1, <1>2, InitPage, InitLease, PTL DEF Spec
<1> QED BY <1>3, PageIsAsked, PTL
=============================================================================
