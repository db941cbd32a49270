------------------------------ MODULE ChipNode ------------------------------
(* The network node of ChipWeb (ChipWeb/P16Web) on Ethernet: ARP, IP, ICMP,  *)
(* UDP with DHCP and time clients, a TCP server that keeps no connections,   *)
(* and a TCP client that sends or fetches mail.                              *)
(*                                                                           *)
(* The program is one loop with global variables; a node n is a record of    *)
(* them, and each function of the code is an operator from a node to a node. *)
(* remip, remport, locport, rseq, rack, rpdlen and srce (host.eth.srce)      *)
(* belong to the frame received last, whoever sent it, and also say where    *)
(* the next frame goes.  tx holds what this pass of the loop has sent.       *)
(*                                                                           *)
(* A segment's data is a sequence of units, each counted as one byte: a      *)
(* command, a line of a reply (named by its first character), the first part *)
(* of a line or the rest of it, a page.                                      *)
EXTENDS Integers, Sequences

CONSTANTS
    TcpTries,    \* CLIENT_TCP_TRIES, which ARP requests use as well
    Files,       \* names of the files in the ROM, first one first
    LeaseMin,    \* LEASE_MINSECS and LEASE_MAXSECS, in seconds of the model
    LeaseMax

ASSUME LimitsAssumption ==
    /\ TcpTries \in Nat
    /\ Files \in Seq(STRING)
    /\ LeaseMin \in Nat \ {0, 1} /\ LeaseMax \in Nat /\ LeaseMin <= LeaseMax

TFIN == "fin"
TSYN == "syn"
TRST == "rst"
TACK == "ack"

ECHOPORT == 7
DAYPORT == 13
SMTP_PORT == 25
TIMESERVER_PORT == 37
DHCPSERVER_PORT == 67
DHCPCLIENT_PORT == 68
HTTPORT == 80
POP3_PORT == 110
TIMECLIENT_PORT == 1501
MIN_CLIENT_PORT == 1024
MAX_CLIENT_PORT == 5000

CLIENT_SEQ_START == 9999
SERVER_SEQ(count) == 65536 * count + 65535

(* Addresses of stations, and who answers for a host outside the subnet *)
Null == "null"
All == "all"
Router == "router"

-----------------------------------------------------------------------------
(* Sending: the Tx buffers of the card, and the frames *)

InitTxbuff(n, buffnum) == [n EXCEPT !.txbuffnum = buffnum]

(* The frame stays in its buffer of the card *)
Transmit(n, f) ==
    [n EXCEPT !.tx = Append(@, f),
              !.txbuff1 = IF n.txbuffnum = 1 THEN <<f>> ELSE @]

Retransmit(n) == [n EXCEPT !.tx = @ \o n.txbuff1]

PutIp(n, prot, body) ==
    Transmit(n, [dst |-> n.srce, src |-> n.myeth, pcol |-> "ip",
                 sip |-> n.myip, dip |-> n.remip, prot |-> prot, body |-> body])

TcpXmit(n, flags, data) ==
    PutIp(n, "tcp", [sport |-> n.locport, dport |-> n.remport, seq |-> n.rack,
                     ack |-> n.rseq, flags |-> flags, data |-> data])

UdpXmit(n, data) ==
    PutIp(n, "udp", [sport |-> n.locport, dport |-> n.remport, data |-> data])

-----------------------------------------------------------------------------
(* ARP *)

ArpXmit(n, op) ==
    LET m == [InitTxbuff(n, 0) EXCEPT !.srce = IF op = "req" THEN All ELSE @]
    IN Transmit(m, [dst |-> m.srce, src |-> m.myeth, pcol |-> "arp", op |-> op,
                    sip |-> m.myip, tip |-> m.remip])

ArpRecv(n, f) ==
    LET m == [n EXCEPT !.remeth = f.src, !.remip = f.sip] IN
    IF f.tip # n.myip THEN m
    ELSE IF f.op = "req" THEN ArpXmit(m, "resp")
    ELSE [m EXCEPT !.arp_resp = TRUE]

(* Without an address of its own everything is outside the subnet *)
InSubnet(n, ip) == n.myip # Null /\ ip \notin n.far

ArpHost(n, ip) ==
    ArpXmit([n EXCEPT !.remip = IF InSubnet(n, ip) THEN ip ELSE Router], "req")

(* Mutant: the frame received last need not be a response. *)
HostArped_Any(n, ip) == n.remip = IF InSubnet(n, ip) THEN ip ELSE Router

(* router_arp_ok is set nowhere *)
HostArped(n, ip) ==
    n.arp_resp /\ n.remip = IF InSubnet(n, ip) THEN ip ELSE Router

-----------------------------------------------------------------------------
(* The mail dialogues.  A dialogue gives [n, flags, out]: the node, the      *)
(* flags to be sent and the data put into the buffer.                        *)

Dark == "off"
Lit == "on"
Either == "either"   \* the value in which a flashing LED was left is not known

Leds(n, led1, led2) == [n EXCEPT !.led1 = led1, !.led2 = led2]
Says(n, flags, out) == [n |-> n, flags |-> flags, out |-> out]

(* Kinds of line: a good reply, leave to send the message, any refusal, and  *)
(* in a message fetched its headers, text and end.  A line may come in two   *)
(* parts.                                                                    *)
Good == "ok"
Go == "go"
Refused == "no"
Part == "ok.."
Rest == "..ok"
Header(k) == <<"from1", "from2">>[k]
Dot == "."

MAIL_DATA == 4
Commands == <<"HELO", "MAIL", "RCPT", "DATA">>

(* A part without its end is no line *)
HasLine(data) == \E i \in DOMAIN data : data[i] # Part
Kind(data) == IF data[1] = Part THEN Good ELSE data[1]

(* Mutant: a refusal of the message itself is taken for a reply. *)
SmtpClientData_Deaf(n, data) ==
    LET next(cmd) == Says([n EXCEPT !.mstate = @ + 1], {TACK}, <<cmd>>) IN
    IF data = <<>> \/ ~HasLine(data) THEN Says(n, {}, <<>>)
    ELSE CASE n.mstate < MAIL_DATA /\ Kind(data) = Good -> next(Commands[n.mstate + 1])
           [] n.mstate = MAIL_DATA /\ Kind(data) = Go -> next("message")
           [] n.mstate = MAIL_DATA + 1 -> next("QUIT")
           [] n.mstate = MAIL_DATA + 2 ->
                Says(Leds([n EXCEPT !.mstate = @ + 1], Dark, Dark), {TFIN, TACK}, <<>>)
           [] OTHER -> Says(Leds(n, Dark, Lit), {TFIN, TACK}, <<>>)

(* One line of the data is looked at, and of that the first character *)
SmtpClientData(n, data) ==
    LET next(cmd) == Says([n EXCEPT !.mstate = @ + 1], {TACK}, <<cmd>>)
        stay == Says(n, {TACK}, <<>>)
        good == CASE n.mstate < MAIL_DATA -> next(Commands[n.mstate + 1])
                  [] n.mstate = MAIL_DATA + 1 -> next("QUIT")
                  [] n.mstate = MAIL_DATA + 2 ->
                       Says(Leds([n EXCEPT !.mstate = @ + 1], Dark, Dark), {TFIN, TACK}, <<>>)
                  [] OTHER -> stay
    IN IF data = <<>> \/ ~HasLine(data) THEN Says(n, {}, <<>>)
       ELSE CASE Kind(data) = Good -> good
              [] Kind(data) = Go -> IF n.mstate = MAIL_DATA THEN next("message") ELSE stay
              [] OTHER -> Says(Leds(n, Dark, Lit), {TFIN, TACK}, <<>>)

POP_STAT == 3
POP_RETR == 4
POP_DATA == 5
POP_QUIT == 6
Logins == <<"USER", "PASS", "STAT">>
Retr(k) == <<"RETR1", "RETR2", "RETR3">>[k]

(* The lines that data completes, given that a part was left in lbuff *)
Lines(n, data) ==
    LET done == SelectSeq(data, LAMBDA u : u # Part)
    IN [i \in DOMAIN done |-> IF done[i] = Rest \/ (i = 1 /\ n.lbuff) THEN Good ELSE done[i]]

(* In POP_DATA all the lines are read, else the first *)
Pop3ClientData(n, data) ==
    LET lines == Lines(n, data)
        left == IF lines = <<>> THEN n.lbuff \/ data # <<>>
                ELSE n.mstate = POP_DATA /\ data[Len(data)] = Part
        m == [n EXCEPT !.lbuff = left]
        next(cmd) == Says([m EXCEPT !.mstate = @ + 1], {TACK}, <<cmd>>)
        ended == Dot \in {lines[i] : i \in DOMAIN lines}
        shown == SelectSeq(lines, LAMBDA u : u \in {Header(1), Header(2)})
    IN IF lines = <<>> THEN Says(m, IF data = <<>> THEN {} ELSE {TACK}, <<>>)
       ELSE CASE lines[1] # Good /\ n.mstate # POP_DATA ->
                   Says([m EXCEPT !.mstate = POP_QUIT], {TACK}, <<"QUIT">>)
              [] n.mstate = POP_DATA ->
                   Says([m EXCEPT !.shown = @ \o shown,
                                  !.count = IF ended THEN @ + 1 ELSE @,
                                  !.mstate = IF ended THEN POP_RETR ELSE @],
                        {TACK}, IF ended THEN <<Retr(n.count + 1)>> ELSE <<>>)
              [] lines[1] = Good /\ n.mstate = POP_RETR ->
                   Says([m EXCEPT !.mstate = POP_DATA], {TACK}, <<>>)
              [] lines[1] = Good /\ n.mstate < POP_STAT -> next(Logins[n.mstate + 1])
              [] lines[1] = Good /\ n.mstate = POP_STAT ->
                   Says([m EXCEPT !.mstate = POP_RETR, !.count = 1], {TACK}, <<Retr(1)>>)
              [] OTHER -> Says(Leds(m, Dark, Dark), {TFIN, TACK}, <<>>)

-----------------------------------------------------------------------------
(* The TCP client *)

CLIENT_INIT == 0
CLIENT_ARPS == 1
CLIENT_SYNS == 2
CLIENT_EST == 3
CLIENT_LASTACK == 4
CLIENT_FINWT == 5

(* LEDs that flash are in either state; when they stop they stay so *)
NewCstate(n, news) ==
    [n EXCEPT !.cstate = news, !.ctries = TcpTries,
              !.led1 = IF news = CLIENT_ARPS THEN Either ELSE @,
              !.led2 = IF news = CLIENT_EST THEN Either ELSE @]

ClientXmit(n, flags, data) ==
    LET rseq == n.rseq + n.rpdlen
        len == Len(data) + IF flags \cap {TSYN, TFIN} # {} THEN 1 ELSE 0
    IN TcpXmit([n EXCEPT !.rseq = rseq, !.ctack = rseq, !.ctseq = n.rack + len], flags, data)

ClientRstXmit(n) == ClientXmit(InitTxbuff(n, 0), {TRST, TACK}, <<>>)

ClientEst(n, rflags, data) ==
    LET fresh == IF n.rpdlen > 0 THEN NewCstate(n, CLIENT_EST) ELSE n
        said == IF n.remport = SMTP_PORT THEN SmtpClientData(fresh, data)
                ELSE Pop3ClientData(fresh, data)
        closed == NewCstate([said.n EXCEPT !.rpdlen = @ + 1], CLIENT_LASTACK)
    IN CASE TFIN \in rflags -> ClientXmit(closed, {TFIN, TACK}, said.out)
         [] TFIN \notin rflags /\ TFIN \in said.flags ->
              ClientXmit(NewCstate(said.n, CLIENT_FINWT), said.flags, said.out)
         [] OTHER -> IF said.flags = {} THEN said.n
                     ELSE ClientXmit(said.n, said.flags, said.out)

(* Mutant: any segment of the server is taken, not only the next one. *)
InOrder_Ack(n) == n.ctseq = n.rack /\ n.remip = n.chostip

(* Mutant: a segment sent before the last command was received is taken. *)
InOrder_Seq(n) == n.ctack = n.rseq /\ n.remip = n.chostip

(* The segment is the next one and acknowledges all that was sent *)
InOrder(n) == n.ctack = n.rseq /\ n.ctseq = n.rack /\ n.remip = n.chostip

TcpClientRecv(n0, rflags, data) ==
    LET n == InitTxbuff(n0, 1)
        plus1 == [n EXCEPT !.rpdlen = @ + 1]
        connected == NewCstate([ClientXmit(plus1, {TACK}, <<>>) EXCEPT !.mstate = 0],
                               CLIENT_EST)
    IN CASE n.cstate \in {CLIENT_INIT, CLIENT_ARPS} -> ClientRstXmit(n)
         [] n.cstate = CLIENT_SYNS ->
              IF rflags = {TSYN, TACK} /\ n.rack = CLIENT_SEQ_START + 1
              THEN connected ELSE ClientRstXmit(n)
         [] n.cstate = CLIENT_EST /\ InOrder(n) -> ClientEst(n, rflags, data)
         [] n.cstate = CLIENT_LASTACK /\ InOrder(n) ->
              IF rflags = {TACK} THEN NewCstate(n, CLIENT_INIT) ELSE n
         [] n.cstate = CLIENT_FINWT /\ InOrder(n) ->
              IF TFIN \in rflags
              THEN NewCstate(ClientXmit(plus1, {TACK}, <<>>), CLIENT_INIT)
              ELSE IF n.rpdlen > 0 THEN ClientXmit(n, {TACK}, <<>>) ELSE n
         [] OTHER -> n

StartClient(n, hport) ==
    IF n.cstate # CLIENT_INIT THEN n
    ELSE NewCstate(ArpHost(Leds([n EXCEPT !.remport = hport], Lit, Dark), n.chostip),
                   CLIENT_ARPS)

TriesLeft(n) == n.ctries > 0

(* A timeout has expired or not: how long it is is left open *)
CheckClient(n, expired) ==
    LET port == IF n.cport + 1 < MIN_CLIENT_PORT \/ n.cport + 1 >= MAX_CLIENT_PORT
                THEN MIN_CLIENT_PORT ELSE n.cport + 1
        syn == ClientXmit([InitTxbuff(n, 1) EXCEPT !.cport = port, !.locport = port,
                                                   !.rseq = 0, !.rack = CLIENT_SEQ_START],
                          {TSYN}, <<>>)
        less == [n EXCEPT !.ctries = @ - 1]
        reset == IF n.cstate > CLIENT_SYNS THEN ClientRstXmit(n) ELSE n
        stop(m) == NewCstate(m, CLIENT_INIT)
    IN CASE n.cstate = CLIENT_ARPS /\ HostArped(n, n.chostip) -> NewCstate(syn, CLIENT_SYNS)
         [] n.cstate = CLIENT_ARPS /\ ~HostArped(n, n.chostip) /\ expired ->
              IF TriesLeft(n) THEN ArpHost(less, n.chostip)
              ELSE [stop(n) EXCEPT !.led1 = Lit]
         [] n.cstate > CLIENT_ARPS /\ expired ->
              IF TriesLeft(n) THEN Retransmit(less)
              ELSE [stop(reset) EXCEPT !.led2 = Lit]
         [] OTHER -> n

-----------------------------------------------------------------------------
(* The TCP server: what it knows of a connection is in the segment *)

(* The number the client acknowledges says that it has just connected *)
DayRequest(n) == n.locport = DAYPORT /\ n.rack % 65536 = 0

FileArgs == [off |-> Dark, on |-> Lit]

(* Mutant: the comparison of names always fails. *)
Found_First(name) == Files[1]

(* A name that is not in the ROM gets the first file. *)
Found(name) == IF \E i \in DOMAIN Files : Files[i] = name THEN name ELSE Files[1]

(* A form sets both LEDs by the name of the file.  What is no GET gets     *)
(* nothing.                                                                *)
HttpRecv(n, data) ==
    LET name == data[1]
        form == Found(name) = name /\ name \in DOMAIN FileArgs
    IN IF name = Rest THEN Says(n, {TFIN, TACK}, <<>>)
       ELSE Says(IF form THEN Leds(n, FileArgs[name], FileArgs[name]) ELSE n,
                 {TFIN, TACK}, <<Found(name)>>)

TcpServerRecv(n, rflags, data) ==
    LET after == [n EXCEPT !.rseq = @ + n.rpdlen]
        syn == [n EXCEPT !.rseq = @ + 1]
        accept == [syn EXCEPT !.rack = SERVER_SEQ(n.concount), !.concount = @ + 1]
        page == HttpRecv(after, data)
    IN CASE TRST \in rflags -> n
         [] TRST \notin rflags /\ TSYN \in rflags ->
              IF n.locport \in {DAYPORT, HTTPORT}
              THEN TcpXmit(accept, {TSYN, TACK}, <<>>)
              ELSE TcpXmit(syn, {TRST, TACK}, <<>>)
         [] rflags \cap {TRST, TSYN} = {} /\ TFIN \in rflags ->
              TcpXmit([after EXCEPT !.rseq = @ + 1], {TACK}, <<>>)
         [] rflags \cap {TRST, TSYN, TFIN} = {} ->
              IF DayRequest(n) THEN TcpXmit(after, {TFIN, TACK}, <<"daytime">>)
              ELSE IF n.locport = HTTPORT /\ data # <<>>
              THEN TcpXmit(page.n, page.flags, page.out)
              ELSE IF data # <<>> THEN TcpXmit(after, {TACK}, <<>>) ELSE n

TcpRecv(n0, s) ==
    LET head == [n0 EXCEPT !.remport = s.sport, !.locport = s.dport,
                           !.rseq = s.seq, !.rack = s.ack]
        n == InitTxbuff([head EXCEPT !.rpdlen = Len(s.data)], 0)
    IN IF n0.locip # n0.myip THEN head
       ELSE IF s.dport = n.cport THEN TcpClientRecv(n, s.flags, s.data)
       ELSE TcpServerRecv(n, s.flags, s.data)

-----------------------------------------------------------------------------
(* The clients over UDP *)

DHCP_INIT == "init"
DHCP_DISCOVER == "discover"
DHCP_REQUEST == "request"
DHCP_RENEWING == "renewing"
DHCP_BOUND == "bound"

DhcpTx(n) ==
    LET to == IF n.dhcp_state = DHCP_RENEWING
              THEN [n EXCEPT !.srce = n.dhcp_hosteth, !.remip = n.dhcp_hostip]
              ELSE [n EXCEPT !.srce = All, !.remip = All]
        request == n.dhcp_state = DHCP_REQUEST
    IN UdpXmit([to EXCEPT !.locport = DHCPCLIENT_PORT, !.remport = DHCPSERVER_PORT],
               [type |-> IF n.dhcp_state = DHCP_DISCOVER THEN "DISCOVER" ELSE "REQUEST",
                ciaddr |-> n.myip,
                server |-> IF request THEN n.dhcp_hostip ELSE Null,
                wanted |-> IF request THEN n.dhcp_newip ELSE Null])

(* Mutant: only a renewal is tried when the lease has run out. *)
DhcpSecond_Kept(n) ==
    LET secs == n.dhcp_secs + 1 IN
    [n EXCEPT !.dhcp_secs = secs, !.secdue = FALSE,
              !.dhcp_state = IF secs = n.lease_secs \div 2 \/ secs >= n.lease_secs
                             THEN DHCP_RENEWING ELSE @]

(* One second of a lease *)
DhcpSecond(n) ==
    LET secs == n.dhcp_secs + 1 IN
    [n EXCEPT !.dhcp_secs = secs, !.secdue = FALSE,
              !.dhcp_state = IF secs = n.lease_secs \div 2 THEN DHCP_RENEWING
                             ELSE IF secs >= n.lease_secs THEN DHCP_INIT ELSE @]

(* A delay between requests has expired or not.  A second has passed if     *)
(* secdue; the delay before the first request is longer than one.           *)
CheckDhcp(n, expired) ==
    LET asks == n.dhcp_state \in {DHCP_DISCOVER, DHCP_REQUEST, DHCP_RENEWING}
        m == IF n.dhcp_state = DHCP_INIT
             THEN [n EXCEPT !.myip = Null, !.dhcp_secs = 0, !.secdue = TRUE,
                            !.dhcp_state = DHCP_DISCOVER]
             ELSE IF asks /\ expired THEN DhcpTx(n) ELSE n
    IN IF m.dhcp_state \in {DHCP_BOUND, DHCP_RENEWING} /\ m.secdue THEN DhcpSecond(m) ELSE m

(* Refusals are not looked at, nor the transaction, nor the address that is *)
(* acknowledged.                                                            *)
DhcpHandler(n, d) ==
    LET lease == IF d.lease < LeaseMin THEN LeaseMin
                 ELSE IF d.lease > LeaseMax THEN LeaseMax ELSE d.lease IN
    CASE n.dhcp_state = DHCP_DISCOVER /\ d.type = "OFFER" ->
           [n EXCEPT !.dhcp_hosteth = n.srce, !.dhcp_hostip = n.remip,
                     !.dhcp_newip = d.yiaddr, !.dhcp_state = DHCP_REQUEST]
      [] n.dhcp_state \in {DHCP_REQUEST, DHCP_RENEWING} /\ d.type = "ACK" ->
           [n EXCEPT !.lease_secs = lease, !.dhcp_secs = 0, !.myip = n.dhcp_newip,
                     !.dhcp_state = DHCP_BOUND, !.net_ok = TRUE]
      [] OTHER -> n

RequestTime(n) ==
    UdpXmit([InitTxbuff(n, 0) EXCEPT !.remip = n.tserver_ip, !.srce = n.tserver_eth,
                                     !.locport = TIMECLIENT_PORT, !.remport = TIMESERVER_PORT],
            "time?")

CheckTime(n, expired) ==
    CASE n.net_ok /\ ~n.tserver_arp_ok /\ HostArped(n, n.tserver_ip) ->
           RequestTime([n EXCEPT !.tserver_eth = n.remeth, !.tserver_arp_ok = TRUE])
      [] n.net_ok /\ ~n.tserver_arp_ok /\ ~HostArped(n, n.tserver_ip) /\ expired ->
           ArpHost(n, n.tserver_ip)
      [] n.net_ok /\ n.tserver_arp_ok /\ expired -> RequestTime(n)
      [] OTHER -> n

UdpRecv(n0, d) ==
    LET n == InitTxbuff([n0 EXCEPT !.remport = d.sport, !.locport = d.dport], 0) IN
    CASE d.dport = ECHOPORT -> UdpXmit(n, d.data)
      [] d.dport = DAYPORT -> UdpXmit(n, "daytime")
      [] d.dport = DHCPCLIENT_PORT /\ "dhcp" \in n.incl -> DhcpHandler(n, d.data)
      [] d.dport = TIMECLIENT_PORT /\ "time" \in n.incl -> [n EXCEPT !.time = d.data]
      [] OTHER -> n

-----------------------------------------------------------------------------
(* The main loop *)

IcmpRecv(n, d) ==
    IF n.locip = n.myip /\ d.type = "echo" THEN PutIp(n, "icmp", [d EXCEPT !.type = "reply"])
    ELSE n

IpRecv(n, f) == [n EXCEPT !.remip = f.sip, !.locip = f.dip]
IpOk(n, f) == f.dip \in {n.myip, All}

(* A frame from the card: its header sets the address the next frame goes to *)
GetNet(n, f) == [n EXCEPT !.arp_resp = FALSE, !.srce = f.src]

Receive(n, f) ==
    LET m == InitTxbuff(GetNet(n, f), 0)
        ip == IpRecv(m, f)
    IN CASE f.pcol = "arp" -> ArpRecv(m, f)
         [] f.pcol = "ip" /\ ~IpOk(m, f) -> ip
         [] f.pcol = "ip" /\ IpOk(m, f) /\ f.prot = "icmp" -> IcmpRecv(ip, f.body)
         [] f.pcol = "ip" /\ IpOk(m, f) /\ f.prot = "udp" ->
              IF n.incl \cap {"dhcp", "time"} # {} THEN UdpRecv(ip, f.body) ELSE ip
         [] f.pcol = "ip" /\ IpOk(m, f) /\ f.prot = "tcp" ->
              TcpRecv(ip, f.body)

(* What is polled before the card: the timers of the clients that are built *)
(* in, in which expired names those whose time is over, and the button.     *)
Poll(n, expired, pressed) ==
    LET n1 == IF "dhcp" \in n.incl THEN CheckDhcp(n, "dhcp" \in expired) ELSE n
        n2 == IF "time" \in n.incl THEN CheckTime(n1, "time" \in expired) ELSE n1
        n3 == IF n.mailport # 0 THEN CheckClient(n2, "client" \in expired) ELSE n2
    IN IF pressed THEN StartClient(n3, n.mailport) ELSE n3

PowerUp(incl, far, mailport) ==
    [incl |-> incl, far |-> far, mailport |-> mailport, tx |-> <<>>,
     myeth |-> "chip", myip |-> IF "dhcp" \in incl THEN Null ELSE "chip",
     net_ok |-> "dhcp" \notin incl,
     txbuffnum |-> 0, txbuff1 |-> <<>>, srce |-> Null, arp_resp |-> FALSE,
     remeth |-> Null, remip |-> Null, locip |-> Null, remport |-> 0, locport |-> 0,
     rseq |-> 0, rack |-> 0, rpdlen |-> 0, concount |-> 0,
     cport |-> 0, cstate |-> CLIENT_INIT, ctries |-> 0, ctseq |-> 0, ctack |-> 0,
     chostip |-> "mail", mstate |-> 0, lbuff |-> FALSE, count |-> 0, shown |-> <<>>,
     led1 |-> Dark, led2 |-> Dark,
     dhcp_state |-> DHCP_INIT, dhcp_secs |-> 0, lease_secs |-> 0, secdue |-> FALSE,
     dhcp_newip |-> Null, dhcp_hosteth |-> Null, dhcp_hostip |-> Null,
     tserver_ip |-> "time", tserver_eth |-> Null, tserver_arp_ok |-> FALSE,
     time |-> ""]
=============================================================================
