------------------------------- MODULE ChipNet -------------------------------
(* A ChipWeb node on its network: a mail server, a browser that also sends  *)
(* pings, an address server and a time server, on one Ethernet segment that *)
(* keeps the order of frames and may lose them.  The node is ChipNode; the  *)
(* stations are not in the repository and are ordinary hosts.               *)
EXTENDS ChipNode

CONSTANTS
    Cases,       \* [node, visit, presses, trouble]: a node as it is when switched
                 \* on, what the browser asks it for ([port, request]), and two
                 \* bounds: times the button is pressed, and frames lost, pings
                 \* and timeouts while frames are under way
    Lease,       \* the lease the address server gives, in seconds
    Messages,    \* messages in the mailbox
    RingSize     \* bound: frames the card holds

ASSUME ChipNetAssumption ==
    /\ Lease \in Nat
    /\ \A c \in Cases : c.node = PowerUp(c.node.incl, c.node.far, c.node.mailport)

VARIABLES
    case,        \* the case looked at
    chip,        \* the node
    ring,        \* frames in the card
    overrun,     \* the card has had to drop a frame
    wire,        \* frames the node has sent
    mail,        \* the mail server's connection
    web,         \* the browser's connection
    lessor,      \* the address server: who has the address, seconds left
    stored,      \* sessions in which a message was accepted
    presses, trouble

vars == <<case, chip, ring, overrun, wire, mail, web, lessor, stored, presses, trouble>>

Mac(n, ip) == IF ip \in n.far THEN Router ELSE ip

-----------------------------------------------------------------------------
(* An ordinary TCP: what it has to send is a sequence of units that starts  *)
(* with SYN, and each unit takes one number.                                *)

Peer(ip, port) ==
    [ip |-> ip, port |-> port, chipport |-> 0, iss |-> 0, up |-> FALSE,
     out |-> <<>>, acked |-> 0, sent |-> 0, rcv |-> 0, got |-> <<>>,
     mode |-> "new"]

(* What is no SYN, which comes first, and no FIN, which comes last          *)
Data(units) ==
    LET first == IF units # <<>> /\ units[1] = "SYN" THEN 2 ELSE 1
        last == IF units # <<>> /\ units[Len(units)] = "FIN" THEN Len(units) - 1 ELSE Len(units)
    IN SubSeq(units, first, last)

Segment(p, i, j) ==
    [sport |-> p.port, dport |-> p.chipport, seq |-> p.iss + i - 1, ack |-> p.rcv,
     flags |-> (IF p.rcv # 0 THEN {TACK} ELSE {})
                \cup (IF i <= j /\ p.out[i] = "SYN" THEN {TSYN} ELSE {})
                \cup (IF i <= j /\ p.out[j] = "FIN" THEN {TFIN} ELSE {}),
     data |-> Data(SubSeq(p.out, i, j))]

AckOnly(p) == Segment(p, p.sent + 1, p.sent)

Reset(p, s) ==
    [sport |-> p.port, dport |-> s.sport, seq |-> s.ack, ack |-> 0,
     flags |-> {TRST}, data |-> <<>>]

(* The units of a segment from the node, a FIN last *)
Units(s) == s.data \o IF TFIN \in s.flags THEN <<"FIN">> ELSE <<>>

TakeAck(p, s) ==
    LET a == s.ack - p.iss
    IN IF TACK \in s.flags /\ a \in p.acked..p.sent THEN [p EXCEPT !.acked = a] ELSE p

TakeData(p, s) ==
    IF s.seq = p.rcv
    THEN [p EXCEPT !.rcv = @ + Len(Units(s)), !.got = @ \o Units(s)] ELSE p

PeerRx(p, s) ==
    CASE TRST \in s.flags ->
           IF s.seq = p.rcv \/ (p.rcv = 0 /\ s.ack = p.iss + 1)
           THEN [p EXCEPT !.up = FALSE] ELSE p
      [] TRST \notin s.flags /\ TSYN \in s.flags ->
           IF p.rcv = 0 /\ TACK \in s.flags /\ s.ack = p.iss + 1
           THEN [TakeAck(p, s) EXCEPT !.rcv = s.seq + 1] ELSE p
      [] OTHER -> IF p.rcv = 0 THEN p ELSE TakeData(TakeAck(p, s), s)

(* Anything that takes up numbers is acknowledged, with the next segment if *)
(* there is something to be sent.                                           *)
PeerReply(p, q, s) ==
    CASE TRST \in s.flags -> <<>>
      [] TRST \notin s.flags /\ (~p.up \/ q.rcv = 0) -> <<Reset(p, s)>>
      [] TRST \notin s.flags /\ p.up /\ q.rcv # 0 ->
           IF q.sent < Len(q.out) \/ (TSYN \notin s.flags /\ Units(s) = <<>>) THEN <<>>
           ELSE <<AckOnly(q)>>

-----------------------------------------------------------------------------
(* The mail server.  It never closes first, except after QUIT.             *)

Replies(out, mode) == [out |-> out, mode |-> mode]

MailAnswers(p, u) ==
    CASE u = "FIN" -> {Replies(IF "FIN" \in {p.out[i] : i \in DOMAIN p.out}
                               THEN <<>> ELSE <<"FIN">>, p.mode)}
      [] p.mode = "data" /\ u # "FIN" ->
           IF u = "message" THEN {Replies(<<Good>>, "done"), Replies(<<Refused>>, "rejected")}
           ELSE {Replies(<<>>, "data")}
      [] p.mode # "data" /\ u = "RCPT" -> {Replies(<<Good>>, "rcpt"), Replies(<<Refused>>, p.mode)}
      [] p.mode # "data" /\ u = "DATA" ->
           IF p.mode = "rcpt" THEN {Replies(<<Go>>, "data")} ELSE {Replies(<<Refused>>, p.mode)}
      [] p.mode # "data" /\ u = "QUIT" -> {Replies(<<Good, "FIN">>, p.mode)}
      [] p.mode # "data" /\ u = "HELO" ->
           {Replies(<<Good>>, p.mode), Replies(<<Part, Rest>>, p.mode)}
      [] p.mode # "data" /\ u \in {Retr(1), Retr(2), Retr(3)} ->
           LET k == CHOOSE i \in 1..3 : u = Retr(i)
           IN {Replies(IF k <= Messages THEN <<Good, Header(k), Dot>> ELSE <<Refused>>, p.mode)}
      [] OTHER -> {Replies(<<Good>>, p.mode)}

Greetings == IF chip.mailport = SMTP_PORT THEN {<<Good>>, <<Good, Good>>, <<Part, Rest>>}
             ELSE {<<Good>>, <<Part, Rest>>}

(* The first line of an answer to RETR comes in a segment of its own *)
OneSegment(p, i, j) ==
    p.port = POP3_PORT => i = j \/ p.out[i] = Header(1) \/ p.out[i] = Part \/ p.out[j] = "FIN"

-----------------------------------------------------------------------------
(* Steps.  What a pass of the loop has sent is on the wire at its end.     *)

Quiet == ring = <<>> /\ wire = <<>>
Trouble == trouble < case.trouble

FromMail(s) == [dst |-> "chip", src |-> Mac(chip, "mail"), pcol |-> "ip",
                sip |-> "mail", dip |-> "chip", prot |-> "tcp", body |-> s]
FromWeb(prot, body) == [dst |-> "chip", src |-> "web", pcol |-> "ip",
                        sip |-> "web", dip |-> "chip", prot |-> prot, body |-> body]
Each(op(_), seq) == [i \in DOMAIN seq |-> op(seq[i])]

(* Frames for which the card has no room are lost, and it says so *)
Put(frames) ==
    LET room == Len(ring) + Len(frames) <= RingSize IN
    /\ ring' = IF room THEN ring \o frames ELSE ring
    /\ overrun' = (overrun \/ ~room)

(* The ring of a card that has just been initialised *)
InitNet == <<>>

(* One pass of the main loop.  After an overrun the card is initialised,   *)
(* which drops what it holds.                                              *)
Pass(expired, pressed) ==
    LET polled == Poll(chip, expired, pressed)
        n == IF overrun \/ ring = <<>> THEN polled ELSE Receive(polled, Head(ring))
    IN /\ chip' = [n EXCEPT !.tx = <<>>, !.shown = IF pressed THEN <<>> ELSE @]
       /\ wire' = wire \o n.tx
       /\ ring' = IF overrun \/ ring = <<>> THEN InitNet ELSE Tail(ring)
       /\ overrun' = FALSE

Loop ==
    /\ overrun \/ ring # <<>> \/ Poll(chip, {}, FALSE) # chip
    /\ Pass({}, FALSE)
    /\ UNCHANGED <<case, mail, web, lessor, stored, presses, trouble>>

Runs(timer) ==
    CASE timer = "client" -> chip.mailport # 0 /\ chip.cstate # CLIENT_INIT
      [] timer = "dhcp" -> "dhcp" \in chip.incl /\ chip.dhcp_state # DHCP_BOUND
      [] timer = "time" -> "time" \in chip.incl /\ chip.net_ok

Expire(timer) ==
    /\ Runs(timer)
    /\ \/ Quiet /\ UNCHANGED trouble
       \/ ~Quiet /\ Trouble /\ trouble' = trouble + 1
    /\ Pass({timer}, FALSE)
    /\ UNCHANGED <<case, mail, web, lessor, stored, presses>>

Press ==
    /\ presses < case.presses /\ chip.mailport # 0 /\ chip.cstate = CLIENT_INIT
    /\ Pass({}, TRUE)
    /\ presses' = presses + 1
    /\ UNCHANGED <<case, mail, web, lessor, stored, trouble>>

(* The frame at the head of the wire gets to its station *)
Arrives(f) == wire # <<>> /\ f = Head(wire) /\ wire' = Tail(wire)
For(f, ip, prot) == f.pcol = "ip" /\ f.prot = prot /\ f.dip = ip /\ f.dst = Mac(chip, ip)

ArpAnswer ==
    \E f \in {wire[i] : i \in {1} \cap DOMAIN wire} :
        /\ Arrives(f) /\ f.pcol = "arp" /\ f.op = "req"
        /\ Put(<<[dst |-> "chip", src |-> f.tip, pcol |-> "arp", op |-> "resp",
                  sip |-> f.tip, tip |-> f.sip]>>)
        /\ UNCHANGED <<case, chip, mail, web, lessor, stored, presses, trouble>>

(* A connection from a new port takes the place of an older one *)
MailAccept ==
    \E f \in {wire[i] : i \in {1} \cap DOMAIN wire}, greeting \in Greetings :
        /\ Arrives(f) /\ For(f, "mail", "tcp")
        /\ f.body.flags = {TSYN} /\ f.body.dport = mail.port
        /\ ~mail.up \/ mail.chipport # f.body.sport
        /\ mail' = [Peer("mail", mail.port) EXCEPT
                      !.up = TRUE, !.chipport = f.body.sport, !.iss = 1000 * presses,
                      !.rcv = f.body.seq + 1, !.out = <<"SYN">> \o greeting]
        /\ UNCHANGED <<case, chip, ring, overrun, web, lessor, stored, presses, trouble>>

MailReceive ==
    \E f \in {wire[i] : i \in {1} \cap DOMAIN wire} :
        LET s == f.body
            mine == s.dport = mail.port /\ s.sport = mail.chipport
            q == IF mine /\ mail.up THEN PeerRx(mail, s) ELSE mail
            new == SubSeq(q.got, Len(mail.got) + 1, Len(q.got))
            fin == Replies(<<>>, "")
        IN /\ Arrives(f) /\ For(f, "mail", "tcp")
           /\ ~(s.flags = {TSYN} /\ s.dport = mail.port /\ (~mail.up \/ mail.chipport # s.sport))
           /\ \E a \in IF new = <<>> THEN {Replies(<<>>, mail.mode)} ELSE MailAnswers(mail, new[1]) :
                LET r == [q EXCEPT !.out = @ \o a.out, !.mode = a.mode]
                IN /\ mail' = r
                   /\ stored' = stored + IF a.mode = "done" /\ mail.mode # "done" THEN 1 ELSE 0
                   /\ Put(Each(FromMail, IF mine THEN PeerReply(mail, r, s) ELSE <<Reset(mail, s)>>))
           /\ UNCHANGED <<case, chip, web, lessor, presses, trouble>>

Sendable(p, from) ==
    {j \in from..Len(p.out) : j <= from + 1 /\ (from = 1 => j = 1)}

MailSend ==
    /\ mail.up /\ mail.sent < Len(mail.out) /\ (mail.sent > 0 => mail.acked > 0)
    /\ \E j \in Sendable(mail, mail.sent + 1) :
        LET p == [mail EXCEPT !.sent = j] IN
        /\ OneSegment(mail, mail.sent + 1, j)
        /\ mail' = p
        /\ Put(<<FromMail(Segment(p, mail.sent + 1, j))>>)
    /\ UNCHANGED <<case, chip, wire, web, lessor, stored, presses, trouble>>

MailResend ==
    /\ mail.up /\ mail.acked < mail.sent /\ Quiet
    /\ \E j \in mail.acked + 1 .. mail.sent :
        /\ OneSegment(mail, mail.acked + 1, j)
        /\ ring' = <<FromMail(Segment(mail, mail.acked + 1, j))>>
    /\ UNCHANGED <<case, chip, overrun, wire, mail, web, lessor, stored, presses, trouble>>

WebOpen ==
    /\ ~web.up /\ web.sent = 0 /\ web.chipport # 0
    /\ web' = [web EXCEPT !.up = TRUE]
    /\ UNCHANGED <<case, chip, ring, overrun, wire, mail, lessor, stored, presses, trouble>>

WebReceive ==
    \E f \in {wire[i] : i \in {1} \cap DOMAIN wire} :
        LET s == f.body
            mine == s.dport = web.port /\ s.sport = web.chipport
            q == IF mine /\ web.up THEN PeerRx(web, s) ELSE web
            ends == "FIN" \in {q.got[i] : i \in DOMAIN q.got} /\ web.out[Len(web.out)] # "FIN"
            r == IF ends THEN [q EXCEPT !.out = Append(@, "FIN")] ELSE q
        IN /\ Arrives(f) /\ For(f, "web", "tcp")
           /\ web' = r
           /\ Put(Each(LAMBDA b : FromWeb("tcp", b),
                       IF mine THEN PeerReply(web, r, s) ELSE <<Reset(web, s)>>))
           /\ UNCHANGED <<case, chip, mail, lessor, stored, presses, trouble>>

WebSend ==
    /\ web.up /\ web.sent < Len(web.out) /\ (web.sent > 0 => web.acked > 0)
    /\ LET p == [web EXCEPT !.sent = @ + 1] IN
        /\ web' = p
        /\ Put(<<FromWeb("tcp", Segment(p, p.sent, p.sent))>>)
    /\ UNCHANGED <<case, chip, wire, mail, lessor, stored, presses, trouble>>

WebResend ==
    /\ web.up /\ web.acked < web.sent /\ Quiet
    /\ ring' = <<FromWeb("tcp", Segment(web, web.acked + 1, web.acked + 1))>>
    /\ UNCHANGED <<case, chip, overrun, wire, mail, web, lessor, stored, presses, trouble>>

(* Another station asks for an echo or for the node's address *)
Probes == {FromWeb("icmp", [type |-> "echo"]),
           FromWeb("udp", [sport |-> 2001, dport |-> ECHOPORT, data |-> "echo"]),
           [dst |-> All, src |-> "web", pcol |-> "arp", op |-> "req",
            sip |-> "web", tip |-> "chip"]}

Probe ==
    /\ Trouble /\ trouble' = trouble + 1
    /\ \E f \in Probes : Put(<<f>>)
    /\ UNCHANGED <<case, chip, wire, mail, web, lessor, stored, presses>>

TimeAnswer ==
    \E f \in {wire[i] : i \in {1} \cap DOMAIN wire} :
        /\ Arrives(f) /\ For(f, "time", "udp")
        /\ Put(<<[dst |-> "chip", src |-> Mac(chip, "time"), pcol |-> "ip", sip |-> "time",
                  dip |-> f.sip, prot |-> "udp",
                  body |-> [sport |-> f.body.dport, dport |-> f.body.sport, data |-> "time"]]>>)
        /\ UNCHANGED <<case, chip, mail, web, lessor, stored, presses, trouble>>

(* Frames that no station takes: answers to probes, wrong addresses *)
Taken(f) ==
    \/ f.pcol = "arp" /\ f.op = "req"
    \/ For(f, "mail", "tcp") \/ For(f, "web", "tcp") \/ For(f, "time", "udp")
    \/ f.pcol = "ip" /\ f.prot = "udp" /\ f.body.dport = DHCPSERVER_PORT

Ignore ==
    \E f \in {wire[i] : i \in {1} \cap DOMAIN wire} :
        /\ Arrives(f) /\ ~Taken(f)
        /\ UNCHANGED <<case, chip, ring, overrun, mail, web, lessor, stored, presses, trouble>>

Lose ==
    /\ Trouble /\ trouble' = trouble + 1
    /\ \/ ring # <<>> /\ ring' = Tail(ring) /\ UNCHANGED wire
       \/ wire # <<>> /\ wire' = Tail(wire) /\ UNCHANGED ring
    /\ UNCHANGED <<case, chip, overrun, mail, web, lessor, stored, presses>>

-----------------------------------------------------------------------------
(* The address server has one address.  Frames take less than a second.    *)

LeaseReply(type, to) ==
    [dst |-> IF to = All THEN All ELSE "chip", src |-> "lessor", pcol |-> "ip",
     sip |-> "lessor", dip |-> to, prot |-> "udp",
     body |-> [sport |-> DHCPSERVER_PORT, dport |-> DHCPCLIENT_PORT,
               data |-> [type |-> type, yiaddr |-> "chip", lease |-> Lease]]]

LessorReceive ==
    \E f \in {wire[i] : i \in {1} \cap DOMAIN wire} :
        /\ Arrives(f) /\ f.pcol = "ip" /\ f.prot = "udp" /\ f.body.dport = DHCPSERVER_PORT
        /\ LET to == IF f.sip = Null THEN All ELSE f.sip
               free == lessor.holder # "other"
           IN IF f.body.data.type = "DISCOVER"
              THEN /\ IF free THEN Put(<<LeaseReply("OFFER", to)>>) ELSE UNCHANGED <<ring, overrun>>
                   /\ UNCHANGED lessor
              ELSE /\ Put(<<LeaseReply(IF free THEN "ACK" ELSE "NAK", to)>>)
                   /\ lessor' = IF free THEN [holder |-> "chip", left |-> Lease] ELSE lessor
        /\ UNCHANGED <<case, chip, mail, web, stored, presses, trouble>>

(* Another host takes the address when it is free, and gives it back *)
OtherHost ==
    /\ "dhcp" \in chip.incl
    /\ \/ lessor.holder = "none" /\ lessor' = [lessor EXCEPT !.holder = "other"]
       \/ lessor.holder = "other" /\ lessor' = [lessor EXCEPT !.holder = "none"]
    /\ UNCHANGED <<case, chip, ring, overrun, wire, mail, web, stored, presses, trouble>>

(* A second of the node's clock: it counts from a tick before the lease was *)
(* given, so a lease ends after the last of its ticks and before the next.  *)
Second ==
    /\ "dhcp" \in chip.incl /\ Quiet /\ ~chip.secdue
    /\ lessor.holder = "chip" => lessor.left > 0
    /\ chip' = [chip EXCEPT !.secdue = TRUE]
    /\ lessor' = [lessor EXCEPT !.left = IF @ > 0 THEN @ - 1 ELSE 0]
    /\ UNCHANGED <<case, ring, overrun, wire, mail, web, stored, presses, trouble>>

LeaseEnds ==
    /\ lessor.holder = "chip" /\ lessor.left = 0
    /\ Quiet /\ chip.dhcp_state # DHCP_INIT
    /\ chip.dhcp_state \in {DHCP_BOUND, DHCP_RENEWING} => ~chip.secdue
    /\ lessor' = [lessor EXCEPT !.holder = "none"]
    /\ UNCHANGED <<case, chip, ring, overrun, wire, mail, web, stored, presses, trouble>>

-----------------------------------------------------------------------------

Init ==
    /\ case \in Cases /\ chip = case.node
    /\ mail = Peer("mail", case.node.mailport)
    /\ web = [Peer("web", 2000) EXCEPT !.chipport = case.visit.port, !.iss = 100,
                                       !.out = <<"SYN">> \o case.visit.request]
    /\ ring = <<>> /\ overrun = FALSE /\ wire = <<>>
    /\ lessor = [holder |-> "none", left |-> 0]
    /\ stored = 0 /\ presses = 0 /\ trouble = 0

Next ==
    \/ Loop \/ Press \/ \E timer \in {"client", "dhcp", "time"} : Expire(timer)
    \/ ArpAnswer \/ MailAccept \/ MailReceive \/ MailSend \/ MailResend
    \/ WebOpen \/ WebReceive \/ WebSend \/ WebResend \/ Probe \/ TimeAnswer
    \/ Ignore \/ Lose \/ LessorReceive \/ OtherHost \/ Second \/ LeaseEnds

Spec == Init /\ [][Next]_vars

-----------------------------------------------------------------------------
Prefix(s, t) == Len(s) <= Len(t) /\ s = SubSeq(t, 1, Len(s))
Smtp == chip.mailport = SMTP_PORT

(* The commands reach the mail server in the order of the dialogue, each    *)
(* once, and the message only if the server has asked for it, whatever is   *)
(* lost or resent, however the replies are cut into segments, and whoever   *)
(* else the node talks to with the same variables (p16_mail.c smtp_client_data, *)
(* p16_tcpc.c tcp_client_recv).                                             *)
CommandsInOrder ==
    Smtp => /\ Prefix(Data(mail.got), Commands \o <<"message", "QUIT">>)
            /\ ("message" \in {mail.got[i] : i \in DOMAIN mail.got})
                    => mail.mode \in {"done", "rejected"}

(* What a user reads from the two LEDs after a session: neither is lit      *)
Shown == chip.cstate = CLIENT_INIT /\ presses > 0 /\ chip.led1 # Lit /\ chip.led2 # Lit

(* When the LEDs show that the mail is sent, the server has accepted the    *)
(* message of that session, and of no session more than one.                *)
SuccessMeansStored == Smtp => stored <= presses /\ (Shown => mail.mode = "done")

(* The headers of the messages in the mailbox are displayed in order and    *)
(* once, and all of them when the LEDs show success (p16_mail.c             *)
(* pop3_client_data).                                                       *)
PopInOrder ==
    chip.mailport = POP3_PORT =>
        /\ Prefix(chip.shown, [k \in 1..Messages |-> Header(k)])
        /\ Shown => Len(chip.shown) = Messages

(* Both kinds of mail dialogue keep their order.                            *)
DialogueInOrder == CommandsInOrder /\ PopInOrder

Page == IF web.chipport = DAYPORT THEN "daytime" ELSE web.out[2]

(* A browser gets one page, the one it asked for, though the server keeps   *)
(* nothing of a connection and answers every copy of a request (p16_tcp.c   *)
(* tcp_recv).                                                               *)
PageFits == web.chipport # 0 => Prefix(Data(web.got), <<Page>>)

(* While the node has an address, the address server has leased it to the   *)
(* node and to nobody else (p16_dhcp.c).                                    *)
AddressLeased ==
    "dhcp" \in chip.incl /\ chip.myip # Null => lessor.holder = "chip"

(* The hardware address to which the time requests go, taken once and kept, *)
(* is that of the router to the time server, though remeth, remip and       *)
(* arp_resp are set by every frame that comes (p16_time.c check_time).      *)
TimeServerFound == chip.tserver_arp_ok => chip.tserver_eth = Mac(chip, "time")
==============================================================================
