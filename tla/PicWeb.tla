------------------------------- MODULE PicWeb -------------------------------
(* PICWEB: the main loop, the TCP server and the transmitter, with PicRx as *)
(* the receiver, and a computer with some clients at the other end of the   *)
(* line.  The server keeps nothing of a connection: the kind of an answer   *)
(* follows from the segment, and its sequence numbers are those that the    *)
(* segment says the client expects.                                         *)
(* A client's stream is one request, so its sequence numbers are 0 for the  *)
(* SYN, 1 for the request and 2 (for a daytime client 1) for the FIN.  A    *)
(* number of the server's is <<c, n>>: c is the high word, made from the    *)
(* count of connections, n the low word, of which a SYN has 0xffff, or -1.  *)
EXTENDS PicRx

CONSTANTS
    Plans,       \* what each client wants, which are sure to be served, the
                 \* files in the ROM, how many frames may be lost, and the
                 \* pace of the server
    CONCOUNTS    \* the count of connections wraps here

ASSUME WebAssumption == CONCOUNTS \in Nat \ {0}

(* What the clients of a plan may send: a request is sent whole, and an     *)
(* acknowledgment counts the page it is for.                                *)
Counted(p) == 0..2 \cup {Len(p.rom[i].chars) + 1 : i \in DOMAIN p.rom}
Sendable(p) ==
    {f \in [who : DOMAIN p.clients, kind : {"syn", "ack", "get", "fin", "ping", "modem"},
            seq : 0..2, ack : (0 .. CONCOUNTS - 1) \X Counted(p),
            data : {<<>>} \cup {p.clients[c].request : c \in DOMAIN p.clients}] :
       LET wants == p.clients[f.who] IN
       /\ f.kind = "get" => wants.port = "http"
       /\ f.kind = "modem" => wants.port = "modem"
       /\ f.data = IF f.kind = "get" THEN wants.request ELSE <<>>}

ASSUME FramesAssumption ==
    \A p \in Plans : \A f \in Sendable(p) :
        /\ f \in Frames
        /\ f.kind = "modem" <=> f \in Dials
        /\ IF f \in Dials THEN Size(f) < HDR ELSE Size(f) = HDR + Len(f.data)

(* A request is a sequence, of which a browser's begins with a name.        *)
ASSUME PlansAssumption ==
    \A p \in Plans :
        /\ p.rom \in Seq([name : STRING, chars : Seq(STRING)])
        /\ p.trouble \in Nat /\ p.pace \in {"any", "name", "quick"}
        /\ \A c \in DOMAIN p.clients :
              LET r == p.clients[c].request IN
              /\ Len(r) \in Nat /\ r = [i \in 1..Len(r) |-> r[i]]
              /\ p.clients[c].port = "http" => r # <<>> /\ r[1] \in STRING \ {""}

VARIABLES
    plan,
    concount,
    txflag, txi2c,     \* something is to be sent; a file after it
    txbuff, txout,     \* what is to be sent, and how much of it was
    txesc,             \* the static escflag of tx_poll
    romdir, fileidx,   \* the file that is looked for or sent, and the search
    port, rtc,         \* the outputs, and the clock
    hbuf,              \* what the computer has had since the last END
    client,            \* the state of each client, and what it expects next
    pages,             \* the data that each client has had
    trouble            \* how many frames may still be lost

txvars == <<txflag, txi2c, txbuff, txout, txesc, hbuf>>
filevars == <<romdir, fileidx, port, rtc>>
hostvars == <<client, pages, trouble>>
vars == <<rxvars, plan, concount, txvars, filevars, hostvars>>

Clients == DOMAIN plan.clients
Port(c) == plan.clients[c].port
Rom == plan.rom

(* A name that is empty fits any file.  That of a request for the root is   *)
(* Root here, to tell it from that of a second search, which is "".         *)
Root == "/"
Fits(name, i) == name = Root \/ Rom[i].name = name

-----------------------------------------------------------------------------
(* Frames from the computer *)

Frame(c, kind, seq, ack, data) ==
    [who |-> c, kind |-> kind, seq |-> seq, ack |-> ack, data |-> data]

Alone == <<0, 0>>
LastSeq(c) == IF Port(c) = "http" THEN 2 ELSE 1

(* What client c sends first, and again while it has no answer *)
Opening(c) ==
    Frame(c, IF Port(c) \in {"ping", "modem"} THEN Port(c) ELSE "syn", 0, Alone, <<>>)
Ack(c, seq, rcv) == Frame(c, "ack", seq, rcv, <<>>)
Request(c, rcv) == IF Port(c) = "http" THEN <<Frame(c, "get", 1, rcv, plan.clients[c].request)>>
                                       ELSE <<>>
Fin(c, rcv) == Frame(c, "fin", LastSeq(c), rcv, <<>>)

-----------------------------------------------------------------------------
(* Answers.  The headers are one piece; sum stands for the checksum of the  *)
(* data that is to follow, that of a file as the ROM has it.                *)

Hdr(to, flags, seq, ack, sum) ==
    [to |-> to, flags |-> flags, seq |-> seq, ack |-> ack, sum |-> sum]

(* put_ip sends an END at once, the rest is left to tx_poll. *)
Transmit(pieces, file) ==
    /\ txbuff' = pieces /\ txout' = 0 /\ txflag' = TRUE /\ txi2c' = file
    /\ hbuf' = <<>>
    /\ UNCHANGED txesc

put_ack(f, flags, seq, acked) == Transmit(<<Hdr(f.who, flags, seq, acked, <<>>)>>, FALSE)
put_data(f, data, acked) ==
    Transmit(<<Hdr(f.who, {"FIN", "ACK"}, f.ack, acked, <<data[1]>>), data>>, FALSE)
put_page(f, chars, acked) ==
    Transmit(<<Hdr(f.who, {"FIN", "ACK"}, f.ack, acked, chars)>>, TRUE)

-----------------------------------------------------------------------------
(* tcp_rx; seg is the frame of the headers that were read.                  *)

seg == regs[1][1]
Acked == seg.seq + Len(seg.data)

(* Mutant: the flag is cleared when the frame is done with. *)
Done_ClearsFlag ==
    /\ pc' = "loop" /\ rxflag' = FALSE
    /\ UNCHANGED <<queue, in, escflag, rxbuff, rxin, rxcount, modemflag, rdcheck, rxout, regs>>

Done == Proceed /\ pc' = "loop"

(* What is left to read, if the buffer holds rxcount pieces *)
Rest == [i \in 1 .. (IF rxcount > HDR THEN rxcount - HDR ELSE 0) |-> rxbuff[HDR + i]]
Value(piece) == piece[1].data[piece[2] - HDR]

RxSyn ==
    /\ seg.kind = "syn"
    /\ IF Port(seg.who) \in {"day", "http"}
       THEN /\ concount' = (concount + 1) % CONCOUNTS
            /\ put_ack(seg, {"SYN", "ACK"}, <<concount, -1>>, Acked + 1)
       ELSE UNCHANGED concount /\ put_ack(seg, {"RST", "ACK"}, seg.ack, Acked + 1)
    /\ Done /\ UNCHANGED filevars

(* Mutant: the data is acknowledged and the FIN is not. *)
RxFin_NotCounted ==
    /\ seg.kind = "fin"
    /\ put_ack(seg, {"ACK"}, seg.ack, Acked)
    /\ Done /\ UNCHANGED <<concount, filevars>>

RxFin ==
    /\ seg.kind = "fin"
    /\ put_ack(seg, {"ACK"}, seg.ack, Acked + 1)
    /\ Done /\ UNCHANGED <<concount, filevars>>

(* The time goes to the client whose acknowledgment is that of the SYN.  An *)
(* acknowledgment without data gets no answer.                              *)
RxAck ==
    /\ seg.kind \in {"ack", "get"} /\ ~(Port(seg.who) = "http" /\ seg.data # <<>>)
    /\ IF Port(seg.who) = "day" /\ seg.ack[2] = 0 THEN put_data(seg, <<"time", rtc>>, Acked)
       ELSE IF seg.data # <<>> THEN put_ack(seg, {"ACK"}, seg.ack, Acked)
       ELSE UNCHANGED txvars
    /\ Done /\ UNCHANGED <<concount, filevars>>

(* http_rx: the first piece of data is GET with the name. *)
RxHttp ==
    /\ seg.kind = "get" /\ Port(seg.who) = "http"
    /\ IF Rest = <<>>
       THEN put_ack(seg, {"FIN", "ACK"}, seg.ack, Acked) /\ Done /\ UNCHANGED <<romdir, fileidx>>
       ELSE IF Value(Rest[1]) = "$"
       THEN put_data(seg, <<"time", rtc>>, Acked) /\ Done /\ UNCHANGED <<romdir, fileidx>>
       ELSE /\ romdir' = [name |-> Value(Rest[1]), chars |-> <<>>] /\ fileidx' = 0
            /\ Proceed /\ pc' = "find"
            /\ UNCHANGED txvars
    /\ UNCHANGED <<concount, port, rtc>>

(* Mutant: segments are answered while a frame is being sent. *)
Busy_Never == FALSE

Busy == txflag

tcp_rx ==
    /\ pc = "request"
    /\ IF Busy THEN Done /\ UNCHANGED <<concount, txvars, filevars>>
               ELSE RxSyn \/ RxFin \/ RxAck \/ RxHttp
    /\ UNCHANGED <<plan, hostvars>>

(* A ping is answered with its data, which are read a second time to be     *)
(* summed, and a third time to be copied.                                   *)
EchoData == [i \in 1 .. Len(regs) - IPHDR_LEN |-> rxbuff[IPHDR_LEN + i]]

EchoSum ==
    /\ pc = "echo"
    /\ IF txflag THEN Done /\ UNCHANGED txbuff
       ELSE /\ txbuff' = <<Hdr(seg.who, {"ECHO"}, Alone, 0, EchoData)>>
            /\ Proceed /\ pc' = "copy"
    /\ UNCHANGED <<txflag, txi2c, txout, txesc, hbuf>>

EchoCopy ==
    /\ pc = "copy"
    /\ Transmit(txbuff \o [i \in DOMAIN EchoData |-> <<EchoData[i], 0>>], FALSE)
    /\ Done

Echo == (EchoSum \/ EchoCopy) /\ UNCHANGED <<plan, concount, filevars, hostvars>>

-----------------------------------------------------------------------------
(* The search for a file, one entry of the directory at a time.  The form's *)
(* arguments are read from the buffer when it has been found.               *)

Args == {Value(Rest[i]) : i \in 2..Len(Rest)}
Setting(key, old) ==
    IF \E v \in 0..1 : <<key, v>> \in Args THEN CHOOSE v \in 0..1 : <<key, v>> \in Args ELSE old

check_formargs == port' = Setting("out", port) /\ rtc' = Setting("hrs", rtc)

Found ==
    /\ romdir' = [romdir EXCEPT !.chars = Rom[fileidx + 1].chars]
    /\ fileidx' = fileidx + 1
    /\ IF romdir.name # "" THEN check_formargs ELSE UNCHANGED <<port, rtc>>
    /\ put_page(seg, Rom[fileidx + 1].chars, Acked)
    /\ Done

Passed ==
    /\ fileidx' = fileidx + 1
    /\ Proceed /\ pc' = "find"
    /\ UNCHANGED <<romdir, port, rtc, txvars>>

(* The first file is sent instead, if there is one. *)
NotFound ==
    IF romdir.name # ""
    THEN /\ romdir' = [romdir EXCEPT !.name = ""] /\ fileidx' = 0
         /\ Proceed /\ pc' = "find"
         /\ UNCHANGED <<port, rtc, txvars>>
    ELSE /\ put_data(seg, <<"fail", 0>>, Acked)
         /\ Done
         /\ UNCHANGED filevars

find_file ==
    /\ pc = "find"
    /\ IF fileidx = Len(Rom) THEN NotFound
       ELSE IF romdir.name = "" \/ Fits(romdir.name, fileidx + 1) THEN Found
       ELSE Passed
    /\ UNCHANGED <<plan, concount, hostvars>>

-----------------------------------------------------------------------------
(* The computer: what it makes of a frame                                   *)

(* The sum of the data is right if the data are those the sum was made for, *)
(* and in a page each variable is the complement of its twin.               *)
Twins == {<<"#", "|">>, <<"@", "~">>}
Good(frame) ==
    /\ frame # <<>>
    /\ LET data == Tail(frame) IN
       /\ [i \in DOMAIN data |-> data[i][1]] = frame[1].sum
       /\ "ECHO" \notin frame[1].flags =>
             \A i, j \in DOMAIN data :
                <<data[i][1], data[j][1]>> \in Twins => data[i][2] = data[j][2]

(* The client c when it expects what the segment brings *)
Accept(c, h, data) ==
    LET fin == "FIN" \in h.flags
        rcv == <<h.seq[1], h.seq[2] + Len(data) + IF fin THEN 1 ELSE 0>>
    IN /\ client' = [client EXCEPT ![c] = [st |-> IF fin THEN "closing" ELSE @.st, rcv |-> rcv]]
       /\ pages' = [pages EXCEPT ![c] = @ \o data]
       /\ queue' = queue \o IF fin THEN <<Fin(c, rcv)>> ELSE <<>>

NewState(c, st) ==
    client' = [client EXCEPT ![c].st = st] /\ UNCHANGED <<queue, pages>>

Take(h, data) ==
    LET c == h.to
        st == client[c].st
        rcv == client[c].rcv
        start == <<h.seq[1], 0>>
    IN IF h.flags \cap {"ECHO", "OK"} # {}
       THEN IF st = "opening" THEN NewState(c, "done") ELSE UNCHANGED <<queue, client, pages>>
       ELSE
       CASE st = "opening" /\ "RST" \in h.flags -> NewState(c, "refused")
         [] st = "opening" /\ "SYN" \in h.flags ->
               /\ client' = [client EXCEPT ![c] = [st |-> "est", rcv |-> start]]
               /\ queue' = queue \o <<Ack(c, 1, start)>> \o Request(c, start)
               /\ UNCHANGED pages
         [] st = "est" /\ h.seq = rcv -> Accept(c, h, data)
         [] st = "closing" /\ h.seq = rcv /\ h.ack = LastSeq(c) + 1 -> NewState(c, "done")
         [] st \in {"est", "closing"} /\ h.seq # rcv ->
               /\ queue' = Append(queue, Ack(c, LastSeq(c), rcv))
               /\ UNCHANGED <<client, pages>>
         [] OTHER -> UNCHANGED <<queue, client, pages>>

(* The END of a frame reaches the computer, or the frame was spoilt. *)
HostReceive ==
    \/ /\ IF Good(hbuf) THEN Take(hbuf[1], Tail(hbuf)) ELSE UNCHANGED <<queue, client, pages>>
       /\ UNCHANGED trouble
    \/ trouble > 0 /\ trouble' = trouble - 1 /\ UNCHANGED <<queue, client, pages>>

-----------------------------------------------------------------------------
(* tx_poll: one piece of what is to be sent.  Frames for a client whose     *)
(* number is even begin with an escape.                                     *)

NeedsEscape(headers) == headers.to % 2 = 0

TxHeaders ==
    /\ txout < Len(txbuff)
    /\ LET b == txbuff[txout + 1] IN
       IF txout = 0 /\ NeedsEscape(b) /\ ~txesc
       THEN txesc' = TRUE /\ UNCHANGED <<txout, hbuf>>
       ELSE txesc' = FALSE /\ txout' = txout + 1 /\ hbuf' = Append(hbuf, b)
    /\ UNCHANGED <<rxvars, txflag, txi2c, txbuff, romdir, hostvars>>

OpenFile ==
    /\ txout = Len(txbuff) /\ txi2c
    /\ txout' = txout + 1
    /\ UNCHANGED <<rxvars, txflag, txi2c, txbuff, txesc, hbuf, romdir, hostvars>>

(* A variable in the file is replaced, and so is the twin that keeps the    *)
(* sum of the file as it was.                                               *)
Substitute(char) ==
    <<char, CASE char \in {"#", "|"} -> port [] char \in {"@", "~"} -> rtc [] OTHER -> 0>>

tx_file_byte ==
    /\ txout > Len(txbuff) /\ romdir.chars # <<>>
    /\ hbuf' = Append(hbuf, Substitute(Head(romdir.chars)))
    /\ romdir' = [romdir EXCEPT !.chars = Tail(@)]
    /\ UNCHANGED <<rxvars, txflag, txi2c, txbuff, txout, txesc, hostvars>>

AllSent == \/ txout = Len(txbuff) /\ ~txi2c
           \/ txout > Len(txbuff) /\ romdir.chars = <<>>
TxEnd ==
    /\ AllSent
    /\ txflag' = FALSE /\ txi2c' = FALSE /\ txbuff' = <<>> /\ txout' = 0 /\ hbuf' = <<>>
    /\ HostReceive
    /\ UNCHANGED <<in, escflag, rxbuff, rxin, rxcount, rxflag, modemflag, rdcheck,
                   pc, rxout, regs, txesc, romdir>>

tx_poll ==
    /\ pc = "loop" /\ txflag
    /\ TxHeaders \/ OpenFile \/ tx_file_byte \/ TxEnd
    /\ UNCHANGED <<plan, concount, fileidx, port, rtc>>

(* rx_poll: a modem's command is answered when nothing is being sent. *)
rx_poll ==
    /\ pc = "loop" /\ modemflag /\ ~txflag
    /\ modemflag' = FALSE
    /\ LET c == CHOOSE d \in Clients : Port(d) = "modem" IN
       Transmit(<<Hdr(c, {"OK"}, Alone, 0, <<>>)>>, FALSE)
    /\ UNCHANGED <<queue, in, escflag, rxbuff, rxin, rxcount, rxflag, rdcheck, pc, rxout, regs,
                   plan, concount, filevars, hostvars>>

-----------------------------------------------------------------------------
(* The computer and the line *)

Rests == <<in, escflag, rxbuff, rxin, rxcount, rxflag, modemflag, rdcheck, pc, rxout, regs>>

(* A modem is connected before anything else is sent. *)
Start(c) ==
    /\ client[c].st = "idle"
    /\ Port(c) = "modem" \/ \A d \in Clients : Port(d) = "modem" => client[d].st = "done"
    /\ client' = [client EXCEPT ![c].st = "opening"]
    /\ queue' = Append(queue, Opening(c))
    /\ UNCHANGED <<Rests, plan, concount, txvars, filevars, pages, trouble>>

(* What has no answer is sent again, a timer being longer than any exchange *)
(* takes.  A daytime client has nothing to repeat when it is connected.     *)
Again(c) ==
    CASE client[c].st = "opening" -> <<Opening(c)>>
      [] client[c].st = "est" -> Request(c, client[c].rcv)
      [] client[c].st = "closing" -> <<Fin(c, client[c].rcv)>>
      [] OTHER -> <<>>

Quiet == queue = <<>> /\ pc = "loop" /\ ~rxflag /\ ~modemflag /\ ~txflag

Resend(c) ==
    /\ Quiet /\ Again(c) # <<>>
    /\ queue' = queue \o Again(c)
    /\ UNCHANGED <<Rests, plan, concount, txvars, filevars, hostvars>>

(* A timer that is too short *)
Early(c) ==
    /\ ~Quiet /\ trouble > 0 /\ Again(c) # <<>>
    /\ queue' = queue \o Again(c) /\ trouble' = trouble - 1
    /\ UNCHANGED <<Rests, plan, concount, txvars, filevars, client, pages>>

(* A frame that is spoilt on the line is as if it had not been sent. *)
Lose ==
    /\ trouble > 0 /\ queue # <<>> /\ in = 0 /\ ~escflag
    /\ queue' = Tail(queue) /\ trouble' = trouble - 1
    /\ UNCHANGED <<Rests, plan, concount, txvars, filevars, client, pages>>

-----------------------------------------------------------------------------
Init ==
    /\ RxInit
    /\ plan \in Plans
    /\ concount = 0
    /\ txflag = FALSE /\ txi2c = FALSE /\ txbuff = <<>> /\ txout = 0 /\ txesc = FALSE
    /\ romdir = [name |-> "", chars |-> <<>>] /\ fileidx = 0
    /\ port = 0 /\ rtc = 0
    /\ hbuf = <<>>
    /\ client = [c \in Clients |-> [st |-> "idle", rcv |-> Alone]]
    /\ pages = [c \in Clients |-> <<>>]
    /\ trouble = plan.trouble

(* What a plan takes for granted of the server's pace.  The quick have done *)
(* with a frame before the next one reaches what they still have to read,   *)
(* the data of a ping or of a segment, and before it ends.  Others have     *)
(* read the name of the file, but not the form's arguments, when the next   *)
(* one reaches the data; and of the rest nothing is known.                  *)
Waiting == rxflag \/ pc # "loop"
InTime ==
    /\ plan.pace = "quick" /\ Waiting =>
          rxin < IF pc \in {"icmp", "echo", "copy"} THEN IPHDR_LEN ELSE HDR
    /\ plan.pace = "name" /\ pc = "request" => rxin < HDR

Interrupt ==
    /\ \/ RxEscape \/ (RxChar /\ InTime) \/ RxCr
       \/ RxEnd /\ (plan.pace = "quick" => ~Waiting)
    /\ UNCHANGED <<plan, concount, txvars, filevars, hostvars>>

Receive ==
    /\ TakeFrame \/ getch_slip \/ SlipEnd
    /\ UNCHANGED <<plan, concount, txvars, filevars, hostvars>>

Main == Receive \/ tcp_rx \/ Echo \/ find_file

Next ==
    \/ Interrupt \/ Main \/ tx_poll \/ rx_poll
    \/ \E c \in Clients : Start(c) \/ Resend(c) \/ Early(c)
    \/ Lose

Spec == Init /\ [][Next]_vars

(* Characters arrive, the main loop turns, and timers expire. *)
FairSpec ==
    /\ Spec
    /\ WF_vars(Interrupt) /\ WF_vars(Main) /\ WF_vars(tx_poll) /\ WF_vars(rx_poll)
    /\ \A c \in 1..3 : WF_vars(c \in Clients /\ (Start(c) \/ Resend(c)))

-----------------------------------------------------------------------------
(* Properties *)

(* The file that a request asks for, or the first *)
FileFor(name) ==
    LET found == {i \in DOMAIN Rom : Fits(name, i)}
    IN IF found = {} THEN Rom[1].chars ELSE Rom[CHOOSE i \in found : \A j \in found : i <= j].chars

Chars(data) == [i \in DOMAIN data |-> data[i][1]]

Wanted(c) ==
    IF Port(c) = "day" \/ plan.clients[c].request[1] = "$" THEN <<"time">>
    ELSE IF Rom = <<>> THEN <<"fail">>
    ELSE FileFor(plan.clients[c].request[1])

(* The request of c sets the output to v, once and where the buffer holds it *)
Sets(c, v) ==
    LET r == plan.clients[c].request
        says(i, w) == r[i] = <<"out", w>>
    IN \E i \in 2..Len(r) :
          /\ HDR + i <= RXBUFFLEN /\ says(i, v)
          /\ \A j \in 2..Len(r), w \in 0..1 : says(j, w) => w = v

(* Every frame that the server completes is one that the computer takes:    *)
(* headers of one answer with the data they are for, whatever has arrived   *)
(* while it was made, but for a ping of which the next frame has taken the  *)
(* place.  If the server has read the names of files in time, a client that *)
(* has got data has got the page its own request names, all of it, although *)
(* others ask for theirs and settings change meanwhile; and if the server   *)
(* is quick, and has that page, it shows what the request has set.          *)
AnswersWhole ==
    /\ txflag /\ AllSent =>
          Good(hbuf) \/ (plan.pace # "quick" /\ hbuf # <<>> /\ "ECHO" \in hbuf[1].flags)
    /\ \A c \in Clients :
          plan.pace # "any" /\ pages[c] # <<>> =>
             /\ Chars(pages[c]) = Wanted(c)
             /\ plan.pace = "quick" /\ (\E i \in DOMAIN Rom : Fits(plan.clients[c].request[1], i)) =>
                   \A v \in 0..1, i \in DOMAIN pages[c] :
                      pages[c][i][1] \in {"#", "|"} /\ Sets(c, v) => pages[c][i][2] = v

(* Clients that repeat what has no answer get to the end of a connection    *)
(* with their page, by a server that does not know of any.                  *)
Settled(c) ==
    \/ client[c].st = "refused" /\ Port(c) = "other"
    \/ client[c].st = "done" /\ (Port(c) \in {"http", "day"} => pages[c] # <<>>)

Served == <>(\A c \in Clients : c \in plan.sure => Settled(c))
=============================================================================
