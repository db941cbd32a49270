------------------------------ MODULE NetRing -------------------------------
(* NET.C and its drivers: a program that watches its interfaces (NETMON) or *)
(* passes frames on (ROUTER), the two packet rings between the program and  *)
(* the drivers, and the drivers for NE2000 and 3C509 cards, packet drivers  *)
(* and SLIP on a serial port.  The program and its polls are one thread;    *)
(* packet drivers and serial ports interrupt it between any two steps, and  *)
(* a handler runs to its end.                                               *)
(* A unit of data is <<value, net, n, i>>: the i-th of frame n that arrived *)
(* on the net.  On Ethernet a unit stands for a page of the card, on SLIP   *)
(* for a character, whose value matters.  <<"hdr", net, len, 0>> is a       *)
(* GENHDR in a ring.                                                        *)
EXTENDS Integers, SequencesExt

CONSTANTS
    Setups,      \* of each net the kind, the handle, the frames and what a modem
                 \* sends first; and whether the program passes frames on
    BUFFLEN,     \* units a packet ring holds
    MAXFRAME,    \* units of the longest frame
    MAXSLIP,     \* characters a SLIP buffer holds
    NicPages,    \* receive pages of an NE2000
    FifoLen,     \* units in each FIFO of a 3C509
    RBUFSIZ, TBUFSIZ

ASSUME NetAssumption ==
    /\ {BUFFLEN, MAXFRAME, MAXSLIP, NicPages, FifoLen, RBUFSIZ, TBUFSIZ} \subseteq Nat \ {0}
    /\ MAXFRAME + 2 <= NicPages /\ MAXFRAME <= FifoLen

Nets == {0, 1}
Other(w) == 1 - w
Kinds == {"ne", "3c", "pktd", "slip"}

ASSUME SetupAssumption ==
    \A s \in Setups :
        /\ s.kind \in [Nets -> Kinds] /\ s.forward \in BOOLEAN
        /\ \A w \in Nets :
              /\ s.bytes[w] \in Seq(ToSet(s.bytes[w]))
              /\ \A frame \in ToSet(s.bytes[w]) : frame \in Seq(ToSet(frame)) /\ frame # <<>>

VARIABLES
    setup,       \* the configuration, chosen at the start
    arrived,     \* how many frames have reached each net
    dev,         \* the device, and its driver's data, of each net
    rxpkts, txpkts,
    prog,        \* the program: where it is, and what it holds
    slip,        \* the static variables of receive_slip and do_modem
    got,         \* frames the program has been given
    sent,        \* frames each net has put on its wire
    spoilt,      \* characters that were lost on a serial line
    lost         \* frames that were dropped for want of room, and by resets

vars == <<setup, arrived, dev, rxpkts, txpkts, prog, slip, got, sent, spoilt, lost>>

Kind(w) == setup.kind[w]
Frame(w, n) == [i \in 1..Len(setup.bytes[w][n]) |-> <<setup.bytes[w][n][i], w, n, i>>]
Total(w) == Len(setup.bytes[w])

Ids(units) == {<<units[i][2], units[i][3]>> : i \in DOMAIN units}
Least(a, b) == IF a < b THEN a ELSE b

-----------------------------------------------------------------------------
(* SLIP: a character is a unit, or half of the escape of one, or an END: of *)
(* index 0 before the frame, and one more than its length after it.         *)

End(u, i) == <<"end", u[2], u[3], i>>
Escaped(u) == [u EXCEPT ![1] = IF @ = "end" THEN "eend" ELSE "eesc"]
Unescaped(u) == [u EXCEPT ![1] = CASE @ = "eend" -> "end" [] @ = "eesc" -> "esc" [] OTHER -> @]

Chars(u) == IF u[1] \in {"end", "esc"} THEN <<[u EXCEPT ![1] = "esc"], Escaped(u)>> ELSE <<u>>

(* Mutant: a frame does not begin with an END. *)
put_slip_Once(pack) ==
    FlattenSeq([i \in DOMAIN pack |-> Chars(pack[i])]) \o <<End(Head(pack), Len(pack) + 1)>>

(* The characters of a frame, between two ENDs *)
put_slip(pack) ==
    <<End(Head(pack), 0)>> \o FlattenSeq([i \in DOMAIN pack |-> Chars(pack[i])])
    \o <<End(Head(pack), Len(pack) + 1)>>

ModemOk(w) == <<"ok", w, 0, 0>>

(* One character for the modem: what it has been told, and its answer *)
do_modem(cmd, w, k) ==
    IF k = "cr" \/ (Len(cmd) = 3 /\ cmd[1] = "+")
    THEN [cmd |-> <<>>, answer |-> <<ModemOk(w)>>]
    ELSE [cmd |-> Append(cmd, k), answer |-> <<>>]

(* One turn of receive_slip's loop: static variables s, the buffer of the   *)
(* net w and the character c give their new values, the frame that is       *)
(* complete, if any, and what is to be answered.                            *)
SlipChar(s, buf, w, c) ==
    LET special == IF s.lastw THEN FALSE ELSE c[1] \in {"esc", "end"}
        ended == special /\ c[1] = "end"
        buf1 == IF ended THEN <<>> ELSE buf
        ch == IF s.lastw THEN Unescaped(c) ELSE c
        modem == IF buf1 = <<>> /\ ~(s.modem /\ ~ended)
                 THEN ~special /\ ch[1] \in {"A", "+"}
                 ELSE s.modem /\ ~ended
        told == do_modem(s.cmd, w, ch[1])
    IN [s |-> [lastw |-> special /\ c[1] = "esc", modem |-> modem,
               cmd |-> IF ~special /\ modem THEN told.cmd ELSE s.cmd],
        buf |-> IF special \/ modem \/ Len(buf1) >= MAXSLIP THEN buf1 ELSE Append(buf1, ch),
        frame |-> IF ended THEN buf ELSE <<>>,
        answer |-> IF ~special /\ modem THEN told.answer ELSE <<>>]

SlipInit == [lastw |-> FALSE, modem |-> FALSE, cmd |-> <<>>]

-----------------------------------------------------------------------------
(* Devices.  Page numbers of a card count from RXSTART.                     *)

nicwrap(page) == (page + NicPages) % NicPages

(* curr: the page the card fills next; next: the driver's next_pkt; bnry:   *)
(* the page the card must not fill; ram: the frame stored from a page on.   *)
NicReset(tx) == [curr |-> 1, next |-> 1, bnry |-> NicPages - 1,
                 ram |-> [p \in 0..NicPages - 1 |-> <<>>], overrun |-> FALSE, tx |-> tx]

(* Mutant: the driver keeps its place. *)
resetnic_Warm(card) == [NicReset(card.tx) EXCEPT !.next = card.next]

resetnic(card) == NicReset(card.tx)

(* The card after one call, the frame it gives, and those a reset has lost *)
get_etherne(card) ==
    IF card.overrun
    THEN [card |-> resetnic(card), data |-> <<>>,
          dropped |-> UNION {Ids(card.ram[p]) : p \in 0..NicPages - 1}]
    ELSE IF card.curr # card.next
    THEN LET data == card.ram[card.next]
             next == nicwrap(card.next + Len(data))
         IN [card |-> [card EXCEPT !.next = next, !.bnry = nicwrap(next - 1),
                                   !.ram[card.next] = <<>>],
             data |-> data, dropped |-> {}]
    ELSE [card |-> card, data |-> <<>>, dropped |-> {}]

put_etherne(card, data) == [card EXCEPT !.tx = data]

(* A frame with an error is discarded, and none is given. *)
get_ether3c(card) ==
    IF card.rx = <<>> THEN [card |-> card, data |-> <<>>]
    ELSE [card |-> [card EXCEPT !.rx = Tail(@)],
          data |-> IF Head(card.rx).ok THEN Head(card.rx).data ELSE <<>>]

put_ether3c(card, data) == [card EXCEPT !.tx = Append(@, data)]

(* What is in the FIFO, frame after frame, and whether one more may follow *)
TxRoom(card) == FifoLen - Len(FlattenSeq(card.tx)) >= MAXFRAME

DevInit(w) ==
    CASE Kind(w) = "ne" -> NicReset(<<>>)
      [] Kind(w) = "3c" -> [rx |-> <<>>, tx |-> <<>>, txerr |-> FALSE]
      [] Kind(w) = "pktd" -> [rxlen |-> 0, copying |-> FALSE]
      [] Kind(w) = "slip" ->
            [line |-> setup.dial[w] \o FlattenSeq([n \in 1..Total(w) |-> put_slip(Frame(w, n))]),
             rbuf |-> <<>>, tbuf |-> <<>>, slipbuff |-> <<>>,
             peer |-> [s |-> SlipInit, buf |-> <<>>]]
Init ==
    /\ setup \in Setups
    /\ arrived = [w \in Nets |-> IF Kind(w) = "slip" THEN Total(w) ELSE 0]
    /\ dev = [w \in Nets |-> DevInit(w)]
    /\ rxpkts = <<>> /\ txpkts = <<>>
    /\ prog = [pc |-> "receive", net |-> 0, len |-> 0, hold |-> <<>>]
    /\ slip = SlipInit
    /\ got = <<>> /\ sent = [w \in Nets |-> <<>>]
    /\ spoilt = {} /\ lost = {}

-----------------------------------------------------------------------------
(* The rings *)

Header(w, data) == <<"hdr", w, Len(data), 0>>
Room(ring) == BUFFLEN - Len(ring)

Fits(ring, data) == Room(ring) >= Len(data) + 1

(* What is in the ring after data is put in, as much of it as has room *)
buff_in(ring, data) == ring \o SubSeq(data, 1, Least(Len(data), Room(ring)))

(* A handler stores a frame whole. *)
Interrupt_upcall(w, data) ==
    IF Fits(rxpkts, data)
    THEN rxpkts' = buff_in(buff_in(rxpkts, <<Header(w, data)>>), data) /\ UNCHANGED lost
    ELSE lost' = lost \cup Ids(data) /\ UNCHANGED rxpkts

(* A poll stores the header and then the frame, and may be interrupted      *)
(* between the two.                                                         *)
Poll_upcall(w, data) ==
    IF Fits(rxpkts, data)
    THEN /\ rxpkts' = buff_in(rxpkts, <<Header(w, data)>>)
         /\ prog' = [prog EXCEPT !.pc = "upcall", !.hold = data]
         /\ UNCHANGED lost
    ELSE lost' = lost \cup Ids(data) /\ UNCHANGED <<rxpkts, prog>>

UpcallBody ==
    /\ prog.pc = "upcall"
    /\ rxpkts' = buff_in(rxpkts, prog.hold)
    /\ prog' = [prog EXCEPT !.pc = "rx", !.hold = <<>>]
    /\ UNCHANGED <<setup, arrived, dev, txpkts, slip, got, sent, spoilt, lost>>

(* Mutant: a frame for another driver does not stay in the ring. *)
transmit_upcall_Drop(w) ==
    IF txpkts # <<>>
    THEN [data |-> IF txpkts[1][2] = w THEN SubSeq(txpkts, 2, 1 + txpkts[1][3]) ELSE <<>>,
          rest |-> SubSeq(txpkts, 2 + txpkts[1][3], Len(txpkts))]
    ELSE [data |-> <<>>, rest |-> txpkts]

(* Mutant: any driver takes the oldest frame. *)
transmit_upcall_Any(w) ==
    IF txpkts # <<>>
    THEN [data |-> SubSeq(txpkts, 2, 1 + txpkts[1][3]),
          rest |-> SubSeq(txpkts, 2 + txpkts[1][3], Len(txpkts))]
    ELSE [data |-> <<>>, rest |-> txpkts]

(* The frame a driver is to send, if the oldest in the ring is for it, and  *)
(* what is left in the ring                                                 *)
transmit_upcall(w) ==
    IF txpkts # <<>> /\ txpkts[1][2] = w
    THEN [data |-> SubSeq(txpkts, 2, 1 + txpkts[1][3]),
          rest |-> SubSeq(txpkts, 2 + txpkts[1][3], Len(txpkts))]
    ELSE [data |-> <<>>, rest |-> txpkts]

-----------------------------------------------------------------------------
(* The program: get_net, put_net, and the poll of each net in turn.         *)

Polling == [prog EXCEPT !.pc = "rx", !.net = 0, !.hold = <<>>, !.len = 0]
NextNet == IF prog.net = 0 THEN [prog EXCEPT !.pc = "rx", !.net = 1]
                           ELSE [prog EXCEPT !.pc = "receive", !.net = 0]

(* get_net takes the header; one that is no header empties the ring.        *)
GetHeader ==
    /\ prog.pc = "receive"
    /\ IF rxpkts = <<>>
       THEN prog' = Polling /\ UNCHANGED rxpkts
       ELSE IF rxpkts[1][1] # "hdr"
       THEN prog' = Polling /\ rxpkts' = <<>>
       ELSE /\ prog' = [prog EXCEPT !.pc = "body", !.net = rxpkts[1][2], !.len = rxpkts[1][3]]
            /\ rxpkts' = Tail(rxpkts)
    /\ UNCHANGED <<setup, arrived, dev, txpkts, slip, got, sent, spoilt, lost>>

(* A packet driver sends the frame at once or refuses it. *)
put_pktd(w, data) ==
    \/ sent' = [sent EXCEPT ![w] = Append(@, data)] /\ UNCHANGED lost
    \/ lost' = lost \cup Ids(data) /\ UNCHANGED sent

put_net(w, data) ==
    CASE Kind(w) = "pktd" ->
            /\ put_pktd(w, data)
            /\ prog' = Polling
            /\ UNCHANGED txpkts
      [] Kind(w) \in {"ne", "3c"} ->
            /\ IF Fits(txpkts, data)
               THEN /\ txpkts' = buff_in(txpkts, <<Header(w, data)>> \o data)
                    /\ UNCHANGED lost
               ELSE lost' = lost \cup Ids(data) /\ UNCHANGED txpkts
            /\ prog' = Polling
            /\ UNCHANGED sent
      [] Kind(w) = "slip" ->
            /\ prog' = [prog EXCEPT !.pc = "put", !.net = w, !.len = 0, !.hold = put_slip(data)]
            /\ UNCHANGED <<txpkts, sent, lost>>

(* get_net takes the rest, and the program passes it on or does not. *)
GetBody ==
    /\ prog.pc = "body"
    /\ LET n == Least(prog.len, Len(rxpkts))
           data == SubSeq(rxpkts, 1, n)
       IN /\ rxpkts' = SubSeq(rxpkts, n + 1, Len(rxpkts))
          /\ got' = Append(got, [net |-> prog.net, data |-> data])
          /\ IF setup.forward
             THEN put_net(Other(prog.net), data)
             ELSE prog' = Polling /\ UNCHANGED <<txpkts, sent, lost>>
    /\ UNCHANGED <<setup, arrived, dev, slip, spoilt>>

(* txchar waits for room in the ring of the port. *)
TxChar ==
    /\ prog.pc \in {"put", "answer"}
    /\ IF prog.hold = <<>>
       THEN /\ prog' = IF prog.pc = "put" THEN Polling ELSE [prog EXCEPT !.pc = "rx"]
            /\ UNCHANGED dev
       ELSE /\ Len(dev[prog.net].tbuf) < TBUFSIZ - 1
            /\ dev' = [dev EXCEPT ![prog.net].tbuf = Append(@, Head(prog.hold))]
            /\ prog' = [prog EXCEPT !.hold = Tail(@)]
    /\ UNCHANGED <<setup, arrived, rxpkts, txpkts, slip, got, sent, spoilt, lost>>

-----------------------------------------------------------------------------
(* Polls: one turn of a loop each; net w is the one whose turn it is.  A    *)
(* card's frames are received until it gives none, then frames are sent     *)
(* until it has no room or the oldest in the ring is not for it.            *)

PollNeRx(w) ==
    /\ prog.pc = "rx" /\ prog.net = w /\ Kind(w) = "ne"
    /\ LET r == get_etherne(dev[w]) IN
       /\ dev' = [dev EXCEPT ![w] = r.card]
       /\ IF r.data # <<>> THEN Poll_upcall(w, r.data)
          ELSE /\ prog' = [prog EXCEPT !.pc = "tx"]
               /\ lost' = lost \cup r.dropped
               /\ UNCHANGED rxpkts
    /\ UNCHANGED <<setup, arrived, txpkts, slip, got, sent, spoilt>>

PollNeTx(w) ==
    /\ prog.pc = "tx" /\ prog.net = w /\ Kind(w) = "ne"
    /\ LET ready == dev[w].tx = <<>>
           up == transmit_upcall(w)
       IN /\ txpkts' = IF ready THEN up.rest ELSE txpkts
          /\ IF ready /\ up.data # <<>>
             THEN dev' = [dev EXCEPT ![w] = put_etherne(@, up.data)] /\ UNCHANGED prog
             ELSE prog' = NextNet /\ UNCHANGED dev
    /\ UNCHANGED <<setup, arrived, rxpkts, slip, got, sent, spoilt, lost>>

Poll3cRx(w) ==
    /\ prog.pc = "rx" /\ prog.net = w /\ Kind(w) = "3c"
    /\ LET r == get_ether3c(dev[w]) IN
       /\ dev' = [dev EXCEPT ![w] = r.card]
       /\ IF r.data # <<>> THEN Poll_upcall(w, r.data)
          ELSE prog' = [prog EXCEPT !.pc = "txstat"] /\ UNCHANGED <<rxpkts, lost>>
    /\ UNCHANGED <<setup, arrived, txpkts, slip, got, sent, spoilt>>

(* An error resets the transmitter, with every frame that is in it. *)
Poll3cStat(w) ==
    /\ prog.pc = "txstat" /\ prog.net = w
    /\ IF dev[w].txerr
       THEN /\ dev' = [dev EXCEPT ![w].tx = <<>>, ![w].txerr = FALSE]
            /\ lost' = lost \cup Ids(FlattenSeq(dev[w].tx))
       ELSE UNCHANGED <<dev, lost>>
    /\ prog' = [prog EXCEPT !.pc = "tx"]
    /\ UNCHANGED <<setup, arrived, rxpkts, txpkts, slip, got, sent, spoilt>>

Poll3cTx(w) ==
    /\ prog.pc = "tx" /\ prog.net = w /\ Kind(w) = "3c"
    /\ LET up == transmit_upcall(w) IN
       /\ txpkts' = IF TxRoom(dev[w]) THEN up.rest ELSE txpkts
       /\ IF TxRoom(dev[w]) /\ up.data # <<>>
          THEN dev' = [dev EXCEPT ![w] = put_ether3c(@, up.data)] /\ UNCHANGED prog
          ELSE prog' = NextNet /\ UNCHANGED dev
    /\ UNCHANGED <<setup, arrived, rxpkts, slip, got, sent, spoilt, lost>>

(* receive_slip *)
PollSlip(w) ==
    /\ prog.pc = "rx" /\ prog.net = w /\ Kind(w) = "slip"
    /\ IF dev[w].rbuf = <<>>
       THEN prog' = NextNet /\ UNCHANGED <<dev, rxpkts, slip, lost>>
       ELSE LET r == SlipChar(slip, dev[w].slipbuff, w, Head(dev[w].rbuf)) IN
            /\ dev' = [dev EXCEPT ![w].rbuf = Tail(@), ![w].slipbuff = r.buf]
            /\ slip' = r.s
            /\ IF r.frame # <<>> THEN Poll_upcall(w, r.frame)
               ELSE /\ prog' = IF r.answer = <<>> THEN prog
                               ELSE [prog EXCEPT !.pc = "answer", !.hold = r.answer]
                    /\ UNCHANGED <<rxpkts, lost>>
    /\ UNCHANGED <<setup, arrived, txpkts, got, sent, spoilt>>

(* poll_net has nothing to do for a packet driver. *)
PollPktd(w) ==
    /\ prog.pc = "rx" /\ prog.net = w /\ Kind(w) = "pktd"
    /\ prog' = NextNet
    /\ UNCHANGED <<setup, arrived, dev, rxpkts, txpkts, slip, got, sent, spoilt, lost>>

-----------------------------------------------------------------------------
(* The devices *)

Next_(w) == Frame(w, arrived[w] + 1)
Arriving(w, kind) == Kind(w) = kind /\ arrived[w] < Total(w)
Arrive(w) == arrived' = [arrived EXCEPT ![w] = @ + 1]

(* A frame that would fill the boundary page is an overrun, and the card    *)
(* takes nothing more until it is reset.                                    *)
NicArrive(w) ==
    /\ Arriving(w, "ne") /\ Arrive(w)
    /\ LET card == dev[w]
           data == Next_(w)
           pages == {nicwrap(card.curr + i) : i \in 0..Len(data) - 1}
       IN IF card.overrun \/ card.bnry \in pages
          THEN /\ dev' = [dev EXCEPT ![w].overrun = TRUE]
               /\ lost' = lost \cup Ids(data)
          ELSE /\ dev' = [dev EXCEPT ![w].ram[card.curr] = data,
                                     ![w].curr = nicwrap(@ + Len(data))]
               /\ UNCHANGED lost
    /\ UNCHANGED <<setup, rxpkts, txpkts, prog, slip, got, sent, spoilt>>

NicSent(w) ==
    /\ Kind(w) = "ne" /\ dev[w].tx # <<>>
    /\ sent' = [sent EXCEPT ![w] = Append(@, dev[w].tx)]
    /\ dev' = [dev EXCEPT ![w].tx = <<>>]
    /\ UNCHANGED <<setup, arrived, rxpkts, txpkts, prog, slip, got, spoilt, lost>>

FifoArrive(w, ok) ==
    /\ Arriving(w, "3c") /\ Arrive(w)
    /\ LET data == Next_(w)
           room == FifoLen - Len(FlattenSeq([i \in DOMAIN dev[w].rx |-> dev[w].rx[i].data]))
       IN /\ IF Len(data) <= room
             THEN dev' = [dev EXCEPT ![w].rx = Append(@, [data |-> data, ok |-> ok])]
             ELSE UNCHANGED dev
          /\ lost' = IF Len(data) <= room /\ ok THEN lost ELSE lost \cup Ids(data)
    /\ UNCHANGED <<setup, rxpkts, txpkts, prog, slip, got, sent, spoilt>>

(* A collision too many stops the transmitter. *)
FifoSent(w, ok) ==
    /\ Kind(w) = "3c" /\ dev[w].tx # <<>> /\ ~dev[w].txerr
    /\ dev' = [dev EXCEPT ![w].tx = Tail(@), ![w].txerr = ~ok]
    /\ IF ok THEN sent' = [sent EXCEPT ![w] = Append(@, Head(dev[w].tx))] /\ UNCHANGED lost
             ELSE lost' = lost \cup Ids(Head(dev[w].tx)) /\ UNCHANGED sent
    /\ UNCHANGED <<setup, arrived, rxpkts, txpkts, prog, slip, got, spoilt>>

(* The net whose driver has the handle of w's interrupt *)
handle2dtype(w) == IF setup.handle[0] = setup.handle[w] THEN 0 ELSE 1

(* A packet driver asks for a buffer and interrupts again when it has       *)
(* filled it.                                                               *)
PktdAlloc(w) ==
    /\ Arriving(w, "pktd") /\ ~dev[w].copying
    /\ dev' = [dev EXCEPT ![handle2dtype(w)].rxlen = Len(Next_(w)), ![w].copying = TRUE]
    /\ UNCHANGED <<setup, arrived, rxpkts, txpkts, prog, slip, got, sent, spoilt, lost>>

PktdComplete(w) ==
    /\ Kind(w) = "pktd" /\ dev[w].copying /\ Arrive(w)
    /\ LET d == handle2dtype(w) IN
       /\ dev' = [dev EXCEPT ![w].copying = FALSE, ![d].rxlen = 0]
       /\ IF dev[d].rxlen > 0
          THEN Interrupt_upcall(d, SubSeq(Next_(w), 1, Least(dev[d].rxlen, Len(Next_(w)))))
          ELSE UNCHANGED <<rxpkts, lost>>
    /\ UNCHANGED <<setup, txpkts, prog, slip, got, sent, spoilt>>

(* A character that finds the ring full is dropped. *)
SerRx(rbuf, c) == IF Len(rbuf) < RBUFSIZ - 1 THEN Append(rbuf, c) ELSE rbuf

SerRxInt(w) ==
    /\ Kind(w) = "slip" /\ dev[w].line # <<>>
    /\ LET c == Head(dev[w].line)
           rbuf == SerRx(dev[w].rbuf, c)
       IN /\ dev' = [dev EXCEPT ![w].line = Tail(@), ![w].rbuf = rbuf]
          /\ spoilt' = IF rbuf # dev[w].rbuf THEN spoilt ELSE spoilt \cup {c}
    /\ UNCHANGED <<setup, arrived, rxpkts, txpkts, prog, slip, got, sent, lost>>

(* A character goes out; the other end takes it as receive_slip does. *)
SerTxInt(w) ==
    /\ Kind(w) = "slip" /\ dev[w].tbuf # <<>>
    /\ LET peer == dev[w].peer
           r == SlipChar(peer.s, peer.buf, w, Head(dev[w].tbuf))
       IN /\ dev' = [dev EXCEPT ![w].tbuf = Tail(@), ![w].peer = [s |-> r.s, buf |-> r.buf]]
          /\ sent' = IF r.frame = <<>> THEN sent
                     ELSE [sent EXCEPT ![w] = Append(@, r.frame)]
    /\ UNCHANGED <<setup, arrived, rxpkts, txpkts, prog, slip, got, spoilt, lost>>

-----------------------------------------------------------------------------
Main ==
    \/ GetHeader \/ GetBody \/ UpcallBody \/ TxChar
    \/ \E w \in Nets : PollNeRx(w) \/ PollNeTx(w) \/ Poll3cRx(w) \/ Poll3cStat(w)
                      \/ Poll3cTx(w) \/ PollSlip(w) \/ PollPktd(w)

Sends(w) == NicSent(w) \/ FifoSent(w, TRUE) \/ FifoSent(w, FALSE) \/ SerTxInt(w)
Arrives(w) == NicArrive(w) \/ FifoArrive(w, TRUE) \/ FifoArrive(w, FALSE) \/ PktdAlloc(w)
              \/ SerRxInt(w)

Next == Main \/ \E w \in Nets : Arrives(w) \/ PktdComplete(w) \/ Sends(w)

Spec == Init /\ [][Next]_vars

(* The program loops, a card sends what it holds, and a packet driver fills *)
(* the buffer it has asked for.                                             *)
LoopSpec == Spec /\ WF_vars(Main)
                 /\ \A w \in Nets : WF_vars(Sends(w)) /\ WF_vars(PktdComplete(w))

-----------------------------------------------------------------------------
(* Properties *)

Whole(w, data) == \E n \in 1..Total(w) : data = Frame(w, n)

(* A frame that lost a character, and one whose first END was taken for the *)
(* end of an escape: the frame before lost the end of one and its own END.  *)
Spoilt(w, n) == \E c \in spoilt : c[2] = w /\ c[3] = n
Swallowed(w, n) ==
    \E c, d \in spoilt : /\ c[2] = w /\ c[3] = n - 1 /\ c[1] \in {"eend", "eesc"}
                         /\ d = End(c, Len(setup.bytes[w][n - 1]) + 1)
Damaged(data) == 
    \A id \in Ids(data) : id[2] = 0 \/ Spoilt(id[1], id[2]) \/ Swallowed(id[1], id[2])

(* What the program is given is a frame that arrived on the net it is said  *)
(* to be from, whole: although a frame enters and leaves the ring in two    *)
(* steps each, which handlers and polls of other nets come between.  An     *)
(* overrun of a serial port spoils the frames that lost characters, and the *)
(* next one only if it cut an escape in two.                                *)
FramesWhole == \A k \in DOMAIN got : Whole(got[k].net, got[k].data) \/ Damaged(got[k].data)

(* Of two frames that are whole, the second has arrived after the first.    *)
Number(data) == IF \E w \in Nets : Whole(w, data) THEN data[1][3] ELSE 0
Later(a, b) == Number(a) # 0 /\ Number(b) # 0 => Number(a) < Number(b)
GotFrom(w) == {got[k].data : k \in {k \in DOMAIN got : got[k].net = w}}

(* What goes out on a wire is what the program was given on the other, each *)
(* frame whole and once, and in the order of arrival; on SLIP, also after   *)
(* the other end has undone the escapes and the answers to the modem.       *)
SentAsGot ==
    /\ \A j, k \in DOMAIN got :
          j < k /\ got[j].net = got[k].net => Later(got[j].data, got[k].data)
    /\ \A w \in Nets :
          /\ \A j, k \in DOMAIN sent[w] : j < k => Later(sent[w][j], sent[w][k])
          /\ \A k \in DOMAIN sent[w] :
                sent[w][k] \in GotFrom(Other(w)) \/ \A id \in Ids(sent[w][k]) : id[2] = 0

(* The driver's place in an NE2000 is the start of the oldest frame, frames *)
(* follow each other up to the place of the card, and the boundary protects *)
(* all of them: also after the ring has wrapped, and after an overrun.      *)
NicInStep ==
    \A w \in Nets : Kind(w) = "ne" =>
        LET card == dev[w]
            starts == {p \in 0..NicPages - 1 : card.ram[p] # <<>>}
            After(p) == nicwrap(p + Len(card.ram[p]))
        IN /\ card.next # card.curr <=> card.next \in starts
           /\ \A p \in starts :
                 /\ After(p) \in starts \cup {card.curr}
                 /\ card.bnry \notin {nicwrap(p + i) : i \in 0..Len(card.ram[p]) - 1}

Reached(w, n) ==
    IF Kind(w) = "slip" THEN <<w, n>> \notin Ids(dev[w].line) ELSE n <= arrived[w]
PassedOn(w, n) ==
    Frame(w, n) \in IF setup.forward THEN ToSet(sent[Other(w)]) ELSE GotFrom(w)

(* A frame that was not dropped for a reason reaches the program, and the   *)
(* other wire if the program passes it on: frames for one driver at the     *)
(* head of the ring, a transmitter in error or a full port hold up others   *)
(* but not for ever.                                                        *)
Settled ==
    \A w \in Nets : \A n \in 1..Total(w) :
        Reached(w, n) => PassedOn(w, n) \/ <<w, n>> \in lost \/ Spoilt(w, n) \/ Swallowed(w, n)
Delivered == <>[]Settled
=============================================================================
