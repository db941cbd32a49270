------------------------------ MODULE TcpSock -------------------------------
(***************************************************************************)
(* One TCP socket of TCP.C: the functions that act on a TSOCK, as          *)
(* operators that take the socket and return it changed together with the  *)
(* segments it sends (a set of at most one).                               *)
(*                                                                         *)
(* The transmit buffer is the queue with a trial mark that CBuff is shown  *)
(* to implement: txq holds the bytes from the out pointer (sequence number *)
(* txo) to the in pointer, tried of them are sent.  Of the receive buffer  *)
(* the model keeps the in pointer (rxi) and the number of unread bytes.    *)
(* A byte is the position at which the application wrote it.  History that *)
(* the code does not keep: wrote counts what the application wrote on this *)
(* connection, got lists what was put into the receive buffer, iss and irs *)
(* are the sequence numbers at which the two streams began.  Sequence      *)
(* numbers do not wrap here (CBuff covers that).                           *)
(*                                                                         *)
(* The application's part of an upcall is a record: ok is its return       *)
(* value, write the number of bytes it puts in the transmit buffer, read   *)
(* tells whether it empties the receive buffer.                            *)
(***************************************************************************)
EXTENDS Integers, Sequences

CONSTANTS
  MaxData,                 (* tcp_maxdata: most data bytes in a segment    *)
  RxWin,                   (* TCP_RXWIN, the window a socket advertises    *)
  TcpRetries               (* TCP_RETRIES                                  *)

ASSUME TcpSockAssumption ==
  /\ MaxData \in Nat \ {0}
  /\ {RxWin, TcpRetries} \subseteq Nat

VARIABLE plan              (* what runs on what; it never changes          *)

Room == plan.room          (* most bytes a circular buffer can hold        *)
Ethernet == plan.ethernet  (* the network driver is Ethernet, not SLIP     *)

Opening == {"SYNR", "AOPEN", "ARPS", "ARPR", "SYNS"}
Closing == {"ACLOSE", "FINWT1", "FINWT2", "CLING", "TWAIT", "CLWAIT", "LASTACK"}

Segment(port, flags, seq, ack, d) ==
  [port |-> port, flags |-> flags, seq |-> seq, ack |-> ack, data |-> d]

(* A poll calls the receive function without a segment (dlen 0).           *)
NoSeg == Segment(0, {}, 0, 0, <<>>)
IsSeg(seg) == seg.flags # {}

(* ARP frames: the request of an opening socket and the answer to it.      *)
ArpReq == Segment(0, {"ARPREQ"}, 0, 0, <<>>)
ArpResp == Segment(0, {"ARPRESP"}, 0, 0, <<>>)

InitSock ==
  [state |-> "CLOSED", server |-> FALSE, port |-> 0, retries |-> 0, 
   txflags |-> {}, txo |-> 0, txq |-> <<>>, tried |-> 0, 
   rxi |-> 0, unread |-> 0, wrote |-> 0, got |-> <<>>,
   iss |-> 0, irs |-> 0]

minw(a, b) == IF a < b THEN a ELSE b
Trial(s) == s.txo + s.tried
Untried(s) == Len(s.txq) - s.tried

-----------------------------------------------------------------------------
new_state(s, news) == [s EXCEPT !.state = news, !.retries = TcpRetries]

(* Sequence and acknowledgement values depend on the state: a SYN lies     *)
(* before the data, a FIN that was sent or received after it.              *)
TxSeq(s) ==
  Trial(s) + (IF s.state \in {"SYNR", "SYNS"} THEN -1
              ELSE IF s.state \in {"CLING", "FINWT2", "TWAIT"} THEN 1 ELSE 0)
TxAck(s) == 
  s.rxi + (IF s.state \in {"LASTACK", "CLWAIT", "CLING", "TWAIT"} THEN 1 ELSE 0)

make_sock_tcp(s, flags, dlen) ==
  LET n == minw(dlen, Untried(s)) IN
  [s |-> [s EXCEPT !.txflags = flags, !.tried = @ + n],
   tx |-> {Segment(s.port, flags, TxSeq(s), TxAck(s), 
                   SubSeq(s.txq, s.tried + 1, s.tried + n))}]

make_reset_resp(seg) ==
  Segment(seg.port, {"RST", "ACK"}, seg.ack, 
          seg.seq + Len(seg.data) + (IF seg.flags \intersect {"SYN", "FIN"} # {} THEN 1 ELSE 0),
          <<>>)

Silent(s) == [s |-> s, tx |-> {}]
Refuse(s, seg) == [s |-> s, tx |-> {make_reset_resp(seg)}]

(* A mutant: the part of the data that is a repeat is not skipped.         *)
NewData_NoSkip(s, seg) == IF s.rxi >= seg.seq THEN seg.data ELSE <<>>

(* Fetch the new part of the data, as much of it as there is room for.     *)
NewData(s, seg) ==
  LET old == s.rxi - seg.seq IN
  IF old = 0 \/ (old > 0 /\ old <= RxWin /\ Len(seg.data) > old)
  THEN SubSeq(seg.data, old + 1, Len(seg.data))
  ELSE <<>>

tsock_estab_rx(s, seg) ==
  LET d == NewData(s, seg)
      n == minw(Len(d), Room - s.unread)
  IN [s EXCEPT !.rxi = @ + n, !.unread = @ + n, !.got = @ \o SubSeq(d, 1, n)]

(* Send data unless a segment is outstanding; a last small segment may     *)
(* follow one that is.  With force, send even if there is no data.         *)
tsock_estab_tx(s, force) ==
  LET tdlen == minw(minw(Untried(s), MaxData), RxWin - s.tried)
      small == tdlen > 0 /\ (s.tried = 0 \/ tdlen < MaxData \div 2)
  IN IF force \/ small THEN make_sock_tcp(s, {"ACK"}, tdlen) ELSE Silent(s)

(* A mutant: a timeout does not go back to the unacknowledged data.        *)
remake_tsock_KeepTrial(s) ==
  IF s.state = "ARPS" THEN [s |-> s, tx |-> {ArpReq}]
  ELSE IF s.state \in {"EST", "CLWAIT", "ACLOSE"} THEN tsock_estab_tx(s, TRUE)
  ELSE make_sock_tcp(s, s.txflags, 0)

(* Send again what may have been lost: the unacknowledged data from its    *)
(* start, or the last segment without data.                                *)
remake_tsock(s) ==
  IF s.state = "ARPS" THEN [s |-> s, tx |-> {ArpReq}]
  ELSE IF s.state \in {"EST", "CLWAIT", "ACLOSE"} 
  THEN tsock_estab_tx([s EXCEPT !.tried = 0], TRUE)
  ELSE make_sock_tcp(s, s.txflags, 0)

buff_setall_tx(s, isn) == 
  [s EXCEPT !.txo = isn, !.iss = isn, !.txq = <<>>, !.tried = 0, !.wrote = 0]
buff_setall_rx(s, seq) == 
  [s EXCEPT !.rxi = seq, !.irs = seq, !.unread = 0, !.got = <<>>]

(* The application writes n bytes, of which those that fit are taken.      *)
AppPut(s, n) ==
  LET k == minw(n, Room - Len(s.txq)) IN
  [s EXCEPT !.txq = @ \o [i \in 1 .. k |-> s.wrote + i], !.wrote = @ + k]

(* What an upcall changes before it returns; an application that agrees to *)
(* a close writes no more.                                                 *)
Upcall(s, up) == 
  AppPut(IF up.read THEN [s EXCEPT !.unread = 0] ELSE s, up.write)
CloseUpcall(s, up) == IF up.ok THEN s ELSE Upcall(s, up)

-----------------------------------------------------------------------------
(* tsock_rx, one operator for each state.  The segment's acknowledgement   *)
(* has been taken (TakeAck) before.                                        *)

InClosed(s, seg, up, isn) ==
  IF seg.flags = {"SYN"}
  THEN LET fresh == buff_setall_tx(buff_setall_rx(s, seg.seq + 1), isn)
           asked == Upcall(fresh, up)
       IN IF up.ok
          THEN LET r == make_sock_tcp(new_state(asked, "SYNR"), {"SYN", "ACK"}, 0)
               IN [r EXCEPT !.s.server = TRUE]
          ELSE Refuse(asked, seg)
  ELSE IF IsSeg(seg) THEN Refuse(s, seg) ELSE Silent(s)

InSynr(s0, seg, up) ==
  LET s == tsock_estab_rx(s0, seg) IN
  IF seg.flags = {"ACK"} /\ seg.seq = s.rxi /\ seg.ack = s.txo
  THEN Silent(new_state(Upcall(s, up), IF up.ok THEN "EST" ELSE "ACLOSE"))
  ELSE IF IsSeg(seg) /\ seg.seq = s.rxi - 1
       THEN make_sock_tcp(s, {"SYN", "ACK"}, 0)
       ELSE Silent(s)

(* A mutant: every poll refreshes the timer.                               *)
InEst_PollRefreshes(s0, seg, up) ==
  LET s == tsock_estab_rx(new_state(s0, "EST"), seg)
      asked == Upcall(s, up)
  IN IF "FIN" \in seg.flags /\ seg.seq = s0.rxi
     THEN make_sock_tcp(new_state(CloseUpcall(s, up), "LASTACK"), {"FIN", "ACK"}, 0)
     ELSE tsock_estab_tx(asked, seg.data # <<>>)

InEst(s0, seg, up) ==
  LET live == IF IsSeg(seg) THEN new_state(s0, "EST") ELSE s0
      s == tsock_estab_rx(live, seg)
      closing == "FIN" \in seg.flags /\ seg.seq = s0.rxi
      asked == IF closing THEN CloseUpcall(s, up) ELSE Upcall(s, up)
  IN IF closing
     THEN IF up.ok
          THEN make_sock_tcp(new_state(asked, "LASTACK"), {"FIN", "ACK"}, 0)
          ELSE tsock_estab_tx(new_state(asked, "CLWAIT"), TRUE)
     ELSE IF up.ok
          THEN tsock_estab_tx(asked, seg.data # <<>>)
          ELSE tsock_estab_tx(new_state(asked, "ACLOSE"), TRUE)

InClwait(s, seg, up) ==
  IF up.ok
  THEN make_sock_tcp(new_state(CloseUpcall(s, up), "LASTACK"), {"FIN", "ACK"}, 0)
  ELSE tsock_estab_tx(CloseUpcall(s, up), FALSE)

InLastack(s, seg) ==
  Silent(IF seg.flags = {"ACK"} /\ seg.seq = s.rxi + 1 THEN new_state(s, "CLOSED") ELSE s)

(* Without ARP (a SLIP line) the socket goes on as if it was answered.     *)
InAopen(s) == 
  LET client == [s EXCEPT !.server = FALSE] IN
  IF Ethernet THEN [s |-> new_state(client, "ARPS"), tx |-> {ArpReq}]
  ELSE Silent(new_state(client, "ARPR"))

InArpr(s, up, isn, eport) ==
  LET fresh == [buff_setall_tx(s, isn) EXCEPT !.port = eport] IN
  make_sock_tcp(new_state(Upcall(fresh, up), "SYNS"), {"SYN"}, 0)

(* A mutant: any SYN+ACK is taken for the answer to this socket's SYN.     *)
InSyns_AnyAck(s, seg, up) ==
  IF seg.flags = {"SYN", "ACK"}
  THEN make_sock_tcp(new_state(Upcall(buff_setall_rx(s, seg.seq + 1), up), "EST"), 
                     {"ACK"}, 0)
  ELSE IF IsSeg(seg) THEN Refuse(s, seg) ELSE Silent(s)

InSyns(s, seg, up) ==
  IF seg.flags = {"SYN", "ACK"} /\ seg.ack = s.txo
  THEN LET fresh == buff_setall_rx(s, seg.seq + 1) 
       IN make_sock_tcp(new_state(Upcall(fresh, up), "EST"), {"ACK"}, 0)
  ELSE IF IsSeg(seg) THEN Refuse(s, seg) ELSE Silent(s)

(* A mutant: the FIN is sent when all data is sent, acknowledged or not.   *)
InAclose_Sent(s0, seg) ==
  LET s == tsock_estab_rx(s0, seg) IN
  IF Untried(s) > 0
  THEN tsock_estab_tx(s, FALSE)
  ELSE make_sock_tcp(new_state(s, "FINWT1"), {"FIN", "ACK"}, 0)

InAclose(s0, seg) ==
  LET s == tsock_estab_rx(s0, seg) IN
  IF s.txq # <<>> 
  THEN tsock_estab_tx(s, FALSE)
  ELSE make_sock_tcp(new_state(s, "FINWT1"), {"FIN", "ACK"}, 0)

InFinwt1(s0, seg) ==
  LET s == tsock_estab_rx(s0, seg) 
      acked == "ACK" \in seg.flags /\ seg.ack = Trial(s) + 1
      unacked == ~("ACK" \in seg.flags) \/ seg.ack = Trial(s)
  IN IF "FIN" \in seg.flags /\ seg.seq = s.rxi
     THEN make_sock_tcp(IF acked THEN new_state(s, "TWAIT")
                        ELSE IF unacked THEN new_state(s, "CLING") ELSE s,
                        {"ACK"}, 0)
     ELSE Silent(IF acked THEN new_state(s, "FINWT2") ELSE s)

InFinwt2(s0, seg) ==
  LET s == tsock_estab_rx(s0, seg) IN
  IF "FIN" \in seg.flags /\ seg.seq = s.rxi
  THEN make_sock_tcp(new_state(s, "TWAIT"), {"ACK"}, 0)
  ELSE Silent(s)

InCling(s, seg) == 
  Silent(IF seg.flags = {"ACK"} /\ seg.seq = s.rxi + 1 THEN new_state(s, "CLOSED") ELSE s)

(* The timed wait ends at once, and a reset socket is closed.              *)
InTwait(s) == Silent(new_state(s, "CLOSED"))

(* A mutant: an acknowledgement beyond the data sent is taken.             *)
TakeAck_Beyond(s, seg) ==
  LET n == seg.ack - s.txo IN
  IF "RST" \in seg.flags THEN new_state(s, "RSTR")
  ELSE IF "ACK" \in seg.flags /\ n >= 0
  THEN [s EXCEPT !.txo = seg.ack, !.tried = IF n > @ THEN 0 ELSE @ - n, 
                 !.txq = SubSeq(@, n + 1, Len(@))]
  ELSE s

(* An acknowledgement within the data sent releases that data.             *)
TakeAck(s, seg) ==
  LET n == seg.ack - s.txo IN
  IF "RST" \in seg.flags THEN new_state(s, "RSTR")
  ELSE IF "ACK" \in seg.flags /\ n \in 0 .. s.tried
  THEN [s EXCEPT !.txo = seg.ack, !.tried = @ - n, !.txq = SubSeq(@, n + 1, Len(@))]
  ELSE s

tsock_rx(s0, seg, up, isn, eport) ==
  LET s == TakeAck(s0, seg) IN
  CASE s.state = "CLOSED"  -> InClosed(s, seg, up, isn)
    [] s.state = "SYNR"    -> InSynr(s, seg, up)
    [] s.state = "EST"     -> InEst(s, seg, up)
    [] s.state = "CLWAIT"  -> InClwait(s, seg, up)
    [] s.state = "LASTACK" -> InLastack(s, seg)
    [] s.state = "AOPEN"   -> InAopen(s)
    [] s.state = "ARPS"    -> Silent(s)
    [] s.state = "ARPR"    -> InArpr(s, up, isn, eport)
    [] s.state = "SYNS"    -> InSyns(s, seg, up)
    [] s.state = "ACLOSE"  -> InAclose(s, seg)
    [] s.state = "FINWT1"  -> InFinwt1(s, seg)
    [] s.state = "FINWT2"  -> InFinwt2(s, seg)
    [] s.state = "CLING"   -> InCling(s, seg)
    [] OTHER               -> InTwait(s)

(* A mutant: each retry refreshes the number of retries.                   *)
Expire_Again(s) == remake_tsock(new_state(s, s.state))

(* tcp_poll when the timer of the socket has expired.                      *)
Expire(s) ==
  IF s.retries >= 0
  THEN remake_tsock([s EXCEPT !.retries = @ - 1])
  ELSE make_sock_tcp(new_state(s, "CLOSED"), {"RST"}, 0)

reset_tcp(s) == 
  IF s.state = "CLOSED" THEN Silent(s) ELSE make_sock_tcp(s, {"RST"}, 0)

close_tcp(s) == IF s.state \in {"EST", "SYNR"} THEN new_state(s, "ACLOSE") ELSE s
=============================================================================
