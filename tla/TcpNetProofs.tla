---------------------------- MODULE TcpNetProofs -----------------------------
(***************************************************************************)
(* Whatever the network loses, delays, reorders or repeats, and whenever   *)
(* a program is started again, a receive buffer of TCP.C is given the      *)
(* bytes of one connection, in order, without a gap and without a repeat.  *)
(*                                                                         *)
(* A segment does not say to which connection it belongs.  What the        *)
(* argument rests on is that the sequence numbers of a host's connections  *)
(* begin IsnStep apart and none has that many bytes, so that each data     *)
(* segment under way lies in the range of one connection (SegOK); that     *)
(* what a socket expects next lies in the range of the connection it was   *)
(* opened for (Stream and Begun); and that new data is taken only if it    *)
(* covers the byte that is expected next, which puts both in one range.    *)
(*                                                                         *)
(* The second half, from CONNECTIONS on, is about the two ends of one.     *)
(***************************************************************************)
EXTENDS TcpNet, SequenceTheorems, WellFoundedInduction, TLAPS

Flags == {"SYN", "ACK", "FIN", "RST", "ARPREQ", "ARPRESP"}
States == {"CLOSED", "SYNR", "EST", "CLWAIT", "LASTACK", "AOPEN", "ARPS", "ARPR",
           "SYNS", "ACLOSE", "FINWT1", "FINWT2", "CLING", "TWAIT", "RSTR"}

Seg == [port : Int, flags : SUBSET Flags, seq : Int, ack : Int, data : Seq(Int)]
Sock ==
  [state : States, server : BOOLEAN, port : Int, retries : Int,
   txflags : SUBSET Flags, txo : Int, txq : Seq(Int), tried : Nat,
   rxi : Int, unread : Nat, wrote : Nat, got : Seq(Int), iss : Int, irs : Int]

(* Where the streams of host h may begin                                   *)
Isns(h) == {IsnStep * (k + 1) + Offset(h) : k \in Nat}

(* A segment that host h may have sent, on a connection on which its       *)
(* application has written at most w bytes                                 *)
DataOK(h, seg, w) ==
  \E iss \in Isns(h) :
    /\ iss <= seg.seq /\ seg.seq - iss + Len(seg.data) <= w
    /\ \A k \in 1 .. Len(seg.data) : seg.data[k] = seg.seq - iss + k
SegOK(h, seg, w) ==
  /\ seg \in Seg
  /\ seg.data # <<>> => DataOK(h, seg, w)
  /\ "SYN" \in seg.flags => seg.seq + 1 \in Isns(h)
  /\ h = S => seg.flags # {"SYN"}

(* The buffers of a socket hold a stretch of each stream                   *)
TxStream(s) ==
  /\ s.iss <= s.txo /\ s.tried <= Len(s.txq) /\ Len(s.txq) <= Room
  /\ s.wrote = s.txo - s.iss + Len(s.txq)
  /\ \A k \in 1 .. Len(s.txq) : s.txq[k] = s.txo - s.iss + k
RxStream(h, s) ==
  /\ s.rxi = s.irs + Len(s.got) /\ s.unread <= Room
  /\ Len(s.got) <= plan.writes[Peer(h)]
  /\ \A k \in 1 .. Len(s.got) : s.got[k] = k
Stream(h, s) == s \in Sock /\ TxStream(s) /\ RxStream(h, s)

(* What a socket's state says of its numbers, and the states in which the  *)
(* flags that were sent last may be sent again are not those of a SYN      *)
Numbers(h, s) ==
  /\ s.state \notin {"CLOSED", "ARPS", "ARPR"} => s.iss \in Isns(h)
  /\ s.state \notin {"CLOSED", "ARPS", "ARPR", "SYNS"} => s.irs \in Isns(Peer(h))
  /\ s.state \in {"SYNR", "SYNS"} => s.txo = s.iss /\ s.tried = 0
  /\ h = S => s.state \notin {"ARPS", "ARPR", "SYNS"}
  /\ s.state \notin {"AOPEN", "RSTR"}
LastFlags(h, s) ==
  /\ s.state \in {"ARPS", "ARPR", "FINWT1", "FINWT2", "CLING", "TWAIT", "LASTACK"}
       => "SYN" \notin s.txflags
  /\ h = S => s.txflags # {"SYN"}
Begun(h, s) == Numbers(h, s) /\ LastFlags(h, s)

SockOK(h, s) == Stream(h, s) /\ Begun(h, s)

(* A segment that may arrive at host h, and the result of a function: the  *)
(* socket and what it sends                                                *)
Arriving(h, seg) == SegOK(Peer(h), seg, plan.writes[Peer(h)])
ResultOK(h, r) == SockOK(h, r.s) /\ \A m \in r.tx : SegOK(h, m, r.s.wrote)
RunOK(h, s, r, up) == ResultOK(h, r) /\ (up.write = 0 => r.s.wrote <= s.wrote)

(* The sockets, the network, and a client that has yet to open its         *)
(* connection                                                              *)
TablesOK(t) ==
  /\ t \in [Hosts -> [Socks -> Sock]]
  /\ \A h \in Hosts, i \in Socks : SockOK(h, t[h][i]) /\ t[h][i].wrote <= plan.writes[h]
NetsOK(n) ==
  n \in [Hosts -> SUBSET Seg] /\ \A h \in Hosts : \A seg \in n[h] : Arriving(h, seg)
FreshOK ==
  phase[C] = "start" =>
    \A i \in Socks : sock[C][i].state = "CLOSED" /\ "SYN" \notin sock[C][i].txflags
CountersOK ==
  /\ eport \in Int /\ starts \in [Hosts -> Nat]
  /\ phase \in [Hosts -> {"start", "run", "close", "reset"}]

NetInv == plan \in Plans /\ TablesOK(sock) /\ NetsOK(net) /\ FreshOK /\ CountersOK

-----------------------------------------------------------------------------
(* Numbers and hosts                                                       *)

LEMMA PlanFacts ==
  ASSUME plan \in Plans
  PROVE  /\ Room \in Nat /\ Room < RxWin /\ RxWin \in Nat /\ MaxData \in Nat
         /\ IsnStep \in Nat \ {0}
         /\ \A h \in Hosts : plan.writes[h] \in Nat /\ plan.writes[h] < IsnStep
         /\ \A h \in Hosts : \A up \in plan.ups[h] :
              up.ok \in BOOLEAN /\ up.write \in Nat /\ up.read \in BOOLEAN
BY TcpNetAssumption, TcpSockAssumption DEF PlanOK, Room

(* Cutting out and putting together sequences of bytes                     *)
LEMMA Cut ==
  ASSUME NEW q \in Seq(Int), NEW m \in Nat, NEW b \in Nat, 0 < m, m <= b + 1, b <= Len(q)
  PROVE  /\ SubSeq(q, m, b) \in Seq(Int) /\ Len(SubSeq(q, m, b)) = b - m + 1
         /\ \A k \in 1 .. b - m + 1 : SubSeq(q, m, b)[k] = q[m + k - 1]
<1>1. \A i \in m .. b : q[i] \in Int
  BY ElementOfSeq
<1>2. m \in Int /\ b \in Int
  OBVIOUS
<1> QED BY <1>1, <1>2, SubSeqProperties

LEMMA Joined ==
  ASSUME NEW q \in Seq(Int), NEW r \in Seq(Int)
  PROVE  /\ q \o r \in Seq(Int) /\ Len(q \o r) = Len(q) + Len(r)
         /\ \A k \in 1 .. Len(q) + Len(r) :
              (q \o r)[k] = IF k <= Len(q) THEN q[k] ELSE r[k - Len(q)]
BY ConcatProperties

LEMMA PeerHost == \A h \in Hosts : Peer(h) \in Hosts /\ Peer(Peer(h)) = h
BY DEF Hosts, Peer, C, S

LEMMA IsnsAreInts == ASSUME NEW h \in Hosts PROVE Isns(h) \subseteq Int
<1>1. IsnStep \in Int
  BY TcpNetAssumption
<1>2. Offset(h) \in Int
  BY <1>1 DEF Offset
<1> QED BY <1>1, <1>2 DEF Isns

(* Two streams of a host that begin less than IsnStep apart are one.       *)
LEMMA IsnsApart ==
  ASSUME NEW h \in Hosts, NEW a \in Isns(h), NEW b \in Isns(h), a - b < IsnStep, b - a < IsnStep
  PROVE  a = b
<1> DEFINE o == Offset(h)
<1>1. IsnStep \in Nat \ {0}
  BY TcpNetAssumption
<1>2. o \in Int
  BY <1>1 DEF Offset
<1>3. PICK k \in Nat : a = IsnStep * (k + 1) + o
  BY DEF Isns
<1>4. PICK m \in Nat : b = IsnStep * (m + 1) + o
  BY DEF Isns
<1> HIDE DEF o
<1>5. ASSUME NEW x \in Nat, NEW y \in Nat, x < y
      PROVE  IsnStep * (y + 1) - IsnStep * (x + 1) >= IsnStep
  <2>1. PICK d \in Nat : y = x + 1 + d
    BY <1>5
  <2>2. IsnStep * (y + 1) = IsnStep * (x + 1) + IsnStep + IsnStep * d
    BY <1>1, <2>1
  <2>3. IsnStep * d \in Nat /\ IsnStep * (x + 1) \in Int
    BY <1>1
  <2> QED BY <1>1, <2>2, <2>3
<1>6. IsnStep * (k + 1) \in Int /\ IsnStep * (m + 1) \in Int
  BY <1>1
<1>7. ~(k < m) /\ ~(m < k)
  BY <1>1, <1>2, <1>3, <1>4, <1>5, <1>6
<1> QED BY <1>3, <1>4, <1>7

-----------------------------------------------------------------------------
(* The functions on a socket                                               *)

LEMMA NewStateOK ==
  ASSUME NEW h \in Hosts, NEW s, Stream(h, s), NEW st \in States
  PROVE  LET t == new_state(s, st) IN
         /\ Stream(h, t)
         /\ t.state = st /\ t.iss = s.iss /\ t.irs = s.irs /\ t.wrote = s.wrote
         /\ t.txflags = s.txflags /\ t.txo = s.txo /\ t.tried = s.tried /\ t.txq = s.txq
<1> DEFINE t == new_state(s, st)
<1>1. s \in Sock /\ TxStream(s) /\ RxStream(h, s)
  BY DEF Stream
<1>2. t = [s EXCEPT !.state = st, !.retries = TcpRetries]
  BY DEF new_state
<1>3. TcpRetries \in Int
  BY TcpSockAssumption
<1>4. t \in Sock
  BY <1>1, <1>2, <1>3 DEF Sock
<1> QED BY <1>1, <1>2, <1>4 DEF Sock, Stream, TxStream, RxStream

LEMMA TakeAckOK ==
  ASSUME plan \in Plans, NEW h \in Hosts, NEW s, Stream(h, s), NEW seg \in Seg
  PROVE  LET t == TakeAck(s, seg) IN
         /\ Stream(h, t)
         /\ t.state = (IF "RST" \in seg.flags THEN "RSTR" ELSE s.state)
         /\ t.iss = s.iss /\ t.irs = s.irs /\ t.wrote = s.wrote /\ t.txflags = s.txflags
         /\ s.tried = 0 => t.txo = s.txo /\ t.tried = 0
<1> DEFINE t == TakeAck(s, seg)
           acked == "ACK" \in seg.flags /\ seg.ack - s.txo \in 0 .. s.tried
<1>0. s \in Sock /\ TxStream(s) /\ RxStream(h, s)
  BY DEF Stream
<1>1. CASE "RST" \in seg.flags
  <2>1. t = new_state(s, "RSTR") /\ "RSTR" \in States
    BY <1>1 DEF TakeAck, States
  <2> QED BY <1>1, <2>1, NewStateOK
<1>2. CASE "RST" \notin seg.flags /\ acked
  <2>0. /\ s.txo \in Int /\ s.iss \in Int /\ s.tried \in Nat /\ Len(s.txq) \in Nat /\ seg.ack \in Int
        /\ Room \in Nat /\ s.tried <= Len(s.txq) /\ s.iss <= s.txo /\ Len(s.txq) <= Room
        /\ s.wrote = s.txo - s.iss + Len(s.txq)
    BY <1>0, PlanFacts DEF Sock, TxStream, Seg
  <2>1. PICK o \in Int, i \in Int, r \in Nat, len \in Nat, a \in Int, room \in Nat :
          /\ s.txo = o /\ s.iss = i /\ s.tried = r /\ Len(s.txq) = len /\ seg.ack = a /\ Room = room
          /\ r <= len /\ i <= o /\ len <= room /\ s.wrote = o - i + len
    BY <2>0, Zenon
  <2>2. a - o \in 0 .. r
    BY <1>2, <2>1
  <2>3. PICK n \in Nat : a = o + n /\ n <= r
    BY <2>2
  <2>4. n + 1 \in Nat /\ 0 < n + 1 /\ n + 1 <= len + 1 /\ len - (n + 1) + 1 = len - n /\ a - o = n
    BY <2>1, <2>3
  <2> DEFINE q == SubSeq(s.txq, n + 1, len)
  <2>5. s.txq \in Seq(Int)
    BY <1>0 DEF Sock
  <2>6. PICK f \in Nat : n + 1 = f
    BY <2>4
  <2>7. q \in Seq(Int) /\ Len(q) = len - n /\ \A k \in 1 .. len - n : q[k] = s.txq[f + k - 1]
    <3>1. /\ SubSeq(s.txq, f, len) \in Seq(Int) /\ Len(SubSeq(s.txq, f, len)) = len - f + 1
          /\ \A k \in 1 .. len - f + 1 : SubSeq(s.txq, f, len)[k] = s.txq[f + k - 1]
      <4>1. 0 < f /\ f <= len + 1 /\ len <= Len(s.txq)
        BY <2>1, <2>4, <2>6
      <4> QED BY <2>5, <4>1, Cut
    <3>2. len - f + 1 = len - n
      BY <2>4, <2>6
    <3> QED BY <2>6, <3>1, <3>2
  <2>8. t = [s EXCEPT !.txo = a, !.tried = r - n, !.txq = q]
    BY <1>2, <2>1, <2>4 DEF TakeAck
  <2> HIDE DEF q, t
  <2>9. t \in Sock
    <3>1. PICK d \in Nat : r - n = d
      BY <2>3
    <3> QED BY <1>0, <2>7, <2>8, <3>1 DEF Sock
  <2>10. /\ t.state = s.state /\ t.iss = i /\ t.irs = s.irs /\ t.wrote = s.wrote
         /\ t.txflags = s.txflags /\ t.txo = a /\ t.tried = r - n /\ t.txq = q
         /\ t.rxi = s.rxi /\ t.got = s.got /\ t.unread = s.unread
    BY <1>0, <2>1, <2>8 DEF Sock
  <2>11. \A k \in 1 .. Len(q) : q[k] = a - i + k
    <3> SUFFICES ASSUME NEW k \in 1 .. len - n PROVE q[k] = a - i + k
      BY <2>7
    <3>1. PICK j \in 1 .. len : f + k - 1 = j /\ j = n + k
      BY <2>3, <2>4, <2>6
    <3>2. q[k] = s.txq[j]
      BY <2>7, <3>1
    <3>3. s.txq[j] = o - i + j
      BY <1>0, <2>1, <3>1 DEF TxStream
    <3>4. o - i + j = a - i + k
      BY <2>3, <3>1
    <3> QED BY <3>2, <3>3, <3>4
  <2>12. TxStream(t)
    <3>1. i <= a /\ r - n <= len - n /\ len - n <= room /\ s.wrote = a - i + (len - n)
      BY <2>1, <2>3
    <3> QED BY <2>1, <2>7, <2>10, <2>11, <3>1 DEF TxStream
  <2>13. RxStream(h, t)
    BY <1>0, <2>10 DEF RxStream
  <2>14. s.tried = 0 => t.txo = s.txo /\ t.tried = 0
    <3>1. r = 0 => a = o /\ r - n = 0
      BY <2>3
    <3> QED BY <2>1, <2>10, <3>1
  <2> QED BY <1>2, <2>1, <2>9, <2>10, <2>12, <2>13, <2>14 DEF Stream, t
<1>3. CASE "RST" \notin seg.flags /\ ~acked
  BY <1>0, <1>3 DEF TakeAck, Stream
<1> QED BY <1>1, <1>2, <1>3

(* New data is taken from a segment of this connection only.               *)
LEMMA EstabRxOK ==
  ASSUME plan \in Plans, NEW h \in Hosts, NEW s, Stream(h, s), s.irs \in Isns(Peer(h)),
         NEW seg, SegOK(Peer(h), seg, plan.writes[Peer(h)])
  PROVE  LET t == tsock_estab_rx(s, seg) IN
         /\ Stream(h, t)
         /\ t = [s EXCEPT !.rxi = t.rxi, !.unread = t.unread, !.got = t.got]
<1> DEFINE t == tsock_estab_rx(s, seg)
           d == NewData(s, seg)
           p == Peer(h)
           avail == minw(Len(d), Room - s.unread)
<1>0. s \in Sock /\ TxStream(s) /\ RxStream(h, s) /\ seg \in Seg /\ p \in Hosts
  BY PeerHost DEF Stream, SegOK
<1>1. /\ s.rxi \in Int /\ s.irs \in Int /\ s.unread \in Nat /\ s.got \in Seq(Int) /\ Len(s.got) \in Nat
      /\ s.rxi = s.irs + Len(s.got) /\ s.unread <= Room /\ Len(s.got) <= plan.writes[p]
      /\ plan.writes[p] < IsnStep
      /\ {Room, plan.writes[p], IsnStep, RxWin} \subseteq Nat
  <2>1. /\ s.rxi \in Int /\ s.irs \in Int /\ s.unread \in Nat /\ s.got \in Seq(Int)
    BY <1>0 DEF Sock
  <2>2. /\ s.rxi = s.irs + Len(s.got) /\ s.unread <= Room /\ Len(s.got) <= plan.writes[p]
    BY <1>0 DEF RxStream
  <2>3. plan.writes[p] < IsnStep /\ {Room, plan.writes[p], IsnStep, RxWin} \subseteq Nat
    BY <1>0, PlanFacts
  <2> QED BY <2>1, <2>2, <2>3
<1>2. seg.seq \in Int /\ seg.data \in Seq(Int) /\ Len(seg.data) \in Nat
  BY <1>0 DEF Seg
<1>3. PICK irs \in Int, len \in Nat, unread \in Nat, room \in Nat, w \in Nat, step \in Nat, win \in Nat :
        /\ s.irs = irs /\ Len(s.got) = len /\ s.rxi = irs + len /\ s.unread = unread /\ Room = room
        /\ plan.writes[p] = w /\ IsnStep = step /\ RxWin = win
        /\ unread <= room /\ len <= w /\ w < step
  BY <1>1, Zenon
<1>4. PICK q \in Int, dlen \in Nat : seg.seq = q /\ Len(seg.data) = dlen
  BY <1>2, Zenon
(* What there is of new data *)
<1>5. /\ d \in Seq(Int)
      /\ d # <<>> => \E old \in Nat :
           /\ q + old = irs + len /\ old < dlen /\ Len(d) = dlen - old
           /\ \A k \in 1 .. dlen - old : d[k] = seg.data[old + k]
  <2>1. CASE s.rxi - seg.seq = 0 \/ (s.rxi - seg.seq > 0 /\ s.rxi - seg.seq <= RxWin /\ Len(seg.data) > s.rxi - seg.seq)
    <3>1. PICK old \in Nat : q + old = irs + len /\ (old = 0 \/ old < dlen)
      <4>1. irs + len - q = 0 \/ (irs + len - q > 0 /\ dlen > irs + len - q)
        BY <2>1, <1>3, <1>4
      <4> QED BY <4>1
    <3>2. PICK f \in Nat : old + 1 = f /\ 0 < f /\ f <= dlen + 1
      BY <3>1
    <3>3. d = SubSeq(seg.data, f, dlen)
      <4>1. irs + len - q + 1 = f
        BY <3>1, <3>2
      <4>2. d = SubSeq(seg.data, s.rxi - seg.seq + 1, Len(seg.data))
        BY <2>1 DEF NewData
      <4>3. s.rxi - seg.seq + 1 = f /\ Len(seg.data) = dlen
        BY <1>3, <1>4, <4>1
      <4> QED BY <4>2, <4>3, Zenon
    <3> HIDE DEF d
    <3>4. /\ d \in Seq(Int) /\ Len(d) = dlen - f + 1
          /\ \A k \in 1 .. dlen - f + 1 : d[k] = seg.data[f + k - 1]
      <4>1. dlen <= Len(seg.data) /\ seg.data \in Seq(Int)
        BY <1>2, <1>4
      <4>2. /\ SubSeq(seg.data, f, dlen) \in Seq(Int) /\ Len(SubSeq(seg.data, f, dlen)) = dlen - f + 1
            /\ \A k \in 1 .. dlen - f + 1 : SubSeq(seg.data, f, dlen)[k] = seg.data[f + k - 1]
        BY <3>2, <4>1, Cut
      <4> QED BY <3>3, <4>2, Zenon
    <3>5. dlen - f + 1 = dlen - old /\ \A k \in Int : f + k - 1 = old + k
      BY <3>2
    <3>6. d # <<>> => old < dlen
      <4>1. d # <<>> => Len(d) # 0
        BY <3>4, EmptySeq
      <4> QED BY <3>1, <3>4, <3>5, <4>1
    <3>7. Len(d) = dlen - old /\ \A k \in 1 .. dlen - old : d[k] = seg.data[old + k]
      <4>1. Len(d) = dlen - old
        BY <3>4, <3>5
      <4>2. ASSUME NEW k \in 1 .. dlen - old PROVE d[k] = seg.data[old + k]
        <5>1. k \in 1 .. dlen - f + 1 /\ f + k - 1 = old + k
          BY <3>5
        <5>2. d[k] = seg.data[f + k - 1]
          BY <3>4, <5>1, Zenon
        <5> QED BY <5>1, <5>2, Zenon
      <4> QED BY <4>1, <4>2
    <3>8. d # <<>> => q + old = irs + len /\ old < dlen
      BY <3>1, <3>6
    <3> QED BY <3>4, <3>7, <3>8
  <2>2. CASE ~(s.rxi - seg.seq = 0 \/ (s.rxi - seg.seq > 0 /\ s.rxi - seg.seq <= RxWin /\ Len(seg.data) > s.rxi - seg.seq))
    <3>1. d = <<>>
      BY <2>2 DEF NewData
    <3> QED BY <3>1
  <2> QED BY <2>1, <2>2
<1>6. Len(d) \in Nat
  BY <1>5
<1>7. PICK n \in Nat : avail = n /\ n <= Len(d) /\ unread + n <= room
  <2>1. avail \in Nat /\ avail <= Len(d) /\ unread + avail <= room
    <3> HIDE DEF d
    <3> QED BY <1>3, <1>6 DEF minw
  <2> HIDE DEF avail
  <2> QED BY <2>1
<1> DEFINE new == SubSeq(d, 1, n)
<1>8. new \in Seq(Int) /\ Len(new) = n /\ \A k \in 1 .. n : new[k] = d[k]
  <2> HIDE DEF d
  <2>1. /\ new \in Seq(Int) /\ Len(new) = n - 1 + 1
        /\ \A k \in 1 .. n - 1 + 1 : new[k] = d[1 + k - 1]
    <3>1. 1 \in Nat /\ 0 < 1 /\ 1 <= n + 1
      OBVIOUS
    <3> QED BY <1>5, <1>7, <3>1, Cut
  <2>2. n - 1 + 1 = n /\ \A k \in Int : 1 + k - 1 = k
    OBVIOUS
  <2> QED BY <2>1, <2>2
(* It is where it should be *)
<1>9. n > 0 => len + n <= w /\ \A k \in 1 .. n : d[k] = len + k
  <2> SUFFICES ASSUME n > 0 PROVE len + n <= w /\ \A k \in 1 .. n : d[k] = len + k
    OBVIOUS
  <2>1. d # <<>>
    BY <1>7
  <2> HIDE DEF d
  <2>2. PICK old \in Nat :
          /\ q + old = irs + len /\ old < dlen /\ Len(d) = dlen - old
          /\ \A k \in 1 .. dlen - old : d[k] = seg.data[old + k]
    BY <1>5, <2>1
  <2>3. seg.data # <<>>
    BY <1>4, <2>2
  <2>4. PICK iss \in Isns(p) :
          /\ iss <= seg.seq /\ seg.seq - iss + Len(seg.data) <= plan.writes[p]
          /\ \A k \in 1 .. Len(seg.data) : seg.data[k] = seg.seq - iss + k
    BY <2>3 DEF SegOK, DataOK
  <2>5. iss \in Int
    BY <1>0, IsnsAreInts
  <2>6. iss <= q /\ q - iss + dlen <= w
    BY <1>3, <1>4, <2>4
  <2>7. iss - irs < step /\ irs - iss < step
    BY <1>3, <2>2, <2>5, <2>6
  <2>8. iss = irs
    <3>1. p \in Hosts /\ iss \in Isns(p) /\ irs \in Isns(p)
      BY <1>0, <1>3
    <3> HIDE DEF p
    <3>2. iss - irs < IsnStep /\ irs - iss < IsnStep
      BY <1>3, <2>7
    <3> QED BY <3>1, <3>2, IsnsApart
  <2>9. len + n <= w
    <3>1. q - irs + dlen <= w
      BY <2>6, <2>8
    <3>2. n <= dlen - old /\ dlen \in Nat /\ q + old = irs + len
      BY <1>7, <2>2
    <3> QED BY <3>1, <3>2
  <2>10. ASSUME NEW k \in 1 .. n PROVE d[k] = len + k
    <3>1. PICK j \in 1 .. dlen : old + k = j /\ k \in 1 .. dlen - old
      BY <1>7, <2>2
    <3>2. d[k] = q - irs + j
      BY <1>4, <2>2, <2>4, <2>8, <3>1
    <3>3. q + old = irs + len /\ old + k = j
      BY <2>2, <3>1
    <3>4. q - irs + j = len + k
      BY <3>3
    <3> QED BY <3>2, <3>4, Zenon
  <2> QED BY <2>9, <2>10
<1> DEFINE g == s.got \o new
<1>10. t = [s EXCEPT !.rxi = @ + n, !.unread = @ + n, !.got = g]
  BY <1>7 DEF tsock_estab_rx
<1> HIDE DEF d, new, avail
<1>11. /\ g \in Seq(Int) /\ Len(g) = len + n
       /\ \A k \in 1 .. len + n : g[k] = IF k <= len THEN s.got[k] ELSE new[k - len]
  <2>1. /\ g \in Seq(Int) /\ Len(g) = Len(s.got) + Len(new)
        /\ \A k \in 1 .. Len(s.got) + Len(new) :
             g[k] = IF k <= Len(s.got) THEN s.got[k] ELSE new[k - Len(s.got)]
    BY <1>1, <1>8, Joined
  <2>2. Len(s.got) = len /\ Len(new) = n
    BY <1>3, <1>8
  <2> HIDE DEF g
  <2> QED BY <2>1, <2>2, Zenon
<1>12. \A k \in 1 .. len + n : g[k] = k
  <2> SUFFICES ASSUME NEW k \in 1 .. len + n PROVE g[k] = k
    OBVIOUS
  <2>1. CASE k <= len
    <3>1. s.got[k] = k
      BY <1>0, <1>3, <2>1 DEF RxStream
    <3> HIDE DEF g
    <3> QED BY <1>11, <2>1, <3>1
  <2>2. CASE ~(k <= len)
    <3>1. PICK j \in 1 .. n : k - len = j /\ len + j = k
      BY <2>2
    <3>2. new[j] = len + j
      <4>1. new[j] = d[j] /\ n > 0
        BY <1>8, <3>1
      <4>2. d[j] = len + j
        BY <1>9, <4>1
      <4> QED BY <4>1, <4>2, Zenon
    <3> HIDE DEF g
    <3> QED BY <1>11, <2>2, <3>1, <3>2
  <2> QED BY <2>1, <2>2
<1> HIDE DEF g, t
<1>13. PICK rxi \in Int, un \in Nat : irs + len + n = rxi /\ unread + n = un
  OBVIOUS
<1>14. t = [s EXCEPT !.rxi = rxi, !.unread = un, !.got = g]
  BY <1>3, <1>10, <1>13
<1>15. t \in Sock
  BY <1>0, <1>11, <1>14 DEF Sock
<1>16. TxStream(t)
  BY <1>0, <1>14 DEF Sock, TxStream
<1>17. t.rxi = rxi /\ t.unread = un /\ t.got = g /\ t.irs = irs
  BY <1>0, <1>3, <1>14 DEF Sock
<1>18. RxStream(h, t)
  <2>1. rxi = irs + (len + n) /\ un <= room /\ len + n <= w
    BY <1>3, <1>7, <1>9, <1>13
  <2> QED BY <1>3, <1>11, <1>12, <1>17, <2>1 DEF RxStream
<1>19. t = [s EXCEPT !.rxi = t.rxi, !.unread = t.unread, !.got = t.got]
  BY <1>14, <1>17
<1> QED BY <1>15, <1>16, <1>18, <1>19 DEF Stream, t

(* What the functions below leave as it is                                 *)
Kept(s, t) ==
  /\ t.iss = s.iss /\ t.irs = s.irs /\ t.txo = s.txo /\ t.tried = s.tried
  /\ t.txflags = s.txflags

Sent(s, t, flags) ==
  /\ t.state = s.state /\ t.iss = s.iss /\ t.irs = s.irs /\ t.txo = s.txo
  /\ t.wrote = s.wrote /\ t.txflags = flags

(* A segment without data                                                  *)
LEMMA BareOK ==
  ASSUME NEW h \in Hosts, NEW w, NEW seg \in Seg, seg.data = <<>>, "SYN" \notin seg.flags
  PROVE  SegOK(h, seg, w)
BY DEF SegOK

LEMMA NumbersAreInts ==
  ASSUME NEW s \in Sock
  PROVE  /\ TxSeq(s) \in Int /\ TxAck(s) \in Int
         /\ s.state \in {"SYNR", "SYNS"} => TxSeq(s) = s.txo + s.tried - 1
         /\ s.state \in {"EST", "CLWAIT", "ACLOSE"} => TxSeq(s) = s.txo + s.tried
<1>1. s.txo \in Int /\ s.tried \in Nat /\ s.rxi \in Int
  BY DEF Sock
<1>2. PICK o \in Int, r \in Nat, x \in Int : s.txo = o /\ s.tried = r /\ s.rxi = x
  BY <1>1, Zenon
<1>3. Trial(s) = o + r
  BY <1>2 DEF Trial
<1>4. TxSeq(s) = o + r + (IF s.state \in {"SYNR", "SYNS"} THEN -1
                          ELSE IF s.state \in {"CLING", "FINWT2", "TWAIT"} THEN 1 ELSE 0)
  BY <1>3 DEF TxSeq
<1>5. TxAck(s) \in Int
  BY <1>2 DEF TxAck
<1> QED BY <1>2, <1>4, <1>5

LEMMA ResetOK ==
  ASSUME NEW h \in Hosts, NEW seg \in Seg, NEW w
  PROVE  make_reset_resp(seg) \in Seg /\ SegOK(h, make_reset_resp(seg), w)
<1> DEFINE m == make_reset_resp(seg)
           a == seg.seq + Len(seg.data) + (IF seg.flags \intersect {"SYN", "FIN"} # {} THEN 1 ELSE 0)
<1>1. seg.port \in Int /\ seg.ack \in Int /\ seg.seq \in Int /\ seg.data \in Seq(Int)
  BY DEF Seg
<1>2. a \in Int
  BY <1>1
<1>3. {"RST", "ACK"} \in SUBSET Flags /\ <<>> \in Seq(Int)
  BY DEF Flags
<1>4. m = Segment(seg.port, {"RST", "ACK"}, seg.ack, a, <<>>)
  BY DEF make_reset_resp
<1> HIDE DEF m, a
<1>5. m \in Seg /\ m.flags = {"RST", "ACK"} /\ m.data = <<>>
  BY <1>1, <1>2, <1>3, <1>4 DEF Segment, Seg
<1>6. SegOK(h, m, w)
  BY <1>5, BareOK
<1> QED BY <1>5, <1>6 DEF m

(* A segment without data leaves the buffers alone.                        *)
LEMMA MakeBareOK ==
  ASSUME NEW h \in Hosts, NEW s, Stream(h, s), NEW flags \in SUBSET Flags
  PROVE  LET r == make_sock_tcp(s, flags, 0) IN
         /\ Stream(h, r.s) /\ Sent(s, r.s, flags) /\ r.s.tried = s.tried
         /\ \A m \in r.tx : m \in Seg /\ m.flags = flags /\ m.seq = TxSeq(s) /\ m.data = <<>>
<1> DEFINE r == make_sock_tcp(s, flags, 0)
<1>1. s \in Sock /\ TxStream(s) /\ RxStream(h, s)
  BY DEF Stream
<1>2. s.txq \in Seq(Int) /\ s.tried \in Nat /\ Len(s.txq) \in Nat /\ s.tried <= Len(s.txq) /\ s.port \in Int
  BY <1>1 DEF Sock, TxStream
<1>3. PICK k \in Nat, len \in Nat : s.tried = k /\ Len(s.txq) = len /\ k <= len
  BY <1>2, Zenon
<1>4. minw(0, Untried(s)) = 0
  BY <1>3 DEF minw, Untried
<1>5. r = [s |-> [s EXCEPT !.txflags = flags, !.tried = @ + 0],
           tx |-> {Segment(s.port, flags, TxSeq(s), TxAck(s), SubSeq(s.txq, s.tried + 1, s.tried + 0))}]
  BY <1>4 DEF make_sock_tcp
<1>6. s.tried + 0 = s.tried
  BY <1>2
<1>7. SubSeq(s.txq, s.tried + 1, s.tried + 0) = <<>>
  <2>1. s.tried + 1 \in Int /\ s.tried + 0 \in Int /\ s.tried + 0 < s.tried + 1
    BY <1>2
  <2> QED BY <2>1, SubSeqEmpty
<1>8. r.s = [s EXCEPT !.txflags = flags, !.tried = s.tried]
  <2>1. r.s = [s EXCEPT !.txflags = flags, !.tried = s.tried + 0]
    BY <1>5
  <2> QED BY <1>6, <2>1, Zenon
<1>9. Stream(h, r.s) /\ Sent(s, r.s, flags) /\ r.s.tried = s.tried
  <2> DEFINE t == [s EXCEPT !.txflags = flags, !.tried = s.tried]
  <2>1. t \in Sock /\ Sent(s, t, flags) /\ t.tried = s.tried
    BY <1>1 DEF Sock, Sent
  <2>2. TxStream(t) /\ RxStream(h, t)
    BY <1>1 DEF Sock, TxStream, RxStream
  <2> HIDE DEF t, r
  <2>3. r.s = t
    BY <1>8 DEF t
  <2> QED BY <2>1, <2>2, <2>3 DEF Stream
<1>10. r.tx = {Segment(s.port, flags, TxSeq(s), TxAck(s), <<>>)}
  <2>1. r.tx = {Segment(s.port, flags, TxSeq(s), TxAck(s), SubSeq(s.txq, s.tried + 1, s.tried + 0))}
    BY <1>5
  <2> QED BY <1>7, <2>1, Zenon
<1>11. <<>> \in Seq(Int)
  OBVIOUS
<1> HIDE DEF r
<1>12. \A m \in r.tx : m \in Seg /\ m.flags = flags /\ m.seq = TxSeq(s) /\ m.data = <<>>
  <2>1. TxSeq(s) \in Int /\ TxAck(s) \in Int
    BY <1>1, NumbersAreInts
  <2> DEFINE m == Segment(s.port, flags, TxSeq(s), TxAck(s), <<>>)
  <2>2. m \in Seg /\ m.flags = flags /\ m.seq = TxSeq(s) /\ m.data = <<>>
    BY <1>2, <1>11, <2>1 DEF Segment, Seg
  <2> HIDE DEF m
  <2>3. r.tx = {m}
    BY <1>10 DEF m
  <2> QED BY <2>2, <2>3
<1> QED BY <1>9, <1>12 DEF r

(* A segment with data carries what the application wrote, in its place.   *)
LEMMA MakeDataOK ==
  ASSUME NEW h \in Hosts, NEW s, Stream(h, s), s.iss \in Isns(h), NEW dlen \in Nat,
         s.state \in {"EST", "CLWAIT", "ACLOSE"}
  PROVE  LET r == make_sock_tcp(s, {"ACK"}, dlen) IN
         /\ Stream(h, r.s) /\ Sent(s, r.s, {"ACK"})
         /\ \A m \in r.tx : SegOK(h, m, s.wrote)
<1> DEFINE r == make_sock_tcp(s, {"ACK"}, dlen)
           least == minw(dlen, Untried(s))
<1>1. s \in Sock /\ TxStream(s) /\ RxStream(h, s)
  BY DEF Stream
<1>2. /\ s.txq \in Seq(Int) /\ s.tried \in Nat /\ Len(s.txq) \in Nat /\ s.tried <= Len(s.txq)
      /\ s.port \in Int /\ s.txo \in Int /\ s.iss \in Int /\ s.wrote = s.txo - s.iss + Len(s.txq)
      /\ s.iss <= s.txo
  BY <1>1 DEF Sock, TxStream
<1>3. PICK k \in Nat, len \in Nat, o \in Int, i \in Int :
        s.tried = k /\ Len(s.txq) = len /\ s.txo = o /\ s.iss = i /\ k <= len /\ s.wrote = o - i + len /\ i <= o
  BY <1>2, Zenon
<1>4. PICK n \in Nat : least = n /\ k + n <= len
  <2>1. least \in Nat /\ k + least <= len
    BY <1>3 DEF minw, Untried
  <2> HIDE DEF least
  <2> QED BY <2>1
<1>5. PICK f \in Nat, e \in Nat : k + 1 = f /\ k + n = e /\ 0 < f /\ f <= e + 1 /\ e <= len
  BY <1>3, <1>4
<1> DEFINE d == SubSeq(s.txq, f, e)
           m == Segment(s.port, {"ACK"}, TxSeq(s), TxAck(s), d)
<1>6. r.s = [s EXCEPT !.txflags = {"ACK"}, !.tried = e] /\ r.tx = {m}
  BY <1>3, <1>4, <1>5 DEF make_sock_tcp
<1>7. d \in Seq(Int) /\ Len(d) = e - f + 1 /\ \A j \in 1 .. e - f + 1 : d[j] = s.txq[f + j - 1]
  BY <1>2, <1>3, <1>5, Cut
<1> HIDE DEF d, least
<1>8. e - f + 1 = n
  BY <1>5
<1>9. \A j \in 1 .. n : d[j] = o - i + (k + j)
  <2> SUFFICES ASSUME NEW j \in 1 .. n PROVE d[j] = o - i + (k + j)
    OBVIOUS
  <2>1. f + j - 1 = k + j /\ k + j \in 1 .. len
    BY <1>3, <1>5
  <2>2. d[j] = s.txq[k + j]
    BY <1>7, <1>8, <2>1, Zenon
  <2>3. s.txq[k + j] = o - i + (k + j)
    BY <1>1, <1>3, <2>1 DEF TxStream
  <2> QED BY <2>2, <2>3
<1>10. {"ACK"} \in SUBSET Flags
  BY DEF Flags
<1>11. TxSeq(s) = o + k
  BY <1>1, <1>3, NumbersAreInts
<1>12. m \in Seg /\ m.flags = {"ACK"} /\ m.seq = o + k /\ m.data = d
  <2>1. TxAck(s) \in Int
    BY <1>1, NumbersAreInts
  <2> QED BY <1>2, <1>7, <1>10, <1>11, <2>1 DEF Segment, Seg
<1> HIDE DEF m, r
<1>13. Len(d) = n
  BY <1>7, <1>8
<1>14. DataOK(h, m, s.wrote)
  <2>1. i <= o + k /\ o + k - i + n <= o - i + len
    BY <1>3, <1>4
  <2>2. \A j \in 1 .. n : d[j] = o + k - i + j
    BY <1>9
  <2> QED BY <1>3, <1>12, <1>13, <2>1, <2>2 DEF DataOK
<1>15. SegOK(h, m, s.wrote)
  BY <1>12, <1>14 DEF SegOK
<1>16. r.s \in Sock
  BY <1>1, <1>6, <1>10 DEF Sock
<1>17. TxStream(r.s)
  BY <1>1, <1>3, <1>5, <1>6 DEF Sock, TxStream
<1>18. RxStream(h, r.s)
  BY <1>1, <1>6 DEF Sock, RxStream
<1>19. Sent(s, r.s, {"ACK"})
  BY <1>1, <1>6 DEF Sock, Sent
<1> QED BY <1>6, <1>15, <1>16, <1>17, <1>18, <1>19 DEF Stream, r

LEMMA EstabTxOK ==
  ASSUME plan \in Plans, NEW h \in Hosts, NEW s, Stream(h, s), s.iss \in Isns(h),
         NEW force \in BOOLEAN, s.state \in {"EST", "CLWAIT", "ACLOSE"}
  PROVE  LET r == tsock_estab_tx(s, force) IN
         /\ Stream(h, r.s) /\ Sent(s, r.s, r.s.txflags) /\ r.s.txflags \in {s.txflags, {"ACK"}}
         /\ \A m \in r.tx : SegOK(h, m, s.wrote)
<1> DEFINE tdlen == minw(minw(Untried(s), MaxData), RxWin - s.tried)
           small == tdlen > 0 /\ (s.tried = 0 \/ tdlen < MaxData \div 2)
<1>1. tdlen \in Nat
  <2>1. /\ s.tried \in Nat /\ Len(s.txq) \in Nat /\ s.tried <= Len(s.txq) /\ Len(s.txq) <= Room
        /\ Room \in Nat /\ MaxData \in Nat /\ RxWin \in Nat /\ Room < RxWin
    BY PlanFacts DEF Stream, Sock, TxStream
  <2>2. PICK k \in Nat, len \in Nat, room \in Nat, max \in Nat, win \in Nat :
          /\ s.tried = k /\ Len(s.txq) = len /\ Room = room /\ MaxData = max /\ RxWin = win
          /\ k <= len /\ len <= room /\ room < win
    BY <2>1, Zenon
  <2> QED BY <2>2 DEF minw, Untried
<1>2. CASE force \/ small
  <2>1. tsock_estab_tx(s, force) = make_sock_tcp(s, {"ACK"}, tdlen)
    BY <1>2 DEF tsock_estab_tx
  <2> HIDE DEF tdlen
  <2> QED BY <1>1, <2>1, MakeDataOK DEF Sent
<1>3. CASE ~(force \/ small)
  <2>1. tsock_estab_tx(s, force) = Silent(s)
    BY <1>3 DEF tsock_estab_tx
  <2> QED BY <2>1 DEF Silent, Sent
<1> QED BY <1>2, <1>3

(* What an application writes goes on where it left off.                   *)
LEMMA AppPutOK ==
  ASSUME plan \in Plans, NEW h \in Hosts, NEW s, Stream(h, s), NEW n \in Nat
  PROVE  LET t == AppPut(s, n) IN
         /\ Stream(h, t) /\ Kept(s, t) /\ t.state = s.state
         /\ t.wrote <= s.wrote + n
<1>0. s \in Sock /\ TxStream(s) /\ RxStream(h, s)
  BY DEF Stream
<1>1. /\ s.txq \in Seq(Int) /\ Len(s.txq) \in Nat /\ Len(s.txq) <= Room /\ Room \in Nat /\ s.wrote \in Nat
      /\ s.wrote = s.txo - s.iss + Len(s.txq) /\ s.iss <= s.txo /\ s.tried <= Len(s.txq)
      /\ s.txo \in Int /\ s.iss \in Int /\ s.tried \in Nat
  BY <1>0, PlanFacts DEF Sock, TxStream
<1>2. PICK len \in Nat, room \in Nat, w \in Nat, o \in Int, i \in Int, tr \in Nat :
        /\ Len(s.txq) = len /\ Room = room /\ s.wrote = w /\ s.txo = o /\ s.iss = i /\ s.tried = tr
        /\ len <= room /\ w = o - i + len /\ i <= o /\ tr <= len
  BY <1>1, Zenon
<1> DEFINE least == minw(n, Room - Len(s.txq))
           t == AppPut(s, n)
<1>3. PICK k \in Nat : least = k /\ k <= n /\ len + k <= room
  <2>1. least \in Nat /\ least <= n /\ len + least <= room
    BY <1>2 DEF minw
  <2> HIDE DEF least
  <2> QED BY <2>1
<1> DEFINE new == [j \in 1 .. k |-> w + j]
           q == s.txq \o new
<1>4. t = [s EXCEPT !.txq = q, !.wrote = w + k]
  BY <1>2, <1>3 DEF AppPut
<1>5. new \in Seq(Int) /\ Len(new) = k /\ \A j \in 1 .. k : new[j] = w + j
  OBVIOUS
<1> HIDE DEF least, new
<1>6. /\ q \in Seq(Int) /\ Len(q) = len + k
      /\ \A j \in 1 .. len + k : q[j] = IF j <= len THEN s.txq[j] ELSE new[j - len]
  <2>1. /\ q \in Seq(Int) /\ Len(q) = Len(s.txq) + Len(new)
        /\ \A j \in 1 .. Len(s.txq) + Len(new) :
             q[j] = IF j <= Len(s.txq) THEN s.txq[j] ELSE new[j - Len(s.txq)]
    BY <1>1, <1>5, Joined
  <2> HIDE DEF q
  <2> QED BY <1>2, <1>5, <2>1
<1> HIDE DEF q, t
<1>7. \A j \in 1 .. len + k : q[j] = o - i + j
  <2> SUFFICES ASSUME NEW j \in 1 .. len + k PROVE q[j] = o - i + j
    OBVIOUS
  <2>1. CASE j <= len
    <3>1. s.txq[j] = o - i + j
      BY <1>0, <1>2, <2>1 DEF TxStream
    <3> QED BY <1>6, <2>1, <3>1
  <2>2. CASE ~(j <= len)
    <3>1. PICK y \in 1 .. k : j - len = y /\ j = len + y
      BY <2>2
    <3>2. q[j] = w + y
      BY <1>5, <1>6, <2>2, <3>1
    <3> QED BY <1>2, <3>1, <3>2
  <2> QED BY <2>1, <2>2
<1>8. PICK v \in Nat : w + k = v /\ v = o - i + (len + k)
  BY <1>2
<1>9. t \in Sock
  BY <1>0, <1>4, <1>6, <1>8 DEF Sock
<1>10. /\ t.txq = q /\ t.wrote = v /\ t.txo = o /\ t.iss = i /\ t.tried = tr /\ t.state = s.state
       /\ t.irs = s.irs /\ t.txflags = s.txflags /\ t.rxi = s.rxi /\ t.got = s.got /\ t.unread = s.unread
  BY <1>0, <1>2, <1>4, <1>8 DEF Sock
<1>11. TxStream(t)
  <2>1. tr <= len + k
    BY <1>2
  <2> QED BY <1>2, <1>3, <1>6, <1>7, <1>8, <1>10, <2>1 DEF TxStream
<1>12. RxStream(h, t)
  BY <1>0, <1>10 DEF RxStream
<1>13. t.wrote <= s.wrote + n
  BY <1>2, <1>3, <1>8, <1>10
<1> QED BY <1>2, <1>9, <1>10, <1>11, <1>12, <1>13 DEF Stream, Kept, t

LEMMA UpcallOK ==
  ASSUME plan \in Plans, NEW h \in Hosts, NEW s, Stream(h, s), NEW up \in plan.ups[h]
  PROVE  LET t == Upcall(s, up) IN
         /\ Stream(h, t) /\ Kept(s, t) /\ t.state = s.state
         /\ up.write = 0 => t.wrote <= s.wrote
<1> DEFINE e == IF up.read THEN [s EXCEPT !.unread = 0] ELSE s
<1>1. up.write \in Nat
  BY PlanFacts
<1>2. s \in Sock /\ TxStream(s) /\ RxStream(h, s) /\ Room \in Nat
  BY PlanFacts DEF Stream
<1>3. [s EXCEPT !.unread = 0] \in Sock
  BY <1>2 DEF Sock
<1>4. Stream(h, e) /\ Kept(s, e) /\ e.state = s.state /\ e.wrote = s.wrote /\ e.wrote \in Nat
  <2>1. TxStream([s EXCEPT !.unread = 0]) /\ RxStream(h, [s EXCEPT !.unread = 0])
    BY <1>2 DEF Sock, TxStream, RxStream
  <2> QED BY <1>2, <1>3, <2>1 DEF Sock, Stream, Kept
<1> HIDE DEF e
<1>5. Upcall(s, up) = AppPut(e, up.write)
  BY DEF Upcall, e
<1>6. LET t == AppPut(e, up.write) IN
      Stream(h, t) /\ Kept(e, t) /\ t.state = e.state /\ t.wrote <= e.wrote + up.write
  BY <1>1, <1>4, AppPutOK
<1>7. up.write = 0 => e.wrote + up.write = s.wrote
  BY <1>4
<1> QED BY <1>4, <1>5, <1>6, <1>7 DEF Kept

LEMMA CloseUpcallOK ==
  ASSUME plan \in Plans, NEW h \in Hosts, NEW s, Stream(h, s), NEW up \in plan.ups[h]
  PROVE  LET t == CloseUpcall(s, up) IN
         /\ Stream(h, t) /\ Kept(s, t) /\ t.state = s.state
         /\ up.write = 0 => t.wrote <= s.wrote
<1>1. s.wrote \in Nat
  BY DEF Stream, Sock
<1> QED BY <1>1, UpcallOK DEF CloseUpcall, Kept

LEMMA SetallTxOK ==
  ASSUME plan \in Plans, NEW h \in Hosts, NEW s, Stream(h, s), NEW isn \in Int
  PROVE  LET t == buff_setall_tx(s, isn) IN
         /\ Stream(h, t) /\ t.state = s.state /\ t.iss = isn /\ t.txo = isn /\ t.tried = 0
         /\ t.irs = s.irs /\ t.txflags = s.txflags /\ t.wrote = 0
<1> DEFINE t == buff_setall_tx(s, isn)
<1>1. s \in Sock /\ RxStream(h, s) /\ Room \in Nat
  BY PlanFacts DEF Stream
<1>2. t = [s EXCEPT !.txo = isn, !.iss = isn, !.txq = <<>>, !.tried = 0, !.wrote = 0]
  BY DEF buff_setall_tx
<1> HIDE DEF t
<1>3. t \in Sock
  <2>1. PICK e \in Seq(Int) : e = <<>>
    <3>1. <<>> \in Seq(Int)
      OBVIOUS
    <3> QED BY <3>1, Zenon
  <2>2. t = [s EXCEPT !.txo = isn, !.iss = isn, !.txq = e, !.tried = 0, !.wrote = 0]
    BY <1>2, <2>1, Zenon
  <2> QED BY <1>1, <2>2 DEF Sock
<1>4. /\ t.txo = isn /\ t.iss = isn /\ t.txq = <<>> /\ t.tried = 0 /\ t.wrote = 0 /\ t.state = s.state
      /\ t.irs = s.irs /\ t.txflags = s.txflags /\ t.rxi = s.rxi /\ t.got = s.got /\ t.unread = s.unread
  <2>1. {"txo", "iss", "txq", "tried", "wrote"} \subseteq DOMAIN s
    BY <1>1 DEF Sock
  <2> QED BY <1>2, <2>1
<1>5. TxStream(t)
  BY <1>1, <1>4 DEF TxStream
<1>6. RxStream(h, t)
  BY <1>1, <1>4 DEF RxStream
<1> QED BY <1>3, <1>4, <1>5, <1>6 DEF Stream, t

LEMMA SetallRxOK ==
  ASSUME plan \in Plans, NEW h \in Hosts, NEW s, Stream(h, s), NEW seq \in Int
  PROVE  LET t == buff_setall_rx(s, seq) IN
         /\ Stream(h, t) /\ t.state = s.state /\ t.irs = seq /\ t.iss = s.iss /\ t.txo = s.txo
         /\ t.tried = s.tried /\ t.txflags = s.txflags /\ t.wrote = s.wrote
<1> DEFINE t == buff_setall_rx(s, seq)
<1>1. s \in Sock /\ TxStream(s) /\ Room \in Nat /\ plan.writes[Peer(h)] \in Nat
  BY PlanFacts, PeerHost DEF Stream
<1>2. t = [s EXCEPT !.rxi = seq, !.irs = seq, !.unread = 0, !.got = <<>>]
  BY DEF buff_setall_rx
<1> HIDE DEF t
<1>3. t \in Sock
  <2>1. PICK e \in Seq(Int) : e = <<>>
    <3>1. <<>> \in Seq(Int)
      OBVIOUS
    <3> QED BY <3>1, Zenon
  <2>2. t = [s EXCEPT !.rxi = seq, !.irs = seq, !.unread = 0, !.got = e]
    BY <1>2, <2>1, Zenon
  <2> QED BY <1>1, <2>2 DEF Sock
<1>4. /\ t.rxi = seq /\ t.irs = seq /\ t.unread = 0 /\ t.got = <<>> /\ t.state = s.state
      /\ t.iss = s.iss /\ t.txflags = s.txflags /\ t.txo = s.txo /\ t.tried = s.tried
      /\ t.wrote = s.wrote /\ t.txq = s.txq
  <2>1. {"rxi", "irs", "unread", "got"} \subseteq DOMAIN s
    BY <1>1 DEF Sock
  <2> QED BY <1>2, <2>1
<1>5. TxStream(t)
  BY <1>1, <1>4 DEF TxStream
<1>6. RxStream(h, t)
  BY <1>1, <1>4 DEF RxStream
<1> QED BY <1>3, <1>4, <1>5, <1>6 DEF Stream, t

-----------------------------------------------------------------------------
(* The function of each state                                              *)

LEMMA ReceivedOK ==
  ASSUME plan \in Plans, NEW h \in Hosts, NEW s, Stream(h, s), s.irs \in Isns(Peer(h)),
         NEW seg, Arriving(h, seg)
  PROVE  LET t == tsock_estab_rx(s, seg) IN
         Stream(h, t) /\ Kept(s, t) /\ t.state = s.state /\ t.wrote = s.wrote
<1> DEFINE t == tsock_estab_rx(s, seg)
<1>1. Stream(h, t) /\ t = [s EXCEPT !.rxi = t.rxi, !.unread = t.unread, !.got = t.got]
  BY EstabRxOK DEF Arriving
<1>2. s \in Sock
  BY DEF Stream
<1> HIDE DEF t
<1>3. Kept(s, t) /\ t.state = s.state /\ t.wrote = s.wrote
  BY <1>1, <1>2 DEF Sock, Kept
<1> QED BY <1>1, <1>3 DEF t

(* A control segment that is no SYN                                        *)
LEMMA SendOK ==
  ASSUME NEW h \in Hosts, NEW s, Stream(h, s), Numbers(h, s),
         NEW flags \in SUBSET Flags, "SYN" \notin flags
  PROVE  LET r == make_sock_tcp(s, flags, 0) IN
         ResultOK(h, r) /\ r.s.wrote = s.wrote /\ r.s.state = s.state
<1> DEFINE r == make_sock_tcp(s, flags, 0)
<1>1. /\ Stream(h, r.s) /\ Sent(s, r.s, flags) /\ r.s.tried = s.tried
      /\ \A m \in r.tx : m \in Seg /\ m.flags = flags /\ m.seq = TxSeq(s) /\ m.data = <<>>
  BY MakeBareOK
<1> HIDE DEF r
<1>2. \A m \in r.tx : SegOK(h, m, r.s.wrote)
  BY <1>1, BareOK
<1>3. Begun(h, r.s)
  BY <1>1 DEF Begun, Numbers, LastFlags, Sent
<1> QED BY <1>1, <1>2, <1>3 DEF r, ResultOK, SockOK, Sent

(* A SYN stands before the first byte of the stream.                       *)
LEMMA SendSynOK ==
  ASSUME NEW h \in Hosts, NEW s, Stream(h, s), Numbers(h, s), s.state \in {"SYNR", "SYNS"},
         NEW flags \in SUBSET Flags, h = S => flags # {"SYN"}
  PROVE  LET r == make_sock_tcp(s, flags, 0) IN
         ResultOK(h, r) /\ r.s.wrote = s.wrote
<1> DEFINE r == make_sock_tcp(s, flags, 0)
<1>1. /\ Stream(h, r.s) /\ Sent(s, r.s, flags) /\ r.s.tried = s.tried
      /\ \A m \in r.tx : m \in Seg /\ m.flags = flags /\ m.seq = TxSeq(s) /\ m.data = <<>>
  BY MakeBareOK
<1>2. s \in Sock
  BY DEF Stream
<1>3. s.iss \in Isns(h) /\ s.txo = s.iss /\ s.tried = 0 /\ s.iss \in Int
  BY IsnsAreInts DEF Numbers
<1>4. TxSeq(s) + 1 = s.iss
  <2>1. PICK i \in Int, z \in Nat : s.iss = i /\ s.txo = i /\ s.tried = z /\ z = 0
    BY <1>3
  <2>2. TxSeq(s) = s.txo + s.tried - 1
    BY <1>2, NumbersAreInts
  <2> QED BY <2>1, <2>2
<1> HIDE DEF r
<1>5. \A m \in r.tx : SegOK(h, m, r.s.wrote)
  BY <1>1, <1>3, <1>4 DEF SegOK
<1>6. Begun(h, r.s)
  BY <1>1 DEF Begun, Numbers, LastFlags, Sent
<1> QED BY <1>1, <1>5, <1>6 DEF r, ResultOK, SockOK, Sent

LEMMA SendDataOK ==
  ASSUME plan \in Plans, NEW h \in Hosts, NEW s, SockOK(h, s),
         NEW force \in BOOLEAN, s.state \in {"EST", "CLWAIT", "ACLOSE"}
  PROVE  LET r == tsock_estab_tx(s, force) IN
         ResultOK(h, r) /\ r.s.wrote = s.wrote
<1> DEFINE r == tsock_estab_tx(s, force)
<1>1. Stream(h, s) /\ s.iss \in Isns(h)
  BY DEF SockOK, Begun, Numbers
<1>2. /\ Stream(h, r.s) /\ Sent(s, r.s, r.s.txflags) /\ r.s.txflags \in {s.txflags, {"ACK"}}
      /\ \A m \in r.tx : SegOK(h, m, s.wrote)
  BY <1>1, EstabTxOK
<1> HIDE DEF r
<1>3. Begun(h, r.s)
  BY <1>2 DEF SockOK, Begun, Numbers, LastFlags, Sent
<1> QED BY <1>2, <1>3 DEF r, ResultOK, SockOK, Sent

LEMMA SilentOK ==
  ASSUME NEW h \in Hosts, NEW s, SockOK(h, s)
  PROVE  ResultOK(h, Silent(s)) /\ Silent(s).s = s
BY DEF Silent, ResultOK

LEMMA RefuseOK ==
  ASSUME NEW h \in Hosts, NEW s, SockOK(h, s), NEW seg \in Seg
  PROVE  ResultOK(h, Refuse(s, seg)) /\ Refuse(s, seg).s = s
BY ResetOK DEF Refuse, ResultOK

LEMMA InSynrOK ==
  ASSUME plan \in Plans, NEW h \in Hosts, NEW s0, SockOK(h, s0), s0.state = "SYNR",
         NEW seg, Arriving(h, seg), NEW up \in plan.ups[h]
  PROVE  RunOK(h, s0, InSynr(s0, seg, up), up)
<1> DEFINE s == tsock_estab_rx(s0, seg)
           asked == Upcall(s, up)
           r == InSynr(s0, seg, up)
<1>1. Stream(h, s0) /\ Begun(h, s0) /\ s0.irs \in Isns(Peer(h)) /\ s0.iss \in Isns(h)
  BY DEF SockOK, Begun, Numbers
<1>2. Stream(h, s) /\ Kept(s0, s) /\ s.state = "SYNR" /\ s.wrote = s0.wrote
  BY <1>1, ReceivedOK
<1>3. SockOK(h, s)
  BY <1>1, <1>2 DEF SockOK, Begun, Numbers, LastFlags, Kept
<1>4. s.wrote \in Nat
  BY <1>2 DEF Stream, Sock
<1> HIDE DEF s
<1>5. CASE seg.flags = {"ACK"} /\ seg.seq = s.rxi /\ seg.ack = s.txo
  <2> DEFINE st == IF up.ok THEN "EST" ELSE "ACLOSE"
             n == new_state(asked, st)
  <2>1. Stream(h, asked) /\ Kept(s, asked) /\ (up.write = 0 => asked.wrote <= s.wrote)
    BY <1>2, UpcallOK
  <2>2. st \in States /\ st \in {"EST", "ACLOSE"}
    BY DEF States
  <2> HIDE DEF asked, st
  <2>3. Stream(h, n) /\ Kept(asked, n) /\ n.state = st /\ n.wrote = asked.wrote
    BY <2>1, <2>2, NewStateOK DEF Kept
  <2> HIDE DEF n
  <2>4. Begun(h, n)
    BY <1>1, <1>2, <2>1, <2>2, <2>3 DEF Begun, Numbers, LastFlags, Kept
  <2>5. r = Silent(n)
    BY <1>5 DEF InSynr, s, asked, st, n
  <2> HIDE DEF r
  <2>6. ResultOK(h, r) /\ r.s = n
    BY <2>3, <2>4, <2>5, SilentOK DEF SockOK
  <2> QED BY <1>2, <2>1, <2>3, <2>6 DEF RunOK, r
<1>6. CASE ~(seg.flags = {"ACK"} /\ seg.seq = s.rxi /\ seg.ack = s.txo)
  <2>1. {"SYN", "ACK"} \in SUBSET Flags /\ {"SYN", "ACK"} # {"SYN"}
    BY DEF Flags
  <2>2. r = make_sock_tcp(s, {"SYN", "ACK"}, 0) \/ r = Silent(s)
    BY <1>6 DEF InSynr, s
  <2> HIDE DEF r
  <2>3. ResultOK(h, r) /\ r.s.wrote = s.wrote
    BY <1>2, <1>3, <2>1, <2>2, SendSynOK, SilentOK DEF SockOK, Begun
  <2> QED BY <1>2, <1>4, <2>3 DEF RunOK, r
<1> QED BY <1>5, <1>6

LEMMA InEstOK ==
  ASSUME plan \in Plans, NEW h \in Hosts, NEW s0, SockOK(h, s0), s0.state = "EST",
         NEW seg, Arriving(h, seg), NEW up \in plan.ups[h]
  PROVE  RunOK(h, s0, InEst(s0, seg, up), up)
<1> DEFINE live == IF IsSeg(seg) THEN new_state(s0, "EST") ELSE s0
           s == tsock_estab_rx(live, seg)
           closing == "FIN" \in seg.flags /\ seg.seq = s0.rxi
           asked == IF closing THEN CloseUpcall(s, up) ELSE Upcall(s, up)
           r == InEst(s0, seg, up)
<1>1. Stream(h, s0) /\ Begun(h, s0) /\ s0.irs \in Isns(Peer(h)) /\ s0.iss \in Isns(h)
  BY DEF SockOK, Begun, Numbers
<1>2. Stream(h, live) /\ Kept(s0, live) /\ live.state = "EST" /\ live.wrote = s0.wrote
  <2>1. "EST" \in States
    BY DEF States
  <2> QED BY <1>1, <2>1, NewStateOK DEF Kept
<1> HIDE DEF live
<1>3. Stream(h, s) /\ Kept(live, s) /\ s.state = "EST" /\ s.wrote = live.wrote
  BY <1>1, <1>2, ReceivedOK DEF Kept
<1> HIDE DEF s
<1>4. /\ Stream(h, asked) /\ Kept(s, asked) /\ asked.state = "EST"
      /\ up.write = 0 => asked.wrote <= s.wrote
  BY <1>3, UpcallOK, CloseUpcallOK
<1>5. r = IF closing
          THEN IF up.ok
               THEN make_sock_tcp(new_state(asked, "LASTACK"), {"FIN", "ACK"}, 0)
               ELSE tsock_estab_tx(new_state(asked, "CLWAIT"), TRUE)
          ELSE IF up.ok
               THEN tsock_estab_tx(asked, seg.data # <<>>)
               ELSE tsock_estab_tx(new_state(asked, "ACLOSE"), TRUE)
  BY DEF InEst, s, live
<1> HIDE DEF asked, closing, r
<1>6. ASSUME NEW st \in {"LASTACK", "CLWAIT", "ACLOSE"}
      PROVE  LET n == new_state(asked, st) IN
             Stream(h, n) /\ Kept(asked, n) /\ n.state = st /\ n.wrote = asked.wrote /\ Numbers(h, n)
  <2> DEFINE n == new_state(asked, st)
  <2>1. st \in States
    BY DEF States
  <2>2. Stream(h, n) /\ Kept(asked, n) /\ n.state = st /\ n.wrote = asked.wrote
    BY <1>4, <2>1, NewStateOK DEF Kept
  <2> HIDE DEF n
  <2>3. Numbers(h, n)
    BY <1>1, <1>2, <1>3, <1>4, <2>2 DEF Numbers, Kept
  <2> QED BY <2>2, <2>3 DEF n
<1>7. h = S => asked.txflags # {"SYN"}
  BY <1>1, <1>2, <1>3, <1>4 DEF Begun, LastFlags, Kept
<1>8. ASSUME NEW st \in {"CLWAIT", "ACLOSE"}
      PROVE  SockOK(h, new_state(asked, st))
  <2> DEFINE n == new_state(asked, st)
  <2>1. Stream(h, n) /\ Kept(asked, n) /\ n.state = st /\ Numbers(h, n)
    BY <1>6
  <2> HIDE DEF n
  <2>2. LastFlags(h, n)
    BY <1>7, <2>1 DEF LastFlags, Kept
  <2> QED BY <2>1, <2>2 DEF SockOK, Begun, n
<1>9. ResultOK(h, r) /\ r.s.wrote = asked.wrote
  <2>1. CASE closing /\ up.ok
    <3> DEFINE n == new_state(asked, "LASTACK")
    <3>1. Stream(h, n) /\ n.wrote = asked.wrote /\ Numbers(h, n)
      BY <1>6
    <3> HIDE DEF n
    <3>2. r = make_sock_tcp(n, {"FIN", "ACK"}, 0)
      BY <1>5, <2>1 DEF n
    <3>3. {"FIN", "ACK"} \in SUBSET Flags /\ "SYN" \notin {"FIN", "ACK"}
      BY DEF Flags
    <3> QED BY <3>1, <3>2, <3>3, SendOK
  <2>2. ASSUME NEW st \in {"CLWAIT", "ACLOSE"}, r = tsock_estab_tx(new_state(asked, st), TRUE)
        PROVE  ResultOK(h, r) /\ r.s.wrote = asked.wrote
    <3> DEFINE n == new_state(asked, st)
    <3>1. SockOK(h, n) /\ n.wrote = asked.wrote /\ n.state = st
      BY <1>6, <1>8
    <3> HIDE DEF n
    <3>2. r = tsock_estab_tx(n, TRUE)
      BY <2>2 DEF n
    <3> QED BY <3>1, <3>2, SendDataOK
  <2>3. CASE ~closing /\ up.ok
    <3>1. SockOK(h, asked)
      BY <1>1, <1>2, <1>3, <1>4 DEF SockOK, Begun, Numbers, LastFlags, Kept
    <3>2. r = tsock_estab_tx(asked, seg.data # <<>>) /\ (seg.data # <<>>) \in BOOLEAN
      BY <1>5, <2>3
    <3> QED BY <1>4, <3>1, <3>2, SendDataOK
  <2>4. CASE ~up.ok
    BY <1>5, <2>2, <2>4
  <2> QED BY <2>1, <2>3, <2>4
<1> QED BY <1>2, <1>3, <1>4, <1>9 DEF RunOK, r

(* From an established state to a later one, with a control segment        *)
After(s, t) == Kept(s, t) /\ t.wrote = s.wrote
Later == {"CLWAIT", "LASTACK", "ACLOSE", "FINWT1", "FINWT2", "CLING", "TWAIT", "CLOSED"}

LEMMA LaterOK ==
  ASSUME NEW h \in Hosts, NEW s, Stream(h, s), s.iss \in Isns(h), s.irs \in Isns(Peer(h)),
         NEW st \in Later
  PROVE  LET n == new_state(s, st) IN
         Stream(h, n) /\ After(s, n) /\ n.state = st /\ Numbers(h, n)
<1> DEFINE n == new_state(s, st)
<1>1. st \in States
  BY DEF States, Later
<1>2. Stream(h, n) /\ After(s, n) /\ n.state = st
  BY <1>1, NewStateOK DEF Kept, After
<1> HIDE DEF n
<1>3. Numbers(h, n)
  BY <1>2 DEF Numbers, Kept, After, Later
<1> QED BY <1>2, <1>3 DEF n

LEMMA SendLaterOK ==
  ASSUME NEW h \in Hosts, NEW s, Stream(h, s), s.iss \in Isns(h), s.irs \in Isns(Peer(h)),
         NEW st \in Later, NEW flags \in {{"FIN", "ACK"}, {"ACK"}}
  PROVE  LET r == make_sock_tcp(new_state(s, st), flags, 0) IN
         ResultOK(h, r) /\ r.s.wrote = s.wrote
<1> DEFINE n == new_state(s, st)
<1>1. Stream(h, n) /\ After(s, n) /\ Numbers(h, n)
  BY LaterOK
<1>2. flags \in SUBSET Flags /\ "SYN" \notin flags
  BY DEF Flags
<1> HIDE DEF n
<1>3. LET r == make_sock_tcp(n, flags, 0) IN ResultOK(h, r) /\ r.s.wrote = n.wrote
  BY <1>1, <1>2, SendOK
<1> QED BY <1>1, <1>3 DEF n, After

(* Silently from one closing state to the next                             *)
LEMMA QuietLaterOK ==
  ASSUME NEW h \in Hosts, NEW s, Stream(h, s), s.iss \in Isns(h), s.irs \in Isns(Peer(h)),
         NEW st \in Later, LastFlags(h, s),
         s.state \in {"LASTACK", "FINWT1", "FINWT2", "CLING", "TWAIT"}
  PROVE  LET r == Silent(new_state(s, st)) IN
         ResultOK(h, r) /\ r.s.wrote = s.wrote
<1> DEFINE n == new_state(s, st)
<1>1. Stream(h, n) /\ After(s, n) /\ Numbers(h, n)
  BY LaterOK
<1> HIDE DEF n
<1>2. LastFlags(h, n)
  BY <1>1 DEF LastFlags, After, Kept
<1>3. ResultOK(h, Silent(n)) /\ Silent(n).s = n
  BY <1>1, <1>2, SilentOK DEF SockOK, Begun
<1> QED BY <1>1, <1>3 DEF n, After

LEMMA InClwaitOK ==
  ASSUME plan \in Plans, NEW h \in Hosts, NEW s, SockOK(h, s), s.state = "CLWAIT",
         NEW seg, Arriving(h, seg), NEW up \in plan.ups[h]
  PROVE  RunOK(h, s, InClwait(s, seg, up), up)
<1> DEFINE asked == CloseUpcall(s, up)
           r == InClwait(s, seg, up)
<1>1. Stream(h, s) /\ Begun(h, s) /\ s.irs \in Isns(Peer(h)) /\ s.iss \in Isns(h)
  BY DEF SockOK, Begun, Numbers
<1>2. Stream(h, asked) /\ Kept(s, asked) /\ asked.state = "CLWAIT" /\ (up.write = 0 => asked.wrote <= s.wrote)
  BY <1>1, CloseUpcallOK
<1>3. r = IF up.ok THEN make_sock_tcp(new_state(asked, "LASTACK"), {"FIN", "ACK"}, 0)
          ELSE tsock_estab_tx(asked, FALSE)
  BY DEF InClwait
<1> HIDE DEF asked, r
<1>4. SockOK(h, asked)
  BY <1>1, <1>2 DEF SockOK, Begun, Numbers, LastFlags, Kept
<1>5. CASE up.ok
  <2>1. "LASTACK" \in Later
    BY DEF Later
  <2>2. asked.iss \in Isns(h) /\ asked.irs \in Isns(Peer(h))
    BY <1>1, <1>2 DEF Kept
  <2>3. ResultOK(h, r) /\ r.s.wrote = asked.wrote
    BY <1>2, <1>3, <1>5, <2>1, <2>2, SendLaterOK
  <2> QED BY <1>2, <2>3 DEF RunOK, r
<1>6. CASE ~up.ok
  <2>1. ResultOK(h, r) /\ r.s.wrote = asked.wrote
    BY <1>2, <1>3, <1>4, <1>6, SendDataOK
  <2> QED BY <1>2, <2>1 DEF RunOK, r
<1> QED BY <1>5, <1>6

LEMMA InLastackOK ==
  ASSUME NEW h \in Hosts, NEW s, SockOK(h, s), s.state \in {"LASTACK", "CLING"}, NEW seg, NEW up
  PROVE  RunOK(h, s, InLastack(s, seg), up) /\ RunOK(h, s, InCling(s, seg), up)
<1>1. Stream(h, s) /\ LastFlags(h, s) /\ s.irs \in Isns(Peer(h)) /\ s.iss \in Isns(h) /\ s.wrote \in Nat
  BY DEF SockOK, Begun, Numbers, Stream, Sock
<1>2. RunOK(h, s, Silent(new_state(s, "CLOSED")), up)
  <2>1. "CLOSED" \in Later
    BY DEF Later
  <2> QED BY <1>1, <2>1, QuietLaterOK DEF RunOK
<1>3. RunOK(h, s, Silent(s), up)
  BY <1>1, SilentOK DEF RunOK
<1> QED BY <1>2, <1>3 DEF InLastack, InCling

LEMMA InAcloseOK ==
  ASSUME plan \in Plans, NEW h \in Hosts, NEW s0, SockOK(h, s0), s0.state = "ACLOSE",
         NEW seg, Arriving(h, seg), NEW up
  PROVE  RunOK(h, s0, InAclose(s0, seg), up)
<1> DEFINE s == tsock_estab_rx(s0, seg)
           r == InAclose(s0, seg)
<1>1. Stream(h, s0) /\ Begun(h, s0) /\ s0.irs \in Isns(Peer(h)) /\ s0.iss \in Isns(h)
  BY DEF SockOK, Begun, Numbers
<1>2. Stream(h, s) /\ Kept(s0, s) /\ s.state = "ACLOSE" /\ s.wrote = s0.wrote
  BY <1>1, ReceivedOK
<1>3. r = IF s.txq # <<>> THEN tsock_estab_tx(s, FALSE)
          ELSE make_sock_tcp(new_state(s, "FINWT1"), {"FIN", "ACK"}, 0)
  BY DEF InAclose
<1> HIDE DEF s, r
<1>4. SockOK(h, s) /\ s.iss \in Isns(h) /\ s.irs \in Isns(Peer(h)) /\ s.wrote \in Nat
  BY <1>1, <1>2 DEF SockOK, Begun, Numbers, LastFlags, Kept, Stream, Sock
<1>5. "FINWT1" \in Later
  BY DEF Later
<1>6. ResultOK(h, r) /\ r.s.wrote = s.wrote
  BY <1>2, <1>3, <1>4, <1>5, SendDataOK, SendLaterOK
<1> QED BY <1>2, <1>4, <1>6 DEF RunOK, r

LEMMA InFinwtOK ==
  ASSUME plan \in Plans, NEW h \in Hosts, NEW s0, SockOK(h, s0), s0.state \in {"FINWT1", "FINWT2"},
         NEW seg, Arriving(h, seg), NEW up
  PROVE  RunOK(h, s0, InFinwt1(s0, seg), up) /\ RunOK(h, s0, InFinwt2(s0, seg), up)
<1> DEFINE s == tsock_estab_rx(s0, seg)
<1>1. Stream(h, s0) /\ Begun(h, s0) /\ s0.irs \in Isns(Peer(h)) /\ s0.iss \in Isns(h)
  BY DEF SockOK, Begun, Numbers
<1>2. Stream(h, s) /\ Kept(s0, s) /\ s.state = s0.state /\ s.wrote = s0.wrote
  BY <1>1, ReceivedOK
<1> HIDE DEF s
<1>3. SockOK(h, s) /\ s.iss \in Isns(h) /\ s.irs \in Isns(Peer(h)) /\ s.wrote \in Nat
  BY <1>1, <1>2 DEF SockOK, Begun, Numbers, LastFlags, Kept, Stream, Sock
<1>4. ASSUME NEW r, ResultOK(h, r), r.s.wrote = s.wrote
      PROVE  RunOK(h, s0, r, up)
  BY <1>2, <1>3, <1>4 DEF RunOK
<1>5. RunOK(h, s0, Silent(s), up)
  BY <1>3, <1>4, SilentOK
<1>6. RunOK(h, s0, make_sock_tcp(s, {"ACK"}, 0), up)
  <2>1. {"ACK"} \in SUBSET Flags /\ "SYN" \notin {"ACK"}
    BY DEF Flags
  <2>2. LET r == make_sock_tcp(s, {"ACK"}, 0) IN ResultOK(h, r) /\ r.s.wrote = s.wrote
    BY <1>2, <1>3, <2>1, SendOK DEF SockOK, Begun
  <2> QED BY <1>4, <2>2
<1>7. ASSUME NEW st \in {"TWAIT", "CLING"}
      PROVE  RunOK(h, s0, make_sock_tcp(new_state(s, st), {"ACK"}, 0), up)
  <2>1. st \in Later
    BY DEF Later
  <2>2. LET r == make_sock_tcp(new_state(s, st), {"ACK"}, 0) IN ResultOK(h, r) /\ r.s.wrote = s.wrote
    BY <1>2, <1>3, <2>1, SendLaterOK
  <2> QED BY <1>4, <2>2
<1>8. RunOK(h, s0, Silent(new_state(s, "FINWT2")), up)
  <2>1. "FINWT2" \in Later
    BY DEF Later
  <2>2. LET r == Silent(new_state(s, "FINWT2")) IN ResultOK(h, r) /\ r.s.wrote = s.wrote
    BY <1>2, <1>3, <2>1, QuietLaterOK DEF SockOK, Begun
  <2> QED BY <1>4, <2>2
<1>9. RunOK(h, s0, InFinwt1(s0, seg), up)
  BY <1>5, <1>6, <1>7, <1>8 DEF InFinwt1, s
<1>10. RunOK(h, s0, InFinwt2(s0, seg), up)
  BY <1>5, <1>7 DEF InFinwt2, s
<1> QED BY <1>9, <1>10

LEMMA InTwaitOK ==
  ASSUME NEW h \in Hosts, NEW s, Stream(h, s), h = S => s.txflags # {"SYN"}, NEW up
  PROVE  RunOK(h, s, InTwait(s), up)
<1> DEFINE n == new_state(s, "CLOSED")
<1>1. "CLOSED" \in States
  BY DEF States
<1>2. /\ Stream(h, n) /\ n.state = "CLOSED" /\ n.wrote = s.wrote /\ n.txflags = s.txflags
      /\ s.wrote \in Nat
  <2>1. s.wrote \in Nat
    BY DEF Stream, Sock
  <2> QED BY <1>1, <2>1, NewStateOK
<1>3. InTwait(s) = Silent(n)
  BY DEF InTwait
<1> HIDE DEF n
<1>4. Begun(h, n)
  BY <1>2 DEF Begun, Numbers, LastFlags
<1>5. ResultOK(h, Silent(n)) /\ Silent(n).s = n
  BY <1>2, <1>4, SilentOK DEF SockOK
<1> QED BY <1>2, <1>3, <1>5 DEF RunOK

(* The two streams of a connection begin: the numbers of its own are new,  *)
(* those of the other side are in the SYN.                                 *)
LEMMA InClosedOK ==
  ASSUME plan \in Plans, NEW h \in Hosts, NEW s, SockOK(h, s), s.state = "CLOSED",
         NEW seg, Arriving(h, seg), NEW up \in plan.ups[h], NEW isn \in Isns(h)
  PROVE  /\ RunOK(h, s, InClosed(s, seg, up, isn), up)
         /\ h = C => InClosed(s, seg, up, isn).s = s
<1> DEFINE r == InClosed(s, seg, up, isn)
<1>1. Stream(h, s) /\ LastFlags(h, s) /\ seg \in Seg /\ s.wrote \in Nat
  BY DEF SockOK, Begun, Stream, Sock, Arriving, SegOK
<1>2. CASE seg.flags = {"SYN"}
  <2> DEFINE rx == buff_setall_rx(s, seg.seq + 1)
             fresh == buff_setall_tx(rx, isn)
             asked == Upcall(fresh, up)
             n == new_state(asked, "SYNR")
             m == make_sock_tcp(n, {"SYN", "ACK"}, 0)
  <2>1. PICK seq \in Int : seg.seq + 1 = seq
    BY <1>1 DEF Seg
  <2>2. seq \in Isns(Peer(h)) /\ isn \in Int /\ h # C
    BY <1>2, <2>1, IsnsAreInts DEF Arriving, SegOK, Peer, C, S
  <2>3. rx = buff_setall_rx(s, seq)
    BY <2>1
  <2> HIDE DEF rx
  <2>4. /\ Stream(h, rx) /\ rx.state = "CLOSED" /\ rx.irs = seq /\ rx.iss = s.iss /\ rx.txo = s.txo
        /\ rx.tried = s.tried /\ rx.txflags = s.txflags /\ rx.wrote = s.wrote
    <3>1. seq \in Int /\ Stream(h, s)
      BY <1>1
    <3> QED BY <1>1, <2>3, <3>1, SetallRxOK
  <2>5. /\ Stream(h, fresh) /\ fresh.state = "CLOSED" /\ fresh.iss = isn /\ fresh.txo = isn /\ fresh.tried = 0
        /\ fresh.irs = seq /\ fresh.txflags = s.txflags /\ fresh.wrote = 0
    BY <2>2, <2>4, SetallTxOK
  <2> HIDE DEF fresh
  <2>6. /\ Stream(h, asked) /\ Kept(fresh, asked) /\ asked.state = "CLOSED"
        /\ up.write = 0 => asked.wrote <= 0
    BY <2>5, UpcallOK
  <2>7. r = IF up.ok THEN [m EXCEPT !.s.server = TRUE] ELSE Refuse(asked, seg)
    BY <1>2 DEF InClosed, rx, fresh
  <2> HIDE DEF asked, r
  <2>8. CASE up.ok
    <3>1. "SYNR" \in States
      BY DEF States
    <3>2. Stream(h, n) /\ Kept(asked, n) /\ n.state = "SYNR" /\ n.wrote = asked.wrote
      BY <2>6, <3>1, NewStateOK DEF Kept
    <3>3. Numbers(h, n)
      BY <2>2, <2>5, <2>6, <3>2 DEF Numbers, Kept
    <3>4. {"SYN", "ACK"} \in SUBSET Flags /\ {"SYN", "ACK"} # {"SYN"}
      BY DEF Flags
    <3> HIDE DEF n
    <3>5. ResultOK(h, m) /\ m.s.wrote = asked.wrote
      BY <3>2, <3>3, <3>4, SendSynOK DEF n
    <3>6. m = [s |-> m.s, tx |-> m.tx]
      BY DEF make_sock_tcp
    <3> HIDE DEF m
    <3>7. r = [s |-> [m.s EXCEPT !.server = TRUE], tx |-> m.tx]
      BY <2>7, <2>8, <3>6
    <3> DEFINE t == [m.s EXCEPT !.server = TRUE]
    <3>8. m.s \in Sock /\ TxStream(m.s) /\ RxStream(h, m.s) /\ Begun(h, m.s)
      BY <3>5 DEF ResultOK, SockOK, Stream
    <3>9. t \in Sock
      BY <3>8 DEF Sock
    <3>10. TxStream(t) /\ RxStream(h, t) /\ t.wrote = m.s.wrote
      BY <3>8 DEF Sock, TxStream, RxStream
    <3>11. Begun(h, t)
      BY <3>8 DEF Sock, Begun, Numbers, LastFlags
    <3> HIDE DEF t
    <3>12. r.s = t /\ r.tx = m.tx
      BY <3>7 DEF t
    <3>13. ResultOK(h, r)
      BY <3>5, <3>9, <3>10, <3>11, <3>12 DEF ResultOK, SockOK, Stream
    <3>14. asked.wrote \in Int
      BY <2>6 DEF Stream, Sock
    <3>15. up.write = 0 => r.s.wrote <= s.wrote
      BY <1>1, <2>6, <3>5, <3>10, <3>12, <3>14
    <3> QED BY <2>2, <3>13, <3>15 DEF RunOK, r
  <2>9. CASE ~up.ok
    <3>1. SockOK(h, asked)
      BY <1>1, <2>5, <2>6 DEF SockOK, Begun, Numbers, LastFlags, Kept
    <3>2. r = Refuse(asked, seg)
      BY <2>7, <2>9
    <3>3. ResultOK(h, r) /\ r.s = asked
      BY <1>1, <3>1, <3>2, RefuseOK
    <3>4. asked.wrote \in Int
      BY <2>6 DEF Stream, Sock
    <3> QED BY <1>1, <2>2, <2>6, <3>3, <3>4 DEF RunOK, r
  <2> QED BY <2>8, <2>9
<1>3. CASE seg.flags # {"SYN"}
  <2>1. r = Refuse(s, seg) \/ r = Silent(s)
    BY <1>3 DEF InClosed
  <2> HIDE DEF r
  <2>2. ResultOK(h, r) /\ r.s = s
    BY <1>1, <2>1, RefuseOK, SilentOK
  <2> QED BY <1>1, <2>2 DEF RunOK, r
<1> QED BY <1>2, <1>3

LEMMA InArprOK ==
  ASSUME plan \in Plans, NEW h \in Hosts, NEW s, SockOK(h, s), s.state = "ARPR",
         NEW up \in plan.ups[h], NEW isn \in Isns(h), NEW port \in Int
  PROVE  RunOK(h, s, InArpr(s, up, isn, port), up)
<1> DEFINE set == buff_setall_tx(s, isn)
           fresh == [set EXCEPT !.port = port]
           asked == Upcall(fresh, up)
           n == new_state(asked, "SYNS")
           r == make_sock_tcp(n, {"SYN"}, 0)
<1>1. Stream(h, s) /\ s.wrote \in Nat /\ isn \in Int /\ h # S
  BY IsnsAreInts DEF SockOK, Stream, Sock, Begun, Numbers
<1>2. Stream(h, set) /\ set.iss = isn /\ set.txo = isn /\ set.tried = 0 /\ set.wrote = 0
  BY <1>1, SetallTxOK
<1> HIDE DEF set
<1>3. set \in Sock /\ TxStream(set) /\ RxStream(h, set)
  BY <1>2 DEF Stream
<1>4. fresh \in Sock
  BY <1>3 DEF Sock
<1>5. /\ TxStream(fresh) /\ RxStream(h, fresh)
      /\ fresh.iss = isn /\ fresh.txo = isn /\ fresh.tried = 0 /\ fresh.wrote = 0
  BY <1>2, <1>3 DEF Sock, TxStream, RxStream
<1> HIDE DEF fresh
<1>6. Stream(h, asked) /\ Kept(fresh, asked) /\ (up.write = 0 => asked.wrote <= 0)
  BY <1>4, <1>5, UpcallOK DEF Stream
<1> HIDE DEF asked
<1>7. "SYNS" \in States
  BY DEF States
<1>8. Stream(h, n) /\ Kept(asked, n) /\ n.state = "SYNS" /\ n.wrote = asked.wrote
  BY <1>6, <1>7, NewStateOK DEF Kept
<1> HIDE DEF n
<1>9. Numbers(h, n)
  BY <1>1, <1>5, <1>6, <1>8 DEF Numbers, Kept
<1>10. {"SYN"} \in SUBSET Flags
  BY DEF Flags
<1>11. ResultOK(h, r) /\ r.s.wrote = asked.wrote
  BY <1>1, <1>8, <1>9, <1>10, SendSynOK
<1>12. r = InArpr(s, up, isn, port)
  BY DEF InArpr, n, asked, fresh, set
<1> HIDE DEF r
<1>13. asked.wrote \in Int
  BY <1>6 DEF Stream, Sock
<1> QED BY <1>1, <1>6, <1>11, <1>12, <1>13 DEF RunOK

LEMMA InSynsOK ==
  ASSUME plan \in Plans, NEW h \in Hosts, NEW s, SockOK(h, s), s.state = "SYNS",
         NEW seg, Arriving(h, seg), NEW up \in plan.ups[h]
  PROVE  RunOK(h, s, InSyns(s, seg, up), up)
<1> DEFINE r == InSyns(s, seg, up)
<1>1. Stream(h, s) /\ Begun(h, s) /\ s.iss \in Isns(h) /\ seg \in Seg /\ s.wrote \in Nat /\ h # S
  BY DEF SockOK, Begun, Numbers, Stream, Sock, Arriving, SegOK
<1>2. CASE seg.flags = {"SYN", "ACK"} /\ seg.ack = s.txo
  <2> DEFINE fresh == buff_setall_rx(s, seg.seq + 1)
             asked == Upcall(fresh, up)
             n == new_state(asked, "EST")
  <2>1. PICK seq \in Int : seg.seq + 1 = seq
    BY <1>1 DEF Seg
  <2>2. seq \in Isns(Peer(h))
    BY <1>2, <2>1 DEF Arriving, SegOK
  <2>3. Stream(h, fresh) /\ fresh.irs = seq /\ fresh.iss = s.iss /\ fresh.wrote = s.wrote
    <3>1. fresh = buff_setall_rx(s, seq)
      BY <2>1
    <3> HIDE DEF fresh
    <3> QED BY <1>1, <3>1, SetallRxOK
  <2> HIDE DEF fresh
  <2>4. Stream(h, asked) /\ Kept(fresh, asked) /\ (up.write = 0 => asked.wrote <= s.wrote)
    BY <2>3, UpcallOK
  <2> HIDE DEF asked
  <2>5. "EST" \in States
    BY DEF States
  <2>6. Stream(h, n) /\ Kept(asked, n) /\ n.state = "EST" /\ n.wrote = asked.wrote
    BY <2>4, <2>5, NewStateOK DEF Kept
  <2> HIDE DEF n
  <2>7. Numbers(h, n)
    BY <1>1, <2>2, <2>3, <2>4, <2>6 DEF Numbers, Kept
  <2>8. {"ACK"} \in SUBSET Flags /\ "SYN" \notin {"ACK"}
    BY DEF Flags
  <2>9. r = make_sock_tcp(n, {"ACK"}, 0)
    BY <1>2 DEF InSyns, n, asked, fresh
  <2> HIDE DEF r
  <2>10. ResultOK(h, r) /\ r.s.wrote = asked.wrote
    BY <2>6, <2>7, <2>8, <2>9, SendOK
  <2> QED BY <2>4, <2>10 DEF RunOK, r
<1>3. CASE ~(seg.flags = {"SYN", "ACK"} /\ seg.ack = s.txo)
  <2>1. r = Refuse(s, seg) \/ r = Silent(s)
    BY <1>3 DEF InSyns
  <2> HIDE DEF r
  <2>2. ResultOK(h, r) /\ r.s = s
    BY <1>1, <2>1, RefuseOK, SilentOK
  <2> QED BY <1>1, <2>2 DEF RunOK, r
<1> QED BY <1>2, <1>3

(* A socket that receives a segment or is polled; the client's socket that *)
(* is closed stays closed.                                                 *)
LEMMA TsockRxOK ==
  ASSUME plan \in Plans, NEW h \in Hosts, NEW s, SockOK(h, s), NEW seg, Arriving(h, seg),
         NEW up \in plan.ups[h], NEW isn \in Isns(h), NEW port \in Int
  PROVE  LET r == tsock_rx(s, seg, up, isn, port) IN
         /\ RunOK(h, s, r, up)
         /\ h = C /\ s.state = "CLOSED" => r.s.state = "CLOSED" /\ r.s.txflags = s.txflags
<1> DEFINE t == TakeAck(s, seg)
           r == tsock_rx(s, seg, up, isn, port)
<1>1. Stream(h, s) /\ Begun(h, s) /\ seg \in Seg /\ s.state \in States \ {"AOPEN", "RSTR"}
  BY DEF SockOK, Begun, Numbers, Stream, Sock, Arriving, SegOK
<1>2. /\ Stream(h, t)
      /\ t.state = (IF "RST" \in seg.flags THEN "RSTR" ELSE s.state)
      /\ t.iss = s.iss /\ t.irs = s.irs /\ t.wrote = s.wrote /\ t.txflags = s.txflags
      /\ s.tried = 0 => t.txo = s.txo /\ t.tried = 0
  BY <1>1, TakeAckOK
<1>3. /\ t.state = "CLOSED" => r = InClosed(t, seg, up, isn)
      /\ t.state = "SYNR" => r = InSynr(t, seg, up)
      /\ t.state = "EST" => r = InEst(t, seg, up)
      /\ t.state = "CLWAIT" => r = InClwait(t, seg, up)
      /\ t.state = "LASTACK" => r = InLastack(t, seg)
      /\ t.state = "ARPS" => r = Silent(t)
      /\ t.state = "ARPR" => r = InArpr(t, up, isn, port)
      /\ t.state = "SYNS" => r = InSyns(t, seg, up)
      /\ t.state = "ACLOSE" => r = InAclose(t, seg)
      /\ t.state = "FINWT1" => r = InFinwt1(t, seg)
      /\ t.state = "FINWT2" => r = InFinwt2(t, seg)
      /\ t.state = "CLING" => r = InCling(t, seg)
      /\ t.state \in {"TWAIT", "RSTR"} => r = InTwait(t)
  BY DEF tsock_rx
<1> HIDE DEF t, r
<1>4. h = S => t.txflags # {"SYN"}
  BY <1>1, <1>2 DEF Begun, LastFlags
<1>5. t.wrote = s.wrote /\ t.wrote \in Nat
  BY <1>2 DEF Stream, Sock
<1>6. CASE "RST" \in seg.flags
  <2>1. r = InTwait(t) /\ RunOK(h, t, r, up)
    BY <1>2, <1>3, <1>4, <1>6, InTwaitOK
  <2>2. r.s.state = "CLOSED" /\ r.s.txflags = t.txflags
    <3>1. r.s = new_state(t, "CLOSED") /\ "CLOSED" \in States
      BY <2>1 DEF InTwait, Silent, States
    <3> QED BY <1>2, <3>1, NewStateOK
  <2> QED BY <1>2, <2>1, <2>2 DEF RunOK, r
<1>7. CASE "RST" \notin seg.flags
  <2>1. SockOK(h, t) /\ t.state = s.state
    BY <1>1, <1>2, <1>7 DEF SockOK, Begun, Numbers, LastFlags
  <2>2. RunOK(h, t, r, up)
    <3>1. CASE t.state = "CLOSED"
      BY <1>3, <2>1, <3>1, InClosedOK
    <3>2. CASE t.state = "SYNR"
      BY <1>3, <2>1, <3>2, InSynrOK
    <3>3. CASE t.state = "EST"
      BY <1>3, <2>1, <3>3, InEstOK
    <3>4. CASE t.state = "CLWAIT"
      BY <1>3, <2>1, <3>4, InClwaitOK
    <3>5. CASE t.state \in {"LASTACK", "CLING"}
      BY <1>3, <2>1, <3>5, InLastackOK
    <3>6. CASE t.state = "ARPS"
      BY <1>3, <1>5, <2>1, <3>6, SilentOK DEF RunOK
    <3>7. CASE t.state = "ARPR"
      BY <1>3, <2>1, <3>7, InArprOK
    <3>8. CASE t.state = "SYNS"
      BY <1>3, <2>1, <3>8, InSynsOK
    <3>9. CASE t.state = "ACLOSE"
      BY <1>3, <2>1, <3>9, InAcloseOK
    <3>10. CASE t.state \in {"FINWT1", "FINWT2"}
      BY <1>3, <2>1, <3>10, InFinwtOK
    <3>11. CASE t.state = "TWAIT"
      BY <1>2, <1>3, <1>4, <3>11, InTwaitOK
    <3> QED BY <1>1, <2>1, <3>1, <3>2, <3>3, <3>4, <3>5, <3>6, <3>7, <3>8, <3>9, <3>10, <3>11 DEF States
  <2>3. h = C /\ s.state = "CLOSED" => r.s.state = "CLOSED" /\ r.s.txflags = s.txflags
    BY <1>2, <1>3, <2>1, InClosedOK
  <2> QED BY <1>2, <2>2, <2>3 DEF RunOK, r
<1> QED BY <1>6, <1>7

LEMMA ExpireOK ==
  ASSUME plan \in Plans, NEW h \in Hosts, NEW s, SockOK(h, s), s.state # "CLOSED"
  PROVE  ResultOK(h, Expire(s)) /\ Expire(s).s.wrote = s.wrote
<1>1. s \in Sock /\ TxStream(s) /\ RxStream(h, s) /\ Begun(h, s) /\ s.state \in States /\ s.txflags \in SUBSET Flags
  BY DEF SockOK, Stream, Sock
<1>2. CASE s.retries >= 0
  <2> DEFINE t == [s EXCEPT !.retries = @ - 1]
             back == [t EXCEPT !.tried = 0]
  <2>1. s.retries - 1 \in Int
    BY <1>1 DEF Sock
  <2>2. t \in Sock /\ TxStream(t) /\ RxStream(h, t) /\ Begun(h, t)
    BY <1>1, <2>1 DEF Sock, TxStream, RxStream, Begun, Numbers, LastFlags
  <2>3. t.wrote = s.wrote /\ t.state = s.state /\ t.txflags = s.txflags
    BY <1>1 DEF Sock
  <2>4. Expire(s) = remake_tsock(t)
    BY <1>2 DEF Expire
  <2> HIDE DEF t
  <2>5. SockOK(h, t)
    BY <2>2 DEF SockOK, Stream
  <2>6. CASE t.state = "ARPS"
    <3>1. remake_tsock(t) = [s |-> t, tx |-> {ArpReq}]
      BY <2>6 DEF remake_tsock
    <3>2. ArpReq \in Seg /\ ArpReq.data = <<>> /\ "SYN" \notin ArpReq.flags
      BY DEF ArpReq, Segment, Seg, Flags
    <3>3. \A w : SegOK(h, ArpReq, w)
      BY <3>2, BareOK
    <3> QED BY <2>3, <2>4, <2>5, <3>1, <3>3 DEF ResultOK
  <2>7. CASE t.state \in {"EST", "CLWAIT", "ACLOSE"}
    <3>1. remake_tsock(t) = tsock_estab_tx(back, TRUE)
      BY <2>7 DEF remake_tsock
    <3>2. back \in Sock /\ back.state = t.state /\ back.wrote = t.wrote
      BY <2>2 DEF Sock
    <3>3. TxStream(back) /\ RxStream(h, back) /\ Begun(h, back)
      BY <2>2, <2>7 DEF Sock, TxStream, RxStream, Begun, Numbers, LastFlags
    <3> HIDE DEF back
    <3>4. LET r == tsock_estab_tx(back, TRUE) IN ResultOK(h, r) /\ r.s.wrote = back.wrote
      BY <2>7, <3>2, <3>3, SendDataOK DEF SockOK, Stream
    <3> QED BY <2>3, <2>4, <3>1, <3>2, <3>4
  <2>8. CASE t.state \notin {"ARPS", "EST", "CLWAIT", "ACLOSE"}
    <3>1. remake_tsock(t) = make_sock_tcp(t, t.txflags, 0)
      BY <2>8 DEF remake_tsock
    <3>2. Stream(h, t) /\ Numbers(h, t) /\ LastFlags(h, t)
      BY <2>5 DEF SockOK, Begun
    <3>3. LET r == make_sock_tcp(t, t.txflags, 0) IN ResultOK(h, r) /\ r.s.wrote = t.wrote
      <4>1. CASE t.state \in {"SYNR", "SYNS"}
        BY <1>1, <2>3, <3>2, <4>1, SendSynOK DEF LastFlags
      <4>2. CASE t.state \notin {"SYNR", "SYNS"}
        <5>1. "SYN" \notin t.txflags
          BY <1>1, <2>3, <2>8, <3>2, <4>2 DEF States, Numbers, LastFlags
        <5> QED BY <1>1, <2>3, <3>2, <5>1, SendOK
      <4> QED BY <4>1, <4>2
    <3> QED BY <2>3, <2>4, <3>1, <3>3
  <2> QED BY <2>6, <2>7, <2>8
<1>3. CASE ~(s.retries >= 0)
  <2> DEFINE n == new_state(s, "CLOSED")
  <2>1. "CLOSED" \in States /\ Stream(h, s) /\ {"RST"} \in SUBSET Flags /\ "SYN" \notin {"RST"}
    BY DEF States, SockOK, Flags
  <2>2. Stream(h, n) /\ n.state = "CLOSED" /\ n.wrote = s.wrote
    BY <2>1, NewStateOK
  <2>3. Expire(s) = make_sock_tcp(n, {"RST"}, 0)
    BY <1>3 DEF Expire
  <2> HIDE DEF n
  <2>4. Numbers(h, n)
    BY <2>2 DEF Numbers
  <2> QED BY <2>1, <2>2, <2>3, <2>4, SendOK
<1> QED BY <1>2, <1>3

LEMMA ResetTcpOK ==
  ASSUME NEW h \in Hosts, NEW s, SockOK(h, s)
  PROVE  ResultOK(h, reset_tcp(s)) /\ reset_tcp(s).s.wrote = s.wrote
<1>1. Stream(h, s) /\ Numbers(h, s) /\ {"RST"} \in SUBSET Flags /\ "SYN" \notin {"RST"}
  BY DEF SockOK, Begun, Flags
<1>2. reset_tcp(s) = Silent(s) \/ reset_tcp(s) = make_sock_tcp(s, {"RST"}, 0)
  BY DEF reset_tcp
<1> QED BY <1>1, <1>2, SilentOK, SendOK

LEMMA CloseTcpOK ==
  ASSUME NEW h \in Hosts, NEW s, SockOK(h, s)
  PROVE  SockOK(h, close_tcp(s)) /\ close_tcp(s).wrote = s.wrote
<1> DEFINE n == new_state(s, "ACLOSE")
<1>1. CASE s.state \in {"EST", "SYNR"}
  <2>1. Stream(h, s) /\ Begun(h, s) /\ s.iss \in Isns(h) /\ s.irs \in Isns(Peer(h)) /\ "ACLOSE" \in Later
    BY <1>1 DEF SockOK, Begun, Numbers, Later
  <2>2. Stream(h, n) /\ After(s, n) /\ n.state = "ACLOSE" /\ Numbers(h, n)
    BY <2>1, LaterOK
  <2>3. close_tcp(s) = n
    BY <1>1 DEF close_tcp
  <2> HIDE DEF n
  <2>4. LastFlags(h, n)
    BY <2>1, <2>2 DEF Begun, LastFlags, After, Kept
  <2> QED BY <2>2, <2>3, <2>4 DEF SockOK, Begun, After
<1>2. CASE s.state \notin {"EST", "SYNR"}
  BY <1>2 DEF close_tcp
<1> QED BY <1>1, <1>2

-----------------------------------------------------------------------------
(* The actions                                                             *)

LEMMA FirstOK ==
  ASSUME NEW I, I \subseteq Socks, I # {}
  PROVE  First(I) \in I
<1>1. I \subseteq Nat
  BY TcpNetAssumption DEF Socks
<1>2. PICK i \in I : \A j \in I : ~(<<j, i>> \in OpToRel(<, Nat))
  BY <1>1, NatLessThanWellFounded, WFMin
<1>3. ASSUME NEW j \in I PROVE i <= j
  <2>1. i \in Nat /\ j \in Nat
    BY <1>1
  <2>2. <<j, i>> \in OpToRel(<, Nat) <=> j < i
    BY <2>1 DEF OpToRel
  <2>3. ~(<<j, i>> \in OpToRel(<, Nat))
    BY <1>2
  <2>4. ~(j < i)
    BY <2>2, <2>3
  <2> QED BY <2>1, <2>4
<1> QED BY <1>3 DEF First

(* The plan is there to stay.                                              *)
LEMMA PlanKept ==
  ASSUME plan' = plan
  PROVE  /\ TablesOK(sock') => TablesOK(sock)'
         /\ NetsOK(net') => NetsOK(net)'
<1>1. TablesOK(sock') => TablesOK(sock)'
  BY DEF TablesOK, SockOK, Stream, RxStream, TxStream, Room
<1>2. NetsOK(net') => NetsOK(net)'
  BY DEF NetsOK, Arriving
<1> QED BY <1>1, <1>2

LEMMA MoreWritten ==
  ASSUME NEW h \in Hosts, NEW seg, NEW w \in Int, NEW v \in Int, w <= v, SegOK(h, seg, w)
  PROVE  SegOK(h, seg, v)
<1>1. CASE seg.data # <<>>
  <2>1. PICK iss \in Isns(h) :
          /\ iss <= seg.seq /\ seg.seq - iss + Len(seg.data) <= w
          /\ \A k \in 1 .. Len(seg.data) : seg.data[k] = seg.seq - iss + k
    BY <1>1 DEF SegOK, DataOK
  <2>2. iss \in Int /\ seg.seq \in Int /\ Len(seg.data) \in Nat
    BY IsnsAreInts DEF SegOK, Seg
  <2>3. seg.seq - iss + Len(seg.data) <= v
    BY <2>1, <2>2
  <2>4. DataOK(h, seg, v)
    BY <2>1, <2>3 DEF DataOK
  <2> QED BY <2>4 DEF SegOK
<1>2. CASE seg.data = <<>>
  BY <1>2 DEF SegOK
<1> QED BY <1>1, <1>2

LEMMA PutOK ==
  ASSUME NEW n, NetsOK(n), NEW h \in Hosts, NEW frames,
         \A m \in frames : SegOK(h, m, plan.writes[h])
  PROVE  NetsOK(Put(n, h, frames))
<1> DEFINE u == n[Peer(h)] \union frames
           v == IF Cardinality(u) <= plan.netcap THEN u ELSE n[Peer(h)]
<1>1. Peer(h) \in Hosts /\ Peer(Peer(h)) = h
  BY PeerHost
<1>2. Put(n, h, frames) = [n EXCEPT ![Peer(h)] = v]
  BY DEF Put
<1>3. \A m \in u : m \in Seg /\ Arriving(Peer(h), m)
  BY <1>1 DEF NetsOK, SegOK, Arriving
<1>4. v \subseteq u
  OBVIOUS
<1> HIDE DEF u, v
<1> QED BY <1>1, <1>2, <1>3, <1>4 DEF NetsOK

LEMMA ApplyOK ==
  ASSUME NetInv, NEW h \in Hosts, NEW i \in Socks, NEW r, ResultOK(h, r),
         r.s.wrote <= plan.writes[h], NEW n, NetsOK(n), Apply(h, i, r, n)
  PROVE  /\ sock' = [sock EXCEPT ![h][i] = r.s] /\ r.s \in Sock
         /\ TablesOK(sock') /\ NetsOK(net')
<1>1. sock' = [sock EXCEPT ![h][i] = r.s] /\ net' = Put(n, h, r.tx) /\ plan \in Plans
  BY DEF Apply, NetInv
<1>2. SockOK(h, r.s) /\ r.s \in Sock /\ r.s.wrote \in Int
  BY DEF ResultOK, SockOK, Stream, Sock
<1>3. TablesOK(sock')
  BY <1>1, <1>2 DEF NetInv, TablesOK
<1>4. plan.writes[h] \in Int
  BY <1>1, PlanFacts
<1>5. \A m \in r.tx : SegOK(h, m, plan.writes[h])
  BY <1>2, <1>4, MoreWritten DEF ResultOK
<1> QED BY <1>1, <1>2, <1>3, <1>5, PutOK

(* A segment for a socket, or a poll of it                                 *)
Armed(h, s) == h = C /\ phase[C] = "start" => s.state = "CLOSED" /\ "SYN" \notin s.txflags

LEMMA StepOK ==
  ASSUME NetInv, NEW h \in Hosts, NEW i \in Socks, NEW s, SockOK(h, s), s.wrote <= plan.writes[h],
         NEW seg, Arriving(h, seg), NEW n, NetsOK(n), Armed(h, s),
         Run(h, i, s, seg, n), UNCHANGED phase, UNCHANGED plan
  PROVE  NetInv'
<1>1. plan \in Plans /\ starts \in [Hosts -> Nat] /\ eport \in Int /\ eport + 1 \in Int
  BY DEF NetInv, CountersOK
<1>2. PICK up \in plan.ups[h] :
        LET r == tsock_rx(s, seg, up, Isn(h), eport + 1)
            fresh == s.state = "ARPR" \/ (s.state = "CLOSED" /\ seg.flags = {"SYN"})
        IN /\ up.write > 0 => r.s.wrote <= plan.writes[h]
           /\ Apply(h, i, r, n)
           /\ starts' = [starts EXCEPT ![h] = @ + (IF fresh THEN 1 ELSE 0)]
           /\ eport' = IF s.state = "ARPR" THEN eport + 1 ELSE eport
  BY DEF Run
<1> DEFINE r == tsock_rx(s, seg, up, Isn(h), eport + 1)
<1>3. Isn(h) \in Isns(h)
  BY <1>1 DEF Isn, Isns
<1>4. /\ RunOK(h, s, r, up)
      /\ h = C /\ s.state = "CLOSED" => r.s.state = "CLOSED" /\ r.s.txflags = s.txflags
  BY <1>1, <1>3, TsockRxOK
<1>5. /\ up.write > 0 => r.s.wrote <= plan.writes[h]
      /\ Apply(h, i, r, n)
  BY <1>2
<1> HIDE DEF r
<1>6. r.s.wrote <= plan.writes[h]
  <2>1. up.write \in Nat /\ plan.writes[h] \in Int
    BY <1>1, PlanFacts
  <2>2. r.s.wrote \in Int /\ s.wrote \in Int
    BY <1>4 DEF RunOK, ResultOK, SockOK, Stream, Sock
  <2> QED BY <1>4, <1>5, <2>1, <2>2 DEF RunOK
<1>7. /\ sock' = [sock EXCEPT ![h][i] = r.s] /\ r.s \in Sock
      /\ TablesOK(sock') /\ NetsOK(net')
  BY <1>4, <1>5, <1>6, ApplyOK DEF RunOK
<1>8. FreshOK'
  BY <1>4, <1>7 DEF FreshOK, NetInv, TablesOK, Armed, Hosts
<1>9. CountersOK'
  BY <1>1, <1>2 DEF CountersOK, NetInv
<1> QED BY <1>1, <1>7, <1>8, <1>9, PlanKept DEF NetInv

LEMMA NoFrameOK ==
  ASSUME NEW h \in Hosts, NEW w
  PROVE  SegOK(h, NoSeg, w) /\ SegOK(h, ArpReq, w) /\ SegOK(h, ArpResp, w)
<1>1. ASSUME NEW m \in {NoSeg, ArpReq, ArpResp}
      PROVE  m \in Seg /\ m.data = <<>> /\ "SYN" \notin m.flags
  <2>1. NoSeg \in Seg /\ NoSeg.data = <<>> /\ "SYN" \notin NoSeg.flags
    BY DEF NoSeg, Segment, Seg, Flags
  <2>2. ArpReq \in Seg /\ ArpReq.data = <<>> /\ "SYN" \notin ArpReq.flags
    BY DEF ArpReq, Segment, Seg, Flags
  <2>3. ArpResp \in Seg /\ ArpResp.data = <<>> /\ "SYN" \notin ArpResp.flags
    BY DEF ArpResp, Segment, Seg, Flags
  <2> QED BY <2>1, <2>2, <2>3
<1> QED BY <1>1, BareOK

LEMMA ReceiveOK ==
  ASSUME NetInv, UNCHANGED plan, NEW h \in Hosts, Receive(h)
  PROVE  NetInv'
<1>1. PICK seg \in net[h], keep \in {FALSE, (h \in plan.duplicates)} :
        LET n == IF keep THEN net ELSE [net EXCEPT ![h] = @ \ {seg}] IN
        /\ \/ /\ seg = ArpReq
              /\ net' = Put(n, h, {ArpResp}) /\ UNCHANGED <<sock, eport, starts>>
           \/ seg = ArpResp /\ arp_receive(h, n)
           \/ seg \notin {ArpReq, ArpResp} /\ tcp_receive(h, seg, n)
        /\ UNCHANGED <<restarts, phase>>
  BY DEF Receive
<1> DEFINE n == IF keep THEN net ELSE [net EXCEPT ![h] = @ \ {seg}]
<1>2. NetsOK(net) /\ TablesOK(sock) /\ FreshOK /\ CountersOK /\ plan \in Plans /\ UNCHANGED phase
  BY <1>1 DEF NetInv
<1>3. NetsOK(n)
  <2>1. n \in [Hosts -> SUBSET Seg] /\ \A g \in Hosts : n[g] \subseteq net[g]
    BY <1>2 DEF NetsOK
  <2> HIDE DEF n
  <2> QED BY <1>2, <2>1 DEF NetsOK
<1>4. Arriving(h, seg) /\ seg \in Seg
  BY <1>2 DEF NetsOK
<1>5. \/ seg = ArpReq /\ net' = Put(n, h, {ArpResp}) /\ UNCHANGED <<sock, eport, starts>>
      \/ arp_receive(h, n)
      \/ tcp_receive(h, seg, n)
  BY <1>1
<1> HIDE DEF n
<1>6. ASSUME NetsOK(net'), UNCHANGED <<sock, eport, starts>>
      PROVE  NetInv'
  BY <1>2, <1>6, PlanKept DEF NetInv, FreshOK, CountersOK
<1>7. CASE net' = Put(n, h, {ArpResp}) /\ UNCHANGED <<sock, eport, starts>>
  BY <1>3, <1>6, <1>7, NoFrameOK, PutOK
<1>8. CASE arp_receive(h, n)
  <2>1. CASE Waiting(h) = {}
    BY <1>3, <1>6, <1>8, <2>1 DEF arp_receive
  <2>2. CASE Waiting(h) # {}
    <3> DEFINE i == First(Waiting(h))
               s == new_state(sock[h][i], "ARPR")
    <3>1. i \in Waiting(h)
      BY <2>2, FirstOK DEF Waiting
    <3>2. Run(h, i, s, NoSeg, n)
      BY <1>8, <2>2 DEF arp_receive
    <3> HIDE DEF i
    <3>3. i \in Socks /\ sock[h][i].state = "ARPS"
      BY <3>1 DEF Waiting
    <3>4. Stream(h, sock[h][i]) /\ Begun(h, sock[h][i]) /\ sock[h][i].wrote <= plan.writes[h] /\ "ARPR" \in States
      BY <1>2, <3>3 DEF TablesOK, SockOK, States
    <3>5. Stream(h, s) /\ s.state = "ARPR" /\ s.wrote = sock[h][i].wrote /\ s.txflags = sock[h][i].txflags
      BY <3>4, NewStateOK
    <3> HIDE DEF s
    <3>6. SockOK(h, s)
      BY <3>3, <3>4, <3>5 DEF SockOK, Begun, Numbers, LastFlags
    <3>7. Armed(h, s)
      BY <1>2, <3>3 DEF Armed, FreshOK
    <3>8. Arriving(h, NoSeg)
      BY PeerHost, NoFrameOK DEF Arriving
    <3> QED BY <1>2, <1>3, <3>2, <3>3, <3>4, <3>5, <3>6, <3>7, <3>8, StepOK
  <2> QED BY <2>1, <2>2
<1>9. CASE tcp_receive(h, seg, n)
  <2>1. CASE Matching(h, seg) # {}
    <3> DEFINE i == First(Matching(h, seg))
    <3>1. i \in Socks
      BY <2>1, FirstOK DEF Matching
    <3>2. Run(h, i, sock[h][i], seg, n)
      BY <1>9, <2>1 DEF tcp_receive
    <3> HIDE DEF i
    <3>3. SockOK(h, sock[h][i]) /\ sock[h][i].wrote <= plan.writes[h]
      BY <1>2, <3>1 DEF TablesOK
    <3>4. Armed(h, sock[h][i])
      BY <1>2, <3>1 DEF Armed, FreshOK
    <3> QED BY <1>2, <1>3, <1>4, <3>1, <3>2, <3>3, <3>4, StepOK
  <2>2. CASE Matching(h, seg) = {} /\ Idle(h) # {}
    <3> DEFINE i == First(Idle(h))
               s == [sock[h][i] EXCEPT !.port = seg.port]
    <3>1. i \in Socks
      BY <2>2, FirstOK DEF Idle
    <3>2. Run(h, i, s, seg, n)
      BY <1>9, <2>2 DEF tcp_receive
    <3> HIDE DEF i
    <3>3. SockOK(h, sock[h][i]) /\ sock[h][i] \in Sock /\ sock[h][i].wrote <= plan.writes[h] /\ seg.port \in Int
      BY <1>2, <1>4, <3>1 DEF TablesOK, SockOK, Stream, Seg
    <3>4. s \in Sock
      BY <3>3 DEF Sock
    <3>5. SockOK(h, s)
      BY <3>3, <3>4 DEF Sock, SockOK, Stream, TxStream, RxStream, Begun, Numbers, LastFlags
    <3>6. s.wrote = sock[h][i].wrote /\ s.state = sock[h][i].state /\ s.txflags = sock[h][i].txflags
      BY <3>3 DEF Sock
    <3> HIDE DEF s
    <3>7. Armed(h, s)
      BY <1>2, <3>1, <3>6 DEF Armed, FreshOK
    <3> QED BY <1>2, <1>3, <1>4, <3>1, <3>2, <3>3, <3>5, <3>6, <3>7, StepOK
  <2>3. CASE Matching(h, seg) = {} /\ Idle(h) = {}
    <3>1. net' = Put(n, h, {make_reset_resp(seg)}) /\ UNCHANGED <<sock, eport, starts>>
      BY <1>9, <2>3 DEF tcp_receive
    <3> QED BY <1>3, <1>4, <1>6, <3>1, ResetOK, PutOK
  <2> QED BY <2>1, <2>2, <2>3
<1> QED BY <1>5, <1>7, <1>8, <1>9

LEMMA PollOK ==
  ASSUME NetInv, UNCHANGED plan, NEW h \in Hosts, NEW i \in Socks, Poll(h, i)
  PROVE  NetInv'
<1>1. sock[h][i].state # "CLOSED" /\ Run(h, i, sock[h][i], NoSeg, net) /\ UNCHANGED phase
  BY DEF Poll
<1>2. NetsOK(net) /\ SockOK(h, sock[h][i]) /\ sock[h][i].wrote <= plan.writes[h] /\ FreshOK
  BY DEF NetInv, TablesOK
<1>3. Arriving(h, NoSeg)
  BY PeerHost, NoFrameOK DEF Arriving
<1>4. Armed(h, sock[h][i])
  BY <1>1, <1>2 DEF Armed, FreshOK
<1> QED BY <1>1, <1>2, <1>3, <1>4, StepOK

LEMMA TimeoutOK ==
  ASSUME NetInv, UNCHANGED plan, NEW h \in Hosts, NEW i \in Socks, Timeout(h, i)
  PROVE  NetInv'
<1> DEFINE r == Expire(sock[h][i])
<1>1. sock[h][i].state # "CLOSED" /\ Apply(h, i, r, net) /\ UNCHANGED <<eport, starts, phase>>
  BY DEF Timeout
<1>2. NetsOK(net) /\ SockOK(h, sock[h][i]) /\ sock[h][i].wrote <= plan.writes[h] /\ plan \in Plans
  BY DEF NetInv, TablesOK
<1>3. ResultOK(h, r) /\ r.s.wrote = sock[h][i].wrote
  BY <1>1, <1>2, ExpireOK
<1> HIDE DEF r
<1>4. /\ sock' = [sock EXCEPT ![h][i] = r.s]
      /\ TablesOK(sock') /\ NetsOK(net')
  BY <1>1, <1>2, <1>3, ApplyOK
<1>5. FreshOK'
  BY <1>1, <1>4 DEF FreshOK, NetInv, TablesOK, Hosts
<1> QED BY <1>1, <1>2, <1>4, <1>5, PlanKept DEF NetInv, CountersOK

LEMMA LoseOK ==
  ASSUME NetInv, UNCHANGED plan, NEW h \in Hosts, Lose(h)
  PROVE  NetInv'
<1>1. PICK seg \in net[h] : net' = [net EXCEPT ![h] = @ \ {seg}]
  BY DEF Lose
<1>2. NetsOK(net) /\ TablesOK(sock) /\ plan \in Plans /\ UNCHANGED <<sock, eport, starts, phase>>
  BY DEF Lose, NetInv
<1>3. NetsOK(net')
  BY <1>1, <1>2 DEF NetsOK
<1> QED BY <1>2, <1>3, PlanKept DEF NetInv, FreshOK, CountersOK

LEMMA OpenOK ==
  ASSUME NetInv, UNCHANGED plan, Open
  PROVE  NetInv'
<1> DEFINE s0 == sock[C][1]
           open == new_state(s0, "AOPEN")
           named == [open EXCEPT !.port = 0]
           client == [named EXCEPT !.server = FALSE]
           r == InAopen(named)
<1>1. /\ phase[C] = "start" /\ phase' = [phase EXCEPT ![C] = "run"]
      /\ Apply(C, 1, r, net) /\ UNCHANGED <<eport, starts>>
  BY DEF Open
<1>2. C \in Hosts /\ 1 \in Socks /\ C # S
  BY TcpNetAssumption DEF Hosts, Socks, C, S
<1>3. /\ NetsOK(net) /\ plan \in Plans /\ SockOK(C, s0) /\ s0.wrote <= plan.writes[C]
      /\ "SYN" \notin s0.txflags /\ Stream(C, s0) /\ phase \in [Hosts -> {"start", "run", "close", "reset"}]
  BY <1>1, <1>2 DEF NetInv, TablesOK, FreshOK, SockOK, CountersOK
<1>4. \A st \in {"AOPEN", "ARPS", "ARPR"} : st \in States
  BY DEF States
<1>5. Stream(C, open) /\ open.wrote = s0.wrote /\ open.txflags = s0.txflags
  BY <1>2, <1>3, <1>4, NewStateOK
<1> HIDE DEF s0, open
<1>6. open \in Sock /\ TxStream(open) /\ RxStream(C, open)
  BY <1>5 DEF Stream
<1>7. client \in Sock /\ client.wrote = open.wrote /\ client.txflags = open.txflags
      /\ TxStream(client) /\ RxStream(C, client)
  <2>1. named \in Sock /\ named.wrote = open.wrote /\ named.txflags = open.txflags
    <3>1. named \in Sock
      <4>1. PICK z \in Int : z = 0
        OBVIOUS
      <4>2. named = [open EXCEPT !.port = z] /\ open \in Sock
        BY <1>6, <4>1
      <4> HIDE DEF named
      <4> QED BY <4>2 DEF Sock
    <3>2. named.wrote = open.wrote /\ named.txflags = open.txflags
      BY <1>6 DEF Sock
    <3> QED BY <3>1, <3>2
  <2>2. TxStream(named) /\ RxStream(C, named)
    BY <1>6 DEF Sock, TxStream, RxStream
  <2> HIDE DEF named
  <2>3. client \in Sock /\ client.wrote = named.wrote /\ client.txflags = named.txflags
    BY <2>1 DEF Sock
  <2>4. TxStream(client) /\ RxStream(C, client)
    BY <2>1, <2>2 DEF Sock, TxStream, RxStream
  <2> QED BY <2>1, <2>3, <2>4
<1>8. Stream(C, client)
  BY <1>7 DEF Stream
<1>9. r = IF Ethernet THEN [s |-> new_state(client, "ARPS"), tx |-> {ArpReq}]
          ELSE Silent(new_state(client, "ARPR"))
  BY DEF InAopen
<1> HIDE DEF client, r
<1>10. ASSUME NEW st \in {"ARPS", "ARPR"}
       PROVE  SockOK(C, new_state(client, st)) /\ new_state(client, st).wrote = s0.wrote
  <2> DEFINE n == new_state(client, st)
  <2>1. Stream(C, n) /\ n.state = st /\ n.wrote = client.wrote /\ n.txflags = client.txflags
    BY <1>2, <1>4, <1>8, NewStateOK
  <2> HIDE DEF n
  <2>2. Begun(C, n)
    BY <1>2, <1>3, <1>5, <1>7, <2>1 DEF Begun, Numbers, LastFlags
  <2> QED BY <1>5, <1>7, <2>1, <2>2 DEF SockOK, n
<1>11. ResultOK(C, r) /\ r.s.wrote = s0.wrote
  BY <1>2, <1>9, <1>10, NoFrameOK DEF ResultOK, Silent
<1>12. TablesOK(sock') /\ NetsOK(net')
  BY <1>1, <1>2, <1>3, <1>11, ApplyOK
<1>13. FreshOK' /\ CountersOK'
  BY <1>1, <1>2, <1>3 DEF FreshOK, CountersOK, NetInv
<1> QED BY <1>3, <1>12, <1>13, PlanKept DEF NetInv

(* A change of one socket that keeps its state                             *)
LEMMA TouchOK ==
  ASSUME NetInv, UNCHANGED <<plan, net, eport, starts, phase>>, phase[C] = "run",
         NEW t, SockOK(C, t), t.wrote <= plan.writes[C], sock' = [sock EXCEPT ![C][1] = t]
  PROVE  NetInv'
<1>1. C \in Hosts /\ 1 \in Socks
  BY TcpNetAssumption DEF Hosts, Socks
<1>2. t \in Sock
  BY DEF SockOK, Stream
<1>3. TablesOK(sock')
  BY <1>1, <1>2 DEF NetInv, TablesOK
<1>4. NetsOK(net')
  BY DEF NetInv
<1> QED BY <1>3, <1>4, PlanKept DEF NetInv, FreshOK, CountersOK

LEMMA KeyOK ==
  ASSUME NetInv, UNCHANGED plan, Key
  PROVE  NetInv'
<1> DEFINE s == sock[C][1]
           t == AppPut(s, 1)
<1>1. C \in Hosts /\ 1 \in Socks
  BY TcpNetAssumption DEF Hosts, Socks
<1>2. /\ phase[C] = "run" /\ s.wrote < plan.writes[C] /\ sock \in [Hosts -> [Socks -> Sock]]
      /\ SockOK(C, s) /\ plan \in Plans
  BY <1>1 DEF Key, NetInv, TablesOK
<1>3. sock' = [sock EXCEPT ![C][1] = t] /\ UNCHANGED <<net, eport, starts, phase>>
  BY <1>1, <1>2 DEF Key
<1> HIDE DEF s
<1>4. Stream(C, t) /\ Kept(s, t) /\ t.state = s.state /\ t.wrote <= s.wrote + 1
  BY <1>1, <1>2, AppPutOK DEF SockOK
<1> HIDE DEF t
<1>5. SockOK(C, t)
  BY <1>2, <1>4 DEF SockOK, Begun, Numbers, LastFlags, Kept
<1>6. s.wrote \in Int /\ t.wrote \in Int
  BY <1>2, <1>4 DEF SockOK, Stream, Sock
<1>7. plan.writes[C] \in Int
  BY <1>1, <1>2, PlanFacts
<1>8. t.wrote <= plan.writes[C]
  BY <1>2, <1>4, <1>6, <1>7
<1> QED BY <1>2, <1>3, <1>5, <1>8, TouchOK

LEMMA DisplayOK ==
  ASSUME NetInv, UNCHANGED plan, Display
  PROVE  NetInv'
<1> DEFINE s == sock[C][1]
           t == [s EXCEPT !.unread = 0]
<1>1. C \in Hosts /\ 1 \in Socks
  BY TcpNetAssumption DEF Hosts, Socks
<1>2. /\ phase[C] = "run" /\ sock \in [Hosts -> [Socks -> Sock]]
      /\ SockOK(C, s) /\ s.wrote <= plan.writes[C] /\ plan \in Plans
  BY <1>1 DEF Display, NetInv, TablesOK
<1>3. sock' = [sock EXCEPT ![C][1] = t] /\ UNCHANGED <<net, eport, starts, phase>>
  BY <1>1, <1>2 DEF Display
<1> HIDE DEF s
<1>4. s \in Sock /\ TxStream(s) /\ RxStream(C, s) /\ Begun(C, s) /\ Room \in Nat
  BY <1>2, PlanFacts DEF SockOK, Stream
<1>5. t \in Sock /\ TxStream(t) /\ RxStream(C, t) /\ Begun(C, t) /\ t.wrote = s.wrote
  <2>1. t \in Sock /\ t.wrote = s.wrote
    BY <1>4 DEF Sock
  <2>2. TxStream(t) /\ RxStream(C, t)
    BY <1>4 DEF Sock, TxStream, RxStream
  <2>3. Begun(C, t)
    BY <1>4 DEF Sock, Begun, Numbers, LastFlags
  <2> QED BY <2>1, <2>2, <2>3
<1> HIDE DEF t
<1>6. SockOK(C, t)
  BY <1>5 DEF SockOK, Stream
<1> QED BY <1>2, <1>3, <1>5, <1>6, TouchOK

LEMMA CloseOK ==
  ASSUME NetInv, UNCHANGED plan, NEW h \in Hosts, Close(h)
  PROVE  NetInv'
<1>1. /\ phase[h] \in {"run", "close"} /\ phase' = [phase EXCEPT ![h] = "close"]
      /\ sock' = [sock EXCEPT ![h] = [i \in Socks |-> close_tcp(sock[h][i])]]
      /\ UNCHANGED <<net, eport, starts>>
  BY DEF Close, NetInv, TablesOK
<1>2. NetsOK(net') /\ TablesOK(sock) /\ FreshOK /\ CountersOK /\ plan \in Plans
  BY <1>1 DEF NetInv
<1>3. \A i \in Socks :
        LET t == close_tcp(sock[h][i]) IN
        SockOK(h, t) /\ t \in Sock /\ t.wrote <= plan.writes[h]
  BY <1>2, CloseTcpOK DEF TablesOK, SockOK, Stream
<1>4. TablesOK(sock')
  BY <1>1, <1>2, <1>3 DEF TablesOK
<1>5. FreshOK'
  BY <1>1, <1>2 DEF FreshOK, TablesOK, CountersOK, Hosts
<1>6. CountersOK'
  BY <1>1, <1>2 DEF CountersOK
<1> QED BY <1>2, <1>4, <1>5, <1>6, PlanKept DEF NetInv

LEMMA ResetsOK ==
  ASSUME NetInv, UNCHANGED plan, NEW h \in Hosts, Reset(h)
  PROVE  NetInv'
<1> DEFINE r == [i \in Socks |-> reset_tcp(sock[h][i])]
           frames == UNION {r[i].tx : i \in Socks}
<1>1. /\ phase[h] = "close" /\ phase' = [phase EXCEPT ![h] = "reset"]
      /\ sock' = [sock EXCEPT ![h] = [i \in Socks |-> r[i].s]]
      /\ net' = Put(net, h, frames) /\ UNCHANGED <<eport, starts>>
  BY DEF Reset
<1>2. NetsOK(net) /\ TablesOK(sock) /\ FreshOK /\ CountersOK /\ plan \in Plans
  BY DEF NetInv
<1>3. plan.writes[h] \in Int
  BY <1>2, PlanFacts
<1>4. ASSUME NEW i \in Socks
      PROVE  /\ SockOK(h, r[i].s) /\ r[i].s \in Sock /\ r[i].s.wrote <= plan.writes[h]
             /\ \A m \in r[i].tx : SegOK(h, m, plan.writes[h])
  <2>1. SockOK(h, sock[h][i]) /\ sock[h][i].wrote <= plan.writes[h]
    BY <1>2 DEF TablesOK
  <2>2. ResultOK(h, r[i]) /\ r[i].s.wrote = sock[h][i].wrote
    BY <2>1, ResetTcpOK
  <2> HIDE DEF r
  <2>3. r[i].s \in Sock /\ SockOK(h, r[i].s) /\ r[i].s.wrote \in Int
    <3>1. r[i].s \in Sock /\ SockOK(h, r[i].s)
      BY <2>2 DEF ResultOK, SockOK, Stream
    <3>2. \A x \in Sock : x.wrote \in Int
      BY DEF Sock
    <3> QED BY <3>1, <3>2
  <2>4. r[i].s.wrote <= plan.writes[h]
    BY <2>1, <2>2
  <2> QED BY <1>3, <2>2, <2>3, <2>4, MoreWritten DEF ResultOK
<1> HIDE DEF r
<1>5. TablesOK(sock')
  BY <1>1, <1>2, <1>4 DEF TablesOK
<1>6. NetsOK(net')
  <2>1. \A m \in frames : SegOK(h, m, plan.writes[h])
    BY <1>4
  <2> HIDE DEF frames
  <2> QED BY <1>1, <1>2, <2>1, PutOK
<1>7. FreshOK'
  BY <1>1, <1>2 DEF FreshOK, TablesOK, CountersOK, Hosts
<1>8. CountersOK'
  BY <1>1, <1>2 DEF CountersOK
<1> QED BY <1>2, <1>5, <1>6, <1>7, <1>8, PlanKept DEF NetInv

LEMMA InitSockOK ==
  ASSUME plan \in Plans, NEW h \in Hosts
  PROVE  /\ SockOK(h, InitSock) /\ InitSock \in Sock /\ InitSock.wrote <= plan.writes[h]
         /\ InitSock.state = "CLOSED" /\ "SYN" \notin InitSock.txflags
<1>1. plan.writes[h] \in Nat /\ plan.writes[Peer(h)] \in Nat /\ Room \in Nat
  BY PlanFacts, PeerHost
<1>2. /\ InitSock.state = "CLOSED" /\ InitSock.txflags = {} /\ InitSock.wrote = 0 /\ InitSock.txq = <<>>
      /\ InitSock.got = <<>> /\ InitSock.txo = 0 /\ InitSock.iss = 0 /\ InitSock.irs = 0
      /\ InitSock.rxi = 0 /\ InitSock.tried = 0 /\ InitSock.unread = 0
  BY DEF InitSock
<1>3. "CLOSED" \in States /\ {} \in SUBSET Flags /\ <<>> \in Seq(Int)
  BY DEF States
<1>4. InitSock \in Sock
  BY <1>3 DEF InitSock, Sock
<1>5. TxStream(InitSock) /\ RxStream(h, InitSock)
  BY <1>1, <1>2 DEF TxStream, RxStream
<1>6. Begun(h, InitSock)
  BY <1>2 DEF Begun, Numbers, LastFlags
<1> QED BY <1>1, <1>2, <1>4, <1>5, <1>6 DEF SockOK, Stream

LEMMA RestartOK ==
  ASSUME NetInv, UNCHANGED plan, NEW h \in Hosts, Restart(h)
  PROVE  NetInv'
<1>1. /\ phase' = [phase EXCEPT ![h] = Started[h]] /\ UNCHANGED <<net, starts>>
      /\ sock' = [sock EXCEPT ![h] = [i \in Socks |-> InitSock]]
      /\ eport' = IF h = C THEN 0 ELSE eport
  BY DEF Restart
<1>2. NetsOK(net') /\ TablesOK(sock) /\ FreshOK /\ CountersOK /\ plan \in Plans
  BY <1>1 DEF NetInv
<1>3. /\ SockOK(h, InitSock) /\ InitSock \in Sock /\ InitSock.wrote <= plan.writes[h]
      /\ InitSock.state = "CLOSED" /\ "SYN" \notin InitSock.txflags
  BY <1>2, InitSockOK
<1>4. TablesOK(sock')
  BY <1>1, <1>2, <1>3 DEF TablesOK
<1>5. FreshOK'
  BY <1>1, <1>2, <1>3 DEF FreshOK, TablesOK, CountersOK, Hosts, C, S
<1>6. CountersOK'
  BY <1>1, <1>2 DEF CountersOK, Started
<1> QED BY <1>2, <1>4, <1>5, <1>6, PlanKept DEF NetInv

-----------------------------------------------------------------------------
(* The theorem                                                             *)

LEMMA InitInv == Init => NetInv
<1> SUFFICES ASSUME Init PROVE NetInv
  OBVIOUS
<1>1. plan \in Plans /\ C \in Hosts
  BY DEF Init, Hosts
<1>2. ASSUME NEW h \in Hosts
      PROVE  /\ SockOK(h, InitSock) /\ InitSock \in Sock /\ InitSock.wrote <= plan.writes[h]
             /\ InitSock.state = "CLOSED" /\ "SYN" \notin InitSock.txflags
  BY <1>1, InitSockOK
<1>3. TablesOK(sock)
  BY <1>2 DEF Init, TablesOK
<1>4. NetsOK(net)
  BY DEF Init, NetsOK
<1>5. FreshOK
  BY <1>1, <1>2 DEF Init, FreshOK
<1>6. CountersOK
  BY DEF Init, CountersOK, Started
<1> QED BY <1>1, <1>3, <1>4, <1>5, <1>6 DEF NetInv

LEMMA NextInv == NetInv /\ [Next]_vars => NetInv'
<1> SUFFICES ASSUME NetInv, [Next]_vars PROVE NetInv'
  OBVIOUS
<1>1. CASE Next
  <2>1. UNCHANGED plan
    BY <1>1 DEF Next
  <2>2. ASSUME NEW h \in Hosts, Receive(h) \/ Lose(h) \/ Close(h) \/ Reset(h) \/ Restart(h)
        PROVE  NetInv'
    BY <2>1, <2>2, ReceiveOK, LoseOK, CloseOK, ResetsOK, RestartOK
  <2>3. ASSUME NEW h \in Hosts, NEW i \in Socks, Poll(h, i) \/ Timeout(h, i)
        PROVE  NetInv'
    BY <2>1, <2>3, PollOK, TimeoutOK
  <2>4. CASE Open \/ Key \/ Display
    BY <2>1, <2>4, OpenOK, KeyOK, DisplayOK
  <2> QED BY <1>1, <2>2, <2>3, <2>4 DEF Next
<1>2. CASE UNCHANGED vars
  <2>1. UNCHANGED <<plan, sock, net, eport, starts, phase>>
    BY <1>2 DEF vars
  <2>2. TablesOK(sock') /\ NetsOK(net')
    BY <2>1 DEF NetInv
  <2> QED BY <2>1, <2>2, PlanKept DEF NetInv, FreshOK, CountersOK
<1> QED BY <1>1, <1>2

(* The receive buffer of every socket is given the first bytes that the    *)
(* other application wrote on this connection, each once and in order,     *)
(* whatever tsock_estab_rx is handed by the network and whenever a program *)
(* is started again.                                                       *)
THEOREM StreamsWhole == Spec => []StreamIntegrity
<1>1. NetInv => StreamIntegrity
  BY DEF NetInv, TablesOK, SockOK, Stream, RxStream, StreamIntegrity
<1> QED BY <1>1, InitInv, NextInv, PTL DEF Spec

-----------------------------------------------------------------------------
(***************************************************************************)
(* CONNECTIONS                                                             *)
(* Two sockets of TCP.C that are established with each other are the two   *)
(* ends of one connection; a byte leaves a transmit buffer only when the   *)
(* other side has it; and an active close leaves nothing behind: whatever  *)
(* the network loses, delays, reorders or repeats, and whenever a program  *)
(* is started again.                                                       *)
(*                                                                         *)
(* The client has one connection at a time, that of its socket x; of the   *)
(* server's sockets one at most has been used since its program started,   *)
(* call it y, since the client's connections all have the same port.  The  *)
(* argument is about the order in which connections begin.  A SYN+ACK that *)
(* answers x was sent by y or by a socket that is gone, of which y has a   *)
(* later start; so x is connected to y or to one that is gone (Link).  An  *)
(* acknowledgement under way to y that is not from x is from a client that *)
(* is gone, and of a server's connection that began before the answer to   *)
(* x; so y is not established by it once x is answered (ClientOK).         *)
(***************************************************************************)
-----------------------------------------------------------------------------
(* What one function does with a socket                                    *)

Acks(m) == "ACK" \in m.flags /\ "RST" \notin m.flags

(* States before a socket's own FIN, and after the other side's            *)
Writing == {"SYNR", "SYNS", "EST", "ACLOSE", "CLWAIT"}
FinRcvd == {"CLWAIT", "LASTACK", "CLING", "TWAIT"}
FinSent == {"FINWT1", "FINWT2", "CLING", "TWAIT"}
Talking == {"EST", "ACLOSE", "CLWAIT", "LASTACK"} \union FinSent
Before == {"CLOSED", "ARPS", "ARPR"}

(* Where the FIN of a socket is: after the data that is sent, or beyond    *)
(* all data if it is sent again from FINWT2                                *)
FinAt(s, n) ==
  /\ s.state \notin Writing
  /\ n = Trial(s) \/ (n > s.iss + s.wrote /\ s.state # "LASTACK")

(* What a socket remembers that it may send again, and a socket that has   *)
(* not been used                                                           *)
Remembers(h, s) ==
  /\ s.state = "SYNS" => h = C /\ s.txflags \in {{"SYN"}, {"RST"}} /\ s.irs = 0
  /\ s.state = "SYNR" => h = S /\ s.txflags \in {{"SYN", "ACK"}, {"RST"}}
  /\ s.state \in FinSent \union {"LASTACK"} => s.txflags \in {{"ACK"}, {"FIN", "ACK"}, {"RST"}}
  /\ s.state \in {"CLING", "TWAIT"} => s.txflags \in {{"ACK"}, {"RST"}}
  /\ s.state \in FinSent => s.txq = <<>>
Blank(s) ==
  s.iss = 0 => /\ s.irs = 0 /\ s.txo = 0 /\ s.tried = 0 /\ s.rxi = 0
               /\ s.txflags \in {{}, {"RST"}}
Placed(s) ==
  /\ s.iss = 0 => s.state \in Before
  /\ s.state \in {"ARPS", "ARPR"} => s.iss = 0
  /\ s.state \notin Before => s.port = 1
MoreOK(h, s) == Remembers(h, s) /\ Blank(s) /\ Placed(s)

(* A segment that a socket sends, by its kind                              *)
Bare(m) == 
  /\ m.data = <<>>
  /\ m.flags \in {{"RST"}, {"RST", "ACK"}} 
     \/ (m.flags \in {{}, {"ARPREQ"}, {"ARPRESP"}} /\ m.seq = 0)
Syn(t, m) ==
  m.flags = {"SYN"} /\ m.data = <<>> /\ t.state = "SYNS" /\ m.seq + 1 = t.iss
SynAck(t, m) ==
  /\ m.flags = {"SYN", "ACK"} /\ m.data = <<>> /\ t.state = "SYNR" /\ m.seq + 1 = t.iss
  /\ m.ack = t.rxi
Plain(t, m) ==
  /\ t.state \in Talking /\ m.flags \in {{"ACK"}, {"FIN", "ACK"}}
  /\ t.iss <= m.seq /\ m.seq <= t.iss + t.wrote + 1
  /\ m.data # <<>> => m.flags = {"ACK"} /\ m.seq + Len(m.data) <= t.iss + t.wrote
  /\ m.ack = t.rxi \/ (m.ack = t.rxi + 1 /\ t.state \in FinRcvd)
  /\ "FIN" \in m.flags => FinAt(t, m.seq)
Says(t, m) == 
  \/ Bare(m)
  \/ (Syn(t, m) \/ SynAck(t, m) \/ Plain(t, m)) /\ m.port = t.port
Speaks(seg, r) == \A m \in r.tx : Says(r.s, m) /\ m.port \in {0, r.s.port, seg.port}

(* The parts of a step: data acknowledged, data received, a new state      *)
Held(s, t) == t.iss = s.iss /\ t.irs = s.irs /\ s.wrote <= t.wrote
TxStep(s, seg, t) ==
  \/ t.txo = s.txo
  \/ Acks(seg) /\ t.txo = seg.ack /\ s.txo <= t.txo /\ t.txo <= Trial(s)
RxStep(s, seg, t) ==
  \/ t.rxi = s.rxi
  \/ /\ seg.data # <<>> /\ seg.seq <= s.rxi /\ s.rxi < t.rxi
     /\ t.rxi <= seg.seq + Len(seg.data)
StateStep(s, seg, t) ==
  /\ s.state \notin Writing =>
       /\ t.state \notin Writing /\ Trial(t) = Trial(s)
       /\ t.state = "LASTACK" => s.state = "LASTACK"
  /\ s.state \notin Writing \union {"LASTACK", "ARPS", "ARPR"} => t.wrote = s.wrote
  /\ t.state \in FinRcvd =>
       t.rxi = s.rxi /\ (s.state \in FinRcvd \/ ("FIN" \in seg.flags /\ seg.seq = s.rxi))
  /\ t.state = "EST" =>
       s.state = "EST" \/ (s.state = "SYNR" /\ Acks(seg) /\ seg.ack = s.txo /\ seg.seq = t.rxi)
  /\ t.state = "SYNS" => s.state = "SYNS"
  /\ t.state \in {"ARPS", "ARPR"} => t.state = s.state
  /\ s.state = "CLOSED" => t.state = "CLOSED"
Goes(h, s, seg, r) ==
  /\ Held(s, r.s) /\ TxStep(s, seg, r.s) /\ RxStep(s, seg, r.s) /\ StateStep(s, seg, r.s)
  /\ Speaks(seg, r) /\ MoreOK(h, r.s)

(* The same if the acknowledgement has been taken before                   *)
Placid(s, t) == t.txo = s.txo /\ t.port = s.port
Steps(s, seg, t) ==
  Held(s, t) /\ Placid(s, t) /\ RxStep(s, seg, t) /\ StateStep(s, seg, t)
Moves(h, s, seg, r) == Goes(h, s, seg, r) /\ Placid(s, r.s)

(* A socket closes for the application only if that refuses to go on.      *)
Ending == FinSent \union {"ACLOSE"}
Restless(s, t) == t.state \in Ending => s.state \in Ending

-----------------------------------------------------------------------------
(* The pieces the functions are made of                                    *)

Same(s, t) == 
  /\ t.port = s.port /\ t.iss = s.iss /\ t.irs = s.irs /\ t.txo = s.txo
  /\ t.rxi = s.rxi /\ t.tried = s.tried
Calm(s, t) == Same(s, t) /\ t.txq = s.txq /\ t.wrote = s.wrote

Received(s, t) ==
  /\ t.port = s.port /\ t.iss = s.iss /\ t.irs = s.irs /\ t.txo = s.txo
  /\ t.tried = s.tried /\ t.txq = s.txq /\ t.wrote = s.wrote

LEMMA PieceState ==
  ASSUME NEW h \in Hosts, NEW s, Stream(h, s), NEW st \in States
  PROVE  LET t == new_state(s, st) IN
         Stream(h, t) /\ Calm(s, t) /\ t.state = st /\ t.txflags = s.txflags
<1>1. s \in Sock
  BY DEF Stream
<1>2. LET t == new_state(s, st) IN Calm(s, t) /\ t.state = st /\ t.txflags = s.txflags
  BY <1>1 DEF new_state, Sock, Calm, Same
<1> QED BY <1>2, NewStateOK

LEMMA PieceSend ==
  ASSUME NEW h \in Hosts, NEW s, Stream(h, s), NEW flags \in SUBSET Flags
  PROVE  LET r == make_sock_tcp(s, flags, 0) IN
         /\ Stream(h, r.s) /\ Calm(s, r.s) /\ r.s.state = s.state /\ r.s.txflags = flags
         /\ \A m \in r.tx : /\ m.flags = flags /\ m.data = <<>> /\ m.port = s.port
                           /\ m.seq = TxSeq(s) /\ m.ack = TxAck(s)
<1> DEFINE r == make_sock_tcp(s, flags, 0)
           n == minw(0, Untried(s))
           d == SubSeq(s.txq, s.tried + 1, s.tried + n)
<1>1. s \in Sock
  BY DEF Stream
<1>2. r = [s |-> [s EXCEPT !.txflags = flags, !.tried = s.tried + n],
           tx |-> {Segment(s.port, flags, TxSeq(s), TxAck(s), d)}]
  BY <1>1 DEF make_sock_tcp
<1>3. /\ Stream(h, r.s) /\ Sent(s, r.s, flags) /\ r.s.tried = s.tried
      /\ \A m \in r.tx : m \in Seg /\ m.flags = flags /\ m.seq = TxSeq(s) /\ m.data = <<>>
  BY MakeBareOK
<1> HIDE DEF r, n, d
<1>4. r.s.port = s.port /\ r.s.rxi = s.rxi /\ r.s.txq = s.txq
  BY <1>1, <1>2 DEF Sock
<1>5. \A m \in r.tx : m.port = s.port /\ m.ack = TxAck(s)
  BY <1>2 DEF Segment
<1> QED BY <1>3, <1>4, <1>5 DEF Sent, Calm, Same, r

LEMMA PieceRx ==
  ASSUME plan \in Plans, NEW h \in Hosts, NEW s, Stream(h, s), s.irs \in Isns(Peer(h)),
         NEW seg, Arriving(h, seg)
  PROVE  LET t == tsock_estab_rx(s, seg) IN
         /\ Stream(h, t) /\ Received(s, t)
         /\ t.state = s.state /\ t.txflags = s.txflags
         /\ RxStep(s, seg, t)
<1> DEFINE t == tsock_estab_rx(s, seg)
           d == NewData(s, seg)
           n == minw(Len(d), Room - s.unread)
<1>1. Stream(h, t) /\ t = [s EXCEPT !.rxi = t.rxi, !.unread = t.unread, !.got = t.got]
  BY EstabRxOK DEF Arriving
<1>2. s \in Sock /\ seg \in Seg /\ RxStream(h, s)
  BY DEF Stream, Arriving, SegOK
<1>3. /\ Received(s, t)
      /\ t.state = s.state /\ t.txflags = s.txflags
  <2> HIDE DEF t
  <2> QED BY <1>1, <1>2 DEF Sock, Received
<1>4. t.rxi = s.rxi + n
  BY <1>2 DEF tsock_estab_rx, Sock
<1>5. /\ s.rxi \in Int /\ s.unread \in Nat /\ s.unread <= Room /\ Room \in Nat /\ RxWin \in Nat
      /\ seg.seq \in Int /\ seg.data \in Seq(Int) /\ Len(seg.data) \in Nat
  BY <1>2, PlanFacts DEF Sock, Seg, RxStream
<1>6. PICK x \in Int, q \in Int, len \in Nat, unread \in Nat, room \in Nat :
        s.rxi = x /\ seg.seq = q /\ Len(seg.data) = len /\ s.unread = unread /\ Room = room /\ unread <= room
  BY <1>5, Zenon
<1>7. d = <<>> \/ (q <= x /\ d = SubSeq(seg.data, x - q + 1, len))
  <2>1. s.rxi - seg.seq = x - q
    BY <1>6
  <2>2. d = <<>> \/ ((x - q = 0 \/ x - q > 0) /\ d = SubSeq(seg.data, x - q + 1, len))
    BY <1>6, <2>1 DEF NewData
  <2> HIDE DEF d
  <2> QED BY <2>2
<1>8. Len(d) = 0 \/ (q <= x /\ x - q < len /\ Len(d) = len - (x - q))
  <2>1. CASE d = <<>>
    BY <2>1
  <2>2. CASE q <= x /\ d = SubSeq(seg.data, x - q + 1, len)
    <3>1. PICK f \in Nat : x - q + 1 = f /\ 0 < f
      BY <2>2
    <3> HIDE DEF d
    <3>2. d = SubSeq(seg.data, f, len)
      BY <2>2, <3>1
    <3>3. CASE f <= len
      <4>1. Len(d) = len - f + 1
        <5>1. f <= len + 1 /\ len <= Len(seg.data)
          BY <1>6, <3>3
        <5> QED BY <1>5, <3>1, <3>2, <5>1, Cut
      <4> QED BY <2>2, <3>1, <3>3, <4>1
    <3>4. CASE len < f
      <4>1. d = <<>>
        BY <3>2, <3>4, SubSeqEmpty
      <4> QED BY <4>1
    <3> QED BY <3>1, <3>3, <3>4
  <2> QED BY <1>7, <2>1, <2>2
<1> HIDE DEF d
<1>9. PICK k \in Nat : Len(d) = k /\ (k = 0 \/ (q <= x /\ x - q < len /\ k = len - (x - q)))
  BY <1>8
<1>10. PICK e \in Nat : n = e /\ e <= k
  <2>1. n \in Nat /\ n <= k
    BY <1>6, <1>9 DEF minw
  <2> HIDE DEF n
  <2> QED BY <2>1
<1>11. RxStep(s, seg, t)
  <2>1. t.rxi = x + e
    BY <1>4, <1>6, <1>10
  <2>2. CASE e = 0
    BY <1>6, <2>1, <2>2 DEF RxStep
  <2>3. CASE e > 0
    <3>1. q <= x /\ x < x + e /\ x + e <= q + len /\ len > 0
      BY <1>9, <1>10, <2>3
    <3>2. seg.data # <<>>
      BY <1>6, <3>1
    <3> HIDE DEF t
    <3> QED BY <1>6, <2>1, <3>1, <3>2 DEF RxStep
  <2> QED BY <1>10, <2>2, <2>3
<1> QED BY <1>1, <1>3, <1>11

LEMMA PieceUp ==
  ASSUME plan \in Plans, NEW h \in Hosts, NEW s, Stream(h, s), NEW up \in plan.ups[h]
  PROVE  LET t == Upcall(s, up) IN
         /\ Stream(h, t) /\ Same(s, t) /\ s.wrote <= t.wrote
         /\ t.state = s.state /\ t.txflags = s.txflags
<1> DEFINE t == Upcall(s, up)
           e == IF up.read THEN [s EXCEPT !.unread = 0] ELSE s
           k == minw(up.write, Room - Len(e.txq))
<1>1. s \in Sock /\ up.write \in Nat /\ Room \in Nat /\ TxStream(s)
  BY PlanFacts DEF Stream
<1>2. Stream(h, t) /\ Kept(s, t) /\ t.state = s.state
  BY UpcallOK
<1>3. e \in Sock /\ e.port = s.port /\ e.rxi = s.rxi /\ e.wrote = s.wrote /\ e.txq = s.txq
  BY <1>1 DEF Sock
<1>4. t = [e EXCEPT !.txq = e.txq \o [i \in 1 .. k |-> e.wrote + i], !.wrote = e.wrote + k]
  BY <1>3 DEF Upcall, AppPut, Sock
<1>5. k \in Nat
  <2>1. Len(e.txq) \in Nat /\ Len(e.txq) <= Room
    BY <1>1, <1>3 DEF Sock, TxStream
  <2> HIDE DEF e
  <2> QED BY <1>1, <2>1 DEF minw
<1> HIDE DEF t, e, k
<1>6. t.port = e.port /\ t.rxi = e.rxi /\ t.wrote = e.wrote + k
  BY <1>3, <1>4 DEF Sock
<1>7. s.wrote \in Nat
  BY <1>1 DEF Sock
<1>8. s.wrote <= t.wrote
  BY <1>3, <1>5, <1>6, <1>7
<1> QED BY <1>2, <1>3, <1>6, <1>8 DEF Kept, Same, t

LEMMA PieceCloseUp ==
  ASSUME plan \in Plans, NEW h \in Hosts, NEW s, Stream(h, s), NEW up \in plan.ups[h]
  PROVE  LET t == CloseUpcall(s, up) IN
         /\ Stream(h, t) /\ Same(s, t) /\ s.wrote <= t.wrote
         /\ t.state = s.state /\ t.txflags = s.txflags
<1>1. s.wrote \in Nat
  BY DEF Stream, Sock
<1> QED BY <1>1, PieceUp DEF CloseUpcall, Same

(* Data goes out after the data that was sent before.                      *)
LEMMA PieceTx ==
  ASSUME plan \in Plans, NEW h \in Hosts, NEW s, Stream(h, s), s.iss \in Isns(h),
         NEW force \in BOOLEAN, s.state \in {"EST", "CLWAIT", "ACLOSE"}
  PROVE  LET r == tsock_estab_tx(s, force) IN
         /\ Stream(h, r.s) /\ r.s.port = s.port /\ r.s.iss = s.iss /\ r.s.irs = s.irs /\ r.s.txo = s.txo
         /\ r.s.rxi = s.rxi /\ r.s.wrote = s.wrote /\ r.s.state = s.state
         /\ \A m \in r.tx : Plain(r.s, m) /\ m.port = r.s.port
<1> DEFINE r == tsock_estab_tx(s, force)
           tdlen == minw(minw(Untried(s), MaxData), RxWin - s.tried)
           k == minw(tdlen, Untried(s))
           d == SubSeq(s.txq, s.tried + 1, s.tried + k)
<1>1. s \in Sock /\ TxStream(s)
  BY DEF Stream
<1>2. Stream(h, r.s) /\ Sent(s, r.s, r.s.txflags)
  BY EstabTxOK
<1>3. r = Silent(s) \/ r = make_sock_tcp(s, {"ACK"}, tdlen)
  BY DEF tsock_estab_tx
<1>4. CASE r = Silent(s)
  BY <1>1, <1>2, <1>4 DEF Silent
<1>5. CASE r = make_sock_tcp(s, {"ACK"}, tdlen)
  <2>1. r = [s |-> [s EXCEPT !.txflags = {"ACK"}, !.tried = s.tried + k],
             tx |-> {Segment(s.port, {"ACK"}, TxSeq(s), TxAck(s), d)}]
    BY <1>1, <1>5 DEF make_sock_tcp, Sock
  <2>2. /\ s.txq \in Seq(Int) /\ s.tried \in Nat /\ Len(s.txq) \in Nat /\ s.tried <= Len(s.txq)
        /\ s.txo \in Int /\ s.iss \in Int /\ s.wrote = s.txo - s.iss + Len(s.txq) /\ s.iss <= s.txo
        /\ Len(s.txq) <= Room /\ Room < RxWin /\ Room \in Nat /\ RxWin \in Nat /\ MaxData \in Nat
    BY <1>1, PlanFacts DEF Sock, TxStream
  <2>3. PICK b \in Nat, len \in Nat, o \in Int, i \in Int, room \in Nat, win \in Nat, max \in Nat :
          /\ s.tried = b /\ Len(s.txq) = len /\ s.txo = o /\ s.iss = i /\ b <= len 
          /\ s.wrote = o - i + len /\ i <= o
          /\ Room = room /\ RxWin = win /\ MaxData = max /\ len <= room /\ room < win
    BY <2>2, Zenon
  <2>4. PICK n \in Nat : k = n /\ b + n <= len
    <3>1. k \in Nat /\ b + k <= len
      BY <2>3 DEF minw, Untried
    <3> HIDE DEF k
    <3> QED BY <3>1
  <2>5. PICK f \in Nat, e \in Nat : b + 1 = f /\ b + n = e /\ 0 < f /\ f <= e + 1 /\ e <= len /\ e - f + 1 = n
    BY <2>3, <2>4
  <2>6. d = SubSeq(s.txq, f, e)
    BY <2>3, <2>4, <2>5
  <2> HIDE DEF d, k, tdlen
  <2>7. Len(d) = n
    <3>1. Len(SubSeq(s.txq, f, e)) = e - f + 1
      BY <2>2, <2>3, <2>5, Cut
    <3> QED BY <2>5, <2>6, <3>1
  <2>8. TxSeq(s) = o + b
    BY <1>1, <2>3, NumbersAreInts
  <2>9. TxAck(s) = s.rxi \/ (TxAck(s) = s.rxi + 1 /\ s.state \in FinRcvd)
    <3>1. s.rxi \in Int
      BY <1>1 DEF Sock
    <3> QED BY <3>1 DEF TxAck, FinRcvd
  <2> HIDE DEF r
  <2>10. r.s.port = s.port /\ r.s.rxi = s.rxi
    BY <1>1, <2>1 DEF Sock
  <2>11. \A m \in r.tx : m.port = s.port /\ m.flags = {"ACK"} /\ m.seq = o + b /\ m.ack = TxAck(s) /\ m.data = d
    BY <2>1, <2>8 DEF Segment
  <2>12. i <= o + b /\ o + b <= i + (o - i + len) + 1 /\ o + b + n <= i + (o - i + len)
    BY <2>3, <2>4
  <2>13. r.s.iss = i /\ r.s.wrote = o - i + len /\ r.s.state = s.state /\ r.s.irs = s.irs /\ r.s.txo = s.txo
    BY <1>2, <2>3 DEF Sent
  <2>14. \A m \in r.tx : Plain(r.s, m)
    <3> SUFFICES ASSUME NEW m \in r.tx PROVE Plain(r.s, m)
      OBVIOUS
    <3>1. r.s.state \in Talking /\ m.flags \in {{"ACK"}, {"FIN", "ACK"}} /\ "FIN" \notin m.flags
      BY <2>11, <2>13 DEF Talking
    <3>2. r.s.iss <= m.seq /\ m.seq <= r.s.iss + r.s.wrote + 1
      BY <2>11, <2>12, <2>13
    <3>3. m.seq + Len(m.data) <= r.s.iss + r.s.wrote
      BY <2>7, <2>11, <2>12, <2>13
    <3>4. m.ack = r.s.rxi \/ (m.ack = r.s.rxi + 1 /\ r.s.state \in FinRcvd)
      BY <2>9, <2>10, <2>11, <2>13
    <3> QED BY <2>11, <3>1, <3>2, <3>3, <3>4 DEF Plain
  <2> QED BY <1>2, <2>3, <2>10, <2>11, <2>13, <2>14 DEF r
<1> QED BY <1>3, <1>4, <1>5

(* An acknowledgement is within the data that was sent.                    *)
LEMMA PieceAck ==
  ASSUME plan \in Plans, NEW h \in Hosts, NEW s, Stream(h, s), NEW seg \in Seg, "RST" \notin seg.flags
  PROVE  LET t == TakeAck(s, seg) IN
         /\ Stream(h, t) /\ TxStep(s, seg, t) /\ Trial(t) = Trial(s)
         /\ t.port = s.port /\ t.iss = s.iss /\ t.irs = s.irs /\ t.rxi = s.rxi /\ t.wrote = s.wrote
         /\ t.state = s.state /\ t.txflags = s.txflags
         /\ s.tried = 0 => t.txo = s.txo /\ t.tried = 0
         /\ s.txq = <<>> => t.txq = <<>>
<1> DEFINE t == TakeAck(s, seg)
           n == seg.ack - s.txo
<1>1. s \in Sock /\ TxStream(s)
  BY DEF Stream
<1>2. /\ Stream(h, t) /\ t.state = s.state /\ t.iss = s.iss /\ t.irs = s.irs /\ t.wrote = s.wrote
      /\ t.txflags = s.txflags /\ (s.tried = 0 => t.txo = s.txo /\ t.tried = 0)
  BY TakeAckOK
<1>3. CASE ~("ACK" \in seg.flags /\ n \in 0 .. s.tried)
  <2>1. t = s
    BY <1>3 DEF TakeAck
  <2> HIDE DEF t
  <2> QED BY <1>1, <1>2, <2>1 DEF TxStep, t
<1>4. CASE "ACK" \in seg.flags /\ n \in 0 .. s.tried
  <2>1. t = [s EXCEPT !.txo = seg.ack, !.tried = s.tried - n, !.txq = SubSeq(s.txq, n + 1, Len(s.txq))]
    BY <1>1, <1>4 DEF TakeAck
  <2> HIDE DEF t
  <2>2. /\ t.txo = seg.ack /\ t.tried = s.tried - n /\ t.txq = SubSeq(s.txq, n + 1, Len(s.txq))
        /\ t.port = s.port /\ t.rxi = s.rxi
    BY <1>1, <2>1 DEF Sock
  <2>3. s.txo \in Int /\ s.tried \in Nat /\ seg.ack \in Int /\ s.tried <= Len(s.txq)
    BY <1>1 DEF Sock, TxStream, Seg
  <2>4. PICK o \in Int, b \in Nat, a \in Int : s.txo = o /\ s.tried = b /\ seg.ack = a
    BY <2>3, Zenon
  <2>5. o <= a /\ a <= o + b /\ a + (b - (a - o)) = o + b
    BY <1>4, <2>4
  <2>6. Trial(t) = Trial(s) /\ TxStep(s, seg, t)
    BY <1>4, <2>2, <2>4, <2>5 DEF Trial, TxStep, Acks
  <2>7. ASSUME s.txq = <<>> PROVE t.txq = <<>>
    <3>1. b = 0
      BY <2>3, <2>4, <2>7
    <3>2. n = 0
      BY <2>4, <2>5, <3>1
    <3>3. t.txq = SubSeq(<<>>, 1, 0)
      BY <2>2, <2>7, <3>2
    <3> QED BY <3>3, SubSeqEmpty
  <2> QED BY <1>2, <2>2, <2>6, <2>7 DEF t
<1> QED BY <1>3, <1>4

(* A change that keeps the numbers is a step if the change before it is.   *)
LEMMA GoOn ==
  ASSUME NEW s, NEW seg, NEW e, Steps(s, seg, e), NEW t, Same(e, t), t.state = e.state, 
         e.wrote \in Int, t.wrote \in Int, s.wrote \in Int, e.wrote <= t.wrote,
         t.wrote = e.wrote \/ s.state \in Writing
  PROVE  Steps(s, seg, t)
<1>1. s.wrote <= t.wrote
  BY DEF Steps, Held
<1>2. Trial(t) = Trial(e)
  BY DEF Same, Trial
<1>3. StateStep(s, seg, t)
  BY <1>2 DEF Steps, StateStep, Same
<1> QED BY <1>1, <1>3 DEF Steps, Held, Placid, RxStep, Same

(* A control segment of a connection                                       *)
LEMMA ControlSays ==
  ASSUME NEW h \in Hosts, NEW s, Stream(h, s), s.state \in Talking, 
         NEW flags \in {{"ACK"}, {"FIN", "ACK"}},
         "FIN" \in flags => s.state \in {"LASTACK", "FINWT1", "FINWT2"},
         s.state = "FINWT2" => s.txq = <<>>
  PROVE  LET r == make_sock_tcp(s, flags, 0) IN
         \A m \in r.tx : Plain(r.s, m) /\ m.port = r.s.port
<1> DEFINE r == make_sock_tcp(s, flags, 0)
<1>1. flags \in SUBSET Flags
  BY DEF Flags
<1>2. /\ Calm(s, r.s) /\ r.s.state = s.state
      /\ \A m \in r.tx : /\ m.flags = flags /\ m.data = <<>> /\ m.port = s.port
                        /\ m.seq = TxSeq(s) /\ m.ack = TxAck(s)
  BY <1>1, PieceSend
<1>3. s \in Sock /\ TxStream(s)
  BY DEF Stream
<1>4. /\ s.tried \in Nat /\ Len(s.txq) \in Nat /\ s.tried <= Len(s.txq) /\ s.rxi \in Int
      /\ s.txo \in Int /\ s.iss \in Int /\ s.wrote = s.txo - s.iss + Len(s.txq) /\ s.iss <= s.txo
  BY <1>3 DEF Sock, TxStream
<1> HIDE DEF r
<1>5. PICK b \in Nat, len \in Nat, o \in Int, i \in Int :
        /\ s.tried = b /\ Len(s.txq) = len /\ s.txo = o /\ s.iss = i /\ b <= len 
        /\ s.wrote = o - i + len /\ i <= o
  BY <1>4, Zenon
<1>6. Trial(s) = o + b /\ Trial(r.s) = o + b
  BY <1>2, <1>5 DEF Trial, Calm, Same
<1>7. \/ TxSeq(s) = o + b /\ s.state \notin {"CLING", "FINWT2", "TWAIT"}
      \/ TxSeq(s) = o + b + 1 /\ s.state \in {"CLING", "FINWT2", "TWAIT"}
  <2>1. s.state \notin {"SYNR", "SYNS"}
    BY DEF Talking, FinSent
  <2> QED BY <1>5, <1>6, <2>1 DEF TxSeq
<1>8. TxAck(s) = s.rxi \/ (TxAck(s) = s.rxi + 1 /\ s.state \in FinRcvd)
  BY <1>4 DEF TxAck, FinRcvd
<1>9. i <= o + b /\ o + b + 1 <= i + (o - i + len) + 1
  BY <1>5
<1>10. i <= TxSeq(s) /\ TxSeq(s) <= i + (o - i + len) + 1
  BY <1>5, <1>7, <1>9
<1>11. ASSUME "FIN" \in flags PROVE FinAt(r.s, TxSeq(s))
  <2>1. s.state \notin Writing
    BY <1>11 DEF Writing
  <2>2. TxSeq(s) = o + b \/ (s.state = "FINWT2" /\ TxSeq(s) > i + (o - i + len))
    <3>1. CASE s.state = "FINWT2"
      <4>1. len = 0 /\ b = 0
        BY <1>5, <3>1
      <4> QED BY <1>5, <1>7, <3>1, <4>1
    <3> QED BY <1>7, <1>11, <3>1
  <2> QED BY <1>2, <1>5, <1>6, <2>1, <2>2 DEF FinAt, Calm, Same
<1>12. \A m \in r.tx : Plain(r.s, m)
  <2> SUFFICES ASSUME NEW m \in r.tx PROVE Plain(r.s, m)
    OBVIOUS
  <2>1. r.s.iss = i /\ r.s.wrote = o - i + len /\ r.s.rxi = s.rxi
    BY <1>2, <1>5 DEF Calm, Same
  <2> QED BY <1>2, <1>8, <1>10, <1>11, <2>1 DEF Plain
<1> QED BY <1>2, <1>12 DEF Calm, Same, r

-----------------------------------------------------------------------------
(* The function of each state                                              *)

LEMMA Stays ==
  ASSUME NEW h \in Hosts, NEW s, s \in Sock, MoreOK(h, s), NEW seg
  PROVE  Moves(h, s, seg, Silent(s)) /\ Moves(h, s, seg, Refuse(s, seg)) /\ Restless(s, s)
<1>1. Steps(s, seg, s)
  <2>1. s.wrote <= s.wrote
    BY DEF Sock
  <2> QED BY <2>1 DEF Steps, Held, Placid, RxStep, StateStep
<1>2. TxStep(s, seg, s)
  BY DEF TxStep
<1>3. Bare(make_reset_resp(seg)) /\ make_reset_resp(seg).port = seg.port
  BY DEF make_reset_resp, Segment, Bare
<1>4. Speaks(seg, Silent(s)) /\ Speaks(seg, Refuse(s, seg))
  BY <1>3 DEF Speaks, Silent, Refuse, Says
<1> QED BY <1>1, <1>2, <1>4 DEF Moves, Goes, Steps, Silent, Refuse, Restless

LEMMA ConnectedMore ==
  ASSUME NEW h \in Hosts, NEW t, t.iss # 0, t.state = "CLOSED" \/ t.port = 1,
         t.state \in {"EST", "ACLOSE", "CLWAIT", "CLOSED"}
  PROVE  MoreOK(h, t)
BY DEF MoreOK, Remembers, Blank, Placed, Before, FinSent

(* Nothing, a control segment or data is sent last.                        *)
LEMMA EndQuiet ==
  ASSUME NEW h \in Hosts, NEW s, NEW seg, NEW e, Steps(s, seg, e), MoreOK(h, e)
  PROVE  Moves(h, s, seg, Silent(e))
BY DEF Moves, Goes, Steps, Speaks, Silent, TxStep, Placid

LEMMA EndControl ==
  ASSUME NEW h \in Hosts, NEW s, NEW seg, NEW e, Steps(s, seg, e), Stream(h, e), s.wrote \in Int,
         e.state \in {"EST", "LASTACK"} \union FinSent, e.iss # 0, e.port = 1,
         NEW flags \in {{"ACK"}, {"FIN", "ACK"}},
         "FIN" \in flags => e.state \in {"LASTACK", "FINWT1"},
         e.state \in FinSent => e.txq = <<>>
  PROVE  LET r == make_sock_tcp(e, flags, 0) IN Moves(h, s, seg, r) /\ r.s.state = e.state
<1> DEFINE r == make_sock_tcp(e, flags, 0)
<1>1. flags \in SUBSET Flags
  BY DEF Flags
<1>2. Stream(h, r.s) /\ Calm(e, r.s) /\ r.s.state = e.state /\ r.s.txflags = flags
  BY <1>1, PieceSend
<1>3. \A m \in r.tx : Plain(r.s, m) /\ m.port = r.s.port
  BY ControlSays DEF Talking, FinSent
<1> HIDE DEF r
<1>4. e.wrote \in Int /\ r.s.wrote = e.wrote /\ e.wrote <= r.s.wrote
  BY <1>2 DEF Stream, Sock, Calm
<1>5. Steps(s, seg, r.s)
  BY <1>2, <1>4, GoOn DEF Calm
<1>6. MoreOK(h, r.s)
  BY <1>2 DEF MoreOK, Remembers, Blank, Placed, Before, FinSent, Calm, Same
<1>7. Speaks(seg, r)
  BY <1>3 DEF Speaks, Says
<1> QED BY <1>2, <1>5, <1>6, <1>7 DEF Moves, Goes, Steps, TxStep, Placid, r

LEMMA EndData ==
  ASSUME plan \in Plans, NEW h \in Hosts, NEW s, NEW seg, NEW e, Steps(s, seg, e), Stream(h, e), 
         s.state \in Writing, e.state \in {"EST", "CLWAIT", "ACLOSE"}, 
         e.iss \in Isns(h), e.iss # 0, e.port = 1, NEW force \in BOOLEAN
  PROVE  LET r == tsock_estab_tx(e, force) IN Moves(h, s, seg, r) /\ r.s.state = e.state
<1> DEFINE r == tsock_estab_tx(e, force)
<1>1. /\ Stream(h, r.s) /\ r.s.port = e.port /\ r.s.iss = e.iss /\ r.s.irs = e.irs /\ r.s.txo = e.txo
      /\ r.s.rxi = e.rxi /\ r.s.wrote = e.wrote /\ r.s.state = e.state
      /\ \A m \in r.tx : Plain(r.s, m) /\ m.port = r.s.port
  BY PieceTx
<1> HIDE DEF r
<1>2. Steps(s, seg, r.s)
  BY <1>1 DEF Steps, Held, Placid, RxStep, StateStep
<1>3. MoreOK(h, r.s)
  BY <1>1, ConnectedMore
<1>4. Speaks(seg, r)
  BY <1>1 DEF Speaks, Says
<1> QED BY <1>1, <1>2, <1>3, <1>4 DEF Moves, Goes, Steps, TxStep, Placid, r

(* What the functions below are given: a socket and a segment              *)
Ready(h, s) == SockOK(h, s) /\ MoreOK(h, s)
Comes(h, seg) ==
  /\ Arriving(h, seg) /\ "RST" \notin seg.flags
  /\ "FIN" \in seg.flags => seg.data = <<>>

LEMMA IsnsPositive == ASSUME NEW h \in Hosts PROVE \A n \in Isns(h) : n # 0 /\ n > 0
<1>1. IsnStep \in Nat \ {0}
  BY TcpNetAssumption
<1>2. Offset(h) \in Nat
  BY <1>1 DEF Offset
<1> DEFINE o == Offset(h)
<1> HIDE DEF o
<1>3. ASSUME NEW k \in Nat PROVE IsnStep * (k + 1) > 0
  <2>1. IsnStep * (k + 1) = IsnStep * k + IsnStep /\ IsnStep * k \in Nat
    BY <1>1
  <2> QED BY <1>1, <2>1
<1>4. ASSUME NEW k \in Nat PROVE IsnStep * (k + 1) + o > 0 /\ IsnStep * (k + 1) + o # 0
  <2>1. IsnStep * (k + 1) \in Int /\ IsnStep * (k + 1) > 0 /\ o \in Nat
    BY <1>1, <1>2, <1>3 DEF o
  <2> QED BY <2>1
<1> QED BY <1>4 DEF Isns, o

LEMMA ReadyFacts ==
  ASSUME NEW h \in Hosts, NEW s, Ready(h, s), s.state \notin Before
  PROVE  /\ s \in Sock /\ Stream(h, s) /\ s.iss \in Isns(h) /\ s.iss # 0 /\ s.port = 1 /\ s.wrote \in Int
         /\ s.state # "SYNS" => s.irs \in Isns(Peer(h))
<1>1. s \in Sock /\ Stream(h, s) /\ s.iss \in Isns(h) /\ s.port = 1 /\ s.wrote \in Int
  BY DEF Ready, SockOK, Stream, Sock, Begun, Numbers, MoreOK, Placed, Before
<1>2. s.state # "SYNS" => s.irs \in Isns(Peer(h))
  BY DEF Ready, SockOK, Begun, Numbers, Before
<1> QED BY <1>1, <1>2, IsnsPositive

LEMMA RxSteps ==
  ASSUME plan \in Plans, NEW h \in Hosts, NEW s, Ready(h, s), NEW seg, Comes(h, seg),
         s.state \in {"SYNR", "EST", "ACLOSE", "FINWT1", "FINWT2"}
  PROVE  LET e == tsock_estab_rx(s, seg) IN
         /\ Stream(h, e) /\ Steps(s, seg, e) /\ MoreOK(h, e) /\ Received(s, e)
         /\ e.state = s.state /\ e.txflags = s.txflags
         /\ "FIN" \in seg.flags => e.rxi = s.rxi
<1> DEFINE e == tsock_estab_rx(s, seg)
<1>1. s \in Sock /\ Stream(h, s) /\ s.iss # 0 /\ s.irs \in Isns(Peer(h)) /\ s.port = 1 /\ s.wrote \in Int
  BY ReadyFacts DEF Before
<1>2. /\ Stream(h, e) /\ Received(s, e) /\ e.state = s.state /\ e.txflags = s.txflags /\ RxStep(s, seg, e)
  BY <1>1, PieceRx DEF Comes
<1> HIDE DEF e
<1>3. Steps(s, seg, e)
  <2>1. Trial(e) = Trial(s)
    BY <1>2 DEF Trial, Received
  <2>2. s.wrote <= e.wrote
    BY <1>1, <1>2 DEF Received
  <2>3. StateStep(s, seg, e)
    BY <1>2, <2>1 DEF StateStep, Received, FinRcvd
  <2> QED BY <1>2, <2>2, <2>3 DEF Steps, Held, Placid, Received
<1>4. MoreOK(h, e)
  BY <1>1, <1>2 DEF Ready, MoreOK, Remembers, Blank, Placed, Before, Received
<1>5. "FIN" \in seg.flags => e.rxi = s.rxi
  BY <1>2 DEF Comes, RxStep
<1> QED BY <1>2, <1>3, <1>4, <1>5 DEF e

LEMMA MovesSynr ==
  ASSUME plan \in Plans, NEW h \in Hosts, NEW s0, Ready(h, s0), s0.state = "SYNR",
         NEW seg, Comes(h, seg), NEW up \in plan.ups[h]
  PROVE  LET r == InSynr(s0, seg, up) IN
         Moves(h, s0, seg, r) /\ (up.ok => Restless(s0, r.s))
<1> DEFINE s == tsock_estab_rx(s0, seg)
           r == InSynr(s0, seg, up)
<1>1. s0.iss # 0 /\ s0.port = 1 /\ s0.wrote \in Int /\ s0 \in Sock
  BY ReadyFacts DEF Before
<1>2. /\ Stream(h, s) /\ Steps(s0, seg, s) /\ MoreOK(h, s) /\ Received(s0, s)
      /\ s.state = "SYNR" /\ s.txflags = s0.txflags
  BY RxSteps
<1>3. s.wrote \in Int /\ s \in Sock
  BY <1>2 DEF Stream, Sock
<1> HIDE DEF s
<1>4. CASE seg.flags = {"ACK"} /\ seg.seq = s.rxi /\ seg.ack = s.txo
  <2> DEFINE asked == Upcall(s, up)
             st == IF up.ok THEN "EST" ELSE "ACLOSE"
             n == new_state(asked, st)
  <2>1. /\ Stream(h, asked) /\ Same(s, asked) /\ s.wrote <= asked.wrote
        /\ asked.state = s.state
    BY <1>2, PieceUp
  <2>2. st \in States /\ st \in {"EST", "ACLOSE"} /\ (up.ok => st = "EST")
    BY DEF States
  <2>3. asked.wrote \in Int
    BY <2>1 DEF Stream, Sock
  <2> HIDE DEF asked, st
  <2>4. Calm(asked, n) /\ n.state = st
    BY <2>1, <2>2, PieceState
  <2> HIDE DEF n
  <2>5. Steps(s0, seg, n)
    <3>1. s0.wrote <= n.wrote
      BY <1>1, <1>2, <1>3, <2>1, <2>3, <2>4 DEF Calm, Received
    <3>2. s0.state \in Writing /\ st \notin FinRcvd /\ st \notin {"SYNS", "ARPS", "ARPR"}
      BY <2>2 DEF Writing, FinRcvd
    <3>3. "ACK" \in seg.flags /\ "RST" \notin seg.flags
      BY <1>4
    <3>4. Acks(seg) /\ seg.ack = s0.txo /\ seg.seq = n.rxi
      BY <1>2, <1>4, <2>1, <2>4, <3>3 DEF Acks, Received, Calm, Same
    <3>5. StateStep(s0, seg, n)
      BY <2>4, <3>2, <3>4 DEF StateStep
    <3>6. RxStep(s0, seg, n)
      BY <1>2, <2>1, <2>4 DEF Steps, RxStep, Calm, Same
    <3> QED BY <1>2, <2>1, <2>4, <3>1, <3>5, <3>6 DEF Steps, Held, Placid, Calm, Same
  <2>6. n.iss # 0 /\ n.port = 1
    BY <1>1, <1>2, <2>1, <2>4 DEF Received, Calm, Same
  <2>7. MoreOK(h, n)
    BY <2>2, <2>4, <2>6, ConnectedMore
  <2>8. r = Silent(n)
    BY <1>4 DEF InSynr, s, asked, st, n
  <2> HIDE DEF r
  <2>9. Moves(h, s0, seg, r) /\ r.s = n
    BY <2>5, <2>7, <2>8, EndQuiet DEF Silent
  <2>10. up.ok => Restless(s0, r.s)
    BY <2>2, <2>4, <2>9 DEF Restless, Ending, FinSent
  <2> QED BY <2>9, <2>10 DEF r
<1>5. CASE ~(seg.flags = {"ACK"} /\ seg.seq = s.rxi /\ seg.ack = s.txo)
  <2> DEFINE m == make_sock_tcp(s, {"SYN", "ACK"}, 0)
  <2>1. {"SYN", "ACK"} \in SUBSET Flags
    BY DEF Flags
  <2>2. r = m \/ r = Silent(s)
    BY <1>5 DEF InSynr, s
  <2>3. /\ Stream(h, m.s) /\ Calm(s, m.s) /\ m.s.state = "SYNR" /\ m.s.txflags = {"SYN", "ACK"}
        /\ \A g \in m.tx : /\ g.flags = {"SYN", "ACK"} /\ g.data = <<>> /\ g.port = s.port
                          /\ g.seq = TxSeq(s) /\ g.ack = TxAck(s)
    BY <1>2, <2>1, PieceSend
  <2> HIDE DEF m
  <2>4. Moves(h, s0, seg, m)
    <3>1. Steps(s0, seg, m.s)
      <4>1. m.s.wrote = s.wrote /\ s.wrote <= m.s.wrote
        BY <1>3, <2>3 DEF Calm
      <4> QED BY <1>1, <1>2, <1>3, <2>3, <4>1, GoOn DEF Calm
    <3>2. s0.txo = s0.iss /\ s0.tried = 0 /\ s0.iss \in Int /\ s0.rxi \in Int
      BY <1>1 DEF Ready, SockOK, Begun, Numbers, Sock
    <3>3. TxSeq(s) + 1 = s.iss
      <4>1. PICK i \in Int, z \in Nat : s.iss = i /\ s.txo = i /\ s.tried = z /\ z = 0
        BY <1>2, <3>2 DEF Received
      <4>2. TxSeq(s) = s.txo + s.tried - 1
        BY <1>2, <1>3, NumbersAreInts
      <4> QED BY <4>1, <4>2
    <3>4. TxAck(s) = s.rxi
      <4>1. s.rxi \in Int
        BY <1>3 DEF Sock
      <4> QED BY <1>2, <4>1 DEF TxAck
    <3>5. \A g \in m.tx : SynAck(m.s, g) /\ g.port = m.s.port
      BY <2>3, <3>3, <3>4 DEF SynAck, Calm, Same
    <3>6. MoreOK(h, m.s)
      BY <1>1, <1>2, <2>3 DEF MoreOK, Remembers, Blank, Placed, Before, FinSent, Calm, Same, Received
    <3>7. Speaks(seg, m)
      BY <3>5 DEF Speaks, Says
    <3> QED BY <3>1, <3>6, <3>7 DEF Moves, Goes, Steps, TxStep, Placid
  <2>5. Moves(h, s0, seg, Silent(s)) /\ Silent(s).s = s
    BY <1>2, EndQuiet DEF Silent
  <2>6. Restless(s0, m.s) /\ Restless(s0, s)
    BY <1>2, <2>3 DEF Restless, Ending, FinSent
  <2> QED BY <2>2, <2>4, <2>5, <2>6
<1> QED BY <1>4, <1>5

LEMMA MovesEst ==
  ASSUME plan \in Plans, NEW h \in Hosts, NEW s0, Ready(h, s0), s0.state = "EST",
         NEW seg, Comes(h, seg), NEW up \in plan.ups[h]
  PROVE  LET r == InEst(s0, seg, up) IN
         Moves(h, s0, seg, r) /\ (up.ok => Restless(s0, r.s))
<1> DEFINE live == IF IsSeg(seg) THEN new_state(s0, "EST") ELSE s0
           s == tsock_estab_rx(live, seg)
           closing == "FIN" \in seg.flags /\ seg.seq = s0.rxi
           asked == IF closing THEN CloseUpcall(s, up) ELSE Upcall(s, up)
           r == InEst(s0, seg, up)
<1>1. /\ s0.iss # 0 /\ s0.iss \in Isns(h) /\ s0.port = 1 /\ s0.wrote \in Int /\ s0 \in Sock /\ Stream(h, s0)
  BY ReadyFacts DEF Before
<1>2. Stream(h, live) /\ Calm(s0, live) /\ live.state = "EST" /\ live.txflags = s0.txflags
  <2>1. "EST" \in States
    BY DEF States
  <2> QED BY <1>1, <2>1, PieceState DEF Calm, Same
<1> HIDE DEF live
<1>3. Ready(h, live)
  <2>1. SockOK(h, live)
    BY <1>2 DEF Ready, SockOK, Begun, Numbers, LastFlags, Calm, Same
  <2>2. MoreOK(h, live)
    BY <1>1, <1>2, ConnectedMore DEF Calm, Same
  <2> QED BY <2>1, <2>2 DEF Ready
<1>4. /\ Stream(h, s) /\ Steps(live, seg, s) /\ MoreOK(h, s) /\ Received(live, s) /\ s.state = "EST"
      /\ "FIN" \in seg.flags => s.rxi = live.rxi
  BY <1>2, <1>3, RxSteps
<1>5. s.wrote \in Int
  BY <1>4 DEF Stream, Sock
<1> HIDE DEF s
<1>6. /\ Stream(h, asked) /\ Same(s, asked) /\ asked.state = "EST" /\ s.wrote <= asked.wrote
  BY <1>4, PieceUp, PieceCloseUp
<1>7. r = IF closing
          THEN IF up.ok
               THEN make_sock_tcp(new_state(asked, "LASTACK"), {"FIN", "ACK"}, 0)
               ELSE tsock_estab_tx(new_state(asked, "CLWAIT"), TRUE)
          ELSE IF up.ok
               THEN tsock_estab_tx(asked, seg.data # <<>>)
               ELSE tsock_estab_tx(new_state(asked, "ACLOSE"), TRUE)
  BY DEF InEst, s, live
<1>8. asked.wrote \in Int
  BY <1>6 DEF Stream, Sock
<1>9. closing => "FIN" \in seg.flags /\ seg.seq = s0.rxi
  OBVIOUS
<1> HIDE DEF asked, closing, r
<1>10. ASSUME NEW e, Stream(h, e), Calm(asked, e), e.state \in {"EST", "ACLOSE", "LASTACK", "CLWAIT"},
              e.state \in {"LASTACK", "CLWAIT"} => closing
       PROVE  Steps(s0, seg, e) /\ e.iss \in Isns(h) /\ e.iss # 0 /\ e.port = 1
  <2>1. s0.wrote <= e.wrote
    BY <1>1, <1>2, <1>4, <1>5, <1>6, <1>8, <1>10 DEF Calm, Received
  <2>2. Held(s0, e) /\ Placid(s0, e)
    BY <1>2, <1>4, <1>6, <1>10, <2>1 DEF Held, Placid, Calm, Same, Received
  <2>3. RxStep(s0, seg, e)
    BY <1>2, <1>4, <1>6, <1>10 DEF Steps, RxStep, Calm, Same
  <2>4. e.state \in FinRcvd => e.rxi = s0.rxi /\ "FIN" \in seg.flags /\ seg.seq = s0.rxi
    BY <1>2, <1>4, <1>6, <1>9, <1>10 DEF FinRcvd, Calm, Same
  <2>5. StateStep(s0, seg, e)
    BY <1>10, <2>4 DEF StateStep, Writing
  <2> QED BY <1>1, <2>2, <2>3, <2>5 DEF Steps, Held, Placid
<1>11. ASSUME NEW st \in {"LASTACK", "CLWAIT", "ACLOSE"}, st \in {"LASTACK", "CLWAIT"} => closing
       PROVE  LET e == new_state(asked, st) IN
              /\ Stream(h, e) /\ Steps(s0, seg, e) /\ e.iss \in Isns(h) /\ e.iss # 0 /\ e.port = 1 
              /\ e.state = st
  <2> DEFINE e == new_state(asked, st)
  <2>1. st \in States
    BY DEF States
  <2>2. Stream(h, e) /\ Calm(asked, e) /\ e.state = st
    BY <1>6, <2>1, PieceState
  <2> HIDE DEF e
  <2>3. Steps(s0, seg, e) /\ e.iss \in Isns(h) /\ e.iss # 0 /\ e.port = 1
    BY <1>10, <1>11, <2>2
  <2> QED BY <2>2, <2>3 DEF e
<1>12. s0.state \in Writing
  BY DEF Writing
<1>13. CASE closing /\ up.ok
  <2> DEFINE e == new_state(asked, "LASTACK")
  <2>1. Stream(h, e) /\ Steps(s0, seg, e) /\ e.iss # 0 /\ e.port = 1 /\ e.state = "LASTACK"
    BY <1>11, <1>13
  <2> HIDE DEF e
  <2>2. r = make_sock_tcp(e, {"FIN", "ACK"}, 0)
    BY <1>7, <1>13 DEF e
  <2>3. "LASTACK" \notin FinSent
    BY DEF FinSent
  <2>4. Moves(h, s0, seg, r) /\ r.s.state = "LASTACK"
    BY <1>1, <2>1, <2>2, <2>3, EndControl
  <2>5. Restless(s0, r.s)
    BY <2>4 DEF Restless, Ending, FinSent
  <2> QED BY <2>4, <2>5 DEF r
<1>14. ASSUME NEW st \in {"CLWAIT", "ACLOSE"}, st = "CLWAIT" => closing, r = tsock_estab_tx(new_state(asked, st), TRUE)
       PROVE  Moves(h, s0, seg, r)
  <2> DEFINE e == new_state(asked, st)
  <2>1. /\ Stream(h, e) /\ Steps(s0, seg, e) /\ e.iss \in Isns(h) /\ e.iss # 0 /\ e.port = 1 /\ e.state = st
    BY <1>11, <1>14
  <2> HIDE DEF e
  <2>2. r = tsock_estab_tx(e, TRUE)
    BY <1>14 DEF e
  <2> QED BY <1>12, <2>1, <2>2, EndData
<1>15. CASE ~closing /\ up.ok
  <2>1. Calm(asked, asked)
    BY DEF Calm, Same
  <2>2. Steps(s0, seg, asked) /\ asked.iss \in Isns(h) /\ asked.iss # 0 /\ asked.port = 1
    BY <1>6, <1>10, <2>1
  <2>3. PICK f \in BOOLEAN : r = tsock_estab_tx(asked, f)
    BY <1>7, <1>15
  <2>4. Moves(h, s0, seg, r) /\ r.s.state = "EST"
    BY <1>6, <1>12, <2>2, <2>3, EndData
  <2>5. Restless(s0, r.s)
    BY <2>4 DEF Restless, Ending, FinSent
  <2> QED BY <2>4, <2>5 DEF r
<1>16. CASE ~up.ok
  BY <1>7, <1>14, <1>16 DEF r
<1> QED BY <1>13, <1>15, <1>16

LEMMA MovesClwait ==
  ASSUME plan \in Plans, NEW h \in Hosts, NEW s, Ready(h, s), s.state = "CLWAIT",
         NEW seg, Comes(h, seg), NEW up \in plan.ups[h]
  PROVE  LET r == InClwait(s, seg, up) IN Moves(h, s, seg, r) /\ Restless(s, r.s)
<1> DEFINE asked == CloseUpcall(s, up)
           r == InClwait(s, seg, up)
<1>1. /\ Stream(h, s) /\ s.iss \in Isns(h) /\ s.iss # 0 /\ s.port = 1 /\ s.wrote \in Int
  BY ReadyFacts DEF Before
<1>2. Stream(h, asked) /\ Same(s, asked) /\ s.wrote <= asked.wrote /\ asked.state = "CLWAIT"
  BY <1>1, PieceCloseUp
<1>3. r = IF up.ok THEN make_sock_tcp(new_state(asked, "LASTACK"), {"FIN", "ACK"}, 0)
          ELSE tsock_estab_tx(asked, FALSE)
  BY DEF InClwait
<1> HIDE DEF asked, r
<1>4. ASSUME NEW e, Calm(asked, e), e.state \in {"CLWAIT", "LASTACK"}
      PROVE  Steps(s, seg, e) /\ e.iss \in Isns(h) /\ e.iss # 0 /\ e.port = 1
  <2>1. Held(s, e) /\ Placid(s, e) /\ e.rxi = s.rxi
    BY <1>2, <1>4 DEF Held, Placid, Calm, Same
  <2>2. StateStep(s, seg, e)
    BY <1>4, <2>1 DEF StateStep, Writing, FinRcvd
  <2> QED BY <1>1, <2>1, <2>2 DEF Steps, Held, Placid, RxStep
<1>5. CASE up.ok
  <2> DEFINE e == new_state(asked, "LASTACK")
  <2>1. "LASTACK" \in States /\ "LASTACK" \notin FinSent
    BY DEF States, FinSent
  <2>2. Stream(h, e) /\ Calm(asked, e) /\ e.state = "LASTACK"
    BY <1>2, <2>1, PieceState
  <2> HIDE DEF e
  <2>3. Steps(s, seg, e) /\ e.iss # 0 /\ e.port = 1
    BY <1>4, <2>2
  <2>4. r = make_sock_tcp(e, {"FIN", "ACK"}, 0)
    BY <1>3, <1>5 DEF e
  <2>5. Moves(h, s, seg, r) /\ r.s.state = "LASTACK"
    BY <1>1, <2>1, <2>2, <2>3, <2>4, EndControl
  <2> QED BY <2>5 DEF r, Restless, Ending, FinSent
<1>6. CASE ~up.ok
  <2>1. Calm(asked, asked) /\ s.state \in Writing
    BY DEF Calm, Same, Writing
  <2>2. Steps(s, seg, asked) /\ asked.iss \in Isns(h) /\ asked.iss # 0 /\ asked.port = 1
    BY <1>2, <1>4, <2>1
  <2>3. PICK f \in BOOLEAN : r = tsock_estab_tx(asked, f)
    BY <1>3, <1>6
  <2>4. Moves(h, s, seg, r) /\ r.s.state = "CLWAIT"
    BY <1>2, <2>1, <2>2, <2>3, EndData
  <2> QED BY <2>4 DEF r, Restless, Ending, FinSent
<1> QED BY <1>5, <1>6

(* A socket is closed, without a word.                                     *)
LEMMA MovesOut ==
  ASSUME NEW h \in Hosts, NEW s, s \in Sock, MoreOK(h, s), NEW seg, NEW t, Calm(s, t), 
         t.state = "CLOSED", t.txflags = s.txflags
  PROVE  Moves(h, s, seg, Silent(t)) /\ Restless(s, t)
<1>1. s.wrote <= t.wrote
  BY DEF Sock, Calm
<1>2. StateStep(s, seg, t)
  BY DEF StateStep, Calm, Same, Trial, Writing, FinRcvd
<1>3. Steps(s, seg, t)
  BY <1>1, <1>2 DEF Steps, Held, Placid, RxStep, Calm, Same
<1>4. MoreOK(h, t)
  BY DEF MoreOK, Remembers, Blank, Placed, Before, FinSent, Calm, Same
<1> QED BY <1>3, <1>4, EndQuiet DEF Restless, Ending, FinSent

LEMMA MovesLast ==
  ASSUME NEW h \in Hosts, NEW s, Ready(h, s), NEW seg, NEW r,
         r \in {InLastack(s, seg), InCling(s, seg), InTwait(s)}
  PROVE  Moves(h, s, seg, r) /\ Restless(s, r.s)
<1> DEFINE n == new_state(s, "CLOSED")
<1>1. s \in Sock /\ Stream(h, s) /\ MoreOK(h, s) /\ "CLOSED" \in States
  BY DEF Ready, SockOK, Stream, States
<1>2. Calm(s, n) /\ n.state = "CLOSED" /\ n.txflags = s.txflags
  BY <1>1, PieceState
<1> HIDE DEF n
<1>3. Moves(h, s, seg, Silent(n)) /\ Restless(s, n) /\ Moves(h, s, seg, Silent(s)) /\ Restless(s, s)
  BY <1>1, <1>2, MovesOut, Stays
<1>4. r = Silent(n) \/ r = Silent(s)
  BY DEF InLastack, InCling, InTwait, n
<1> QED BY <1>3, <1>4 DEF Silent

LEMMA MovesAclose ==
  ASSUME plan \in Plans, NEW h \in Hosts, NEW s0, Ready(h, s0), s0.state = "ACLOSE",
         NEW seg, Comes(h, seg)
  PROVE  LET r == InAclose(s0, seg) IN Moves(h, s0, seg, r)
<1> DEFINE s == tsock_estab_rx(s0, seg)
           r == InAclose(s0, seg)
<1>1. s0.iss \in Isns(h) /\ s0.iss # 0 /\ s0.port = 1 /\ s0.wrote \in Int /\ s0.state \in Writing
  BY ReadyFacts DEF Before, Writing
<1>2. /\ Stream(h, s) /\ Steps(s0, seg, s) /\ MoreOK(h, s) /\ Received(s0, s) /\ s.state = "ACLOSE"
  BY RxSteps
<1>3. r = IF s.txq # <<>> THEN tsock_estab_tx(s, FALSE)
          ELSE make_sock_tcp(new_state(s, "FINWT1"), {"FIN", "ACK"}, 0)
  BY DEF InAclose
<1> HIDE DEF s, r
<1>4. s.iss \in Isns(h) /\ s.iss # 0 /\ s.port = 1
  BY <1>1, <1>2 DEF Received
<1>5. CASE s.txq # <<>>
  <2>1. PICK f \in BOOLEAN : r = tsock_estab_tx(s, f)
    BY <1>3, <1>5
  <2> QED BY <1>1, <1>2, <1>4, <2>1, EndData DEF r
<1>6. CASE s.txq = <<>>
  <2> DEFINE e == new_state(s, "FINWT1")
  <2>1. "FINWT1" \in States
    BY DEF States
  <2>2. Stream(h, e) /\ Calm(s, e) /\ e.state = "FINWT1"
    BY <1>2, <2>1, PieceState
  <2> HIDE DEF e
  <2>3. Steps(s0, seg, e)
    <3>1. StateStep(s0, seg, e)
      BY <1>1, <2>2 DEF StateStep, Writing, FinRcvd
    <3> QED BY <1>2, <2>2, <3>1 DEF Steps, Held, Placid, RxStep, Calm, Same
  <2>4. e.iss # 0 /\ e.port = 1 /\ e.txq = <<>> /\ e.state \in FinSent
    BY <1>4, <1>6, <2>2 DEF Calm, Same, FinSent
  <2>5. r = make_sock_tcp(e, {"FIN", "ACK"}, 0)
    BY <1>3, <1>6 DEF e
  <2> QED BY <1>1, <2>2, <2>3, <2>4, <2>5, EndControl DEF r
<1> QED BY <1>5, <1>6

LEMMA MovesFinwt ==
  ASSUME plan \in Plans, NEW h \in Hosts, NEW s0, Ready(h, s0), s0.state \in {"FINWT1", "FINWT2"},
         NEW seg, Comes(h, seg), NEW r, 
         \/ s0.state = "FINWT1" /\ r = InFinwt1(s0, seg)
         \/ s0.state = "FINWT2" /\ r = InFinwt2(s0, seg)
  PROVE  Moves(h, s0, seg, r) /\ Restless(s0, r.s)
<1> DEFINE s == tsock_estab_rx(s0, seg)
<1>1. s0.iss # 0 /\ s0.port = 1 /\ s0.wrote \in Int /\ s0.txq = <<>>
  BY ReadyFacts DEF Before, Ready, MoreOK, Remembers, FinSent
<1>2. /\ Stream(h, s) /\ Steps(s0, seg, s) /\ MoreOK(h, s) /\ Received(s0, s) /\ s.state = s0.state
      /\ "FIN" \in seg.flags => s.rxi = s0.rxi
  BY RxSteps
<1> HIDE DEF s
<1>3. s.iss # 0 /\ s.port = 1 /\ s.txq = <<>>
  BY <1>1, <1>2 DEF Received
<1>4. Restless(s0, r.s)
  BY DEF Restless, Ending, FinSent
<1>5. Moves(h, s0, seg, Silent(s))
  BY <1>2, EndQuiet
<1>6. Moves(h, s0, seg, make_sock_tcp(s, {"ACK"}, 0))
  <2>1. s.state \in FinSent
    BY <1>2 DEF FinSent
  <2> QED BY <1>1, <1>2, <1>3, <2>1, EndControl
<1>7. ASSUME NEW st \in FinSent, st \in {"CLING", "TWAIT"} => "FIN" \in seg.flags /\ seg.seq = s.rxi
      PROVE  LET e == new_state(s, st) IN
             Stream(h, e) /\ Calm(s, e) /\ Steps(s0, seg, e) /\ e.state = st
  <2> DEFINE e == new_state(s, st)
  <2>1. st \in States
    BY DEF States, FinSent
  <2>2. Stream(h, e) /\ Calm(s, e) /\ e.state = st
    BY <1>2, <2>1, PieceState
  <2> HIDE DEF e
  <2>3. Trial(e) = Trial(s0) /\ e.wrote = s0.wrote
    BY <1>2, <2>2 DEF Trial, Calm, Same, Received
  <2>4. StateStep(s0, seg, e)
    BY <1>2, <1>7, <2>2, <2>3 DEF StateStep, Writing, FinRcvd, FinSent, Calm, Same
  <2>5. Steps(s0, seg, e)
    BY <1>2, <2>2, <2>4 DEF Steps, Held, Placid, RxStep, Calm, Same
  <2> QED BY <2>2, <2>5 DEF e
<1>8. ASSUME NEW st \in {"CLING", "TWAIT"}, "FIN" \in seg.flags, seg.seq = s.rxi
      PROVE  Moves(h, s0, seg, make_sock_tcp(new_state(s, st), {"ACK"}, 0))
  <2> DEFINE e == new_state(s, st)
  <2>1. st \in FinSent
    BY DEF FinSent
  <2>2. Stream(h, e) /\ Calm(s, e) /\ Steps(s0, seg, e) /\ e.state = st
    BY <1>7, <1>8, <2>1
  <2> HIDE DEF e
  <2>3. e.iss # 0 /\ e.port = 1 /\ e.txq = <<>>
    BY <1>3, <2>2 DEF Calm, Same
  <2>4. Moves(h, s0, seg, make_sock_tcp(e, {"ACK"}, 0))
    BY <1>1, <2>1, <2>2, <2>3, EndControl
  <2> QED BY <2>4 DEF e
<1>9. Moves(h, s0, seg, Silent(new_state(s, "FINWT2")))
  <2> DEFINE e == new_state(s, "FINWT2")
  <2>1. "FINWT2" \in FinSent /\ "FINWT2" \notin {"CLING", "TWAIT"}
    BY DEF FinSent
  <2>2. Calm(s, e) /\ Steps(s0, seg, e) /\ e.state = "FINWT2"
    BY <1>7, <2>1
  <2>3. e.txflags = s.txflags
    <3>1. "FINWT2" \in States
      BY DEF States
    <3> QED BY <1>2, <3>1, PieceState
  <2> HIDE DEF e
  <2>4. MoreOK(h, e)
    BY <1>2, <1>3, <2>2, <2>3 DEF MoreOK, Remembers, Blank, Placed, Before, FinSent, Calm, Same
  <2>5. Moves(h, s0, seg, Silent(e))
    BY <2>2, <2>4, EndQuiet
  <2> QED BY <2>5 DEF e
<1>10. CASE s0.state = "FINWT1" /\ r = InFinwt1(s0, seg)
  <2>1. CASE "FIN" \in seg.flags /\ seg.seq = s.rxi
    <3>1. \/ r = make_sock_tcp(new_state(s, "TWAIT"), {"ACK"}, 0)
          \/ r = make_sock_tcp(new_state(s, "CLING"), {"ACK"}, 0)
          \/ r = make_sock_tcp(s, {"ACK"}, 0)
      BY <1>10, <2>1 DEF InFinwt1, s
    <3> QED BY <1>4, <1>6, <1>8, <2>1, <3>1
  <2>2. CASE ~("FIN" \in seg.flags /\ seg.seq = s.rxi)
    <3>1. r = Silent(new_state(s, "FINWT2")) \/ r = Silent(s)
      BY <1>10, <2>2 DEF InFinwt1, s
    <3> QED BY <1>4, <1>5, <1>9, <3>1
  <2> QED BY <2>1, <2>2
<1>11. CASE s0.state = "FINWT2" /\ r = InFinwt2(s0, seg)
  BY <1>4, <1>5, <1>8, <1>11 DEF InFinwt2, s
<1> QED BY <1>10, <1>11

-----------------------------------------------------------------------------
(* A connection begins, at the server by a SYN, at the client by its own   *)
(* SYN and the answer to it.                                               *)

BeginsS(s, seg, isn, r) ==
  /\ s.state = "CLOSED" /\ seg.flags = {"SYN"}
  /\ r.s.iss = isn /\ r.s.irs = seg.seq + 1 /\ r.s.rxi = r.s.irs /\ r.s.txo = isn /\ r.s.tried = 0
  /\ r.s.state \in {"SYNR", "CLOSED"} /\ Speaks(seg, r) /\ MoreOK(S, r.s)
BeginsC(s, seg, isn, r) ==
  /\ s.state = "ARPR"
  /\ r.s.iss = isn /\ r.s.irs = 0 /\ r.s.rxi = 0 /\ r.s.txo = isn /\ r.s.tried = 0
  /\ r.s.state = "SYNS" /\ Speaks(seg, r) /\ MoreOK(C, r.s)
Answers(s, seg, r) ==
  /\ s.state = "SYNS" /\ seg.flags = {"SYN", "ACK"} /\ seg.ack = s.iss
  /\ r.s.iss = s.iss /\ s.wrote <= r.s.wrote 
  /\ r.s.irs = seg.seq + 1 /\ r.s.rxi = r.s.irs /\ r.s.txo = s.iss /\ r.s.tried = 0
  /\ r.s.state = "EST" /\ Speaks(seg, r) /\ MoreOK(C, r.s)

LEMMA PieceSetTx ==
  ASSUME plan \in Plans, NEW h \in Hosts, NEW s, Stream(h, s), NEW isn \in Int
  PROVE  LET t == buff_setall_tx(s, isn) IN
         /\ Stream(h, t) /\ t.state = s.state /\ t.iss = isn /\ t.txo = isn /\ t.tried = 0
         /\ t.irs = s.irs /\ t.txflags = s.txflags /\ t.rxi = s.rxi /\ t.port = s.port
<1> DEFINE t == buff_setall_tx(s, isn)
<1>1. /\ Stream(h, t) /\ t.state = s.state /\ t.iss = isn /\ t.txo = isn /\ t.tried = 0
      /\ t.irs = s.irs /\ t.txflags = s.txflags
  BY SetallTxOK
<1>2. s \in Sock /\ t = [s EXCEPT !.txo = isn, !.iss = isn, !.txq = <<>>, !.tried = 0, !.wrote = 0]
  BY DEF buff_setall_tx, Stream
<1> HIDE DEF t
<1>3. t.rxi = s.rxi /\ t.port = s.port
  BY <1>2 DEF Sock
<1> QED BY <1>1, <1>3 DEF t

LEMMA PieceSetRx ==
  ASSUME plan \in Plans, NEW h \in Hosts, NEW s, Stream(h, s), NEW seq \in Int
  PROVE  LET t == buff_setall_rx(s, seq) IN
         /\ Stream(h, t) /\ t.state = s.state /\ t.irs = seq /\ t.rxi = seq /\ t.iss = s.iss /\ t.txo = s.txo
         /\ t.tried = s.tried /\ t.txflags = s.txflags /\ t.wrote = s.wrote /\ t.port = s.port
<1> DEFINE t == buff_setall_rx(s, seq)
<1>1. /\ Stream(h, t) /\ t.state = s.state /\ t.irs = seq /\ t.iss = s.iss /\ t.txo = s.txo
      /\ t.tried = s.tried /\ t.txflags = s.txflags /\ t.wrote = s.wrote
  BY SetallRxOK
<1>2. s \in Sock /\ t = [s EXCEPT !.rxi = seq, !.irs = seq, !.unread = 0, !.got = <<>>]
  BY DEF buff_setall_rx, Stream
<1> HIDE DEF t
<1>3. t.rxi = seq /\ t.port = s.port
  BY <1>2 DEF Sock
<1> QED BY <1>1, <1>3 DEF t

(* The SYN of a socket, with or without the acknowledgement of one         *)
LEMMA SynSeq ==
  ASSUME NEW s \in Sock, s.state \in {"SYNR", "SYNS"}, s.txo = s.iss, s.tried = 0
  PROVE  TxSeq(s) + 1 = s.iss /\ TxAck(s) = s.rxi
<1>1. s.iss \in Int /\ s.rxi \in Int
  BY DEF Sock
<1>2. PICK i \in Int, z \in Nat : s.iss = i /\ s.txo = i /\ s.tried = z /\ z = 0
  BY <1>1
<1>3. TxSeq(s) = s.txo + s.tried - 1
  BY NumbersAreInts
<1>4. TxSeq(s) + 1 = s.iss
  BY <1>2, <1>3
<1>5. TxAck(s) = s.rxi
  BY <1>1 DEF TxAck
<1> QED BY <1>4, <1>5

LEMMA BeginsServer ==
  ASSUME plan \in Plans, NEW s, Ready(S, s), s.state = "CLOSED", s.port = 1,
         NEW seg, Arriving(S, seg), seg.flags = {"SYN"}, NEW up \in plan.ups[S], NEW isn \in Isns(S)
  PROVE  LET r == InClosed(s, seg, up, isn) IN BeginsS(s, seg, isn, r) /\ r.s.port = 1
<1> DEFINE r == InClosed(s, seg, up, isn)
           rx == buff_setall_rx(s, seg.seq + 1)
           fresh == buff_setall_tx(rx, isn)
           asked == Upcall(fresh, up)
           n == new_state(asked, "SYNR")
           m == make_sock_tcp(n, {"SYN", "ACK"}, 0)
<1>1. Stream(S, s) /\ seg \in Seg /\ S \in Hosts /\ isn \in Int /\ isn # 0 /\ S # C
  <2>1. S \in Hosts /\ S # C
    BY DEF Hosts, C, S
  <2> QED BY <2>1, IsnsAreInts, IsnsPositive DEF Ready, SockOK, Arriving, SegOK
<1>2. PICK seq \in Int : seg.seq + 1 = seq
  BY <1>1 DEF Seg
<1>3. Stream(S, rx) /\ rx.state = "CLOSED" /\ rx.irs = seq /\ rx.rxi = seq /\ rx.port = 1
  BY <1>1, <1>2, PieceSetRx
<1> HIDE DEF rx
<1>4. /\ Stream(S, fresh) /\ fresh.state = "CLOSED" /\ fresh.iss = isn /\ fresh.txo = isn /\ fresh.tried = 0
      /\ fresh.irs = seq /\ fresh.rxi = seq /\ fresh.port = 1
  <2>1. /\ Stream(S, fresh) /\ fresh.state = rx.state /\ fresh.iss = isn /\ fresh.txo = isn 
        /\ fresh.tried = 0 /\ fresh.irs = rx.irs /\ fresh.rxi = rx.rxi /\ fresh.port = rx.port
    <3>1. S \in Hosts /\ isn \in Int /\ Stream(S, rx)
      BY <1>1, <1>3
    <3> QED BY <3>1, PieceSetTx
  <2> QED BY <1>3, <2>1
<1> HIDE DEF fresh
<1>5. Stream(S, asked) /\ Same(fresh, asked) /\ asked.state = "CLOSED"
  BY <1>1, <1>4, PieceUp
<1>6. r = IF up.ok THEN [m EXCEPT !.s.server = TRUE] ELSE Refuse(asked, seg)
  BY DEF InClosed, rx, fresh
<1> HIDE DEF asked, r
<1>7. CASE up.ok
  <2>1. "SYNR" \in States /\ {"SYN", "ACK"} \in SUBSET Flags
    BY DEF States, Flags
  <2>2. Stream(S, n) /\ Calm(asked, n) /\ n.state = "SYNR"
    BY <1>1, <1>5, <2>1, PieceState
  <2> HIDE DEF n
  <2>3. /\ Stream(S, m.s) /\ Calm(n, m.s) /\ m.s.state = "SYNR" /\ m.s.txflags = {"SYN", "ACK"}
        /\ \A g \in m.tx : /\ g.flags = {"SYN", "ACK"} /\ g.data = <<>> /\ g.port = n.port
                          /\ g.seq = TxSeq(n) /\ g.ack = TxAck(n)
    BY <1>1, <2>1, <2>2, PieceSend
  <2>4. m = [s |-> m.s, tx |-> m.tx]
    BY DEF make_sock_tcp
  <2> HIDE DEF m
  <2> DEFINE t == [m.s EXCEPT !.server = TRUE]
  <2>5. r = [s |-> t, tx |-> m.tx]
    BY <1>6, <1>7, <2>4
  <2>6. m.s \in Sock
    BY <2>3 DEF Stream
  <2>7. /\ t.port = m.s.port /\ t.iss = m.s.iss /\ t.irs = m.s.irs /\ t.txo = m.s.txo /\ t.rxi = m.s.rxi
        /\ t.tried = m.s.tried /\ t.state = "SYNR" /\ t.txflags = {"SYN", "ACK"}
    BY <2>3, <2>6 DEF Sock
  <2> HIDE DEF t
  <2>8. r.s = t /\ r.tx = m.tx
    BY <2>5
  <2>9. t.port = 1 /\ t.iss = isn /\ t.irs = seq /\ t.txo = isn /\ t.rxi = seq /\ t.tried = 0
    BY <1>4, <1>5, <2>2, <2>3, <2>7 DEF Calm, Same
  <2>10. MoreOK(S, t)
    BY <1>1, <2>7, <2>9 DEF MoreOK, Remembers, Blank, Placed, Before, FinSent
  <2>11. n \in Sock /\ n.txo = n.iss /\ n.tried = 0 /\ n.iss = isn /\ n.rxi = seq /\ n.port = 1
    BY <1>4, <1>5, <2>2 DEF Stream, Calm, Same
  <2>12. TxSeq(n) + 1 = isn /\ TxAck(n) = seq
    BY <2>2, <2>11, SynSeq
  <2>13. \A g \in r.tx : SynAck(t, g) /\ g.port = t.port
    BY <2>3, <2>7, <2>8, <2>9, <2>11, <2>12 DEF SynAck
  <2>14. Speaks(seg, r)
    BY <2>8, <2>13 DEF Speaks, Says
  <2> QED BY <1>2, <2>7, <2>8, <2>9, <2>10, <2>14 DEF BeginsS, r
<1>8. CASE ~up.ok
  <2>1. r.s = asked /\ r.tx = {make_reset_resp(seg)}
    BY <1>6, <1>8 DEF Refuse
  <2>2. /\ asked.port = 1 /\ asked.iss = isn /\ asked.irs = seq /\ asked.txo = isn /\ asked.rxi = seq 
        /\ asked.tried = 0
    BY <1>4, <1>5 DEF Same
  <2>3. MoreOK(S, asked)
    BY <1>1, <1>5, <2>2, ConnectedMore
  <2>4. Bare(make_reset_resp(seg)) /\ make_reset_resp(seg).port = seg.port
    BY DEF make_reset_resp, Segment, Bare
  <2>5. Speaks(seg, r)
    BY <2>1, <2>4 DEF Speaks, Says
  <2> QED BY <1>2, <1>5, <2>1, <2>2, <2>3, <2>5 DEF BeginsS, r
<1> QED BY <1>7, <1>8

LEMMA BeginsClient ==
  ASSUME plan \in Plans, NEW s, Ready(C, s), s.state = "ARPR", NEW seg,
         NEW up \in plan.ups[C], NEW isn \in Isns(C)
  PROVE  LET r == InArpr(s, up, isn, 1) IN BeginsC(s, seg, isn, r) /\ r.s.port = 1
<1> DEFINE set == buff_setall_tx(s, isn)
           fresh == [set EXCEPT !.port = 1]
           asked == Upcall(fresh, up)
           n == new_state(asked, "SYNS")
           r == make_sock_tcp(n, {"SYN"}, 0)
<1>1. Stream(C, s) /\ C \in Hosts /\ isn \in Int /\ isn # 0 /\ s.irs = 0 /\ s.rxi = 0
  <2>1. C \in Hosts
    BY DEF Hosts
  <2> QED BY <2>1, IsnsAreInts, IsnsPositive DEF Ready, SockOK, MoreOK, Placed, Blank
<1>2. /\ Stream(C, set) /\ set.state = "ARPR" /\ set.iss = isn /\ set.txo = isn /\ set.tried = 0
      /\ set.irs = 0 /\ set.rxi = 0
  BY <1>1, PieceSetTx
<1> HIDE DEF set
<1>3. /\ Stream(C, fresh) /\ fresh.state = "ARPR" /\ fresh.iss = isn /\ fresh.txo = isn /\ fresh.tried = 0
      /\ fresh.irs = 0 /\ fresh.rxi = 0 /\ fresh.port = 1
  <2>1. set \in Sock /\ TxStream(set) /\ RxStream(C, set)
    BY <1>2 DEF Stream
  <2>2. PICK z \in Int : z = 1
    OBVIOUS
  <2>3. fresh = [set EXCEPT !.port = z]
    BY <2>2
  <2> HIDE DEF fresh
  <2>4. fresh \in Sock
    BY <2>1, <2>3 DEF Sock
  <2>5. /\ fresh.state = set.state /\ fresh.iss = set.iss /\ fresh.txo = set.txo /\ fresh.tried = set.tried
        /\ fresh.irs = set.irs /\ fresh.rxi = set.rxi /\ fresh.port = z /\ fresh.txq = set.txq
        /\ fresh.wrote = set.wrote /\ fresh.got = set.got /\ fresh.unread = set.unread
    BY <2>1, <2>3 DEF Sock
  <2>6. TxStream(fresh) /\ RxStream(C, fresh)
    BY <2>1, <2>5 DEF TxStream, RxStream
  <2> QED BY <1>2, <2>2, <2>4, <2>5, <2>6 DEF Stream
<1> HIDE DEF fresh
<1>4. Stream(C, asked) /\ Same(fresh, asked) /\ asked.state = "ARPR"
  BY <1>1, <1>3, PieceUp
<1> HIDE DEF asked
<1>5. "SYNS" \in States /\ {"SYN"} \in SUBSET Flags
  BY DEF States, Flags
<1>6. Stream(C, n) /\ Calm(asked, n) /\ n.state = "SYNS"
  BY <1>1, <1>4, <1>5, PieceState
<1> HIDE DEF n
<1>7. /\ Stream(C, r.s) /\ Calm(n, r.s) /\ r.s.state = "SYNS" /\ r.s.txflags = {"SYN"}
      /\ \A g \in r.tx : /\ g.flags = {"SYN"} /\ g.data = <<>> /\ g.port = n.port
                        /\ g.seq = TxSeq(n) /\ g.ack = TxAck(n)
  BY <1>1, <1>5, <1>6, PieceSend
<1>8. InArpr(s, up, isn, 1) = r
  BY DEF InArpr, n, asked, fresh, set
<1> HIDE DEF r
<1>9. /\ r.s.port = 1 /\ r.s.iss = isn /\ r.s.irs = 0 /\ r.s.txo = isn /\ r.s.rxi = 0 /\ r.s.tried = 0
  BY <1>3, <1>4, <1>6, <1>7 DEF Calm, Same
<1>10. MoreOK(C, r.s)
  BY <1>1, <1>7, <1>9 DEF MoreOK, Remembers, Blank, Placed, Before, FinSent
<1>11. n \in Sock /\ n.txo = n.iss /\ n.tried = 0 /\ n.iss = isn /\ n.port = 1
  BY <1>3, <1>4, <1>6 DEF Stream, Calm, Same
<1>12. TxSeq(n) + 1 = isn
  BY <1>6, <1>11, SynSeq
<1>13. Speaks(seg, r)
  BY <1>7, <1>9, <1>11, <1>12 DEF Speaks, Says, Syn
<1> QED BY <1>7, <1>8, <1>9, <1>10, <1>13 DEF BeginsC

LEMMA AnswersClient ==
  ASSUME plan \in Plans, NEW s, Ready(C, s), s.state = "SYNS", NEW seg, Arriving(C, seg),
         seg.flags = {"SYN", "ACK"}, seg.ack = s.txo, NEW up \in plan.ups[C]
  PROVE  LET r == InSyns(s, seg, up) IN Answers(s, seg, r) /\ r.s.port = s.port
<1> DEFINE fresh == buff_setall_rx(s, seg.seq + 1)
           asked == Upcall(fresh, up)
           n == new_state(asked, "EST")
           r == make_sock_tcp(n, {"ACK"}, 0)
<1>1. C \in Hosts
  BY DEF Hosts
<1>2. /\ Stream(C, s) /\ s.iss # 0 /\ s.port = 1 /\ s.wrote \in Int
      /\ s.txo = s.iss /\ s.tried = 0 /\ seg \in Seg
  <2>1. Stream(C, s) /\ s.iss # 0 /\ s.port = 1 /\ s.wrote \in Int
    BY <1>1, ReadyFacts DEF Before
  <2> QED BY <2>1 DEF Ready, SockOK, Begun, Numbers, Arriving, SegOK
<1>3. PICK seq \in Int : seg.seq + 1 = seq
  BY <1>2 DEF Seg
<1>4. /\ Stream(C, fresh) /\ fresh.irs = seq /\ fresh.rxi = seq /\ fresh.iss = s.iss /\ fresh.txo = s.iss
      /\ fresh.tried = 0 /\ fresh.wrote = s.wrote /\ fresh.port = 1
  <2>1. fresh = buff_setall_rx(s, seq)
    BY <1>3
  <2> HIDE DEF fresh
  <2>2. Stream(C, s) /\ seq \in Int
    BY <1>2
  <2>3. /\ Stream(C, fresh) /\ fresh.irs = seq /\ fresh.rxi = seq /\ fresh.iss = s.iss /\ fresh.txo = s.txo
        /\ fresh.tried = s.tried /\ fresh.wrote = s.wrote /\ fresh.port = s.port
    BY <1>1, <2>1, <2>2, PieceSetRx
  <2> QED BY <1>2, <2>3
<1> HIDE DEF fresh
<1>5. Stream(C, asked) /\ Same(fresh, asked) /\ fresh.wrote <= asked.wrote
  BY <1>1, <1>4, PieceUp
<1> HIDE DEF asked
<1>6. "EST" \in States /\ {"ACK"} \in SUBSET Flags
  BY DEF States, Flags
<1>7. Stream(C, n) /\ Calm(asked, n) /\ n.state = "EST"
  BY <1>1, <1>5, <1>6, PieceState
<1> HIDE DEF n
<1>8. Stream(C, r.s) /\ Calm(n, r.s) /\ r.s.state = "EST"
  BY <1>1, <1>6, <1>7, PieceSend
<1>9. \A m \in r.tx : Plain(r.s, m) /\ m.port = r.s.port
  BY <1>1, <1>7, ControlSays DEF Talking
<1>10. InSyns(s, seg, up) = r
  BY DEF InSyns, n, asked, fresh
<1> HIDE DEF r
<1>11. /\ r.s.port = 1 /\ r.s.iss = s.iss /\ r.s.irs = seq /\ r.s.txo = s.iss /\ r.s.rxi = seq /\ r.s.tried = 0
       /\ s.wrote <= r.s.wrote
  BY <1>4, <1>5, <1>7, <1>8 DEF Calm, Same
<1>12. MoreOK(C, r.s)
  BY <1>1, <1>2, <1>8, <1>11, ConnectedMore
<1>13. Speaks(seg, r)
  BY <1>9 DEF Speaks, Says
<1> QED BY <1>2, <1>3, <1>8, <1>10, <1>11, <1>12, <1>13 DEF Answers

-----------------------------------------------------------------------------
(* A socket that is given a segment, is polled, times out or is closed     *)

(* The acknowledgement is taken before the function of the state.          *)
LEMMA AckThenMoves ==
  ASSUME NEW h \in Hosts, NEW s, NEW seg, NEW u, TxStep(s, seg, u), Trial(u) = Trial(s),
         u.port = s.port, u.iss = s.iss, u.irs = s.irs, u.rxi = s.rxi, u.wrote = s.wrote,
         u.state = s.state, s.state = "SYNR" => u.txo = s.txo, NEW r, Moves(h, u, seg, r)
  PROVE  Goes(h, s, seg, r) /\ r.s.port = s.port
<1>1. /\ Held(u, r.s) /\ RxStep(u, seg, r.s) /\ StateStep(u, seg, r.s)
      /\ Speaks(seg, r) /\ MoreOK(h, r.s) /\ r.s.txo = u.txo /\ r.s.port = u.port
  BY DEF Moves, Goes, Placid
<1>2. Held(s, r.s) /\ RxStep(s, seg, r.s)
  BY <1>1 DEF Held, RxStep
<1>3. TxStep(s, seg, r.s)
  BY <1>1 DEF TxStep
<1>4. StateStep(s, seg, r.s)
  BY <1>1 DEF StateStep
<1> QED BY <1>1, <1>2, <1>3, <1>4 DEF Goes

Outcome(h, s, seg, isn, r, ok) ==
  /\ r.s.port = s.port \/ (h = C /\ s.state = "ARPR" /\ r.s.port = 1)
  /\ \/ /\ Goes(h, s, seg, r) /\ (ok => Restless(s, r.s))
        /\ s.state = "ARPR" => r.s.state = "CLOSED"
     \/ h = S /\ BeginsS(s, seg, isn, r)
     \/ h = C /\ (BeginsC(s, seg, isn, r) \/ Answers(s, seg, r))

LEMMA RxGoes ==
  ASSUME plan \in Plans, NEW h \in Hosts, NEW s, Ready(h, s), NEW seg, Arriving(h, seg),
         "FIN" \in seg.flags => seg.data = <<>>, NEW up \in plan.ups[h], NEW isn \in Isns(h),
         NEW port \in Int, s.state = "ARPR" => port = 1,
         s.state = "CLOSED" /\ seg.flags = {"SYN"} => s.port = 1
  PROVE  Outcome(h, s, seg, isn, tsock_rx(s, seg, up, isn, port), up.ok)
<1> DEFINE u == TakeAck(s, seg)
           r == tsock_rx(s, seg, up, isn, port)
<1>1. /\ Stream(h, s) /\ Begun(h, s) /\ seg \in Seg /\ s \in Sock /\ MoreOK(h, s)
      /\ s.state \in States \ {"AOPEN", "RSTR"}
  BY DEF Ready, SockOK, Begun, Numbers, Stream, Sock, Arriving, SegOK
<1>2. /\ u.state = "CLOSED" => r = InClosed(u, seg, up, isn)
      /\ u.state = "SYNR" => r = InSynr(u, seg, up)
      /\ u.state = "EST" => r = InEst(u, seg, up)
      /\ u.state = "CLWAIT" => r = InClwait(u, seg, up)
      /\ u.state = "LASTACK" => r = InLastack(u, seg)
      /\ u.state = "ARPS" => r = Silent(u)
      /\ u.state = "ARPR" => r = InArpr(u, up, isn, port)
      /\ u.state = "SYNS" => r = InSyns(u, seg, up)
      /\ u.state = "ACLOSE" => r = InAclose(u, seg)
      /\ u.state = "FINWT1" => r = InFinwt1(u, seg)
      /\ u.state = "FINWT2" => r = InFinwt2(u, seg)
      /\ u.state = "CLING" => r = InCling(u, seg)
      /\ u.state \in {"TWAIT", "RSTR"} => r = InTwait(u)
  BY DEF tsock_rx
<1>3. CASE "RST" \in seg.flags
  <2> DEFINE n == new_state(u, "CLOSED")
  <2>1. u = new_state(s, "RSTR") /\ "RSTR" \in States /\ "CLOSED" \in States
    BY <1>3 DEF TakeAck, States
  <2>2. Stream(h, u) /\ Calm(s, u) /\ u.state = "RSTR" /\ u.txflags = s.txflags
    BY <1>1, <2>1, PieceState
  <2> HIDE DEF u
  <2>3. Calm(u, n) /\ n.state = "CLOSED" /\ n.txflags = u.txflags
    BY <2>1, <2>2, PieceState
  <2>4. r = Silent(n)
    BY <1>2, <2>2 DEF InTwait
  <2> HIDE DEF n, r
  <2>5. Calm(s, n) /\ n.txflags = s.txflags
    BY <2>2, <2>3 DEF Calm, Same
  <2>6. Moves(h, s, seg, Silent(n)) /\ Restless(s, n)
    BY <1>1, <2>3, <2>5, MovesOut
  <2>7. r.s = n /\ n.port = s.port
    BY <2>4, <2>5 DEF Silent, Calm, Same
  <2> QED BY <2>3, <2>4, <2>6, <2>7 DEF Outcome, Moves, r
<1>4. CASE "RST" \notin seg.flags
  <2>1. /\ Stream(h, u) /\ TxStep(s, seg, u) /\ Trial(u) = Trial(s)
        /\ u.port = s.port /\ u.iss = s.iss /\ u.irs = s.irs /\ u.rxi = s.rxi /\ u.wrote = s.wrote
        /\ u.state = s.state /\ u.txflags = s.txflags
        /\ s.tried = 0 => u.txo = s.txo /\ u.tried = 0
        /\ s.txq = <<>> => u.txq = <<>>
    BY <1>1, <1>4, PieceAck
  <2> HIDE DEF u
  <2>2. s.state \in {"SYNR", "SYNS"} => s.txo = s.iss /\ s.tried = 0
    BY <1>1 DEF Begun, Numbers
  <2>3. Ready(h, u)
    <3>1. Begun(h, u)
      BY <1>1, <2>1, <2>2 DEF Begun, Numbers, LastFlags
    <3>2. MoreOK(h, u)
      BY <1>1, <2>1 DEF MoreOK, Remembers, Blank, Placed
    <3> QED BY <2>1, <3>1, <3>2 DEF Ready, SockOK
  <2>4. Comes(h, seg)
    BY <1>4 DEF Comes
  <2>5. ASSUME Moves(h, u, seg, r), up.ok => Restless(u, r.s), s.state # "ARPR"
        PROVE  Outcome(h, s, seg, isn, r, up.ok)
    <3>1. Goes(h, s, seg, r) /\ r.s.port = s.port
      BY <2>1, <2>2, <2>5, AckThenMoves
    <3>2. up.ok => Restless(s, r.s)
      BY <2>1, <2>5 DEF Restless
    <3> QED BY <2>5, <3>1, <3>2 DEF Outcome
  <2>6. CASE u.state = "CLOSED"
    <3>1. CASE seg.flags = {"SYN"}
      <4>1. h = S
        BY <3>1 DEF Arriving, SegOK, Peer, Hosts, C
      <4>2. Ready(S, u) /\ u.port = 1 /\ Arriving(S, seg) /\ up \in plan.ups[S] /\ isn \in Isns(S)
        BY <2>1, <2>3, <2>6, <3>1, <4>1
      <4>3. BeginsS(u, seg, isn, r) /\ r.s.port = 1
        BY <1>2, <2>6, <3>1, <4>2, BeginsServer
      <4>4. BeginsS(s, seg, isn, r)
        BY <2>1, <4>3 DEF BeginsS
      <4> QED BY <2>1, <2>6, <4>1, <4>2, <4>3, <4>4 DEF Outcome, C, S
    <3>2. CASE seg.flags # {"SYN"}
      <4>1. r = Refuse(u, seg) \/ r = Silent(u)
        BY <1>2, <2>6, <3>2 DEF InClosed
      <4>2. u \in Sock /\ MoreOK(h, u) /\ Refuse(u, seg).s = u /\ Silent(u).s = u
        BY <2>1, <2>3 DEF Ready, Stream, Refuse, Silent
      <4>3. Moves(h, u, seg, r) /\ Restless(u, r.s)
        BY <4>1, <4>2, Stays
      <4> QED BY <2>1, <2>5, <2>6, <4>3
    <3> QED BY <3>1, <3>2
  <2>7. CASE u.state = "SYNR"
    BY <1>2, <2>1, <2>3, <2>4, <2>5, <2>7, MovesSynr
  <2>8. CASE u.state = "EST"
    BY <1>2, <2>1, <2>3, <2>4, <2>5, <2>8, MovesEst
  <2>9. CASE u.state = "CLWAIT"
    BY <1>2, <2>1, <2>3, <2>4, <2>5, <2>9, MovesClwait
  <2>10. CASE u.state \in {"LASTACK", "CLING", "TWAIT"}
    <3>1. r \in {InLastack(u, seg), InCling(u, seg), InTwait(u)}
      BY <1>2, <2>10
    <3>2. Moves(h, u, seg, r) /\ Restless(u, r.s)
      BY <2>3, <3>1, MovesLast
    <3> QED BY <2>1, <2>5, <2>10, <3>2
  <2>11. CASE u.state = "ARPS"
    <3>1. u \in Sock /\ MoreOK(h, u) /\ r = Silent(u) /\ r.s = u
      BY <1>2, <2>1, <2>3, <2>11 DEF Ready, Stream, Silent
    <3>2. Moves(h, u, seg, r) /\ Restless(u, r.s)
      BY <3>1, Stays
    <3> QED BY <2>1, <2>5, <2>11, <3>2
  <2>12. CASE u.state = "ARPR"
    <3>1. h = C /\ port = 1
      BY <1>1, <2>1, <2>12 DEF Begun, Numbers, Hosts
    <3>2. Ready(C, u) /\ up \in plan.ups[C] /\ isn \in Isns(C)
      BY <2>3, <3>1
    <3>3. BeginsC(u, seg, isn, r) /\ r.s.port = 1
      BY <1>2, <2>12, <3>1, <3>2, BeginsClient
    <3>4. BeginsC(s, seg, isn, r)
      BY <2>1, <3>3 DEF BeginsC
    <3> QED BY <2>1, <2>12, <3>1, <3>3, <3>4 DEF Outcome
  <2>13. CASE u.state = "SYNS"
    <3>1. CASE seg.flags = {"SYN", "ACK"} /\ seg.ack = u.txo
      <4>1. h = C
        BY <1>1, <2>1, <2>13 DEF Begun, Numbers, Hosts
      <4>2. Ready(C, u) /\ up \in plan.ups[C] /\ Arriving(C, seg)
        BY <2>3, <4>1
      <4>3. Answers(u, seg, r) /\ r.s.port = u.port
        BY <1>2, <2>13, <3>1, <4>2, AnswersClient
      <4>4. Answers(s, seg, r)
        BY <2>1, <4>3 DEF Answers
      <4> QED BY <2>1, <2>13, <4>1, <4>3, <4>4 DEF Outcome
    <3>2. CASE ~(seg.flags = {"SYN", "ACK"} /\ seg.ack = u.txo)
      <4>1. r = Refuse(u, seg) \/ r = Silent(u)
        BY <1>2, <2>13, <3>2 DEF InSyns
      <4>2. u \in Sock /\ MoreOK(h, u) /\ Refuse(u, seg).s = u /\ Silent(u).s = u
        BY <2>1, <2>3 DEF Ready, Stream, Refuse, Silent
      <4>3. Moves(h, u, seg, r) /\ Restless(u, r.s)
        BY <4>1, <4>2, Stays
      <4> QED BY <2>1, <2>5, <2>13, <4>3
    <3> QED BY <3>1, <3>2
  <2>14. CASE u.state = "ACLOSE"
    <3>1. Moves(h, u, seg, r)
      BY <1>2, <2>3, <2>4, <2>14, MovesAclose
    <3>2. Restless(u, r.s)
      BY <2>14 DEF Restless, Ending
    <3> QED BY <2>1, <2>5, <2>14, <3>1, <3>2
  <2>15. CASE u.state \in {"FINWT1", "FINWT2"}
    <3>1. Moves(h, u, seg, r) /\ Restless(u, r.s)
      BY <1>2, <2>3, <2>4, <2>15, MovesFinwt
    <3> QED BY <2>1, <2>5, <2>15, <3>1
  <2> QED BY <1>1, <2>1, <2>6, <2>7, <2>8, <2>9, <2>10, <2>11, <2>12, <2>13, <2>14, <2>15 DEF States
<1> QED BY <1>3, <1>4

-----------------------------------------------------------------------------
(* Steps of a socket that receives nothing                                 *)

LEMMA Unchanged ==
  ASSUME NEW s, NEW seg, NEW t, Calm(s, t), t.state = s.state, s.wrote \in Int
  PROVE  Steps(s, seg, t)
<1>1. t.state \in FinRcvd => s.state \in FinRcvd
  OBVIOUS
<1>2. StateStep(s, seg, t)
  BY <1>1 DEF StateStep, Calm, Same, Trial
<1> QED BY <1>2 DEF Steps, Held, Placid, RxStep, Calm, Same

LEMMA Resent ==
  ASSUME NEW h \in Hosts, NEW s, s.wrote \in Int, MoreOK(h, s), NEW r, Calm(s, r.s),
         r.s.state = s.state, r.s.txflags = s.txflags,
         \A m \in r.tx : /\ m.port = r.s.port
                         /\ Bare(m) \/ Syn(r.s, m) \/ SynAck(r.s, m) \/ Plain(r.s, m)
  PROVE  Moves(h, s, NoSeg, r) /\ Restless(s, r.s)
<1>1. Steps(s, NoSeg, r.s)
  BY Unchanged
<1>2. Speaks(NoSeg, r)
  BY DEF Speaks, Says
<1>3. MoreOK(h, r.s)
  BY DEF MoreOK, Remembers, Blank, Placed, Calm, Same
<1> QED BY <1>1, <1>2, <1>3 DEF Moves, Goes, Steps, TxStep, Placid, Restless

(* What is sent again is what was sent last, or data.                      *)
LEMMA ControlAgain ==
  ASSUME NEW h \in Hosts, NEW s, Ready(h, s), s.state \in States,
         s.state \notin {"CLOSED", "ARPS", "EST", "CLWAIT", "ACLOSE"}
  PROVE  LET r == make_sock_tcp(s, s.txflags, 0) IN
         Moves(h, s, NoSeg, r) /\ Restless(s, r.s)
<1> DEFINE r == make_sock_tcp(s, s.txflags, 0)
<1>1. s \in Sock /\ Stream(h, s) /\ Begun(h, s) /\ MoreOK(h, s) /\ s.wrote \in Int
  BY DEF Ready, SockOK, Stream, Sock
<1>2. s.txflags \in SUBSET Flags
  BY <1>1 DEF Sock
<1>3. /\ Stream(h, r.s) /\ Calm(s, r.s) /\ r.s.state = s.state /\ r.s.txflags = s.txflags
      /\ \A m \in r.tx : /\ m.flags = s.txflags /\ m.data = <<>> /\ m.port = s.port
                        /\ m.seq = TxSeq(s) /\ m.ack = TxAck(s)
  BY <1>1, <1>2, PieceSend
<1>4. s.state \in FinSent \union {"LASTACK"} => 
        /\ s.state \in Talking /\ s.txflags \in {{"ACK"}, {"FIN", "ACK"}, {"RST"}}
        /\ "FIN" \in s.txflags => s.state \in {"LASTACK", "FINWT1", "FINWT2"}
        /\ s.state = "FINWT2" => s.txq = <<>>
  BY <1>1 DEF MoreOK, Remembers, Talking, FinSent
<1>5. CASE s.txflags = {"RST"}
  <2>1. \A m \in r.tx : Bare(m) /\ m.port = r.s.port
    BY <1>3, <1>5 DEF Bare, Calm, Same
  <2> QED BY <1>1, <1>3, <2>1, Resent
<1>6. CASE s.state \in FinSent \union {"LASTACK"} /\ s.txflags # {"RST"}
  <2>1. s.txflags \in {{"ACK"}, {"FIN", "ACK"}} /\ s.state \in Talking
    BY <1>4, <1>6
  <2>2. \A m \in r.tx : Plain(r.s, m) /\ m.port = r.s.port
    BY <1>1, <1>4, <1>6, <2>1, ControlSays
  <2> QED BY <1>1, <1>3, <2>2, Resent
<1>7. CASE s.state \in {"SYNR", "SYNS"} /\ s.txflags # {"RST"}
  <2>1. s.txo = s.iss /\ s.tried = 0
    BY <1>1, <1>7 DEF Begun, Numbers
  <2>2. TxSeq(s) + 1 = s.iss /\ TxAck(s) = s.rxi
    BY <1>1, <1>7, <2>1, SynSeq
  <2>3. \/ s.state = "SYNS" /\ s.txflags = {"SYN"}
        \/ s.state = "SYNR" /\ s.txflags = {"SYN", "ACK"}
    BY <1>1, <1>7 DEF MoreOK, Remembers
  <2>4. \A m \in r.tx : (Syn(r.s, m) \/ SynAck(r.s, m)) /\ m.port = r.s.port
    BY <1>3, <2>2, <2>3 DEF Syn, SynAck, Calm, Same
  <2> QED BY <1>1, <1>3, <2>4, Resent
<1>8. CASE s.state = "ARPR" /\ s.txflags # {"RST"}
  <2>1. s.iss = 0 /\ s.txo = 0 /\ s.tried = 0 /\ s.txflags = {}
    BY <1>1, <1>8 DEF MoreOK, Placed, Blank
  <2>2. TxSeq(s) = 0
    BY <1>8, <2>1 DEF TxSeq, Trial
  <2>3. \A m \in r.tx : Bare(m) /\ m.port = r.s.port
    BY <1>3, <2>1, <2>2 DEF Bare, Calm, Same
  <2> QED BY <1>1, <1>3, <2>3, Resent
<1> QED BY <1>1, <1>5, <1>6, <1>7, <1>8 DEF States, FinSent, Begun, Numbers

LEMMA ExpireGoes ==
  ASSUME plan \in Plans, NEW h \in Hosts, NEW s, Ready(h, s), s.state # "CLOSED"
  PROVE  LET r == Expire(s) IN Goes(h, s, NoSeg, r) /\ r.s.port = s.port /\ Restless(s, r.s)
<1> DEFINE r == Expire(s)
<1>1. s \in Sock /\ Stream(h, s) /\ TxStream(s) /\ RxStream(h, s) /\ Begun(h, s) /\ MoreOK(h, s)
  BY DEF Ready, SockOK, Stream
<1>2. s.state \in States /\ s.wrote \in Int
  BY <1>1 DEF Sock
<1>3. CASE s.retries >= 0
  <2> DEFINE t == [s EXCEPT !.retries = @ - 1]
             back == [t EXCEPT !.tried = 0]
  <2>1. s.retries - 1 \in Int
    BY <1>1 DEF Sock
  <2>2. t \in Sock /\ TxStream(t) /\ RxStream(h, t) /\ Begun(h, t)
    BY <1>1, <2>1 DEF Sock, TxStream, RxStream, Begun, Numbers, LastFlags
  <2>3. Calm(s, t) /\ t.state = s.state /\ t.txflags = s.txflags
    BY <1>1 DEF Sock, Calm, Same
  <2>4. r = remake_tsock(t)
    BY <1>3 DEF Expire
  <2> HIDE DEF t, r
  <2>5. Ready(h, t)
    <3>1. MoreOK(h, t)
      BY <1>1, <2>3 DEF MoreOK, Remembers, Blank, Placed, Calm, Same
    <3> QED BY <2>2, <3>1 DEF Ready, SockOK, Stream
  <2>6. ASSUME Moves(h, t, NoSeg, r), Restless(t, r.s)
        PROVE  Goes(h, s, NoSeg, r) /\ r.s.port = s.port /\ Restless(s, r.s)
    <3>1. TxStep(s, NoSeg, t) /\ Trial(t) = Trial(s)
      BY <2>3 DEF TxStep, Trial, Calm, Same
    <3>2. Goes(h, s, NoSeg, r) /\ r.s.port = s.port
      BY <2>3, <2>6, <3>1, AckThenMoves DEF Calm, Same
    <3> QED BY <2>3, <2>6, <3>2 DEF Restless
  <2>7. CASE t.state = "ARPS"
    <3>1. r = [s |-> t, tx |-> {ArpReq}]
      BY <2>4, <2>7 DEF remake_tsock
    <3> DEFINE q == Silent(t)
    <3>2. Moves(h, t, NoSeg, q) /\ Restless(t, t) /\ q.s = t
      BY <2>2, <2>5, Stays DEF Ready, Silent
    <3>3. Bare(ArpReq) /\ ArpReq.port = 0
      BY DEF Bare, ArpReq, Segment
    <3> HIDE DEF q
    <3>4. r.s = t /\ Speaks(NoSeg, r)
      BY <3>1, <3>3 DEF Speaks, Says
    <3>5. Moves(h, t, NoSeg, r)
      BY <3>2, <3>4 DEF Moves, Goes
    <3> QED BY <2>6, <3>2, <3>4, <3>5 DEF r
  <2>8. CASE t.state \in {"EST", "CLWAIT", "ACLOSE"}
    <3>1. PICK force \in BOOLEAN : r = tsock_estab_tx(back, force)
      BY <2>4, <2>8 DEF remake_tsock
    <3>2. /\ back \in Sock /\ back.state = t.state /\ back.wrote = t.wrote /\ back.iss = t.iss
          /\ back.irs = t.irs /\ back.txo = t.txo /\ back.rxi = t.rxi /\ back.port = t.port
      BY <2>2 DEF Sock
    <3>3. TxStream(back) /\ RxStream(h, back)
      BY <2>2 DEF Sock, TxStream, RxStream
    <3> HIDE DEF back
    <3>4. t.iss \in Isns(h) /\ t.iss # 0 /\ t.port = 1 /\ t.wrote \in Int /\ t.state \in Writing
      BY <2>5, <2>8, ReadyFacts DEF Before, Writing
    <3>5. Steps(t, NoSeg, back)
      <4>1. StateStep(t, NoSeg, back)
        BY <2>8, <3>2, <3>4 DEF StateStep, Writing
      <4> QED BY <3>2, <3>4, <4>1 DEF Steps, Held, Placid, RxStep
    <3>6. Stream(h, back) /\ back.iss \in Isns(h) /\ back.iss # 0 /\ back.port = 1
      BY <3>2, <3>3, <3>4 DEF Stream
    <3> HIDE DEF r
    <3>7. Moves(h, t, NoSeg, r) /\ r.s.state = t.state
      BY <2>8, <3>1, <3>2, <3>4, <3>5, <3>6, EndData
    <3> QED BY <2>6, <3>7 DEF r, Restless
  <2>9. CASE t.state \notin {"ARPS", "EST", "CLWAIT", "ACLOSE"}
    <3>1. r = make_sock_tcp(t, t.txflags, 0)
      BY <2>4, <2>9 DEF remake_tsock
    <3>2. Moves(h, t, NoSeg, r) /\ Restless(t, r.s)
      BY <1>2, <2>3, <2>5, <2>9, <3>1, ControlAgain
    <3> QED BY <2>6, <3>2 DEF r
  <2> QED BY <2>7, <2>8, <2>9
<1>4. CASE ~(s.retries >= 0)
  <2> DEFINE n == new_state(s, "CLOSED")
  <2>1. "CLOSED" \in States /\ {"RST"} \in SUBSET Flags
    BY DEF States, Flags
  <2>2. Stream(h, n) /\ Calm(s, n) /\ n.state = "CLOSED" /\ n.txflags = s.txflags
    BY <1>1, <2>1, PieceState
  <2>3. Moves(h, s, NoSeg, Silent(n)) /\ Restless(s, n)
    BY <1>1, <2>2, MovesOut
  <2>4. r = make_sock_tcp(n, {"RST"}, 0)
    BY <1>4 DEF Expire
  <2> HIDE DEF n, r
  <2>5. /\ Calm(n, r.s) /\ r.s.state = "CLOSED" /\ r.s.txflags = {"RST"}
        /\ \A m \in r.tx : m.flags = {"RST"} /\ m.data = <<>> /\ m.port = n.port
    BY <2>1, <2>2, <2>4, PieceSend
  <2>6. Speaks(NoSeg, r)
    BY <2>5 DEF Speaks, Says, Bare, Calm, Same
  <2>7. Calm(s, r.s)
    BY <2>2, <2>5 DEF Calm, Same
  <2>8. Steps(s, NoSeg, r.s)
    <3>1. s.wrote <= r.s.wrote
      BY <1>2, <2>7 DEF Calm
    <3>2. StateStep(s, NoSeg, r.s)
      BY <2>5, <2>7 DEF StateStep, Calm, Same, Trial, Writing, FinRcvd
    <3> QED BY <2>7, <3>1, <3>2 DEF Steps, Held, Placid, RxStep, Calm, Same
  <2>9. MoreOK(h, r.s)
    BY <1>1, <2>5, <2>7 DEF MoreOK, Remembers, Blank, Placed, Before, FinSent, Calm, Same
  <2> QED BY <2>5, <2>6, <2>8, <2>9 DEF Goes, Steps, TxStep, Placid, Restless, Ending, FinSent, r
<1> QED BY <1>3, <1>4

LEMMA ResetGoes ==
  ASSUME NEW h \in Hosts, NEW s, Ready(h, s)
  PROVE  LET r == reset_tcp(s) IN Goes(h, s, NoSeg, r) /\ r.s.port = s.port
<1> DEFINE r == reset_tcp(s)
<1>1. s \in Sock /\ Stream(h, s) /\ MoreOK(h, s) /\ {"RST"} \in SUBSET Flags /\ s.wrote \in Int
  BY DEF Ready, SockOK, Stream, Sock, Flags
<1>2. CASE r = Silent(s)
  <2>1. Moves(h, s, NoSeg, r) /\ r.s = s
    BY <1>1, <1>2, Stays DEF Silent
  <2> QED BY <2>1 DEF Moves
<1>3. CASE r = make_sock_tcp(s, {"RST"}, 0)
  <2>1. /\ Calm(s, r.s) /\ r.s.state = s.state /\ r.s.txflags = {"RST"}
        /\ \A m \in r.tx : m.flags = {"RST"} /\ m.data = <<>> /\ m.port = s.port
    BY <1>1, <1>3, PieceSend
  <2> HIDE DEF r
  <2>2. MoreOK(h, r.s)
    BY <1>1, <2>1 DEF MoreOK, Remembers, Blank, Placed, Before, FinSent, Calm, Same
  <2>3. \A m \in r.tx : Bare(m) /\ m.port = r.s.port
    BY <2>1 DEF Bare, Calm, Same
  <2>4. Steps(s, NoSeg, r.s)
    BY <1>1, <2>1, Unchanged
  <2> QED BY <2>1, <2>2, <2>3, <2>4 DEF Goes, Steps, TxStep, Placid, Speaks, Says, Calm, Same, r
<1> QED BY <1>2, <1>3 DEF reset_tcp

LEMMA CloseGoes ==
  ASSUME NEW h \in Hosts, NEW s, Ready(h, s)
  PROVE  LET r == Silent(close_tcp(s)) IN Goes(h, s, NoSeg, r) /\ r.s.port = s.port
<1> DEFINE n == new_state(s, "ACLOSE")
<1>1. s \in Sock /\ Stream(h, s) /\ MoreOK(h, s) /\ "ACLOSE" \in States /\ s.wrote \in Int
  BY DEF Ready, SockOK, Stream, Sock, States
<1>2. CASE s.state \in {"EST", "SYNR"}
  <2>1. Calm(s, n) /\ n.state = "ACLOSE"
    BY <1>1, PieceState
  <2> HIDE DEF n
  <2>2. s.iss # 0 /\ s.port = 1
    BY <1>2, ReadyFacts DEF Before
  <2>3. MoreOK(h, n)
    BY <2>1, <2>2, ConnectedMore DEF Calm, Same
  <2>4. StateStep(s, NoSeg, n)
    BY <1>2, <2>1 DEF StateStep, Writing, FinRcvd
  <2>5. Steps(s, NoSeg, n)
    BY <1>1, <2>1, <2>4 DEF Steps, Held, Placid, RxStep, Calm, Same
  <2>6. Moves(h, s, NoSeg, Silent(n)) /\ Silent(n).s = n
    BY <2>3, <2>5, EndQuiet DEF Silent
  <2>7. close_tcp(s) = n
    BY <1>2 DEF close_tcp, n
  <2> QED BY <2>1, <2>6, <2>7 DEF Moves, Calm, Same
<1>3. CASE s.state \notin {"EST", "SYNR"}
  <2>1. close_tcp(s) = s
    BY <1>3 DEF close_tcp
  <2>2. Moves(h, s, NoSeg, Silent(s)) /\ Silent(s).s = s
    BY <1>1, Stays DEF Silent
  <2> QED BY <2>1, <2>2 DEF Moves
<1> QED BY <1>2, <1>3

(* A key, and data that is displayed                                       *)
LEMMA KeyGoes ==
  ASSUME plan \in Plans, NEW h \in Hosts, NEW s, Ready(h, s), s.state \notin Ending \union {"CLOSED"}
  PROVE  LET t == AppPut(s, 1) IN 
         Goes(h, s, NoSeg, Silent(t)) /\ t.port = s.port /\ t.state = s.state
<1> DEFINE t == AppPut(s, 1)
           k == minw(1, Room - Len(s.txq))
<1>1. s \in Sock /\ Stream(h, s) /\ MoreOK(h, s) /\ s.wrote \in Int /\ Begun(h, s) /\ s.state \in States
  BY DEF Ready, SockOK, Stream, Sock
<1>2. Stream(h, t) /\ Kept(s, t) /\ t.state = s.state
  BY <1>1, AppPutOK
<1>3. t = [s EXCEPT !.txq = s.txq \o [i \in 1 .. k |-> s.wrote + i], !.wrote = s.wrote + k]
  BY <1>1 DEF AppPut, Sock
<1>4. k \in Nat
  <2>1. Len(s.txq) \in Nat /\ Len(s.txq) <= Room /\ Room \in Nat
    BY <1>1, PlanFacts DEF Sock, Stream, TxStream
  <2> QED BY <2>1 DEF minw
<1> HIDE DEF t, k
<1>5. t.port = s.port /\ t.rxi = s.rxi /\ t.wrote = s.wrote + k
  BY <1>1, <1>3 DEF Sock
<1>6. s.wrote <= t.wrote
  BY <1>1, <1>4, <1>5
<1>7. StateStep(s, NoSeg, t)
  <2>1. Trial(t) = Trial(s)
    BY <1>2 DEF Kept, Trial
  <2>2. s.state \in Writing \union {"LASTACK", "ARPS", "ARPR"}
    BY <1>1 DEF States, Writing, Ending, FinSent, Begun, Numbers
  <2>3. s.state \notin Writing \union {"LASTACK", "ARPS", "ARPR"} => t.wrote = s.wrote
    BY <2>2
  <2> QED BY <1>2, <1>5, <2>1, <2>3 DEF StateStep
<1>8. MoreOK(h, t)
  <2>1. t.txflags = s.txflags /\ t.irs = s.irs /\ t.iss = s.iss /\ t.txo = s.txo /\ t.tried = s.tried
    BY <1>2 DEF Kept
  <2>2. t.state \notin FinSent
    BY <1>2 DEF Ending
  <2>3. Remembers(h, t)
    BY <1>1, <1>2, <2>1, <2>2 DEF MoreOK, Remembers, FinSent
  <2>4. Blank(t) /\ Placed(t)
    BY <1>1, <1>2, <1>5, <2>1 DEF MoreOK, Blank, Placed
  <2> QED BY <2>3, <2>4 DEF MoreOK
<1>9. Steps(s, NoSeg, t)
  BY <1>2, <1>5, <1>6, <1>7 DEF Steps, Held, Placid, RxStep, Kept
<1>10. Moves(h, s, NoSeg, Silent(t)) /\ Silent(t).s = t
  BY <1>8, <1>9, EndQuiet DEF Silent
<1> QED BY <1>2, <1>5, <1>10 DEF Moves, t

LEMMA DisplayGoes ==
  ASSUME NEW h \in Hosts, NEW s, Ready(h, s)
  PROVE  LET t == [s EXCEPT !.unread = 0] IN 
         Goes(h, s, NoSeg, Silent(t)) /\ t.port = s.port /\ t.state = s.state
<1> DEFINE t == [s EXCEPT !.unread = 0]
<1>1. s \in Sock /\ MoreOK(h, s) /\ s.wrote \in Int
  BY DEF Ready, SockOK, Stream, Sock
<1>2. Calm(s, t) /\ t.state = s.state /\ t.txflags = s.txflags
  BY <1>1 DEF Sock, Calm, Same
<1> HIDE DEF t
<1>3. Silent(t).s = t /\ Silent(t).tx = {}
  BY DEF Silent
<1>4. Moves(h, s, NoSeg, Silent(t))
  BY <1>1, <1>2, <1>3, Resent
<1> QED BY <1>2, <1>4 DEF Moves, Calm, Same, t

-----------------------------------------------------------------------------
(* Two ends of a connection, or of two                                     *)

Used(s) == s.iss # 0
Near(n, iss) == iss <= n /\ n < iss + IsnStep

(* Of what a socket has sent: the data was written, and the FIN is after   *)
(* it.                                                                     *)
Sends(s, out) ==
  \A m \in out : Near(m.seq, s.iss) =>
    /\ m.data # <<>> => m.seq + Len(m.data) <= s.iss + s.wrote
    /\ "FIN" \in m.flags => FinAt(s, m.seq)

(* Socket t has of s what s sent.                                          *)
Takes(s, t) ==
  t.irs = s.iss =>
    /\ t.rxi <= s.iss + s.wrote
    /\ t.state \in FinRcvd => s.state \notin Writing /\ t.rxi = Trial(s)

(* What t acknowledges, and s takes as acknowledged, has been received; a  *)
(* number more is the FIN.                                                 *)
AckAt(s, t, n) ==
  n <= t.rxi \/ (n = t.rxi + 1 /\ s.state \notin Writing /\ t.rxi = Trial(s))
Sure(s, t, back) ==
  /\ \A m \in back : Acks(m) => AckAt(s, t, m.ack)
  /\ s.txo <= t.rxi

(* The client's socket x; in, out: the segments under way to it and from   *)
(* its host.                                                               *)
ClientOK(x, in, out) ==
  /\ Sends(x, out)
  /\ \A m \in out : "SYN" \in m.flags => m.seq + 1 <= x.iss
  /\ x.state = "SYNS" =>
       /\ \A m \in out : m.data # <<>> => ~Near(m.seq, x.iss)
       /\ \A m \in in : Acks(m) => m.ack <= x.iss
  /\ \A g \in out : Acks(g) /\ ~Near(g.seq, x.iss) =>
       /\ \A m \in in : "SYN" \in m.flags /\ m.ack = x.iss => m.seq + 1 > g.ack
       /\ x.irs # 0 => x.irs > g.ack

(* The server's socket y.                                                  *)
ServerOK(y, out) ==
  /\ Sends(y, out)
  /\ \A m \in out : "SYN" \in m.flags => m.seq + 1 <= y.iss

(* Both, with the segments under way to the client and to the server.      *)
Link(x, y, nc, ns) ==
  /\ x.irs <= y.iss /\ y.irs <= x.iss
  /\ x.irs = y.iss => y.irs = x.iss
  /\ \A m \in nc : "SYN" \in m.flags /\ m.ack = x.iss /\ m.seq + 1 = y.iss => y.irs = x.iss
  /\ Takes(x, y) /\ Takes(y, x)
  /\ x.irs = y.iss => Sure(x, y, nc) /\ Sure(y, x, ns)
  /\ x.state = "SYNS" /\ y.irs = x.iss => y.rxi = x.iss
  /\ y.irs = x.iss =>
       /\ \A g \in ns : Acks(g) => g.ack < y.iss \/ (x.irs = y.iss /\ Near(g.seq, x.iss))
       /\ x.irs # y.iss => y.txo = y.iss
  /\ y.state = "EST" =>
       IF y.irs = x.iss THEN x.irs = y.iss
       ELSE x.irs = 0 /\ \A m \in nc : "SYN" \in m.flags => m.ack # x.iss

Pair(x, y, nc, ns) ==
  /\ Used(x) => ClientOK(x, nc, ns)
  /\ Used(y) => ServerOK(y, nc)
  /\ Used(x) /\ Used(y) => Link(x, y, nc, ns)

-----------------------------------------------------------------------------
(* The whole system                                                        *)

(* A segment as one of the kinds there are.                                *)
Kind(m) ==
  /\ m.flags \in {{}, {"ARPREQ"}, {"ARPRESP"}, {"RST"}, {"RST", "ACK"}, {"SYN"},
                  {"SYN", "ACK"}, {"ACK"}, {"FIN", "ACK"}}
  /\ m.data # <<>> => m.flags = {"ACK"}
  /\ m.port \in {0, 1} /\ ("SYN" \in m.flags => m.port = 1)

(* A socket of host h, and a segment it has sent, are of connections that  *)
(* began before number n of h and number p of its peer.                    *)
Dated(h, s, n, p) ==
  /\ s.iss # 0 => s.iss \in Isns(h)
  /\ s.irs # 0 => s.irs \in Isns(Peer(h))
  /\ h = S /\ s.iss # 0 => s.irs # 0
  /\ s.iss < n /\ s.irs < p
SegDated(m, n, p) ==
  /\ "RST" \notin m.flags => m.seq < n
  /\ "SYN" \in m.flags => m.seq + 1 < n
  /\ Acks(m) => m.ack < p

AllOK ==
  \A h \in Hosts :
    /\ \A i \in Socks : 
         /\ MoreOK(h, sock[h][i]) /\ sock[h][i].port \in {0, 1}
         /\ Dated(h, sock[h][i], Isn(h), Isn(Peer(h)))
    /\ \A m \in net[h] : Kind(m) /\ SegDated(m, Isn(Peer(h)), Isn(h))

(* The client has one socket, which closes only when the program ends.     *)
X == sock[C][1]
ClientPhase ==
  /\ \A i \in Socks \ {1} : sock[C][i].state = "CLOSED" /\ sock[C][i].iss = 0
  /\ phase[C] = "start" => X.iss = 0 /\ X.state = "CLOSED" /\ eport = 0
  /\ X.state \in {"ARPS", "ARPR"} => eport = 0
  /\ phase[C] = "run" => X.state \notin Ending

(* One socket of the server has the connection.                            *)
ServerPorts ==
  /\ \A i, j \in Socks : sock[S][i].port = 1 /\ sock[S][j].port = 1 => i = j
  /\ \A j \in Socks : Used(sock[S][j]) => sock[S][j].port = 1 \/ NSOCKS = 1
Ends(k) ==
  /\ \A j \in Socks \ {k} : ~Used(sock[S][j])
  /\ Pair(X, sock[S][k], net[C], net[S])

-----------------------------------------------------------------------------
(* Numbers                                                                 *)

LEMMA StepSize == IsnStep \in Nat /\ IsnStep > 0
BY TcpNetAssumption

LEMMA IsnOrder ==
  ASSUME NEW h \in Hosts, NEW a \in Isns(h), NEW b \in Isns(h), a < b
  PROVE  a + IsnStep <= b
<1>1. a \in Int /\ b \in Int
  BY IsnsAreInts
<1>2. SUFFICES ASSUME ~(a + IsnStep <= b) PROVE FALSE
  OBVIOUS
<1>3. a - b < IsnStep /\ b - a < IsnStep
  BY <1>1, <1>2, StepSize
<1>4. a = b
  BY <1>3, IsnsApart
<1> QED BY <1>1, <1>4

LEMMA NearOne ==
  ASSUME NEW h \in Hosts, NEW a \in Isns(h), NEW b \in Isns(h), NEW n \in Int,
         Near(n, a), Near(n, b)
  PROVE  a = b
<1>1. a \in Int /\ b \in Int
  BY IsnsAreInts
<1>2. a - b < IsnStep /\ b - a < IsnStep
  BY <1>1, StepSize DEF Near
<1> QED BY <1>2, IsnsApart

(* A socket that is used, or was.                                          *)
Whole(h, s) ==
  /\ SockOK(h, s) /\ MoreOK(h, s) /\ s.wrote <= plan.writes[h]
  /\ s.iss \in Isns(h) /\ s.iss # 0
  /\ s.irs # 0 => s.irs \in Isns(Peer(h))
  /\ h = S => s.irs # 0

LEMMA WholeNumbers ==
  ASSUME plan \in Plans, NEW h \in Hosts, NEW s, Whole(h, s)
  PROVE  /\ s.iss \in Int /\ s.irs \in Int /\ s.txo \in Int /\ s.rxi \in Int
         /\ s.tried \in Nat /\ s.wrote \in Nat /\ Trial(s) \in Int /\ Trial(s) = s.txo + s.tried
         /\ s.iss <= s.txo /\ s.txo <= Trial(s) /\ Trial(s) <= s.iss + s.wrote
         /\ s.wrote <= IsnStep - 2 /\ s.irs <= s.rxi /\ s.rxi <= s.irs + (IsnStep - 2)
         /\ s.state = "SYNR" => s.txo = s.iss
<1>1. s \in Sock /\ TxStream(s) /\ RxStream(h, s) /\ Numbers(h, s)
  BY DEF Whole, SockOK, Stream, Begun
<1>2. PlanOK(plan)
  BY TcpNetAssumption
<1>3. plan.writes[h] \in 0 .. IsnStep - 2 /\ plan.writes[Peer(h)] \in 0 .. IsnStep - 2
  BY <1>2, PeerHost DEF PlanOK
<1>4. /\ s.iss \in Int /\ s.irs \in Int /\ s.txo \in Int /\ s.rxi \in Int
      /\ s.tried \in Nat /\ s.wrote \in Nat /\ s.txq \in Seq(Int) /\ s.got \in Seq(Int)
  BY <1>1 DEF Sock
<1>5. Len(s.txq) \in Nat /\ Len(s.got) \in Nat
  BY <1>4
<1>6. /\ s.iss <= s.txo /\ s.tried <= Len(s.txq) /\ s.wrote = s.txo - s.iss + Len(s.txq)
      /\ s.rxi = s.irs + Len(s.got) /\ Len(s.got) <= plan.writes[Peer(h)]
  BY <1>1 DEF TxStream, RxStream
<1>7. PICK i \in Int, o \in Int, b \in Nat, w \in Nat, q \in Nat :
        /\ s.iss = i /\ s.txo = o /\ s.tried = b /\ s.wrote = w /\ Len(s.txq) = q
        /\ i <= o /\ b <= q /\ w = o - i + q
  BY <1>4, <1>5, <1>6, Zenon
<1>8. Trial(s) = o + b
  BY <1>7 DEF Trial
<1>9. /\ Trial(s) \in Int /\ Trial(s) = s.txo + s.tried
      /\ s.txo <= Trial(s) /\ Trial(s) <= s.iss + s.wrote
  BY <1>7, <1>8
<1>10. s.wrote <= IsnStep - 2
  <2>1. s.wrote <= plan.writes[h]
    BY DEF Whole
  <2> QED BY <1>3, <1>4, <2>1, StepSize
<1>11. s.irs <= s.rxi /\ s.rxi <= s.irs + (IsnStep - 2)
  <2>1. PICK most \in 0 .. IsnStep - 2 : plan.writes[Peer(h)] = most
    BY <1>3
  <2>2. PICK irs \in Int, n \in Nat : 
          s.irs = irs /\ Len(s.got) = n /\ s.rxi = irs + n /\ n <= plan.writes[Peer(h)]
    BY <1>4, <1>5, <1>6, Zenon
  <2>3. n <= most
    BY <2>1, <2>2
  <2> QED BY <2>1, <2>2, <2>3, StepSize
<1>12. s.state = "SYNR" => s.txo = s.iss
  BY <1>1 DEF Numbers
<1> QED BY <1>4, <1>6, <1>9, <1>10, <1>11, <1>12

(* What lies within the data of a connection belongs to that connection.   *)
LEMMA OfStart ==
  ASSUME plan \in Plans, NEW h \in Hosts, NEW s, Whole(h, s), s.irs # 0,
         NEW iss \in Isns(Peer(h)), NEW n \in Int, n = s.rxi, Near(n, iss)
  PROVE  s.irs = iss
<1>1. s.irs \in Int /\ s.rxi \in Int /\ s.irs <= s.rxi /\ s.rxi <= s.irs + (IsnStep - 2)
  BY WholeNumbers
<1>2. s.irs \in Isns(Peer(h))
  BY DEF Whole
<1>3. Near(n, s.irs)
  BY <1>1, StepSize DEF Near
<1> QED BY <1>2, <1>3, NearOne, PeerHost

(* A later connection has no number that one took before.                  *)
LEMMA BeforeNext ==
  ASSUME plan \in Plans, NEW h \in Hosts, NEW s, Whole(h, s), s.irs # 0,
         NEW iss \in Isns(Peer(h)), s.irs < iss
  PROVE  s.rxi + 1 < iss
<1>1. s.irs \in Int /\ s.rxi \in Int /\ s.irs <= s.rxi /\ s.rxi <= s.irs + (IsnStep - 2)
  BY WholeNumbers
<1>2. s.irs \in Isns(Peer(h)) /\ iss \in Int
  BY PeerHost, IsnsAreInts DEF Whole
<1>3. s.irs + IsnStep <= iss
  BY <1>2, IsnOrder, PeerHost
<1> QED BY <1>1, <1>2, <1>3, StepSize

-----------------------------------------------------------------------------
(* One of the two moves                                                    *)

Turn(h, s, seg, t) ==
  /\ Whole(h, s) /\ Whole(h, t)
  /\ Held(s, t) /\ TxStep(s, seg, t) /\ RxStep(s, seg, t) /\ StateStep(s, seg, t)

LEMMA SaysKinds ==
  ASSUME NEW t, NEW m, Says(t, m)
  PROVE  /\ m.data # <<>> => Plain(t, m)
         /\ "FIN" \in m.flags => Plain(t, m)
         /\ "SYN" \in m.flags => Syn(t, m) \/ SynAck(t, m)
         /\ Acks(m) => SynAck(t, m) \/ Plain(t, m)
BY DEF Says, Bare, Syn, SynAck, Plain, Acks

LEMMA PlainStates ==
  ASSUME NEW t, NEW m
  PROVE  /\ Plain(t, m) => t.state \in Talking /\ t.state \notin {"SYNS", "SYNR"} /\ "SYN" \notin m.flags
         /\ Syn(t, m) => t.state = "SYNS" /\ ~Acks(m)
         /\ SynAck(t, m) => t.state = "SYNR"
BY DEF Plain, Syn, SynAck, Talking, FinSent, Acks

LEMMA FinStays ==
  ASSUME plan \in Plans, NEW h \in Hosts, NEW s, NEW seg, NEW t, Turn(h, s, seg, t), NEW n, FinAt(s, n)
  PROVE  FinAt(t, n)
<1>1. s.iss # 0 /\ Placed(s) /\ Held(s, t) /\ StateStep(s, seg, t)
  BY DEF Turn, Whole, MoreOK
<1>2. s.state \notin Writing
  BY DEF FinAt
<1>3. t.state \notin Writing /\ Trial(t) = Trial(s) /\ (t.state = "LASTACK" => s.state = "LASTACK")
  BY <1>1, <1>2 DEF StateStep
<1>4. CASE n = Trial(s)
  BY <1>3, <1>4 DEF FinAt
<1>5. CASE n > s.iss + s.wrote /\ s.state # "LASTACK"
  <2>1. s.state \notin Writing \union {"LASTACK", "ARPS", "ARPR"}
    BY <1>1, <1>2, <1>5 DEF Placed
  <2>2. t.wrote = s.wrote /\ t.iss = s.iss
    BY <1>1, <2>1 DEF StateStep, Held
  <2> QED BY <1>3, <1>5, <2>2 DEF FinAt
<1> QED BY <1>4, <1>5 DEF FinAt

(* More is sent.                                                           *)
LEMMA SendsOn ==
  ASSUME NEW s, NEW t, t.iss = s.iss, s.iss \in Int, s.wrote \in Int, t.wrote \in Int,
         s.wrote <= t.wrote, \A n : FinAt(s, n) => FinAt(t, n),
         NEW out, Sends(s, out), out \subseteq Seg,
         NEW out2, \A m \in out2 : m \in out \/ Says(t, m)
  PROVE  Sends(t, out2)
<1>1. SUFFICES ASSUME NEW m \in out2, Near(m.seq, t.iss)
               PROVE  /\ m.data # <<>> => m.seq + Len(m.data) <= t.iss + t.wrote
                      /\ "FIN" \in m.flags => FinAt(t, m.seq)
  BY DEF Sends
<1>2. CASE m \in out
  <2>1. /\ m.data # <<>> => m.seq + Len(m.data) <= s.iss + s.wrote
        /\ "FIN" \in m.flags => FinAt(s, m.seq)
    BY <1>1, <1>2 DEF Sends
  <2>2. m.seq \in Int /\ Len(m.data) \in Nat
    BY <1>2 DEF Seg
  <2>3. PICK q \in Int, n \in Nat, i \in Int, w \in Int, v \in Int :
          m.seq = q /\ Len(m.data) = n /\ s.iss = i /\ s.wrote = w /\ t.wrote = v /\ w <= v /\ t.iss = i
    BY <2>2, Zenon
  <2>4. m.data # <<>> => q + n <= i + w
    BY <2>1, <2>3
  <2> QED BY <2>1, <2>3, <2>4
<1>3. CASE Says(t, m)
  BY <1>3, SaysKinds DEF Plain
<1> QED BY <1>1, <1>2, <1>3

LEMMA NewDataNear ==
  ASSUME plan \in Plans, NEW h \in Hosts, NEW t, Whole(h, t), t.irs # 0, NEW seg, Arriving(h, seg),
         NEW u, u.rxi \in Int, RxStep(t, seg, u), u.rxi # t.rxi
  PROVE  Near(seg.seq, t.irs) /\ seg.data # <<>> /\ u.rxi <= seg.seq + Len(seg.data)
<1>1. /\ seg.data # <<>> /\ seg.seq <= t.rxi /\ t.rxi < u.rxi
      /\ u.rxi <= seg.seq + Len(seg.data)
  BY DEF RxStep
<1>2. SegOK(Peer(h), seg, plan.writes[Peer(h)]) /\ Peer(h) \in Hosts
  BY PeerHost DEF Arriving
<1>3. PICK iss \in Isns(Peer(h)) : 
        iss <= seg.seq /\ seg.seq - iss + Len(seg.data) <= plan.writes[Peer(h)]
  BY <1>1, <1>2 DEF SegOK, DataOK
<1>4. plan.writes[Peer(h)] \in Nat /\ plan.writes[Peer(h)] < IsnStep
  BY <1>2, PlanFacts
<1>5. seg.seq \in Int /\ Len(seg.data) \in Nat /\ iss \in Int
  BY <1>2, IsnsAreInts DEF SegOK, Seg
<1>6. t.irs \in Int /\ t.rxi \in Int /\ t.irs <= t.rxi /\ t.rxi <= t.irs + (IsnStep - 2)
  BY WholeNumbers
<1>7. PICK q \in Int, n \in Nat, w \in Nat, a \in Int, x \in Int :
        /\ seg.seq = q /\ Len(seg.data) = n /\ plan.writes[Peer(h)] = w /\ t.irs = a /\ t.rxi = x
        /\ w < IsnStep
  BY <1>4, <1>5, <1>6, Zenon
<1>8. iss <= q /\ q + n < iss + IsnStep /\ q <= x /\ a <= x /\ x <= a + (IsnStep - 2)
  BY <1>3, <1>5, <1>6, <1>1, <1>7, StepSize
<1>9. x < q + n
  <2>1. x < u.rxi /\ u.rxi <= q + n
    BY <1>1, <1>7
  <2> QED BY <2>1
<1>10. a \in Isns(Peer(h))
  BY <1>7 DEF Whole
<1>11. a = iss
  <2>1. a - iss < IsnStep /\ iss - a < IsnStep
    BY <1>5, <1>8, <1>9, StepSize
  <2> QED BY <1>2, <1>10, <2>1, IsnsApart
<1>12. Near(q, a)
  BY <1>5, <1>8, <1>11, StepSize DEF Near
<1> QED BY <1>1, <1>7, <1>12

Got(seg, in) == seg \in in \/ seg = NoSeg

LEMMA NoSegEmpty == NoSeg.data = <<>> /\ "FIN" \notin NoSeg.flags /\ ~Acks(NoSeg)
BY DEF NoSeg, Segment, Acks

LEMMA TakesSender ==
  ASSUME plan \in Plans, NEW h \in Hosts, NEW s, NEW seg, NEW s2, Turn(h, s, seg, s2), 
         NEW t, Whole(Peer(h), t), Takes(s, t)
  PROVE  Takes(s2, t)
<1>1. Held(s, s2) /\ StateStep(s, seg, s2) /\ Whole(h, s) /\ Whole(h, s2)
  BY DEF Turn
<1>2. /\ s.iss \in Int /\ s.wrote \in Int /\ s2.wrote \in Int /\ s2.iss = s.iss /\ s.wrote <= s2.wrote
      /\ t.rxi \in Int
  BY <1>1, WholeNumbers, PeerHost DEF Held
<1>3. SUFFICES ASSUME t.irs = s2.iss
               PROVE  /\ t.rxi <= s2.iss + s2.wrote
                      /\ t.state \in FinRcvd => s2.state \notin Writing /\ t.rxi = Trial(s2)
  BY DEF Takes
<1>4. /\ t.rxi <= s.iss + s.wrote
      /\ t.state \in FinRcvd => s.state \notin Writing /\ t.rxi = Trial(s)
  BY <1>2, <1>3 DEF Takes
<1>5. t.rxi <= s2.iss + s2.wrote
  BY <1>2, <1>4
<1> QED BY <1>1, <1>4, <1>5 DEF StateStep

LEMMA TakesReceiver ==
  ASSUME plan \in Plans, NEW h \in Hosts, NEW t, NEW seg, NEW u, Turn(h, t, seg, u), Arriving(h, seg),
         NEW s, Whole(Peer(h), s), NEW in, Got(seg, in), Sends(s, in), Takes(s, t)
  PROVE  Takes(s, u)
<1>1. /\ Held(t, u) /\ RxStep(t, seg, u) /\ StateStep(t, seg, u) /\ Whole(h, t) /\ Whole(h, u)
      /\ Peer(h) \in Hosts
  BY PeerHost DEF Turn
<1>2. SUFFICES ASSUME u.irs = s.iss
               PROVE  /\ u.rxi <= s.iss + s.wrote
                      /\ u.state \in FinRcvd => s.state \notin Writing /\ u.rxi = Trial(s)
  BY DEF Takes
<1>3. t.irs = s.iss /\ t.irs # 0
  BY <1>1, <1>2 DEF Held, Whole
<1>4. /\ s.iss \in Int /\ s.wrote \in Int /\ t.rxi \in Int /\ u.rxi \in Int
      /\ t.irs <= t.rxi /\ t.rxi <= t.irs + (IsnStep - 2)
  BY <1>1, WholeNumbers
<1>5. /\ t.rxi <= s.iss + s.wrote
      /\ t.state \in FinRcvd => s.state \notin Writing /\ t.rxi = Trial(s)
  BY <1>3 DEF Takes
<1>6. u.rxi <= s.iss + s.wrote
  <2>1. CASE u.rxi = t.rxi
    BY <1>5, <2>1
  <2>2. CASE u.rxi # t.rxi
    <3>1. Near(seg.seq, t.irs) /\ seg.data # <<>> /\ u.rxi <= seg.seq + Len(seg.data)
      BY <1>1, <1>3, <1>4, <2>2, NewDataNear
    <3>2. seg \in in
      BY <3>1, NoSegEmpty DEF Got
    <3>3. seg.seq + Len(seg.data) <= s.iss + s.wrote
      BY <1>3, <3>1, <3>2 DEF Sends
    <3>4. seg.seq \in Int /\ Len(seg.data) \in Nat
      BY DEF Arriving, SegOK, Seg
    <3> QED BY <1>4, <3>1, <3>3, <3>4
  <2> QED BY <2>1, <2>2
<1>7. ASSUME u.state \in FinRcvd
      PROVE  s.state \notin Writing /\ u.rxi = Trial(s)
  <2>1. u.rxi = t.rxi /\ (t.state \in FinRcvd \/ ("FIN" \in seg.flags /\ seg.seq = t.rxi))
    BY <1>1, <1>7 DEF StateStep
  <2>2. CASE t.state \in FinRcvd
    BY <1>5, <2>1, <2>2
  <2>3. CASE "FIN" \in seg.flags /\ seg.seq = t.rxi
    <3>1. Near(seg.seq, s.iss)
      BY <1>3, <1>4, <2>3, StepSize DEF Near
    <3>2. seg \in in
      BY <2>3, NoSegEmpty DEF Got
    <3>3. FinAt(s, t.rxi)
      BY <2>3, <3>1, <3>2 DEF Sends
    <3> QED BY <1>4, <1>5, <2>1, <3>3 DEF FinAt
  <2> QED BY <2>1, <2>2, <2>3
<1> QED BY <1>6, <1>7

LEMMA SureSender ==
  ASSUME plan \in Plans, NEW h \in Hosts, NEW s, NEW seg, NEW s2, Turn(h, s, seg, s2), 
         NEW t, Whole(Peer(h), t), NEW back, Got(seg, back), Sure(s, t, back),
         NEW back2, back2 \subseteq back
  PROVE  Sure(s2, t, back2)
<1>1. TxStep(s, seg, s2) /\ StateStep(s, seg, s2) /\ Whole(h, s) /\ Whole(h, s2)
  BY DEF Turn
<1>2. s2.txo \in Int /\ t.rxi \in Int /\ Trial(s) \in Int
  BY <1>1, WholeNumbers, PeerHost
<1>3. \A m \in back : Acks(m) => AckAt(s, t, m.ack)
  BY DEF Sure
<1>4. ASSUME NEW m \in back2, Acks(m)
      PROVE  AckAt(s2, t, m.ack)
  <2>1. AckAt(s, t, m.ack)
    BY <1>3, <1>4
  <2>2. s.state \notin Writing => s2.state \notin Writing /\ Trial(s2) = Trial(s)
    BY <1>1 DEF StateStep
  <2> QED BY <2>1, <2>2 DEF AckAt
<1>5. s2.txo <= t.rxi
  <2>1. CASE s2.txo = s.txo
    BY <2>1 DEF Sure
  <2>2. CASE Acks(seg) /\ s2.txo = seg.ack /\ s2.txo <= Trial(s)
    <3>1. AckAt(s, t, s2.txo)
      BY <1>3, <2>2, NoSegEmpty DEF Got
    <3> QED BY <1>2, <2>2, <3>1 DEF AckAt
  <2> QED BY <1>1, <2>1, <2>2 DEF TxStep
<1> QED BY <1>4, <1>5 DEF Sure

LEMMA SureReceiver ==
  ASSUME plan \in Plans, NEW h \in Hosts, NEW t, NEW seg, NEW u, Turn(h, t, seg, u),
         NEW s, Whole(Peer(h), s), u.irs = s.iss, Takes(s, u),
         NEW back, back \subseteq Seg, Sure(s, t, back),
         NEW back2, \A m \in back2 : m \in back \/ Says(u, m)
  PROVE  Sure(s, u, back2)
<1>1. RxStep(t, seg, u) /\ Whole(h, t) /\ Whole(h, u)
  BY DEF Turn
<1>2. s.txo \in Int /\ t.rxi \in Int /\ u.rxi \in Int
  BY <1>1, WholeNumbers, PeerHost
<1>3. t.rxi <= u.rxi
  BY <1>1, <1>2 DEF RxStep
<1>4. s.txo <= u.rxi
  BY <1>2, <1>3 DEF Sure
<1>5. ASSUME NEW m \in back2, Acks(m)
      PROVE  AckAt(s, u, m.ack)
  <2>1. CASE m \in back
    <3>1. AckAt(s, t, m.ack) /\ m.ack \in Int
      BY <1>5, <2>1 DEF Sure, Seg
    <3> QED BY <1>2, <1>3, <3>1 DEF AckAt
  <2>2. CASE Says(u, m)
    <3>1. m.ack = u.rxi \/ (m.ack = u.rxi + 1 /\ u.state \in FinRcvd)
      BY <1>5, <2>2, SaysKinds DEF SynAck, Plain
    <3>2. u.state \in FinRcvd => s.state \notin Writing /\ u.rxi = Trial(s)
      BY DEF Takes
    <3> QED BY <1>2, <3>1, <3>2 DEF AckAt
  <2> QED BY <1>5, <2>1, <2>2
<1> QED BY <1>4, <1>5 DEF Sure

-----------------------------------------------------------------------------
(* The server's socket moves                                               *)

LEMMA TwoHosts == S \in Hosts /\ C \in Hosts /\ Peer(S) = C /\ Peer(C) = S /\ S # C
BY DEF Hosts, Peer, C, S

(* Only the client sends a SYN, only the server a SYN+ACK.                 *)
LEMMA ServerSays ==
  ASSUME NEW y, MoreOK(S, y), NEW m, Says(y, m)
  PROVE  /\ "SYN" \in m.flags => SynAck(y, m)
         /\ Acks(m) => m.ack = y.rxi \/ (m.ack = y.rxi + 1 /\ y.state \in FinRcvd)
<1>1. y.state # "SYNS"
  BY TwoHosts DEF MoreOK, Remembers
<1>2. "SYN" \in m.flags => SynAck(y, m)
  BY <1>1, SaysKinds, PlainStates
<1>3. Acks(m) => m.ack = y.rxi \/ (m.ack = y.rxi + 1 /\ y.state \in FinRcvd)
  BY SaysKinds DEF SynAck, Plain
<1> QED BY <1>2, <1>3

LEMMA ClientSays ==
  ASSUME NEW x, MoreOK(C, x), NEW m, Says(x, m)
  PROVE  /\ "SYN" \in m.flags => Syn(x, m)
         /\ Acks(m) => Plain(x, m)
<1>1. x.state # "SYNR"
  BY TwoHosts DEF MoreOK, Remembers
<1> QED BY <1>1, SaysKinds, PlainStates

LEMMA ServerKept ==
  ASSUME plan \in Plans, NEW y, NEW seg, NEW y2, Turn(S, y, seg, y2), 
         NEW nc, nc \subseteq Seg, ServerOK(y, nc),
         NEW nc2, \A m \in nc2 : m \in nc \/ Says(y2, m)
  PROVE  ServerOK(y2, nc2)
<1>1. Held(y, y2) /\ Whole(S, y) /\ Whole(S, y2)
  BY DEF Turn
<1>2. y.iss \in Int /\ y.wrote \in Int /\ y2.wrote \in Int /\ y2.iss = y.iss /\ y.wrote <= y2.wrote
  BY <1>1, WholeNumbers, TwoHosts DEF Held
<1>3. \A n : FinAt(y, n) => FinAt(y2, n)
  BY FinStays, TwoHosts
<1>4. Sends(y2, nc2)
  BY <1>2, <1>3, SendsOn DEF ServerOK
<1>5. ASSUME NEW m \in nc2, "SYN" \in m.flags
      PROVE  m.seq + 1 <= y2.iss
  <2>1. CASE m \in nc
    BY <1>2, <1>5, <2>1 DEF ServerOK
  <2>2. CASE Says(y2, m)
    <3>1. m.seq + 1 = y2.iss
      BY <1>1, <1>5, <2>2, ServerSays DEF Whole, SynAck
    <3> QED BY <1>2, <3>1
  <2> QED BY <1>5, <2>1, <2>2
<1> QED BY <1>4, <1>5 DEF ServerOK

LEMMA ServerLink ==
  ASSUME plan \in Plans, NEW y, NEW seg, NEW y2, Turn(S, y, seg, y2), Arriving(S, seg),
         NEW x, Whole(C, x), NEW nc, NEW ns, nc \subseteq Seg, ns \subseteq Seg, Got(seg, ns),
         Link(x, y, nc, ns), ClientOK(x, nc, ns), ServerOK(y, nc),
         NEW nc2, \A m \in nc2 : m \in nc \/ Says(y2, m), NEW ns2, ns2 \subseteq ns
  PROVE  Link(x, y2, nc2, ns2)
<1>1. /\ Held(y, y2) /\ TxStep(y, seg, y2) /\ RxStep(y, seg, y2) /\ StateStep(y, seg, y2)
      /\ Whole(S, y) /\ Whole(S, y2)
  BY DEF Turn
<1>2. /\ y.iss \in Int /\ y.irs \in Int /\ y.txo \in Int /\ y.rxi \in Int /\ y2.rxi \in Int /\ y2.txo \in Int
      /\ y.irs <= y2.rxi /\ y2.rxi <= y.irs + (IsnStep - 2) /\ x.irs \in Int /\ x.iss \in Int
      /\ y2.iss = y.iss /\ y2.irs = y.irs /\ y.irs # 0 /\ y2.irs # 0
      /\ x.iss \in Isns(C) /\ y.irs \in Isns(C)
  BY <1>1, WholeNumbers, TwoHosts DEF Held, Whole
<1>3. /\ x.irs <= y.iss /\ y.irs <= x.iss
      /\ x.irs = y.iss => y.irs = x.iss
  BY DEF Link
<1>4. ASSUME NEW m \in nc2, "SYN" \in m.flags, m.ack = x.iss
      PROVE  m \in nc \/ y.irs = x.iss
  <2>1. CASE Says(y2, m)
    <3>1. y2.rxi = x.iss
      BY <1>1, <1>4, <2>1, ServerSays DEF Whole, SynAck
    <3>2. Near(x.iss, x.iss)
      BY <1>2, StepSize DEF Near
    <3> QED BY <1>1, <1>2, <3>1, <3>2, OfStart, TwoHosts
  <2> QED BY <1>4, <2>1
<1>5. \A m \in nc2 : "SYN" \in m.flags /\ m.ack = x.iss /\ m.seq + 1 = y2.iss => y2.irs = x.iss
  <2>1. \A m \in nc : "SYN" \in m.flags /\ m.ack = x.iss /\ m.seq + 1 = y.iss => y.irs = x.iss
    BY DEF Link
  <2> QED BY <1>2, <1>4, <2>1
<1>6. Takes(x, y2)
  <2>1. Takes(x, y) /\ Sends(x, ns)
    BY DEF Link, ClientOK
  <2> QED BY <2>1, TakesReceiver, TwoHosts
<1>7. Takes(y2, x)
  <2>1. Takes(y, x)
    BY DEF Link
  <2> QED BY <2>1, TakesSender, TwoHosts
<1>8. ASSUME x.irs = y2.iss
      PROVE  Sure(x, y2, nc2) /\ Sure(y2, x, ns2)
  <2>1. Sure(x, y, nc) /\ Sure(y, x, ns) /\ y2.irs = x.iss
    BY <1>2, <1>3, <1>8 DEF Link
  <2>2. Sure(x, y2, nc2)
    BY <1>6, <2>1, SureReceiver, TwoHosts
  <2>3. Sure(y2, x, ns2)
    BY <2>1, SureSender, TwoHosts
  <2> QED BY <2>2, <2>3
<1>9. ASSUME x.state = "SYNS", y2.irs = x.iss
      PROVE  y2.rxi = x.iss
  <2>1. y.rxi = x.iss
    BY <1>2, <1>9 DEF Link
  <2>2. ASSUME y2.rxi # y.rxi PROVE FALSE
    <3>1. Near(seg.seq, y.irs) /\ seg.data # <<>>
      BY <1>1, <1>2, <2>2, NewDataNear, TwoHosts
    <3>2. seg \in ns
      BY <3>1, NoSegEmpty DEF Got
    <3> QED BY <1>2, <1>9, <3>1, <3>2 DEF ClientOK
  <2> QED BY <2>1, <2>2
<1>10. ASSUME y2.irs = x.iss
       PROVE  /\ \A g \in ns2 : Acks(g) => g.ack < y2.iss \/ (x.irs = y2.iss /\ Near(g.seq, x.iss))
              /\ x.irs # y2.iss => y2.txo = y2.iss
  <2>1. /\ \A g \in ns : Acks(g) => g.ack < y.iss \/ (x.irs = y.iss /\ Near(g.seq, x.iss))
        /\ x.irs # y.iss => y.txo = y.iss
    BY <1>2, <1>10 DEF Link
  <2>2. ASSUME x.irs # y2.iss PROVE y2.txo = y2.iss
    <3>1. y.txo = y.iss
      BY <1>2, <2>1, <2>2
    <3>2. ASSUME y2.txo # y.txo PROVE FALSE
      <4>1. Acks(seg) /\ y2.txo = seg.ack /\ y.txo <= y2.txo
        BY <1>1, <3>2 DEF TxStep
      <4>2. seg \in ns
        BY <4>1, NoSegEmpty DEF Got
      <4>3. y2.txo < y.iss
        BY <1>2, <2>1, <2>2, <4>1, <4>2
      <4> QED BY <1>2, <3>1, <4>1, <4>3
    <3> QED BY <1>2, <3>1, <3>2
  <2> QED BY <1>2, <2>1, <2>2
<1>11. ASSUME y2.state = "EST"
       PROVE  IF y2.irs = x.iss THEN x.irs = y2.iss
              ELSE x.irs = 0 /\ \A m \in nc2 : "SYN" \in m.flags => m.ack # x.iss
  <2>1. ASSUME NEW m \in nc2, "SYN" \in m.flags
        PROVE  m \in nc
    <3>1. CASE Says(y2, m)
      BY <1>1, <1>11, <2>1, <3>1, ServerSays DEF Whole, SynAck
    <3> QED BY <2>1, <3>1
  <2>2. CASE y.state = "EST"
    <3>1. IF y.irs = x.iss THEN x.irs = y.iss
          ELSE x.irs = 0 /\ \A m \in nc : "SYN" \in m.flags => m.ack # x.iss
      BY <2>2 DEF Link
    <3> QED BY <1>2, <2>1, <3>1
  <2>3. CASE y.state = "SYNR" /\ Acks(seg) /\ seg.ack = y.txo /\ seg.seq = y2.rxi
    <3>1. seg \in ns
      BY <2>3, NoSegEmpty DEF Got
    <3>2. seg.ack = y.iss
      BY <1>1, <2>3, WholeNumbers, TwoHosts
    <3>3. CASE y.irs = x.iss
      <4>1. seg.ack < y.iss \/ x.irs = y.iss
        BY <2>3, <3>1, <3>3 DEF Link
      <4> QED BY <1>2, <3>2, <3>3, <4>1
    <3>4. CASE y.irs # x.iss
      <4>1. ~Near(seg.seq, x.iss)
        <5>1. CASE Near(seg.seq, x.iss)
          <6>1. y2.irs = x.iss
            BY <1>1, <1>2, <2>3, <5>1, OfStart, TwoHosts
          <6> QED BY <1>2, <3>4, <6>1
        <5> QED BY <5>1
      <4>2. /\ \A m \in nc : "SYN" \in m.flags /\ m.ack = x.iss => m.seq + 1 > y.iss
            /\ x.irs # 0 => x.irs > y.iss
        BY <2>3, <3>1, <3>2, <4>1 DEF ClientOK
      <4>3. x.irs = 0
        BY <1>2, <1>3, <4>2
      <4>4. ASSUME NEW m \in nc, "SYN" \in m.flags
            PROVE  m.ack # x.iss
        <5>1. m.seq + 1 <= y.iss /\ m.seq \in Int
          BY <4>4 DEF ServerOK, Seg
        <5> QED BY <1>2, <4>2, <4>4, <5>1
      <4> QED BY <1>2, <2>1, <3>4, <4>3, <4>4
    <3> QED BY <3>3, <3>4
  <2> QED BY <1>1, <1>11, <2>2, <2>3 DEF StateStep
<1> QED BY <1>2, <1>3, <1>5, <1>6, <1>7, <1>8, <1>9, <1>10, <1>11 DEF Link

LEMMA ServerClient ==
  ASSUME plan \in Plans, NEW y, NEW seg, NEW y2, Turn(S, y, seg, y2),
         NEW x, Whole(C, x), NEW nc, NEW ns, ns \subseteq Seg,
         Link(x, y, nc, ns), ClientOK(x, nc, ns),
         NEW nc2, \A m \in nc2 : m \in nc \/ Says(y2, m), NEW ns2, ns2 \subseteq ns,
         Link(x, y2, nc2, ns2)
  PROVE  ClientOK(x, nc2, ns2)
<1>1. Held(y, y2) /\ Whole(S, y) /\ Whole(S, y2)
  BY DEF Turn
<1>2. /\ y.iss \in Int /\ y2.irs \in Int /\ y2.rxi \in Int /\ x.iss \in Int
      /\ y2.iss = y.iss /\ y2.irs = y.irs /\ y2.irs # 0 /\ x.iss \in Isns(C)
  BY <1>1, WholeNumbers, TwoHosts DEF Held, Whole
<1>3. Sends(x, ns2)
  <2>1. Sends(x, ns)
    BY DEF ClientOK
  <2> QED BY <2>1 DEF Sends
<1>4. \A m \in ns2 : "SYN" \in m.flags => m.seq + 1 <= x.iss
  BY DEF ClientOK
<1>5. ASSUME x.state = "SYNS"
      PROVE  /\ \A m \in ns2 : m.data # <<>> => ~Near(m.seq, x.iss)
             /\ \A m \in nc2 : Acks(m) => m.ack <= x.iss
  <2>1. \A m \in ns2 : m.data # <<>> => ~Near(m.seq, x.iss)
    BY <1>5 DEF ClientOK
  <2>2. ASSUME NEW m \in nc2, Acks(m), Says(y2, m)
        PROVE  m.ack <= x.iss
    <3>1. m.ack = y2.rxi \/ (m.ack = y2.rxi + 1 /\ y2.state \in FinRcvd)
      BY <1>1, <2>2, ServerSays DEF Whole
    <3>2. CASE y2.irs = x.iss
      <4>1. y2.rxi = x.iss
        BY <1>5, <3>2 DEF Link
      <4>2. y2.state \notin FinRcvd
        BY <1>5, <3>2 DEF Link, Takes, Writing
      <4> QED BY <1>2, <3>1, <4>1, <4>2
    <3>3. CASE y2.irs # x.iss
      <4>1. y2.irs < x.iss
        BY <1>2, <3>3 DEF Link
      <4>2. y2.rxi + 1 < x.iss
        BY <1>1, <1>2, <4>1, BeforeNext, TwoHosts
      <4> QED BY <1>2, <3>1, <4>2
    <3> QED BY <3>2, <3>3
  <2>3. \A m \in nc : Acks(m) => m.ack <= x.iss
    BY <1>5 DEF ClientOK
  <2> QED BY <2>1, <2>2, <2>3
<1>6. ASSUME NEW g \in ns2, Acks(g), ~Near(g.seq, x.iss)
      PROVE  /\ \A m \in nc2 : "SYN" \in m.flags /\ m.ack = x.iss => m.seq + 1 > g.ack
             /\ x.irs # 0 => x.irs > g.ack
  <2>1. /\ \A m \in nc : "SYN" \in m.flags /\ m.ack = x.iss => m.seq + 1 > g.ack
        /\ x.irs # 0 => x.irs > g.ack
    BY <1>6 DEF ClientOK
  <2>2. ASSUME NEW m \in nc2, "SYN" \in m.flags, m.ack = x.iss, Says(y2, m)
        PROVE  m.seq + 1 > g.ack
    <3>1. m.ack = y2.rxi /\ m.seq + 1 = y2.iss
      BY <1>1, <2>2, ServerSays DEF Whole, SynAck
    <3>2. Near(x.iss, x.iss)
      BY <1>2, StepSize DEF Near
    <3>3. y2.irs = x.iss
      BY <1>1, <1>2, <2>2, <3>1, <3>2, OfStart, TwoHosts
    <3>4. g.ack < y.iss /\ g.ack \in Int
      <4>1. g \in ns
        OBVIOUS
      <4>2. g.ack < y.iss \/ Near(g.seq, x.iss)
        BY <1>2, <1>6, <3>3, <4>1 DEF Link
      <4> QED BY <1>6, <4>1, <4>2 DEF Seg
    <3> QED BY <1>2, <3>1, <3>4
  <2> QED BY <2>1, <2>2
<1> QED BY <1>3, <1>4, <1>5, <1>6 DEF ClientOK

-----------------------------------------------------------------------------
(* The client's socket moves                                               *)

LEMMA PlainNear ==
  ASSUME plan \in Plans, NEW h \in Hosts, NEW t, Whole(h, t), NEW m, Plain(t, m), m.seq \in Int
  PROVE  Near(m.seq, t.iss)
<1>1. t.iss \in Int /\ t.wrote \in Int /\ t.wrote <= IsnStep - 2
  BY WholeNumbers
<1>2. t.iss <= m.seq /\ m.seq <= t.iss + t.wrote + 1
  BY DEF Plain
<1>3. m.seq < t.iss + IsnStep
  BY <1>1, <1>2, StepSize
<1> QED BY <1>2, <1>3 DEF Near

LEMMA ClientKept ==
  ASSUME plan \in Plans, NEW x, NEW seg, NEW x2, Turn(C, x, seg, x2), 
         NEW nc, NEW ns, ns \subseteq Seg, ClientOK(x, nc, ns),
         NEW nc2, nc2 \subseteq nc, NEW ns2, \A m \in ns2 : m \in ns \/ Says(x2, m), ns2 \subseteq Seg
  PROVE  ClientOK(x2, nc2, ns2)
<1>1. Held(x, x2) /\ StateStep(x, seg, x2) /\ Whole(C, x) /\ Whole(C, x2)
  BY DEF Turn
<1>2. /\ x.iss \in Int /\ x.wrote \in Int /\ x2.wrote \in Int /\ x2.wrote <= IsnStep - 2
      /\ x2.iss = x.iss /\ x2.irs = x.irs /\ x.wrote <= x2.wrote
  BY <1>1, WholeNumbers, TwoHosts DEF Held
<1>3. \A n : FinAt(x, n) => FinAt(x2, n)
  BY FinStays, TwoHosts
<1>4. Sends(x2, ns2)
  BY <1>2, <1>3, SendsOn DEF ClientOK
<1>5. ASSUME NEW m \in ns2, "SYN" \in m.flags
      PROVE  m.seq + 1 <= x2.iss
  <2>1. CASE m \in ns
    BY <1>2, <1>5, <2>1 DEF ClientOK
  <2>2. CASE Says(x2, m)
    <3>1. m.seq + 1 = x2.iss
      BY <1>1, <1>5, <2>2, ClientSays DEF Whole, Syn
    <3> QED BY <1>2, <3>1
  <2> QED BY <1>5, <2>1, <2>2
<1>6. ASSUME x2.state = "SYNS"
      PROVE  /\ \A m \in ns2 : m.data # <<>> => ~Near(m.seq, x2.iss)
             /\ \A m \in nc2 : Acks(m) => m.ack <= x2.iss
  <2>1. x.state = "SYNS"
    BY <1>1, <1>6 DEF StateStep
  <2>2. /\ \A m \in ns : m.data # <<>> => ~Near(m.seq, x.iss)
        /\ \A m \in nc : Acks(m) => m.ack <= x.iss
    BY <2>1 DEF ClientOK
  <2>3. \A m \in ns2 : m.data # <<>> => m \in ns
    BY <1>6, SaysKinds, PlainStates
  <2> QED BY <1>2, <2>2, <2>3
<1>7. ASSUME NEW g \in ns2, Acks(g), ~Near(g.seq, x2.iss)
      PROVE  /\ \A m \in nc2 : "SYN" \in m.flags /\ m.ack = x2.iss => m.seq + 1 > g.ack
             /\ x2.irs # 0 => x2.irs > g.ack
  <2>1. CASE Says(x2, g)
    <3>1. Plain(x2, g)
      BY <1>1, <1>7, <2>1, ClientSays DEF Whole
    <3>2. Near(g.seq, x2.iss)
      <4>1. g.seq \in Int
        BY DEF Seg
      <4> QED BY <1>1, <3>1, <4>1, PlainNear, TwoHosts
    <3> QED BY <1>7, <3>2
  <2>2. CASE g \in ns
    BY <1>2, <1>7, <2>2 DEF ClientOK
  <2> QED BY <1>7, <2>1, <2>2
<1> QED BY <1>4, <1>5, <1>6, <1>7 DEF ClientOK

LEMMA ClientLink ==
  ASSUME plan \in Plans, NEW x, NEW seg, NEW x2, Turn(C, x, seg, x2), Arriving(C, seg),
         NEW y, Whole(S, y), NEW nc, NEW ns, nc \subseteq Seg, ns \subseteq Seg, Got(seg, nc),
         Link(x, y, nc, ns), ServerOK(y, nc),
         NEW nc2, nc2 \subseteq nc, NEW ns2, \A m \in ns2 : m \in ns \/ Says(x2, m), ns2 \subseteq Seg
  PROVE  Link(x2, y, nc2, ns2)
<1>1. /\ Held(x, x2) /\ TxStep(x, seg, x2) /\ RxStep(x, seg, x2) /\ StateStep(x, seg, x2)
      /\ Whole(C, x) /\ Whole(C, x2)
  BY DEF Turn
<1>2. /\ y.iss \in Int /\ y.iss \in Isns(S) /\ y.irs \in Int /\ y.rxi \in Int
      /\ x.irs \in Int /\ x.iss \in Int /\ x2.rxi \in Int
      /\ x2.iss = x.iss /\ x2.irs = x.irs 
  BY <1>1, WholeNumbers, TwoHosts DEF Held, Whole
<1>3. /\ x.irs <= y.iss /\ y.irs <= x.iss
      /\ x.irs = y.iss => y.irs = x.iss
      /\ \A m \in nc : "SYN" \in m.flags /\ m.ack = x.iss /\ m.seq + 1 = y.iss => y.irs = x.iss
  BY DEF Link
<1>4. Takes(y, x2)
  <2>1. Takes(y, x) /\ Sends(y, nc)
    BY DEF Link, ServerOK
  <2> QED BY <2>1, TakesReceiver, TwoHosts
<1>5. Takes(x2, y)
  <2>1. Takes(x, y)
    BY DEF Link
  <2> QED BY <2>1, TakesSender, TwoHosts
<1>6. ASSUME x2.irs = y.iss
      PROVE  Sure(x2, y, nc2) /\ Sure(y, x2, ns2)
  <2>1. Sure(x, y, nc) /\ Sure(y, x, ns)
    BY <1>2, <1>6 DEF Link
  <2>2. Sure(x2, y, nc2)
    BY <2>1, SureSender, TwoHosts
  <2>3. Sure(y, x2, ns2)
    BY <1>4, <1>6, <2>1, SureReceiver, TwoHosts
  <2> QED BY <2>2, <2>3
<1>7. ASSUME x2.state = "SYNS", y.irs = x2.iss
      PROVE  y.rxi = x2.iss
  <2>1. x.state = "SYNS"
    BY <1>1, <1>7 DEF StateStep
  <2> QED BY <1>2, <1>7, <2>1 DEF Link
<1>8. ASSUME y.irs = x2.iss
      PROVE  /\ \A g \in ns2 : Acks(g) => g.ack < y.iss \/ (x2.irs = y.iss /\ Near(g.seq, x2.iss))
             /\ x2.irs # y.iss => y.txo = y.iss
  <2>1. /\ \A g \in ns : Acks(g) => g.ack < y.iss \/ (x.irs = y.iss /\ Near(g.seq, x.iss))
        /\ x.irs # y.iss => y.txo = y.iss
    BY <1>2, <1>8 DEF Link
  <2>2. ASSUME NEW g \in ns2, Acks(g), Says(x2, g)
        PROVE  g.ack < y.iss \/ (x2.irs = y.iss /\ Near(g.seq, x2.iss))
    <3>1. Plain(x2, g)
      BY <1>1, <2>2, ClientSays DEF Whole
    <3>2. CASE x2.irs = y.iss
      <4>1. g.seq \in Int
        BY DEF Seg
      <4>2. Near(g.seq, x2.iss)
        BY <1>1, <3>1, <4>1, PlainNear, TwoHosts
      <4> QED BY <3>2, <4>2
    <3>3. CASE x2.irs # y.iss
      <4>1. x2.irs # 0
        <5>1. x2.state \notin {"CLOSED", "ARPS", "ARPR", "SYNS"}
          BY <3>1 DEF Plain, Talking, FinSent
        <5>2. x2.irs \in Isns(S)
          BY <1>1, <5>1, TwoHosts DEF Whole, SockOK, Begun, Numbers
        <5> QED BY <5>2, IsnsPositive, TwoHosts
      <4>2. x2.irs < y.iss
        BY <1>2, <1>3, <3>3
      <4>3. x2.rxi + 1 < y.iss
        BY <1>1, <1>2, <4>1, <4>2, BeforeNext, TwoHosts
      <4>4. g.ack = x2.rxi \/ g.ack = x2.rxi + 1
        BY <3>1 DEF Plain
      <4> QED BY <1>2, <4>3, <4>4
    <3> QED BY <3>2, <3>3
  <2> QED BY <1>2, <2>1, <2>2
<1>9. ASSUME y.state = "EST"
      PROVE  IF y.irs = x2.iss THEN x2.irs = y.iss
             ELSE x2.irs = 0 /\ \A m \in nc2 : "SYN" \in m.flags => m.ack # x2.iss
  <2>1. IF y.irs = x.iss THEN x.irs = y.iss
        ELSE x.irs = 0 /\ \A m \in nc : "SYN" \in m.flags => m.ack # x.iss
    BY <1>9 DEF Link
  <2> QED BY <1>2, <2>1
<1> QED BY <1>2, <1>3, <1>4, <1>5, <1>6, <1>7, <1>8, <1>9 DEF Link

-----------------------------------------------------------------------------
(* A connection begins                                                     *)

LEMMA SendsNew ==
  ASSUME NEW t, t.iss \in Int,
         NEW out, out \subseteq Seg, 
         \A m \in out : Kind(m) /\ ("RST" \notin m.flags => m.seq < t.iss),
         NEW out2, \A m \in out2 : m \in out \/ Says(t, m)
  PROVE  Sends(t, out2)
<1>1. SUFFICES ASSUME NEW m \in out2, Near(m.seq, t.iss)
               PROVE  /\ m.data # <<>> => m.seq + Len(m.data) <= t.iss + t.wrote
                      /\ "FIN" \in m.flags => FinAt(t, m.seq)
  BY DEF Sends
<1>2. CASE m \in out
  <2>1. "RST" \in m.flags
    <3>1. m.seq \in Int
      BY <1>2 DEF Seg
    <3> QED BY <1>1, <1>2, <3>1 DEF Near
  <2>2. Kind(m)
    BY <1>2
  <2> QED BY <2>1, <2>2 DEF Kind
<1>3. CASE Says(t, m)
  BY <1>3, SaysKinds DEF Plain
<1> QED BY <1>1, <1>2, <1>3

LEMMA NewServerOK ==
  ASSUME NEW y, MoreOK(S, y), y.iss \in Int, NEW nc, nc \subseteq Seg, NEW p,
         \A m \in nc : Kind(m) /\ SegDated(m, y.iss, p),
         NEW nc2, \A m \in nc2 : m \in nc \/ Says(y, m)
  PROVE  ServerOK(y, nc2)
<1>1. Sends(y, nc2)
  BY SendsNew DEF SegDated
<1>2. ASSUME NEW m \in nc2, "SYN" \in m.flags
      PROVE  m.seq + 1 <= y.iss
  <2>1. CASE m \in nc
    <3>1. m.seq + 1 < y.iss /\ m.seq \in Int
      BY <1>2, <2>1 DEF SegDated, Seg
    <3> QED BY <3>1
  <2>2. CASE Says(y, m)
    <3>1. m.seq + 1 = y.iss
      BY <1>2, <2>2, ServerSays DEF SynAck
    <3> QED BY <3>1
  <2> QED BY <1>2, <2>1, <2>2
<1> QED BY <1>1, <1>2 DEF ServerOK

(* The server's socket answers a SYN.                                      *)
LEMMA NewServerLink ==
  ASSUME plan \in Plans, NEW y, Whole(S, y), NEW x, Whole(C, x), x.irs < y.iss,
         NEW nc, NEW ns, nc \subseteq Seg, ns \subseteq Seg, NEW p, NEW n,
         \A m \in nc : Kind(m) /\ SegDated(m, y.iss, p), \A m \in ns : SegDated(m, n, y.iss),
         ClientOK(x, nc, ns), NEW seg \in ns, "SYN" \in seg.flags,
         y.irs = seg.seq + 1, y.rxi = y.irs, y.txo = y.iss, y.state \in {"SYNR", "CLOSED"},
         NEW nc2, \A m \in nc2 : m \in nc \/ Says(y, m), NEW ns2, ns2 \subseteq ns
  PROVE  Link(x, y, nc2, ns2) /\ ClientOK(x, nc2, ns2)
<1>1. /\ y.iss \in Int /\ y.irs \in Int /\ y.rxi \in Int /\ x.irs \in Int /\ x.iss \in Int /\ x.wrote \in Nat
  BY WholeNumbers, TwoHosts
<1>2. y.irs <= x.iss
  BY DEF ClientOK
<1>3. x.irs # y.iss /\ x.irs <= y.iss
  BY <1>1
<1>4. y.state \notin FinRcvd /\ y.state # "EST"
  BY DEF FinRcvd
<1>5. ASSUME NEW m \in nc2, "SYN" \in m.flags, m \notin nc
      PROVE  m.seq + 1 = y.iss /\ m.ack = y.irs
  <2>1. Says(y, m)
    BY <1>5
  <2> QED BY <1>5, <2>1, ServerSays DEF Whole, SynAck
<1>6. \A m \in nc2 : "SYN" \in m.flags /\ m.ack = x.iss /\ m.seq + 1 = y.iss => y.irs = x.iss
  <2>1. ASSUME NEW m \in nc, "SYN" \in m.flags
        PROVE  m.seq + 1 # y.iss
    <3>1. m.seq + 1 < y.iss /\ m.seq \in Int
      BY <2>1 DEF SegDated, Seg
    <3> QED BY <1>1, <3>1
  <2> QED BY <1>5, <2>1
<1>7. Takes(x, y) /\ Takes(y, x)
  <2>1. x.iss <= x.iss + x.wrote
    BY <1>1
  <2> QED BY <1>3, <1>4, <2>1 DEF Takes
<1>8. \A g \in ns : Acks(g) => g.ack < y.iss
  BY DEF SegDated
<1>9. Link(x, y, nc2, ns2)
  BY <1>2, <1>3, <1>4, <1>6, <1>7, <1>8 DEF Link
<1>10. Sends(x, ns2)
  BY DEF ClientOK, Sends
<1>11. ASSUME x.state = "SYNS"
       PROVE  /\ \A m \in ns2 : m.data # <<>> => ~Near(m.seq, x.iss)
              /\ \A m \in nc2 : Acks(m) => m.ack <= x.iss
  <2>1. ASSUME NEW m \in nc2, Acks(m), m \notin nc
        PROVE  m.ack <= x.iss
    <3>1. Says(y, m)
      BY <2>1
    <3>2. m.ack = y.irs
      BY <1>4, <2>1, <3>1, ServerSays DEF Whole
    <3> QED BY <1>2, <3>2
  <2> QED BY <1>11, <2>1 DEF ClientOK
<1>12. ASSUME NEW g \in ns2, Acks(g), ~Near(g.seq, x.iss)
       PROVE  /\ \A m \in nc2 : "SYN" \in m.flags /\ m.ack = x.iss => m.seq + 1 > g.ack
              /\ x.irs # 0 => x.irs > g.ack
  <2>1. /\ \A m \in nc : "SYN" \in m.flags /\ m.ack = x.iss => m.seq + 1 > g.ack
        /\ x.irs # 0 => x.irs > g.ack
    BY <1>12 DEF ClientOK
  <2>2. y.iss > g.ack
    <3>1. g.ack < y.iss /\ g.ack \in Int
      BY <1>8, <1>12 DEF Seg
    <3> QED BY <1>1, <3>1
  <2> QED BY <1>5, <2>1, <2>2
<1>13. \A m \in ns2 : "SYN" \in m.flags => m.seq + 1 <= x.iss
  BY DEF ClientOK
<1> QED BY <1>9, <1>10, <1>11, <1>12, <1>13 DEF ClientOK

(* The client's socket sends its SYN.                                      *)
LEMMA NewClientOK ==
  ASSUME plan \in Plans, NEW x, Whole(C, x), 
         NEW nc, NEW ns, nc \subseteq Seg, ns \subseteq Seg, NEW p, NEW n,
         \A m \in ns : Kind(m) /\ SegDated(m, x.iss, p), \A m \in nc : SegDated(m, n, x.iss),
         \A m \in nc : "SYN" \in m.flags => Acks(m),
         x.irs = 0, x.state = "SYNS",
         NEW nc2, nc2 \subseteq nc, NEW ns2, \A m \in ns2 : m \in ns \/ Says(x, m)
  PROVE  ClientOK(x, nc2, ns2)
<1>1. x.iss \in Int
  BY WholeNumbers, TwoHosts
<1>2. Sends(x, ns2)
  BY <1>1, SendsNew DEF SegDated
<1>3. ASSUME NEW m \in ns2, "SYN" \in m.flags
      PROVE  m.seq + 1 <= x.iss
  <2>1. CASE m \in ns
    <3>1. m.seq + 1 < x.iss /\ m.seq \in Int
      BY <1>3, <2>1 DEF SegDated, Seg
    <3> QED BY <1>1, <3>1
  <2>2. CASE Says(x, m)
    <3>1. m.seq + 1 = x.iss
      BY <1>3, <2>2, ClientSays DEF Whole, Syn
    <3> QED BY <1>1, <3>1
  <2> QED BY <1>3, <2>1, <2>2
<1>4. ASSUME NEW m \in ns2, m.data # <<>>
      PROVE  ~Near(m.seq, x.iss)
  <2>1. m \in ns
    BY <1>4, SaysKinds, PlainStates
  <2>2. m.seq < x.iss /\ m.seq \in Int
    BY <1>4, <2>1 DEF Kind, SegDated, Seg
  <2> QED BY <1>1, <2>2 DEF Near
<1>5. ASSUME NEW m \in nc2, Acks(m)
      PROVE  m.ack < x.iss /\ m.ack <= x.iss /\ m.ack # x.iss
  <2>1. m.ack < x.iss /\ m.ack \in Int
    BY <1>5 DEF SegDated, Seg
  <2> QED BY <1>1, <2>1
<1>6. \A m \in nc2 : "SYN" \in m.flags => m.ack # x.iss
  BY <1>5
<1> QED BY <1>2, <1>3, <1>4, <1>5, <1>6 DEF ClientOK

LEMMA NewClientLink ==
  ASSUME plan \in Plans, NEW x, Whole(C, x), NEW y, Whole(S, y), y.irs < x.iss,
         NEW nc, nc \subseteq Seg, NEW n, \A m \in nc : SegDated(m, n, x.iss),
         \A m \in nc : "SYN" \in m.flags => Acks(m),
         x.irs = 0, NEW nc2, nc2 \subseteq nc, NEW ns2
  PROVE  Link(x, y, nc2, ns2)
<1>1. x.iss \in Int /\ y.irs \in Int /\ y.iss \in Int /\ y.iss \in Isns(S)
  BY WholeNumbers, TwoHosts DEF Whole
<1>2. x.irs # y.iss /\ x.irs <= y.iss
  BY <1>1, IsnsPositive, TwoHosts
<1>3. y.irs # x.iss /\ y.irs <= x.iss
  BY <1>1
<1>4. ASSUME NEW m \in nc2, "SYN" \in m.flags
      PROVE  m.ack # x.iss
  <2>1. m.ack < x.iss /\ m.ack \in Int
    BY <1>4 DEF SegDated, Seg
  <2> QED BY <1>1, <2>1
<1> QED BY <1>2, <1>3, <1>4 DEF Link, Takes

(* The client's socket takes the answer to its SYN.                        *)
LEMMA AnsweredOK ==
  ASSUME plan \in Plans, NEW x, Whole(C, x), NEW x2, Whole(C, x2), NEW seg, NEW r, r.s = x2,
         Answers(x, seg, r), NEW nc, NEW ns, ns \subseteq Seg, seg \in nc, ClientOK(x, nc, ns),
         NEW nc2, nc2 \subseteq nc, NEW ns2, \A m \in ns2 : m \in ns \/ Says(x2, m), ns2 \subseteq Seg
  PROVE  ClientOK(x2, nc2, ns2)
<1>1. /\ x.state = "SYNS" /\ "SYN" \in seg.flags /\ seg.ack = x.iss
      /\ x2.iss = x.iss /\ x.wrote <= x2.wrote /\ x2.irs = seg.seq + 1 /\ x2.state = "EST"
  BY DEF Answers
<1>2. x.iss \in Int /\ x.wrote \in Int /\ x2.wrote \in Int
  BY WholeNumbers, TwoHosts
<1>3. \A n : FinAt(x, n) => FinAt(x2, n)
  BY <1>1 DEF FinAt, Writing
<1>4. Sends(x2, ns2)
  BY <1>1, <1>2, <1>3, SendsOn DEF ClientOK
<1>5. ASSUME NEW m \in ns2, "SYN" \in m.flags
      PROVE  m.seq + 1 <= x2.iss
  <2>1. CASE m \in ns
    BY <1>1, <1>5, <2>1 DEF ClientOK
  <2>2. CASE Says(x2, m)
    BY <1>1, <1>5, <2>2, SaysKinds, PlainStates
  <2> QED BY <1>5, <2>1, <2>2
<1>6. ASSUME NEW g \in ns2, Acks(g), ~Near(g.seq, x2.iss)
      PROVE  /\ \A m \in nc2 : "SYN" \in m.flags /\ m.ack = x2.iss => m.seq + 1 > g.ack
             /\ x2.irs # 0 => x2.irs > g.ack
  <2>1. CASE Says(x2, g)
    <3>1. Plain(x2, g) /\ g.seq \in Int
      BY <1>6, <2>1, ClientSays DEF Whole, Seg
    <3> QED BY <1>6, <3>1, PlainNear, TwoHosts
  <2>2. CASE g \in ns
    <3>1. \A m \in nc : "SYN" \in m.flags /\ m.ack = x.iss => m.seq + 1 > g.ack
      BY <1>1, <1>6, <2>2 DEF ClientOK
    <3> QED BY <1>1, <3>1
  <2> QED BY <1>6, <2>1, <2>2
<1> QED BY <1>1, <1>4, <1>5, <1>6 DEF ClientOK

LEMMA AnsweredLink ==
  ASSUME plan \in Plans, NEW x, Whole(C, x), NEW x2, Whole(C, x2), NEW seg, NEW r, r.s = x2,
         Answers(x, seg, r), NEW y, Whole(S, y), NEW nc, NEW ns, nc \subseteq Seg, ns \subseteq Seg,
         seg \in nc, ClientOK(x, nc, ns), ServerOK(y, nc), Link(x, y, nc, ns),
         NEW nc2, nc2 \subseteq nc, NEW ns2, \A m \in ns2 : m \in ns \/ Says(x2, m), ns2 \subseteq Seg
  PROVE  Link(x2, y, nc2, ns2)
<1>1. /\ x.state = "SYNS" /\ "SYN" \in seg.flags /\ seg.ack = x.iss
      /\ x2.iss = x.iss /\ x.wrote <= x2.wrote /\ x2.irs = seg.seq + 1 /\ x2.rxi = x2.irs
      /\ x2.txo = x.iss /\ x2.state = "EST"
  BY DEF Answers
<1>2. /\ x.iss \in Int /\ x.wrote \in Int /\ x2.wrote \in Int /\ x2.irs \in Int
      /\ y.iss \in Int /\ y.irs \in Int /\ y.rxi \in Int /\ y.txo \in Int /\ y.wrote \in Nat
      /\ y.iss \in Isns(S) /\ y.iss # 0
  BY WholeNumbers, TwoHosts DEF Whole
<1>3. x.irs = 0 /\ x.irs # y.iss
  BY <1>1, <1>2 DEF Whole, MoreOK, Remembers
<1>4. x2.irs <= y.iss
  BY <1>1 DEF ServerOK
<1>5. y.irs <= x2.iss
  BY <1>1 DEF Link
<1>6. x2.irs = y.iss => y.irs = x2.iss
  BY <1>1 DEF Link
<1>7. \A m \in nc2 : "SYN" \in m.flags /\ m.ack = x2.iss /\ m.seq + 1 = y.iss => y.irs = x2.iss
  BY <1>1 DEF Link
<1>8. y.irs = x.iss => 
        /\ y.rxi = x.iss /\ y.state \notin FinRcvd /\ y.txo = y.iss
        /\ \A g \in ns : Acks(g) => g.ack < y.iss
  BY <1>1, <1>3 DEF Link, Takes, Writing
<1>9. Takes(x2, y)
  <2>1. x.iss <= x.iss + x2.wrote
    <3>1. x2.wrote \in Nat
      BY WholeNumbers, TwoHosts
    <3> QED BY <1>2, <3>1
  <2> QED BY <1>1, <1>8, <2>1 DEF Takes
<1>10. Takes(y, x2)
  <2>1. x2.irs = y.iss => x2.rxi <= y.iss + y.wrote
    BY <1>1, <1>2
  <2> QED BY <1>1, <2>1 DEF Takes, FinRcvd
<1>11. ASSUME x2.irs = y.iss
       PROVE  Sure(x2, y, nc2) /\ Sure(y, x2, ns2)
  <2>1. y.irs = x.iss
    BY <1>1, <1>6, <1>11
  <2>2. Sure(x2, y, nc2)
    <3>1. \A m \in nc2 : Acks(m) => m.ack <= y.rxi
      BY <1>1, <1>8, <2>1 DEF ClientOK
    <3> QED BY <1>1, <1>2, <1>8, <2>1, <3>1 DEF Sure, AckAt
  <2>3. Sure(y, x2, ns2)
    <3>1. ASSUME NEW m \in ns2, Acks(m)
          PROVE  m.ack <= x2.rxi
      <4>1. CASE m \in ns
        <5>1. m.ack < y.iss /\ m.ack \in Int
          BY <1>8, <2>1, <3>1, <4>1 DEF Seg
        <5> QED BY <1>1, <1>2, <1>11, <5>1
      <4>2. CASE Says(x2, m)
        <5>1. m.ack = x2.rxi
          BY <1>1, <3>1, <4>2, ClientSays DEF Whole, Plain, FinRcvd
        <5> QED BY <1>1, <1>2, <5>1
      <4> QED BY <3>1, <4>1, <4>2
    <3>2. y.txo <= x2.rxi
      BY <1>1, <1>2, <1>8, <1>11, <2>1
    <3> QED BY <3>1, <3>2 DEF Sure, AckAt
  <2> QED BY <2>2, <2>3
<1>12. ASSUME y.irs = x2.iss
       PROVE  /\ \A g \in ns2 : Acks(g) => g.ack < y.iss \/ (x2.irs = y.iss /\ Near(g.seq, x2.iss))
              /\ x2.irs # y.iss => y.txo = y.iss
  <2>1. ASSUME NEW g \in ns2, Acks(g), Says(x2, g)
        PROVE  g.ack < y.iss \/ (x2.irs = y.iss /\ Near(g.seq, x2.iss))
    <3>1. Plain(x2, g) /\ g.seq \in Int
      BY <2>1, ClientSays DEF Whole, Seg
    <3>2. Near(g.seq, x2.iss)
      BY <3>1, PlainNear, TwoHosts
    <3>3. g.ack = x2.irs
      BY <1>1, <3>1 DEF Plain, FinRcvd
    <3> QED BY <1>2, <1>4, <3>2, <3>3
  <2> QED BY <1>1, <1>8, <1>12, <2>1
<1>13. y.state # "EST"
  <2>1. CASE y.irs = x.iss
    BY <1>3, <2>1 DEF Link
  <2>2. CASE y.irs # x.iss
    BY <1>1, <2>2 DEF Link
  <2> QED BY <2>1, <2>2
<1> QED BY <1>1, <1>4, <1>5, <1>6, <1>7, <1>9, <1>10, <1>11, <1>12, <1>13 DEF Link

-----------------------------------------------------------------------------
(* The pair after a step of either                                         *)

(* A socket that is not used says nothing that matters.                    *)
LEMMA BareIfUnused ==
  ASSUME NEW s, Placed(s), s.iss = 0, NEW m, Says(s, m)
  PROVE  Bare(m)
<1>1. s.state \notin {"SYNS", "SYNR"} \union Talking
  BY DEF Placed, Before, Talking, FinSent
<1> QED BY <1>1 DEF Says, Syn, SynAck, Plain

LEMMA BareClient ==
  ASSUME NEW x, NEW nc, NEW ns, ClientOK(x, nc, ns),
         NEW nc2, \A m \in nc2 : m \in nc \/ Bare(m), NEW ns2, ns2 \subseteq ns
  PROVE  ClientOK(x, nc2, ns2)
<1>1. \A m : Bare(m) => ~Acks(m) /\ "SYN" \notin m.flags
  BY DEF Bare, Acks
<1>2. Sends(x, ns2)
  BY DEF ClientOK, Sends
<1>3. \A m \in nc2 : Acks(m) \/ "SYN" \in m.flags => m \in nc
  BY <1>1
<1>4. \A m \in ns2 : "SYN" \in m.flags => m.seq + 1 <= x.iss
  BY DEF ClientOK
<1>5. x.state = "SYNS" =>
        /\ \A m \in ns2 : m.data # <<>> => ~Near(m.seq, x.iss)
        /\ \A m \in nc2 : Acks(m) => m.ack <= x.iss
  BY <1>3 DEF ClientOK
<1>6. ASSUME NEW g \in ns2, Acks(g), ~Near(g.seq, x.iss)
      PROVE  /\ \A m \in nc2 : "SYN" \in m.flags /\ m.ack = x.iss => m.seq + 1 > g.ack
             /\ x.irs # 0 => x.irs > g.ack
  BY <1>3, <1>6 DEF ClientOK
<1> QED BY <1>2, <1>4, <1>5, <1>6 DEF ClientOK

LEMMA FewerServer ==
  ASSUME NEW y, NEW nc, ServerOK(y, nc), NEW nc2, nc2 \subseteq nc
  PROVE  ServerOK(y, nc2)
BY DEF ServerOK, Sends

LEMMA PairServer ==
  ASSUME plan \in Plans, NEW x, Used(x) => Whole(C, x), 
         NEW y, NEW seg, NEW y2, y2.iss = y.iss, Used(y) => Turn(S, y, seg, y2), Placed(y2),
         NEW nc, NEW ns, nc \subseteq Seg, ns \subseteq Seg, Arriving(S, seg), Got(seg, ns),
         Pair(x, y, nc, ns),
         NEW nc2, \A m \in nc2 : m \in nc \/ Says(y2, m), NEW ns2, ns2 \subseteq ns
  PROVE  Pair(x, y2, nc2, ns2)
<1>1. CASE Used(y)
  <2>1. Turn(S, y, seg, y2) /\ ServerOK(y, nc)
    BY <1>1 DEF Pair
  <2>2. ServerOK(y2, nc2)
    BY <2>1, ServerKept
  <2>3. ASSUME Used(x)
        PROVE  Link(x, y2, nc2, ns2) /\ ClientOK(x, nc2, ns2)
    <3>1. Whole(C, x) /\ Link(x, y, nc, ns) /\ ClientOK(x, nc, ns)
      BY <1>1, <2>3 DEF Pair
    <3>2. Link(x, y2, nc2, ns2)
      BY <2>1, <3>1, ServerLink
    <3>3. ClientOK(x, nc2, ns2)
      BY <2>1, <3>1, <3>2, ServerClient
    <3> QED BY <3>2, <3>3
  <2> QED BY <2>2, <2>3 DEF Pair
<1>2. CASE ~Used(y)
  <2>1. ~Used(y2) /\ y2.iss = 0
    BY <1>2 DEF Used
  <2>2. \A m \in nc2 : m \in nc \/ Bare(m)
    BY <2>1, BareIfUnused
  <2>3. Used(x) => ClientOK(x, nc2, ns2)
    BY <2>2, BareClient DEF Pair
  <2> QED BY <2>1, <2>3 DEF Pair
<1> QED BY <1>1, <1>2

LEMMA PairClient ==
  ASSUME plan \in Plans, NEW y, Used(y) => Whole(S, y), 
         NEW x, NEW seg, NEW x2, x2.iss = x.iss, Used(x) => Turn(C, x, seg, x2),
         NEW nc, NEW ns, nc \subseteq Seg, ns \subseteq Seg, Arriving(C, seg), Got(seg, nc),
         Pair(x, y, nc, ns),
         NEW nc2, nc2 \subseteq nc, NEW ns2, \A m \in ns2 : m \in ns \/ Says(x2, m), ns2 \subseteq Seg
  PROVE  Pair(x2, y, nc2, ns2)
<1>1. Used(x2) = Used(x)
  BY DEF Used
<1>2. Used(y) => ServerOK(y, nc2)
  BY FewerServer DEF Pair
<1>3. ASSUME Used(x)
      PROVE  ClientOK(x2, nc2, ns2) /\ (Used(y) => Link(x2, y, nc2, ns2))
  <2>1. Turn(C, x, seg, x2) /\ ClientOK(x, nc, ns)
    BY <1>3 DEF Pair
  <2>2. ClientOK(x2, nc2, ns2)
    BY <2>1, ClientKept
  <2>3. ASSUME Used(y)
        PROVE  Link(x2, y, nc2, ns2)
    <3>1. Whole(S, y) /\ ServerOK(y, nc) /\ Link(x, y, nc, ns)
      BY <1>3, <2>3 DEF Pair
    <3> QED BY <2>1, <3>1, ClientLink
  <2> QED BY <2>2, <2>3
<1> QED BY <1>1, <1>2, <1>3 DEF Pair

LEMMA PairBeginsServer ==
  ASSUME plan \in Plans, NEW x, Used(x) => Whole(C, x), NEW y, NEW y0, Whole(S, y), x.irs < y.iss,
         NEW nc, NEW ns, nc \subseteq Seg, ns \subseteq Seg, NEW p, NEW n,
         \A m \in nc : Kind(m) /\ SegDated(m, y.iss, p), \A m \in ns : SegDated(m, n, y.iss),
         Pair(x, y0, nc, ns), NEW seg \in ns, "SYN" \in seg.flags,
         y.irs = seg.seq + 1, y.rxi = y.irs, y.txo = y.iss, y.state \in {"SYNR", "CLOSED"},
         NEW nc2, \A m \in nc2 : m \in nc \/ Says(y, m), NEW ns2, ns2 \subseteq ns
  PROVE  Pair(x, y, nc2, ns2)
<1>1. MoreOK(S, y) /\ y.iss \in Int
  BY WholeNumbers, TwoHosts DEF Whole
<1>2. ServerOK(y, nc2)
  BY <1>1, NewServerOK
<1>3. ASSUME Used(x)
      PROVE  Link(x, y, nc2, ns2) /\ ClientOK(x, nc2, ns2)
  <2>1. Whole(C, x) /\ ClientOK(x, nc, ns)
    BY <1>3 DEF Pair
  <2> QED BY <2>1, NewServerLink
<1> QED BY <1>2, <1>3 DEF Pair

LEMMA PairBeginsClient ==
  ASSUME plan \in Plans, NEW y, Used(y) => Whole(S, y), NEW x, NEW x0, Whole(C, x), y.irs < x.iss,
         NEW nc, NEW ns, nc \subseteq Seg, ns \subseteq Seg, NEW p, NEW n,
         \A m \in ns : Kind(m) /\ SegDated(m, x.iss, p), \A m \in nc : SegDated(m, n, x.iss),
         \A m \in nc : "SYN" \in m.flags => Acks(m),
         Pair(x0, y, nc, ns), x.irs = 0, x.state = "SYNS",
         NEW nc2, nc2 \subseteq nc, NEW ns2, \A m \in ns2 : m \in ns \/ Says(x, m)
  PROVE  Pair(x, y, nc2, ns2)
<1>1. ClientOK(x, nc2, ns2)
  BY NewClientOK
<1>2. Used(y) => ServerOK(y, nc2)
  BY FewerServer DEF Pair
<1>3. Used(y) => Link(x, y, nc2, ns2)
  BY NewClientLink
<1> QED BY <1>1, <1>2, <1>3 DEF Pair

LEMMA PairAnswers ==
  ASSUME plan \in Plans, NEW y, Used(y) => Whole(S, y), NEW x, Whole(C, x), NEW x2, Whole(C, x2), 
         NEW seg, NEW r, r.s = x2, Answers(x, seg, r),
         NEW nc, NEW ns, nc \subseteq Seg, ns \subseteq Seg, seg \in nc, Pair(x, y, nc, ns),
         NEW nc2, nc2 \subseteq nc, NEW ns2, \A m \in ns2 : m \in ns \/ Says(x2, m), ns2 \subseteq Seg
  PROVE  Pair(x2, y, nc2, ns2)
<1>1. Used(x) /\ ClientOK(x, nc, ns)
  BY DEF Whole, Used, Pair
<1>2. ClientOK(x2, nc2, ns2)
  BY <1>1, AnsweredOK
<1>3. Used(y) => ServerOK(y, nc2)
  BY FewerServer DEF Pair
<1>4. ASSUME Used(y)
      PROVE  Link(x2, y, nc2, ns2)
  <2>1. Whole(S, y) /\ ServerOK(y, nc) /\ Link(x, y, nc, ns)
    BY <1>1, <1>4 DEF Pair
  <2> QED BY <1>1, <2>1, AnsweredLink
<1> QED BY <1>2, <1>3, <1>4 DEF Pair

-----------------------------------------------------------------------------
(* All sockets, and all segments                                           *)

LEMMA SaidKind ==
  ASSUME NEW h \in Hosts, NEW t, MoreOK(h, t), NEW m, Says(t, m), m.port \in {0, 1}
  PROVE  Kind(m)
<1>1. CASE Bare(m)
  BY <1>1 DEF Bare, Kind
<1>2. CASE (Syn(t, m) \/ SynAck(t, m)) /\ m.port = t.port
  <2>1. t.port = 1
    BY <1>2 DEF MoreOK, Placed, Before, Syn, SynAck
  <2> QED BY <1>2, <2>1 DEF Kind, Syn, SynAck
<1>3. CASE Plain(t, m)
  BY <1>3 DEF Plain, Kind
<1> QED BY <1>1, <1>2, <1>3 DEF Says

LEMMA SaidDated ==
  ASSUME plan \in Plans, NEW h \in Hosts, NEW t, MoreOK(h, t), Used(t) => Whole(h, t),
         NEW n \in Isns(h), NEW p \in Isns(Peer(h)), Dated(h, t, n, p), NEW m \in Seg, Says(t, m)
  PROVE  SegDated(m, n, p)
<1>1. n \in Int /\ n > 0 /\ m.seq \in Int /\ m.ack \in Int
  BY IsnsAreInts, IsnsPositive DEF Seg
<1>2. CASE Bare(m)
  BY <1>1, <1>2 DEF Bare, SegDated, Acks
<1>3. CASE Syn(t, m) \/ SynAck(t, m) \/ Plain(t, m)
  <2>1. t.state \in {"SYNS", "SYNR"} \union Talking
    BY <1>3 DEF Syn, SynAck, Plain
  <2>2. Whole(h, t)
    BY <2>1 DEF MoreOK, Placed, Before, Talking, FinSent, Used
  <2>3. /\ t.iss \in Int /\ t.rxi \in Int /\ t.wrote \in Int /\ t.wrote <= IsnStep - 2
        /\ t.iss \in Isns(h) /\ t.iss < n /\ t.irs < p
    BY <2>2, WholeNumbers DEF Whole, Dated
  <2>4. t.iss + IsnStep <= n
    BY <2>3, IsnOrder
  <2>5. t.state # "SYNS" => t.rxi + 1 < p
    <3>1. ASSUME t.state # "SYNS" PROVE t.irs # 0
      <4>1. t.irs \in Isns(Peer(h))
        BY <2>1, <2>2, <3>1 DEF Whole, SockOK, Begun, Numbers, Talking, FinSent
      <4> QED BY <4>1, IsnsPositive, PeerHost
    <3> QED BY <2>2, <2>3, <3>1, BeforeNext
  <2>6. p \in Int
    BY IsnsAreInts, PeerHost
  <2>7. CASE Syn(t, m)
    BY <1>1, <2>3, <2>7 DEF Syn, SegDated, Acks
  <2>8. CASE SynAck(t, m)
    <3>1. m.ack < p
      BY <1>1, <2>3, <2>5, <2>6, <2>8 DEF SynAck
    <3> QED BY <1>1, <2>3, <2>8, <3>1 DEF SynAck, SegDated
  <2>9. CASE Plain(t, m)
    <3>1. t.state # "SYNS" /\ "SYN" \notin m.flags
      BY <2>9, PlainStates
    <3>2. m.seq <= t.iss + t.wrote + 1 /\ (m.ack = t.rxi \/ m.ack = t.rxi + 1)
      BY <2>9 DEF Plain
    <3>3. m.seq < n
      BY <1>1, <2>3, <2>4, <3>2, StepSize
    <3>4. m.ack < p
      BY <1>1, <2>3, <2>5, <2>6, <3>1, <3>2
    <3> QED BY <3>1, <3>3, <3>4 DEF SegDated
  <2> QED BY <1>3, <2>7, <2>8, <2>9
<1> QED BY <1>2, <1>3 DEF Says

LEMMA WholeIfUsed ==
  ASSUME NEW h \in Hosts, NEW s, SockOK(h, s), s.wrote <= plan.writes[h], MoreOK(h, s),
         NEW n, NEW p, Dated(h, s, n, p)
  PROVE  Used(s) => Whole(h, s)
BY DEF Used, Whole, Dated

LEMMA DatedOn ==
  ASSUME NEW n \in Int, NEW p \in Int, NEW n2 \in Int, NEW p2 \in Int, n <= n2, p <= p2
  PROVE  /\ \A h \in Hosts, s \in Sock : Dated(h, s, n, p) => Dated(h, s, n2, p2)
         /\ \A m \in Seg : SegDated(m, n, p) => SegDated(m, n2, p2)
<1>1. ASSUME NEW h \in Hosts, NEW s \in Sock, Dated(h, s, n, p)
      PROVE  Dated(h, s, n2, p2)
  <2>1. s.iss \in Int /\ s.irs \in Int /\ s.iss < n /\ s.irs < p
    BY <1>1 DEF Sock, Dated
  <2>2. s.iss < n2 /\ s.irs < p2
    BY <2>1
  <2> QED BY <1>1, <2>2 DEF Dated
<1>2. ASSUME NEW m \in Seg, SegDated(m, n, p)
      PROVE  SegDated(m, n2, p2)
  <2>1. m.seq \in Int /\ m.ack \in Int
    BY DEF Seg
  <2> QED BY <1>2, <2>1 DEF SegDated
<1> QED BY <1>1, <1>2

LEMMA IsnIs ==
  ASSUME starts \in [Hosts -> Nat], NEW h \in Hosts
  PROVE  Isn(h) \in Isns(h) /\ Isn(h) \in Int
<1>1. Isn(h) \in Isns(h)
  BY DEF Isn, Isns
<1> QED BY <1>1, IsnsAreInts

(* What holds of the system now, and after a step.                         *)
LEMMA NowFacts ==
  ASSUME NetInv, AllOK
  PROVE  /\ plan \in Plans
         /\ \A h \in Hosts : 
              /\ Isn(h) \in Isns(h) /\ Isn(h) \in Int /\ net[h] \subseteq Seg
              /\ \A m \in net[h] : Arriving(h, m)
              /\ \A i \in Socks : 
                   /\ Ready(h, sock[h][i]) /\ sock[h][i] \in Sock
                   /\ Used(sock[h][i]) => Whole(h, sock[h][i])
<1>1. plan \in Plans /\ TablesOK(sock) /\ NetsOK(net) /\ starts \in [Hosts -> Nat]
  BY DEF NetInv, CountersOK
<1>2. ASSUME NEW h \in Hosts, NEW i \in Socks
      PROVE  Ready(h, sock[h][i]) /\ (Used(sock[h][i]) => Whole(h, sock[h][i]))
  <2>1. SockOK(h, sock[h][i]) /\ sock[h][i].wrote <= plan.writes[h]
    BY <1>1 DEF TablesOK
  <2>2. MoreOK(h, sock[h][i]) /\ Dated(h, sock[h][i], Isn(h), Isn(Peer(h)))
    BY DEF AllOK
  <2> QED BY <2>1, <2>2, WholeIfUsed DEF Ready
<1>3. \A h \in Hosts : Isn(h) \in Isns(h) /\ Isn(h) \in Int
  BY <1>1, IsnIs
<1>4. \A h \in Hosts : net[h] \subseteq Seg /\ \A m \in net[h] : Arriving(h, m)
  BY <1>1 DEF NetsOK
<1>5. \A h \in Hosts, i \in Socks : sock[h][i] \in Sock
  BY <1>1 DEF TablesOK
<1> QED BY <1>1, <1>2, <1>3, <1>4, <1>5

LEMMA NextFacts ==
  ASSUME NetInv', plan' = plan
  PROVE  /\ plan \in Plans
         /\ \A h \in Hosts : 
              /\ Isn(h)' \in Isns(h) /\ Isn(h)' \in Int /\ net'[h] \subseteq Seg
              /\ \A i \in Socks : 
                   /\ SockOK(h, sock'[h][i]) /\ sock'[h][i].wrote <= plan.writes[h]
                   /\ sock'[h][i] \in Sock
<1>1. plan \in Plans /\ starts' \in [Hosts -> Nat]
  BY DEF NetInv, CountersOK
<1>2. \A h \in Hosts : Isn(h)' \in Isns(h) /\ Isn(h)' \in Int
  <2>1. ASSUME NEW h \in Hosts PROVE Isn(h)' \in Isns(h)
    BY <1>1 DEF Isn, Isns
  <2> QED BY <2>1, IsnsAreInts
<1>3. TablesOK(sock)' => TablesOK(sock')
  BY DEF TablesOK, SockOK, Stream, TxStream, RxStream, Room
<1>4. TablesOK(sock') /\ net' \in [Hosts -> SUBSET Seg]
  BY <1>3 DEF NetInv, NetsOK
<1> QED BY <1>1, <1>2, <1>4 DEF TablesOK

(* One host takes a step, with the sequence starts no lower than before.   *)
Onward == \A g \in Hosts : Isn(g) <= Isn(g)'
Frames(h) ==
  /\ net'[h] \subseteq net[h]
  /\ \A m \in net'[Peer(h)] : 
       m \in net[Peer(h)] \/ \E i \in Socks : Says(sock'[h][i], m) /\ m.port \in {0, 1}
Apart(h) == \A i \in Socks : sock'[Peer(h)][i] = sock[Peer(h)][i]

LEMMA AllKept ==
  ASSUME NetInv, AllOK, NetInv', plan' = plan, NEW h \in Hosts, Onward, Frames(h), Apart(h),
         \A i \in Socks : 
           /\ MoreOK(h, sock'[h][i]) /\ sock'[h][i].port \in {0, 1}
           /\ Dated(h, sock'[h][i], Isn(h)', Isn(Peer(h))')
  PROVE  AllOK'
<1> DEFINE n == Isn(h)
           p == Isn(Peer(h))
<1>1. Peer(h) \in Hosts /\ Peer(Peer(h)) = h /\ \A g \in Hosts : g = h \/ g = Peer(h)
  BY PeerHost DEF Hosts, Peer
<1>2. /\ n \in Int /\ p \in Int /\ n' \in Int /\ p' \in Int /\ n <= n' /\ p <= p'
      /\ n' \in Isns(h) /\ p' \in Isns(Peer(h)) /\ plan \in Plans
  BY <1>1, NowFacts, NextFacts DEF Onward
<1> HIDE DEF n, p
<1>3. ASSUME NEW i \in Socks
      PROVE  /\ MoreOK(Peer(h), sock'[Peer(h)][i]) /\ sock'[Peer(h)][i].port \in {0, 1}
             /\ Dated(Peer(h), sock'[Peer(h)][i], p', n')
  <2>1. sock'[Peer(h)][i] = sock[Peer(h)][i] /\ sock[Peer(h)][i] \in Sock
    BY <1>1, NowFacts DEF Apart
  <2>2. MoreOK(Peer(h), sock[Peer(h)][i]) /\ sock[Peer(h)][i].port \in {0, 1}
    BY <1>1 DEF AllOK
  <2>3. Dated(Peer(h), sock[Peer(h)][i], p, n)
    BY <1>1 DEF AllOK, n, p
  <2>4. Dated(Peer(h), sock[Peer(h)][i], p', n')
    BY <1>1, <1>2, <2>1, <2>3, DatedOn
  <2> QED BY <2>1, <2>2, <2>4
<1>4. ASSUME NEW m \in net'[h]
      PROVE  Kind(m) /\ SegDated(m, p', n')
  <2>1. m \in net[h] /\ m \in Seg
    BY <1>4, NextFacts DEF Frames
  <2>2. Kind(m) /\ SegDated(m, p, n)
    BY <2>1 DEF AllOK, n, p
  <2> QED BY <1>2, <2>1, <2>2, DatedOn
<1>5. ASSUME NEW m \in net'[Peer(h)]
      PROVE  Kind(m) /\ SegDated(m, n', p')
  <2>1. m \in Seg
    BY <1>1, NextFacts
  <2>2. CASE m \in net[Peer(h)]
    <3>1. Kind(m) /\ SegDated(m, n, p)
      BY <1>1, <2>2 DEF AllOK, n, p
    <3> QED BY <1>2, <2>1, <3>1, DatedOn
  <2>3. ASSUME NEW i \in Socks, Says(sock'[h][i], m), m.port \in {0, 1}
        PROVE  Kind(m) /\ SegDated(m, n', p')
    <3>1. MoreOK(h, sock'[h][i]) /\ Dated(h, sock'[h][i], n', p')
      BY DEF n, p
    <3>2. SockOK(h, sock'[h][i]) /\ sock'[h][i].wrote <= plan.writes[h]
      BY NextFacts
    <3>3. Used(sock'[h][i]) => Whole(h, sock'[h][i])
      BY <3>1, <3>2, WholeIfUsed
    <3>4. Kind(m)
      BY <2>3, <3>1, SaidKind
    <3>5. SegDated(m, n', p')
      BY <1>2, <2>1, <2>3, <3>1, <3>3, SaidDated
    <3> QED BY <3>4, <3>5
  <2> QED BY <1>5, <2>2, <2>3 DEF Frames
<1>6. ASSUME NEW g \in Hosts
      PROVE  /\ \A i \in Socks : 
                  /\ MoreOK(g, sock'[g][i]) /\ sock'[g][i].port \in {0, 1}
                  /\ Dated(g, sock'[g][i], Isn(g)', Isn(Peer(g))')
             /\ \A m \in net'[g] : Kind(m) /\ SegDated(m, Isn(Peer(g))', Isn(g)')
  <2>1. CASE g = h
    BY <1>4, <2>1 DEF n, p
  <2>2. CASE g = Peer(h)
    BY <1>1, <1>3, <1>5, <2>2 DEF n, p
  <2> QED BY <1>1, <2>1, <2>2
<1> QED BY <1>6 DEF AllOK

(* Every socket of a host goes on with its connection, with a segment that *)
(* was under way or without one.                                           *)
MovesOn(h, s, seg, t) ==
  /\ Held(s, t) /\ TxStep(s, seg, t) /\ RxStep(s, seg, t) /\ StateStep(s, seg, t)
  /\ MoreOK(h, t) /\ t.port \in {0, 1}
Moving(h, seg) == \A i \in Socks : MovesOn(h, sock[h][i], seg, sock'[h][i])

OnePair == \E k \in Socks : Ends(k)

LEMMA MovingTurns ==
  ASSUME NetInv, AllOK, NetInv', plan' = plan, AllOK', NEW h \in Hosts, NEW seg, Moving(h, seg),
         NEW i \in Socks
  PROVE  /\ sock'[h][i].iss = sock[h][i].iss /\ MoreOK(h, sock'[h][i])
         /\ Used(sock[h][i]) => Turn(h, sock[h][i], seg, sock'[h][i])
<1> DEFINE s == sock[h][i]
           t == sock'[h][i]
<1>1. /\ Held(s, t) /\ TxStep(s, seg, t) /\ RxStep(s, seg, t) /\ StateStep(s, seg, t)
      /\ MoreOK(h, t)
  BY DEF Moving, MovesOn
<1>2. SockOK(h, t) /\ t.wrote <= plan.writes[h] /\ Dated(h, t, Isn(h)', Isn(Peer(h))')
  BY NextFacts DEF AllOK
<1>3. Used(s) => Whole(h, s)
  BY NowFacts
<1> HIDE DEF s, t
<1>4. Used(t) => Whole(h, t)
  BY <1>1, <1>2, WholeIfUsed
<1>5. t.iss = s.iss
  BY <1>1 DEF Held
<1>6. Used(s) => Turn(h, s, seg, t)
  BY <1>1, <1>3, <1>4, <1>5 DEF Turn, Used
<1> QED BY <1>1, <1>5, <1>6 DEF s, t

LEMMA FirstSocket == 1 \in Socks
BY TcpNetAssumption DEF Socks

LEMMA MovingOK ==
  ASSUME NetInv, AllOK, ClientPhase, OnePair, NetInv', plan' = plan, NEW h \in Hosts, Onward, Frames(h), Apart(h),
         NEW seg, Arriving(h, seg), Got(seg, net[h]), Moving(h, seg)
  PROVE  AllOK' /\ OnePair'
<1>1. ASSUME NEW i \in Socks
      PROVE  /\ MoreOK(h, sock'[h][i]) /\ sock'[h][i].port \in {0, 1}
             /\ Dated(h, sock'[h][i], Isn(h)', Isn(Peer(h))')
  <2>1. MoreOK(h, sock'[h][i]) /\ sock'[h][i].port \in {0, 1} /\ Held(sock[h][i], sock'[h][i])
    BY DEF Moving, MovesOn
  <2>2. Dated(h, sock[h][i], Isn(h), Isn(Peer(h)))
    BY DEF AllOK
  <2>3. Dated(h, sock[h][i], Isn(h)', Isn(Peer(h))')
    <3>1. Isn(h) \in Int /\ Isn(Peer(h)) \in Int /\ Isn(h)' \in Int /\ Isn(Peer(h))' \in Int
      BY NowFacts, NextFacts, PeerHost
    <3>2. Isn(h) <= Isn(h)' /\ Isn(Peer(h)) <= Isn(Peer(h))'
      BY PeerHost DEF Onward
    <3>3. sock[h][i] \in Sock
      BY NowFacts
    <3> QED BY <2>2, <3>1, <3>2, <3>3, DatedOn
  <2> QED BY <2>1, <2>3 DEF Dated, Held
<1>2. AllOK'
  BY <1>1, AllKept
<1>3. PICK k \in Socks : Ends(k)
  BY DEF OnePair
<1>4. /\ plan \in Plans /\ net[C] \subseteq Seg /\ net[S] \subseteq Seg /\ net'[S] \subseteq Seg
      /\ Used(X) => Whole(C, X)
      /\ Used(sock[S][k]) => Whole(S, sock[S][k])
  BY <1>2, NowFacts, NextFacts, TwoHosts, FirstSocket DEF X
<1>5. Pair(X, sock[S][k], net[C], net[S]) /\ \A j \in Socks \ {k} : ~Used(sock[S][j])
  BY <1>3 DEF Ends
<1>6. CASE h = S
  <2>1. \A i \in Socks : sock'[C][i] = sock[C][i]
    BY <1>6, TwoHosts DEF Apart
  <2>2. \A j \in Socks : 
          /\ sock'[S][j].iss = sock[S][j].iss /\ MoreOK(S, sock'[S][j])
          /\ Used(sock[S][j]) => Turn(S, sock[S][j], seg, sock'[S][j])
    BY <1>2, <1>6, MovingTurns
  <2>3. \A j \in Socks \ {k} : ~Used(sock'[S][j])
    BY <1>5, <2>2 DEF Used
  <2>4. ASSUME NEW m \in net'[C]
        PROVE  m \in net[C] \/ Says(sock'[S][k], m)
    <3>1. CASE m \notin net[C]
      <4>1. PICK j \in Socks : Says(sock'[S][j], m)
        BY <1>6, <2>4, <3>1, TwoHosts DEF Frames
      <4>2. CASE j = k
        BY <4>1, <4>2
      <4>3. CASE j # k
        <5>1. Bare(m)
          BY <2>2, <2>3, <4>1, <4>3, BareIfUnused DEF Used, MoreOK
        <5> QED BY <5>1 DEF Says
      <4> QED BY <4>2, <4>3
    <3> QED BY <3>1
  <2>5. net'[S] \subseteq net[S]
    BY <1>6 DEF Frames
  <2>6. Pair(X, sock'[S][k], net'[C], net'[S])
    <3>1. Placed(sock'[S][k]) /\ Arriving(S, seg) /\ Got(seg, net[S])
      BY <1>6, <2>2 DEF MoreOK
    <3> QED BY <1>4, <1>5, <2>2, <2>4, <2>5, <3>1, PairServer
  <2>7. X' = X
    BY <2>1, FirstSocket DEF X
  <2>8. Ends(k)'
    BY <2>3, <2>6, <2>7 DEF Ends
  <2> QED BY <1>2, <2>8 DEF OnePair
<1>7. CASE h = C
  <2>1. \A i \in Socks : sock'[S][i] = sock[S][i]
    BY <1>7, TwoHosts DEF Apart
  <2>2. \A j \in Socks : 
          /\ sock'[C][j].iss = sock[C][j].iss /\ MoreOK(C, sock'[C][j])
          /\ Used(sock[C][j]) => Turn(C, sock[C][j], seg, sock'[C][j])
    BY <1>2, <1>7, MovingTurns
  <2>3. \A j \in Socks \ {1} : sock'[C][j].iss = 0
    BY <2>2 DEF ClientPhase
  <2>4. ASSUME NEW m \in net'[S]
        PROVE  m \in net[S] \/ Says(sock'[C][1], m)
    <3>1. CASE m \notin net[S]
      <4>1. PICK j \in Socks : Says(sock'[C][j], m)
        BY <1>7, <2>4, <3>1, TwoHosts DEF Frames
      <4>2. CASE j = 1
        BY <4>1, <4>2
      <4>3. CASE j # 1
        <5>1. Bare(m)
          BY <2>2, <2>3, <4>1, <4>3, BareIfUnused DEF MoreOK
        <5> QED BY <5>1 DEF Says
      <4> QED BY <4>2, <4>3
    <3> QED BY <3>1
  <2>5. net'[C] \subseteq net[C]
    BY <1>7 DEF Frames
  <2>6. Pair(sock'[C][1], sock[S][k], net'[C], net'[S])
    <3>1. sock'[C][1].iss = X.iss /\ (Used(X) => Turn(C, X, seg, sock'[C][1]))
      BY <2>2, FirstSocket DEF X
    <3>2. Arriving(C, seg) /\ Got(seg, net[C])
      BY <1>7
    <3> QED BY <1>4, <1>5, <2>4, <2>5, <3>1, <3>2, PairClient
  <2>7. \A j \in Socks \ {k} : ~Used(sock'[S][j])
    BY <1>5, <2>1
  <2>8. Ends(k)'
    BY <2>1, <2>6, <2>7 DEF Ends, X
  <2> QED BY <1>2, <2>8 DEF OnePair
<1> QED BY <1>6, <1>7 DEF Hosts

LEMMA SockKept ==
  ASSUME NetInv, AllOK, NetInv', plan' = plan, Onward, NEW h \in Hosts, NEW i \in Socks,
         sock'[h][i] = sock[h][i]
  PROVE  /\ MoreOK(h, sock'[h][i]) /\ sock'[h][i].port \in {0, 1}
         /\ Dated(h, sock'[h][i], Isn(h)', Isn(Peer(h))')
<1>1. MoreOK(h, sock[h][i]) /\ sock[h][i].port \in {0, 1} /\ Dated(h, sock[h][i], Isn(h), Isn(Peer(h)))
  BY DEF AllOK
<1>2. Isn(h) \in Int /\ Isn(Peer(h)) \in Int /\ Isn(h)' \in Int /\ Isn(Peer(h))' \in Int
  BY NowFacts, NextFacts, PeerHost
<1>3. Isn(h) <= Isn(h)' /\ Isn(Peer(h)) <= Isn(Peer(h))'
  BY PeerHost DEF Onward
<1>4. sock[h][i] \in Sock
  BY NowFacts
<1>5. Dated(h, sock[h][i], Isn(h)', Isn(Peer(h))')
  BY <1>1, <1>2, <1>3, <1>4, DatedOn
<1> QED BY <1>1, <1>5

(* A new socket state is whole if it is dated.                             *)
LEMMA NewWhole ==
  ASSUME NetInv', plan' = plan, NEW h \in Hosts, NEW i \in Socks, MoreOK(h, sock'[h][i]),
         Dated(h, sock'[h][i], Isn(h)', Isn(Peer(h))'), Used(sock'[h][i])
  PROVE  Whole(h, sock'[h][i])
<1>1. SockOK(h, sock'[h][i]) /\ sock'[h][i].wrote <= plan.writes[h]
  BY NextFacts
<1> QED BY <1>1, WholeIfUsed

LEMMA ServerBegan ==
  ASSUME NetInv, AllOK, ClientPhase, OnePair, NetInv', plan' = plan, Onward, Frames(S), Apart(S),
         NEW i \in Socks, \A j \in Socks \ {i} : sock'[S][j] = sock[S][j] /\ ~Used(sock[S][j]),
         NEW s, NEW seg \in net[S], NEW r, r.s = sock'[S][i], r.s.port \in {0, 1},
         BeginsS(s, seg, Isn(S), r), Isn(S) < Isn(S)'
  PROVE  AllOK' /\ OnePair'
<1> DEFINE y == sock'[S][i]
<1>1. /\ "SYN" \in seg.flags /\ y.iss = Isn(S) /\ y.irs = seg.seq + 1 /\ y.rxi = y.irs
      /\ y.txo = y.iss /\ y.state \in {"SYNR", "CLOSED"} /\ MoreOK(S, y) /\ y.port \in {0, 1}
  BY DEF BeginsS
<1> HIDE DEF y
<1>2. /\ plan \in Plans /\ Isn(S) \in Isns(S) /\ Isn(S) \in Int /\ Isn(C) \in Int /\ Isn(C)' \in Int
      /\ net[C] \subseteq Seg /\ net[S] \subseteq Seg /\ Arriving(S, seg)
      /\ Isn(C) <= Isn(C)' /\ (Used(X) => Whole(C, X))
  BY NowFacts, NextFacts, TwoHosts, FirstSocket DEF Onward, X
<1>3. /\ \A m \in net[C] : Kind(m) /\ SegDated(m, Isn(S), Isn(C))
      /\ \A m \in net[S] : SegDated(m, Isn(C), Isn(S))
      /\ X.irs < Isn(S)
  BY TwoHosts, FirstSocket DEF AllOK, Dated, X
<1>4. Dated(S, y, Isn(S)', Isn(C)')
  <2>1. y.irs \in Isns(C) /\ y.irs < Isn(C)
    BY <1>1, <1>2, <1>3, TwoHosts DEF Arriving, SegOK, SegDated
  <2>2. y.irs # 0 /\ y.irs \in Int
    BY <2>1, IsnsPositive, IsnsAreInts, TwoHosts
  <2>3. y.irs < Isn(C)'
    BY <1>2, <2>1, <2>2
  <2> QED BY <1>1, <1>2, <2>1, <2>2, <2>3, TwoHosts DEF Dated
<1>5. Used(y) /\ Whole(S, y)
  <2>1. Used(y)
    BY <1>1, <1>2, IsnsPositive, TwoHosts DEF Used
  <2> QED BY <1>1, <1>4, <2>1, NewWhole, TwoHosts DEF y
<1>6. ASSUME NEW j \in Socks
      PROVE  /\ MoreOK(S, sock'[S][j]) /\ sock'[S][j].port \in {0, 1}
             /\ Dated(S, sock'[S][j], Isn(S)', Isn(Peer(S))')
  <2>1. CASE j = i
    BY <1>1, <1>4, <2>1, TwoHosts DEF y
  <2>2. CASE j # i
    BY <2>2, SockKept, TwoHosts
  <2> QED BY <2>1, <2>2
<1>7. AllOK'
  BY <1>6, AllKept, TwoHosts
<1>8. ASSUME NEW m \in net'[C]
      PROVE  m \in net[C] \/ Says(y, m)
  <2>1. CASE m \notin net[C]
    <3>1. PICK j \in Socks : Says(sock'[S][j], m)
      BY <1>8, <2>1, TwoHosts DEF Frames
    <3>2. CASE j = i
      BY <3>1, <3>2 DEF y
    <3>3. CASE j # i
      <4>1. Bare(m)
        BY <1>6, <3>1, <3>3, BareIfUnused DEF Used, MoreOK
      <4> QED BY <4>1 DEF Says
    <3> QED BY <3>2, <3>3
  <2> QED BY <2>1
<1>9. PICK k \in Socks : Pair(X, sock[S][k], net[C], net[S])
  BY DEF OnePair, Ends
<1>10. net'[S] \subseteq net[S]
  BY DEF Frames
<1>11. Pair(X, y, net'[C], net'[S])
  <2>1. /\ X.irs < y.iss
        /\ \A m \in net[C] : Kind(m) /\ SegDated(m, y.iss, Isn(C))
        /\ \A m \in net[S] : SegDated(m, Isn(C), y.iss)
    BY <1>1, <1>3
  <2> QED BY <1>1, <1>2, <1>5, <1>8, <1>9, <1>10, <2>1, PairBeginsServer
<1>12. X' = X
  BY FirstSocket, TwoHosts DEF Apart, X
<1>13. Ends(i)'
  BY <1>11, <1>12 DEF Ends, y
<1> QED BY <1>7, <1>13 DEF OnePair

LEMMA ClientFrames ==
  ASSUME AllOK', ClientPhase, Frames(C), \A j \in Socks \ {1} : sock'[C][j] = sock[C][j], NEW m \in net'[S]
  PROVE  m \in net[S] \/ Says(sock'[C][1], m)
<1>1. CASE m \notin net[S]
  <2>1. PICK j \in Socks : Says(sock'[C][j], m)
    BY <1>1, TwoHosts DEF Frames
  <2>2. CASE j = 1
    BY <2>1, <2>2
  <2>3. CASE j # 1
    <3>1. sock'[C][j].iss = 0 /\ Placed(sock'[C][j])
      BY <2>3, TwoHosts DEF ClientPhase, AllOK, MoreOK
    <3>2. Bare(m)
      BY <2>1, <3>1, BareIfUnused
    <3> QED BY <3>2 DEF Says
  <2> QED BY <2>2, <2>3
<1> QED BY <1>1

LEMMA ClientBegan ==
  ASSUME NetInv, AllOK, ClientPhase, OnePair, NetInv', plan' = plan, Onward, Frames(C), Apart(C),
         \A j \in Socks \ {1} : sock'[C][j] = sock[C][j],
         NEW s, NEW seg, NEW r, r.s = sock'[C][1], r.s.port \in {0, 1},
         BeginsC(s, seg, Isn(C), r), Isn(C) < Isn(C)'
  PROVE  AllOK' /\ OnePair'
<1> DEFINE x == sock'[C][1]
<1>1. x.iss = Isn(C) /\ x.irs = 0 /\ x.state = "SYNS" /\ MoreOK(C, x) /\ x.port \in {0, 1}
  BY DEF BeginsC
<1> HIDE DEF x
<1>2. /\ plan \in Plans /\ Isn(C) \in Isns(C) /\ Isn(S)' \in Isns(S)
      /\ net[C] \subseteq Seg /\ net[S] \subseteq Seg /\ \A m \in net[C] : Arriving(C, m)
      /\ \A k \in Socks : Used(sock[S][k]) => Whole(S, sock[S][k])
  BY NowFacts, NextFacts, TwoHosts
<1>3. /\ \A m \in net[C] : Kind(m) /\ SegDated(m, Isn(S), Isn(C))
      /\ \A m \in net[S] : Kind(m) /\ SegDated(m, Isn(C), Isn(S))
      /\ \A k \in Socks : sock[S][k].irs < Isn(C)
  BY TwoHosts DEF AllOK, Dated
<1>4. Dated(C, x, Isn(C)', Isn(S)')
  <2>1. 0 < Isn(S)'
    BY <1>2, IsnsPositive, TwoHosts
  <2> QED BY <1>1, <1>2, <2>1, TwoHosts DEF Dated
<1>5. Used(x) /\ Whole(C, x)
  <2>1. Used(x)
    BY <1>1, <1>2, IsnsPositive, TwoHosts DEF Used
  <2> QED BY <1>1, <1>4, <2>1, NewWhole, TwoHosts, FirstSocket DEF x
<1>6. ASSUME NEW j \in Socks
      PROVE  /\ MoreOK(C, sock'[C][j]) /\ sock'[C][j].port \in {0, 1}
             /\ Dated(C, sock'[C][j], Isn(C)', Isn(Peer(C))')
  <2>1. CASE j = 1
    BY <1>1, <1>4, <2>1, TwoHosts DEF x
  <2>2. CASE j # 1
    BY <2>2, SockKept, TwoHosts
  <2> QED BY <2>1, <2>2
<1>7. AllOK'
  BY <1>6, AllKept, TwoHosts
<1>8. \A m \in net'[S] : m \in net[S] \/ Says(x, m)
  BY <1>7, ClientFrames DEF x
<1>9. PICK k \in Socks : Ends(k)
  BY DEF OnePair
<1>10. net'[C] \subseteq net[C]
  BY DEF Frames
<1>11. Pair(x, sock[S][k], net'[C], net'[S])
  <2>1. /\ sock[S][k].irs < x.iss
        /\ \A m \in net[S] : Kind(m) /\ SegDated(m, x.iss, Isn(S))
        /\ \A m \in net[C] : SegDated(m, Isn(S), x.iss)
    BY <1>1, <1>3
  <2>2. ASSUME NEW m \in net[C], "SYN" \in m.flags PROVE Acks(m)
    <3>1. m.flags # {"SYN"}
      BY <1>2, TwoHosts DEF Arriving, SegOK
    <3> QED BY <1>3, <2>2, <3>1 DEF Kind, Acks
  <2>3. Pair(X, sock[S][k], net[C], net[S]) /\ (Used(sock[S][k]) => Whole(S, sock[S][k]))
    BY <1>2, <1>9 DEF Ends
  <2> QED BY <1>1, <1>2, <1>5, <1>8, <1>10, <2>1, <2>2, <2>3, PairBeginsClient
<1>12. \A j \in Socks : sock'[S][j] = sock[S][j]
  BY TwoHosts DEF Apart
<1>13. Ends(k)'
  BY <1>9, <1>11, <1>12 DEF Ends, X, x
<1> QED BY <1>7, <1>13 DEF OnePair

LEMMA ClientAnswered ==
  ASSUME NetInv, AllOK, ClientPhase, OnePair, NetInv', plan' = plan, Onward, Frames(C), Apart(C),
         \A j \in Socks \ {1} : sock'[C][j] = sock[C][j],
         NEW seg \in net[C], NEW r, r.s = sock'[C][1], r.s.port \in {0, 1}, Answers(X, seg, r)
  PROVE  AllOK' /\ OnePair'
<1> DEFINE x == sock'[C][1]
<1>1. /\ "SYN" \in seg.flags /\ x.iss = X.iss /\ x.irs = seg.seq + 1 /\ MoreOK(C, x)
      /\ x.port \in {0, 1} /\ X.state = "SYNS" /\ r.s = x
  BY DEF Answers
<1> HIDE DEF x
<1>2. /\ plan \in Plans /\ Isn(S) \in Int /\ Isn(S)' \in Int /\ Isn(S) <= Isn(S)'
      /\ net[C] \subseteq Seg /\ net[S] \subseteq Seg /\ net'[S] \subseteq Seg /\ Arriving(C, seg)
      /\ Ready(C, X) /\ (Used(X) => Whole(C, X))
      /\ \A k \in Socks : Used(sock[S][k]) => Whole(S, sock[S][k])
  BY NowFacts, NextFacts, TwoHosts, FirstSocket DEF X, Onward
<1>3. Whole(C, X)
  <2>1. X.iss # 0
    BY <1>1, <1>2, ReadyFacts, TwoHosts DEF Before
  <2> QED BY <1>2, <2>1 DEF Used
<1>4. Dated(C, X, Isn(C)', Isn(S)')
  <2>1. Isn(C) \in Int /\ Isn(C)' \in Int /\ Isn(C) <= Isn(C)' /\ X \in Sock
    BY NowFacts, NextFacts, TwoHosts, FirstSocket DEF X, Onward
  <2>2. Dated(C, X, Isn(C), Isn(S))
    BY TwoHosts, FirstSocket DEF AllOK, X
  <2> QED BY <1>2, <2>1, <2>2, DatedOn, TwoHosts
<1>5. Dated(C, x, Isn(C)', Isn(S)')
  <2>1. x.irs \in Isns(S) /\ x.irs < Isn(S)
    BY <1>1, <1>2, TwoHosts DEF Arriving, SegOK, SegDated, AllOK
  <2>2. x.irs \in Int
    BY <2>1, IsnsAreInts, TwoHosts
  <2>3. x.irs < Isn(S)'
    BY <1>2, <2>1, <2>2
  <2> QED BY <1>1, <1>4, <2>1, <2>3, TwoHosts DEF Dated
<1>6. Whole(C, x)
  <2>1. Used(x)
    BY <1>1, <1>3 DEF Whole, Used
  <2> QED BY <1>1, <1>5, <2>1, NewWhole, TwoHosts, FirstSocket DEF x
<1>7. ASSUME NEW j \in Socks
      PROVE  /\ MoreOK(C, sock'[C][j]) /\ sock'[C][j].port \in {0, 1}
             /\ Dated(C, sock'[C][j], Isn(C)', Isn(Peer(C))')
  <2>1. CASE j = 1
    BY <1>1, <1>5, <2>1, TwoHosts DEF x
  <2>2. CASE j # 1
    BY <2>2, SockKept, TwoHosts
  <2> QED BY <2>1, <2>2
<1>8. AllOK'
  BY <1>7, AllKept, TwoHosts
<1>9. \A m \in net'[S] : m \in net[S] \/ Says(x, m)
  BY <1>8, ClientFrames DEF x
<1>10. PICK k \in Socks : Ends(k)
  BY DEF OnePair
<1>11. net'[C] \subseteq net[C]
  BY DEF Frames
<1>12. Pair(x, sock[S][k], net'[C], net'[S])
  <2>1. Pair(X, sock[S][k], net[C], net[S]) /\ (Used(sock[S][k]) => Whole(S, sock[S][k]))
    BY <1>2, <1>10 DEF Ends
  <2> QED BY <1>1, <1>2, <1>3, <1>6, <1>9, <1>11, <2>1, PairAnswers
<1>13. \A j \in Socks : sock'[S][j] = sock[S][j]
  BY TwoHosts DEF Apart
<1>14. Ends(k)'
  BY <1>10, <1>12, <1>13 DEF Ends, X, x
<1> QED BY <1>8, <1>14 DEF OnePair

-----------------------------------------------------------------------------
(* The steps of the system                                                 *)

ConnSafe == NetInv /\ AllOK /\ ClientPhase /\ ServerPorts /\ OnePair

LEMMA PutFrames ==
  ASSUME NEW h \in Hosts, NEW n, n \in [Hosts -> SUBSET Seg], n[h] \subseteq net[h], 
         n[Peer(h)] \subseteq net[Peer(h)], NEW frames, net' = Put(n, h, frames),
         \A m \in frames : \E i \in Socks : Says(sock'[h][i], m) /\ m.port \in {0, 1}
  PROVE  Frames(h)
<1>1. Peer(h) \in Hosts /\ Peer(h) # h
  BY DEF Hosts, Peer, C, S
<1>2. net'[h] = n[h]
  BY <1>1 DEF Put
<1>3. net'[Peer(h)] \subseteq n[Peer(h)] \union frames
  BY <1>1 DEF Put
<1> QED BY <1>2, <1>3 DEF Frames

LEMMA SameNet ==
  ASSUME NetInv, NEW h \in Hosts, net' = net
  PROVE  Frames(h)
BY DEF Frames

LEMMA SameStarts ==
  ASSUME NetInv, AllOK, starts' = starts
  PROVE  Onward
<1>1. \A g \in Hosts : Isn(g)' = Isn(g) /\ Isn(g) \in Int
  BY NowFacts DEF Isn
<1> QED BY <1>1 DEF Onward

(* A function of the socket that changes no connection.                    *)
LEMMA GoesOn ==
  ASSUME NEW h \in Hosts, NEW s, NEW seg, NEW r, Goes(h, s, seg, r), r.s.port \in {0, 1}
  PROVE  MovesOn(h, s, seg, r.s)
BY DEF Goes, MovesOn

LEMMA StandsStill ==
  ASSUME NetInv, AllOK, NEW h \in Hosts, NEW i \in Socks, NEW seg
  PROVE  MovesOn(h, sock[h][i], seg, sock[h][i])
<1> DEFINE s == sock[h][i]
<1>1. s \in Sock /\ MoreOK(h, s) /\ s.port \in {0, 1}
  BY NowFacts DEF AllOK
<1> HIDE DEF s
<1>2. Moves(h, s, seg, Silent(s)) /\ Silent(s).s = s
  BY <1>1, Stays DEF Silent
<1> QED BY <1>1, <1>2, GoesOn DEF Moves, s

LEMMA NoSegArrives ==
  ASSUME NEW h \in Hosts, NEW in
  PROVE  Arriving(h, NoSeg) /\ Got(NoSeg, in)
BY NoFrameOK, PeerHost DEF Arriving, Got

(* Nothing but the network changes.                                        *)
LEMMA SameSocks ==
  ASSUME ConnSafe, NetInv', UNCHANGED <<plan, sock, eport, phase>>, Onward,
         NEW h \in Hosts, Frames(h)
  PROVE  ConnSafe'
<1>1. Moving(h, NoSeg)
  BY StandsStill DEF Moving, ConnSafe
<1>2. Apart(h)
  BY DEF Apart
<1>3. AllOK' /\ OnePair'
  BY <1>1, <1>2, NoSegArrives, MovingOK DEF ConnSafe
<1>4. ClientPhase' /\ ServerPorts'
  BY DEF ConnSafe, ClientPhase, ServerPorts, X
<1> QED BY <1>3, <1>4 DEF ConnSafe

LEMMA LoseSafe ==
  ASSUME ConnSafe, NetInv', UNCHANGED plan, NEW h \in Hosts, Lose(h)
  PROVE  ConnSafe'
<1>1. PICK seg \in net[h] : net' = [net EXCEPT ![h] = @ \ {seg}]
  BY DEF Lose
<1>2. net \in [Hosts -> SUBSET Seg]
  BY DEF ConnSafe, NetInv, NetsOK
<1>3. Frames(h)
  BY <1>1, <1>2, PeerHost DEF Frames
<1>4. Onward
  BY SameStarts DEF Lose, ConnSafe
<1> QED BY <1>3, <1>4, SameSocks DEF Lose

(* What a socket sends in a step.                                          *)
LEMMA SpokenFrames ==
  ASSUME ConnSafe, NEW h \in Hosts, NEW i \in Socks, NEW r, sock'[h][i] = r.s, r.s.port \in {0, 1},
         NEW seg, seg.port \in {0, 1}, Speaks(seg, r), NEW n, n \in [Hosts -> SUBSET Seg],
         n[h] \subseteq net[h], n[Peer(h)] \subseteq net[Peer(h)], net' = Put(n, h, r.tx)
  PROVE  Frames(h)
<1>1. \A m \in r.tx : Says(sock'[h][i], m) /\ m.port \in {0, 1}
  BY DEF Speaks
<1> QED BY <1>1, PutFrames

LEMMA OneSocket ==
  ASSUME ConnSafe, NEW h \in Hosts, NEW i \in Socks, NEW t, sock' = [sock EXCEPT ![h][i] = t]
  PROVE  /\ sock'[h][i] = t /\ \A j \in Socks \ {i} : sock'[h][j] = sock[h][j]
         /\ Apart(h)
<1>1. sock \in [Hosts -> [Socks -> Sock]]
  BY DEF ConnSafe, NetInv, TablesOK
<1>2. Peer(h) \in Hosts /\ Peer(h) # h
  BY DEF Hosts, Peer, C, S
<1> QED BY <1>1, <1>2 DEF Apart

(* One socket goes on with its connection, or is set aside.                *)
LEMMA OneGoes ==
  ASSUME ConnSafe, NetInv', UNCHANGED plan, NEW h \in Hosts, NEW i \in Socks, NEW t, 
         sock' = [sock EXCEPT ![h][i] = t], NEW seg, Arriving(h, seg), Got(seg, net[h]),
         Onward, Frames(h), MovesOn(h, sock[h][i], seg, t)
  PROVE  AllOK' /\ OnePair'
<1>1. sock'[h][i] = t /\ (\A j \in Socks \ {i} : sock'[h][j] = sock[h][j]) /\ Apart(h)
  BY OneSocket
<1>2. Moving(h, seg)
  <2>1. ASSUME NEW j \in Socks
        PROVE  MovesOn(h, sock[h][j], seg, sock'[h][j])
    <3>1. CASE j = i
      BY <1>1, <3>1
    <3>2. CASE j # i
      BY <1>1, <3>2, StandsStill DEF ConnSafe
    <3> QED BY <3>1, <3>2
  <2> QED BY <2>1 DEF Moving
<1> QED BY <1>1, <1>2, MovingOK DEF ConnSafe

(* The client's part of the system: its first socket, and the others,      *)
(* which are never used                                                    *)
LeadOK(t) ==
  /\ phase[C] = "start" => t.iss = 0 /\ t.state = "CLOSED" /\ eport' = 0
  /\ t.state \in {"ARPS", "ARPR"} => eport' = 0
  /\ phase[C] = "run" => t.state \notin Ending
SpareOK(t) == t.state = "CLOSED" /\ t.iss = 0 /\ eport' = eport

LEMMA OnePhase ==
  ASSUME ConnSafe, NEW h \in Hosts, NEW i \in Socks, NEW t, sock' = [sock EXCEPT ![h][i] = t],
         phase' = phase, h = C => (i = 1 /\ LeadOK(t)) \/ (i # 1 /\ SpareOK(t)), 
         h = S => eport' = eport
  PROVE  ClientPhase'
<1>1. sock'[h][i] = t /\ (\A j \in Socks \ {i} : sock'[h][j] = sock[h][j]) /\ Apart(h)
  BY OneSocket
<1>2. CASE h = S
  <2>1. \A j \in Socks : sock'[C][j] = sock[C][j]
    BY <1>1, <1>2, TwoHosts DEF Apart
  <2> QED BY <1>2, <2>1, FirstSocket DEF ConnSafe, ClientPhase, X
<1>3. CASE h = C /\ i = 1
  <2>1. sock'[C][1] = t /\ LeadOK(t)
    BY <1>1, <1>3
  <2>2. \A j \in Socks \ {1} : sock'[C][j].state = "CLOSED" /\ sock'[C][j].iss = 0
    BY <1>1, <1>3 DEF ConnSafe, ClientPhase
  <2> QED BY <2>1, <2>2 DEF ClientPhase, X, LeadOK
<1>4. CASE h = C /\ i # 1
  <2>1. sock'[C][1] = sock[C][1] /\ SpareOK(t)
    BY <1>1, <1>4, FirstSocket
  <2>2. \A j \in Socks \ {1} : sock'[C][j].state = "CLOSED" /\ sock'[C][j].iss = 0
    BY <1>1, <1>4, <2>1 DEF ConnSafe, ClientPhase, SpareOK
  <2> QED BY <2>1, <2>2 DEF ConnSafe, ClientPhase, X, SpareOK
<1> QED BY <1>2, <1>3, <1>4 DEF Hosts

(* A socket of the server has the port of the connection for itself.       *)
PortOK(i, t) ==
  /\ t.port = 1 => \A j \in Socks \ {i} : sock[S][j].port # 1
  /\ Used(t) => t.port = 1 \/ NSOCKS = 1

LEMMA OnePorts ==
  ASSUME ConnSafe, NEW h \in Hosts, NEW i \in Socks, NEW t, sock' = [sock EXCEPT ![h][i] = t],
         h = S => PortOK(i, t)
  PROVE  ServerPorts'
<1>1. sock'[h][i] = t /\ (\A j \in Socks \ {i} : sock'[h][j] = sock[h][j]) /\ Apart(h)
  BY OneSocket
<1>2. CASE h = C
  <2>1. \A j \in Socks : sock'[S][j] = sock[S][j]
    BY <1>1, <1>2, TwoHosts DEF Apart
  <2> QED BY <2>1 DEF ConnSafe, ServerPorts, Used
<1>3. CASE h = S
  <2>1. sock'[S][i] = t /\ (\A j \in Socks \ {i} : sock'[S][j] = sock[S][j]) /\ PortOK(i, t)
    BY <1>1, <1>3
  <2> QED BY <2>1 DEF ConnSafe, ServerPorts, Used, PortOK
<1> QED BY <1>2, <1>3 DEF Hosts

LEMMA SamePort ==
  ASSUME ConnSafe, NEW i \in Socks, NEW t, t.port = sock[S][i].port, t.iss = sock[S][i].iss
  PROVE  PortOK(i, t)
BY DEF ConnSafe, ServerPorts, Used, PortOK

LEMMA TimeoutSafe ==
  ASSUME ConnSafe, NetInv', UNCHANGED plan, NEW h \in Hosts, NEW i \in Socks, Timeout(h, i)
  PROVE  ConnSafe'
<1> DEFINE s == sock[h][i]
           r == Expire(s)
<1>1. /\ s.state # "CLOSED" /\ sock' = [sock EXCEPT ![h][i] = r.s] /\ net' = Put(net, h, r.tx)
      /\ UNCHANGED <<eport, starts, phase>>
  BY DEF Timeout, Apply
<1>2. Ready(h, s) /\ plan \in Plans /\ s.port \in {0, 1}
  BY NowFacts DEF ConnSafe, AllOK
<1>3. Goes(h, s, NoSeg, r) /\ r.s.port = s.port /\ Restless(s, r.s)
  BY <1>1, <1>2, ExpireGoes
<1> HIDE DEF r
<1>4. sock'[h][i] = r.s /\ (\A j \in Socks \ {i} : sock'[h][j] = sock[h][j]) /\ Apart(h)
  BY <1>1, OneSocket
<1>5. Onward
  BY <1>1, SameStarts DEF ConnSafe
<1>6. Frames(h)
  <2>1. net \in [Hosts -> SUBSET Seg]
    BY DEF ConnSafe, NetInv, NetsOK
  <2>2. NoSeg.port \in {0, 1} /\ Speaks(NoSeg, r) /\ r.s.port \in {0, 1}
    BY <1>2, <1>3 DEF NoSeg, Segment, Goes
  <2> QED BY <1>1, <1>4, <2>1, <2>2, SpokenFrames
<1>7. MovesOn(h, s, NoSeg, r.s) /\ StateStep(s, NoSeg, r.s) /\ r.s.iss = s.iss
  BY <1>2, <1>3, GoesOn DEF Goes, Held
<1>8. AllOK' /\ OnePair'
  BY <1>1, <1>5, <1>6, <1>7, NoSegArrives, OneGoes
<1>9. ClientPhase'
  <2>1. ASSUME h = C
        PROVE  i = 1 /\ LeadOK(r.s)
    <3>1. i = 1 /\ s = X
      BY <1>1, <2>1 DEF ConnSafe, ClientPhase, X
    <3> QED BY <1>1, <1>3, <1>7, <3>1 DEF LeadOK, ConnSafe, ClientPhase, StateStep, Restless
  <2> QED BY <1>1, <2>1, OnePhase
<1>10. ServerPorts'
  BY <1>1, <1>3, <1>7, SamePort, OnePorts
<1> QED BY <1>8, <1>9, <1>10 DEF ConnSafe

(* The client's program puts a key into the buffer, or shows what came.    *)
LEMMA TouchSafe ==
  ASSUME ConnSafe, NetInv', UNCHANGED <<plan, net, eport, starts, phase>>, phase[C] = "run",
         NEW t, sock' = [sock EXCEPT ![C][1] = t], Goes(C, X, NoSeg, Silent(t)), t.port = X.port,
         t.state = X.state
  PROVE  ConnSafe'
<1>1. C \in Hosts /\ 1 \in Socks /\ X = sock[C][1] /\ Silent(t).s = t
  BY FirstSocket, TwoHosts DEF X, Silent
<1>2. MovesOn(C, sock[C][1], NoSeg, t)
  <2>1. t.port \in {0, 1}
    BY <1>1 DEF ConnSafe, AllOK
  <2> QED BY <1>1, <2>1, GoesOn
<1>3. Onward /\ Frames(C)
  BY <1>1, SameStarts, SameNet DEF ConnSafe
<1>4. AllOK' /\ OnePair'
  BY <1>1, <1>2, <1>3, NoSegArrives, OneGoes
<1>5. LeadOK(t)
  BY DEF LeadOK, ConnSafe, ClientPhase
<1>6. ClientPhase' /\ ServerPorts'
  BY <1>1, <1>5, OnePhase, OnePorts, TwoHosts
<1> QED BY <1>4, <1>6 DEF ConnSafe

LEMMA KeySafe ==
  ASSUME ConnSafe, NetInv', UNCHANGED plan, Key
  PROVE  ConnSafe'
<1>1. phase[C] = "run" /\ X.state # "CLOSED" /\ UNCHANGED <<net, eport, starts, phase>>
  BY DEF Key, X
<1>2. sock \in [Hosts -> [Socks -> Sock]]
  BY DEF ConnSafe, NetInv, TablesOK
<1>3. sock' = [sock EXCEPT ![C][1] = AppPut(X, 1)]
  BY <1>2, TwoHosts, FirstSocket DEF Key, X
<1>4. Ready(C, X) /\ plan \in Plans
  BY NowFacts, TwoHosts, FirstSocket DEF ConnSafe, X
<1>5. X.state \notin Ending \union {"CLOSED"}
  BY <1>1 DEF ConnSafe, ClientPhase
<1>6. LET t == AppPut(X, 1) IN Goes(C, X, NoSeg, Silent(t)) /\ t.port = X.port /\ t.state = X.state
  BY <1>4, <1>5, TwoHosts, KeyGoes
<1> QED BY <1>1, <1>3, <1>6, TouchSafe

LEMMA DisplaySafe ==
  ASSUME ConnSafe, NetInv', UNCHANGED plan, Display
  PROVE  ConnSafe'
<1>1. phase[C] = "run" /\ UNCHANGED <<net, eport, starts, phase>>
  BY DEF Display
<1>2. sock \in [Hosts -> [Socks -> Sock]]
  BY DEF ConnSafe, NetInv, TablesOK
<1>3. sock' = [sock EXCEPT ![C][1] = [X EXCEPT !.unread = 0]]
  BY <1>2, TwoHosts, FirstSocket DEF Display, X
<1>4. Ready(C, X)
  BY NowFacts, TwoHosts, FirstSocket DEF ConnSafe, X
<1>5. LET t == [X EXCEPT !.unread = 0] IN 
      Goes(C, X, NoSeg, Silent(t)) /\ t.port = X.port /\ t.state = X.state
  BY <1>4, TwoHosts, DisplayGoes
<1> QED BY <1>1, <1>3, <1>5, TouchSafe

(* A program that ends changes all its sockets.                            *)
LEMMA EndSafe ==
  ASSUME ConnSafe, NetInv', UNCHANGED <<plan, eport, starts>>, NEW h \in Hosts,
         NEW p \in {"close", "reset"}, phase' = [phase EXCEPT ![h] = p], Frames(h), Apart(h),
         \A i \in Socks : MovesOn(h, sock[h][i], NoSeg, sock'[h][i]) 
                          /\ sock'[h][i].port = sock[h][i].port
  PROVE  ConnSafe'
<1>1. Moving(h, NoSeg)
  BY DEF Moving
<1>2. Onward
  BY SameStarts DEF ConnSafe
<1>3. AllOK' /\ OnePair'
  BY <1>1, <1>2, NoSegArrives, MovingOK DEF ConnSafe
<1>4. \A i \in Socks : 
        sock'[h][i].iss = sock[h][i].iss /\ StateStep(sock[h][i], NoSeg, sock'[h][i])
  BY DEF MovesOn, Held
<1>5. ClientPhase'
  <2>1. CASE h = S
    <3>1. \A j \in Socks : sock'[C][j] = sock[C][j]
      BY <2>1, TwoHosts DEF Apart
    <3>2. phase'[C] = phase[C]
      BY <2>1, TwoHosts DEF ConnSafe, NetInv, CountersOK
    <3> QED BY <3>1, <3>2, FirstSocket DEF ConnSafe, ClientPhase, X
  <2>2. CASE h = C
    <3>1. phase'[C] = p
      BY <2>2 DEF ConnSafe, NetInv, CountersOK
    <3>2. \A j \in Socks \ {1} : sock'[C][j].state = "CLOSED" /\ sock'[C][j].iss = 0
      BY <1>4, <2>2 DEF ConnSafe, ClientPhase, StateStep
    <3>3. sock'[C][1].state \in {"ARPS", "ARPR"} => eport = 0
      BY <1>4, <2>2, FirstSocket DEF ConnSafe, ClientPhase, StateStep, X
    <3> QED BY <3>1, <3>2, <3>3 DEF ClientPhase, X
  <2> QED BY <2>1, <2>2 DEF Hosts
<1>6. ServerPorts'
  <2>1. \A j \in Socks : sock'[S][j].port = sock[S][j].port /\ sock'[S][j].iss = sock[S][j].iss
    <3>1. CASE h = S
      BY <1>4, <3>1
    <3>2. CASE h = C
      BY <3>2, TwoHosts DEF Apart
    <3> QED BY <3>1, <3>2 DEF Hosts
  <2> QED BY <2>1 DEF ConnSafe, ServerPorts, Used
<1> QED BY <1>3, <1>5, <1>6 DEF ConnSafe

LEMMA OtherApart ==
  ASSUME ConnSafe, NEW h \in Hosts, NEW t, sock' = [sock EXCEPT ![h] = t]
  PROVE  sock'[h] = t /\ Apart(h)
<1>1. Peer(h) \in Hosts /\ Peer(h) # h
  BY DEF Hosts, Peer, C, S
<1> QED BY <1>1 DEF Apart, ConnSafe, NetInv, TablesOK

LEMMA CloseSafe ==
  ASSUME ConnSafe, NetInv', UNCHANGED plan, NEW h \in Hosts, Close(h)
  PROVE  ConnSafe'
<1>1. /\ phase' = [phase EXCEPT ![h] = "close"] /\ UNCHANGED <<net, eport, starts>>
      /\ sock' = [sock EXCEPT ![h] = [i \in Socks |-> close_tcp(sock[h][i])]]
  BY DEF Close, ConnSafe, NetInv, TablesOK
<1>2. Apart(h) /\ \A i \in Socks : sock'[h][i] = close_tcp(sock[h][i])
  <2> DEFINE t == [i \in Socks |-> close_tcp(sock[h][i])]
  <2>1. \A i \in Socks : t[i] = close_tcp(sock[h][i])
    OBVIOUS
  <2>2. sock' = [sock EXCEPT ![h] = t]
    BY <1>1
  <2> HIDE DEF t
  <2>3. sock'[h] = t /\ Apart(h)
    BY <2>2, OtherApart
  <2> QED BY <2>1, <2>3
<1>3. ASSUME NEW i \in Socks
      PROVE  MovesOn(h, sock[h][i], NoSeg, sock'[h][i]) /\ sock'[h][i].port = sock[h][i].port
  <2> DEFINE s == sock[h][i]
             r == Silent(close_tcp(s))
  <2>1. Ready(h, s) /\ s.port \in {0, 1}
    BY NowFacts DEF ConnSafe, AllOK
  <2>2. Goes(h, s, NoSeg, r) /\ r.s.port = s.port
    BY <2>1, CloseGoes
  <2>3. r.s = sock'[h][i]
    BY <1>2 DEF Silent
  <2> HIDE DEF r
  <2> QED BY <2>1, <2>2, <2>3, GoesOn
<1>4. Frames(h)
  BY <1>1, SameNet DEF ConnSafe
<1> QED BY <1>1, <1>2, <1>3, <1>4, EndSafe

LEMMA ResetSafe ==
  ASSUME ConnSafe, NetInv', UNCHANGED plan, NEW h \in Hosts, Reset(h)
  PROVE  ConnSafe'
<1> DEFINE r == [i \in Socks |-> reset_tcp(sock[h][i])]
           frames == UNION {r[i].tx : i \in Socks}
<1>1. /\ phase' = [phase EXCEPT ![h] = "reset"] /\ UNCHANGED <<eport, starts>>
      /\ sock' = [sock EXCEPT ![h] = [i \in Socks |-> r[i].s]]
      /\ net' = Put(net, h, frames)
  BY DEF Reset
<1>2. ASSUME NEW i \in Socks
      PROVE  Goes(h, sock[h][i], NoSeg, r[i]) /\ r[i].s.port = sock[h][i].port
  BY NowFacts, ResetGoes DEF ConnSafe
<1> HIDE DEF r
<1>3. Apart(h) /\ \A i \in Socks : sock'[h][i] = r[i].s
  <2> DEFINE t == [i \in Socks |-> r[i].s]
  <2>1. \A i \in Socks : t[i] = r[i].s
    OBVIOUS
  <2>2. sock' = [sock EXCEPT ![h] = t]
    BY <1>1
  <2> HIDE DEF t
  <2>3. sock'[h] = t /\ Apart(h)
    BY <2>2, OtherApart
  <2> QED BY <2>1, <2>3
<1>4. \A i \in Socks : sock[h][i].port \in {0, 1}
  BY DEF ConnSafe, AllOK
<1>5. ASSUME NEW i \in Socks
      PROVE  MovesOn(h, sock[h][i], NoSeg, sock'[h][i]) /\ sock'[h][i].port = sock[h][i].port
  BY <1>2, <1>3, <1>4, GoesOn
<1>6. Frames(h)
  <2>1. NoSeg.port = 0
    BY DEF NoSeg, Segment
  <2>2. ASSUME NEW m \in frames
        PROVE  \E i \in Socks : Says(sock'[h][i], m) /\ m.port \in {0, 1}
    <3>1. PICK i \in Socks : m \in r[i].tx
      OBVIOUS
    <3>2. Speaks(NoSeg, r[i]) 
      BY <1>2 DEF Goes
    <3>3. Says(r[i].s, m) /\ m.port \in {0, r[i].s.port, NoSeg.port}
      BY <3>1, <3>2 DEF Speaks
    <3> QED BY <1>2, <1>3, <1>4, <2>1, <3>3
  <2> HIDE DEF frames
  <2>3. net \in [Hosts -> SUBSET Seg]
    BY DEF ConnSafe, NetInv, NetsOK
  <2> QED BY <1>1, <2>2, <2>3, PutFrames
<1> QED BY <1>1, <1>3, <1>5, <1>6, EndSafe

(* A client that has not begun a connection can be joined to anything.     *)
LEMMA UnusedClient ==
  ASSUME OnePair, ~Used(sock'[C][1]), Apart(C), net'[C] \subseteq net[C]
  PROVE  OnePair'
<1>1. PICK k \in Socks : Ends(k)
  BY DEF OnePair
<1>2. \A j \in Socks : sock'[S][j] = sock[S][j]
  BY TwoHosts DEF Apart
<1>3. Used(sock'[S][k]) => ServerOK(sock'[S][k], net'[C])
  BY <1>1, <1>2, FewerServer DEF Ends, Pair
<1>4. Pair(sock'[C][1], sock'[S][k], net'[C], net'[S])
  BY <1>3 DEF Pair
<1>5. Ends(k)'
  BY <1>1, <1>2, <1>4 DEF Ends, Used, X
<1> QED BY <1>5 DEF OnePair

LEMMA OpenSafe ==
  ASSUME ConnSafe, NetInv', UNCHANGED plan, Open
  PROVE  ConnSafe'
<1> DEFINE r == InAopen([new_state(X, "AOPEN") EXCEPT !.port = 0])
           t == r.s
<1>1. /\ phase[C] = "start" /\ phase' = [phase EXCEPT ![C] = "run"] /\ UNCHANGED <<eport, starts>>
      /\ sock' = [sock EXCEPT ![C][1] = t] /\ net' = Put(net, C, r.tx)
  BY DEF Open, Apply, X
<1>2. C \in Hosts /\ 1 \in Socks /\ X = sock[C][1] /\ Peer(C) = S
  BY TwoHosts, FirstSocket DEF X
<1>3. X.iss = 0 /\ X.state = "CLOSED" /\ eport = 0 /\ X \in Sock
  BY <1>1, <1>2, NowFacts DEF ConnSafe, ClientPhase
<1>4. MoreOK(C, X) /\ Dated(C, X, Isn(C), Isn(S))
  BY <1>2 DEF ConnSafe, AllOK
<1>5. /\ t.iss = X.iss /\ t.irs = X.irs /\ t.txo = X.txo /\ t.tried = X.tried /\ t.rxi = X.rxi
      /\ t.txflags = X.txflags /\ t.port = 0 /\ t.state \in {"ARPS", "ARPR"}
      /\ r.tx \subseteq {ArpReq}
  <2>1. ASSUME NEW st \in {"ARPS", "ARPR"}, NEW u,
               u = new_state([[new_state(X, "AOPEN") EXCEPT !.port = 0] EXCEPT !.server = FALSE], st)
        PROVE  /\ u.iss = X.iss /\ u.irs = X.irs /\ u.txo = X.txo /\ u.tried = X.tried /\ u.rxi = X.rxi
               /\ u.txflags = X.txflags /\ u.port = 0 /\ u.state = st
    BY <1>3, <2>1 DEF Sock, new_state
  <2>2. \/ r = [s |-> new_state([[new_state(X, "AOPEN") EXCEPT !.port = 0] EXCEPT !.server = FALSE], "ARPS"),
                tx |-> {ArpReq}]
        \/ r = Silent(new_state([[new_state(X, "AOPEN") EXCEPT !.port = 0] EXCEPT !.server = FALSE], "ARPR"))
    BY DEF InAopen
  <2> HIDE DEF r
  <2> QED BY <2>1, <2>2 DEF Silent
<1> HIDE DEF r
<1>6. sock'[C][1] = t /\ (\A j \in Socks \ {1} : sock'[C][j] = sock[C][j]) /\ Apart(C)
  BY <1>1, <1>2, OneSocket
<1>7. Onward
  BY <1>1, SameStarts DEF ConnSafe
<1>8. Frames(C)
  <2>1. net \in [Hosts -> SUBSET Seg]
    BY DEF ConnSafe, NetInv, NetsOK
  <2>2. Says(t, ArpReq) /\ ArpReq.port = 0
    BY DEF Says, Bare, ArpReq, Segment
  <2> QED BY <1>1, <1>2, <1>5, <1>6, <2>1, <2>2, PutFrames
<1>9. MoreOK(C, t)
  BY <1>3, <1>4, <1>5 DEF MoreOK, Remembers, Blank, Placed, FinSent, Before
<1>10. Dated(C, t, Isn(C)', Isn(S)')
  <2>1. Isn(C)' = Isn(C) /\ Isn(S)' = Isn(S)
    BY <1>1 DEF Isn
  <2> QED BY <1>3, <1>4, <1>5, <2>1 DEF Dated
<1>11. AllOK'
  <2>1. ASSUME NEW i \in Socks
        PROVE  /\ MoreOK(C, sock'[C][i]) /\ sock'[C][i].port \in {0, 1}
               /\ Dated(C, sock'[C][i], Isn(C)', Isn(Peer(C))')
    <3>1. CASE i = 1
      BY <1>2, <1>5, <1>6, <1>9, <1>10, <3>1
    <3>2. CASE i # 1
      BY <1>2, <1>6, <1>7, <3>2, SockKept DEF ConnSafe
    <3> QED BY <3>1, <3>2
  <2> QED BY <1>2, <1>6, <1>7, <1>8, <2>1, AllKept DEF ConnSafe
<1>12. OnePair'
  BY <1>3, <1>5, <1>6, <1>8, UnusedClient DEF ConnSafe, Used, Frames
<1>13. ClientPhase'
  <2>1. phase'[C] = "run"
    BY <1>1, <1>2 DEF ConnSafe, NetInv, CountersOK
  <2>2. \A j \in Socks \ {1} : sock'[C][j].state = "CLOSED" /\ sock'[C][j].iss = 0
    BY <1>6 DEF ConnSafe, ClientPhase
  <2>3. t.state \notin Ending
    BY <1>5 DEF Ending, FinSent
  <2> QED BY <1>1, <1>3, <1>6, <2>1, <2>2, <2>3 DEF ClientPhase, X
<1>14. ServerPorts'
  BY <1>1, <1>2, TwoHosts, OnePorts
<1> QED BY <1>11, <1>12, <1>13, <1>14 DEF ConnSafe

LEMMA InitSockSafe ==
  ASSUME NEW h \in Hosts
  PROVE  /\ InitSock.iss = 0 /\ InitSock.irs = 0 /\ InitSock.port = 0 /\ InitSock.state = "CLOSED"
         /\ MoreOK(h, InitSock)
<1>1. /\ InitSock.iss = 0 /\ InitSock.irs = 0 /\ InitSock.port = 0 /\ InitSock.state = "CLOSED"
      /\ InitSock.txflags = {} /\ InitSock.txo = 0 /\ InitSock.tried = 0 /\ InitSock.rxi = 0
  BY DEF InitSock
<1> QED BY <1>1 DEF MoreOK, Remembers, Blank, Placed, FinSent, Before

LEMMA RestartSafe ==
  ASSUME ConnSafe, NetInv', UNCHANGED plan, NEW h \in Hosts, Restart(h)
  PROVE  ConnSafe'
<1>1. /\ phase' = [phase EXCEPT ![h] = Started[h]] /\ UNCHANGED <<net, starts>>
      /\ sock' = [sock EXCEPT ![h] = [i \in Socks |-> InitSock]]
      /\ eport' = IF h = C THEN 0 ELSE eport
  BY DEF Restart
<1>2. Apart(h) /\ \A i \in Socks : sock'[h][i] = InitSock
  <2> DEFINE t == [i \in Socks |-> InitSock]
  <2>1. \A i \in Socks : t[i] = InitSock
    OBVIOUS
  <2>2. sock' = [sock EXCEPT ![h] = t]
    BY <1>1
  <2> HIDE DEF t
  <2>3. sock'[h] = t /\ Apart(h)
    BY <2>2, OtherApart
  <2> QED BY <2>1, <2>3
<1>3. /\ InitSock.iss = 0 /\ InitSock.irs = 0 /\ InitSock.port = 0 /\ InitSock.state = "CLOSED"
      /\ MoreOK(h, InitSock)
  BY InitSockSafe
<1> HIDE DEF InitSock
<1>4. Onward /\ Frames(h)
  BY <1>1, SameStarts, SameNet DEF ConnSafe
<1>5. AllOK'
  <2>1. 0 < Isn(h)' /\ 0 < Isn(Peer(h))'
    BY NextFacts, IsnsPositive, PeerHost
  <2>2. ASSUME NEW i \in Socks
        PROVE  /\ MoreOK(h, sock'[h][i]) /\ sock'[h][i].port \in {0, 1}
               /\ Dated(h, sock'[h][i], Isn(h)', Isn(Peer(h))')
    BY <1>2, <1>3, <2>1 DEF Dated
  <2> QED BY <1>2, <1>4, <2>2, AllKept DEF ConnSafe
<1>6. OnePair'
  <2>1. CASE h = C
    <3>1. ~Used(sock'[C][1])
      BY <1>2, <1>3, <2>1, FirstSocket DEF Used
    <3> QED BY <1>1, <1>2, <2>1, <3>1, UnusedClient DEF ConnSafe
  <2>2. CASE h = S
    <3>1. PICK k \in Socks : Ends(k)
      BY DEF ConnSafe, OnePair
    <3>2. \A j \in Socks : ~Used(sock'[S][j])
      BY <1>2, <1>3, <2>2 DEF Used
    <3>3. sock'[C][1] = sock[C][1] /\ net' = net
      BY <1>1, <1>2, <2>2, TwoHosts, FirstSocket DEF Apart
    <3>4. Pair(sock'[C][1], sock'[S][k], net'[C], net'[S])
      BY <3>1, <3>2, <3>3 DEF Ends, Pair, X
    <3>5. Ends(k)'
      BY <3>2, <3>4 DEF Ends, Used, X
    <3> QED BY <3>5 DEF OnePair
  <2> QED BY <2>1, <2>2 DEF Hosts
<1>7. ClientPhase'
  <2>1. CASE h = S
    <3>1. \A j \in Socks : sock'[C][j] = sock[C][j]
      BY <1>2, <2>1, TwoHosts DEF Apart
    <3>2. phase'[C] = phase[C] /\ eport' = eport
      BY <1>1, <2>1, TwoHosts DEF ConnSafe, NetInv, CountersOK
    <3> QED BY <3>1, <3>2, FirstSocket DEF ConnSafe, ClientPhase, X
  <2>2. CASE h = C
    <3>1. eport' = 0 /\ \A j \in Socks : sock'[C][j].state = "CLOSED" /\ sock'[C][j].iss = 0
      BY <1>1, <1>2, <1>3, <2>2
    <3>2. "CLOSED" \notin Ending
      BY DEF Ending, FinSent
    <3> QED BY <3>1, <3>2, FirstSocket DEF ClientPhase, X
  <2> QED BY <2>1, <2>2 DEF Hosts
<1>8. ServerPorts'
  <2>1. CASE h = S
    <3>1. \A j \in Socks : sock'[S][j].port = 0 /\ ~Used(sock'[S][j])
      BY <1>2, <1>3, <2>1 DEF Used
    <3> QED BY <3>1 DEF ServerPorts, Used
  <2>2. CASE h = C
    <3>1. \A j \in Socks : sock'[S][j] = sock[S][j]
      BY <1>2, <2>2, TwoHosts DEF Apart
    <3> QED BY <3>1 DEF ConnSafe, ServerPorts, Used
  <2> QED BY <2>1, <2>2 DEF Hosts
<1> QED BY <1>5, <1>6, <1>7, <1>8 DEF ConnSafe

(* The next sequence start is later than those before.                     *)
LEMMA StartsOn ==
  ASSUME ConnSafe, NEW h \in Hosts, NEW d \in {0, 1}, starts' = [starts EXCEPT ![h] = @ + d]
  PROVE  Onward /\ (d = 1 => Isn(h) < Isn(h)')
<1>1. starts \in [Hosts -> Nat]
  BY DEF ConnSafe, NetInv, CountersOK
<1>2. ASSUME NEW g \in Hosts
      PROVE  Isn(g) <= Isn(g)' /\ (g = h /\ d = 1 => Isn(g) < Isn(g)')
  <2>1. PICK k \in Nat : k = starts[g]
    BY <1>1
  <2>2. PICK e \in {0, 1} : starts'[g] = k + e /\ (g = h /\ d = 1 => e = 1)
    BY <1>1, <2>1
  <2>3. PICK o \in Int : o = Offset(g)
    BY StepSize DEF Offset
  <2>4. PICK st \in Nat : st = IsnStep /\ st > 0
    BY StepSize
  <2>5. Isn(g) = st * (k + 1) + o
    BY <2>1, <2>3, <2>4 DEF Isn
  <2>6. Isn(g)' = st * (k + e + 1) + o
    BY <2>2, <2>3, <2>4 DEF Isn
  <2>7. st * (k + 1 + 1) = st * (k + 1) + st
    OBVIOUS
  <2>8. e = 0 \/ e = 1
    OBVIOUS
  <2> QED BY <2>2, <2>4, <2>5, <2>6, <2>7, <2>8
<1> QED BY <1>2 DEF Onward

(* What tcp_receive and tcp_poll give to tsock_rx: a socket of the table,  *)
(* which may have been given the port of the segment or an answer of ARP.  *)
Alike(s0, s) ==
  /\ s.iss = s0.iss /\ s.irs = s0.irs /\ s.txo = s0.txo /\ s.tried = s0.tried
  /\ s.rxi = s0.rxi /\ s.wrote = s0.wrote
  /\ s.state = s0.state \/ (s0.state = "ARPS" /\ s.state = "ARPR")
Given(h, i, s, seg) ==
  /\ Ready(h, s) /\ Alike(sock[h][i], s) /\ s.port \in {0, 1}
  /\ h = S => PortOK(i, s)
  /\ s.state = "CLOSED" /\ seg.flags = {"SYN"} => s.port = 1

LEMMA AlikeGoes ==
  ASSUME NEW h \in Hosts, NEW s0, NEW s, Alike(s0, s), NEW seg, NEW r, Goes(h, s, seg, r), 
         s.state = "ARPR" => r.s.state = "CLOSED", r.s.port \in {0, 1}
  PROVE  MovesOn(h, s0, seg, r.s)
<1>1. Held(s0, r.s) /\ RxStep(s0, seg, r.s) /\ TxStep(s0, seg, r.s)
  BY DEF Alike, Goes, Held, RxStep, TxStep, Trial
<1>2. StateStep(s0, seg, r.s)
  <2>1. CASE s.state = s0.state
    BY <2>1 DEF Alike, Goes, StateStep, Trial
  <2>2. CASE s0.state = "ARPS" /\ s.state = "ARPR"
    BY <2>2 DEF Alike, Goes, StateStep, Trial, Writing, FinRcvd
  <2> QED BY <2>1, <2>2 DEF Alike
<1> QED BY <1>1, <1>2 DEF Goes, MovesOn

(* A socket that waits for ARP is the client's.                            *)
LEMMA WaitingIsFirst ==
  ASSUME ConnSafe, NEW h \in Hosts, NEW i \in Socks, NEW s, Alike(sock[h][i], s),
         s.state \in {"ARPS", "ARPR", "SYNS"}
  PROVE  h = C /\ i = 1 /\ (s.state \in {"ARPS", "ARPR"} => eport = 0)
<1>1. sock[h][i].state \in {"ARPS", "ARPR", "SYNS"}
      /\ (s.state \in {"ARPS", "ARPR"} => sock[h][i].state \in {"ARPS", "ARPR"})
  BY DEF Alike
<1>2. h = C
  BY <1>1, NowFacts DEF ConnSafe, Ready, SockOK, Begun, Numbers, Hosts
<1> QED BY <1>1, <1>2 DEF ConnSafe, ClientPhase, X

LEMMA GotFacts ==
  ASSUME ConnSafe, NEW h \in Hosts, NEW seg, Got(seg, net[h])
  PROVE  /\ seg.port \in {0, 1} /\ ("FIN" \in seg.flags => seg.data = <<>>)
         /\ seg.flags # {} => seg \in net[h]
         /\ "SYN" \in seg.flags => seg.port = 1
<1>1. CASE seg = NoSeg
  BY <1>1 DEF NoSeg, Segment
<1>2. CASE seg \in net[h]
  BY <1>2 DEF ConnSafe, AllOK, Kind
<1> QED BY <1>1, <1>2 DEF Got

LEMMA RunSafe ==
  ASSUME ConnSafe, NetInv', UNCHANGED <<plan, phase>>, NEW h \in Hosts, NEW i \in Socks, NEW s,
         NEW seg, Given(h, i, s, seg), Arriving(h, seg), Got(seg, net[h]),
         NEW n, n \in [Hosts -> SUBSET Seg], n[h] \subseteq net[h], n[Peer(h)] \subseteq net[Peer(h)],
         Run(h, i, s, seg, n)
  PROVE  ConnSafe'
<1>1. PICK up \in plan.ups[h] :
        LET r == tsock_rx(s, seg, up, Isn(h), eport + 1)
            fresh == s.state = "ARPR" \/ (s.state = "CLOSED" /\ seg.flags = {"SYN"})
        IN /\ sock' = [sock EXCEPT ![h][i] = r.s] /\ net' = Put(n, h, r.tx)
           /\ starts' = [starts EXCEPT ![h] = @ + (IF fresh THEN 1 ELSE 0)]
           /\ eport' = IF s.state = "ARPR" THEN eport + 1 ELSE eport
  BY DEF Run, Apply
<1> DEFINE r == tsock_rx(s, seg, up, Isn(h), eport + 1)
           fresh == s.state = "ARPR" \/ (s.state = "CLOSED" /\ seg.flags = {"SYN"})
<1>2. /\ plan \in Plans /\ Isn(h) \in Isns(h) /\ eport \in Int
      /\ sock[h][i].port \in {0, 1}
  BY NowFacts DEF ConnSafe, AllOK, NetInv, CountersOK
<1>3. /\ Ready(h, s) /\ Alike(sock[h][i], s) /\ s.port \in {0, 1} /\ (h = S => PortOK(i, s))
      /\ s.state = "CLOSED" /\ seg.flags = {"SYN"} => s.port = 1
  BY DEF Given
<1>4. seg.port \in {0, 1} /\ ("FIN" \in seg.flags => seg.data = <<>>) /\ (seg.flags # {} => seg \in net[h])
      /\ ("SYN" \in seg.flags => seg.port = 1)
  BY GotFacts
<1>5. Outcome(h, s, seg, Isn(h), r, up.ok)
  <2>1. s.state = "ARPR" => eport + 1 = 1
    BY <1>2, <1>3, WaitingIsFirst
  <2>2. eport + 1 \in Int
    BY <1>2
  <2> QED BY <1>2, <1>3, <1>4, <2>1, <2>2, RxGoes
<1>6. sock' = [sock EXCEPT ![h][i] = r.s] /\ net' = Put(n, h, r.tx)
      /\ starts' = [starts EXCEPT ![h] = @ + (IF fresh THEN 1 ELSE 0)]
      /\ (s.state # "ARPR" => eport' = eport)
  BY <1>1
<1>7. h = C => up.ok
  BY <1>2, TcpNetAssumption DEF PlanOK
<1> HIDE DEF r, fresh
<1>8. Onward /\ (fresh => Isn(h) < Isn(h)')
  <2>1. PICK d \in {0, 1} : d = (IF fresh THEN 1 ELSE 0) /\ (fresh => d = 1)
    OBVIOUS
  <2>2. starts' = [starts EXCEPT ![h] = @ + d]
    BY <1>6, <2>1
  <2>3. Onward /\ (d = 1 => Isn(h) < Isn(h)')
    BY <2>2, StartsOn
  <2> QED BY <2>1, <2>3
<1>9. sock'[h][i] = r.s /\ (\A j \in Socks \ {i} : sock'[h][j] = sock[h][j]) /\ Apart(h)
  BY <1>6, OneSocket
<1>10. r.s.port \in {0, 1} /\ (h = S => r.s.port = s.port) /\ Speaks(seg, r)
  BY <1>3, <1>5, TwoHosts DEF Outcome, Goes, BeginsS, BeginsC, Answers
<1>11. Frames(h)
  BY <1>4, <1>6, <1>9, <1>10, SpokenFrames
<1>12. \/ Goes(h, s, seg, r) /\ (up.ok => Restless(s, r.s)) /\ (s.state = "ARPR" => r.s.state = "CLOSED")
       \/ h = S /\ BeginsS(s, seg, Isn(h), r)
       \/ h = C /\ (BeginsC(s, seg, Isn(h), r) \/ Answers(s, seg, r))
  BY <1>5 DEF Outcome
<1>13. AllOK' /\ OnePair' /\ (h = S => PortOK(i, r.s))
       /\ (h = C => (i = 1 /\ LeadOK(r.s)) \/ (i # 1 /\ SpareOK(r.s)))
  <2>1. CASE Goes(h, s, seg, r) /\ (up.ok => Restless(s, r.s)) /\ (s.state = "ARPR" => r.s.state = "CLOSED")
    <3>1. MovesOn(h, sock[h][i], seg, r.s)
      BY <1>3, <1>10, <2>1, AlikeGoes
    <3>2. AllOK' /\ OnePair'
      BY <1>6, <1>8, <1>11, <3>1, OneGoes
    <3>3. r.s.iss = s.iss /\ StateStep(s, seg, r.s) /\ sock[h][i].iss = s.iss
      BY <1>3, <2>1 DEF Goes, Held, Alike
    <3>4. h = S => PortOK(i, r.s)
      BY <1>3, <1>10, <3>3 DEF PortOK, Used
    <3>5. ASSUME h = C, i = 1
          PROVE  LeadOK(r.s)
      <4>1. s.state = X.state \/ s.state = "ARPR"
        BY <1>3, <3>5 DEF Alike, X
      <4>2. phase[C] = "start" => r.s.iss = 0 /\ r.s.state = "CLOSED" /\ eport' = 0
        <5>1. phase[C] = "start" => X.iss = 0 /\ X.state = "CLOSED" /\ eport = 0
          BY DEF ConnSafe, ClientPhase
        <5>2. X.state = "CLOSED" => s.state = "CLOSED"
          BY <1>3, <3>5 DEF Alike, X
        <5> QED BY <1>6, <3>3, <3>5, <5>1, <5>2 DEF StateStep, X
      <4>3. r.s.state \in {"ARPS", "ARPR"} => eport' = 0
        <5>1. r.s.state \in {"ARPS", "ARPR"} => s.state = r.s.state /\ s.state # "ARPR"
          BY <2>1, <3>3 DEF StateStep
        <5> QED BY <1>3, <1>6, <5>1, WaitingIsFirst
      <4>4. phase[C] = "run" => r.s.state \notin Ending
        BY <1>7, <2>1, <3>5, <4>1 DEF ConnSafe, ClientPhase, Restless, Ending, FinSent
      <4> QED BY <4>2, <4>3, <4>4 DEF LeadOK
    <3>6. ASSUME h = C, i # 1
          PROVE  SpareOK(r.s)
      <4>1. sock[h][i].state = "CLOSED" /\ sock[h][i].iss = 0
        BY <3>6 DEF ConnSafe, ClientPhase
      <4>2. s.state = "CLOSED"
        BY <1>3, <4>1 DEF Alike
      <4> QED BY <1>6, <3>3, <4>1, <4>2 DEF SpareOK, StateStep
    <3> QED BY <3>2, <3>4, <3>5, <3>6
  <2>2. CASE h = S /\ BeginsS(s, seg, Isn(h), r)
    <3>1. s.state = "CLOSED" /\ seg.flags = {"SYN"}
      BY <2>2 DEF BeginsS
    <3>2. s.port = 1 /\ PortOK(i, s) /\ seg \in net[S] /\ r.s.port = 1 /\ Isn(S) < Isn(S)'
      BY <1>3, <1>4, <1>8, <1>10, <2>2, <3>1 DEF fresh
    <3>3. \A j \in Socks \ {i} : ~Used(sock[S][j])
      BY <3>2, TcpNetAssumption DEF PortOK, ConnSafe, ServerPorts, Socks
    <3>4. AllOK' /\ OnePair'
      BY <1>8, <1>9, <1>11, <2>2, <3>2, <3>3, ServerBegan DEF ConnSafe
    <3>5. PortOK(i, r.s)
      BY <3>2 DEF PortOK
    <3> QED BY <2>2, <3>4, <3>5, TwoHosts
  <2>3. CASE h = C /\ BeginsC(s, seg, Isn(h), r)
    <3>1. s.state = "ARPR" /\ r.s.state = "SYNS"
      BY <2>3 DEF BeginsC
    <3>2. i = 1 
      BY <1>3, <3>1, WaitingIsFirst
    <3>3. Isn(C) < Isn(C)'
      BY <1>8, <2>3, <3>1 DEF fresh
    <3>4. AllOK' /\ OnePair'
      BY <1>8, <1>9, <1>10, <1>11, <2>3, <3>2, <3>3, ClientBegan DEF ConnSafe
    <3>5. phase[C] # "start"
      BY <1>3, <2>3, <3>1, <3>2 DEF Alike, ConnSafe, ClientPhase, X
    <3>6. LeadOK(r.s)
      BY <3>1, <3>5 DEF LeadOK, Ending, FinSent
    <3> QED BY <2>3, <3>2, <3>4, <3>6, TwoHosts
  <2>4. CASE h = C /\ Answers(s, seg, r)
    <3>1. s.state = "SYNS" /\ r.s.state = "EST" /\ seg.flags = {"SYN", "ACK"}
      BY <2>4 DEF Answers
    <3>2. i = 1 
      BY <1>3, <3>1, WaitingIsFirst
    <3>3. Answers(X, seg, r) /\ X.state = "SYNS"
      BY <1>3, <2>4, <3>1, <3>2 DEF Alike, Answers, X
    <3>4. AllOK' /\ OnePair'
      BY <1>4, <1>8, <1>9, <1>10, <1>11, <2>4, <3>1, <3>2, <3>3, ClientAnswered DEF ConnSafe
    <3>5. phase[C] # "start"
      BY <3>3 DEF ConnSafe, ClientPhase
    <3>6. LeadOK(r.s)
      BY <3>1, <3>5 DEF LeadOK, Ending, FinSent
    <3> QED BY <2>4, <3>2, <3>4, <3>6, TwoHosts
  <2> QED BY <1>12, <2>1, <2>2, <2>3, <2>4
<1>14. ClientPhase'
  <2>1. h = S => eport' = eport
    BY <1>3, <1>6, WaitingIsFirst, TwoHosts
  <2> QED BY <1>6, <1>13, <2>1, OnePhase
<1>15. ServerPorts'
  BY <1>6, <1>13, OnePorts
<1> QED BY <1>13, <1>14, <1>15 DEF ConnSafe

(* A socket as it is in the table                                          *)
LEMMA GivenHere ==
  ASSUME ConnSafe, NEW h \in Hosts, NEW i \in Socks, NEW seg,
         sock[h][i].state = "CLOSED" /\ seg.flags = {"SYN"} => sock[h][i].port = 1
  PROVE  Given(h, i, sock[h][i], seg)
<1>1. Ready(h, sock[h][i]) /\ sock[h][i].port \in {0, 1}
  BY NowFacts DEF ConnSafe, AllOK
<1>2. h = S => PortOK(i, sock[h][i])
  BY SamePort
<1> QED BY <1>1, <1>2 DEF Given, Alike

LEMMA PollSafe ==
  ASSUME ConnSafe, NetInv', UNCHANGED plan, NEW h \in Hosts, NEW i \in Socks, Poll(h, i)
  PROVE  ConnSafe'
<1>1. sock[h][i].state # "CLOSED" /\ Run(h, i, sock[h][i], NoSeg, net) /\ phase' = phase
  BY DEF Poll
<1>2. net \in [Hosts -> SUBSET Seg]
  BY DEF ConnSafe, NetInv, NetsOK
<1> QED BY <1>1, <1>2, GivenHere, NoSegArrives, RunSafe

(* The program has taken a frame from the network.                         *)
Taken(h, n) == n \in [Hosts -> SUBSET Seg] /\ n[h] \subseteq net[h] /\ n[Peer(h)] \subseteq net[Peer(h)]

(* The answer to a frame that concerns no socket                           *)
LEMMA ReplySafe ==
  ASSUME ConnSafe, NetInv', UNCHANGED <<plan, sock, eport, starts, phase>>, NEW h \in Hosts,
         NEW n, Taken(h, n), NEW m, Bare(m), m.port \in {0, 1}, net' \in {n, Put(n, h, {m})}
  PROVE  ConnSafe'
<1>1. Onward
  BY SameStarts DEF ConnSafe
<1>2. Frames(h)
  <2>1. CASE net' = n
    BY <2>1 DEF Frames, Taken
  <2>2. CASE net' = Put(n, h, {m})
    <3>1. \A a \in {m} : \E i \in Socks : Says(sock'[h][i], a) /\ a.port \in {0, 1}
      BY FirstSocket DEF Says
    <3> QED BY <2>2, <3>1, PutFrames DEF Taken
  <2> QED BY <2>1, <2>2
<1> QED BY <1>1, <1>2, SameSocks

LEMMA ArpSafe ==
  ASSUME ConnSafe, NetInv', UNCHANGED <<plan, phase>>, NEW h \in Hosts, NEW n, Taken(h, n),
         arp_receive(h, n)
  PROVE  ConnSafe'
<1>1. CASE Waiting(h) = {}
  <2>1. Bare(ArpResp) /\ ArpResp.port \in {0, 1}
    BY DEF Bare, ArpResp, Segment
  <2>2. net' = n /\ UNCHANGED <<sock, eport, starts>>
    BY <1>1 DEF arp_receive
  <2> QED BY <2>1, <2>2, ReplySafe
<1>2. CASE Waiting(h) # {}
  <2> DEFINE i == First(Waiting(h))
             s0 == sock[h][i]
             s == new_state(s0, "ARPR")
  <2>1. i \in Waiting(h)
    BY <1>2, FirstOK DEF Waiting
  <2>2. Run(h, i, s, NoSeg, n)
    BY <1>2 DEF arp_receive
  <2> HIDE DEF i
  <2>3. i \in Socks /\ s0.state = "ARPS"
    BY <2>1 DEF Waiting
  <2>4. Ready(h, s0) /\ s0.port \in {0, 1} /\ "ARPR" \in States
    BY <2>3, NowFacts DEF ConnSafe, AllOK, States
  <2>5. h = C
    BY <2>3, WaitingIsFirst DEF Alike
  <2> HIDE DEF s0
  <2>6. Stream(h, s0) /\ Begun(h, s0) /\ MoreOK(h, s0)
    BY <2>4 DEF Ready, SockOK
  <2>7. Stream(h, s) /\ Calm(s0, s) /\ s.state = "ARPR" /\ s.txflags = s0.txflags
    BY <2>4, <2>6, PieceState
  <2> HIDE DEF s
  <2>8. SockOK(h, s)
    BY <2>3, <2>5, <2>6, <2>7, TwoHosts DEF SockOK, Begun, Numbers, LastFlags
  <2>9. MoreOK(h, s)
    BY <2>3, <2>6, <2>7 DEF MoreOK, Remembers, Blank, Placed, Calm, Same, FinSent, Before
  <2>10. Given(h, i, s, NoSeg)
    BY <2>3, <2>4, <2>5, <2>7, <2>8, <2>9, TwoHosts DEF Given, Ready, Alike, Calm, Same, s0
  <2> QED BY <2>2, <2>3, <2>10, NoSegArrives, RunSafe DEF Taken
<1> QED BY <1>1, <1>2

LEMMA SegmentSafe ==
  ASSUME ConnSafe, NetInv', UNCHANGED <<plan, phase>>, NEW h \in Hosts, NEW n, Taken(h, n),
         NEW seg \in net[h], tcp_receive(h, seg, n)
  PROVE  ConnSafe'
<1>1. Arriving(h, seg) /\ Got(seg, net[h])
  BY NowFacts DEF ConnSafe, Got
<1>2. seg.port \in {0, 1} /\ ("SYN" \in seg.flags => seg.port = 1)
  BY <1>1, GotFacts
<1>3. CASE Matching(h, seg) # {}
  <2> DEFINE i == First(Matching(h, seg))
  <2>1. i \in Matching(h, seg)
    BY <1>3, FirstOK DEF Matching
  <2>2. Run(h, i, sock[h][i], seg, n)
    BY <1>3 DEF tcp_receive
  <2> HIDE DEF i
  <2>3. i \in Socks /\ sock[h][i].port = seg.port
    BY <2>1 DEF Matching
  <2>4. Given(h, i, sock[h][i], seg)
    BY <1>2, <2>3, GivenHere
  <2> QED BY <1>1, <2>2, <2>3, <2>4, RunSafe DEF Taken
<1>4. CASE Matching(h, seg) = {} /\ Idle(h) # {}
  <2> DEFINE i == First(Idle(h))
             s0 == sock[h][i]
             s == [s0 EXCEPT !.port = seg.port]
  <2>1. i \in Idle(h)
    BY <1>4, FirstOK DEF Idle
  <2>2. Run(h, i, s, seg, n)
    BY <1>4 DEF tcp_receive
  <2> HIDE DEF i
  <2>3. i \in Socks /\ s0.state = "CLOSED"
    BY <2>1 DEF Idle
  <2>4. Ready(h, s0) /\ s0 \in Sock /\ seg.port \in Int
    BY <1>2, <2>3, NowFacts DEF ConnSafe
  <2>5. s.port = seg.port /\ s.state = "CLOSED" /\ Alike(s0, s) 
    BY <2>3, <2>4 DEF Sock, Alike
  <2>6. SockOK(h, s)
    <3>1. s \in Sock
      BY <2>4 DEF Sock
    <3> QED BY <2>4, <3>1 DEF Ready, Sock, SockOK, Stream, TxStream, RxStream, Begun, Numbers, LastFlags
  <2>7. MoreOK(h, s)
    <3>1. s.txflags = s0.txflags
      BY <2>4 DEF Sock
    <3> HIDE DEF s
    <3> QED BY <2>3, <2>4, <2>5, <3>1 
         DEF Ready, Alike, MoreOK, Remembers, Blank, Placed, FinSent, Before
  <2> HIDE DEF s
  <2>8. ASSUME h = S
        PROVE  PortOK(i, s)
    <3>1. \A j \in Socks : sock[S][j].port # seg.port
      BY <1>4, <2>8 DEF Matching
    <3>2. ASSUME Used(s), s.port # 1
          PROVE  NSOCKS = 1
      <4>1. Used(sock[S][i])
        BY <2>5, <2>8, <3>2 DEF Used, Alike, s0
      <4>2. sock[S][i].port = 1 \/ NSOCKS = 1
        BY <2>3, <4>1 DEF ConnSafe, ServerPorts
      <4>3. \A j \in Socks : sock[S][j].port = 1
        BY <1>2, <2>5, <3>1, <3>2, TwoHosts DEF ConnSafe, AllOK
      <4>4. \A j \in Socks : j = i
        BY <2>3, <4>3 DEF ConnSafe, ServerPorts
      <4>5. NSOCKS \in Socks /\ 1 \in Socks
        BY TcpNetAssumption DEF Socks
      <4> QED BY <4>4, <4>5
    <3> QED BY <2>5, <3>1, <3>2 DEF PortOK
  <2>9. Given(h, i, s, seg)
    BY <1>2, <2>5, <2>6, <2>7, <2>8 DEF Given, Ready, s0
  <2> QED BY <1>1, <2>2, <2>3, <2>9, RunSafe DEF Taken
<1>5. CASE Matching(h, seg) = {} /\ Idle(h) = {}
  <2>1. net' = Put(n, h, {make_reset_resp(seg)}) /\ UNCHANGED <<sock, eport, starts>>
    BY <1>5 DEF tcp_receive
  <2>2. Bare(make_reset_resp(seg)) /\ make_reset_resp(seg).port = seg.port
    BY DEF Bare, make_reset_resp, Segment
  <2> QED BY <1>2, <2>1, <2>2, ReplySafe
<1> QED BY <1>3, <1>4, <1>5

LEMMA ReceiveSafe ==
  ASSUME ConnSafe, NetInv', UNCHANGED plan, NEW h \in Hosts, Receive(h)
  PROVE  ConnSafe'
<1>1. PICK seg \in net[h], keep \in {FALSE, (h \in plan.duplicates)} :
        LET n == IF keep THEN net ELSE [net EXCEPT ![h] = @ \ {seg}] IN
        /\ \/ /\ seg = ArpReq
              /\ net' = Put(n, h, {ArpResp}) /\ UNCHANGED <<sock, eport, starts>>
           \/ seg = ArpResp /\ arp_receive(h, n)
           \/ seg \notin {ArpReq, ArpResp} /\ tcp_receive(h, seg, n)
        /\ UNCHANGED <<restarts, phase>>
  BY DEF Receive
<1> DEFINE n == IF keep THEN net ELSE [net EXCEPT ![h] = @ \ {seg}]
<1>2. phase' = phase
  BY <1>1
<1>3. \/ net' = Put(n, h, {ArpResp}) /\ UNCHANGED <<sock, eport, starts>>
      \/ arp_receive(h, n)
      \/ tcp_receive(h, seg, n)
  BY <1>1
<1>4. Taken(h, n)
  <2>1. net \in [Hosts -> SUBSET Seg] /\ Peer(h) \in Hosts
    BY PeerHost DEF ConnSafe, NetInv, NetsOK
  <2>2. n \in [Hosts -> SUBSET Seg] /\ \A g \in Hosts : n[g] \subseteq net[g]
    BY <2>1
  <2> HIDE DEF n
  <2> QED BY <2>1, <2>2 DEF Taken
<1> HIDE DEF n
<1>5. Bare(ArpResp) /\ ArpResp.port \in {0, 1}
  BY DEF Bare, ArpResp, Segment
<1>6. CASE net' = Put(n, h, {ArpResp}) /\ UNCHANGED <<sock, eport, starts>>
  BY <1>2, <1>4, <1>5, <1>6, ReplySafe
<1>7. CASE arp_receive(h, n)
  BY <1>2, <1>4, <1>7, ArpSafe
<1>8. CASE tcp_receive(h, seg, n)
  BY <1>1, <1>2, <1>4, <1>8, SegmentSafe
<1> QED BY <1>3, <1>6, <1>7, <1>8

LEMMA InitSafe == Init => ConnSafe
<1> SUFFICES ASSUME Init PROVE ConnSafe
  OBVIOUS
<1>1. NetInv
  BY InitInv
<1>2. /\ \A h \in Hosts, i \in Socks : sock[h][i] = InitSock
      /\ \A h \in Hosts : net[h] = {}
      /\ starts \in [Hosts -> Nat] /\ eport = 0 /\ phase[C] = "start"
  BY TwoHosts DEF Init, Started
<1>3. ASSUME NEW h \in Hosts
      PROVE  /\ InitSock.iss = 0 /\ InitSock.irs = 0 /\ InitSock.port = 0 /\ InitSock.state = "CLOSED"
             /\ MoreOK(h, InitSock)
  BY InitSockSafe
<1> HIDE DEF InitSock
<1>4. ASSUME NEW h \in Hosts
      PROVE  0 < Isn(h) /\ 0 < Isn(Peer(h))
  BY <1>2, IsnIs, IsnsPositive, PeerHost
<1>5. AllOK
  BY <1>2, <1>3, <1>4 DEF AllOK, Dated
<1>6. ClientPhase
  <2>1. \A i \in Socks : sock[C][i].state = "CLOSED" /\ sock[C][i].iss = 0
    BY <1>2, <1>3, TwoHosts
  <2> QED BY <1>2, <2>1, FirstSocket DEF ClientPhase, X
<1>7. \A i \in Socks : sock[S][i].port = 0 /\ ~Used(sock[S][i])
  BY <1>2, <1>3, TwoHosts DEF Used
<1>8. ServerPorts
  BY <1>7 DEF ServerPorts
<1>9. ~Used(X)
  BY <1>2, <1>3, TwoHosts, FirstSocket DEF Used, X
<1>10. Ends(1)
  BY <1>7, <1>9, FirstSocket DEF Ends, Pair
<1> QED BY <1>1, <1>5, <1>6, <1>8, <1>10, FirstSocket DEF ConnSafe, OnePair

LEMMA NextSafe == ConnSafe /\ [Next]_vars => ConnSafe'
<1> SUFFICES ASSUME ConnSafe, [Next]_vars PROVE ConnSafe'
  OBVIOUS
<1>1. NetInv'
  BY NextInv DEF ConnSafe
<1>2. CASE Next
  <2>1. UNCHANGED plan
    BY <1>2 DEF Next
  <2>2. ASSUME NEW h \in Hosts, Receive(h) \/ Lose(h) \/ Close(h) \/ Reset(h) \/ Restart(h)
        PROVE  ConnSafe'
    BY <1>1, <2>1, <2>2, ReceiveSafe, LoseSafe, CloseSafe, ResetSafe, RestartSafe
  <2>3. ASSUME NEW h \in Hosts, NEW i \in Socks, Poll(h, i) \/ Timeout(h, i)
        PROVE  ConnSafe'
    BY <1>1, <2>1, <2>3, PollSafe, TimeoutSafe
  <2>4. CASE Open \/ Key \/ Display
    BY <1>1, <2>1, <2>4, OpenSafe, KeySafe, DisplaySafe
  <2> QED BY <1>2, <2>2, <2>3, <2>4 DEF Next
<1>3. CASE UNCHANGED vars
  <2>1. UNCHANGED <<plan, sock, net, eport, starts, phase>>
    BY <1>3 DEF vars
  <2>2. Onward /\ Frames(C)
    BY <2>1, SameStarts, SameNet, TwoHosts DEF ConnSafe
  <2> QED BY <1>1, <2>1, <2>2, TwoHosts, SameSocks
<1> QED BY <1>2, <1>3

-----------------------------------------------------------------------------
(* What the invariant says of two sockets                                  *)

(* The client's socket in use and the server's are a pair.                 *)
LEMMA UsedLinked ==
  ASSUME ConnSafe, NEW i \in Socks, NEW j \in Socks, Used(sock[C][i]), Used(sock[S][j])
  PROVE  i = 1 /\ Link(sock[C][i], sock[S][j], net[C], net[S])
<1>1. i = 1 /\ X = sock[C][i]
  BY DEF ConnSafe, ClientPhase, Used, X
<1>2. PICK k \in Socks : Ends(k)
  BY DEF ConnSafe, OnePair
<1>3. j = k
  BY <1>2 DEF Ends
<1> QED BY <1>1, <1>2, <1>3 DEF Ends, Pair

LEMMA SafeAgree == ConnSafe => ConnectionsAgree
<1> SUFFICES ASSUME ConnSafe, NEW i \in Socks, NEW j \in Socks, 
                    sock[C][i].state = "EST", sock[S][j].state = "EST",
                    sock[C][i].port = sock[S][j].port
             PROVE  Connected(sock[C][i], sock[S][j])
  BY DEF ConnectionsAgree
<1> DEFINE x == sock[C][i]
           y == sock[S][j]
<1>1. /\ x.iss # 0 /\ y.iss # 0 /\ x.port = 1
  BY TwoHosts DEF ConnSafe, AllOK, MoreOK, Placed, Before
<1>2. Link(x, y, net[C], net[S])
  BY <1>1, UsedLinked DEF Used
<1>3. x.irs # 0
  <2>1. x.irs \in Isns(S)
    BY TwoHosts DEF ConnSafe, NetInv, TablesOK, SockOK, Begun, Numbers
  <2> QED BY <2>1, TwoHosts, IsnsPositive
<1>4. y.irs = x.iss /\ x.irs = y.iss
  BY <1>2, <1>3 DEF Link
<1> QED BY <1>1, <1>4 DEF Connected

(* Of two sockets that are connected each has what the other sent.         *)
LEMMA ConnectedSure ==
  ASSUME ConnSafe, NEW h \in Hosts, NEW i \in Socks, NEW j \in Socks,
         Connected(sock[h][i], sock[Peer(h)][j])
  PROVE  LET s == sock[h][i]
             t == sock[Peer(h)][j]
         IN s.txo <= t.rxi /\ t.rxi <= s.iss + s.wrote /\ t.irs = s.iss
<1> DEFINE s == sock[h][i]
           t == sock[Peer(h)][j]
<1>1. t.irs = s.iss /\ s.irs = t.iss
  BY DEF Connected
<1>2. Peer(h) \in Hosts /\ Blank(s) /\ Blank(t)
  BY PeerHost DEF ConnSafe, AllOK, MoreOK
<1>3. s.wrote \in Nat
  BY NowFacts DEF ConnSafe, Sock
<1>4. CASE s.iss = 0
  BY <1>1, <1>2, <1>3, <1>4 DEF Blank
<1>5. CASE s.iss # 0
  <2>1. Used(s) /\ Used(t)
    BY <1>1, <1>2, <1>5 DEF Blank, Used
  <2>2. CASE h = C
    <3>1. Link(s, t, net[C], net[S])
      BY <2>1, <2>2, TwoHosts, UsedLinked
    <3> QED BY <1>1, <3>1 DEF Link, Sure, Takes
  <2>3. CASE h = S
    <3>1. Link(t, s, net[C], net[S])
      BY <2>1, <2>3, TwoHosts, UsedLinked
    <3> QED BY <1>1, <3>1 DEF Link, Sure, Takes
  <2> QED BY <2>2, <2>3 DEF Hosts
<1> QED BY <1>4, <1>5

LEMMA ConnectedLengths ==
  ASSUME ConnSafe, NEW h \in Hosts, NEW i \in Socks, NEW j \in Socks,
         Connected(sock[h][i], sock[Peer(h)][j])
  PROVE  LET s == sock[h][i]
             t == sock[Peer(h)][j]
         IN s.txo - s.iss <= Len(t.got) /\ Len(t.got) <= s.wrote
<1> DEFINE s == sock[h][i]
           t == sock[Peer(h)][j]
<1>1. s.txo <= t.rxi /\ t.rxi <= s.iss + s.wrote /\ t.irs = s.iss
  BY ConnectedSure
<1>2. s \in Sock /\ t \in Sock /\ t.rxi = t.irs + Len(t.got)
  BY NowFacts, PeerHost DEF ConnSafe, NetInv, TablesOK, SockOK, Stream, RxStream
<1> HIDE DEF s, t
<1>3. /\ s.txo \in Int /\ s.iss \in Int /\ s.wrote \in Int /\ Len(t.got) \in Int
  BY <1>2 DEF Sock
<1>4. PICK o \in Int, b \in Int, w \in Int, n \in Int :
        s.txo = o /\ s.iss = b /\ s.wrote = w /\ Len(t.got) = n
  BY <1>3
<1>5. t.rxi = b + n
  BY <1>1, <1>2, <1>4
<1>6. o <= b + n /\ b + n <= b + w
  BY <1>1, <1>4, <1>5
<1>7. o - b <= n /\ n <= w
  BY <1>4, <1>6
<1> QED BY <1>4, <1>7 DEF s, t

LEMMA SafeAcked == ConnSafe => AckedWasReceived
BY ConnectedLengths DEF AckedWasReceived, ForStreams

LEMMA SafeOrderly == ConnSafe => OrderlyClose
<1> SUFFICES ASSUME ConnSafe, NEW h \in Hosts, NEW i \in Socks, NEW j \in Socks,
                    Connected(sock[h][i], sock[Peer(h)][j]), sock[h][i].state \in FinSent
             PROVE  Len(sock[Peer(h)][j].got) = sock[h][i].wrote
  BY DEF OrderlyClose, ForStreams, FinSent
<1> DEFINE s == sock[h][i]
           t == sock[Peer(h)][j]
<1>1. s.txo - s.iss <= Len(t.got) /\ Len(t.got) <= s.wrote
  BY ConnectedLengths
<1>2. s.txq = <<>>
  BY DEF ConnSafe, AllOK, MoreOK, Remembers
<1>3. s \in Sock /\ t \in Sock /\ s.wrote = s.txo - s.iss + Len(s.txq)
  BY NowFacts, PeerHost DEF ConnSafe, NetInv, TablesOK, SockOK, Stream, TxStream
<1> HIDE DEF s, t
<1>4. s.txo \in Int /\ s.iss \in Int /\ s.wrote \in Int /\ Len(t.got) \in Int
  BY <1>3 DEF Sock
<1>5. s.wrote = s.txo - s.iss
  BY <1>2, <1>3, <1>4
<1> QED BY <1>1, <1>4, <1>5 DEF s, t

-----------------------------------------------------------------------------
(* The theorems                                                            *)

(* Two sockets that are established with each other's port are connected   *)
(* to each other, whatever segments of earlier connections tsock_rx is     *)
(* handed, and though the client's port is the same for each connection.   *)
THEOREM EstablishedAreConnected == Spec => []ConnectionsAgree
BY InitSafe, NextSafe, SafeAgree, PTL DEF Spec

(* tsock_rx drops a byte from the transmit buffer only when the socket it  *)
(* is connected to has put it in its receive buffer, which holds no byte   *)
(* that was not written: also after a SYN+ACK or an acknowledgement of an  *)
(* earlier connection.                                                     *)
THEOREM AckedBytesArrived == Spec => []AckedWasReceived
BY InitSafe, NextSafe, SafeAcked, PTL DEF Spec

(* A socket that has sent the FIN of an active close, from T_ACLOSE, has   *)
(* left nothing behind: the other side has every byte that was written.    *)
THEOREM CloseLosesNothing == Spec => []OrderlyClose
BY InitSafe, NextSafe, SafeOrderly, PTL DEF Spec
=============================================================================
