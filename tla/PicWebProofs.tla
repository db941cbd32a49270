---------------------------- MODULE PicWebProofs ----------------------------
(* RequestWhole and AnswersWhole for any clients, requests and files, and   *)
(* any sizes of headers and buffer.                                         *)
(* The first part is about PicRx.  It rests on what the interrupt's sum     *)
(* says of the buffer: while a header arrives, it is that of the frame      *)
(* whose data are still there (SumBefore); after that, of as much as has    *)
(* arrived of the present one (SumOfArriving).                              *)
(* The second is about the whole program, PicWeb, which is shown to be one  *)
(* that PicRx allows, so that its request is one frame's when it is taken   *)
(* up.  What is read of it in time (InPlace) leads to the file (Searching), *)
(* the file to what is sent (Answer, Part), and that to the page that its   *)
(* client has (Known, Pages).                                               *)
EXTENDS PicWeb, ProofFacts

Piece(i) == {<<f, i>> : f \in Frames}

RxTypeOK ==
    /\ queue \in Seq(Frames) /\ in \in Nat
    /\ rxbuff \in [1..RXBUFFLEN -> (Frames \X Nat) \cup {Empty}]
    /\ rxin \in 0..RXBUFFLEN /\ rxcount \in 0..RXBUFFLEN
    /\ pc \in {"loop", "ip", "tcp", "icmp", "request", "find", "echo", "copy"}
    /\ rxout \in 0..RXBUFFLEN /\ regs \in Seq(Frames \X Nat)

(* What has arrived is in the buffer, as far as there is room. *)
Arrived ==
    /\ queue = <<>> => in = 0
    /\ queue # <<>> => in <= Size(Head(queue))
    /\ rxin = IF in < RXBUFFLEN THEN in ELSE RXBUFFLEN
    /\ \A i \in 1..rxin : rxbuff[i] = <<Head(queue), i>>
    /\ \A i \in 1..rxcount : rxbuff[i] \in Piece(i)

(* In the buffer, the data of f *)
Stored(f) == \A i \in HDR + 1 .. Size(f) : i <= RXBUFFLEN => rxbuff[i] = <<f, i>>

SumBefore ==
    rxin < HDR => rdcheck = {} \/ \E f \in Frames : rdcheck = DataOf(f) /\ Stored(f)

SumOfArriving ==
    rxin >= HDR => rdcheck = {<<Head(queue), i>> : i \in HDR + 1 .. in}

(* What has been read *)
Reading ==
    /\ pc # "loop" => Len(regs) = rxout /\ \A i \in 1..Len(regs) : regs[i] \in Piece(i)
    /\ pc = "ip" => rxout < IPHDR_LEN
    /\ pc = "tcp" => rxout < HDR
    /\ pc \in {"request", "find"} => rxout = HDR

HeadersWhole ==
    pc \in {"request", "find"} => \A i \in 1..HDR : regs[i] = <<regs[1][1], i>>

RxInv == RxTypeOK /\ Arrived /\ SumBefore /\ SumOfArriving /\ Reading /\ HeadersWhole

-----------------------------------------------------------------------------
LEMMA Lengths ==
    /\ IPHDR_LEN \in Nat \ {0} /\ HDR \in Nat /\ IPHDR_LEN < HDR
    /\ RXBUFFLEN \in Nat /\ HDR < RXBUFFLEN
    /\ \A f \in Frames : Size(f) \in Nat \ {0}
BY RxAssumption DEF HDR

LEMMA HeadOfQueue ==
    ASSUME queue \in Seq(Frames), queue # <<>>
    PROVE  Head(queue) \in Frames /\ Tail(queue) \in Seq(Frames)
OBVIOUS

(* The data of different frames differ, if there are any. *)
LEMMA SameData ==
    ASSUME NEW f \in Frames, NEW g \in Frames, NEW i \in HDR + 1 .. Size(f),
           <<f, i>> \in DataOf(g)
    PROVE  f = g
BY DEF DataOf

LEMMA InitRxInv == RxInit => RxInv
<1> SUFFICES ASSUME RxInit PROVE RxInv
  OBVIOUS
<1> USE DEF RxInit
<1>1. RxTypeOK
  BY Lengths DEF RxTypeOK
<1>2. Arrived
  BY Lengths DEF Arrived
<1>3. SumBefore /\ SumOfArriving
  BY Lengths DEF SumBefore, SumOfArriving
<1>4. Reading /\ HeadersWhole
  BY Lengths DEF Reading, HeadersWhole
<1> QED BY <1>1, <1>2, <1>3, <1>4 DEF RxInv

-----------------------------------------------------------------------------
(* The interrupt *)

LEMMA EscapeStep == ASSUME RxInv, RxEscape PROVE RxInv'
BY DEF RxInv, RxEscape, RxTypeOK, Arrived, SumBefore, SumOfArriving, Reading, HeadersWhole, Stored

LEMMA CharStep == ASSUME RxInv, RxChar PROVE RxInv'
<1> DEFINE g == Head(queue)
<1>0. /\ RxTypeOK /\ Arrived /\ SumBefore /\ SumOfArriving /\ Reading /\ HeadersWhole
      /\ queue # <<>> /\ in < Size(g) /\ g \in Frames /\ in' = in + 1
      /\ UNCHANGED <<queue, rxcount, pc, rxout, regs>>
  BY HeadOfQueue DEF RxInv, RxChar, RxTypeOK
<1>1. in \in Nat /\ Size(g) \in Nat /\ rxin \in 0..RXBUFFLEN /\ <<g, in + 1>> \in Frames \X Nat
  BY <1>0, Lengths DEF RxTypeOK
<1>2. CASE rxin < RXBUFFLEN
  <2>1. /\ rxbuff' = [rxbuff EXCEPT ![rxin + 1] = <<g, in + 1>>]
        /\ rxin' = rxin + 1 /\ rxin = in
    BY <1>0, <1>2, Lengths DEF RxChar, Arrived
  <2>2. \A i \in 1..RXBUFFLEN : rxbuff'[i] = IF i = in + 1 THEN <<g, in + 1>> ELSE rxbuff[i]
    BY <1>0, <1>1, <2>1 DEF RxTypeOK
  <2>3. RxTypeOK'
    BY <1>0, <1>1, <1>2, <2>1, Lengths DEF RxTypeOK
  <2>4. Arrived'
    <3>1. \A i \in 1..rxin' : rxbuff'[i] = <<g, i>>
      BY <1>0, <1>1, <1>2, <2>1, <2>2, Lengths DEF Arrived
    <3>2. \A i \in 1..rxcount : rxbuff'[i] \in Piece(i)
      <4> SUFFICES ASSUME NEW i \in 1..rxcount PROVE rxbuff'[i] \in Piece(i)
        OBVIOUS
      <4>1. i \in 1..RXBUFFLEN /\ rxbuff[i] \in Piece(i)
        BY <1>0, Lengths DEF RxTypeOK, Arrived
      <4> QED BY <1>0, <1>1, <2>2, <4>1 DEF Piece
    <3>3. rxin' = IF in' < RXBUFFLEN THEN in' ELSE RXBUFFLEN
      BY <1>0, <1>1, <1>2, <2>1, Lengths
    <3>4. queue' # <<>> /\ in' <= Size(Head(queue'))
      BY <1>0, <1>1
    <3> QED BY <1>0, <3>1, <3>2, <3>3, <3>4 DEF Arrived
  <2>5. CASE rxin < HDR
    <3>1. \A i \in HDR + 1 .. RXBUFFLEN : rxbuff'[i] = rxbuff[i]
      BY <1>1, <2>1, <2>2, <2>5, Lengths
    <3>2. \A h \in Frames : Stored(h) => Stored(h)'
      BY <3>1, Lengths DEF Stored
    <3>3. SumBefore'
      <4>1. CASE rxin = HDR - 1
        BY <2>1, <4>1, Lengths DEF SumBefore
      <4>2. CASE rxin # HDR - 1
        <5>1. rdcheck' = rdcheck
          BY <1>1, <2>5, <4>2, Lengths DEF RxChar
        <5>2. rdcheck = {} \/ \E h \in Frames : rdcheck = DataOf(h) /\ Stored(h)
          BY <1>0, <2>5 DEF SumBefore
        <5> QED BY <3>2, <5>1, <5>2 DEF SumBefore, DataOf
      <4> QED BY <4>1, <4>2
    <3>4. SumOfArriving'
      <4> SUFFICES ASSUME rxin' >= HDR
                   PROVE rdcheck' = {<<Head(queue'), i>> : i \in HDR + 1 .. in'}
        BY DEF SumOfArriving
      <4>1. rxin = HDR - 1 /\ in' = HDR
        BY <1>0, <1>1, <2>1, <2>5, Lengths
      <4>2. rdcheck' = {}
        BY <4>1 DEF RxChar
      <4>3. HDR + 1 .. in' = {}
        BY <4>1, Lengths
      <4> QED BY <4>2, <4>3
    <3> QED BY <1>0, <2>3, <2>4, <3>3, <3>4 DEF RxInv, Reading, HeadersWhole
  <2>6. CASE rxin >= HDR
    <3>1. rdcheck' = rdcheck \cup {<<g, in + 1>>}
      BY <1>1, <2>6, Lengths DEF RxChar
    <3>2. rdcheck = {<<g, i>> : i \in HDR + 1 .. in}
      BY <1>0, <2>6 DEF SumOfArriving
    <3>3. HDR + 1 .. in' = (HDR + 1 .. in) \cup {in + 1}
      BY <1>0, <1>1, <2>1, <2>6, Lengths
    <3>4. SumOfArriving'
      BY <1>0, <3>1, <3>2, <3>3 DEF SumOfArriving
    <3>5. SumBefore'
      BY <1>1, <2>1, <2>6, Lengths DEF SumBefore
    <3> QED BY <1>0, <2>3, <2>4, <3>4, <3>5 DEF RxInv, Reading, HeadersWhole
  <2> QED BY <1>1, <2>5, <2>6, Lengths
<1>3. CASE ~(rxin < RXBUFFLEN)
  <2>1. rxbuff' = rxbuff /\ rxin' = rxin /\ rxin = RXBUFFLEN /\ in >= RXBUFFLEN
    BY <1>0, <1>1, <1>3, Lengths DEF RxChar, Arrived
  <2>2. RxTypeOK'
    BY <1>0, <1>1, <2>1 DEF RxTypeOK
  <2>3. Arrived'
    BY <1>0, <1>1, <2>1, Lengths DEF Arrived
  <2>4. rdcheck' = rdcheck \cup {<<g, in + 1>>}
    BY <2>1, Lengths DEF RxChar
  <2>5. rdcheck = {<<g, i>> : i \in HDR + 1 .. in}
    BY <1>0, <2>1, Lengths DEF SumOfArriving
  <2>6. HDR + 1 .. in' = (HDR + 1 .. in) \cup {in + 1}
    BY <1>0, <1>1, <2>1, Lengths
  <2>7. SumOfArriving' /\ SumBefore'
    BY <1>0, <2>1, <2>4, <2>5, <2>6, Lengths DEF SumOfArriving, SumBefore
  <2> QED BY <1>0, <2>2, <2>3, <2>7 DEF RxInv, Reading, HeadersWhole
<1> QED BY <1>2, <1>3

(* The end of a frame leaves its data in the buffer, and their sum. *)
LEMMA SumAtEnd ==
    ASSUME RxInv, queue # <<>>, in = Size(Head(queue))
    PROVE  rxin > 0 /\ (rdcheck = {} \/ \E f \in Frames : rdcheck = DataOf(f) /\ Stored(f))
<1> DEFINE g == Head(queue)
<1>1. g \in Frames /\ Size(g) \in Nat \ {0} /\ in = Size(g) /\ rxin \in 0..RXBUFFLEN
  BY HeadOfQueue, Lengths DEF RxInv, RxTypeOK
<1>2. rxin = IF in < RXBUFFLEN THEN in ELSE RXBUFFLEN
  BY DEF RxInv, Arrived
<1>3. rxin > 0
  BY <1>1, <1>2, Lengths
<1>4. CASE rxin < HDR
  BY <1>3, <1>4 DEF RxInv, SumBefore
<1>5. CASE rxin >= HDR
  <2>1. rdcheck = DataOf(g)
    BY <1>1, <1>5 DEF RxInv, SumOfArriving, DataOf
  <2>2. Stored(g)
    <3> SUFFICES ASSUME NEW i \in HDR + 1 .. Size(g), i <= RXBUFFLEN
                 PROVE rxbuff[i] = <<g, i>>
      BY DEF Stored
    <3>1. i \in 1..rxin
      BY <1>1, <1>2, Lengths
    <3> QED BY <3>1 DEF RxInv, Arrived
  <2> QED BY <1>1, <1>3, <2>1, <2>2
<1> QED BY <1>1, <1>4, <1>5, Lengths

LEMMA EndStep == ASSUME RxInv, RxEnd \/ RxCr PROVE RxInv'
<1> DEFINE g == Head(queue)
<1>0. /\ RxTypeOK /\ Arrived /\ Reading /\ HeadersWhole
      /\ queue # <<>> /\ in = Size(g) /\ g \in Frames
  BY HeadOfQueue DEF RxInv, RxEnd, RxCr, RxTypeOK
<1>1. /\ queue' = Tail(queue) /\ in' = 0 /\ rxin' = 0
      /\ UNCHANGED <<rxbuff, rdcheck, pc, rxout, regs>>
      /\ rxcount' \in {rxcount, rxin}
  BY SumAtEnd, <1>0 DEF RxEnd, RxCr
<1>2. RxTypeOK'
  BY <1>0, <1>1, HeadOfQueue, Lengths DEF RxTypeOK
<1>3. Arrived'
  <2>1. \A i \in 1..rxcount' : rxbuff[i] \in Piece(i)
    BY <1>0, <1>1 DEF Arrived, Piece
  <2>2. queue' # <<>> => 0 <= Size(Head(queue'))
    <3> SUFFICES ASSUME queue' # <<>> PROVE 0 <= Size(Head(queue'))
      OBVIOUS
    <3>1. Head(queue') \in Frames
      BY <1>0, <1>1, HeadOfQueue DEF RxTypeOK
    <3> QED BY <3>1, Lengths
  <2> QED BY <1>1, <2>1, <2>2, Lengths DEF Arrived
<1>4. SumBefore' /\ SumOfArriving'
  BY <1>0, <1>1, SumAtEnd, Lengths DEF SumBefore, SumOfArriving, Stored, DataOf
<1>5. Reading' /\ HeadersWhole'
  BY <1>0, <1>1 DEF Reading, HeadersWhole
<1> QED BY <1>2, <1>3, <1>4, <1>5 DEF RxInv

-----------------------------------------------------------------------------
(* The main loop *)

(* A right sum is that of one frame, whose data are in the buffer. *)
LEMMA SumRight ==
    ASSUME RxInv, NEW f \in Frames, rdcheck = DataOf(f)
    PROVE  Stored(f)
<1> SUFFICES ASSUME NEW i \in HDR + 1 .. Size(f), i <= RXBUFFLEN
             PROVE rxbuff[i] = <<f, i>>
  BY DEF Stored
<1>1. <<f, i>> \in rdcheck /\ Size(f) \in Nat
  BY Lengths DEF DataOf
<1>2. CASE rxin < HDR
  <2>1. PICK h \in Frames : rdcheck = DataOf(h) /\ Stored(h)
    BY <1>1, <1>2 DEF RxInv, SumBefore
  <2>2. f = h
    BY <1>1, <2>1, SameData
  <2> QED BY <2>1, <2>2 DEF Stored
<1>3. CASE rxin >= HDR
  <2>1. rdcheck = {<<Head(queue), j>> : j \in HDR + 1 .. in}
    BY <1>3 DEF RxInv, SumOfArriving
  <2>2. f = Head(queue) /\ i \in HDR + 1 .. in
    BY <1>1, <2>1
  <2>3. i \in 1..rxin
    BY <2>2, Lengths DEF RxInv, RxTypeOK, Arrived
  <2> QED BY <2>2, <2>3 DEF RxInv, Arrived
<1> QED BY <1>2, <1>3, Lengths DEF RxInv, RxTypeOK

LEMMA ReadStep == ASSUME RxInv, getch_slip PROVE RxInv'
<1>0. /\ RxTypeOK /\ Arrived /\ SumBefore /\ SumOfArriving /\ Reading
      /\ UNCHANGED intvars /\ rxout' = rxout + 1 /\ regs' = Append(regs, rxbuff[rxout + 1])
      /\ pc' = AfterRead(regs') /\ pc \in {"ip", "tcp", "icmp"} /\ rxout < rxcount
  BY DEF RxInv, getch_slip
<1>1. rxbuff[rxout + 1] \in Piece(rxout + 1) /\ rxout \in Nat /\ rxout + 1 \in 1..RXBUFFLEN
  BY <1>0, Lengths DEF RxTypeOK, Arrived
<1>2. Piece(rxout + 1) \subseteq Frames \X Nat
  BY <1>1 DEF Piece
<1>3. /\ regs' \in Seq(Frames \X Nat) /\ Len(regs') = rxout + 1
      /\ \A i \in 1..Len(regs') : regs'[i] \in Piece(i)
  <2>1. Len(regs) = rxout /\ regs \in Seq(Frames \X Nat) /\ \A i \in 1..Len(regs) : regs[i] \in Piece(i)
    BY <1>0 DEF Reading, RxTypeOK
  <2>2. regs' \in Seq(Frames \X Nat) /\ Len(regs') = rxout + 1
    BY <1>0, <1>1, <1>2, <2>1
  <2>3. \A i \in 1 .. rxout + 1 : regs'[i] = IF i = rxout + 1 THEN rxbuff[rxout + 1] ELSE regs[i]
    BY <1>0, <1>1, <2>1
  <2> QED BY <1>1, <2>1, <2>2, <2>3
<1>4. pc' \in {"loop", "ip", "tcp", "icmp", "request"}
  BY <1>0 DEF AfterRead
<1>5. RxTypeOK'
  BY <1>0, <1>1, <1>3, <1>4, Lengths DEF RxTypeOK, intvars
<1>6. Arrived' /\ SumBefore' /\ SumOfArriving'
  BY <1>0 DEF Arrived, SumBefore, SumOfArriving, Stored, DataOf, intvars
<1>7. Reading'
  <2>1. pc' = "ip" => rxout' < IPHDR_LEN
    BY <1>0, <1>1, <1>3, Lengths DEF AfterRead, Reading
  <2>2. pc' = "tcp" => rxout' < HDR
    BY <1>0, <1>1, <1>3, Lengths DEF AfterRead, Reading
  <2>3. pc' = "request" => rxout' = HDR
    BY <1>0, <1>1, <1>3, Lengths DEF AfterRead
  <2> QED BY <1>0, <1>3, <1>4, <2>1, <2>2, <2>3 DEF Reading
<1>8. HeadersWhole'
  <2> SUFFICES ASSUME pc' = "request" PROVE HeadersWhole'
    BY <1>4 DEF HeadersWhole
  <2>1. Len(regs') = HDR /\ OneFrame(regs')
    BY <1>0, <1>3, Lengths DEF AfterRead, TcpSumOk
  <2>2. \A i \in 1..HDR : regs'[i] = <<regs'[1][1], i>>
    BY <1>3, <2>1, Lengths DEF OneFrame, Piece
  <2> QED BY <2>2 DEF HeadersWhole
<1> QED BY <1>5, <1>6, <1>7, <1>8 DEF RxInv

LEMMA LoopStep == ASSUME RxInv, TakeFrame \/ SlipEnd \/ Proceed PROVE RxInv'
<1>1. /\ UNCHANGED <<queue, in, rxbuff, rxin, rxcount, rdcheck>>
      /\ \/ pc' = "ip" /\ rxout' = 0 /\ regs' = <<>>
         \/ pc' \in {"loop", "echo", "copy"} /\ UNCHANGED <<rxout, regs>> /\ pc # "loop"
         \/ pc' = "find" /\ pc \in {"request", "find"} /\ UNCHANGED <<rxout, regs>>
  BY DEF TakeFrame, SlipEnd, Proceed, intvars
<1>2. RxTypeOK'
  <2>1. rxout' \in 0..RXBUFFLEN /\ regs' \in Seq(Frames \X Nat)
    <3>1. rxout \in 0..RXBUFFLEN /\ 0 \in 0..RXBUFFLEN /\ regs \in Seq(Frames \X Nat) /\ <<>> \in Seq(Frames \X Nat)
      BY Lengths DEF RxInv, RxTypeOK
    <3>2. CASE pc' = "ip" /\ rxout' = 0 /\ regs' = <<>>
      BY <3>1, <3>2
    <3>3. CASE UNCHANGED <<rxout, regs>>
      BY <3>1, <3>3
    <3> QED BY <1>1, <3>2, <3>3
  <2>2. pc' \in {"loop", "ip", "tcp", "icmp", "request", "find", "echo", "copy"}
    BY <1>1
  <2> QED BY <1>1, <2>1, <2>2 DEF RxInv, RxTypeOK
<1>3. Arrived' /\ SumBefore' /\ SumOfArriving'
  BY <1>1 DEF RxInv, Arrived, SumBefore, SumOfArriving, Stored, DataOf
<1>4. Reading' /\ HeadersWhole'
  BY <1>1, Lengths DEF RxInv, Reading, HeadersWhole
<1> QED BY <1>2, <1>3, <1>4 DEF RxInv

(* The end of a queue, and all of it while nothing of its first frame has   *)
(* arrived, is not looked at.                                               *)
LEMMA SendStep == ASSUME RxInv, Sending PROVE RxInv'
<1>1. /\ queue' \in Seq(Frames)
      /\ in > 0 => queue' # <<>> /\ Head(queue') = Head(queue)
      /\ UNCHANGED <<in, rxbuff, rxin, rxcount, rdcheck, pc, rxout, regs>>
      /\ queue \in Seq(Frames) /\ in \in Nat /\ rxin \in 0..RXBUFFLEN
  BY DEF Sending, RxInv, RxTypeOK
<1>2. CASE in > 0
  <2>1. queue # <<>>
    BY <1>2 DEF RxInv, Arrived
  <2>2. RxTypeOK' /\ Arrived'
    BY <1>1, <1>2, <2>1 DEF RxInv, RxTypeOK, Arrived
  <2>3. SumBefore' /\ SumOfArriving'
    BY <1>1, <1>2 DEF RxInv, SumBefore, SumOfArriving, Stored, DataOf
  <2>4. Reading' /\ HeadersWhole'
    BY <1>1 DEF RxInv, Reading, HeadersWhole
  <2> QED BY <2>2, <2>3, <2>4 DEF RxInv
<1>3. CASE in = 0
  <2>1. rxin = 0
    BY <1>3, Lengths DEF RxInv, Arrived
  <2>2. queue' # <<>> => 0 <= Size(Head(queue'))
    <3> SUFFICES ASSUME queue' # <<>> PROVE 0 <= Size(Head(queue'))
      OBVIOUS
    <3>1. Head(queue') \in Frames
      BY <1>1
    <3> QED BY <3>1, Lengths
  <2>3. RxTypeOK'
    BY <1>1 DEF RxInv, RxTypeOK
  <2>4. Arrived'
    BY <1>1, <1>3, <2>1, <2>2, Lengths DEF RxInv, Arrived
  <2>5. SumBefore' /\ SumOfArriving'
    <3>1. rdcheck = {} \/ \E f \in Frames : rdcheck = DataOf(f) /\ Stored(f)
      BY <2>1, Lengths DEF RxInv, SumBefore
    <3>2. SumBefore'
      BY <1>1, <3>1 DEF SumBefore, Stored, DataOf
    <3>3. ~(rxin' >= HDR)
      BY <1>1, <2>1, Lengths
    <3> QED BY <3>2, <3>3 DEF SumOfArriving
  <2>6. Reading' /\ HeadersWhole'
    BY <1>1 DEF RxInv, Reading, HeadersWhole
  <2> QED BY <2>3, <2>4, <2>5, <2>6 DEF RxInv
<1> QED BY <1>1, <1>2, <1>3

LEMMA NextRxInv == RxInv /\ [RxNext]_rxvars => RxInv'
<1>1. ASSUME RxInv, RxNext PROVE RxInv'
  BY <1>1, EscapeStep, CharStep, EndStep, ReadStep, LoopStep, SendStep DEF RxNext, rx_handler
<1>2. ASSUME RxInv, UNCHANGED rxvars PROVE RxInv'
  <2>1. UNCHANGED <<queue, in, rxbuff, rxin, rxcount, rdcheck, pc, rxout, regs>>
    BY <1>2 DEF rxvars
  <2>2. RxTypeOK' /\ Arrived'
    BY <1>2, <2>1 DEF RxInv, RxTypeOK, Arrived
  <2>3. SumBefore' /\ SumOfArriving'
    BY <1>2, <2>1 DEF RxInv, SumBefore, SumOfArriving, Stored, DataOf
  <2>4. Reading' /\ HeadersWhole'
    BY <1>2, <2>1 DEF RxInv, Reading, HeadersWhole
  <2> QED BY <2>2, <2>3, <2>4 DEF RxInv
<1> QED BY <1>1, <1>2

-----------------------------------------------------------------------------
(* A request whose sum is found right is one frame's, headers and data.     *)
LEMMA SumShows == ASSUME RxInv, getch_slip, pc' = "request" PROVE Whole'
<1> DEFINE f == regs'[1][1]
<1>1. RxInv'
  BY ReadStep
<1>2. /\ regs' \in Seq(Frames \X Nat) /\ Len(regs') = HDR
      /\ \A i \in 1..HDR : regs'[i] = <<f, i>>
  BY <1>1 DEF RxInv, RxTypeOK, Reading, HeadersWhole
<1>3. f \in Frames
  BY <1>2, Lengths
<1>4. rdcheck = DataOf(f) /\ rxbuff' = rxbuff
  BY <1>2, Lengths DEF getch_slip, AfterRead, TcpSumOk, RxInv, Reading, intvars
<1>5. Stored(f)
  BY <1>3, <1>4, SumRight
<1> QED BY <1>2, <1>4, <1>5 DEF Whole, Stored

(* At whatever moments characters come and frames end, a request that the   *)
(* server takes up has the headers and the data of one frame.               *)
THEOREM RequestsAreWhole == RxSpec => RequestWhole
<1>1. RxInv /\ [RxNext]_rxvars => [pc # "request" /\ pc' = "request" => Whole']_rxvars
  <2> SUFFICES ASSUME RxInv, RxNext, pc # "request", pc' = "request" PROVE Whole'
    OBVIOUS
  <2>1. getch_slip
    BY DEF RxNext, rx_handler, RxEscape, RxChar, RxEnd, RxCr, TakeFrame, SlipEnd, Proceed, Sending
  <2> QED BY <2>1, SumShows
<1> QED BY <1>1, InitRxInv, NextRxInv, PTL DEF RxSpec, RequestWhole

-----------------------------------------------------------------------------
(* The whole program.  Proper are the frames that the clients may send.     *)
Proper == Sendable(plan)
Numbers == (0 .. CONCOUNTS - 1) \X Counted(plan)

OfFrame(piece, i) == piece[1] \in Proper /\ piece = <<piece[1], i>> /\ i <= Size(piece[1])

Kept ==
    /\ plan \in Plans /\ queue \in Seq(Proper)
    /\ \A i \in 1..rxcount : OfFrame(rxbuff[i], i)
    /\ \A i \in 1..Len(regs) : OfFrame(regs[i], i)
    /\ pc \in {"icmp", "echo"} => regs # <<>>
    /\ modemflag => \E c \in Clients : Port(c) = "modem"

(* How much of a frame the buffer holds                                     *)
Held(f) == IF Size(f) < RXBUFFLEN THEN Size(f) ELSE RXBUFFLEN

(* A quick server knows the length of the frame whose data are summed.      *)
QuickKnows ==
    plan.pace = "quick" =>
        /\ rxin < HDR => \A f \in Proper : DataOf(f) # {} /\ rdcheck = DataOf(f) => rxcount = Held(f)
        /\ Waiting /\ rxin >= HDR => rdcheck = {}
        /\ pc \in {"request", "find"} /\ DataOf(seg) # {} => rxcount = Held(seg)

(* The names are read in time.                                              *)
Timely == plan.pace # "any"

(* What is read in time is there when it is read.                           *)
InPlace ==
    (Timely /\ pc = "request") \/ (plan.pace = "quick" /\ pc = "find") => Stored(seg)

Name(c) == plan.clients[c].request[1]
Named(name) == {i \in DOMAIN Rom : Fits(name, i)}

(* The search has passed over no file that it looks for, if that is the one *)
(* that is asked for.                                                       *)
Searching ==
    pc = "find" =>
        /\ ~txflag /\ seg.kind = "get" /\ fileidx \in 0 .. Len(Rom)
        /\ Timely =>
              /\ Name(seg.who) # "$"
              /\ \/ romdir.name = Name(seg.who) /\ \A i \in 1..fileidx : ~Fits(romdir.name, i)
                 \/ romdir.name = "" /\ fileidx = 0 /\ Named(Name(seg.who)) = {}

Known ==
    /\ concount \in 0 .. CONCOUNTS - 1
    /\ client \in [Clients -> [st : {"idle", "opening", "est", "closing", "done", "refused"},
                               rcv : Numbers]]
    /\ pages = [c \in Clients |-> pages[c]]
    /\ \A c \in Clients :
        /\ client[c].st \in {"idle", "opening", "est"} => pages[c] = <<>>
        /\ client[c].st = "est" => client[c].rcv[2] = 0

Shown(c, v) == plan.pace = "quick" /\ Named(Name(c)) # {} /\ Sets(c, v)

(* What is to be sent: headers alone, with a text, or with a file           *)
Headers(h) ==
    /\ h.to \in Clients /\ h.seq[1] \in 0 .. CONCOUNTS - 1 /\ "ECHO" \notin h.flags
    /\ h.sum # <<>> => "FIN" \in h.flags
HeadersOnly(h) == txbuff = <<h>> /\ ~txi2c /\ h.sum = <<>>
Texts == {"time", "fail"}
WithText(h) ==
    \E text \in Texts :
        /\ txbuff = <<h, <<text, txbuff[2][2]>>>> /\ ~txi2c
        /\ h.sum = <<text>> /\ (Timely => Wanted(h.to) = <<text>>)
WithFile(h) ==
    /\ txbuff = <<h>> /\ txi2c
    /\ (Timely => h.sum = Wanted(h.to)) /\ \E i \in DOMAIN Rom : h.sum = Rom[i].chars
    /\ \A v \in 0..1 : Shown(h.to, v) => port = v

(* or what a ping has brought, which a quick server copies as it was summed *)
WithEcho(h) ==
    /\ IsSeq(txbuff) /\ Len(txbuff) \in Nat \ {0} /\ ~txi2c
    /\ h.to \in Clients /\ "ECHO" \in h.flags
    /\ plan.pace = "quick" =>
          /\ IsSeq(h.sum) /\ Len(txbuff) = Len(h.sum) + 1
          /\ \A i \in 1..Len(h.sum) : txbuff[i + 1][1] = h.sum[i]
Answer ==
    txflag => LET h == txbuff[1] IN
              \/ WithEcho(h)
              \/ Headers(h) /\ (HeadersOnly(h) \/ WithFile(h) \/ WithText(h))

(* Between the sum and the copy of a ping                                   *)
Copying ==
    pc = "copy" =>
        LET h == txbuff[1] IN
        /\ ~txflag /\ txbuff = <<h>> /\ h.to \in Clients /\ "ECHO" \in h.flags
        /\ plan.pace = "quick" => h.sum = EchoData

(* How much of it was sent                                                  *)
Part ==
    txflag =>
        LET h == txbuff[1] IN
        /\ IsSeq(hbuf)
        /\ \/ /\ txout \in 0 .. Len(txbuff) /\ Len(hbuf) = txout
              /\ \A i \in 1..txout : hbuf[i] = txbuff[i]
              /\ txi2c => romdir.chars = h.sum
           \/ /\ txi2c /\ txout = Len(txbuff) + 1
              /\ IsSeq(romdir.chars)
              /\ hbuf # <<>> /\ hbuf[1] = h
              /\ Len(hbuf) + Len(romdir.chars) = Len(h.sum) + 1
              /\ \A i \in 2..Len(hbuf) : hbuf[i] = Substitute(h.sum[i - 1])
              /\ \A i \in 1..Len(romdir.chars) : romdir.chars[i] = h.sum[Len(hbuf) - 1 + i]

Pages ==
    \A c \in Clients : Timely /\ pages[c] # <<>> =>
        /\ Chars(pages[c]) = Wanted(c)
        /\ \A v \in 0..1, i \in DOMAIN pages[c] :
              pages[c][i][1] \in {"#", "|"} /\ Shown(c, v) => pages[c][i][2] = v

Dir == DOMAIN romdir = {"name", "chars"}

WebInv ==
    /\ RxInv /\ Kept /\ QuickKnows /\ InPlace
    /\ Searching /\ Known /\ Answer /\ Copying /\ Part /\ Pages /\ Dir

-----------------------------------------------------------------------------
(* What the plans are, and the frames.                                      *)
LEMMA WebConstants ==
    /\ CONCOUNTS \in Nat \ {0}
    /\ 0 \in 0 .. CONCOUNTS - 1
    /\ HDR \in Nat \ {0, 1}
BY WebAssumption, RxAssumption DEF HDR

LEMMA ElementOf == ASSUME NEW S, NEW s \in Seq(S), NEW i \in DOMAIN s PROVE s[i] \in S
OBVIOUS

LEMMA FunctionIsSeq == ASSUME NEW S, NEW n \in Nat, NEW s \in [1..n -> S] PROVE s \in Seq(S)
OBVIOUS

LEMMA EmptySeqOf == ASSUME NEW S, NEW s \in Seq(S), Len(s) = 0 PROVE s = <<>>
OBVIOUS

LEMMA PlanFacts ==
    ASSUME plan \in Plans
    PROVE  /\ Rom \in Seq([name : STRING, chars : Seq(STRING)])
           /\ Counted(plan) \subseteq Nat /\ 0..2 \subseteq Counted(plan)
           /\ \A i \in DOMAIN Rom : Len(Rom[i].chars) + 1 \in Counted(plan)
           /\ <<0, 0>> \in Numbers
<1>1. Rom \in Seq([name : STRING, chars : Seq(STRING)])
  BY PlansAssumption DEF Rom
<1>2. ASSUME NEW i \in DOMAIN Rom PROVE Len(Rom[i].chars) + 1 \in Nat
  <2>1. Rom[i] \in [name : STRING, chars : Seq(STRING)]
    BY <1>1, ElementOf
  <2> QED BY <2>1
<1>3. Counted(plan) \subseteq Nat /\ 0..2 \subseteq Counted(plan)
  BY <1>2 DEF Counted, Rom
<1>4. \A i \in DOMAIN Rom : Len(Rom[i].chars) + 1 \in Counted(plan)
  BY DEF Counted, Rom
<1>5. <<0, 0>> \in Numbers
  BY <1>3, WebConstants DEF Numbers
<1> QED BY <1>1, <1>3, <1>4, <1>5

LEMMA ProperFrame ==
    ASSUME plan \in Plans, NEW f \in Proper
    PROVE  /\ f \in Frames /\ f.who \in Clients
           /\ f.kind \in {"syn", "ack", "get", "fin", "ping", "modem"}
           /\ f.seq \in Nat /\ f.ack \in Numbers
           /\ f.data = IF f.kind = "get" THEN plan.clients[f.who].request ELSE <<>>
           /\ f.kind = "get" => Port(f.who) = "http"
           /\ f \in Dials => Port(f.who) = "modem"
           /\ Size(f) \in Nat /\ Len(f.data) \in Nat
           /\ IF f \in Dials THEN Size(f) < HDR ELSE Size(f) = HDR + Len(f.data)
<1>1. f \in Sendable(plan)
  BY DEF Proper
<1>2. /\ f.who \in Clients /\ f.kind \in {"syn", "ack", "get", "fin", "ping", "modem"}
      /\ f.seq \in Nat /\ f.ack \in Numbers
      /\ f.data = IF f.kind = "get" THEN plan.clients[f.who].request ELSE <<>>
      /\ f.kind = "get" => Port(f.who) = "http"
      /\ f.kind = "modem" => Port(f.who) = "modem"
  BY <1>1 DEF Sendable, Clients, Port, Numbers
<1>3. /\ f \in Frames /\ (f.kind = "modem" <=> f \in Dials)
      /\ IF f \in Dials THEN Size(f) < HDR ELSE Size(f) = HDR + Len(f.data)
  BY <1>1, FramesAssumption
<1>4. Len(f.data) \in Nat
  <2>1. Len(plan.clients[f.who].request) \in Nat
    BY <1>2, PlansAssumption DEF Clients
  <2>2. CASE f.kind = "get"
    BY <1>2, <2>1, <2>2
  <2>3. CASE f.kind # "get"
    BY <1>2, <2>3
  <2> QED BY <2>2, <2>3
<1> QED BY <1>2, <1>3, <1>4, Lengths

LEMMA HttpRequest ==
    ASSUME plan \in Plans, NEW c \in Clients, Port(c) = "http"
    PROVE  Len(plan.clients[c].request) \in Nat \ {0} /\ Name(c) # ""
<1> DEFINE r == plan.clients[c].request
           n == Len(r)
<1>1. n \in Nat /\ r = [i \in 1..n |-> r[i]] /\ r # <<>> /\ r[1] \in STRING \ {""}
  BY PlansAssumption DEF Clients, Port
<1>2. r \in Seq({r[i] : i \in 1..n})
  <2> DEFINE S == {r[i] : i \in 1..n}
  <2>1. r \in [1..n -> S]
    <3>1. \A i \in 1..n : r[i] \in S
      OBVIOUS
    <3> HIDE DEF S
    <3> QED BY <1>1, <3>1
  <2> HIDE DEF S
  <2> QED BY <1>1, <2>1, FunctionIsSeq
<1>3. n # 0
  <2>1. n = 0 => r = <<>>
    <3> HIDE DEF r
    <3> QED BY <1>2, EmptySeqOf
  <2> QED BY <1>1, <2>1
<1> QED BY <1>1, <1>3 DEF Name

(* Frames that the clients make are proper.                                 *)
LEMMA MakesFrames ==
    ASSUME plan \in Plans, NEW c \in Clients, NEW rcv \in Numbers
    PROVE  /\ Opening(c) \in Proper /\ Fin(c, rcv) \in Proper
           /\ \A n \in 0..2 : Ack(c, n, rcv) \in Proper
           /\ Request(c, rcv) \in Seq(Proper)
<1> DEFINE K == {"syn", "ack", "get", "fin", "ping", "modem"}
<1>1. ASSUME NEW k \in K, NEW n \in 0..2, NEW a \in Numbers, NEW d,
             d = IF k = "get" THEN plan.clients[c].request ELSE <<>>,
             k = "get" => Port(c) = "http", k = "modem" => Port(c) = "modem"
      PROVE  Frame(c, k, n, a, d) \in Proper
  <2>1. d \in {<<>>} \cup {plan.clients[e].request : e \in Clients}
    BY <1>1
  <2> QED BY <1>1, <2>1 DEF Frame, Proper, Sendable, Clients, Port, Numbers
<1>2. Alone \in Numbers /\ LastSeq(c) \in 0..2
  BY PlanFacts DEF Alone, LastSeq
<1>3. Opening(c) \in Proper
  BY <1>1, <1>2 DEF Opening
<1>4. Fin(c, rcv) \in Proper /\ \A n \in 0..2 : Ack(c, n, rcv) \in Proper
  BY <1>1, <1>2 DEF Fin, Ack
<1>5. Request(c, rcv) \in Seq(Proper)
  <2>1. CASE Port(c) = "http"
    <3>1. Frame(c, "get", 1, rcv, plan.clients[c].request) \in Proper
      BY <1>1, <2>1
    <3> QED BY <2>1, <3>1 DEF Request
  <2> QED BY <2>1 DEF Request
<1> QED BY <1>3, <1>4, <1>5

-----------------------------------------------------------------------------
(* A whole frame                                                            *)
LEMMA CharsAre ==
    ASSUME NEW data, IsSeq(data), NEW sum, IsSeq(sum), Len(data) = Len(sum),
           \A i \in 1..Len(sum) : data[i][1] = sum[i]
    PROVE  Chars(data) = sum
<1> DEFINE D == {data[i] : i \in DOMAIN data}
           S == {sum[i] : i \in DOMAIN sum}
           n == Len(sum)
           t == Chars(data)
<1>1. data \in Seq(D) /\ n \in Nat /\ DOMAIN data = 1..n /\ sum \in Seq(S)
  BY DEF IsSeq
<1> HIDE DEF S, D
<1>2. t = [i \in 1..n |-> data[i][1]]
  BY <1>1 DEF Chars
<1>3. t \in [1..n -> S]
  <2>1. \A i \in 1..n : sum[i] \in S
    BY <1>1
  <2> HIDE DEF t
  <2> QED BY <1>2, <2>1
<1>4. t \in Seq(S) /\ Len(t) = n
  <2> HIDE DEF t, n
  <2> QED BY <1>1, <1>3, FunctionIsSeq
<1>5. \A i \in 1..n : t[i] = sum[i]
  BY <1>2
<1> HIDE DEF t
<1> QED BY <1>1, <1>4, <1>5, SameSeq DEF t

LEMMA AppendedAt ==
    ASSUME NEW s, IsSeq(s), NEW x
    PROVE  /\ IsSeq(Append(s, x)) /\ Len(s) \in Nat /\ Len(Append(s, x)) = Len(s) + 1
           /\ \A i \in 1 .. Len(s) + 1 : Append(s, x)[i] = IF i = Len(s) + 1 THEN x ELSE s[i]
<1> DEFINE S == {s[i] : i \in DOMAIN s} \cup {x}
<1>1. s \in Seq(S) /\ x \in S
  BY DEF IsSeq
<1>2. IsSeq(Append(s, x))
  BY Appended
<1> HIDE DEF S
<1> QED BY <1>1, <1>2

LEMMA RestOf ==
    ASSUME NEW s, IsSeq(s), s # <<>>
    PROVE  /\ IsSeq(Tail(s)) /\ Len(s) \in Nat \ {0} /\ Len(Tail(s)) = Len(s) - 1
           /\ \A i \in 1..Len(Tail(s)) : Tail(s)[i] = s[i + 1]
<1> DEFINE S == {s[i] : i \in DOMAIN s}
<1>1. IsSeq(Tail(s))
  BY HeadTail
<1>2. s \in Seq(S)
  BY DEF IsSeq
<1> HIDE DEF S
<1>3. Len(s) \in Nat \ {0}
  BY <1>2, EmptySeqOf
<1> QED BY <1>1, <1>2, <1>3

(* What the three kinds of an answer have in common.                        *)
LEMMA SumIsSeq ==
    ASSUME WebInv, txflag, "ECHO" \notin txbuff[1].flags
    PROVE  LET h == txbuff[1] IN
           /\ IsSeq(h.sum) /\ Len(h.sum) \in Nat /\ Len(h.sum) + 1 \in Counted(plan)
           /\ Timely /\ h.sum # <<>> => h.sum = Wanted(h.to)
<1> DEFINE h == txbuff[1]
<1>0. plan \in Plans /\ Headers(h) /\ (HeadersOnly(h) \/ WithText(h) \/ WithFile(h))
  BY DEF WebInv, Kept, Answer, WithEcho
<1>1. CASE HeadersOnly(h)
  BY <1>0, <1>1, PlanFacts, EmptyIsSeq DEF HeadersOnly
<1>2. CASE WithText(h)
  <2>1. PICK text \in Texts : h.sum = <<text>> /\ (Timely => Wanted(h.to) = <<text>>)
    BY <1>2 DEF WithText
  <2>3. IsSeq(<<text>>) /\ Len(<<text>>) = 1
    BY OneIsSeq
  <2>4. 2 \in Counted(plan)
    BY <1>0, PlanFacts
  <2> QED BY <2>1, <2>3, <2>4
<1>3. CASE WithFile(h)
  <2>1. PICK i \in DOMAIN Rom : h.sum = Rom[i].chars
    BY <1>3 DEF WithFile
  <2>2. Rom[i] \in [name : STRING, chars : Seq(STRING)]
    BY <1>0, PlanFacts, ElementOf
  <2>3. IsSeq(Rom[i].chars) /\ Len(Rom[i].chars) \in Nat
    BY <2>2, SeqIsSeq
  <2> QED BY <1>0, <1>3, <2>1, <2>3, PlanFacts DEF WithFile
<1> QED BY <1>0, <1>1, <1>2, <1>3

LEMMA GoodFrame ==
    ASSUME NEW frame, frame # <<>>,
           [i \in DOMAIN Tail(frame) |-> Tail(frame)[i][1]] = frame[1].sum,
           \A i, j \in DOMAIN Tail(frame) :
              <<Tail(frame)[i][1], Tail(frame)[j][1]>> \in Twins => Tail(frame)[i][2] = Tail(frame)[j][2]
    PROVE  Good(frame)
  BY DEF Good

ShowsValue(v, data) == \A i \in 1..Len(data) : data[i][1] \in {"#", "|"} => data[i][2] = v

LEMMA WholeFrame ==
    ASSUME WebInv, txflag, AllSent, "ECHO" \notin txbuff[1].flags
    PROVE  LET h == txbuff[1]
               data == Tail(hbuf)
           IN /\ Good(hbuf) /\ hbuf[1] = h /\ IsSeq(data)
              /\ Len(data) = Len(h.sum) /\ Chars(data) = h.sum
              /\ \A v \in 0..1 : Shown(h.to, v) => ShowsValue(v, data)
<1> DEFINE h == txbuff[1]
           data == Tail(hbuf)
           n == Len(h.sum)
<1>0. /\ Headers(h) /\ (HeadersOnly(h) \/ WithText(h) \/ WithFile(h)) /\ IsSeq(hbuf)
      /\ IsSeq(h.sum) /\ n \in Nat
  BY SumIsSeq DEF WebInv, Answer, Part, WithEcho
<1>1. /\ hbuf # <<>> /\ hbuf[1] = h /\ Len(hbuf) = n + 1
      /\ \A i \in 1..n : hbuf[i + 1][1] = h.sum[i]
      /\ \A i, j \in 1..n : <<hbuf[i + 1][1], hbuf[j + 1][1]>> \in Twins => hbuf[i + 1][2] = hbuf[j + 1][2]
      /\ \A v \in 0..1, i \in 1..n :
            Shown(h.to, v) /\ hbuf[i + 1][1] \in {"#", "|"} => hbuf[i + 1][2] = v
  <2>1. CASE HeadersOnly(h)
    <3>0. Len(txbuff) = 1 /\ ~txi2c /\ n = 0
      BY <2>1 DEF HeadersOnly
    <3>1. txout = 1 /\ Len(hbuf) = 1 /\ hbuf[1] = h /\ n = 0
      <4>1. txout \in 0..1 /\ Len(hbuf) = txout /\ \A i \in 1..txout : hbuf[i] = txbuff[i]
        BY <3>0 DEF WebInv, Part
      <4>2. txout = 1
        BY <3>0, <4>1 DEF AllSent
      <4> QED BY <3>0, <4>1, <4>2
    <3> QED BY <1>0, <3>1 DEF IsSeq
  <2>2. CASE WithText(h)
    <3> DEFINE v == txbuff[2][2]
    <3>1. PICK text \in Texts : txbuff = <<h, <<text, v>>>> /\ ~txi2c /\ h.sum = <<text>>
      BY <2>2 DEF WithText
    <3>2. Len(txbuff) = 2 /\ txbuff[2] = <<text, v>> /\ n = 1 /\ h.sum[1] = text
      BY <3>1
    <3>3. txout = 2 /\ Len(hbuf) = 2 /\ hbuf[1] = h /\ hbuf[2] = <<text, v>>
      <4>1. /\ txout \in 0..2 /\ Len(hbuf) = txout
            /\ \A i \in 1..txout : hbuf[i] = txbuff[i]
        BY <3>1, <3>2 DEF WebInv, Part
      <4>2. txout = 2
        BY <3>1, <3>2, <4>1 DEF AllSent
      <4> QED BY <3>2, <4>1, <4>2
    <3>4. \A i \in 1..n : hbuf[i + 1][1] = text /\ h.sum[i] = text
      BY <3>2, <3>3
    <3> QED BY <1>0, <3>2, <3>3, <3>4 DEF IsSeq, Texts, Twins
  <2>3. CASE WithFile(h)
    <3>1. txbuff = <<h>> /\ txi2c /\ \A v \in 0..1 : Shown(h.to, v) => port = v
      BY <2>3 DEF WithFile
    <3>2. /\ romdir.chars = <<>> /\ hbuf # <<>> /\ hbuf[1] = h /\ Len(hbuf) = n + 1
          /\ \A i \in 2..Len(hbuf) : hbuf[i] = Substitute(h.sum[i - 1])
      <4>1. txout > Len(txbuff) /\ romdir.chars = <<>> /\ Len(txbuff) = 1
        BY <3>1 DEF AllSent, WebInv, Part
      <4>2. /\ hbuf # <<>> /\ hbuf[1] = h
            /\ Len(hbuf) + Len(romdir.chars) = n + 1
            /\ \A i \in 2..Len(hbuf) : hbuf[i] = Substitute(h.sum[i - 1])
        BY <3>1, <4>1 DEF WebInv, Part
      <4>3. Len(hbuf) \in Nat /\ Len(romdir.chars) = 0
        BY <1>0, <4>1 DEF IsSeq
      <4> QED BY <1>0, <4>1, <4>2, <4>3
    <3>3. \A i \in 1..n : hbuf[i + 1] = Substitute(h.sum[i])
      <4> TAKE i \in 1..n
      <4>1. i + 1 \in 2..Len(hbuf) /\ (i + 1) - 1 = i
        BY <1>0, <3>2
      <4> QED BY <3>2, <4>1
    <3>4. \A i \in 1..n : /\ hbuf[i + 1][1] = h.sum[i]
                          /\ h.sum[i] \in {"#", "|"} => hbuf[i + 1][2] = port
                          /\ h.sum[i] \in {"@", "~"} => hbuf[i + 1][2] = rtc
      BY <3>3 DEF Substitute
    <3>5. \A i, j \in 1..n : <<hbuf[i + 1][1], hbuf[j + 1][1]>> \in Twins => hbuf[i + 1][2] = hbuf[j + 1][2]
      BY <3>4 DEF Twins
    <3> QED BY <3>1, <3>2, <3>4, <3>5
  <2> QED BY <1>0, <2>1, <2>2, <2>3
<1>2. IsSeq(data) /\ Len(data) = n /\ \A i \in 1..n : data[i] = hbuf[i + 1]
  BY <1>0, <1>1, RestOf
<1>3. Chars(data) = h.sum
  <2> DEFINE sum == h.sum
  <2>1. IsSeq(data) /\ IsSeq(sum) /\ Len(data) = Len(sum) /\ \A i \in 1..Len(sum) : data[i][1] = sum[i]
    BY <1>0, <1>1, <1>2
  <2> HIDE DEF data, sum
  <2>2. Chars(data) = sum
    BY <2>1, CharsAre
  <2> QED BY <2>2 DEF sum
<1>4. DOMAIN data = 1..n
  BY <1>2 DEF IsSeq
<1>5. Good(hbuf)
  <2>1. [i \in DOMAIN data |-> data[i][1]] = hbuf[1].sum
    BY <1>1, <1>3 DEF Chars
  <2>2. \A i, j \in DOMAIN data : <<data[i][1], data[j][1]>> \in Twins => data[i][2] = data[j][2]
    <3> TAKE i, j \in DOMAIN data
    <3>1. i \in 1..n /\ j \in 1..n
      BY <1>4
    <3>2. data[i] = hbuf[i + 1] /\ data[j] = hbuf[j + 1]
      BY <1>2, <3>1
    <3> QED BY <1>1, <3>1, <3>2
  <2>3. hbuf # <<>>
    BY <1>1
  <2> QED BY <2>1, <2>2, <2>3, GoodFrame
<1>6. \A v \in 0..1 : Shown(h.to, v) => ShowsValue(v, data)
  <2> SUFFICES ASSUME NEW v \in 0..1, Shown(h.to, v), NEW i \in 1..n, data[i][1] \in {"#", "|"}
               PROVE  data[i][2] = v
    BY <1>2 DEF ShowsValue
  <2> QED BY <1>1, <1>2
<1> QED BY <1>1, <1>2, <1>3, <1>5, <1>6

(* An echo is whole from a quick server.                                    *)
LEMMA WholeEcho ==
    ASSUME WebInv, txflag, AllSent, "ECHO" \in txbuff[1].flags
    PROVE  /\ hbuf # <<>> /\ hbuf[1] = txbuff[1] /\ hbuf[1].to \in Clients
           /\ plan.pace = "quick" => Good(hbuf)
<1> DEFINE h == txbuff[1]
           data == Tail(hbuf)
<1>1. WithEcho(h) /\ Part
  BY DEF WebInv, Answer, Headers
<1>2. txout = Len(txbuff) /\ Len(txbuff) \in Nat \ {0} /\ h.to \in Clients
      /\ IsSeq(hbuf) /\ Len(hbuf) = txout /\ \A i \in 1..txout : hbuf[i] = txbuff[i]
  BY <1>1 DEF WithEcho, Part, AllSent
<1>3. hbuf # <<>> /\ hbuf[1] = h
  BY <1>2 DEF IsSeq
<1>4. ASSUME plan.pace = "quick" PROVE Good(hbuf)
  <2> DEFINE sum == h.sum
             n == Len(sum)
  <2>1. IsSeq(sum) /\ Len(hbuf) = n + 1 /\ \A i \in 1..n : txbuff[i + 1][1] = sum[i]
    BY <1>1, <1>2, <1>4 DEF WithEcho
  <2>2. IsSeq(data) /\ Len(data) = Len(hbuf) - 1 /\ \A i \in 1..Len(data) : data[i] = hbuf[i + 1]
    BY <1>2, <1>3, RestOf
  <2>3. n \in Nat /\ Len(data) = n
    <3>1. n \in Nat
      BY <2>1 DEF IsSeq
    <3> HIDE DEF data, n
    <3> QED BY <2>1, <2>2, <3>1
  <2>4. \A i \in 1..n : data[i][1] = sum[i]
    <3> TAKE i \in 1..n
    <3>1. i + 1 \in 1..txout /\ data[i] = hbuf[i + 1]
      BY <1>2, <2>1, <2>2, <2>3
    <3> QED BY <1>2, <2>1, <3>1
  <2> HIDE DEF sum, data
  <2>5. Chars(data) = sum
    BY <2>1, <2>2, <2>3, <2>4, CharsAre
  <2> QED BY <1>3, <2>5 DEF Good, Chars, data, sum
<1> QED BY <1>2, <1>3, <1>4

LEMMA LongerQueue ==
    ASSUME NEW P, NEW q \in Seq(P), NEW add \in Seq(P)
    PROVE  q \o add \in Seq(P) /\ (q # <<>> => q \o add # <<>> /\ Head(q \o add) = Head(q))
<1>1. q \o add \in Seq(P) /\ Len(q) \in Nat /\ Len(add) \in Nat /\ Len(q \o add) = Len(q) + Len(add)
  OBVIOUS
<1>2. ASSUME q # <<>> PROVE q \o add # <<>> /\ Head(q \o add) = Head(q)
  <2>1. Len(q) # 0
    BY <1>2, EmptySeqOf
  <2>2. (q \o add)[1] = q[1] /\ Len(q \o add) # 0
    BY <1>1, <2>1
  <2>3. Head(q) = q[1] /\ Head(q \o add) = (q \o add)[1] /\ q \o add # <<>>
    BY <1>1, <2>2
  <2> QED BY <2>2, <2>3
<1> QED BY <1>1, <1>2

LEMMA LongerByOne ==
    ASSUME NEW P, NEW q \in Seq(P), NEW x \in P
    PROVE  Append(q, x) \in Seq(P) /\ (q # <<>> => Append(q, x) # <<>> /\ Head(Append(q, x)) = Head(q))
<1>1. q # <<>> => Len(q) # 0
  BY EmptySeqOf
<1> QED BY <1>1

(* The clients' queue has become longer.                                    *)
Longer == queue' \in Seq(Proper) /\ (queue # <<>> => queue' # <<>> /\ Head(queue') = Head(queue))

-----------------------------------------------------------------------------
(* What a client makes of an answer                                         *)
LEMMA SamePlan ==
    ASSUME UNCHANGED plan
    PROVE  /\ Proper' = Proper /\ Numbers' = Numbers /\ Clients' = Clients /\ Rom' = Rom
           /\ Counted(plan)' = Counted(plan)
BY DEF Proper, Numbers, Clients, Rom

LEMMA SameClient ==
    ASSUME UNCHANGED plan, NEW c
    PROVE  /\ Port(c)' = Port(c) /\ Wanted(c)' = Wanted(c) /\ Name(c)' = Name(c)
           /\ \A v : Sets(c, v)' = Sets(c, v) /\ Shown(c, v)' = Shown(c, v)
BY DEF Port, Wanted, Name, Sets, Shown, Named, Fits, Rom, FileFor

States == {"idle", "opening", "est", "closing", "done", "refused"}

(* What Known says of a client                                              *)
GoodClient(c, r, page) ==
    /\ r \in [st : States, rcv : Numbers]
    /\ r.st \in {"idle", "opening", "est"} => page = <<>>
    /\ r.st = "est" => r.rcv[2] = 0

LEMMA KnownClients ==
    Known <=> /\ concount \in 0 .. CONCOUNTS - 1
              /\ client = [c \in Clients |-> client[c]] /\ pages = [c \in Clients |-> pages[c]]
              /\ \A c \in Clients : GoodClient(c, client[c], pages[c])
BY DEF Known, GoodClient, States

GoodPage(c, page) ==
    Timely /\ page # <<>> =>
        /\ Chars(page) = Wanted(c)
        /\ \A v \in 0..1, i \in DOMAIN page :
              page[i][1] \in {"#", "|"} /\ Shown(c, v) => page[i][2] = v

LEMMA ClientStep ==
    ASSUME Known, Pages, UNCHANGED <<plan, concount>>, NEW c \in Clients, NEW r, NEW page,
           client' = [client EXCEPT ![c] = r], pages' = [pages EXCEPT ![c] = page],
           GoodClient(c, r, page), GoodPage(c, page)
    PROVE  Known' /\ Pages'
<1>1. UNCHANGED plan /\ pages' = [d \in Clients |-> pages'[d]] /\ Clients' = Clients
  BY SamePlan DEF Known
<1>2. \A d \in Clients : /\ client'[d] = IF d = c THEN r ELSE client[d]
                         /\ pages'[d] = IF d = c THEN page ELSE pages[d]
  BY DEF Known
<1>3. client' = [d \in Clients |-> client'[d]]
  BY <1>2, KnownClients
<1>4. ASSUME NEW d \in Clients PROVE GoodClient(d, client[d], pages[d])' /\ GoodPage(d, pages'[d])
  <2>1. GoodClient(d, client'[d], pages'[d]) /\ GoodPage(d, pages'[d])
    BY <1>2, KnownClients DEF Pages, GoodPage
  <2> QED BY <1>1, <2>1, SamePlan DEF GoodClient
<1>5. Pages'
  <2> SUFFICES ASSUME NEW d \in Clients, Timely, pages'[d] # <<>>
               PROVE /\ Chars(pages'[d]) = Wanted(d)'
                     /\ \A v \in 0..1, i \in DOMAIN pages'[d] :
                          pages'[d][i][1] \in {"#", "|"} /\ Shown(d, v)' => pages'[d][i][2] = v
    BY <1>1 DEF Pages, Chars, Timely
  <2>1. GoodPage(d, pages'[d]) /\ Wanted(d)' = Wanted(d) /\ \A v : Shown(d, v)' = Shown(d, v)
    BY <1>1, <1>4, SameClient
  <2> QED BY <2>1 DEF GoodPage
<1>6. Known'
  <2>1. concount' \in 0 .. CONCOUNTS - 1 /\ client' \in [Clients -> [st : States, rcv : Numbers]]'
    BY <1>1, <1>3, <1>4, SamePlan DEF Known, GoodClient
  <2>2. \A d \in Clients : GoodClient(d, client[d], pages[d])'
    BY <1>4
  <2> QED BY <1>1, <2>1, <2>2 DEF Known, GoodClient, States
<1> QED BY <1>5, <1>6

(* Nothing new for any of them                                              *)
LEMMA ClientsStayAt ==
    ASSUME Known, Pages, UNCHANGED <<plan, client, pages>>, concount' \in 0 .. CONCOUNTS - 1
    PROVE  Known' /\ Pages'
<1>1. UNCHANGED plan /\ Clients' = Clients /\ Numbers' = Numbers
  BY SamePlan
<1>2. Known'
  BY <1>1 DEF Known
<1>3. Pages'
  <2> SUFFICES ASSUME NEW d \in Clients, Timely, pages[d] # <<>>
               PROVE /\ Chars(pages[d]) = Wanted(d)'
                     /\ \A v \in 0..1, i \in DOMAIN pages[d] :
                          pages[d][i][1] \in {"#", "|"} /\ Shown(d, v)' => pages[d][i][2] = v
    BY <1>1 DEF Pages, Chars, Timely
  <2>1. Wanted(d)' = Wanted(d) /\ \A v : Shown(d, v)' = Shown(d, v)
    BY <1>1, SameClient
  <2> QED BY <2>1 DEF Pages
<1> QED BY <1>2, <1>3

LEMMA ClientsStay ==
    ASSUME Known, Pages, UNCHANGED <<plan, concount, client, pages>>
    PROVE  Known' /\ Pages'
<1>1. concount' \in 0 .. CONCOUNTS - 1
  BY DEF Known
<1> QED BY <1>1, ClientsStayAt

LEMMA PageStays ==
    ASSUME Known, Pages, NEW c \in Clients
    PROVE  pages = [pages EXCEPT ![c] = pages[c]] /\ GoodPage(c, pages[c])
BY DEF Known, Pages, GoodPage

(* A client goes on to another state.                                       *)
LEMMA NewStateStep ==
    ASSUME WebInv, UNCHANGED <<plan, concount, pages>>, NEW c \in Clients,
           \/ \E st \in {"done", "refused"} : client' = [client EXCEPT ![c].st = st]
           \/ client[c].st = "idle" /\ client' = [client EXCEPT ![c].st = "opening"]
    PROVE  Known' /\ Pages'
<1>1. Known /\ Pages /\ GoodClient(c, client[c], pages[c]) /\ GoodPage(c, pages[c])
  BY KnownClients DEF WebInv, Pages, GoodPage
<1>2. PICK st \in {"done", "refused", "opening"} :
        client' = [client EXCEPT ![c].st = st] /\ (st = "opening" => client[c].st = "idle")
  OBVIOUS
<1> DEFINE r == [client[c] EXCEPT !.st = st]
<1>3. client' = [client EXCEPT ![c] = r]
  BY <1>2
<1>4. GoodClient(c, r, pages[c])
  BY <1>1, <1>2 DEF GoodClient, States
<1>5. pages' = [pages EXCEPT ![c] = pages[c]]
  BY <1>1, PageStays
<1> HIDE DEF r
<1> QED BY <1>1, <1>3, <1>4, <1>5, ClientStep

AcceptsData(h, data) ==
    /\ Headers(h) /\ IsSeq(data) /\ Chars(data) = h.sum
    /\ Len(data) = Len(h.sum) /\ Len(data) \in Nat /\ Len(data) + 1 \in Counted(plan)
    /\ Timely /\ h.sum # <<>> => h.sum = Wanted(h.to)
    /\ \A v \in 0..1 : Shown(h.to, v) => ShowsValue(v, data)

LEMMA AcceptStep ==
    ASSUME WebInv, UNCHANGED <<plan, concount>>, NEW h, NEW data, AcceptsData(h, data),
           client[h.to].st = "est", h.seq = client[h.to].rcv, Accept(h.to, h, data)
    PROVE  Longer /\ Known' /\ Pages'
<1> DEFINE c == h.to
           fin == "FIN" \in h.flags
           rcv == <<h.seq[1], h.seq[2] + Len(data) + IF fin THEN 1 ELSE 0>>
           r == [st |-> IF fin THEN "closing" ELSE "est", rcv |-> rcv]
<1>0. /\ plan \in Plans /\ queue \in Seq(Proper) /\ Known /\ Pages
      /\ c \in Clients /\ GoodClient(c, client[c], pages[c])
      /\ Headers(h) /\ IsSeq(data) /\ Len(data) \in Nat /\ Len(data) + 1 \in Counted(plan)
      /\ Chars(data) = h.sum /\ Len(data) = Len(h.sum)
  BY KnownClients DEF WebInv, Kept, AcceptsData, Headers
<1>1. pages[c] = <<>> /\ h.seq \in Numbers /\ h.seq[2] = 0
  BY <1>0 DEF GoodClient
<1>2. ~fin => data = <<>> /\ Len(data) = 0
  <2> SUFFICES ASSUME ~fin PROVE data = <<>> /\ Len(data) = 0
    OBVIOUS
  <2>1. h.sum = <<>> /\ Len(data) = 0
    BY <1>0 DEF Headers
  <2> QED BY <1>0, <2>1, EmptySeqOf DEF IsSeq
<1>3. rcv \in Numbers
  <2>1. h.seq[1] \in 0 .. CONCOUNTS - 1 /\ 0 \in Counted(plan)
    BY <1>0, <1>1, PlanFacts DEF Numbers
  <2>2. h.seq[2] + Len(data) + (IF fin THEN 1 ELSE 0) \in Counted(plan)
    <3>1. CASE fin
      <4>1. h.seq[2] + Len(data) + (IF fin THEN 1 ELSE 0) = Len(data) + 1
        BY <1>0, <1>1, <3>1
      <4> QED BY <1>0, <4>1
    <3>2. CASE ~fin
      <4>1. h.seq[2] + Len(data) + (IF fin THEN 1 ELSE 0) = 0
        BY <1>1, <1>2, <3>2
      <4> QED BY <2>1, <4>1
    <3> QED BY <3>1, <3>2
  <2> QED BY <2>1, <2>2 DEF Numbers
<1>4. /\ client' = [client EXCEPT ![c] = r] /\ pages' = [pages EXCEPT ![c] = data]
      /\ queue' = queue \o IF fin THEN <<Fin(c, rcv)>> ELSE <<>>
  <2>1. pages' = [pages EXCEPT ![c] = pages[c] \o data] /\ pages[c] \o data = data
    BY <1>0, <1>1, ConcatNone DEF Accept, IsSeq
  <2>2. client' = [client EXCEPT ![c] = r]
    BY DEF Accept
  <2> QED BY <2>1, <2>2 DEF Accept
<1>5. GoodClient(c, r, data)
  BY <1>2, <1>3, <1>1 DEF GoodClient, States
<1>6. GoodPage(c, data)
  <2> SUFFICES ASSUME Timely, data # <<>> PROVE GoodPage(c, data)
    BY DEF GoodPage
  <2>1. h.sum # <<>>
    BY <1>0, EmptySeqOf DEF IsSeq
  <2>2. DOMAIN data = 1..Len(data)
    BY <1>0 DEF IsSeq
  <2> QED BY <1>0, <2>1, <2>2 DEF GoodPage, AcceptsData, ShowsValue
<1>7. Longer
  <2>1. (IF fin THEN <<Fin(c, rcv)>> ELSE <<>>) \in Seq(Proper)
    <3>1. Fin(c, rcv) \in Proper
      BY <1>0, <1>3, MakesFrames
    <3> HIDE DEF rcv
    <3> QED BY <3>1
  <2> HIDE DEF rcv, fin
  <2> QED BY <1>0, <1>4, <2>1, LongerQueue, SamePlan DEF Longer
<1>8. Known' /\ Pages'
  <2> HIDE DEF r, c
  <2> QED BY <1>0, <1>4, <1>5, <1>6, ClientStep
<1> QED BY <1>7, <1>8

LEMMA ConnectStep ==
    ASSUME WebInv, UNCHANGED <<plan, concount, pages>>, NEW c \in Clients, client[c].st = "opening",
           NEW n \in 0 .. CONCOUNTS - 1,
           client' = [client EXCEPT ![c] = [st |-> "est", rcv |-> <<n, 0>>]],
           queue' = queue \o <<Ack(c, 1, <<n, 0>>)>> \o Request(c, <<n, 0>>)
    PROVE  Longer /\ Known' /\ Pages'
<1> DEFINE start == <<n, 0>>
           r == [st |-> "est", rcv |-> start]
<1>0. /\ plan \in Plans /\ queue \in Seq(Proper) /\ Known /\ Pages
      /\ GoodClient(c, client[c], pages[c])
  BY KnownClients DEF WebInv, Kept
<1>1. start \in Numbers /\ pages[c] = <<>>
  BY <1>0, PlanFacts DEF GoodClient, Numbers
<1>2. GoodClient(c, r, <<>>) /\ GoodPage(c, <<>>)
  BY <1>1 DEF GoodClient, GoodPage, States
<1>3. pages' = [pages EXCEPT ![c] = <<>>]
  BY <1>0, <1>1, PageStays
<1>4. Known' /\ Pages'
  <2>1. client' = [client EXCEPT ![c] = r]
    OBVIOUS
  <2> HIDE DEF r
  <2> QED BY <1>0, <1>2, <1>3, <2>1, ClientStep
<1>5. Longer
  <2> DEFINE a == <<Ack(c, 1, start)>>
             q == Request(c, start)
  <2>1. Ack(c, 1, start) \in Proper /\ q \in Seq(Proper)
    <3>1. 1 \in 0..2
      OBVIOUS
    <3> HIDE DEF start
    <3> QED BY <1>0, <1>1, <3>1, MakesFrames
  <2>2. a \in Seq(Proper)
    BY <2>1
  <2>3. queue' = (queue \o a) \o q
    OBVIOUS
  <2> DEFINE qa == queue \o a
  <2> HIDE DEF a, q
  <2>4. /\ qa \in Seq(Proper)
        /\ queue # <<>> => qa # <<>> /\ Head(qa) = Head(queue)
    BY <1>0, <2>2, LongerQueue
  <2>5. queue' = qa \o q
    BY <2>3
  <2> HIDE DEF qa
  <2>6. qa \o q \in Seq(Proper) /\ (qa # <<>> => qa \o q # <<>> /\ Head(qa \o q) = Head(qa))
    BY <2>1, <2>4, LongerQueue
  <2> QED BY <2>4, <2>5, <2>6 DEF Longer
<1> QED BY <1>4, <1>5

LEMMA TakeCases ==
    ASSUME NEW h, NEW data, Take(h, data)
    PROVE  LET c == h.to
               start == <<h.seq[1], 0>>
           IN \/ (\E st \in {"done", "refused"} : NewState(c, st))
              \/ /\ client[c].st = "opening"
                 /\ client' = [client EXCEPT ![c] = [st |-> "est", rcv |-> start]]
                 /\ queue' = queue \o <<Ack(c, 1, start)>> \o Request(c, start)
                 /\ UNCHANGED pages
              \/ client[c].st = "est" /\ h.seq = client[c].rcv /\ Accept(c, h, data)
              \/ queue' = Append(queue, Ack(c, LastSeq(c), client[c].rcv)) /\ UNCHANGED <<client, pages>>
              \/ UNCHANGED <<queue, client, pages>>
BY DEF Take

LEMMA TakeStep ==
    ASSUME WebInv, UNCHANGED <<plan, concount>>, NEW h, NEW data, AcceptsData(h, data), Take(h, data)
    PROVE  Longer /\ Known' /\ Pages'
<1> DEFINE c == h.to
<1>0. /\ plan \in Plans /\ queue \in Seq(Proper) /\ Known /\ Pages /\ c \in Clients
      /\ h.seq[1] \in 0 .. CONCOUNTS - 1
      /\ queue # <<>> => Head(queue) = Head(queue)
  BY DEF WebInv, Kept, AcceptsData, Headers
<1>1. CASE \E st \in {"done", "refused"} : NewState(c, st)
  <2>1. UNCHANGED <<queue, pages>> /\ \E st \in {"done", "refused"} : client' = [client EXCEPT ![c].st = st]
    BY <1>1 DEF NewState
  <2> QED BY <1>0, <2>1, NewStateStep DEF Longer
<1>2. CASE /\ client[c].st = "opening"
           /\ client' = [client EXCEPT ![c] = [st |-> "est", rcv |-> <<h.seq[1], 0>>]]
           /\ queue' = queue \o <<Ack(c, 1, <<h.seq[1], 0>>)>> \o Request(c, <<h.seq[1], 0>>)
           /\ UNCHANGED pages
  BY <1>0, <1>2, ConnectStep
<1>3. CASE client[c].st = "est" /\ h.seq = client[c].rcv /\ Accept(c, h, data)
  BY <1>3, AcceptStep
<1>4. CASE queue' = Append(queue, Ack(c, LastSeq(c), client[c].rcv)) /\ UNCHANGED <<client, pages>>
  <2>1. client[c].rcv \in Numbers /\ LastSeq(c) \in 0..2
    BY <1>0 DEF Known, LastSeq
  <2>2. Ack(c, LastSeq(c), client[c].rcv) \in Proper
    BY <1>0, <2>1, MakesFrames
  <2> QED BY <1>0, <1>4, <2>2, LongerByOne, ClientsStay DEF Longer
<1>5. CASE UNCHANGED <<queue, client, pages>>
  BY <1>0, <1>5, ClientsStay DEF Longer
<1> HIDE DEF c
<1> QED BY <1>1, <1>2, <1>3, <1>4, <1>5, TakeCases DEF c

-----------------------------------------------------------------------------
(* What is not the receiver's: the transmitter, the clients and the line.   *)
Outside == tx_poll \/ rx_poll \/ (\E c \in Clients : Start(c) \/ Resend(c) \/ Early(c)) \/ Lose

Receiver == <<in, escflag, rxbuff, rxin, rxcount, rxflag, rdcheck, pc, rxout, regs>>

OutsideQueue ==
    /\ queue' \in Seq(Proper)
    /\ in > 0 => queue' # <<>> /\ Head(queue') = Head(queue)

LEMMA InQueue == ASSUME WebInv, Longer PROVE OutsideQueue
BY DEF WebInv, RxInv, Arrived, Longer, OutsideQueue

LEMMA HostStep ==
    ASSUME WebInv, txflag, AllSent, HostReceive, UNCHANGED <<plan, concount>>
    PROVE  Longer /\ Known' /\ Pages'
<1> DEFINE h == txbuff[1]
           data == Tail(hbuf)
<1>0. queue \in Seq(Proper) /\ Known /\ Pages
  BY DEF WebInv, Kept
<1>1. CASE UNCHANGED <<queue, client, pages>>
  BY <1>0, <1>1, ClientsStay DEF Longer
<1>2. CASE Take(hbuf[1], Tail(hbuf)) /\ "ECHO" \notin h.flags
  <2>1. /\ Good(hbuf) /\ hbuf[1] = h /\ IsSeq(data)
        /\ Len(data) = Len(h.sum) /\ Chars(data) = h.sum
        /\ \A v \in 0..1 : Shown(h.to, v) => ShowsValue(v, data)
    BY <1>2, WholeFrame
  <2>2. Headers(h) /\ Len(h.sum) \in Nat /\ Len(h.sum) + 1 \in Counted(plan)
        /\ (Timely /\ h.sum # <<>> => h.sum = Wanted(h.to))
    BY <1>2, SumIsSeq DEF WebInv, Answer, WithEcho
  <2>3. AcceptsData(h, data) /\ Take(h, data)
    BY <1>2, <2>1, <2>2 DEF AcceptsData
  <2> HIDE DEF h, data
  <2> QED BY <2>3, TakeStep
<1>3. CASE Take(hbuf[1], Tail(hbuf)) /\ "ECHO" \in h.flags
  <2>1. hbuf[1] = h /\ h.to \in Clients
    BY <1>3, WholeEcho
  <2>2. \/ UNCHANGED <<queue, pages>> /\ client' = [client EXCEPT ![h.to].st = "done"]
        \/ UNCHANGED <<queue, client, pages>>
    <3>1. h.flags \cap {"ECHO", "OK"} # {}
      BY <1>3
    <3> QED BY <1>3, <2>1, <3>1 DEF Take, NewState
  <2>3. ASSUME UNCHANGED <<queue, pages>>, client' = [client EXCEPT ![h.to].st = "done"]
        PROVE  Longer /\ Known' /\ Pages'
    BY <1>0, <2>1, <2>3, NewStateStep DEF Longer
  <2> QED BY <1>1, <2>2, <2>3
<1> QED BY <1>1, <1>2, <1>3 DEF HostReceive

LEMMA OutsideStep ==
    ASSUME WebInv, Outside
    PROVE  /\ UNCHANGED <<plan, concount, Receiver>> /\ modemflag' \in {modemflag, FALSE}
           /\ OutsideQueue /\ Known' /\ Pages'
<1> USE DEF rxvars, txvars, filevars, hostvars, Rests, Receiver
<1>0. /\ plan \in Plans /\ queue \in Seq(Proper) /\ Known /\ Pages
      /\ queue # <<>> => Head(queue) = Head(queue)
  BY DEF WebInv, Kept
<1>1. CASE tx_poll
  <2>1. txflag /\ UNCHANGED <<plan, concount>>
    BY <1>1 DEF tx_poll
  <2>2. CASE TxHeaders \/ OpenFile \/ tx_file_byte
    <3>1. UNCHANGED <<rxvars, client, pages>>
      BY <2>2 DEF TxHeaders, OpenFile, tx_file_byte
    <3>2. Longer
      BY <1>0, <3>1 DEF Longer
    <3>3. Known' /\ Pages'
      BY <1>0, <2>1, <3>1, ClientsStay
    <3> QED BY <2>1, <3>1, <3>2, <3>3, InQueue
  <2>3. CASE TxEnd
    <3>1. UNCHANGED <<Receiver, modemflag>> /\ AllSent /\ HostReceive
      BY <1>1, <2>3 DEF TxEnd
    <3>2. Longer /\ Known' /\ Pages'
      BY <2>1, <3>1, HostStep
    <3> QED BY <2>1, <3>1, <3>2, InQueue
  <2> QED BY <1>1, <2>2, <2>3 DEF tx_poll
<1>2. CASE rx_poll
  <2>1. UNCHANGED <<queue, plan, concount, client, pages, Receiver>> /\ modemflag' = FALSE
    BY <1>2 DEF rx_poll
  <2>2. Longer
    BY <1>0, <2>1 DEF Longer
  <2>3. Known' /\ Pages'
    BY <1>0, <2>1, ClientsStay
  <2> QED BY <2>1, <2>2, <2>3, InQueue
<1>3. ASSUME NEW c \in Clients, Start(c) \/ Resend(c) \/ Early(c)
      PROVE  /\ UNCHANGED <<plan, concount, Receiver>> /\ modemflag' \in {modemflag, FALSE}
             /\ OutsideQueue /\ Known' /\ Pages'
  <2>1. client[c].rcv \in Numbers
    BY <1>0 DEF Known
  <2>2. UNCHANGED <<plan, concount, pages, Receiver, modemflag>>
    BY <1>3 DEF Start, Resend, Early
  <2>3. CASE Start(c)
    <3>1. client' = [client EXCEPT ![c].st = "opening"] /\ client[c].st = "idle"
          /\ queue' = Append(queue, Opening(c))
      BY <2>3 DEF Start
    <3>2. Opening(c) \in Proper
      BY <1>0, <2>1, MakesFrames
    <3>3. Longer
      BY <1>0, <3>1, <3>2, LongerByOne DEF Longer
    <3>4. Known' /\ Pages'
      BY <2>2, <3>1, NewStateStep
    <3> QED BY <2>2, <3>3, <3>4, InQueue
  <2>4. CASE Resend(c) \/ Early(c)
    <3>1. queue' = queue \o Again(c) /\ UNCHANGED client
      BY <2>4 DEF Resend, Early
    <3>2. Again(c) \in Seq(Proper)
      <4>1. Opening(c) \in Proper /\ Fin(c, client[c].rcv) \in Proper /\ Request(c, client[c].rcv) \in Seq(Proper)
        BY <1>0, <2>1, MakesFrames
      <4>2. <<Opening(c)>> \in Seq(Proper) /\ <<Fin(c, client[c].rcv)>> \in Seq(Proper) /\ <<>> \in Seq(Proper)
        BY <4>1
      <4>3. Again(c) \in {<<Opening(c)>>, Request(c, client[c].rcv), <<Fin(c, client[c].rcv)>>, <<>>}
        BY DEF Again
      <4> QED BY <4>1, <4>2, <4>3
    <3>3. Longer
      BY <1>0, <3>1, <3>2, LongerQueue DEF Longer
    <3>4. Known' /\ Pages'
      BY <1>0, <2>2, <3>1, ClientsStay
    <3> QED BY <2>2, <3>3, <3>4, InQueue
  <2> QED BY <1>3, <2>3, <2>4
<1>4. CASE Lose
  <2>1. UNCHANGED <<plan, concount, client, pages, Receiver, modemflag>> /\ queue' = Tail(queue)
        /\ queue # <<>> /\ in = 0
    BY <1>4 DEF Lose
  <2>2. OutsideQueue
    BY <1>0, <2>1 DEF OutsideQueue
  <2>3. Known' /\ Pages'
    BY <1>0, <2>1, ClientsStay
  <2> QED BY <2>1, <2>2, <2>3
<1> QED BY <1>1, <1>2, <1>3, <1>4 DEF Outside

LEMMA ProperFrames ==
    ASSUME plan \in Plans PROVE Proper \subseteq Frames /\ Seq(Proper) \subseteq Seq(Frames)
<1>1. Proper \subseteq Frames
  BY ProperFrame
<1> QED BY <1>1

LEMMA OutsideSends == ASSUME WebInv, Outside PROVE Sending
<1>1. plan \in Plans
  BY DEF WebInv, Kept
<1> QED BY <1>1, OutsideStep, ProperFrames DEF Sending, OutsideQueue, Receiver

-----------------------------------------------------------------------------
(* The receiver is PicRx, and gets nothing but proper frames.               *)
Processing == tcp_rx \/ Echo \/ find_file

LEMMA Actions == Next => Interrupt \/ Receive \/ Processing \/ Outside
BY DEF Next, Main, Processing, Outside

LEMMA ProcessingStep ==
    ASSUME Processing
    PROVE  Proceed /\ UNCHANGED <<plan, hostvars>>
<1>1. CASE tcp_rx
  BY <1>1 DEF tcp_rx, Done, RxSyn, RxFin, RxAck, RxHttp
<1>2. CASE Echo
  BY <1>2 DEF Echo, EchoSum, EchoCopy, Done
<1>3. CASE find_file
  BY <1>3 DEF find_file, Found, Passed, NotFound, Done
<1> QED BY <1>1, <1>2, <1>3 DEF Processing

LEMMA NextReceives == ASSUME WebInv, Next PROVE RxNext
BY Actions, ProcessingStep, OutsideSends DEF Interrupt, Receive, RxNext, rx_handler

LEMMA RxStep == ASSUME WebInv, Next PROVE RxInv'
<1>1. RxInv /\ RxNext
  BY NextReceives DEF WebInv
<1> QED BY <1>1, NextRxInv

LEMMA PlanStays == ASSUME WebInv, Next PROVE UNCHANGED plan
BY Actions, ProcessingStep, OutsideStep DEF Interrupt, Receive

LEMMA KeptStep == ASSUME WebInv, Next PROVE Kept'
<1>0. /\ UNCHANGED plan /\ Proper' = Proper /\ Clients' = Clients
      /\ \A c : Port(c)' = Port(c)
  BY PlanStays, SamePlan, SameClient
<1>1. /\ plan \in Plans /\ queue \in Seq(Proper) /\ RxTypeOK /\ Arrived /\ Reading
      /\ \A i \in 1..rxcount : OfFrame(rxbuff[i], i)
      /\ \A i \in 1..Len(regs) : OfFrame(regs[i], i)
      /\ pc \in {"icmp", "echo"} => regs # <<>>
      /\ modemflag => \E c \in Clients : Port(c) = "modem"
  BY DEF WebInv, Kept, RxInv
<1>2. ASSUME /\ queue' \in Seq(Proper)
             /\ \A i \in 1..rxcount' : OfFrame(rxbuff'[i], i)
             /\ \A i \in 1..Len(regs') : OfFrame(regs'[i], i)
             /\ pc' \in {"icmp", "echo"} => regs' # <<>>
             /\ modemflag' => \E c \in Clients : Port(c) = "modem"
      PROVE  Kept'
  <2>1. \A p, i : OfFrame(p, i) => /\ p[1] \in Proper' /\ p = <<p[1], i>> /\ i <= Size(p[1])
    BY <1>0 DEF OfFrame
  <2> QED BY <1>0, <1>1, <1>2, <2>1 DEF Kept, OfFrame
<1>3. ASSUME queue # <<>> PROVE Head(queue) \in Proper /\ Size(Head(queue)) \in Nat
  <2>1. Head(queue) \in Proper
    BY <1>1, <1>3
  <2> QED BY <1>1, <2>1, ProperFrame
<1>4. CASE Interrupt
  <2>1. CASE RxEscape
    BY <1>1, <1>2, <2>1 DEF RxEscape
  <2>2. CASE RxChar
    <3>1. /\ queue # <<>> /\ in < Size(Head(queue)) /\ UNCHANGED <<queue, rxcount, regs, pc, modemflag>>
          /\ \/ rxin < RXBUFFLEN /\ rxbuff' = [rxbuff EXCEPT ![rxin + 1] = <<Head(queue), in + 1>>]
             \/ rxbuff' = rxbuff
      BY <2>2 DEF RxChar
    <3>2. rxin < RXBUFFLEN => rxin = in
      BY <1>1, Lengths DEF Arrived
    <3>3. in \in Nat /\ rxcount \in 0..RXBUFFLEN /\ rxbuff \in [1..RXBUFFLEN -> (Frames \X Nat) \cup {Empty}]
      BY <1>1 DEF RxTypeOK
    <3>4. OfFrame(<<Head(queue), in + 1>>, in + 1)
      BY <1>3, <3>1, <3>3 DEF OfFrame
    <3>5. \A i \in 1..rxcount : OfFrame(rxbuff'[i], i)
      <4> SUFFICES ASSUME NEW i \in 1..rxcount PROVE OfFrame(rxbuff'[i], i)
        OBVIOUS
      <4>1. i \in 1..RXBUFFLEN /\ OfFrame(rxbuff[i], i)
        BY <1>1, <3>3, Lengths
      <4>2. rxbuff'[i] = rxbuff[i] \/ (i = in + 1 /\ rxbuff'[i] = <<Head(queue), in + 1>>)
        BY <3>1, <3>2, <3>3, <4>1
      <4> QED BY <3>4, <4>1, <4>2
    <3> QED BY <1>1, <1>2, <3>1, <3>5
  <2>3. CASE RxEnd \/ RxCr
    <3>1. /\ queue # <<>> /\ queue' = Tail(queue) /\ in = Size(Head(queue))
          /\ UNCHANGED <<rxbuff, regs, pc>>
          /\ rxcount' \in {rxcount, rxin}
      BY <2>3 DEF RxEnd, RxCr
    <3>2. queue' \in Seq(Proper)
      BY <1>1, <3>1
    <3>3. \A i \in 1..rxin : OfFrame(rxbuff[i], i)
      <4> SUFFICES ASSUME NEW i \in 1..rxin PROVE OfFrame(rxbuff[i], i)
        OBVIOUS
      <4>1. rxbuff[i] = <<Head(queue), i>> /\ i <= in
        BY <1>1, <3>1, Lengths DEF Arrived, RxTypeOK
      <4> QED BY <1>3, <3>1, <4>1 DEF OfFrame
    <3>4. modemflag' => \E c \in Clients : Port(c) = "modem"
      <4>1. CASE RxEnd
        BY <1>1, <4>1 DEF RxEnd
      <4>2. CASE RxCr
        BY <1>1, <1>3, <4>2, ProperFrame DEF RxCr
      <4> QED BY <2>3, <4>1, <4>2
    <3> QED BY <1>1, <1>2, <3>1, <3>2, <3>3, <3>4
  <2> QED BY <1>4, <2>1, <2>2, <2>3 DEF Interrupt
<1>5. CASE Receive
  <2>1. CASE TakeFrame
    BY <1>1, <1>2, <2>1 DEF TakeFrame
  <2>2. CASE getch_slip
    <3>1. UNCHANGED intvars /\ regs' = Append(regs, rxbuff[rxout + 1]) /\ rxout < rxcount
          /\ pc \in {"ip", "tcp", "icmp"}
      BY <2>2 DEF getch_slip
    <3>2. regs \in Seq(Frames \X Nat) /\ Len(regs) = rxout /\ rxout \in Nat /\ rxcount \in 0..RXBUFFLEN
      BY <1>1, <3>1 DEF Reading, RxTypeOK
    <3>3. OfFrame(rxbuff[rxout + 1], rxout + 1)
      BY <1>1, <3>1, <3>2, Lengths
    <3>4. Len(regs') = rxout + 1 /\ \A i \in 1..rxout + 1 : regs'[i] = IF i = rxout + 1 THEN rxbuff[rxout + 1] ELSE regs[i]
      <4> DEFINE x == rxbuff[rxout + 1]
      <4>1. IsSeq(regs)
        BY <3>2, SeqIsSeq
      <4> HIDE DEF x
      <4> QED BY <3>1, <3>2, <4>1, AppendedAt DEF x
    <3>5. \A i \in 1..Len(regs') : OfFrame(regs'[i], i)
      BY <1>1, <3>2, <3>3, <3>4
    <3>6. regs' # <<>>
      BY <3>2, <3>4
    <3> QED BY <1>1, <1>2, <3>1, <3>5, <3>6 DEF intvars
  <2>3. CASE SlipEnd
    <3>1. UNCHANGED <<intvars, rxout, regs>> /\ (pc' = "echo" => pc = "icmp") /\ pc' \in {"echo", "loop"}
      BY <2>3 DEF SlipEnd
    <3> QED BY <1>1, <1>2, <3>1 DEF intvars
  <2> QED BY <1>5, <2>1, <2>2, <2>3 DEF Receive
<1>6. CASE Processing
  <2>1. UNCHANGED <<intvars, regs>> /\ pc' \in {"loop", "find", "copy"}
    BY <1>6, ProcessingStep DEF Proceed
  <2> QED BY <1>1, <1>2, <2>1 DEF intvars
<1>7. CASE Outside
  <2>1. UNCHANGED <<rxcount, rxbuff, regs, pc>> /\ modemflag' \in {modemflag, FALSE} /\ queue' \in Seq(Proper)
    BY <1>7, OutsideStep DEF OutsideQueue, Receiver
  <2>2. modemflag' => \E c \in Clients : Port(c) = "modem"
    <3>1. CASE modemflag' = modemflag
      BY <1>1, <3>1
    <3>2. CASE modemflag' = FALSE
      BY <3>2
    <3> QED BY <2>1, <3>1, <3>2
  <2> QED BY <1>1, <1>2, <2>1, <2>2
<1> QED BY <1>4, <1>5, <1>6, <1>7, Actions

-----------------------------------------------------------------------------
(* A request is what its headers say.                                       *)
LEMMA RequestFrame ==
    ASSUME WebInv, pc \in {"request", "find"}
    PROVE  /\ seg \in Proper /\ seg \notin Dials /\ Size(seg) = HDR + Len(seg.data)
           /\ Len(seg.data) \in Nat
<1>0. plan \in Plans /\ HDR \in Nat \ {0, 1}
  BY WebConstants DEF WebInv, Kept
<1>1. Len(regs) = HDR
  BY DEF WebInv, RxInv, Reading
<1>2. \A i \in 1..HDR : regs[i] = <<seg, i>>
  BY DEF WebInv, RxInv, HeadersWhole, seg
<1>3. OfFrame(regs[HDR], HDR) /\ regs[HDR] = <<seg, HDR>>
  BY <1>0, <1>1, <1>2 DEF WebInv, Kept
<1>4. seg \in Proper /\ HDR <= Size(seg)
  BY <1>3 DEF OfFrame
<1>5. /\ Size(seg) \in Nat /\ Len(seg.data) \in Nat
      /\ IF seg \in Dials THEN Size(seg) < HDR ELSE Size(seg) = HDR + Len(seg.data)
  BY <1>0, <1>4, ProperFrame
<1>6. seg \notin Dials
  BY <1>0, <1>4, <1>5
<1> QED BY <1>2, <1>4, <1>5, <1>6

LEMMA DataOfSome ==
    ASSUME plan \in Plans, NEW f \in Proper
    PROVE  DataOf(f) # {} <=> Size(f) > HDR
<1>1. Size(f) \in Nat /\ HDR \in Nat
  BY ProperFrame, Lengths
<1>2. Size(f) > HDR => HDR + 1 \in HDR + 1 .. Size(f)
  BY <1>1
<1>3. ~(Size(f) > HDR) => HDR + 1 .. Size(f) = {}
  BY <1>1
<1> QED BY <1>2, <1>3 DEF DataOf

(* A frame with data has got as far as its data.                            *)
LEMMA NoFrameMixed ==
    ASSUME NEW f \in Frames, NEW g \in Frames, DataOf(f) # {}, DataOf(f) = DataOf(g)
    PROVE  f = g
<1>1. PICK i \in HDR + 1 .. Size(f) : <<f, i>> \in DataOf(g)
  BY DEF DataOf
<1> QED BY <1>1, SameData

LEMMA QuickStep == ASSUME WebInv, Next PROVE QuickKnows'
<1>0. /\ UNCHANGED plan /\ Proper' = Proper
      /\ plan \in Plans /\ queue \in Seq(Proper) /\ RxTypeOK /\ Arrived /\ SumOfArriving
  BY PlanStays, SamePlan DEF WebInv, Kept, RxInv
<1> SUFFICES ASSUME plan.pace = "quick"
             PROVE  /\ rxin' < HDR => \A f \in Proper : DataOf(f) # {} /\ rdcheck' = DataOf(f)
                                                        => rxcount' = Held(f)
                    /\ Waiting' /\ rxin' >= HDR => rdcheck' = {}
                    /\ pc' \in {"request", "find"} /\ DataOf(seg') # {} => rxcount' = Held(seg')
  BY <1>0 DEF QuickKnows, DataOf, Held
<1>1. /\ rxin < HDR => \A f \in Proper : DataOf(f) # {} /\ rdcheck = DataOf(f) => rxcount = Held(f)
      /\ Waiting /\ rxin >= HDR => rdcheck = {}
      /\ pc \in {"request", "find"} /\ DataOf(seg) # {} => rxcount = Held(seg)
  BY DEF WebInv, QuickKnows
<1>2. rxin \in Nat /\ HDR \in Nat \ {0, 1} /\ RXBUFFLEN \in Nat /\ HDR < RXBUFFLEN /\ in \in Nat
  BY <1>0, WebConstants, Lengths DEF RxTypeOK
<1>3. CASE Interrupt
  <2>0. regs' = regs /\ pc' = pc /\ seg' = seg
    BY <1>3 DEF Interrupt, RxEscape, RxChar, RxEnd, RxCr, seg
  <2>1. CASE RxEscape
    <3>1. UNCHANGED <<rxin, rxcount, rdcheck, rxflag>>
      BY <2>1 DEF RxEscape
    <3> QED BY <1>1, <2>0, <3>1 DEF Waiting
  <2>2. CASE RxChar
    <3>1. UNCHANGED <<rxcount, rxflag>> /\ (Waiting' <=> Waiting)
      BY <2>0, <2>2 DEF RxChar, Waiting
    <3>2. Waiting => rxin < HDR
      <4>1. CASE InTime
        BY <1>2, <4>1, Lengths DEF InTime
      <4>2. CASE ~InTime
        BY <1>3, <2>2, <4>2 DEF Interrupt, RxChar, RxEscape, RxEnd, RxCr
      <4> QED BY <4>1, <4>2
    <3>3. CASE rxin < HDR - 1
      <4>1. rdcheck' = rdcheck /\ rxin' = rxin + 1
        BY <1>2, <2>2, <3>3 DEF RxChar
      <4> QED BY <1>1, <1>2, <2>0, <3>1, <3>3, <4>1
    <3>4. CASE rxin = HDR - 1
      <4>1. rdcheck' = {} /\ rxin' = HDR
        BY <1>2, <2>2, <3>4 DEF RxChar
      <4>2. ~(rxin' < HDR)
        BY <1>2, <4>1
      <4> QED BY <1>1, <2>0, <3>1, <4>1, <4>2
    <3>5. CASE rxin >= HDR
      <4>1. rxin' \in Nat /\ rxin' >= HDR /\ ~Waiting
        BY <1>2, <2>2, <3>2, <3>5 DEF RxChar
      <4>2. ~(rxin' < HDR)
        BY <1>2, <4>1
      <4> QED BY <1>1, <2>0, <3>1, <4>1, <4>2
    <3> QED BY <1>2, <3>3, <3>4, <3>5
  <2>3. CASE RxEnd
    <3> DEFINE g == Head(queue)
    <3>1. queue # <<>> /\ g \notin Dials /\ in = Size(g) /\ UNCHANGED rdcheck
      BY <2>3 DEF RxEnd
    <3>2. g \in Proper
      BY <1>0, <3>1
    <3>3. /\ g \in Frames /\ Size(g) = HDR + Len(g.data) /\ Len(g.data) \in Nat
      BY <1>0, <3>1, <3>2, ProperFrame
    <3>4. rxin = (IF in < RXBUFFLEN THEN in ELSE RXBUFFLEN) /\ rxin >= HDR /\ rxin > 0
      BY <1>0, <1>2, <3>1, <3>3 DEF Arrived
    <3>5. rxin' = 0 /\ rxcount' = rxin /\ rxcount' = Held(g)
      BY <2>3, <3>1, <3>4 DEF RxEnd, Held
    <3>6. rdcheck = DataOf(g)
      BY <1>0, <3>1, <3>4 DEF SumOfArriving, DataOf
    <3>7. \A f \in Proper : DataOf(f) # {} /\ rdcheck' = DataOf(f) => rxcount' = Held(f)
      <4> SUFFICES ASSUME NEW f \in Proper, DataOf(f) # {}, rdcheck = DataOf(f) PROVE f = g
        BY <3>1, <3>5
      <4>1. f \in Frames
        BY <1>0, ProperFrames
      <4> QED BY <3>3, <3>6, <4>1, NoFrameMixed
    <3>8. ~Waiting
      <4>1. ~RxEscape /\ ~RxChar /\ ~RxCr
        BY <1>2, <3>1, <3>3 DEF RxEscape, RxChar, RxCr
      <4> QED BY <1>3, <4>1 DEF Interrupt
    <3> QED BY <1>2, <2>0, <3>5, <3>7, <3>8 DEF Waiting
  <2>4. CASE RxCr
    <3> DEFINE g == Head(queue)
    <3>1. queue # <<>> /\ g \in Dials /\ in = Size(g) /\ UNCHANGED <<rdcheck, rxcount, rxflag>> /\ rxin' = 0
      BY <2>4 DEF RxCr
    <3>2. g \in Proper
      BY <1>0, <3>1
    <3>3. Size(g) < HDR /\ Size(g) \in Nat
      BY <1>0, <3>1, <3>2, ProperFrame
    <3>4. rxin < HDR
      BY <1>0, <1>2, <3>1, <3>3 DEF Arrived
    <3> QED BY <1>1, <1>2, <2>0, <3>1, <3>4
  <2> QED BY <1>3, <2>1, <2>2, <2>3, <2>4 DEF Interrupt
<1>4. CASE getch_slip
  <2>1. UNCHANGED <<rxin, rxcount, rdcheck, rxflag>> /\ pc \in {"ip", "tcp", "icmp"} /\ pc' = AfterRead(regs')
    BY <1>4 DEF getch_slip, intvars
  <2>2. Waiting
    BY <2>1 DEF Waiting
  <2>3. ASSUME pc' \in {"request", "find"}, DataOf(seg') # {} PROVE rxcount' = Held(seg')
    <3>1. pc' = "request" /\ rdcheck = DataOf(seg')
      <4>1. Len(regs') \in Nat
        BY RxStep DEF RxInv, RxTypeOK
      <4>2. Len(regs') # IPHDR_LEN /\ Len(regs') = HDR /\ pc = "tcp"
        <5>1. IPHDR_LEN # HDR
          BY Lengths
        <5>2. Len(regs') = IPHDR_LEN => AfterRead(regs') \in {"loop", "icmp", "tcp"}
          BY <5>1 DEF AfterRead
        <5>3. Len(regs') # IPHDR_LEN /\ ~(Len(regs') = HDR /\ pc = "tcp") => AfterRead(regs') = pc
          BY DEF AfterRead
        <5> QED BY <2>1, <2>3, <5>2, <5>3
      <4>3. pc' = IF TcpSumOk(regs') THEN "request" ELSE "loop"
        BY <2>1, <4>2 DEF AfterRead
      <4> QED BY <2>3, <4>3 DEF TcpSumOk, seg
    <3>2. rxin < HDR
      BY <1>1, <1>2, <2>2, <2>3, <3>1
    <3>3. seg' \in Proper
      <4>1. RxInv' /\ Kept'
        BY RxStep, KeptStep
      <4>2. Len(regs') = HDR
        BY <3>1, <4>1 DEF RxInv, Reading
      <4>3. OfFrame(regs'[1], 1)
        BY <1>0, <1>2, <4>1, <4>2 DEF Kept, OfFrame
      <4> QED BY <4>3 DEF OfFrame, seg
    <3> QED BY <1>1, <2>1, <2>3, <3>1, <3>2, <3>3
  <2> QED BY <1>1, <2>1, <2>2, <2>3
<1>5. CASE TakeFrame \/ SlipEnd \/ Processing
  <2>1. UNCHANGED <<rxin, rxcount, rdcheck>>
    BY <1>5, ProcessingStep DEF TakeFrame, SlipEnd, Proceed, intvars
  <2>2. Waiting
    BY <1>5, ProcessingStep DEF TakeFrame, SlipEnd, Proceed, Waiting
  <2>3. pc' \in {"request", "find"} => pc \in {"request", "find"} /\ seg' = seg
    BY <1>5, ProcessingStep DEF TakeFrame, SlipEnd, Proceed, seg
  <2> QED BY <1>1, <2>1, <2>2, <2>3
<1>6. CASE Outside
  <2>1. UNCHANGED <<rxin, rxcount, rdcheck, rxflag, pc, regs>>
    BY <1>6, OutsideStep DEF Receiver
  <2>2. seg' = seg /\ Waiting' = Waiting
    BY <2>1 DEF Waiting, seg
  <2> QED BY <1>1, <2>1, <2>2
<1> QED BY <1>3, <1>4, <1>5, <1>6, Actions DEF Receive

(* What is read in time is not overwritten before.                          *)
LEMMA InPlaceStep == ASSUME WebInv, Next PROVE InPlace'
<1>0. UNCHANGED plan /\ RxTypeOK
  BY PlanStays DEF WebInv, RxInv
<1> SUFFICES ASSUME (Timely /\ pc' = "request") \/ (plan.pace = "quick" /\ pc' = "find")
             PROVE  Stored(seg)'
  BY <1>0 DEF InPlace, Timely
<1>1. ASSUME seg' = seg, pc' = pc \/ (pc = "request" /\ pc' = "find"),
             \A i \in HDR + 1 .. RXBUFFLEN : rxbuff'[i] = rxbuff[i]
      PROVE  Stored(seg)'
  <2>1. Stored(seg)
    BY <1>1 DEF WebInv, InPlace, Timely
  <2>2. \A i \in HDR + 1 .. Size(seg) : i <= RXBUFFLEN => i \in HDR + 1 .. RXBUFFLEN
    <3>1. seg \in Frames
      <4>1. pc \in {"request", "find"}
        BY <1>1
      <4> QED BY <4>1, RequestFrame, ProperFrame DEF WebInv, Kept
    <3> QED BY <3>1, Lengths
  <2> QED BY <1>1, <2>1, <2>2 DEF Stored
<1>2. CASE Interrupt
  <2>1. seg' = seg /\ pc' = pc
    BY <1>2 DEF Interrupt, RxEscape, RxChar, RxEnd, RxCr, seg
  <2>2. CASE RxChar
    <3>1. rxin < HDR
      <4>1. CASE InTime
        <5>1. plan.pace \in {"any", "name", "quick"}
          BY PlansAssumption DEF WebInv, Kept
        <5>2. pc \in {"request", "find"} /\ Waiting /\ Timely
              /\ (pc = "request" \/ plan.pace = "quick")
          BY <2>1 DEF Waiting, Timely
        <5> QED BY <4>1, <5>1, <5>2 DEF InTime, Timely
      <4>2. CASE ~InTime
        BY <1>2, <2>2, <4>2 DEF Interrupt, RxChar, RxEscape, RxEnd, RxCr
      <4> QED BY <4>1, <4>2
    <3>2. rxin \in Nat /\ HDR \in Nat /\ RXBUFFLEN \in Nat
          /\ rxbuff \in [1..RXBUFFLEN -> (Frames \X Nat) \cup {Empty}]
      BY <1>0, Lengths DEF RxTypeOK
    <3>3. \A i \in HDR + 1 .. RXBUFFLEN : rxbuff'[i] = rxbuff[i]
      BY <2>2, <3>1, <3>2 DEF RxChar
    <3> QED BY <1>1, <2>1, <3>3
  <2>3. CASE rxbuff' = rxbuff
    BY <1>1, <2>1, <2>3
  <2> QED BY <1>2, <2>2, <2>3 DEF Interrupt, RxEscape, RxEnd, RxCr
<1>3. CASE Receive
  <2>1. getch_slip /\ pc' = "request"
    BY <1>3 DEF Receive, TakeFrame, SlipEnd, getch_slip, AfterRead
  <2>2. Whole'
    BY <2>1, SumShows DEF WebInv
  <2> QED BY <2>2 DEF Whole, Stored, seg
<1>4. CASE Processing
  <2>1. UNCHANGED <<rxbuff, regs>> /\ pc \in {"request", "find"} /\ pc' = "find"
    BY <1>4, ProcessingStep DEF Proceed, intvars
  <2>2. seg' = seg
    BY <2>1 DEF seg
  <2> QED BY <1>1, <2>1, <2>2
<1>5. CASE Outside
  <2>1. UNCHANGED <<rxbuff, regs, pc>>
    BY <1>5, OutsideStep DEF Receiver
  <2>2. seg' = seg
    BY <2>1 DEF seg
  <2> QED BY <1>1, <2>1, <2>2
<1> QED BY <1>2, <1>3, <1>4, <1>5, Actions

-----------------------------------------------------------------------------
(* What the server reads of a request                                       *)
LEMMA HttpSeg ==
    ASSUME WebInv, pc \in {"request", "find"}, seg.kind = "get"
    PROVE  /\ seg.who \in Clients /\ Port(seg.who) = "http"
           /\ seg.data = plan.clients[seg.who].request
           /\ Stored(seg) => Value(rxbuff[HDR + 1]) = Name(seg.who)
<1>1. plan \in Plans /\ HDR \in Nat /\ HDR + 1 <= RXBUFFLEN /\ RXBUFFLEN \in Nat
  BY Lengths DEF WebInv, Kept
<1>2. seg \in Proper /\ Size(seg) = HDR + Len(seg.data)
  BY RequestFrame
<1>3. seg.who \in Clients /\ Port(seg.who) = "http" /\ seg.data = plan.clients[seg.who].request
  BY <1>1, <1>2, ProperFrame
<1>4. Len(seg.data) \in Nat \ {0}
  BY <1>1, <1>3, HttpRequest
<1>5. ASSUME Stored(seg) PROVE Value(rxbuff[HDR + 1]) = Name(seg.who)
  <2>1. rxbuff[HDR + 1] = <<seg, HDR + 1>>
    BY <1>1, <1>2, <1>4, <1>5 DEF Stored
  <2> QED BY <1>1, <1>3, <2>1 DEF Value, Name
<1> QED BY <1>3, <1>5

LEMMA RestIs ==
    ASSUME WebInv
    PROVE  /\ Rest # <<>> => Rest[1] = rxbuff[HDR + 1]
           /\ \A i \in 2..Len(Rest) : HDR + i <= rxcount /\ Rest[i] = rxbuff[HDR + i]
           /\ \A i \in 2..rxcount : HDR + i <= rxcount => i \in 2..Len(Rest)
<1> DEFINE n == IF rxcount > HDR THEN rxcount - HDR ELSE 0
           S == {rxbuff[HDR + i] : i \in 1..n}
<1>1. rxcount \in Nat /\ HDR \in Nat /\ n \in Nat
  BY Lengths DEF WebInv, RxInv, RxTypeOK
<1>2. Rest = [i \in 1..n |-> rxbuff[HDR + i]]
  BY DEF Rest
<1>3. \A i \in 1..n : Rest[i] = rxbuff[HDR + i]
  BY <1>2
<1>4. Rest \in [1..n -> S]
  BY <1>2
<1> HIDE DEF S
<1>5. Rest \in Seq(S) /\ Len(Rest) = n
  <2>1. Rest \in Seq(S)
    <3> HIDE DEF n
    <3> QED BY <1>1, <1>4, FunctionIsSeq
  <2>2. DOMAIN Rest = 1..n /\ DOMAIN Rest = 1..Len(Rest) /\ Len(Rest) \in Nat
    BY <1>4, <2>1
  <2> HIDE DEF n
  <2> QED BY <1>1, <2>1, <2>2
<1>6. Rest # <<>> => 1 \in 1..n
  BY <1>1, <1>5, EmptySeqOf
<1> QED BY <1>1, <1>3, <1>5, <1>6

LEMMA FirstOfRest ==
    ASSUME WebInv, Timely, pc = "request", seg.kind = "get", Rest # <<>>
    PROVE  Value(Rest[1]) = Name(seg.who)
<1>1. Stored(seg)
  BY DEF WebInv, InPlace
<1> QED BY <1>1, HttpSeg, RestIs

(* The setting of a request is what is set, by a quick server.              *)
LEMMA SettingIs ==
    ASSUME WebInv, pc = "find", seg.kind = "get", plan.pace = "quick", NEW v \in 0..1, Sets(seg.who, v), NEW old
    PROVE  Setting("out", old) = v
<1> DEFINE r == plan.clients[seg.who].request
<1>1. plan \in Plans /\ HDR \in Nat \ {0, 1} /\ RXBUFFLEN \in Nat /\ HDR < RXBUFFLEN
  BY WebConstants, Lengths DEF WebInv, Kept
<1>2. /\ seg \in Proper /\ Size(seg) = HDR + Len(r) /\ Len(r) \in Nat /\ seg.data = r
      /\ \A i \in HDR + 1 .. Size(seg) : i <= RXBUFFLEN => rxbuff[i] = <<seg, i>>
      /\ seg.who \in Clients /\ Port(seg.who) = "http"
  BY RequestFrame, HttpSeg DEF WebInv, InPlace, Stored
<1>3. Len(r) \in Nat \ {0}
  BY <1>1, <1>2, HttpRequest
<1>4. rxcount = Held(seg)
  <2>1. DataOf(seg) # {}
    <3>1. Size(seg) > HDR
      <4>1. Len(r) \in Nat \ {0} /\ Size(seg) = HDR + Len(r)
        BY <1>2, <1>3
      <4> HIDE DEF r
      <4> QED BY <1>1, <4>1
    <3> QED BY <1>1, <1>2, <3>1, DataOfSome
  <2> QED BY <2>1 DEF WebInv, QuickKnows
<1>5. rxcount \in Nat /\ rxcount <= Size(seg) /\ rxcount <= RXBUFFLEN /\ rxcount \in {Size(seg), RXBUFFLEN}
  BY <1>1, <1>2, <1>4 DEF Held
<1>6. Args = {r[i] : i \in 2..Len(Rest)} /\ \A i \in 2..Len(Rest) : i \in 2..Len(r)
  <2>1. ASSUME NEW i \in 2..Len(Rest) PROVE i \in 2..Len(r) /\ Value(Rest[i]) = r[i]
    <3>1. HDR + i <= rxcount /\ Rest[i] = rxbuff[HDR + i]
      BY RestIs
    <3>2. HDR + i \in HDR + 1 .. Size(seg) /\ HDR + i <= RXBUFFLEN /\ i \in 2..Len(r)
      <4> DEFINE n == Len(r)
                 z == Size(seg)
      <4>1. HDR \in Nat /\ RXBUFFLEN \in Nat /\ n \in Nat /\ z = HDR + n
        BY <1>1, <1>2
      <4>2. rxcount \in Nat /\ rxcount <= z /\ rxcount <= RXBUFFLEN
        BY <1>5
      <4>3. i \in Nat /\ 2 <= i /\ HDR + i <= rxcount
        BY <3>1
      <4> HIDE DEF n, z
      <4> QED BY <4>1, <4>2, <4>3 DEF n, z
    <3>3. Rest[i] = <<seg, HDR + i>>
      BY <1>2, <3>1, <3>2
    <3> QED BY <1>1, <1>2, <3>2, <3>3 DEF Value
  <2> QED BY <2>1 DEF Args
<1>7. PICK k \in 2..Len(r) :
        /\ HDR + k <= RXBUFFLEN /\ r[k] = <<"out", v>>
        /\ \A i \in 2..Len(r), w \in 0..1 : r[i] = <<"out", w>> => w = v
  BY DEF Sets
<1>8. HDR + k <= RXBUFFLEN /\ \A i \in 2..Len(r), w \in 0..1 : r[i] = <<"out", w>> => w = v
  BY <1>7
<1>9. k \in 2..Len(Rest)
  <2>1. rxcount \in Nat /\ HDR + k <= rxcount
    BY <1>1, <1>2, <1>5, <1>7, <1>8
  <2> QED BY <1>1, <1>7, <2>1, RestIs
<1>10. <<"out", v>> \in Args /\ \A w \in 0..1 : <<"out", w>> \in Args => w = v
  BY <1>6, <1>7, <1>8, <1>9
<1> HIDE DEF r
<1> QED BY <1>10 DEF Setting

-----------------------------------------------------------------------------
(* The transmitter                                                          *)
SentState == <<txflag, txi2c, txbuff, txout, hbuf, romdir, port, rtc>>

LEMMA SameTx ==
    ASSUME WebInv, UNCHANGED <<plan, SentState>> PROVE Answer' /\ Part'
<1>1. /\ UNCHANGED <<plan, txflag, txi2c, txbuff, txout, hbuf, romdir, port, rtc>>
      /\ Rom' = Rom /\ Clients' = Clients
      /\ \A c : Port(c)' = Port(c) /\ Wanted(c)' = Wanted(c) /\ \A v : Shown(c, v)' = Shown(c, v)
  BY SamePlan, SameClient DEF SentState
<1>2. Answer /\ Part
  BY DEF WebInv
<1>3. Answer'
  BY <1>1, <1>2 DEF Answer, Headers, HeadersOnly, WithText, WithFile, WithEcho, Timely
<1>4. Part'
  BY <1>1, <1>2 DEF Part, Substitute
<1> QED BY <1>3, <1>4

LEMMA NotSending == ASSUME ~txflag' PROVE Answer' /\ Part'
BY DEF Answer, Part

(* A new answer: for the one that asks                                      *)
NewText(h, pieces) ==
    \E text \in Texts : \E x : /\ pieces = <<h, <<text, x>>>>
                               /\ h.sum = <<text>> /\ (Timely => Wanted(h.to) = <<text>>)
NewFile(h) ==
    /\ (Timely => h.sum = Wanted(h.to)) /\ \E i \in DOMAIN Rom : h.sum = Rom[i].chars
    /\ romdir'.chars = h.sum
    /\ \A v \in 0..1 : Shown(h.to, v) => port' = v

LEMMA NewAnswer ==
    ASSUME UNCHANGED plan, NEW pieces, NEW file, NEW h, Transmit(pieces, file), Headers(h),
           \/ ~file /\ pieces = <<h>> /\ h.sum = <<>>
           \/ ~file /\ NewText(h, pieces)
           \/ file /\ pieces = <<h>> /\ NewFile(h)
    PROVE  Answer' /\ Part'
<1>1. /\ Rom' = Rom /\ Clients' = Clients
      /\ \A c : Port(c)' = Port(c) /\ Wanted(c)' = Wanted(c) /\ \A v : Shown(c, v)' = Shown(c, v)
  BY SamePlan, SameClient
<1>2. txbuff' = pieces /\ txout' = 0 /\ txflag' = TRUE /\ txi2c' = file /\ hbuf' = <<>>
  BY DEF Transmit
<1>3. pieces[1] = h /\ Len(pieces) \in Nat
  BY DEF NewText
<1>4. Headers(h)'
  BY <1>1 DEF Headers
<1>5. HeadersOnly(h)' \/ WithText(h)' \/ WithFile(h)'
  <2>1. CASE ~file /\ pieces = <<h>> /\ h.sum = <<>>
    BY <1>2, <2>1 DEF HeadersOnly
  <2>2. CASE ~file /\ NewText(h, pieces)
    <3>0. PICK text \in Texts : \E x : /\ pieces = <<h, <<text, x>>>>
                                       /\ h.sum = <<text>> /\ (Timely => Wanted(h.to) = <<text>>)
      BY <2>2 DEF NewText
    <3>1. PICK x : /\ pieces = <<h, <<text, x>>>>
                   /\ h.sum = <<text>> /\ (Timely => Wanted(h.to) = <<text>>)
      BY <3>0
    <3>2. pieces[2] = <<text, x>> /\ <<text, x>>[2] = x
      BY <3>1
    <3> QED BY <1>1, <1>2, <2>2, <3>1, <3>2 DEF WithText, Timely
  <2>3. CASE file /\ pieces = <<h>> /\ NewFile(h)
    BY <1>1, <1>2, <2>3 DEF WithFile, NewFile, Timely
  <2> QED BY <2>1, <2>2, <2>3
<1>6. Answer'
  BY <1>2, <1>3, <1>4, <1>5 DEF Answer
<1>7. Part'
  <2>1. IsSeq(<<>>) /\ Len(<<>>) = 0
    BY EmptyIsSeq
  <2>2. txi2c' => romdir'.chars = h.sum
    BY <1>2 DEF NewFile
  <2> QED BY <1>2, <1>3, <2>1, <2>2 DEF Part
<1> QED BY <1>6, <1>7

(* What tx_poll does                                                        *)
LEMMA HeadersStep ==
    ASSUME WebInv, UNCHANGED plan, tx_poll, TxHeaders PROVE Answer' /\ Part'
<1>1. /\ txflag /\ txout < Len(txbuff)
      /\ UNCHANGED <<txflag, txi2c, txbuff, romdir, port, rtc>>
      /\ \/ UNCHANGED <<txout, hbuf>>
         \/ txout' = txout + 1 /\ hbuf' = Append(hbuf, txbuff[txout + 1])
  BY DEF tx_poll, TxHeaders
<1>2. CASE UNCHANGED <<txout, hbuf>>
  BY <1>1, <1>2, SameTx DEF SentState
<1>3. CASE txout' = txout + 1 /\ hbuf' = Append(hbuf, txbuff[txout + 1])
  <2> DEFINE x == txbuff[txout + 1]
  <2>1. /\ Rom' = Rom /\ Clients' = Clients
        /\ \A c : Port(c)' = Port(c) /\ Wanted(c)' = Wanted(c) /\ \A v : Shown(c, v)' = Shown(c, v)
    BY SamePlan, SameClient
  <2>2. Answer'
    BY <1>1, <2>1 DEF WebInv, Answer, Headers, HeadersOnly, WithText, WithFile, WithEcho, Timely
  <2>3. Len(txbuff) \in Nat
    BY <1>1 DEF WebInv, Answer, HeadersOnly, WithText, WithFile, WithEcho
  <2>4. /\ IsSeq(hbuf) /\ txout \in 0 .. Len(txbuff) /\ Len(hbuf) = txout
        /\ \A i \in 1..txout : hbuf[i] = txbuff[i]
        /\ txi2c => romdir.chars = txbuff[1].sum
    BY <1>1, <2>3 DEF WebInv, Part
  <2>5. IsSeq(hbuf') /\ Len(hbuf') = txout + 1 /\ \A i \in 1 .. txout + 1 : hbuf'[i] = txbuff[i]
    <3>1. /\ IsSeq(Append(hbuf, x)) /\ Len(hbuf) \in Nat /\ Len(Append(hbuf, x)) = Len(hbuf) + 1
          /\ \A i \in 1 .. Len(hbuf) + 1 : Append(hbuf, x)[i] = IF i = Len(hbuf) + 1 THEN x ELSE hbuf[i]
      <4> HIDE DEF x
      <4> QED BY <2>4, AppendedAt
    <3>2. \A i \in 1 .. txout + 1 : hbuf'[i] = txbuff[i]
      BY <1>3, <2>4, <3>1
    <3> QED BY <1>3, <2>4, <3>1, <3>2
  <2>6. txout' \in 0 .. Len(txbuff)
    BY <1>1, <1>3, <2>3, <2>4
  <2>7. Part'
    BY <1>1, <1>3, <2>4, <2>5, <2>6 DEF Part
  <2> QED BY <2>2, <2>7
<1> QED BY <1>1, <1>2, <1>3

LEMMA OpenStep ==
    ASSUME WebInv, UNCHANGED plan, tx_poll, OpenFile PROVE Answer' /\ Part'
<1> DEFINE h == txbuff[1]
<1>1. /\ txflag /\ txout = Len(txbuff) /\ txi2c /\ txout' = txout + 1
      /\ UNCHANGED <<txflag, txi2c, txbuff, romdir, port, rtc, hbuf>>
  BY DEF tx_poll, OpenFile
<1>2. /\ Rom' = Rom /\ Clients' = Clients
      /\ \A c : Port(c)' = Port(c) /\ Wanted(c)' = Wanted(c) /\ \A v : Shown(c, v)' = Shown(c, v)
  BY SamePlan, SameClient
<1>3. Answer'
  BY <1>1, <1>2 DEF WebInv, Answer, Headers, HeadersOnly, WithText, WithFile, WithEcho, Timely
<1>4. txbuff = <<h>> /\ Len(txbuff) = 1
  BY <1>1 DEF WebInv, Answer, HeadersOnly, WithText, WithFile, WithEcho
<1>5. /\ IsSeq(hbuf) /\ Len(hbuf) = 1 /\ hbuf[1] = h /\ romdir.chars = h.sum
  <2>1. /\ IsSeq(hbuf) /\ Len(hbuf) = txout
        /\ \A i \in 1..txout : hbuf[i] = txbuff[i]
        /\ romdir.chars = h.sum
    BY <1>1, <1>4 DEF WebInv, Part
  <2> QED BY <1>1, <1>4, <2>1
<1>6. IsSeq(h.sum) /\ Len(h.sum) \in Nat
  <2>1. "ECHO" \notin h.flags
    BY <1>1 DEF WebInv, Answer, WithEcho, Headers
  <2> QED BY <1>1, <2>1, SumIsSeq
<1>7. hbuf # <<>>
  BY <1>5
<1>8. Part'
  <2>1. txout' = Len(txbuff) + 1 /\ 1 + Len(h.sum) = Len(h.sum) + 1
    BY <1>1, <1>4, <1>6
  <2>2. \A i \in 2..Len(hbuf) : hbuf[i] = Substitute(h.sum[i - 1])'
    BY <1>5
  <2>3. \A i \in 1..Len(h.sum) : h.sum[i] = h.sum[Len(hbuf) - 1 + i]
    BY <1>5, <1>6
  <2> QED BY <1>1, <1>5, <1>6, <1>7, <2>1, <2>2, <2>3 DEF Part
<1> QED BY <1>3, <1>8

LEMMA FileStep ==
    ASSUME WebInv, UNCHANGED plan, tx_poll, tx_file_byte PROVE Answer' /\ Part'
<1> DEFINE h == txbuff[1]
           chars == romdir.chars
           n == Len(hbuf)
           m == Len(chars)
           x == Substitute(Head(chars))
<1>1. /\ txflag /\ txout > Len(txbuff) /\ chars # <<>>
      /\ hbuf' = Append(hbuf, x) /\ romdir' = [romdir EXCEPT !.chars = Tail(@)]
      /\ UNCHANGED <<txflag, txi2c, txbuff, txout, port, rtc>>
  BY DEF tx_poll, tx_file_byte
<1>2. /\ Rom' = Rom /\ Clients' = Clients
      /\ \A c : Port(c)' = Port(c) /\ Wanted(c)' = Wanted(c) /\ \A v : Shown(c, v)' = Shown(c, v)
  BY SamePlan, SameClient
<1>3. Answer'
  BY <1>1, <1>2 DEF WebInv, Answer, Headers, HeadersOnly, WithText, WithFile, WithEcho, Timely
<1>4. Len(txbuff) \in Nat /\ IsSeq(h.sum) /\ Len(h.sum) \in Nat
  <2>1. Len(txbuff) \in Nat
    BY <1>1 DEF WebInv, Answer, HeadersOnly, WithText, WithFile, WithEcho
  <2>2. txi2c
    BY <1>1, <2>1 DEF WebInv, Part
  <2>3. "ECHO" \notin h.flags
    BY <1>1, <2>2 DEF WebInv, Answer, WithEcho, Headers
  <2> QED BY <1>1, <2>1, <2>3, SumIsSeq
<1>5. /\ IsSeq(hbuf) /\ txi2c /\ txout = Len(txbuff) + 1 /\ IsSeq(chars)
      /\ hbuf # <<>> /\ hbuf[1] = h /\ n + m = Len(h.sum) + 1
      /\ \A i \in 2..n : hbuf[i] = Substitute(h.sum[i - 1])
      /\ \A i \in 1..m : chars[i] = h.sum[n - 1 + i]
  BY <1>1, <1>4 DEF WebInv, Part
<1>6. /\ IsSeq(hbuf') /\ n \in Nat \ {0} /\ Len(hbuf') = n + 1
      /\ \A i \in 1 .. n + 1 : hbuf'[i] = IF i = n + 1 THEN x ELSE hbuf[i]
  <2>1. n \in Nat \ {0}
    BY <1>5, RestOf
  <2> HIDE DEF x
  <2> QED BY <1>1, <1>5, <2>1, AppendedAt
<1>7. /\ IsSeq(Tail(chars)) /\ m \in Nat \ {0} /\ Len(Tail(chars)) = m - 1
      /\ \A i \in 1..Len(Tail(chars)) : Tail(chars)[i] = chars[i + 1]
      /\ Head(chars) = chars[1]
  BY <1>1, <1>5, RestOf, HeadTail
<1>8. romdir'.chars = Tail(chars)
  BY <1>1 DEF WebInv, Dir
<1>9. x = Substitute(h.sum[n])
  <2>1. Head(chars) = h.sum[n]
    BY <1>5, <1>6, <1>7
  <2> QED BY <2>1
<1>10. Part'
  <2>1. \A i \in 2 .. n + 1 : hbuf'[i] = Substitute(h.sum[i - 1])
    <3> SUFFICES ASSUME NEW i \in 2 .. n + 1 PROVE hbuf'[i] = Substitute(h.sum[i - 1])
      OBVIOUS
    <3>1. CASE i = n + 1
      <4>1. hbuf'[i] = x /\ i - 1 = n
        BY <1>6, <3>1
      <4> QED BY <1>9, <4>1
    <3>2. CASE i # n + 1
      <4>1. i \in 2..n /\ hbuf'[i] = hbuf[i]
        BY <1>6, <3>2
      <4> QED BY <1>5, <4>1
    <3> QED BY <3>1, <3>2
  <2>2. \A i \in 1 .. m - 1 : Tail(chars)[i] = h.sum[(n + 1) - 1 + i]
    <3> SUFFICES ASSUME NEW i \in 1 .. m - 1 PROVE Tail(chars)[i] = h.sum[(n + 1) - 1 + i]
      OBVIOUS
    <3>1. i + 1 \in 1..m /\ Tail(chars)[i] = chars[i + 1] /\ n - 1 + (i + 1) = (n + 1) - 1 + i
      BY <1>6, <1>7
    <3> QED BY <1>5, <3>1
  <2>3. hbuf' # <<>> /\ hbuf'[1] = h /\ (n + 1) + (m - 1) = Len(h.sum) + 1
    <3>1. 1 \in 1 .. n + 1 /\ 1 # n + 1 /\ Len(hbuf') # 0
      BY <1>6
    <3>2. hbuf'[1] = h /\ hbuf' # <<>>
      BY <1>5, <1>6, <3>1
    <3>3. n \in Nat /\ m \in Nat /\ Len(h.sum) \in Nat /\ n + m = Len(h.sum) + 1
      BY <1>4, <1>5, <1>6, <1>7
    <3>4. \A a, b, c \in Nat : a + b = c + 1 => (a + 1) + (b - 1) = c + 1
      OBVIOUS
    <3> HIDE DEF n, m
    <3> QED BY <3>2, <3>3, <3>4
  <2> HIDE DEF x, n, m, chars
  <2>4. /\ IsSeq(hbuf') /\ txi2c' /\ txout' = Len(txbuff') + 1 /\ IsSeq(romdir'.chars)
        /\ hbuf' # <<>> /\ hbuf'[1] = txbuff'[1]
        /\ Len(hbuf') + Len(romdir'.chars) = Len(txbuff'[1].sum) + 1
    BY <1>1, <1>5, <1>6, <1>7, <1>8, <2>3
  <2>5. \A i \in 2..Len(hbuf') : hbuf'[i] = Substitute(txbuff[1].sum[i - 1])'
    <3>1. UNCHANGED <<txbuff, port, rtc>> /\ Len(hbuf') = n + 1
      BY <1>1, <1>6
    <3> QED BY <2>1, <3>1 DEF Substitute
  <2>6. \A i \in 1..Len(romdir'.chars) : romdir'.chars[i] = txbuff'[1].sum[Len(hbuf') - 1 + i]
    BY <1>1, <1>6, <1>7, <1>8, <2>2
  <2> QED BY <2>4, <2>5, <2>6 DEF Part
<1> QED BY <1>3, <1>10

LEMMA PollStep ==
    ASSUME WebInv, UNCHANGED plan, tx_poll PROVE Answer' /\ Part' /\ Dir'
<1>1. Dir'
  BY DEF WebInv, Dir, tx_poll, TxHeaders, OpenFile, tx_file_byte, TxEnd
<1>2. TxEnd => Answer' /\ Part'
  BY NotSending DEF TxEnd
<1> QED BY <1>1, <1>2, HeadersStep, OpenStep, FileStep DEF tx_poll

(* The answer to a segment goes to the one that has sent it.                *)
LEMMA SegHeaders ==
    ASSUME plan \in Plans, seg \in Proper, NEW flags, NEW acked, NEW sum, NEW seq,
           seq[1] \in 0 .. CONCOUNTS - 1, "ECHO" \notin flags, sum # <<>> => "FIN" \in flags
    PROVE  Headers(Hdr(seg.who, flags, seq, acked, sum))
<1>1. seg.who \in Clients
  BY ProperFrame
<1> QED BY <1>1 DEF Headers, Hdr

LEMMA SegAck == ASSUME plan \in Plans, seg \in Proper PROVE seg.ack[1] \in 0 .. CONCOUNTS - 1
BY ProperFrame DEF Numbers

LEMMA PutAck ==
    ASSUME WebInv, UNCHANGED plan, seg \in Proper, NEW flags, NEW acked, NEW seq,
           seq[1] \in 0 .. CONCOUNTS - 1, "ECHO" \notin flags, put_ack(seg, flags, seq, acked)
    PROVE  Answer' /\ Part'
<1> DEFINE h == Hdr(seg.who, flags, seq, acked, <<>>)
<1>1. Headers(h) /\ h.sum = <<>>
  BY SegHeaders DEF Hdr, WebInv, Kept
<1>2. Transmit(<<h>>, FALSE)
  BY DEF put_ack
<1> HIDE DEF h
<1> QED BY <1>1, <1>2, NewAnswer

LEMMA PutText ==
    ASSUME WebInv, UNCHANGED plan, seg \in Proper, NEW text \in Texts, NEW x, NEW acked,
           Timely => Wanted(seg.who) = <<text>>, put_data(seg, <<text, x>>, acked)
    PROVE  Answer' /\ Part'
<1> DEFINE h == Hdr(seg.who, {"FIN", "ACK"}, seg.ack, acked, <<text>>)
           pieces == <<h, <<text, x>>>>
<1>1. Headers(h) /\ h.sum = <<text>> /\ h.to = seg.who
  BY SegHeaders, SegAck DEF Hdr, WebInv, Kept
<1>2. Transmit(pieces, FALSE)
  BY DEF put_data
<1>3. NewText(h, pieces)
  BY <1>1 DEF NewText
<1> HIDE DEF h, pieces
<1> QED BY <1>1, <1>2, <1>3, NewAnswer

(* What is copied is a sequence, and the copy has what is copied.           *)
LEMMA EchoCopied ==
    ASSUME WebInv
    PROVE  LET copy == [i \in DOMAIN EchoData |-> <<EchoData[i], 0>>] IN
           /\ IsSeq(EchoData) /\ IsSeq(copy) /\ Len(copy) = Len(EchoData) /\ Len(copy) \in Nat
           /\ \A i \in 1..Len(copy) : copy[i] = <<EchoData[i], 0>>
<1> DEFINE n == Len(regs) - IPHDR_LEN
           D == {rxbuff[IPHDR_LEN + i] : i \in 1..n}
           C == {<<EchoData[i], 0>> : i \in 1..n}
           copy == [i \in DOMAIN EchoData |-> <<EchoData[i], 0>>]
<1>1. Len(regs) \in Nat /\ IPHDR_LEN \in Nat
  BY Lengths DEF WebInv, RxInv, RxTypeOK
<1>2. PICK m \in Nat : 1..n = 1..m
  <2>1. CASE n \in Nat
    BY <2>1
  <2>2. CASE n \notin Nat
    <3>1. 1..n = 1..0
      BY <1>1, <2>2
    <3> QED BY <3>1
  <2> QED BY <2>1, <2>2
<1>3. EchoData \in [1..m -> D] /\ DOMAIN EchoData = 1..m
  BY <1>2 DEF EchoData
<1>4. copy \in [1..m -> C] /\ \A i \in 1..m : copy[i] = <<EchoData[i], 0>>
  BY <1>2, <1>3
<1> HIDE DEF n, D, C, copy
<1>5. EchoData \in Seq(D) /\ copy \in Seq(C)
  BY <1>2, <1>3, <1>4, FunctionIsSeq
<1>6. IsSeq(EchoData) /\ IsSeq(copy)
  BY <1>5, SeqIsSeq
<1>7. Len(EchoData) = m /\ Len(copy) = m
  BY <1>2, <1>3, <1>4, <1>5
<1> QED BY <1>2, <1>4, <1>6, <1>7 DEF copy

LEMMA CopyStep ==
    ASSUME WebInv, UNCHANGED plan, EchoCopy PROVE Answer' /\ Part'
<1> DEFINE h == txbuff[1]
           copy == [i \in DOMAIN EchoData |-> <<EchoData[i], 0>>]
           n == Len(copy)
<1>1. /\ txbuff = <<h>> /\ h.to \in Clients /\ "ECHO" \in h.flags
      /\ plan.pace = "quick" => h.sum = EchoData
  BY DEF WebInv, Copying, EchoCopy
<1>2. /\ txbuff' = txbuff \o copy /\ txout' = 0 /\ txflag' = TRUE /\ txi2c' = FALSE /\ hbuf' = <<>>
  BY DEF EchoCopy, Transmit
<1>3. /\ IsSeq(EchoData) /\ IsSeq(copy) /\ n = Len(EchoData) /\ n \in Nat
      /\ \A i \in 1..n : copy[i] = <<EchoData[i], 0>>
  BY EchoCopied
<1>4. /\ IsSeq(txbuff') /\ Len(txbuff') = n + 1 /\ txbuff'[1] = h
      /\ \A i \in 1..n : txbuff'[i + 1] = copy[i]
  <2> DEFINE S == {copy[i] : i \in DOMAIN copy} \cup {h}
  <2>1. copy \in Seq(S) /\ <<h>> \in Seq(S)
    <3>1. copy \in Seq({copy[i] : i \in DOMAIN copy})
      BY <1>3 DEF IsSeq
    <3> HIDE DEF copy, h
    <3> QED BY <3>1
  <2> HIDE DEF copy, h, S
  <2>2. /\ <<h>> \o copy \in Seq(S) /\ Len(<<h>> \o copy) = n + 1 /\ (<<h>> \o copy)[1] = h
        /\ \A i \in 1..n : (<<h>> \o copy)[i + 1] = copy[i]
    BY <1>3, <2>1
  <2> QED BY <1>1, <1>2, <2>2, SeqIsSeq
<1>5. Answer'
  <2>1. h.to \in Clients' /\ plan' = plan
    BY <1>1, SamePlan
  <2> HIDE DEF copy, n
  <2>2. WithEcho(h)'
    <3> SUFFICES ASSUME plan.pace = "quick"
                 PROVE  /\ IsSeq(h.sum) /\ n = Len(h.sum)
                        /\ \A i \in 1..Len(h.sum) : txbuff'[i + 1][1] = h.sum[i]
      BY <1>1, <1>2, <1>3, <1>4, <2>1 DEF WithEcho
    <3> QED BY <1>1, <1>3, <1>4
  <2> QED BY <1>2, <1>4, <2>2 DEF Answer
<1>6. Part'
  <2>1. IsSeq(<<>>) /\ Len(<<>>) = 0
    BY EmptyIsSeq
  <2> HIDE DEF copy
  <2> QED BY <1>2, <1>3, <1>4, <2>1 DEF Part
<1> QED BY <1>5, <1>6

LEMMA EchoStep ==
    ASSUME WebInv, UNCHANGED plan, Echo PROVE Answer' /\ Part' /\ Dir' /\ pc' \in {"loop", "copy"}
<1>1. UNCHANGED <<romdir, port, rtc>> /\ pc' \in {"loop", "copy"}
  BY DEF Echo, EchoSum, EchoCopy, Done, filevars
<1>2. Dir'
  BY <1>1 DEF WebInv, Dir
<1>3. CASE EchoSum /\ txflag
  <2>1. UNCHANGED <<txflag, txi2c, txbuff, txout, hbuf>>
    BY <1>3 DEF EchoSum
  <2> QED BY <1>1, <1>2, <2>1, SameTx DEF SentState
<1>4. CASE EchoSum /\ ~txflag
  <2>1. ~txflag'
    BY <1>4 DEF EchoSum
  <2> QED BY <1>1, <1>2, <2>1, NotSending
<1>5. CASE EchoCopy
  BY <1>1, <1>2, <1>5, CopyStep
<1> QED BY <1>3, <1>4, <1>5 DEF Echo

(* From the sum to the copy of a ping, nothing is sent; and nothing that a  *)
(* quick server copies is overwritten.                                      *)
LEMMA CopyingStep == ASSUME WebInv, Next PROVE Copying'
<1>0. UNCHANGED plan /\ Clients' = Clients /\ RxTypeOK /\ Reading
  BY PlanStays, SamePlan DEF WebInv, RxInv
<1>1. ASSUME pc = "copy", pc' = "copy", UNCHANGED <<txflag, txbuff>>,
             plan.pace = "quick" => EchoData' = EchoData
      PROVE  Copying'
  BY <1>0, <1>1 DEF WebInv, Copying
<1>2. pc' # "copy" => Copying'
  BY DEF Copying
<1>3. CASE Interrupt
  <2>1. UNCHANGED <<pc, regs, txflag, txbuff>>
    BY <1>3 DEF Interrupt, RxEscape, RxChar, RxEnd, RxCr, txvars
  <2> SUFFICES ASSUME pc = "copy", plan.pace = "quick" PROVE EchoData' = EchoData
    BY <1>1, <1>2, <2>1
  <2>2. CASE RxChar
    <3>1. rxin < IPHDR_LEN
      <4>1. CASE InTime
        BY <4>1 DEF InTime, Waiting
      <4>2. CASE ~InTime
        BY <1>3, <2>2, <4>2 DEF Interrupt, RxChar, RxEscape, RxEnd, RxCr
      <4> QED BY <4>1, <4>2
    <3>2. rxin \in Nat /\ IPHDR_LEN \in Nat /\ Len(regs) \in Nat /\ Len(regs) <= RXBUFFLEN
          /\ rxbuff \in [1..RXBUFFLEN -> (Frames \X Nat) \cup {Empty}] /\ RXBUFFLEN \in Nat
      BY <1>0, Lengths DEF RxTypeOK, Reading
    <3>3. \A j \in 1..RXBUFFLEN : j # rxin + 1 => rxbuff'[j] = rxbuff[j]
      BY <2>2, <3>2 DEF RxChar
    <3>4. \A i \in 1 .. Len(regs) - IPHDR_LEN : rxbuff'[IPHDR_LEN + i] = rxbuff[IPHDR_LEN + i]
      <4> TAKE i \in 1 .. Len(regs) - IPHDR_LEN
      <4>1. IPHDR_LEN + i \in 1..RXBUFFLEN /\ IPHDR_LEN + i # rxin + 1
        BY <3>1, <3>2
      <4> QED BY <3>3, <4>1
    <3> QED BY <2>1, <3>4 DEF EchoData
  <2>3. CASE rxbuff' = rxbuff
    BY <2>1, <2>3 DEF EchoData
  <2> QED BY <1>3, <2>2, <2>3 DEF Interrupt, RxEscape, RxEnd, RxCr
<1>4. CASE Receive
  <2>1. pc' # "copy"
    BY <1>4 DEF Receive, TakeFrame, getch_slip, SlipEnd, AfterRead
  <2> QED BY <1>2, <2>1
<1>5. CASE tcp_rx \/ find_file
  <2>1. pc' # "copy"
    BY <1>5 DEF tcp_rx, RxSyn, RxFin, RxAck, RxHttp, find_file, Found, Passed, NotFound, Done
  <2> QED BY <1>2, <2>1
<1>6. CASE Echo
  <2> SUFFICES ASSUME EchoSum, ~txflag, pc' = "copy" PROVE Copying'
    BY <1>2, <1>6 DEF Echo, EchoSum, EchoCopy, Done
  <2> DEFINE h == Hdr(seg.who, {"ECHO"}, Alone, 0, EchoData)
  <2>1. txbuff' = <<h>> /\ ~txflag' /\ UNCHANGED <<rxbuff, regs>> /\ pc = "echo"
    BY DEF EchoSum, Proceed, intvars
  <2>2. seg.who \in Clients
    <3>1. regs # <<>> /\ regs \in Seq(Frames \X Nat)
      BY <2>1 DEF WebInv, Kept, RxInv, RxTypeOK
    <3>2. 1 \in 1..Len(regs)
      BY <3>1, EmptySeqOf
    <3>3. seg \in Proper
      BY <3>2 DEF WebInv, Kept, OfFrame, seg
    <3> QED BY <3>3, ProperFrame DEF WebInv, Kept
  <2>3. h.to = seg.who /\ h.flags = {"ECHO"} /\ h.sum = EchoData
    BY DEF Hdr
  <2>4. EchoData' = EchoData
    BY <2>1 DEF EchoData
  <2> HIDE DEF h
  <2> QED BY <1>0, <2>1, <2>2, <2>3, <2>4 DEF Copying
<1>7. CASE Outside
  <2>1. UNCHANGED <<pc, regs, rxbuff>>
    BY <1>7, OutsideStep DEF Receiver
  <2>2. pc = "copy" => UNCHANGED <<txflag, txbuff>>
    BY <1>7 DEF Outside, tx_poll, rx_poll, Start, Resend, Early, Lose, txvars
  <2>3. EchoData' = EchoData
    BY <2>1 DEF EchoData
  <2> QED BY <1>1, <1>2, <2>1, <2>2, <2>3
<1> QED BY <1>3, <1>4, <1>5, <1>6, <1>7, Actions DEF Processing

LEMMA ModemStep == ASSUME WebInv, rx_poll PROVE Answer' /\ Part' /\ Dir'
<1> DEFINE c == CHOOSE d \in Clients : Port(d) = "modem"
           h == Hdr(c, {"OK"}, Alone, 0, <<>>)
<1>1. UNCHANGED <<plan, romdir>> /\ modemflag /\ Transmit(<<h>>, FALSE)
  BY DEF rx_poll, filevars
<1>2. c \in Clients
  BY <1>1 DEF WebInv, Kept
<1>3. Headers(h) /\ h.sum = <<>>
  BY <1>2, WebConstants DEF Headers, Hdr, Alone
<1>4. Answer' /\ Part'
  <2> HIDE DEF h
  <2> QED BY <1>1, <1>3, NewAnswer
<1> QED BY <1>1, <1>4 DEF WebInv, Dir

-----------------------------------------------------------------------------
(* The server                                                               *)
LEMMA NotFinding == ASSUME pc' # "find" PROVE Searching'
BY DEF Searching

LEMMA SearchOn ==
    ASSUME UNCHANGED <<plan, regs>>, ~txflag', seg.kind = "get", fileidx' \in 0 .. Len(Rom),
           Timely =>
              /\ Name(seg.who) # "$"
              /\ \/ romdir'.name = Name(seg.who) /\ \A i \in 1..fileidx' : ~Fits(Name(seg.who), i)
                 \/ romdir'.name = "" /\ fileidx' = 0 /\ Named(Name(seg.who)) = {}
    PROVE  Searching'
<1>1. seg' = seg /\ Rom' = Rom
  BY DEF seg, Rom
<1>2. Name(seg.who)' = Name(seg.who)
  BY <1>1 DEF Name
<1>3. Named(Name(seg.who))' = Named(Name(seg.who))
  BY <1>1, <1>2 DEF Named, Fits
<1>4. \A i : Fits(Name(seg.who), i)' = Fits(Name(seg.who), i)
  BY <1>1, <1>2 DEF Fits
<1> QED BY <1>1, <1>2, <1>3, <1>4 DEF Searching, Fits, Timely

(* Which page is wanted                                                     *)
LEMMA WantedDay == ASSUME NEW c, Port(c) = "day" PROVE Wanted(c) = <<"time">>
<1>1. Port(c) = "day" \/ plan.clients[c].request[1] = "$"
  OBVIOUS
<1> QED BY <1>1 DEF Wanted

LEMMA WantedClock == ASSUME NEW c, Name(c) = "$" PROVE Wanted(c) = <<"time">>
<1>1. Port(c) = "day" \/ plan.clients[c].request[1] = "$"
  BY DEF Name
<1> QED BY <1>1 DEF Wanted

LEMMA WantedFail ==
    ASSUME NEW c, Port(c) = "http", Name(c) # "$", Rom = <<>> PROVE Wanted(c) = <<"fail">>
<1>1. ~(Port(c) = "day" \/ plan.clients[c].request[1] = "$")
  BY DEF Name
<1> QED BY <1>1 DEF Wanted

LEMMA WantedFile ==
    ASSUME NEW c, Port(c) = "http", Name(c) # "$", Rom # <<>> PROVE Wanted(c) = FileFor(Name(c))
<1>1. ~(Port(c) = "day" \/ plan.clients[c].request[1] = "$")
  BY DEF Name
<1> QED BY <1>1 DEF Wanted, Name

LEMMA RequestStep ==
    ASSUME WebInv, UNCHANGED plan, tcp_rx
    PROVE  Answer' /\ Part' /\ Dir' /\ Searching' /\ concount' \in 0 .. CONCOUNTS - 1
<1>0. /\ plan \in Plans /\ pc = "request" /\ concount \in 0 .. CONCOUNTS - 1
      /\ UNCHANGED <<intvars, rxout, regs>>
  BY ProcessingStep DEF WebInv, Kept, Known, tcp_rx, Processing, Proceed
<1>1. seg \in Proper /\ seg.ack[1] \in 0 .. CONCOUNTS - 1
      /\ (seg.kind = "get" => Port(seg.who) = "http" /\ seg.data = plan.clients[seg.who].request)
      /\ (seg.kind # "get" => seg.data = <<>>)
  BY <1>0, RequestFrame, ProperFrame, SegAck
<1>2. (concount + 1) % CONCOUNTS \in 0 .. CONCOUNTS - 1
  BY <1>0, WebConstants
<1>3. CASE Busy
  <2>1. UNCHANGED <<concount, txvars, filevars>> /\ pc' = "loop"
    BY <1>3 DEF tcp_rx, Done
  <2>2. Answer' /\ Part'
    BY <2>1, SameTx DEF txvars, filevars, SentState
  <2> QED BY <1>0, <2>1, <2>2, NotFinding DEF filevars, WebInv, Dir
<1>4. CASE ~Busy /\ RxSyn
  <2>1. UNCHANGED romdir /\ pc' = "loop" /\ concount' \in 0 .. CONCOUNTS - 1
    BY <1>0, <1>2, <1>4 DEF RxSyn, Done, filevars
  <2>2. Answer' /\ Part'
    <3>1. CASE put_ack(seg, {"SYN", "ACK"}, <<concount, -1>>, Acked + 1)
      <4> DEFINE n == <<concount, -1>>
      <4>1. n[1] \in 0 .. CONCOUNTS - 1
        BY <1>0
      <4> HIDE DEF n
      <4> QED BY <1>1, <3>1, <4>1, PutAck DEF n
    <3>2. CASE put_ack(seg, {"RST", "ACK"}, seg.ack, Acked + 1)
      BY <1>1, <3>2, PutAck
    <3> QED BY <1>4, <3>1, <3>2 DEF RxSyn
  <2> QED BY <2>1, <2>2, NotFinding DEF WebInv, Dir
<1>5. CASE ~Busy /\ RxFin
  <2>1. UNCHANGED <<romdir, concount>> /\ pc' = "loop" /\ put_ack(seg, {"ACK"}, seg.ack, Acked + 1)
    BY <1>5 DEF RxFin, Done, filevars
  <2>2. Answer' /\ Part'
    BY <1>1, <2>1, PutAck
  <2> QED BY <1>0, <2>1, <2>2, NotFinding DEF WebInv, Dir
<1>6. CASE ~Busy /\ RxAck
  <2>1. UNCHANGED <<concount, filevars>> /\ pc' = "loop"
    BY <1>6 DEF RxAck, Done
  <2>2. Answer' /\ Part'
    <3>1. CASE Port(seg.who) = "day" /\ put_data(seg, <<"time", rtc>>, Acked)
      <4>1. Wanted(seg.who) = <<"time">>
        BY <3>1, WantedDay
      <4>2. "time" \in Texts
        BY DEF Texts
      <4> QED BY <1>1, <3>1, <4>1, <4>2, PutText
    <3>2. CASE put_ack(seg, {"ACK"}, seg.ack, Acked)
      BY <1>1, <3>2, PutAck
    <3>3. CASE UNCHANGED txvars
      BY <2>1, <3>3, SameTx DEF txvars, filevars, SentState
    <3> QED BY <1>6, <3>1, <3>2, <3>3 DEF RxAck
  <2> QED BY <1>0, <2>1, <2>2, NotFinding DEF filevars, WebInv, Dir
<1>7. CASE ~Busy /\ RxHttp
  <2>0. /\ seg.kind = "get" /\ Port(seg.who) = "http" /\ UNCHANGED <<concount, port, rtc>>
        /\ seg' = seg /\ ~txflag
    BY <1>0, <1>7 DEF RxHttp, seg, Busy
  <2>1. CASE /\ put_ack(seg, {"FIN", "ACK"}, seg.ack, Acked)
             /\ Done /\ UNCHANGED <<romdir, fileidx>>
    <3>1. Answer' /\ Part'
      BY <1>1, <2>1, PutAck
    <3> QED BY <1>0, <2>0, <2>1, <3>1, NotFinding DEF Done, WebInv, Dir
  <2>2. CASE /\ Rest # <<>> /\ Value(Rest[1]) = "$" /\ put_data(seg, <<"time", rtc>>, Acked)
             /\ Done /\ UNCHANGED <<romdir, fileidx>>
    <3>1. Timely => Wanted(seg.who) = <<"time">>
      <4>1. Timely => Name(seg.who) = "$"
        BY <1>0, <2>0, <2>2, FirstOfRest
      <4> QED BY <4>1, WantedClock
    <3>2. "time" \in Texts
      BY DEF Texts
    <3>3. Answer' /\ Part'
      BY <1>1, <2>2, <3>1, <3>2, PutText
    <3> QED BY <1>0, <2>0, <2>2, <3>3, NotFinding DEF Done, WebInv, Dir
  <2>3. CASE /\ Rest # <<>> /\ Value(Rest[1]) # "$"
             /\ romdir' = [name |-> Value(Rest[1]), chars |-> <<>>] /\ fileidx' = 0
             /\ pc' = "find" /\ UNCHANGED txvars
    <3>1. ~txflag'
      BY <2>0, <2>3 DEF txvars, WebInv
    <3>2. Answer' /\ Part' /\ Dir'
      BY <2>3, <3>1, NotSending DEF Dir
    <3>3. Timely => Name(seg.who) # "$" /\ romdir'.name = Name(seg.who)
      BY <1>0, <2>0, <2>3, FirstOfRest
    <3>4. Searching'
      <4>1. UNCHANGED <<plan, regs>> /\ fileidx' \in 0 .. Len(Rom) /\ 1..fileidx' = {}
        <5> DEFINE n == Len(Rom)
        <5>1. n \in Nat /\ fileidx' = 0 /\ UNCHANGED <<plan, regs>>
          BY <1>0, <2>3, PlanFacts
        <5> HIDE DEF n
        <5>2. fileidx' \in 0..n /\ 1..fileidx' = {}
          BY <5>1
        <5> QED BY <5>1, <5>2 DEF n
      <4> QED BY <2>0, <3>1, <3>3, <4>1, SearchOn
    <3> QED BY <1>0, <2>0, <3>2, <3>4
  <2> QED BY <1>7, <2>1, <2>2, <2>3 DEF RxHttp
<1> QED BY <1>3, <1>4, <1>5, <1>6, <1>7 DEF tcp_rx

(* The file that the search stops at is the one that is asked for.          *)
LEMMA FileFound ==
    ASSUME plan \in Plans, NEW c \in Clients, Port(c) = "http", Name(c) # "$",
           NEW k \in DOMAIN Rom,
           \/ Fits(Name(c), k) /\ \A i \in 1 .. k - 1 : ~Fits(Name(c), i)
           \/ k = 1 /\ Named(Name(c)) = {}
    PROVE  Wanted(c) = Rom[k].chars
<1> DEFINE found == {i \in DOMAIN Rom : Fits(Name(c), i)}
<1>1. Rom # <<>> /\ DOMAIN Rom = 1..Len(Rom) /\ Len(Rom) \in Nat
  BY PlanFacts
<1>2. Wanted(c) = FileFor(Name(c))
  BY <1>1, WantedFile
<1>3. FileFor(Name(c)) = IF found = {} THEN Rom[1].chars
                         ELSE Rom[CHOOSE i \in found : \A j \in found : i <= j].chars
  BY DEF FileFor
<1>4. CASE found = {}
  BY <1>2, <1>3, <1>4 DEF Named
<1>5. CASE found # {}
  <2>1. k \in found /\ \A j \in found : k <= j
    BY <1>1, <1>5 DEF Named
  <2>2. \A i \in found : (\A j \in found : i <= j) => i = k
    BY <1>1, <2>1
  <2>3. (CHOOSE i \in found : \A j \in found : i <= j) = k
    <3> HIDE DEF found
    <3> QED BY <2>1, <2>2
  <2> QED BY <1>2, <1>3, <1>5, <2>3
<1> QED BY <1>4, <1>5

LEMMA FindStep ==
    ASSUME WebInv, UNCHANGED plan, find_file
    PROVE  Answer' /\ Part' /\ Dir' /\ Searching' /\ UNCHANGED concount
<1> DEFINE c == seg.who
           k == fileidx + 1
<1>0. /\ plan \in Plans /\ pc = "find" /\ UNCHANGED <<concount, regs, plan>>
      /\ Rom \in Seq([name : STRING, chars : Seq(STRING)]) /\ Len(Rom) \in Nat
      /\ DOMAIN Rom = 1..Len(Rom)
  <2>1. plan \in Plans /\ pc = "find" /\ UNCHANGED concount
    BY DEF WebInv, Kept, find_file
  <2>2. Proceed
    BY ProcessingStep DEF Processing
  <2>3. UNCHANGED regs
    BY <2>2 DEF Proceed
  <2>4. Rom \in Seq([name : STRING, chars : Seq(STRING)])
    BY <2>1, PlanFacts
  <2> QED BY <2>1, <2>3, <2>4
<1>1. /\ ~txflag /\ seg.kind = "get" /\ fileidx \in 0 .. Len(Rom)
      /\ Timely =>
            /\ Name(c) # "$"
            /\ \/ romdir.name = Name(c) /\ \A i \in 1..fileidx : ~Fits(romdir.name, i)
               \/ romdir.name = "" /\ fileidx = 0 /\ Named(Name(c)) = {}
  BY <1>0 DEF WebInv, Searching
<1>2. seg \in Proper /\ c \in Clients /\ Port(c) = "http" /\ Name(c) # "" /\ seg.ack[1] \in 0 .. CONCOUNTS - 1
  <2>1. seg \in Proper /\ c \in Clients /\ Port(c) = "http"
    BY <1>0, <1>1, RequestFrame, HttpSeg
  <2> QED BY <1>0, <2>1, HttpRequest, SegAck
<1>3. CASE fileidx = Len(Rom) /\ NotFound
  <2>1. CASE romdir.name # ""
    <3>1. /\ romdir' = [romdir EXCEPT !.name = ""] /\ fileidx' = 0 /\ UNCHANGED txvars
      BY <1>3, <2>1 DEF NotFound
    <3>2. Dir' /\ romdir'.name = ""
      BY <3>1 DEF WebInv, Dir
    <3>3. ~txflag'
      <4>1. txflag' = txflag
        BY <3>1 DEF txvars
      <4> QED BY <1>1, <4>1
    <3>4. Answer' /\ Part'
      BY <3>3, NotSending
    <3>5. ASSUME Timely PROVE Named(Name(c)) = {}
      <4>1. romdir.name = Name(c) /\ \A i \in 1..fileidx : ~Fits(romdir.name, i)
        BY <1>1, <2>1, <3>5
      <4> QED BY <1>0, <1>3, <4>1 DEF Named
    <3>6. Searching'
      <4>1. fileidx' \in 0..Len(Rom)
        <5> DEFINE n == Len(Rom)
        <5>1. n \in Nat /\ fileidx' = 0
          BY <1>0, <3>1
        <5> HIDE DEF n
        <5>2. fileidx' \in 0..n
          BY <5>1
        <5> QED BY <5>2 DEF n
      <4> QED BY <1>0, <1>1, <3>1, <3>2, <3>3, <3>5, <4>1, SearchOn
    <3> QED BY <1>0, <3>2, <3>4, <3>6
  <2>2. CASE romdir.name = ""
    <3>1. put_data(seg, <<"fail", 0>>, Acked) /\ pc' = "loop" /\ UNCHANGED romdir
      BY <1>3, <2>2 DEF NotFound, Done, filevars
    <3>2. ASSUME Timely PROVE Wanted(c) = <<"fail">>
      <4>1. Len(Rom) = 0
        BY <1>1, <1>2, <1>3, <2>2, <3>2
      <4>2. Rom = <<>>
        BY <1>0, <4>1, EmptySeqOf
      <4> HIDE DEF c
      <4> QED BY <1>1, <1>2, <3>2, <4>2, WantedFail
    <3>3. "fail" \in Texts
      BY DEF Texts
    <3>4. Answer' /\ Part'
      BY <1>2, <3>1, <3>2, <3>3, PutText
    <3> QED BY <1>0, <3>1, <3>4, NotFinding DEF WebInv, Dir
  <2> QED BY <2>1, <2>2
<1>4. CASE fileidx # Len(Rom) /\ (romdir.name = "" \/ Fits(romdir.name, k)) /\ Found
  <2> DEFINE h == Hdr(c, {"FIN", "ACK"}, seg.ack, Acked, Rom[k].chars)
  <2>1. /\ romdir' = [romdir EXCEPT !.chars = Rom[k].chars] /\ pc' = "loop"
        /\ IF romdir.name # "" THEN port' = Setting("out", port) ELSE UNCHANGED port
        /\ Transmit(<<h>>, TRUE)
    BY <1>4 DEF Found, Done, put_page, check_formargs
  <2>2. Dir' /\ romdir'.chars = Rom[k].chars
    BY <2>1 DEF WebInv, Dir
  <2>3. k \in DOMAIN Rom /\ k - 1 = fileidx /\ (fileidx = 0 => k = 1)
    <3> DEFINE n == Len(Rom)
    <3>1. n \in Nat /\ fileidx \in 0..n /\ fileidx # n /\ DOMAIN Rom = 1..n
      BY <1>0, <1>1, <1>4
    <3> HIDE DEF n
    <3> QED BY <3>1
  <2>4. ASSUME Timely PROVE Wanted(c) = Rom[k].chars
    <3>1. \/ Fits(Name(c), k) /\ \A i \in 1 .. k - 1 : ~Fits(Name(c), i)
          \/ k = 1 /\ Named(Name(c)) = {}
      <4> HIDE DEF c, k
      <4> QED BY <1>1, <1>2, <1>4, <2>3, <2>4
    <3> HIDE DEF c, k
    <3> QED BY <1>0, <1>1, <1>2, <2>3, <2>4, <3>1, FileFound
  <2>5. \A v \in 0..1 : Shown(c, v) => port' = v
    <3> SUFFICES ASSUME NEW v \in 0..1, Shown(c, v) PROVE port' = v
      OBVIOUS
    <3>1. plan.pace = "quick" /\ Timely /\ Named(Name(c)) # {} /\ Sets(c, v)
      BY DEF Shown, Timely
    <3>2. port' = Setting("out", port)
      BY <1>1, <1>2, <2>1, <3>1
    <3> QED BY <1>0, <1>1, <3>1, <3>2, SettingIs
  <2>6. Headers(h) /\ h.to = c /\ h.sum = Rom[k].chars
    <3>1. "ECHO" \notin {"FIN", "ACK"} /\ \A sum : sum # <<>> => "FIN" \in {"FIN", "ACK"}
      OBVIOUS
    <3>2. Headers(h)
      BY <1>0, <1>2, <3>1, SegHeaders
    <3> QED BY <3>2 DEF Hdr
  <2>7. NewFile(h)
    BY <1>2, <2>2, <2>3, <2>4, <2>5, <2>6 DEF NewFile
  <2>8. Answer' /\ Part'
    <3> HIDE DEF h
    <3> QED BY <2>1, <2>6, <2>7, NewAnswer
  <2> QED BY <1>0, <2>1, <2>2, <2>8, NotFinding
<1>5. CASE fileidx # Len(Rom) /\ ~(romdir.name = "" \/ Fits(romdir.name, k)) /\ Passed
  <2>1. fileidx' = k /\ UNCHANGED <<romdir, txvars>>
    BY <1>5 DEF Passed
  <2>2. ~txflag' /\ Dir'
    <3>1. txflag' = txflag /\ Dir'
      BY <2>1 DEF txvars, WebInv, Dir
    <3> QED BY <1>1, <3>1
  <2>3. Answer' /\ Part'
    BY <2>2, NotSending
  <2>4. fileidx' \in 0 .. Len(Rom) /\ 1..fileidx' = 1..fileidx \cup {k}
    <3> DEFINE n == Len(Rom)
    <3>1. n \in Nat /\ fileidx \in 0..n /\ fileidx # n /\ fileidx' = fileidx + 1
      BY <1>0, <1>1, <1>5, <2>1
    <3> HIDE DEF n
    <3>2. fileidx' \in 0..n /\ 1..fileidx' = 1..fileidx \cup {fileidx + 1}
      BY <3>1
    <3> QED BY <3>2 DEF n
  <2>5. ASSUME Timely
        PROVE  Name(c) # "$" /\ romdir'.name = Name(c) /\ \A i \in 1..fileidx' : ~Fits(Name(c), i)
    <3> DEFINE x == Name(c)
    <3>1. romdir.name = x /\ (\A i \in 1..fileidx : ~Fits(x, i)) /\ ~Fits(x, k) /\ x # "$"
      BY <1>1, <1>5, <2>5
    <3> HIDE DEF x, k, c
    <3> QED BY <2>1, <2>4, <3>1 DEF x
  <2>6. Searching'
    BY <1>0, <1>1, <2>2, <2>4, <2>5, SearchOn
  <2> QED BY <1>0, <2>2, <2>3, <2>6
<1> QED BY <1>3, <1>4, <1>5 DEF find_file

-----------------------------------------------------------------------------
(* What neither the server nor the transmitter does: the search does not    *)
(* move, and the answer that is being sent is the same.                     *)
LEMMA SearchStays ==
    ASSUME WebInv, UNCHANGED <<plan, regs, pc, txflag, romdir, fileidx>> PROVE Searching'
<1>1. seg' = seg /\ Rom' = Rom
  BY DEF seg, Rom
<1>2. Name(seg.who)' = Name(seg.who)
  BY <1>1 DEF Name
<1>3. Named(Name(seg.who))' = Named(Name(seg.who))
  BY <1>1, <1>2 DEF Named, Fits
<1> QED BY <1>1, <1>2, <1>3 DEF WebInv, Searching, Fits, Timely

LEMMA AnswerStays ==
    ASSUME WebInv, UNCHANGED <<plan, txvars, filevars>> PROVE Answer' /\ Part' /\ Dir'
<1>1. UNCHANGED <<plan, SentState>> /\ UNCHANGED romdir
  BY DEF txvars, filevars, SentState
<1> QED BY <1>1, SameTx DEF WebInv, Dir

LEMMA ReceiverStep ==
    ASSUME WebInv, Interrupt \/ Receive
    PROVE  Searching' /\ Known' /\ Pages' /\ Answer' /\ Part' /\ Dir'
<1>1. UNCHANGED <<plan, concount, txvars, filevars, client, pages>>
  BY DEF Interrupt, Receive, hostvars
<1>2. Known' /\ Pages'
  BY <1>1, ClientsStay DEF WebInv
<1>3. Answer' /\ Part' /\ Dir'
  BY <1>1, AnswerStays
<1>4. Searching'
  <2>1. CASE Interrupt
    <3>1. UNCHANGED <<regs, pc>>
      BY <2>1 DEF Interrupt, RxEscape, RxChar, RxEnd, RxCr
    <3> QED BY <1>1, <3>1, SearchStays DEF txvars, filevars
  <2>2. CASE Receive
    <3>1. pc' # "find"
      BY <2>2 DEF Receive, TakeFrame, getch_slip, SlipEnd, AfterRead
    <3> QED BY <3>1, NotFinding
  <2> QED BY <2>1, <2>2
<1> QED BY <1>2, <1>3, <1>4

LEMMA ServerStep ==
    ASSUME WebInv, Processing
    PROVE  Searching' /\ Known' /\ Pages' /\ Answer' /\ Part' /\ Dir'
<1>1. UNCHANGED <<plan, client, pages>>
  BY ProcessingStep DEF hostvars
<1>2. Searching' /\ Answer' /\ Part' /\ Dir' /\ concount' \in 0 .. CONCOUNTS - 1
  <2>1. concount \in 0 .. CONCOUNTS - 1
    BY DEF WebInv, Known
  <2>2. CASE tcp_rx
    BY <1>1, <2>2, RequestStep
  <2>3. CASE find_file
    <3>1. Searching' /\ Answer' /\ Part' /\ Dir' /\ UNCHANGED concount
      BY <1>1, <2>3, FindStep
    <3> QED BY <2>1, <3>1
  <2>4. CASE Echo
    <3>1. UNCHANGED concount
      BY <2>4 DEF Echo
    <3>2. Answer' /\ Part' /\ Dir' /\ pc' # "find"
      BY <1>1, <2>4, EchoStep
    <3> QED BY <2>1, <3>1, <3>2, NotFinding
  <2> QED BY <2>2, <2>3, <2>4 DEF Processing
<1> QED BY <1>1, <1>2, ClientsStayAt DEF WebInv

LEMMA LineStep ==
    ASSUME WebInv, Outside
    PROVE  Searching' /\ Known' /\ Pages' /\ Answer' /\ Part' /\ Dir'
<1>1. Known' /\ Pages' /\ UNCHANGED <<plan, pc, regs>>
  BY OutsideStep DEF Receiver
<1>2. CASE tx_poll
  <2>1. pc' # "find"
    BY <1>1, <1>2 DEF tx_poll
  <2> QED BY <1>1, <1>2, <2>1, PollStep, NotFinding
<1>3. CASE rx_poll
  <2>1. pc' # "find"
    BY <1>1, <1>3 DEF rx_poll
  <2> QED BY <1>1, <1>3, <2>1, ModemStep, NotFinding
<1>4. CASE (\E c \in Clients : Start(c) \/ Resend(c) \/ Early(c)) \/ Lose
  <2>1. UNCHANGED <<txvars, filevars>>
    BY <1>4 DEF Start, Resend, Early, Lose
  <2>2. Searching'
    BY <1>1, <2>1, SearchStays DEF txvars, filevars
  <2> QED BY <1>1, <2>1, <2>2, AnswerStays
<1> QED BY <1>2, <1>3, <1>4 DEF Outside

LEMMA InitWebInv == Init => WebInv
<1> SUFFICES ASSUME Init PROVE WebInv
  OBVIOUS
<1>0. /\ RxInit /\ plan \in Plans /\ concount = 0 /\ ~txflag
      /\ romdir = [name |-> "", chars |-> <<>>]
      /\ client = [c \in Clients |-> [st |-> "idle", rcv |-> Alone]]
      /\ pages = [c \in Clients |-> <<>>]
  BY DEF Init
<1>1. RxInv /\ pc = "loop" /\ rxflag = FALSE /\ modemflag = FALSE /\ rxcount = 0 /\ rxin = 0
      /\ rdcheck = {} /\ regs = <<>> /\ queue = <<>>
  BY <1>0, InitRxInv DEF RxInit
<1>2. Kept
  <2>1. <<>> \in Seq(Proper) /\ Len(<<>>) = 0 /\ 1..0 = {}
    OBVIOUS
  <2> QED BY <1>0, <1>1, <2>1 DEF Kept
<1>3. QuickKnows /\ InPlace
  <2>1. \A f \in Proper : ~(DataOf(f) # {} /\ rdcheck = DataOf(f))
    BY <1>1
  <2>2. ~Waiting
    BY <1>1 DEF Waiting
  <2> QED BY <1>1, <2>1, <2>2 DEF QuickKnows, InPlace
<1>4. Searching /\ Answer /\ Copying /\ Part /\ Dir
  BY <1>0, <1>1 DEF Searching, Answer, Copying, Part, Dir
<1>5. Known
  <2>1. Alone \in Numbers
    BY <1>0, PlanFacts DEF Alone
  <2>2. \A c \in Clients : client[c] = [st |-> "idle", rcv |-> Alone] /\ pages[c] = <<>>
    BY <1>0
  <2>3. pages = [c \in Clients |-> pages[c]]
    BY <1>0
  <2> QED BY <1>0, <2>1, <2>2, <2>3, WebConstants DEF Known
<1>6. Pages
  BY <1>0 DEF Pages
<1> QED BY <1>1, <1>2, <1>3, <1>4, <1>5, <1>6 DEF WebInv

LEMMA NextWebInv == WebInv /\ [Next]_vars => WebInv'
<1>1. ASSUME WebInv, Next PROVE WebInv'
  <2>1. RxInv' /\ Kept' /\ QuickKnows' /\ InPlace' /\ Copying'
    BY <1>1, RxStep, KeptStep, QuickStep, InPlaceStep, CopyingStep
  <2>2. Searching' /\ Known' /\ Pages' /\ Answer' /\ Part' /\ Dir'
    BY <1>1, Actions, ReceiverStep, ServerStep, LineStep
  <2> QED BY <2>1, <2>2 DEF WebInv
<1>2. ASSUME WebInv, UNCHANGED vars PROVE WebInv'
  <2>1. UNCHANGED <<rxvars, plan, concount, txvars, filevars, client, pages>>
    BY <1>2 DEF vars, hostvars
  <2>2. RxInv'
    BY <1>2, <2>1, NextRxInv DEF WebInv
  <2>3. Kept' /\ QuickKnows'
    BY <1>2, <2>1 DEF WebInv, Kept, QuickKnows, OfFrame, Proper, Clients, Port, Waiting, seg, rxvars
  <2>4. InPlace' /\ Copying'
    <3>1. UNCHANGED <<rxbuff, regs, pc, plan, txflag, txbuff>> /\ seg' = seg
      BY <2>1 DEF rxvars, txvars, seg
    <3>2. Stored(seg)' = Stored(seg) /\ EchoData' = EchoData
      BY <3>1 DEF Stored, EchoData
    <3> QED BY <1>2, <3>1, <3>2 DEF WebInv, InPlace, Copying, Timely, Clients
  <2>5. Searching' /\ Known' /\ Pages' /\ Answer' /\ Part' /\ Dir'
    BY <1>2, <2>1, SearchStays, AnswerStays, ClientsStay DEF WebInv, rxvars, txvars, filevars
  <2> QED BY <2>2, <2>3, <2>4, <2>5 DEF WebInv
<1> QED BY <1>1, <1>2

-----------------------------------------------------------------------------
(* The server with its clients is one of the programs that RxSpec allows:   *)
(* whatever it makes of a frame, and whatever the clients send, lose and    *)
(* send again, the interrupt and the reading of frames are PicRx's.         *)
THEOREM ServerReceives == Spec => RxSpec
<1>1. Init => RxInit
  BY DEF Init
<1>2. WebInv /\ [Next]_vars => [RxNext]_rxvars
  BY NextReceives DEF vars
<1> QED BY <1>1, <1>2, InitWebInv, NextWebInv, PTL DEF Spec, RxSpec

(* Every frame that the server completes is whole, but for a ping that is   *)
(* overwritten before it is copied; and a client that has got data has got  *)
(* the page its own request names, all of it, from a server that reads the  *)
(* names in time, with what the request has set, from a quick one: for any  *)
(* clients, requests and files, lengths of the buffer and counts of frames  *)
(* that are lost, from a server that knows nothing of its connections.      *)
(* RequestWhole says that the request is one frame's when its sum is found  *)
(* right; what is read of it in time is what was summed (InPlace); the      *)
(* answer to it then is the sender's, until all of it has gone (Answer,     *)
(* Part); and a client takes an answer with data once, while it has none    *)
(* (Known, Pages).                                                          *)
THEOREM PagesAreWhole == Spec => []AnswersWhole
<1>1. WebInv => AnswersWhole
  <2> SUFFICES ASSUME WebInv PROVE AnswersWhole
    OBVIOUS
  <2>1. ASSUME txflag, AllSent
        PROVE  Good(hbuf) \/ (plan.pace # "quick" /\ hbuf # <<>> /\ "ECHO" \in hbuf[1].flags)
    <3>1. CASE "ECHO" \in txbuff[1].flags
      BY <2>1, <3>1, WholeEcho
    <3>2. CASE "ECHO" \notin txbuff[1].flags
      BY <2>1, <3>2, WholeFrame
    <3> QED BY <3>1, <3>2
  <2>2. ASSUME NEW c \in Clients, plan.pace # "any", pages[c] # <<>>
        PROVE  /\ Chars(pages[c]) = Wanted(c)
               /\ plan.pace = "quick" /\ (\E i \in DOMAIN Rom : Fits(plan.clients[c].request[1], i)) =>
                     \A v \in 0..1, i \in DOMAIN pages[c] :
                        pages[c][i][1] \in {"#", "|"} /\ Sets(c, v) => pages[c][i][2] = v
    BY <2>2 DEF WebInv, Pages, Shown, Named, Name, Timely
  <2> QED BY <2>1, <2>2 DEF AnswersWhole
<1> QED BY <1>1, InitWebInv, NextWebInv, PTL DEF Spec
=============================================================================
