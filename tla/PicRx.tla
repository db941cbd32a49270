------------------------------- MODULE PicRx --------------------------------
(* How PICWEB takes in a frame.  A character interrupts the main loop at    *)
(* any point and is stored in rxbuff, from whose start the main loop reads  *)
(* the last frame, although the next one may be arriving in its place.      *)
(* What keeps the two apart are the sums: of the headers, taken as they are *)
(* read, and of the data, taken by the interrupt as they arrive.  After     *)
(* that the data are read where they lie.                                   *)
(* The k-th piece of frame f is <<f, k>>; a sum is right if what was summed *)
(* is what one frame has.                                                   *)
EXTENDS Integers, Sequences

CONSTANTS
    Frames,            \* what may be sent to the server
    Size(_),           \* pieces of a frame
    Escaped(_, _),     \* piece k of frame f is sent as an escape
    Pings,             \* the frames that are ICMP requests
    Dials,             \* those that are commands to a modem, ended by a CR
    IPHDR_LEN, TCPHDR_LEN, RXBUFFLEN

HDR == IPHDR_LEN + TCPHDR_LEN

ASSUME RxAssumption ==
    /\ IPHDR_LEN \in Nat \ {0} /\ TCPHDR_LEN \in Nat \ {0}
    /\ RXBUFFLEN \in Nat /\ RXBUFFLEN > HDR
    /\ \A f \in Frames : Size(f) \in Nat \ {0}

VARIABLES
    queue,             \* frames to come, the one that is arriving first
    in,                \* how many pieces of it have arrived
    escflag,
    rxbuff, rxin, rxcount, rxflag, modemflag,
    rdcheck,           \* the pieces in the interrupt's sum
    pc,                \* where the main loop is
    rxout,
    regs               \* the pieces that were read, in the main loop's sum

rxvars == <<queue, in, escflag, rxbuff, rxin, rxcount, rxflag, modemflag,
            rdcheck, pc, rxout, regs>>
intvars == <<queue, in, escflag, rxbuff, rxin, rxcount, rxflag, modemflag, rdcheck>>

Empty == <<>>

RxInit ==
    /\ queue = <<>> /\ in = 0
    /\ escflag = FALSE
    /\ rxbuff = [i \in 1..RXBUFFLEN |-> Empty]
    /\ rxin = 0 /\ rxcount = 0 /\ rxflag = FALSE /\ modemflag = FALSE
    /\ rdcheck = {}
    /\ pc = "loop" /\ rxout = 0 /\ regs = <<>>

-----------------------------------------------------------------------------
(* The interrupt                                                            *)

RxEscape ==
    /\ queue # <<>> /\ in < Size(Head(queue))
    /\ Escaped(Head(queue), in + 1) /\ ~escflag
    /\ escflag' = TRUE
    /\ UNCHANGED <<queue, in, rxbuff, rxin, rxcount, rxflag, modemflag, rdcheck, pc, rxout, regs>>

RxChar ==
    /\ queue # <<>> /\ in < Size(Head(queue))
    /\ Escaped(Head(queue), in + 1) => escflag
    /\ LET b == <<Head(queue), in + 1>> IN
       /\ rdcheck' = IF rxin = HDR - 1 THEN {}
                     ELSE IF rxin >= HDR THEN rdcheck \cup {b} ELSE rdcheck
       /\ IF rxin < RXBUFFLEN
          THEN rxbuff' = [rxbuff EXCEPT ![rxin + 1] = b] /\ rxin' = rxin + 1
          ELSE UNCHANGED <<rxbuff, rxin>>
    /\ in' = in + 1 /\ escflag' = FALSE
    /\ UNCHANGED <<queue, rxcount, rxflag, modemflag, pc, rxout, regs>>

RxEnd ==
    /\ queue # <<>> /\ Head(queue) \notin Dials /\ in = Size(Head(queue))
    /\ queue' = Tail(queue) /\ in' = 0
    /\ IF rxin > 0
       THEN rxflag' = TRUE /\ rxcount' = rxin /\ rxin' = 0
       ELSE UNCHANGED <<rxflag, rxcount, rxin>>
    /\ UNCHANGED <<escflag, rxbuff, modemflag, rdcheck, pc, rxout, regs>>

(* The CR of a modem's command, of which the buffer holds the first letter *)
RxCr ==
    /\ queue # <<>> /\ Head(queue) \in Dials /\ in = Size(Head(queue))
    /\ queue' = Tail(queue) /\ in' = 0
    /\ modemflag' = TRUE /\ rxin' = 0
    /\ UNCHANGED <<escflag, rxbuff, rxcount, rxflag, rdcheck, pc, rxout, regs>>

rx_handler == RxEscape \/ RxChar \/ RxEnd \/ RxCr

-----------------------------------------------------------------------------
(* The main loop                                                            *)

OneFrame(pieces) == \A i \in DOMAIN pieces : pieces[i][1] = pieces[1][1]
DataOf(f) == {<<f, i>> : i \in HDR + 1 .. Size(f)}

(* Mutant: the sum of the data is not added. *)
TcpSumOk_Headers(pieces) == OneFrame(pieces)

(* The sum over both headers and the data *)
TcpSumOk(pieces) == OneFrame(pieces) /\ rdcheck = DataOf(pieces[1][1])

(* get_ip and get_tcp, when they have read what is in pieces *)
AfterRead(pieces) ==
    CASE Len(pieces) = IPHDR_LEN ->
            IF ~OneFrame(pieces) THEN "loop"
            ELSE IF pieces[1][1] \in Pings THEN "icmp" ELSE "tcp"
      [] Len(pieces) = HDR /\ pc = "tcp" -> IF TcpSumOk(pieces) THEN "request" ELSE "loop"
      [] OTHER -> pc

(* The flag is cleared before the frame is read. *)
TakeFrame ==
    /\ pc = "loop" /\ rxflag
    /\ rxflag' = FALSE /\ rxout' = 0 /\ regs' = <<>> /\ pc' = "ip"
    /\ UNCHANGED <<queue, in, escflag, rxbuff, rxin, rxcount, modemflag, rdcheck>>

getch_slip ==
    /\ pc \in {"ip", "tcp", "icmp"} /\ rxout < rxcount
    /\ rxout' = rxout + 1
    /\ regs' = Append(regs, rxbuff[rxout + 1])
    /\ pc' = AfterRead(regs')
    /\ UNCHANGED intvars

(* The end of the frame: that of a ping if the sum over all of it is right, *)
(* and too early for a segment.                                             *)
SlipEnd ==
    /\ pc \in {"ip", "tcp", "icmp"} /\ rxout >= rxcount
    /\ pc' = IF pc = "icmp" /\ OneFrame(regs) /\ Len(regs) = Size(regs[1][1]) THEN "echo" ELSE "loop"
    /\ UNCHANGED <<intvars, rxout, regs>>

(* The server goes on to look for the file, or to copy what it has summed,  *)
(* or is done with the frame.                                               *)
Proceed ==
    /\ pc \in {"request", "find", "echo", "copy"}
    /\ \/ pc' = "loop"
       \/ pc \in {"request", "find"} /\ pc' = "find"
       \/ pc = "echo" /\ pc' = "copy"
    /\ UNCHANGED <<intvars, rxout, regs>>

(* Frames are sent, or lost before they arrive; a modem's command is        *)
(* answered.                                                                *)
Sending ==
    /\ queue' \in Seq(Frames)
    /\ in > 0 => queue' # <<>> /\ Head(queue') = Head(queue)
    /\ UNCHANGED <<in, escflag, rxbuff, rxin, rxcount, rxflag, rdcheck, pc, rxout, regs>>
    /\ modemflag' \in {modemflag, FALSE}

RxNext == rx_handler \/ TakeFrame \/ getch_slip \/ SlipEnd \/ Proceed \/ Sending

(* The receiver, whatever the rest of the program does: nothing but the     *)
(* interrupt writes the buffer and its flags, and the main loop reads a     *)
(* frame only after its flag was set, and never takes the flag back for a   *)
(* frame it has not begun to read.                                          *)
RxSpec == RxInit /\ [][RxNext]_rxvars

-----------------------------------------------------------------------------
(* When the server finds the sum of a request right, its headers and its    *)
(* data, as far as there is room for them, are those of one frame, however  *)
(* many have arrived since it was announced, in whatever part the next one  *)
(* has taken its place, and although the flag that announces the next is    *)
(* cleared before the reading.  The sums of the headers alone would not     *)
(* show that.  From then on nothing keeps the data from being overwritten   *)
(* but that the server reads them in time.                                  *)
Whole ==
    LET f == regs[1][1] IN
    /\ \A i \in 1..HDR : regs[i] = <<f, i>>
    /\ \A i \in HDR + 1 .. Size(f) : i <= RXBUFFLEN => rxbuff[i] = <<f, i>>

RequestWhole == [][pc # "request" /\ pc' = "request" => Whole']_rxvars
=============================================================================
