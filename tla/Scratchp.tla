------------------------------ MODULE Scratchp ------------------------------
(***************************************************************************)
(* The scratch protocol of SCRATCHP.C between two nodes: identification,   *)
(* connection, windowed data transfer and close, over a network that keeps *)
(* the order of packets and may lose them.                                 *)
(*                                                                         *)
(* A node's transmit buffer is the queue with a trial mark that CBuff is   *)
(* shown to implement; of its receive buffer the in pointer is kept.       *)
(* Sequence numbers do not wrap, and every node answers to the name that   *)
(* is asked for.                                                           *)
(* A byte is the number of its connection and its place in the stream.     *)
(* History, which the code does not have: wrote and got, what the program  *)
(* wrote and the receive buffer got on this connection; id, its number,    *)
(* which each node that begins a connection counts up, and of, the same on *)
(* a packet; peer, the number of the connection of the other node from     *)
(* whose packet the receive buffer was set.                                *)
(***************************************************************************)
EXTENDS Integers, Sequences

CONSTANTS
  Window,                  (* WINDOWSIZE                                   *)
  DataLen,                 (* SCRATCHPDLEN, most data in a packet          *)
  Retries,                 (* RETRIES                                      *)
  Plans                    (* bounds [write, openers, opens, losses, cap]: *)
                           (* what node n writes on a connection, whose    *)
                           (* users open connections, how often, and how   *)
                           (* many packets are lost and are under way      *)

Nodes == {"a", "b"}
Peer(n) == IF n = "a" THEN "b" ELSE "a"

ASSUME ScratchpAssumption ==
  /\ {Window, DataLen} \subseteq Nat \ {0}
  /\ Retries \in Nat
  /\ \A p \in Plans : p.openers \subseteq Nodes /\ p.write \in [Nodes -> 0 .. 8] /\ p.cap \in Nat

VARIABLES
  plan,                    (* the plan that is followed                    *)
  node,                    (* node[n]: connection state and buffers        *)
  wire,                    (* wire[n]: the packets under way to n          *)
  opens,                   (* opens so far                                 *)
  lost                     (* packets lost so far                          *)

vars == <<plan, node, wire, opens, lost>>

(* The distinctive sequence numbers of the node that opens and the other.  *)
OpenerSeq == 1
AnswererSeq == 101

InitNode == 
  [conn |-> "IDLE", txo |-> 0, txq |-> <<>>, tried |-> 0, rxi |-> 0, txack |-> 0,
   errcount |-> 0, iss |-> 0, wrote |-> 0, got |-> <<>>, id |-> 0,
   peer |-> 0]

minw(x, y) == IF x < y THEN x ELSE y
NextId == 1 + (IF node["a"].id < node["b"].id THEN node["b"].id ELSE node["a"].id)
Untried(s) == Len(s.txq) - s.tried

newconnstate(s, state) == [s EXCEPT !.conn = state, !.errcount = 0]

buff_setall_tx(s, v, id) == 
  [s EXCEPT !.txo = v, !.iss = v, !.txq = <<>>, !.tried = 0, !.wrote = 0,
            !.id = id]
buff_setall_rx(s, p) == [s EXCEPT !.rxi = p.seq, !.got = <<>>, !.peer = p.of]

(* A packet made by a node in state s, with the next n bytes it has not    *)
(* tried yet.                                                              *)
make_scratchp(s, sig, n) ==
  [sig |-> sig, seq |-> s.txo + s.tried, ack |-> s.rxi, of |-> s.id,
   data |-> SubSeq(s.txq, s.tried + 1, s.tried + n)]

Quiet(s) == [s |-> s, tx |-> <<>>]
Answer(s, sig) == [s |-> s, tx |-> <<make_scratchp(s, sig, 0)>>]

NoPacket == [sig |-> "NULL", seq |-> 0, ack |-> 0, of |-> 0, data |-> <<>>]

-----------------------------------------------------------------------------
(* do_scratchp, one operator for each state.  sig is the signal of the     *)
(* packet, of the user or of the timer.                                    *)

InIdle(s, sig, p, id) ==
  CASE sig = "USER_OPEN" -> 
         [s |-> newconnstate(buff_setall_tx(s, OpenerSeq, id), "IDENT"),
          tx |-> <<make_scratchp(s, "CMD", 0)>>]
    [] sig = "CMD" -> Answer(s, "RESP")
    [] sig = "START" ->
         LET fresh == buff_setall_rx(buff_setall_tx(s, AnswererSeq, id), p) IN
         Answer(newconnstate([fresh EXCEPT !.txack = p.seq], "CONNECTED"), "CONN")
    [] sig \in {"CONN", "STOP"} -> Answer(s, "ERR")
    [] OTHER -> Quiet(s)

(* Mutant: a failure is not looked for.                                    *)
InIdent_NoFail(s, sig) ==
  CASE sig = "RESP" -> Answer(newconnstate(s, "OPEN"), "START")
    [] sig = "ERR" -> Quiet(newconnstate(s, "IDLE"))
    [] sig = "TIMEOUT" -> Answer(s, "CMD")
    [] OTHER -> Quiet(s)

InIdent(s, sig) ==
  CASE sig = "RESP" -> Answer(newconnstate(s, "OPEN"), "START")
    [] sig \in {"ERR", "FAIL"} -> Quiet(newconnstate(s, "IDLE"))
    [] sig = "TIMEOUT" -> Answer(s, "CMD")
    [] OTHER -> Quiet(s)

(* Mutant: the receive buffer keeps the pointers of the last connection.   *)
InOpen_KeepRx(s, sig, p) ==
  CASE sig \in {"START", "CONN"} ->
         Answer(newconnstate([s EXCEPT !.peer = p.of, !.got = <<>>], "CONNECTED"), "CONN")
    [] sig = "STOP" -> Answer(newconnstate(s, "IDLE"), "STOP")
    [] sig \in {"ERR", "FAIL"} -> Quiet(newconnstate(s, "IDLE"))
    [] sig = "TIMEOUT" -> Answer(s, "START")
    [] OTHER -> Quiet(s)

InOpen(s, sig, p) ==
  CASE sig \in {"START", "CONN"} -> 
         Answer(newconnstate(buff_setall_rx(s, p), "CONNECTED"), "CONN")
    [] sig = "STOP" -> Answer(newconnstate(s, "IDLE"), "STOP")
    [] sig \in {"ERR", "FAIL"} -> Quiet(newconnstate(s, "IDLE"))
    [] sig = "TIMEOUT" -> Answer(s, "START")
    [] OTHER -> Quiet(s)

(* Mutants: a repeat is taken as new; the in pointer follows the packet.   *)
TakeData_Repeat(s, p) ==
  IF p.seq <= s.rxi
  THEN [s EXCEPT !.rxi = @ + Len(p.data), !.got = @ \o p.data]
  ELSE s
TakeData_AnySeq(s, p) ==
  [s EXCEPT !.rxi = p.seq + Len(p.data), !.got = @ \o p.data]
TakeData_Follow(s, p) ==
  [s EXCEPT !.rxi = p.seq + Len(p.data), 
            !.got = IF p.seq = s.rxi THEN @ \o p.data ELSE @]

(* The data of a packet is taken if it is the next in the stream.          *)
TakeData(s, p) ==
  IF p.seq = s.rxi
  THEN [s EXCEPT !.rxi = @ + Len(p.data), !.got = @ \o p.data]
  ELSE s

TakeAck(s, acked) ==
  IF acked \in 0 .. s.tried
  THEN [s EXCEPT !.txo = @ + acked, !.tried = @ - acked, 
                 !.txq = SubSeq(@, acked + 1, Len(@))]
  ELSE s

(* Send the next data within the window, or an empty packet if forced; the *)
(* timer stands still while nothing is unacknowledged.                     *)
TrySend(s, forced, otherwise) ==
  LET n == minw(Untried(s), minw(DataLen, Window - s.tried))
      sent == n > 0 \/ forced
      t == IF sent THEN [s EXCEPT !.tried = @ + n, !.txack = s.rxi] ELSE s
  IN [s |-> IF t.tried = 0 THEN newconnstate(t, t.conn) ELSE t,
      tx |-> IF sent THEN <<make_scratchp(s, "CONN", n)>> ELSE otherwise]

(* Differences of pointers are unsigned: a negative one is a large one.    *)
Within(d, limit) == 0 <= d /\ d <= limit

InReceive(s0, p) ==
  LET old == s0.rxi - p.seq
      acked == p.ack - s0.txo
      t == TakeAck(TakeData(newconnstate(s0, "CONNECTED"), p), acked)
      half == ~Within(t.rxi - t.txack, (Window \div 2) - 1)
      valid == Within(acked, s0.tried) /\ Within(old, Window)
      s == IF valid THEN t ELSE newconnstate(t, "IDLE")
      forced == half \/ (old # 0 /\ Within(old, Window))
  IN TrySend(s, forced, IF valid THEN <<>> ELSE <<make_scratchp(s, "ERR", 0)>>)

(* Mutant: a failure is not looked for.                                    *)
InConnected_NoFail(s, sig, p) ==
  CASE sig = "CONN" -> InReceive(s, p)
    [] sig = "NULL" -> TrySend(s, FALSE, <<>>)
    [] sig = "TIMEOUT" -> TrySend([s EXCEPT !.tried = 0], TRUE, <<>>)
    [] sig = "START" -> Answer(s, "CONN")
    [] sig = "USER_CLOSE" -> Answer(newconnstate(s, "CLOSE"), "STOP")
    [] sig = "STOP" -> Answer(newconnstate(s, "IDLE"), "STOP")
    [] sig = "ERR" -> Quiet(newconnstate(s, "IDLE"))
    [] OTHER -> Quiet(s)

InConnected(s, sig, p) ==
  CASE sig = "CONN" -> InReceive(s, p)
    [] sig = "NULL" -> TrySend(s, FALSE, <<>>)
    [] sig = "TIMEOUT" -> TrySend([s EXCEPT !.tried = 0], TRUE, <<>>)
    [] sig = "START" -> Answer(s, "CONN")
    [] sig = "USER_CLOSE" -> Answer(newconnstate(s, "CLOSE"), "STOP")
    [] sig = "STOP" -> Answer(newconnstate(s, "IDLE"), "STOP")
    [] sig = "ERR" -> Quiet(newconnstate(s, "IDLE"))
    [] sig = "FAIL" -> Answer(newconnstate(s, "IDLE"), "ERR")
    [] OTHER -> Quiet(s)

(* Mutant: the STOP is not sent again.                                     *)
InClose_Once(s, sig) ==
  IF sig \in {"STOP", "ERR"} THEN Quiet(newconnstate(s, "IDLE")) ELSE Quiet(s)

InClose(s, sig) ==
  CASE sig \in {"STOP", "ERR"} -> Quiet(newconnstate(s, "IDLE"))
    [] sig = "TIMEOUT" -> Answer(s, "STOP")
    [] OTHER -> Quiet(s)

do_scratchp(s, sig, p, id) ==
  CASE s.conn = "IDLE" -> InIdle(s, sig, p, id)
    [] s.conn = "IDENT" -> InIdent(s, sig)
    [] s.conn = "OPEN" -> InOpen(s, sig, p)
    [] s.conn = "CONNECTED" -> InConnected(s, sig, p)
    [] OTHER -> InClose(s, sig)

-----------------------------------------------------------------------------
(* The main loop and the network.                                          *)

Init ==
  /\ plan \in Plans
  /\ node = [n \in Nodes |-> InitNode]
  /\ wire = [n \in Nodes |-> <<>>]
  /\ opens = 0 /\ lost = 0

(* Node n, in state s, takes a signal and sends what it answers; rest is   *)
(* what is left on the wire to it.  The bound on the packets under way     *)
(* never holds up a node that takes a packet, as that answers with one.    *)
Do(n, s, sig, p, rest) ==
  LET r == do_scratchp(s, sig, p, NextId) IN
  /\ Len(wire[Peer(n)]) + Len(rest) + Len(r.tx) <= plan.cap
  /\ node' = [node EXCEPT ![n] = r.s]
  /\ wire' = [wire EXCEPT ![n] = rest, ![Peer(n)] = @ \o r.tx]

(* get_pkts: the next packet is taken, with as much of its data as the     *)
(* receive buffer has room for; how much the application left is open.     *)
Receive(n) ==
  /\ wire[n] # <<>>
  /\ UNCHANGED <<opens, lost>>
  /\ LET p == Head(wire[n]) IN
     \E room \in 0 .. Len(p.data) :
       Do(n, node[n], p.sig, [p EXCEPT !.data = SubSeq(@, 1, room)], Tail(wire[n]))

Lose(n) ==
  /\ wire[n] # <<>> /\ lost < plan.losses
  /\ lost' = lost + 1
  /\ wire' = [wire EXCEPT ![n] = Tail(@)]
  /\ UNCHANGED <<node, opens>>

UserOpen(n) ==
  /\ n \in plan.openers /\ node[n].conn = "IDLE" /\ opens < plan.opens
  /\ opens' = opens + 1
  /\ UNCHANGED lost
  /\ Do(n, node[n], "USER_OPEN", NoPacket, wire[n])

UserClose(n) ==
  /\ node[n].conn = "CONNECTED"
  /\ UNCHANGED <<opens, lost>>
  /\ Do(n, node[n], "USER_CLOSE", NoPacket, wire[n])

(* What do_apps does to a connected node: the application writes k bytes,  *)
(* and may go to another state, which resets the error counter.            *)
AppWrites(s, k, fresh) ==
  [s EXCEPT !.txq = @ \o [i \in 1 .. k |-> 10 * s.id + s.wrote + i],
            !.wrote = @ + k, !.errcount = IF fresh THEN 0 ELSE @]

(* The key of a command: its text is written, and goes out at a later turn.*)
Command(n) ==
  /\ node[n].conn = "CONNECTED"
  /\ \E k \in 1 .. plan.write[n] - node[n].wrote, fresh \in BOOLEAN :
       node' = [node EXCEPT ![n] = AppWrites(@, k, fresh)]
  /\ UNCHANGED <<wire, opens, lost>>

(* A turn of the loop in which nothing happened but do_apps.  A change of  *)
(* application state without a key comes with data written, or with data   *)
(* received, which has reset the counter already.                          *)
Turn(n) ==
  /\ node[n].conn = "CONNECTED"
  /\ UNCHANGED <<opens, lost>>
  /\ \E k \in 0 .. plan.write[n] - node[n].wrote, fresh \in BOOLEAN :
       /\ fresh => k > 0
       /\ Do(n, AppWrites(node[n], k, fresh), "NULL", NoPacket, wire[n])

(* The error timer ran out: a retry, or failure after RETRIES of them.     *)
(* errcount stops growing one above RETRIES.                               *)
Late(s) == [s EXCEPT !.errcount = minw(@ + 1, Retries + 1)]
LateSignal(s) == IF s.errcount < Retries THEN "TIMEOUT" ELSE "FAIL"

Expire(n) ==
  /\ UNCHANGED <<opens, lost>>
  /\ Do(n, Late(node[n]), LateSignal(node[n]), NoPacket, wire[n])

Timeout(n) ==
  /\ node[n].conn # "IDLE"
  /\ node[n].conn = "CONNECTED" => node[n].tried > 0
  /\ Expire(n)

(* Every turn sets the timer of a node with nothing unacknowledged anew,   *)
(* but one that waited for its user to type a name finds it run out.       *)
Stall(n) ==
  /\ node[n].conn = "CONNECTED" /\ node[n].tried = 0
  /\ Expire(n)

(* The program ends and is started again: what waits for it is dropped,    *)
(* and lost, and a STOP is sent unless it is idle.                         *)
Quit(n) ==
  LET s == node[n]
      stop == IF s.conn = "IDLE" THEN <<>> ELSE <<make_scratchp(s, "STOP", 0)>> IN
  /\ Len(wire[Peer(n)]) + Len(stop) <= plan.cap
  /\ lost + Len(wire[n]) <= plan.losses
  /\ lost' = lost + Len(wire[n])
  /\ UNCHANGED opens
  /\ node' = [node EXCEPT ![n] = [InitNode EXCEPT !.id = s.id]]
  /\ wire' = [wire EXCEPT ![n] = <<>>, ![Peer(n)] = @ \o stop]

Next ==
  UNCHANGED plan /\ \E n \in Nodes : Receive(n) \/ Lose(n) \/ UserOpen(n) \/ UserClose(n)
                   \/ Command(n) \/ Turn(n) \/ Timeout(n) \/ Stall(n) \/ Quit(n)

Spec == Init /\ [][Next]_vars

(* The programs loop for ever, so a packet that waits is taken or lost,    *)
(* what can be sent is sent, and a timer expires; that of a connected node *)
(* expires unless packets, each of which sets it anew, keep arriving.  The *)
(* conditions are those under which the steps change something.  A user    *)
(* does not keep a node waiting again and again for ever, nor does an      *)
(* application leave no room for data for ever.                            *)
HasRoom == Len(wire["a"]) + Len(wire["b"]) < plan.cap
CanSend(n) ==
  /\ node[n].conn = "CONNECTED" /\ HasRoom
  /\ Untried(node[n]) > 0 /\ node[n].tried < Window
Armed(n) ==
  /\ node[n].conn # "IDLE" /\ HasRoom
  /\ node[n].conn = "CONNECTED" => node[n].tried > 0
  /\ do_scratchp(Late(node[n]), LateSignal(node[n]), NoPacket, NextId) # Quiet(node[n])
Take(n) == Receive(n) \/ Lose(n)
Serve(n) == Turn(n) \/ Receive(n)
Refresh(n) == Receive(n) /\ node[n].conn = "CONNECTED"
Wait(n) == Refresh(n) \/ Timeout(n)
NoRoom(n) ==
  /\ Refresh(n) /\ node'[n].got = node[n].got
  /\ Head(wire[n]).seq = node[n].rxi /\ Head(wire[n]).data # <<>>

LoopFairness ==
  \A n \in Nodes :
    /\ []<>(wire[n] = <<>>) \/ []<><<Take(n)>>_vars
    /\ []<>~CanSend(n) \/ []<><<Serve(n)>>_vars
    /\ []<>~Armed(n) \/ []<><<Wait(n)>>_vars
    /\ <>[][~Stall(n) /\ ~NoRoom(n)]_vars

LoopSpec == Spec /\ LoopFairness

-----------------------------------------------------------------------------
(* Properties.                                                             *)

Stream(k, from, len) == [i \in 1 .. len |-> 10 * k + from + i]

(* The receive buffer of n was set from a packet of the connection that    *)
(* the other node is on, or was on last: it has not begun another since.   *)
Follows(n) == node[n].peer = node[Peer(n)].id

(* What a node's receive buffer got is what the other node wrote on one    *)
(* connection, in order, without a gap or a repeat, although packets of    *)
(* earlier connections and repeated STARTs are about and every connection  *)
(* starts with the same sequence numbers (SCRATCHP.C 376, 403, 498-499);   *)
(* what the node that opened wrote is got from its first byte.  It is not  *)
(* so any more when the other node has begun anew and this one has not     *)
(* noticed: its packets are taken where their numbers fall in the stream.  *)
StreamIntegrity ==
  \A n \in Nodes :
    LET s == node[n] IN
    Follows(n) =>
      \E from \in 0 .. plan.write[Peer(n)] :
        /\ s.got = Stream(s.peer, from, Len(s.got))
        /\ s.iss = AnswererSeq /\ s.got # <<>> => from = 0

(* The two nodes are on one connection.                                    *)
OnOne(n) == Follows(n) /\ Follows(Peer(n)) /\ \A m \in Nodes : node[m].iss # 0

(* While both nodes are on one connection, the place that one expects data *)
(* for is within what the other holds in its transmit buffer, although a   *)
(* retry sets the trial pointer back behind it (SCRATCHP.C 487, 822-823).  *)
PointersAgree ==
  \A n \in Nodes :
    LET s == node[n] 
        r == node[Peer(n)] IN
    s.conn = "CONNECTED" /\ r.conn = "CONNECTED" /\ OnOne(n)
       => r.rxi \in s.txo .. s.txo + Len(s.txq)

(* Data that a node has dropped from its transmit buffer as acknowledged   *)
(* is in the receive buffer of the other (SCRATCHP.C 504-509: the ack      *)
(* shows how much the other side has actually received).                   *)
IsReceived(n) ==
  OnOne(n) => node[n].txo - node[n].iss <= Len(node[Peer(n)].got)

(* This is so of what the node that opened sends.  What the answering one  *)
(* sends before the opener has left OPEN can be lost and yet acknowledged. *)
OpenerAckedWasReceived == \A n \in Nodes : node[n].iss = OpenerSeq => IsReceived(n)

(* A node that asked for a connection comes to have one or gives up        *)
(* (SCRATCHP.C 438-447, 468-475).                                          *)
HandshakeEnds ==
  \A n \in Nodes : (node[n].conn \in {"IDENT", "OPEN"}) ~> (node[n].conn \in {"IDLE", "CONNECTED"})

(* Data that was sent on a connection is acknowledged in the end, or the   *)
(* connection is given up.                                                 *)
DataEnds ==
  \A n \in Nodes :
    (node[n].conn = "CONNECTED" /\ node[n].tried > 0)
       ~> (node[n].conn # "CONNECTED" \/ node[n].txq = <<>>)

(* A node that closes comes to the idle state if no more packets are lost  *)
(* than it retries, and no user opens anew: a node that is opening leaves  *)
(* the STOP unanswered, and there is no other way out (SCRATCHP.C 555-568).*)
CloseEnds ==
  [](lost <= Retries /\ opens <= 1)
    => \A n \in Nodes : (node[n].conn = "CLOSE") ~> (node[n].conn # "CLOSE")

(* No state of a node that waits for the other is a last one: the          *)
(* handshake, data under way and a close all come to an end.               *)
WaitsEnd == HandshakeEnds /\ DataEnds /\ CloseEnds
=============================================================================
