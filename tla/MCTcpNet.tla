------------------------------ MODULE MCTcpNet ------------------------------
(* The two hosts for TLC.  A run chooses what the applications do.         *)
EXTENDS TcpNet

Answer(ok, write, read) == [ok |-> ok, write |-> write, read |-> read]
ByHost(c, s) == [h \in Hosts |-> IF h = C THEN c ELSE s]

(* The client's upcall (TELNET.C client_action) always agrees and leaves   *)
(* writing and reading to the main loop.                                   *)
ClientUps == {Answer(TRUE, 0, FALSE)}

(* A server that reads what it gets or leaves it, and closes at some time. *)
SinkUps == ByHost(ClientUps, {Answer(TRUE, 0, TRUE), Answer(FALSE, 0, FALSE)})

(* A server that may write when it is called and never closes first.       *)
SourceUps == ByHost(ClientUps, {Answer(TRUE, 1, TRUE), Answer(TRUE, 0, FALSE)})

(* A server that keeps the connection until the client closes it.          *)
StayUps == ByHost(ClientUps, {Answer(TRUE, 0, TRUE)})

(* A network, and what the applications write on it.                       *)
Plan(ethernet, room, ups, writes) ==
  [ethernet |-> ethernet, room |-> room, ups |-> ups, writes |-> writes, 
   starts |-> ByHost(1, 1), restarts |-> 0, ends |-> {}, duplicates |-> {}, netcap |-> 2]

Stream == [Plan(FALSE, 1, StayUps, ByHost(2, 0)) EXCEPT !.ends = {C}, !.duplicates = {S}]
Restarted == [Plan(TRUE, 2, SourceUps, ByHost(0, 1)) EXCEPT !.starts = ByHost(2, 2), !.restarts = 1]
Vanishing == [Plan(FALSE, 2, SinkUps, ByHost(2, 0)) EXCEPT !.restarts = 1, !.netcap = 1]

Safe == {Stream, Restarted}
Lively == {Vanishing}
=============================================================================
