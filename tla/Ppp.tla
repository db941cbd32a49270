-------------------------------- MODULE Ppp --------------------------------
(* The PPP link of the microcontroller (ChipWeb/P16Web/p16_ppp.c): the       *)
(* negotiation automaton of RFC 1661, run once for LCP and once for IPCP     *)
(* from the same two tables, PAP between them, one retry timer for both, and *)
(* the peer's computer at the other end of a serial line that loses frames.  *)
(*                                                                           *)
(* A state byte keeps the automaton's state in its low half and, until the   *)
(* next transition, the flag of the last one in its high half (TLU, TLD,     *)
(* TLS, TLF).  The code compares the whole byte in some places and the low   *)
(* half in others, so the bytes are kept as they are.                        *)
(*                                                                           *)
(* The peer is not in the repository: it is a computer that follows RFC 1661 *)
(* with the same tables, restarts its timer whenever it sends, matches every *)
(* answer with its last request, and may offer options to be refused.        *)
EXTENDS Integers, Sequences

CONSTANTS
    MaxReqs,     \* MAX_REQS
    MaxTerms,    \* MAX_TERMS
    Builds,      \* values of INCLUDE_DIAL looked at: TRUE, this end makes the calls
    Callers,     \* what peers ask of LCP (offer) and of IPCP (ask)
    HostReqs,    \* bound: tries of the peer before it gives up
    MaxCalls,    \* bound: calls made
    MaxTrouble   \* bound: frames lost, ticks of the timer while an answer is
                 \* on its way and echo requests of the peer, together

ASSUME CountsAssumption ==
    /\ Builds \subseteq BOOLEAN
    /\ MaxReqs \in Nat \ {0}
    /\ MaxTerms \in Nat \ {0}
    /\ HostReqs \in Nat

VARIABLES
    pic,         \* this end: its globals
    host,        \* the other end
    toPic,       \* frames on their way to this end
    toHost,      \* ... and from it
    ticked,      \* this end's timer ticked last, not the peer's
    calls, lost, early, echoes

vars == <<pic, host, toPic, toHost, ticked, calls, lost, early, echoes>>

-----------------------------------------------------------------------------
(* The tables *)

Initial == 0
Starting == 1
Closed == 2
Stopped == 3
Closing == 4
Stopping == 5
ReqSent == 6
AckRcvd == 7
AckSent == 8
Opened == 9

(* No such transition, and the flags of one *)
X == 15
TLU == 16
TLD == 32
TLS == 64
TLF == 128

StateTable ==
  [Up     |-> <<  2,      6,       X,      X,       X,      X,      X,      X,      X,      X      >>,
   Down   |-> <<  X,      X,       0,      TLS+1,   0,      1,      1,      1,      1,      TLD+1  >>,
   Open   |-> <<  TLS+1,  X,       6,      3,       5,      5,      6,      7,      8,      9      >>,
   Close  |-> <<  0,      TLF+0,   2,      2,       4,      4,      4,      4,      4,      TLD+4  >>,
   TOok   |-> <<  X,      X,       X,      X,       4,      5,      6,      6,      8,      X      >>,
   TOerr  |-> <<  X,      X,       X,      X,       TLF+2,  TLF+3,  TLF+3,  TLF+3,  TLF+3,  X      >>,
   RCRok  |-> <<  X,      X,       2,      8,       4,      5,      8,      TLU+9,  8,      TLD+8  >>,
   RCRerr |-> <<  X,      X,       2,      6,       4,      5,      6,      7,      6,      TLD+8  >>,
   RCA    |-> <<  X,      X,       2,      3,       4,      5,      7,      6,      TLU+9,  TLD+6  >>,
   RCN    |-> <<  X,      X,       2,      3,       4,      5,      6,      6,      8,      TLD+6  >>,
   RTR    |-> <<  X,      X,       2,      3,       4,      5,      6,      6,      6,      TLD+5  >>,
   RTA    |-> <<  X,      X,       2,      3,       TLF+2,  TLF+3,  6,      6,      8,      TLD+6  >>]

none == {}
reqs == {"irc", "scr"}
ActionTable ==
  [Up     |-> <<none, reqs, none, none, none, none, none, none, none, none>>,
   Down   |-> [s \in 1..10 |-> none],
   Open   |-> <<none, none, reqs, none, none, none, none, none, none, none>>,
   Close  |-> [s \in 1..10 |-> IF s > ReqSent THEN {"irc", "str"} ELSE none],
   TOok   |-> <<none, none, none, none, {"str"}, {"str"}, {"scr"}, {"scr"}, {"scr"}, none>>,
   TOerr  |-> [s \in 1..10 |-> none],
   RCRok  |-> <<none, none, {"sta"}, reqs \cup {"sca"}, none, none,
                {"sca"}, {"sca"}, {"sca"}, {"scr", "sca"}>>,
   RCRerr |-> <<none, none, {"sta"}, reqs \cup {"scn"}, none, none,
                {"scn"}, {"scn"}, {"scn"}, {"scr", "scn"}>>,
   RCA    |-> <<none, none, {"sta"}, {"sta"}, none, none, {"irc"}, {"scr"}, {"irc"}, {"scr"}>>,
   RCN    |-> <<none, none, {"sta"}, {"sta"}, none, none, reqs, {"scr"}, reqs, {"scr"}>>,
   RTR    |-> [s \in 1..10 |-> IF s <= Closed THEN none
                               ELSE IF s = Opened + 1 THEN {"zrc", "sta"} ELSE {"sta"}],
   RTA    |-> [s \in 1..10 |-> IF s = Opened + 1 THEN {"scr"} ELSE none]]

(* The low half and the flags of a state byte *)
State(byte) == byte % 16
Flag(byte, f) == (byte \div f) % 2 = 1

-----------------------------------------------------------------------------
(* The automaton of this end *)

Frame(pcol, code, opt) == [pcol |-> pcol, code |-> code, opt |-> opt]
NoOpt == [none |-> TRUE]
Tx(p, pcol, code, opt) == [p EXCEPT !.tx = Append(@, Frame(pcol, code, opt))]

(* One event: the transition of the table, unless it would send one request *)
(* too many, which is a final timeout.                                      *)
Event(a, ev) ==
    LET s == State(a.state)
        fresh == s <= Stopped \/ s = Opened
        sent == IF fresh THEN 0 ELSE a.reqs
        terms == IF fresh THEN 0 ELSE a.terms
        act == ActionTable[ev][s + 1]
        over == \/ "scr" \in act /\ sent >= MaxReqs
                \/ "str" \in act /\ terms >= MaxTerms
        row == IF over THEN "TOerr" ELSE ev
        new == StateTable[row][s + 1]
    IN [a EXCEPT !.state = IF new = X THEN @ ELSE new,
                 !.action = ActionTable[row][s + 1],
                 !.reqs = IF "scr" \in act THEN sent + 1 ELSE sent,
                 !.terms = IF "str" \in act THEN terms + 1 ELSE terms]

LcpEvent(p, ev) ==
    LET down == State(p.lcp.state) <= Stopped IN
    [p EXCEPT !.lcp = Event(@, ev),
              !.client_auth = @ /\ ~down,
              !.client_auth_ok = @ /\ ~down]

IpcpEvent(p, ev) == [p EXCEPT !.ipcp = Event(@, ev)]

Rest(a) == IF "zrc" \in a.action THEN 0
           ELSE IF "irc" \notin a.action THEN a.rest
           ELSE IF "str" \in a.action THEN MaxTerms ELSE MaxReqs

(* Requests and acknowledgements an action asks for, in the order sent *)
Sends(p, pcol, a, opt) ==
    LET p1 == IF "scr" \in a.action THEN Tx(p, pcol, "req", opt) ELSE p
        p2 == IF "str" \in a.action THEN Tx(p1, pcol, "term", NoOpt) ELSE p1
    IN IF "sta" \in a.action THEN Tx(p2, pcol, "termack", NoOpt) ELSE p2

DoIpcpActions(p) ==
    [Sends(p, "ipcp", p.ipcp, [extra |-> FALSE, addr |-> p.myip])
        EXCEPT !.ipcp.rest = Rest(p.ipcp)]

(* The name and the password are written to the serial port and not into   *)
(* the frame, which holds their lengths alone.                             *)
PapEvent(p, ev) ==
    LET p1 == CASE ev = "Up" /\ p.client_auth -> Tx(p, "pap", "req", [id |-> FALSE])
                [] ev = "RCA" -> [p EXCEPT !.client_auth_ok = TRUE]
                [] OTHER -> p
    IN IF ~p1.client_auth \/ p1.client_auth_ok
       THEN DoIpcpActions(IpcpEvent(p1, "Up"))
       ELSE p1

(* Mutant: the whole byte is compared, so the flag hides the state. *)
DoLcpActions_Whole(p) ==
    LET p1 == [Sends(p, "lcp", p.lcp, [extra |-> FALSE, auth |-> "none"])
                 EXCEPT !.lcp.rest = Rest(p.lcp)]
    IN IF p.lcp.state = Opened THEN PapEvent(p1, "Up") ELSE p1

DoLcpActions(p) ==
    LET p1 == [Sends(p, "lcp", p.lcp, [extra |-> FALSE, auth |-> "none"])
                 EXCEPT !.lcp.rest = Rest(p.lcp)]
    IN IF Flag(p.lcp.state, TLU) THEN PapEvent(p1, "Up")
       ELSE IF Flag(p.lcp.state, TLD) THEN PapEvent(p1, "Down")
       ELSE p1

-----------------------------------------------------------------------------
(* Frames received by this end: get_net and the three handlers *)

LcpRx(p, f) ==
    LET refused == LcpEvent(p, "RCRerr")
        isPap == f.opt.auth = "pap"
        asked == LcpEvent([p EXCEPT !.client_auth = isPap],
                          IF isPap THEN "RCRok" ELSE "RCRerr")
        plain == LcpEvent(p, "RCRok")
        Hint == [extra |-> FALSE, auth |-> "pap"]
        Request ==
            CASE f.opt.extra ->
                    IF "scn" \in refused.lcp.action
                    THEN Tx(refused, "lcp", "rej", NoOpt) ELSE refused
              [] ~f.opt.extra /\ f.opt.auth # "none" ->
                    IF "sca" \in asked.lcp.action THEN Tx(asked, "lcp", "ack", Hint)
                    ELSE IF "scn" \in asked.lcp.action THEN Tx(asked, "lcp", "nak", Hint)
                    ELSE asked
              [] OTHER ->
                    IF "sca" \in plain.lcp.action
                    THEN Tx(plain, "lcp", "ack", f.opt) ELSE plain
    IN DoLcpActions(
        CASE f.code = "req"     -> Request
          [] f.code = "echo"    -> IF State(p.lcp.state) = Opened
                                   THEN Tx(p, "lcp", "echorep", NoOpt) ELSE p
          [] f.code = "term"    -> LcpEvent(p, "RTR")
          [] f.code = "ack"     -> LcpEvent(p, "RCA")
          [] f.code = "termack" -> LcpEvent(p, "RTA"))

(* Mutant: only the first address is kept. *)
IpcpRx_First(p, f) ==
    LET told == IF p.hostip = "null" THEN [p EXCEPT !.hostip = f.opt.addr] ELSE p
        agreed == IpcpEvent(told, "RCRok")
    IN DoIpcpActions(
        CASE f.code = "req" -> IF "sca" \in agreed.ipcp.action
                               THEN Tx(agreed, "ipcp", "ack", f.opt) ELSE agreed
          [] f.code = "nak" -> IpcpEvent([p EXCEPT !.myip = f.opt.addr], "RCN")
          [] f.code = "ack" -> IpcpEvent(p, "RCA"))

IpcpRx(p, f) ==
    LET told == [p EXCEPT !.hostip = f.opt.addr]
        refused == IpcpEvent(told, "RCRerr")
        hinted == IpcpEvent([p EXCEPT !.hostip = "hint"], "RCRerr")
        agreed == IpcpEvent(told, "RCRok")
        Request ==
            CASE f.opt.extra ->
                    IF "scn" \in refused.ipcp.action
                    THEN Tx(refused, "ipcp", "rej", NoOpt) ELSE refused
              [] ~f.opt.extra /\ told.hostip = "null" ->
                    IF "scn" \in hinted.ipcp.action
                    THEN Tx(hinted, "ipcp", "nak", [addr |-> "hint"]) ELSE hinted
              [] OTHER ->
                    IF "sca" \in agreed.ipcp.action
                    THEN Tx(agreed, "ipcp", "ack", f.opt) ELSE agreed
    IN DoIpcpActions(
        CASE f.code = "req"     -> Request
          [] f.code = "nak"     -> IpcpEvent([p EXCEPT !.myip = f.opt.addr], "RCN")
          [] f.code = "ack"     -> IpcpEvent(p, "RCA"))

PapRx(p, f) == IF f.code = "ack" THEN PapEvent(p, "RCA") ELSE PapEvent(p, "RCN")

Rx(p, f) == CASE f.pcol = "lcp"  -> LcpRx(p, f)
              [] f.pcol = "ipcp" -> IpcpRx(p, f)
              [] f.pcol = "pap"  -> PapRx(p, f)

(* Mutant: having acknowledged a request is taken for being open. *)
Waiting_Open(a) == a.state >= Closing /\ a.state < AckSent

Waiting(a) == a.state >= Closing /\ a.state <= AckSent

(* The timer is polled before the line; LCP is looked at first *)
Timeout(p) ==
    LET Tick(a) == IF a.rest > 0 THEN "TOok" ELSE "TOerr"
        Less(a) == IF a.rest > 0 THEN a.rest - 1 ELSE 0
    IN IF Waiting(p.lcp)
       THEN DoLcpActions([LcpEvent(p, Tick(p.lcp)) EXCEPT !.lcp.rest = Less(p.lcp)])
       ELSE DoIpcpActions([IpcpEvent(p, Tick(p.ipcp)) EXCEPT !.ipcp.rest = Less(p.ipcp)])

(* Bring up the link: at boot, and when the client has dialled *)
Raise(p) == DoLcpActions(LcpEvent(p, "Up"))
InitNet(p) ==
    LET opened == DoLcpActions(LcpEvent(p, "Open"))
    IN IpcpEvent(IF p.dials THEN opened ELSE Raise(opened), "Open")


-----------------------------------------------------------------------------
(* The other end *)

Down == [up |-> FALSE, lcp |-> [state |-> Initial, rest |-> 0],
         ipcp |-> [state |-> Initial, rest |-> 0],
         offer |-> [extra |-> FALSE, auth |-> "none"],
         ask |-> [extra |-> FALSE, addr |-> "null"], picip |-> "null",
         gaveup |-> FALSE, tx |-> <<>>]

Move(a, ev) ==
    LET new == StateTable[ev][a.state + 1]
        act == ActionTable[ev][a.state + 1]
    IN [state |-> IF new = X THEN a.state ELSE State(new),
        rest |-> IF "zrc" \in act THEN 0 ELSE IF "irc" \in act THEN HostReqs
                 ELSE IF ev = "TOok" THEN a.rest - 1 ELSE a.rest]

(* What an action of the table sends, in the order of RFC 1661: a request *)
(* goes before the reply, where this end replies first.                   *)
HostSends(h, pcol, act, opt, reply) ==
    LET On(name, h0, code, o) == IF name \in act THEN Tx(h0, pcol, code, o) ELSE h0
        h1 == On("scr", h, "req", opt)
        h2 == On("sca", h1, "ack", reply)
        h3 == On("scn", h2, "nak", reply)
        h4 == On("str", h3, "term", NoOpt)
    IN On("sta", h4, "termack", NoOpt)

HostIpcp(h, ev, reply) ==
    HostSends([h EXCEPT !.ipcp = Move(@, ev)], "ipcp",
              ActionTable[ev][h.ipcp.state + 1], h.ask, reply)

(* The network layer waits for the login the peer has asked for; a layer   *)
(* that has finished takes the call down.                                  *)
HostLcp(h, ev, reply) ==
    LET new == StateTable[ev][h.lcp.state + 1]
        h1 == HostSends([h EXCEPT !.lcp = Move(@, ev)], "lcp",
                        ActionTable[ev][h.lcp.state + 1], h.offer, reply)
    IN CASE new # X /\ Flag(new, TLU) /\ h.offer.auth = "none" -> HostIpcp(h1, "Up", NoOpt)
         [] new # X /\ Flag(new, TLD) -> HostIpcp(h1, "Down", NoOpt)
         [] new # X /\ Flag(new, TLF) -> [Down EXCEPT !.gaveup = h.gaveup \/ ev = "TOerr"]
         [] OTHER -> h1

HostLcpRx(h, f) ==
    CASE f.code = "req" -> HostLcp(h, "RCRok", f.opt)
      [] f.code = "ack" /\ f.opt = h.offer -> HostLcp(h, "RCA", NoOpt)
      [] f.code = "rej" /\ h.offer.extra ->
            HostLcp([h EXCEPT !.offer.extra = FALSE], "RCN", NoOpt)
      [] f.code = "nak" /\ h.offer.auth = "chap" ->
            HostLcp([h EXCEPT !.offer.auth = "pap"], "RCN", NoOpt)
      [] f.code = "term" -> HostLcp(h, "RTR", NoOpt)
      [] f.code = "termack" -> HostLcp(h, "RTA", NoOpt)
      [] OTHER -> h

HostPapRx(h, f) ==
    IF f.opt.id THEN HostIpcp(Tx(h, "pap", "ack", NoOpt), "Up", NoOpt)
    ELSE Tx(h, "pap", "nak", NoOpt)

HostIpcpRx(h, f) ==
    LET wanted == ~pic.dials \/ f.opt.addr = "given" IN
    CASE f.code = "req" /\ wanted ->
            HostIpcp([h EXCEPT !.picip = f.opt.addr], "RCRok", f.opt)
      [] f.code = "req" /\ ~wanted -> HostIpcp(h, "RCRerr", [addr |-> "given"])
      [] f.code = "ack" /\ f.opt = h.ask -> HostIpcp(h, "RCA", NoOpt)
      [] f.code = "rej" /\ h.ask.extra ->
            HostIpcp([h EXCEPT !.ask.extra = FALSE], "RCN", NoOpt)
      [] f.code = "nak" /\ h.ask.addr = "null" ->
            HostIpcp([h EXCEPT !.ask.addr = f.opt.addr], "RCN", NoOpt)
      [] OTHER -> h

(* Before its LCP has opened the peer takes LCP frames only *)
HostRx(h, f) ==
    CASE f.pcol = "lcp" -> HostLcpRx(h, f)
      [] f.pcol = "pap" /\ h.lcp.state = Opened /\ h.offer.auth = "pap" -> HostPapRx(h, f)
      [] f.pcol = "ipcp" /\ h.lcp.state = Opened -> HostIpcpRx(h, f)
      [] OTHER -> h

-----------------------------------------------------------------------------
(* Steps.  What an end has sent leaves it at the end of the step; a frame   *)
(* sent while the other end is not on the line goes nowhere.                *)

NewLink == [state |-> Initial, action |-> {}, reqs |-> 0, terms |-> 0, rest |-> 0]
PowerUp(dials) ==
    [dials |-> dials, lcp |-> NewLink, ipcp |-> NewLink, client_auth |-> FALSE,
     client_auth_ok |-> FALSE, myip |-> "mine", hostip |-> "null", tx |-> <<>>]

Init ==
    /\ pic \in {[InitNet(PowerUp(d)) EXCEPT !.tx = <<>>] : d \in Builds}
    /\ host = Down
    /\ toPic = <<>> /\ toHost = <<>>
    /\ ticked = FALSE
    /\ calls = 0 /\ lost = 0 /\ early = 0 /\ echoes = 0

Step(p, h, inPic, inHost) ==
    /\ pic' = [p EXCEPT !.tx = <<>>]
    /\ host' = [h EXCEPT !.tx = <<>>]
    /\ toPic' = IF h.up THEN inPic \o h.tx ELSE <<>>
    /\ toHost' = IF h.up THEN inHost \o p.tx ELSE <<>>

Trouble == lost + early + echoes < MaxTrouble
Quiet == toPic = <<>> /\ toHost = <<>>

Awaits(a) == a.state \in Closing..AckSent
HostWaits == Awaits(host.lcp) \/ Awaits(host.ipcp)

PicReceive ==
    /\ toPic # <<>>
    /\ Step(Rx(pic, Head(toPic)), host, Tail(toPic), toHost)
    /\ UNCHANGED <<ticked, calls, lost, early, echoes>>

(* The timer runs freely: requests do not restart it, and a tick may fall   *)
(* while an answer is on its way.  The two ends time out about as often, so *)
(* that while both wait for answers they take turns.                        *)
PicTick ==
    /\ Waiting(pic.lcp) \/ Waiting(pic.ipcp)
    /\ ~ticked \/ ~HostWaits
    /\ \/ Quiet /\ UNCHANGED early
       \/ ~Quiet /\ Trouble /\ early' = early + 1
    /\ Step(Timeout(pic), host, toPic, toHost)
    /\ ticked' = TRUE
    /\ UNCHANGED <<calls, lost, echoes>>

Answer(c) ==
    HostLcp([Down EXCEPT !.up = TRUE, !.offer = c.offer, !.ask = c.ask,
                         !.lcp.state = Starting, !.ipcp.state = Starting], "Up", NoOpt)

(* start_client dials if there is no call, and brings the link up again *)
PicDial ==
    /\ pic.dials
    /\ calls < MaxCalls
    /\ \E c \in Callers :
        Step(Raise(InitNet(pic)), IF host.up THEN host ELSE Answer(c), toPic, toHost)
    /\ calls' = calls + 1
    /\ UNCHANGED <<ticked, lost, early, echoes>>

HostDial ==
    /\ ~pic.dials /\ ~host.up
    /\ calls < MaxCalls
    /\ \E c \in Callers : Step(pic, Answer(c), toPic, toHost)
    /\ calls' = calls + 1
    /\ UNCHANGED <<ticked, lost, early, echoes>>

HostReceive ==
    /\ toHost # <<>>
    /\ Step(pic, HostRx(host, Head(toHost)), toPic, Tail(toHost))
    /\ UNCHANGED <<ticked, calls, lost, early, echoes>>

HostTick ==
    LET Tick(a) == IF a.rest > 0 THEN "TOok" ELSE "TOerr" IN
    /\ Quiet
    /\ ticked \/ ~(Waiting(pic.lcp) \/ Waiting(pic.ipcp))
    /\ \/ Awaits(host.lcp) /\ Step(pic, HostLcp(host, Tick(host.lcp), NoOpt), toPic, toHost)
       \/ /\ Awaits(host.ipcp) /\ host.ipcp.rest > 0
          /\ Step(pic, HostIpcp(host, "TOok", NoOpt), toPic, toHost)
       \/ /\ Awaits(host.ipcp) /\ host.ipcp.rest = 0
          /\ Step(pic, HostLcp([HostIpcp(host, "TOerr", NoOpt) EXCEPT !.gaveup = TRUE], "Close", NoOpt),
                  toPic, toHost)
    /\ ticked' = FALSE
    /\ UNCHANGED <<calls, lost, early, echoes>>

HostHangup ==
    /\ host.lcp.state \in ReqSent..Opened
    /\ Step(pic, HostLcp(host, "Close", NoOpt), toPic, toHost)
    /\ UNCHANGED <<ticked, calls, lost, early, echoes>>

(* The call drops, and this end is not told *)
HostVanish ==
    /\ host.up
    /\ Step(pic, Down, toPic, toHost)
    /\ UNCHANGED <<ticked, calls, lost, early, echoes>>

HostEcho ==
    /\ Trouble /\ host.lcp.state = Opened
    /\ Step(pic, Tx(host, "lcp", "echo", NoOpt), toPic, toHost)
    /\ echoes' = echoes + 1
    /\ UNCHANGED <<ticked, calls, lost, early>>

(* A frame is hit by noise, or comes while this end is sending and is       *)
(* cleared with the frame it was working on.                                *)
Lose ==
    /\ Trouble
    /\ \/ toPic # <<>> /\ Step(pic, host, Tail(toPic), toHost)
       \/ toHost # <<>> /\ Step(pic, host, toPic, Tail(toHost))
    /\ lost' = lost + 1
    /\ UNCHANGED <<ticked, calls, early, echoes>>

Next ==
    \/ PicReceive \/ PicTick \/ PicDial
    \/ HostDial \/ HostReceive \/ HostTick \/ HostHangup \/ HostVanish \/ HostEcho
    \/ Lose

Spec == Init /\ [][Next]_vars

(* Each end polls its line and its timer; nobody has to call, to hang up or *)
(* to lose a frame.                                                         *)
Fairness ==
    /\ WF_vars(PicReceive) /\ WF_vars(HostReceive)
    /\ WF_vars(PicTick) /\ WF_vars(HostTick)

LiveSpec == Spec /\ Fairness

-----------------------------------------------------------------------------
(* Properties *)

NetOpen == State(pic.ipcp.state) = Opened /\ host.ipcp.state = Opened /\ Quiet

(* When both ends have opened IPCP and nothing is on the line, each has the *)
(* address the other has agreed to: hostip and myip are set whenever a      *)
(* request or a hint comes, agreed or not (ipcp_rx_handler).                *)
AddressesAgreed ==
    NetOpen => pic.hostip = host.ask.addr /\ pic.myip = host.picip

(* A caller who stays on the line and wants no login gets a link, from      *)
(* whatever state the last call has left this end in (lcp_event_handler,    *)
(* ipcp_event_handler), if requests do not cross and either this is the     *)
(* first call or no frame is lost.  Such a caller never runs out of tries   *)
(* while nothing is lost, unless this end still thinks of an earlier login. *)
NoLogin == [](host.offer.auth = "none")
GoodLine == [](early = 0) /\ ([](calls <= 1) \/ [](lost = 0))
LinkComesUp ==
    NoLogin /\ GoodLine /\ <>[]host.up =>
        <>[](State(pic.ipcp.state) = Opened /\ host.ipcp.state = Opened)
TriesSuffice ==
    lost = 0 /\ host.gaveup => host.offer.auth # "none" \/ pic.client_auth

=============================================================================
