------------------------------ MODULE PppProofs ------------------------------
(* The addresses the two ends of a PPP link have when both have opened IPCP, *)
(* for every number of calls, tries and lost frames and every kind of caller.*)
EXTENDS Ppp, ProofFacts

-----------------------------------------------------------------------------
(* The invariant *)

Ipcp(f, code) == f.pcol = "ipcp" /\ f.code = code

(* Options that this end acknowledges: nothing to refuse, and an address.   *)
Final(o) == ~o.extra /\ o.addr # "null"

PicFields == {"dials", "lcp", "ipcp", "client_auth", "client_auth_ok", "myip", "hostip", "tx"}
HostFields == {"up", "lcp", "ipcp", "offer", "ask", "picip", "gaveup", "tx"}

(* A frame of the peer, whose last request and use of hints are these.      *)
LcpCodes == {"req", "echo", "term", "ack", "termack"}
FromHost(f, ask, dials) ==
    /\ f.pcol \in {"lcp", "ipcp", "pap"}
    /\ f.pcol = "lcp" => f.code \in LcpCodes
    /\ f.pcol = "ipcp" => f.code \in {"req", "ack", "nak"}
    /\ Ipcp(f, "req") => f.opt = ask \/ ~Final(f.opt)
    /\ Ipcp(f, "nak") => dials /\ f.opt.addr = "given"
(* Once the peer has asked for what this end accepts, it asks for the same. *)
InOrder(s, ask) ==
    \A i, j \in DOMAIN s :
        i < j /\ Ipcp(s[i], "req") /\ Ipcp(s[j], "req") /\ s[i].opt = ask /\ Final(ask)
          => s[j].opt = ask
AllFromHost(s, ask, dials) ==
    /\ IsSeq(s) /\ InOrder(s, ask)
    /\ \A i \in DOMAIN s : FromHost(s[i], ask, dials)

(* A frame of this end: it asks for the address it has, or had before it    *)
(* was told which to take, and acknowledges what is asked for now.          *)
FromPic(f, ask, dials, myip) ==
    /\ Ipcp(f, "req") => f.opt.addr = myip \/ (dials /\ f.opt.addr # "given")
    /\ Ipcp(f, "ack") => f.opt = ask /\ Final(ask)
AllFromPic(s, ask, dials, myip) ==
    IsSeq(s) /\ \A i \in DOMAIN s : FromPic(s[i], ask, dials, myip)

HostUp(h) ==
    /\ HostFields \subseteq DOMAIN h /\ h.up
    /\ h.lcp.state \in 0 .. 9
    /\ h.ipcp.state \in {Starting, ReqSent, AckRcvd, AckSent, Opened}
    /\ h.ipcp.state # Starting => h.lcp.state = Opened
HostDown(h) ==
    /\ HostFields \subseteq DOMAIN h /\ ~h.up
    /\ h.lcp.state = Initial /\ h.ipcp.state = Initial

(* This end has taken the peer's address, or will have when it reads an     *)
(* acknowledgement under way.                                               *)
Settled(h, w) ==
    \/ h.ipcp.state \in {AckRcvd, Opened}
    \/ \E i \in DOMAIN w : Ipcp(w[i], "ack")
HostAddr(h, w, r, hostip) ==
    Settled(h, w) =>
        /\ Final(h.ask) /\ hostip = h.ask.addr
        /\ \A i \in DOMAIN r : Ipcp(r[i], "req") => r[i].opt = h.ask

(* The peer has acknowledged the address this end has, and has no other for *)
(* it.                                                                      *)
PicAddr(h, dials, myip) ==
    h.ipcp.state \in {AckSent, Opened} =>
        h.picip = myip /\ (dials => myip = "given")

(* What the two ends and the frames under way have to do with each other.   *)
Together(p, h, r, w) ==
    /\ AllFromHost(r, h.ask, p.dials)
    /\ AllFromPic(w, h.ask, p.dials, p.myip)
    /\ HostAddr(h, w, r, p.hostip)
    /\ PicAddr(h, p.dials, p.myip)
AddrState(p, h, r, w) ==
    /\ PicFields \subseteq DOMAIN p /\ p.tx = <<>>
    /\ h.tx = <<>>
    /\ HostUp(h) \/ (HostDown(h) /\ r = <<>> /\ w = <<>>)
    /\ Together(p, h, r, w)
AddrInv == AddrState(pic, host, toPic, toHost)

-----------------------------------------------------------------------------
(* What this end sends.  Whatever event its automata take, it asks for the  *)
(* address it has; it acknowledges the addresses of acks only.              *)

PicFrame(f, acks, myip) ==
    /\ Ipcp(f, "req") => f.opt.addr = myip
    /\ Ipcp(f, "ack") => f.opt \in acks
PicOK(p, acks) ==
    /\ PicFields \subseteq DOMAIN p /\ IsSeq(p.tx)
    /\ \A i \in DOMAIN p.tx : PicFrame(p.tx[i], acks, p.myip)
Same(p, q) == q.dials = p.dials /\ q.myip = p.myip /\ q.hostip = p.hostip
PicKept(p, q, acks) == PicOK(q, acks) /\ Same(p, q)

LEMMA PicItself ==
  ASSUME NEW p, NEW acks, PicOK(p, acks) PROVE PicKept(p, p, acks)
  BY DEF PicKept, Same

LEMMA PicTwice ==
  ASSUME NEW p, NEW q, NEW r, NEW acks, PicKept(p, q, acks), PicKept(q, r, acks)
  PROVE PicKept(p, r, acks)
  BY DEF PicKept, Same

LEMMA PicTx ==
  ASSUME NEW p, NEW acks, PicOK(p, acks), NEW pcol, NEW code, NEW opt,
         PicFrame(Frame(pcol, code, opt), acks, p.myip)
  PROVE PicKept(p, Tx(p, pcol, code, opt), acks)
<1> DEFINE f == Frame(pcol, code, opt)
           q == Tx(p, pcol, code, opt)
<1>1. q.tx = Append(p.tx, f) /\ Same(p, q) /\ PicFields \subseteq DOMAIN q
  BY DEF Tx, PicOK, PicFields, Same
<1>2. IsSeq(p.tx) BY DEF PicOK
<1>3. ASSUME NEW i \in DOMAIN q.tx PROVE PicFrame(q.tx[i], acks, p.myip)
  <2>1. q.tx[i] = f \/ \E j \in DOMAIN p.tx : q.tx[i] = p.tx[j] BY <1>1, <1>2, Appended
  <2>2. CASE q.tx[i] = f BY <2>2
  <2>3. CASE \E j \in DOMAIN p.tx : q.tx[i] = p.tx[j]
    <3>1. PICK j \in DOMAIN p.tx : q.tx[i] = p.tx[j] BY <2>3
    <3> QED BY <3>1, Zenon DEF PicOK
  <2> QED BY <2>1, <2>2, <2>3
<1>4. IsSeq(q.tx) BY <1>1, <1>2, Appended
<1>5. q.myip = p.myip BY <1>1 DEF Same
<1> QED BY <1>1, <1>3, <1>4, <1>5 DEF PicKept, PicOK

(* Frames that are about no address.                                        *)
LEMMA PicTxOther ==
  ASSUME NEW p, NEW acks, PicOK(p, acks), NEW pcol, NEW code, NEW opt,
         pcol # "ipcp" \/ code \notin {"req", "ack"}
  PROVE PicKept(p, Tx(p, pcol, code, opt), acks)
<1>1. PicFrame(Frame(pcol, code, opt), acks, p.myip) BY DEF PicFrame, Frame, Ipcp
<1> QED BY <1>1, PicTx

(* A change of other variables.                                             *)
Agree(p, q) == DOMAIN q = DOMAIN p /\ Same(p, q) /\ q.tx = p.tx

LEMMA PicAgree ==
  ASSUME NEW p, NEW acks, PicOK(p, acks), NEW q, Agree(p, q)
  PROVE PicKept(p, q, acks)
  BY DEF PicKept, PicOK, Agree, Same

LEMMA PicLcpEvent ==
  ASSUME NEW p, NEW acks, PicOK(p, acks), NEW ev
  PROVE PicKept(p, LcpEvent(p, ev), acks)
<1>1. Agree(p, LcpEvent(p, ev)) BY DEF LcpEvent, Agree, Same, PicOK, PicFields
<1> QED BY <1>1, PicAgree

LEMMA PicIpcpEvent ==
  ASSUME NEW p, NEW acks, PicOK(p, acks), NEW ev
  PROVE PicKept(p, IpcpEvent(p, ev), acks)
<1>1. Agree(p, IpcpEvent(p, ev)) BY DEF IpcpEvent, Agree, Same, PicOK, PicFields
<1> QED BY <1>1, PicAgree

LEMMA PicSends ==
  ASSUME NEW p, NEW acks, PicOK(p, acks), NEW pcol, NEW a, NEW opt,
         pcol # "ipcp" \/ opt.addr = p.myip
  PROVE PicKept(p, Sends(p, pcol, a, opt), acks)
<1> DEFINE p1 == IF "scr" \in a.action THEN Tx(p, pcol, "req", opt) ELSE p
           p2 == IF "str" \in a.action THEN Tx(p1, pcol, "term", NoOpt) ELSE p1
           p3 == IF "sta" \in a.action THEN Tx(p2, pcol, "termack", NoOpt) ELSE p2
<1>1. PicKept(p, p1, acks)
  <2>1. PicFrame(Frame(pcol, "req", opt), acks, p.myip) BY DEF PicFrame, Frame, Ipcp
  <2> QED BY <2>1, PicTx, PicItself
<1>2. PicKept(p1, p2, acks) BY <1>1, PicTxOther, PicItself DEF PicKept
<1>3. PicKept(p2, p3, acks) BY <1>2, PicTxOther, PicItself DEF PicKept
<1>4. Sends(p, pcol, a, opt) = p3 BY DEF Sends
<1> HIDE DEF p1, p2, p3
<1> QED BY <1>1, <1>2, <1>3, <1>4, PicTwice

LEMMA PicDoIpcpActions ==
  ASSUME NEW p, NEW acks, PicOK(p, acks)
  PROVE PicKept(p, DoIpcpActions(p), acks)
<1> DEFINE q == Sends(p, "ipcp", p.ipcp, [extra |-> FALSE, addr |-> p.myip])
<1>1. PicKept(p, q, acks) BY PicSends
<1> HIDE DEF q
<1>2. Agree(q, [q EXCEPT !.ipcp.rest = Rest(p.ipcp)])
  BY <1>1 DEF Agree, Same, PicKept, PicOK, PicFields
<1>3. PicKept(q, [q EXCEPT !.ipcp.rest = Rest(p.ipcp)], acks)
  BY <1>1, <1>2, PicAgree DEF PicKept
<1> QED BY <1>1, <1>3, PicTwice DEF DoIpcpActions, q

LEMMA PicPapEvent ==
  ASSUME NEW p, NEW acks, PicOK(p, acks), NEW ev
  PROVE PicKept(p, PapEvent(p, ev), acks)
<1> DEFINE p1 == CASE ev = "Up" /\ p.client_auth -> Tx(p, "pap", "req", [id |-> FALSE])
                   [] ev = "RCA" -> [p EXCEPT !.client_auth_ok = TRUE]
                   [] OTHER -> p
           p2 == IpcpEvent(p1, "Up")
<1>1. PicKept(p, p1, acks)
  <2>1. PicKept(p, Tx(p, "pap", "req", [id |-> FALSE]), acks) BY PicTxOther
  <2>2. Agree(p, [p EXCEPT !.client_auth_ok = TRUE])
    BY DEF Agree, Same, PicOK, PicFields
  <2>3. PicKept(p, [p EXCEPT !.client_auth_ok = TRUE], acks) BY <2>2, PicAgree
  <2>4. PicKept(p, p, acks) BY PicItself
  <2>5. p1 \in {Tx(p, "pap", "req", [id |-> FALSE]), [p EXCEPT !.client_auth_ok = TRUE], p}
    OBVIOUS
  <2> QED BY <2>1, <2>3, <2>4, <2>5
<1> HIDE DEF p1
<1>2. PicKept(p1, p2, acks) BY <1>1, PicIpcpEvent DEF PicKept
<1> HIDE DEF p2
<1>3. PicKept(p2, DoIpcpActions(p2), acks) BY <1>2, PicDoIpcpActions DEF PicKept
<1>4. PicKept(p, DoIpcpActions(p2), acks) BY <1>1, <1>2, <1>3, PicTwice
<1>5. PapEvent(p, ev) \in {DoIpcpActions(p2), p1} BY DEF PapEvent, p1, p2
<1> QED BY <1>1, <1>4, <1>5

LEMMA PicDoLcpActions ==
  ASSUME NEW p, NEW acks, PicOK(p, acks)
  PROVE PicKept(p, DoLcpActions(p), acks)
<1> DEFINE q == Sends(p, "lcp", p.lcp, [extra |-> FALSE, auth |-> "none"])
           r == [q EXCEPT !.lcp.rest = Rest(p.lcp)]
<1>1. PicKept(p, q, acks) BY PicSends
<1> HIDE DEF q
<1>2. Agree(q, r) BY <1>1 DEF Agree, Same, PicKept, PicOK, PicFields
<1> HIDE DEF r
<1>3. PicKept(p, r, acks) BY <1>1, <1>2, PicAgree, PicTwice DEF PicKept
<1>4. ASSUME NEW ev PROVE PicKept(p, PapEvent(r, ev), acks)
  BY <1>3, PicPapEvent, PicTwice DEF PicKept
<1>5. DoLcpActions(p) \in {PapEvent(r, "Up"), PapEvent(r, "Down"), r}
  BY DEF DoLcpActions, q, r
<1> QED BY <1>3, <1>4, <1>5

-----------------------------------------------------------------------------

(* The handlers of frames.                                                  *)

LEMMA PicLcpRx ==
  ASSUME NEW p, NEW acks, PicOK(p, acks), NEW f, f.code \in LcpCodes
  PROVE PicKept(p, LcpRx(p, f), acks)
<1> DEFINE refused == LcpEvent(p, "RCRerr")
           isPap == f.opt.auth = "pap"
           told == [p EXCEPT !.client_auth = isPap]
           asked == LcpEvent(told, IF isPap THEN "RCRok" ELSE "RCRerr")
           plain == LcpEvent(p, "RCRok")
           Hint == [extra |-> FALSE, auth |-> "pap"]
           Request ==
             CASE f.opt.extra ->
                    IF "scn" \in refused.lcp.action
                    THEN Tx(refused, "lcp", "rej", NoOpt) ELSE refused
              [] ~f.opt.extra /\ f.opt.auth # "none" ->
                    IF "sca" \in asked.lcp.action THEN Tx(asked, "lcp", "ack", Hint)
                    ELSE IF "scn" \in asked.lcp.action THEN Tx(asked, "lcp", "nak", Hint)
                    ELSE asked
              [] OTHER ->
                    IF "sca" \in plain.lcp.action
                    THEN Tx(plain, "lcp", "ack", f.opt) ELSE plain
           q == CASE f.code = "req"     -> Request
                  [] f.code = "echo"    -> IF State(p.lcp.state) = Opened
                                           THEN Tx(p, "lcp", "echorep", NoOpt) ELSE p
                  [] f.code = "term"    -> LcpEvent(p, "RTR")
                  [] f.code = "ack"     -> LcpEvent(p, "RCA")
                  [] f.code = "termack" -> LcpEvent(p, "RTA")
<1>1. PicKept(p, told, acks)
  <2>1. Agree(p, told) BY DEF Agree, Same, PicOK, PicFields
  <2> QED BY <2>1, PicAgree
<1>2. PicKept(p, asked, acks)
  <2> HIDE DEF told
  <2> QED BY <1>1, PicLcpEvent, PicTwice DEF PicKept
<1>3. PicKept(p, refused, acks) /\ PicKept(p, plain, acks) BY PicLcpEvent
<1> HIDE DEF refused, told, asked, plain
<1>4. ASSUME NEW m, PicKept(p, m, acks), NEW code, NEW opt
      PROVE PicKept(p, Tx(m, "lcp", code, opt), acks)
  BY <1>4, PicTxOther, PicTwice DEF PicKept
<1>5. Request \in {Tx(refused, "lcp", "rej", NoOpt), refused, Tx(asked, "lcp", "ack", Hint),
                   Tx(asked, "lcp", "nak", Hint), asked, Tx(plain, "lcp", "ack", f.opt), plain}
  OBVIOUS
<1>6. PicKept(p, Request, acks)
  <2> HIDE DEF Request
  <2> QED BY <1>2, <1>3, <1>4, <1>5
<1> HIDE DEF Request
<1>7. q \in {Request, Tx(p, "lcp", "echorep", NoOpt), p, LcpEvent(p, "RTR"),
             LcpEvent(p, "RCA"), LcpEvent(p, "RTA")}
  BY DEF LcpCodes
<1>8. PicKept(p, q, acks)
  <2>1. PicKept(p, p, acks) BY PicItself
  <2>2. PicKept(p, Tx(p, "lcp", "echorep", NoOpt), acks) BY <2>1, <1>4
  <2> HIDE DEF q
  <2> QED BY <1>6, <1>7, <2>1, <2>2, PicLcpEvent
<1>9. LcpRx(p, f) = DoLcpActions(q)
  BY Zenon DEF LcpRx, q, Request, refused, told, asked, plain
<1> HIDE DEF q
<1> QED BY <1>8, <1>9, PicDoLcpActions, PicTwice DEF PicKept

LEMMA PicPapRx ==
  ASSUME NEW p, NEW acks, PicOK(p, acks), NEW f
  PROVE PicKept(p, PapRx(p, f), acks)
  BY PicPapEvent DEF PapRx

(* A request for an address: this end takes it, and acknowledges one that   *)
(* is not refused and is not null.                                          *)
LEMMA PicIpcpReq ==
  ASSUME NEW p, PicOK(p, {}), NEW f, f.code = "req"
  PROVE LET q == IpcpRx(p, f) IN
        /\ PicOK(q, {o \in {f.opt} : Final(o)})
        /\ q.dials = p.dials /\ q.myip = p.myip
        /\ Final(f.opt) => q.hostip = f.opt.addr
<1> DEFINE acks == {o \in {f.opt} : Final(o)}
           told == [p EXCEPT !.hostip = f.opt.addr]
           hint == [p EXCEPT !.hostip = "hint"]
           refused == IpcpEvent(told, "RCRerr")
           hinted == IpcpEvent(hint, "RCRerr")
           agreed == IpcpEvent(told, "RCRok")
           Request ==
             CASE f.opt.extra ->
                    IF "scn" \in refused.ipcp.action
                    THEN Tx(refused, "ipcp", "rej", NoOpt) ELSE refused
              [] ~f.opt.extra /\ told.hostip = "null" ->
                    IF "scn" \in hinted.ipcp.action
                    THEN Tx(hinted, "ipcp", "nak", [addr |-> "hint"]) ELSE hinted
              [] OTHER ->
                    IF "sca" \in agreed.ipcp.action
                    THEN Tx(agreed, "ipcp", "ack", f.opt) ELSE agreed
<1>1. /\ PicOK(told, acks) /\ told.dials = p.dials /\ told.myip = p.myip
      /\ told.hostip = f.opt.addr
  BY DEF PicOK, PicFields, PicFrame
<1>2. PicOK(hint, acks) /\ hint.dials = p.dials /\ hint.myip = p.myip
  BY DEF PicOK, PicFields, PicFrame
<1> HIDE DEF told, hint
<1>3. PicKept(told, refused, acks) /\ PicKept(told, agreed, acks) /\ PicKept(hint, hinted, acks)
  BY <1>1, <1>2, PicIpcpEvent
<1> HIDE DEF refused, hinted, agreed, acks
<1>4. PicKept(told, Tx(refused, "ipcp", "rej", NoOpt), acks)
  BY <1>3, PicTxOther, PicTwice DEF PicKept
<1>5. PicKept(hint, Tx(hinted, "ipcp", "nak", [addr |-> "hint"]), acks)
  BY <1>3, PicTxOther, PicTwice DEF PicKept
<1>6. CASE Final(f.opt)
  <2>1. PicFrame(Frame("ipcp", "ack", f.opt), acks, agreed.myip)
    BY <1>6 DEF PicFrame, Frame, Ipcp, acks
  <2>2. PicKept(told, Tx(agreed, "ipcp", "ack", f.opt), acks)
    BY <2>1, <1>3, PicTx, PicTwice DEF PicKept
  <2>3. Request \in {Tx(agreed, "ipcp", "ack", f.opt), agreed} BY <1>1, <1>6 DEF Final
  <2> HIDE DEF Request
  <2>4. PicKept(told, Request, acks) BY <2>2, <2>3, <1>3
  <2>5. PicKept(told, DoIpcpActions(Request), acks)
    BY <2>4, PicDoIpcpActions, PicTwice DEF PicKept
  <2>6. IpcpRx(p, f) = DoIpcpActions(Request)
    BY DEF IpcpRx, Request, told, hint, refused, hinted, agreed
  <2> QED BY <2>5, <2>6, <1>1 DEF PicKept, Same, acks
<1>7. CASE ~Final(f.opt)
  <2>1. Request \in {Tx(refused, "ipcp", "rej", NoOpt), refused,
                     Tx(hinted, "ipcp", "nak", [addr |-> "hint"]), hinted}
    BY <1>1, <1>7 DEF Final
  <2> HIDE DEF Request
  <2>2. PicKept(told, Request, acks) \/ PicKept(hint, Request, acks)
    BY <2>1, <1>3, <1>4, <1>5
  <2>3. \/ PicKept(told, DoIpcpActions(Request), acks)
        \/ PicKept(hint, DoIpcpActions(Request), acks)
    BY <2>2, PicDoIpcpActions, PicTwice DEF PicKept
  <2>4. IpcpRx(p, f) = DoIpcpActions(Request)
    BY DEF IpcpRx, Request, told, hint, refused, hinted, agreed
  <2> QED BY <2>3, <2>4, <1>1, <1>2, <1>7 DEF PicKept, Same, acks
<1> QED BY <1>6, <1>7

(* An address it is told to take.                                           *)
LEMMA PicIpcpNak ==
  ASSUME NEW p, PicOK(p, {}), p.tx = <<>>, NEW f, f.code = "nak"
  PROVE LET q == IpcpRx(p, f) IN
        PicOK(q, {}) /\ q.dials = p.dials /\ q.myip = f.opt.addr /\ q.hostip = p.hostip
<1> DEFINE told == [p EXCEPT !.myip = f.opt.addr]
           q == IpcpEvent(told, "RCN")
<1>1. /\ PicOK(told, {}) /\ told.dials = p.dials /\ told.myip = f.opt.addr
      /\ told.hostip = p.hostip
  BY DEF PicOK, PicFields
<1> HIDE DEF told
<1>2. PicKept(told, q, {}) BY <1>1, PicIpcpEvent
<1>3. PicKept(told, DoIpcpActions(q), {}) BY <1>2, PicDoIpcpActions, PicTwice DEF PicKept
<1>4. IpcpRx(p, f) = DoIpcpActions(q) BY DEF IpcpRx, q, told
<1> QED BY <1>1, <1>3, <1>4 DEF PicKept, Same

LEMMA PicIpcpAck ==
  ASSUME NEW p, NEW acks, PicOK(p, acks), NEW f, f.code = "ack"
  PROVE PicKept(p, IpcpRx(p, f), acks)
<1>1. IpcpRx(p, f) = DoIpcpActions(IpcpEvent(p, "RCA")) BY DEF IpcpRx
<1> QED BY <1>1, PicIpcpEvent, PicDoIpcpActions, PicTwice DEF PicKept

(* The timer, and bringing up the link.                                     *)

LEMMA PicTimeout ==
  ASSUME NEW p, NEW acks, PicOK(p, acks) PROVE PicKept(p, Timeout(p), acks)
<1>1. ASSUME NEW ev, NEW r
      PROVE PicKept(p, DoLcpActions([LcpEvent(p, ev) EXCEPT !.lcp.rest = r]), acks)
  <2> DEFINE q == LcpEvent(p, ev)
             m == [q EXCEPT !.lcp.rest = r]
  <2>1. PicKept(p, q, acks) BY PicLcpEvent
  <2> HIDE DEF q
  <2>2. Agree(q, m) BY <2>1 DEF Agree, Same, PicKept, PicOK, PicFields
  <2> HIDE DEF m
  <2>3. PicKept(p, m, acks) BY <2>1, <2>2, PicAgree, PicTwice DEF PicKept
  <2>4. PicKept(p, DoLcpActions(m), acks)
    BY <2>3, PicDoLcpActions, PicTwice DEF PicKept
  <2> QED BY <2>4 DEF q, m
<1>2. ASSUME NEW ev, NEW r
      PROVE PicKept(p, DoIpcpActions([IpcpEvent(p, ev) EXCEPT !.ipcp.rest = r]), acks)
  <2> DEFINE q == IpcpEvent(p, ev)
             m == [q EXCEPT !.ipcp.rest = r]
  <2>1. PicKept(p, q, acks) BY PicIpcpEvent
  <2> HIDE DEF q
  <2>2. Agree(q, m) BY <2>1 DEF Agree, Same, PicKept, PicOK, PicFields
  <2> HIDE DEF m
  <2>3. PicKept(p, m, acks) BY <2>1, <2>2, PicAgree, PicTwice DEF PicKept
  <2>4. PicKept(p, DoIpcpActions(m), acks)
    BY <2>3, PicDoIpcpActions, PicTwice DEF PicKept
  <2> QED BY <2>4 DEF q, m
<1>3. \/ \E ev, r : Timeout(p) = DoLcpActions([LcpEvent(p, ev) EXCEPT !.lcp.rest = r])
      \/ \E ev, r : Timeout(p) = DoIpcpActions([IpcpEvent(p, ev) EXCEPT !.ipcp.rest = r])
  BY Zenon DEF Timeout
<1> QED BY <1>1, <1>2, <1>3

LEMMA PicRaise ==
  ASSUME NEW p, NEW acks, PicOK(p, acks) PROVE PicKept(p, Raise(p), acks)
  BY PicLcpEvent, PicDoLcpActions, PicTwice DEF Raise, PicKept

LEMMA PicInitNet ==
  ASSUME NEW p, NEW acks, PicOK(p, acks) PROVE PicKept(p, InitNet(p), acks)
<1> DEFINE opened == DoLcpActions(LcpEvent(p, "Open"))
           m == IF p.dials THEN opened ELSE Raise(opened)
<1>1. PicKept(p, opened, acks)
  BY PicLcpEvent, PicDoLcpActions, PicTwice DEF PicKept
<1> HIDE DEF opened
<1>2. PicKept(p, m, acks) BY <1>1, PicRaise, PicTwice DEF PicKept
<1>3. InitNet(p) = IpcpEvent(m, "Open") BY DEF InitNet, m, opened
<1> HIDE DEF m
<1> QED BY <1>2, <1>3, PicIpcpEvent, PicTwice DEF PicKept

-----------------------------------------------------------------------------
(* The rows of the tables that the peer's automata go through               *)

LEMMA Bytes ==
  /\ \A s \in 0 .. 15 : State(s) = s /\ ~Flag(s, TLU) /\ ~Flag(s, TLD)
  /\ State(TLU + 9) = 9 /\ Flag(TLU + 9, TLU)
  /\ \A s \in 0 .. 9 : State(TLD + s) = s /\ ~Flag(TLD + s, TLU) /\ Flag(TLD + s, TLD)
  /\ State(TLS + 1) = 1 /\ ~Flag(TLS + 1, TLU) /\ ~Flag(TLS + 1, TLD)
  /\ State(TLF + 3) = 3 /\ ~Flag(TLF + 3, TLU) /\ ~Flag(TLF + 3, TLD)
  /\ State(TLF + 2) = 2 /\ ~Flag(TLF + 2, TLU) /\ ~Flag(TLF + 2, TLD)
  /\ State(TLF + 0) = 0 /\ ~Flag(TLF + 0, TLU) /\ ~Flag(TLF + 0, TLD)
  BY DEF State, Flag, TLU, TLD, TLS, TLF

IpcpStates == {Starting, ReqSent, AckRcvd, AckSent, Opened}

LEMMA IpcpUp ==
  ASSUME NEW a, a.state \in IpcpStates
  PROVE /\ Move(a, "Up").state \in IpcpStates
        /\ Move(a, "Up").state \in {AckRcvd, AckSent, Opened} => Move(a, "Up").state = a.state
        /\ ActionTable["Up"][a.state + 1] \subseteq {"irc", "scr"}
  BY Bytes DEF IpcpStates, Move, StateTable, ActionTable, X, Starting, ReqSent, AckRcvd,
     AckSent, Opened, none, reqs

LEMMA IpcpDown ==
  ASSUME NEW a, a.state \in IpcpStates \cup {Stopped}
  PROVE Move(a, "Down").state = Starting /\ ActionTable["Down"][a.state + 1] = {}
  BY Bytes DEF IpcpStates, Move, StateTable, ActionTable, X, Starting, Stopped, ReqSent,
     AckRcvd, AckSent, Opened, none

LEMMA IpcpRCRok ==
  ASSUME NEW a, a.state \in IpcpStates
  PROVE /\ Move(a, "RCRok").state \in IpcpStates
        /\ Move(a, "RCRok").state # Starting => a.state # Starting
        /\ Move(a, "RCRok").state \in {AckRcvd, Opened} => a.state \in {AckRcvd, Opened}
        /\ ActionTable["RCRok"][a.state + 1] \subseteq {"scr", "sca"}
  BY Bytes DEF IpcpStates, Move, StateTable, ActionTable, X, Starting, ReqSent, AckRcvd,
     AckSent, Opened, none

LEMMA IpcpRCRerr ==
  ASSUME NEW a, a.state \in IpcpStates
  PROVE /\ Move(a, "RCRerr").state \in IpcpStates
        /\ Move(a, "RCRerr").state # Starting => a.state # Starting
        /\ Move(a, "RCRerr").state \in {AckRcvd, Opened} => a.state \in {AckRcvd, Opened}
        /\ Move(a, "RCRerr").state \in {AckSent, Opened} => a.state \in {AckSent, Opened}
        /\ ActionTable["RCRerr"][a.state + 1] \subseteq {"scr", "scn"}
  BY Bytes DEF IpcpStates, Move, StateTable, ActionTable, X, Starting, ReqSent, AckRcvd,
     AckSent, Opened, none

LEMMA IpcpRCA ==
  ASSUME NEW a, a.state \in IpcpStates
  PROVE /\ Move(a, "RCA").state \in IpcpStates
        /\ Move(a, "RCA").state # Starting => a.state # Starting
        /\ Move(a, "RCA").state \in {AckSent, Opened} => a.state \in {AckSent, Opened}
        /\ ActionTable["RCA"][a.state + 1] \subseteq {"irc", "scr"}
  BY Bytes DEF IpcpStates, Move, StateTable, ActionTable, X, Starting, ReqSent, AckRcvd,
     AckSent, Opened, none

LEMMA IpcpRCN ==
  ASSUME NEW a, a.state \in IpcpStates
  PROVE /\ Move(a, "RCN").state \in IpcpStates
        /\ Move(a, "RCN").state # Starting => a.state # Starting
        /\ Move(a, "RCN").state \notin {AckRcvd, Opened}
        /\ Move(a, "RCN").state \in {AckSent, Opened} => a.state \in {AckSent, Opened}
        /\ ActionTable["RCN"][a.state + 1] \subseteq {"irc", "scr"}
  BY Bytes DEF IpcpStates, Move, StateTable, ActionTable, X, Starting, ReqSent, AckRcvd,
     AckSent, Opened, none, reqs

TimedStates == {ReqSent, AckRcvd, AckSent}

LEMMA IpcpTOok ==
  ASSUME NEW a, a.state \in TimedStates
  PROVE /\ Move(a, "TOok").state \in {ReqSent, AckSent}
        /\ Move(a, "TOok").state = AckSent => a.state = AckSent
        /\ ActionTable["TOok"][a.state + 1] \subseteq {"scr"}
  BY Bytes DEF TimedStates, Move, StateTable, ActionTable, X, ReqSent, AckRcvd, AckSent

LEMMA IpcpTOerr ==
  ASSUME NEW a, a.state \in TimedStates
  PROVE Move(a, "TOerr").state = Stopped /\ ActionTable["TOerr"][a.state + 1] = {}
  BY Bytes DEF TimedStates, Move, StateTable, ActionTable, X, ReqSent, AckRcvd, AckSent,
     Stopped, none

(* LCP leaves the opened state with a flag that takes IPCP down.            *)
LcpEvents == {"Up", "Close", "TOok", "TOerr", "RCRok", "RCA", "RCN", "RTR", "RTA"}

LcpRow(ev) ==
    \A a : a.state \in 0 .. 9 =>
        LET new == StateTable[ev][a.state + 1] IN
        /\ Move(a, ev).state \in 0 .. 9
        /\ new # X /\ Flag(new, TLU) => Move(a, ev).state = Opened
        /\ a.state = Opened /\ Move(a, ev).state # Opened
             => new # X /\ Flag(new, TLD) /\ ~Flag(new, TLU)
        /\ "scn" \notin ActionTable[ev][a.state + 1]

LEMMA RowUp == LcpRow("Up")
  BY Bytes DEF LcpRow, Move, StateTable, ActionTable, X, Opened, none, reqs
LEMMA RowClose == LcpRow("Close")
  BY Bytes DEF LcpRow, Move, StateTable, ActionTable, X, Opened, ReqSent, none
LEMMA RowTOok == LcpRow("TOok")
  BY Bytes DEF LcpRow, Move, StateTable, ActionTable, X, Opened, none
LEMMA RowTOerr == LcpRow("TOerr")
  BY Bytes DEF LcpRow, Move, StateTable, ActionTable, X, Opened, none
LEMMA RowRCRok == LcpRow("RCRok")
  BY Bytes DEF LcpRow, Move, StateTable, ActionTable, X, Opened, none, reqs
LEMMA RowRCA == LcpRow("RCA")
  BY Bytes DEF LcpRow, Move, StateTable, ActionTable, X, Opened, none
LEMMA RowRCN == LcpRow("RCN")
  BY Bytes DEF LcpRow, Move, StateTable, ActionTable, X, Opened, none, reqs
LEMMA RowRTR == LcpRow("RTR")
  BY Bytes DEF LcpRow, Move, StateTable, ActionTable, X, Opened, Closed, none
LEMMA RowRTA == LcpRow("RTA")
  BY Bytes DEF LcpRow, Move, StateTable, ActionTable, X, Opened, none

LEMMA LcpTable == \A ev \in LcpEvents : LcpRow(ev)
  BY RowUp, RowClose, RowTOok, RowTOerr, RowRCRok, RowRCA, RowRCN, RowRTR, RowRTA DEF LcpEvents

-----------------------------------------------------------------------------
(* What the peer sends: requests for what it asks for now.                  *)

HostFrame(f, ask, dials) ==
    FromHost(f, ask, dials) /\ (Ipcp(f, "req") => f.opt = ask)
HostOut(h, dials) ==
    /\ HostFields \subseteq DOMAIN h /\ IsSeq(h.tx)
    /\ \A i \in DOMAIN h.tx : HostFrame(h.tx[i], h.ask, dials)
HostSame(h, q) ==
    /\ q.up = h.up /\ q.lcp = h.lcp /\ q.ipcp = h.ipcp
    /\ q.offer = h.offer /\ q.ask = h.ask /\ q.picip = h.picip
Sent(h, q, dials) == HostOut(q, dials) /\ HostSame(h, q)

LEMMA SentNothing ==
  ASSUME NEW h, NEW dials, HostOut(h, dials) PROVE Sent(h, h, dials)
  BY DEF Sent, HostSame

LEMMA SentTwice ==
  ASSUME NEW h, NEW q, NEW r, NEW dials, Sent(h, q, dials), Sent(q, r, dials)
  PROVE Sent(h, r, dials)
  BY DEF Sent, HostSame

LEMMA HostTx ==
  ASSUME NEW h, NEW dials, HostOut(h, dials), NEW pcol, NEW code, NEW opt,
         HostFrame(Frame(pcol, code, opt), h.ask, dials)
  PROVE Sent(h, Tx(h, pcol, code, opt), dials)
<1> DEFINE f == Frame(pcol, code, opt)
           q == Tx(h, pcol, code, opt)
<1>1. q.tx = Append(h.tx, f) /\ HostSame(h, q) /\ HostFields \subseteq DOMAIN q
  BY DEF Tx, HostOut, HostFields, HostSame
<1>2. IsSeq(h.tx) BY DEF HostOut
<1>3. ASSUME NEW i \in DOMAIN q.tx PROVE HostFrame(q.tx[i], h.ask, dials)
  <2>1. q.tx[i] = f \/ \E j \in DOMAIN h.tx : q.tx[i] = h.tx[j] BY <1>1, <1>2, Appended
  <2>2. CASE q.tx[i] = f BY <2>2
  <2>3. CASE \E j \in DOMAIN h.tx : q.tx[i] = h.tx[j]
    <3>1. PICK j \in DOMAIN h.tx : q.tx[i] = h.tx[j] BY <2>3
    <3> QED BY <3>1, Zenon DEF HostOut
  <2> QED BY <2>1, <2>2, <2>3
<1>4. IsSeq(q.tx) BY <1>1, <1>2, Appended
<1>5. q.ask = h.ask BY <1>1 DEF HostSame
<1> QED BY <1>1, <1>3, <1>4, <1>5 DEF Sent, HostOut

(* A hint of the peer.                                                      *)
Hints(dials, reply) == dials /\ reply.addr = "given"

(* Which frames an action of the table may ask for.                         *)
Allowed(h, pcol, act, opt, reply, dials) ==
    \/ pcol = "lcp" /\ "scn" \notin act
    \/ /\ pcol = "ipcp" /\ opt = h.ask /\ act \subseteq {"irc", "scr", "sca", "scn"}
       /\ "scn" \in act => Hints(dials, reply)

LEMMA HostSendsKeeps ==
  ASSUME NEW h, NEW dials, HostOut(h, dials), NEW pcol, NEW act, NEW opt, NEW reply,
         Allowed(h, pcol, act, opt, reply, dials)
  PROVE Sent(h, HostSends(h, pcol, act, opt, reply), dials)
<1> DEFINE h1 == IF "scr" \in act THEN Tx(h, pcol, "req", opt) ELSE h
           h2 == IF "sca" \in act THEN Tx(h1, pcol, "ack", reply) ELSE h1
           h3 == IF "scn" \in act THEN Tx(h2, pcol, "nak", reply) ELSE h2
           h4 == IF "str" \in act THEN Tx(h3, pcol, "term", NoOpt) ELSE h3
           h5 == IF "sta" \in act THEN Tx(h4, pcol, "termack", NoOpt) ELSE h4
<1> USE DEF Allowed, Hints, HostFrame, FromHost, Frame, Ipcp, LcpCodes
<1>1. Sent(h, h1, dials)
  <2>1. HostFrame(Frame(pcol, "req", opt), h.ask, dials) OBVIOUS
  <2> QED BY <2>1, HostTx, SentNothing
<1> HIDE DEF h1
<1>2. Sent(h, h2, dials)
  <2>1. HostFrame(Frame(pcol, "ack", reply), h1.ask, dials) OBVIOUS
  <2> QED BY <2>1, <1>1, HostTx, SentTwice DEF Sent
<1> HIDE DEF h2
<1>3. Sent(h, h3, dials)
  <2>1. CASE "scn" \in act
    <3>1. HostFrame(Frame(pcol, "nak", reply), h2.ask, dials) BY <2>1
    <3> QED BY <3>1, <1>2, HostTx, SentTwice DEF Sent
  <2> QED BY <2>1, <1>2
<1> HIDE DEF h3
<1>4. Sent(h, h4, dials)
  <2>1. CASE "str" \in act
    <3>1. HostFrame(Frame(pcol, "term", NoOpt), h3.ask, dials) BY <2>1
    <3> QED BY <3>1, <1>3, HostTx, SentTwice DEF Sent
  <2> QED BY <2>1, <1>3
<1> HIDE DEF h4
<1>5. Sent(h, h5, dials)
  <2>1. CASE "sta" \in act
    <3>1. HostFrame(Frame(pcol, "termack", NoOpt), h4.ask, dials) BY <2>1
    <3> QED BY <3>1, <1>4, HostTx, SentTwice DEF Sent
  <2> QED BY <2>1, <1>4
<1>6. HostSends(h, pcol, act, opt, reply) = h5 BY Zenon DEF HostSends, h1, h2, h3, h4
<1> HIDE DEF h5
<1> QED BY <1>5, <1>6

(* IPCP of the peer takes an event.                                         *)
LEMMA HostIpcpMoves ==
  ASSUME NEW h, NEW dials, HostOut(h, dials), NEW ev, NEW reply,
         ActionTable[ev][h.ipcp.state + 1] \subseteq {"irc", "scr", "sca", "scn"},
         "scn" \in ActionTable[ev][h.ipcp.state + 1] => Hints(dials, reply)
  PROVE LET q == HostIpcp(h, ev, reply) IN
        /\ HostOut(q, dials) /\ q.ipcp = Move(h.ipcp, ev)
        /\ q.up = h.up /\ q.lcp = h.lcp /\ q.offer = h.offer
        /\ q.ask = h.ask /\ q.picip = h.picip
<1> DEFINE m == [h EXCEPT !.ipcp = Move(@, ev)]
           act == ActionTable[ev][h.ipcp.state + 1]
<1>1. /\ HostOut(m, dials) /\ m.ipcp = Move(h.ipcp, ev)
      /\ m.up = h.up /\ m.lcp = h.lcp /\ m.offer = h.offer
      /\ m.ask = h.ask /\ m.picip = h.picip
  BY DEF HostOut, HostFields
<1>2. HostIpcp(h, ev, reply) = HostSends(m, "ipcp", act, h.ask, reply) BY DEF HostIpcp
<1> HIDE DEF m, act
<1>3. Allowed(m, "ipcp", act, h.ask, reply, dials) BY <1>1 DEF Allowed, act
<1>4. Sent(m, HostSends(m, "ipcp", act, h.ask, reply), dials)
  BY <1>1, <1>3, HostSendsKeeps
<1> QED BY <1>1, <1>2, <1>4 DEF Sent, HostSame

(* A step of the peer after which it has taken no more than it had.         *)
NoMore(h, q) ==
    /\ q.ask = h.ask /\ q.picip = h.picip
    /\ q.ipcp.state \in {AckRcvd, Opened} => h.ipcp.state \in {AckRcvd, Opened}
    /\ q.ipcp.state \in {AckSent, Opened} => h.ipcp.state \in {AckSent, Opened}
HostKept(h, q, dials) ==
    /\ HostOut(q, dials)
    /\ (HostUp(q) /\ NoMore(h, q)) \/ HostDown(q)

(* LCP of the peer takes an event: IPCP comes up, goes down, or stays, or   *)
(* the call ends.                                                           *)
LEMMA RowCloseLeaves ==
  ASSUME NEW a, a.state = Opened PROVE Move(a, "Close").state # Opened
  BY Bytes DEF Move, StateTable, Opened, X

LEMMA DownIsDown ==
  ASSUME NEW g, NEW dials
  PROVE /\ HostDown([Down EXCEPT !.gaveup = g]) /\ HostOut([Down EXCEPT !.gaveup = g], dials)
        /\ HostDown(Down) /\ HostOut(Down, dials)
  BY EmptyIsSeq DEF HostDown, HostOut, Down, HostFields

LEMMA HostLcpKeeps ==
  ASSUME NEW h, NEW dials, HostOut(h, dials), h.up, h.lcp.state \in 0 .. 9,
         NEW ev \in LcpEvents, NEW reply,
         h.ipcp.state \in IpcpStates \/ (h.ipcp.state = Stopped /\ ev = "Close"),
         h.ipcp.state # Starting => h.lcp.state = Opened
  PROVE HostKept(h, HostLcp(h, ev, reply), dials)
<1> DEFINE new == StateTable[ev][h.lcp.state + 1]
           act == ActionTable[ev][h.lcp.state + 1]
           m == [h EXCEPT !.lcp = Move(@, ev)]
           h1 == HostSends(m, "lcp", act, h.offer, reply)
           up == new # X /\ Flag(new, TLU)
           down == new # X /\ Flag(new, TLD)
           q == HostLcp(h, ev, reply)
<1>1. LcpRow(ev) BY LcpTable
<1>2. /\ Move(h.lcp, ev).state \in 0 .. 9
      /\ up => Move(h.lcp, ev).state = Opened
      /\ h.lcp.state = Opened /\ Move(h.lcp, ev).state # Opened => down /\ ~up
      /\ "scn" \notin act
  BY <1>1 DEF LcpRow
<1>3. /\ HostOut(m, dials) /\ m.lcp = Move(h.lcp, ev) /\ m.ipcp = h.ipcp
      /\ m.up = h.up /\ m.ask = h.ask /\ m.picip = h.picip
  BY DEF HostOut, HostFields
<1>4. Sent(m, h1, dials) BY <1>2, <1>3, HostSendsKeeps DEF Allowed
<1>5. /\ HostOut(h1, dials) /\ h1.lcp = Move(h.lcp, ev) /\ h1.ipcp = h.ipcp
      /\ h1.up /\ h1.ask = h.ask /\ h1.picip = h.picip
  BY <1>3, <1>4 DEF Sent, HostSame
<1>6. \/ up /\ q = HostIpcp(h1, "Up", NoOpt)
      \/ down /\ q = HostIpcp(h1, "Down", NoOpt)
      \/ \E g : q = [Down EXCEPT !.gaveup = g]
      \/ ~(h.lcp.state = Opened /\ Move(h.lcp, ev).state # Opened) /\ q = h1
  <2>1. \/ up /\ q = HostIpcp(h1, "Up", NoOpt)
        \/ down /\ q = HostIpcp(h1, "Down", NoOpt)
        \/ q = [Down EXCEPT !.gaveup = h.gaveup \/ ev = "TOerr"]
        \/ ~(up /\ h.offer.auth = "none") /\ ~down /\ q = h1
    BY DEF HostLcp
  <2> HIDE DEF q, h1, up, down
  <2>2. CASE ~(up /\ h.offer.auth = "none") /\ ~down /\ q = h1 BY <1>2, <2>2
  <2>3. CASE q = [Down EXCEPT !.gaveup = h.gaveup \/ ev = "TOerr"]
    <3>1. \E g : q = [Down EXCEPT !.gaveup = g] BY <2>3
    <3> QED BY <3>1
  <2> QED BY <2>1, <2>2, <2>3
<1>7. h.ipcp.state = Stopped => ~up /\ h.lcp.state = Opened /\ Move(h.lcp, ev).state # Opened
  <2> HIDE DEF q, h1, up, down
  <2>1. ASSUME h.ipcp.state = Stopped PROVE ev = "Close" /\ h.lcp.state = Opened
    BY <2>1 DEF IpcpStates, Stopped, Starting, ReqSent, AckRcvd, AckSent, Opened
  <2>2. ASSUME h.ipcp.state = Stopped PROVE Move(h.lcp, "Close").state # Opened
    BY <2>1, <2>2, RowCloseLeaves
  <2> QED BY <1>2, <2>1, <2>2
<1> HIDE DEF m, h1, new, act, up, down, q
<1>8. ASSUME up /\ q = HostIpcp(h1, "Up", NoOpt)
      PROVE HostKept(h, q, dials)
  <2>1. h1.ipcp.state \in IpcpStates BY <1>5, <1>7, <1>8
  <2>2. /\ Move(h1.ipcp, "Up").state \in IpcpStates
        /\ Move(h1.ipcp, "Up").state \in {AckRcvd, AckSent, Opened}
             => Move(h1.ipcp, "Up").state = h1.ipcp.state
        /\ ActionTable["Up"][h1.ipcp.state + 1] \subseteq {"irc", "scr"}
    BY <2>1, IpcpUp
  <2>3. /\ HostOut(q, dials) /\ q.ipcp = Move(h1.ipcp, "Up") /\ q.up
        /\ q.lcp = h1.lcp /\ q.ask = h.ask /\ q.picip = h.picip
    BY <1>5, <1>8, <2>2, HostIpcpMoves
  <2>4. q.lcp.state = Opened /\ q.lcp.state \in 0 .. 9 BY <1>2, <1>5, <1>8, <2>3
  <2>5. HostUp(q) BY <2>2, <2>3, <2>4 DEF HostUp, HostOut, IpcpStates
  <2>6. NoMore(h, q) BY <1>5, <2>2, <2>3 DEF NoMore
  <2> QED BY <2>3, <2>5, <2>6 DEF HostKept
<1>9. ASSUME down /\ q = HostIpcp(h1, "Down", NoOpt)
      PROVE HostKept(h, q, dials)
  <2>1. h1.ipcp.state \in IpcpStates \cup {Stopped} BY <1>5
  <2>2. Move(h1.ipcp, "Down").state = Starting /\ ActionTable["Down"][h1.ipcp.state + 1] = {}
    BY <2>1, IpcpDown
  <2>3. /\ HostOut(q, dials) /\ q.ipcp = Move(h1.ipcp, "Down") /\ q.up
        /\ q.lcp = h1.lcp /\ q.ask = h.ask /\ q.picip = h.picip
    BY <1>5, <1>9, <2>2, HostIpcpMoves
  <2>4. q.ipcp.state = Starting /\ q.lcp.state \in 0 .. 9 BY <1>2, <1>5, <2>2, <2>3
  <2>5. HostUp(q) BY <2>3, <2>4 DEF HostUp, HostOut
  <2>6. NoMore(h, q) BY <2>3, <2>4 DEF NoMore, Starting, AckRcvd, AckSent, Opened
  <2> QED BY <2>3, <2>5, <2>6 DEF HostKept
<1>10. ASSUME \E g : q = [Down EXCEPT !.gaveup = g]
       PROVE HostKept(h, q, dials)
  <2>1. HostDown(q) /\ HostOut(q, dials) BY <1>10, DownIsDown
  <2> QED BY <2>1 DEF HostKept
<1>11. ASSUME ~(h.lcp.state = Opened /\ Move(h.lcp, ev).state # Opened) /\ q = h1
       PROVE HostKept(h, q, dials)
  <2>1. q.ipcp.state \in IpcpStates BY <1>5, <1>7, <1>11
  <2>2. q.ipcp.state # Starting => q.lcp.state = Opened BY <1>5, <1>11
  <2>3. HostUp(q) BY <1>2, <1>5, <1>11, <2>1, <2>2 DEF HostUp, HostOut, IpcpStates
  <2>4. NoMore(h, q) BY <1>5, <1>11 DEF NoMore
  <2> QED BY <1>5, <1>11, <2>3, <2>4 DEF HostKept
<1> QED BY <1>6, <1>8, <1>9, <1>10, <1>11 DEF q

LEMMA HostLcpUp ==
  ASSUME NEW h, NEW dials, HostOut(h, dials), HostUp(h), NEW ev \in LcpEvents, NEW reply
  PROVE HostKept(h, HostLcp(h, ev, reply), dials)
  BY HostLcpKeeps DEF HostUp, IpcpStates

LEMMA KeptItself ==
  ASSUME NEW h, NEW dials, HostOut(h, dials), HostUp(h) PROVE HostKept(h, h, dials)
  BY DEF HostKept, NoMore

(* The handlers of frames.                                                  *)
LEMMA HostLcpRxKeeps ==
  ASSUME NEW h, NEW dials, HostOut(h, dials), HostUp(h), NEW f
  PROVE HostKept(h, HostLcpRx(h, f), dials)
<1>1. ASSUME NEW o, NEW ev \in LcpEvents
      PROVE HostKept(h, HostLcp([h EXCEPT !.offer = o], ev, NoOpt), dials)
  <2> DEFINE m == [h EXCEPT !.offer = o]
  <2>1. /\ HostOut(m, dials) /\ m.ask = h.ask /\ m.picip = h.picip /\ m.ipcp = h.ipcp
        /\ m.lcp = h.lcp /\ m.up = h.up
    BY DEF HostOut, HostFields
  <2> HIDE DEF m
  <2>2. HostUp(m) BY <2>1 DEF HostUp, HostOut
  <2>3. HostKept(m, HostLcp(m, ev, NoOpt), dials) BY <2>1, <2>2, HostLcpUp
  <2>4. HostKept(h, HostLcp(m, ev, NoOpt), dials) BY <2>1, <2>3 DEF HostKept, NoMore
  <2> QED BY <2>4 DEF m
<1>2. \/ HostLcpRx(h, f) = h
      \/ \E ev \in LcpEvents : \E r : HostLcpRx(h, f) = HostLcp(h, ev, r)
      \/ \E o : HostLcpRx(h, f) = HostLcp([h EXCEPT !.offer = o], "RCN", NoOpt)
  <2>1. {"RCRok", "RCA", "RTR", "RTA"} \subseteq LcpEvents BY DEF LcpEvents
  <2>2. \/ HostLcpRx(h, f) = h
        \/ HostLcpRx(h, f) = HostLcp(h, "RCRok", f.opt)
        \/ HostLcpRx(h, f) = HostLcp(h, "RCA", NoOpt)
        \/ HostLcpRx(h, f) = HostLcp([h EXCEPT !.offer.extra = FALSE], "RCN", NoOpt)
        \/ HostLcpRx(h, f) = HostLcp([h EXCEPT !.offer.auth = "pap"], "RCN", NoOpt)
        \/ HostLcpRx(h, f) = HostLcp(h, "RTR", NoOpt)
        \/ HostLcpRx(h, f) = HostLcp(h, "RTA", NoOpt)
    BY DEF HostLcpRx
  <2> QED BY <2>1, <2>2
<1>3. "RCN" \in LcpEvents BY DEF LcpEvents
<1> QED BY <1>1, <1>2, <1>3, HostLcpUp, KeptItself

LEMMA HostPapRxKeeps ==
  ASSUME NEW h, NEW dials, HostOut(h, dials), HostUp(h), h.lcp.state = Opened, NEW f
  PROVE HostKept(h, HostPapRx(h, f), dials)
<1> DEFINE m == Tx(h, "pap", "ack", NoOpt)
           q == HostIpcp(m, "Up", NoOpt)
           n == Tx(h, "pap", "nak", NoOpt)
<1>1. Sent(h, m, dials) /\ Sent(h, n, dials)
  BY HostTx DEF HostFrame, FromHost, Frame, Ipcp
<1> HIDE DEF m, n
<1>2. HostUp(m) /\ NoMore(h, m) /\ HostUp(n) /\ NoMore(h, n)
  BY <1>1 DEF Sent, HostSame, HostUp, NoMore, HostOut
<1>3. /\ Move(m.ipcp, "Up").state \in IpcpStates
      /\ Move(m.ipcp, "Up").state \in {AckRcvd, AckSent, Opened}
           => Move(m.ipcp, "Up").state = m.ipcp.state
      /\ ActionTable["Up"][m.ipcp.state + 1] \subseteq {"irc", "scr"}
  <2>1. m.ipcp.state \in IpcpStates BY <1>2 DEF HostUp, IpcpStates
  <2> QED BY <2>1, IpcpUp
<1>4. /\ HostOut(q, dials) /\ q.ipcp = Move(m.ipcp, "Up") /\ q.up = m.up /\ q.lcp = m.lcp
      /\ q.ask = m.ask /\ q.picip = m.picip
  BY <1>1, <1>3, HostIpcpMoves DEF Sent
<1>5. q.lcp.state = Opened BY <1>1, <1>4 DEF Sent, HostSame
<1> HIDE DEF q
<1>6. HostUp(q)
  BY <1>2, <1>3, <1>4, <1>5 DEF HostUp, HostOut, IpcpStates
<1>7. NoMore(h, q) BY <1>2, <1>3, <1>4 DEF NoMore
<1>8. HostPapRx(h, f) \in {q, n} BY DEF HostPapRx, q, m, n
<1> QED BY <1>1, <1>2, <1>4, <1>6, <1>7, <1>8 DEF HostKept, Sent

(* An IPCP frame: a request it agrees to tells the peer this end's address, *)
(* an acknowledgement of its last request settles its own, and after a      *)
(* refusal or a hint it asks for something else.                            *)
Learns(h, q, f, dials) ==
    /\ HostOut(q, dials) /\ HostUp(q) /\ Ipcp(f, "req") /\ (dials => f.opt.addr = "given")
    /\ q.ask = h.ask /\ q.picip = f.opt.addr
    /\ q.ipcp.state \in {AckRcvd, Opened} => h.ipcp.state \in {AckRcvd, Opened}
Settles(h, q, f, dials) ==
    /\ HostOut(q, dials) /\ HostUp(q) /\ Ipcp(f, "ack") /\ f.opt = h.ask
    /\ q.ask = h.ask /\ q.picip = h.picip
    /\ q.ipcp.state \in {AckSent, Opened} => h.ipcp.state \in {AckSent, Opened}
AsksAgain(h, q, dials) ==
    /\ HostOut(q, dials) /\ HostUp(q) /\ ~Final(h.ask) /\ q.picip = h.picip
    /\ q.ipcp.state \notin {AckRcvd, Opened}
    /\ q.ipcp.state \in {AckSent, Opened} => h.ipcp.state \in {AckSent, Opened}
Taken(h, q, f, dials) ==
    \/ HostKept(h, q, dials) \/ Learns(h, q, f, dials)
    \/ Settles(h, q, f, dials) \/ AsksAgain(h, q, dials)

(* IPCP in a state of a call that is up.                                    *)
LEMMA UpAfter ==
  ASSUME NEW h, HostUp(h), NEW q, HostFields \subseteq DOMAIN q, q.up, q.lcp = h.lcp,
         q.ipcp.state \in IpcpStates, q.ipcp.state # Starting => h.ipcp.state # Starting
  PROVE HostUp(q)
  BY DEF HostUp, IpcpStates

LEMMA HostAsksAgain ==
  ASSUME NEW h, NEW dials, HostOut(h, dials), h.tx = <<>>, HostUp(h), ~Final(h.ask), NEW o
  PROVE AsksAgain(h, HostIpcp([h EXCEPT !.ask = o], "RCN", NoOpt), dials)
<1> DEFINE m == [h EXCEPT !.ask = o]
           q == HostIpcp(m, "RCN", NoOpt)
<1>1. /\ HostOut(m, dials) /\ m.up /\ m.lcp = h.lcp /\ m.ipcp = h.ipcp /\ m.picip = h.picip
  BY DEF HostOut, HostFields, HostUp
<1> HIDE DEF m
<1>2. m.ipcp.state \in IpcpStates BY <1>1 DEF HostUp, IpcpStates
<1>3. /\ Move(m.ipcp, "RCN").state \in IpcpStates
      /\ Move(m.ipcp, "RCN").state # Starting => m.ipcp.state # Starting
      /\ Move(m.ipcp, "RCN").state \notin {AckRcvd, Opened}
      /\ Move(m.ipcp, "RCN").state \in {AckSent, Opened} => m.ipcp.state \in {AckSent, Opened}
      /\ ActionTable["RCN"][m.ipcp.state + 1] \subseteq {"irc", "scr"}
  BY <1>2, IpcpRCN
<1>4. /\ HostOut(q, dials) /\ q.ipcp = Move(m.ipcp, "RCN") /\ q.up = m.up /\ q.lcp = m.lcp
      /\ q.picip = m.picip
  <2>1. ActionTable["RCN"][m.ipcp.state + 1] \subseteq {"irc", "scr", "sca", "scn"}
    BY <1>3
  <2>2. "scn" \notin ActionTable["RCN"][m.ipcp.state + 1] BY <1>3
  <2>3. HostOut(m, dials) BY <1>1
  <2> QED BY <2>1, <2>2, <2>3, HostIpcpMoves
<1> HIDE DEF q
<1>5. HostUp(q) BY <1>1, <1>3, <1>4, UpAfter DEF HostOut
<1>6. AsksAgain(h, q, dials) BY <1>1, <1>3, <1>4, <1>5 DEF AsksAgain
<1> QED BY <1>6 DEF q, m

LEMMA HostLearns ==
  ASSUME NEW h, NEW dials, HostOut(h, dials), HostUp(h), NEW f, Ipcp(f, "req"),
         dials => f.opt.addr = "given"
  PROVE Learns(h, HostIpcp([h EXCEPT !.picip = f.opt.addr], "RCRok", f.opt), f, dials)
<1> DEFINE m == [h EXCEPT !.picip = f.opt.addr]
           q == HostIpcp(m, "RCRok", f.opt)
<1>1. /\ HostOut(m, dials) /\ m.up /\ m.lcp = h.lcp /\ m.ipcp = h.ipcp /\ m.ask = h.ask
      /\ m.picip = f.opt.addr
  BY DEF HostOut, HostFields, HostUp
<1> HIDE DEF m
<1>2. m.ipcp.state \in IpcpStates BY <1>1 DEF HostUp, IpcpStates
<1>3. /\ Move(m.ipcp, "RCRok").state \in IpcpStates
      /\ Move(m.ipcp, "RCRok").state # Starting => m.ipcp.state # Starting
      /\ Move(m.ipcp, "RCRok").state \in {AckRcvd, Opened} => m.ipcp.state \in {AckRcvd, Opened}
      /\ ActionTable["RCRok"][m.ipcp.state + 1] \subseteq {"scr", "sca"}
  BY <1>2, IpcpRCRok
<1>4. /\ HostOut(q, dials) /\ q.ipcp = Move(m.ipcp, "RCRok") /\ q.up = m.up /\ q.lcp = m.lcp
      /\ q.ask = m.ask /\ q.picip = m.picip
  <2>1. ActionTable["RCRok"][m.ipcp.state + 1] \subseteq {"irc", "scr", "sca", "scn"}
    BY <1>3
  <2>2. "scn" \notin ActionTable["RCRok"][m.ipcp.state + 1] BY <1>3
  <2>3. HostOut(m, dials) BY <1>1
  <2> QED BY <2>1, <2>2, <2>3, HostIpcpMoves
<1> HIDE DEF q
<1>5. HostUp(q) BY <1>1, <1>3, <1>4, UpAfter DEF HostOut
<1>6. Learns(h, q, f, dials) BY <1>1, <1>3, <1>4, <1>5 DEF Learns
<1> QED BY <1>6 DEF q, m

LEMMA HostSettles ==
  ASSUME NEW h, NEW dials, HostOut(h, dials), HostUp(h), NEW f, Ipcp(f, "ack"), f.opt = h.ask
  PROVE Settles(h, HostIpcp(h, "RCA", NoOpt), f, dials)
<1> DEFINE q == HostIpcp(h, "RCA", NoOpt)
<1>2. h.ipcp.state \in IpcpStates BY DEF HostUp, IpcpStates
<1>3. /\ Move(h.ipcp, "RCA").state \in IpcpStates
      /\ Move(h.ipcp, "RCA").state # Starting => h.ipcp.state # Starting
      /\ Move(h.ipcp, "RCA").state \in {AckSent, Opened} => h.ipcp.state \in {AckSent, Opened}
      /\ ActionTable["RCA"][h.ipcp.state + 1] \subseteq {"irc", "scr"}
  BY <1>2, IpcpRCA
<1>4. /\ HostOut(q, dials) /\ q.ipcp = Move(h.ipcp, "RCA") /\ q.up = h.up /\ q.lcp = h.lcp
      /\ q.ask = h.ask /\ q.picip = h.picip
  <2>1. ActionTable["RCA"][h.ipcp.state + 1] \subseteq {"irc", "scr", "sca", "scn"}
    BY <1>3
  <2>2. "scn" \notin ActionTable["RCA"][h.ipcp.state + 1] BY <1>3
  <2> QED BY <2>1, <2>2, HostIpcpMoves
<1> HIDE DEF q
<1>5. HostUp(q) BY <1>3, <1>4, UpAfter DEF HostOut, HostUp
<1>6. Settles(h, q, f, dials) BY <1>3, <1>4, <1>5, Zenon DEF Settles
<1> QED BY <1>6 DEF q

LEMMA HostRefuses ==
  ASSUME NEW h, NEW dials, HostOut(h, dials), HostUp(h), NEW reply, Hints(dials, reply)
  PROVE HostKept(h, HostIpcp(h, "RCRerr", reply), dials)
<1> DEFINE q == HostIpcp(h, "RCRerr", reply)
<1>2. h.ipcp.state \in IpcpStates BY DEF HostUp, IpcpStates
<1>3. /\ Move(h.ipcp, "RCRerr").state \in IpcpStates
      /\ Move(h.ipcp, "RCRerr").state # Starting => h.ipcp.state # Starting
      /\ Move(h.ipcp, "RCRerr").state \in {AckRcvd, Opened} => h.ipcp.state \in {AckRcvd, Opened}
      /\ Move(h.ipcp, "RCRerr").state \in {AckSent, Opened} => h.ipcp.state \in {AckSent, Opened}
      /\ ActionTable["RCRerr"][h.ipcp.state + 1] \subseteq {"scr", "scn"}
  BY <1>2, IpcpRCRerr
<1>4. /\ HostOut(q, dials) /\ q.ipcp = Move(h.ipcp, "RCRerr") /\ q.up = h.up /\ q.lcp = h.lcp
      /\ q.ask = h.ask /\ q.picip = h.picip
  <2>1. ActionTable["RCRerr"][h.ipcp.state + 1] \subseteq {"irc", "scr", "sca", "scn"}
    BY <1>3
  <2>2. "scn" \in ActionTable["RCRerr"][h.ipcp.state + 1]
          => Hints(dials, reply)
    OBVIOUS
  <2> QED BY <2>1, <2>2, HostIpcpMoves
<1> HIDE DEF q
<1>5. HostUp(q) BY <1>3, <1>4, UpAfter DEF HostOut, HostUp
<1>6. NoMore(h, q) BY <1>3, <1>4, Zenon DEF NoMore
<1>7. HostKept(h, q, dials) BY <1>4, <1>5, <1>6 DEF HostKept
<1> QED BY <1>7 DEF q

LEMMA HostIpcpRxTakes ==
  ASSUME NEW h, HostOut(h, pic.dials), h.tx = <<>>, HostUp(h), NEW f, f.pcol = "ipcp"
  PROVE Taken(h, HostIpcpRx(h, f), f, pic.dials)
<1> DEFINE q == HostIpcpRx(h, f)
<1>1. \/ q = h
      \/ /\ f.code = "req" /\ (pic.dials => f.opt.addr = "given")
         /\ q = HostIpcp([h EXCEPT !.picip = f.opt.addr], "RCRok", f.opt)
      \/ pic.dials /\ q = HostIpcp(h, "RCRerr", [addr |-> "given"])
      \/ f.code = "ack" /\ f.opt = h.ask /\ q = HostIpcp(h, "RCA", NoOpt)
      \/ /\ ~Final(h.ask)
         /\ \/ q = HostIpcp([h EXCEPT !.ask.extra = FALSE], "RCN", NoOpt)
            \/ q = HostIpcp([h EXCEPT !.ask.addr = f.opt.addr], "RCN", NoOpt)
  BY DEF HostIpcpRx, Final
<1>2. \A o : ~Final(h.ask) =>
        AsksAgain(h, HostIpcp([h EXCEPT !.ask = o], "RCN", NoOpt), pic.dials)
  BY HostAsksAgain
<1> HIDE DEF q
<1>3. CASE q = h BY <1>3, KeptItself DEF Taken, q
<1>4. CASE /\ f.code = "req" /\ (pic.dials => f.opt.addr = "given")
           /\ q = HostIpcp([h EXCEPT !.picip = f.opt.addr], "RCRok", f.opt)
  BY <1>4, HostLearns DEF Taken, q, Ipcp
<1>5. CASE pic.dials /\ q = HostIpcp(h, "RCRerr", [addr |-> "given"])
  BY <1>5, HostRefuses DEF Taken, Hints, q
<1>6. CASE f.code = "ack" /\ f.opt = h.ask /\ q = HostIpcp(h, "RCA", NoOpt)
  BY <1>6, HostSettles DEF Taken, q, Ipcp
<1>7. CASE /\ ~Final(h.ask)
           /\ \/ q = HostIpcp([h EXCEPT !.ask.extra = FALSE], "RCN", NoOpt)
              \/ q = HostIpcp([h EXCEPT !.ask.addr = f.opt.addr], "RCN", NoOpt)
  <2>1. \E o : q = HostIpcp([h EXCEPT !.ask = o], "RCN", NoOpt) BY <1>7
  <2> QED BY <1>2, <1>7, <2>1 DEF Taken, q
<1> QED BY <1>1, <1>3, <1>4, <1>5, <1>6, <1>7

LEMMA HostRxTakes ==
  ASSUME NEW h, HostOut(h, pic.dials), h.tx = <<>>, HostUp(h), NEW f
  PROVE Taken(h, HostRx(h, f), f, pic.dials)
<1>1. \/ HostRx(h, f) = HostLcpRx(h, f)
      \/ h.lcp.state = Opened /\ HostRx(h, f) = HostPapRx(h, f)
      \/ f.pcol = "ipcp" /\ HostRx(h, f) = HostIpcpRx(h, f)
      \/ HostRx(h, f) = h
  BY DEF HostRx
<1> QED BY <1>1, HostLcpRxKeeps, HostPapRxKeeps, HostIpcpRxTakes, KeptItself DEF Taken

(* The timer of the peer.                                                   *)
LEMMA HostTOok ==
  ASSUME NEW h, NEW dials, HostOut(h, dials), HostUp(h), h.ipcp.state \in TimedStates
  PROVE HostKept(h, HostIpcp(h, "TOok", NoOpt), dials)
<1> DEFINE q == HostIpcp(h, "TOok", NoOpt)
<1>3. /\ Move(h.ipcp, "TOok").state \in {ReqSent, AckSent}
      /\ Move(h.ipcp, "TOok").state = AckSent => h.ipcp.state = AckSent
      /\ ActionTable["TOok"][h.ipcp.state + 1] \subseteq {"scr"}
  BY IpcpTOok
<1>4. /\ HostOut(q, dials) /\ q.ipcp = Move(h.ipcp, "TOok") /\ q.up = h.up /\ q.lcp = h.lcp
      /\ q.ask = h.ask /\ q.picip = h.picip
  <2>1. ActionTable["TOok"][h.ipcp.state + 1] \subseteq {"irc", "scr", "sca", "scn"}
    BY <1>3
  <2>2. "scn" \notin ActionTable["TOok"][h.ipcp.state + 1] BY <1>3
  <2> QED BY <2>1, <2>2, HostIpcpMoves
<1> HIDE DEF q
<1>5. HostUp(q)
  BY <1>3, <1>4, UpAfter DEF HostOut, HostUp, IpcpStates, TimedStates, Starting, ReqSent, AckRcvd,
     AckSent
<1>6. NoMore(h, q) BY <1>3, <1>4 DEF NoMore, ReqSent, AckRcvd, AckSent, Opened
<1>7. HostKept(h, q, dials) BY <1>4, <1>5, <1>6 DEF HostKept
<1> QED BY <1>7 DEF q

LEMMA HostTOerr ==
  ASSUME NEW h, NEW dials, HostOut(h, dials), HostUp(h), h.ipcp.state \in TimedStates
  PROVE HostKept(h, HostLcp([HostIpcp(h, "TOerr", NoOpt) EXCEPT !.gaveup = TRUE], "Close", NoOpt),
                 dials)
<1> DEFINE m == HostIpcp(h, "TOerr", NoOpt)
           n == [m EXCEPT !.gaveup = TRUE]
           q == HostLcp(n, "Close", NoOpt)
<1>1. Move(h.ipcp, "TOerr").state = Stopped /\ ActionTable["TOerr"][h.ipcp.state + 1] = {}
  BY IpcpTOerr
<1>2. /\ HostOut(m, dials) /\ m.ipcp = Move(h.ipcp, "TOerr") /\ m.up = h.up /\ m.lcp = h.lcp
      /\ m.ask = h.ask /\ m.picip = h.picip
  BY <1>1, HostIpcpMoves
<1> HIDE DEF m
<1>3. /\ HostOut(n, dials) /\ n.ipcp = m.ipcp /\ n.up = h.up /\ n.lcp = h.lcp
      /\ n.ask = h.ask /\ n.picip = h.picip
  BY <1>2 DEF HostOut, HostFields
<1> HIDE DEF n
<1>4. /\ n.up /\ n.lcp.state \in 0 .. 9 /\ n.ipcp.state = Stopped /\ n.lcp.state = Opened
  BY <1>1, <1>2, <1>3 DEF HostUp, TimedStates, Starting, ReqSent, AckRcvd, AckSent
<1>5. HostKept(n, q, dials)
  <2>1. "Close" \in LcpEvents BY DEF LcpEvents
  <2> QED BY <1>3, <1>4, <2>1, HostLcpKeeps
<1>6. HostOut(q, dials) /\ (HostDown(q) \/ (HostUp(q) /\ NoMore(n, q))) BY <1>5 DEF HostKept
<1> HIDE DEF q
<1>7. NoMore(n, q) => NoMore(h, q)
  <2>1. n.ipcp.state \notin {AckRcvd, AckSent, Opened} BY <1>4 DEF Stopped, AckRcvd, AckSent, Opened
  <2> QED BY <1>3, <2>1 DEF NoMore
<1>8. HostKept(h, q, dials) BY <1>6, <1>7 DEF HostKept
<1> QED BY <1>8 DEF q, n, m

-----------------------------------------------------------------------------
(* The line *)

(* A frame fewer, from the front.                                           *)
LEMMA FewerToPic ==
  ASSUME NEW p, NEW h, NEW r, NEW w, Together(p, h, r, w), r # <<>>
  PROVE Together(p, h, Tail(r), w)
<1> DEFINE t == Tail(r)
<1>1. IsSeq(r) BY DEF Together, AllFromHost
<1>2. IsSeq(t) /\ \A i \in DOMAIN t : i \in Int /\ i + 1 \in DOMAIN r /\ t[i] = r[i + 1]
  <2>1. IsSeq(t) /\ \A i \in DOMAIN t : i + 1 \in DOMAIN r /\ t[i] = r[i + 1]
    BY <1>1, HeadTail
  <2> HIDE DEF t
  <2>2. \A i \in DOMAIN t : i \in Int BY <2>1 DEF IsSeq
  <2> QED BY <2>1, <2>2
<1> HIDE DEF t
<1>3. \A i \in DOMAIN t : FromHost(t[i], h.ask, p.dials)
  BY <1>2, Zenon DEF Together, AllFromHost
<1>4. InOrder(t, h.ask)
  <2>1. InOrder(r, h.ask) BY DEF Together, AllFromHost
  <2>2. ASSUME NEW i \in DOMAIN t, NEW j \in DOMAIN t, i < j, Ipcp(t[i], "req"),
               Ipcp(t[j], "req"), t[i].opt = h.ask, Final(h.ask)
        PROVE t[j].opt = h.ask
    <3>1. i + 1 < j + 1 BY <1>2, <2>2
    <3>2. i + 1 \in DOMAIN r /\ j + 1 \in DOMAIN r /\ t[i] = r[i + 1] /\ t[j] = r[j + 1]
      BY <1>2
    <3> HIDE DEF Final, Ipcp
    <3> QED BY <2>1, <2>2, <3>1, <3>2 DEF InOrder
  <2> QED BY <2>2 DEF InOrder
<1>5. HostAddr(h, w, t, p.hostip)
  <2>1. \A i \in DOMAIN t : \E j \in DOMAIN r : t[i] = r[j] BY <1>2
  <2> QED BY <2>1, Zenon DEF Together, HostAddr
<1>6. Together(p, h, t, w)
  BY <1>2, <1>3, <1>4, <1>5 DEF Together, AllFromHost
<1> QED BY <1>6 DEF t

LEMMA FewerToHost ==
  ASSUME NEW p, NEW h, NEW r, NEW w, Together(p, h, r, w), w # <<>>
  PROVE Together(p, h, r, Tail(w))
<1> DEFINE t == Tail(w)
<1>1. IsSeq(w) BY DEF Together, AllFromPic
<1>2. IsSeq(t) /\ \A i \in DOMAIN t : i + 1 \in DOMAIN w /\ t[i] = w[i + 1]
  BY <1>1, HeadTail
<1> HIDE DEF t
<1>3. \A i \in DOMAIN t : \E j \in DOMAIN w : t[i] = w[j] BY <1>2
<1>4. AllFromPic(t, h.ask, p.dials, p.myip)
  BY <1>2, <1>3, Zenon DEF Together, AllFromPic
<1>5. Settled(h, t) => Settled(h, w) BY <1>3, Zenon DEF Settled
<1>6. Together(p, h, r, t) BY <1>4, <1>5 DEF Together, HostAddr
<1> QED BY <1>6 DEF t

(* Nothing under way, and no address taken.                                 *)
LEMMA NothingUnderWay ==
  ASSUME NEW p, NEW h, h.ipcp.state \notin {AckRcvd, AckSent, Opened}
  PROVE Together(p, h, <<>>, <<>>)
  BY EmptyIsSeq DEF Together, AllFromHost, AllFromPic, InOrder, HostAddr, PicAddr, Settled

(* What this end may acknowledge.                                           *)
Agreed(acks, p, h, r) ==
    \A o \in acks :
        /\ o = h.ask /\ Final(o) /\ p.hostip = o.addr
        /\ \A i \in DOMAIN r : Ipcp(r[i], "req") => r[i].opt = o

(* What the two ends send in a step joins what is under way.                *)
LEMMA Joins ==
  ASSUME NEW p, NEW acks, PicOK(p, acks), NEW h, HostOut(h, p.dials), NEW r, NEW w,
         Together(p, h, r, w), Agreed(acks, p, h, r)
  PROVE Together(p, h, r \o h.tx, w \o p.tx)
<1> DEFINE rr == r \o h.tx
           ww == w \o p.tx
<1>1. IsSeq(r) /\ IsSeq(w) /\ IsSeq(h.tx) /\ IsSeq(p.tx)
  BY DEF Together, AllFromHost, AllFromPic, PicOK, HostOut
<1>2. IsSeq(rr) /\ IsSeq(ww) BY <1>1, Concat
<1>3. ASSUME NEW i \in DOMAIN rr
      PROVE (\E j \in DOMAIN r : rr[i] = r[j]) \/ (\E j \in DOMAIN h.tx : rr[i] = h.tx[j])
  <2> DEFINE t == h.tx
  <2>1. IsSeq(r) /\ IsSeq(t) /\ i \in DOMAIN (r \o t) BY <1>1, <1>3
  <2> HIDE DEF t
  <2>2. (\E j \in DOMAIN r : (r \o t)[i] = r[j]) \/ (\E j \in DOMAIN t : (r \o t)[i] = t[j])
    BY <2>1, InConcat
  <2> QED BY <2>2 DEF t
<1>4. ASSUME NEW i \in DOMAIN ww
      PROVE (\E j \in DOMAIN w : ww[i] = w[j]) \/ (\E j \in DOMAIN p.tx : ww[i] = p.tx[j])
  <2> DEFINE t == p.tx
  <2>1. IsSeq(w) /\ IsSeq(t) /\ i \in DOMAIN (w \o t) BY <1>1, <1>4
  <2> HIDE DEF t
  <2>2. (\E j \in DOMAIN w : (w \o t)[i] = w[j]) \/ (\E j \in DOMAIN t : (w \o t)[i] = t[j])
    BY <2>1, InConcat
  <2> QED BY <2>2 DEF t
<1>5. ASSUME NEW i \in DOMAIN rr, NEW j \in DOMAIN rr, i < j
      PROVE \/ i \in DOMAIN r /\ j \in DOMAIN r /\ rr[i] = r[i] /\ rr[j] = r[j]
            \/ \E k \in DOMAIN h.tx : rr[j] = h.tx[k]
  BY <1>1, <1>5, ConcatOrder
<1> HIDE DEF rr, ww
<1>6. \A j \in DOMAIN h.tx :
        FromHost(h.tx[j], h.ask, p.dials) /\ (Ipcp(h.tx[j], "req") => h.tx[j].opt = h.ask)
  BY DEF HostOut, HostFrame
<1>7. \A i \in DOMAIN rr : FromHost(rr[i], h.ask, p.dials)
  <2>1. \A j \in DOMAIN r : FromHost(r[j], h.ask, p.dials) BY DEF Together, AllFromHost
  <2> QED BY <1>3, <1>6, <2>1, Zenon
<1>8. InOrder(rr, h.ask)
  <2>1. InOrder(r, h.ask) BY DEF Together, AllFromHost
  <2>2. ASSUME NEW i \in DOMAIN rr, NEW j \in DOMAIN rr, i < j, Ipcp(rr[i], "req"),
               Ipcp(rr[j], "req"), rr[i].opt = h.ask, Final(h.ask)
        PROVE rr[j].opt = h.ask
    <3>1. CASE i \in DOMAIN r /\ j \in DOMAIN r /\ rr[i] = r[i] /\ rr[j] = r[j]
      BY <2>1, <2>2, <3>1 DEF InOrder
    <3>2. CASE \E k \in DOMAIN h.tx : rr[j] = h.tx[k] BY <1>6, <2>2, <3>2, Zenon
    <3> QED BY <1>5, <2>2, <3>1, <3>2
  <2> QED BY <2>2 DEF InOrder
<1>9. AllFromPic(ww, h.ask, p.dials, p.myip)
  <2>1. \A j \in DOMAIN p.tx : FromPic(p.tx[j], h.ask, p.dials, p.myip)
    <3>1. ASSUME NEW j \in DOMAIN p.tx PROVE FromPic(p.tx[j], h.ask, p.dials, p.myip)
      <4>1. PicFrame(p.tx[j], acks, p.myip) BY DEF PicOK
      <4> QED BY <4>1 DEF PicFrame, FromPic, Agreed
    <3> QED BY <3>1
  <2>2. \A j \in DOMAIN w : FromPic(w[j], h.ask, p.dials, p.myip) BY DEF Together, AllFromPic
  <2>3. \A i \in DOMAIN ww : FromPic(ww[i], h.ask, p.dials, p.myip) BY <1>4, <2>1, <2>2, Zenon
  <2> QED BY <1>2, <2>3 DEF AllFromPic
<1>10. HostAddr(h, ww, rr, p.hostip)
  <2>1. ASSUME Settled(h, ww)
        PROVE /\ Final(h.ask) /\ p.hostip = h.ask.addr
              /\ \A j \in DOMAIN r : Ipcp(r[j], "req") => r[j].opt = h.ask
    <3>1. CASE Settled(h, w) BY <3>1 DEF Together, HostAddr
    <3>2. CASE \E j \in DOMAIN p.tx : Ipcp(p.tx[j], "ack")
      <4>1. PICK j \in DOMAIN p.tx : Ipcp(p.tx[j], "ack") BY <3>2
      <4>2. p.tx[j].opt \in acks BY <4>1 DEF PicOK, PicFrame
      <4> QED BY <4>2 DEF Agreed
    <3>3. Settled(h, w) \/ \E j \in DOMAIN p.tx : Ipcp(p.tx[j], "ack")
      BY <1>4, <2>1, Zenon DEF Settled
    <3> QED BY <3>1, <3>2, <3>3
  <2>2. ASSUME Settled(h, ww), NEW i \in DOMAIN rr, Ipcp(rr[i], "req")
        PROVE rr[i].opt = h.ask
    BY <1>3, <1>6, <2>1, <2>2, Zenon
  <2> QED BY <2>1, <2>2 DEF HostAddr
<1>11. Together(p, h, rr, ww)
  BY <1>2, <1>7, <1>8, <1>9, <1>10 DEF Together, AllFromHost
<1> QED BY <1>11 DEF rr, ww

(* A step of both ends keeps the invariant if what is left on the line      *)
(* belongs to them.                                                         *)
LEMMA StepKeeps ==
  ASSUME NEW p, NEW acks, PicOK(p, acks), NEW h, HostOut(h, p.dials), NEW r, NEW w,
         \/ HostUp(h) /\ Together(p, h, r, w) /\ Agreed(acks, p, h, r)
         \/ HostDown(h),
         Step(p, h, r, w)
  PROVE AddrInv'
<1>1. /\ DOMAIN pic' = DOMAIN p /\ pic'.tx = <<>> /\ pic'.dials = p.dials
      /\ pic'.myip = p.myip /\ pic'.hostip = p.hostip
  BY DEF Step, PicOK, PicFields
<1>2. /\ HostFields \subseteq DOMAIN host' /\ host'.tx = <<>> /\ host'.up = h.up
      /\ host'.lcp = h.lcp /\ host'.ipcp = h.ipcp /\ host'.ask = h.ask /\ host'.picip = h.picip
  BY DEF Step, HostOut, HostFields
<1>3. CASE HostUp(h) /\ Together(p, h, r, w) /\ Agreed(acks, p, h, r)
  <2>1. toPic' = r \o h.tx /\ toHost' = w \o p.tx BY <1>3 DEF Step, HostUp
  <2>2. Together(p, h, toPic', toHost') BY <1>3, <2>1, Joins
  <2>3. HostUp(host') BY <1>2, <1>3 DEF HostUp
  <2>4. Together(pic', host', toPic', toHost')
    BY <1>1, <1>2, <2>2 DEF Together, HostAddr, PicAddr, Settled
  <2>5. PicFields \subseteq DOMAIN pic' BY <1>1 DEF PicOK
  <2> QED BY <1>1, <1>2, <2>3, <2>4, <2>5 DEF AddrInv, AddrState
<1>4. CASE HostDown(h)
  <2>1. toPic' = <<>> /\ toHost' = <<>> BY <1>4 DEF Step, HostDown
  <2>2. HostDown(host') BY <1>2, <1>4 DEF HostDown
  <2>3. Together(pic', host', toPic', toHost')
    <3>1. host'.ipcp.state \notin {AckRcvd, AckSent, Opened}
      BY <2>2 DEF HostDown, Initial, AckRcvd, AckSent, Opened
    <3> QED BY <2>1, <3>1, NothingUnderWay
  <2>4. PicFields \subseteq DOMAIN pic' BY <1>1 DEF PicOK
  <2> QED BY <1>1, <1>2, <2>1, <2>2, <2>3, <2>4 DEF AddrInv, AddrState
<1> QED BY <1>3, <1>4

-----------------------------------------------------------------------------
(* The steps *)

LEMMA Kept ==
  ASSUME AddrInv
  PROVE /\ PicOK(pic, {}) /\ HostOut(host, pic.dials)
        /\ HostUp(host) => Together(pic, host, toPic, toHost)
  BY EmptyIsSeq DEF AddrInv, AddrState, PicOK, HostOut, HostUp, HostDown

LEMMA NothingAgreed ==
  ASSUME NEW p, NEW h, NEW r PROVE Agreed({}, p, h, r)
  BY DEF Agreed

(* Only this end has done something, and nothing to an address.             *)
LEMMA PicStep ==
  ASSUME NEW p, PicKept(pic, p, {}), NEW h, HostOut(h, pic.dials), NEW r, NEW w,
         (HostUp(h) /\ Together(pic, h, r, w)) \/ HostDown(h),
         Step(p, h, r, w)
  PROVE AddrInv'
<1>1. PicOK(p, {}) /\ p.dials = pic.dials /\ p.myip = pic.myip /\ p.hostip = pic.hostip
  BY DEF PicKept, Same
<1>2. Together(pic, h, r, w) => Together(p, h, r, w) BY <1>1 DEF Together
<1>3. HostOut(h, p.dials) BY <1>1
<1>4. (HostUp(h) /\ Together(p, h, r, w) /\ Agreed({}, p, h, r)) \/ HostDown(h)
  BY <1>2, NothingAgreed
<1> QED BY <1>1, <1>3, <1>4, StepKeeps

(* Only the peer has, and takes no more than it had.                        *)
LEMMA KeptTogether ==
  ASSUME NEW p, NEW h, NEW r, NEW w, Together(p, h, r, w), NEW q, NoMore(h, q)
  PROVE Together(p, q, r, w)
  BY DEF Together, NoMore, HostAddr, PicAddr, Settled

LEMMA HostStep ==
  ASSUME PicOK(pic, {}), NEW h, NEW r, NEW w, Together(pic, h, r, w),
         NEW q, HostKept(h, q, pic.dials), Step(pic, q, r, w)
  PROVE AddrInv'
<1>1. HostOut(q, pic.dials) BY DEF HostKept
<1>2. (HostUp(q) /\ Together(pic, q, r, w)) \/ HostDown(q)
  BY KeptTogether DEF HostKept
<1>3. PicKept(pic, pic, {}) BY PicItself
<1> QED BY <1>1, <1>2, <1>3, PicStep

(* A frame of the peer.                                                     *)
LEMMA PicReceiveKeeps ==
  ASSUME AddrInv, PicReceive PROVE AddrInv'
<1> DEFINE f == Head(toPic)
           r == Tail(toPic)
           p == Rx(pic, f)
<1>1. toPic # <<>> /\ Step(p, host, r, toHost) BY DEF PicReceive
<1>2. HostUp(host) /\ HostOut(host, pic.dials) /\ PicOK(pic, {}) /\ pic.tx = <<>>
  BY <1>1, Kept DEF AddrInv, AddrState
<1>3. Together(pic, host, toPic, toHost) BY <1>2, Kept
<1>4. Together(pic, host, r, toHost) BY <1>1, <1>3, FewerToPic
<1>5. /\ f = toPic[1] /\ 1 \in DOMAIN toPic
      /\ \A i \in DOMAIN r : i + 1 \in DOMAIN toPic /\ r[i] = toPic[i + 1]
  BY <1>1, <1>3, HeadTail DEF Together, AllFromHost
<1>6. FromHost(f, host.ask, pic.dials) BY <1>3, <1>5, Zenon DEF Together, AllFromHost
<1>7. IsSeq(r) BY <1>4 DEF Together, AllFromHost
<1> HIDE DEF f, r, p
<1>8. CASE f.pcol # "ipcp" \/ f.code = "ack"
  <2>1. CASE f.pcol = "lcp"
    <3>1. f.code \in LcpCodes BY <1>6, <2>1 DEF FromHost
    <3>2. p = LcpRx(pic, f) BY <2>1 DEF p, Rx
    <3> QED BY <1>2, <3>1, <3>2, PicLcpRx, <1>1, <1>4, PicStep
  <2>2. CASE f.pcol = "pap"
    <3>2. p = PapRx(pic, f) BY <2>2 DEF p, Rx
    <3> QED BY <1>2, <3>2, PicPapRx, <1>1, <1>4, PicStep
  <2>3. CASE f.pcol = "ipcp" /\ f.code = "ack"
    <3>2. p = IpcpRx(pic, f) BY <2>3 DEF p, Rx
    <3> QED BY <1>2, <2>3, <3>2, PicIpcpAck, <1>1, <1>4, PicStep
  <2> QED BY <1>6, <1>8, <2>1, <2>2, <2>3 DEF FromHost
<1>9. CASE Ipcp(f, "req")
  <2> DEFINE acks == {o \in {f.opt} : Final(o)}
  <2>1. p = IpcpRx(pic, f) BY <1>9 DEF p, Rx, Ipcp
  <2>2. /\ PicOK(p, acks) /\ p.dials = pic.dials /\ p.myip = pic.myip
        /\ Final(f.opt) => p.hostip = f.opt.addr
    BY <1>2, <1>9, <2>1, PicIpcpReq DEF Ipcp
  <2>3. ASSUME Final(f.opt)
        PROVE f.opt = host.ask /\ \A i \in DOMAIN r : Ipcp(r[i], "req") => r[i].opt = f.opt
    <3>1. f.opt = host.ask BY <1>6, <1>9, <2>3 DEF FromHost
    <3>2. InOrder(toPic, host.ask) BY <1>3 DEF Together, AllFromHost
    <3>3. ASSUME NEW i \in DOMAIN r, Ipcp(r[i], "req") PROVE r[i].opt = host.ask
      <4>1. i \in Nat /\ i >= 1 BY <1>7 DEF IsSeq
      <4>2. 1 < i + 1 BY <4>1
      <4>3. i + 1 \in DOMAIN toPic /\ r[i] = toPic[i + 1] BY <1>5
      <4> HIDE DEF Final, Ipcp
      <4> QED BY <1>5, <1>9, <2>3, <3>1, <3>2, <3>3, <4>2, <4>3 DEF InOrder
    <3> QED BY <3>1, <3>3
  <2>4. Agreed(acks, p, host, r) BY <2>2, <2>3 DEF Agreed
  <2>5. HostAddr(host, toHost, r, p.hostip)
    <3>1. ASSUME Settled(host, toHost)
          PROVE /\ Final(host.ask) /\ p.hostip = host.ask.addr
                /\ \A i \in DOMAIN r : Ipcp(r[i], "req") => r[i].opt = host.ask
      <4>1. Final(host.ask) /\ f.opt = host.ask
        BY <1>3, <1>5, <1>9, <3>1, Zenon DEF Together, HostAddr
      <4>2. \A i \in DOMAIN r : Ipcp(r[i], "req") => r[i].opt = host.ask
        BY <1>4, <3>1, Zenon DEF Together, HostAddr
      <4> QED BY <2>2, <4>1, <4>2
    <3> QED BY <3>1 DEF HostAddr
  <2>6. Together(p, host, r, toHost) BY <1>4, <2>2, <2>5 DEF Together
  <2>7. HostOut(host, p.dials) BY <1>2, <2>2
  <2> HIDE DEF acks
  <2> QED BY <1>1, <1>2, <2>2, <2>4, <2>6, <2>7, StepKeeps
<1>10. CASE Ipcp(f, "nak")
  <2>1. p = IpcpRx(pic, f) BY <1>10 DEF p, Rx, Ipcp
  <2>2. PicOK(p, {}) /\ p.dials = pic.dials /\ p.myip = f.opt.addr /\ p.hostip = pic.hostip
    BY <1>2, <1>10, <2>1, PicIpcpNak DEF Ipcp
  <2>3. pic.dials /\ p.myip = "given" BY <1>6, <1>10, <2>2 DEF FromHost
  <2>4. AllFromPic(toHost, host.ask, p.dials, p.myip)
    <3>1. \A i \in DOMAIN toHost : FromPic(toHost[i], host.ask, pic.dials, pic.myip)
      BY <1>3 DEF Together, AllFromPic
    <3>2. \A i \in DOMAIN toHost : FromPic(toHost[i], host.ask, p.dials, p.myip)
      BY <2>2, <2>3, <3>1 DEF FromPic
    <3> QED BY <1>3, <3>2 DEF Together, AllFromPic
  <2>5. PicAddr(host, p.dials, p.myip) BY <1>3, <2>2, <2>3 DEF Together, PicAddr
  <2>6. Together(p, host, r, toHost) BY <1>4, <2>2, <2>4, <2>5 DEF Together
  <2>7. HostOut(host, p.dials) BY <1>2, <2>2
  <2> QED BY <1>1, <1>2, <2>2, <2>6, <2>7, NothingAgreed, StepKeeps
<1> QED BY <1>6, <1>8, <1>9, <1>10 DEF FromHost, Ipcp

LEMMA PicTickKeeps ==
  ASSUME AddrInv, PicTick PROVE AddrInv'
<1>1. Step(Timeout(pic), host, toPic, toHost) BY DEF PicTick
<1>2. PicOK(pic, {}) /\ HostOut(host, pic.dials) BY Kept
<1>3. (HostUp(host) /\ Together(pic, host, toPic, toHost)) \/ HostDown(host)
  BY DEF AddrInv, AddrState
<1>4. PicKept(pic, Timeout(pic), {}) BY <1>2, PicTimeout
<1> QED BY <1>1, <1>2, <1>3, <1>4, PicStep

(* A call that the peer has just taken.                                     *)
LEMMA Answered ==
  ASSUME NEW p, NEW c
  PROVE /\ HostOut(Answer(c), p.dials)
        /\ \/ HostUp(Answer(c)) /\ Together(p, Answer(c), <<>>, <<>>)
           \/ HostDown(Answer(c))
<1> DEFINE h == [Down EXCEPT !.up = TRUE, !.offer = c.offer, !.ask = c.ask,
                             !.lcp.state = Starting, !.ipcp.state = Starting]
           q == HostLcp(h, "Up", NoOpt)
<1>1. HostOut(h, p.dials) /\ h.up /\ h.lcp.state = Starting /\ h.ipcp.state = Starting
  BY EmptyIsSeq DEF HostOut, Down, HostFields
<1>2. Answer(c) = q BY DEF Answer
<1> HIDE DEF h
<1>3. "Up" \in LcpEvents /\ h.lcp.state \in 0 .. 9 /\ h.ipcp.state \in IpcpStates
  BY <1>1 DEF LcpEvents, Starting, IpcpStates
<1>4. HostKept(h, q, p.dials) BY <1>1, <1>3, HostLcpKeeps
<1> HIDE DEF q
<1>5. HostUp(q) /\ NoMore(h, q) => q.ipcp.state \notin {AckRcvd, AckSent, Opened}
  BY <1>1 DEF NoMore, Starting, AckRcvd, AckSent, Opened
<1>6. HostUp(q) /\ NoMore(h, q) => Together(p, q, <<>>, <<>>)
  BY <1>5, NothingUnderWay
<1> QED BY <1>2, <1>4, <1>6 DEF HostKept

LEMMA PicDialKeeps ==
  ASSUME AddrInv, PicDial PROVE AddrInv'
<1>1. PICK c : Step(Raise(InitNet(pic)), IF host.up THEN host ELSE Answer(c), toPic, toHost)
  BY DEF PicDial
<1>2. PicOK(pic, {}) /\ HostOut(host, pic.dials) BY Kept
<1>3. PicKept(pic, Raise(InitNet(pic)), {})
  BY <1>2, PicInitNet, PicRaise, PicTwice DEF PicKept
<1>4. CASE host.up
  <2>1. HostUp(host) /\ Together(pic, host, toPic, toHost)
    BY <1>4 DEF AddrInv, AddrState, HostDown
  <2>2. Step(Raise(InitNet(pic)), host, toPic, toHost) BY <1>1, <1>4
  <2> QED BY <1>2, <1>3, <2>1, <2>2, PicStep
<1>5. CASE ~host.up
  <2>1. toPic = <<>> /\ toHost = <<>> BY <1>5 DEF AddrInv, AddrState, HostUp
  <2>2. Step(Raise(InitNet(pic)), Answer(c), <<>>, <<>>) BY <1>1, <1>5, <2>1
  <2> QED BY <1>3, <2>2, Answered, PicStep
<1> QED BY <1>4, <1>5

LEMMA HostDialKeeps ==
  ASSUME AddrInv, HostDial PROVE AddrInv'
<1>1. PICK c : Step(pic, Answer(c), toPic, toHost) BY DEF HostDial
<1>2. toPic = <<>> /\ toHost = <<>> BY DEF AddrInv, AddrState, HostUp, HostDial
<1>3. Step(pic, Answer(c), <<>>, <<>>) BY <1>1, <1>2
<1>4. PicKept(pic, pic, {}) BY Kept, PicItself
<1> QED BY <1>3, <1>4, Answered, PicStep

(* A frame of this end.                                                     *)
LEMMA HostReceiveKeeps ==
  ASSUME AddrInv, HostReceive PROVE AddrInv'
<1> DEFINE f == Head(toHost)
           w == Tail(toHost)
           q == HostRx(host, f)
<1>1. toHost # <<>> /\ Step(pic, q, toPic, w) BY DEF HostReceive
<1>2. /\ HostUp(host) /\ HostOut(host, pic.dials) /\ PicOK(pic, {}) /\ host.tx = <<>>
      /\ PicKept(pic, pic, {})
  BY <1>1, Kept, PicItself DEF AddrInv, AddrState
<1>3. Together(pic, host, toPic, toHost) BY <1>2, Kept
<1>4. Together(pic, host, toPic, w) BY <1>1, <1>3, FewerToHost
<1>5. /\ f = toHost[1] /\ 1 \in DOMAIN toHost
      /\ \A i \in DOMAIN w : i + 1 \in DOMAIN toHost /\ w[i] = toHost[i + 1]
  BY <1>1, <1>3, HeadTail DEF Together, AllFromPic
<1>6. FromPic(f, host.ask, pic.dials, pic.myip) BY <1>3, <1>5, Zenon DEF Together, AllFromPic
<1>7. Taken(host, q, f, pic.dials) BY <1>2, HostRxTakes
<1> HIDE DEF f, w, q
<1>8. CASE HostKept(host, q, pic.dials) BY <1>1, <1>2, <1>4, <1>8, HostStep
<1>9. CASE Learns(host, q, f, pic.dials)
  <2>1. Settled(q, w) => Settled(host, w) BY <1>9 DEF Learns, Settled
  <2>2. q.picip = pic.myip /\ (pic.dials => pic.myip = "given")
    BY <1>6, <1>9 DEF Learns, FromPic
  <2>3. Together(pic, q, toPic, w)
    BY <1>4, <1>9, <2>1, <2>2 DEF Together, Learns, HostAddr, PicAddr
  <2> QED BY <1>1, <1>2, <1>9, <2>3, PicStep DEF Learns
<1>10. CASE Settles(host, q, f, pic.dials)
  <2>1. Settled(host, toHost) BY <1>5, <1>10 DEF Settles, Settled
  <2>2. HostAddr(q, w, toPic, pic.hostip)
    BY <1>3, <1>10, <2>1 DEF Together, HostAddr, Settles
  <2>3. Together(pic, q, toPic, w)
    BY <1>4, <1>10, <2>2 DEF Together, Settles, PicAddr
  <2> QED BY <1>1, <1>2, <1>10, <2>3, PicStep DEF Settles
<1>11. CASE AsksAgain(host, q, pic.dials)
  <2>1. ~Settled(host, w) BY <1>4, <1>11 DEF Together, HostAddr, AsksAgain
  <2>2. \A i \in DOMAIN w : ~Ipcp(w[i], "ack") BY <2>1 DEF Settled
  <2>3. ~Settled(q, w) BY <1>11, <2>2 DEF Settled, AsksAgain
  <2>4. AllFromPic(w, q.ask, pic.dials, pic.myip)
    <3>1. ASSUME NEW i \in DOMAIN w PROVE FromPic(w[i], q.ask, pic.dials, pic.myip)
      <4>1. FromPic(w[i], host.ask, pic.dials, pic.myip) BY <1>4 DEF Together, AllFromPic
      <4> QED BY <2>2, <4>1 DEF FromPic
    <3> QED BY <1>4, <3>1 DEF Together, AllFromPic
  <2>5. AllFromHost(toPic, q.ask, pic.dials)
    <3>1. ASSUME NEW i \in DOMAIN toPic
          PROVE /\ FromHost(toPic[i], q.ask, pic.dials)
                /\ Ipcp(toPic[i], "req") => ~Final(toPic[i].opt)
      <4>1. FromHost(toPic[i], host.ask, pic.dials) BY <1>3 DEF Together, AllFromHost
      <4>2. ~Final(host.ask) BY <1>11 DEF AsksAgain
      <4>3. Ipcp(toPic[i], "req") => ~Final(toPic[i].opt)
        <5> HIDE DEF Final
        <5> QED BY <4>1, <4>2 DEF FromHost
      <4> QED BY <4>1, <4>3 DEF FromHost
    <3>2. InOrder(toPic, q.ask)
      <4> HIDE DEF Final, Ipcp
      <4> QED BY <3>1 DEF InOrder
    <3> QED BY <1>3, <3>1, <3>2 DEF Together, AllFromHost
  <2>6. PicAddr(q, pic.dials, pic.myip) BY <1>3, <1>11 DEF Together, PicAddr, AsksAgain
  <2>7. Together(pic, q, toPic, w) BY <2>3, <2>4, <2>5, <2>6 DEF Together, HostAddr
  <2> QED BY <1>1, <1>2, <1>11, <2>7, PicStep DEF AsksAgain
<1> QED BY <1>7, <1>8, <1>9, <1>10, <1>11 DEF Taken

LEMMA HostTickKeeps ==
  ASSUME AddrInv, HostTick PROVE AddrInv'
<1>1. PicOK(pic, {}) /\ HostOut(host, pic.dials) BY Kept
<1>2. Awaits(host.lcp) \/ Awaits(host.ipcp) => HostUp(host)
  BY DEF AddrInv, AddrState, HostDown, Awaits, Initial, Closing, AckSent
<1>3. HostUp(host) => Together(pic, host, toPic, toHost) BY Kept
<1>4. HostUp(host) /\ Awaits(host.ipcp) => host.ipcp.state \in TimedStates
  BY DEF HostUp, Awaits, TimedStates, Starting, Closing, ReqSent, AckRcvd, AckSent, Opened
<1>5. \/ Awaits(host.lcp) /\ \E ev \in {"TOok", "TOerr"} :
             Step(pic, HostLcp(host, ev, NoOpt), toPic, toHost)
      \/ Awaits(host.ipcp) /\ Step(pic, HostIpcp(host, "TOok", NoOpt), toPic, toHost)
      \/ Awaits(host.ipcp) /\ Step(pic,
             HostLcp([HostIpcp(host, "TOerr", NoOpt) EXCEPT !.gaveup = TRUE], "Close", NoOpt),
             toPic, toHost)
  BY DEF HostTick
<1>6. CASE Awaits(host.lcp) /\ \E ev \in {"TOok", "TOerr"} :
               Step(pic, HostLcp(host, ev, NoOpt), toPic, toHost)
  <2>1. PICK ev \in {"TOok", "TOerr"} : Step(pic, HostLcp(host, ev, NoOpt), toPic, toHost)
    BY <1>6
  <2>2. ev \in LcpEvents BY DEF LcpEvents
  <2>3. HostKept(host, HostLcp(host, ev, NoOpt), pic.dials)
    BY <1>1, <1>2, <1>6, <2>2, HostLcpUp
  <2> QED BY <1>1, <1>2, <1>3, <1>6, <2>1, <2>3, HostStep
<1>7. CASE Awaits(host.ipcp) /\ Step(pic, HostIpcp(host, "TOok", NoOpt), toPic, toHost)
  BY <1>1, <1>2, <1>3, <1>4, <1>7, HostTOok, HostStep
<1>8. CASE Awaits(host.ipcp) /\ Step(pic,
               HostLcp([HostIpcp(host, "TOerr", NoOpt) EXCEPT !.gaveup = TRUE], "Close", NoOpt),
               toPic, toHost)
  BY <1>1, <1>2, <1>3, <1>4, <1>8, HostTOerr, HostStep
<1> QED BY <1>5, <1>6, <1>7, <1>8

LEMMA HostHangupKeeps ==
  ASSUME AddrInv, HostHangup PROVE AddrInv'
<1>1. Step(pic, HostLcp(host, "Close", NoOpt), toPic, toHost) BY DEF HostHangup
<1>2. HostUp(host)
  BY DEF HostHangup, AddrInv, AddrState, HostDown, Initial, ReqSent, Opened
<1>3. "Close" \in LcpEvents BY DEF LcpEvents
<1>4. HostKept(host, HostLcp(host, "Close", NoOpt), pic.dials)
  BY <1>2, <1>3, Kept, HostLcpUp
<1> QED BY <1>1, <1>2, <1>4, Kept, HostStep

LEMMA HostVanishKeeps ==
  ASSUME AddrInv, HostVanish PROVE AddrInv'
<1>1. Step(pic, Down, toPic, toHost) BY DEF HostVanish
<1>2. PicKept(pic, pic, {}) BY Kept, PicItself
<1> QED BY <1>1, <1>2, DownIsDown, PicStep

LEMMA HostEchoKeeps ==
  ASSUME AddrInv, HostEcho PROVE AddrInv'
<1> DEFINE q == Tx(host, "lcp", "echo", NoOpt)
<1>1. Step(pic, q, toPic, toHost) BY DEF HostEcho
<1>2. HostUp(host) BY DEF HostEcho, AddrInv, AddrState, HostDown, Initial, Opened
<1>3. Sent(host, q, pic.dials)
  BY Kept, HostTx DEF HostFrame, FromHost, Frame, Ipcp, LcpCodes
<1> HIDE DEF q
<1>4. HostUp(q) /\ NoMore(host, q) BY <1>2, <1>3 DEF Sent, HostSame, HostOut, HostUp, NoMore
<1>5. HostKept(host, q, pic.dials) BY <1>3, <1>4 DEF HostKept, Sent
<1> QED BY <1>1, <1>2, <1>5, Kept, HostStep

LEMMA LoseKeeps ==
  ASSUME AddrInv, Lose PROVE AddrInv'
<1>1. PicKept(pic, pic, {}) /\ HostOut(host, pic.dials) BY Kept, PicItself
<1>2. CASE toPic # <<>> /\ Step(pic, host, Tail(toPic), toHost)
  <2>1. HostUp(host) /\ Together(pic, host, toPic, toHost) BY <1>2 DEF AddrInv, AddrState
  <2> QED BY <1>1, <1>2, <2>1, FewerToPic, PicStep
<1>3. CASE toHost # <<>> /\ Step(pic, host, toPic, Tail(toHost))
  <2>1. HostUp(host) /\ Together(pic, host, toPic, toHost) BY <1>3 DEF AddrInv, AddrState
  <2> QED BY <1>1, <1>3, <2>1, FewerToHost, PicStep
<1> QED BY <1>2, <1>3 DEF Lose

LEMMA AddrInit == Init => AddrInv
<1> SUFFICES ASSUME Init PROVE AddrInv OBVIOUS
<1>1. PICK d \in Builds : pic = [InitNet(PowerUp(d)) EXCEPT !.tx = <<>>] BY DEF Init
<1>2. host = Down /\ toPic = <<>> /\ toHost = <<>> BY DEF Init
<1>3. PicOK(PowerUp(d), {}) BY EmptyIsSeq DEF PicOK, PowerUp, PicFields
<1>4. PicOK(InitNet(PowerUp(d)), {}) BY <1>3, PicInitNet DEF PicKept
<1>5. PicFields \subseteq DOMAIN pic /\ pic.tx = <<>>
  BY <1>1, <1>4 DEF PicOK, PicFields
<1>6. HostDown(host) /\ host.tx = <<>> BY <1>2, DownIsDown DEF Down
<1>7. Together(pic, host, toPic, toHost)
  <2>1. host.ipcp.state \notin {AckRcvd, AckSent, Opened}
    BY <1>6 DEF HostDown, Initial, AckRcvd, AckSent, Opened
  <2> QED BY <1>2, <2>1, NothingUnderWay
<1> QED BY <1>2, <1>5, <1>6, <1>7 DEF AddrInv, AddrState

LEMMA AddrNext == AddrInv /\ [Next]_vars => AddrInv'
<1> SUFFICES ASSUME AddrInv, [Next]_vars PROVE AddrInv' OBVIOUS
<1>1. CASE PicReceive BY <1>1, PicReceiveKeeps
<1>2. CASE PicTick BY <1>2, PicTickKeeps
<1>3. CASE PicDial BY <1>3, PicDialKeeps
<1>4. CASE HostDial BY <1>4, HostDialKeeps
<1>5. CASE HostReceive BY <1>5, HostReceiveKeeps
<1>6. CASE HostTick BY <1>6, HostTickKeeps
<1>7. CASE HostHangup BY <1>7, HostHangupKeeps
<1>8. CASE HostVanish BY <1>8, HostVanishKeeps
<1>9. CASE HostEcho BY <1>9, HostEchoKeeps
<1>10. CASE Lose BY <1>10, LoseKeeps
<1>11. CASE UNCHANGED vars BY <1>11 DEF vars, AddrInv
<1> QED BY <1>1, <1>2, <1>3, <1>4, <1>5, <1>6, <1>7, <1>8, <1>9, <1>10, <1>11 DEF Next

(* When both ends have opened IPCP and nothing is on the line, each has the *)
(* address the other has agreed to, for every number of calls, of tries and *)
(* of frames lost, and for either kind of build (ipcp_rx_handler).          *)
THEOREM AddressesHold == Spec => []AddressesAgreed
<1>1. AddrInv => AddressesAgreed
  BY DEF AddrInv, AddrState, HostUp, HostDown, Together, HostAddr, PicAddr, Settled,
     AddressesAgreed, NetOpen, Initial, Opened
<1> QED BY <1>1, AddrInit, AddrNext, PTL DEF Spec
=============================================================================
