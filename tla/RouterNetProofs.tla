--------------------------- MODULE RouterNetProofs ---------------------------
(* Datagrams reach the stations they are for with the sums they were given, *)
(* and what waits in the router is asked for, in every network of hosts,    *)
(* whatever is lost and whenever the timers run out.                        *)
EXTENDS RouterNet, ProofFacts, WellFoundedInduction

-----------------------------------------------------------------------------
(* Recursion *)

(* A set of numbers has a least one.                                        *)
LEMMA Least ==
  ASSUME NEW B \in SUBSET Nat, B # {} PROVE \E n \in B : \A m \in B : n <= m
<1> DEFINE R == OpToRel(<, Nat)
<1>1. IsWellFoundedOn(R, Nat) BY NatLessThanWellFounded
<1>2. R = {s \in Nat \X Nat : s[1] < s[2]} BY DEF OpToRel
<1> HIDE DEF R
<1>3. \E n \in B : \A m \in B : ~ (<<m, n>> \in R) BY <1>1, WFMin
<1>4. ASSUME NEW m \in Nat, NEW n \in Nat, m < n PROVE <<m, n>> \in R BY <1>2, <1>4
<1>5. PICK n \in B : \A m \in B : ~ (<<m, n>> \in R) BY <1>3
<1>6. ASSUME NEW m \in B PROVE n <= m
  <2>1. ~ (m < n) BY <1>4, <1>5
  <2> QED BY <2>1
<1> QED BY <1>6

(* So a set that has 0 and with every number the next has all.              *)
LEMMA AllNumbers ==
  ASSUME NEW T, 0 \in T, \A n \in Nat : n \in T => n + 1 \in T PROVE Nat \subseteq T
<1> DEFINE B == {n \in Nat : n \notin T}
<1> SUFFICES ASSUME B # {} PROVE FALSE OBVIOUS
<1>1. B \in SUBSET Nat OBVIOUS
<1>2. PICK n \in B : \A m \in B : n <= m BY <1>1, Least
<1>3. n # 0 OBVIOUS
<1>4. n - 1 \in Nat /\ n - 1 \notin B BY <1>2, <1>3
<1> QED BY <1>2, <1>4

(* The frames that reach a station are those of the frames sent that do.    *)
Reaches1(frames, s, k, g) ==
    g = [i \in 0..k |-> IF i = 0 THEN <<>>
                        ELSE IF Reaches(frames[i], s) THEN Append(g[i - 1], frames[i])
                        ELSE g[i - 1]]

LEMMA ReachesDefined ==
  ASSUME NEW frames, NEW s PROVE \A k \in Nat : \E g : Reaches1(frames, s, k, g)
<1> DEFINE T == {k \in Nat : \E g : Reaches1(frames, s, k, g)}
<1>1. 0 \in T
  <2> DEFINE g == [i \in 0..0 |-> <<>>]
  <2>1. Reaches1(frames, s, 0, g) BY DEF Reaches1
  <2> QED BY <2>1
<1>2. ASSUME NEW n \in Nat, n \in T PROVE n + 1 \in T
  <2>1. PICK g : Reaches1(frames, s, n, g) BY <1>2
  <2> DEFINE x == IF Reaches(frames[n + 1], s) THEN Append(g[n], frames[n + 1]) ELSE g[n]
             h == [i \in 0..(n + 1) |-> IF i = n + 1 THEN x ELSE g[i]]
  <2>2. \A i \in 0..n : h[i] = g[i] OBVIOUS
  <2>3. h[n + 1] = x OBVIOUS
  <2>4. \A i \in 0..n : g[i] = IF i = 0 THEN <<>>
                               ELSE IF Reaches(frames[i], s) THEN Append(g[i - 1], frames[i])
                               ELSE g[i - 1]
    BY <2>1 DEF Reaches1
  <2> DEFINE e == [i \in 0..(n + 1) |-> IF i = 0 THEN <<>>
                        ELSE IF Reaches(frames[i], s) THEN Append(h[i - 1], frames[i])
                        ELSE h[i - 1]]
  <2>5. ASSUME NEW i \in 0..(n + 1) PROVE h[i] = e[i]
    <3>1. CASE i = n + 1
      <4>1. i # 0 /\ i - 1 = n /\ h[i - 1] = g[n] BY <2>2, <3>1
      <4> QED BY <2>3, <3>1, <4>1
    <3>2. CASE i = 0 BY <2>2, <2>4, <3>2
    <3>3. CASE i \in 1..n
      <4>1. i - 1 \in 0..n /\ i \in 0..n /\ i # 0 BY <3>3
      <4>2. h[i - 1] = g[i - 1] /\ h[i] = g[i] BY <2>2, <4>1
      <4> HIDE DEF h
      <4> QED BY <2>4, <4>1, <4>2
    <3> QED BY <3>1, <3>2, <3>3
  <2>6. h = e
    <3> HIDE DEF x
    <3>1. DOMAIN h = 0..(n + 1) /\ DOMAIN e = 0..(n + 1) OBVIOUS
    <3>2. h = [i \in 0..(n + 1) |-> h[i]] OBVIOUS
    <3>3. e = [i \in 0..(n + 1) |-> e[i]] OBVIOUS
    <3> HIDE DEF h, e
    <3> QED BY <2>5, <3>2, <3>3
  <2>7. Reaches1(frames, s, n + 1, h) BY <2>6 DEF Reaches1
  <2> HIDE DEF h
  <2> QED BY <2>7
<1> HIDE DEF T
<1>3. Nat \subseteq T BY <1>1, <1>2, AllNumbers
<1> QED BY <1>3 DEF T

LEMMA Reached ==
  ASSUME NEW frames, IsSeq(frames), NEW s
  PROVE LET r == Reaching(frames, s) IN
        /\ IsSeq(r)
        /\ \A i \in DOMAIN r : \E j \in DOMAIN frames : r[i] = frames[j] /\ Reaches(frames[j], s)
        /\ \A j \in DOMAIN frames : Reaches(frames[j], s) => \E i \in DOMAIN r : r[i] = frames[j]
<1> DEFINE n == Len(frames)
           g == CHOOSE g : Reaches1(frames, s, n, g)
           S == {frames[j] : j \in DOMAIN frames}
           R == {frames[j] : j \in {j \in DOMAIN frames : Reaches(frames[j], s)}}
           Of(k) == {frames[j] : j \in {j \in 1..k : Reaches(frames[j], s)}}
           In(q) == {q[i] : i \in DOMAIN q}
           T == {k \in Nat : k <= n => g[k] \in Seq(R) /\ Of(k) \subseteq In(g[k])}
<1>1. frames \in Seq(S) /\ n \in Nat /\ DOMAIN frames = 1..n BY DEF IsSeq
<1>2. Reaching(frames, s) = g[n] BY DEF Reaching, Reaches1
<1>3. Reaches1(frames, s, n, g)
  <2>1. \E h : Reaches1(frames, s, n, h) BY <1>1, ReachesDefined
  <2> QED BY <2>1
<1> HIDE DEF g
<1>4. \A i \in 0..n : g[i] = IF i = 0 THEN <<>>
                             ELSE IF Reaches(frames[i], s) THEN Append(g[i - 1], frames[i])
                             ELSE g[i - 1]
  BY <1>3 DEF Reaches1
<1>5. 0 \in T
  <2>1. g[0] = <<>> BY <1>1, <1>4
  <2>2. Of(0) = {} OBVIOUS
  <2> HIDE DEF Of, In, R
  <2>3. g[0] \in Seq(R) /\ Of(0) \subseteq In(g[0]) BY <2>1, <2>2
  <2> QED BY <2>3
<1>6. ASSUME NEW k \in Nat, k \in T PROVE k + 1 \in T
  <2> SUFFICES ASSUME k + 1 <= n PROVE g[k + 1] \in Seq(R) /\ Of(k + 1) \subseteq In(g[k + 1])
    OBVIOUS
  <2> HIDE DEF n
  <2> DEFINE f == frames[k + 1]
  <2>1. k <= n /\ g[k] \in Seq(R) /\ Of(k) \subseteq In(g[k])
    <3> HIDE DEF Of, In, R
    <3> QED BY <1>1, <1>6
  <2>2. k + 1 \in 0..n /\ k + 1 # 0 /\ (k + 1) - 1 = k /\ k + 1 \in DOMAIN frames BY <1>1
  <2>3. g[k + 1] = IF Reaches(f, s) THEN Append(g[k], f) ELSE g[k] BY <1>4, <2>2
  <2>4. Of(k + 1) \subseteq Of(k) \cup IF Reaches(f, s) THEN {f} ELSE {} OBVIOUS
  <2>5. CASE Reaches(f, s)
    <3>1. f \in R BY <2>2, <2>5
    <3>2. g[k + 1] = Append(g[k], f) BY <2>3, <2>5
    <3> HIDE DEF R
    <3>3. Append(g[k], f) \in Seq(R) BY <2>1, <3>1
    <3>4. In(g[k]) \subseteq In(Append(g[k], f)) /\ f \in In(Append(g[k], f))
      <4> DEFINE q == g[k]
      <4>1. q \in Seq(R) BY <2>1
      <4> HIDE DEF q
      <4>2. Len(q) \in Nat /\ DOMAIN q = 1..Len(q) /\ DOMAIN Append(q, f) = 1..(Len(q) + 1)
        BY <3>1, <4>1
      <4>3. \A i \in 1..Len(q) : Append(q, f)[i] = q[i] BY <3>1, <4>1
      <4>4. Append(q, f)[Len(q) + 1] = f BY <3>1, <4>1
      <4>5. In(q) \subseteq In(Append(q, f)) BY <4>2, <4>3
      <4>6. f \in In(Append(q, f)) BY <4>2, <4>4
      <4> QED BY <4>5, <4>6 DEF q
    <3> HIDE DEF Of, In
    <3> QED BY <2>1, <2>4, <2>5, <3>2, <3>3, <3>4
  <2>6. CASE ~Reaches(f, s) BY <2>1, <2>3, <2>4, <2>6
  <2> QED BY <2>5, <2>6
<1> HIDE DEF T
<1>7. n \in T BY <1>1, <1>5, <1>6, AllNumbers
<1>8. g[n] \in Seq(R) /\ Of(n) \subseteq In(g[n])
  <2> HIDE DEF Of, In, R, n
  <2> QED BY <1>1, <1>7 DEF T
<1> DEFINE r == g[n]
<1> HIDE DEF n
<1>9. Len(r) \in Nat /\ DOMAIN r = 1..Len(r) /\ \A i \in DOMAIN r : r[i] \in R
  <2> HIDE DEF R
  <2> QED BY <1>8
<1>10. \A i \in DOMAIN r : \E j \in DOMAIN frames : r[i] = frames[j] /\ Reaches(frames[j], s)
  BY <1>9
<1>11. \A j \in DOMAIN frames : Reaches(frames[j], s) => \E i \in DOMAIN r : r[i] = frames[j]
  BY <1>1, <1>8
<1> QED BY <1>2, <1>8, <1>10, <1>11, SeqIsSeq

-----------------------------------------------------------------------------
(* The invariant.  c is the case looked at. *)

Addresses(c) == DOMAIN Subnet(c.hosts) \ {"rS"}
First(c, s) == gate_ip(c.hosts[s])
Asks(c, s) == s \in DOMAIN c.hosts /\ c.hosts[s].app # "arpscan"

(* A frame that a station sends: its own address is in it, or that of the   *)
(* station it is forwarded for; it goes to the station it is for or to the  *)
(* router; and hosts are answered with the address they ask for.            *)
Origin(c, f) ==
    \/ f.src \in DOMAIN c.hosts /\ f.sip = f.src /\ f.net = c.hosts[f.src].net
    \/ f.src = "router" /\ (f.pcol = "arp" => f.sip = RouterIp[f.net])
IpOK(c, net, src, sip, dip, dst) ==
    /\ sip \in Addresses(c) /\ dip \in Addresses(c)
    /\ net \in Ethers => dst \in {dip, "router"}
    /\ net \notin Ethers /\ src = "router" => dip \in DOMAIN c.hosts /\ c.hosts[dip].net = net
ArpOK(c, src, op, sip, dip) ==
    /\ op = "req" /\ Asks(c, src) => dip = First(c, src)
    /\ op = "resp" /\ Asks(c, dip) => sip = First(c, dip)
Sound(c, f) ==
    /\ f.net \in {"A", "B", "S"} /\ f.pcol \in {"arp", "ip"} /\ Origin(c, f)
    /\ f.pcol = "ip" => IpOK(c, f.net, f.src, f.sip, f.dip, f.dst)
    /\ f.pcol = "arp" => ArpOK(c, f.src, f.op, f.sip, f.dip)
AllSound(c, q) == IsSeq(q) /\ \A i \in DOMAIN q : Sound(c, q[i])

(* A host knows nothing, or the station for which it has asked, or the      *)
(* router.                                                                  *)
Given == {"name", "net", "neighbours", "app"}
Learnt == {"mac", "cstate", "arped", "tries"}
Ready(h) == (h.app = "datagram" /\ h.cstate = ARP_RX) \/ (h.app = "ping" /\ h.arped)
States == {ARP_TX, ARP_RX, CLIENT_DONE}
HostOK(c, s, h) ==
    /\ s \in DOMAIN c.hosts
    /\ DOMAIN h = DOMAIN c.hosts[s]
    /\ \A x \in Given : h[x] = c.hosts[s][x]
    /\ Asks(c, s) => h.remip = c.hosts[s].remip
    /\ h.cstate \in States /\ h.tries \in Nat
    /\ h.net \in Ethers /\ Ready(h) => h.mac \in {h.remip, "router"}
    /\ AllSound(c, h.tx)

-----------------------------------------------------------------------------
(* Sending *)

Only(n, m, F) == DOMAIN m = DOMAIN n /\ \A x \in DOMAIN n \ F : m[x] = n[x]

LEMMA AllSoundBoth ==
  ASSUME NEW c, NEW s, NEW t, AllSound(c, s), AllSound(c, t) PROVE AllSound(c, s \o t)
<1>1. IsSeq(s) /\ IsSeq(t) BY DEF AllSound
<1>2. IsSeq(s \o t) BY <1>1, Concat
<1>3. ASSUME NEW i \in DOMAIN (s \o t) PROVE Sound(c, (s \o t)[i])
  <2>1. CASE \E j \in DOMAIN s : (s \o t)[i] = s[j]
    <3>1. PICK j \in DOMAIN s : (s \o t)[i] = s[j] BY <2>1
    <3> QED BY <3>1, Zenon DEF AllSound
  <2>2. CASE \E j \in DOMAIN t : (s \o t)[i] = t[j]
    <3>1. PICK j \in DOMAIN t : (s \o t)[i] = t[j] BY <2>2
    <3> QED BY <3>1, Zenon DEF AllSound
  <2> QED BY <1>1, <2>1, <2>2, InConcat
<1> QED BY <1>2, <1>3 DEF AllSound

LEMMA Greatest ==
  ASSUME NEW k \in Nat, NEW S \in SUBSET (0..k), S # {}
  PROVE Max(S) \in S /\ \A y \in S : Max(S) >= y
<1> DEFINE B == {k - x : x \in S}
<1>1. B \in SUBSET Nat /\ B # {}
  <2>1. \A x \in S : x \in 0..k /\ k - x \in Nat OBVIOUS
  <2>2. B \subseteq Nat BY <2>1
  <2>3. PICK x : x \in S OBVIOUS
  <2>4. k - x \in B BY <2>3
  <2> QED BY <2>2, <2>4
<1>2. PICK n \in B : \A m \in B : n <= m BY <1>1, Least
<1>3. PICK x \in S : n = k - x BY <1>2
<1>4. \A y \in S : x >= y
  <2> TAKE y \in S
  <2>1. k - x <= k - y BY <1>2, <1>3
  <2> QED BY <2>1
<1>5. \E z \in S : \A y \in S : z >= y BY <1>4
<1> QED BY <1>5 DEF Max

(* Which fragment is the last                                               *)
LEMMA LastFrag ==
  ASSUME NEW m, NEW len
  PROVE LET last == Max({1} \cup {j \in 1..MAXGEN : m * (j - 1) < len})
        IN /\ last \in Nat
           /\ m \in {1, 2} /\ len \in Nat /\ len <= 2 * m => last = IF len <= m THEN 1 ELSE 2
<1> DEFINE S == {1} \cup {j \in 1..MAXGEN : m * (j - 1) < len}
<1>1. S \in SUBSET (0..MAXGEN) /\ S # {} /\ MAXGEN \in Nat BY DEF MAXGEN
<1>2. \A j \in S : j \in Nat OBVIOUS
<1>3. m \in {1, 2} /\ len \in Nat => 1 \in S /\ (2 \in S <=> m < len) BY DEF MAXGEN
<1>4. ASSUME m \in {1, 2}, len \in Nat, len <= 2 * m, NEW j \in S PROVE j \in {1, 2}
  <2>1. j = 1 \/ (j \in 1..MAXGEN /\ m * (j - 1) < len) OBVIOUS
  <2> QED BY <1>4, <2>1 DEF MAXGEN
<1> HIDE DEF S
<1>5. Max(S) \in S /\ \A j \in S : Max(S) >= j BY <1>1, Greatest
<1>6. Max(S) \in Nat BY <1>2, <1>5
<1>7. m \in {1, 2} /\ len \in Nat /\ len <= 2 * m => Max(S) = IF len <= m THEN 1 ELSE 2
  BY <1>3, <1>4, <1>5
<1> QED BY <1>6, <1>7 DEF S

LEMMA ListIsSeq ==
  ASSUME NEW n \in Nat, NEW q, q = [j \in 1..n |-> q[j]] PROVE IsSeq(q) /\ Len(q) = n
<1> DEFINE S == {q[j] : j \in DOMAIN q}
<1>1. \A j \in 1..n : q[j] \in S OBVIOUS
<1> HIDE DEF S
<1>2. q \in Seq(S) /\ Len(q) = n BY <1>1
<1> QED BY <1>2 DEF IsSeq, S

LEMMA MakeIp ==
  ASSUME NEW c, NEW n, {"name", "tx", "ident"} \subseteq DOMAIN n, AllSound(c, n.tx),
         NEW net \in {"A", "B", "S"}, NEW sip, NEW dip, NEW mac, NEW prot, NEW data,
         \/ n.name \in DOMAIN c.hosts /\ sip = n.name /\ net = c.hosts[n.name].net
         \/ n.name = "router",
         IpOK(c, net, n.name, sip, dip, mac)
  PROVE LET m == make_ip(n, net, sip, dip, mac, prot, data)
        IN Only(n, m, {"tx", "ident"}) /\ AllSound(c, m.tx)
<1> DEFINE m == Mtu(net)
           last == Max({1} \cup {j \in 1..MAXGEN : m * (j - 1) < Len(data)})
           Frag(j) ==
             [net |-> net, src |-> n.name, dst |-> mac, pcol |-> "ip", sip |-> sip,
              dip |-> dip, prot |-> prot, ident |-> n.ident, oset |-> m * (j - 1),
              more |-> j < last,
              data |-> Part(data, m * ((j * (j - 1)) \div 2), Min({m, Len(data) - m * (j - 1)}))]
           out == [j \in 1..last |-> Frag(j)]
           k == make_ip(n, net, sip, dip, mac, prot, data)
<1>1. k = [n EXCEPT !.tx = @ \o out, !.ident = @ + last] BY DEF make_ip
<1>2. last \in Nat BY LastFrag
<1>3. \A j : Sound(c, Frag(j)) BY DEF Sound, Origin
<1> HIDE DEF Frag, last, m
<1>4. AllSound(c, out)
  <2>1. IsSeq(out) BY <1>2, ListIsSeq
  <2> QED BY <1>3, <2>1 DEF AllSound
<1> HIDE DEF out
<1>5. AllSound(c, n.tx \o out) BY <1>4, AllSoundBoth
<1>6. k.tx = n.tx \o out BY <1>1
<1>7. Only(n, k, {"tx", "ident"}) BY <1>1 DEF Only
<1> QED BY <1>5, <1>6, <1>7

LEMMA MakeArp ==
  ASSUME NEW c, NEW n, {"name", "tx"} \subseteq DOMAIN n, AllSound(c, n.tx),
         NEW net \in {"A", "B", "S"}, NEW op, NEW sip, NEW dip, NEW mac,
         \/ n.name \in DOMAIN c.hosts /\ sip = n.name /\ net = c.hosts[n.name].net
         \/ n.name = "router" /\ sip = RouterIp[net],
         ArpOK(c, n.name, op, sip, dip)
  PROVE LET m == make_arp(n, net, op, sip, dip, mac)
        IN Only(n, m, {"tx"}) /\ AllSound(c, m.tx)
<1> DEFINE f == [net |-> net, src |-> n.name, dst |-> mac, pcol |-> "arp",
                 op |-> op, sip |-> sip, dip |-> dip]
           m == make_arp(n, net, op, sip, dip, mac)
<1>1. m = [n EXCEPT !.tx = Append(@, f)] BY DEF make_arp
<1>2. Sound(c, f) BY DEF Sound, Origin
<1> HIDE DEF f
<1>3. AllSound(c, Append(n.tx, f)) BY <1>2, Appended DEF AllSound
<1>4. m.tx = Append(n.tx, f) /\ Only(n, m, {"tx"}) BY <1>1 DEF Only
<1> QED BY <1>3, <1>4

-----------------------------------------------------------------------------
(* The hosts *)

(* No host is asked to talk to the router's address on the line.            *)
Setup(c) == c \in Cases /\ \A s \in DOMAIN c.hosts : c.hosts[s].remip # "rS"

HostFields ==
    {"name", "net", "neighbours", "app", "off", "tx", "ident", "frags", "badsum", "remip",
     "mac", "len", "port", "cstate", "lastcstate", "tries", "shown", "arped", "flood",
     "txseq", "rxseq", "txcount", "rxcount", "errcount", "scan", "listed"}

LEMMA HostFacts ==
  ASSUME NEW c, Setup(c), NEW s \in DOMAIN c.hosts
  PROVE LET h == c.hosts[s] IN
        /\ s \notin Others /\ h.net \in {"A", "B", "S"}
        /\ h.app \in {"datagram", "ping", "arpscan"}
        /\ DOMAIN h = HostFields /\ h.name = s /\ h.tx = <<>>
        /\ h.net \in Ethers => ~Ready(h)
        /\ h.cstate \in States /\ h.tries = 0
        /\ h.remip # "none" => h.remip \in Addresses(c)
        /\ h.remip \notin {"router", bcast}
        /\ h.len \in Nat /\ (h.app = "ping" => h.len <= 2 * Mtu(h.net))
<1> DEFINE h == c.hosts[s]
<1>1. /\ s \notin Others /\ Starts(s, h)
      /\ h.remip \in (DOMAIN c.hosts \cup Others) \ {"router", bcast}
  BY NetAssumption DEF Setup
<1>2. h.remip # "rS" BY DEF Setup
<1>3. DOMAIN Subnet(c.hosts) = DOMAIN c.hosts \cup {"rA", "rB", "rS", Nobody, "far"}
  BY DEF Subnet, Fixed, Nobody
<1>4. h.remip # "none" => h.remip \in Addresses(c) BY <1>1, <1>2, <1>3 DEF Addresses, Others
<1>5. h.net \in {"A", "B", "S"} /\ h.app \in {"datagram", "ping", "arpscan"}
  BY <1>1 DEF Starts
<1> DEFINE g == Host(s, h.net, h.neighbours, h.app)
<1>6. h = [g EXCEPT !.remip = h.remip, !.port = h.port, !.len = h.len,
                    !.flood = h.flood, !.scan = h.scan]
  BY <1>1 DEF Starts
<1>7. DOMAIN g = HostFields /\ g.name = s /\ g.tx = <<>> /\ g.app = h.app /\ g.tries = 0
      /\ g.cstate = (IF h.net \in Ethers THEN ARP_TX ELSE ARP_RX)
      /\ g.arped = (h.net \notin Ethers)
  BY DEF Host, HostFields
<1> HIDE DEF g, h
<1>8. DOMAIN h = HostFields BY <1>6, <1>7
<1>9. h.name = s /\ h.tx = <<>> /\ h.tries = 0 /\ h.cstate = g.cstate /\ h.arped = g.arped
  BY <1>6, <1>7 DEF HostFields
<1>10. ASSUME h.net \in Ethers PROVE ~Ready(h)
  <2>1. h.cstate = ARP_TX /\ h.arped = FALSE BY <1>7, <1>9, <1>10
  <2> QED BY <2>1 DEF Ready, ARP_TX, ARP_RX
<1>11. h.cstate \in States BY <1>7, <1>9 DEF States
<1>12. h.len \in Nat /\ (h.app = "ping" => h.len <= 2 * Mtu(h.net))
  BY <1>1 DEF Starts, MAXGEN
<1> QED BY <1>1, <1>4, <1>5, <1>8, <1>9, <1>10, <1>11, <1>12 DEF h

LEMMA AddressFacts ==
  ASSUME NEW c, Setup(c)
  PROVE /\ Addresses(c) = DOMAIN c.hosts \cup {"rA", "rB", Nobody, "far"}
        /\ \A s \in DOMAIN c.hosts : Subnet(c.hosts)[s] = c.hosts[s].net
        /\ Subnet(c.hosts)["rA"] = "A" /\ Subnet(c.hosts)["rB"] = "B"
        /\ Subnet(c.hosts)[Nobody] = "B" /\ Subnet(c.hosts)["far"] = "none"
<1>1. {"rA", "rB", "rS", Nobody, "far"} \cap DOMAIN c.hosts = {} /\ "rS" \notin DOMAIN c.hosts
  BY NetAssumption DEF Setup, Others
<1>2. DOMAIN Subnet(c.hosts) = DOMAIN c.hosts \cup {"rA", "rB", "rS", Nobody, "far"}
  BY DEF Subnet, Fixed, Nobody
<1>3. Addresses(c) = DOMAIN c.hosts \cup {"rA", "rB", Nobody, "far"}
  BY <1>1, <1>2 DEF Addresses, Nobody
<1>4. \A s \in DOMAIN c.hosts : Subnet(c.hosts)[s] = c.hosts[s].net BY DEF Subnet
<1>5. Subnet(c.hosts)["rA"] = "A" /\ Subnet(c.hosts)["rB"] = "B"
      /\ Subnet(c.hosts)[Nobody] = "B" /\ Subnet(c.hosts)["far"] = "none"
  BY <1>1 DEF Subnet, Fixed, Nobody
<1> QED BY <1>3, <1>4, <1>5

(* A host of which nothing has changed that matters, but what it has sent.  *)
LEMMA HostSame ==
  ASSUME NEW c, NEW s, NEW h, HostOK(c, s, h), NEW m, NEW F,
         F \cap (Given \cup Learnt \cup {"remip"}) = {}, Only(h, m, F), AllSound(c, m.tx),
         Setup(c)
  PROVE HostOK(c, s, m)
<1>1. DOMAIN h = HostFields BY HostFacts DEF HostOK
<1>2. Given \cup Learnt \cup {"remip"} \subseteq HostFields
  BY DEF HostFields, Given, Learnt
<1>3. \A x \in Given \cup Learnt \cup {"remip"} : m[x] = h[x] BY <1>1, <1>2 DEF Only
<1> QED BY <1>1, <1>3 DEF HostOK, Only, Given, Learnt, Ready

(* What a host sends: a request, an answer, and datagrams.                  *)
LEMMA ArpReqKeeps ==
  ASSUME NEW c, Setup(c), NEW s, NEW h, HostOK(c, s, h), NEW dip,
         Asks(c, s) => dip = First(c, s)
  PROVE HostOK(c, s, ArpReq(h, dip)) /\ Only(h, ArpReq(h, dip), {"tx"})
<1> DEFINE m == ArpReq(h, dip)
<1>1. s \in DOMAIN c.hosts /\ h.name = s /\ h.net = c.hosts[s].net /\ h.net \in {"A", "B", "S"}
      /\ {"name", "tx"} \subseteq DOMAIN h /\ AllSound(c, h.tx)
  BY HostFacts DEF HostOK, Given, HostFields
<1>2. ArpOK(c, h.name, "req", h.name, dip) BY <1>1 DEF ArpOK
<1>3. m = make_arp(h, h.net, "req", h.name, dip, bcast) BY DEF ArpReq
<1>4. Only(h, m, {"tx"}) /\ AllSound(c, m.tx) BY <1>1, <1>2, <1>3, MakeArp
<1> HIDE DEF m
<1>5. {"tx"} \cap (Given \cup Learnt \cup {"remip"}) = {} BY DEF Given, Learnt
<1> QED BY <1>4, <1>5, HostSame DEF m

LEMMA ArpReplyKeeps ==
  ASSUME NEW c, Setup(c), NEW s, NEW h, HostOK(c, s, h), NEW f, Sound(c, f), f.pcol = "arp",
         Asked(h, f)
  PROVE HostOK(c, s, ArpReply(h, f)) /\ Only(h, ArpReply(h, f), {"tx"})
<1> DEFINE m == ArpReply(h, f)
<1>1. s \in DOMAIN c.hosts /\ h.name = s /\ h.net = c.hosts[s].net /\ h.net \in {"A", "B", "S"}
      /\ {"name", "tx"} \subseteq DOMAIN h /\ AllSound(c, h.tx)
  BY HostFacts DEF HostOK, Given, HostFields
<1>2. ArpOK(c, h.name, "resp", h.name, f.sip)
  <2> SUFFICES ASSUME Asks(c, f.sip) PROVE h.name = First(c, f.sip) BY DEF ArpOK
  <2>1. f.sip \in DOMAIN c.hosts /\ f.sip \notin {"rA", "rB", "rS"}
    BY HostFacts DEF Asks, Others
  <2>2. RouterIp[f.net] \in {"rA", "rB", "rS"} BY DEF Sound, RouterIp
  <2>3. f.src = f.sip BY <2>1, <2>2 DEF Sound, Origin
  <2> QED BY <1>1, <2>3 DEF Sound, ArpOK, Asked
<1>3. m = make_arp(h, h.net, "resp", h.name, f.sip, f.src) BY DEF ArpReply
<1>4. Only(h, m, {"tx"}) /\ AllSound(c, m.tx) BY <1>1, <1>2, <1>3, MakeArp
<1> HIDE DEF m
<1>5. {"tx"} \cap (Given \cup Learnt \cup {"remip"}) = {} BY DEF Given, Learnt
<1> QED BY <1>4, <1>5, HostSame DEF m

LEMMA SendKeeps ==
  ASSUME NEW c, Setup(c), NEW s, NEW h, HostOK(c, s, h), NEW dip \in Addresses(c), NEW mac,
         h.net \in Ethers => mac \in {dip, "router"}, NEW m
  PROVE HostOK(c, s, Send(h, h.net, h.name, dip, mac, m))
<1> DEFINE n == Send(h, h.net, h.name, dip, mac, m)
           F == {"tx", "ident"}
<1>1. s \in DOMAIN c.hosts /\ h.name = s /\ h.net = c.hosts[s].net /\ h.net \in {"A", "B", "S"}
      /\ {"name", "tx", "ident"} \subseteq DOMAIN h /\ AllSound(c, h.tx) /\ s # "router"
  BY HostFacts DEF HostOK, Given, HostFields, Others
<1>2. s \in Addresses(c) BY <1>1, AddressFacts
<1>3. IpOK(c, h.net, h.name, h.name, dip, mac) BY <1>1, <1>2 DEF IpOK
<1>4. n = make_ip(h, h.net, h.name, dip, mac, m.prot, Whole(m)) BY DEF Send
<1>5. Only(h, n, F) /\ AllSound(c, n.tx) BY <1>1, <1>3, <1>4, MakeIp
<1> HIDE DEF n
<1>6. F \cap (Given \cup Learnt \cup {"remip"}) = {} BY DEF Given, Learnt
<1> HIDE DEF F
<1> QED BY <1>5, <1>6, HostSame DEF n

LEMMA ReplyKeeps ==
  ASSUME NEW c, Setup(c), NEW s, NEW h, HostOK(c, s, h), NEW f, Sound(c, f), f.pcol = "ip",
         f.net = h.net
  PROVE /\ \A m : HostOK(c, s, Reply(h, f, m))
        /\ \A sport, dport, text, len :
             HostOK(c, s, make_udp(h, f.sip, f.src, sport, dport, text, len))
<1>1. f.sip \in Addresses(c) BY DEF Sound, IpOK
<1>2. h.net \in Ethers => f.src \in {f.sip, "router"} BY DEF Sound, Origin
<1>3. \A m : HostOK(c, s, Reply(h, f, m)) BY <1>1, <1>2, SendKeeps DEF Reply
<1>4. ASSUME NEW sport, NEW dport, NEW text, NEW len
      PROVE HostOK(c, s, make_udp(h, f.sip, f.src, sport, dport, text, len))
  BY <1>1, <1>2, SendKeeps DEF make_udp
<1> QED BY <1>3, <1>4

(* What a host does with the parts of a datagram.                           *)
LEMMA IsIpOnly ==
  ASSUME NEW n, "frags" \in DOMAIN n, NEW f PROVE Only(n, is_ip(n, f).node, {"frags"})
<1>1. Only(n, n, {"frags"}) BY DEF Only
<1>2. is_ip(n, f).node = n \/ \E fr : is_ip(n, f).node = [n EXCEPT !.frags = fr]
  BY DEF is_ip, defrag_ip
<1>3. ASSUME NEW fr PROVE Only(n, [n EXCEPT !.frags = fr], {"frags"}) BY DEF Only
<1> QED BY <1>1, <1>2, <1>3

LEMMA IsIpKeeps ==
  ASSUME NEW c, Setup(c), NEW s, NEW h, HostOK(c, s, h), NEW f
  PROVE HostOK(c, s, CheckSum(is_ip(h, f).node, f, is_ip(h, f).data))
<1> DEFINE k == is_ip(h, f).node
           n == CheckSum(k, f, is_ip(h, f).data)
           F == {"frags", "badsum"}
<1>1. {"frags", "tx"} \subseteq DOMAIN h BY HostFacts DEF HostOK, HostFields
<1>2. Only(h, k, {"frags"}) BY <1>1, IsIpOnly
<1> HIDE DEF k
<1>3. Only(k, n, {"badsum"}) BY DEF CheckSum, Only
<1> HIDE DEF n
<1>4. Only(h, n, F) /\ n.tx = h.tx BY <1>1, <1>2, <1>3 DEF Only
<1>5. F \cap (Given \cup Learnt \cup {"remip"}) = {} BY DEF Given, Learnt
<1>6. AllSound(c, n.tx) BY <1>4 DEF HostOK
<1> HIDE DEF F
<1> QED BY <1>4, <1>5, <1>6, HostSame DEF n, k

LEMMA Learns ==
  ASSUME NEW c, Setup(c), NEW s, NEW h, HostOK(c, s, h), NEW f, Sound(c, f),
         f.src \in {h.remip, "router"},
         NEW m, Only(h, m, {"mac", "cstate", "arped"}), m.mac = f.src, m.cstate \in States
  PROVE HostOK(c, s, m)
<1>1. /\ s \in DOMAIN c.hosts /\ DOMAIN m = DOMAIN c.hosts[s]
      /\ \A x \in Given : m[x] = c.hosts[s][x]
      /\ m.remip = h.remip /\ m.tx = h.tx /\ m.tries = h.tries
  <2>1. DOMAIN h = HostFields BY HostFacts DEF HostOK
  <2>2. Given \cup {"remip", "tx", "tries"} \subseteq DOMAIN h \ {"mac", "cstate", "arped"}
    BY <2>1 DEF Given, HostFields
  <2>3. \A x \in Given \cup {"remip", "tx", "tries"} : m[x] = h[x] BY <2>2 DEF Only
  <2> QED BY <2>3 DEF HostOK, Only
<1> QED BY <1>1 DEF HostOK

LEMMA Answered ==
  ASSUME NEW c, Setup(c), NEW s \in DOMAIN c.hosts, NEW f, Sound(c, f),
         f.sip \in {c.hosts[s].remip, RouterIp[c.hosts[s].net]}, f.pcol = "arp"
  PROVE f.src \in {c.hosts[s].remip, "router"}
<1>1. CASE f.src \in DOMAIN c.hosts /\ f.sip = f.src
  <2>1. f.src \notin {"rA", "rB", "rS"} BY <1>1, HostFacts DEF Others
  <2>2. RouterIp[c.hosts[s].net] \in {"rA", "rB", "rS"}
    <3>1. c.hosts[s].net \in {"A", "B", "S"} BY HostFacts
    <3> QED BY <3>1 DEF RouterIp
  <2> QED BY <1>1, <2>1, <2>2
<1> QED BY <1>1 DEF Sound, Origin

LEMMA RxKeeps ==
  ASSUME NEW c, Setup(c), NEW s, NEW h, HostOK(c, s, h), NEW f, Sound(c, f), f.net = h.net
  PROVE HostOK(c, s, Rx(h, f))
<1>1. /\ s \in DOMAIN c.hosts /\ h.name = s /\ h.net = c.hosts[s].net /\ h.app = c.hosts[s].app
      /\ h.neighbours = c.hosts[s].neighbours
      /\ h.app \in {"datagram", "ping", "arpscan"} /\ f.pcol \in {"arp", "ip"}
      /\ DOMAIN h = HostFields
  BY HostFacts DEF HostOK, Given, Sound
<1>2. First(c, s) \in {c.hosts[s].remip, RouterIp[c.hosts[s].net]} BY DEF First, gate_ip, Gate
<1>3. h.app # "arpscan" => h.remip = c.hosts[s].remip BY <1>1 DEF HostOK, Asks
<1>4. CASE f.pcol = "arp"
  <2>1. Asked(h, f) => HostOK(c, s, ArpReply(h, f)) /\ Only(h, ArpReply(h, f), {"tx"})
    BY <1>4, ArpReplyKeeps
  <2>2. CASE h.app = "datagram"
    <3> DEFINE m == [h EXCEPT !.mac = f.src, !.cstate = ARP_RX]
    <3>1. ASSUME f.op = "resp", f.dip = h.name PROVE HostOK(c, s, m)
      <4>1. f.sip = First(c, s) BY <1>1, <1>4, <2>2, <3>1 DEF Sound, ArpOK, Asks
      <4>2. f.src \in {h.remip, "router"} BY <1>1, <1>2, <1>3, <1>4, <2>2, <4>1, Answered
      <4>3. Only(h, m, {"mac", "cstate", "arped"}) /\ m.mac = f.src /\ m.cstate \in States
        BY <1>1 DEF Only, HostFields, States
      <4> HIDE DEF m
      <4> QED BY <4>2, <4>3, Learns
    <3>2. DatagramArp(h, f) = h \/ (Asked(h, f) /\ DatagramArp(h, f) = ArpReply(h, f))
          \/ (f.op = "resp" /\ f.dip = h.name /\ DatagramArp(h, f) = m)
      BY DEF DatagramArp
    <3>3. HostOK(c, s, DatagramArp(h, f)) BY <2>1, <3>1, <3>2
    <3> QED BY <1>4, <2>2, <3>3 DEF Rx
  <2>3. CASE h.app = "ping"
    <3> DEFINE m == [h EXCEPT !.mac = f.src, !.arped = TRUE]
    <3>1. ASSUME f.op = "resp", f.sip = h.remip PROVE HostOK(c, s, m)
      <4>1. f.src \in {h.remip, "router"} BY <1>1, <1>3, <1>4, <2>3, <3>1, Answered
      <4>2. Only(h, m, {"mac", "cstate", "arped"}) /\ m.mac = f.src /\ m.cstate \in States
        BY <1>1 DEF Only, HostFields, HostOK
      <4> HIDE DEF m
      <4> QED BY <4>1, <4>2, Learns
    <3>2. PingArp(h, f) = h \/ (Asked(h, f) /\ PingArp(h, f) = ArpReply(h, f))
          \/ (f.op = "resp" /\ f.sip = h.remip /\ PingArp(h, f) = m)
      BY DEF PingArp
    <3>3. HostOK(c, s, PingArp(h, f)) BY <2>1, <3>1, <3>2
    <3> QED BY <1>4, <2>3, <3>3 DEF Rx
  <2>4. CASE h.app = "arpscan"
    <3>1. ASSUME NEW q, HostOK(c, s, q), NEW m, Only(q, m, {"remip", "listed"})
          PROVE HostOK(c, s, m)
      <4>1. DOMAIN q = HostFields BY HostFacts, <3>1 DEF HostOK
      <4>2. \A x \in Given \cup {"tx", "mac", "cstate", "arped", "tries"} : m[x] = q[x]
        BY <3>1, <4>1 DEF Only, HostFields, Given
      <4>3. ~Asks(c, s) BY <1>1, <2>4 DEF Asks
      <4>4. m.app = "arpscan" BY <1>1, <2>4, <3>1, <4>2 DEF HostOK, Given
      <4>5. ~Ready(m) BY <4>4 DEF Ready
      <4>6. \A x \in Given : m[x] = c.hosts[s][x] BY <3>1, <4>2 DEF HostOK
      <4>7. /\ DOMAIN m = DOMAIN c.hosts[s] /\ m.tx = q.tx
            /\ m.cstate = q.cstate /\ m.tries = q.tries
        BY <3>1, <4>2 DEF HostOK, Only
      <4> QED BY <1>1, <3>1, <4>3, <4>5, <4>6, <4>7 DEF HostOK
    <3> DEFINE m == [h EXCEPT !.listed = @ \cup {f.sip}]
               a == ArpReply(h, f)
               k == [a EXCEPT !.remip = f.sip]
    <3>2. Only(h, m, {"remip", "listed"}) BY DEF Only
    <3>3. HostOK(c, s, m) BY <3>1, <3>2
    <3> HIDE DEF a
    <3>4. Only(a, k, {"remip", "listed"}) BY DEF Only
    <3>5. Asked(h, f) => HostOK(c, s, k) BY <2>1, <3>1, <3>4 DEF a
    <3>6. ArpscanArp(h, f) \in {h, m} \/ (Asked(h, f) /\ ArpscanArp(h, f) = k)
      BY DEF ArpscanArp, a
    <3> HIDE DEF m, k
    <3>7. HostOK(c, s, ArpscanArp(h, f)) BY <3>3, <3>5, <3>6
    <3> QED BY <1>4, <2>4, <3>7 DEF Rx
  <2> QED BY <1>1, <2>2, <2>3, <2>4
<1>5. CASE f.pcol = "ip"
  <2> DEFINE r == is_ip(h, f)
             n == CheckSum(r.node, f, r.data)
             msg == Message(r.data)
  <2>1. HostOK(c, s, n) BY IsIpKeeps
  <2>2. n.net = h.net BY <1>1, <2>1 DEF HostOK, Given
  <2> HIDE DEF n
  <2>3. /\ \A m : HostOK(c, s, Reply(n, f, m))
        /\ \A sport, dport, text, len :
             HostOK(c, s, make_udp(n, f.sip, f.src, sport, dport, text, len))
    BY <1>5, <2>1, <2>2, ReplyKeeps
  <2>4. CASE h.app = "datagram"
    <3>1. HostOK(c, s, udp_receive(n, f, msg))
      <4> DEFINE m == [n EXCEPT !.shown = msg.text, !.cstate = CLIENT_DONE]
      <4>1. HostOK(c, s, m)
        <5>1. DOMAIN n = HostFields BY HostFacts, <2>1 DEF HostOK
        <5>2. Only(n, m, {"shown", "cstate"}) /\ m.cstate = CLIENT_DONE
          BY <5>1 DEF Only, HostFields
        <5> HIDE DEF m
        <5>3. \A x \in Given \cup {"remip", "tx", "mac", "arped", "tries"} : m[x] = n[x]
          BY <5>1, <5>2 DEF Only, HostFields, Given
        <5>4. m.app = n.app /\ m.arped = n.arped /\ m.net = n.net BY <5>3 DEF Given
        <5>5. Ready(m) => Ready(n) BY <5>2, <5>4 DEF Ready, CLIENT_DONE, ARP_RX
        <5>6. \A x \in Given : m[x] = c.hosts[s][x] BY <2>1, <5>3 DEF HostOK
        <5>7. m.remip = n.remip /\ m.tx = n.tx /\ m.mac = n.mac /\ m.tries = n.tries BY <5>3
        <5>8. m.cstate \in States BY <5>2 DEF States
        <5> QED BY <2>1, <5>2, <5>4, <5>5, <5>6, <5>7, <5>8 DEF HostOK, Only
      <4> HIDE DEF m
      <4> QED BY <2>3, <4>1 DEF udp_receive, m
    <3>2. HostOK(c, s, DatagramIp(h, f))
      <4>1. DatagramIp(h, f) \in {Reply(n, f, EchoReply(msg)), n, udp_receive(n, f, msg)}
        BY DEF DatagramIp, n
      <4> QED BY <2>1, <2>3, <3>1, <4>1
    <3> QED BY <1>5, <2>4, <3>2 DEF Rx
  <2>5. CASE h.app = "ping"
    <3> DEFINE F == {"rxseq", "rxcount", "errcount"}
    <3>1. ASSUME NEW m, Only(n, m, F) PROVE HostOK(c, s, m)
      <4>1. F \cap (Given \cup Learnt \cup {"remip"}) = {} BY DEF Given, Learnt
      <4>2. m.tx = n.tx
        <5>1. DOMAIN n = HostFields BY HostFacts, <2>1 DEF HostOK
        <5> QED BY <3>1, <5>1 DEF Only, HostFields
      <4>3. AllSound(c, m.tx) BY <2>1, <4>2 DEF HostOK
      <4> HIDE DEF F
      <4> QED BY <2>1, <3>1, <4>1, <4>3, HostSame
    <3> DEFINE m1 == [n EXCEPT !.rxseq = msg.seq, !.rxcount = @ + 1]
               m2 == [n EXCEPT !.rxseq = msg.seq, !.errcount = @ + 1]
    <3>2. Only(n, m1, F) /\ Only(n, m2, F) BY DEF Only
    <3>3. PingIp(h, f) \in {n, m1, m2, Reply(n, f, EchoReply(msg))} BY DEF PingIp, n
    <3> HIDE DEF m1, m2, F
    <3>4. HostOK(c, s, PingIp(h, f)) BY <2>1, <2>3, <3>1, <3>2, <3>3
    <3> QED BY <1>5, <2>5, <3>4 DEF Rx
  <2>6. CASE h.app = "arpscan" BY <1>5, <2>6 DEF Rx
  <2> QED BY <1>1, <2>4, <2>5, <2>6
<1> QED BY <1>1, <1>4, <1>5

LEMMA TxKeeps ==
  ASSUME NEW c, Setup(c), NEW s, NEW h, HostOK(c, s, h), NEW expired
  PROVE HostOK(c, s, Tx(h, expired))
<1>1. /\ s \in DOMAIN c.hosts /\ h.name = s /\ h.net = c.hosts[s].net /\ h.app = c.hosts[s].app
      /\ h.neighbours = c.hosts[s].neighbours
      /\ h.app \in {"datagram", "ping", "arpscan"} /\ DOMAIN h = HostFields
  BY HostFacts DEF HostOK, Given
<1>2. ASSUME NEW F, F \cap (Given \cup Learnt \cup {"remip", "tx"}) = {}, NEW m, Only(h, m, F)
      PROVE HostOK(c, s, m)
  <2>1. m.tx = h.tx BY <1>1, <1>2 DEF Only, HostFields
  <2>2. AllSound(c, m.tx) BY <2>1 DEF HostOK
  <2> QED BY <1>2, <2>2, HostSame
<1>3. ASSUME Asks(c, s)
      PROVE /\ h.remip = c.hosts[s].remip /\ gate_ip(h) = First(c, s)
            /\ h.remip # "none" => h.remip \in Addresses(c)
  <2>1. h.remip = c.hosts[s].remip BY <1>3 DEF HostOK
  <2>2. gate_ip(h) = First(c, s) BY <1>1, <2>1 DEF gate_ip, First, NetOf, Gate
  <2> QED BY <1>1, <2>1, <2>2, HostFacts
<1>4. CASE h.app = "datagram"
  <2> DEFINE n == [h EXCEPT !.tries = @ + 1, !.lastcstate = h.cstate]
             o == [n EXCEPT !.off = TRUE]
  <2>1. /\ n.mac = h.mac /\ n.net = h.net /\ n.name = h.name /\ n.remip = h.remip
        /\ n.app = h.app /\ n.cstate = h.cstate
    BY <1>1 DEF HostFields
  <2> HIDE DEF n, o
  <2>2. HostOK(c, s, n) /\ HostOK(c, s, o)
    <3>1. ASSUME NEW m \in {n, o} PROVE HostOK(c, s, m)
      <4>1. DOMAIN m = DOMAIN h /\ m.tries = h.tries + 1
            /\ \A x \in Given \cup {"remip", "tx", "mac", "arped", "cstate"} : m[x] = h[x]
        BY <1>1 DEF HostFields, Given, n, o
      <4>2. /\ m.remip = h.remip /\ m.tx = h.tx /\ m.mac = h.mac /\ m.net = h.net
            /\ m.cstate = h.cstate /\ m.tries \in Nat /\ (Ready(m) <=> Ready(h))
        BY <4>1 DEF HostOK, Ready, Given
      <4>3. \A x \in Given : m[x] = c.hosts[s][x] BY <4>1 DEF HostOK
      <4> QED BY <4>1, <4>2, <4>3 DEF HostOK
    <3> QED BY <3>1
  <2>3. HostOK(c, s, ArpReq(n, gate_ip(h))) BY <1>1, <1>3, <1>4, <2>2, ArpReqKeeps DEF Asks
  <2>4. ASSUME h.remip # "none", h.cstate = ARP_RX, NEW sport, NEW dport, NEW text, NEW len
        PROVE HostOK(c, s, make_udp(n, h.remip, h.mac, sport, dport, text, len))
    <3>1. h.remip \in Addresses(c) BY <1>1, <1>3, <1>4, <2>4 DEF Asks
    <3>2. n.net \in Ethers => h.mac \in {h.remip, "router"}
      BY <1>4, <2>1, <2>2, <2>4 DEF HostOK, Ready
    <3> QED BY <2>2, <3>1, <3>2, SendKeeps DEF make_udp
  <2>5. HostOK(c, s, DatagramTx(h, expired))
    <3> SUFFICES ASSUME h.remip # "none", expired \/ h.cstate # h.lastcstate
        PROVE HostOK(c, s, DatagramTx(h, expired)) BY DEF DatagramTx
    <3>1. DatagramTx(h, expired) =
            CASE h.tries > MAXTRIES -> o
              [] h.tries <= MAXTRIES /\ h.cstate = ARP_TX -> ArpReq(n, gate_ip(h))
              [] h.tries <= MAXTRIES /\ h.cstate = ARP_RX ->
                   make_udp(n, h.remip, h.mac, MINEPORT, h.port, h.name, h.len)
              [] h.tries <= MAXTRIES /\ h.cstate = CLIENT_DONE -> o
      BY DEF DatagramTx, n, o
    <3>2. h.tries > MAXTRIES \/ (h.tries <= MAXTRIES /\ h.cstate \in {ARP_TX, ARP_RX, CLIENT_DONE})
      BY ConstAssumption DEF HostOK, States
    <3> QED BY <2>2, <2>3, <2>4, <3>1, <3>2
  <2> QED BY <1>4, <2>5 DEF Tx
<1>5. CASE h.app = "ping"
  <2> DEFINE F == {"txseq", "txcount"}
             n == [h EXCEPT !.txseq = @ + 1, !.txcount = @ + 1]
             m == [prot |-> "icmp", type |-> "req", seq |-> h.txseq + 1, len |-> h.len]
  <2>1. Only(h, n, F) BY DEF Only
  <2>2. F \cap (Given \cup Learnt \cup {"remip", "tx"}) = {} BY DEF Given, Learnt
  <2>3. /\ n.mac = h.mac /\ n.net = h.net /\ n.name = h.name /\ n.remip = h.remip
        /\ n.app = h.app /\ n.arped = h.arped
    BY <1>1 DEF HostFields
  <2> HIDE DEF n, F, m
  <2>4. HostOK(c, s, n) BY <1>2, <2>1, <2>2
  <2>5. HostOK(c, s, ArpReq(h, gate_ip(h))) BY <1>1, <1>3, <1>5, ArpReqKeeps DEF Asks
  <2>6. ASSUME h.remip # "none", h.arped
        PROVE HostOK(c, s, Send(n, h.net, h.name, h.remip, h.mac, m))
    <3>1. h.remip \in Addresses(c) BY <1>1, <1>3, <1>5, <2>6 DEF Asks
    <3>2. n.net \in Ethers => h.mac \in {h.remip, "router"}
      BY <1>5, <2>3, <2>4, <2>6 DEF HostOK, Ready
    <3> QED BY <2>3, <2>4, <3>1, <3>2, SendKeeps
  <2>7. HostOK(c, s, PingTx(h, expired)) BY <2>5, <2>6 DEF PingTx, n, m
  <2> QED BY <1>5, <2>7 DEF Tx
<1>6. CASE h.app = "arpscan"
  <2> DEFINE F == {"remip", "scan"}
             n == [h EXCEPT !.remip = Head(h.scan), !.scan = Tail(@)]
             o == [h EXCEPT !.off = TRUE]
  <2>1. HostOK(c, s, n)
    <3>1. Only(h, n, F) BY DEF Only
    <3> HIDE DEF n
    <3>2. \A x \in Given \cup {"tx", "mac", "cstate", "arped", "tries"} : n[x] = h[x]
      BY <1>1, <3>1 DEF Only, HostFields, Given
    <3>3. ~Asks(c, s) BY <1>1, <1>6 DEF Asks
    <3>4. n.app = "arpscan" BY <1>6, <3>2 DEF Given
    <3>5. ~Ready(n) BY <3>4 DEF Ready
    <3>6. \A x \in Given : n[x] = c.hosts[s][x] BY <3>2 DEF HostOK
    <3>7. /\ DOMAIN n = DOMAIN c.hosts[s] /\ n.tx = h.tx
          /\ n.cstate = h.cstate /\ n.tries = h.tries
      BY <3>1, <3>2 DEF HostOK, Only
    <3> QED BY <1>1, <3>3, <3>5, <3>6, <3>7 DEF HostOK
  <2>2. HostOK(c, s, o)
    <3>1. Only(h, o, {"off"}) BY DEF Only
    <3>2. {"off"} \cap (Given \cup Learnt \cup {"remip", "tx"}) = {} BY DEF Given, Learnt
    <3> HIDE DEF o
    <3> QED BY <1>2, <3>1, <3>2
  <2>3. HostOK(c, s, ArpReq(n, Head(h.scan)))
    <3> HIDE DEF n
    <3>1. ~Asks(c, s) BY <1>1, <1>6 DEF Asks
    <3> QED BY <2>1, <3>1, ArpReqKeeps
  <2>4. ArpscanTx(h, expired) \in {ArpReq(n, Head(h.scan)), o, h} BY DEF ArpscanTx
  <2> HIDE DEF n, o
  <2>5. HostOK(c, s, ArpscanTx(h, expired)) BY <2>2, <2>3, <2>4
  <2> QED BY <1>6, <2>5 DEF Tx
<1> QED BY <1>1, <1>4, <1>5, <1>6

-----------------------------------------------------------------------------
(* The router *)

(* The cache has hosts in it, with their own hardware addresses on the      *)
(* Ethernets; what waits has two addresses that datagrams may have.         *)
RouterFields == {"name", "subnet", "maxrems", "tx", "ident", "frags", "framestore",
                 "frameidx", "remnodes", "remidx"}
Entry(c, e) ==
    /\ DOMAIN e = {"ip", "mac"}
    /\ e.ip # "none" =>
         e.ip \in DOMAIN c.hosts /\ (c.hosts[e.ip].net \in Ethers => e.mac = e.ip)
Waiting(c, w) ==
    /\ DOMAIN w = {"dip", "sip", "prot", "data"}
    /\ w.dip # "none" => w.sip \in Addresses(c) /\ w.dip \in Addresses(c)
CacheOK(c, r) ==
    /\ r.remidx \in 0..(c.maxrems - 1) /\ DOMAIN r.remnodes = 0..(c.maxrems - 1)
    /\ \A i \in 0..(c.maxrems - 1) : Entry(c, r.remnodes[i])
StoreOK(c, r) ==
    /\ r.frameidx \in 0..(NFRAMES - 1) /\ DOMAIN r.framestore = 0..(NFRAMES - 1)
    /\ \A i \in 0..(NFRAMES - 1) : Waiting(c, r.framestore[i])
RouterOK(c, r) ==
    /\ DOMAIN r = RouterFields
    /\ r.name = "router" /\ r.subnet = Subnet(c.hosts) /\ r.maxrems = c.maxrems
    /\ CacheOK(c, r) /\ StoreOK(c, r)
    /\ AllSound(c, r.tx)

LEMMA RouterSends ==
  ASSUME NEW c, NEW r, RouterOK(c, r), NEW m, AllSound(c, m.tx),
         Only(r, m, {"tx", "ident", "frags"})
  PROVE RouterOK(c, m)
<1>1. \A x \in {"name", "subnet", "maxrems", "framestore", "frameidx", "remnodes", "remidx"} :
        m[x] = r[x]
  BY DEF RouterOK, RouterFields, Only
<1>2. CacheOK(c, m) BY <1>1 DEF RouterOK, CacheOK
<1>3. StoreOK(c, m) BY <1>1 DEF RouterOK, StoreOK
<1> QED BY <1>1, <1>2, <1>3 DEF RouterOK, Only

LEMMA CacheKeeps ==
  ASSUME NEW c, Setup(c), NEW r, RouterOK(c, r), NEW ip \in DOMAIN c.hosts, NEW mac,
         c.hosts[ip].net \in Ethers => mac = ip
  PROVE RouterOK(c, add_cache(r, ip, mac))
<1>1. CASE Known(r, ip) # {} BY <1>1 DEF add_cache
<1>2. CASE Known(r, ip) = {}
  <2> DEFINE e == [ip |-> ip, mac |-> mac]
             m == [r EXCEPT !.remnodes[r.remidx] = e, !.remidx = (@ + 1) % r.maxrems]
  <2>1. add_cache(r, ip, mac) = m BY <1>2 DEF add_cache
  <2>2. Entry(c, e) BY DEF Entry
  <2> HIDE DEF e
  <2>3. /\ DOMAIN m = RouterFields /\ m.name = r.name /\ m.subnet = r.subnet /\ m.tx = r.tx
        /\ m.maxrems = r.maxrems /\ m.frameidx = r.frameidx /\ m.framestore = r.framestore
        /\ m.remnodes = [r.remnodes EXCEPT ![r.remidx] = e]
        /\ m.remidx = (r.remidx + 1) % r.maxrems
    BY DEF RouterOK, RouterFields
  <2> HIDE DEF m
  <2>4. c.maxrems \in Nat \ {0} BY NetAssumption DEF Setup
  <2>5. m.remidx \in 0..(c.maxrems - 1)
    <3>1. r.remidx + 1 \in Int /\ r.maxrems = c.maxrems BY DEF RouterOK, CacheOK
    <3>2. (r.remidx + 1) % c.maxrems \in 0..(c.maxrems - 1) BY <2>4, <3>1, DivMod
    <3> QED BY <2>3, <3>1, <3>2
  <2>6. DOMAIN m.remnodes = 0..(c.maxrems - 1) BY <2>3 DEF RouterOK, CacheOK
  <2>7. \A i \in 0..(c.maxrems - 1) : Entry(c, m.remnodes[i])
    BY <2>2, <2>3 DEF RouterOK, CacheOK
  <2>8. CacheOK(c, m) BY <2>5, <2>6, <2>7 DEF CacheOK
  <2>9. StoreOK(c, m) BY <2>3 DEF RouterOK, StoreOK
  <2> QED BY <2>1, <2>3, <2>8, <2>9 DEF RouterOK
<1> QED BY <1>1, <1>2

(* What the cache says is the hardware address.                             *)
LEMMA CacheFinds ==
  ASSUME NEW c, Setup(c), NEW r, RouterOK(c, r), NEW ip, ip # "none", Known(r, ip) # {}
  PROVE /\ ip \in DOMAIN c.hosts
        /\ c.hosts[ip].net \in Ethers => lookup_cache(r, ip) = ip
<1> DEFINE k == c.maxrems - 1
           i == Max(Known(r, ip))
<1>1. c.maxrems \in Nat \ {0} BY NetAssumption DEF Setup
<1>2. Known(r, ip) \in SUBSET (0..k) BY <1>1 DEF Known, Seen, RouterOK, CacheOK
<1>3. i \in Known(r, ip)
  <2>1. k \in Nat BY <1>1
  <2> HIDE DEF k
  <2> QED BY <1>2, <2>1, Greatest
<1> HIDE DEF i
<1>4. r.remnodes[i].ip = ip /\ i \in 0..k BY <1>2, <1>3 DEF Known
<1>5. Entry(c, r.remnodes[i]) BY <1>4 DEF RouterOK, CacheOK
<1> QED BY <1>4, <1>5 DEF Entry, lookup_cache, i

LEMMA RouterMakesIp ==
  ASSUME NEW c, Setup(c), NEW r, RouterOK(c, r), NEW net \in {"A", "B", "S"},
         NEW sip, NEW dip, NEW mac, NEW prot, NEW data, IpOK(c, net, "router", sip, dip, mac)
  PROVE LET m == make_ip(r, net, sip, dip, mac, prot, data)
        IN RouterOK(c, m) /\ Only(r, m, {"tx", "ident"})
<1> DEFINE m == make_ip(r, net, sip, dip, mac, prot, data)
<1>1. r.name = "router" /\ {"name", "tx", "ident"} \subseteq DOMAIN r /\ AllSound(c, r.tx)
  BY DEF RouterOK, RouterFields
<1>2. Only(r, m, {"tx", "ident"}) /\ AllSound(c, m.tx) BY <1>1, MakeIp
<1> HIDE DEF m
<1>3. Only(r, m, {"tx", "ident", "frags"}) BY <1>2 DEF Only
<1>4. RouterOK(c, m) BY <1>2, <1>3, RouterSends
<1> QED BY <1>2, <1>4 DEF m

LEMMA RouterMakesArp ==
  ASSUME NEW c, Setup(c), NEW r, RouterOK(c, r), NEW net \in {"A", "B", "S"},
         NEW op, NEW dip, NEW mac, ArpOK(c, "router", op, RouterIp[net], dip)
  PROVE LET m == make_arp(r, net, op, RouterIp[net], dip, mac)
        IN RouterOK(c, m) /\ Only(r, m, {"tx"})
<1> DEFINE m == make_arp(r, net, op, RouterIp[net], dip, mac)
<1>1. r.name = "router" /\ {"name", "tx"} \subseteq DOMAIN r /\ AllSound(c, r.tx)
  BY DEF RouterOK, RouterFields
<1>2. Only(r, m, {"tx"}) /\ AllSound(c, m.tx) BY <1>1, MakeArp
<1> HIDE DEF m
<1>3. Only(r, m, {"tx", "ident", "frags"}) BY <1>2 DEF Only
<1>4. RouterOK(c, m) BY <1>2, <1>3, RouterSends
<1> QED BY <1>2, <1>4 DEF m

(* A frame that the router gets is from a host.                             *)
FromHost(c, f) == Sound(c, f) /\ f.src \in DOMAIN c.hosts
SameStore(r, m) == m.framestore = r.framestore /\ m.frameidx = r.frameidx

LEMMA FromHostFacts ==
  ASSUME NEW c, Setup(c), NEW f, FromHost(c, f)
  PROVE /\ f.sip = f.src /\ f.net = c.hosts[f.src].net /\ f.net \in {"A", "B", "S"}
        /\ f.src \in DOMAIN c.hosts /\ f.src \in Addresses(c) /\ f.src \notin Others
<1>1. f.src \in DOMAIN c.hosts /\ f.src \notin Others BY HostFacts DEF FromHost
<1>2. f.src # "router" BY <1>1 DEF Others
<1> QED BY <1>1, <1>2, AddressFacts DEF FromHost, Sound, Origin

(* A datagram that waits is asked for.                                      *)
Inquiry(net, ip) ==
    [net |-> net, src |-> "router", dst |-> bcast, pcol |-> "arp", op |-> "req",
     sip |-> RouterIp[net], dip |-> ip]

LEMMA HoldKeeps ==
  ASSUME NEW c, Setup(c), NEW r, RouterOK(c, r), NEW w, Waiting(c, w),
         NEW net \in {"A", "B", "S"}
  PROVE LET n == Hold(r, w, net)
            next == (r.frameidx + 1) % NFRAMES
        IN /\ RouterOK(c, n) /\ n.frameidx = next /\ next \in 0..(NFRAMES - 1)
           /\ next # r.frameidx
           /\ n.framestore = [r.framestore EXCEPT ![r.frameidx] = w, ![next] = NoWait]
           /\ n.tx = Append(r.tx, Inquiry(net, w.dip))
<1> DEFINE next == (r.frameidx + 1) % NFRAMES
           q == [r.framestore EXCEPT ![r.frameidx] = w, ![next] = NoWait]
           m == [r EXCEPT !.framestore = q, !.frameidx = next]
           n == Hold(r, w, net)
<1>0. r.frameidx \in 0..(NFRAMES - 1) /\ NFRAMES \in Nat \ {0, 1}
  BY ConstAssumption DEF RouterOK, StoreOK
<1>1. next \in 0..(NFRAMES - 1) /\ next # r.frameidx
  <2>1. r.frameidx + 1 \in Int /\ NFRAMES \in Nat \ {0} BY <1>0
  <2>2. next \in 0..(NFRAMES - 1) BY <2>1, DivMod
  <2>3. CASE r.frameidx + 1 = NFRAMES
    <3>1. (NFRAMES * 1 + 0) % NFRAMES = 0 BY <2>1, ModUnique
    <3>2. next = 0
      <4>1. NFRAMES * 1 + 0 = NFRAMES BY <1>0
      <4> QED BY <2>3, <3>1, <4>1
    <3> QED BY <1>0, <2>3, <3>2
  <2>4. CASE r.frameidx + 1 # NFRAMES
    <3>1. r.frameidx + 1 \in 0..(NFRAMES - 1) BY <1>0, <2>4
    <3>2. next = r.frameidx + 1 BY <2>1, <3>1, ModSmall
    <3> QED BY <1>0, <2>2, <3>2
  <2> QED BY <2>2, <2>3, <2>4
<1>2. Waiting(c, NoWait) BY DEF Waiting, NoWait
<1>3. n = make_arp(m, net, "req", RouterIp[net], w.dip, bcast) BY DEF Hold
<1> HIDE DEF next
<1>4. DOMAIN q = 0..(NFRAMES - 1) /\ \A i \in 0..(NFRAMES - 1) : Waiting(c, q[i])
  BY <1>0, <1>1, <1>2 DEF RouterOK, StoreOK
<1> HIDE DEF q
<1>5. /\ DOMAIN m = RouterFields /\ m.framestore = q /\ m.frameidx = next
      /\ m.name = r.name /\ m.subnet = r.subnet /\ m.maxrems = r.maxrems /\ m.tx = r.tx
      /\ m.remidx = r.remidx /\ m.remnodes = r.remnodes
  BY DEF RouterOK, RouterFields
<1> HIDE DEF m
<1>6. StoreOK(c, m) BY <1>1, <1>4, <1>5 DEF StoreOK
<1>7. CacheOK(c, m) BY <1>5 DEF CacheOK, RouterOK
<1>8. RouterOK(c, m) BY <1>5, <1>6, <1>7 DEF RouterOK
<1>9. ArpOK(c, "router", "req", RouterIp[net], w.dip)
  <2>1. "router" \notin DOMAIN c.hosts BY HostFacts DEF Others
  <2> QED BY <2>1 DEF ArpOK, Asks
<1>10. RouterOK(c, n) /\ Only(m, n, {"tx"}) BY <1>3, <1>8, <1>9, RouterMakesArp
<1>11. n.framestore = q /\ n.frameidx = next
  BY <1>5, <1>10 DEF Only, RouterFields
<1>12. n.tx = Append(r.tx, Inquiry(net, w.dip))
  <2> HIDE DEF n
  <2> QED BY <1>3, <1>5 DEF make_arp, Inquiry, RouterFields, RouterOK
<1> QED BY <1>1, <1>10, <1>11, <1>12 DEF q, next

LEMMA ForwardKeeps ==
  ASSUME NEW c, Setup(c), NEW r, RouterOK(c, r), NEW w, NEW net \in {"A", "B", "S"}, NEW mac,
         IpOK(c, net, "router", w.sip, w.dip, mac)
  PROVE RouterOK(c, Forward(r, w, net, mac)) /\ SameStore(r, Forward(r, w, net, mac))
<1> DEFINE m == make_ip(r, net, w.sip, w.dip, mac, w.prot, w.data)
<1>1. RouterOK(c, m) /\ Only(r, m, {"tx", "ident"}) BY RouterMakesIp
<1>2. Forward(r, w, net, mac) = m BY DEF Forward
<1> HIDE DEF m
<1>3. SameStore(r, m) BY <1>1 DEF Only, SameStore, RouterOK, RouterFields
<1> QED BY <1>1, <1>2, <1>3

(* A datagram is sent on, or waits, or goes nowhere.                        *)
Wait(f, data) == [dip |-> f.dip, sip |-> f.sip, prot |-> f.prot, data |-> data]
LEMMA RouteKeeps ==
  ASSUME NEW c, Setup(c), NEW r, RouterOK(c, r), NEW f, FromHost(c, f), f.pcol = "ip", NEW data
  PROVE LET n == Route(r, f, data) IN
        /\ RouterOK(c, n)
        /\ \/ SameStore(r, n)
           \/ \E m : /\ RouterOK(c, m) /\ SameStore(r, m) /\ Waiting(c, Wait(f, data))
                     /\ Subnet(c.hosts)[f.dip] \in Ethers
                     /\ n = Hold(m, Wait(f, data), Subnet(c.hosts)[f.dip])
<1> DEFINE n == add_cache(r, f.sip, IF f.net \in Ethers THEN f.src ELSE bcast)
           w == Wait(f, data)
           net == r.subnet[f.dip]
<1>1. RouterOK(c, n) BY FromHostFacts, CacheKeeps
<1>2. SameStore(r, n) BY DEF SameStore, add_cache, RouterOK, RouterFields
<1>3. r.subnet = Subnet(c.hosts) /\ f.dip \in Addresses(c) /\ f.sip \in Addresses(c)
  BY DEF RouterOK, FromHost, Sound, IpOK
<1>4. Waiting(c, w) BY <1>3 DEF Waiting, Wait
<1>5. /\ net \in {"A", "B", "S", "none"}
      /\ net = "S" => f.dip \in DOMAIN c.hosts /\ c.hosts[f.dip].net = "S"
      /\ f.dip \in DOMAIN c.hosts => net = c.hosts[f.dip].net
      /\ f.dip # "none"
  <2>1. "none" \notin DOMAIN c.hosts BY HostFacts DEF Others
  <2>2. CASE f.dip \in DOMAIN c.hosts BY <1>3, <2>1, <2>2, AddressFacts, HostFacts
  <2>3. CASE f.dip \notin DOMAIN c.hosts
    <3>1. f.dip \in {"rA", "rB", Nobody, "far"} BY <1>3, <2>3, AddressFacts
    <3>2. net \in {"A", "B", "none"} BY <1>3, <3>1, AddressFacts
    <3> QED BY <2>3, <3>1, <3>2 DEF Nobody
  <2> QED BY <2>2, <2>3
<1>6. Route(r, f, data) =
        CASE net = "none" -> n
          [] net # "none" /\ net \notin Ethers -> Forward(n, w, net, bcast)
          [] net \in Ethers /\ Known(n, f.dip) # {} -> Forward(n, w, net, lookup_cache(n, f.dip))
          [] net \in Ethers /\ Known(n, f.dip) = {} -> Hold(n, w, net)
  BY DEF Route, Wait
<1>7. w.sip = f.sip /\ w.dip = f.dip BY DEF Wait
<1>8. Ethers = {"A", "B"} BY DEF Ethers
<1> HIDE DEF n, w, net
<1>9. CASE net = "none"
  <2>1. Route(r, f, data) = n BY <1>6, <1>8, <1>9
  <2> QED BY <1>1, <1>2, <2>1
<1>10. CASE net = "S"
  <2>1. Route(r, f, data) = Forward(n, w, net, bcast) BY <1>6, <1>8, <1>10
  <2>2. IpOK(c, net, "router", w.sip, w.dip, bcast) BY <1>3, <1>5, <1>7, <1>8, <1>10 DEF IpOK
  <2>3. RouterOK(c, Forward(n, w, net, bcast)) /\ SameStore(n, Forward(n, w, net, bcast))
    BY <1>1, <1>10, <2>2, ForwardKeeps
  <2> QED BY <1>2, <2>1, <2>3 DEF SameStore
<1>11. CASE net \in Ethers /\ Known(n, f.dip) # {}
  <2> DEFINE mac == lookup_cache(n, f.dip)
  <2>1. Route(r, f, data) = Forward(n, w, net, mac) BY <1>6, <1>8, <1>11
  <2>2. mac = f.dip BY <1>1, <1>5, <1>11, CacheFinds
  <2> HIDE DEF mac
  <2>3. IpOK(c, net, "router", w.sip, w.dip, mac) BY <1>3, <1>7, <1>11, <2>2 DEF IpOK
  <2>4. RouterOK(c, Forward(n, w, net, mac)) /\ SameStore(n, Forward(n, w, net, mac))
    BY <1>1, <1>8, <1>11, <2>3, ForwardKeeps
  <2> QED BY <1>2, <2>1, <2>4 DEF SameStore
<1>12. CASE net \in Ethers /\ Known(n, f.dip) = {}
  <2>1. Route(r, f, data) = Hold(n, w, net) BY <1>6, <1>8, <1>12
  <2>2. RouterOK(c, Hold(n, w, net)) BY <1>1, <1>4, <1>8, <1>12, HoldKeeps
  <2>3. net = Subnet(c.hosts)[f.dip] BY <1>3 DEF net
  <2> QED BY <1>1, <1>2, <1>4, <1>12, <2>1, <2>2, <2>3 DEF w
<1> QED BY <1>5, <1>8, <1>9, <1>10, <1>11, <1>12

(* The answer to a request sends on all that waits for it.                  *)
Place(r, i) == (r.frameidx + i) % NFRAMES
LEMMA FlushKeeps ==
  ASSUME NEW c, Setup(c), NEW r, RouterOK(c, r), NEW f, FromHost(c, f), NEW i \in 0..(NFRAMES - 1)
  PROVE LET n == Flush(r, f, i) k == Place(r, i) IN
        /\ RouterOK(c, n) /\ n.frameidx = r.frameidx /\ k \in 0..(NFRAMES - 1)
        /\ n.framestore = r.framestore \/ n.framestore = [r.framestore EXCEPT ![k] = NoWait]
        /\ n.framestore[k].dip # f.sip
<1> DEFINE k == Place(r, i)
           w == r.framestore[k]
           v == [w EXCEPT !.dip = f.sip]
           m == Forward(r, v, f.net, f.src)
           n == [m EXCEPT !.framestore[k] = NoWait]
<1>1. k \in 0..(NFRAMES - 1)
  <2>1. r.frameidx + i \in Int /\ NFRAMES \in Nat \ {0}
    BY ConstAssumption DEF RouterOK, StoreOK
  <2> QED BY <2>1, DivMod DEF Place
<1>2. f.sip # "none" /\ f.sip = f.src /\ f.net \in {"A", "B", "S"} /\ f.src \in DOMAIN c.hosts
      /\ f.net = c.hosts[f.src].net /\ f.src \in Addresses(c)
  BY FromHostFacts DEF Others
<1>3. CASE ~Waits(w, f.sip)
  <2>1. Flush(r, f, i) = r BY <1>3 DEF Flush, Place
  <2>2. w.dip # f.sip BY <1>3 DEF Waits
  <2> QED BY <1>1, <2>1, <2>2
<1>4. CASE Waits(w, f.sip)
  <2>1. Flush(r, f, i) = n BY <1>4 DEF Flush, Place
  <2> HIDE DEF k
  <2>2. Waiting(c, w) BY <1>1 DEF RouterOK, StoreOK
  <2>3. w.dip = f.sip BY <1>4 DEF Waits
  <2> HIDE DEF w
  <2>4. v.sip = w.sip /\ v.dip = f.sip /\ w.sip \in Addresses(c)
    BY <1>2, <2>2, <2>3 DEF Waiting
  <2> HIDE DEF v
  <2>5. IpOK(c, f.net, "router", v.sip, v.dip, f.src) BY <1>2, <2>4 DEF IpOK
  <2>6. RouterOK(c, m) /\ SameStore(r, m) BY <1>2, <2>5, ForwardKeeps
  <2> HIDE DEF m
  <2>7. /\ DOMAIN n = RouterFields /\ n.framestore = [m.framestore EXCEPT ![k] = NoWait]
        /\ n.frameidx = m.frameidx /\ n.remidx = m.remidx /\ n.remnodes = m.remnodes
        /\ n.name = m.name /\ n.subnet = m.subnet /\ n.maxrems = m.maxrems /\ n.tx = m.tx
    BY <2>6 DEF RouterOK, RouterFields
  <2> HIDE DEF n
  <2>8. Waiting(c, NoWait) BY DEF Waiting, NoWait
  <2>9. StoreOK(c, n) BY <1>1, <2>6, <2>7, <2>8 DEF RouterOK, StoreOK
  <2>10. CacheOK(c, n) BY <2>6, <2>7 DEF RouterOK, CacheOK
  <2>11. RouterOK(c, n) BY <2>6, <2>7, <2>9, <2>10 DEF RouterOK
  <2>12. n.framestore = [r.framestore EXCEPT ![k] = NoWait] /\ n.frameidx = r.frameidx
    BY <2>6, <2>7 DEF SameStore
  <2>13. n.framestore[k].dip = "none"
    <3>1. k \in DOMAIN r.framestore BY <1>1 DEF RouterOK, StoreOK
    <3> QED BY <2>12, <3>1 DEF NoWait
  <2> QED BY <1>1, <1>2, <2>1, <2>11, <2>12, <2>13 DEF k
<1> QED BY <1>3, <1>4

Flushes(r, f, k, g) == g = [i \in 0..k |-> IF i = 0 THEN r ELSE Flush(g[i - 1], f, i)]

LEMMA FlushesDefined ==
  ASSUME NEW r, NEW f PROVE \A k \in Nat : \E g : Flushes(r, f, k, g)
<1> DEFINE T == {k \in Nat : \E g : Flushes(r, f, k, g)}
<1>1. 0 \in T
  <2> DEFINE g == [i \in 0..0 |-> r]
  <2>1. Flushes(r, f, 0, g) BY DEF Flushes
  <2> QED BY <2>1
<1>2. ASSUME NEW n \in Nat, n \in T PROVE n + 1 \in T
  <2>1. PICK g : Flushes(r, f, n, g) BY <1>2
  <2> DEFINE x == Flush(g[n], f, n + 1)
             h == [i \in 0..(n + 1) |-> IF i = n + 1 THEN x ELSE g[i]]
             e == [i \in 0..(n + 1) |-> IF i = 0 THEN r ELSE Flush(h[i - 1], f, i)]
  <2>2. \A i \in 0..n : h[i] = g[i] OBVIOUS
  <2>3. h[n + 1] = x OBVIOUS
  <2>4. \A i \in 0..n : g[i] = IF i = 0 THEN r ELSE Flush(g[i - 1], f, i)
    BY <2>1 DEF Flushes
  <2>5. ASSUME NEW i \in 0..(n + 1) PROVE h[i] = e[i]
    <3>1. CASE i = n + 1
      <4>1. i # 0 /\ i - 1 = n /\ h[i - 1] = g[n] BY <2>2, <3>1
      <4> QED BY <2>3, <3>1, <4>1
    <3>2. CASE i = 0 BY <2>2, <2>4, <3>2
    <3>3. CASE i \in 1..n
      <4>1. i - 1 \in 0..n /\ i \in 0..n /\ i # 0 BY <3>3
      <4>2. h[i - 1] = g[i - 1] /\ h[i] = g[i] BY <2>2, <4>1
      <4> HIDE DEF h
      <4> QED BY <2>4, <4>1, <4>2
    <3> QED BY <3>1, <3>2, <3>3
  <2>6. h = e
    <3> HIDE DEF x
    <3>1. h = [i \in 0..(n + 1) |-> h[i]] OBVIOUS
    <3>2. e = [i \in 0..(n + 1) |-> e[i]] OBVIOUS
    <3> HIDE DEF h, e
    <3> QED BY <2>5, <3>1, <3>2
  <2>7. Flushes(r, f, n + 1, h) BY <2>6 DEF Flushes
  <2> HIDE DEF h
  <2> QED BY <2>7
<1> HIDE DEF T
<1>3. Nat \subseteq T BY <1>1, <1>2, AllNumbers
<1> QED BY <1>3 DEF T

LEMMA FlushAllKeeps ==
  ASSUME NEW c, Setup(c), NEW r, RouterOK(c, r), NEW f, FromHost(c, f)
  PROVE LET n == FlushAll(r, f) IN
        /\ RouterOK(c, n) /\ n.frameidx = r.frameidx
        /\ \A k \in 0..(NFRAMES - 1) :
             /\ n.framestore[k] \in {r.framestore[k], NoWait}
             /\ k # r.frameidx => n.framestore[k].dip # f.sip
<1> DEFINE last == NFRAMES - 1
           g == CHOOSE g : Flushes(r, f, last, g)
           Done(n, i) ==
             /\ RouterOK(c, n) /\ n.frameidx = r.frameidx
             /\ \A k \in 0..last : n.framestore[k] \in {r.framestore[k], NoWait}
             /\ \A j \in 1..i : n.framestore[Place(r, j)].dip # f.sip
           T == {i \in Nat : i <= last => Done(g[i], i)}
<1>1. last \in Nat BY ConstAssumption
<1>2. FlushAll(r, f) = g[last] BY DEF FlushAll, Flushes
<1>3. Flushes(r, f, last, g)
  <2>1. \E h : Flushes(r, f, last, h) BY <1>1, FlushesDefined
  <2> QED BY <2>1
<1> HIDE DEF g
<1>4. \A i \in 0..last : g[i] = IF i = 0 THEN r ELSE Flush(g[i - 1], f, i)
  BY <1>3 DEF Flushes
<1>5. 0 \in T
  <2>1. g[0] = r BY <1>1, <1>4
  <2>2. Done(r, 0) OBVIOUS
  <2> QED BY <2>1, <2>2
<1>6. ASSUME NEW i \in Nat, i \in T PROVE i + 1 \in T
  <2> SUFFICES ASSUME i + 1 <= last PROVE Done(g[i + 1], i + 1) OBVIOUS
  <2> DEFINE n == g[i]
             m == g[i + 1]
             k == Place(r, i + 1)
  <2> HIDE DEF last
  <2>1. Done(n, i) BY <1>1, <1>6
  <2>2. m = Flush(n, f, i + 1)
    <3>1. i + 1 \in 0..last /\ i + 1 # 0 /\ (i + 1) - 1 = i BY <1>1
    <3> QED BY <1>4, <3>1
  <2> HIDE DEF m, n
  <2>3. RouterOK(c, n) /\ n.frameidx = r.frameidx BY <2>1
  <2>4. Place(n, i + 1) = k BY <2>3 DEF Place
  <2> HIDE DEF k
  <2>5. i + 1 \in 0..(NFRAMES - 1) BY DEF last
  <2>6. /\ RouterOK(c, m) /\ m.frameidx = n.frameidx /\ k \in 0..(NFRAMES - 1)
        /\ m.framestore = n.framestore \/ m.framestore = [n.framestore EXCEPT ![k] = NoWait]
        /\ m.framestore[k].dip # f.sip
    BY <2>2, <2>3, <2>4, <2>5, FlushKeeps
  <2>7. \A p \in 0..last : m.framestore[p] \in {n.framestore[p], NoWait}
    <3>1. DOMAIN n.framestore = 0..last BY <2>3 DEF RouterOK, StoreOK, last
    <3> QED BY <2>6, <3>1
  <2>8. ASSUME NEW j \in 1..(i + 1) PROVE m.framestore[Place(r, j)].dip # f.sip
    <3>1. CASE j = i + 1 BY <2>6, <3>1 DEF k
    <3>2. CASE j \in 1..i
      <4>1. n.framestore[Place(r, j)].dip # f.sip BY <2>1, <3>2
      <4>2. Place(r, j) \in 0..last
        <5>1. r.frameidx + j \in Int /\ NFRAMES \in Nat \ {0}
          BY ConstAssumption DEF RouterOK, StoreOK
        <5> QED BY <5>1, DivMod DEF Place, last
      <4>3. NoWait.dip # f.sip BY FromHostFacts DEF NoWait, Others
      <4> QED BY <2>7, <4>1, <4>2, <4>3
    <3> QED BY <3>1, <3>2
  <2>9. \A p \in 0..last : m.framestore[p] \in {r.framestore[p], NoWait} BY <2>1, <2>7
  <2>10. m.frameidx = r.frameidx /\ RouterOK(c, m) BY <2>3, <2>6
  <2>11. Done(m, i + 1) BY <2>8, <2>9, <2>10
  <2> QED BY <2>11 DEF m
<1> DEFINE n == FlushAll(r, f)
<1>7. Done(n, last)
  <2> HIDE DEF T, n, last
  <2>1. last \in T BY <1>1, <1>5, <1>6, AllNumbers
  <2>2. Done(g[last], last) BY <1>1, <2>1 DEF T
  <2> QED BY <1>2, <2>2 DEF n
<1> HIDE DEF n
<1>8. ASSUME NEW k \in 0..last, k # r.frameidx PROVE n.framestore[k].dip # f.sip
  <2> DEFINE d == k - r.frameidx
             j == d % NFRAMES
  <2>1. NFRAMES \in Nat \ {0} /\ r.frameidx \in 0..last BY ConstAssumption DEF RouterOK, StoreOK
  <2>2. d \in Int /\ d # 0 BY <1>8, <2>1
  <2>3. j \in 0..last BY <2>1, <2>2, DivMod
  <2>4. (r.frameidx + j) % NFRAMES = k
    <3>1. (j + r.frameidx) % NFRAMES = (d + r.frameidx) % NFRAMES
      <4>1. r.frameidx \in Int BY <2>1
      <4> HIDE DEF d, last
      <4>2. ((d % NFRAMES) + r.frameidx) % NFRAMES = (d + r.frameidx) % NFRAMES
        BY <2>1, <2>2, <4>1, ModAdd
      <4> QED BY <4>2
    <3>2. d + r.frameidx = k BY <2>1
    <3>3. k % NFRAMES = k BY <2>1, ModSmall
    <3>4. j + r.frameidx = r.frameidx + j
      <4> HIDE DEF j
      <4> QED BY <2>1, <2>3
    <3> QED BY <3>1, <3>2, <3>3, <3>4
  <2> HIDE DEF j
  <2>5. j # 0
    <3> SUFFICES ASSUME j = 0 PROVE FALSE OBVIOUS
    <3>1. r.frameidx % NFRAMES = k BY <2>1, <2>4
    <3>2. r.frameidx % NFRAMES = r.frameidx BY <2>1, ModSmall
    <3> QED BY <1>8, <3>1, <3>2
  <2>6. j \in 1..last BY <2>3, <2>5
  <2>7. Place(r, j) = k BY <2>4 DEF Place
  <2> QED BY <1>7, <2>6, <2>7
<1> QED BY <1>7, <1>8 DEF n

(* What the router does with a frame: the store stays as it is, a datagram  *)
(* is added to it, or the datagrams that wait for the sender leave it.      *)
IsAnswer(f) == f.pcol = "arp" /\ f.op = "resp" /\ f.dip = RouterIp[f.net]
Adds(c, r, n) ==
    \E m, w : /\ RouterOK(c, m) /\ SameStore(r, m) /\ Waiting(c, w)
              /\ Subnet(c.hosts)[w.dip] \in Ethers
              /\ n = Hold(m, w, Subnet(c.hosts)[w.dip])
Empties(r, n, ip) ==
    /\ n.frameidx = r.frameidx
    /\ \A k \in 0..(NFRAMES - 1) :
         /\ n.framestore[k] \in {r.framestore[k], NoWait}
         /\ k # r.frameidx => n.framestore[k].dip # ip

LEMMA RouterRxKeeps ==
  ASSUME NEW c, Setup(c), NEW r, RouterOK(c, r), NEW f, FromHost(c, f)
  PROVE LET n == RouterRx(r, f) IN
        /\ RouterOK(c, n)
        /\ IF IsAnswer(f) THEN Empties(r, n, f.sip) ELSE SameStore(r, n) \/ Adds(c, r, n)
<1> DEFINE n == RouterRx(r, f)
<1>1. /\ f.sip = f.src /\ f.net = c.hosts[f.src].net /\ f.net \in {"A", "B", "S"}
      /\ f.src \in DOMAIN c.hosts /\ f.src \in Addresses(c) /\ f.src \notin Others
  BY FromHostFacts
<1>2. f.pcol \in {"arp", "ip"} BY DEF FromHost, Sound
<1>3. CASE f.pcol = "arp"
  <2>1. ASSUME f.dip = RouterIp[f.net], f.op = "req"
        PROVE RouterOK(c, n) /\ SameStore(r, n) /\ ~IsAnswer(f)
    <3> DEFINE m == make_arp(r, f.net, "resp", RouterIp[f.net], f.sip, f.src)
    <3>1. n = m BY <1>3, <2>1 DEF RouterRx, RouterArp
    <3>2. ArpOK(c, "router", "resp", RouterIp[f.net], f.sip)
      BY <1>1, <1>3, <2>1 DEF FromHost, Sound, ArpOK, Asks
    <3>3. RouterOK(c, m) /\ Only(r, m, {"tx"}) BY <1>1, <3>2, RouterMakesArp
    <3> HIDE DEF m
    <3>4. SameStore(r, m) BY <3>3 DEF Only, SameStore, RouterOK, RouterFields
    <3> HIDE DEF n
    <3> QED BY <2>1, <3>1, <3>3, <3>4 DEF IsAnswer
  <2>2. ASSUME f.dip = RouterIp[f.net], f.op = "resp"
        PROVE RouterOK(c, n) /\ Empties(r, n, f.sip) /\ IsAnswer(f)
    <3> DEFINE m == add_cache(r, f.sip, f.src)
    <3>1. n = FlushAll(m, f) BY <1>3, <2>2 DEF RouterRx, RouterArp
    <3>2. RouterOK(c, m) BY <1>1, CacheKeeps
    <3>3. SameStore(r, m) BY DEF SameStore, add_cache, RouterOK, RouterFields
    <3> HIDE DEF m, n
    <3> QED BY <1>3, <2>2, <3>1, <3>2, <3>3, FlushAllKeeps DEF SameStore, Empties, IsAnswer
  <2>3. ASSUME ~(f.dip = RouterIp[f.net] /\ f.op \in {"req", "resp"})
        PROVE n = r /\ ~IsAnswer(f)
    BY <1>3, <2>3 DEF RouterRx, RouterArp, IsAnswer
  <2> HIDE DEF n
  <2> QED BY <2>1, <2>2, <2>3 DEF SameStore, n
<1>4. CASE f.pcol = "ip"
  <2> DEFINE d == is_ip(r, f)
             m == d.node
             mine == f.dip = RouterIp[f.net]
             e == EchoReply(Message(d.data))
             a == Send(m, f.net, RouterIp[f.net], f.sip, f.src, e)
             b == Route(m, f, IF mine THEN <<>> ELSE d.data)
  <2>1. n \in {m, b} \/ (mine /\ n = a) BY <1>4 DEF RouterRx, RouterIpRx
  <2>2. Only(r, m, {"frags"})
    <3>1. "frags" \in DOMAIN r BY DEF RouterOK, RouterFields
    <3> QED BY <3>1, IsIpOnly
  <2> HIDE DEF n, m
  <2>3. RouterOK(c, m)
    <3>1. m.tx = r.tx BY <2>2 DEF Only, RouterOK, RouterFields
    <3>2. AllSound(c, m.tx) BY <3>1 DEF RouterOK
    <3>3. Only(r, m, {"tx", "ident", "frags"}) BY <2>2 DEF Only
    <3> QED BY <3>2, <3>3, RouterSends
  <2>4. SameStore(r, m) BY <2>2 DEF Only, SameStore, RouterOK, RouterFields
  <2>5. ASSUME mine PROVE RouterOK(c, a) /\ SameStore(m, a)
    <3>1. a = make_ip(m, f.net, RouterIp[f.net], f.sip, f.src, e.prot, Whole(e)) BY DEF Send
    <3>2. f.dip \in Addresses(c) /\ f.dip # "rS"
      BY <1>4 DEF FromHost, Sound, IpOK, Addresses
    <3>3. f.net \in Ethers BY <1>1, <2>5, <3>2 DEF RouterIp, Ethers
    <3>4. IpOK(c, f.net, "router", RouterIp[f.net], f.sip, f.src)
      BY <1>1, <2>5, <3>2, <3>3 DEF IpOK
    <3>5. RouterOK(c, a) /\ Only(m, a, {"tx", "ident"})
      BY <1>1, <2>3, <3>1, <3>4, RouterMakesIp
    <3> HIDE DEF a
    <3>6. SameStore(m, a) BY <2>3, <3>5 DEF Only, SameStore, RouterOK, RouterFields
    <3> QED BY <3>5, <3>6
  <2>6. RouterOK(c, b) /\ (SameStore(m, b) \/ Adds(c, m, b))
    <3> DEFINE data == IF mine THEN <<>> ELSE d.data
    <3>1. Wait(f, data).dip = f.dip BY DEF Wait
    <3> HIDE DEF data
    <3> QED BY <1>4, <2>3, <3>1, RouteKeeps DEF Adds, data
  <2>7. ~IsAnswer(f) BY <1>4 DEF IsAnswer
  <2> HIDE DEF a, b
  <2> QED BY <2>1, <2>3, <2>4, <2>5, <2>6, <2>7 DEF n, SameStore, Adds
<1> QED BY <1>2, <1>3, <1>4

-----------------------------------------------------------------------------
(* The networks *)

(* A frame that has come to a station                                       *)
For(c, t, f) ==
    /\ f.src # t
    /\ t \in DOMAIN c.hosts => f.net = c.hosts[t].net
    /\ f.net \in Ethers => f.dst \in {bcast, t}
AllFor(c, t, q) == IsSeq(q) /\ \A i \in DOMAIN q : Sound(c, q[i]) /\ For(c, t, q[i])

NetInv ==
    /\ Setup(case)
    /\ DOMAIN hosts = Names /\ \A s \in Names : HostOK(case, s, hosts[s])
    /\ RouterOK(case, router)
    /\ DOMAIN inbox = Stations /\ \A t \in Stations : AllFor(case, t, inbox[t])
    /\ lost \in Nat

LEMMA InitNet == (\A c \in Cases : Setup(c)) /\ Init => NetInv
<1> SUFFICES ASSUME \A c \in Cases : Setup(c), Init PROVE NetInv OBVIOUS
<1>1. Setup(case) /\ lost \in Nat BY DEF Init
<1>2. ASSUME NEW s \in Names PROVE HostOK(case, s, hosts[s])
  <2>1. hosts[s] = case.hosts[s] BY DEF Init
  <2>2. AllSound(case, <<>>) BY EmptyIsSeq DEF AllSound
  <2>3. 0 \in Nat OBVIOUS
  <2> QED BY <1>1, <1>2, <2>1, <2>2, <2>3, HostFacts DEF HostOK, Names
<1>3. RouterOK(case, router)
  <2>1. router = Router(Subnet(case.hosts), case.maxrems) BY DEF Init
  <2>2. /\ DOMAIN router = RouterFields /\ router.name = "router" /\ router.tx = <<>>
        /\ router.subnet = Subnet(case.hosts) /\ router.maxrems = case.maxrems
        /\ router.framestore = [i \in 0..(NFRAMES - 1) |-> NoWait] /\ router.frameidx = 0
        /\ router.remnodes = [i \in 0..(case.maxrems - 1) |-> [ip |-> "none", mac |-> "none"]]
        /\ router.remidx = 0
    BY <2>1 DEF Router, RouterFields
  <2>3. Waiting(case, NoWait) /\ Entry(case, [ip |-> "none", mac |-> "none"])
    BY DEF Waiting, NoWait, Entry
  <2>4. 0 \in 0..(NFRAMES - 1) /\ 0 \in 0..(case.maxrems - 1)
    <3>1. case.maxrems \in Nat \ {0} BY <1>1, NetAssumption DEF Setup
    <3> QED BY <3>1, ConstAssumption
  <2>5. StoreOK(case, router) BY <2>2, <2>3, <2>4 DEF StoreOK
  <2>6. CacheOK(case, router) BY <2>2, <2>3, <2>4 DEF CacheOK
  <2>7. AllSound(case, <<>>) BY EmptyIsSeq DEF AllSound
  <2> QED BY <2>2, <2>5, <2>6, <2>7 DEF RouterOK
<1>4. \A t : AllFor(case, t, <<>>) BY EmptyIsSeq DEF AllFor
<1>5. DOMAIN hosts = Names /\ DOMAIN inbox = Stations /\ \A t \in Stations : inbox[t] = <<>>
  BY DEF Init, Names, Stations
<1> QED BY <1>1, <1>2, <1>3, <1>4, <1>5 DEF NetInv

LEMMA NamesDiffer ==
  ASSUME NetInv
  PROVE /\ "router" \notin Names /\ "none" \notin Names /\ \A s \in Names : s \notin Others
        /\ \A s \in Names : hosts[s].net = case.hosts[s].net /\ hosts[s].name = s
        /\ Names = DOMAIN case.hosts
<1>1. \A s \in Names : s \notin Others BY HostFacts DEF NetInv, Names
<1>2. \A s \in Names : hosts[s].net = case.hosts[s].net /\ hosts[s].name = s
  BY HostFacts DEF NetInv, HostOK, Given, Names
<1> QED BY <1>1, <1>2 DEF Others, Names

(* The rest of a queue, and what is added to it.                            *)
LEMMA AllForTail ==
  ASSUME NEW c, NEW t, NEW q, AllFor(c, t, q), q # <<>>
  PROVE AllFor(c, t, Tail(q)) /\ Sound(c, Head(q)) /\ For(c, t, Head(q))
  BY HeadTail DEF AllFor

LEMMA AllForBoth ==
  ASSUME NEW c, NEW t, NEW p, NEW q, AllFor(c, t, p), AllFor(c, t, q)
  PROVE AllFor(c, t, p \o q)
<1>1. IsSeq(p) /\ IsSeq(q) BY DEF AllFor
<1>2. IsSeq(p \o q) BY <1>1, Concat
<1>3. ASSUME NEW i \in DOMAIN (p \o q)
      PROVE Sound(c, (p \o q)[i]) /\ For(c, t, (p \o q)[i])
  <2>1. CASE \E j \in DOMAIN p : (p \o q)[i] = p[j]
    <3>1. PICK j \in DOMAIN p : (p \o q)[i] = p[j] BY <2>1
    <3> QED BY <3>1, Zenon DEF AllFor
  <2>2. CASE \E j \in DOMAIN q : (p \o q)[i] = q[j]
    <3>1. PICK j \in DOMAIN q : (p \o q)[i] = q[j] BY <2>2
    <3> QED BY <3>1, Zenon DEF AllFor
  <2> QED BY <1>1, <2>1, <2>2, InConcat
<1> QED BY <1>2, <1>3 DEF AllFor

LEMMA DeliverKeeps ==
  ASSUME NetInv, NEW s \in Stations, NEW q, AllFor(case, s, q), NEW frames,
         AllSound(case, frames), Deliver(s, q, frames)
  PROVE /\ DOMAIN inbox' = Stations /\ \A t \in Stations : AllFor(case, t, inbox'[t])
        /\ \A t \in Stations :
             inbox'[t] = (IF t = s THEN q ELSE inbox[t])
                         \o IF IsOn(t) THEN Reaching(frames, t) ELSE <<>>
<1>1. DOMAIN inbox' = Stations
      /\ \A t \in Stations :
             inbox'[t] = (IF t = s THEN q ELSE inbox[t])
                         \o IF IsOn(t) THEN Reaching(frames, t) ELSE <<>>
  BY DEF Deliver
<1>2. ASSUME NEW t \in Stations PROVE AllFor(case, t, inbox'[t])
  <2> DEFINE p == IF t = s THEN q ELSE inbox[t]
             r == IF IsOn(t) THEN Reaching(frames, t) ELSE <<>>
  <2>1. AllFor(case, t, p) BY DEF NetInv
  <2>2. AllFor(case, t, <<>>) BY EmptyIsSeq DEF AllFor
  <2>3. AllFor(case, t, Reaching(frames, t))
    <3> DEFINE u == Reaching(frames, t)
    <3>1. IsSeq(frames) BY DEF AllSound
    <3>2. IsSeq(u)
          /\ \A i \in DOMAIN u : \E j \in DOMAIN frames : u[i] = frames[j] /\ Reaches(frames[j], t)
      BY <3>1, Reached
    <3> HIDE DEF u
    <3>3. ASSUME NEW i \in DOMAIN u PROVE Sound(case, u[i]) /\ For(case, t, u[i])
      <4>1. PICK j \in DOMAIN frames : u[i] = frames[j] /\ Reaches(frames[j], t) BY <3>2
      <4>2. Sound(case, frames[j]) BY DEF AllSound
      <4>3. For(case, t, frames[j])
        <5>1. t \in DOMAIN case.hosts => t # "router" /\ hosts[t].net = case.hosts[t].net
          BY NamesDiffer
        <5> QED BY <4>1, <5>1 DEF Reaches, For
      <4> QED BY <4>1, <4>2, <4>3
    <3>4. AllFor(case, t, u) BY <3>2, <3>3 DEF AllFor
    <3> QED BY <3>4 DEF u
  <2>4. AllFor(case, t, r) BY <2>2, <2>3
  <2>5. AllFor(case, t, p \o r)
    <3> HIDE DEF p, r
    <3> QED BY <2>1, <2>4, AllForBoth
  <2> QED BY <1>1, <2>5
<1> QED BY <1>1, <1>2

(* A pass of a host's main loop                                             *)
LEMMA PassKeeps ==
  ASSUME NetInv, NEW s \in Names, NEW expired, HostPass(s, expired), UNCHANGED <<case, router, lost>>
  PROVE NetInv'
<1> DEFINE h == IF Stopped(hosts[s]) THEN hosts[s] ELSE Tx(hosts[s], expired)
           n == IF inbox[s] = <<>> THEN h ELSE Rx(h, Head(inbox[s]))
           q == IF inbox[s] = <<>> \/ n.off THEN <<>> ELSE Tail(inbox[s])
           m == [n EXCEPT !.tx = <<>>]
<1>1. hosts' = [hosts EXCEPT ![s] = m] /\ Deliver(s, q, n.tx) BY DEF HostPass
<1>2. Setup(case) /\ HostOK(case, s, hosts[s]) /\ AllFor(case, s, inbox[s]) /\ s \in Stations
      /\ s \in DOMAIN case.hosts
  BY NamesDiffer DEF NetInv, Stations
<1>3. HostOK(case, s, h) BY <1>2, TxKeeps
<1> HIDE DEF h
<1>4. HostOK(case, s, n)
  <2> SUFFICES ASSUME inbox[s] # <<>> PROVE HostOK(case, s, Rx(h, Head(inbox[s]))) BY <1>3
  <2>1. Sound(case, Head(inbox[s])) /\ For(case, s, Head(inbox[s])) BY <1>2, AllForTail
  <2>2. Head(inbox[s]).net = h.net BY <1>2, <1>3, <2>1 DEF For, HostOK, Given
  <2> QED BY <1>2, <1>3, <2>1, <2>2, RxKeeps
<1> HIDE DEF n
<1>5. AllFor(case, s, q)
  <2>1. AllFor(case, s, <<>>) BY EmptyIsSeq DEF AllFor
  <2> QED BY <1>2, <2>1, AllForTail
<1> HIDE DEF q
<1>6. AllSound(case, n.tx) BY <1>4 DEF HostOK
<1>7. DOMAIN inbox' = Stations /\ \A t \in Stations : AllFor(case, t, inbox'[t])
  BY <1>1, <1>2, <1>5, <1>6, DeliverKeeps
<1>8. HostOK(case, s, m)
  <2>1. AllSound(case, <<>>) BY EmptyIsSeq DEF AllSound
  <2>2. "tx" \in DOMAIN n BY <1>2, <1>4, HostFacts DEF HostOK, HostFields
  <2>3. m.tx = <<>> /\ Only(n, m, {"tx"}) BY <2>2 DEF Only
  <2>4. {"tx"} \cap (Given \cup Learnt \cup {"remip"}) = {} BY DEF Given, Learnt
  <2> HIDE DEF m
  <2> QED BY <1>2, <1>4, <2>1, <2>3, <2>4, HostSame
<1> HIDE DEF m
<1>9. /\ DOMAIN hosts' = Names /\ \A t \in Names : HostOK(case, t, hosts'[t])
  BY <1>1, <1>8 DEF NetInv
<1> QED BY <1>7, <1>9 DEF NetInv, Names, Stations

LEMMA LoopKeeps ==
  ASSUME NetInv, RouterLoop
  PROVE NetInv' /\ FromHost(case, Head(inbox["router"]))
<1> DEFINE f == Head(inbox["router"])
           n == RouterRx(router, f)
           q == Tail(inbox["router"])
           m == [n EXCEPT !.tx = <<>>]
<1>1. router' = m /\ Deliver("router", q, n.tx) /\ UNCHANGED <<case, hosts, lost, early>>
      /\ inbox["router"] # <<>>
  BY DEF RouterLoop
<1>2. Setup(case) /\ RouterOK(case, router) /\ AllFor(case, "router", inbox["router"])
      /\ "router" \in Stations
  BY DEF NetInv, Stations
<1>3. Sound(case, f) /\ For(case, "router", f) /\ AllFor(case, "router", q)
  BY <1>1, <1>2, AllForTail
<1>4. FromHost(case, f) BY <1>3 DEF FromHost, Sound, Origin, For
<1> HIDE DEF f, q
<1>5. RouterOK(case, n) BY <1>2, <1>4, RouterRxKeeps
<1> HIDE DEF n
<1>6. AllSound(case, n.tx) BY <1>5 DEF RouterOK
<1>7. DOMAIN inbox' = Stations /\ \A t \in Stations : AllFor(case, t, inbox'[t])
  BY <1>1, <1>2, <1>3, <1>6, DeliverKeeps
<1>8. RouterOK(case, m)
  <2>1. AllSound(case, <<>>) BY EmptyIsSeq DEF AllSound
  <2>2. "tx" \in DOMAIN n BY <1>5 DEF RouterOK, RouterFields
  <2>3. m.tx = <<>> /\ Only(n, m, {"tx", "ident", "frags"}) BY <2>2 DEF Only
  <2> HIDE DEF m
  <2> QED BY <1>5, <2>1, <2>3, RouterSends
<1> HIDE DEF m
<1>9. NetInv' BY <1>1, <1>7, <1>8 DEF NetInv, Names, Stations
<1> QED BY <1>4, <1>9 DEF f

LEMMA NextNet == NetInv /\ [Next]_vars => NetInv'
<1> SUFFICES ASSUME NetInv, [Next]_vars PROVE NetInv' OBVIOUS
<1>1. CASE RouterLoop BY <1>1, LoopKeeps
<1>2. ASSUME NEW s \in Stations, Lose(s) PROVE NetInv'
  <2>1. AllFor(case, s, Tail(inbox[s])) BY <1>2, AllForTail DEF NetInv, Lose
  <2>2. inbox' = [inbox EXCEPT ![s] = Tail(@)] /\ lost' = lost + 1
        /\ UNCHANGED <<case, router, hosts, early>>
    BY <1>2 DEF Lose
  <2>3. DOMAIN inbox' = Stations /\ \A t \in Stations : AllFor(case, t, inbox'[t])
    BY <2>1, <2>2 DEF NetInv
  <2> QED BY <2>2, <2>3 DEF NetInv, Names, Stations
<1>3. ASSUME NEW s \in Names, HostLoop(s) PROVE NetInv' BY <1>3, PassKeeps DEF HostLoop
<1>4. ASSUME NEW s \in Names, Expire(s) PROVE NetInv' BY <1>4, PassKeeps DEF Expire
<1>5. CASE UNCHANGED vars BY <1>5 DEF vars, NetInv, Names, Stations
<1> QED BY <1>1, <1>2, <1>3, <1>4, <1>5 DEF Next

(* A datagram that has come to a host has that host's address in it.        *)
LEMMA RightDip ==
  ASSUME NEW c, Setup(c), NEW s \in DOMAIN c.hosts, NEW f, Sound(c, f), For(c, s, f),
         f.pcol = "ip"
  PROVE f.dip = s
<1>1. s \notin Others BY HostFacts
<1>2. IpOK(c, f.net, f.src, f.sip, f.dip, f.dst) BY DEF Sound
<1>3. f.net = c.hosts[s].net /\ f.src # s BY DEF For
<1>4. CASE f.net \in Ethers
  <2>1. f.dst \in {bcast, s} /\ f.dst \in {f.dip, "router"} BY <1>2, <1>4 DEF For, IpOK
  <2>2. f.dip \in Addresses(c) BY <1>2 DEF IpOK
  <2>3. bcast \notin Addresses(c)
    <3>1. bcast \notin DOMAIN c.hosts BY HostFacts DEF Others
    <3> QED BY <3>1, AddressFacts DEF bcast, Nobody
  <2>4. f.dip # bcast BY <2>2, <2>3
  <2> QED BY <1>1, <2>1, <2>4 DEF Others, bcast
<1>5. CASE f.net \notin Ethers
  <2>1. c.hosts[s].net = "S" BY <1>3, <1>5 DEF Sound, Ethers
  <2>2. \A t \in DOMAIN c.hosts : c.hosts[t].net = "S" => s = t
    BY <2>1, NetAssumption DEF Setup
  <2>3. f.src \notin DOMAIN c.hosts
    <3> SUFFICES ASSUME f.src \in DOMAIN c.hosts PROVE FALSE OBVIOUS
    <3>1. f.src # "router" BY HostFacts DEF Others
    <3>2. f.net = c.hosts[f.src].net BY <3>1 DEF Sound, Origin
    <3> QED BY <1>3, <2>1, <2>2, <3>2
  <2>4. f.src = "router" BY <2>3 DEF Sound, Origin
  <2>5. f.dip \in DOMAIN c.hosts /\ c.hosts[f.dip].net = f.net
    BY <1>2, <1>5, <2>4 DEF IpOK
  <2> QED BY <1>3, <2>1, <2>2, <2>5
<1> QED BY <1>4, <1>5

LEMMA InvRight == NetInv => RightStation
<1> SUFFICES ASSUME NetInv, NEW s \in Names, NEW i \in DOMAIN inbox[s], inbox[s][i].pcol = "ip"
    PROVE inbox[s][i].dip = s
  BY DEF RightStation
<1>1. s \in Stations /\ s \in DOMAIN case.hosts /\ Setup(case)
  BY NamesDiffer DEF NetInv, Stations
<1>2. Sound(case, inbox[s][i]) /\ For(case, s, inbox[s][i]) BY <1>1 DEF NetInv, AllFor
<1> QED BY <1>1, <1>2, RightDip

-----------------------------------------------------------------------------
(* What waits is asked for *)

(* The router's request is in the queue of the host, or its answer in the   *)
(* router's, and the place for the next datagram is free.                   *)
Request(f, ip) == f.pcol = "arp" /\ f.op = "req" /\ f.dip = ip /\ f.src = "router"
Requested(ip) == \E j \in DOMAIN inbox[ip] : Request(inbox[ip][j], ip)
Replied(ip) ==
    \E j \in DOMAIN inbox["router"] :
        IsAnswer(inbox["router"][j]) /\ inbox["router"][j].sip = ip
WaitInv ==
    /\ router.framestore[router.frameidx].dip = "none"
    /\ lost = 0 => \A i \in 0..(NFRAMES - 1) : \A ip \in Names :
         router.framestore[i].dip = ip /\ IsOn(ip) => Requested(ip) \/ Replied(ip)

LEMMA InConcats ==
  ASSUME NEW p, NEW q, IsSeq(p), IsSeq(q)
  PROVE /\ \A j \in DOMAIN p : \E i \in DOMAIN (p \o q) : (p \o q)[i] = p[j]
        /\ \A j \in DOMAIN q : \E i \in DOMAIN (p \o q) : (p \o q)[i] = q[j]
<1> DEFINE S == {p[i] : i \in DOMAIN p} \cup {q[i] : i \in DOMAIN q}
<1>1. p \in Seq(S) /\ q \in Seq(S) BY DEF IsSeq
<1> HIDE DEF S
<1>2. /\ Len(p) \in Nat /\ DOMAIN p = 1 .. Len(p) /\ Len(q) \in Nat /\ DOMAIN q = 1 .. Len(q)
      /\ DOMAIN (p \o q) = 1 .. Len(p) + Len(q)
  BY <1>1
<1>3. ASSUME NEW j \in DOMAIN p PROVE \E i \in DOMAIN (p \o q) : (p \o q)[i] = p[j]
  <2>1. j \in DOMAIN (p \o q) /\ (p \o q)[j] = p[j] BY <1>1, <1>2
  <2> QED BY <2>1
<1>4. ASSUME NEW j \in DOMAIN q PROVE \E i \in DOMAIN (p \o q) : (p \o q)[i] = q[j]
  <2>1. Len(p) + j \in DOMAIN (p \o q) /\ (p \o q)[Len(p) + j] = q[j] BY <1>1, <1>2
  <2> QED BY <2>1
<1> QED BY <1>3, <1>4

LEMMA InTail ==
  ASSUME NEW q, IsSeq(q), NEW j \in DOMAIN q, q[j] # Head(q)
  PROVE \E i \in DOMAIN Tail(q) : Tail(q)[i] = q[j]
<1> DEFINE S == {q[i] : i \in DOMAIN q}
<1>1. q \in Seq(S) BY DEF IsSeq
<1> HIDE DEF S
<1>2. Len(q) \in Nat /\ DOMAIN q = 1..Len(q) /\ j # 1 BY <1>1
<1>3. Tail(q) \in Seq(S) /\ Len(Tail(q)) = Len(q) - 1 /\ DOMAIN Tail(q) = 1..(Len(q) - 1)
  BY <1>1, <1>2
<1>4. j - 1 \in DOMAIN Tail(q) /\ Tail(q)[j - 1] = q[(j - 1) + 1] BY <1>1, <1>2, <1>3
<1> QED BY <1>2, <1>4

(* A frame in a queue stays there unless its station takes it.              *)
LEMMA Stays ==
  ASSUME NetInv, NEW s \in Stations, NEW q, AllFor(case, s, q), NEW frames,
         AllSound(case, frames), Deliver(s, q, frames)
  PROVE /\ \A t \in Stations \ {s} : \A j \in DOMAIN inbox[t] :
             \E i \in DOMAIN inbox'[t] : inbox'[t][i] = inbox[t][j]
        /\ \A j \in DOMAIN q : \E i \in DOMAIN inbox'[s] : inbox'[s][i] = q[j]
        /\ \A t \in Stations : \A j \in DOMAIN frames :
             IsOn(t) /\ Reaches(frames[j], t)
             => \E i \in DOMAIN inbox'[t] : inbox'[t][i] = frames[j]
<1>1. \A t \in Stations :
         inbox'[t] = (IF t = s THEN q ELSE inbox[t])
                     \o IF IsOn(t) THEN Reaching(frames, t) ELSE <<>>
  BY DeliverKeeps
<1>2. IsSeq(frames) /\ IsSeq(<<>>) /\ IsSeq(q) BY EmptyIsSeq DEF AllSound, AllFor
<1>3. \A t \in Stations : IsSeq(inbox[t]) BY DEF NetInv, AllFor
<1>4. ASSUME NEW t \in Stations
      PROVE /\ \A j \in DOMAIN (IF t = s THEN q ELSE inbox[t]) :
                 \E i \in DOMAIN inbox'[t] : inbox'[t][i] = (IF t = s THEN q ELSE inbox[t])[j]
            /\ \A j \in DOMAIN frames :
                 IsOn(t) /\ Reaches(frames[j], t)
                 => \E i \in DOMAIN inbox'[t] : inbox'[t][i] = frames[j]
  <2> DEFINE p == IF t = s THEN q ELSE inbox[t]
             u == Reaching(frames, t)
             r == IF IsOn(t) THEN u ELSE <<>>
  <2>1. inbox'[t] = p \o r BY <1>1
  <2>2. /\ IsSeq(u)
        /\ \A j \in DOMAIN frames : Reaches(frames[j], t) => \E i \in DOMAIN u : u[i] = frames[j]
    BY <1>2, Reached
  <2> HIDE DEF u
  <2>3. IsSeq(p) /\ IsSeq(r) BY <1>2, <1>3, <2>2
  <2>4. IsOn(t) => r = u OBVIOUS
  <2> HIDE DEF p, r
  <2>5. /\ \A j \in DOMAIN p : \E i \in DOMAIN inbox'[t] : inbox'[t][i] = p[j]
        /\ \A j \in DOMAIN r : \E i \in DOMAIN inbox'[t] : inbox'[t][i] = r[j]
    BY <2>1, <2>3, InConcats
  <2>6. ASSUME NEW j \in DOMAIN frames, IsOn(t), Reaches(frames[j], t)
        PROVE \E i \in DOMAIN inbox'[t] : inbox'[t][i] = frames[j]
    <3>1. PICK k \in DOMAIN u : u[k] = frames[j] BY <2>2, <2>6
    <3>2. k \in DOMAIN r /\ r[k] = frames[j] BY <2>4, <2>6, <3>1
    <3> QED BY <2>5, <3>2
  <2> QED BY <2>5, <2>6 DEF p
<1> QED BY <1>4

(* A request that is for a host is answered, whatever program it runs.      *)
LEMMA Answers ==
  ASSUME NEW c, Setup(c), NEW s, NEW h, HostOK(c, s, h), NEW f, Sound(c, f), f.net = h.net,
         Request(f, s)
  PROVE \E j \in DOMAIN Rx(h, f).tx :
          LET a == Rx(h, f).tx[j] IN IsAnswer(a) /\ a.sip = s /\ Reaches(a, "router")
<1> DEFINE a == [net |-> h.net, src |-> h.name, dst |-> f.src, pcol |-> "arp",
                 op |-> "resp", sip |-> h.name, dip |-> f.sip]
<1>1. /\ s \in DOMAIN c.hosts /\ h.name = s /\ h.app \in {"datagram", "ping", "arpscan"}
      /\ DOMAIN h = HostFields /\ s # "router" /\ "router" \notin DOMAIN c.hosts
      /\ IsSeq(h.tx)
  BY HostFacts DEF HostOK, Given, Others, AllSound
<1>2. f.pcol = "arp" /\ f.op = "req" /\ f.dip = s /\ f.src = "router" BY DEF Request
<1>3. f.sip = RouterIp[f.net] BY <1>1, <1>2 DEF Sound, Origin
<1>4. IsAnswer(a) /\ a.sip = s /\ Reaches(a, "router") BY <1>1, <1>2, <1>3 DEF IsAnswer, Reaches
<1> DEFINE m == ArpReply(h, f)
<1>5. m.tx = Append(h.tx, a) BY <1>1 DEF ArpReply, make_arp, HostFields
<1> HIDE DEF a, m
<1>6. Asked(h, f) BY <1>1, <1>2 DEF Asked
<1>7. Rx(h, f).tx = m.tx
  <2>1. CASE h.app = "datagram" BY <1>2, <1>6, <2>1 DEF Rx, DatagramArp, m
  <2>2. CASE h.app = "ping" BY <1>2, <1>6, <2>2 DEF Rx, PingArp, m
  <2>3. CASE h.app = "arpscan"
    <3>1. Rx(h, f) = [m EXCEPT !.remip = f.sip] BY <1>2, <1>6, <2>3 DEF Rx, ArpscanArp, m
    <3> QED BY <3>1
  <2> QED BY <1>1, <2>1, <2>2, <2>3
<1>8. \E j \in DOMAIN Append(h.tx, a) : Append(h.tx, a)[j] = a
  <2> DEFINE S == {h.tx[i] : i \in DOMAIN h.tx} \cup {a}
             q == h.tx
  <2>1. q \in Seq(S) /\ a \in S BY <1>1 DEF IsSeq
  <2> HIDE DEF S, q
  <2>2. Len(q) + 1 \in DOMAIN Append(q, a) /\ Append(q, a)[Len(q) + 1] = a BY <2>1
  <2> QED BY <2>2 DEF q
<1> QED BY <1>4, <1>5, <1>7, <1>8

LEMMA InitWait == NetInv /\ Init => WaitInv
<1> SUFFICES ASSUME NetInv, Init PROVE WaitInv OBVIOUS
<1>1. router = Router(Subnet(case.hosts), case.maxrems) BY DEF Init
<1>2. router.framestore = [i \in 0..(NFRAMES - 1) |-> NoWait] /\ router.frameidx = 0
  BY <1>1 DEF Router
<1>3. \A i \in 0..(NFRAMES - 1) : router.framestore[i].dip = "none" BY <1>2 DEF NoWait
<1>4. 0 \in 0..(NFRAMES - 1) BY ConstAssumption
<1> QED BY <1>2, <1>3, <1>4, NamesDiffer DEF WaitInv

(* What is asked for stays so in the pass of a host: its own request is     *)
(* answered or still in its queue, unless its program ends.                 *)
LEMMA PassWaits ==
  ASSUME NetInv, WaitInv, NEW s \in Names, IsOn(s), NEW expired, HostPass(s, expired),
         UNCHANGED <<case, router, lost>>
  PROVE WaitInv'
<1> DEFINE h == IF Stopped(hosts[s]) THEN hosts[s] ELSE Tx(hosts[s], expired)
           n == IF inbox[s] = <<>> THEN h ELSE Rx(h, Head(inbox[s]))
           q == IF inbox[s] = <<>> \/ n.off THEN <<>> ELSE Tail(inbox[s])
           m == [n EXCEPT !.tx = <<>>]
<1>1. hosts' = [hosts EXCEPT ![s] = m] /\ Deliver(s, q, n.tx) BY DEF HostPass
<1>2. /\ Setup(case) /\ HostOK(case, s, hosts[s]) /\ AllFor(case, s, inbox[s])
      /\ s \in Stations /\ "router" \in Stations /\ s # "router" /\ s \in DOMAIN case.hosts
      /\ DOMAIN hosts = Names /\ Names' = Names
  BY NamesDiffer DEF NetInv, Stations, Names
<1>3. HostOK(case, s, h) BY <1>2, TxKeeps
<1> HIDE DEF h
<1>4. inbox[s] # <<>> => /\ Sound(case, Head(inbox[s])) /\ Head(inbox[s]).net = h.net
                         /\ HostOK(case, s, Rx(h, Head(inbox[s])))
  <2> SUFFICES ASSUME inbox[s] # <<>>
      PROVE /\ Sound(case, Head(inbox[s])) /\ Head(inbox[s]).net = h.net
            /\ HostOK(case, s, Rx(h, Head(inbox[s])))
    OBVIOUS
  <2>1. Sound(case, Head(inbox[s])) /\ For(case, s, Head(inbox[s])) BY <1>2, AllForTail
  <2>2. Head(inbox[s]).net = h.net BY <1>2, <1>3, <2>1 DEF For, HostOK, Given
  <2> QED BY <1>2, <1>3, <2>1, <2>2, RxKeeps
<1>5. HostOK(case, s, n) BY <1>3, <1>4
<1>6. AllFor(case, s, q)
  <2>1. AllFor(case, s, <<>>) BY EmptyIsSeq DEF AllFor
  <2> QED BY <1>2, <2>1, AllForTail
<1>7. m.off = n.off
  <2>1. DOMAIN n = HostFields BY <1>2, <1>5, HostFacts DEF HostOK
  <2> HIDE DEF n
  <2> QED BY <2>1 DEF HostFields
<1>8. /\ \A t \in Names \ {s} : IsOn(t)' => IsOn(t)
      /\ IsOn(s)' => ~n.off
  <2> HIDE DEF m, n
  <2> QED BY <1>1, <1>2, <1>7 DEF IsOn
<1>9. AllSound(case, n.tx) BY <1>5 DEF HostOK
<1>10. /\ \A t \in Stations \ {s} : \A j \in DOMAIN inbox[t] :
             \E i \in DOMAIN inbox'[t] : inbox'[t][i] = inbox[t][j]
       /\ \A j \in DOMAIN q : \E i \in DOMAIN inbox'[s] : inbox'[s][i] = q[j]
       /\ \A t \in Stations : \A j \in DOMAIN n.tx :
             IsOn(t) /\ Reaches(n.tx[j], t)
             => \E i \in DOMAIN inbox'[t] : inbox'[t][i] = n.tx[j]
  <2> HIDE DEF n, q
  <2> QED BY <1>1, <1>2, <1>6, <1>9, Stays
<1> HIDE DEF n, q, m
<1>11. ASSUME NEW ip \in Names, Replied(ip) PROVE Replied(ip)'
  <2>1. PICK j \in DOMAIN inbox["router"] :
          IsAnswer(inbox["router"][j]) /\ inbox["router"][j].sip = ip
    BY <1>11 DEF Replied
  <2>2. PICK i \in DOMAIN inbox'["router"] : inbox'["router"][i] = inbox["router"][j]
    BY <1>2, <1>10
  <2> QED BY <2>1, <2>2 DEF Replied, IsAnswer
<1>12. ASSUME NEW ip \in Names \ {s}, Requested(ip) PROVE Requested(ip)'
  <2>1. PICK j \in DOMAIN inbox[ip] : Request(inbox[ip][j], ip) BY <1>12 DEF Requested
  <2>2. ip \in Stations \ {s} BY DEF Stations
  <2>3. PICK i \in DOMAIN inbox'[ip] : inbox'[ip][i] = inbox[ip][j] BY <1>10, <2>2
  <2> QED BY <2>1, <2>3 DEF Requested, Request
<1>13. ASSUME IsOn(s)', Requested(s) PROVE Requested(s)' \/ Replied(s)'
  <2>1. PICK j \in DOMAIN inbox[s] : Request(inbox[s][j], s) BY <1>13 DEF Requested
  <2>2. inbox[s] # <<>> BY <2>1
  <2>3. n = Rx(h, Head(inbox[s])) BY <2>2 DEF n
  <2>4. q = Tail(inbox[s]) BY <1>8, <1>13, <2>2 DEF q
  <2>5. CASE inbox[s][j] = Head(inbox[s])
    <3>1. PICK k \in DOMAIN n.tx :
            IsAnswer(n.tx[k]) /\ n.tx[k].sip = s /\ Reaches(n.tx[k], "router")
      BY <1>2, <1>3, <1>4, <2>1, <2>2, <2>3, <2>5, Answers
    <3>2. IsOn("router") BY DEF IsOn
    <3>3. PICK i \in DOMAIN inbox'["router"] : inbox'["router"][i] = n.tx[k]
      BY <1>2, <1>10, <3>1, <3>2
    <3> QED BY <3>1, <3>3 DEF Replied, IsAnswer
  <2>6. CASE inbox[s][j] # Head(inbox[s])
    <3>1. IsSeq(inbox[s]) BY <1>2 DEF AllFor
    <3>2. PICK k \in DOMAIN q : q[k] = inbox[s][j] BY <2>4, <2>6, <3>1, InTail
    <3>3. PICK i \in DOMAIN inbox'[s] : inbox'[s][i] = q[k] BY <1>10
    <3> QED BY <2>1, <3>2, <3>3 DEF Requested, Request
  <2> QED BY <2>5, <2>6
<1>14. ASSUME lost' = 0, NEW i \in 0..(NFRAMES - 1), NEW ip \in Names,
              router'.framestore[i].dip = ip, IsOn(ip)'
       PROVE Requested(ip)' \/ Replied(ip)'
  <2>1. IsOn(ip) BY <1>8, <1>14
  <2>2. Requested(ip) \/ Replied(ip) BY <1>14, <2>1 DEF WaitInv
  <2> QED BY <1>11, <1>12, <1>13, <1>14, <2>2
<1>15. router'.framestore[router'.frameidx].dip = "none" BY DEF WaitInv
<1> QED BY <1>2, <1>14, <1>15 DEF WaitInv

(* A datagram that begins to wait is asked for at once, and the answer      *)
(* leaves none for its sender.                                              *)
LEMMA LoopWaits ==
  ASSUME NetInv, WaitInv, RouterLoop
  PROVE WaitInv'
<1> DEFINE f == Head(inbox["router"])
           n == RouterRx(router, f)
           q == Tail(inbox["router"])
           m == [n EXCEPT !.tx = <<>>]
           Last == NFRAMES - 1
<1>1. router' = m /\ Deliver("router", q, n.tx) /\ UNCHANGED <<case, hosts, lost, early>>
      /\ inbox["router"] # <<>>
  BY DEF RouterLoop
<1>2. Setup(case) /\ RouterOK(case, router) /\ AllFor(case, "router", inbox["router"])
      /\ "router" \in Stations /\ "router" \notin Names /\ "none" \notin Names
  BY NamesDiffer DEF NetInv, Stations
<1>3. FromHost(case, f) /\ AllFor(case, "router", q) BY <1>1, <1>2, AllForTail, LoopKeeps
<1>4. RouterOK(case, n)
      /\ IF IsAnswer(f) THEN Empties(router, n, f.sip) ELSE SameStore(router, n) \/ Adds(case, router, n)
  BY <1>2, <1>3, RouterRxKeeps
<1>5. AllSound(case, n.tx) BY <1>4 DEF RouterOK
<1>6. /\ \A t \in Stations \ {"router"} : \A j \in DOMAIN inbox[t] :
             \E i \in DOMAIN inbox'[t] : inbox'[t][i] = inbox[t][j]
      /\ \A j \in DOMAIN q : \E i \in DOMAIN inbox'["router"] : inbox'["router"][i] = q[j]
      /\ \A t \in Stations : \A j \in DOMAIN n.tx :
             IsOn(t) /\ Reaches(n.tx[j], t)
             => \E i \in DOMAIN inbox'[t] : inbox'[t][i] = n.tx[j]
  <2> HIDE DEF n, q
  <2> QED BY <1>1, <1>2, <1>3, <1>5, Stays
<1>7. SameStore(n, router')
  <2> HIDE DEF n
  <2> QED BY <1>1, <1>4 DEF SameStore, RouterOK, RouterFields
<1> HIDE DEF n, m
<1>8. ASSUME NEW ip \in Names, Requested(ip) PROVE Requested(ip)'
  <2>1. PICK j \in DOMAIN inbox[ip] : Request(inbox[ip][j], ip) BY <1>8 DEF Requested
  <2>2. ip \in Stations \ {"router"} BY <1>2 DEF Stations
  <2>3. PICK i \in DOMAIN inbox'[ip] : inbox'[ip][i] = inbox[ip][j] BY <1>6, <2>2
  <2> QED BY <2>1, <2>3 DEF Requested, Request
<1>9. ASSUME NEW ip \in Names, Replied(ip), IsAnswer(f) => f.sip # ip PROVE Replied(ip)'
  <2>1. PICK j \in DOMAIN inbox["router"] :
          IsAnswer(inbox["router"][j]) /\ inbox["router"][j].sip = ip
    BY <1>9 DEF Replied
  <2>2. inbox["router"][j] # f BY <1>9, <2>1
  <2>3. IsSeq(inbox["router"]) BY <1>2 DEF AllFor
  <2>4. PICK k \in DOMAIN q : q[k] = inbox["router"][j] BY <2>2, <2>3, InTail
  <2>5. PICK i \in DOMAIN inbox'["router"] : inbox'["router"][i] = q[k] BY <1>6
  <2> QED BY <2>1, <2>4, <2>5 DEF Replied, IsAnswer
<1> HIDE DEF f, q
<1>10. ASSUME lost' = 0, NEW i \in 0..Last, NEW ip \in Names,
              router.framestore[i].dip = ip, IsOn(ip)', IsAnswer(f) => f.sip # ip
       PROVE Requested(ip)' \/ Replied(ip)'
  <2>1. lost = 0 /\ IsOn(ip) BY <1>1, <1>10 DEF IsOn
  <2>2. Requested(ip) \/ Replied(ip) BY <1>10, <2>1 DEF WaitInv
  <2> QED BY <1>8, <1>9, <1>10, <2>2
<1>11. router.framestore[router.frameidx].dip = "none" /\ NoWait.dip = "none"
  BY DEF WaitInv, NoWait
<1>12. Names' = Names BY <1>1 DEF Names
<1>13. CASE IsAnswer(f)
  <2>1. Empties(router, n, f.sip) BY <1>4, <1>13
  <2>2. n.framestore[n.frameidx].dip = "none"
    <3>1. router.frameidx \in 0..Last BY <1>2 DEF RouterOK, StoreOK
    <3> QED BY <1>11, <2>1, <3>1 DEF Empties
  <2>3. ASSUME lost' = 0, NEW i \in 0..Last, NEW ip \in Names,
               n.framestore[i].dip = ip, IsOn(ip)'
        PROVE Requested(ip)' \/ Replied(ip)'
    <3>1. n.framestore[i] \in {router.framestore[i], NoWait}
          /\ (i # router.frameidx => n.framestore[i].dip # f.sip)
      BY <2>1 DEF Empties
    <3>2. router.framestore[i].dip = ip BY <1>2, <1>11, <2>3, <3>1
    <3>3. i # router.frameidx BY <1>2, <1>11, <3>2
    <3>4. f.sip # ip BY <2>3, <3>1, <3>3
    <3> QED BY <1>10, <2>3, <3>2, <3>4
  <2> QED BY <1>7, <1>12, <2>2, <2>3 DEF WaitInv, SameStore
<1>14. CASE ~IsAnswer(f) /\ SameStore(router, n)
  <2>1. router'.framestore = router.framestore /\ router'.frameidx = router.frameidx
    BY <1>7, <1>14 DEF SameStore
  <2> QED BY <1>10, <1>11, <1>12, <1>14, <2>1 DEF WaitInv
<1>15. CASE ~IsAnswer(f) /\ Adds(case, router, n)
  <2>1. PICK r, w : /\ RouterOK(case, r) /\ SameStore(router, r) /\ Waiting(case, w)
                    /\ Subnet(case.hosts)[w.dip] \in Ethers
                    /\ n = Hold(r, w, Subnet(case.hosts)[w.dip])
    BY <1>15 DEF Adds
  <2> DEFINE net == Subnet(case.hosts)[w.dip]
             next == (r.frameidx + 1) % NFRAMES
             a == Inquiry(net, w.dip)
  <2>2. net \in {"A", "B", "S"} BY <2>1 DEF Ethers
  <2>3. /\ n.frameidx = next /\ next \in 0..Last /\ next # r.frameidx
        /\ n.framestore = [r.framestore EXCEPT ![r.frameidx] = w, ![next] = NoWait]
        /\ n.tx = Append(r.tx, a)
    BY <1>2, <2>1, <2>2, HoldKeeps
  <2>4. /\ r.framestore = router.framestore /\ r.frameidx = router.frameidx
        /\ r.frameidx \in 0..Last /\ DOMAIN r.framestore = 0..Last
    BY <2>1 DEF SameStore, RouterOK, StoreOK
  <2>5. a.net = net /\ a.src = "router" /\ a.dst = bcast /\ Request(a, w.dip)
    BY DEF Inquiry, Request
  <2> HIDE DEF next, a, net
  <2>6. n.framestore[n.frameidx].dip = "none" BY <1>11, <2>3, <2>4
  <2>7. ASSUME lost' = 0, NEW i \in 0..Last, NEW ip \in Names,
               n.framestore[i].dip = ip, IsOn(ip)'
        PROVE Requested(ip)' \/ Replied(ip)'
    <3>1. i # next BY <1>2, <2>3, <2>6, <2>7
    <3>2. CASE i # r.frameidx
      <4>1. router.framestore[i].dip = ip BY <2>3, <2>4, <2>7, <3>1, <3>2
      <4> QED BY <1>10, <1>15, <2>7, <4>1
    <3>3. CASE i = r.frameidx
      <4>1. w.dip = ip BY <2>3, <2>4, <2>7, <3>3
      <4>2. net = hosts[ip].net
        <5>1. ip \in DOMAIN case.hosts /\ hosts[ip].net = case.hosts[ip].net
          BY NamesDiffer
        <5> QED BY <1>2, <4>1, <5>1, AddressFacts DEF net
      <4>3. Reaches(a, ip) /\ Request(a, ip)
        BY <1>2, <2>5, <4>1, <4>2 DEF Reaches
      <4>4. ip \in Stations /\ IsOn(ip) BY <1>1, <2>7 DEF Stations, IsOn
      <4>5. PICK j \in DOMAIN n.tx : n.tx[j] = a
        <5> DEFINE S == {r.tx[x] : x \in DOMAIN r.tx} \cup {a}
                   p == r.tx
        <5>1. p \in Seq(S) /\ a \in S BY <2>1 DEF RouterOK, AllSound, IsSeq
        <5> HIDE DEF S, p
        <5>2. Len(p) + 1 \in DOMAIN Append(p, a) /\ Append(p, a)[Len(p) + 1] = a BY <5>1
        <5> QED BY <2>3, <5>2 DEF p
      <4>6. PICK j2 \in DOMAIN inbox'[ip] : inbox'[ip][j2] = a BY <1>6, <4>3, <4>4, <4>5
      <4> QED BY <4>3, <4>6 DEF Requested, Request
    <3> QED BY <3>2, <3>3
  <2> QED BY <1>7, <1>12, <2>6, <2>7 DEF WaitInv, SameStore
<1> QED BY <1>4, <1>13, <1>14, <1>15

LEMMA NextWait == NetInv /\ WaitInv /\ [Next]_vars => WaitInv'
<1> SUFFICES ASSUME NetInv, WaitInv, [Next]_vars PROVE WaitInv' OBVIOUS
<1>1. CASE RouterLoop BY <1>1, LoopWaits
<1>2. ASSUME NEW s \in Stations, Lose(s) PROVE WaitInv'
  <2>1. lost' = lost + 1 /\ lost \in Nat /\ router' = router BY <1>2 DEF Lose, NetInv
  <2>2. lost' # 0 BY <2>1
  <2> QED BY <2>1, <2>2 DEF WaitInv
<1>3. ASSUME NEW s \in Names, HostLoop(s) \/ Expire(s) PROVE WaitInv'
  <2>1. IsOn(s) /\ UNCHANGED <<case, router, lost>> /\ \E expired : HostPass(s, expired)
    <3>1. s # "router" BY NamesDiffer
    <3> QED BY <1>3, <3>1 DEF HostLoop, Expire, IsOn
  <2> QED BY <2>1, PassWaits
<1>4. CASE UNCHANGED vars BY <1>4 DEF vars, WaitInv, Names, Requested, Replied, IsOn
<1> QED BY <1>1, <1>2, <1>3, <1>4 DEF Next

LEMMA InvWaiting == NetInv /\ WaitInv => WaitingIsAsked
<1> SUFFICES ASSUME NetInv, WaitInv, NEW i \in 0..(NFRAMES - 1),
                    router.framestore[i].dip \in Names, lost = 0, IsOn(router.framestore[i].dip)
    PROVE LET ip == router.framestore[i].dip IN
          \/ \E j \in DOMAIN inbox[ip] :
                LET f == inbox[ip][j] IN f.pcol = "arp" /\ f.op = "req" /\ f.dip = ip
          \/ \E j \in DOMAIN inbox["router"] :
                LET f == inbox["router"][j] IN f.pcol = "arp" /\ f.op = "resp" /\ f.sip = ip
  BY DEF WaitingIsAsked
<1> DEFINE ip == router.framestore[i].dip
<1>1. Requested(ip) \/ Replied(ip) BY DEF WaitInv
<1> QED BY <1>1 DEF Requested, Replied, Request, IsAnswer

-----------------------------------------------------------------------------
(* The sums *)

Neighbours(c, a, b) ==
    a # b /\ {a, b} \subseteq DOMAIN c.hosts /\ c.hosts[a].net = c.hosts[b].net

(* Which network an address is on, and a length that needs no third         *)
(* fragment there                                                           *)
On(c, ip, net) ==
    ip \in DOMAIN Subnet(c.hosts) /\ Subnet(c.hosts)[ip] = net /\ net # "none"
Takes(c, ip, len) == \A net : On(c, ip, net) => len <= 2 * Mtu(net)

(* A message that has a right sum                                           *)
MessageOK(c, sip, dip, prot, m) ==
    /\ {"prot", "len"} \subseteq DOMAIN m /\ m.len \in Nat /\ m.prot = prot
    /\ \A ip \in {sip, dip} : Takes(c, ip, m.len)
    /\ prot = "icmp" \/
         /\ prot = "udp" /\ m.ok /\ m.from = sip /\ m.to = dip
         /\ m.dport \in {ECHOPORT, DAYPORT} => m.sport = MINEPORT
         /\ m.dport = ECHOPORT /\ dip \in DOMAIN c.hosts => m.len <= Mtu(c.hosts[dip].net)
Full(c, sip, dip, prot, data) ==
    data = <<>> \/ (data = Whole(Message(data)) /\ MessageOK(c, sip, dip, prot, Message(data)))

(* One half of a message, and two halves of one                             *)
Units(m, from, to) == [i \in 1..(to - from) |-> <<m, from + i>>]
Cut(x) == IF x.oset = 0 THEN Len(x.data) ELSE x.oset
Half(x) ==
    LET m == Message(x.data) k == Cut(x) IN
    /\ m.len \in Nat /\ k \in 1..(m.len - 1)
    /\ x.data = IF x.oset = 0 THEN Units(m, 0, k) ELSE Units(m, k, m.len)
Agree(x, y) == Message(x.data) = Message(y.data) /\ Cut(x) = Cut(y)
Alike(x, y) == x.sip = y.sip /\ x.ident = y.ident => Agree(x, y)

IsHalf(f) == f.pcol = "ip" /\ (f.oset # 0 \/ f.more)
Content(c, f) ==
    /\ f.ident \in Nat
    /\ IF IsHalf(f) THEN Half(f) /\ MessageOK(c, f.sip, f.dip, f.prot, Message(f.data))
       ELSE Full(c, f.sip, f.dip, f.prot, f.data)
(* Neighbours send to each other without the router.                        *)
Way(c, f) ==
    IF f.src = "router" THEN ~Neighbours(c, f.sip, f.dip)
    ELSE f.net \in Ethers /\ Neighbours(c, f.src, f.dip) => f.dst = f.dip
Pure(c, f) == f.pcol = "ip" => Content(c, f) /\ Way(c, f)

(* A node's fragments, and what it has sent in a pass that began with the   *)
(* ident id                                                                 *)
Stored(n) == {n.frags[k] : k \in {k \in 1..NFRAGS : n.frags[k].tries > 0}}
FragsOK(n) ==
    /\ DOMAIN n.frags = 1..NFRAGS
    /\ \A k \in 1..NFRAGS : /\ DOMAIN n.frags[k] = {"tries", "ident", "sip", "oset", "data"}
                            /\ n.frags[k].tries \in Nat
    /\ \A x \in Stored(n) : Half(x)
SentOK(c, name, q, id, top) ==
    /\ id \in Nat /\ top \in Nat /\ id <= top
    /\ IsSeq(q)
    /\ \A i \in DOMAIN q :
         /\ Pure(c, q[i])
         /\ q[i].pcol = "ip" => q[i].src = name /\ id <= q[i].ident /\ q[i].ident < top
    /\ \A i, j \in DOMAIN q : IsHalf(q[i]) /\ IsHalf(q[j]) => Alike(q[i], q[j])
Sent(c, n, id) == SentOK(c, n.name, n.tx, id, n.ident)
HostSums(c, s, h) ==
    /\ h.net \in Ethers /\ Ready(h) /\ Neighbours(c, s, h.remip) => h.mac = h.remip
    /\ h.len = c.hosts[s].len /\ h.port = c.hosts[s].port
    /\ h.app = "ping" /\ h.net \in Ethers /\ h.arped => On(c, h.remip, h.net)
    /\ ~h.badsum
StoreSums(c, r) ==
    \A i \in 0..(NFRAMES - 1) :
        LET w == r.framestore[i] IN
        w.dip # "none" => Full(c, w.sip, w.dip, w.prot, w.data) /\ ~Neighbours(c, w.sip, w.dip)

(* Whose ident is in a fragment that has come to t                          *)
Carrier(c, t, sip) ==
    IF sip \in DOMAIN c.hosts /\ (t \in DOMAIN c.hosts => Neighbours(c, t, sip))
    THEN sip ELSE "router"
Node(s) == IF s = "router" THEN router ELSE hosts[s]
Halves(t) ==
    {inbox[t][i] : i \in {i \in DOMAIN inbox[t] : IsHalf(inbox[t][i])}} \cup Stored(Node(t))
HalvesOK(t) ==
    /\ \A x \in Halves(t) : x.ident \in Nat /\ x.ident < Node(Carrier(case, t, x.sip)).ident
    /\ \A x, y \in Halves(t) : Alike(x, y)
AllHalves == \A t \in Stations : HalvesOK(t)

(* Every datagram and every half of one has a right sum, wherever it is.    *)
SumInv ==
    /\ Plain(case)
    /\ \A s \in Names : HostSums(case, s, hosts[s])
    /\ StoreSums(case, router)
    /\ \A t \in Stations : /\ FragsOK(Node(t)) /\ Sent(case, Node(t), Node(t).ident)
                           /\ Node(t).tx = <<>> /\ Node(t).name = t
                           /\ \A i \in DOMAIN inbox[t] : Pure(case, inbox[t][i])
                           /\ HalvesOK(t)

(* Halves *)

LEMMA WholeIs ==
  ASSUME NEW m, m.len \in Nat
  PROVE /\ Whole(m) \in Seq({m} \X Nat) /\ Len(Whole(m)) = m.len
        /\ \A i \in 1..m.len : Whole(m)[i] = <<m, i>>
<1> DEFINE n == m.len
           w == [i \in 1..n |-> <<m, i>>]
<1>1. Whole(m) = w BY DEF Whole
<1>2. n \in Nat /\ \A i \in 1..n : <<m, i>> \in {m} \X Nat OBVIOUS
<1> HIDE DEF n
<1>3. w \in Seq({m} \X Nat) /\ Len(w) = n /\ \A i \in 1..n : w[i] = <<m, i>> BY <1>2
<1> QED BY <1>1, <1>3 DEF n

LEMMA UnitsAre ==
  ASSUME NEW m, NEW from \in Nat, NEW to \in Nat, from < to
  PROVE LET u == Units(m, from, to)
        IN /\ Len(u) = to - from /\ u # <<>> /\ Message(u) = m
           /\ \A i \in 1..(to - from) : u[i] = <<m, from + i>>
<1> DEFINE n == to - from
           u == [i \in 1..n |-> <<m, from + i>>]
<1>1. n \in Nat /\ 1 \in 1..n /\ \A i \in 1..n : <<m, from + i>> \in {m} \X Nat OBVIOUS
<1>2. Units(m, from, to) = u BY DEF Units
<1> HIDE DEF n
<1>3. u \in Seq({m} \X Nat) /\ Len(u) = n /\ \A i \in 1..n : u[i] = <<m, from + i>> BY <1>1
<1> HIDE DEF u
<1>4. u # <<>> BY <1>1, <1>3
<1>5. Message(u) = m BY <1>1, <1>3 DEF Message
<1> QED BY <1>2, <1>3, <1>4, <1>5 DEF n

(* What make_ip copies of a message is there.                               *)
LEMMA PartIs ==
  ASSUME NEW m, m.len \in Nat, NEW from \in Nat, NEW to \in Nat, from <= to, to <= m.len
  PROVE Part(Whole(m), from, to - from) = Units(m, from, to)
<1>1. Len(Whole(m)) = m.len /\ \A i \in 1..m.len : Whole(m)[i] = <<m, i>> BY WholeIs
<1>2. ASSUME NEW i \in 1..(to - from)
      PROVE from + i <= Len(Whole(m)) /\ Whole(m)[from + i] = <<m, from + i>>
  BY <1>1
<1> QED BY <1>2 DEF Part, Units

(* Two adjacent halves of one message are the message.                      *)
LEMMA Joined ==
  ASSUME NEW x, NEW y, Half(x), Half(y), Agree(x, y), Adjacent(x, y)
  PROVE Placed(x, y) = Whole(Message(x.data)) /\ Placed(x, y) # <<>>
<1> DEFINE m == Message(x.data)
           k == Cut(x)
           n == m.len
           a == Units(m, 0, k)
           b == Units(m, k, n)
<1>1. n \in Nat /\ k \in 1..(n - 1) BY DEF Half
<1>2. Message(y.data) = m /\ Cut(y) = k BY DEF Agree
<1>3. x.data = (IF x.oset = 0 THEN a ELSE b) /\ y.data = (IF y.oset = 0 THEN a ELSE b)
  BY <1>2 DEF Half
<1>4. Len(a) = k /\ \A i \in 1..k : a[i] = <<m, i>>
  <2>1. 0 \in Nat /\ k \in Nat /\ 0 < k /\ k - 0 = k BY <1>1
  <2> HIDE DEF k, m
  <2>2. Len(a) = k /\ \A i \in 1..k : a[i] = <<m, 0 + i>> BY <2>1, UnitsAre
  <2> HIDE DEF a
  <2> QED BY <2>2
<1>5. Len(b) = n - k /\ \A i \in 1..(n - k) : b[i] = <<m, k + i>>
  <2>1. k \in Nat /\ k < n BY <1>1
  <2> HIDE DEF k, n, m
  <2> QED BY <1>1, <2>1, UnitsAre
<1>6. (x.oset # 0 => x.oset = k) /\ (y.oset # 0 => y.oset = k) BY <1>2 DEF Cut
<1>7. Whole(m) # <<>>
  <2>1. Len(Whole(m)) = n BY <1>1, WholeIs
  <2> QED BY <1>1, <2>1
<1>8. Whole(m) = [i \in 1..n |-> <<m, i>>] BY DEF Whole
<1> HIDE DEF m, k, n, a, b
<1>9. x.oset = 0 <=> y.oset # 0 BY <1>1, <1>3, <1>4, <1>5, <1>6 DEF Adjacent
<1> DEFINE In(z, i) == i \in z.oset + 1 .. z.oset + Len(z.data)
           At(i) == IF In(y, i) THEN y.data[i - y.oset]
                    ELSE IF In(x, i) THEN x.data[i - x.oset]
                    ELSE IF i <= Len(x.data) THEN x.data[i] ELSE Junk
<1>10. Placed(x, y) = [i \in 1 .. Len(x.data) + Len(y.data) |-> At(i)] BY DEF Placed
<1>11. Len(x.data) + Len(y.data) = n
  <2>1. CASE x.oset = 0
    <3>1. Len(x.data) = k /\ Len(y.data) = n - k BY <1>3, <1>4, <1>5, <1>9, <2>1
    <3> QED BY <1>1, <3>1
  <2>2. CASE x.oset # 0
    <3>1. Len(x.data) = n - k /\ Len(y.data) = k BY <1>3, <1>4, <1>5, <1>9, <2>2
    <3> QED BY <1>1, <3>1
  <2> QED BY <2>1, <2>2
<1>12. ASSUME NEW i \in 1..n PROVE At(i) = <<m, i>>
  <2>1. CASE i <= k
    <3>1. a[i] = <<m, i>> BY <1>1, <1>4, <2>1
    <3>2. CASE x.oset = 0
      <4>1. x.data = a /\ y.data = b /\ y.oset = k BY <1>3, <1>6, <1>9, <3>2
      <4>2. ~In(y, i) /\ In(x, i) /\ i - x.oset = i BY <1>1, <1>4, <2>1, <3>2, <4>1
      <4> QED BY <3>1, <4>1, <4>2
    <3>3. CASE x.oset # 0
      <4>1. y.data = a /\ y.oset = 0 BY <1>3, <1>9, <3>3
      <4>2. In(y, i) /\ i - y.oset = i BY <1>1, <1>4, <2>1, <4>1
      <4> QED BY <3>1, <4>1, <4>2
    <3> QED BY <3>2, <3>3
  <2>2. CASE i > k
    <3>1. i - k \in 1..(n - k) /\ k + (i - k) = i BY <1>1, <2>2
    <3>2. b[i - k] = <<m, i>> BY <1>5, <3>1
    <3>3. CASE x.oset = 0
      <4>1. y.data = b /\ y.oset = k BY <1>3, <1>6, <1>9, <3>3
      <4>2. In(y, i) BY <1>1, <1>5, <2>2, <4>1
      <4> QED BY <3>2, <4>1, <4>2
    <3>4. CASE x.oset # 0
      <4>1. x.data = b /\ x.oset = k /\ y.data = a /\ y.oset = 0 BY <1>3, <1>6, <1>9, <3>4
      <4>2. ~In(y, i) /\ In(x, i) BY <1>1, <1>4, <1>5, <2>2, <4>1
      <4> QED BY <3>2, <4>1, <4>2
    <3> QED BY <3>3, <3>4
  <2> QED BY <1>1, <2>1, <2>2
<1> HIDE DEF At
<1>13. Placed(x, y) = Whole(m) BY <1>8, <1>10, <1>11, <1>12
<1> QED BY <1>7, <1>13 DEF m

LEMMA Lowest ==
  ASSUME NEW S \in SUBSET Nat, S # {} PROVE Min(S) \in S
<1>1. \E x \in S : \A y \in S : x <= y BY Least
<1> QED BY <1>1 DEF Min

LEMMA LesserOf ==
  ASSUME NEW a \in Nat, NEW b \in Nat PROVE Min({a, b}) = IF a <= b THEN a ELSE b
<1> DEFINE x == IF a <= b THEN a ELSE b
<1>1. x \in {a, b} /\ \A y \in {a, b} : x <= y OBVIOUS
<1>2. \A z \in {a, b} : (\A y \in {a, b} : z <= y) => z = x OBVIOUS
<1>3. Min({a, b}) \in {a, b} /\ \A y \in {a, b} : Min({a, b}) <= y BY <1>1 DEF Min
<1> QED BY <1>2, <1>3

(* What a node has stored, and what a fragment does to that                 *)
Same(x, y) == x.sip = y.sip /\ x.ident = y.ident /\ x.oset = y.oset /\ x.data = y.data
From(n, m, f) ==
    \A x \in Stored(m) : (\E y \in Stored(n) : Same(x, y)) \/ (IsHalf(f) /\ Same(x, f))

LEMMA SameHalves ==
  ASSUME NEW x, NEW y, Same(x, y)
  PROVE (Half(x) <=> Half(y)) /\ \A z : Alike(x, z) <=> Alike(y, z)
BY DEF Same, Half, Cut, Alike, Agree

FragFields == {"tries", "ident", "sip", "oset", "data"}
Held(n, f, x, k) ==
    /\ DOMAIN x = FragFields /\ x.tries \in Nat
    /\ x.tries > 0 => \/ n.frags[k].tries > 0 /\ Same(x, n.frags[k])
                      \/ IsHalf(f) /\ Same(x, f)

LEMMA HeldAll ==
  ASSUME NEW n, "frags" \in DOMAIN n, FragsOK(n), NEW f, IsHalf(f) => Half(f),
         NEW fr, DOMAIN fr = 1..NFRAGS, \A k \in 1..NFRAGS : Held(n, f, fr[k], k)
  PROVE FragsOK([n EXCEPT !.frags = fr]) /\ From(n, [n EXCEPT !.frags = fr], f)
<1> DEFINE m == [n EXCEPT !.frags = fr]
<1>1. m.frags = fr OBVIOUS
<1> HIDE DEF m
<1>2. ASSUME NEW x \in Stored(m)
      PROVE (\E y \in Stored(n) : Same(x, y)) \/ (IsHalf(f) /\ Same(x, f))
  <2>1. PICK k \in 1..NFRAGS : x = fr[k] /\ fr[k].tries > 0 BY <1>1 DEF Stored
  <2>2. n.frags[k].tries > 0 => n.frags[k] \in Stored(n) BY DEF Stored
  <2> QED BY <2>1, <2>2 DEF Held
<1>3. \A x \in Stored(m) : Half(x) BY <1>2, SameHalves DEF FragsOK
<1>4. FragsOK(m) BY <1>1, <1>3 DEF FragsOK, Held, FragFields
<1> QED BY <1>2, <1>4 DEF From, m

LEMMA Defrag ==
  ASSUME NEW c, NEW n, "frags" \in DOMAIN n, FragsOK(n), NEW f, f.pcol = "ip", Content(c, f),
         IsHalf(f), \A x \in Stored(n) : Alike(x, f)
  PROVE LET r == defrag_ip(n, f) IN
        FragsOK(r.node) /\ From(n, r.node, f) /\ Full(c, f.sip, f.dip, f.prot, r.data)
<1> DEFINE S == LookedAt(n, f)
           free == {k \in S : n.frags[k].tries = 0}
           aged == [k \in 1..NFRAGS |->
                      IF k \in S \ free THEN [n.frags[k] EXCEPT !.tries = @ - 1] ELSE n.frags[k]]
           M == Matches(n, f)
           r == defrag_ip(n, f)
<1>0. NFRAGS \in Nat \ {0} /\ FRAGTRIES \in Nat \ {0} BY ConstAssumption
<1>1. Half(f) /\ MessageOK(c, f.sip, f.dip, f.prot, Message(f.data)) BY DEF Content
<1>2. M \subseteq 1..NFRAGS /\ (M # {} => Min(M) \in M)
  <2>1. M \in SUBSET Nat /\ M \subseteq 1..NFRAGS BY DEF Matches
  <2> HIDE DEF M
  <2> QED BY <2>1, Lowest
<1>3. S \subseteq 1..NFRAGS
  <2> HIDE DEF M
  <2> QED BY <1>0, <1>2 DEF LookedAt, M
<1>4. free # {} => Max(free) \in free
  <2>1. free \in SUBSET (0..NFRAGS) /\ NFRAGS \in Nat
    <3> HIDE DEF S
    <3>1. \A k \in free : k \in 1..NFRAGS BY <1>3
    <3> HIDE DEF free
    <3> QED BY <1>0, <3>1
  <2> HIDE DEF free
  <2> QED BY <2>1, Greatest
<1> HIDE DEF S
<1>5. ASSUME NEW k \in 1..NFRAGS PROVE Held(n, f, aged[k], k)
  <2>1. DOMAIN n.frags[k] = FragFields /\ n.frags[k].tries \in Nat BY DEF FragsOK, FragFields
  <2> DEFINE x == n.frags[k]
             y == [x EXCEPT !.tries = @ - 1]
  <2> HIDE DEF x
  <2>2. DOMAIN x = FragFields /\ x.tries \in Nat BY <2>1 DEF x
  <2>3. DOMAIN y = FragFields /\ y.tries = x.tries - 1 /\ Same(y, x) BY <2>2 DEF FragFields, Same
  <2>4. Same(x, x) BY DEF Same
  <2>5. CASE k \in S \ free
    <3>1. aged[k] = y BY <2>5 DEF x
    <3>2. x.tries # 0 BY <2>5 DEF x
    <3> HIDE DEF y, aged
    <3> QED BY <2>2, <2>3, <3>1, <3>2 DEF Held, x
  <2>6. CASE k \notin S \ free
    <3>1. aged[k] = x BY <2>6 DEF x
    <3> HIDE DEF aged
    <3> QED BY <2>2, <2>4, <3>1 DEF Held, x
  <2> QED BY <2>5, <2>6
<1>6. DOMAIN aged = 1..NFRAGS OBVIOUS
<1>7. r = IF M # {}
          THEN LET k == Min(M) g == n.frags[k]
               IN IF Adjacent(f, g)
                  THEN [node |-> [n EXCEPT !.frags = [aged EXCEPT ![k].tries = 0]],
                        data |-> Placed(f, g)]
                  ELSE [node |-> [n EXCEPT !.frags = aged], data |-> <<>>]
          ELSE [node |-> [n EXCEPT !.frags =
                           IF free = {} THEN aged
                           ELSE [aged EXCEPT ![Max(free)] =
                                   [tries |-> FRAGTRIES, ident |-> f.ident, sip |-> f.sip,
                                    oset |-> f.oset, data |-> f.data]]],
                data |-> <<>>]
  BY DEF defrag_ip, S
<1> HIDE DEF r, M, aged, free
<1>8. CASE M # {}
  <2> DEFINE k == Min(M)
             g == n.frags[k]
             fr == [aged EXCEPT ![k].tries = 0]
             data == Placed(f, g)
  <2>1. k \in 1..NFRAGS /\ g.tries > 0 /\ g.ident = f.ident /\ g.sip = f.sip
    BY <1>2, <1>8 DEF Matches, M
  <2> HIDE DEF k
  <2>2. Half(g) /\ Agree(f, g)
    <3>1. g \in Stored(n) BY <2>1 DEF Stored
    <3> QED BY <2>1, <3>1 DEF FragsOK, Alike, Agree
  <2>3. CASE Adjacent(f, g)
    <3>1. r.node = [n EXCEPT !.frags = fr] /\ r.data = data BY <1>7, <1>8, <2>3 DEF k
    <3>2. \A i \in 1..NFRAGS : Held(n, f, fr[i], i)
      <4>1. fr[k].tries = 0 /\ DOMAIN fr[k] = FragFields
        BY <1>5, <1>6, <2>1 DEF Held, FragFields
      <4>2. Held(n, f, fr[k], k) BY <4>1 DEF Held
      <4>3. \A i \in 1..NFRAGS : i # k => fr[i] = aged[i] BY <1>6
      <4> HIDE DEF fr
      <4> QED BY <1>5, <4>2, <4>3
    <3>3. DOMAIN fr = 1..NFRAGS BY <1>6
    <3> HIDE DEF fr
    <3>4. FragsOK(r.node) /\ From(n, r.node, f)
      <4>1. FragsOK([n EXCEPT !.frags = fr]) /\ From(n, [n EXCEPT !.frags = fr], f)
        BY <1>1, <3>2, <3>3, HeldAll
      <4> QED BY <3>1, <4>1
    <3>5. data = Whole(Message(f.data)) /\ data # <<>> BY <1>1, <2>2, <2>3, Joined
    <3>6. Message(Whole(Message(f.data))) = Message(f.data)
      <4> DEFINE m == Message(f.data)
      <4>1. m.len \in Nat /\ m.len > 0 BY <1>1 DEF Half
      <4> HIDE DEF m
      <4>2. Whole(m)[1] = <<m, 1>>
        <5>1. 1 \in 1..m.len BY <4>1
        <5> QED BY <4>1, <5>1, WholeIs
      <4>3. Message(Whole(m)) = m BY <4>2 DEF Message
      <4> QED BY <4>3 DEF m
    <3> HIDE DEF data
    <3> QED BY <1>1, <3>1, <3>4, <3>5, <3>6 DEF Full, r
  <2>4. CASE ~Adjacent(f, g)
    <3>1. r.node = [n EXCEPT !.frags = aged] /\ r.data = <<>> BY <1>7, <1>8, <2>4 DEF k
    <3>2. FragsOK([n EXCEPT !.frags = aged]) /\ From(n, [n EXCEPT !.frags = aged], f)
      BY <1>1, <1>5, <1>6, HeldAll
    <3> QED BY <3>1, <3>2 DEF Full, r
  <2> QED BY <2>3, <2>4
<1>9. CASE M = {}
  <2> DEFINE e == [tries |-> FRAGTRIES, ident |-> f.ident, sip |-> f.sip,
                   oset |-> f.oset, data |-> f.data]
             fr == IF free = {} THEN aged ELSE [aged EXCEPT ![Max(free)] = e]
  <2>1. r.node = [n EXCEPT !.frags = fr] /\ r.data = <<>> BY <1>7, <1>9
  <2>2. DOMAIN fr = 1..NFRAGS BY <1>6
  <2>3. DOMAIN e = FragFields /\ e.tries \in Nat /\ Same(e, f) BY <1>0 DEF FragFields, Same
  <2> HIDE DEF e
  <2>4. \A i \in 1..NFRAGS : Held(n, f, e, i) BY <2>3 DEF Held
  <2>5. \A i \in 1..NFRAGS : Held(n, f, fr[i], i) BY <1>5, <1>6, <2>4
  <2> HIDE DEF fr
  <2>6. FragsOK([n EXCEPT !.frags = fr]) /\ From(n, [n EXCEPT !.frags = fr], f)
    BY <1>1, <2>2, <2>5, HeldAll
  <2> QED BY <2>1, <2>6 DEF Full, r
<1> QED BY <1>8, <1>9

LEMMA IsIp ==
  ASSUME NEW c, NEW n, "frags" \in DOMAIN n, FragsOK(n), NEW f, f.pcol = "ip", Content(c, f),
         IsHalf(f) => \A x \in Stored(n) : Alike(x, f)
  PROVE LET r == is_ip(n, f) IN
        FragsOK(r.node) /\ From(n, r.node, f) /\ Full(c, f.sip, f.dip, f.prot, r.data)
<1>1. CASE IsHalf(f)
  <2>1. is_ip(n, f) = defrag_ip(n, f) BY <1>1 DEF is_ip, IsHalf
  <2> QED BY <1>1, <2>1, Defrag
<1>2. CASE ~IsHalf(f)
  <2>1. is_ip(n, f).node = n /\ is_ip(n, f).data = f.data BY <1>2 DEF is_ip, IsHalf
  <2>2. From(n, n, f) BY DEF From, Same
  <2> QED BY <1>2, <2>1, <2>2 DEF Content
<1> QED BY <1>1, <1>2

-----------------------------------------------------------------------------
(* Sending *)

LEMMA SentBoth ==
  ASSUME NEW c, NEW name, NEW p, NEW q, NEW id, NEW mid, NEW top,
         SentOK(c, name, p, id, mid), SentOK(c, name, q, mid, top)
  PROVE SentOK(c, name, p \o q, id, top)
<1>1. IsSeq(p) /\ IsSeq(q) /\ id \in Nat /\ mid \in Nat /\ top \in Nat /\ id <= mid /\ mid <= top
  BY DEF SentOK
<1>2. IsSeq(p \o q) BY <1>1, Concat
<1> DEFINE r == p \o q
<1>3. ASSUME NEW i \in DOMAIN r
      PROVE (\E j \in DOMAIN p : r[i] = p[j]) \/ (\E j \in DOMAIN q : r[i] = q[j])
  BY <1>1, InConcat
<1> HIDE DEF r
<1> DEFINE Old(f) == Pure(c, f) /\ (f.pcol = "ip" => f.src = name /\ id <= f.ident /\ f.ident < mid)
           New(f) == Pure(c, f) /\ (f.pcol = "ip" => f.src = name /\ mid <= f.ident /\ f.ident < top)
<1>4. (\A j \in DOMAIN p : Old(p[j])) /\ (\A j \in DOMAIN q : New(q[j])) BY DEF SentOK
<1>5. ASSUME NEW f, f.pcol = "ip", Pure(c, f) PROVE f.ident \in Nat BY <1>5 DEF Pure, Content
<1>6. ASSUME NEW i \in DOMAIN r
      PROVE Pure(c, r[i]) /\ (r[i].pcol = "ip" => r[i].src = name /\ id <= r[i].ident /\ r[i].ident < top)
  <2>1. Old(r[i]) \/ New(r[i]) BY <1>3, <1>4
  <2>2. Pure(c, r[i]) BY <2>1
  <2>3. r[i].pcol = "ip" => r[i].ident \in Nat BY <1>5, <2>2
  <2> QED BY <1>1, <2>1, <2>2, <2>3
<1>7. ASSUME NEW f, NEW g, IsHalf(f), IsHalf(g), Old(f), New(g) PROVE Alike(f, g) /\ Alike(g, f)
  <2>1. f.ident \in Nat /\ g.ident \in Nat BY <1>5, <1>7 DEF IsHalf
  <2>2. f.ident # g.ident BY <1>1, <1>7, <2>1 DEF IsHalf
  <2> QED BY <2>2 DEF Alike
<1>8. ASSUME NEW i \in DOMAIN r, NEW j \in DOMAIN r, IsHalf(r[i]), IsHalf(r[j])
      PROVE Alike(r[i], r[j])
  <2>1. /\ (\E k \in DOMAIN p : r[i] = p[k]) \/ (\E k \in DOMAIN q : r[i] = q[k])
        /\ (\E k \in DOMAIN p : r[j] = p[k]) \/ (\E k \in DOMAIN q : r[j] = q[k])
    BY <1>3
  <2>2. CASE (\E k \in DOMAIN p : r[i] = p[k]) /\ (\E k \in DOMAIN p : r[j] = p[k])
    BY <1>8, <2>2 DEF SentOK
  <2>3. CASE (\E k \in DOMAIN q : r[i] = q[k]) /\ (\E k \in DOMAIN q : r[j] = q[k])
    BY <1>8, <2>3 DEF SentOK
  <2>4. CASE (\E k \in DOMAIN p : r[i] = p[k]) /\ (\E k \in DOMAIN q : r[j] = q[k])
    BY <1>4, <1>7, <1>8, <2>4
  <2>5. CASE (\E k \in DOMAIN q : r[i] = q[k]) /\ (\E k \in DOMAIN p : r[j] = p[k])
    BY <1>4, <1>7, <1>8, <2>5
  <2> QED BY <2>1, <2>2, <2>3, <2>4, <2>5
<1>9. IsSeq(r) BY <1>2 DEF r
<1>10. SentOK(c, name, r, id, top) BY <1>1, <1>6, <1>8, <1>9 DEF SentOK
<1> QED BY <1>10 DEF r

(* A frame on its own *)
LEMMA SentOne ==
  ASSUME NEW c, NEW name, NEW f, NEW id \in Nat, NEW top \in Nat, Pure(c, f), id <= top,
         f.pcol = "ip" => f.src = name /\ f.ident = id /\ id < top
  PROVE SentOK(c, name, <<f>>, id, top)
<1>1. Alike(f, f) BY DEF Alike, Agree
<1>2. IsSeq(<<f>>) /\ DOMAIN <<f>> = {1} /\ <<f>>[1] = f BY OneIsSeq
<1> QED BY <1>1, <1>2 DEF SentOK

LEMMA SentTwo ==
  ASSUME NEW c, NEW name, NEW f, NEW g, NEW id \in Nat, NEW top \in Nat, Pure(c, f), Pure(c, g),
         id < top, f.pcol = "ip" /\ g.pcol = "ip",
         f.src = name /\ f.ident = id, g.src = name /\ g.ident = id, Agree(f, g)
  PROVE SentOK(c, name, <<f, g>>, id, top)
<1>1. Alike(f, f) /\ Alike(f, g) /\ Alike(g, f) /\ Alike(g, g) BY DEF Alike, Agree
<1>2. IsSeq(<<f, g>>) /\ DOMAIN <<f, g>> = {1, 2} /\ <<f, g>>[1] = f /\ <<f, g>>[2] = g
  BY TwoIsSeq
<1> QED BY <1>1, <1>2 DEF SentOK

LEMMA FullWhole ==
  ASSUME NEW c, NEW sip, NEW dip, NEW m, MessageOK(c, sip, dip, m.prot, m)
  PROVE Full(c, sip, dip, m.prot, Whole(m))
<1>1. m.len \in Nat BY DEF MessageOK
<1>2. CASE m.len = 0
  <2>1. Whole(m) \in Seq({m} \X Nat) /\ Len(Whole(m)) = 0 BY <1>1, <1>2, WholeIs
  <2>2. Whole(m) = <<>> BY <2>1
  <2> QED BY <2>2 DEF Full
<1>3. CASE m.len # 0
  <2>1. 1 \in 1..m.len BY <1>1, <1>3
  <2>2. Whole(m)[1] = <<m, 1>> BY <1>1, <2>1, WholeIs
  <2>3. Message(Whole(m)) = m BY <2>2 DEF Message
  <2> QED BY <2>3 DEF Full
<1> QED BY <1>2, <1>3

(* What make_ip sends of a datagram that needs no third fragment: the       *)
(* datagram, or two halves of it.                                           *)
LEMMA MakeIpSent ==
  ASSUME NEW c, NEW n, {"name", "tx", "ident"} \subseteq DOMAIN n, NEW id, Sent(c, n, id),
         NEW net, NEW sip, NEW dip, NEW mac, NEW prot, NEW data,
         Full(c, sip, dip, prot, data), On(c, sip, net) \/ On(c, dip, net),
         IF n.name = "router" THEN ~Neighbours(c, sip, dip)
         ELSE net \in Ethers /\ Neighbours(c, n.name, dip) => mac = dip
  PROVE LET m == make_ip(n, net, sip, dip, mac, prot, data)
        IN Sent(c, m, id) /\ Only(n, m, {"tx", "ident"})
<1> DEFINE k == Mtu(net)
           last == Max({1} \cup {j \in 1..MAXGEN : k * (j - 1) < Len(data)})
           Frag(j) ==
             [net |-> net, src |-> n.name, dst |-> mac, pcol |-> "ip", sip |-> sip,
              dip |-> dip, prot |-> prot, ident |-> n.ident, oset |-> k * (j - 1),
              more |-> j < last,
              data |-> Part(data, k * ((j * (j - 1)) \div 2), Min({k, Len(data) - k * (j - 1)}))]
           f == Frag(1)
           g == Frag(2)
           out == [j \in 1..last |-> Frag(j)]
           m == make_ip(n, net, sip, dip, mac, prot, data)
           msg == Message(data)
<1>1. m = [n EXCEPT !.tx = @ \o out, !.ident = @ + last] BY DEF make_ip
<1>2. Way(c, f) /\ Way(c, g) BY DEF Way
<1>3. n.ident \in Nat /\ id \in Nat /\ id <= n.ident BY DEF Sent, SentOK
<1>4. k \in {1, 2} BY DEF Mtu
<1>5. Len(data) \in Nat /\ (data # <<>> => /\ Len(data) > 0 /\ msg.len = Len(data)
                                           /\ data = Whole(msg) /\ MessageOK(c, sip, dip, prot, msg))
  <2>1. CASE data = <<>> BY <2>1
  <2>2. CASE data # <<>>
    <3>1. data = Whole(msg) /\ MessageOK(c, sip, dip, prot, msg) BY <2>2 DEF Full
    <3>2. msg.len \in Nat BY <3>1 DEF MessageOK
    <3> HIDE DEF msg
    <3>3. data \in Seq({msg} \X Nat) /\ Len(data) = msg.len
      <4>1. Whole(msg) \in Seq({msg} \X Nat) /\ Len(Whole(msg)) = msg.len BY <3>2, WholeIs
      <4> QED BY <3>1, <4>1
    <3> QED BY <2>2, <3>1, <3>2, <3>3
  <2> QED BY <2>1, <2>2
<1>6. Len(data) <= 2 * k
  <2>1. CASE data = <<>> BY <1>4, <2>1
  <2>2. CASE data # <<>> BY <1>5, <2>2 DEF MessageOK, Takes
  <2> QED BY <2>1, <2>2
<1>7. last = IF Len(data) <= k THEN 1 ELSE 2
  <2> DEFINE len == Len(data)
  <2>1. k \in {1, 2} /\ len \in Nat /\ len <= 2 * k BY <1>4, <1>5, <1>6
  <2> HIDE DEF k, len
  <2> QED BY <2>1, LastFrag DEF len
<1> HIDE DEF k, msg, last
<1>8. SentOK(c, n.name, out, n.ident, n.ident + last)
  <2>1. /\ f.pcol = "ip" /\ f.src = n.name /\ f.ident = n.ident /\ f.sip = sip /\ f.dip = dip
        /\ f.prot = prot /\ f.oset = k * (1 - 1) /\ (f.more <=> 1 < last)
        /\ f.data = Part(data, k * ((1 * (1 - 1)) \div 2), Min({k, Len(data) - k * (1 - 1)}))
    OBVIOUS
  <2>2. /\ g.pcol = "ip" /\ g.src = n.name /\ g.ident = n.ident /\ g.sip = sip /\ g.dip = dip
        /\ g.prot = prot /\ g.oset = k * (2 - 1) /\ (g.more <=> 2 < last)
        /\ g.data = Part(data, k * ((2 * (2 - 1)) \div 2), Min({k, Len(data) - k * (2 - 1)}))
    OBVIOUS
  <2>3. /\ k * ((1 * (1 - 1)) \div 2) = 0 /\ k * ((2 * (2 - 1)) \div 2) = k
        /\ Len(data) - k * (1 - 1) = Len(data) /\ Len(data) - k * (2 - 1) = Len(data) - k
        /\ f.oset = 0 /\ g.oset = k
    BY <1>4, <1>5, <2>1, <2>2
  <2>4. CASE Len(data) <= k
    <3>1. last = 1 BY <1>7, <2>4
    <3>2. out = <<f>>
      <4> HIDE DEF Frag
      <4> QED BY <3>1
    <3> HIDE DEF f, g, out
    <3>3. Min({k, Len(data)}) = Len(data) BY <1>4, <1>5, <2>4, LesserOf
    <3>4. f.data = Part(data, 0, Len(data)) BY <2>1, <2>3, <3>3
    <3>5. f.data = data
      <4>1. CASE data = <<>>
        <5>1. f.data = [i \in 1..0 |-> IF 0 + i <= Len(data) THEN data[0 + i] ELSE Junk]
          BY <3>4, <4>1 DEF Part
        <5> QED BY <4>1, <5>1
      <4>2. CASE data # <<>>
        <5>1. data = Whole(msg) /\ msg.len \in Nat /\ Len(data) = msg.len
          BY <1>5, <4>2 DEF MessageOK
        <5>2. Part(Whole(msg), 0, msg.len - 0) = Units(msg, 0, msg.len) BY <5>1, PartIs
        <5>3. Units(msg, 0, msg.len) = Whole(msg) BY <5>1 DEF Units, Whole
        <5> QED BY <3>4, <5>1, <5>2, <5>3
      <4> QED BY <4>1, <4>2
    <3>6. ~IsHalf(f) BY <2>1, <2>3, <3>1 DEF IsHalf
    <3>7. Pure(c, f) BY <1>2, <1>3, <2>1, <3>5, <3>6 DEF Pure, Content
    <3> QED BY <1>3, <2>1, <3>1, <3>2, <3>7, SentOne
  <2>5. CASE Len(data) > k
    <3>1. last = 2 BY <1>4, <1>5, <1>7, <2>5
    <3>2. out = <<f, g>>
      <4> HIDE DEF Frag
      <4> QED BY <3>1
    <3>3. Len(data) - k \in Nat /\ Len(data) - k <= k /\ data # <<>> BY <1>4, <1>5, <1>6, <2>5
    <3> HIDE DEF f, g, out
    <3>4. msg.len \in Nat /\ k \in 1..(msg.len - 1) /\ k \in Nat /\ data = Whole(msg)
          /\ Len(data) = msg.len /\ MessageOK(c, sip, dip, prot, msg)
      BY <1>4, <1>5, <2>5, <3>3
    <3>5. f.data = Units(msg, 0, k)
      <4>1. Min({k, Len(data)}) = k BY <1>5, <2>5, <3>4, LesserOf
      <4>2. Part(Whole(msg), 0, k - 0) = Units(msg, 0, k) BY <3>4, PartIs
      <4>3. k - 0 = k BY <3>4
      <4> QED BY <2>1, <2>3, <3>4, <4>1, <4>2, <4>3
    <3>6. g.data = Units(msg, k, msg.len)
      <4>1. Min({k, Len(data) - k}) = Len(data) - k BY <3>3, <3>4, LesserOf
      <4>2. Part(Whole(msg), k, msg.len - k) = Units(msg, k, msg.len) BY <3>4, PartIs
      <4> QED BY <2>2, <2>3, <3>4, <4>1, <4>2
    <3>7. Len(f.data) = k /\ Message(f.data) = msg
      <4>1. 0 \in Nat /\ 0 < k /\ k - 0 = k BY <3>4
      <4>2. Len(Units(msg, 0, k)) = k - 0 /\ Message(Units(msg, 0, k)) = msg
        BY <3>4, <4>1, UnitsAre
      <4> QED BY <3>5, <4>1, <4>2
    <3>8. Message(g.data) = msg
      <4>1. k < msg.len BY <3>4
      <4>2. Message(Units(msg, k, msg.len)) = msg BY <3>4, <4>1, UnitsAre
      <4> QED BY <3>6, <4>2
    <3>9. Cut(f) = k /\ Cut(g) = k BY <2>3, <3>4, <3>7 DEF Cut
    <3>10. Half(f) /\ Half(g) /\ Agree(f, g)
      BY <2>3, <3>4, <3>5, <3>6, <3>7, <3>8, <3>9 DEF Half, Agree
    <3>11. IsHalf(f) /\ IsHalf(g) BY <2>1, <2>2, <2>3, <3>1, <3>4 DEF IsHalf
    <3>12. Pure(c, f) /\ Pure(c, g)
      BY <1>2, <1>3, <2>1, <2>2, <3>4, <3>7, <3>8, <3>10, <3>11 DEF Pure, Content
    <3>13. n.ident < n.ident + 2 /\ n.ident + 2 \in Nat BY <1>3
    <3> QED BY <1>3, <2>1, <2>2, <3>1, <3>2, <3>10, <3>12, <3>13, SentTwo
  <2> QED BY <1>4, <1>5, <2>4, <2>5
<1> HIDE DEF out, f, g
<1>9. SentOK(c, n.name, n.tx \o out, id, n.ident + last) BY <1>8, SentBoth DEF Sent
<1>10. m.tx = n.tx \o out /\ m.ident = n.ident + last /\ Only(n, m, {"tx", "ident"})
  BY <1>1 DEF Only
<1>11. m.name = n.name BY <1>10 DEF Only
<1> HIDE DEF m
<1>12. Sent(c, m, id) BY <1>9, <1>10, <1>11 DEF Sent
<1> QED BY <1>10, <1>12 DEF m

LEMMA MakeArpSent ==
  ASSUME NEW c, NEW n, {"name", "tx", "ident"} \subseteq DOMAIN n, NEW id, Sent(c, n, id),
         NEW net, NEW op, NEW sip, NEW dip, NEW mac
  PROVE LET m == make_arp(n, net, op, sip, dip, mac)
        IN Sent(c, m, id) /\ Only(n, m, {"tx"})
<1> DEFINE f == [net |-> net, src |-> n.name, dst |-> mac, pcol |-> "arp",
                 op |-> op, sip |-> sip, dip |-> dip]
           m == make_arp(n, net, op, sip, dip, mac)
           S == {n.tx[i] : i \in DOMAIN n.tx} \cup {f}
           p == n.tx
<1>1. m = [n EXCEPT !.tx = Append(@, f)] BY DEF make_arp
<1>2. f.pcol = "arp" OBVIOUS
<1>3. n.ident \in Nat /\ p \in Seq(S) BY DEF Sent, SentOK, IsSeq
<1> HIDE DEF f
<1>4. Pure(c, f) BY <1>2 DEF Pure
<1>5. SentOK(c, n.name, <<f>>, n.ident, n.ident) BY <1>2, <1>3, <1>4, SentOne
<1>6. SentOK(c, n.name, p \o <<f>>, id, n.ident) BY <1>5, SentBoth DEF Sent
<1>7. Append(p, f) = p \o <<f>>
  <2>1. f \in S OBVIOUS
  <2> HIDE DEF S, p
  <2>2. Append(p, f) = p \o <<f>> BY <1>3, <2>1
  <2> QED BY <2>2
<1>8. m.tx = Append(p, f) /\ Only(n, m, {"tx"}) BY <1>1 DEF Only
<1> HIDE DEF p, m
<1>9. m.name = n.name /\ m.ident = n.ident BY <1>8 DEF Only
<1>10. Sent(c, m, id) BY <1>6, <1>7, <1>8, <1>9 DEF Sent
<1> QED BY <1>8, <1>10 DEF m

-----------------------------------------------------------------------------
(* The sums at the hosts *)

Sums(c, s, h, id) == HostSums(c, s, h) /\ FragsOK(h) /\ Sent(c, h, id)
SumFields == {"net", "app", "cstate", "arped", "mac", "remip", "len", "port", "badsum"}

LEMMA Opposite ==
  ASSUME NEW c, NEW a, NEW b PROVE Neighbours(c, a, b) <=> Neighbours(c, b, a)
  BY DEF Neighbours

LEMMA FromSame ==
  ASSUME NEW n, NEW m, NEW f, NEW k
  PROVE /\ From(n, m, f) /\ k.frags = m.frags => From(n, k, f)
        /\ k.frags = n.frags => From(n, k, f)
<1>1. From(n, n, f) BY DEF From, Same
<1>2. ASSUME NEW x, From(n, x, f), k.frags = x.frags PROVE From(n, k, f)
  BY <1>2 DEF From, Stored
<1> QED BY <1>1, <1>2

LEMMA SumsSame ==
  ASSUME NEW c, Setup(c), NEW s, NEW h, HostOK(c, s, h), NEW id, Sums(c, s, h, id),
         NEW m, NEW F, F \cap SumFields = {}, Only(h, m, F),
         "frags" \notin F \/ FragsOK(m), F \cap {"name", "tx", "ident"} = {} \/ Sent(c, m, id)
  PROVE Sums(c, s, m, id)
<1>1. DOMAIN h = HostFields BY HostFacts DEF HostOK
<1>2. SumFields \cup {"name", "tx", "ident", "frags"} \subseteq HostFields
  BY DEF HostFields, SumFields
<1>3. \A x \in SumFields : m[x] = h[x] BY <1>1, <1>2 DEF Only
<1>4. HostSums(c, s, m) BY <1>3 DEF Sums, HostSums, SumFields, Ready
<1>5. FragsOK(m)
  <2>1. "frags" \notin F => m.frags = h.frags BY <1>1, <1>2 DEF Only
  <2> QED BY <2>1 DEF Sums, FragsOK, Stored
<1>6. Sent(c, m, id)
  <2>1. F \cap {"name", "tx", "ident"} = {} =>
          m.name = h.name /\ m.tx = h.tx /\ m.ident = h.ident
    BY <1>1, <1>2 DEF Only
  <2> QED BY <2>1 DEF Sums, Sent
<1> QED BY <1>4, <1>5, <1>6 DEF Sums

(* The networks of the addresses *)
LEMMA HostOn ==
  ASSUME NEW c, Setup(c), NEW s \in DOMAIN c.hosts PROVE On(c, s, c.hosts[s].net)
<1>1. c.hosts[s].net \in {"A", "B", "S"} BY HostFacts
<1> QED BY <1>1 DEF On, Subnet

LEMMA GateOn ==
  ASSUME NEW c, Setup(c), NEW net \in {"A", "B", "S"} PROVE On(c, RouterIp[net], net)
<1>1. RouterIp[net] \in {"rA", "rB", "rS"} BY DEF RouterIp
<1>2. {"rA", "rB", "rS"} \cap DOMAIN c.hosts = {} BY HostFacts DEF Others
<1>3. RouterIp[net] \notin DOMAIN c.hosts BY <1>1, <1>2
<1>4. RouterIp[net] \in DOMAIN Fixed /\ Fixed[RouterIp[net]] = net BY DEF RouterIp, Fixed
<1>5. RouterIp[net] \in DOMAIN Subnet(c.hosts) /\ Subnet(c.hosts)[RouterIp[net]] = net
  BY <1>3, <1>4 DEF Subnet
<1> QED BY <1>5 DEF On

LEMMA SenderOn ==
  ASSUME NEW c, Setup(c), NEW f, Sound(c, f), f.pcol = "arp" PROVE On(c, f.sip, f.net)
<1>1. f.net \in {"A", "B", "S"} BY DEF Sound
<1> QED BY <1>1, HostOn, GateOn DEF Sound, Origin

LEMMA ShortFits ==
  ASSUME NEW c, NEW ip, NEW len \in Nat, len <= 2 PROVE Takes(c, ip, len)
BY DEF Takes, Mtu

LEMMA SendSums ==
  ASSUME NEW c, Setup(c), NEW s, NEW h, HostOK(c, s, h), NEW id, Sums(c, s, h, id),
         NEW dip, NEW mac, NEW m, MessageOK(c, s, dip, m.prot, m),
         h.net \in Ethers /\ Neighbours(c, s, dip) => mac = dip
  PROVE LET n == Send(h, h.net, h.name, dip, mac, m)
        IN Sums(c, s, n, id) /\ n.frags = h.frags
<1> DEFINE n == Send(h, h.net, h.name, dip, mac, m)
           F == {"tx", "ident"}
<1>1. h.name = s /\ DOMAIN h = HostFields /\ s # "router"
  BY HostFacts DEF HostOK, Given, Others
<1>2. n = make_ip(h, h.net, s, dip, mac, m.prot, Whole(m)) BY <1>1 DEF Send
<1>3. Full(c, s, dip, m.prot, Whole(m)) BY FullWhole
<1>4. {"name", "tx", "ident"} \subseteq DOMAIN h BY <1>1 DEF HostFields
<1>0. On(c, s, h.net) BY HostOn DEF HostOK, Given
<1>5. Sent(c, n, id) /\ Only(h, n, F)
  BY <1>0, <1>1, <1>2, <1>3, <1>4, MakeIpSent DEF Sums
<1> HIDE DEF n
<1>6. Sums(c, s, n, id)
  <2>1. F \cap SumFields = {} /\ "frags" \notin F BY DEF SumFields
  <2> HIDE DEF F
  <2> QED BY <1>5, <2>1, SumsSame
<1>7. n.frags = h.frags BY <1>1, <1>5 DEF Only, HostFields
<1> QED BY <1>6, <1>7 DEF n

LEMMA ArpSums ==
  ASSUME NEW c, Setup(c), NEW s, NEW h, HostOK(c, s, h), NEW id, Sums(c, s, h, id),
         NEW op, NEW dip, NEW mac
  PROVE LET n == make_arp(h, h.net, op, h.name, dip, mac)
        IN Sums(c, s, n, id) /\ n.frags = h.frags
<1> DEFINE n == make_arp(h, h.net, op, h.name, dip, mac)
           F == {"tx"}
<1>1. DOMAIN h = HostFields BY HostFacts DEF HostOK
<1>2. {"name", "tx", "ident"} \subseteq DOMAIN h BY <1>1 DEF HostFields
<1>3. Sent(c, n, id) /\ Only(h, n, F) BY <1>2, MakeArpSent DEF Sums
<1> HIDE DEF n
<1>4. Sums(c, s, n, id)
  <2>1. F \cap SumFields = {} /\ "frags" \notin F BY DEF SumFields
  <2> HIDE DEF F
  <2> QED BY <1>3, <2>1, SumsSame
<1>5. n.frags = h.frags BY <1>1, <1>3 DEF Only, HostFields
<1> QED BY <1>4, <1>5 DEF n

(* Data that are complete have a right sum.                                 *)
LEMMA SumRight ==
  ASSUME NEW c, NEW f, NEW data, Full(c, f.sip, f.dip, f.prot, data), data # <<>>
  PROVE /\ is_icmp(f, data) \/ is_udp(f, data)
        /\ MessageOK(c, f.sip, f.dip, f.prot, Message(data))
<1>1. data = Whole(Message(data)) /\ MessageOK(c, f.sip, f.dip, f.prot, Message(data)) BY DEF Full
<1>2. SumOk(data) BY <1>1 DEF SumOk, Message
<1> QED BY <1>1, <1>2 DEF is_icmp, is_udp, MessageOK

LEMMA PortsDiffer == MINEPORT # ECHOPORT /\ MINEPORT # DAYPORT /\ ECHOPORT # DAYPORT
  BY DEF MINEPORT, ECHOPORT, DAYPORT

(* The way back to the sender of a datagram                                 *)
LEMMA WayBack ==
  ASSUME NEW c, Setup(c), NEW s \in DOMAIN c.hosts, NEW f, Sound(c, f), Way(c, f), f.dip = s,
         Neighbours(c, s, f.sip)
  PROVE f.src = f.sip
<1>1. CASE f.src = "router" BY <1>1, Opposite DEF Way
<1>2. CASE f.src # "router" BY <1>2 DEF Sound, Origin
<1> QED BY <1>1, <1>2

(* What a host answers to a datagram that is for it.                        *)
LEMMA ReplySums ==
  ASSUME NEW c, Setup(c), NEW s, NEW h, HostOK(c, s, h), NEW id, Sums(c, s, h, id),
         NEW f, Sound(c, f), Way(c, f), f.dip = s, NEW m, MessageOK(c, s, f.sip, m.prot, m)
  PROVE Sums(c, s, Reply(h, f, m), id) /\ Reply(h, f, m).frags = h.frags
<1>1. h.name = s /\ s \in DOMAIN c.hosts BY HostFacts DEF HostOK, Given
<1>2. h.net \in Ethers /\ Neighbours(c, s, f.sip) => f.src = f.sip BY <1>1, WayBack
<1> QED BY <1>2, SendSums DEF Reply

LEMMA UdpSums ==
  ASSUME NEW c, Setup(c), NEW s, NEW h, HostOK(c, s, h), NEW id, Sums(c, s, h, id),
         NEW f, Sound(c, f), Way(c, f), f.dip = s,
         NEW sport, NEW text, NEW len, len \in Nat, len <= Mtu(h.net)
  PROVE LET n == make_udp(h, f.sip, f.src, sport, MINEPORT, text, len)
        IN Sums(c, s, n, id) /\ n.frags = h.frags
<1> DEFINE m == [prot |-> "udp", from |-> h.name, to |-> f.sip, sport |-> sport,
                 dport |-> MINEPORT, text |-> text, len |-> len, ok |-> len <= Mtu(h.net)]
<1>1. h.name = s BY HostFacts DEF HostOK, Given
<1>2. MessageOK(c, s, f.sip, m.prot, m)
  <2>1. len <= 2 BY DEF Mtu
  <2> QED BY <1>1, <2>1, PortsDiffer, ShortFits DEF MessageOK
<1>3. make_udp(h, f.sip, f.src, sport, MINEPORT, text, len) = Reply(h, f, m)
  BY DEF make_udp, Reply
<1> HIDE DEF m
<1> QED BY <1>2, <1>3, ReplySums

LEMMA EchoedOK ==
  ASSUME NEW c, NEW sip, NEW dip, NEW prot, NEW m, MessageOK(c, sip, dip, prot, m), Echoes(m)
  PROVE MessageOK(c, dip, sip, EchoReply(m).prot, EchoReply(m))
<1> DEFINE e == EchoReply(m)
<1>1. e = [m EXCEPT !.type = "rep"] BY DEF EchoReply
<1>2. {"prot", "len"} \subseteq DOMAIN m /\ m.len \in Nat /\ m.prot = "icmp"
  BY DEF MessageOK, Echoes
<1>3. DOMAIN e = DOMAIN m /\ e.prot = "icmp" /\ e.len = m.len BY <1>1, <1>2
<1> HIDE DEF e
<1>4. MessageOK(c, dip, sip, e.prot, e) BY <1>2, <1>3 DEF MessageOK
<1> QED BY <1>4 DEF e

(* A neighbour answers for itself.                                          *)
LEMMA NeighbourAnswers ==
  ASSUME NEW c, Setup(c), Plain(c), NEW s \in DOMAIN c.hosts, NEW f, Sound(c, f), f.pcol = "arp",
         f.sip \in {First(c, s), c.hosts[s].remip}, Neighbours(c, s, c.hosts[s].remip)
  PROVE f.src = c.hosts[s].remip
<1> DEFINE ip == c.hosts[s].remip
<1>1. ip \in DOMAIN c.hosts /\ c.hosts[ip].net = c.hosts[s].net BY DEF Neighbours
<1>2. ip \in c.hosts[s].neighbours BY <1>1 DEF Plain
<1>3. First(c, s) = ip BY <1>2 DEF First, gate_ip, NetOf
<1>4. ip \notin {"rA", "rB", "rS"} BY <1>1, HostFacts DEF Others
<1>5. RouterIp[f.net] \in {"rA", "rB", "rS"} BY DEF Sound, RouterIp
<1>6. f.sip = ip BY <1>3
<1> HIDE DEF ip
<1>7. f.src = ip BY <1>4, <1>5, <1>6 DEF Sound, Origin
<1> QED BY <1>7 DEF ip

LEMMA LearnsSums ==
  ASSUME NEW c, Setup(c), NEW s, NEW h, HostOK(c, s, h), NEW id, Sums(c, s, h, id),
         NEW mac, Neighbours(c, s, h.remip) => mac = h.remip,
         h.app = "ping" => On(c, h.remip, h.net),
         NEW m, Only(h, m, {"mac", "cstate", "arped"}), m.mac = mac
  PROVE Sums(c, s, m, id) /\ m.frags = h.frags
<1>1. DOMAIN h = HostFields BY HostFacts DEF HostOK
<1>2. /\ m.net = h.net /\ m.app = h.app /\ m.remip = h.remip /\ m.len = h.len /\ m.port = h.port
      /\ m.badsum = h.badsum /\ m.frags = h.frags /\ m.name = h.name /\ m.tx = h.tx
      /\ m.ident = h.ident
  BY <1>1 DEF Only, HostFields
<1>3. HostSums(c, s, m) BY <1>2 DEF Sums, HostSums
<1>4. FragsOK(m) BY <1>2 DEF Sums, FragsOK, Stored
<1>5. Sent(c, m, id) BY <1>2 DEF Sums, Sent
<1> QED BY <1>2, <1>3, <1>4, <1>5 DEF Sums

(* What a host has after the parts of a datagram have been put together     *)
LEMMA IsIpSums ==
  ASSUME NEW c, Setup(c), NEW s, NEW h, HostOK(c, s, h), NEW id, Sums(c, s, h, id),
         NEW f, f.pcol = "ip", Content(c, f), IsHalf(f) => \A x \in Stored(h) : Alike(x, f)
  PROVE LET r == is_ip(h, f)
            n == CheckSum(r.node, f, r.data)
        IN /\ Sums(c, s, n, id) /\ From(h, n, f)
           /\ Full(c, f.sip, f.dip, f.prot, r.data)
<1> DEFINE r == is_ip(h, f)
           k == r.node
           n == CheckSum(k, f, r.data)
           F == {"frags"}
           G == {"frags", "badsum"}
<1>1. DOMAIN h = HostFields BY HostFacts DEF HostOK
<1>2. "frags" \in DOMAIN h BY <1>1 DEF HostFields
<1>3. FragsOK(k) /\ From(h, k, f) /\ Full(c, f.sip, f.dip, f.prot, r.data)
  BY <1>2, IsIp DEF Sums
<1>4. Only(h, k, F) BY <1>2, IsIpOnly
<1>5. n = [k EXCEPT !.badsum = @ \/ (r.data # <<>> /\ ~is_icmp(f, r.data) /\ ~is_udp(f, r.data))]
  BY DEF CheckSum
<1>6. ~(r.data # <<>> /\ ~is_icmp(f, r.data) /\ ~is_udp(f, r.data)) BY <1>3, SumRight
<1> HIDE DEF k, r
<1>7. k.badsum = h.badsum /\ DOMAIN k = HostFields BY <1>1, <1>4 DEF Only, HostFields
<1>8. ~h.badsum BY DEF Sums, HostSums
<1>9. DOMAIN n = DOMAIN k /\ n.frags = k.frags /\ \A x \in HostFields \ {"badsum"} : n[x] = k[x]
  BY <1>5, <1>7 DEF HostFields
<1>10. ~n.badsum
  <2>1. "badsum" \in DOMAIN k BY <1>7 DEF HostFields
  <2>2. n.badsum = (k.badsum \/ (r.data # <<>> /\ ~is_icmp(f, r.data) /\ ~is_udp(f, r.data)))
    BY <1>5, <2>1
  <2> HIDE DEF n
  <2> QED BY <1>6, <1>7, <1>8, <2>2
<1> HIDE DEF n
<1>11. \A x \in HostFields \ {"frags", "badsum"} : n[x] = h[x] BY <1>1, <1>4, <1>9 DEF Only
<1>12. HostSums(c, s, n)
  <2>1. (SumFields \ {"badsum"}) \subseteq HostFields \ {"frags", "badsum"}
    BY DEF SumFields, HostFields
  <2>2. \A x \in SumFields \ {"badsum"} : n[x] = h[x] BY <1>11, <2>1
  <2> QED BY <1>10, <2>2 DEF Sums, HostSums, SumFields, Ready
<1>13. FragsOK(n) BY <1>3, <1>9 DEF FragsOK, Stored
<1>14. Sent(c, n, id)
  <2>1. n.name = h.name /\ n.tx = h.tx /\ n.ident = h.ident BY <1>11 DEF HostFields
  <2> QED BY <2>1 DEF Sums, Sent
<1>15. From(h, n, f) BY <1>3, <1>9, FromSame
<1> QED BY <1>3, <1>12, <1>13, <1>14, <1>15 DEF n, k, r, Sums

LEMMA RxSums ==
  ASSUME NEW c, Setup(c), Plain(c), NEW s, NEW h, HostOK(c, s, h), NEW id, Sums(c, s, h, id),
         NEW f, Sound(c, f), Pure(c, f), f.net = h.net,
         IsHalf(f) => \A x \in Stored(h) : Alike(x, f)
  PROVE Sums(c, s, Rx(h, f), id) /\ From(h, Rx(h, f), f)
<1>1. /\ s \in DOMAIN c.hosts /\ h.name = s /\ h.net = c.hosts[s].net /\ h.app = c.hosts[s].app
      /\ h.app \in {"datagram", "ping", "arpscan"} /\ f.pcol \in {"arp", "ip"}
      /\ DOMAIN h = HostFields
  BY HostFacts DEF HostOK, Given, Sound
<1>2. h.app # "arpscan" => h.remip = c.hosts[s].remip BY <1>1 DEF HostOK, Asks
<1>3. From(h, h, f) BY FromSame
<1> DEFINE Goal(m) == Sums(c, s, m, id) /\ From(h, m, f)
<1>4. Goal(h) BY <1>3
<1>5. CASE f.pcol = "arp"
  <2>1. Goal(ArpReply(h, f))
    <3>1. Sums(c, s, ArpReply(h, f), id) /\ ArpReply(h, f).frags = h.frags
      BY ArpSums DEF ArpReply
    <3> QED BY <3>1, FromSame
  <2>2. CASE h.app = "datagram"
    <3> DEFINE m == [h EXCEPT !.mac = f.src, !.cstate = ARP_RX]
    <3>1. ASSUME f.op = "resp", f.dip = h.name PROVE Goal(m)
      <4>1. f.sip = First(c, s) BY <1>1, <1>5, <2>2, <3>1 DEF Sound, ArpOK, Asks
      <4>2. Neighbours(c, s, h.remip) => f.src = h.remip
        BY <1>1, <1>2, <1>5, <2>2, <4>1, NeighbourAnswers
      <4>3. Only(h, m, {"mac", "cstate", "arped"}) /\ m.mac = f.src
        BY <1>1 DEF Only, HostFields
      <4> HIDE DEF m
      <4>4. Sums(c, s, m, id) /\ m.frags = h.frags BY <2>2, <4>2, <4>3, LearnsSums
      <4> QED BY <4>4, FromSame
    <3>2. DatagramArp(h, f) \in {h, ArpReply(h, f)}
          \/ (f.op = "resp" /\ f.dip = h.name /\ DatagramArp(h, f) = m)
      BY DEF DatagramArp
    <3> HIDE DEF m, Goal
    <3>3. Goal(DatagramArp(h, f)) BY <1>4, <2>1, <3>1, <3>2
    <3> QED BY <1>5, <2>2, <3>3 DEF Rx, Goal
  <2>3. CASE h.app = "ping"
    <3> DEFINE m == [h EXCEPT !.mac = f.src, !.arped = TRUE]
    <3>1. ASSUME f.op = "resp", f.sip = h.remip PROVE Goal(m)
      <4>1. Neighbours(c, s, h.remip) => f.src = h.remip
        BY <1>1, <1>2, <1>5, <2>3, <3>1, NeighbourAnswers
      <4>2. Only(h, m, {"mac", "cstate", "arped"}) /\ m.mac = f.src
        BY <1>1 DEF Only, HostFields
      <4> HIDE DEF m
      <4>3. On(c, h.remip, h.net) BY <1>5, <3>1, SenderOn
      <4>4. Sums(c, s, m, id) /\ m.frags = h.frags BY <4>1, <4>2, <4>3, LearnsSums
      <4> QED BY <4>4, FromSame
    <3>2. PingArp(h, f) \in {h, ArpReply(h, f)}
          \/ (f.op = "resp" /\ f.sip = h.remip /\ PingArp(h, f) = m)
      BY DEF PingArp
    <3> HIDE DEF m, Goal
    <3>3. Goal(PingArp(h, f)) BY <1>4, <2>1, <3>1, <3>2
    <3> QED BY <1>5, <2>3, <3>3 DEF Rx, Goal
  <2>4. CASE h.app = "arpscan"
    <3> DEFINE a == ArpReply(h, f)
               Same3(x, y) ==
                 /\ DOMAIN y = DOMAIN x
                 /\ \A z \in HostFields \ {"remip", "listed"} : y[z] = x[z]
    <3>1. ASSUME NEW x, DOMAIN x = HostFields, x.app = "arpscan", Goal(x), NEW m, Same3(x, m)
          PROVE Goal(m)
      <4>1. /\ m.net = x.net /\ m.app = x.app /\ m.len = x.len /\ m.port = x.port
            /\ m.badsum = x.badsum /\ m.frags = x.frags /\ m.name = x.name /\ m.tx = x.tx
            /\ m.ident = x.ident
        BY <3>1 DEF HostFields
      <4>2. ~Ready(m) BY <3>1, <4>1 DEF Ready
      <4>3. HostSums(c, s, m) BY <3>1, <4>1, <4>2 DEF Sums, HostSums
      <4>4. FragsOK(m) /\ From(h, m, f)
        <5>1. FragsOK(m) BY <3>1, <4>1 DEF Sums, FragsOK, Stored
        <5>2. From(h, m, f) BY <3>1, <4>1, FromSame
        <5> QED BY <5>1, <5>2
      <4>5. Sent(c, m, id) BY <3>1, <4>1 DEF Sums, Sent
      <4> QED BY <4>3, <4>4, <4>5 DEF Sums
    <3> DEFINE m == [h EXCEPT !.listed = @ \cup {f.sip}]
               k == [a EXCEPT !.remip = f.sip]
    <3>2. DOMAIN a = HostFields /\ a.app = "arpscan"
      BY <1>1, <2>4 DEF ArpReply, make_arp, HostFields
    <3>3. Same3(h, m) BY <1>1
    <3>4. Same3(a, k)
      <4> HIDE DEF a
      <4> QED BY <3>2
    <3>5. ArpscanArp(h, f) \in {h, m, k} BY DEF ArpscanArp
    <3> HIDE DEF m, k, Same3
    <3>6. Goal(m) BY <1>1, <1>4, <2>4, <3>1, <3>3
    <3>7. Goal(k) BY <2>1, <3>1, <3>2, <3>4
    <3> HIDE DEF Goal, a
    <3>8. Goal(ArpscanArp(h, f)) BY <1>4, <3>5, <3>6, <3>7
    <3> QED BY <1>5, <2>4, <3>8 DEF Rx, Goal
  <2> QED BY <1>1, <2>2, <2>3, <2>4
<1>6. CASE f.pcol = "ip"
  <2> DEFINE r == is_ip(h, f)
             n == CheckSum(r.node, f, r.data)
             msg == Message(r.data)
  <2>1. HostOK(c, s, n) BY IsIpKeeps
  <2>2. Content(c, f) /\ Way(c, f) BY <1>6 DEF Pure
  <2>3. Sums(c, s, n, id) /\ From(h, n, f) /\ Full(c, f.sip, f.dip, f.prot, r.data)
    BY <1>6, <2>2, IsIpSums
  <2>4. n.net = h.net /\ DOMAIN n = HostFields
    BY <1>1, <2>1, HostFacts DEF HostOK, Given
  <2> HIDE DEF n
  <2>5. Goal(n) BY <2>3
  <2>6. ASSUME NEW m, Sums(c, s, m, id), m.frags = n.frags PROVE Goal(m)
    BY <2>3, <2>6, FromSame
  <2> HIDE DEF Goal
  <2>7. ASSUME is_icmp(f, r.data) \/ is_udp(f, r.data)
        PROVE MessageOK(c, f.sip, f.dip, f.prot, msg)
    <3>1. r.data # <<>> BY <2>7 DEF is_icmp, is_udp, SumOk
    <3> HIDE DEF r
    <3> QED BY <2>3, <3>1, SumRight
  <2>8. ASSUME f.dip = s, is_icmp(f, r.data), Echoes(msg)
        PROVE Goal(Reply(n, f, EchoReply(msg)))
    <3>1. MessageOK(c, f.sip, f.dip, f.prot, msg) BY <2>7, <2>8
    <3> HIDE DEF r, msg
    <3> DEFINE e == EchoReply(msg)
    <3>2. MessageOK(c, s, f.sip, e.prot, e) BY <2>8, <3>1, EchoedOK
    <3> HIDE DEF e
    <3>3. Sums(c, s, Reply(n, f, e), id) /\ Reply(n, f, e).frags = n.frags
      BY <2>1, <2>2, <2>3, <2>8, <3>2, ReplySums
    <3> QED BY <2>6, <3>3 DEF e
  <2>9. CASE h.app = "datagram"
    <3>1. ASSUME f.dip = s, is_udp(f, r.data) PROVE Goal(udp_receive(n, f, msg))
      <4>0. ASSUME NEW sport, NEW text, NEW len, len \in Nat, len <= Mtu(n.net)
            PROVE Goal(make_udp(n, f.sip, f.src, sport, MINEPORT, text, len))
        <5> DEFINE m == make_udp(n, f.sip, f.src, sport, MINEPORT, text, len)
        <5>2. Sums(c, s, m, id) /\ m.frags = n.frags
          BY <2>1, <2>2, <2>3, <3>1, <4>0, UdpSums
        <5> HIDE DEF m
        <5>3. Goal(m) BY <2>6, <5>2
        <5> QED BY <5>3 DEF m
      <4>1. MessageOK(c, f.sip, f.dip, f.prot, msg) BY <2>7, <3>1
      <4>2. f.prot = "udp" /\ n.net = c.hosts[s].net BY <1>1, <2>4, <3>1 DEF is_udp
      <4>3. /\ msg.len \in Nat
            /\ msg.dport \in {ECHOPORT, DAYPORT} => msg.sport = MINEPORT
            /\ msg.dport = ECHOPORT => msg.len <= Mtu(n.net)
        BY <1>1, <3>1, <4>1, <4>2 DEF MessageOK
      <4> HIDE DEF msg, r
      <4>4. CASE msg.dport = MINEPORT
        <5> DEFINE m == [n EXCEPT !.shown = msg.text, !.cstate = CLIENT_DONE]
        <5>1. udp_receive(n, f, msg) = m BY <4>4 DEF udp_receive, MINEPORT, ECHOPORT, DAYPORT
        <5>2. DOMAIN m = HostFields /\ m.cstate = CLIENT_DONE
              /\ \A x \in HostFields \ {"shown", "cstate"} : m[x] = n[x]
          BY <2>4 DEF HostFields
        <5> HIDE DEF m
        <5>3. /\ m.net = n.net /\ m.app = n.app /\ m.len = n.len /\ m.port = n.port
              /\ m.mac = n.mac /\ m.remip = n.remip /\ m.arped = n.arped
              /\ m.badsum = n.badsum /\ m.frags = n.frags /\ m.name = n.name /\ m.tx = n.tx
              /\ m.ident = n.ident
          BY <5>2 DEF HostFields
        <5>4. Ready(m) => Ready(n) BY <5>2, <5>3 DEF Ready, CLIENT_DONE, ARP_RX
        <5>5. HostSums(c, s, m) BY <2>3, <5>3, <5>4 DEF Sums, HostSums
        <5>6. FragsOK(m) BY <2>3, <5>3 DEF Sums, FragsOK, Stored
        <5>7. Sent(c, m, id) BY <2>3, <5>3 DEF Sums, Sent
        <5> QED BY <2>6, <5>1, <5>3, <5>5, <5>6, <5>7 DEF Sums
      <4>5. CASE msg.dport = ECHOPORT
        <5>1. udp_receive(n, f, msg)
                = make_udp(n, f.sip, f.src, ECHOPORT, MINEPORT, msg.text, msg.len)
          BY <4>3, <4>5, PortsDiffer DEF udp_receive
        <5> QED BY <4>0, <4>3, <4>5, <5>1
      <4>6. CASE msg.dport = DAYPORT
        <5>1. udp_receive(n, f, msg) = make_udp(n, f.sip, f.src, DAYPORT, MINEPORT, "time", 1)
          BY <4>3, <4>6, PortsDiffer DEF udp_receive
        <5>2. 1 \in Nat /\ 1 <= Mtu(n.net) BY DEF Mtu
        <5> QED BY <4>0, <5>1, <5>2
      <4>7. CASE msg.dport \notin {MINEPORT, ECHOPORT, DAYPORT}
        <5> DEFINE m == Reply(n, f, Unreach)
        <5>1. udp_receive(n, f, msg) = m BY <4>7 DEF udp_receive
        <5>2. MessageOK(c, s, f.sip, Unreach.prot, Unreach) BY ShortFits DEF MessageOK, Unreach
        <5>3. Sums(c, s, m, id) /\ m.frags = n.frags
          BY <2>1, <2>2, <2>3, <3>1, <5>2, ReplySums
        <5> HIDE DEF m
        <5> QED BY <2>6, <5>1, <5>3
      <4> QED BY <4>4, <4>5, <4>6, <4>7
    <3>2. DatagramIp(h, f) = n
          \/ (f.dip = s /\ is_icmp(f, r.data) /\ Echoes(msg)
                /\ DatagramIp(h, f) = Reply(n, f, EchoReply(msg)))
          \/ (f.dip = s /\ is_udp(f, r.data) /\ DatagramIp(h, f) = udp_receive(n, f, msg))
      BY <1>1 DEF DatagramIp, n
    <3> HIDE DEF r, msg
    <3>3. Goal(DatagramIp(h, f)) BY <2>5, <2>8, <3>1, <3>2
    <3> QED BY <1>6, <2>9, <3>3 DEF Rx, Goal
  <2>10. CASE h.app = "ping"
    <3> DEFINE F == {"rxseq", "rxcount", "errcount"}
               m1 == [n EXCEPT !.rxseq = msg.seq, !.rxcount = @ + 1]
               m2 == [n EXCEPT !.rxseq = msg.seq, !.errcount = @ + 1]
    <3>1. Only(n, m1, F) /\ Only(n, m2, F) BY DEF Only
    <3>2. ASSUME NEW m, Only(n, m, F) PROVE Goal(m)
      <4>1. F \cap SumFields = {} /\ "frags" \notin F /\ F \cap {"name", "tx", "ident"} = {}
        BY DEF SumFields
      <4>2. m.frags = n.frags BY <2>4, <3>2 DEF Only, HostFields
      <4> HIDE DEF F
      <4>3. Sums(c, s, m, id) BY <2>1, <2>3, <3>2, <4>1, SumsSame
      <4> QED BY <2>6, <4>2, <4>3
    <3>3. PingIp(h, f) \in {n, m1, m2}
          \/ (f.dip = s /\ is_icmp(f, r.data) /\ msg.type = "req"
                /\ PingIp(h, f) = Reply(n, f, EchoReply(msg)))
      BY <1>1 DEF PingIp, n
    <3>4. is_icmp(f, r.data) /\ msg.type = "req" => Echoes(msg)
      BY <2>7 DEF is_icmp, MessageOK, Echoes
    <3> HIDE DEF m1, m2, F, r, msg
    <3>5. Goal(m1) /\ Goal(m2) BY <3>1, <3>2
    <3>6. Goal(PingIp(h, f)) BY <2>5, <2>8, <3>3, <3>4, <3>5
    <3> QED BY <1>6, <2>10, <3>6 DEF Rx, Goal
  <2>11. CASE h.app = "arpscan" BY <1>4, <1>6, <2>11 DEF Rx, Goal
  <2> QED BY <1>1, <2>9, <2>10, <2>11
<1> QED BY <1>1, <1>5, <1>6

LEMMA TxSums ==
  ASSUME NEW c, Setup(c), Plain(c), NEW s, NEW h, HostOK(c, s, h), NEW id, Sums(c, s, h, id),
         NEW expired
  PROVE Sums(c, s, Tx(h, expired), id) /\ Tx(h, expired).frags = h.frags
<1>1. /\ s \in DOMAIN c.hosts /\ h.name = s /\ h.net = c.hosts[s].net /\ h.app = c.hosts[s].app
      /\ h.app \in {"datagram", "ping", "arpscan"} /\ DOMAIN h = HostFields
  BY HostFacts DEF HostOK, Given
<1>2. h.app # "arpscan" => h.remip = c.hosts[s].remip BY <1>1 DEF HostOK, Asks
<1>3. /\ h.len = c.hosts[s].len /\ h.port = c.hosts[s].port
      /\ h.len \in Nat /\ (h.app = "ping" => h.len <= 2 * Mtu(h.net))
      /\ h.net \in Ethers /\ Ready(h) /\ Neighbours(c, s, h.remip) => h.mac = h.remip
  BY <1>1, HostFacts DEF Sums, HostSums
<1> DEFINE Goal(m) == Sums(c, s, m, id) /\ m.frags = h.frags
<1>4. Goal(h) OBVIOUS
<1>5. ASSUME NEW m, NEW F, F \cap (SumFields \cup {"name", "tx", "ident", "frags"}) = {},
             Only(h, m, F)
      PROVE Goal(m)
  <2>1. F \cap SumFields = {} /\ "frags" \notin F /\ F \cap {"name", "tx", "ident"} = {} BY <1>5
  <2>2. m.frags = h.frags BY <1>1, <1>5, <2>1 DEF Only, HostFields
  <2>3. Sums(c, s, m, id) BY <1>5, <2>1, SumsSame
  <2> QED BY <2>2, <2>3
<1>6. ASSUME NEW x, HostOK(c, s, x), Goal(x), NEW dip PROVE Goal(ArpReq(x, dip))
  <2>1. Sums(c, s, ArpReq(x, dip), id) /\ ArpReq(x, dip).frags = x.frags
    BY <1>6, ArpSums DEF ArpReq
  <2> QED BY <1>6, <2>1
<1>7. CASE h.app = "datagram"
  <2> DEFINE n == [h EXCEPT !.tries = @ + 1, !.lastcstate = h.cstate]
             o == [n EXCEPT !.off = TRUE]
             u == make_udp(n, h.remip, h.mac, MINEPORT, h.port, h.name, h.len)
  <2>1. /\ DOMAIN n = HostFields /\ n.tries = h.tries + 1
        /\ \A x \in HostFields \ {"tries", "lastcstate"} : n[x] = h[x]
    BY <1>1 DEF HostFields
  <2>2. Only(h, n, {"tries", "lastcstate"}) /\ Only(h, o, {"tries", "lastcstate", "off"})
    <3>1. Only(h, n, {"tries", "lastcstate"}) BY <1>1, <2>1 DEF Only
    <3>2. DOMAIN o = DOMAIN n /\ \A x \in HostFields \ {"off"} : o[x] = n[x]
      <4> HIDE DEF n
      <4> QED BY <2>1
    <3> HIDE DEF o, n
    <3> QED BY <1>1, <2>1, <3>1, <3>2 DEF Only
  <2> HIDE DEF n, o
  <2>3. Goal(n) /\ Goal(o)
    <3>1. {"tries", "lastcstate", "off"} \cap (SumFields \cup {"name", "tx", "ident", "frags"}) = {}
      BY DEF SumFields
    <3>2. {"tries", "lastcstate"} \cap (SumFields \cup {"name", "tx", "ident", "frags"}) = {}
      BY DEF SumFields
    <3> HIDE DEF Goal
    <3> QED BY <1>5, <2>2, <3>1, <3>2
  <2>4. HostOK(c, s, n)
    <3>1. \A x \in Given \cup {"remip", "tx", "mac", "arped", "cstate"} : n[x] = h[x]
      BY <2>1 DEF Given, HostFields
    <3>2. /\ n.remip = h.remip /\ n.tx = h.tx /\ n.mac = h.mac /\ n.net = h.net
          /\ n.cstate = h.cstate /\ n.tries \in Nat /\ (Ready(n) <=> Ready(h))
      BY <2>1, <3>1 DEF HostOK, Ready, Given
    <3>3. \A x \in Given : n[x] = c.hosts[s][x] BY <3>1 DEF HostOK
    <3> QED BY <1>1, <2>1, <3>2, <3>3 DEF HostOK
  <2>5. n.net = h.net /\ n.name = s /\ n.frags = h.frags BY <1>1, <2>1 DEF HostFields
  <2>6. ASSUME h.cstate = ARP_RX PROVE Goal(u)
    <3> DEFINE m == [prot |-> "udp", from |-> n.name, to |-> h.remip, sport |-> MINEPORT,
                     dport |-> h.port, text |-> h.name, len |-> h.len, ok |-> h.len <= Mtu(n.net)]
    <3>1. u = Send(n, n.net, n.name, h.remip, h.mac, m) BY DEF make_udp
    <3>2. /\ h.len <= Mtu(n.net)
          /\ h.port = ECHOPORT /\ h.remip \in DOMAIN c.hosts =>
               h.len <= Mtu(c.hosts[h.remip].net)
      BY <1>1, <1>2, <1>3, <2>5, <1>7 DEF Plain
    <3>3. m.prot = "udp" /\ m.ok /\ m.from = s /\ m.to = h.remip /\ m.sport = MINEPORT
          /\ m.dport = h.port /\ m.len = h.len /\ {"prot", "len"} \subseteq DOMAIN m
      BY <2>5, <3>2
    <3> HIDE DEF m
    <3>4. MessageOK(c, s, h.remip, m.prot, m)
      <4>1. h.len <= 2 BY <1>3, <3>2 DEF Mtu
      <4> QED BY <1>3, <3>2, <3>3, <4>1, ShortFits DEF MessageOK
    <3>5. n.net \in Ethers /\ Neighbours(c, s, h.remip) => h.mac = h.remip
      BY <1>3, <1>7, <2>5, <2>6 DEF Ready
    <3>6. Sums(c, s, u, id) /\ u.frags = n.frags
      <4> HIDE DEF u
      <4> QED BY <2>3, <2>4, <3>1, <3>4, <3>5, SendSums
    <3> QED BY <2>5, <3>6
  <2>7. DatagramTx(h, expired) \in {h, o, ArpReq(n, gate_ip(h))}
        \/ (h.cstate = ARP_RX /\ DatagramTx(h, expired) = u)
    <3>1. DatagramTx(h, expired) =
            IF h.remip = "none" \/ ~(expired \/ h.cstate # h.lastcstate) THEN h
            ELSE CASE h.tries > MAXTRIES -> o
              [] h.tries <= MAXTRIES /\ h.cstate = ARP_TX -> ArpReq(n, gate_ip(h))
              [] h.tries <= MAXTRIES /\ h.cstate = ARP_RX -> u
              [] h.tries <= MAXTRIES /\ h.cstate = CLIENT_DONE -> o
      BY DEF DatagramTx, n, o
    <3>2. h.tries > MAXTRIES \/ (h.tries <= MAXTRIES /\ h.cstate \in {ARP_TX, ARP_RX, CLIENT_DONE})
      BY ConstAssumption DEF HostOK, States
    <3> HIDE DEF u
    <3> QED BY <3>1, <3>2
  <2>8. Goal(ArpReq(n, gate_ip(h))) BY <1>6, <2>3, <2>4
  <2> HIDE DEF u, Goal
  <2>9. Goal(DatagramTx(h, expired)) BY <1>4, <2>3, <2>6, <2>7, <2>8
  <2> QED BY <1>7, <2>9 DEF Tx, Goal
<1>8. CASE h.app = "ping"
  <2> DEFINE F == {"txseq", "txcount"}
             n == [h EXCEPT !.txseq = @ + 1, !.txcount = @ + 1]
             m == [prot |-> "icmp", type |-> "req", seq |-> h.txseq + 1, len |-> h.len]
             u == Send(n, h.net, h.name, h.remip, h.mac, m)
  <2>1. Only(h, n, F) BY DEF Only
  <2>2. n.net = h.net /\ n.name = h.name BY <1>1 DEF HostFields
  <2>3. ASSUME h.arped PROVE MessageOK(c, s, h.remip, m.prot, m)
    <3>1. Takes(c, s, h.len)
      <4>1. On(c, s, h.net) BY <1>1, HostOn
      <4> QED BY <1>3, <1>8, <4>1 DEF On, Takes
    <3>2. Takes(c, h.remip, h.len)
      <4>1. CASE h.net \in Ethers
        <5>1. On(c, h.remip, h.net) BY <1>8, <2>3, <4>1 DEF Sums, HostSums
        <5> QED BY <1>3, <1>8, <5>1 DEF On, Takes
      <4>2. CASE h.net \notin Ethers
        <5>1. h.len <= 2 BY <1>3, <1>8, <4>2 DEF Mtu
        <5> QED BY <1>3, <5>1, ShortFits
      <4> QED BY <4>1, <4>2
    <3> QED BY <1>3, <3>1, <3>2 DEF MessageOK
  <2> HIDE DEF n, m
  <2>4. HostOK(c, s, n)
    <3>1. F \cap (Given \cup Learnt \cup {"remip"}) = {} /\ "tx" \notin F BY DEF Given, Learnt
    <3>2. n.tx = h.tx BY <1>1, <2>1, <3>1 DEF Only, HostFields
    <3>3. AllSound(c, n.tx) BY <3>2 DEF HostOK
    <3> HIDE DEF F
    <3> QED BY <2>1, <3>1, <3>3, HostSame
  <2>5. Goal(n)
    <3>1. F \cap (SumFields \cup {"name", "tx", "ident", "frags"}) = {} BY DEF SumFields
    <3> HIDE DEF F, Goal
    <3> QED BY <1>5, <2>1, <3>1
  <2>6. ASSUME h.arped PROVE Goal(u)
    <3>1. n.net \in Ethers /\ Neighbours(c, s, h.remip) => h.mac = h.remip
      BY <1>3, <1>8, <2>2, <2>6 DEF Ready
    <3>2. Sums(c, s, u, id) /\ u.frags = n.frags
      BY <2>2, <2>3, <2>4, <2>5, <2>6, <3>1, SendSums
    <3> HIDE DEF u
    <3> QED BY <2>5, <3>2
  <2>7. PingTx(h, expired) \in {h, ArpReq(h, gate_ip(h))} \/ (h.arped /\ PingTx(h, expired) = u)
    BY DEF PingTx, n, m
  <2>8. Goal(ArpReq(h, gate_ip(h))) BY <1>4, <1>6
  <2> HIDE DEF u, Goal
  <2>9. Goal(PingTx(h, expired)) BY <1>4, <2>6, <2>7, <2>8
  <2> QED BY <1>8, <2>9 DEF Tx, Goal
<1>9. CASE h.app = "arpscan"
  <2> DEFINE n == [h EXCEPT !.remip = Head(h.scan), !.scan = Tail(@)]
             o == [h EXCEPT !.off = TRUE]
             a == ArpReq(n, Head(h.scan))
  <2>1. /\ DOMAIN n = HostFields
        /\ \A x \in HostFields \ {"remip", "scan"} : n[x] = h[x]
    BY <1>1 DEF HostFields
  <2>2. Only(h, o, {"off"}) BY DEF Only
  <2> HIDE DEF n, o
  <2>3. Goal(o)
    <3>1. {"off"} \cap (SumFields \cup {"name", "tx", "ident", "frags"}) = {} BY DEF SumFields
    <3> HIDE DEF Goal
    <3> QED BY <1>5, <2>2, <3>1
  <2>4. /\ n.net = h.net /\ n.app = h.app /\ n.len = h.len /\ n.port = h.port
        /\ n.badsum = h.badsum /\ n.frags = h.frags /\ n.name = h.name /\ n.tx = h.tx
        /\ n.ident = h.ident
    BY <2>1 DEF HostFields
  <2>5. Goal(n)
    <3>1. ~Ready(n) BY <1>9, <2>4 DEF Ready
    <3>2. HostSums(c, s, n) BY <1>9, <2>4, <3>1 DEF Sums, HostSums
    <3>3. FragsOK(n) BY <2>4 DEF Sums, FragsOK, Stored
    <3>4. Sent(c, n, id) BY <2>4 DEF Sums, Sent
    <3> QED BY <2>4, <3>2, <3>3, <3>4 DEF Sums
  <2>6. HostOK(c, s, n)
    <3>1. \A x \in Given \cup {"tx", "mac", "cstate", "arped", "tries"} : n[x] = h[x]
      BY <2>1 DEF HostFields, Given
    <3>2. ~Asks(c, s) BY <1>1, <1>9 DEF Asks
    <3>3. ~Ready(n) BY <1>9, <2>4 DEF Ready
    <3>4. \A x \in Given : n[x] = c.hosts[s][x] BY <3>1 DEF HostOK
    <3>5. DOMAIN n = DOMAIN c.hosts[s] /\ n.tx = h.tx /\ n.cstate = h.cstate /\ n.tries = h.tries
      BY <1>1, <2>1, <3>1 DEF HostOK
    <3> QED BY <1>1, <3>2, <3>3, <3>4, <3>5 DEF HostOK
  <2>7. Goal(a) BY <1>6, <2>5, <2>6
  <2>8. ArpscanTx(h, expired) \in {a, o, h} BY DEF ArpscanTx, n, o
  <2> HIDE DEF a, Goal
  <2>9. Goal(ArpscanTx(h, expired)) BY <1>4, <2>3, <2>7, <2>8
  <2> QED BY <1>9, <2>9 DEF Tx, Goal
<1> QED BY <1>1, <1>7, <1>8, <1>9

-----------------------------------------------------------------------------
(* The sums at the router *)

RouterSums(c, r, id) == StoreSums(c, r) /\ FragsOK(r) /\ Sent(c, r, id)

LEMMA RouterSame ==
  ASSUME NEW c, NEW r, NEW id, RouterSums(c, r, id), NEW m, m.framestore = r.framestore,
         m.frags = r.frags, Sent(c, m, id)
  PROVE RouterSums(c, m, id)
BY DEF RouterSums, StoreSums, FragsOK, Stored

LEMMA RouterIpSums ==
  ASSUME NEW c, NEW r, RouterOK(c, r), NEW id, RouterSums(c, r, id),
         NEW net, NEW sip, NEW dip, NEW mac, NEW prot, NEW data,
         Full(c, sip, dip, prot, data), ~Neighbours(c, sip, dip),
         On(c, sip, net) \/ On(c, dip, net)
  PROVE LET m == make_ip(r, net, sip, dip, mac, prot, data)
        IN RouterSums(c, m, id) /\ m.frags = r.frags
<1> DEFINE m == make_ip(r, net, sip, dip, mac, prot, data)
<1>1. r.name = "router" /\ DOMAIN r = RouterFields BY DEF RouterOK
<1>2. Sent(c, m, id) /\ Only(r, m, {"tx", "ident"})
  <2>1. {"name", "tx", "ident"} \subseteq DOMAIN r BY <1>1 DEF RouterFields
  <2> QED BY <1>1, <2>1, MakeIpSent DEF RouterSums
<1> HIDE DEF m
<1>3. m.frags = r.frags /\ m.framestore = r.framestore BY <1>1, <1>2 DEF Only, RouterFields
<1> QED BY <1>2, <1>3, RouterSame DEF m

LEMMA RouterArpSums ==
  ASSUME NEW c, NEW r, DOMAIN r = RouterFields, NEW id, RouterSums(c, r, id),
         NEW net, NEW op, NEW sip, NEW dip, NEW mac
  PROVE LET m == make_arp(r, net, op, sip, dip, mac)
        IN RouterSums(c, m, id) /\ m.frags = r.frags
<1> DEFINE m == make_arp(r, net, op, sip, dip, mac)
<1>1. Sent(c, m, id) /\ Only(r, m, {"tx"})
  <2>1. {"name", "tx", "ident"} \subseteq DOMAIN r BY DEF RouterFields
  <2> QED BY <2>1, MakeArpSent DEF RouterSums
<1> HIDE DEF m
<1>2. m.frags = r.frags /\ m.framestore = r.framestore BY <1>1 DEF Only, RouterFields
<1> QED BY <1>1, <1>2, RouterSame DEF m

LEMMA CacheSums ==
  ASSUME NEW c, NEW r, RouterOK(c, r), NEW id, RouterSums(c, r, id), NEW ip, NEW mac
  PROVE LET m == add_cache(r, ip, mac) IN RouterSums(c, m, id) /\ m.frags = r.frags
<1> DEFINE m == add_cache(r, ip, mac)
<1>1. /\ m.framestore = r.framestore /\ m.frags = r.frags /\ m.name = r.name /\ m.tx = r.tx
      /\ m.ident = r.ident
  BY DEF add_cache, RouterOK, RouterFields
<1> HIDE DEF m
<1>2. Sent(c, m, id) BY <1>1 DEF RouterSums, Sent
<1> QED BY <1>1, <1>2, RouterSame DEF m

LEMMA HoldSums ==
  ASSUME NEW c, Setup(c), NEW r, RouterOK(c, r), NEW id, RouterSums(c, r, id),
         NEW w, Full(c, w.sip, w.dip, w.prot, w.data), ~Neighbours(c, w.sip, w.dip), NEW net
  PROVE LET n == Hold(r, w, net) IN RouterSums(c, n, id) /\ n.frags = r.frags
<1> DEFINE next == (r.frameidx + 1) % NFRAMES
           q == [r.framestore EXCEPT ![r.frameidx] = w, ![next] = NoWait]
           m == [r EXCEPT !.framestore = q, !.frameidx = next]
           n == Hold(r, w, net)
<1>1. n = make_arp(m, net, "req", RouterIp[net], w.dip, bcast) BY DEF Hold
<1>2. DOMAIN r.framestore = 0..(NFRAMES - 1) BY DEF RouterOK, StoreOK
<1> HIDE DEF next
<1>3. \A i \in 0..(NFRAMES - 1) : q[i] \in {w, NoWait, r.framestore[i]} BY <1>2
<1> HIDE DEF q
<1>4. /\ DOMAIN m = RouterFields /\ m.framestore = q /\ m.frags = r.frags /\ m.name = r.name
      /\ m.tx = r.tx /\ m.ident = r.ident
  BY DEF RouterOK, RouterFields
<1> HIDE DEF m
<1>5. StoreSums(c, m)
  <2> SUFFICES ASSUME NEW i \in 0..(NFRAMES - 1), m.framestore[i].dip # "none"
      PROVE LET v == m.framestore[i] IN
            Full(c, v.sip, v.dip, v.prot, v.data) /\ ~Neighbours(c, v.sip, v.dip)
    BY DEF StoreSums
  <2>1. m.framestore[i] \in {w, r.framestore[i]} BY <1>3, <1>4 DEF NoWait
  <2>2. CASE m.framestore[i] = w BY <2>2
  <2>3. CASE m.framestore[i] = r.framestore[i] BY <2>3 DEF RouterSums, StoreSums
  <2> QED BY <2>1, <2>2, <2>3
<1>6. RouterSums(c, m, id)
  <2>1. FragsOK(m) BY <1>4 DEF RouterSums, FragsOK, Stored
  <2>2. Sent(c, m, id) BY <1>4 DEF RouterSums, Sent
  <2> QED BY <1>5, <2>1, <2>2 DEF RouterSums
<1>7. RouterSums(c, n, id) /\ n.frags = m.frags
  <2> HIDE DEF n
  <2> QED BY <1>1, <1>4, <1>6, RouterArpSums
<1> QED BY <1>4, <1>7

LEMMA FlushSums ==
  ASSUME NEW c, Setup(c), NEW r, RouterOK(c, r), NEW id, RouterSums(c, r, id),
         NEW f, FromHost(c, f), NEW i \in 0..(NFRAMES - 1)
  PROVE LET n == Flush(r, f, i) IN RouterSums(c, n, id) /\ n.frags = r.frags
<1> DEFINE k == Place(r, i)
           w == r.framestore[k]
           v == [w EXCEPT !.dip = f.sip]
           m == make_ip(r, f.net, v.sip, v.dip, f.src, v.prot, v.data)
           n == [m EXCEPT !.framestore[k] = NoWait]
<1>1. k \in 0..(NFRAMES - 1)
  <2>1. r.frameidx + i \in Int /\ NFRAMES \in Nat \ {0}
    BY ConstAssumption DEF RouterOK, StoreOK
  <2> QED BY <2>1, DivMod DEF Place
<1>2. f.sip # "none" BY FromHostFacts DEF Others
<1>3. CASE ~Waits(w, f.sip)
  <2>1. Flush(r, f, i) = r BY <1>3 DEF Flush, Place
  <2> QED BY <2>1
<1>4. CASE Waits(w, f.sip)
  <2>1. Flush(r, f, i) = n BY <1>4 DEF Flush, Place, Forward
  <2> HIDE DEF k
  <2>2. Waiting(c, w) BY <1>1 DEF RouterOK, StoreOK
  <2>3. w.dip = f.sip BY <1>4 DEF Waits
  <2>4. Full(c, w.sip, w.dip, w.prot, w.data) /\ ~Neighbours(c, w.sip, w.dip)
    BY <1>1, <1>2, <2>3 DEF RouterSums, StoreSums
  <2> HIDE DEF w
  <2>5. v.sip = w.sip /\ v.dip = w.dip /\ v.prot = w.prot /\ v.data = w.data
    BY <2>2, <2>3 DEF Waiting
  <2> HIDE DEF v
  <2>0. On(c, v.dip, f.net)
    <3>1. f.sip \in DOMAIN c.hosts /\ f.net = c.hosts[f.sip].net BY FromHostFacts
    <3> QED BY <2>3, <2>5, <3>1, HostOn
  <2>6. RouterSums(c, m, id) /\ m.frags = r.frags BY <2>0, <2>4, <2>5, RouterIpSums
  <2>7. DOMAIN m = RouterFields /\ m.framestore = r.framestore
    <3>1. {"tx", "ident"} \subseteq DOMAIN r /\ DOMAIN r = RouterFields
      BY DEF RouterOK, RouterFields
    <3> QED BY <3>1 DEF make_ip, RouterFields
  <2> HIDE DEF m
  <2>8. /\ n.framestore = [r.framestore EXCEPT ![k] = NoWait]
        /\ n.frags = m.frags /\ n.name = m.name /\ n.tx = m.tx /\ n.ident = m.ident
    BY <2>7 DEF RouterFields
  <2> HIDE DEF n
  <2>9. DOMAIN r.framestore = 0..(NFRAMES - 1) BY DEF RouterOK, StoreOK
  <2>10. ASSUME NEW j \in 0..(NFRAMES - 1), n.framestore[j].dip # "none"
         PROVE LET x == n.framestore[j] IN
               Full(c, x.sip, x.dip, x.prot, x.data) /\ ~Neighbours(c, x.sip, x.dip)
    <3>0. NoWait.dip = "none" BY DEF NoWait
    <3>1. j # k BY <2>8, <2>9, <2>10, <3>0
    <3>2. n.framestore[j] = r.framestore[j] BY <2>8, <2>9, <3>1
    <3> QED BY <2>10, <3>2 DEF RouterSums, StoreSums
  <2>11. StoreSums(c, n) BY <2>10 DEF StoreSums
  <2>12. FragsOK(n) BY <2>6, <2>8 DEF RouterSums, FragsOK, Stored
  <2>13. Sent(c, n, id) BY <2>6, <2>8 DEF RouterSums, Sent
  <2> QED BY <2>1, <2>6, <2>8, <2>11, <2>12, <2>13 DEF RouterSums
<1> QED BY <1>3, <1>4

LEMMA FlushAllSums ==
  ASSUME NEW c, Setup(c), NEW r, RouterOK(c, r), NEW id, RouterSums(c, r, id),
         NEW f, FromHost(c, f)
  PROVE LET n == FlushAll(r, f) IN RouterSums(c, n, id) /\ n.frags = r.frags
<1> DEFINE last == NFRAMES - 1
           g == CHOOSE g : Flushes(r, f, last, g)
           Done(n) == RouterOK(c, n) /\ RouterSums(c, n, id) /\ n.frags = r.frags
           T == {i \in Nat : i <= last => Done(g[i])}
<1>1. last \in Nat BY ConstAssumption
<1>2. FlushAll(r, f) = g[last] BY DEF FlushAll, Flushes
<1>3. Flushes(r, f, last, g)
  <2>1. \E h : Flushes(r, f, last, h) BY <1>1, FlushesDefined
  <2> QED BY <2>1
<1> HIDE DEF g
<1>4. \A i \in 0..last : g[i] = IF i = 0 THEN r ELSE Flush(g[i - 1], f, i)
  BY <1>3 DEF Flushes
<1>5. 0 \in T
  <2>1. g[0] = r BY <1>1, <1>4
  <2>2. Done(r) OBVIOUS
  <2> QED BY <2>1, <2>2
<1>6. ASSUME NEW i \in Nat, i \in T PROVE i + 1 \in T
  <2> SUFFICES ASSUME i + 1 <= last PROVE Done(g[i + 1]) OBVIOUS
  <2> DEFINE n == g[i]
             m == g[i + 1]
  <2> HIDE DEF last
  <2>1. Done(n) BY <1>1, <1>6
  <2>2. m = Flush(n, f, i + 1)
    <3>1. i + 1 \in 0..last /\ i + 1 # 0 /\ (i + 1) - 1 = i BY <1>1
    <3> QED BY <1>4, <3>1
  <2> HIDE DEF m, n
  <2>3. i + 1 \in 0..(NFRAMES - 1) BY DEF last
  <2>4. RouterOK(c, m) BY <2>1, <2>2, <2>3, FlushKeeps
  <2>5. RouterSums(c, m, id) /\ m.frags = n.frags BY <2>1, <2>2, <2>3, FlushSums
  <2> QED BY <2>1, <2>4, <2>5 DEF m
<1> HIDE DEF T, last
<1>7. last \in T BY <1>1, <1>5, <1>6, AllNumbers
<1>8. Done(g[last]) BY <1>1, <1>7 DEF T
<1> QED BY <1>2, <1>8

(* What comes to the router is not for a neighbour of its sender.           *)
LEMMA NoNeighbours ==
  ASSUME NEW c, Setup(c), NEW f, FromHost(c, f), f.pcol = "ip", Way(c, f), For(c, "router", f)
  PROVE ~Neighbours(c, f.sip, f.dip)
<1> SUFFICES ASSUME Neighbours(c, f.sip, f.dip) PROVE FALSE OBVIOUS
<1>1. /\ f.sip = f.src /\ f.net = c.hosts[f.src].net /\ f.net \in {"A", "B", "S"}
      /\ f.src \in DOMAIN c.hosts /\ f.src \notin Others
  BY FromHostFacts
<1>2. f.src # "router" BY <1>1 DEF Others
<1>3. f.dip \in DOMAIN c.hosts /\ f.dip # f.src /\ c.hosts[f.dip].net = f.net
  BY <1>1 DEF Neighbours
<1>4. f.dip \notin {"router", bcast} BY <1>3, HostFacts DEF Others
<1>5. CASE f.net \in Ethers
  <2>1. f.dst = f.dip BY <1>1, <1>2, <1>5 DEF Way
  <2>2. f.dst \in {bcast, "router"} BY <1>5 DEF For
  <2> QED BY <1>4, <2>1, <2>2
<1>6. CASE f.net \notin Ethers
  <2>1. f.net = "S" BY <1>1, <1>6 DEF Ethers
  <2> QED BY <1>1, <1>3, <2>1, NetAssumption DEF Setup
<1> QED BY <1>5, <1>6

LEMMA RouteSums ==
  ASSUME NEW c, Setup(c), NEW r, RouterOK(c, r), NEW id, RouterSums(c, r, id),
         NEW f, FromHost(c, f), f.pcol = "ip", NEW data, Full(c, f.sip, f.dip, f.prot, data),
         ~Neighbours(c, f.sip, f.dip)
  PROVE LET n == Route(r, f, data) IN RouterSums(c, n, id) /\ n.frags = r.frags
<1> DEFINE n == add_cache(r, f.sip, IF f.net \in Ethers THEN f.src ELSE bcast)
           w == Wait(f, data)
           net == r.subnet[f.dip]
<1>1. RouterOK(c, n) BY FromHostFacts, CacheKeeps
<1>2. RouterSums(c, n, id) /\ n.frags = r.frags BY CacheSums
<1>3. /\ w.sip = f.sip /\ w.dip = f.dip /\ w.prot = f.prot /\ w.data = data BY DEF Wait
<1>4. \/ Route(r, f, data) = n
      \/ net # "none"
         /\ \E mac : Route(r, f, data) = make_ip(n, net, w.sip, w.dip, mac, w.prot, w.data)
      \/ Route(r, f, data) = Hold(n, w, net)
  <2>1. Route(r, f, data) =
          CASE net = "none" -> n
            [] net # "none" /\ net \notin Ethers -> Forward(n, w, net, bcast)
            [] net \in Ethers /\ Known(n, f.dip) # {} -> Forward(n, w, net, lookup_cache(n, f.dip))
            [] net \in Ethers /\ Known(n, f.dip) = {} -> Hold(n, w, net)
    BY DEF Route, Wait
  <2>2. \A mac : Forward(n, w, net, mac) = make_ip(n, net, w.sip, w.dip, mac, w.prot, w.data)
    BY DEF Forward
  <2>3. "none" \notin Ethers BY DEF Ethers
  <2> HIDE DEF n, w, net
  <2>4. net = "none" \/ (net # "none" /\ net \notin Ethers) \/ (net \in Ethers /\ Known(n, f.dip) # {})
        \/ (net \in Ethers /\ Known(n, f.dip) = {})
    OBVIOUS
  <2> QED BY <2>1, <2>2, <2>3, <2>4
<1> HIDE DEF n, w, net
<1>5. net # "none" => On(c, w.dip, net)
  BY <1>3 DEF On, RouterOK, FromHost, Sound, IpOK, Addresses, net
<1>6. ASSUME NEW mac, net # "none"
      PROVE LET m == make_ip(n, net, w.sip, w.dip, mac, w.prot, w.data)
            IN RouterSums(c, m, id) /\ m.frags = n.frags
  BY <1>1, <1>2, <1>3, <1>5, <1>6, RouterIpSums
<1>7. RouterSums(c, Hold(n, w, net), id) /\ Hold(n, w, net).frags = n.frags
  BY <1>1, <1>2, <1>3, HoldSums
<1> QED BY <1>2, <1>4, <1>6, <1>7

LEMMA RouterRxSums ==
  ASSUME NEW c, Setup(c), NEW r, RouterOK(c, r), NEW id, RouterSums(c, r, id),
         NEW f, FromHost(c, f), Pure(c, f), For(c, "router", f),
         IsHalf(f) => \A x \in Stored(r) : Alike(x, f)
  PROVE RouterSums(c, RouterRx(r, f), id) /\ From(r, RouterRx(r, f), f)
<1> DEFINE n == RouterRx(r, f)
           Goal(m) == RouterSums(c, m, id) /\ From(r, m, f)
<1>1. f.sip = f.src /\ f.src \in DOMAIN c.hosts BY FromHostFacts
<1>2. f.pcol \in {"arp", "ip"} /\ f.net \in {"A", "B", "S"} BY DEF FromHost, Sound
<1>3. CASE f.pcol = "arp"
  <2> DEFINE a == make_arp(r, f.net, "resp", RouterIp[f.net], f.sip, f.src)
             k == add_cache(r, f.sip, f.src)
             b == FlushAll(k, f)
  <2>1. n \in {r, a, b} BY <1>3 DEF RouterRx, RouterArp
  <2>2. Goal(r) BY FromSame
  <2>3. Goal(a)
    <3>1. RouterSums(c, a, id) /\ a.frags = r.frags BY RouterArpSums DEF RouterOK
    <3> QED BY <3>1, FromSame
  <2>4. Goal(b)
    <3>1. RouterOK(c, k) BY FromHostFacts, CacheKeeps
    <3>2. RouterSums(c, k, id) /\ k.frags = r.frags BY CacheSums
    <3> HIDE DEF k
    <3>3. RouterSums(c, b, id) /\ b.frags = k.frags BY <3>1, <3>2, FlushAllSums
    <3> QED BY <3>2, <3>3, FromSame
  <2> HIDE DEF Goal, a, b, n
  <2>5. Goal(n) BY <2>1, <2>2, <2>3, <2>4
  <2> QED BY <2>5 DEF Goal, n
<1>4. CASE f.pcol = "ip"
  <2> DEFINE d == is_ip(r, f)
             m == d.node
             mine == f.dip = RouterIp[f.net]
             e == EchoReply(Message(d.data))
             a == Send(m, f.net, RouterIp[f.net], f.sip, f.src, e)
             data == IF mine THEN <<>> ELSE d.data
             b == Route(m, f, data)
  <2>1. n \in {m, b} \/ (mine /\ is_icmp(f, d.data) /\ Echoes(Message(d.data)) /\ n = a)
    BY <1>4 DEF RouterRx, RouterIpRx
  <2>2. Content(c, f) /\ Way(c, f) BY <1>4 DEF Pure
  <2>3. DOMAIN r = RouterFields /\ "frags" \in DOMAIN r BY DEF RouterOK, RouterFields
  <2>4. FragsOK(m) /\ From(r, m, f) /\ Full(c, f.sip, f.dip, f.prot, d.data)
    BY <1>4, <2>2, <2>3, IsIp DEF RouterSums
  <2>5. Only(r, m, {"frags"}) BY <2>3, IsIpOnly
  <2>6. ASSUME is_icmp(f, d.data) PROVE MessageOK(c, f.sip, f.dip, f.prot, Message(d.data))
    <3>1. d.data # <<>> BY <2>6 DEF is_icmp, SumOk
    <3> HIDE DEF d
    <3> QED BY <2>4, <3>1, SumRight
  <2> HIDE DEF n, m, d
  <2>7. RouterOK(c, m)
    <3>1. m.tx = r.tx BY <2>3, <2>5 DEF Only, RouterFields
    <3>2. AllSound(c, m.tx) BY <3>1 DEF RouterOK
    <3>3. Only(r, m, {"tx", "ident", "frags"}) BY <2>5 DEF Only
    <3> QED BY <3>2, <3>3, RouterSends
  <2>8. RouterSums(c, m, id)
    <3>1. m.framestore = r.framestore /\ m.name = r.name /\ m.tx = r.tx /\ m.ident = r.ident
      BY <2>3, <2>5 DEF Only, RouterFields
    <3>2. StoreSums(c, m) BY <3>1 DEF RouterSums, StoreSums
    <3>3. Sent(c, m, id) BY <3>1 DEF RouterSums, Sent
    <3> QED BY <2>4, <3>2, <3>3 DEF RouterSums
  <2>9. Goal(m) BY <2>4, <2>8
  <2>10. ASSUME mine, is_icmp(f, d.data), Echoes(Message(d.data)) PROVE Goal(a)
    <3>1. MessageOK(c, f.sip, f.dip, f.prot, Message(d.data)) BY <2>6, <2>10
    <3>2. MessageOK(c, RouterIp[f.net], f.sip, e.prot, e) BY <2>10, <3>1, EchoedOK
    <3> HIDE DEF e
    <3>3. Full(c, RouterIp[f.net], f.sip, e.prot, Whole(e)) BY <3>2, FullWhole
    <3>4. ~Neighbours(c, RouterIp[f.net], f.sip)
      <4>1. RouterIp[f.net] \in {"rA", "rB", "rS"} BY <1>2 DEF RouterIp
      <4>2. {"rA", "rB", "rS"} \cap DOMAIN c.hosts = {} BY HostFacts DEF Others
      <4> QED BY <4>1, <4>2 DEF Neighbours
    <3>5. a = make_ip(m, f.net, RouterIp[f.net], f.sip, f.src, e.prot, Whole(e)) BY DEF Send
    <3> HIDE DEF a
    <3>6. On(c, f.sip, f.net) BY FromHostFacts, HostOn
    <3>7. RouterSums(c, a, id) /\ a.frags = m.frags
      BY <2>7, <2>8, <3>3, <3>4, <3>5, <3>6, RouterIpSums
    <3> QED BY <2>4, <3>7, FromSame
  <2>11. Goal(b)
    <3>1. ~Neighbours(c, f.sip, f.dip) BY <1>4, <2>2, NoNeighbours
    <3>2. Full(c, f.sip, f.dip, f.prot, data) BY <2>4 DEF Full
    <3> HIDE DEF data
    <3>3. RouterSums(c, b, id) /\ b.frags = m.frags BY <1>4, <2>7, <2>8, <3>1, <3>2, RouteSums
    <3> HIDE DEF b
    <3> QED BY <2>4, <3>3, FromSame
  <2> HIDE DEF Goal, a, b
  <2>12. Goal(n) BY <2>1, <2>9, <2>10, <2>11
  <2> QED BY <2>12 DEF Goal, n
<1> QED BY <1>2, <1>3, <1>4

-----------------------------------------------------------------------------
(* The sums in the networks *)

(* Who has sent a frame can be told from where it has come to and the       *)
(* address it is from.                                                      *)
LEMMA CarrierIs ==
  ASSUME NEW c, Setup(c), NEW t, t \in DOMAIN c.hosts \cup {"router"}, NEW f, Sound(c, f),
         For(c, t, f), f.pcol = "ip", Way(c, f)
  PROVE Carrier(c, t, f.sip) = f.src
<1>0. "router" \notin DOMAIN c.hosts BY HostFacts DEF Others
<1>1. CASE t = "router"
  <2>1. f.src \in DOMAIN c.hosts /\ f.sip = f.src BY <1>1 DEF Sound, Origin, For
  <2> QED BY <1>0, <1>1, <2>1 DEF Carrier
<1>2. CASE t \in DOMAIN c.hosts
  <2>1. f.dip = t BY <1>2, RightDip
  <2>2. CASE f.src = "router"
    <3>1. ~Neighbours(c, t, f.sip) BY <2>1, <2>2, Opposite DEF Way
    <3> QED BY <1>2, <2>2, <3>1 DEF Carrier
  <2>3. CASE f.src # "router"
    <3>1. f.src \in DOMAIN c.hosts /\ f.sip = f.src /\ f.net = c.hosts[f.src].net
      BY <2>3 DEF Sound, Origin
    <3>2. f.net = c.hosts[t].net /\ f.src # t BY <1>2 DEF For
    <3>3. Neighbours(c, t, f.sip) BY <1>2, <3>1, <3>2 DEF Neighbours
    <3> QED BY <3>1, <3>3 DEF Carrier
  <2> QED BY <2>2, <2>3
<1> QED BY <1>1, <1>2

LEMMA CarrierOf ==
  ASSUME NEW c, NEW t, NEW sip PROVE Carrier(c, t, sip) \in DOMAIN c.hosts \cup {"router"}
  BY DEF Carrier

LEMMA AlikeBoth == ASSUME NEW x, NEW y PROVE Alike(x, y) <=> Alike(y, x)
  BY DEF Alike, Agree

(* What is in the queue of a station at the end of a pass                   *)
LEMMA Arrived ==
  ASSUME NetInv, NEW s \in Stations, NEW q, AllFor(case, s, q),
         \A i \in DOMAIN q : \E j \in DOMAIN inbox[s] : q[i] = inbox[s][j],
         NEW frames, AllSound(case, frames), Deliver(s, q, frames),
         NEW t \in Stations, NEW i \in DOMAIN inbox'[t]
  PROVE /\ \/ \E j \in DOMAIN inbox[t] : inbox'[t][i] = inbox[t][j]
           \/ \E j \in DOMAIN frames : inbox'[t][i] = frames[j]
        /\ Sound(case, inbox'[t][i]) /\ For(case, t, inbox'[t][i])
<1> DEFINE p == IF t = s THEN q ELSE inbox[t]
           r == IF IsOn(t) THEN Reaching(frames, t) ELSE <<>>
<1>1. AllFor(case, t, inbox'[t]) /\ inbox'[t] = p \o r BY DeliverKeeps
<1>2. IsSeq(p) BY DEF NetInv, AllFor
<1>3. IsSeq(r) /\ \A k \in DOMAIN r : \E j \in DOMAIN frames : r[k] = frames[j]
  <2>1. IsSeq(frames) BY DEF AllSound
  <2>2. IsSeq(<<>>) /\ DOMAIN <<>> = {} BY EmptyIsSeq
  <2>3. LET u == Reaching(frames, t) IN
        IsSeq(u) /\ \A k \in DOMAIN u : \E j \in DOMAIN frames : u[k] = frames[j]
    BY <2>1, Reached
  <2> QED BY <2>2, <2>3
<1>4. \A k \in DOMAIN p : \E j \in DOMAIN inbox[t] : p[k] = inbox[t][j] OBVIOUS
<1> HIDE DEF p, r
<1>5. (\E k \in DOMAIN p : inbox'[t][i] = p[k]) \/ (\E k \in DOMAIN r : inbox'[t][i] = r[k])
  BY <1>1, <1>2, <1>3, InConcat
<1> QED BY <1>1, <1>3, <1>4, <1>5 DEF AllFor

(* What a node does in a pass: m is the node with what it has sent, f the   *)
(* frame it has taken.                                                      *)
LEMMA PassSums ==
  ASSUME NetInv, SumInv, NEW s \in Stations, NEW q, AllFor(case, s, q),
         \A i \in DOMAIN q : \E j \in DOMAIN inbox[s] : q[i] = inbox[s][j],
         NEW m, AllSound(case, m.tx), Deliver(s, q, m.tx), FragsOK(m), Sent(case, m, Node(s).ident),
         m.name = s,
         NEW f, From(Node(s), m, f), IsHalf(f) => \E j \in DOMAIN inbox[s] : inbox[s][j] = f,
         case' = case, Node(s)' = [m EXCEPT !.tx = <<>>],
         {"tx", "name", "ident", "frags"} \subseteq DOMAIN m,
         \A t \in Stations \ {s} : Node(t)' = Node(t)
  PROVE /\ \A t \in Stations :
             /\ FragsOK(Node(t)') /\ Sent(case, Node(t)', Node(t)'.ident)
             /\ Node(t)'.tx = <<>> /\ Node(t)'.name = t
             /\ \A i \in DOMAIN inbox'[t] : Pure(case, inbox'[t][i])
        /\ AllHalves'
<1>1. Setup(case) /\ Stations = DOMAIN case.hosts \cup {"router"} /\ Stations' = Stations
  BY DEF NetInv, Stations, Names
<1>2. /\ Node(s)'.frags = m.frags /\ Node(s)'.ident = m.ident /\ Node(s)'.name = s
      /\ Node(s)'.tx = <<>>
  <2> DEFINE n == [m EXCEPT !.tx = <<>>]
  <2>1. n.frags = m.frags /\ n.ident = m.ident /\ n.name = m.name /\ n.tx = <<>> OBVIOUS
  <2>2. Node(s)' = n OBVIOUS
  <2> HIDE DEF n
  <2> QED BY <2>1, <2>2
<1>3. /\ SentOK(case, s, m.tx, Node(s).ident, m.ident) /\ m.ident \in Nat
      /\ Node(s).ident \in Nat /\ Node(s).ident <= m.ident
  BY DEF Sent, SentOK
<1>4. \A t \in Stations : Node(t).ident \in Nat /\ Node(t)'.ident \in Nat
                          /\ Node(t).ident <= Node(t)'.ident
  <2>1. \A t \in Stations : Node(t).ident \in Nat BY DEF SumInv, Sent, SentOK
  <2> QED BY <1>2, <1>3, <2>1
<1> DEFINE New(t, x) == /\ \E j \in DOMAIN m.tx : x = m.tx[j]
                        /\ IsHalf(x) /\ Carrier(case, t, x.sip) = s
           Old(t, x) == \E y \in Halves(t) : Same(x, y)
<1>5. ASSUME NEW t \in Stations, NEW i \in DOMAIN inbox'[t]
      PROVE Pure(case, inbox'[t][i]) /\ (IsHalf(inbox'[t][i]) => New(t, inbox'[t][i]) \/ Old(t, inbox'[t][i]))
  <2> DEFINE g == inbox'[t][i]
  <2>1. /\ (\E j \in DOMAIN inbox[t] : g = inbox[t][j]) \/ (\E j \in DOMAIN m.tx : g = m.tx[j])
        /\ Sound(case, g) /\ For(case, t, g)
    BY <1>5, Arrived
  <2> HIDE DEF g
  <2>2. Pure(case, g) BY <1>3, <2>1 DEF SumInv, SentOK
  <2>3. ASSUME IsHalf(g) PROVE New(t, g) \/ Old(t, g)
    <3>1. CASE \E j \in DOMAIN inbox[t] : g = inbox[t][j]
      <4>1. g \in Halves(t) BY <2>3, <3>1 DEF Halves
      <4>2. Same(g, g) BY DEF Same
      <4> QED BY <4>1, <4>2
    <3>2. CASE \E j \in DOMAIN m.tx : g = m.tx[j]
      <4>1. g.pcol = "ip" /\ Way(case, g) BY <2>2, <2>3 DEF Pure, IsHalf
      <4>2. Carrier(case, t, g.sip) = g.src BY <1>1, <2>1, <4>1, CarrierIs
      <4>3. g.src = s BY <1>3, <3>2, <4>1 DEF SentOK
      <4> QED BY <2>3, <3>2, <4>2, <4>3
    <3> QED BY <2>1, <3>1, <3>2
  <2> QED BY <2>2, <2>3 DEF g
<1>6. ASSUME NEW t \in Stations, NEW x \in Halves(t)' PROVE New(t, x) \/ Old(t, x)
  <2>1. CASE \E i \in DOMAIN inbox'[t] : x = inbox'[t][i] /\ IsHalf(x)
    BY <1>5, <2>1
  <2>2. CASE x \in Stored(Node(t)')
    <3>1. CASE t = s
      <4>1. x \in Stored(m) BY <1>2, <2>2, <3>1 DEF Stored
      <4>2. CASE \E y \in Stored(Node(s)) : Same(x, y) BY <3>1, <4>2 DEF Halves
      <4>3. CASE IsHalf(f) /\ Same(x, f)
        <5>1. f \in Halves(s) BY <4>3 DEF Halves
        <5> QED BY <3>1, <4>3, <5>1
      <4> QED BY <4>1, <4>2, <4>3 DEF From
    <3>2. CASE t # s
      <4>1. x \in Halves(t) BY <2>2, <3>2 DEF Halves
      <4>2. Same(x, x) BY DEF Same
      <4> QED BY <4>1, <4>2
    <3> QED BY <3>1, <3>2
  <2>3. x \in {inbox'[t][i] : i \in {i \in DOMAIN inbox'[t] : IsHalf(inbox'[t][i])}}
              \cup Stored(Node(t)')
    BY <1>6 DEF Halves
  <2> QED BY <2>1, <2>2, <2>3
<1>7. ASSUME NEW t \in Stations, NEW x, New(t, x) \/ Old(t, x)
      PROVE x.ident \in Nat /\ x.ident < Node(Carrier(case, t, x.sip))'.ident
  <2>1. CASE New(t, x)
    <3>1. x.ident \in Nat /\ x.ident < m.ident
      BY <1>3, <2>1 DEF SentOK, IsHalf, Pure, Content
    <3> QED BY <1>2, <2>1, <3>1
  <2>2. CASE Old(t, x)
    <3>1. PICK y \in Halves(t) : Same(x, y) BY <2>2
    <3>2. x.sip = y.sip /\ x.ident = y.ident BY <3>1 DEF Same
    <3>3. PICK u \in Stations : u = Carrier(case, t, y.sip) BY <1>1, CarrierOf
    <3>4. y.ident \in Nat /\ y.ident < Node(u).ident BY <3>1, <3>3 DEF SumInv, HalvesOK
    <3>5. Node(u).ident \in Nat /\ Node(u)'.ident \in Nat /\ Node(u).ident <= Node(u)'.ident
      BY <1>4
    <3>6. y.ident < Node(u)'.ident BY <3>4, <3>5
    <3> QED BY <3>2, <3>3, <3>4, <3>6
  <2> QED BY <1>7, <2>1, <2>2
<1>8. ASSUME NEW t \in Stations, NEW x, New(t, x), NEW y, Old(t, y) PROVE Alike(x, y) /\ Alike(y, x)
  <2> SUFFICES ASSUME x.sip = y.sip PROVE x.ident # y.ident BY DEF Alike
  <2>1. PICK z \in Halves(t) : Same(y, z) BY <1>8
  <2>2. z.ident \in Nat /\ z.ident < Node(Carrier(case, t, z.sip)).ident
    BY <2>1 DEF SumInv, HalvesOK
  <2>3. y.ident = z.ident /\ y.sip = z.sip BY <2>1 DEF Same
  <2>4. Carrier(case, t, z.sip) = s BY <1>8, <2>3
  <2>5. Node(s).ident <= x.ident /\ x.ident \in Nat
    BY <1>3, <1>8 DEF SentOK, IsHalf, Pure, Content
  <2> QED BY <1>3, <2>2, <2>3, <2>4, <2>5
<1>9. ASSUME NEW t \in Stations, NEW x, New(t, x) \/ Old(t, x), NEW y, New(t, y) \/ Old(t, y)
      PROVE Alike(x, y)
  <2>1. CASE New(t, x) /\ New(t, y) BY <1>3, <2>1 DEF SentOK
  <2>2. CASE Old(t, x) /\ Old(t, y)
    <3>1. PICK v \in Halves(t) : Same(x, v) BY <2>2
    <3>2. PICK w \in Halves(t) : Same(y, w) BY <2>2
    <3>3. Alike(w, v) BY DEF SumInv, HalvesOK
    <3>4. Alike(y, v) BY <3>2, <3>3, SameHalves
    <3>5. Alike(v, y) BY <3>4, AlikeBoth
    <3> QED BY <3>1, <3>5, SameHalves
  <2>3. CASE (New(t, x) /\ Old(t, y)) \/ (Old(t, x) /\ New(t, y)) BY <1>8, <2>3
  <2> QED BY <1>9, <2>1, <2>2, <2>3
<1> HIDE DEF New, Old
<1>10. ASSUME NEW t \in Stations PROVE HalvesOK(t)'
  <2>1. \A x \in Halves(t)' : x.ident \in Nat /\ x.ident < Node(Carrier(case, t, x.sip))'.ident
    BY <1>6, <1>7
  <2>2. \A x, y \in Halves(t)' : Alike(x, y) BY <1>6, <1>9
  <2> QED BY <2>1, <2>2 DEF HalvesOK
<1>11. ASSUME NEW t \in Stations
       PROVE /\ FragsOK(Node(t)') /\ Sent(case, Node(t)', Node(t)'.ident)
             /\ Node(t)'.tx = <<>> /\ Node(t)'.name = t
  <2>1. CASE t = s
    <3>1. FragsOK(Node(t)') BY <1>2, <2>1 DEF FragsOK, Stored
    <3>2. Sent(case, Node(t)', Node(t)'.ident)
      <4>1. IsSeq(<<>>) /\ DOMAIN <<>> = {} BY EmptyIsSeq
      <4> QED BY <1>2, <1>3, <2>1, <4>1 DEF Sent, SentOK
    <3> QED BY <1>2, <2>1, <3>1, <3>2
  <2>2. CASE t # s BY <2>2 DEF SumInv
  <2> QED BY <2>1, <2>2
<1>12. AllHalves' BY <1>1, <1>10 DEF AllHalves
<1> QED BY <1>1, <1>5, <1>11, <1>12

LEMMA NoneStored ==
  ASSUME NEW n, n.frags = [k \in 1..NFRAGS |-> NoFrag], n.tx = <<>>, n.ident = 1, NEW c
  PROVE FragsOK(n) /\ Sent(c, n, n.ident) /\ Stored(n) = {}
<1>1. DOMAIN NoFrag = {"tries", "ident", "sip", "oset", "data"} /\ NoFrag.tries = 0
  BY DEF NoFrag
<1>2. DOMAIN n.frags = 1..NFRAGS /\ \A k \in 1..NFRAGS : n.frags[k] = NoFrag OBVIOUS
<1>3. Stored(n) = {} BY <1>1, <1>2 DEF Stored
<1>4. FragsOK(n) BY <1>1, <1>2, <1>3 DEF FragsOK
<1>5. IsSeq(<<>>) /\ DOMAIN <<>> = {} BY EmptyIsSeq
<1>6. Sent(c, n, n.ident) BY <1>5 DEF Sent, SentOK
<1> QED BY <1>3, <1>4, <1>6

LEMMA InitSums == NetInv /\ Plain(case) /\ Init => SumInv
<1> SUFFICES ASSUME NetInv, Plain(case), Init PROVE SumInv OBVIOUS
<1>1. ASSUME NEW s \in Names
      PROVE /\ HostSums(case, s, hosts[s])
            /\ hosts[s].frags = [k \in 1..NFRAGS |-> NoFrag] /\ hosts[s].tx = <<>>
            /\ hosts[s].ident = 1 /\ hosts[s].name = s
  <2> DEFINE h == case.hosts[s]
             g == Host(s, h.net, h.neighbours, h.app)
  <2>1. hosts[s] = h /\ s \in DOMAIN case.hosts /\ Setup(case) /\ case \in Cases
    BY DEF Init, Names, NetInv
  <2>2. Starts(s, h) BY <2>1, NetAssumption
  <2>3. h = [g EXCEPT !.remip = h.remip, !.port = h.port, !.len = h.len,
                      !.flood = h.flood, !.scan = h.scan]
    BY <2>2 DEF Starts
  <2>4. g.frags = [k \in 1..NFRAGS |-> NoFrag] /\ g.ident = 1 /\ g.badsum = FALSE
        /\ g.tx = <<>> /\ g.name = s /\ DOMAIN g = HostFields
    BY DEF Host, HostFields
  <2>5. h.net \in Ethers => ~Ready(h) /\ ~(h.app = "ping" /\ h.arped)
    BY <2>1, HostFacts DEF Ready
  <2> HIDE DEF h, g
  <2>6. /\ h.frags = [k \in 1..NFRAGS |-> NoFrag] /\ h.ident = 1 /\ h.badsum = FALSE
        /\ h.tx = <<>> /\ h.name = s
    BY <2>3, <2>4 DEF HostFields
  <2>7. HostSums(case, s, h) BY <2>5, <2>6 DEF HostSums, h
  <2> QED BY <2>1, <2>6, <2>7
<1>2. router.frags = [k \in 1..NFRAGS |-> NoFrag] /\ router.tx = <<>> /\ router.ident = 1
      /\ router.name = "router" /\ router.framestore = [i \in 0..(NFRAMES - 1) |-> NoWait]
  BY DEF Init, Router
<1>3. StoreSums(case, router)
  <2>1. \A i \in 0..(NFRAMES - 1) : router.framestore[i].dip = "none" BY <1>2 DEF NoWait
  <2> QED BY <2>1 DEF StoreSums
<1>4. ASSUME NEW t \in Stations
      PROVE /\ Node(t).frags = [k \in 1..NFRAGS |-> NoFrag] /\ Node(t).tx = <<>>
            /\ Node(t).ident = 1 /\ Node(t).name = t
  BY <1>1, <1>2 DEF Stations, Node
<1>5. ASSUME NEW t \in Stations
      PROVE /\ FragsOK(Node(t)) /\ Sent(case, Node(t), Node(t).ident)
            /\ \A i \in DOMAIN inbox[t] : Pure(case, inbox[t][i])
            /\ HalvesOK(t)
  <2>1. FragsOK(Node(t)) /\ Sent(case, Node(t), Node(t).ident) /\ Stored(Node(t)) = {}
    BY <1>4, NoneStored
  <2>2. inbox[t] = <<>> /\ DOMAIN <<>> = {} BY EmptyIsSeq DEF Init
  <2>3. Halves(t) = {} BY <2>1, <2>2 DEF Halves
  <2> QED BY <2>1, <2>2, <2>3 DEF HalvesOK
<1> QED BY <1>1, <1>3, <1>4, <1>5 DEF SumInv

LEMMA HostPassSums ==
  ASSUME NetInv, SumInv, NEW s \in Names, NEW expired, HostPass(s, expired),
         UNCHANGED <<case, router, lost>>
  PROVE SumInv'
<1> DEFINE h == IF Stopped(hosts[s]) THEN hosts[s] ELSE Tx(hosts[s], expired)
           n == IF inbox[s] = <<>> THEN h ELSE Rx(h, Head(inbox[s]))
           q == IF inbox[s] = <<>> \/ n.off THEN <<>> ELSE Tail(inbox[s])
           m == [n EXCEPT !.tx = <<>>]
           id == hosts[s].ident
           f == IF inbox[s] = <<>> THEN [pcol |-> "arp"] ELSE Head(inbox[s])
<1>1. hosts' = [hosts EXCEPT ![s] = m] /\ Deliver(s, q, n.tx) BY DEF HostPass
<1>2. Setup(case) /\ HostOK(case, s, hosts[s]) /\ AllFor(case, s, inbox[s]) /\ s \in Stations
      /\ s \in DOMAIN case.hosts /\ s # "router" /\ DOMAIN hosts = Names /\ Plain(case)
  BY NamesDiffer DEF NetInv, Stations, SumInv
<1>3. Node(s) = hosts[s] BY <1>2 DEF Node
<1>4. Sums(case, s, hosts[s], id) BY <1>2, <1>3 DEF SumInv, Sums
<1>5. HostOK(case, s, h) BY <1>2, TxKeeps
<1>6. Sums(case, s, h, id) /\ h.frags = hosts[s].frags
  <2> HIDE DEF id
  <2> QED BY <1>2, <1>4, TxSums
<1> HIDE DEF h, id
<1>7. ASSUME inbox[s] # <<>>
      PROVE /\ Sound(case, f) /\ f.net = h.net /\ Pure(case, f)
            /\ 1 \in DOMAIN inbox[s] /\ f = inbox[s][1]
            /\ IsHalf(f) => \A x \in Stored(h) : Alike(x, f)
  <2>1. f = Head(inbox[s]) BY <1>7
  <2> HIDE DEF f
  <2>2. Sound(case, f) /\ For(case, s, f) BY <1>2, <1>7, <2>1, AllForTail
  <2>3. f.net = h.net BY <1>2, <1>5, <2>2 DEF For, HostOK, Given
  <2>4. 1 \in DOMAIN inbox[s] /\ f = inbox[s][1] BY <1>2, <1>7, <2>1, HeadTail DEF AllFor
  <2>5. Pure(case, f) BY <1>2, <2>4 DEF SumInv
  <2>6. ASSUME IsHalf(f), NEW x \in Stored(h) PROVE Alike(x, f)
    <3>1. x \in Halves(s) BY <1>3, <1>6 DEF Halves, Stored
    <3>2. f \in Halves(s) BY <2>4, <2>6 DEF Halves
    <3> QED BY <1>2, <3>1, <3>2 DEF SumInv, HalvesOK
  <2> QED BY <2>2, <2>3, <2>4, <2>5, <2>6
<1>8. HostOK(case, s, n)
  <2> SUFFICES ASSUME inbox[s] # <<>> PROVE HostOK(case, s, Rx(h, Head(inbox[s]))) BY <1>5
  <2>1. f = Head(inbox[s]) OBVIOUS
  <2> HIDE DEF f
  <2> QED BY <1>2, <1>5, <1>7, <2>1, RxKeeps
<1>9. Sums(case, s, n, id) /\ From(h, n, f)
  <2>1. CASE inbox[s] = <<>>
    <3>1. n = h BY <2>1
    <3> QED BY <1>6, <3>1, FromSame
  <2>2. CASE inbox[s] # <<>>
    <3>1. n = Rx(h, f) BY <2>2
    <3> HIDE DEF n, f
    <3> QED BY <1>2, <1>5, <1>6, <1>7, <2>2, <3>1, RxSums
  <2> QED BY <2>1, <2>2
<1>10. IsHalf(f) => \E j \in DOMAIN inbox[s] : inbox[s][j] = f
  <2>1. CASE inbox[s] = <<>>
    <3>1. f.pcol = "arp" BY <2>1
    <3> HIDE DEF f
    <3> QED BY <3>1 DEF IsHalf
  <2>2. CASE inbox[s] # <<>>
    <3> HIDE DEF f
    <3> QED BY <1>7, <2>2
  <2> QED BY <2>1, <2>2
<1> HIDE DEF f, n
<1>11. AllFor(case, s, q) /\ \A i \in DOMAIN q : \E j \in DOMAIN inbox[s] : q[i] = inbox[s][j]
  <2>1. AllFor(case, s, <<>>) /\ DOMAIN <<>> = {} BY EmptyIsSeq DEF AllFor
  <2>2. inbox[s] # <<>> =>
          /\ AllFor(case, s, Tail(inbox[s]))
          /\ \A i \in DOMAIN Tail(inbox[s]) : \E j \in DOMAIN inbox[s] : Tail(inbox[s])[i] = inbox[s][j]
    BY <1>2, AllForTail, HeadTail DEF AllFor
  <2> QED BY <2>1, <2>2
<1> HIDE DEF q
<1>12. AllSound(case, n.tx) /\ DOMAIN n = HostFields /\ n.name = s
  BY <1>2, <1>8, HostFacts DEF HostOK, Given
<1>13. FragsOK(n) /\ Sent(case, n, Node(s).ident) BY <1>3, <1>9 DEF Sums, id
<1>14. From(Node(s), n, f) BY <1>3, <1>6, <1>9 DEF From, Stored
<1>15. Node(s)' = m /\ \A t \in Stations \ {s} : Node(t)' = Node(t)
  <2> HIDE DEF m
  <2> QED BY <1>1, <1>2 DEF Node, Stations
<1>16. {"tx", "name", "ident", "frags"} \subseteq DOMAIN n BY <1>12 DEF HostFields
<1>17. /\ \A t \in Stations :
            /\ FragsOK(Node(t)') /\ Sent(case, Node(t)', Node(t)'.ident)
            /\ Node(t)'.tx = <<>> /\ Node(t)'.name = t
            /\ \A i \in DOMAIN inbox'[t] : Pure(case, inbox'[t][i])
       /\ AllHalves'
  BY <1>1, <1>2, <1>10, <1>11, <1>12, <1>13, <1>14, <1>15, <1>16, PassSums
<1>18. HostSums(case, s, m)
  <2>1. \A x \in HostFields \ {"tx"} : m[x] = n[x] BY <1>12
  <2> HIDE DEF m
  <2>2. /\ m.net = n.net /\ m.app = n.app /\ m.cstate = n.cstate /\ m.arped = n.arped
        /\ m.mac = n.mac /\ m.remip = n.remip /\ m.len = n.len /\ m.port = n.port
        /\ m.badsum = n.badsum
    BY <2>1 DEF HostFields
  <2> QED BY <1>9, <2>2 DEF Sums, HostSums, Ready
<1> HIDE DEF m
<1>19. \A t \in Names : HostSums(case, t, hosts'[t]) BY <1>1, <1>2, <1>18 DEF SumInv
<1>20. Stations' = Stations /\ Names' = Names /\ case' = case /\ router' = router
  BY DEF Stations, Names
<1>21. Plain(case) /\ StoreSums(case, router) BY DEF SumInv
<1> QED BY <1>17, <1>19, <1>20, <1>21 DEF SumInv, AllHalves

LEMMA LoopSums ==
  ASSUME NetInv, SumInv, RouterLoop
  PROVE SumInv'
<1> DEFINE f == Head(inbox["router"])
           n == RouterRx(router, f)
           q == Tail(inbox["router"])
           m == [n EXCEPT !.tx = <<>>]
           s == "router"
<1>1. router' = m /\ Deliver(s, q, n.tx) /\ UNCHANGED <<case, hosts, lost, early>>
      /\ inbox[s] # <<>>
  BY DEF RouterLoop
<1>2. Setup(case) /\ RouterOK(case, router) /\ AllFor(case, s, inbox[s])
      /\ s \in Stations /\ s \notin Names
  BY NamesDiffer DEF NetInv, Stations
<1>3. Sound(case, f) /\ For(case, s, f) /\ AllFor(case, s, q) BY <1>1, <1>2, AllForTail
<1>4. FromHost(case, f) BY LoopKeeps
<1>5. 1 \in DOMAIN inbox[s] /\ f = inbox[s][1]
      /\ \A i \in DOMAIN q : \E j \in DOMAIN inbox[s] : q[i] = inbox[s][j]
  BY <1>1, <1>2, HeadTail DEF AllFor
<1> HIDE DEF f, q
<1>6. Node(s) = router BY DEF Node
<1>7. Pure(case, f) BY <1>2, <1>5 DEF SumInv
<1>8. IsHalf(f) => f \in Halves(s) BY <1>5 DEF Halves
<1>9. IsHalf(f) => \A x \in Stored(router) : Alike(x, f)
  BY <1>2, <1>6, <1>8 DEF SumInv, HalvesOK, Halves
<1>10. RouterSums(case, router, router.ident) BY <1>2, <1>6 DEF SumInv, RouterSums
<1>11. RouterSums(case, n, router.ident) /\ From(router, n, f)
  BY <1>2, <1>3, <1>4, <1>7, <1>9, <1>10, RouterRxSums
<1>12. RouterOK(case, n) BY <1>2, <1>4, RouterRxKeeps
<1> HIDE DEF n
<1>13. AllSound(case, n.tx) /\ DOMAIN n = RouterFields /\ n.name = s BY <1>12 DEF RouterOK
<1>14. FragsOK(n) /\ Sent(case, n, Node(s).ident) BY <1>6, <1>11 DEF RouterSums
<1>15. Node(s)' = m /\ \A t \in Stations \ {s} : Node(t)' = Node(t)
  <2> HIDE DEF m
  <2> QED BY <1>1, <1>2 DEF Node, Stations
<1>16. {"tx", "name", "ident", "frags"} \subseteq DOMAIN n BY <1>13 DEF RouterFields
<1>17. /\ \A t \in Stations :
            /\ FragsOK(Node(t)') /\ Sent(case, Node(t)', Node(t)'.ident)
            /\ Node(t)'.tx = <<>> /\ Node(t)'.name = t
            /\ \A i \in DOMAIN inbox'[t] : Pure(case, inbox'[t][i])
       /\ AllHalves'
  <2>1. From(Node(s), n, f) BY <1>6, <1>11
  <2>2. IsHalf(f) => \E j \in DOMAIN inbox[s] : inbox[s][j] = f BY <1>5
  <2>3. case' = case BY <1>1
  <2> HIDE DEF m
  <2>4. Node(s)' = [n EXCEPT !.tx = <<>>] BY <1>15 DEF m
  <2> HIDE DEF s
  <2> QED BY <1>1, <1>2, <1>3, <1>5, <1>13, <1>14, <1>15, <1>16, <2>1, <2>2, <2>3, <2>4, PassSums
<1>18. StoreSums(case, m)
  <2>1. m.framestore = n.framestore BY <1>13 DEF RouterFields
  <2> HIDE DEF m
  <2> QED BY <1>11, <2>1 DEF RouterSums, StoreSums
<1> HIDE DEF m
<1>19. Stations' = Stations /\ Names' = Names /\ case' = case /\ hosts' = hosts
  BY <1>1 DEF Stations, Names
<1>20. Plain(case) /\ \A t \in Names : HostSums(case, t, hosts[t]) BY DEF SumInv
<1>21. StoreSums(case, router') BY <1>1, <1>18
<1> QED BY <1>17, <1>19, <1>20, <1>21 DEF SumInv, AllHalves

LEMMA LoseSums ==
  ASSUME NetInv, SumInv, NEW s \in Stations, Lose(s)
  PROVE SumInv'
<1>1. /\ inbox[s] # <<>> /\ inbox' = [inbox EXCEPT ![s] = Tail(@)]
      /\ UNCHANGED <<case, router, hosts, early>>
  BY DEF Lose
<1>2. DOMAIN inbox = Stations /\ IsSeq(inbox[s]) BY DEF NetInv, AllFor
<1>3. ASSUME NEW t \in Stations, NEW i \in DOMAIN inbox'[t]
      PROVE \E j \in DOMAIN inbox[t] : inbox'[t][i] = inbox[t][j]
  <2>1. CASE t = s
    <3>1. inbox'[t] = Tail(inbox[s]) BY <1>1, <1>2, <2>1
    <3> QED BY <1>1, <1>2, <1>3, <2>1, <3>1, HeadTail
  <2>2. CASE t # s BY <1>1, <1>2, <1>3, <2>2
  <2> QED BY <2>1, <2>2
<1>4. \A t \in Stations : Node(t)' = Node(t) BY <1>1 DEF Node
<1>5. ASSUME NEW t \in Stations PROVE Halves(t)' \subseteq Halves(t)
  <2>1. Stored(Node(t)') = Stored(Node(t)) BY <1>4
  <2>2. Halves(t)' = {inbox'[t][i] : i \in {i \in DOMAIN inbox'[t] : IsHalf(inbox'[t][i])}}
                     \cup Stored(Node(t)')
    BY DEF Halves
  <2> QED BY <1>3, <2>1, <2>2 DEF Halves
<1>6. ASSUME NEW t \in Stations PROVE HalvesOK(t)'
  <2>1. ASSUME NEW x \in Halves(t)'
        PROVE x.ident \in Nat /\ x.ident < Node(Carrier(case, t, x.sip))'.ident
    <3>1. x \in Halves(t) BY <1>5
    <3>2. PICK u \in Stations : u = Carrier(case, t, x.sip)
      BY CarrierOf DEF Stations, Names
    <3>3. x.ident \in Nat /\ x.ident < Node(u).ident BY <3>1, <3>2 DEF SumInv, HalvesOK
    <3> QED BY <1>1, <1>4, <3>2, <3>3
  <2>2. \A x, y \in Halves(t)' : Alike(x, y) BY <1>5 DEF SumInv, HalvesOK
  <2> QED BY <2>1, <2>2 DEF HalvesOK
<1>7. Stations' = Stations /\ Names' = Names /\ case' = case /\ hosts' = hosts /\ router' = router
  BY <1>1 DEF Stations, Names
<1>8. ASSUME NEW t \in Stations
      PROVE /\ FragsOK(Node(t)') /\ Sent(case, Node(t)', Node(t)'.ident)
            /\ Node(t)'.tx = <<>> /\ Node(t)'.name = t
            /\ \A i \in DOMAIN inbox'[t] : Pure(case, inbox'[t][i])
  BY <1>3, <1>4 DEF SumInv
<1>9. /\ Plain(case) /\ \A t \in Names : HostSums(case, t, hosts[t])
      /\ StoreSums(case, router)
  BY DEF SumInv
<1> QED BY <1>6, <1>7, <1>8, <1>9 DEF SumInv

LEMMA NextSums == NetInv /\ SumInv /\ [Next]_vars => SumInv'
<1> SUFFICES ASSUME NetInv, SumInv, [Next]_vars PROVE SumInv' OBVIOUS
<1>1. CASE RouterLoop BY <1>1, LoopSums
<1>2. ASSUME NEW s \in Stations, Lose(s) PROVE SumInv' BY <1>2, LoseSums
<1>3. ASSUME NEW s \in Names, HostLoop(s) PROVE SumInv' BY <1>3, HostPassSums DEF HostLoop
<1>4. ASSUME NEW s \in Names, Expire(s) PROVE SumInv' BY <1>4, HostPassSums DEF Expire
<1>5. CASE UNCHANGED vars
  BY <1>5 DEF vars, SumInv, Names, Stations, Node, HalvesOK, Halves
<1> QED BY <1>1, <1>2, <1>3, <1>4, <1>5 DEF Next

(* The users' part stays as it is.                                          *)
SumsInv == Plain(case) => SumInv

LEMMA NextSumsInv == NetInv /\ SumsInv /\ [Next]_vars => SumsInv'
<1> SUFFICES ASSUME NetInv, SumsInv, [Next]_vars, Plain(case)' PROVE SumInv' BY DEF SumsInv
<1>1. case' = case
  BY DEF Next, vars, RouterLoop, Lose, HostLoop, Expire
<1>2. Plain(case) BY <1>1
<1> QED BY <1>2, NextSums DEF SumsInv

LEMMA InvSums == SumsInv => SumsAgree
  BY DEF SumsInv, SumInv, HostSums, SumsAgree

-----------------------------------------------------------------------------
(* No host is asked to talk to the router by its address on the line.       *)
Users == \A c \in Cases : \A s \in DOMAIN c.hosts : c.hosts[s].remip # "rS"

(* A datagram reaches only the station that has the address in it, whatever *)
(* the cache of the router has forgotten, whatever waited for an answer and *)
(* whoever has asked for whom (ROUTER.C do_receive, do_arp).                *)
THEOREM ForThisStation == Users => (Spec => []RightStation)
<1>1. Users => \A c \in Cases : Setup(c) BY DEF Users, Setup
<1>2. Users /\ Spec => []NetInv BY <1>1, InitNet, NextNet, PTL DEF Spec
<1> QED BY <1>2, InvRight, PTL

(* As long as no frame is lost, the request for the address of every host   *)
(* for which a datagram waits, or the answer to it, is under way: the       *)
(* answer leaves no datagram behind that nobody will fetch, wherever in the *)
(* store it waits and whatever has been overwritten there (ROUTER.C         *)
(* do_receive, do_arp).                                                     *)
THEOREM AskedFor == Users => (Spec => []WaitingIsAsked)
<1>1. Users => \A c \in Cases : Setup(c) BY DEF Users, Setup
<1>2. Users /\ Spec => []NetInv BY <1>1, InitNet, NextNet, PTL DEF Spec
<1>3. Users /\ Spec => []WaitInv BY <1>2, InitWait, NextWait, PTL DEF Spec
<1> QED BY <1>2, <1>3, InvWaiting, PTL

(* Whatever is lost, cached, overwritten or early, and whatever the timers  *)
(* do: what a host takes as a datagram has the sum its sender gave it.      *)
(* Halves of different datagrams are never put together (ip.c defrag_ip, in *)
(* the router as in the hosts), an echo is summed over all of it (is_icmp,  *)
(* udp_receive), and what has waited in the router goes on as it came       *)
(* (ROUTER.C do_receive, do_arp).  It is said of plain cases; that none of  *)
(* their datagrams is ever cut into more than two fragments, which make_ip  *)
(* would get wrong, is part of what is proved: the pings too, because a     *)
(* PING keeps to twice the MTU of its own network and gets an answer to its *)
(* ARP request only from a station there.  Idents do not come round again.  *)
THEOREM RightSums == Users => (Spec => []SumsAgree)
<1>1. Users => \A c \in Cases : Setup(c) BY DEF Users, Setup
<1>2. Users /\ Spec => []NetInv BY <1>1, InitNet, NextNet, PTL DEF Spec
<1>3. NetInv /\ Init => SumsInv BY InitSums DEF SumsInv
<1>4. Users /\ Spec => []SumsInv BY <1>2, <1>3, NextSumsInv, PTL DEF Spec
<1> QED BY <1>4, InvSums, PTL
=============================================================================
