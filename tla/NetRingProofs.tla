--------------------------- MODULE NetRingProofs ----------------------------
(* Of NetRing: the driver of an NE2000 keeps its place in the card's ring   *)
(* of pages (CardInStep), what the program is given of cards, or of packet  *)
(* drivers, is a whole frame (FramesAreWhole), and frames come and go out   *)
(* in the order in which they arrived (InOrder).                            *)
(*                                                                          *)
(* The first is about one card and depends on nothing else: positions are   *)
(* measured as pages ahead of the place of the driver (Ahead), where frames *)
(* lie in order up to the place of the card and the boundary behind that    *)
(* (NicRing).  The second is about the receive ring: an element of index 0  *)
(* is a header and is followed by its frame (Laid), unless a poll still     *)
(* holds that; and the devices hold frames whole (NetWhole).  It rests on   *)
(* the types of devices, program and ring (RingInv).  The third numbers     *)
(* what is on the way: frames of a net that the program has got, that are   *)
(* in the receive ring, that a poll holds and that the device has stored    *)
(* come in this order (RxOrder), and so do those sent, with the device to   *)
(* be sent, and in the transmit ring (TxOrder).                             *)
EXTENDS NetRing, ProofFacts

(* No net is a serial line, which may lose characters; and the nets have    *)
(* handles of their own.                                                    *)
NoSerial == \A w \in Nets : Kind(w) # "slip"
Apart == setup.handle[0] # setup.handle[1]

Values == {"hdr"} \cup UNION {UNION {ToSet(f) : f \in ToSet(x[1].bytes[x[2]])} :
                                x \in Setups \X Nets}
Unit == Values \X Nets \X Nat \X Nat
Content == Seq(Unit)

-----------------------------------------------------------------------------
(* The ring of pages of an NE2000.  How far a page is after the one the     *)
(* driver reads next tells all that matters of where it is.                 *)

Pages == 0 .. NicPages - 1
Ahead(a, p) == (p - a) % NicPages
Starts(card) == {p \in Pages : card.ram[p] # <<>>}

NicOK(card) ==
    card \in [curr: Pages, next: Pages, bnry: Pages, ram: [Pages -> Content],
              overrun: BOOLEAN, tx: {card.tx}]

(* Frames do not overlap, each is followed by the next or by the card's     *)
(* place, and the boundary is not before that place.                        *)
NicRing(card) ==
    /\ card.next # card.curr => card.next \in Starts(card)
    /\ Ahead(card.next, card.curr) <= Ahead(card.next, card.bnry)
    /\ \A p \in Starts(card) :
          /\ Ahead(card.next, p) + Len(card.ram[p]) <= Ahead(card.next, card.curr)
          /\ nicwrap(p + Len(card.ram[p])) \in Starts(card) \cup {card.curr}
    /\ \A p, q \in Starts(card) :
          Ahead(card.next, p) < Ahead(card.next, q)
          => Ahead(card.next, p) + Len(card.ram[p]) <= Ahead(card.next, q)

LEMMA PagesAre == NicPages \in Nat \ {0} /\ NicPages >= 3
  BY NetAssumption

LEMMA Wrapped ==
  ASSUME NEW page \in Int
  PROVE  nicwrap(page) = page % NicPages /\ nicwrap(page) \in Pages
<1>1. PICK q \in Int : NicPages * q = NicPages
  <2>1. NicPages * 1 = NicPages /\ 1 \in Int BY PagesAre
  <2> QED BY <2>1
<1>2. (page + NicPages) % NicPages = page % NicPages
  <2>1. (page + NicPages * q) % NicPages = page % NicPages BY PagesAre, ModAddMultiple
  <2> QED BY <1>1, <2>1, Zenon
<1>3. page % NicPages \in Pages BY PagesAre, DivMod DEF Pages
<1> QED BY <1>1, <1>2, <1>3 DEF nicwrap

LEMMA AheadType ==
  ASSUME NEW a \in Pages, NEW p \in Pages PROVE Ahead(a, p) \in Pages
<1>1. p - a \in Int BY PagesAre DEF Pages
<1> QED BY <1>1, PagesAre, DivMod DEF Pages, Ahead

LEMMA AheadSelf ==
  ASSUME NEW a \in Pages PROVE Ahead(a, a) = 0
<1>1. a - a = 0 /\ 0 \in 0 .. NicPages - 1 BY PagesAre DEF Pages
<1> QED BY <1>1, PagesAre, ModSmall DEF Ahead

LEMMA AheadSame ==
  ASSUME NEW a \in Pages, NEW p \in Pages, NEW q \in Pages, Ahead(a, p) = Ahead(a, q)
  PROVE  p = q
<1>1. a \in Int /\ p \in Int /\ q \in Int /\ p - a \in Int /\ q - a \in Int
  BY PagesAre DEF Pages
<1>2. (Ahead(a, p) + a) % NicPages = ((p - a) + a) % NicPages
  BY <1>1, PagesAre, ModAdd DEF Ahead
<1>3. (Ahead(a, q) + a) % NicPages = ((q - a) + a) % NicPages
  BY <1>1, PagesAre, ModAdd DEF Ahead
<1>4. (p - a) + a = p /\ (q - a) + a = q BY <1>1
<1>5. p % NicPages = p /\ q % NicPages = q BY PagesAre, ModSmall DEF Pages
<1> QED BY <1>2, <1>3, <1>4, <1>5

(* Some pages further on.                                                   *)
LEMMA AheadStep ==
  ASSUME NEW a \in Pages, NEW p \in Pages, NEW n \in Nat, Ahead(a, p) + n <= NicPages - 1
  PROVE  nicwrap(p + n) \in Pages /\ Ahead(a, nicwrap(p + n)) = Ahead(a, p) + n
<1>1. a \in Int /\ p \in Int /\ n \in Int /\ p + n \in Int BY PagesAre DEF Pages
<1>2. Ahead(a, p) \in Pages BY AheadType
<1>3. ((p - a) % NicPages) + n \in 0 .. NicPages - 1
  BY <1>1, <1>2, PagesAre DEF Pages, Ahead
<1>4. (((p + n) % NicPages) - a) % NicPages = ((p - a) % NicPages) + n
  BY <1>1, <1>3, PagesAre, ShiftAhead
<1>5. nicwrap(p + n) = (p + n) % NicPages /\ nicwrap(p + n) \in Pages BY <1>1, Wrapped
<1> QED BY <1>4, <1>5 DEF Ahead

(* Seen from some pages further on.                                         *)
LEMMA AheadShift ==
  ASSUME NEW a \in Pages, NEW p \in Pages, NEW n \in Nat, n <= Ahead(a, p)
  PROVE  nicwrap(a + n) \in Pages /\ Ahead(nicwrap(a + n), p) = Ahead(a, p) - n
<1>1. a \in Int /\ p \in Int /\ n \in Int /\ a + n \in Int BY PagesAre DEF Pages
<1>2. Ahead(a, p) \in Pages BY AheadType
<1>3. ((p - a) % NicPages) - n \in 0 .. NicPages - 1
  BY <1>1, <1>2, PagesAre DEF Pages, Ahead
<1>6. a \in Int /\ p \in Int /\ n \in Int /\ NicPages \in Nat \ {0} BY <1>1, PagesAre
<1>4. (p - ((a + n) % NicPages)) % NicPages = ((p - a) % NicPages) - n
  BY <1>3, <1>6, ShiftBehind, Zenon
<1>5. nicwrap(a + n) = (a + n) % NicPages /\ nicwrap(a + n) \in Pages BY <1>1, Wrapped
<1> QED BY <1>4, <1>5 DEF Ahead

(* The page before is the last one ahead.                                   *)
LEMMA AheadBefore ==
  ASSUME NEW a \in Pages
  PROVE  nicwrap(a - 1) \in Pages /\ Ahead(a, nicwrap(a - 1)) = NicPages - 1
<1>1. a \in Int /\ a - 1 \in Int BY PagesAre DEF Pages
<1>2. nicwrap(a - 1) = (a - 1) % NicPages /\ nicwrap(a - 1) \in Pages BY <1>1, Wrapped
<1>3. (((a - 1) % NicPages) + (-a)) % NicPages = ((a - 1) + (-a)) % NicPages
  <2>1. NicPages \in Nat \ {0} /\ -a \in Int BY <1>1, PagesAre
  <2> QED BY <1>1, <2>1, ModAdd, Zenon
<1>4. (a - 1) + (-a) = -1 /\ ((a - 1) % NicPages) + (-a) = ((a - 1) % NicPages) - a
  BY <1>1, <1>2, PagesAre DEF Pages
<1>5. NicPages * (-1) + (NicPages - 1) = -1 BY PagesAre
<1>6. (-1) % NicPages = NicPages - 1
  BY <1>5, PagesAre, ModUnique
<1> QED BY <1>2, <1>3, <1>4, <1>6 DEF Ahead

LEMMA RamType ==
  ASSUME NEW card, NicOK(card), NEW p \in Pages
  PROVE  /\ card.ram[p] \in Content /\ Len(card.ram[p]) \in Nat
         /\ card.ram[p] # <<>> => Len(card.ram[p]) >= 1
<1>1. card.ram[p] \in Content BY DEF NicOK
<1> QED BY <1>1 DEF Content

LEMMA ResetRing ==
  ASSUME NEW card PROVE NicOK(resetnic(card)) /\ NicRing(resetnic(card))
<1> DEFINE c == resetnic(card)
<1>1. /\ c.curr = 1 /\ c.next = 1 /\ c.bnry = NicPages - 1 /\ c.overrun = FALSE
      /\ c.ram = [p \in Pages |-> <<>>]
  BY DEF resetnic, NicReset, Pages
<1>2. 1 \in Pages /\ NicPages - 1 \in Pages BY PagesAre DEF Pages
<1>3. c \in [curr: {1}, next: {1}, bnry: {NicPages - 1}, ram: {[p \in Pages |-> <<>>]},
             overrun: {FALSE}, tx: {c.tx}]
  BY <1>1 DEF resetnic, NicReset
<1>4. <<>> \in Content BY DEF Content
<1>5. [p \in Pages |-> <<>>] \in [Pages -> Content] BY <1>4
<1> HIDE DEF c
<1>6. NicOK(c) BY <1>2, <1>3, <1>5 DEF NicOK
<1>7. Starts(c) = {} BY <1>1 DEF Starts
<1>8. Ahead(1, 1) = 0 /\ Ahead(1, NicPages - 1) \in Pages BY <1>2, AheadSelf, AheadType
<1>9. Ahead(1, NicPages - 1) >= 0 BY <1>8, PagesAre DEF Pages
<1>10. NicRing(c) BY <1>1, <1>7, <1>8, <1>9 DEF NicRing
<1> QED BY <1>6, <1>10 DEF c

LEMMA GetRing ==
  ASSUME NEW card, NicOK(card), NicRing(card), card.curr # card.next,
         NEW data, data = card.ram[card.next],
         NEW after, after = nicwrap(card.next + Len(data)),
         NEW got1, got1 = [card EXCEPT !.next = after, !.bnry = nicwrap(after - 1),
                                       !.ram[card.next] = <<>>]
  PROVE  NicOK(got1) /\ NicRing(got1)
<1> DEFINE a == card.next
           n == Len(data)
           L(p) == Len(card.ram[p])
<1>1. /\ card.curr \in Pages /\ a \in Pages /\ card.bnry \in Pages
      /\ card.ram \in [Pages -> Content]
  BY DEF NicOK
<1>2. \A p \in Pages : L(p) \in Nat /\ (card.ram[p] # <<>> => L(p) >= 1)
  BY RamType
<1>3. a \in Starts(card) /\ n \in Nat /\ n >= 1 BY <1>1, <1>2 DEF NicRing, Starts
<1>4. Ahead(a, a) = 0 /\ n <= Ahead(a, card.curr) BY <1>1, <1>3, AheadSelf DEF NicRing
<1>5. after \in Pages /\ nicwrap(after - 1) \in Pages
      /\ Ahead(after, nicwrap(after - 1)) = NicPages - 1
  BY <1>1, <1>3, <1>4, AheadShift, AheadBefore
<1>6. NicOK(got1)
  <2>1. <<>> \in Content BY DEF Content
  <2> QED BY <1>1, <1>5, <2>1 DEF NicOK
<1>7. /\ got1.next = after /\ got1.bnry = nicwrap(after - 1) /\ got1.curr = card.curr
      /\ \A p \in Pages : got1.ram[p] = IF p = a THEN <<>> ELSE card.ram[p]
  BY <1>1 DEF NicOK
<1>8. Starts(got1) = Starts(card) \ {a}
  <2>1. \A p \in Pages : got1.ram[p] # <<>> <=> p # a /\ card.ram[p] # <<>> BY <1>7
  <2> QED BY <2>1 DEF Starts
<1>9. \A p \in Starts(got1) : /\ p \in Starts(card) /\ p \in Pages /\ got1.ram[p] = card.ram[p]
                               /\ n <= Ahead(a, p) /\ Ahead(after, p) = Ahead(a, p) - n
                               /\ Ahead(a, p) \in Nat
  <2> SUFFICES ASSUME NEW p \in Starts(got1)
               PROVE  /\ p \in Starts(card) /\ p \in Pages /\ got1.ram[p] = card.ram[p]
                      /\ n <= Ahead(a, p) /\ Ahead(after, p) = Ahead(a, p) - n
                      /\ Ahead(a, p) \in Nat
    OBVIOUS
  <2>1. p \in Starts(card) /\ p \in Pages /\ p # a BY <1>8 DEF Starts
  <2>2. Ahead(a, p) \in Pages /\ Ahead(a, p) # Ahead(a, a) BY <1>1, <2>1, AheadType, AheadSame
  <2>3. Ahead(a, a) < Ahead(a, p) BY <1>4, <2>2, PagesAre DEF Pages
  <2>4. n <= Ahead(a, p) BY <1>3, <1>4, <2>1, <2>3 DEF NicRing
  <2>5. Ahead(after, p) = Ahead(a, p) - n BY <1>1, <1>3, <2>1, <2>4, AheadShift
  <2> QED BY <1>7, <2>1, <2>2, <2>4, <2>5 DEF Pages
<1>10. Ahead(after, card.curr) = Ahead(a, card.curr) - n /\ Ahead(a, card.curr) \in Pages
  BY <1>1, <1>3, <1>4, AheadShift, AheadType
<1> HIDE DEF a, n, L
<1>11. after # card.curr => after \in Starts(got1)
  <2>1. after \in Starts(card) \cup {card.curr} BY <1>3 DEF NicRing, a, n
  <2>2. Ahead(a, after) = n
    <3>1. Ahead(a, a) + n <= NicPages - 1 BY <1>3, <1>4, <1>10, PagesAre DEF Pages
    <3>2. Ahead(a, nicwrap(a + n)) = Ahead(a, a) + n BY <1>1, <1>3, <3>1, AheadStep
    <3> QED BY <1>3, <1>4, <3>2 DEF a, n
  <2>3. after # a BY <1>3, <1>4, <2>2
  <2> QED BY <1>8, <2>1, <2>3
<1>12. Ahead(after, card.curr) <= Ahead(after, got1.bnry)
  BY <1>3, <1>5, <1>7, <1>10, PagesAre DEF Pages
<1>13. ASSUME NEW p \in Starts(got1)
       PROVE  /\ Ahead(after, p) + Len(got1.ram[p]) <= Ahead(after, got1.curr)
              /\ nicwrap(p + Len(got1.ram[p])) \in Starts(got1) \cup {got1.curr}
  <2>1. /\ Ahead(a, p) + L(p) <= Ahead(a, card.curr)
        /\ nicwrap(p + L(p)) \in Starts(card) \cup {card.curr}
    BY <1>9 DEF NicRing, a, L
  <2>2. Len(got1.ram[p]) = L(p) /\ L(p) \in Nat /\ L(p) >= 1
    BY <1>2, <1>9 DEF L, Starts
  <2>3. Ahead(after, p) + L(p) <= Ahead(after, card.curr)
    BY <1>3, <1>9, <1>10, <2>1, <2>2, PagesAre DEF Pages
  <2>4. nicwrap(p + L(p)) # a
    <3>1. Ahead(a, p) + L(p) <= NicPages - 1
      BY <1>9, <1>10, <2>1, <2>2, PagesAre DEF Pages
    <3>2. Ahead(a, nicwrap(p + L(p))) = Ahead(a, p) + L(p)
      BY <1>1, <1>9, <2>2, <3>1, AheadStep
    <3> QED BY <1>4, <1>9, <2>2, <3>2
  <2> QED BY <1>7, <1>8, <2>1, <2>2, <2>3, <2>4
<1>14. ASSUME NEW p \in Starts(got1), NEW q \in Starts(got1), Ahead(after, p) < Ahead(after, q)
       PROVE  Ahead(after, p) + Len(got1.ram[p]) <= Ahead(after, q)
  <2>1. Ahead(a, p) < Ahead(a, q) BY <1>3, <1>9, <1>14
  <2>2. Ahead(a, p) + L(p) <= Ahead(a, q) BY <1>9, <2>1 DEF NicRing, a, L
  <2>3. Len(got1.ram[p]) = L(p) /\ L(p) \in Nat BY <1>2, <1>9 DEF L
  <2> QED BY <1>3, <1>9, <2>2, <2>3
<1> QED BY <1>6, <1>7, <1>11, <1>12, <1>13, <1>14 DEF NicRing

LEMMA ArriveRing ==
  ASSUME NEW card, NicOK(card), NicRing(card), NEW data \in Content,
         card.bnry \notin {nicwrap(card.curr + i) : i \in 0 .. Len(data) - 1},
         NEW c, c = [card EXCEPT !.ram[card.curr] = data,
                                 !.curr = nicwrap(@ + Len(data))]
  PROVE  NicOK(c) /\ NicRing(c)
<1> DEFINE a == card.next
           n == Len(data)
           L(p) == Len(card.ram[p])
           to == nicwrap(card.curr + n)
<1>1. /\ card.curr \in Pages /\ a \in Pages /\ card.bnry \in Pages
      /\ card.ram \in [Pages -> Content] /\ n \in Nat
  BY DEF NicOK, Content
<1>2. \A p \in Pages : L(p) \in Nat /\ (card.ram[p] # <<>> => L(p) >= 1)
  BY RamType
<1>3. \A p \in Pages : Ahead(a, p) \in Pages BY <1>1, AheadType
<1>4. Ahead(a, card.curr) <= Ahead(a, card.bnry) BY DEF NicRing
<1> HIDE DEF a, n, L, to
<1>5. Ahead(a, card.curr) + n <= Ahead(a, card.bnry)
  <2> SUFFICES ASSUME Ahead(a, card.curr) + n > Ahead(a, card.bnry) PROVE FALSE
    BY <1>1, <1>3, PagesAre DEF Pages
  <2>1. PICK i \in 0 .. n - 1 : Ahead(a, card.curr) + i = Ahead(a, card.bnry)
    <3>1. Ahead(a, card.bnry) - Ahead(a, card.curr) \in 0 .. n - 1
      BY <1>1, <1>3, <1>4, PagesAre DEF Pages
    <3> QED BY <1>1, <1>3, <3>1, PagesAre DEF Pages
  <2>2. i \in Nat /\ Ahead(a, card.curr) + i <= NicPages - 1
    BY <1>1, <1>3, <2>1, PagesAre DEF Pages
  <2>3. nicwrap(card.curr + i) \in Pages
        /\ Ahead(a, nicwrap(card.curr + i)) = Ahead(a, card.bnry)
    BY <1>1, <2>1, <2>2, AheadStep
  <2>4. nicwrap(card.curr + i) = card.bnry BY <1>1, <2>3, AheadSame
  <2> QED BY <2>1, <2>4 DEF n
<1>6. to \in Pages /\ Ahead(a, to) = Ahead(a, card.curr) + n
  <2>1. Ahead(a, card.curr) + n <= NicPages - 1 BY <1>1, <1>3, <1>5, PagesAre DEF Pages
  <2> QED BY <1>1, <2>1, AheadStep DEF to
<1>7. NicOK(c) BY <1>1, <1>6 DEF NicOK, to, n
<1>8. /\ c.next = a /\ c.bnry = card.bnry /\ c.curr = to
      /\ \A p \in Pages : c.ram[p] = IF p = card.curr THEN data ELSE card.ram[p]
  BY <1>1 DEF NicOK, a, to, n
<1>9. card.curr \notin Starts(card)
  <2> SUFFICES ASSUME card.curr \in Starts(card) PROVE FALSE OBVIOUS
  <2>1. Ahead(a, card.curr) + L(card.curr) <= Ahead(a, card.curr) BY DEF NicRing, a, L
  <2>2. L(card.curr) >= 1 /\ L(card.curr) \in Nat BY <1>1, <1>2 DEF Starts
  <2> QED BY <1>1, <1>3, <2>1, <2>2, PagesAre DEF Pages
<1>10. n = 0 <=> data = <<>> BY DEF n, Content
<1>11. Starts(c) = Starts(card) \cup (IF n = 0 THEN {} ELSE {card.curr})
  <2>1. ASSUME NEW p \in Pages
        PROVE  p \in Starts(c) <=> p \in Starts(card) \/ (p = card.curr /\ n # 0)
    <3>1. CASE p = card.curr
      <4>1. c.ram[p] = data BY <1>8, <3>1
      <4> QED BY <1>9, <1>10, <3>1, <4>1 DEF Starts
    <3>2. CASE p # card.curr BY <1>8, <3>2 DEF Starts
    <3> QED BY <3>1, <3>2
  <2>2. Starts(c) \subseteq Pages /\ Starts(card) \subseteq Pages BY DEF Starts
  <2>3. CASE n = 0 BY <2>1, <2>2, <2>3
  <2>4. CASE n # 0 BY <1>1, <2>1, <2>2, <2>4
  <2> QED BY <2>3, <2>4
<1>12. n = 0 => to = card.curr
  BY <1>1, <1>3, <1>6, AheadSame, PagesAre DEF Pages
<1>13. \A p \in Starts(card) :
          /\ p \in Pages /\ p # card.curr /\ Len(c.ram[p]) = L(p) /\ L(p) \in Nat /\ L(p) >= 1
          /\ Ahead(a, p) + L(p) <= Ahead(a, card.curr)
          /\ nicwrap(p + L(p)) \in Starts(card) \cup {card.curr}
  BY <1>2, <1>8, <1>9 DEF Starts, NicRing, a, L
<1>14. a # to => a \in Starts(c)
  <2>1. a # card.curr => a \in Starts(card) BY DEF NicRing, a
  <2> QED BY <1>11, <1>12, <2>1
<1>15. Ahead(a, to) <= Ahead(a, card.bnry) BY <1>5, <1>6
<1>16. n # 0 => Len(c.ram[card.curr]) = n BY <1>1, <1>8 DEF n
<1>17. ASSUME NEW p \in Starts(c)
       PROVE  /\ Ahead(a, p) + Len(c.ram[p]) <= Ahead(a, to)
              /\ nicwrap(p + Len(c.ram[p])) \in Starts(c) \cup {to}
  <2>1. CASE p \in Starts(card)
    <3>1. Ahead(a, p) + L(p) <= Ahead(a, card.curr) + n
      BY <1>1, <1>3, <1>13, <2>1, PagesAre DEF Pages
    <3>2. nicwrap(p + L(p)) \in Starts(c) \cup {to} BY <1>11, <1>12, <1>13, <2>1
    <3> QED BY <1>6, <1>13, <2>1, <3>1, <3>2
  <2>2. CASE p = card.curr /\ n # 0
    BY <1>1, <1>3, <1>6, <1>16, <2>2, PagesAre DEF Pages, to
  <2> QED BY <1>11, <2>1, <2>2
<1>18. ASSUME NEW p \in Starts(c), NEW q \in Starts(c), Ahead(a, p) < Ahead(a, q)
       PROVE  Ahead(a, p) + Len(c.ram[p]) <= Ahead(a, q)
  <2>1. CASE p \in Starts(card) /\ q \in Starts(card)
    <3>1. Ahead(a, p) + L(p) <= Ahead(a, q) BY <1>18, <2>1 DEF NicRing, a, L
    <3> QED BY <1>13, <2>1, <3>1
  <2>2. CASE p \in Starts(card) /\ q = card.curr BY <1>13, <2>2
  <2>3. CASE p = card.curr /\ q \in Starts(card)
    BY <1>1, <1>3, <1>13, <1>18, <2>3, PagesAre DEF Pages
  <2>4. CASE p = card.curr /\ q = card.curr
    BY <1>1, <1>3, <1>18, <2>4, PagesAre DEF Pages
  <2> QED BY <1>11, <2>1, <2>2, <2>3, <2>4
<1> QED BY <1>7, <1>8, <1>14, <1>15, <1>17, <1>18 DEF NicRing

(* The invariant says what NicInStep says of a card.                        *)
LEMMA RingInStep ==
  ASSUME NEW card, NicOK(card), NicRing(card)
  PROVE  /\ card.next # card.curr <=> card.next \in Starts(card)
         /\ \A p \in Starts(card) :
               /\ nicwrap(p + Len(card.ram[p])) \in Starts(card) \cup {card.curr}
               /\ card.bnry \notin {nicwrap(p + i) : i \in 0 .. Len(card.ram[p]) - 1}
<1> DEFINE a == card.next
           L(p) == Len(card.ram[p])
<1>1. card.curr \in Pages /\ a \in Pages /\ card.bnry \in Pages BY DEF NicOK
<1>2. \A p \in Pages : L(p) \in Nat /\ (card.ram[p] # <<>> => L(p) >= 1)
  BY RamType
<1>3. \A p \in Pages : Ahead(a, p) \in Pages BY <1>1, AheadType
<1> HIDE DEF a, L
<1>4. ASSUME NEW p \in Starts(card)
      PROVE  /\ p # card.curr
             /\ card.bnry \notin {nicwrap(p + i) : i \in 0 .. L(p) - 1}
  <2>1. p \in Pages /\ L(p) \in Nat /\ L(p) >= 1 BY <1>2 DEF Starts
  <2>2. Ahead(a, p) + L(p) <= Ahead(a, card.curr) BY DEF NicRing, a, L
  <2>3. p # card.curr BY <1>3, <2>1, <2>2, PagesAre DEF Pages
  <2>4. Ahead(a, card.curr) <= Ahead(a, card.bnry) BY DEF NicRing, a
  <2>5. ASSUME NEW i \in 0 .. L(p) - 1 PROVE nicwrap(p + i) # card.bnry
    <3>1. i \in Nat /\ Ahead(a, p) + i < Ahead(a, card.bnry) /\ Ahead(a, p) + i <= NicPages - 1
      BY <1>1, <1>3, <2>1, <2>2, <2>4, PagesAre DEF Pages
    <3>2. Ahead(a, nicwrap(p + i)) = Ahead(a, p) + i BY <1>1, <2>1, <3>1, AheadStep
    <3> QED BY <1>1, <1>3, <2>1, <3>1, <3>2, PagesAre DEF Pages
  <2> QED BY <2>3, <2>5
<1> QED BY <1>4 DEF NicRing, a, L

-----------------------------------------------------------------------------
(* The invariants.                                                          *)

Places == {"receive", "body", "upcall", "rx", "txstat", "tx"}

FifoOK(card) ==
    card \in [rx: Seq([data: Content, ok: BOOLEAN]), tx: {card.tx}, txerr: BOOLEAN]
PktdOK(card) == card \in [rxlen: Nat, copying: BOOLEAN]

NetOK(w, card) ==
    /\ Kind(w) \in {"ne", "3c", "pktd"}
    /\ Kind(w) = "ne" => NicOK(card) /\ NicRing(card)
    /\ Kind(w) = "3c" => FifoOK(card)
    /\ Kind(w) = "pktd" => PktdOK(card)
DevOK == dev = [w \in Nets |-> dev[w]] /\ \A w \in Nets : NetOK(w, dev[w])

ProgOK ==
    /\ prog \in [pc: Places, net: Nets, len: Nat, hold: Content]
    /\ prog.pc = "txstat" => Kind(prog.net) = "3c"
    /\ prog.pc = "upcall" => Kind(prog.net) # "pktd"

(* A frame that is being copied is there. *)
ArrivedOK ==
    /\ arrived \in [Nets -> Nat]
    /\ \A w \in Nets : Kind(w) = "pktd" /\ dev[w].copying => arrived[w] < Total(w)

RingInv == setup \in Setups /\ DevOK /\ ProgOK /\ ArrivedOK /\ rxpkts \in Content

(* No packet driver interrupts the poll of a card, which may have stored a  *)
(* header and not yet the frame.                                            *)
Unmixed == (\A w \in Nets : Kind(w) = "pktd") \/ (\A w \in Nets : Kind(w) # "pktd")

(* In the ring, after the place i, the frame of a header with this net and  *)
(* length, and after that the next header.                                  *)
FrameAfter(ring, i, w, len) ==
    /\ i + len <= Len(ring)
    /\ i + len < Len(ring) => ring[i + len + 1][4] = 0
    /\ \E n \in 1 .. Total(w) :
          len = Len(Frame(w, n)) /\ \A j \in 1 .. len : ring[i + j] = Frame(w, n)[j]

(* A header is told from data by its index.  While a poll holds the frame   *)
(* of the last one, that one has nothing after it.                          *)
Laid(ring, waiting) ==
    \A i \in DOMAIN ring :
        ring[i][4] = 0 =>
            /\ ring[i][1] = "hdr"
            /\ FrameAfter(ring, i, ring[i][2], ring[i][3]) \/ (waiting /\ i = Len(ring))

(* The program at p is about to take the next header, or the frame of the   *)
(* one it has taken; a poll holds the frame of the last header.             *)
RingWhole(ring, p) ==
    /\ Laid(ring, p.pc = "upcall")
    /\ p.pc = "body" => FrameAfter(ring, 0, p.net, p.len)
    /\ p.pc # "body" /\ ring # <<>> => ring[1][4] = 0
    /\ p.pc = "upcall" =>
          /\ Whole(p.net, p.hold)
          /\ ring # <<>> /\ ring[Len(ring)] = Header(p.net, p.hold)
          /\ Len(ring) + Len(p.hold) <= BUFFLEN
NetWhole(w, card) ==
    /\ Kind(w) = "ne" => \A p \in Starts(card) : Whole(w, card.ram[p])
    /\ Kind(w) = "3c" => \A i \in DOMAIN card.rx : card.rx[i].ok => Whole(w, card.rx[i].data)
    /\ Kind(w) = "pktd" => (card.copying => card.rxlen = Len(Next_(w)))
GotWhole ==
    /\ got \in Seq([net: Nets, data: Content])
    /\ \A k \in DOMAIN got : Whole(got[k].net, got[k].data)

NetsWhole == \A w \in Nets : NetWhole(w, dev[w])

WholeInv == RingWhole(rxpkts, prog) /\ GotWhole /\ NetsWhole

-----------------------------------------------------------------------------
(* Types.                                                                   *)

LEMMA NetsAre == Nets = {0, 1} /\ \A w \in Nets : Other(w) \in Nets
  BY DEF Nets, Other

LEMMA KindIs ==
  ASSUME setup \in Setups, NEW w \in Nets PROVE Kind(w) \in Kinds
  BY SetupAssumption DEF Kind

(* Whatever arrives is a sequence of units.                                 *)
LEMMA FrameType ==
  ASSUME setup \in Setups, NEW w \in Nets
  PROVE  /\ Total(w) \in Nat
         /\ \A n \in 1 .. Total(w) :
               /\ Frame(w, n) \in Content
               /\ Len(setup.bytes[w][n]) \in Nat /\ Len(Frame(w, n)) = Len(setup.bytes[w][n])
               /\ \A j \in 1 .. Len(Frame(w, n)) : Frame(w, n)[j][4] = j
<1>1. setup.bytes[w] \in Seq(ToSet(setup.bytes[w])) BY SetupAssumption
<1>2. Total(w) \in Nat /\ DOMAIN setup.bytes[w] = 1 .. Total(w) BY <1>1 DEF Total
<1> SUFFICES ASSUME NEW n \in 1 .. Total(w)
             PROVE  /\ Frame(w, n) \in Content
                    /\ Len(setup.bytes[w][n]) \in Nat
                    /\ Len(Frame(w, n)) = Len(setup.bytes[w][n])
                    /\ \A j \in 1 .. Len(Frame(w, n)) : Frame(w, n)[j][4] = j
  BY <1>2
<1> DEFINE b == setup.bytes[w][n]
<1>3. b \in ToSet(setup.bytes[w]) BY <1>2 DEF ToSet
<1>4. b \in Seq(ToSet(b)) BY <1>3, SetupAssumption
<1>5. Len(b) \in Nat /\ DOMAIN b = 1 .. Len(b) BY <1>4
<1>6. \A i \in 1 .. Len(b) : b[i] \in Values
  <2> SUFFICES ASSUME NEW i \in 1 .. Len(b) PROVE b[i] \in Values OBVIOUS
  <2>1. b[i] \in ToSet(b) BY <1>5 DEF ToSet
  <2>2. <<setup, w>> \in Setups \X Nets /\ <<setup, w>>[1].bytes[<<setup, w>>[2]] = setup.bytes[w]
    OBVIOUS
  <2>3. ToSet(b) \in {ToSet(f) : f \in ToSet(setup.bytes[w])} BY <1>3
  <2>4. b[i] \in UNION {ToSet(f) : f \in ToSet(setup.bytes[w])} BY <2>1, <2>3
  <2>5. UNION {ToSet(f) : f \in ToSet(setup.bytes[w])} \in
          {UNION {ToSet(f) : f \in ToSet(x[1].bytes[x[2]])} : x \in Setups \X Nets}
    BY <2>2
  <2> QED BY <2>4, <2>5 DEF Values
<1>7. Frame(w, n) = [i \in 1 .. Len(b) |-> <<b[i], w, n, i>>] BY DEF Frame
<1> HIDE DEF b
<1>8. \A i \in 1 .. Len(b) : <<b[i], w, n, i>> \in Unit
  BY <1>2, <1>5, <1>6 DEF Unit
<1>9. Frame(w, n) \in Content BY <1>5, <1>7, <1>8 DEF Content
<1>10. Len(Frame(w, n)) = Len(b) /\ \A j \in 1 .. Len(b) : Frame(w, n)[j][4] = j
  BY <1>5, <1>7
<1> QED BY <1>5, <1>9, <1>10 DEF b

LEMMA Parts ==
  ASSUME NEW d \in Content, NEW m \in Nat, NEW n \in Nat, n <= Len(d), m >= 1
  PROVE  SubSeq(d, m, n) \in Content
  BY DEF Content

LEMMA BuffInType ==
  ASSUME NEW r \in Content, NEW d \in Content PROVE buff_in(r, d) \in Content
<1>1. BUFFLEN \in Nat BY NetAssumption
<1>2. Len(d) \in Nat /\ Len(r) \in Nat BY DEF Content
<1> DEFINE k == Least(Len(d), Room(r))
<1>3. k \in Int /\ k <= Len(d) BY <1>1, <1>2 DEF Least, Room
<1> HIDE DEF k
<1>4. SubSeq(d, 1, k) \in Content
  <2>1. CASE k >= 1 BY <1>3, <2>1, Parts
  <2>2. CASE k < 1
    <3>1. SubSeq(d, 1, k) = <<>> BY <1>2, <1>3, <2>2 DEF Content
    <3>2. <<>> \in Content BY DEF Content
    <3> QED BY <3>1, <3>2, Zenon
  <2> QED BY <1>3, <2>1, <2>2
<1> QED BY <1>4 DEF buff_in, k, Content

LEMMA HeaderType ==
  ASSUME NEW w \in Nets, NEW d \in Content
  PROVE  Header(w, d) \in Unit /\ <<Header(w, d)>> \in Content
<1>1. Len(d) \in Nat BY DEF Content
<1>2. Header(w, d) \in Unit BY <1>1 DEF Header, Unit, Values
<1> QED BY <1>2 DEF Content

LEMMA HeadTailType ==
  ASSUME NEW S, NEW s \in Seq(S), s # <<>>
  PROVE  /\ Head(s) \in S /\ s[1] \in S /\ Head(s) = s[1] /\ Tail(s) \in Seq(S)
         /\ Len(s) \in Nat \ {0} /\ Len(Tail(s)) = Len(s) - 1
         /\ \A i \in 1 .. Len(s) - 1 : Tail(s)[i] = s[i + 1]
  OBVIOUS

(* One device changes.                                                      *)
LEMMA StepDev ==
  ASSUME DevOK, setup' = setup, NEW w \in Nets, NEW card, NetOK(w, card),
         dev' = [dev EXCEPT ![w] = card]
  PROVE  DevOK' /\ dev'[w] = card /\ \A v \in Nets \ {w} : dev'[v] = dev[v]
<1> DEFINE d == dev'
<1>1. d = [dev EXCEPT ![w] = card] OBVIOUS
<1> HIDE DEF d
<1>5. d = [v \in Nets |-> IF v = w THEN card ELSE dev[v]] BY <1>1 DEF DevOK
<1>2. d = [v \in Nets |-> d[v]] /\ \A v \in Nets : NetOK(v, d[v]) BY <1>5 DEF DevOK
<1>3. d[w] = card /\ \A v \in Nets \ {w} : d[v] = dev[v] BY <1>1 DEF DevOK
<1>4. ASSUME NEW v \in Nets PROVE NetOK(v, dev[v])'
  <2>1. NetOK(v, dev'[v]) BY <1>2 DEF d
  <2> QED BY <2>1 DEF NetOK, Kind
<1> QED BY <1>2, <1>3, <1>4 DEF DevOK, d

-----------------------------------------------------------------------------
(* Each action keeps the types and the rings of pages.                      *)

LEMMA UnitParts ==
  ASSUME NEW u \in Unit PROVE u[2] \in Nets /\ u[3] \in Nat /\ u[4] \in Nat
  BY DEF Unit

LEMMA ProgParts ==
  ASSUME ProgOK
  PROVE  prog.pc \in Places /\ prog.net \in Nets /\ prog.len \in Nat /\ prog.hold \in Content
  BY DEF ProgOK

LEMMA StepProg ==
  ASSUME setup' = setup, NEW q, prog' = q,
         q \in [pc: Places, net: Nets, len: Nat, hold: Content],
         q.pc = "txstat" => Kind(q.net) = "3c", q.pc = "upcall" => Kind(q.net) # "pktd"
  PROVE  ProgOK'
  BY DEF ProgOK, Kind

LEMMA StepPolling ==
  ASSUME ProgOK, setup' = setup, prog' = Polling
  PROVE  ProgOK' /\ prog'.pc = "rx"
<1> DEFINE q == Polling
<1>1. 0 \in Nets /\ "rx" \in Places /\ <<>> \in Content /\ 0 \in Nat
  BY DEF Nets, Places, Content
<1>2. q \in [pc: Places, net: Nets, len: Nat, hold: Content] /\ q.pc = "rx"
  BY <1>1 DEF Polling, ProgOK
<1> HIDE DEF q
<1>3. prog' = q BY DEF q
<1> QED BY <1>2, <1>3, StepProg

LEMMA StepNextNet ==
  ASSUME ProgOK, setup' = setup, prog' = NextNet
  PROVE  ProgOK' /\ prog'.pc \in {"rx", "receive"}
<1> DEFINE q == NextNet
<1>1. 0 \in Nets /\ 1 \in Nets /\ "rx" \in Places /\ "receive" \in Places
  BY DEF Nets, Places
<1>2. q \in [pc: Places, net: Nets, len: Nat, hold: Content] /\ q.pc \in {"rx", "receive"}
  BY <1>1 DEF NextNet, ProgOK
<1> HIDE DEF q
<1>3. prog' = q BY DEF q
<1> QED BY <1>2, <1>3, StepProg

LEMMA SameProg == ASSUME ProgOK, setup' = setup, prog' = prog PROVE ProgOK'
  BY DEF ProgOK, Kind

LEMMA SameDev == ASSUME DevOK, setup' = setup, dev' = dev PROVE DevOK'
  BY DEF DevOK, NetOK, Kind

LEMMA SameArrived ==
  ASSUME ArrivedOK, setup' = setup, arrived' = arrived,
         \A w \in Nets : Kind(w) = "pktd" => dev'[w] = dev[w]
  PROVE  ArrivedOK'
  BY DEF ArrivedOK, Kind, Total

LEMMA StepUpcall ==
  ASSUME ProgOK, prog.pc = "rx", Kind(prog.net) # "pktd", setup' = setup, rxpkts \in Content,
         NEW w \in Nets, NEW data \in Content, Poll_upcall(w, data)
  PROVE  rxpkts' \in Content /\ ProgOK'
<1>1. CASE Fits(rxpkts, data)
  <2> DEFINE q == [prog EXCEPT !.pc = "upcall", !.hold = data]
  <2>1. rxpkts' = buff_in(rxpkts, <<Header(w, data)>>) /\ prog' = q
    BY <1>1 DEF Poll_upcall
  <2>2. rxpkts' \in Content BY <2>1, HeaderType, BuffInType
  <2>3. /\ q \in [pc: Places, net: Nets, len: Nat, hold: Content]
        /\ q.pc = "upcall" /\ q.net = prog.net
    BY DEF ProgOK, Places
  <2> HIDE DEF q
  <2> QED BY <2>1, <2>2, <2>3, StepProg
<1>2. CASE ~Fits(rxpkts, data)
  <2>1. rxpkts' = rxpkts /\ prog' = prog BY <1>2 DEF Poll_upcall
  <2> QED BY <2>1, SameProg
<1> QED BY <1>1, <1>2

LEMMA GetHeaderKeeps == ASSUME RingInv, GetHeader PROVE RingInv'
<1>1. /\ setup \in Setups /\ DevOK /\ ProgOK /\ ArrivedOK /\ rxpkts \in Content
      /\ setup' = setup /\ dev' = dev /\ arrived' = arrived
  BY DEF RingInv, GetHeader
<1>2. DevOK' /\ ArrivedOK' BY <1>1, SameDev, SameArrived
<1>3. CASE rxpkts = <<>>
  BY <1>1, <1>2, <1>3, StepPolling DEF RingInv, GetHeader
<1>4. CASE rxpkts # <<>> /\ rxpkts[1][1] # "hdr"
  <2>1. rxpkts' = <<>> /\ prog' = Polling BY <1>4 DEF GetHeader
  <2>2. <<>> \in Content BY DEF Content
  <2> QED BY <1>1, <1>2, <2>1, <2>2, StepPolling DEF RingInv
<1>5. CASE rxpkts # <<>> /\ rxpkts[1][1] = "hdr"
  <2> DEFINE q == [prog EXCEPT !.pc = "body", !.net = rxpkts[1][2], !.len = rxpkts[1][3]]
  <2>1. rxpkts' = Tail(rxpkts) /\ prog' = q BY <1>5 DEF GetHeader
  <2>2. rxpkts[1] \in Unit /\ Tail(rxpkts) \in Content
    BY <1>1, <1>5, HeadTailType DEF Content
  <2>3. q \in [pc: Places, net: Nets, len: Nat, hold: Content] /\ q.pc = "body"
    BY <1>1, <2>2, UnitParts DEF ProgOK, Places
  <2> HIDE DEF q
  <2>4. ProgOK' BY <1>1, <2>1, <2>3, StepProg
  <2> QED BY <1>1, <1>2, <2>1, <2>2, <2>4 DEF RingInv
<1> QED BY <1>3, <1>4, <1>5

(* What the program does with a frame is none of the receive ring's.        *)
LEMMA GetBodyProg ==
  ASSUME RingInv, GetBody PROVE prog' = Polling
<1>1. prog.net \in Nets BY ProgParts DEF RingInv
<1>2. Other(prog.net) \in Nets BY <1>1, NetsAre
<1>3. Kind(Other(prog.net)) \in {"ne", "3c", "pktd"} BY <1>2 DEF RingInv, DevOK, NetOK
<1>4. ASSUME NEW data, put_net(Other(prog.net), data) PROVE prog' = Polling
  <2>1. CASE Kind(Other(prog.net)) = "pktd" BY <1>4, <2>1 DEF put_net
  <2>2. CASE Kind(Other(prog.net)) \in {"ne", "3c"} BY <1>4, <2>2 DEF put_net
  <2> QED BY <1>3, <2>1, <2>2
<1>5. setup.forward \in BOOLEAN BY SetupAssumption DEF RingInv
<1>6. CASE setup.forward BY <1>4, <1>6 DEF GetBody
<1>7. CASE ~setup.forward BY <1>7 DEF GetBody
<1> QED BY <1>6, <1>7

LEMMA GetBodyKeeps == ASSUME RingInv, GetBody PROVE RingInv'
<1>1. /\ setup \in Setups /\ DevOK /\ ProgOK /\ ArrivedOK /\ rxpkts \in Content
      /\ setup' = setup /\ dev' = dev /\ arrived' = arrived
  BY DEF RingInv, GetBody
<1>2. DevOK' /\ ArrivedOK' BY <1>1, SameDev, SameArrived
<1>3. ProgOK' BY <1>1, GetBodyProg, StepPolling
<1> DEFINE n == Least(prog.len, Len(rxpkts))
<1>4. n \in Nat /\ Len(rxpkts) \in Nat /\ n <= Len(rxpkts)
  BY <1>1, ProgParts DEF Least, Content
<1>5. rxpkts' = SubSeq(rxpkts, n + 1, Len(rxpkts)) BY DEF GetBody
<1> HIDE DEF n
<1>6. SubSeq(rxpkts, n + 1, Len(rxpkts)) \in Content BY <1>1, <1>4, Parts
<1> QED BY <1>1, <1>2, <1>3, <1>5, <1>6 DEF RingInv

LEMMA UpcallBodyKeeps == ASSUME RingInv, UpcallBody PROVE RingInv'
<1>1. /\ setup \in Setups /\ DevOK /\ ProgOK /\ ArrivedOK /\ rxpkts \in Content
      /\ setup' = setup /\ dev' = dev /\ arrived' = arrived
  BY DEF RingInv, UpcallBody
<1>2. DevOK' /\ ArrivedOK' BY <1>1, SameDev, SameArrived
<1> DEFINE q == [prog EXCEPT !.pc = "rx", !.hold = <<>>]
<1>3. prog' = q /\ rxpkts' = buff_in(rxpkts, prog.hold) BY DEF UpcallBody
<1>4. q \in [pc: Places, net: Nets, len: Nat, hold: Content] /\ q.pc = "rx"
  <2>1. <<>> \in Content BY DEF Content
  <2> QED BY <1>1, <2>1 DEF ProgOK, Places
<1> HIDE DEF q
<1>5. ProgOK' BY <1>1, <1>3, <1>4, StepProg
<1>6. rxpkts' \in Content BY <1>1, <1>3, ProgParts, BuffInType
<1> QED BY <1>1, <1>2, <1>5, <1>6 DEF RingInv

LEMMA NoTxChar == ASSUME RingInv, TxChar PROVE FALSE
  BY DEF RingInv, ProgOK, Places, TxChar

LEMMA NoSlip == ASSUME RingInv, NEW w \in Nets PROVE Kind(w) # "slip"
  BY DEF RingInv, DevOK, NetOK

LEMMA StepTx ==
  ASSUME ProgOK, setup' = setup, prog' = [prog EXCEPT !.pc = "tx"]
  PROVE  ProgOK'
<1> DEFINE q == [prog EXCEPT !.pc = "tx"]
<1>1. q \in [pc: Places, net: Nets, len: Nat, hold: Content] /\ q.pc = "tx"
  BY DEF ProgOK, Places
<1> HIDE DEF q
<1>2. prog' = q BY DEF q
<1> QED BY <1>1, <1>2, StepProg

(* What is to be sent, and an overrun, leave the ring of pages alone.       *)
LEMMA NicAside ==
  ASSUME NEW card, NicOK(card), NicRing(card),
         NEW x, NEW c, c = [card EXCEPT !.tx = x] \/ c = [card EXCEPT !.overrun = TRUE]
  PROVE  NicOK(c) /\ NicRing(c)
<1>1. NicOK(c) /\ c.curr = card.curr /\ c.next = card.next /\ c.bnry = card.bnry
      /\ c.ram = card.ram
  BY DEF NicOK
<1>2. Starts(c) = Starts(card) BY <1>1 DEF Starts
<1> QED BY <1>1, <1>2 DEF NicRing

(* One call of a card's driver.                                             *)
LEMMA NicGives ==
  ASSUME NEW card, NicOK(card), NicRing(card), NEW r, r = get_etherne(card)
  PROVE  NicOK(r.card) /\ NicRing(r.card) /\ r.data \in Content
<1>0. <<>> \in Content BY DEF Content
<1>1. CASE card.overrun
  BY <1>0, <1>1, ResetRing DEF get_etherne
<1>2. CASE ~card.overrun /\ card.curr # card.next
  <2> DEFINE data == card.ram[card.next]
             after == nicwrap(card.next + Len(data))
             c == [card EXCEPT !.next = after, !.bnry = nicwrap(after - 1), !.ram[card.next] = <<>>]
  <2>1. r.card = c /\ r.data = data BY <1>2 DEF get_etherne
  <2>2. NicOK(c) /\ NicRing(c)
    <3> HIDE DEF data
    <3>1. data = card.ram[card.next] BY DEF data
    <3> HIDE DEF after
    <3>2. after = nicwrap(card.next + Len(data)) BY DEF after
    <3> HIDE DEF c
    <3>3. c = [card EXCEPT !.next = after, !.bnry = nicwrap(after - 1), !.ram[card.next] = <<>>]
      BY DEF c
    <3> QED BY <1>2, <3>1, <3>2, <3>3, GetRing
  <2>3. data \in Content BY DEF NicOK
  <2> HIDE DEF c, data
  <2> QED BY <2>1, <2>2, <2>3
<1>3. CASE ~card.overrun /\ card.curr = card.next
  BY <1>0, <1>3 DEF get_etherne
<1> QED BY <1>1, <1>2, <1>3

LEMMA PollNeRxKeeps ==
  ASSUME RingInv, NEW w \in Nets, PollNeRx(w) PROVE RingInv'
<1>1. /\ setup \in Setups /\ DevOK /\ ProgOK /\ ArrivedOK /\ rxpkts \in Content
      /\ setup' = setup /\ arrived' = arrived
      /\ prog.pc = "rx" /\ prog.net = w /\ Kind(w) = "ne"
  BY DEF RingInv, PollNeRx
<1> DEFINE r == get_etherne(dev[w])
<1>2. /\ dev' = [dev EXCEPT ![w] = r.card]
      /\ IF r.data # <<>> THEN Poll_upcall(w, r.data)
         ELSE prog' = [prog EXCEPT !.pc = "tx"] /\ rxpkts' = rxpkts
  BY DEF PollNeRx
<1>3. NicOK(dev[w]) /\ NicRing(dev[w]) BY <1>1 DEF DevOK, NetOK
<1>4. NicOK(r.card) /\ NicRing(r.card) /\ r.data \in Content BY <1>3, NicGives
<1> HIDE DEF r
<1>5. NetOK(w, r.card) BY <1>1, <1>4 DEF NetOK
<1>6. DevOK' /\ \A v \in Nets \ {w} : dev'[v] = dev[v] BY <1>1, <1>2, <1>5, StepDev
<1>7. ArrivedOK' BY <1>1, <1>6, SameArrived
<1>8. rxpkts' \in Content /\ ProgOK'
  <2>1. CASE r.data # <<>> BY <1>1, <1>2, <1>4, <2>1, StepUpcall
  <2>2. CASE r.data = <<>> BY <1>1, <1>2, <2>2, StepTx
  <2> QED BY <2>1, <2>2
<1> QED BY <1>1, <1>6, <1>7, <1>8 DEF RingInv

LEMMA PollNeTxKeeps ==
  ASSUME RingInv, NEW w \in Nets, PollNeTx(w) PROVE RingInv'
<1>1. /\ setup \in Setups /\ DevOK /\ ProgOK /\ ArrivedOK /\ rxpkts \in Content
      /\ setup' = setup /\ arrived' = arrived /\ rxpkts' = rxpkts
      /\ prog.pc = "tx" /\ prog.net = w /\ Kind(w) = "ne"
  BY DEF RingInv, PollNeTx
<1> DEFINE up == transmit_upcall(w)
<1>2. \/ dev' = [dev EXCEPT ![w] = put_etherne(@, up.data)] /\ prog' = prog
      \/ prog' = NextNet /\ dev' = dev
  BY DEF PollNeTx
<1> HIDE DEF up
<1>3. CASE dev' = [dev EXCEPT ![w] = put_etherne(@, up.data)] /\ prog' = prog
  <2> DEFINE c == [dev[w] EXCEPT !.tx = up.data]
  <2>1. dev' = [dev EXCEPT ![w] = c] BY <1>3 DEF put_etherne
  <2>2. NicOK(dev[w]) /\ NicRing(dev[w]) BY <1>1 DEF DevOK, NetOK
  <2> HIDE DEF c
  <2>3. c = [dev[w] EXCEPT !.tx = up.data] BY DEF c
  <2>4. NetOK(w, c) BY <1>1, <2>2, <2>3, NicAside DEF NetOK
  <2>5. DevOK' /\ \A v \in Nets \ {w} : dev'[v] = dev[v] BY <1>1, <2>1, <2>4, StepDev
  <2> QED BY <1>1, <1>3, <2>5, SameArrived, SameProg DEF RingInv
<1>4. CASE prog' = NextNet /\ dev' = dev
  BY <1>1, <1>4, SameDev, SameArrived, StepNextNet DEF RingInv
<1> QED BY <1>2, <1>3, <1>4

LEMMA FifoGives ==
  ASSUME NEW card, FifoOK(card), NEW r, r = get_ether3c(card)
  PROVE  FifoOK(r.card) /\ r.data \in Content
<1>0. <<>> \in Content BY DEF Content
<1>1. CASE card.rx = <<>> BY <1>0, <1>1 DEF get_ether3c
<1>2. CASE card.rx # <<>>
  <2>1. card.rx \in Seq([data: Content, ok: BOOLEAN]) BY DEF FifoOK
  <2>2. Head(card.rx) \in [data: Content, ok: BOOLEAN]
        /\ Tail(card.rx) \in Seq([data: Content, ok: BOOLEAN])
    BY <1>2, <2>1, HeadTailType
  <2>3. r.data \in Content BY <1>0, <1>2, <2>2 DEF get_ether3c
  <2>4. r.card = [card EXCEPT !.rx = Tail(@)] BY <1>2 DEF get_ether3c
  <2>5. FifoOK(r.card) BY <2>2, <2>4 DEF FifoOK
  <2> QED BY <2>3, <2>5
<1> QED BY <1>1, <1>2

LEMMA Poll3cRxKeeps ==
  ASSUME RingInv, NEW w \in Nets, Poll3cRx(w) PROVE RingInv'
<1>1. /\ setup \in Setups /\ DevOK /\ ProgOK /\ ArrivedOK /\ rxpkts \in Content
      /\ setup' = setup /\ arrived' = arrived
      /\ prog.pc = "rx" /\ prog.net = w /\ Kind(w) = "3c"
  BY DEF RingInv, Poll3cRx
<1> DEFINE r == get_ether3c(dev[w])
<1>2. /\ dev' = [dev EXCEPT ![w] = r.card]
      /\ IF r.data # <<>> THEN Poll_upcall(w, r.data)
         ELSE prog' = [prog EXCEPT !.pc = "txstat"] /\ rxpkts' = rxpkts
  BY DEF Poll3cRx
<1>3. FifoOK(dev[w]) BY <1>1 DEF DevOK, NetOK
<1>4. FifoOK(r.card) /\ r.data \in Content BY <1>3, FifoGives
<1> HIDE DEF r
<1>5. NetOK(w, r.card) BY <1>1, <1>4 DEF NetOK
<1>6. DevOK' /\ \A v \in Nets \ {w} : dev'[v] = dev[v] BY <1>1, <1>2, <1>5, StepDev
<1>7. ArrivedOK' BY <1>1, <1>6, SameArrived
<1>8. rxpkts' \in Content /\ ProgOK'
  <2>1. CASE r.data # <<>> BY <1>1, <1>2, <1>4, <2>1, StepUpcall
  <2>2. CASE r.data = <<>>
    <3> DEFINE q == [prog EXCEPT !.pc = "txstat"]
    <3>1. prog' = q /\ rxpkts' = rxpkts BY <1>2, <2>2
    <3>2. q \in [pc: Places, net: Nets, len: Nat, hold: Content] /\ q.pc = "txstat" /\ q.net = w
      BY <1>1 DEF ProgOK, Places
    <3> HIDE DEF q
    <3> QED BY <1>1, <3>1, <3>2, StepProg
  <2> QED BY <2>1, <2>2
<1> QED BY <1>1, <1>6, <1>7, <1>8 DEF RingInv

LEMMA Poll3cStatKeeps ==
  ASSUME RingInv, NEW w \in Nets, Poll3cStat(w) PROVE RingInv'
<1>1. /\ setup \in Setups /\ DevOK /\ ProgOK /\ ArrivedOK /\ rxpkts \in Content
      /\ setup' = setup /\ arrived' = arrived /\ rxpkts' = rxpkts
      /\ prog.pc = "txstat" /\ prog.net = w /\ prog' = [prog EXCEPT !.pc = "tx"]
  BY DEF RingInv, Poll3cStat
<1>2. Kind(w) = "3c" BY <1>1 DEF ProgOK
<1>3. ProgOK' BY <1>1, StepTx
<1>4. CASE dev' = [dev EXCEPT ![w].tx = <<>>, ![w].txerr = FALSE]
  <2> DEFINE c == [dev[w] EXCEPT !.tx = <<>>, !.txerr = FALSE]
  <2>1. dev' = [dev EXCEPT ![w] = c] BY <1>4 DEF DevOK
  <2>2. FifoOK(dev[w]) BY <1>1, <1>2 DEF DevOK, NetOK
  <2>3. FifoOK(c) BY <2>2 DEF FifoOK
  <2> HIDE DEF c
  <2>4. NetOK(w, c) BY <1>2, <2>3 DEF NetOK
  <2>5. DevOK' /\ \A v \in Nets \ {w} : dev'[v] = dev[v] BY <1>1, <2>1, <2>4, StepDev
  <2> QED BY <1>1, <1>2, <1>3, <2>5, SameArrived DEF RingInv
<1>5. CASE dev' = dev BY <1>1, <1>3, <1>5, SameDev, SameArrived DEF RingInv
<1> QED BY <1>4, <1>5 DEF Poll3cStat

LEMMA Poll3cTxKeeps ==
  ASSUME RingInv, NEW w \in Nets, Poll3cTx(w) PROVE RingInv'
<1>1. /\ setup \in Setups /\ DevOK /\ ProgOK /\ ArrivedOK /\ rxpkts \in Content
      /\ setup' = setup /\ arrived' = arrived /\ rxpkts' = rxpkts /\ Kind(w) = "3c"
  BY DEF RingInv, Poll3cTx
<1> DEFINE up == transmit_upcall(w)
<1>2. \/ dev' = [dev EXCEPT ![w] = put_ether3c(@, up.data)] /\ prog' = prog
      \/ prog' = NextNet /\ dev' = dev
  BY DEF Poll3cTx
<1> HIDE DEF up
<1>3. CASE dev' = [dev EXCEPT ![w] = put_ether3c(@, up.data)] /\ prog' = prog
  <2> DEFINE c == [dev[w] EXCEPT !.tx = Append(@, up.data)]
  <2>1. dev' = [dev EXCEPT ![w] = c] BY <1>3 DEF put_ether3c
  <2>2. FifoOK(dev[w]) BY <1>1 DEF DevOK, NetOK
  <2>3. FifoOK(c) BY <2>2 DEF FifoOK
  <2> HIDE DEF c
  <2>4. NetOK(w, c) BY <1>1, <2>3 DEF NetOK
  <2>5. DevOK' /\ \A v \in Nets \ {w} : dev'[v] = dev[v] BY <1>1, <2>1, <2>4, StepDev
  <2> QED BY <1>1, <1>3, <2>5, SameArrived, SameProg DEF RingInv
<1>4. CASE prog' = NextNet /\ dev' = dev
  BY <1>1, <1>4, SameDev, SameArrived, StepNextNet DEF RingInv
<1> QED BY <1>2, <1>3, <1>4

LEMMA PollPktdKeeps ==
  ASSUME RingInv, NEW w \in Nets, PollPktd(w) PROVE RingInv'
  BY SameDev, SameArrived, StepNextNet DEF RingInv, PollPktd

LEMMA NextType ==
  ASSUME RingInv, NEW w \in Nets, arrived[w] < Total(w)
  PROVE  /\ Next_(w) \in Content /\ Len(Next_(w)) \in Nat
         /\ arrived[w] + 1 \in 1 .. Total(w) /\ Whole(w, Next_(w))
<1>1. arrived[w] \in Nat /\ Total(w) \in Nat BY FrameType DEF RingInv, ArrivedOK
<1>2. arrived[w] + 1 \in 1 .. Total(w) BY <1>1
<1>3. Next_(w) \in Content BY <1>2, FrameType DEF RingInv, Next_
<1> QED BY <1>2, <1>3 DEF Content, Whole, Next_

LEMMA StepArrive ==
  ASSUME RingInv, setup' = setup, NEW w \in Nets, Arrive(w), arrived[w] < Total(w),
         \A v \in Nets : Kind(v) = "pktd" /\ dev'[v].copying => v # w /\ dev[v].copying
  PROVE  ArrivedOK'
<1>1. arrived \in [Nets -> Nat] BY DEF RingInv, ArrivedOK
<1>2. arrived' \in [Nets -> Nat] /\ \A v \in Nets \ {w} : arrived'[v] = arrived[v]
  BY <1>1 DEF Arrive
<1> QED BY <1>2 DEF RingInv, ArrivedOK, Kind, Total

LEMMA NicArriveKeeps ==
  ASSUME RingInv, NEW w \in Nets, NicArrive(w) PROVE RingInv'
<1>1. /\ setup \in Setups /\ DevOK /\ ProgOK /\ ArrivedOK /\ rxpkts \in Content
      /\ setup' = setup /\ rxpkts' = rxpkts /\ prog' = prog /\ Kind(w) = "ne"
      /\ arrived[w] < Total(w) /\ Arrive(w)
  BY DEF RingInv, NicArrive, Arriving
<1>2. ProgOK' BY <1>1, SameProg
<1> DEFINE card == dev[w]
           data == Next_(w)
           c1 == [card EXCEPT !.overrun = TRUE]
           c2 == [card EXCEPT !.ram[card.curr] = data, !.curr = nicwrap(@ + Len(data))]
<1>3. NicOK(card) /\ NicRing(card) BY <1>1 DEF DevOK, NetOK
<1>4. data \in Content BY <1>1, NextType
<1>5. \/ dev' = [dev EXCEPT ![w] = c1]
      \/ /\ card.bnry \notin {nicwrap(card.curr + i) : i \in 0 .. Len(data) - 1}
         /\ dev' = [dev EXCEPT ![w] = c2]
  <2>1. CASE card.overrun \/ card.bnry \in {nicwrap(card.curr + i) : i \in 0 .. Len(data) - 1}
    <3>1. dev' = [dev EXCEPT ![w].overrun = TRUE] BY <2>1 DEF NicArrive
    <3> QED BY <3>1
  <2>2. CASE ~(card.overrun \/ card.bnry \in {nicwrap(card.curr + i) : i \in 0 .. Len(data) - 1})
    <3>1. dev' = [dev EXCEPT ![w].ram[dev[w].curr] = Next_(w),
                             ![w].curr = nicwrap(@ + Len(Next_(w)))]
      BY <2>2 DEF NicArrive
    <3> QED BY <1>1, <2>2, <3>1 DEF DevOK
  <2> QED BY <2>1, <2>2
<1> HIDE DEF card, data
<1>6. ASSUME NEW c, NicOK(c), NicRing(c), dev' = [dev EXCEPT ![w] = c]
      PROVE  DevOK' /\ ArrivedOK'
  <2>1. NetOK(w, c) BY <1>1, <1>6 DEF NetOK
  <2>2. DevOK' /\ \A v \in Nets \ {w} : dev'[v] = dev[v] BY <1>1, <1>6, <2>1, StepDev
  <2>3. \A v \in Nets : Kind(v) = "pktd" /\ dev'[v].copying => v # w /\ dev[v].copying
    BY <1>1, <2>2
  <2> QED BY <1>1, <2>2, <2>3, StepArrive
<1>7. CASE dev' = [dev EXCEPT ![w] = c1]
  <2>1. NicOK(c1) /\ NicRing(c1) BY <1>3, NicAside
  <2> HIDE DEF c1
  <2>2. DevOK' /\ ArrivedOK' BY <1>6, <1>7, <2>1
  <2> QED BY <1>1, <1>2, <2>2 DEF RingInv
<1>8. CASE /\ card.bnry \notin {nicwrap(card.curr + i) : i \in 0 .. Len(data) - 1}
           /\ dev' = [dev EXCEPT ![w] = c2]
  <2>1. NicOK(c2) /\ NicRing(c2) BY <1>3, <1>4, <1>8, ArriveRing
  <2> HIDE DEF c2
  <2>2. DevOK' /\ ArrivedOK' BY <1>6, <1>8, <2>1
  <2> QED BY <1>1, <1>2, <2>2 DEF RingInv
<1> QED BY <1>5, <1>7, <1>8

LEMMA NicSentKeeps ==
  ASSUME RingInv, NEW w \in Nets, NicSent(w) PROVE RingInv'
<1>1. /\ setup \in Setups /\ DevOK /\ ProgOK /\ ArrivedOK /\ rxpkts \in Content
      /\ setup' = setup /\ arrived' = arrived /\ rxpkts' = rxpkts /\ prog' = prog
      /\ Kind(w) = "ne" /\ dev' = [dev EXCEPT ![w].tx = <<>>]
  BY DEF RingInv, NicSent
<1> DEFINE c == [dev[w] EXCEPT !.tx = <<>>]
<1>2. dev' = [dev EXCEPT ![w] = c] BY <1>1
<1>3. NicOK(dev[w]) /\ NicRing(dev[w]) BY <1>1 DEF DevOK, NetOK
<1> HIDE DEF c
<1>4. c = [dev[w] EXCEPT !.tx = <<>>] BY DEF c
<1>5. NetOK(w, c) BY <1>1, <1>3, <1>4, NicAside DEF NetOK
<1>6. DevOK' /\ \A v \in Nets \ {w} : dev'[v] = dev[v] BY <1>1, <1>2, <1>5, StepDev
<1> QED BY <1>1, <1>6, SameArrived, SameProg DEF RingInv

LEMMA FifoArriveKeeps ==
  ASSUME RingInv, NEW w \in Nets, NEW ok \in BOOLEAN, FifoArrive(w, ok) PROVE RingInv'
<1>1. /\ setup \in Setups /\ DevOK /\ ProgOK /\ ArrivedOK /\ rxpkts \in Content
      /\ setup' = setup /\ rxpkts' = rxpkts /\ prog' = prog /\ Kind(w) = "3c"
      /\ arrived[w] < Total(w) /\ Arrive(w)
  BY DEF RingInv, FifoArrive, Arriving
<1>2. ProgOK' BY <1>1, SameProg
<1> DEFINE c == [dev[w] EXCEPT !.rx = Append(@, [data |-> Next_(w), ok |-> ok])]
<1>3. dev' = [dev EXCEPT ![w] = c] \/ dev' = dev BY DEF FifoArrive
<1>4. FifoOK(dev[w]) BY <1>1 DEF DevOK, NetOK
<1>5. Next_(w) \in Content BY <1>1, NextType
<1>6. FifoOK(c)
  <2>1. [data |-> Next_(w), ok |-> ok] \in [data: Content, ok: BOOLEAN] BY <1>5
  <2>2. dev[w].rx \in Seq([data: Content, ok: BOOLEAN]) BY <1>4 DEF FifoOK
  <2>3. ASSUME NEW x, x \in [data: Content, ok: BOOLEAN]
        PROVE  Append(dev[w].rx, x) \in Seq([data: Content, ok: BOOLEAN])
    BY <2>2, <2>3
  <2>4. Append(dev[w].rx, [data |-> Next_(w), ok |-> ok]) \in Seq([data: Content, ok: BOOLEAN])
    BY <2>1, <2>3
  <2> QED BY <1>4, <2>4 DEF FifoOK
<1> HIDE DEF c
<1>7. NetOK(w, c) BY <1>1, <1>6 DEF NetOK
<1>8. DevOK' /\ \A v \in Nets \ {w} : dev'[v] = dev[v]
  <2>1. CASE dev' = [dev EXCEPT ![w] = c] BY <1>1, <1>7, <2>1, StepDev
  <2>2. CASE dev' = dev BY <1>1, <2>2, SameDev
  <2> QED BY <1>3, <2>1, <2>2
<1>9. \A v \in Nets : Kind(v) = "pktd" /\ dev'[v].copying => v # w /\ dev[v].copying
  BY <1>1, <1>8
<1>10. ArrivedOK' BY <1>1, <1>9, StepArrive
<1> QED BY <1>1, <1>2, <1>8, <1>10 DEF RingInv

LEMMA FifoSentKeeps ==
  ASSUME RingInv, NEW w \in Nets, NEW ok \in BOOLEAN, FifoSent(w, ok) PROVE RingInv'
<1>1. /\ setup \in Setups /\ DevOK /\ ProgOK /\ ArrivedOK /\ rxpkts \in Content
      /\ setup' = setup /\ arrived' = arrived /\ rxpkts' = rxpkts /\ prog' = prog
      /\ Kind(w) = "3c" /\ dev' = [dev EXCEPT ![w].tx = Tail(@), ![w].txerr = ~ok]
  BY DEF RingInv, FifoSent
<1> DEFINE c == [dev[w] EXCEPT !.tx = Tail(@), !.txerr = ~ok]
<1>2. dev' = [dev EXCEPT ![w] = c] BY <1>1 DEF DevOK
<1>3. FifoOK(dev[w]) BY <1>1 DEF DevOK, NetOK
<1>4. FifoOK(c)
  <2>1. (~ok) \in BOOLEAN OBVIOUS
  <2> QED BY <1>3, <2>1 DEF FifoOK
<1> HIDE DEF c
<1>5. NetOK(w, c) BY <1>1, <1>4 DEF NetOK
<1>6. DevOK' /\ \A v \in Nets \ {w} : dev'[v] = dev[v] BY <1>1, <1>2, <1>5, StepDev
<1> QED BY <1>1, <1>6, SameArrived, SameProg DEF RingInv

(* A packet driver's two interrupts touch a length of the net that has the  *)
(* handle, which other drivers do not have, and the state of their own.     *)
LEMMA PktdDev ==
  ASSUME DevOK, setup' = setup, NEW w \in Nets, NEW d \in Nets, Kind(w) = "pktd",
         NEW n \in Nat, NEW b \in BOOLEAN,
         \/ dev' = [dev EXCEPT ![d].rxlen = n, ![w].copying = b]
         \/ dev' = [dev EXCEPT ![w].copying = b, ![d].rxlen = n]
  PROVE  /\ DevOK'
         /\ dev'[w].copying = b /\ dev'[w].rxlen = (IF d = w THEN n ELSE dev[w].rxlen)
         /\ \A v \in Nets \ {w} : Kind(v) = "pktd" => dev'[v].copying = dev[v].copying
         /\ \A v \in Nets \ {w, d} : dev'[v] = dev[v]
         /\ \A v \in Nets : Kind(v) \in {"ne", "3c"} => dev'[v] = dev[v]
<1>1. \A v \in Nets : /\ Kind(v) = "ne" => [dev[v] EXCEPT !.rxlen = n] = dev[v]
                      /\ Kind(v) = "3c" => [dev[v] EXCEPT !.rxlen = n] = dev[v]
                      /\ Kind(v) = "pktd" => PktdOK(dev[v])
  BY DEF DevOK, NetOK, NicOK, FifoOK
<1>2. /\ dev' = [v \in Nets |-> dev'[v]]
      /\ \A v \in Nets \ {w, d} : dev'[v] = dev[v]
      /\ d # w => /\ dev'[d] = [dev[d] EXCEPT !.rxlen = n]
                  /\ dev'[w] = [dev[w] EXCEPT !.copying = b]
      /\ d = w => \/ dev'[w] = [dev[w] EXCEPT !.rxlen = n, !.copying = b]
                  \/ dev'[w] = [dev[w] EXCEPT !.copying = b, !.rxlen = n]
  BY DEF DevOK
<1>3. PktdOK(dev[w]) BY <1>1
<1>4. PktdOK(dev'[w]) /\ dev'[w].copying = b
      /\ dev'[w].rxlen = (IF d = w THEN n ELSE dev[w].rxlen)
  <2>1. CASE d = w BY <1>2, <1>3, <2>1 DEF PktdOK
  <2>2. CASE d # w BY <1>2, <1>3, <2>2 DEF PktdOK
  <2> QED BY <2>1, <2>2
<1>5. ASSUME NEW v \in Nets, Kind(v) \in {"ne", "3c"} PROVE dev'[v] = dev[v]
  <2>1. v # w BY <1>5
  <2> QED BY <1>1, <1>2, <1>5, <2>1
<1>6. ASSUME NEW v \in Nets \ {w}, Kind(v) = "pktd"
      PROVE  PktdOK(dev'[v]) /\ dev'[v].copying = dev[v].copying
  <2>1. PktdOK(dev[v]) BY <1>1, <1>6
  <2>2. CASE v = d BY <1>2, <2>1, <2>2 DEF PktdOK
  <2>3. CASE v # d BY <1>2, <2>1, <2>3
  <2> QED BY <2>2, <2>3
<1>7. ASSUME NEW v \in Nets PROVE NetOK(v, dev'[v])
  <2>1. NetOK(v, dev[v]) BY DEF DevOK
  <2>2. CASE Kind(v) = "pktd" BY <1>4, <1>6, <2>2 DEF NetOK
  <2>3. CASE Kind(v) # "pktd" BY <1>5, <2>1, <2>3 DEF NetOK
  <2> QED BY <2>2, <2>3
<1>8. ASSUME NEW v \in Nets PROVE NetOK(v, dev[v])'
  BY <1>7 DEF NetOK, Kind
<1>9. DevOK' BY <1>2, <1>8 DEF DevOK
<1> QED BY <1>2, <1>4, <1>5, <1>6, <1>9

(* A packet driver's interrupts are taken for those of its own net.         *)
LEMMA HandleIs ==
  ASSUME Apart, setup \in Setups, NEW w \in Nets PROVE handle2dtype(w) = w
<1>1. setup.handle[0] # setup.handle[1] BY DEF Apart
<1>2. w = 0 \/ w = 1 BY DEF Nets
<1> QED BY <1>1, <1>2 DEF handle2dtype

LEMMA PktdAllocKeeps ==
  ASSUME Apart, RingInv, NEW w \in Nets, PktdAlloc(w) PROVE RingInv'
<1>1. /\ setup \in Setups /\ DevOK /\ ProgOK /\ ArrivedOK /\ rxpkts \in Content
      /\ setup' = setup /\ arrived' = arrived /\ rxpkts' = rxpkts /\ prog' = prog
      /\ Kind(w) = "pktd" /\ arrived[w] < Total(w)
      /\ dev' = [dev EXCEPT ![handle2dtype(w)].rxlen = Len(Next_(w)), ![w].copying = TRUE]
  BY DEF RingInv, PktdAlloc, Arriving
<1>2. handle2dtype(w) \in Nets /\ Len(Next_(w)) \in Nat BY <1>1, HandleIs, NextType
<1>3. DevOK' /\ \A v \in Nets \ {w} : Kind(v) = "pktd" => dev'[v].copying = dev[v].copying
  BY <1>1, <1>2, PktdDev
<1>4. ArrivedOK' BY <1>1, <1>3 DEF ArrivedOK, Kind, Total
<1> QED BY <1>1, <1>3, <1>4, SameProg DEF RingInv

LEMMA InterruptType ==
  ASSUME rxpkts \in Content, NEW d \in Nets, NEW data \in Content, Interrupt_upcall(d, data)
  PROVE  rxpkts' \in Content
<1>1. CASE Fits(rxpkts, data)
  <2>1. rxpkts' = buff_in(buff_in(rxpkts, <<Header(d, data)>>), data)
    BY <1>1 DEF Interrupt_upcall
  <2> QED BY <2>1, HeaderType, BuffInType
<1>2. CASE ~Fits(rxpkts, data) BY <1>2 DEF Interrupt_upcall
<1> QED BY <1>1, <1>2

LEMMA PktdCompleteKeeps ==
  ASSUME Apart, RingInv, NEW w \in Nets, PktdComplete(w) PROVE RingInv'
<1> DEFINE d == handle2dtype(w)
           data == SubSeq(Next_(w), 1, Least(dev[d].rxlen, Len(Next_(w))))
<1>1. /\ setup \in Setups /\ DevOK /\ ProgOK /\ ArrivedOK /\ rxpkts \in Content
      /\ setup' = setup /\ prog' = prog /\ Kind(w) = "pktd" /\ dev[w].copying /\ Arrive(w)
      /\ dev' = [dev EXCEPT ![w].copying = FALSE, ![d].rxlen = 0]
      /\ IF dev[d].rxlen > 0 THEN Interrupt_upcall(d, data) ELSE rxpkts' = rxpkts
  BY DEF RingInv, PktdComplete
<1>2. d \in Nets /\ Kind(d) = "pktd" BY <1>1, HandleIs
<1>3. arrived[w] < Total(w) BY <1>1 DEF ArrivedOK
<1>4. /\ DevOK' /\ dev'[w].copying = FALSE
      /\ \A v \in Nets \ {w} : Kind(v) = "pktd" => dev'[v].copying = dev[v].copying
  BY <1>1, <1>2, PktdDev
<1>5. \A v \in Nets : Kind(v) = "pktd" /\ dev'[v].copying => v # w /\ dev[v].copying
  BY <1>4
<1>6. ArrivedOK' BY <1>1, <1>3, <1>5, StepArrive
<1>7. Next_(w) \in Content /\ Len(Next_(w)) \in Nat BY <1>3, NextType
<1>8. rxpkts' \in Content
  <2>1. CASE dev[d].rxlen > 0
    <3>1. data \in Content
      <4>1. dev[d].rxlen \in Nat BY <1>1, <1>2 DEF DevOK, NetOK, PktdOK
      <4>2. /\ Least(dev[d].rxlen, Len(Next_(w))) \in Nat
            /\ Least(dev[d].rxlen, Len(Next_(w))) <= Len(Next_(w))
        BY <1>7, <4>1 DEF Least
      <4> QED BY <1>7, <4>2, Parts
    <3> HIDE DEF data, d
    <3> QED BY <1>1, <1>2, <2>1, <3>1, InterruptType
  <2>2. CASE ~(dev[d].rxlen > 0) BY <1>1, <2>2
  <2> QED BY <2>1, <2>2
<1> QED BY <1>1, <1>4, <1>6, <1>8, SameProg DEF RingInv

LEMMA InitRing == ASSUME NoSerial, Init PROVE RingInv
<1>1. /\ setup \in Setups /\ dev = [w \in Nets |-> DevInit(w)] /\ rxpkts = <<>>
      /\ arrived = [w \in Nets |-> IF Kind(w) = "slip" THEN Total(w) ELSE 0]
      /\ prog = [pc |-> "receive", net |-> 0, len |-> 0, hold |-> <<>>]
  BY DEF Init
<1>2. <<>> \in Content /\ 0 \in Nets BY DEF Content, Nets
<1>3. \A w \in Nets : Kind(w) \in {"ne", "3c", "pktd"} BY <1>1, KindIs DEF NoSerial, Kind, Kinds
<1>4. ASSUME NEW w \in Nets PROVE NetOK(w, DevInit(w))
  <2>1. CASE Kind(w) = "ne"
    <3> DEFINE card == [tx |-> <<>>]
    <3>1. resetnic(card) = DevInit(w) BY <2>1 DEF DevInit, resetnic
    <3>2. NicOK(resetnic(card)) /\ NicRing(resetnic(card)) BY ResetRing
    <3> QED BY <2>1, <3>1, <3>2 DEF NetOK
  <2>2. CASE Kind(w) = "3c"
    <3>1. DevInit(w) = [rx |-> <<>>, tx |-> <<>>, txerr |-> FALSE] BY <2>2 DEF DevInit
    <3>2. <<>> \in Seq([data: Content, ok: BOOLEAN]) OBVIOUS
    <3> QED BY <2>2, <3>1, <3>2 DEF NetOK, FifoOK
  <2>3. CASE Kind(w) = "pktd"
    <3>1. DevInit(w) = [rxlen |-> 0, copying |-> FALSE] BY <2>3 DEF DevInit
    <3> QED BY <2>3, <3>1 DEF NetOK, PktdOK
  <2> QED BY <1>3, <2>1, <2>2, <2>3
<1>5. DevOK BY <1>1, <1>4 DEF DevOK
<1>6. ProgOK BY <1>1, <1>2 DEF ProgOK, Places
<1>7. ArrivedOK
  <2>1. arrived = [w \in Nets |-> 0] BY <1>1, <1>3
  <2>2. ASSUME NEW w \in Nets, Kind(w) = "pktd" PROVE ~dev[w].copying
    BY <1>1, <2>2 DEF DevInit
  <2> QED BY <2>1, <2>2 DEF ArrivedOK
<1> QED BY <1>1, <1>2, <1>5, <1>6, <1>7 DEF RingInv

LEMMA NextRing == ASSUME Apart, RingInv, [Next]_vars PROVE RingInv'
<1>1. CASE UNCHANGED vars
  BY <1>1 DEF vars, RingInv, DevOK, NetOK, ProgOK, ArrivedOK, Kind, Total
<1>2. CASE GetHeader BY <1>2, GetHeaderKeeps
<1>3. CASE GetBody BY <1>3, GetBodyKeeps
<1>4. CASE UpcallBody BY <1>4, UpcallBodyKeeps
<1>5. CASE TxChar BY <1>5, NoTxChar
<1>6. ASSUME NEW w \in Nets, PollNeRx(w) \/ PollNeTx(w) \/ Poll3cRx(w) \/ Poll3cStat(w)
                             \/ Poll3cTx(w) \/ PollSlip(w) \/ PollPktd(w)
      PROVE  RingInv'
  <2>1. ~PollSlip(w) BY NoSlip DEF PollSlip
  <2> QED BY <1>6, <2>1, PollNeRxKeeps, PollNeTxKeeps, Poll3cRxKeeps, Poll3cStatKeeps,
             Poll3cTxKeeps, PollPktdKeeps
<1>7. ASSUME NEW w \in Nets, Arrives(w) PROVE RingInv'
  <2>1. ~SerRxInt(w) BY NoSlip DEF SerRxInt
  <2>2. TRUE \in BOOLEAN /\ FALSE \in BOOLEAN OBVIOUS
  <2> QED BY <1>7, <2>1, <2>2, NicArriveKeeps, FifoArriveKeeps, PktdAllocKeeps DEF Arrives
<1>8. ASSUME NEW w \in Nets, Sends(w) PROVE RingInv'
  <2>1. ~SerTxInt(w) BY NoSlip DEF SerTxInt
  <2>2. TRUE \in BOOLEAN /\ FALSE \in BOOLEAN OBVIOUS
  <2> QED BY <1>8, <2>1, <2>2, NicSentKeeps, FifoSentKeeps DEF Sends
<1> QED BY <1>1, <1>2, <1>3, <1>4, <1>5, <1>6, <1>7, <1>8, PktdCompleteKeeps DEF Next, Main

-----------------------------------------------------------------------------
(* The cards alone, beside whatever else there is.                          *)

NicsOK ==
    /\ dev = [w \in Nets |-> dev[w]]
    /\ \A w \in Nets : Kind(w) = "ne" => NicOK(dev[w]) /\ NicRing(dev[w])
CardInv == setup \in Setups /\ arrived \in [Nets -> Nat] /\ NicsOK

LEMMA StepNics ==
  ASSUME setup' = setup, dev' = [w \in Nets |-> dev'[w]],
         \A w \in Nets : Kind(w) = "ne" => NicOK(dev'[w]) /\ NicRing(dev'[w])
  PROVE  NicsOK'
<1> SUFFICES ASSUME NEW w \in Nets, Kind(w)' = "ne" PROVE (NicOK(dev[w]) /\ NicRing(dev[w]))'
  BY DEF NicsOK
<1>1. NicOK(dev'[w]) /\ NicRing(dev'[w]) BY DEF Kind
<1> QED BY <1>1 DEF NicOK, NicRing, Starts

LEMMA SameNics == ASSUME NicsOK, setup' = setup, dev' = dev PROVE NicsOK'
  BY StepNics DEF NicsOK

(* One device changes.                                                      *)
LEMMA OneNic ==
  ASSUME NicsOK, setup' = setup, NEW w \in Nets, NEW card, dev' = [dev EXCEPT ![w] = card],
         Kind(w) = "ne" => NicOK(card) /\ NicRing(card)
  PROVE  NicsOK'
<1> DEFINE d == dev'
<1>1. d = [dev EXCEPT ![w] = card] OBVIOUS
<1> HIDE DEF d
<1>2. d = [v \in Nets |-> IF v = w THEN card ELSE dev[v]] BY <1>1 DEF NicsOK
<1>3. d = [v \in Nets |-> d[v]] BY <1>2
<1>4. \A v \in Nets : Kind(v) = "ne" => NicOK(d[v]) /\ NicRing(d[v]) BY <1>2 DEF NicsOK
<1> QED BY <1>3, <1>4, StepNics DEF d

(* What other drivers keep of a device, a card of this kind has not.        *)
LEMMA NotOfNic ==
  ASSUME NEW card, NicOK(card), NEW x
  PROVE  [card EXCEPT !.tbuf = x] = card /\ [card EXCEPT !.rxlen = x] = card
         /\ [card EXCEPT !.copying = x] = card /\ [card EXCEPT !.txerr = x] = card
  BY DEF NicOK

LEMMA OtherKind ==
  ASSUME NicsOK, setup' = setup, NEW w \in Nets, Kind(w) # "ne", NEW card,
         dev' = [dev EXCEPT ![w] = card] \/ dev' = dev
  PROVE  NicsOK'
<1>1. CASE dev' = [dev EXCEPT ![w] = card] BY <1>1, OneNic
<1>2. CASE dev' = dev BY <1>2, SameNics
<1> QED BY <1>1, <1>2

LEMMA TxCharNics == ASSUME CardInv, TxChar PROVE NicsOK'
<1>1. NicsOK /\ setup' = setup BY DEF CardInv, TxChar
<1>2. PICK x : dev' = dev \/ dev' = [dev EXCEPT ![prog.net].tbuf = x]
  <2>1. \/ dev' = dev
        \/ dev' = [dev EXCEPT ![prog.net].tbuf = Append(dev[prog.net].tbuf, Head(prog.hold))]
    BY DEF TxChar
  <2> QED BY <2>1
<1>3. CASE dev' = dev BY <1>1, <1>3, SameNics
<1>4. CASE dev' = [dev EXCEPT ![prog.net].tbuf = x] /\ prog.net \in Nets
  <2> DEFINE c == [dev[prog.net] EXCEPT !.tbuf = x]
  <2>1. dev' = [dev EXCEPT ![prog.net] = c] BY <1>4
  <2>2. Kind(prog.net) = "ne" => NicOK(c) /\ NicRing(c)
    BY <1>1, <1>4, NotOfNic DEF NicsOK
  <2> HIDE DEF c
  <2> QED BY <1>1, <1>4, <2>1, <2>2, OneNic
<1>5. CASE dev' = [dev EXCEPT ![prog.net].tbuf = x] /\ prog.net \notin Nets
  <2>1. dev' = dev BY <1>1, <1>5 DEF NicsOK
  <2> QED BY <1>1, <2>1, SameNics
<1> QED BY <1>2, <1>3, <1>4, <1>5

LEMMA PollNics ==
  ASSUME CardInv, NEW w \in Nets, PollNeRx(w) \/ PollNeTx(w) PROVE NicsOK'
<1>1. NicsOK /\ setup' = setup /\ Kind(w) = "ne" BY DEF CardInv, PollNeRx, PollNeTx
<1>2. NicOK(dev[w]) /\ NicRing(dev[w]) BY <1>1 DEF NicsOK
<1>3. CASE PollNeRx(w)
  <2> DEFINE r == get_etherne(dev[w])
  <2>1. dev' = [dev EXCEPT ![w] = r.card] BY <1>3 DEF PollNeRx
  <2>2. NicOK(r.card) /\ NicRing(r.card) BY <1>2, NicGives
  <2> HIDE DEF r
  <2> QED BY <1>1, <2>1, <2>2, OneNic
<1>4. CASE PollNeTx(w)
  <2> DEFINE x == transmit_upcall(w).data
             c == [dev[w] EXCEPT !.tx = x]
  <2>1. dev' = dev \/ dev' = [dev EXCEPT ![w] = c] BY <1>4 DEF PollNeTx, put_etherne
  <2> HIDE DEF x
  <2>2. NicOK(c) /\ NicRing(c) BY <1>2, NicAside
  <2> HIDE DEF c
  <2> QED BY <1>1, <2>1, <2>2, OneNic, SameNics
<1> QED BY <1>3, <1>4

(* The 3C509's driver, were it to be called for another card.               *)
LEMMA StatNics == ASSUME CardInv, NEW w \in Nets, Poll3cStat(w) PROVE NicsOK'
<1>1. NicsOK /\ setup' = setup BY DEF CardInv, Poll3cStat
<1> DEFINE c == [dev[w] EXCEPT !.tx = <<>>, !.txerr = FALSE]
<1>2. dev' = [dev EXCEPT ![w] = c] \/ dev' = dev BY <1>1 DEF Poll3cStat, NicsOK
<1>3. Kind(w) = "ne" => NicOK(c) /\ NicRing(c)
  <2> SUFFICES ASSUME Kind(w) = "ne" PROVE NicOK(c) /\ NicRing(c) OBVIOUS
  <2> DEFINE b == [dev[w] EXCEPT !.tx = <<>>]
  <2>1. NicOK(dev[w]) /\ NicRing(dev[w]) BY <1>1 DEF NicsOK
  <2>2. NicOK(b) /\ NicRing(b) BY <2>1, NicAside
  <2>3. c = [b EXCEPT !.txerr = FALSE] BY <2>1 DEF NicOK
  <2> HIDE DEF b, c
  <2> QED BY <2>2, <2>3, NotOfNic
<1> HIDE DEF c
<1> QED BY <1>1, <1>2, <1>3, OneNic, SameNics

LEMMA ArriveNics == ASSUME CardInv, NEW w \in Nets, NicArrive(w) PROVE NicsOK'
<1>1. /\ NicsOK /\ setup \in Setups /\ arrived \in [Nets -> Nat]
      /\ setup' = setup /\ Kind(w) = "ne" /\ arrived[w] < Total(w)
  BY DEF CardInv, NicArrive, Arriving
<1> DEFINE card == dev[w]
           data == Next_(w)
           c1 == [card EXCEPT !.overrun = TRUE]
           c2 == [card EXCEPT !.ram[card.curr] = data, !.curr = nicwrap(@ + Len(data))]
<1>2. NicOK(card) /\ NicRing(card) BY <1>1 DEF NicsOK
<1>3. data \in Content
  <2>1. arrived[w] \in Nat /\ Total(w) \in Nat BY <1>1, FrameType
  <2>2. arrived[w] + 1 \in 1 .. Total(w) BY <1>1, <2>1
  <2> QED BY <1>1, <2>2, FrameType DEF Next_
<1>4. \/ dev' = [dev EXCEPT ![w] = c1]
      \/ /\ card.bnry \notin {nicwrap(card.curr + i) : i \in 0 .. Len(data) - 1}
         /\ dev' = [dev EXCEPT ![w] = c2]
  <2>1. CASE card.overrun \/ card.bnry \in {nicwrap(card.curr + i) : i \in 0 .. Len(data) - 1}
    <3>1. dev' = [dev EXCEPT ![w].overrun = TRUE] BY <2>1 DEF NicArrive
    <3> QED BY <3>1
  <2>2. CASE ~(card.overrun \/ card.bnry \in {nicwrap(card.curr + i) : i \in 0 .. Len(data) - 1})
    <3>1. dev' = [dev EXCEPT ![w].ram[dev[w].curr] = Next_(w),
                             ![w].curr = nicwrap(@ + Len(Next_(w)))]
      BY <2>2 DEF NicArrive
    <3> QED BY <1>1, <2>2, <3>1 DEF NicsOK
  <2> QED BY <2>1, <2>2
<1> HIDE DEF card, data
<1>5. NicOK(c1) /\ NicRing(c1) BY <1>2, NicAside
<1>6. card.bnry \notin {nicwrap(card.curr + i) : i \in 0 .. Len(data) - 1}
      => NicOK(c2) /\ NicRing(c2)
  BY <1>2, <1>3, ArriveRing
<1> HIDE DEF c1, c2
<1> QED BY <1>1, <1>4, <1>5, <1>6, OneNic

LEMMA SentNics == ASSUME CardInv, NEW w \in Nets, NicSent(w) PROVE NicsOK'
<1>1. /\ NicsOK /\ setup' = setup /\ Kind(w) = "ne"
      /\ dev' = [dev EXCEPT ![w].tx = <<>>]
  BY DEF CardInv, NicSent
<1> DEFINE c == [dev[w] EXCEPT !.tx = <<>>]
<1>2. dev' = [dev EXCEPT ![w] = c] BY <1>1
<1>3. NicOK(c) /\ NicRing(c) BY <1>1, NicAside DEF NicsOK
<1>4. NicsOK /\ setup' = setup BY <1>1
<1> HIDE DEF c
<1> QED BY <1>2, <1>3, <1>4, OneNic

(* Whatever net a packet driver's interrupt is taken for.                   *)
LEMMA PktdNics ==
  ASSUME CardInv, NEW w \in Nets, PktdAlloc(w) \/ PktdComplete(w) PROVE NicsOK'
<1>1. NicsOK /\ setup' = setup /\ Kind(w) = "pktd"
  BY DEF CardInv, PktdAlloc, PktdComplete, Arriving
<1> DEFINE d == handle2dtype(w)
<1>2. d \in Nets BY DEF handle2dtype, Nets
<1>3. PICK n, b : \/ dev' = [dev EXCEPT ![d].rxlen = n, ![w].copying = b]
                  \/ dev' = [dev EXCEPT ![w].copying = b, ![d].rxlen = n]
  BY DEF PktdAlloc, PktdComplete
<1> HIDE DEF d
<1>4. dev' = [v \in Nets |-> dev'[v]]
      /\ \A v \in Nets \ {w} : dev'[v] = dev[v] \/ dev'[v] = [dev[v] EXCEPT !.rxlen = n]
  BY <1>1, <1>2, <1>3 DEF NicsOK
<1>5. ASSUME NEW v \in Nets, Kind(v) = "ne" PROVE NicOK(dev'[v]) /\ NicRing(dev'[v])
  <2>1. v \in Nets \ {w} BY <1>1, <1>5
  <2>2. NicOK(dev[v]) /\ NicRing(dev[v]) BY <1>1, <1>5 DEF NicsOK
  <2> QED BY <1>4, <2>1, <2>2, NotOfNic
<1> QED BY <1>1, <1>4, <1>5, StepNics

(* Steps that leave devices alone, or change only one of another kind.      *)
LEMMA OtherNics ==
  ASSUME CardInv, NEW w \in Nets, NEW ok \in BOOLEAN,
         \/ Poll3cRx(w) \/ Poll3cTx(w) \/ PollSlip(w) \/ PollPktd(w) \/ FifoArrive(w, ok)
         \/ FifoSent(w, ok) \/ SerRxInt(w) \/ SerTxInt(w)
  PROVE  NicsOK'
<1>1. NicsOK /\ setup' = setup /\ Kind(w) # "ne"
  BY DEF CardInv, Poll3cRx, Poll3cTx, PollSlip, PollPktd, FifoArrive, FifoSent, SerRxInt,
         SerTxInt, Arriving
<1>2. PICK card : dev' = [dev EXCEPT ![w] = card] \/ dev' = dev
  <2>1. CASE Poll3cRx(w) BY <2>1 DEF Poll3cRx
  <2>2. CASE Poll3cTx(w) BY <2>2 DEF Poll3cTx
  <2>3. CASE PollSlip(w)
    <3>1. \/ dev' = dev
          \/ \E x, y : dev' = [dev EXCEPT ![w].rbuf = x, ![w].slipbuff = y]
      <4> DEFINE r == SlipChar(slip, dev[w].slipbuff, w, Head(dev[w].rbuf))
      <4>1. dev' = dev \/ dev' = [dev EXCEPT ![w].rbuf = Tail(@), ![w].slipbuff = r.buf]
        BY <2>3 DEF PollSlip
      <4> HIDE DEF r
      <4> QED BY <4>1
    <3>2. ASSUME NEW x, NEW y, dev' = [dev EXCEPT ![w].rbuf = x, ![w].slipbuff = y]
          PROVE  dev' = [dev EXCEPT ![w] = [dev[w] EXCEPT !.rbuf = x, !.slipbuff = y]]
      BY <1>1, <3>2 DEF NicsOK
    <3> QED BY <3>1, <3>2
  <2>4. CASE PollPktd(w) BY <2>4 DEF PollPktd
  <2>5. CASE FifoArrive(w, ok) BY <2>5 DEF FifoArrive
  <2>6. CASE FifoSent(w, ok)
    <3>1. dev' = [dev EXCEPT ![w].tx = Tail(@), ![w].txerr = ~ok] BY <2>6 DEF FifoSent
    <3>2. dev' = [dev EXCEPT ![w] = [dev[w] EXCEPT !.tx = Tail(@), !.txerr = ~ok]]
      BY <1>1, <3>1 DEF NicsOK
    <3> QED BY <3>2
  <2>7. CASE SerRxInt(w)
    <3>1. \E x, y : dev' = [dev EXCEPT ![w].line = x, ![w].rbuf = y] BY <2>7 DEF SerRxInt
    <3>2. ASSUME NEW x, NEW y, dev' = [dev EXCEPT ![w].line = x, ![w].rbuf = y]
          PROVE  dev' = [dev EXCEPT ![w] = [dev[w] EXCEPT !.line = x, !.rbuf = y]]
      BY <1>1, <3>2 DEF NicsOK
    <3> QED BY <3>1, <3>2
  <2>8. CASE SerTxInt(w)
    <3>1. \E x, y : dev' = [dev EXCEPT ![w].tbuf = x, ![w].peer = y] BY <2>8 DEF SerTxInt
    <3>2. ASSUME NEW x, NEW y, dev' = [dev EXCEPT ![w].tbuf = x, ![w].peer = y]
          PROVE  dev' = [dev EXCEPT ![w] = [dev[w] EXCEPT !.tbuf = x, !.peer = y]]
      BY <1>1, <3>2 DEF NicsOK
    <3> QED BY <3>1, <3>2
  <2> QED BY <2>1, <2>2, <2>3, <2>4, <2>5, <2>6, <2>7, <2>8
<1> QED BY <1>1, <1>2, OtherKind

LEMMA NextCard == ASSUME CardInv, [Next]_vars PROVE CardInv'
<1>1. setup \in Setups /\ arrived \in [Nets -> Nat] /\ NicsOK BY DEF CardInv
<1>2. CASE UNCHANGED vars
  BY <1>1, <1>2, SameNics DEF vars, CardInv
<1>3. CASE GetHeader \/ GetBody \/ UpcallBody
  <2>1. setup' = setup /\ arrived' = arrived /\ dev' = dev
    BY <1>3 DEF GetHeader, GetBody, UpcallBody
  <2> QED BY <1>1, <2>1, SameNics DEF CardInv
<1>4. CASE TxChar
  <2>1. setup' = setup /\ arrived' = arrived BY <1>4 DEF TxChar
  <2> QED BY <1>1, <1>4, <2>1, TxCharNics DEF CardInv
<1>5. ASSUME NEW w \in Nets, PollNeRx(w) \/ PollNeTx(w) \/ Poll3cRx(w) \/ Poll3cStat(w)
                             \/ Poll3cTx(w) \/ PollSlip(w) \/ PollPktd(w)
      PROVE  CardInv'
  <2>1. setup' = setup /\ arrived' = arrived
    BY <1>5 DEF PollNeRx, PollNeTx, Poll3cRx, Poll3cStat, Poll3cTx, PollSlip, PollPktd
  <2>2. TRUE \in BOOLEAN OBVIOUS
  <2>3. NicsOK' BY <1>5, <2>2, PollNics, StatNics, OtherNics
  <2> QED BY <1>1, <2>1, <2>3 DEF CardInv
<1>6. ASSUME NEW w \in Nets, Arrives(w) \/ PktdComplete(w) \/ Sends(w) PROVE CardInv'
  <2>1. setup' = setup
    BY <1>6 DEF Arrives, Sends, NicArrive, FifoArrive, PktdAlloc, SerRxInt, PktdComplete,
                NicSent, FifoSent, SerTxInt
  <2>2. arrived' = arrived \/ Arrive(w)
    BY <1>6 DEF Arrives, Sends, NicArrive, FifoArrive, PktdAlloc, SerRxInt, PktdComplete,
                NicSent, FifoSent, SerTxInt
  <2>3. arrived' \in [Nets -> Nat] BY <1>1, <2>2 DEF Arrive
  <2>4. TRUE \in BOOLEAN /\ FALSE \in BOOLEAN OBVIOUS
  <2>5. NicsOK'
    BY <1>6, <2>4, ArriveNics, SentNics, PktdNics, OtherNics DEF Arrives, Sends
  <2> QED BY <1>1, <2>1, <2>3, <2>5 DEF CardInv
<1> QED BY <1>2, <1>3, <1>4, <1>5, <1>6 DEF Next, Main

LEMMA InitCard == ASSUME Init PROVE CardInv
<1>1. /\ setup \in Setups /\ dev = [w \in Nets |-> DevInit(w)]
      /\ arrived = [w \in Nets |-> IF Kind(w) = "slip" THEN Total(w) ELSE 0]
  BY DEF Init
<1>2. \A w \in Nets : Total(w) \in Nat BY <1>1, FrameType
<1>3. arrived \in [Nets -> Nat] BY <1>1, <1>2
<1>4. ASSUME NEW w \in Nets, Kind(w) = "ne" PROVE NicOK(dev[w]) /\ NicRing(dev[w])
  <2> DEFINE card == [tx |-> <<>>]
  <2>1. resetnic(card) = dev[w] BY <1>1, <1>4 DEF DevInit, resetnic
  <2>2. NicOK(resetnic(card)) /\ NicRing(resetnic(card)) BY ResetRing
  <2> QED BY <2>1, <2>2
<1> QED BY <1>1, <1>3, <1>4 DEF CardInv, NicsOK

LEMMA CardsAreInStep == ASSUME CardInv PROVE NicInStep
<1> SUFFICES ASSUME NEW w \in Nets, Kind(w) = "ne"
             PROVE  LET card == dev[w]
                        starts == {p \in 0 .. NicPages - 1 : card.ram[p] # <<>>}
                        After(p) == nicwrap(p + Len(card.ram[p]))
                    IN /\ card.next # card.curr <=> card.next \in starts
                       /\ \A p \in starts :
                             /\ After(p) \in starts \cup {card.curr}
                             /\ card.bnry \notin
                                  {nicwrap(p + i) : i \in 0 .. Len(card.ram[p]) - 1}
  BY DEF NicInStep
<1>1. NicOK(dev[w]) /\ NicRing(dev[w]) BY DEF CardInv, NicsOK
<1>2. /\ dev[w].next # dev[w].curr <=> dev[w].next \in Starts(dev[w])
      /\ \A p \in Starts(dev[w]) :
            /\ nicwrap(p + Len(dev[w].ram[p])) \in Starts(dev[w]) \cup {dev[w].curr}
            /\ dev[w].bnry \notin {nicwrap(p + i) : i \in 0 .. Len(dev[w].ram[p]) - 1}
  BY <1>1, RingInStep
<1> QED BY <1>2 DEF Starts, Pages

(* The driver of an NE2000 never loses the place of the frames in the       *)
(* card's ring of pages, whatever the number of pages, the frames and the   *)
(* other net: get_etherne and resetnic of ETHERNE.C.                        *)
THEOREM CardInStep == Spec => []NicInStep
<1>1. Init => CardInv BY InitCard
<1>2. CardInv /\ [Next]_vars => CardInv' BY NextCard
<1>3. CardInv => NicInStep BY CardsAreInStep
<1> QED BY <1>1, <1>2, <1>3, PTL DEF Spec

-----------------------------------------------------------------------------
(* Headers and frames in the ring.                                          *)

LEMMA BuffLenIs == BUFFLEN \in Nat BY NetAssumption

LEMMA WholeIs ==
  ASSUME setup \in Setups, NEW w \in Nets, NEW data, Whole(w, data)
  PROVE  /\ data \in Content /\ Len(data) \in Nat
         /\ \A j \in 1 .. Len(data) : data[j][4] = j
<1>1. PICK n \in 1 .. Total(w) : data = Frame(w, n) BY DEF Whole
<1>2. Frame(w, n) \in Content /\ \A j \in 1 .. Len(Frame(w, n)) : Frame(w, n)[j][4] = j
  BY <1>1, FrameType
<1> QED BY <1>1, <1>2 DEF Content

(* A frame that is all there is one of those that arrived, and its length   *)
(* is a number.                                                             *)
LEMMA AfterIs ==
  ASSUME setup \in Setups, NEW w \in Nets, NEW ring \in Content, NEW i \in Nat, NEW len,
         FrameAfter(ring, i, w, len)
  PROVE  /\ len \in Nat /\ i + len <= Len(ring)
         /\ \A j \in 1 .. len : ring[i + j][4] = j
<1>1. PICK n \in 1 .. Total(w) :
        len = Len(Frame(w, n)) /\ \A j \in 1 .. len : ring[i + j] = Frame(w, n)[j]
  BY DEF FrameAfter
<1>2. Len(Frame(w, n)) \in Nat /\ \A j \in 1 .. Len(Frame(w, n)) : Frame(w, n)[j][4] = j
  BY <1>1, FrameType
<1> QED BY <1>1, <1>2 DEF FrameAfter

(* A longer ring, whose first new unit is a header if it follows the frame. *)
LEMMA AfterGrow ==
  ASSUME setup \in Setups, NEW w \in Nets, NEW ring \in Content, NEW i \in Nat, NEW len,
         FrameAfter(ring, i, w, len), NEW more \in Content,
         i + len = Len(ring) /\ more # <<>> => more[1][4] = 0
  PROVE  FrameAfter(ring \o more, i, w, len)
<1>1. len \in Nat /\ i + len <= Len(ring) BY AfterIs
<1> DEFINE long == ring \o more
<1>2. /\ Len(long) = Len(ring) + Len(more) /\ Len(ring) \in Nat /\ Len(more) \in Nat
      /\ \A j \in 1 .. Len(ring) : long[j] = ring[j]
      /\ more # <<>> => long[Len(ring) + 1] = more[1]
      /\ more = <<>> <=> Len(more) = 0
  BY DEF Content
<1> HIDE DEF long
<1>3. PICK n \in 1 .. Total(w) :
        len = Len(Frame(w, n)) /\ \A j \in 1 .. len : ring[i + j] = Frame(w, n)[j]
  BY DEF FrameAfter
<1>4. \A j \in 1 .. len : long[i + j] = Frame(w, n)[j]
  <2>1. \A j \in 1 .. len : i + j \in 1 .. Len(ring) BY <1>1, <1>2
  <2> QED BY <1>2, <1>3, <2>1
<1>5. i + len < Len(long) => long[i + len + 1][4] = 0
  <2>1. CASE i + len = Len(ring)
    <3>1. i + len < Len(long) => more # <<>> BY <1>1, <1>2, <2>1
    <3>2. i + len + 1 = Len(ring) + 1 BY <1>1, <1>2, <2>1
    <3>3. i + len < Len(long) => long[i + len + 1] = more[1] BY <1>2, <3>1, <3>2
    <3> QED BY <2>1, <3>1, <3>3
  <2>2. CASE i + len < Len(ring)
    <3>1. i + len + 1 \in 1 .. Len(ring) BY <1>1, <1>2, <2>2
    <3>2. ring[i + len + 1][4] = 0 BY <2>2 DEF FrameAfter
    <3> QED BY <1>2, <3>1, <3>2
  <2> QED BY <1>1, <1>2, <2>1, <2>2
<1>6. i + len <= Len(long) BY <1>1, <1>2
<1> QED BY <1>3, <1>4, <1>5, <1>6 DEF FrameAfter, long

(* What is left when units have been taken.                                 *)
LEMMA AfterDrop ==
  ASSUME setup \in Setups, NEW w \in Nets, NEW ring \in Content, NEW k \in Nat,
         NEW i \in Nat, NEW len, FrameAfter(ring, i + k, w, len),
         NEW rest \in Content, Len(rest) = Len(ring) - k,
         \A j \in 1 .. Len(rest) : rest[j] = ring[j + k]
  PROVE  FrameAfter(rest, i, w, len)
<1>1. len \in Nat /\ (i + k) + len <= Len(ring)
  <2>1. i + k \in Nat OBVIOUS
  <2> QED BY <2>1, AfterIs
<1>2. Len(ring) \in Nat /\ Len(rest) \in Nat BY DEF Content
<1>3. PICK n \in 1 .. Total(w) :
        len = Len(Frame(w, n)) /\ \A j \in 1 .. len : ring[(i + k) + j] = Frame(w, n)[j]
  BY DEF FrameAfter
<1>4. \A j \in 1 .. len : rest[i + j] = Frame(w, n)[j]
  <2>1. \A j \in 1 .. len : i + j \in 1 .. Len(rest) /\ (i + j) + k = (i + k) + j
    BY <1>1, <1>2
  <2> QED BY <1>3, <2>1
<1>5. i + len < Len(rest) => rest[i + len + 1][4] = 0
  <2>1. i + len < Len(rest) => /\ i + len + 1 \in 1 .. Len(rest) /\ (i + k) + len < Len(ring)
                               /\ (i + len + 1) + k = (i + k) + len + 1
    BY <1>1, <1>2
  <2>2. (i + k) + len < Len(ring) => ring[(i + k) + len + 1][4] = 0 BY DEF FrameAfter
  <2> QED BY <2>1, <2>2
<1>6. i + len <= Len(rest) BY <1>1, <1>2
<1> QED BY <1>3, <1>4, <1>5, <1>6 DEF FrameAfter

LEMMA LaidDrop ==
  ASSUME setup \in Setups, NEW ring \in Content, Laid(ring, FALSE), NEW k \in Nat,
         NEW rest \in Content, Len(rest) = Len(ring) - k,
         \A j \in 1 .. Len(rest) : rest[j] = ring[j + k]
  PROVE  Laid(rest, FALSE)
<1>1. Len(ring) \in Nat /\ DOMAIN ring = 1 .. Len(ring) /\ DOMAIN rest = 1 .. Len(rest)
      /\ Len(rest) \in Nat
  BY DEF Content
<1> SUFFICES ASSUME NEW i \in 1 .. Len(rest), rest[i][4] = 0
             PROVE  rest[i][1] = "hdr" /\ FrameAfter(rest, i, rest[i][2], rest[i][3])
  BY <1>1 DEF Laid
<1>2. rest[i] = ring[i + k] /\ i + k \in 1 .. Len(ring) /\ i \in Nat BY <1>1
<1>3. rest[i][1] = "hdr" /\ FrameAfter(ring, i + k, rest[i][2], rest[i][3])
  BY <1>1, <1>2 DEF Laid
<1>4. rest[i] \in Unit BY <1>1 DEF Content
<1>5. rest[i][2] \in Nets BY <1>4, UnitParts
<1> QED BY <1>2, <1>3, <1>5, AfterDrop

(* A header is put in.                                                      *)
LEMMA LaidHeader ==
  ASSUME setup \in Setups, NEW ring \in Content, Laid(ring, FALSE),
         NEW w \in Nets, NEW data \in Content
  PROVE  Laid(ring \o <<Header(w, data)>>, TRUE)
<1> DEFINE hdr == Header(w, data)
           long == ring \o <<hdr>>
<1>1. hdr \in Unit /\ hdr[1] = "hdr" /\ hdr[4] = 0 /\ <<hdr>> \in Content
  BY HeaderType DEF Header
<1> HIDE DEF hdr
<1>2. /\ Len(long) = Len(ring) + 1 /\ Len(ring) \in Nat /\ DOMAIN long = 1 .. Len(long)
      /\ DOMAIN ring = 1 .. Len(ring)
      /\ long[Len(ring) + 1] = hdr /\ \A j \in 1 .. Len(ring) : long[j] = ring[j] /\ ring[j] \in Unit
  BY <1>1 DEF Content
<1> SUFFICES ASSUME NEW i \in 1 .. Len(long), long[i][4] = 0
             PROVE  /\ long[i][1] = "hdr"
                    /\ FrameAfter(long, i, long[i][2], long[i][3]) \/ (TRUE /\ i = Len(long))
  BY <1>2 DEF Laid, hdr
<1>3. CASE i = Len(ring) + 1 BY <1>1, <1>2, <1>3
<1>4. CASE i # Len(ring) + 1
  <2>1. i \in 1 .. Len(ring) /\ i \in Nat /\ long[i] = ring[i] BY <1>2, <1>4
  <2>2. ring[i][1] = "hdr" /\ FrameAfter(ring, i, ring[i][2], ring[i][3])
    BY <1>2, <2>1 DEF Laid
  <2>3. ring[i][2] \in Nets BY <1>2, <2>1, UnitParts
  <2>4. <<hdr>>[1][4] = 0 BY <1>1
  <2>5. FrameAfter(ring \o <<hdr>>, i, ring[i][2], ring[i][3])
    BY <1>1, <2>1, <2>2, <2>3, <2>4, AfterGrow
  <2> QED BY <2>1, <2>2, <2>5
<1> QED BY <1>3, <1>4

(* The frame of the last header is put in.                                  *)
LEMMA LaidFrame ==
  ASSUME setup \in Setups, NEW ring \in Content, Laid(ring, TRUE), ring # <<>>,
         NEW w \in Nets, NEW data, Whole(w, data), ring[Len(ring)] = Header(w, data)
  PROVE  Laid(ring \o data, FALSE)
<1>1. data \in Content /\ Len(data) \in Nat /\ \A j \in 1 .. Len(data) : data[j][4] = j
  BY WholeIs
<1> DEFINE long == ring \o data
           m == Len(ring)
<1>2. /\ Len(long) = m + Len(data) /\ m \in Nat /\ m >= 1 /\ DOMAIN long = 1 .. Len(long)
      /\ DOMAIN ring = 1 .. m
      /\ \A j \in 1 .. m : long[j] = ring[j] /\ ring[j] \in Unit
      /\ \A j \in 1 .. Len(data) : long[m + j] = data[j]
      /\ data # <<>> => Len(data) >= 1
  BY <1>1 DEF Content
<1> HIDE DEF long, m
<1>3. ring[m][1] = "hdr" /\ ring[m][2] = w /\ ring[m][3] = Len(data) /\ ring[m][4] = 0
  BY DEF Header, m
<1> SUFFICES ASSUME NEW i \in 1 .. Len(long), long[i][4] = 0
             PROVE  long[i][1] = "hdr" /\ FrameAfter(long, i, long[i][2], long[i][3])
  BY <1>2 DEF Laid, long
<1>4. i \in 1 .. m
  <2> SUFFICES ASSUME i > m PROVE FALSE BY <1>1, <1>2
  <2>1. i - m \in 1 .. Len(data) /\ m + (i - m) = i BY <1>1, <1>2
  <2>2. long[m + (i - m)] = data[i - m] /\ data[i - m][4] = i - m BY <1>1, <1>2, <2>1
  <2> QED BY <1>1, <1>2, <2>1, <2>2
<1>5. CASE i = m
  <2>1. PICK n \in 1 .. Total(w) : data = Frame(w, n) BY DEF Whole
  <2>2. \A j \in 1 .. Len(data) : long[m + j] = Frame(w, n)[j] BY <1>2, <2>1
  <2>3. Len(data) = Len(Frame(w, n)) BY <2>1
  <2>4. m + Len(data) <= Len(long) /\ ~(m + Len(data) < Len(long)) BY <1>1, <1>2
  <2>5. FrameAfter(long, m, w, Len(data))
    BY <2>2, <2>3, <2>4 DEF FrameAfter
  <2> QED BY <1>2, <1>3, <1>4, <1>5, <2>5
<1>6. CASE i # m
  <2>1. i \in Nat /\ long[i] = ring[i] /\ i < m BY <1>2, <1>4, <1>6
  <2>2. ring[i][1] = "hdr" /\ FrameAfter(ring, i, ring[i][2], ring[i][3])
    BY <1>2, <1>4, <1>6, <2>1 DEF Laid, m
  <2>3. ring[i][2] \in Nets BY <1>2, <1>4, UnitParts
  <2>4. ring[i][3] \in Nat /\ i + ring[i][3] <= Len(ring)
        /\ \A j \in 1 .. ring[i][3] : ring[i + j][4] = j
    BY <2>1, <2>2, <2>3, AfterIs
  <2>5. i + ring[i][3] # m
    <3> SUFFICES ASSUME i + ring[i][3] = m PROVE FALSE OBVIOUS
    <3>1. ring[i][3] \in 1 .. ring[i][3] /\ ring[i][3] >= 1 BY <1>2, <2>1, <2>4
    <3>2. ring[i + ring[i][3]][4] = ring[i][3] BY <2>4, <3>1
    <3> QED BY <1>3, <3>1, <3>2
  <2>6. FrameAfter(ring \o data, i, ring[i][2], ring[i][3])
    BY <1>1, <2>1, <2>2, <2>3, <2>5, AfterGrow DEF m
  <2> QED BY <2>1, <2>2, <2>6 DEF long
<1> QED BY <1>5, <1>6

LEMMA BuffInAll ==
  ASSUME NEW ring \in Content, NEW data \in Content, Len(ring) + Len(data) <= BUFFLEN
  PROVE  buff_in(ring, data) = ring \o data
<1>1. Len(data) \in Nat /\ Len(ring) \in Nat BY DEF Content
<1>2. Least(Len(data), Room(ring)) = Len(data) BY <1>1, BuffLenIs DEF Least, Room
<1>3. SubSeq(data, 1, Len(data)) = data BY DEF Content
<1> QED BY <1>2, <1>3 DEF buff_in

(* The frames that arrive do not change.                                    *)
LEMMA FrameSame ==
  ASSUME setup' = setup, NEW w, NEW n PROVE Frame(w, n)' = Frame(w, n) /\ Total(w)' = Total(w)
  BY DEF Frame, Total

LEMMA AfterSame ==
  ASSUME setup' = setup, NEW ring, NEW i, NEW w, NEW len
  PROVE  FrameAfter(ring, i, w, len)' <=> FrameAfter(ring, i, w, len)
  BY FrameSame DEF FrameAfter

LEMMA WholeSame ==
  ASSUME setup' = setup, NEW w, NEW data PROVE Whole(w, data)' <=> Whole(w, data)
  BY FrameSame DEF Whole

LEMMA StepRing ==
  ASSUME setup' = setup, NEW ring, NEW p, RingWhole(ring, p), rxpkts' = ring, prog' = p
  PROVE  RingWhole(rxpkts, prog)'
<1>1. RingWhole(rxpkts', prog') OBVIOUS
<1>2. Laid(rxpkts, prog.pc = "upcall")'
  <2>1. Laid(rxpkts', prog'.pc = "upcall") BY <1>1 DEF RingWhole
  <2> QED BY <2>1, AfterSame DEF Laid
<1>3. (prog.pc = "body" => FrameAfter(rxpkts, 0, prog.net, prog.len))'
  BY <1>1, AfterSame DEF RingWhole
<1>4. (prog.pc = "upcall" => Whole(prog.net, prog.hold))'
  BY <1>1, WholeSame DEF RingWhole
<1> QED BY <1>1, <1>2, <1>3, <1>4 DEF RingWhole, Header

LEMMA MoveRing ==
  ASSUME NEW ring, NEW p, NEW q, RingWhole(ring, p),
         p.pc \notin {"body", "upcall"}, q.pc \notin {"body", "upcall"}
  PROVE  RingWhole(ring, q)
<1>1. Laid(ring, FALSE) /\ (ring # <<>> => ring[1][4] = 0) BY DEF RingWhole
<1>2. (q.pc = "upcall") = FALSE OBVIOUS
<1> QED BY <1>1, <1>2 DEF RingWhole

(* A header in an empty ring, or after what is there.                       *)
LEMMA FirstUnit ==
  ASSUME NEW ring \in Content, NEW more \in Content, more # <<>>,
         (ring # <<>> /\ ring[1][4] = 0) \/ (ring = <<>> /\ more[1][4] = 0)
  PROVE  /\ ring \o more # <<>> /\ (ring \o more)[1][4] = 0
         /\ (ring \o more)[Len(ring \o more)] = more[Len(more)]
  BY DEF Content

(* A poll stores the header of a frame that it holds.                       *)
LEMMA PollRing ==
  ASSUME RingInv, RingWhole(rxpkts, prog), prog.pc = "rx", setup' = setup,
         NEW w \in Nets, prog.net = w, NEW data, Whole(w, data), Poll_upcall(w, data)
  PROVE  RingWhole(rxpkts, prog)'
<1>0. setup \in Setups /\ ProgOK /\ rxpkts \in Content BY DEF RingInv
<1>1. CASE ~Fits(rxpkts, data)
  <2>1. rxpkts' = rxpkts /\ prog' = prog BY <1>1 DEF Poll_upcall
  <2> QED BY <2>1, StepRing
<1>2. CASE Fits(rxpkts, data)
  <2> DEFINE q == [prog EXCEPT !.pc = "upcall", !.hold = data]
             hdr == Header(w, data)
             ring == rxpkts \o <<hdr>>
  <2>1. data \in Content /\ Len(data) \in Nat BY <1>0, WholeIs
  <2>2. <<hdr>> \in Content /\ hdr[4] = 0 /\ Len(<<hdr>>) = 1
    BY <2>1, HeaderType DEF Header
  <2>3. Len(rxpkts) \in Nat /\ Len(rxpkts) + 1 + Len(data) <= BUFFLEN
    BY <1>0, <1>2, <2>1, BuffLenIs DEF Fits, Room, Content
  <2>4. rxpkts' = buff_in(rxpkts, <<hdr>>) /\ prog' = q BY <1>2 DEF Poll_upcall
  <2>5. buff_in(rxpkts, <<hdr>>) = ring
    <3>1. Len(rxpkts) + Len(<<hdr>>) <= BUFFLEN BY <2>1, <2>2, <2>3, BuffLenIs
    <3> HIDE DEF hdr
    <3> QED BY <1>0, <2>2, <3>1, BuffInAll
  <2>6. q.pc = "upcall" /\ q.net = w /\ q.hold = data BY <1>0 DEF ProgOK
  <2>7. Laid(rxpkts, FALSE) /\ (rxpkts # <<>> => rxpkts[1][4] = 0) BY DEF RingWhole
  <2>8. Laid(ring, TRUE) BY <1>0, <2>1, <2>7, LaidHeader
  <2>9. Len(ring) = Len(rxpkts) + 1 BY <1>0, <2>2 DEF Content
  <2>10. ring # <<>> /\ ring[1][4] = 0 /\ ring[Len(ring)] = hdr
    <3>1. <<hdr>> # <<>> /\ <<hdr>>[1] = hdr /\ <<hdr>>[Len(<<hdr>>)] = hdr OBVIOUS
    <3> HIDE DEF hdr
    <3> QED BY <1>0, <2>2, <2>7, <3>1, FirstUnit
  <2>11. Len(ring) + Len(data) <= BUFFLEN BY <2>3, <2>9
  <2> HIDE DEF ring, q
  <2>12. (q.pc = "upcall") = TRUE BY <2>6
  <2>13. RingWhole(ring, q)
    BY <2>6, <2>8, <2>10, <2>11, <2>12 DEF RingWhole
  <2> QED BY <2>4, <2>5, <2>13, StepRing
<1> QED BY <1>1, <1>2

(* A handler stores a header and its frame.                                 *)
LEMMA InterruptRing ==
  ASSUME RingInv, RingWhole(rxpkts, prog), prog.pc # "upcall", setup' = setup,
         prog' = prog, NEW w \in Nets, NEW data, Whole(w, data), Interrupt_upcall(w, data)
  PROVE  RingWhole(rxpkts, prog)'
<1>0. setup \in Setups /\ ProgOK /\ rxpkts \in Content BY DEF RingInv
<1>1. CASE ~Fits(rxpkts, data)
  <2>1. rxpkts' = rxpkts BY <1>1 DEF Interrupt_upcall
  <2> QED BY <2>1, StepRing
<1>2. CASE Fits(rxpkts, data)
  <2> DEFINE hdr == Header(w, data)
             ring == rxpkts \o <<hdr>>
             long == ring \o data
  <2>1. /\ data \in Content /\ Len(data) \in Nat
        /\ \A j \in 1 .. Len(data) : data[j][4] = j
    BY <1>0, WholeIs
  <2>2. <<hdr>> \in Content /\ hdr[4] = 0 /\ Len(<<hdr>>) = 1
    BY <2>1, HeaderType DEF Header
  <2>3. Len(rxpkts) \in Nat /\ Len(rxpkts) + 1 + Len(data) <= BUFFLEN
    BY <1>0, <1>2, <2>1, BuffLenIs DEF Fits, Room, Content
  <2>4. rxpkts' = buff_in(buff_in(rxpkts, <<hdr>>), data) BY <1>2 DEF Interrupt_upcall
  <2>5. buff_in(rxpkts, <<hdr>>) = ring
    <3>1. Len(rxpkts) + Len(<<hdr>>) <= BUFFLEN BY <2>1, <2>2, <2>3, BuffLenIs
    <3> HIDE DEF hdr
    <3> QED BY <1>0, <2>2, <3>1, BuffInAll
  <2>6. Len(ring) = Len(rxpkts) + 1 /\ ring \in Content /\ ring # <<>> /\ ring[Len(ring)] = hdr
    BY <1>0, <2>2 DEF Content
  <2>7. buff_in(ring, data) = long BY <2>1, <2>3, <2>6, BuffInAll
  <2>8. Laid(rxpkts, FALSE) BY DEF RingWhole
  <2>9. Laid(ring, TRUE) BY <1>0, <2>1, <2>8, LaidHeader
  <2>10. Laid(long, FALSE) BY <1>0, <2>6, <2>9, LaidFrame
  <2>11. prog.pc = "body" => FrameAfter(long, 0, prog.net, prog.len)
    <3> SUFFICES ASSUME prog.pc = "body" PROVE FrameAfter(long, 0, prog.net, prog.len)
      OBVIOUS
    <3>1. FrameAfter(rxpkts, 0, prog.net, prog.len) BY DEF RingWhole
    <3>2. prog.net \in Nets /\ 0 \in Nat BY <1>0, ProgParts
    <3>3. <<hdr>>[1][4] = 0 BY <2>2
    <3>4. FrameAfter(ring, 0, prog.net, prog.len)
      BY <1>0, <2>2, <3>1, <3>2, <3>3, AfterGrow
    <3>5. 0 + prog.len # Len(ring)
      BY <1>0, <2>3, <2>6, <3>1, <3>2, AfterIs
    <3> QED BY <1>0, <2>1, <2>6, <3>2, <3>4, <3>5, AfterGrow
  <2>12. prog.pc # "body" => long[1][4] = 0
    <3>1. prog.pc # "body" /\ rxpkts # <<>> => rxpkts[1][4] = 0 BY DEF RingWhole
    <3>2. <<hdr>> # <<>> /\ <<hdr>>[1][4] = 0 BY <2>2
    <3>3. prog.pc # "body" => ring[1][4] = 0 BY <1>0, <2>2, <3>1, <3>2, FirstUnit
    <3>4. long[1] = ring[1] BY <2>1, <2>6 DEF Content
    <3> QED BY <3>3, <3>4
  <2> HIDE DEF long
  <2>13. (prog.pc = "upcall") = FALSE OBVIOUS
  <2>14. RingWhole(long, prog) BY <2>10, <2>11, <2>12, <2>13 DEF RingWhole
  <2> QED BY <2>4, <2>5, <2>7, <2>14, StepRing
<1> QED BY <1>1, <1>2

-----------------------------------------------------------------------------
(* The devices hold frames whole.                                           *)

LEMMA SameNets ==
  ASSUME NetsWhole, setup' = setup, arrived' = arrived, dev' = dev PROVE NetsWhole'
<1> SUFFICES ASSUME NEW v \in Nets PROVE NetWhole(v, dev[v])' BY DEF NetsWhole
<1>1. NetWhole(v, dev'[v]) BY DEF NetsWhole
<1>2. Next_(v)' = Next_(v) BY FrameSame DEF Next_
<1> QED BY <1>1, <1>2, WholeSame DEF NetWhole, Kind, Starts

LEMMA StepNets ==
  ASSUME DevOK, NetsWhole, setup' = setup, NEW w \in Nets, NEW card, NetWhole(w, card),
         Kind(w) # "pktd", dev' = [dev EXCEPT ![w] = card],
         \A v \in Nets : Kind(v) = "pktd" => arrived'[v] = arrived[v]
  PROVE  NetsWhole'
<1> DEFINE d == dev'
<1>1. \A v \in Nets : d[v] = IF v = w THEN card ELSE dev[v] BY DEF DevOK
<1> HIDE DEF d
<1>2. \A v \in Nets : NetWhole(v, d[v]) BY <1>1 DEF NetsWhole
<1>3. ASSUME NEW v \in Nets PROVE NetWhole(v, dev[v])'
  <2>1. NetWhole(v, dev'[v]) BY <1>2 DEF d
  <2> QED BY <2>1 DEF NetWhole, Next_, Whole, Frame, Total, Kind, Starts
<1> QED BY <1>3 DEF NetsWhole

LEMMA SameGot == ASSUME GotWhole, setup' = setup, got' = got PROVE GotWhole'
  BY DEF GotWhole, Whole, Frame, Total

LEMMA NicGivesWhole ==
  ASSUME NEW w \in Nets, Kind(w) = "ne", NEW card, NicOK(card), NicRing(card),
         NetWhole(w, card), NEW r, r = get_etherne(card)
  PROVE  NetWhole(w, r.card) /\ (r.data # <<>> => Whole(w, r.data))
<1>0. \A p \in Starts(card) : Whole(w, card.ram[p]) BY DEF NetWhole
<1>1. CASE card.overrun
  <2>1. r.card = resetnic(card) /\ r.data = <<>> BY <1>1 DEF get_etherne
  <2>2. Starts(resetnic(card)) = {} BY DEF Starts, resetnic, NicReset, Pages
  <2> QED BY <2>1, <2>2 DEF NetWhole
<1>2. CASE ~card.overrun /\ card.curr # card.next
  <2> DEFINE c == r.card
  <2>1. r.data = card.ram[card.next] /\ card.next \in Starts(card) /\ card.next \in Pages
    BY <1>2 DEF get_etherne, NicRing, Starts
  <2>2. c.ram = [card.ram EXCEPT ![card.next] = <<>>]
    BY <1>2 DEF get_etherne, NicOK
  <2>3. card.ram \in [Pages -> Content] BY DEF NicOK
  <2> HIDE DEF c
  <2>4. \A p \in Pages : c.ram[p] = IF p = card.next THEN <<>> ELSE card.ram[p]
    BY <2>1, <2>2, <2>3
  <2>5. \A p \in Starts(c) : p \in Starts(card) /\ c.ram[p] = card.ram[p]
    BY <2>4 DEF Starts
  <2>6. NetWhole(w, c) BY <1>0, <2>5 DEF NetWhole
  <2> QED BY <1>0, <2>1, <2>6 DEF c
<1>3. CASE ~card.overrun /\ card.curr = card.next
  BY <1>3 DEF get_etherne
<1> QED BY <1>1, <1>2, <1>3

LEMMA FifoGivesWhole ==
  ASSUME NEW w \in Nets, Kind(w) = "3c", NEW card, FifoOK(card),
         NetWhole(w, card), NEW r, r = get_ether3c(card)
  PROVE  NetWhole(w, r.card) /\ (r.data # <<>> => Whole(w, r.data))
<1>0. /\ \A i \in DOMAIN card.rx : card.rx[i].ok => Whole(w, card.rx[i].data)
      /\ card.rx \in Seq([data: Content, ok: BOOLEAN])
  BY DEF NetWhole, FifoOK
<1>1. CASE card.rx = <<>> BY <1>1 DEF get_ether3c
<1>2. CASE card.rx # <<>>
  <2>1. /\ Head(card.rx) = card.rx[1] /\ Len(card.rx) \in Nat \ {0}
        /\ Len(Tail(card.rx)) = Len(card.rx) - 1
        /\ Tail(card.rx) \in Seq([data: Content, ok: BOOLEAN])
        /\ \A i \in 1 .. Len(card.rx) - 1 : Tail(card.rx)[i] = card.rx[i + 1]
        /\ Head(card.rx) \in [data: Content, ok: BOOLEAN]
    BY <1>0, <1>2, HeadTailType
  <2>2. DOMAIN card.rx = 1 .. Len(card.rx) /\ DOMAIN Tail(card.rx) = 1 .. Len(card.rx) - 1
    BY <1>0, <2>1
  <2>3. r.data # <<>> => Head(card.rx).ok /\ r.data = Head(card.rx).data
    BY <1>2, <2>1 DEF get_ether3c
  <2>4. r.data # <<>> => Whole(w, r.data) BY <1>0, <2>1, <2>2, <2>3
  <2>5. r.card.rx = Tail(card.rx) BY <1>2 DEF get_ether3c, FifoOK
  <2>6. ASSUME NEW i \in DOMAIN r.card.rx, r.card.rx[i].ok PROVE Whole(w, r.card.rx[i].data)
    <3>1. i + 1 \in DOMAIN card.rx /\ r.card.rx[i] = card.rx[i + 1]
      BY <2>1, <2>2, <2>5, <2>6
    <3> QED BY <1>0, <2>6, <3>1
  <2>7. NetWhole(w, r.card) BY <2>6 DEF NetWhole
  <2> QED BY <2>4, <2>7
<1> QED BY <1>1, <1>2

-----------------------------------------------------------------------------
(* Each action keeps the frames whole.                                      *)

(* The program moves on, and takes nothing from the ring.                   *)
LEMMA StepOn ==
  ASSUME WholeInv, setup' = setup, got' = got, rxpkts' = rxpkts, NetsWhole',
         prog.pc \notin {"body", "upcall"}, prog'.pc \notin {"body", "upcall"}
  PROVE  WholeInv'
<1> DEFINE q == prog'
<1>1. RingWhole(rxpkts, prog) /\ GotWhole BY DEF WholeInv
<1>2. q.pc \notin {"body", "upcall"} OBVIOUS
<1> HIDE DEF q
<1>3. RingWhole(rxpkts, q) BY <1>1, <1>2, MoveRing
<1>4. RingWhole(rxpkts, prog)' BY <1>3, StepRing DEF q
<1> QED BY <1>1, <1>4, SameGot DEF WholeInv

LEMMA GetHeaderWhole == ASSUME RingInv, WholeInv, GetHeader PROVE WholeInv'
<1>1. /\ setup \in Setups /\ rxpkts \in Content /\ RingWhole(rxpkts, prog) /\ ProgOK
      /\ setup' = setup /\ dev' = dev /\ arrived' = arrived /\ got' = got
      /\ prog.pc = "receive"
  BY DEF RingInv, WholeInv, GetHeader
<1>2. NetsWhole' BY <1>1, SameNets DEF WholeInv
<1>3. CASE rxpkts = <<>>
  <2>1. rxpkts' = rxpkts /\ prog' = Polling BY <1>3 DEF GetHeader
  <2>2. prog'.pc = "rx" BY <1>1, <2>1, StepPolling
  <2> QED BY <1>1, <1>2, <2>1, <2>2, StepOn
<1>4. CASE rxpkts # <<>>
  <2> DEFINE q == [prog EXCEPT !.pc = "body", !.net = rxpkts[1][2], !.len = rxpkts[1][3]]
             rest == Tail(rxpkts)
  <2>1. Laid(rxpkts, FALSE) /\ rxpkts[1][4] = 0 BY <1>1, <1>4 DEF RingWhole
  <2>2. 1 \in DOMAIN rxpkts /\ rxpkts[1] \in Unit BY <1>1, <1>4 DEF Content
  <2>3. rxpkts[1][1] = "hdr" /\ FrameAfter(rxpkts, 1, rxpkts[1][2], rxpkts[1][3])
    BY <2>1, <2>2 DEF Laid
  <2>4. rxpkts' = rest /\ prog' = q BY <1>4, <2>3 DEF GetHeader
  <2>5. /\ rest \in Content /\ Len(rest) = Len(rxpkts) - 1
        /\ \A j \in 1 .. Len(rest) : rest[j] = rxpkts[j + 1]
    BY <1>1, <1>4, HeadTailType DEF Content
  <2>6. q.pc = "body" /\ q.net = rxpkts[1][2] /\ q.len = rxpkts[1][3] BY <1>1 DEF ProgOK
  <2> HIDE DEF rest, q
  <2>7. Laid(rest, FALSE)
    <3>1. 1 \in Nat OBVIOUS
    <3> QED BY <1>1, <2>1, <2>5, <3>1, LaidDrop
  <2>8. FrameAfter(rest, 0, rxpkts[1][2], rxpkts[1][3])
    <3>1. 1 \in Nat /\ 0 \in Nat /\ 0 + 1 = 1 /\ rxpkts[1][2] \in Nets BY <2>2, UnitParts
    <3>2. FrameAfter(rxpkts, 0 + 1, rxpkts[1][2], rxpkts[1][3]) BY <2>3, <3>1
    <3> QED BY <1>1, <2>5, <3>1, <3>2, AfterDrop
  <2>9. (q.pc = "upcall") = FALSE BY <2>6
  <2>10. RingWhole(rest, q) BY <2>6, <2>7, <2>8, <2>9 DEF RingWhole
  <2>11. RingWhole(rxpkts, prog)' BY <1>1, <2>4, <2>10, StepRing
  <2> QED BY <1>1, <1>2, <2>11, SameGot DEF WholeInv
<1> QED BY <1>3, <1>4

LEMMA RestOf ==
  ASSUME NEW S, NEW s \in Seq(S), NEW k \in 0 .. Len(s)
  PROVE  /\ SubSeq(s, k + 1, Len(s)) \in Seq(S) /\ Len(SubSeq(s, k + 1, Len(s))) = Len(s) - k
         /\ \A j \in 1 .. Len(s) - k : SubSeq(s, k + 1, Len(s))[j] = s[j + k]
<1>1. Len(s) \in Nat /\ k \in Nat /\ k + 1 \in Nat /\ k <= Len(s) OBVIOUS
<1>2. SubSeq(s, k + 1, Len(s)) \in Seq(S) BY <1>1
<1>3. Len(SubSeq(s, k + 1, Len(s))) = Len(s) - k BY <1>1
<1>4. ASSUME NEW j \in 1 .. Len(s) - k PROVE SubSeq(s, k + 1, Len(s))[j] = s[j + k]
  <2>1. SubSeq(s, k + 1, Len(s))[j] = s[(k + 1) + j - 1] BY <1>1
  <2>2. (k + 1) + j - 1 = j + k BY <1>1
  <2> QED BY <2>1, <2>2
<1> QED BY <1>2, <1>3, <1>4

LEMMA GetBodyWhole == ASSUME RingInv, WholeInv, GetBody PROVE WholeInv'
<1> DEFINE n == Least(prog.len, Len(rxpkts))
           data == SubSeq(rxpkts, 1, n)
           rest == SubSeq(rxpkts, n + 1, Len(rxpkts))
<1>1. /\ setup \in Setups /\ rxpkts \in Content /\ RingWhole(rxpkts, prog) /\ ProgOK
      /\ setup' = setup /\ dev' = dev /\ arrived' = arrived /\ prog.pc = "body"
      /\ rxpkts' = rest /\ got' = Append(got, [net |-> prog.net, data |-> data])
  BY DEF RingInv, WholeInv, GetBody
<1>2. NetsWhole' BY <1>1, SameNets DEF WholeInv
<1>3. prog' = Polling /\ prog'.pc = "rx" BY <1>1, GetBodyProg, StepPolling
<1>4. FrameAfter(rxpkts, 0, prog.net, prog.len) /\ Laid(rxpkts, FALSE) BY <1>1 DEF RingWhole
<1>5. prog.net \in Nets BY <1>1, ProgParts
<1>6. Len(rxpkts) \in Nat /\ prog.len \in Nat /\ prog.len <= Len(rxpkts)
  BY <1>1, <1>4, <1>5, AfterIs DEF Content
<1>7. n = prog.len BY <1>6 DEF Least
<1> HIDE DEF n
<1>8. /\ data \in Content /\ Len(data) = prog.len
      /\ \A j \in 1 .. prog.len : data[j] = rxpkts[j]
  BY <1>1, <1>6, <1>7 DEF Content
<1>9. /\ rest \in Content /\ Len(rest) = Len(rxpkts) - prog.len
      /\ \A j \in 1 .. Len(rest) : rest[j] = rxpkts[j + prog.len]
  <2>1. prog.len \in 0 .. Len(rxpkts) BY <1>6
  <2> QED BY <1>1, <1>7, <2>1, RestOf DEF Content
<1> HIDE DEF data, rest
<1>10. Whole(prog.net, data)
  <2>1. PICK m \in 1 .. Total(prog.net) :
          /\ prog.len = Len(Frame(prog.net, m))
          /\ \A j \in 1 .. prog.len : rxpkts[0 + j] = Frame(prog.net, m)[j]
    BY <1>4 DEF FrameAfter
  <2>2. Frame(prog.net, m) \in Content BY <1>1, <1>5, <2>1, FrameType
  <2>3. \A j \in 1 .. prog.len : data[j] = Frame(prog.net, m)[j]
    <3>1. \A j \in 1 .. prog.len : 0 + j = j BY <1>6
    <3> QED BY <1>8, <2>1, <3>1
  <2>4. data = Frame(prog.net, m) BY <1>8, <2>1, <2>2, <2>3 DEF Content
  <2> QED BY <2>1, <2>4 DEF Whole
<1>11. GotWhole'
  <2> DEFINE g == [net |-> prog.net, data |-> data]
             all == Append(got, g)
  <2>1. g \in [net: Nets, data: Content] BY <1>5, <1>8
  <2>2. got \in Seq([net: Nets, data: Content]) /\ \A k \in DOMAIN got : Whole(got[k].net, got[k].data)
    BY DEF WholeInv, GotWhole
  <2>3. Whole(g.net, g.data) BY <1>10
  <2> HIDE DEF g
  <2>4. /\ all \in Seq([net: Nets, data: Content])
        /\ \A k \in DOMAIN all : all[k] = g \/ (k \in DOMAIN got /\ all[k] = got[k])
    BY <2>1, <2>2
  <2> HIDE DEF all
  <2>5. \A k \in DOMAIN all : Whole(all[k].net, all[k].data) BY <2>2, <2>3, <2>4
  <2>6. got' = all BY <1>1 DEF all, g
  <2> QED BY <1>1, <2>4, <2>5, <2>6, WholeSame DEF GotWhole
<1>12. Laid(rest, FALSE) BY <1>1, <1>4, <1>6, <1>9, LaidDrop
<1>13. rest # <<>> => rest[1][4] = 0
  <2>1. rest # <<>> => Len(rest) >= 1 BY <1>9 DEF Content
  <2>2. rest # <<>> => /\ rest[1] = rxpkts[1 + prog.len] /\ 1 + prog.len = 0 + prog.len + 1
                       /\ 0 + prog.len < Len(rxpkts)
    BY <1>6, <1>9, <2>1
  <2> QED BY <1>4, <2>2 DEF FrameAfter
<1> DEFINE q == Polling
<1>14. q.pc = "rx" BY <1>3
<1> HIDE DEF q
<1>15. (q.pc = "upcall") = FALSE BY <1>14
<1>16. RingWhole(rest, q) BY <1>12, <1>13, <1>14, <1>15 DEF RingWhole
<1>17. RingWhole(rxpkts, prog)' BY <1>1, <1>3, <1>16, StepRing DEF q
<1> QED BY <1>2, <1>11, <1>17 DEF WholeInv

LEMMA UpcallBodyWhole == ASSUME RingInv, WholeInv, UpcallBody PROVE WholeInv'
<1>1. /\ setup \in Setups /\ rxpkts \in Content /\ RingWhole(rxpkts, prog) /\ ProgOK
      /\ setup' = setup /\ dev' = dev /\ arrived' = arrived /\ got' = got
      /\ prog.pc = "upcall" /\ rxpkts' = buff_in(rxpkts, prog.hold)
  BY DEF RingInv, WholeInv, UpcallBody
<1>2. NetsWhole' BY <1>1, SameNets DEF WholeInv
<1> DEFINE q == [prog EXCEPT !.pc = "rx", !.hold = <<>>]
           long == rxpkts \o prog.hold
<1>3. prog' = q BY DEF UpcallBody
<1>4. q.pc = "rx" BY <1>1 DEF ProgOK
<1>5. /\ Laid(rxpkts, TRUE) /\ rxpkts # <<>> /\ rxpkts[1][4] = 0
      /\ Whole(prog.net, prog.hold) /\ rxpkts[Len(rxpkts)] = Header(prog.net, prog.hold)
      /\ Len(rxpkts) + Len(prog.hold) <= BUFFLEN
  <2>1. (prog.pc = "upcall") = TRUE BY <1>1
  <2> QED BY <1>1, <2>1 DEF RingWhole
<1>6. prog.net \in Nets /\ prog.hold \in Content BY <1>1, ProgParts
<1>7. rxpkts' = long BY <1>1, <1>5, <1>6, BuffInAll
<1>8. Laid(long, FALSE) BY <1>1, <1>5, <1>6, LaidFrame
<1>9. long[1] = rxpkts[1] BY <1>1, <1>5, <1>6 DEF Content
<1> HIDE DEF q, long
<1>10. (q.pc = "upcall") = FALSE BY <1>4
<1>11. RingWhole(long, q) BY <1>4, <1>5, <1>8, <1>9, <1>10 DEF RingWhole
<1>12. RingWhole(rxpkts, prog)' BY <1>1, <1>3, <1>7, <1>11, StepRing
<1> QED BY <1>1, <1>2, <1>12, SameGot DEF WholeInv

(* A poll of a card gives a whole frame or none.                            *)
LEMMA PollNeRxWhole ==
  ASSUME RingInv, WholeInv, NEW w \in Nets, PollNeRx(w) PROVE WholeInv'
<1> DEFINE r == get_etherne(dev[w])
<1>1. /\ DevOK /\ RingWhole(rxpkts, prog) /\ ProgOK /\ NetsWhole
      /\ setup' = setup /\ arrived' = arrived /\ got' = got
      /\ prog.pc = "rx" /\ prog.net = w /\ Kind(w) = "ne"
      /\ dev' = [dev EXCEPT ![w] = r.card]
      /\ IF r.data # <<>> THEN Poll_upcall(w, r.data)
         ELSE prog' = [prog EXCEPT !.pc = "tx"] /\ rxpkts' = rxpkts
  BY DEF RingInv, WholeInv, PollNeRx
<1>2. NicOK(dev[w]) /\ NicRing(dev[w]) /\ NetWhole(w, dev[w])
  BY <1>1 DEF DevOK, NetOK, NetsWhole
<1>3. NetWhole(w, r.card) /\ (r.data # <<>> => Whole(w, r.data)) BY <1>1, <1>2, NicGivesWhole
<1> HIDE DEF r
<1>4. Kind(w) # "pktd" BY <1>1
<1>5. NetsWhole' BY <1>1, <1>3, <1>4, StepNets
<1>6. CASE r.data # <<>>
  <2>1. RingWhole(rxpkts, prog)' BY <1>1, <1>3, <1>6, PollRing
  <2> QED BY <1>1, <1>5, <2>1, SameGot DEF WholeInv
<1>7. CASE r.data = <<>>
  <2>1. rxpkts' = rxpkts /\ prog'.pc = "tx" BY <1>1, <1>7 DEF ProgOK
  <2> QED BY <1>1, <1>5, <2>1, StepOn
<1> QED BY <1>6, <1>7

LEMMA Poll3cRxWhole ==
  ASSUME RingInv, WholeInv, NEW w \in Nets, Poll3cRx(w) PROVE WholeInv'
<1> DEFINE r == get_ether3c(dev[w])
<1>1. /\ DevOK /\ RingWhole(rxpkts, prog) /\ ProgOK /\ NetsWhole
      /\ setup' = setup /\ arrived' = arrived /\ got' = got
      /\ prog.pc = "rx" /\ prog.net = w /\ Kind(w) = "3c"
      /\ dev' = [dev EXCEPT ![w] = r.card]
      /\ IF r.data # <<>> THEN Poll_upcall(w, r.data)
         ELSE prog' = [prog EXCEPT !.pc = "txstat"] /\ rxpkts' = rxpkts
  BY DEF RingInv, WholeInv, Poll3cRx
<1>2. FifoOK(dev[w]) /\ NetWhole(w, dev[w])
  BY <1>1 DEF DevOK, NetOK, NetsWhole
<1>3. NetWhole(w, r.card) /\ (r.data # <<>> => Whole(w, r.data)) BY <1>1, <1>2, FifoGivesWhole
<1> HIDE DEF r
<1>4. Kind(w) # "pktd" BY <1>1
<1>5. NetsWhole' BY <1>1, <1>3, <1>4, StepNets
<1>6. CASE r.data # <<>>
  <2>1. RingWhole(rxpkts, prog)' BY <1>1, <1>3, <1>6, PollRing
  <2> QED BY <1>1, <1>5, <2>1, SameGot DEF WholeInv
<1>7. CASE r.data = <<>>
  <2>1. rxpkts' = rxpkts /\ prog'.pc = "txstat" BY <1>1, <1>7 DEF ProgOK
  <2> QED BY <1>1, <1>5, <2>1, StepOn
<1> QED BY <1>6, <1>7

(* What is to be sent is no concern of the receive ring's.                  *)
LEMMA StepSent ==
  ASSUME RingInv, WholeInv, setup' = setup, arrived' = arrived, got' = got, rxpkts' = rxpkts,
         NEW w \in Nets, NEW card, Kind(w) \in {"ne", "3c"},
         Kind(w) = "ne" => card.ram = dev[w].ram, Kind(w) = "3c" => card.rx = dev[w].rx,
         dev' = [dev EXCEPT ![w] = card] \/ dev' = dev
  PROVE  NetsWhole' /\ (prog' = prog => WholeInv')
<1>1. DevOK /\ NetsWhole /\ RingWhole(rxpkts, prog) /\ GotWhole BY DEF RingInv, WholeInv
<1>2. NetWhole(w, dev[w]) /\ Kind(w) # "pktd" BY <1>1 DEF NetsWhole
<1>3. NetWhole(w, card) BY <1>2 DEF NetWhole, Starts
<1>4. NetsWhole' BY <1>1, <1>2, <1>3, StepNets, SameNets
<1>5. ASSUME prog' = prog PROVE WholeInv'
  <2>1. RingWhole(rxpkts, prog)' BY <1>1, <1>5, StepRing
  <2> QED BY <1>1, <1>4, <2>1, SameGot DEF WholeInv
<1> QED BY <1>4, <1>5

LEMMA StepSending ==
  ASSUME RingInv, WholeInv, setup' = setup, arrived' = arrived, got' = got, rxpkts' = rxpkts,
         prog.pc \notin {"body", "upcall"}, prog'.pc \notin {"body", "upcall"} \/ prog' = prog,
         NEW w \in Nets, NEW card, Kind(w) \in {"ne", "3c"},
         Kind(w) = "ne" => card.ram = dev[w].ram, Kind(w) = "3c" => card.rx = dev[w].rx,
         dev' = [dev EXCEPT ![w] = card] \/ dev' = dev
  PROVE  WholeInv'
<1>1. NetsWhole' BY StepSent
<1>2. prog'.pc \notin {"body", "upcall"} OBVIOUS
<1> QED BY <1>1, <1>2, StepOn

LEMMA PollNeTxWhole ==
  ASSUME RingInv, WholeInv, NEW w \in Nets, PollNeTx(w) PROVE WholeInv'
<1> DEFINE x == transmit_upcall(w).data
<1>1. /\ DevOK /\ ProgOK /\ setup' = setup /\ arrived' = arrived /\ got' = got /\ rxpkts' = rxpkts
      /\ prog.pc = "tx" /\ Kind(w) = "ne"
      /\ \/ dev' = [dev EXCEPT ![w] = put_etherne(@, x)] /\ prog' = prog
         \/ prog' = NextNet /\ dev' = dev
  BY DEF RingInv, PollNeTx
<1> HIDE DEF x
<1> DEFINE c == [dev[w] EXCEPT !.tx = x]
<1>2. NicOK(dev[w]) BY <1>1 DEF DevOK, NetOK
<1>3. c.ram = dev[w].ram BY <1>2 DEF NicOK
<1>4. dev' = [dev EXCEPT ![w] = c] \/ dev' = dev BY <1>1 DEF put_etherne
<1>5. prog'.pc \notin {"body", "upcall"} BY <1>1, StepNextNet
<1> HIDE DEF c
<1>6. Kind(w) = "3c" => c.rx = dev[w].rx BY <1>1
<1> QED BY <1>1, <1>3, <1>4, <1>5, <1>6, StepSending

LEMMA Poll3cStatWhole ==
  ASSUME RingInv, WholeInv, NEW w \in Nets, Poll3cStat(w) PROVE WholeInv'
<1>1. /\ DevOK /\ ProgOK /\ setup' = setup /\ arrived' = arrived /\ got' = got /\ rxpkts' = rxpkts
      /\ prog.pc = "txstat" /\ prog.net = w /\ prog' = [prog EXCEPT !.pc = "tx"]
      /\ dev' = [dev EXCEPT ![w].tx = <<>>, ![w].txerr = FALSE] \/ dev' = dev
  BY DEF RingInv, Poll3cStat
<1> DEFINE c == [dev[w] EXCEPT !.tx = <<>>, !.txerr = FALSE]
<1>2. Kind(w) = "3c" BY <1>1 DEF ProgOK
<1>3. FifoOK(dev[w]) BY <1>1, <1>2 DEF DevOK, NetOK
<1>4. c.rx = dev[w].rx BY <1>3 DEF FifoOK
<1>5. dev' = [dev EXCEPT ![w] = c] \/ dev' = dev BY <1>1 DEF DevOK
<1>6. prog'.pc \notin {"body", "upcall"} BY <1>1 DEF ProgOK
<1> HIDE DEF c
<1>7. Kind(w) = "ne" => c.ram = dev[w].ram BY <1>2
<1> QED BY <1>1, <1>2, <1>4, <1>5, <1>6, <1>7, StepSending

LEMMA Poll3cTxWhole ==
  ASSUME RingInv, WholeInv, NEW w \in Nets, Poll3cTx(w) PROVE WholeInv'
<1> DEFINE x == transmit_upcall(w).data
<1>1. /\ DevOK /\ ProgOK /\ setup' = setup /\ arrived' = arrived /\ got' = got /\ rxpkts' = rxpkts
      /\ prog.pc = "tx" /\ Kind(w) = "3c"
      /\ \/ dev' = [dev EXCEPT ![w] = put_ether3c(@, x)] /\ prog' = prog
         \/ prog' = NextNet /\ dev' = dev
  BY DEF RingInv, Poll3cTx
<1> HIDE DEF x
<1> DEFINE c == [dev[w] EXCEPT !.tx = Append(@, x)]
<1>2. FifoOK(dev[w]) BY <1>1 DEF DevOK, NetOK
<1>3. c.rx = dev[w].rx BY <1>2 DEF FifoOK
<1>4. dev' = [dev EXCEPT ![w] = c] \/ dev' = dev BY <1>1 DEF put_ether3c
<1>5. prog'.pc \notin {"body", "upcall"} BY <1>1, StepNextNet
<1> HIDE DEF c
<1>6. Kind(w) = "ne" => c.ram = dev[w].ram BY <1>1
<1> QED BY <1>1, <1>3, <1>4, <1>5, <1>6, StepSending

LEMMA PollPktdWhole ==
  ASSUME RingInv, WholeInv, NEW w \in Nets, PollPktd(w) PROVE WholeInv'
<1>1. /\ ProgOK /\ setup' = setup /\ arrived' = arrived /\ got' = got /\ rxpkts' = rxpkts
      /\ dev' = dev /\ prog.pc = "rx" /\ prog' = NextNet
  BY DEF RingInv, PollPktd
<1>2. NetsWhole' BY <1>1, SameNets DEF WholeInv
<1>3. prog'.pc \notin {"body", "upcall"} BY <1>1, StepNextNet
<1> QED BY <1>1, <1>2, <1>3, StepOn

LEMMA NicSentWhole ==
  ASSUME RingInv, WholeInv, NEW w \in Nets, NicSent(w) PROVE WholeInv'
<1>1. /\ DevOK /\ setup' = setup /\ arrived' = arrived /\ got' = got /\ rxpkts' = rxpkts
      /\ prog' = prog /\ Kind(w) = "ne" /\ dev' = [dev EXCEPT ![w].tx = <<>>]
  BY DEF RingInv, NicSent
<1> DEFINE c == [dev[w] EXCEPT !.tx = <<>>]
<1>2. NicOK(dev[w]) BY <1>1 DEF DevOK, NetOK
<1>3. c.ram = dev[w].ram BY <1>2 DEF NicOK
<1>4. dev' = [dev EXCEPT ![w] = c] \/ dev' = dev BY <1>1
<1> HIDE DEF c
<1>5. Kind(w) = "3c" => c.rx = dev[w].rx BY <1>1
<1>6. /\ setup' = setup /\ arrived' = arrived /\ got' = got /\ rxpkts' = rxpkts
      /\ prog' = prog /\ Kind(w) \in {"ne", "3c"}
  BY <1>1
<1>7. WholeInv /\ RingInv OBVIOUS
<1>8. /\ Kind(w) = "ne" => c.ram = dev[w].ram
      /\ Kind(w) = "3c" => c.rx = dev[w].rx
  BY <1>3, <1>5
<1> QED BY <1>4, <1>6, <1>7, <1>8, StepSent

LEMMA FifoSentWhole ==
  ASSUME RingInv, WholeInv, NEW w \in Nets, NEW ok \in BOOLEAN, FifoSent(w, ok) PROVE WholeInv'
<1>1. /\ DevOK /\ setup' = setup /\ arrived' = arrived /\ got' = got /\ rxpkts' = rxpkts
      /\ prog' = prog /\ Kind(w) = "3c" /\ dev' = [dev EXCEPT ![w].tx = Tail(@), ![w].txerr = ~ok]
  BY DEF RingInv, FifoSent
<1> DEFINE c == [dev[w] EXCEPT !.tx = Tail(@), !.txerr = ~ok]
<1>2. FifoOK(dev[w]) BY <1>1 DEF DevOK, NetOK
<1>3. c.rx = dev[w].rx BY <1>2 DEF FifoOK
<1>4. dev' = [dev EXCEPT ![w] = c] \/ dev' = dev BY <1>1 DEF DevOK
<1> HIDE DEF c
<1>5. Kind(w) = "ne" => c.ram = dev[w].ram BY <1>1
<1>6. /\ setup' = setup /\ arrived' = arrived /\ got' = got /\ rxpkts' = rxpkts
      /\ prog' = prog /\ Kind(w) \in {"ne", "3c"}
  BY <1>1
<1>7. WholeInv /\ RingInv OBVIOUS
<1>8. /\ Kind(w) = "ne" => c.ram = dev[w].ram
      /\ Kind(w) = "3c" => c.rx = dev[w].rx
  BY <1>3, <1>5
<1> QED BY <1>4, <1>6, <1>7, <1>8, StepSent

(* A frame that arrives is stored whole, or not.                            *)
LEMMA StepArrived ==
  ASSUME RingInv, WholeInv, setup' = setup, got' = got, rxpkts' = rxpkts, prog' = prog, NetsWhole'
  PROVE  WholeInv'
<1>1. RingWhole(rxpkts, prog) /\ GotWhole BY DEF WholeInv
<1>2. RingWhole(rxpkts, prog)' BY <1>1, StepRing
<1> QED BY <1>1, <1>2, SameGot DEF WholeInv

LEMMA OthersKeep ==
  ASSUME RingInv, NEW w \in Nets, Kind(w) # "pktd", Arrive(w)
  PROVE  \A v \in Nets : Kind(v) = "pktd" => arrived'[v] = arrived[v]
<1>1. arrived \in [Nets -> Nat] BY DEF RingInv, ArrivedOK
<1> QED BY <1>1 DEF Arrive

LEMMA NicArriveWhole ==
  ASSUME RingInv, WholeInv, NEW w \in Nets, NicArrive(w) PROVE WholeInv'
<1>1. /\ DevOK /\ NetsWhole /\ setup' = setup /\ got' = got /\ rxpkts' = rxpkts
      /\ prog' = prog /\ Kind(w) = "ne" /\ Kind(w) # "pktd" /\ arrived[w] < Total(w) /\ Arrive(w)
  BY DEF RingInv, WholeInv, NicArrive, Arriving
<1>2. \A v \in Nets : Kind(v) = "pktd" => arrived'[v] = arrived[v] BY <1>1, OthersKeep
<1> DEFINE data == Next_(w)
           c1 == [dev[w] EXCEPT !.overrun = TRUE]
           c2 == [dev[w] EXCEPT !.ram[dev[w].curr] = data, !.curr = nicwrap(@ + Len(data))]
<1>3. dev' = [dev EXCEPT ![w] = c1] \/ dev' = [dev EXCEPT ![w] = c2]
  <2>1. \/ dev' = [dev EXCEPT ![w].overrun = TRUE]
        \/ dev' = [dev EXCEPT ![w].ram[dev[w].curr] = data, ![w].curr = nicwrap(@ + Len(data))]
    BY DEF NicArrive
  <2> HIDE DEF data
  <2> QED BY <1>1, <2>1 DEF DevOK
<1>4. NicOK(dev[w]) /\ NetWhole(w, dev[w]) BY <1>1 DEF DevOK, NetOK, NetsWhole
<1>5. Whole(w, data) BY <1>1, NextType
<1>6. \A p \in Starts(dev[w]) : Whole(w, dev[w].ram[p]) BY <1>1, <1>4 DEF NetWhole
<1> HIDE DEF data
<1>7. NetWhole(w, c1)
  <2>1. c1.ram = dev[w].ram BY <1>4 DEF NicOK
  <2> QED BY <1>1, <1>6, <2>1 DEF NetWhole, Starts
<1>8. NetWhole(w, c2)
  <2>1. c2.ram = [dev[w].ram EXCEPT ![dev[w].curr] = data] /\ dev[w].ram \in [Pages -> Content]
    BY <1>4 DEF NicOK
  <2> HIDE DEF c2
  <2>2. \A p \in Pages : c2.ram[p] = data \/ c2.ram[p] = dev[w].ram[p] BY <2>1
  <2>3. ASSUME NEW p \in Starts(c2) PROVE Whole(w, c2.ram[p])
    <3>1. p \in Pages /\ c2.ram[p] # <<>> BY DEF Starts
    <3>2. CASE c2.ram[p] = data BY <1>5, <3>2
    <3>3. CASE c2.ram[p] = dev[w].ram[p]
      <4>1. p \in Starts(dev[w]) BY <3>1, <3>3 DEF Starts
      <4> QED BY <1>6, <3>3, <4>1
    <3> QED BY <2>2, <3>1, <3>2, <3>3
  <2> QED BY <1>1, <2>3 DEF NetWhole
<1> HIDE DEF c1, c2
<1>9. NetsWhole' BY <1>1, <1>2, <1>3, <1>7, <1>8, StepNets
<1>10. RingInv /\ WholeInv OBVIOUS
<1> QED BY <1>1, <1>9, <1>10, StepArrived

LEMMA FifoArriveWhole ==
  ASSUME RingInv, WholeInv, NEW w \in Nets, NEW ok \in BOOLEAN, FifoArrive(w, ok)
  PROVE  WholeInv'
<1>1. /\ DevOK /\ NetsWhole /\ setup' = setup /\ got' = got /\ rxpkts' = rxpkts
      /\ prog' = prog /\ Kind(w) = "3c" /\ Kind(w) # "pktd" /\ arrived[w] < Total(w) /\ Arrive(w)
  BY DEF RingInv, WholeInv, FifoArrive, Arriving
<1>2. \A v \in Nets : Kind(v) = "pktd" => arrived'[v] = arrived[v] BY <1>1, OthersKeep
<1> DEFINE new == [data |-> Next_(w), ok |-> ok]
           c == [dev[w] EXCEPT !.rx = Append(@, new)]
<1>3. dev' = [dev EXCEPT ![w] = c] \/ dev' = [dev EXCEPT ![w] = dev[w]]
  BY <1>1 DEF FifoArrive, DevOK
<1>4. FifoOK(dev[w]) /\ NetWhole(w, dev[w]) BY <1>1 DEF DevOK, NetOK, NetsWhole
<1>5. Whole(w, new.data) BY <1>1, NextType
<1>6. /\ \A i \in DOMAIN dev[w].rx : dev[w].rx[i].ok => Whole(w, dev[w].rx[i].data)
      /\ dev[w].rx \in Seq([data: Content, ok: BOOLEAN])
  BY <1>1, <1>4 DEF NetWhole, FifoOK
<1> HIDE DEF new
<1>7. NetWhole(w, c)
  <2>1. c.rx = Append(dev[w].rx, new) BY <1>4 DEF FifoOK
  <2> HIDE DEF c
  <2>2. \A i \in DOMAIN c.rx : c.rx[i] = new \/ (i \in DOMAIN dev[w].rx /\ c.rx[i] = dev[w].rx[i])
    BY <1>6, <2>1
  <2>3. \A i \in DOMAIN c.rx : c.rx[i].ok => Whole(w, c.rx[i].data) BY <1>5, <1>6, <2>2
  <2> QED BY <1>1, <2>3 DEF NetWhole
<1> HIDE DEF c
<1>8. NetsWhole'
  <2>1. CASE dev' = [dev EXCEPT ![w] = c] BY <1>1, <1>2, <1>7, <2>1, StepNets
  <2>2. CASE dev' = [dev EXCEPT ![w] = dev[w]] BY <1>1, <1>2, <1>4, <2>2, StepNets
  <2> QED BY <1>3, <2>1, <2>2
<1>9. RingInv /\ WholeInv OBVIOUS
<1> QED BY <1>1, <1>8, <1>9, StepArrived

(* A packet driver asks for room for the frame it then copies.              *)
LEMMA PktdNets ==
  ASSUME Apart, RingInv, NetsWhole, setup' = setup, NEW w \in Nets, Kind(w) = "pktd",
         \A v \in Nets \ {w} : arrived'[v] = arrived[v] /\ dev'[v] = dev[v],
         dev'[w].copying => dev'[w].rxlen = Len(Next_(w)) /\ arrived'[w] = arrived[w]
  PROVE  NetsWhole'
<1> SUFFICES ASSUME NEW v \in Nets PROVE NetWhole(v, dev[v])' BY DEF NetsWhole
<1>1. NetWhole(v, dev[v]) BY DEF NetsWhole
<1>2. CASE v = w
  <2>1. dev'[w].copying => Next_(w)' = Next_(w) BY FrameSame DEF Next_
  <2>2. Kind(w)' = Kind(w) BY DEF Kind
  <2> QED BY <1>2, <2>1, <2>2 DEF NetWhole
<1>3. CASE v # w
  <2>1. Next_(v)' = Next_(v) BY <1>3, FrameSame DEF Next_
  <2>2. dev'[v] = dev[v] BY <1>3
  <2> QED BY <1>1, <2>1, <2>2, WholeSame DEF NetWhole, Kind, Starts
<1> QED BY <1>2, <1>3

LEMMA PktdAllocWhole ==
  ASSUME Apart, RingInv, WholeInv, NEW w \in Nets, PktdAlloc(w) PROVE WholeInv'
<1>1. /\ setup \in Setups /\ DevOK /\ NetsWhole /\ arrived \in [Nets -> Nat]
      /\ setup' = setup /\ arrived' = arrived /\ rxpkts' = rxpkts /\ prog' = prog /\ got' = got
      /\ Kind(w) = "pktd" /\ arrived[w] < Total(w)
      /\ dev' = [dev EXCEPT ![handle2dtype(w)].rxlen = Len(Next_(w)), ![w].copying = TRUE]
  BY DEF RingInv, WholeInv, ArrivedOK, PktdAlloc, Arriving
<1>2. handle2dtype(w) = w /\ Len(Next_(w)) \in Nat BY <1>1, HandleIs, NextType
<1>3. dev'[w].rxlen = Len(Next_(w)) /\ \A v \in Nets \ {w} : dev'[v] = dev[v]
  <2> DEFINE n == Len(Next_(w))
  <2>1. dev' = [dev EXCEPT ![w].rxlen = n, ![w].copying = TRUE] BY <1>1, <1>2
  <2>2. n \in Nat /\ TRUE \in BOOLEAN /\ \A v \in Nets \ {w} : v \in Nets \ {w, w} BY <1>2
  <2> HIDE DEF n
  <2>3. dev'[w].rxlen = n /\ \A v \in Nets \ {w, w} : dev'[v] = dev[v]
    BY <1>1, <2>1, <2>2, PktdDev
  <2> QED BY <2>2, <2>3 DEF n
<1>4. NetsWhole' BY <1>1, <1>3, PktdNets
<1>5. RingInv /\ WholeInv OBVIOUS
<1> QED BY <1>1, <1>4, <1>5, StepArrived

LEMMA PktdCompleteWhole ==
  ASSUME Apart, Unmixed, RingInv, WholeInv, NEW w \in Nets, PktdComplete(w) PROVE WholeInv'
<1> DEFINE d == handle2dtype(w)
           data == SubSeq(Next_(w), 1, Least(dev[d].rxlen, Len(Next_(w))))
<1>1. /\ setup \in Setups /\ DevOK /\ ProgOK /\ NetsWhole /\ rxpkts \in Content
      /\ arrived \in [Nets -> Nat] /\ RingWhole(rxpkts, prog) /\ GotWhole
      /\ setup' = setup /\ prog' = prog /\ got' = got
      /\ Kind(w) = "pktd" /\ dev[w].copying /\ Arrive(w)
      /\ dev' = [dev EXCEPT ![w].copying = FALSE, ![d].rxlen = 0]
      /\ IF dev[d].rxlen > 0 THEN Interrupt_upcall(d, data) ELSE rxpkts' = rxpkts
  BY DEF RingInv, WholeInv, ArrivedOK, PktdComplete
<1>2. d = w BY <1>1, HandleIs
<1>3. arrived[w] < Total(w) BY <1>1 DEF RingInv, ArrivedOK
<1>4. Next_(w) \in Content /\ Len(Next_(w)) \in Nat /\ Whole(w, Next_(w)) BY <1>3, NextType
<1>5. dev[w].rxlen = Len(Next_(w)) BY <1>1 DEF NetsWhole, NetWhole
<1>6. data = Next_(w) BY <1>2, <1>4, <1>5 DEF Least, Content
<1>7. dev'[w].copying = FALSE /\ \A v \in Nets \ {w} : dev'[v] = dev[v]
  <2>1. dev' = [dev EXCEPT ![w].copying = FALSE, ![w].rxlen = 0] BY <1>1, <1>2
  <2>2. 0 \in Nat /\ FALSE \in BOOLEAN /\ \A v \in Nets \ {w} : v \in Nets \ {w, w} OBVIOUS
  <2>0. DevOK /\ setup' = setup /\ Kind(w) = "pktd" BY <1>1
  <2>3. dev'[w].copying = FALSE /\ \A v \in Nets \ {w, w} : dev'[v] = dev[v]
    BY <2>0, <2>1, <2>2, PktdDev
  <2> QED BY <2>2, <2>3
<1>8. NetsWhole'
  <2>1. \A v \in Nets \ {w} : arrived'[v] = arrived[v] BY <1>1 DEF Arrive
  <2> QED BY <1>1, <1>7, <2>1, PktdNets
<1>9. prog.pc # "upcall"
  <2>1. \A v \in Nets : Kind(v) = "pktd" BY <1>1 DEF Unmixed
  <2> QED BY <1>1, <2>1 DEF ProgOK
<1> HIDE DEF d, data
<1>10. RingWhole(rxpkts, prog)'
  <2>1. CASE dev[d].rxlen > 0
    <3>1. Interrupt_upcall(w, data) /\ Whole(w, data) BY <1>1, <1>2, <1>4, <1>6, <2>1
    <3>2. RingInv /\ RingWhole(rxpkts, prog) /\ setup' = setup /\ prog' = prog BY <1>1
    <3> QED BY <1>9, <3>1, <3>2, InterruptRing
  <2>2. CASE ~(dev[d].rxlen > 0)
    <3>1. rxpkts' = rxpkts BY <1>1, <2>2
    <3> QED BY <1>1, <3>1, StepRing
  <2> QED BY <2>1, <2>2
<1> QED BY <1>1, <1>8, <1>10, SameGot DEF WholeInv

-----------------------------------------------------------------------------

LEMMA InitWhole == ASSUME NoSerial, Init PROVE WholeInv
<1>1. /\ setup \in Setups /\ dev = [w \in Nets |-> DevInit(w)] /\ rxpkts = <<>> /\ got = <<>>
      /\ prog = [pc |-> "receive", net |-> 0, len |-> 0, hold |-> <<>>]
  BY DEF Init
<1>2. RingWhole(rxpkts, prog)
  <2>1. DOMAIN rxpkts = {} BY <1>1
  <2> QED BY <1>1, <2>1 DEF RingWhole, Laid
<1>3. GotWhole BY <1>1 DEF GotWhole
<1>4. ASSUME NEW w \in Nets PROVE NetWhole(w, dev[w])
  <2>1. dev[w] = DevInit(w) BY <1>1
  <2>2. CASE Kind(w) = "ne"
    <3>0. dev[w] = NicReset(<<>>) BY <2>1, <2>2 DEF DevInit
    <3>1. dev[w].ram = [p \in Pages |-> <<>>] BY <3>0 DEF NicReset, Pages
    <3>2. Starts(dev[w]) = {} BY <3>1 DEF Starts
    <3> QED BY <2>2, <3>2 DEF NetWhole
  <2>3. CASE Kind(w) = "3c"
    <3>1. dev[w].rx = <<>> BY <2>1, <2>3 DEF DevInit
    <3>2. DOMAIN dev[w].rx = {} BY <3>1
    <3> QED BY <2>3, <3>2 DEF NetWhole
  <2>4. CASE Kind(w) = "pktd"
    <3>1. ~dev[w].copying BY <2>1, <2>4 DEF DevInit
    <3> QED BY <2>4, <3>1 DEF NetWhole
  <2> QED BY <2>2, <2>3, <2>4 DEF NetWhole
<1> QED BY <1>2, <1>3, <1>4 DEF WholeInv, NetsWhole

LEMMA NextWhole ==
  ASSUME Apart, Unmixed, RingInv, WholeInv, [Next]_vars PROVE WholeInv'
<1>1. CASE UNCHANGED vars
  <2>1. /\ setup' = setup /\ got' = got /\ rxpkts' = rxpkts /\ prog' = prog
        /\ arrived' = arrived /\ dev' = dev
    BY <1>1 DEF vars
  <2>2. NetsWhole' BY <2>1, SameNets DEF WholeInv
  <2> QED BY <2>1, <2>2, StepArrived
<1>2. CASE GetHeader BY <1>2, GetHeaderWhole
<1>3. CASE GetBody BY <1>3, GetBodyWhole
<1>4. CASE UpcallBody BY <1>4, UpcallBodyWhole
<1>5. CASE TxChar BY <1>5, NoTxChar
<1>6. ASSUME NEW w \in Nets, PollNeRx(w) \/ PollNeTx(w) \/ Poll3cRx(w) \/ Poll3cStat(w)
                             \/ Poll3cTx(w) \/ PollSlip(w) \/ PollPktd(w)
      PROVE  WholeInv'
  <2>1. ~PollSlip(w) BY NoSlip DEF PollSlip
  <2> QED BY <1>6, <2>1, PollNeRxWhole, PollNeTxWhole, Poll3cRxWhole, Poll3cStatWhole,
             Poll3cTxWhole, PollPktdWhole
<1>7. ASSUME NEW w \in Nets, Arrives(w) PROVE WholeInv'
  <2>1. ~SerRxInt(w) BY NoSlip DEF SerRxInt
  <2>2. TRUE \in BOOLEAN /\ FALSE \in BOOLEAN OBVIOUS
  <2> QED BY <1>7, <2>1, <2>2, NicArriveWhole, FifoArriveWhole, PktdAllocWhole DEF Arrives
<1>8. ASSUME NEW w \in Nets, Sends(w) PROVE WholeInv'
  <2>1. ~SerTxInt(w) BY NoSlip DEF SerTxInt
  <2>2. TRUE \in BOOLEAN /\ FALSE \in BOOLEAN OBVIOUS
  <2> QED BY <1>8, <2>1, <2>2, NicSentWhole, FifoSentWhole DEF Sends
<1> QED BY <1>1, <1>2, <1>3, <1>4, <1>5, <1>6, <1>7, <1>8, PktdCompleteWhole DEF Next, Main

LEMMA SameSetup == ASSUME [Next]_vars PROVE setup' = setup
<1>1. CASE UNCHANGED vars BY <1>1 DEF vars
<1>2. CASE Main
  BY <1>2 DEF Main, GetHeader, GetBody, UpcallBody, TxChar, PollNeRx, PollNeTx, Poll3cRx,
              Poll3cStat, Poll3cTx, PollSlip, PollPktd
<1>3. ASSUME NEW w \in Nets, Arrives(w) \/ PktdComplete(w) \/ Sends(w) PROVE setup' = setup
  BY <1>3 DEF Arrives, Sends, NicArrive, FifoArrive, PktdAlloc, SerRxInt, PktdComplete,
              NicSent, FifoSent, SerTxInt
<1> QED BY <1>1, <1>2, <1>3 DEF Next

(* What the program is given of cards, or of packet drivers, is always a    *)
(* frame that arrived on the net the header names, whole, wherever polls    *)
(* and interrupts come between the steps of get_net and receive_upcall.     *)
THEOREM FramesAreWhole == Spec => [](NoSerial /\ Apart /\ Unmixed => FramesWhole)
<1> DEFINE H == NoSerial /\ Apart /\ Unmixed
           J == H => RingInv /\ WholeInv
<1>1. Init => J BY InitRing, InitWhole
<1>2. J /\ [Next]_vars => J'
  <2> SUFFICES ASSUME J, [Next]_vars, H' PROVE RingInv' /\ WholeInv'
    OBVIOUS
  <2>1. setup' = setup BY SameSetup
  <2>2. H BY <2>1 DEF NoSerial, Apart, Unmixed, Kind
  <2>3. RingInv /\ WholeInv BY <2>2
  <2>4. RingInv' BY <2>2, <2>3, NextRing
  <2>5. WholeInv' BY <2>2, <2>3, NextWhole
  <2> QED BY <2>4, <2>5
<1>3. J => (H => FramesWhole) BY DEF WholeInv, GotWhole, FramesWhole
<1> HIDE DEF J
<1>4. H <=> NoSerial /\ Apart /\ Unmixed OBVIOUS
<1> HIDE DEF H
<1> QED BY <1>1, <1>2, <1>3, <1>4, PTL DEF Spec

-----------------------------------------------------------------------------
(* The order of the frames.  The first unit of a frame tells its number.    *)
(* Frames of a net are got, in the receive ring, held by a poll, or stored  *)
(* in the device, and those that are further on have arrived before.        *)

No(data) == data[1][3]
Start(u, w) == u[2] = w /\ u[4] = 1
Firsts(ring, w) == {ring[i][3] : i \in {i \in DOMAIN ring : Start(ring[i], w)}}
Rising(ring, w) ==
    \A i, j \in DOMAIN ring :
        i < j /\ Start(ring[i], w) /\ Start(ring[j], w) => ring[i][3] < ring[j][3]
Below(A, B) == \A a \in A, b \in B : a < b

GotOf(g, w) == {No(g[k].data) : k \in {k \in DOMAIN g : g[k].net = w}}
HeldOf(p, w) == IF p.pc = "upcall" /\ p.net = w THEN {No(p.hold)} ELSE {}
Stored(kind, card) ==
    IF kind = "ne" THEN {No(card.ram[p]) : p \in Starts(card)}
    ELSE IF kind = "3c" THEN {No(card.rx[i].data) : i \in {i \in DOMAIN card.rx : card.rx[i].ok}}
    ELSE {}
StoredInOrder(kind, card) ==
    /\ kind = "ne" =>
         \A p, q \in Starts(card) :
            Ahead(card.next, p) < Ahead(card.next, q) => No(card.ram[p]) < No(card.ram[q])
    /\ kind = "3c" =>
         \A i, j \in DOMAIN card.rx :
            i < j /\ card.rx[i].ok /\ card.rx[j].ok => No(card.rx[i].data) < No(card.rx[j].data)

Chain(G, R, H, D, n) ==
    /\ n \in Nat /\ G \cup R \cup H \cup D \subseteq 1 .. n
    /\ Below(G, R \cup H \cup D) /\ Below(R, H \cup D) /\ Below(H, D)
RxAt(w, kind, g, r, p, card, n) ==
    /\ Chain(GotOf(g, w), Firsts(r, w), HeldOf(p, w), Stored(kind, card), n)
    /\ Rising(r, w) /\ StoredInOrder(kind, card)
GotInOrder(g) ==
    \A j, k \in DOMAIN g : j < k /\ g[j].net = g[k].net => No(g[j].data) < No(g[k].data)
RxOrder ==
    /\ GotInOrder(got)
    /\ \A w \in Nets : RxAt(w, Kind(w), got, rxpkts, prog, dev[w], arrived[w])

(* What a device has to send, what the transmit ring has for it, and what   *)
(* has been sent.                                                           *)
ToSend(kind, card) ==
    IF kind = "ne" THEN IF card.tx = <<>> THEN <<>> ELSE <<card.tx>>
    ELSE IF kind = "3c" THEN card.tx ELSE <<>>
Nums(q) == {No(q[i]) : i \in DOMAIN q}
Ups(q) == \A i, j \in DOMAIN q : i < j => No(q[i]) < No(q[j])
AllWhole(w, q) == q \in Seq(Content) /\ \A i \in DOMAIN q : Whole(w, q[i])
(* A header in the transmit ring names the net that the frame is for.       *)
LaidOut(t) ==
    /\ t # <<>> => t[1][4] = 0
    /\ \A i \in DOMAIN t : t[i][4] = 0 => FrameAfter(t, i, Other(t[i][2]), t[i][3])
TxAt(w, kind, g, t, card, s) ==
    LET o == Other(w) q == ToSend(kind, card) IN
    /\ AllWhole(o, s) /\ AllWhole(o, q) /\ Ups(s) /\ Ups(q) /\ Rising(t, o)
    /\ Nums(s) \cup Nums(q) \cup Firsts(t, o) \subseteq GotOf(g, o)
    /\ Below(Nums(s), Nums(q) \cup Firsts(t, o)) /\ Below(Nums(q), Firsts(t, o))
    /\ kind = "pktd" => Firsts(t, o) = {}
TxOrder ==
    /\ txpkts \in Content /\ LaidOut(txpkts) /\ sent = [w \in Nets |-> sent[w]]
    /\ \A w \in Nets : TxAt(w, Kind(w), got, txpkts, dev[w], sent[w])

-----------------------------------------------------------------------------
(* The number of a frame, and where the frames begin in a ring.             *)

LEMMA WholeNo ==
  ASSUME setup \in Setups, NEW w \in Nets, NEW data, Whole(w, data)
  PROVE  /\ data \in Content /\ Len(data) \in Nat \ {0} /\ data # <<>>
         /\ No(data) \in 1 .. Total(w) /\ No(data) \in Nat /\ data = Frame(w, No(data))
         /\ \A j \in 1 .. Len(data) : data[j][2] = w /\ data[j][3] = No(data) /\ data[j][4] = j
<1>1. PICK n \in 1 .. Total(w) : data = Frame(w, n) BY DEF Whole
<1>2. /\ Total(w) \in Nat /\ data \in Content
      /\ Len(setup.bytes[w][n]) \in Nat /\ Len(data) = Len(setup.bytes[w][n])
  BY <1>1, FrameType
<1>3. setup.bytes[w][n] # <<>>
  <2>1. setup.bytes[w] \in Seq(ToSet(setup.bytes[w])) BY SetupAssumption
  <2>2. n \in DOMAIN setup.bytes[w] BY <2>1 DEF Total
  <2>3. setup.bytes[w][n] \in ToSet(setup.bytes[w]) BY <2>2 DEF ToSet
  <2> QED BY <2>3, SetupAssumption
<1>4. Len(data) # 0
  <2>1. setup.bytes[w] \in Seq(ToSet(setup.bytes[w])) BY SetupAssumption
  <2>2. n \in DOMAIN setup.bytes[w] BY <2>1 DEF Total
  <2> DEFINE b == setup.bytes[w][n]
  <2>3. b \in ToSet(setup.bytes[w]) BY <2>2 DEF ToSet
  <2>4. b \in Seq(ToSet(b)) /\ b # <<>> BY <1>3, <2>3, SetupAssumption
  <2> HIDE DEF b
  <2>5. Len(b) # 0 BY <2>4
  <2> QED BY <1>2, <2>5 DEF b
<1>5. \A j \in 1 .. Len(data) : data[j] = <<setup.bytes[w][n][j], w, n, j>>
  BY <1>1, <1>2 DEF Frame
<1>6. \A j \in 1 .. Len(data) : data[j][2] = w /\ data[j][3] = n /\ data[j][4] = j BY <1>5
<1>7. 1 \in 1 .. Len(data) BY <1>2, <1>4
<1>8. No(data) = n BY <1>6, <1>7 DEF No
<1>9. data # <<>> BY <1>4
<1> QED BY <1>1, <1>2, <1>4, <1>6, <1>8, <1>9

LEMMA WholeSameNo ==
  ASSUME setup \in Setups, NEW w \in Nets, NEW a, NEW b, Whole(w, a), Whole(w, b), No(a) = No(b)
  PROVE  a = b
  BY WholeNo

LEMMA FirstsType ==
  ASSUME NEW ring \in Content, NEW w
  PROVE  Firsts(ring, w) \subseteq Nat /\ DOMAIN ring = 1 .. Len(ring) /\ Len(ring) \in Nat
<1>1. \A i \in DOMAIN ring : ring[i] \in Unit BY DEF Content
<1>2. \A i \in DOMAIN ring : ring[i][3] \in Nat BY <1>1, UnitParts
<1> QED BY <1>2 DEF Firsts, Content

LEMMA FirstsNone == ASSUME NEW w PROVE Firsts(<<>>, w) = {} /\ Rising(<<>>, w)
<1>1. DOMAIN <<>> = {} OBVIOUS
<1> QED BY <1>1 DEF Firsts, Rising

LEMMA FirstsHeader ==
  ASSUME NEW w, NEW v, NEW data PROVE Firsts(<<Header(v, data)>>, w) = {} /\ Rising(<<Header(v, data)>>, w)
<1> DEFINE h == Header(v, data)
<1>1. h[4] = 0 BY DEF Header
<1> HIDE DEF h
<1>2. DOMAIN <<h>> = {1} /\ <<h>>[1] = h OBVIOUS
<1>3. ~Start(h, w) BY <1>1 DEF Start
<1>4. Firsts(<<h>>, w) = {} BY <1>2, <1>3 DEF Firsts
<1>5. Rising(<<h>>, w) BY <1>2, <1>3 DEF Rising
<1> QED BY <1>4, <1>5 DEF h

LEMMA FirstsFrame ==
  ASSUME setup \in Setups, NEW v \in Nets, NEW data, Whole(v, data), NEW w \in Nets
  PROVE  Firsts(data, w) = (IF w = v THEN {No(data)} ELSE {}) /\ Rising(data, w)
<1>1. /\ data \in Content /\ Len(data) \in Nat \ {0}
      /\ \A j \in 1 .. Len(data) : data[j][2] = v /\ data[j][3] = No(data) /\ data[j][4] = j
  BY WholeNo
<1>2. DOMAIN data = 1 .. Len(data) BY <1>1, FirstsType
<1>3. \A j \in DOMAIN data : Start(data[j], w) <=> w = v /\ j = 1 BY <1>1, <1>2 DEF Start
<1>4. 1 \in DOMAIN data /\ data[1][3] = No(data) BY <1>1, <1>2
<1>5. {j \in DOMAIN data : Start(data[j], w)} = IF w = v THEN {1} ELSE {} BY <1>3, <1>4
<1>6. Firsts(data, w) = IF w = v THEN {No(data)} ELSE {} BY <1>4, <1>5 DEF Firsts
<1>7. Rising(data, w) BY <1>2, <1>3 DEF Rising
<1> QED BY <1>6, <1>7

LEMMA FirstsGrow ==
  ASSUME NEW ring \in Content, NEW more \in Content, NEW w
  PROVE  /\ Firsts(ring \o more, w) = Firsts(ring, w) \cup Firsts(more, w)
         /\ Rising(ring, w) /\ Rising(more, w) /\ Below(Firsts(ring, w), Firsts(more, w))
            => Rising(ring \o more, w)
<1> DEFINE long == ring \o more
           m == Len(ring)
<1>1. /\ DOMAIN ring = 1 .. m /\ m \in Nat /\ DOMAIN more = 1 .. Len(more) /\ Len(more) \in Nat
      /\ long \in Content /\ DOMAIN long = 1 .. m + Len(more)
      /\ \A j \in 1 .. m : long[j] = ring[j]
      /\ \A j \in 1 .. Len(more) : long[m + j] = more[j]
  BY DEF Content
<1> HIDE DEF long, m
<1>2. \A j \in DOMAIN long : \/ j \in DOMAIN ring /\ long[j] = ring[j] /\ j <= m
                             \/ j - m \in DOMAIN more /\ long[j] = more[j - m] /\ j > m
  <2> SUFFICES ASSUME NEW j \in DOMAIN long
               PROVE  \/ j \in DOMAIN ring /\ long[j] = ring[j] /\ j <= m
                      \/ j - m \in DOMAIN more /\ long[j] = more[j - m] /\ j > m
    OBVIOUS
  <2>1. CASE j <= m BY <1>1, <2>1
  <2>2. CASE j > m
    <3>1. j - m \in 1 .. Len(more) /\ m + (j - m) = j BY <1>1, <2>2
    <3>2. long[m + (j - m)] = more[j - m] BY <1>1, <3>1
    <3> QED BY <1>1, <2>2, <3>1, <3>2
  <2> QED BY <1>1, <2>1, <2>2
<1>3. \A j \in DOMAIN ring : j \in DOMAIN long /\ long[j] = ring[j] BY <1>1
<1>4. \A j \in DOMAIN more : m + j \in DOMAIN long /\ long[m + j] = more[j] BY <1>1
<1>5. Firsts(long, w) \subseteq Firsts(ring, w) \cup Firsts(more, w) BY <1>2 DEF Firsts
<1>6. Firsts(ring, w) \subseteq Firsts(long, w) BY <1>3 DEF Firsts
<1>7. Firsts(more, w) \subseteq Firsts(long, w)
  <2> SUFFICES ASSUME NEW x \in Firsts(more, w) PROVE x \in Firsts(long, w) OBVIOUS
  <2>1. PICK j \in DOMAIN more : Start(more[j], w) /\ x = more[j][3] BY DEF Firsts
  <2>2. m + j \in DOMAIN long /\ Start(long[m + j], w) /\ x = long[m + j][3] BY <1>4, <2>1
  <2> QED BY <2>2 DEF Firsts
<1>8. ASSUME Rising(ring, w), Rising(more, w), Below(Firsts(ring, w), Firsts(more, w)),
             NEW i \in DOMAIN long, NEW j \in DOMAIN long,
             i < j, Start(long[i], w), Start(long[j], w)
      PROVE  long[i][3] < long[j][3]
  <2>1. CASE i <= m /\ j <= m BY <1>1, <1>2, <1>8, <2>1 DEF Rising
  <2>2. CASE i <= m /\ j > m
    <3>1. long[i] = ring[i] /\ i \in DOMAIN ring /\ long[j] = more[j - m] /\ j - m \in DOMAIN more
      BY <1>1, <1>2, <2>2
    <3>2. long[i][3] \in Firsts(ring, w) /\ long[j][3] \in Firsts(more, w)
      BY <1>8, <3>1 DEF Firsts
    <3> QED BY <1>8, <3>2 DEF Below
  <2>3. CASE i > m /\ j > m
    <3>1. /\ long[i] = more[i - m] /\ i - m \in DOMAIN more
          /\ long[j] = more[j - m] /\ j - m \in DOMAIN more /\ i - m < j - m
      BY <1>1, <1>2, <1>8, <2>3
    <3> QED BY <1>8, <3>1 DEF Rising
  <2> QED BY <1>1, <1>8, <2>1, <2>2, <2>3
<1> QED BY <1>5, <1>6, <1>7, <1>8 DEF Rising, long

(* What is left when units have been taken.                                 *)
LEMMA FirstsDrop ==
  ASSUME NEW ring \in Content, NEW k \in Nat, NEW rest \in Content, Len(rest) = Len(ring) - k,
         \A j \in 1 .. Len(rest) : rest[j] = ring[j + k], NEW w, Rising(ring, w)
  PROVE  /\ Firsts(rest, w) \subseteq Firsts(ring, w) /\ Rising(rest, w)
         /\ \A i \in 1 .. Len(ring) : i <= k /\ Start(ring[i], w) =>
               ring[i][3] \in Firsts(ring, w) /\ Below({ring[i][3]}, Firsts(rest, w))
<1>1. /\ DOMAIN ring = 1 .. Len(ring) /\ Len(ring) \in Nat
      /\ DOMAIN rest = 1 .. Len(rest) /\ Len(rest) \in Nat
  BY FirstsType
<1>2. \A j \in DOMAIN rest : j + k \in DOMAIN ring /\ rest[j] = ring[j + k] BY <1>1
<1>3. Firsts(rest, w) \subseteq Firsts(ring, w)
  <2> SUFFICES ASSUME NEW x \in Firsts(rest, w) PROVE x \in Firsts(ring, w) OBVIOUS
  <2>1. PICK j \in DOMAIN rest : Start(rest[j], w) /\ x = rest[j][3] BY DEF Firsts
  <2> QED BY <1>2, <2>1 DEF Firsts
<1>4. ASSUME NEW i \in DOMAIN rest, NEW j \in DOMAIN rest,
             i < j, Start(rest[i], w), Start(rest[j], w)
      PROVE  rest[i][3] < rest[j][3]
  <2>1. i + k < j + k /\ i + k \in DOMAIN ring /\ j + k \in DOMAIN ring BY <1>1, <1>2, <1>4
  <2> QED BY <1>2, <1>4, <2>1 DEF Rising
<1>5. ASSUME NEW i \in 1 .. Len(ring), i <= k, Start(ring[i], w)
      PROVE  ring[i][3] \in Firsts(ring, w) /\ Below({ring[i][3]}, Firsts(rest, w))
  <2>1. ASSUME NEW x \in Firsts(rest, w) PROVE ring[i][3] < x
    <3>1. PICK j \in DOMAIN rest : Start(rest[j], w) /\ x = rest[j][3] BY <2>1 DEF Firsts
    <3>2. i < j + k /\ j + k \in DOMAIN ring /\ rest[j] = ring[j + k] BY <1>1, <1>2, <1>5, <3>1
    <3> QED BY <1>1, <1>5, <3>1, <3>2 DEF Rising
  <2> QED BY <1>1, <1>5, <2>1 DEF Firsts, Below
<1> QED BY <1>3, <1>4, <1>5 DEF Rising

-----------------------------------------------------------------------------
(* Queues of frames, and what the program has got.                          *)

LEMMA NumsNone == ASSUME NEW w PROVE AllWhole(w, <<>>) /\ Nums(<<>>) = {} /\ Ups(<<>>)
<1>1. DOMAIN <<>> = {} /\ <<>> \in Seq(Content) OBVIOUS
<1> QED BY <1>1 DEF AllWhole, Nums, Ups

LEMMA NumsAppend ==
  ASSUME NEW w, NEW q, AllWhole(w, q), NEW x \in Content, Whole(w, x)
  PROVE  /\ AllWhole(w, Append(q, x)) /\ Nums(Append(q, x)) = Nums(q) \cup {No(x)}
         /\ Ups(q) /\ Below(Nums(q), {No(x)}) => Ups(Append(q, x))
<1> DEFINE long == Append(q, x)
           m == Len(q)
<1>1. /\ q \in Seq(Content) /\ m \in Nat /\ DOMAIN q = 1 .. m
      /\ long \in Seq(Content) /\ DOMAIN long = 1 .. m + 1
      /\ long[m + 1] = x /\ \A j \in 1 .. m : long[j] = q[j]
  BY DEF AllWhole
<1> HIDE DEF long, m
<1>2. \A j \in DOMAIN long : (j \in DOMAIN q /\ long[j] = q[j]) \/ (j = m + 1 /\ long[j] = x)
  BY <1>1
<1>3. AllWhole(w, long) BY <1>1, <1>2 DEF AllWhole
<1>4. Nums(long) \subseteq Nums(q) \cup {No(x)} BY <1>2 DEF Nums
<1>5. m + 1 \in DOMAIN long /\ \A j \in DOMAIN q : j \in DOMAIN long /\ long[j] = q[j] BY <1>1
<1>6. Nums(q) \cup {No(x)} \subseteq Nums(long) BY <1>1, <1>5 DEF Nums
<1>7. ASSUME Ups(q), Below(Nums(q), {No(x)}), NEW i \in DOMAIN long, NEW j \in DOMAIN long, i < j
      PROVE  No(long[i]) < No(long[j])
  <2>1. i \in DOMAIN q /\ long[i] = q[i] BY <1>1, <1>7
  <2>2. CASE j \in DOMAIN q /\ long[j] = q[j] BY <1>7, <2>1, <2>2 DEF Ups
  <2>3. CASE long[j] = x BY <1>7, <2>1, <2>3 DEF Nums, Below
  <2> QED BY <1>2, <2>2, <2>3
<1> QED BY <1>3, <1>4, <1>6, <1>7 DEF Ups, long

LEMMA NumsTail ==
  ASSUME NEW w, NEW q, AllWhole(w, q), q # <<>>
  PROVE  /\ Head(q) \in Content /\ Whole(w, Head(q)) /\ No(Head(q)) \in Nums(q)
         /\ AllWhole(w, Tail(q)) /\ Nums(Tail(q)) \subseteq Nums(q)
         /\ Ups(q) => Ups(Tail(q)) /\ Below({No(Head(q))}, Nums(Tail(q)))
<1> DEFINE t == Tail(q)
<1>0. q \in Seq(Content) /\ DOMAIN q = 1 .. Len(q) BY DEF AllWhole
<1>1. /\ Head(q) = q[1] /\ Head(q) \in Content /\ t \in Seq(Content) /\ Len(q) \in Nat \ {0}
      /\ Len(t) = Len(q) - 1 /\ \A i \in 1 .. Len(q) - 1 : t[i] = q[i + 1]
  BY <1>0, HeadTailType
<1>2. DOMAIN t = 1 .. Len(q) - 1 /\ 1 \in DOMAIN q BY <1>0, <1>1
<1> HIDE DEF t
<1>3. \A i \in DOMAIN t : i + 1 \in DOMAIN q /\ t[i] = q[i + 1] BY <1>0, <1>1, <1>2
<1>4. Whole(w, Head(q)) /\ No(Head(q)) \in Nums(q) BY <1>1, <1>2 DEF AllWhole, Nums
<1>5. AllWhole(w, t) BY <1>1, <1>3 DEF AllWhole
<1>6. Nums(t) \subseteq Nums(q)
  <2> SUFFICES ASSUME NEW i \in DOMAIN t PROVE No(t[i]) \in Nums(q) BY DEF Nums
  <2> QED BY <1>3 DEF Nums
<1>7. ASSUME Ups(q) PROVE Ups(t) /\ Below({No(Head(q))}, Nums(t))
  <2>1. ASSUME NEW i \in DOMAIN t, NEW j \in DOMAIN t, i < j PROVE No(t[i]) < No(t[j])
    <3>1. i + 1 < j + 1 BY <1>2, <2>1
    <3> QED BY <1>3, <1>7, <3>1 DEF Ups
  <2>2. ASSUME NEW i \in DOMAIN t PROVE No(Head(q)) < No(t[i])
    <3>1. 1 < i + 1 BY <1>2
    <3> QED BY <1>1, <1>2, <1>3, <1>7, <3>1 DEF Ups
  <2> QED BY <2>1, <2>2 DEF Ups, Below, Nums
<1> QED BY <1>1, <1>4, <1>5, <1>6, <1>7 DEF t

LEMMA GotGrow ==
  ASSUME NEW g \in Seq([net: Nets, data: Content]), NEW x \in [net: Nets, data: Content],
         NEW long, long = Append(g, x)
  PROVE  /\ \A w \in Nets :
              GotOf(long, w) = GotOf(g, w) \cup (IF w = x.net THEN {No(x.data)} ELSE {})
         /\ GotInOrder(g) /\ Below(GotOf(g, x.net), {No(x.data)}) => GotInOrder(long)
<1> DEFINE m == Len(g)
<1>1. /\ m \in Nat /\ DOMAIN g = 1 .. m /\ DOMAIN long = 1 .. m + 1
      /\ long[m + 1] = x /\ \A j \in 1 .. m : long[j] = g[j]
  OBVIOUS
<1> HIDE DEF m
<1>2. \A j \in DOMAIN long : (j \in DOMAIN g /\ long[j] = g[j]) \/ (j = m + 1 /\ long[j] = x)
  BY <1>1
<1>3. m + 1 \in DOMAIN long /\ \A j \in DOMAIN g : j \in DOMAIN long /\ long[j] = g[j] BY <1>1
<1>4. ASSUME NEW w \in Nets
      PROVE  GotOf(long, w) = GotOf(g, w) \cup (IF w = x.net THEN {No(x.data)} ELSE {})
  <2>1. GotOf(long, w) \subseteq GotOf(g, w) \cup (IF w = x.net THEN {No(x.data)} ELSE {})
    BY <1>2 DEF GotOf
  <2>2. GotOf(g, w) \subseteq GotOf(long, w) BY <1>3 DEF GotOf
  <2>3. w = x.net => No(x.data) \in GotOf(long, w) BY <1>1, <1>3 DEF GotOf
  <2> QED BY <2>1, <2>2, <2>3
<1>5. ASSUME GotInOrder(g), Below(GotOf(g, x.net), {No(x.data)}),
             NEW j \in DOMAIN long, NEW k \in DOMAIN long, j < k, long[j].net = long[k].net
      PROVE  No(long[j].data) < No(long[k].data)
  <2>1. j \in DOMAIN g /\ long[j] = g[j] BY <1>1, <1>5
  <2>2. CASE k \in DOMAIN g /\ long[k] = g[k] BY <1>5, <2>1, <2>2 DEF GotInOrder
  <2>3. CASE long[k] = x BY <1>5, <2>1, <2>3 DEF GotOf, Below
  <2> QED BY <1>2, <2>2, <2>3
<1> QED BY <1>4, <1>5 DEF GotInOrder

-----------------------------------------------------------------------------
(* What the devices have stored.                                            *)

LEMMA SameStored ==
  ASSUME NEW kind, NEW card, NEW c,
         kind = "ne" => c.ram = card.ram /\ c.next = card.next, kind = "3c" => c.rx = card.rx
  PROVE  Stored(kind, c) = Stored(kind, card) /\ (StoredInOrder(kind, card) => StoredInOrder(kind, c))
  BY DEF Stored, StoredInOrder, Starts

LEMMA NicTakes ==
  ASSUME NEW card, NicOK(card), NicRing(card), StoredInOrder("ne", card),
         NEW r, r = get_etherne(card)
  PROVE  /\ Stored("ne", r.card) \subseteq Stored("ne", card) /\ StoredInOrder("ne", r.card)
         /\ r.data # <<>> => /\ No(r.data) \in Stored("ne", card)
                             /\ Below({No(r.data)}, Stored("ne", r.card))
<1>1. CASE card.overrun
  <2>1. r.card = resetnic(card) /\ r.data = <<>> BY <1>1 DEF get_etherne
  <2>2. Starts(resetnic(card)) = {} BY DEF Starts, resetnic, NicReset, Pages
  <2>3. Stored("ne", r.card) = {} /\ StoredInOrder("ne", r.card)
    BY <2>1, <2>2 DEF Stored, StoredInOrder
  <2> QED BY <2>1, <2>3
<1>2. CASE ~card.overrun /\ card.curr = card.next
  <2>1. r.card = card /\ r.data = <<>> BY <1>2 DEF get_etherne
  <2> QED BY <2>1
<1>3. CASE ~card.overrun /\ card.curr # card.next
  <2> DEFINE a == card.next
             n == Len(card.ram[a])
             after == nicwrap(a + n)
             c == r.card
  <2>1. /\ a \in Starts(card) /\ a \in Pages /\ card.curr \in Pages
        /\ card.ram \in [Pages -> Content]
    BY <1>3 DEF NicRing, Starts, NicOK
  <2>2. n \in Nat /\ Ahead(a, a) = 0 BY <2>1, RamType, AheadSelf
  <2>3. r.data = card.ram[a] /\ c.next = after /\ c.ram = [card.ram EXCEPT ![a] = <<>>]
    BY <1>3 DEF get_etherne, NicOK
  <2> HIDE DEF c
  <2>4. \A p \in Pages : c.ram[p] = IF p = a THEN <<>> ELSE card.ram[p] BY <2>1, <2>3
  <2>5. \A p \in Starts(c) : p \in Starts(card) /\ p \in Pages /\ p # a /\ c.ram[p] = card.ram[p]
    BY <2>4 DEF Starts
  <2>6. ASSUME NEW p \in Starts(c)
        PROVE  /\ Ahead(a, a) < Ahead(a, p) /\ Ahead(a, p) \in Nat
               /\ Ahead(c.next, p) = Ahead(a, p) - n
    <3>1. Ahead(a, p) \in Pages /\ Ahead(a, p) # Ahead(a, a) BY <2>1, <2>5, AheadType, AheadSame
    <3>2. Ahead(a, p) \in Nat /\ Ahead(a, a) < Ahead(a, p) BY <2>2, <3>1, PagesAre DEF Pages
    <3>3. Ahead(a, a) + n <= Ahead(a, p) BY <2>1, <2>5, <3>2 DEF NicRing
    <3>4. n <= Ahead(a, p) BY <2>2, <3>2, <3>3
    <3> HIDE DEF a, n
    <3>5. Ahead(after, p) = Ahead(a, p) - n BY <2>1, <2>2, <2>5, <3>4, AheadShift
    <3> QED BY <2>3, <3>2, <3>5
  <2> HIDE DEF n, after
  <2>7. Stored("ne", c) \subseteq Stored("ne", card) BY <2>5 DEF Stored
  <2>8. ASSUME NEW p \in Starts(c), NEW q \in Starts(c), Ahead(c.next, p) < Ahead(c.next, q)
        PROVE  No(c.ram[p]) < No(c.ram[q])
    <3>1. Ahead(a, p) < Ahead(a, q) BY <2>2, <2>6, <2>8
    <3> QED BY <2>5, <3>1 DEF StoredInOrder
  <2>9. StoredInOrder("ne", c) BY <2>8 DEF StoredInOrder
  <2>10. No(r.data) \in Stored("ne", card) BY <2>1, <2>3 DEF Stored
  <2>11. ASSUME NEW p \in Starts(c) PROVE No(r.data) < No(c.ram[p])
    <3>1. No(card.ram[a]) < No(card.ram[p]) BY <2>1, <2>5, <2>6 DEF StoredInOrder
    <3> QED BY <2>3, <2>5, <3>1
  <2>12. Below({No(r.data)}, Stored("ne", c)) BY <2>11 DEF Below, Stored
  <2> QED BY <2>7, <2>9, <2>10, <2>12 DEF c
<1> QED BY <1>1, <1>2, <1>3

LEMMA FifoTakes ==
  ASSUME NEW card, FifoOK(card), StoredInOrder("3c", card), NEW r, r = get_ether3c(card)
  PROVE  /\ Stored("3c", r.card) \subseteq Stored("3c", card) /\ StoredInOrder("3c", r.card)
         /\ r.data # <<>> => /\ No(r.data) \in Stored("3c", card)
                             /\ Below({No(r.data)}, Stored("3c", r.card))
<1>1. CASE card.rx = <<>>
  <2>1. r.card = card /\ r.data = <<>> BY <1>1 DEF get_ether3c
  <2> QED BY <2>1
<1>2. CASE card.rx # <<>>
  <2> DEFINE s == card.rx
             t == r.card.rx
  <2>0. s \in Seq([data: Content, ok: BOOLEAN]) /\ DOMAIN s = 1 .. Len(s) BY DEF FifoOK
  <2>1. /\ Head(s) = s[1] /\ Tail(s) \in Seq([data: Content, ok: BOOLEAN]) /\ Len(s) \in Nat \ {0}
        /\ Len(Tail(s)) = Len(s) - 1 /\ \A i \in 1 .. Len(s) - 1 : Tail(s)[i] = s[i + 1]
    BY <1>2, <2>0, HeadTailType
  <2>2. t = Tail(s) BY <1>2 DEF get_ether3c, FifoOK
  <2>3. r.data # <<>> => s[1].ok /\ r.data = s[1].data BY <1>2, <2>1 DEF get_ether3c
  <2> HIDE DEF s, t
  <2>4. DOMAIN t = 1 .. Len(s) - 1 /\ 1 \in DOMAIN s BY <2>0, <2>1, <2>2
  <2>5. \A i \in DOMAIN t : i + 1 \in DOMAIN s /\ t[i] = s[i + 1] BY <2>0, <2>1, <2>2, <2>4
  <2>6. \A i, j \in DOMAIN s : i < j /\ s[i].ok /\ s[j].ok => No(s[i].data) < No(s[j].data)
    BY DEF StoredInOrder, s
  <2>7. /\ Stored("3c", card) = {No(s[i].data) : i \in {i \in DOMAIN s : s[i].ok}}
        /\ Stored("3c", r.card) = {No(t[i].data) : i \in {i \in DOMAIN t : t[i].ok}}
    BY DEF Stored, s, t
  <2>8. Stored("3c", r.card) \subseteq Stored("3c", card)
    <3> SUFFICES ASSUME NEW i \in DOMAIN t, t[i].ok PROVE No(t[i].data) \in Stored("3c", card)
      BY <2>7
    <3> QED BY <2>5, <2>7
  <2>9. ASSUME NEW i \in DOMAIN t, NEW j \in DOMAIN t, i < j, t[i].ok, t[j].ok
        PROVE  No(t[i].data) < No(t[j].data)
    <3>1. i + 1 < j + 1 BY <2>4, <2>9
    <3> QED BY <2>5, <2>6, <2>9, <3>1
  <2>10. StoredInOrder("3c", r.card) BY <2>9 DEF StoredInOrder, t
  <2>11. ASSUME r.data # <<>>
         PROVE  /\ No(r.data) \in Stored("3c", card)
                /\ Below({No(r.data)}, Stored("3c", r.card))
    <3>1. No(r.data) \in Stored("3c", card) BY <2>3, <2>4, <2>7, <2>11
    <3>2. ASSUME NEW i \in DOMAIN t, t[i].ok PROVE No(r.data) < No(t[i].data)
      <4>1. 1 < i + 1 BY <2>4
      <4> QED BY <2>3, <2>4, <2>5, <2>6, <2>11, <3>2, <4>1
    <3> QED BY <2>7, <3>1, <3>2 DEF Below
  <2> QED BY <2>8, <2>10, <2>11
<1> QED BY <1>1, <1>2

-----------------------------------------------------------------------------
(* Frames come in order to the program.                                     *)

LEMMA StepRx ==
  ASSUME setup' = setup, GotInOrder(got'),
         \A w \in Nets : RxAt(w, Kind(w), got', rxpkts', prog', dev'[w], arrived'[w])
  PROVE  RxOrder'
  BY DEF RxOrder, Kind

LEMMA DevAt ==
  ASSUME DevOK, NEW w \in Nets, NEW card, dev' = [dev EXCEPT ![w] = card]
  PROVE  dev'[w] = card /\ \A v \in Nets \ {w} : dev'[v] = dev[v]
  BY DEF DevOK

(* Frames are dropped, and others may have arrived.                         *)
LEMMA RxLess ==
  ASSUME NEW w, NEW kind, NEW g, NEW r, NEW p, NEW card, NEW n, RxAt(w, kind, g, r, p, card, n),
         NEW r1, NEW p1, NEW card1, NEW n1 \in Nat, n1 >= n,
         Firsts(r1, w) \subseteq Firsts(r, w), Rising(r1, w),
         HeldOf(p1, w) \subseteq HeldOf(p, w),
         Stored(kind, card1) \subseteq Stored(kind, card), StoredInOrder(kind, card1)
  PROVE  RxAt(w, kind, g, r1, p1, card1, n1)
<1> DEFINE G == GotOf(g, w)
           R == Firsts(r, w)
           H == HeldOf(p, w)
           D == Stored(kind, card)
<1>1. Chain(G, R, H, D, n) BY DEF RxAt
<1> HIDE DEF G, R, H, D
<1>2. 1 .. n \subseteq 1 .. n1 BY <1>1 DEF Chain
<1>3. ASSUME NEW R1, R1 \subseteq R, NEW H1, H1 \subseteq H, NEW D1, D1 \subseteq D
      PROVE  Chain(G, R1, H1, D1, n1)
  BY <1>1, <1>2, <1>3 DEF Chain, Below
<1>4. Chain(G, Firsts(r1, w), HeldOf(p1, w), Stored(kind, card1), n1)
  BY <1>3 DEF R, H, D
<1> QED BY <1>4 DEF RxAt, G

LEMMA RxNumbers ==
  ASSUME RingInv, RxOrder, NEW w \in Nets
  PROVE  /\ RxAt(w, Kind(w), got, rxpkts, prog, dev[w], arrived[w]) /\ GotInOrder(got)
         /\ Chain(GotOf(got, w), Firsts(rxpkts, w), HeldOf(prog, w), Stored(Kind(w), dev[w]), arrived[w])
         /\ Rising(rxpkts, w) /\ StoredInOrder(Kind(w), dev[w]) /\ arrived[w] \in Nat
  BY DEF RxOrder, RxAt, RingInv, ArrivedOK

(* The receiving side does nothing but drop frames.                         *)
LEMMA RxDrops ==
  ASSUME RingInv, RxOrder, setup' = setup, got' = got,
         rxpkts' = rxpkts \/ rxpkts' = <<>>, prog' = prog \/ prog'.pc # "upcall",
         \A v \in Nets : arrived'[v] \in Nat /\ arrived'[v] >= arrived[v],
         \A v \in Nets : /\ Stored(Kind(v), dev'[v]) \subseteq Stored(Kind(v), dev[v])
                         /\ StoredInOrder(Kind(v), dev'[v])
  PROVE  RxOrder'
<1>1. ASSUME NEW v \in Nets
      PROVE  RxAt(v, Kind(v), got', rxpkts', prog', dev'[v], arrived'[v])
  <2>1. RxAt(v, Kind(v), got, rxpkts, prog, dev[v], arrived[v]) /\ Rising(rxpkts, v)
    BY RxNumbers
  <2>2. Firsts(rxpkts', v) \subseteq Firsts(rxpkts, v) /\ Rising(rxpkts', v)
    BY <2>1, FirstsNone
  <2>3. HeldOf(prog', v) \subseteq HeldOf(prog, v) BY DEF HeldOf
  <2>4. RxAt(v, Kind(v), got, rxpkts', prog', dev'[v], arrived'[v])
    BY <2>1, <2>2, <2>3, RxLess
  <2> QED BY <2>4
<1>2. GotInOrder(got') BY DEF RxOrder
<1> QED BY <1>1, <1>2, StepRx

(* It does nothing at all.                                                  *)
LEMMA RxRests ==
  ASSUME RingInv, RxOrder, setup' = setup, got' = got, rxpkts' = rxpkts, arrived' = arrived,
         prog' = prog \/ prog'.pc # "upcall",
         \A v \in Nets : /\ Kind(v) = "ne" => dev'[v].ram = dev[v].ram /\ dev'[v].next = dev[v].next
                         /\ Kind(v) = "3c" => dev'[v].rx = dev[v].rx
  PROVE  RxOrder'
<1>1. \A v \in Nets : arrived'[v] \in Nat /\ arrived'[v] >= arrived[v]
  BY DEF RingInv, ArrivedOK
<1>2. ASSUME NEW v \in Nets
      PROVE  /\ Stored(Kind(v), dev'[v]) \subseteq Stored(Kind(v), dev[v])
             /\ StoredInOrder(Kind(v), dev'[v])
  BY RxNumbers, SameStored
<1> QED BY <1>1, <1>2, RxDrops

LEMMA GetHeaderRx == ASSUME RingInv, WholeInv, RxOrder, GetHeader PROVE RxOrder'
<1>1. /\ rxpkts \in Content /\ ProgOK /\ DevOK /\ prog.pc = "receive" /\ arrived \in [Nets -> Nat]
      /\ setup' = setup /\ dev' = dev /\ arrived' = arrived /\ got' = got
  BY DEF RingInv, ArrivedOK, GetHeader
<1>2. prog'.pc \in {"rx", "body"} BY <1>1 DEF GetHeader, Polling, ProgOK
<1>3. CASE rxpkts = <<>> \/ rxpkts[1][1] # "hdr"
  <2>1. rxpkts' = rxpkts \/ rxpkts' = <<>> BY <1>3 DEF GetHeader
  <2>2. \A v \in Nets : arrived'[v] \in Nat /\ arrived'[v] >= arrived[v] BY <1>1
  <2>3. \A v \in Nets : /\ Stored(Kind(v), dev'[v]) \subseteq Stored(Kind(v), dev[v])
                        /\ StoredInOrder(Kind(v), dev'[v])
    BY <1>1, RxNumbers
  <2>4. prog'.pc # "upcall" BY <1>2
  <2> QED BY <1>1, <2>1, <2>2, <2>3, <2>4, RxDrops
<1>4. CASE rxpkts # <<>> /\ rxpkts[1][1] = "hdr"
  <2> DEFINE rest == Tail(rxpkts)
  <2>1. rxpkts' = rest BY <1>4 DEF GetHeader
  <2>2. /\ rest \in Content /\ Len(rest) = Len(rxpkts) - 1
        /\ \A j \in 1 .. Len(rest) : rest[j] = rxpkts[j + 1]
    BY <1>1, <1>4, HeadTailType DEF Content
  <2> HIDE DEF rest
  <2>3. ASSUME NEW v \in Nets
        PROVE  RxAt(v, Kind(v), got, rest, prog', dev[v], arrived[v])
    <3>1. /\ RxAt(v, Kind(v), got, rxpkts, prog, dev[v], arrived[v]) /\ Rising(rxpkts, v)
          /\ StoredInOrder(Kind(v), dev[v]) /\ arrived[v] \in Nat /\ arrived[v] >= arrived[v]
      BY RxNumbers
    <3>2. 1 \in Nat OBVIOUS
    <3>3. Firsts(rest, v) \subseteq Firsts(rxpkts, v) /\ Rising(rest, v)
      BY <1>1, <2>2, <3>1, <3>2, FirstsDrop
    <3>4. HeldOf(prog', v) \subseteq HeldOf(prog, v) BY <1>2 DEF HeldOf
    <3> QED BY <3>1, <3>3, <3>4, RxLess
  <2>4. \A v \in Nets : RxAt(v, Kind(v), got', rxpkts', prog', dev'[v], arrived'[v])
    BY <1>1, <2>1, <2>3
  <2>5. GotInOrder(got') BY <1>1 DEF RxOrder
  <2> QED BY <1>1, <2>4, <2>5, StepRx
<1> QED BY <1>3, <1>4

(* The frame that get_net takes from the ring.                              *)
Taken == SubSeq(rxpkts, 1, Least(prog.len, Len(rxpkts)))

LEMMA FrameTaken ==
  ASSUME RingInv, WholeInv, GetBody
  PROVE  /\ prog.net \in Nets /\ Whole(prog.net, Taken)
         /\ got' = Append(got, [net |-> prog.net, data |-> Taken])
         /\ [net |-> prog.net, data |-> Taken] \in [net: Nets, data: Content]
         /\ got \in Seq([net: Nets, data: Content])
         /\ rxpkts' \in Content /\ Len(rxpkts') = Len(rxpkts) - prog.len
         /\ \A j \in 1 .. Len(rxpkts') : rxpkts'[j] = rxpkts[j + prog.len]
         /\ prog.len \in Nat \ {0} /\ prog.len <= Len(rxpkts)
         /\ Start(rxpkts[1], prog.net) /\ rxpkts[1][3] = No(Taken)
<1> DEFINE data == Taken
<1>1. /\ setup \in Setups /\ rxpkts \in Content /\ ProgOK /\ FrameAfter(rxpkts, 0, prog.net, prog.len)
      /\ got' = Append(got, [net |-> prog.net, data |-> data])
      /\ rxpkts' = SubSeq(rxpkts, Least(prog.len, Len(rxpkts)) + 1, Len(rxpkts))
      /\ got \in Seq([net: Nets, data: Content])
  BY DEF RingInv, WholeInv, RingWhole, GotWhole, GetBody, Taken
<1>2. prog.net \in Nets BY <1>1, ProgParts
<1>3. Len(rxpkts) \in Nat /\ prog.len \in Nat /\ prog.len <= Len(rxpkts)
  BY <1>1, <1>2, AfterIs DEF Content
<1>4. Least(prog.len, Len(rxpkts)) = prog.len BY <1>3 DEF Least
<1>5. data = SubSeq(rxpkts, 1, prog.len) BY <1>4 DEF Taken
<1> HIDE DEF data
<1>6. data \in Content /\ Len(data) = prog.len /\ \A j \in 1 .. prog.len : data[j] = rxpkts[j]
  BY <1>1, <1>3, <1>5 DEF Content
<1>7. /\ rxpkts' \in Content /\ Len(rxpkts') = Len(rxpkts) - prog.len
      /\ \A j \in 1 .. Len(rxpkts') : rxpkts'[j] = rxpkts[j + prog.len]
  <2> DEFINE rest == SubSeq(rxpkts, prog.len + 1, Len(rxpkts))
  <2>1. prog.len \in 0 .. Len(rxpkts) BY <1>3
  <2>2. /\ rest \in Content /\ Len(rest) = Len(rxpkts) - prog.len
        /\ \A j \in 1 .. Len(rxpkts) - prog.len : rest[j] = rxpkts[j + prog.len]
    BY <1>1, <2>1, RestOf DEF Content
  <2>3. rxpkts' = rest BY <1>1, <1>4
  <2> HIDE DEF rest
  <2> QED BY <2>2, <2>3
<1>8. Whole(prog.net, data)
  <2>1. PICK m \in 1 .. Total(prog.net) :
          /\ prog.len = Len(Frame(prog.net, m))
          /\ \A j \in 1 .. prog.len : rxpkts[0 + j] = Frame(prog.net, m)[j]
    BY <1>1 DEF FrameAfter
  <2>2. Frame(prog.net, m) \in Content BY <1>1, <1>2, <2>1, FrameType
  <2>3. \A j \in 1 .. prog.len : data[j] = Frame(prog.net, m)[j]
    <3>1. \A j \in 1 .. prog.len : 0 + j = j BY <1>3
    <3> QED BY <1>6, <2>1, <3>1
  <2>4. data = Frame(prog.net, m) BY <1>6, <2>1, <2>2, <2>3 DEF Content
  <2> QED BY <2>1, <2>4 DEF Whole
<1>9. /\ Len(data) \in Nat \ {0} /\ data[1][2] = prog.net /\ data[1][4] = 1
      /\ data[1][3] = No(data)
  <2>1. /\ Len(data) \in Nat \ {0}
        /\ \A j \in 1 .. Len(data) : data[j][2] = prog.net /\ data[j][3] = No(data) /\ data[j][4] = j
    BY <1>1, <1>2, <1>8, WholeNo
  <2>2. 1 \in 1 .. Len(data) BY <2>1
  <2> QED BY <2>1, <2>2
<1>10. data[1] = rxpkts[1] /\ prog.len # 0
  <2>1. 1 \in 1 .. prog.len /\ prog.len # 0 BY <1>6, <1>9
  <2> QED BY <1>6, <2>1
<1> QED BY <1>1, <1>2, <1>3, <1>6, <1>7, <1>8, <1>9, <1>10 DEF Start, data

LEMMA GetBodyRx == ASSUME RingInv, WholeInv, RxOrder, GetBody PROVE RxOrder'
<1> DEFINE data == Taken
           x == [net |-> prog.net, data |-> data]
           rest == rxpkts'
<1>1. /\ rxpkts \in Content /\ ProgOK /\ prog.pc = "body" /\ setup' = setup /\ dev' = dev
      /\ arrived' = arrived
  BY DEF RingInv, GetBody
<1>2. prog'.pc = "rx" BY <1>1, GetBodyProg, StepPolling
<1>3. /\ got' = Append(got, x) /\ x \in [net: Nets, data: Content]
      /\ got \in Seq([net: Nets, data: Content])
      /\ rest \in Content /\ Len(rest) = Len(rxpkts) - prog.len
      /\ \A j \in 1 .. Len(rest) : rest[j] = rxpkts[j + prog.len]
      /\ prog.len \in Nat \ {0} /\ prog.len <= Len(rxpkts)
      /\ Start(rxpkts[1], prog.net) /\ rxpkts[1][3] = No(data)
  BY FrameTaken
<1>4. x.net = prog.net /\ x.data = data OBVIOUS
<1> HIDE DEF data, x, rest
<1> DEFINE all == Append(got, x)
<1>5. /\ \A w \in Nets :
           GotOf(all, w) = GotOf(got, w) \cup (IF w = prog.net THEN {No(data)} ELSE {})
      /\ GotInOrder(got) /\ Below(GotOf(got, prog.net), {No(data)}) => GotInOrder(all)
  <2>1. x \in [net: Nets, data: Content] /\ got \in Seq([net: Nets, data: Content])
    BY <1>3
  <2>2. /\ \A w \in Nets :
             GotOf(all, w) = GotOf(got, w) \cup (IF w = x.net THEN {No(x.data)} ELSE {})
        /\ GotInOrder(got) /\ Below(GotOf(got, x.net), {No(x.data)}) => GotInOrder(all)
    BY <2>1, GotGrow
  <2> QED BY <1>4, <2>2
<1> HIDE DEF all
<1>6. ASSUME NEW w \in Nets
      PROVE  /\ Firsts(rest, w) \subseteq Firsts(rxpkts, w) /\ Rising(rest, w)
             /\ w = prog.net => No(data) \in Firsts(rxpkts, w) /\ Below({No(data)}, Firsts(rest, w))
  <2>1. Rising(rxpkts, w) BY RxNumbers
  <2>2. prog.len \in Nat /\ 1 \in 1 .. Len(rxpkts) /\ 1 <= prog.len
    BY <1>1, <1>3 DEF Content
  <2>3. /\ Firsts(rest, w) \subseteq Firsts(rxpkts, w) /\ Rising(rest, w)
        /\ \A i \in 1 .. Len(rxpkts) : i <= prog.len /\ Start(rxpkts[i], w) =>
              rxpkts[i][3] \in Firsts(rxpkts, w) /\ Below({rxpkts[i][3]}, Firsts(rest, w))
    BY <1>1, <1>3, <2>1, <2>2, FirstsDrop
  <2> QED BY <1>3, <2>2, <2>3
<1>7. ASSUME NEW w \in Nets
      PROVE  /\ RxAt(w, Kind(w), all, rest, prog', dev[w], arrived[w])
             /\ w = prog.net => Below(GotOf(got, w), {No(data)})
  <2> DEFINE G == GotOf(got, w)
             R == Firsts(rxpkts, w)
             D == Stored(Kind(w), dev[w])
  <2>1. Chain(G, R, HeldOf(prog, w), D, arrived[w]) /\ StoredInOrder(Kind(w), dev[w])
    BY RxNumbers
  <2>2. HeldOf(prog, w) = {} /\ HeldOf(prog', w) = {} BY <1>1, <1>2 DEF HeldOf
  <2> HIDE DEF G, R, D
  <2>3. CASE w = prog.net
    <3>1. Chain(G \cup {No(data)}, Firsts(rest, w), {}, D, arrived[w])
      BY <1>6, <2>1, <2>2, <2>3 DEF Chain, Below, R
    <3>2. Below(G, {No(data)}) BY <1>6, <2>1, <2>3 DEF Chain, Below, R
    <3> QED BY <1>5, <1>6, <2>1, <2>2, <2>3, <3>1, <3>2 DEF RxAt, G, D
  <2>4. CASE w # prog.net
    <3>1. Chain(G, Firsts(rest, w), {}, D, arrived[w])
      BY <1>6, <2>1, <2>2 DEF Chain, Below, R
    <3>2. GotOf(all, w) = G BY <1>5, <2>4 DEF G
    <3> QED BY <1>6, <2>1, <2>2, <2>4, <3>1, <3>2 DEF RxAt, D
  <2> QED BY <2>3, <2>4
<1>8. GotInOrder(all)
  <2>1. prog.net \in Nets BY <1>1, ProgParts
  <2> QED BY <1>5, <1>7, <2>1 DEF RxOrder
<1>9. \A w \in Nets : RxAt(w, Kind(w), got', rxpkts', prog', dev'[w], arrived'[w])
  BY <1>1, <1>3, <1>7 DEF rest, all
<1>10. GotInOrder(got') BY <1>3, <1>8 DEF all
<1> QED BY <1>1, <1>9, <1>10, StepRx

(* A poll of a card stores the header of the oldest frame there.            *)
LEMMA RxPoll ==
  ASSUME RingInv, WholeInv, RxOrder, prog.pc = "rx", setup' = setup, got' = got,
         arrived' = arrived, NEW w \in Nets, prog.net = w, NEW card,
         dev' = [dev EXCEPT ![w] = card],
         Stored(Kind(w), card) \subseteq Stored(Kind(w), dev[w]), StoredInOrder(Kind(w), card),
         NEW data, Whole(w, data), No(data) \in Stored(Kind(w), dev[w]),
         Below({No(data)}, Stored(Kind(w), card)), Poll_upcall(w, data)
  PROVE  RxOrder'
<1>1. /\ setup \in Setups /\ ProgOK /\ DevOK /\ rxpkts \in Content /\ arrived \in [Nets -> Nat]
  BY DEF RingInv, ArrivedOK
<1>2. dev'[w] = card /\ \A v \in Nets \ {w} : dev'[v] = dev[v] BY <1>1, DevAt
<1>3. ASSUME NEW v \in Nets
      PROVE  /\ Stored(Kind(v), dev'[v]) \subseteq Stored(Kind(v), dev[v])
             /\ StoredInOrder(Kind(v), dev'[v])
  <2>1. CASE v = w BY <1>2, <2>1
  <2>2. CASE v # w BY <1>2, <2>2, RxNumbers
  <2> QED BY <2>1, <2>2
<1>4. CASE ~Fits(rxpkts, data)
  <2>1. rxpkts' = rxpkts /\ prog' = prog BY <1>4 DEF Poll_upcall
  <2>2. \A v \in Nets : arrived'[v] \in Nat /\ arrived'[v] >= arrived[v] BY <1>1
  <2> QED BY <1>3, <2>1, <2>2, RxDrops
<1>5. CASE Fits(rxpkts, data)
  <2> DEFINE q == [prog EXCEPT !.pc = "upcall", !.hold = data]
             hdr == Header(w, data)
             ring == rxpkts \o <<hdr>>
  <2>1. data \in Content /\ Len(data) \in Nat BY <1>1, WholeNo
  <2>2. <<hdr>> \in Content /\ Len(<<hdr>>) = 1 /\ \A v \in Nets : Firsts(<<hdr>>, v) = {} /\ Rising(<<hdr>>, v)
    BY <2>1, HeaderType, FirstsHeader
  <2>3. rxpkts' = buff_in(rxpkts, <<hdr>>) /\ prog' = q BY <1>5 DEF Poll_upcall
  <2>4. Len(rxpkts) + Len(<<hdr>>) <= BUFFLEN
    BY <1>1, <1>5, <2>1, <2>2, BuffLenIs DEF Fits, Room, Content
  <2> HIDE DEF hdr
  <2>5. rxpkts' = ring BY <1>1, <2>2, <2>3, <2>4, BuffInAll
  <2>6. q.pc = "upcall" /\ q.net = w /\ q.hold = data BY <1>1 DEF ProgOK
  <2> HIDE DEF q
  <2>7. ASSUME NEW v \in Nets
        PROVE  RxAt(v, Kind(v), got, ring, q, dev'[v], arrived[v])
    <3> DEFINE G == GotOf(got, v)
               R == Firsts(rxpkts, v)
               D == Stored(Kind(v), dev[v])
               E == Stored(Kind(v), dev'[v])
    <3>1. /\ Chain(G, R, HeldOf(prog, v), D, arrived[v]) /\ Rising(rxpkts, v)
          /\ StoredInOrder(Kind(v), dev'[v]) /\ E \subseteq D
      BY <1>3, RxNumbers
    <3>2. Firsts(ring, v) = R \cup Firsts(<<hdr>>, v) BY <1>1, <2>2, FirstsGrow
    <3>3. Rising(ring, v)
      <4>1. Below(R, Firsts(<<hdr>>, v)) BY <2>2 DEF Below
      <4> QED BY <1>1, <2>2, <3>1, <4>1, FirstsGrow
    <3>4. HeldOf(prog, v) = {} /\ HeldOf(q, v) = IF v = w THEN {No(data)} ELSE {}
      BY <2>6 DEF HeldOf
    <3>5. v = w => No(data) \in D /\ Below({No(data)}, E) BY <1>2
    <3> HIDE DEF G, R, D, E, ring
    <3>6. Chain(G, R, HeldOf(q, v), E, arrived[v])
      BY <3>1, <3>4, <3>5 DEF Chain, Below
    <3>7. Firsts(ring, v) = R BY <2>2, <3>2
    <3> QED BY <3>1, <3>3, <3>6, <3>7 DEF RxAt, G, E
  <2>8. \A v \in Nets : RxAt(v, Kind(v), got', rxpkts', prog', dev'[v], arrived'[v])
    BY <2>3, <2>5, <2>7
  <2>9. GotInOrder(got') BY DEF RxOrder
  <2> QED BY <2>8, <2>9, StepRx
<1> QED BY <1>4, <1>5

LEMMA PollNeRxRx ==
  ASSUME RingInv, WholeInv, RxOrder, NEW w \in Nets, PollNeRx(w) PROVE RxOrder'
<1> DEFINE r == get_etherne(dev[w])
<1>1. /\ DevOK /\ ProgOK /\ NetsWhole /\ arrived \in [Nets -> Nat]
      /\ setup' = setup /\ arrived' = arrived /\ got' = got
      /\ prog.pc = "rx" /\ prog.net = w /\ Kind(w) = "ne"
      /\ dev' = [dev EXCEPT ![w] = r.card]
      /\ IF r.data # <<>> THEN Poll_upcall(w, r.data)
         ELSE prog' = [prog EXCEPT !.pc = "tx"] /\ rxpkts' = rxpkts
  BY DEF RingInv, ArrivedOK, WholeInv, PollNeRx
<1>2. NicOK(dev[w]) /\ NicRing(dev[w]) /\ NetWhole(w, dev[w])
  BY <1>1 DEF DevOK, NetOK, NetsWhole
<1>3. StoredInOrder("ne", dev[w]) BY <1>1, RxNumbers
<1>4. /\ Stored("ne", r.card) \subseteq Stored("ne", dev[w]) /\ StoredInOrder("ne", r.card)
      /\ r.data # <<>> => /\ No(r.data) \in Stored("ne", dev[w])
                          /\ Below({No(r.data)}, Stored("ne", r.card))
                          /\ Whole(w, r.data)
  BY <1>1, <1>2, <1>3, NicTakes, NicGivesWhole
<1> HIDE DEF r
<1>5. CASE r.data # <<>> BY <1>1, <1>4, <1>5, RxPoll
<1>6. CASE r.data = <<>>
  <2>1. rxpkts' = rxpkts /\ prog'.pc # "upcall" BY <1>1, <1>6 DEF ProgOK
  <2>2. \A v \in Nets : arrived'[v] \in Nat /\ arrived'[v] >= arrived[v] BY <1>1
  <2>3. dev'[w] = r.card /\ \A v \in Nets \ {w} : dev'[v] = dev[v] BY <1>1, DevAt
  <2>4. ASSUME NEW v \in Nets
        PROVE  /\ Stored(Kind(v), dev'[v]) \subseteq Stored(Kind(v), dev[v])
               /\ StoredInOrder(Kind(v), dev'[v])
    <3>1. CASE v = w BY <1>1, <1>4, <2>3, <3>1
    <3>2. CASE v # w BY <2>3, <3>2, RxNumbers
    <3> QED BY <3>1, <3>2
  <2> QED BY <1>1, <2>1, <2>2, <2>4, RxDrops
<1> QED BY <1>5, <1>6

LEMMA Poll3cRxRx ==
  ASSUME RingInv, WholeInv, RxOrder, NEW w \in Nets, Poll3cRx(w) PROVE RxOrder'
<1> DEFINE r == get_ether3c(dev[w])
<1>1. /\ DevOK /\ ProgOK /\ NetsWhole /\ arrived \in [Nets -> Nat]
      /\ setup' = setup /\ arrived' = arrived /\ got' = got
      /\ prog.pc = "rx" /\ prog.net = w /\ Kind(w) = "3c"
      /\ dev' = [dev EXCEPT ![w] = r.card]
      /\ IF r.data # <<>> THEN Poll_upcall(w, r.data)
         ELSE prog' = [prog EXCEPT !.pc = "txstat"] /\ rxpkts' = rxpkts
  BY DEF RingInv, ArrivedOK, WholeInv, Poll3cRx
<1>2. FifoOK(dev[w]) /\ NetWhole(w, dev[w])
  BY <1>1 DEF DevOK, NetOK, NetsWhole
<1>3. StoredInOrder("3c", dev[w]) BY <1>1, RxNumbers
<1>4. /\ Stored("3c", r.card) \subseteq Stored("3c", dev[w]) /\ StoredInOrder("3c", r.card)
      /\ r.data # <<>> => /\ No(r.data) \in Stored("3c", dev[w])
                          /\ Below({No(r.data)}, Stored("3c", r.card))
                          /\ Whole(w, r.data)
  BY <1>1, <1>2, <1>3, FifoTakes, FifoGivesWhole
<1> HIDE DEF r
<1>5. CASE r.data # <<>> BY <1>1, <1>4, <1>5, RxPoll
<1>6. CASE r.data = <<>>
  <2>1. rxpkts' = rxpkts /\ prog'.pc # "upcall" BY <1>1, <1>6 DEF ProgOK
  <2>2. \A v \in Nets : arrived'[v] \in Nat /\ arrived'[v] >= arrived[v] BY <1>1
  <2>3. dev'[w] = r.card /\ \A v \in Nets \ {w} : dev'[v] = dev[v] BY <1>1, DevAt
  <2>4. ASSUME NEW v \in Nets
        PROVE  /\ Stored(Kind(v), dev'[v]) \subseteq Stored(Kind(v), dev[v])
               /\ StoredInOrder(Kind(v), dev'[v])
    <3>1. CASE v = w BY <1>1, <1>4, <2>3, <3>1
    <3>2. CASE v # w BY <2>3, <3>2, RxNumbers
    <3> QED BY <3>1, <3>2
  <2> QED BY <1>1, <2>1, <2>2, <2>4, RxDrops
<1> QED BY <1>5, <1>6

LEMMA UpcallBodyRx == ASSUME RingInv, WholeInv, RxOrder, UpcallBody PROVE RxOrder'
<1> DEFINE hold == prog.hold
           long == rxpkts \o hold
<1>1. /\ setup \in Setups /\ rxpkts \in Content /\ RingWhole(rxpkts, prog) /\ ProgOK
      /\ setup' = setup /\ dev' = dev /\ arrived' = arrived /\ got' = got
      /\ prog.pc = "upcall" /\ rxpkts' = buff_in(rxpkts, hold)
      /\ prog' = [prog EXCEPT !.pc = "rx", !.hold = <<>>]
  BY DEF RingInv, WholeInv, UpcallBody
<1>2. prog'.pc = "rx" BY <1>1 DEF ProgOK
<1>3. prog.net \in Nets /\ hold \in Content /\ Whole(prog.net, hold)
      /\ Len(rxpkts) + Len(hold) <= BUFFLEN
  BY <1>1, ProgParts DEF RingWhole
<1> HIDE DEF hold
<1>4. rxpkts' = long BY <1>1, <1>3, BuffInAll
<1>5. ASSUME NEW v \in Nets
      PROVE  RxAt(v, Kind(v), got, long, prog', dev[v], arrived[v])
  <2> DEFINE G == GotOf(got, v)
             R == Firsts(rxpkts, v)
             H == HeldOf(prog, v)
             D == Stored(Kind(v), dev[v])
  <2>1. Chain(G, R, H, D, arrived[v]) /\ Rising(rxpkts, v) /\ StoredInOrder(Kind(v), dev[v])
    BY RxNumbers
  <2>2. Firsts(hold, v) = H /\ Rising(hold, v)
    <3>1. Firsts(hold, v) = (IF v = prog.net THEN {No(hold)} ELSE {}) /\ Rising(hold, v)
      BY <1>1, <1>3, FirstsFrame
    <3>2. H = IF v = prog.net THEN {No(hold)} ELSE {} BY <1>1 DEF HeldOf, hold
    <3> QED BY <3>1, <3>2
  <2>3. Firsts(long, v) = R \cup Firsts(hold, v) BY <1>1, <1>3, FirstsGrow
  <2>4. Rising(long, v)
    <3>1. Below(R, Firsts(hold, v)) BY <2>1, <2>2 DEF Chain, Below
    <3> QED BY <1>1, <1>3, <2>1, <2>2, <3>1, FirstsGrow
  <2>5. HeldOf(prog', v) = {} BY <1>2 DEF HeldOf
  <2> HIDE DEF G, R, H, D, long
  <2>6. Chain(G, R \cup H, {}, D, arrived[v]) BY <2>1 DEF Chain, Below
  <2> QED BY <2>1, <2>2, <2>3, <2>4, <2>5, <2>6 DEF RxAt, G, D
<1>6. \A v \in Nets : RxAt(v, Kind(v), got', rxpkts', prog', dev'[v], arrived'[v])
  BY <1>1, <1>4, <1>5
<1>7. GotInOrder(got') BY <1>1 DEF RxOrder
<1> QED BY <1>1, <1>6, <1>7, StepRx

(* A frame arrives: none is younger.                                        *)
LEMMA RxMore ==
  ASSUME NEW w, NEW kind, NEW g, NEW r, NEW p, NEW card, NEW n, RxAt(w, kind, g, r, p, card, n),
         NEW card1, Stored(kind, card1) \subseteq Stored(kind, card) \cup {n + 1},
         StoredInOrder(kind, card1)
  PROVE  RxAt(w, kind, g, r, p, card1, n + 1)
<1> DEFINE G == GotOf(g, w)
           R == Firsts(r, w)
           H == HeldOf(p, w)
           D == Stored(kind, card)
           E == Stored(kind, card1)
<1>1. Chain(G, R, H, D, n) /\ E \subseteq D \cup {n + 1} BY DEF RxAt
<1> HIDE DEF G, R, H, D, E
<1>2. n \in Nat /\ \A a \in G \cup R \cup H \cup D : a \in 1 .. n BY <1>1 DEF Chain
<1>3. /\ n + 1 \in Nat /\ n + 1 \in 1 .. n + 1
      /\ \A a \in 1 .. n : a < n + 1 /\ a \in 1 .. n + 1
  BY <1>2
<1>4. G \cup R \cup H \cup E \subseteq 1 .. n + 1 BY <1>1, <1>2, <1>3
<1>5. Below(G, R \cup H \cup E) /\ Below(R, H \cup E) /\ Below(H, E)
  BY <1>1, <1>2, <1>3 DEF Chain, Below
<1>6. Chain(G, R, H, E, n + 1) BY <1>3, <1>4, <1>5 DEF Chain
<1> QED BY <1>6 DEF RxAt, G, R, H, E

LEMMA RxArrives ==
  ASSUME RingInv, RxOrder, setup' = setup, got' = got, rxpkts' = rxpkts, prog' = prog,
         NEW w \in Nets, Arrive(w), \A v \in Nets \ {w} : dev'[v] = dev[v],
         Stored(Kind(w), dev'[w]) \subseteq Stored(Kind(w), dev[w]) \cup {arrived[w] + 1},
         StoredInOrder(Kind(w), dev'[w])
  PROVE  RxOrder'
<1>1. arrived \in [Nets -> Nat] BY DEF RingInv, ArrivedOK
<1>2. arrived'[w] = arrived[w] + 1 /\ \A v \in Nets \ {w} : arrived'[v] = arrived[v]
  BY <1>1 DEF Arrive
<1>3. ASSUME NEW v \in Nets
      PROVE  RxAt(v, Kind(v), got, rxpkts, prog, dev'[v], arrived'[v])
  <2>1. RxAt(v, Kind(v), got, rxpkts, prog, dev[v], arrived[v]) BY RxNumbers
  <2>2. CASE v = w
    <3>1. RxAt(w, Kind(w), got, rxpkts, prog, dev'[w], arrived[w] + 1)
      BY <2>1, <2>2, RxMore
    <3> QED BY <1>2, <2>2, <3>1
  <2>3. CASE v # w BY <1>2, <2>1, <2>3
  <2> QED BY <2>2, <2>3
<1>4. \A v \in Nets : RxAt(v, Kind(v), got', rxpkts', prog', dev'[v], arrived'[v]) BY <1>3
<1>5. GotInOrder(got') BY DEF RxOrder
<1> QED BY <1>4, <1>5, StepRx

LEMMA NextNo ==
  ASSUME RingInv, NEW w \in Nets, arrived[w] < Total(w)
  PROVE  Next_(w) \in Content /\ Whole(w, Next_(w)) /\ No(Next_(w)) = arrived[w] + 1
<1>1. setup \in Setups BY DEF RingInv
<1>2. Next_(w) \in Content /\ Whole(w, Next_(w)) /\ arrived[w] + 1 \in 1 .. Total(w)
  BY NextType
<1>3. /\ Len(Next_(w)) \in Nat \ {0} BY <1>1, <1>2, WholeNo
<1>4. 1 \in 1 .. Len(setup.bytes[w][arrived[w] + 1])
  BY <1>1, <1>2, <1>3, FrameType DEF Next_
<1>5. Next_(w)[1] = <<setup.bytes[w][arrived[w] + 1][1], w, arrived[w] + 1, 1>>
  BY <1>4 DEF Next_, Frame
<1> QED BY <1>2, <1>5 DEF No

LEMMA NicStores ==
  ASSUME NEW card, NicOK(card), NicRing(card), StoredInOrder("ne", card),
         NEW data, data # <<>>, NEW n \in Nat, No(data) = n + 1, Stored("ne", card) \subseteq 1 .. n,
         NEW c, c.next = card.next, c.ram = [card.ram EXCEPT ![card.curr] = data]
  PROVE  /\ Stored("ne", c) \subseteq Stored("ne", card) \cup {n + 1}
         /\ StoredInOrder("ne", c)
<1> DEFINE a == card.next
<1>1. card.curr \in Pages /\ a \in Pages /\ card.ram \in [Pages -> Content] BY DEF NicOK
<1>2. \A p \in Pages : c.ram[p] = IF p = card.curr THEN data ELSE card.ram[p] BY <1>1
<1>3. \A p \in Starts(c) : /\ p \in Pages
                            /\ \/ p \in Starts(card) /\ c.ram[p] = card.ram[p]
                               \/ p = card.curr /\ c.ram[p] = data
  BY <1>2 DEF Starts
<1>4. \A p \in Starts(card) : No(card.ram[p]) \in 1 .. n BY DEF Stored
<1>5. Stored("ne", c) \subseteq Stored("ne", card) \cup {n + 1}
  BY <1>3 DEF Stored
<1>6. \A p \in Starts(card) : Ahead(a, p) <= Ahead(a, card.curr) /\ Ahead(a, p) \in Nat
  <2> SUFFICES ASSUME NEW p \in Starts(card)
               PROVE  Ahead(a, p) <= Ahead(a, card.curr) /\ Ahead(a, p) \in Nat
    OBVIOUS
  <2>1. p \in Pages /\ Len(card.ram[p]) \in Nat BY RamType DEF Starts
  <2>2. Ahead(a, p) \in Pages /\ Ahead(a, card.curr) \in Pages BY <1>1, <2>1, AheadType
  <2>3. Ahead(a, p) + Len(card.ram[p]) <= Ahead(a, card.curr) BY DEF NicRing
  <2> HIDE DEF a
  <2> QED BY <2>1, <2>2, <2>3, PagesAre DEF Pages
<1>7. Ahead(a, card.curr) \in Nat
  <2>1. Ahead(a, card.curr) \in Pages BY <1>1, AheadType
  <2> QED BY <2>1, PagesAre DEF Pages
<1>8. ASSUME NEW p \in Starts(c), NEW q \in Starts(c), Ahead(a, p) < Ahead(a, q)
      PROVE  No(c.ram[p]) < No(c.ram[q])
  <2> HIDE DEF a
  <2>1. CASE p \in Starts(card) /\ c.ram[p] = card.ram[p]
    <3>1. CASE q \in Starts(card) /\ c.ram[q] = card.ram[q]
      BY <1>8, <2>1, <3>1 DEF StoredInOrder, a
    <3>2. CASE c.ram[q] = data BY <1>4, <2>1, <3>2
    <3> QED BY <1>3, <3>1, <3>2
  <2>2. CASE p = card.curr
    <3>1. ~(Ahead(a, card.curr) < Ahead(a, q)) BY <1>3, <1>6, <1>7
    <3> QED BY <1>8, <2>2, <3>1
  <2> QED BY <1>3, <2>1, <2>2
<1> QED BY <1>5, <1>8 DEF StoredInOrder

LEMMA NicArriveRx ==
  ASSUME RingInv, WholeInv, RxOrder, NEW w \in Nets, NicArrive(w) PROVE RxOrder'
<1>1. /\ setup \in Setups /\ DevOK /\ setup' = setup /\ got' = got /\ rxpkts' = rxpkts
      /\ prog' = prog /\ Kind(w) = "ne" /\ arrived[w] < Total(w) /\ Arrive(w)
  BY DEF RingInv, NicArrive, Arriving
<1> DEFINE data == Next_(w)
           c1 == [dev[w] EXCEPT !.overrun = TRUE]
           c2 == [dev[w] EXCEPT !.ram[dev[w].curr] = data, !.curr = nicwrap(@ + Len(data))]
<1>2. NicOK(dev[w]) /\ NicRing(dev[w]) BY <1>1 DEF DevOK, NetOK
<1>3. /\ StoredInOrder("ne", dev[w]) /\ arrived[w] \in Nat
      /\ Stored("ne", dev[w]) \subseteq 1 .. arrived[w]
  BY <1>1, RxNumbers DEF Chain
<1>4. data # <<>> /\ No(data) = arrived[w] + 1 BY <1>1, NextNo, WholeNo
<1> HIDE DEF data
<1>5. dev' = [dev EXCEPT ![w] = c1] \/ dev' = [dev EXCEPT ![w] = c2]
  <2>1. \/ dev' = [dev EXCEPT ![w].overrun = TRUE]
        \/ dev' = [dev EXCEPT ![w].ram[dev[w].curr] = data, ![w].curr = nicwrap(@ + Len(data))]
    BY DEF NicArrive, data
  <2> QED BY <1>1, <2>1 DEF DevOK
<1>6. c1.ram = dev[w].ram /\ c1.next = dev[w].next BY <1>2 DEF NicOK
<1>7. c2.ram = [dev[w].ram EXCEPT ![dev[w].curr] = data] /\ c2.next = dev[w].next
  BY <1>2 DEF NicOK
<1> HIDE DEF c1, c2
<1>8. Stored("ne", c1) = Stored("ne", dev[w]) /\ StoredInOrder("ne", c1)
  BY <1>3, <1>6, SameStored
<1>9. /\ Stored("ne", c2) \subseteq Stored("ne", dev[w]) \cup {arrived[w] + 1}
      /\ StoredInOrder("ne", c2)
  BY <1>2, <1>3, <1>4, <1>7, NicStores
<1>10. (dev'[w] = c1 \/ dev'[w] = c2) /\ \A v \in Nets \ {w} : dev'[v] = dev[v]
  BY <1>1, <1>5, DevAt
<1>11. /\ Stored(Kind(w), dev'[w]) \subseteq Stored(Kind(w), dev[w]) \cup {arrived[w] + 1}
       /\ StoredInOrder(Kind(w), dev'[w])
  BY <1>1, <1>8, <1>9, <1>10
<1> QED BY <1>1, <1>10, <1>11, RxArrives

LEMMA FifoStores ==
  ASSUME NEW card, FifoOK(card), StoredInOrder("3c", card),
         NEW new \in [data: Content, ok: BOOLEAN], NEW n \in Nat, No(new.data) = n + 1,
         Stored("3c", card) \subseteq 1 .. n, NEW c, c.rx = Append(card.rx, new)
  PROVE  /\ Stored("3c", c) \subseteq Stored("3c", card) \cup {n + 1}
         /\ StoredInOrder("3c", c)
<1> DEFINE s == card.rx
           t == c.rx
           m == Len(s)
<1>1. /\ s \in Seq([data: Content, ok: BOOLEAN]) /\ m \in Nat /\ DOMAIN s = 1 .. m
      /\ DOMAIN t = 1 .. m + 1 /\ t[m + 1] = new /\ \A j \in 1 .. m : t[j] = s[j]
  BY DEF FifoOK
<1>2. /\ Stored("3c", card) = {No(s[i].data) : i \in {i \in DOMAIN s : s[i].ok}}
      /\ Stored("3c", c) = {No(t[i].data) : i \in {i \in DOMAIN t : t[i].ok}}
      /\ \A i, j \in DOMAIN s : i < j /\ s[i].ok /\ s[j].ok => No(s[i].data) < No(s[j].data)
  BY DEF Stored, StoredInOrder
<1> HIDE DEF s, t, m
<1>3. \A j \in DOMAIN t : (j \in DOMAIN s /\ t[j] = s[j]) \/ (j = m + 1 /\ t[j] = new)
  BY <1>1
<1>4. \A j \in DOMAIN s : s[j].ok => No(s[j].data) \in 1 .. n BY <1>2
<1>5. Stored("3c", c) \subseteq Stored("3c", card) \cup {n + 1} BY <1>2, <1>3
<1>6. ASSUME NEW i \in DOMAIN t, NEW j \in DOMAIN t, i < j, t[i].ok, t[j].ok
      PROVE  No(t[i].data) < No(t[j].data)
  <2>1. i \in DOMAIN s /\ t[i] = s[i] BY <1>1, <1>6
  <2>2. CASE j \in DOMAIN s /\ t[j] = s[j] BY <1>2, <1>6, <2>1, <2>2
  <2>3. CASE t[j] = new
    <3>1. No(s[i].data) \in 1 .. n BY <1>4, <1>6, <2>1
    <3> QED BY <2>1, <2>3, <3>1
  <2> QED BY <1>3, <2>2, <2>3
<1> QED BY <1>5, <1>6 DEF StoredInOrder, t

LEMMA FifoArriveRx ==
  ASSUME RingInv, WholeInv, RxOrder, NEW w \in Nets, NEW ok \in BOOLEAN, FifoArrive(w, ok)
  PROVE  RxOrder'
<1>1. /\ setup \in Setups /\ DevOK /\ setup' = setup /\ got' = got /\ rxpkts' = rxpkts
      /\ prog' = prog /\ Kind(w) = "3c" /\ arrived[w] < Total(w) /\ Arrive(w)
  BY DEF RingInv, FifoArrive, Arriving
<1> DEFINE new == [data |-> Next_(w), ok |-> ok]
           c == [dev[w] EXCEPT !.rx = Append(@, new)]
<1>2. dev' = [dev EXCEPT ![w] = c] \/ dev' = [dev EXCEPT ![w] = dev[w]]
  BY <1>1 DEF FifoArrive, DevOK
<1>3. FifoOK(dev[w]) BY <1>1 DEF DevOK, NetOK
<1>4. /\ StoredInOrder("3c", dev[w]) /\ arrived[w] \in Nat
      /\ Stored("3c", dev[w]) \subseteq 1 .. arrived[w]
  BY <1>1, RxNumbers DEF Chain
<1>5. new \in [data: Content, ok: BOOLEAN] /\ No(new.data) = arrived[w] + 1 BY <1>1, NextNo
<1> HIDE DEF new
<1>6. c.rx = Append(dev[w].rx, new) BY <1>3 DEF FifoOK
<1> HIDE DEF c
<1>7. /\ Stored("3c", c) \subseteq Stored("3c", dev[w]) \cup {arrived[w] + 1}
      /\ StoredInOrder("3c", c)
  BY <1>3, <1>4, <1>5, <1>6, FifoStores
<1>8. (dev'[w] = c \/ dev'[w] = dev[w]) /\ \A v \in Nets \ {w} : dev'[v] = dev[v]
  BY <1>1, <1>2, DevAt
<1>9. /\ Stored(Kind(w), dev'[w]) \subseteq Stored(Kind(w), dev[w]) \cup {arrived[w] + 1}
      /\ StoredInOrder(Kind(w), dev'[w])
  BY <1>1, <1>4, <1>7, <1>8
<1> QED BY <1>1, <1>8, <1>9, RxArrives

LEMMA PktdAllocRx ==
  ASSUME Apart, RingInv, WholeInv, RxOrder, NEW w \in Nets, PktdAlloc(w) PROVE RxOrder'
<1>1. /\ setup \in Setups /\ DevOK /\ setup' = setup /\ arrived' = arrived /\ rxpkts' = rxpkts
      /\ prog' = prog /\ got' = got /\ Kind(w) = "pktd" /\ arrived[w] < Total(w)
      /\ dev' = [dev EXCEPT ![handle2dtype(w)].rxlen = Len(Next_(w)), ![w].copying = TRUE]
  BY DEF RingInv, PktdAlloc, Arriving
<1>2. handle2dtype(w) = w /\ Len(Next_(w)) \in Nat BY <1>1, HandleIs, NextType
<1> DEFINE n == Len(Next_(w))
<1>3. dev' = [dev EXCEPT ![w].rxlen = n, ![w].copying = TRUE] BY <1>1, <1>2
<1>4. n \in Nat /\ TRUE \in BOOLEAN BY <1>2
<1> HIDE DEF n
<1>5. \A v \in Nets : Kind(v) \in {"ne", "3c"} => dev'[v] = dev[v]
  BY <1>1, <1>3, <1>4, PktdDev
<1>6. \A v \in Nets : /\ Kind(v) = "ne" => dev'[v].ram = dev[v].ram /\ dev'[v].next = dev[v].next
                      /\ Kind(v) = "3c" => dev'[v].rx = dev[v].rx
  BY <1>5
<1> QED BY <1>1, <1>6, RxRests

(* A handler stores a frame that arrives in the ring at once.               *)
LEMMA PktdCompleteRx ==
  ASSUME Apart, Unmixed, RingInv, WholeInv, RxOrder, NEW w \in Nets, PktdComplete(w)
  PROVE  RxOrder'
<1> DEFINE d == handle2dtype(w)
           data == SubSeq(Next_(w), 1, Least(dev[d].rxlen, Len(Next_(w))))
<1>1. /\ setup \in Setups /\ DevOK /\ ProgOK /\ NetsWhole /\ rxpkts \in Content
      /\ arrived \in [Nets -> Nat]
      /\ setup' = setup /\ prog' = prog /\ got' = got
      /\ Kind(w) = "pktd" /\ dev[w].copying /\ Arrive(w)
      /\ dev' = [dev EXCEPT ![w].copying = FALSE, ![d].rxlen = 0]
      /\ IF dev[d].rxlen > 0 THEN Interrupt_upcall(d, data) ELSE rxpkts' = rxpkts
  BY DEF RingInv, WholeInv, ArrivedOK, PktdComplete
<1>2. d = w BY <1>1, HandleIs
<1>3. arrived[w] < Total(w) BY <1>1 DEF RingInv, ArrivedOK
<1>4. /\ Next_(w) \in Content /\ Len(Next_(w)) \in Nat /\ Whole(w, Next_(w))
      /\ No(Next_(w)) = arrived[w] + 1
  BY <1>3, NextType, NextNo
<1>5. dev[w].rxlen = Len(Next_(w)) BY <1>1 DEF NetsWhole, NetWhole
<1>6. data = Next_(w) BY <1>2, <1>4, <1>5 DEF Least, Content
<1>7. \A v \in Nets : Kind(v) = "pktd" BY <1>1 DEF Unmixed
<1>8. prog.pc # "upcall" BY <1>1, <1>7 DEF ProgOK
<1>9. arrived'[w] = arrived[w] + 1 /\ \A v \in Nets \ {w} : arrived'[v] = arrived[v]
  BY <1>1 DEF Arrive
<1>10. \/ rxpkts' = rxpkts
       \/ rxpkts' = (rxpkts \o <<Header(w, Next_(w))>>) \o Next_(w)
  <2> DEFINE f == Next_(w)
             hdr == Header(w, f)
             ring == rxpkts \o <<hdr>>
  <2>1. CASE dev[d].rxlen > 0 /\ Fits(rxpkts, f)
    <3>1. Interrupt_upcall(w, f) BY <1>1, <1>2, <1>6, <2>1
    <3> HIDE DEF d, data, f
    <3>2. rxpkts' = buff_in(buff_in(rxpkts, <<hdr>>), f) BY <2>1, <3>1 DEF Interrupt_upcall
    <3>3. f \in Content /\ Len(f) \in Nat BY <1>4 DEF f
    <3>4. <<hdr>> \in Content /\ Len(<<hdr>>) = 1 BY <3>3, HeaderType
    <3> HIDE DEF hdr
    <3>5. Len(rxpkts) \in Nat /\ Len(rxpkts) + 1 + Len(f) <= BUFFLEN
      BY <1>1, <2>1, <3>3, BuffLenIs DEF Fits, Room, Content
    <3>6. buff_in(rxpkts, <<hdr>>) = ring
      <4>1. Len(rxpkts) + Len(<<hdr>>) <= BUFFLEN BY <3>3, <3>4, <3>5, BuffLenIs
      <4> QED BY <1>1, <3>4, <4>1, BuffInAll
    <3>7. Len(ring) = Len(rxpkts) + 1 /\ ring \in Content BY <1>1, <3>4 DEF Content
    <3>8. buff_in(ring, f) = ring \o f
      <4> HIDE DEF ring
      <4> QED BY <3>3, <3>5, <3>7, BuffInAll
    <3>9. rxpkts' = ring \o f BY <3>2, <3>6, <3>8
    <3> QED BY <3>9 DEF hdr, f
  <2>2. CASE dev[d].rxlen > 0 /\ ~Fits(rxpkts, f)
    <3>1. Interrupt_upcall(w, f) BY <1>1, <1>2, <1>6, <2>2
    <3> QED BY <2>2, <3>1 DEF Interrupt_upcall
  <2>3. CASE ~(dev[d].rxlen > 0) BY <1>1, <2>3
  <2> QED BY <2>1, <2>2, <2>3
<1> DEFINE f == Next_(w)
           hdr == Header(w, f)
           mid == rxpkts \o <<hdr>>
           long == mid \o f
<1>11. ASSUME NEW v \in Nets, NEW ring \in {rxpkts, long}
       PROVE  RxAt(v, Kind(v), got, ring, prog, dev'[v], arrived'[v])
  <2> DEFINE G == GotOf(got, v)
             R == Firsts(rxpkts, v)
  <2>1. /\ RxAt(v, Kind(v), got, rxpkts, prog, dev[v], arrived[v])
        /\ Chain(G, R, HeldOf(prog, v), Stored(Kind(v), dev[v]), arrived[v])
        /\ Rising(rxpkts, v)
    BY RxNumbers
  <2>2. HeldOf(prog, v) = {} BY <1>8 DEF HeldOf
  <2>3. /\ Stored(Kind(v), dev[v]) = {} /\ Stored(Kind(v), dev'[v]) = {}
        /\ StoredInOrder(Kind(v), dev'[v])
    BY <1>7 DEF Stored, StoredInOrder
  <2>4. <<hdr>> \in Content /\ Firsts(<<hdr>>, v) = {} /\ Rising(<<hdr>>, v)
    BY <1>4, HeaderType, FirstsHeader
  <2>5. Firsts(f, v) = (IF v = w THEN {arrived[w] + 1} ELSE {}) /\ Rising(f, v)
    BY <1>1, <1>4, FirstsFrame
  <2>6. f \in Content BY <1>4
  <2> HIDE DEF f, hdr
  <2>7. mid \in Content BY <1>1, <2>4 DEF Content
  <2>8. Firsts(mid, v) = R /\ Rising(mid, v)
    <3>1. Below(Firsts(rxpkts, v), Firsts(<<hdr>>, v)) BY <2>4 DEF Below
    <3>2. Firsts(mid, v) = Firsts(rxpkts, v) \cup Firsts(<<hdr>>, v) /\ Rising(mid, v)
      BY <1>1, <2>1, <2>4, <3>1, FirstsGrow
    <3> QED BY <2>4, <3>2
  <2> HIDE DEF G, R, mid
  <2>9. Below(R, Firsts(f, v)) /\ arrived[v] \in Nat
    BY <1>1, <2>1, <2>5 DEF Chain, Below
  <2>10. Firsts(long, v) = R \cup Firsts(f, v) /\ Rising(long, v)
    BY <2>5, <2>6, <2>7, <2>8, <2>9, FirstsGrow
  <2>11. /\ Firsts(ring, v) \subseteq R \cup Firsts(f, v) /\ Rising(ring, v)
    BY <2>1, <2>10 DEF R
  <2> HIDE DEF long
  <2>12. CASE v = w
    <3>1. /\ Firsts(ring, v) \subseteq R \cup {arrived[v] + 1} /\ arrived'[v] = arrived[v] + 1
      BY <1>9, <2>5, <2>11, <2>12
    <3>2. Chain(G, Firsts(ring, v), {}, {}, arrived[v] + 1)
      BY <2>1, <2>9, <3>1 DEF Chain, Below
    <3> QED BY <2>2, <2>3, <2>11, <3>1, <3>2 DEF RxAt, G
  <2>13. CASE v # w
    <3>1. Firsts(ring, v) \subseteq R /\ arrived'[v] = arrived[v]
      BY <1>9, <2>5, <2>11, <2>13
    <3>2. Chain(G, Firsts(ring, v), {}, {}, arrived[v])
      BY <2>1, <3>1 DEF Chain, Below
    <3> QED BY <2>2, <2>3, <2>11, <3>1, <3>2 DEF RxAt, G
  <2> QED BY <2>12, <2>13
<1>12. rxpkts' \in {rxpkts, long} BY <1>10
<1> HIDE DEF long, d, data
<1>13. \A v \in Nets : RxAt(v, Kind(v), got', rxpkts', prog', dev'[v], arrived'[v])
  BY <1>1, <1>11, <1>12
<1>14. GotInOrder(got') BY <1>1 DEF RxOrder
<1> QED BY <1>1, <1>13, <1>14, StepRx

(* What is to be sent is no concern of the receiving side's.                *)
LEMMA RxAside ==
  ASSUME RingInv, RxOrder, setup' = setup, arrived' = arrived, got' = got, rxpkts' = rxpkts,
         prog' = prog \/ prog'.pc # "upcall", NEW w \in Nets, NEW card,
         Kind(w) = "ne" => card.ram = dev[w].ram /\ card.next = dev[w].next,
         Kind(w) = "3c" => card.rx = dev[w].rx,
         dev' = [dev EXCEPT ![w] = card] \/ dev' = dev
  PROVE  RxOrder'
<1>1. DevOK BY DEF RingInv
<1>2. (dev'[w] = card \/ dev'[w] = dev[w]) /\ \A v \in Nets \ {w} : dev'[v] = dev[v]
  BY <1>1, DevAt
<1>3. \A v \in Nets : /\ Kind(v) = "ne" => dev'[v].ram = dev[v].ram /\ dev'[v].next = dev[v].next
                      /\ Kind(v) = "3c" => dev'[v].rx = dev[v].rx
  BY <1>2
<1> QED BY <1>3, RxRests

LEMMA PollNeTxRx ==
  ASSUME RingInv, RxOrder, NEW w \in Nets, PollNeTx(w) PROVE RxOrder'
<1> DEFINE x == transmit_upcall(w).data
<1>1. /\ DevOK /\ ProgOK /\ setup' = setup /\ arrived' = arrived /\ got' = got /\ rxpkts' = rxpkts
      /\ prog.pc = "tx" /\ Kind(w) = "ne"
      /\ \/ dev' = [dev EXCEPT ![w] = put_etherne(@, x)] /\ prog' = prog
         \/ prog' = NextNet /\ dev' = dev
  BY DEF RingInv, PollNeTx
<1> HIDE DEF x
<1> DEFINE c == [dev[w] EXCEPT !.tx = x]
<1>2. NicOK(dev[w]) BY <1>1 DEF DevOK, NetOK
<1>3. c.ram = dev[w].ram /\ c.next = dev[w].next BY <1>2 DEF NicOK
<1>4. dev' = [dev EXCEPT ![w] = c] \/ dev' = dev BY <1>1 DEF put_etherne
<1>5. prog' = prog \/ prog'.pc # "upcall" BY <1>1, StepNextNet
<1> HIDE DEF c
<1>6. Kind(w) = "3c" => c.rx = dev[w].rx BY <1>1
<1> QED BY <1>1, <1>3, <1>4, <1>5, <1>6, RxAside

LEMMA Poll3cStatRx ==
  ASSUME RingInv, RxOrder, NEW w \in Nets, Poll3cStat(w) PROVE RxOrder'
<1>1. /\ DevOK /\ ProgOK /\ setup' = setup /\ arrived' = arrived /\ got' = got /\ rxpkts' = rxpkts
      /\ prog.pc = "txstat" /\ prog.net = w /\ prog' = [prog EXCEPT !.pc = "tx"]
      /\ dev' = [dev EXCEPT ![w].tx = <<>>, ![w].txerr = FALSE] \/ dev' = dev
  BY DEF RingInv, Poll3cStat
<1> DEFINE c == [dev[w] EXCEPT !.tx = <<>>, !.txerr = FALSE]
<1>2. Kind(w) = "3c" BY <1>1 DEF ProgOK
<1>3. FifoOK(dev[w]) BY <1>1, <1>2 DEF DevOK, NetOK
<1>4. c.rx = dev[w].rx BY <1>3 DEF FifoOK
<1>5. dev' = [dev EXCEPT ![w] = c] \/ dev' = dev BY <1>1 DEF DevOK
<1>6. prog'.pc # "upcall" BY <1>1 DEF ProgOK
<1> HIDE DEF c
<1>7. Kind(w) = "ne" => c.ram = dev[w].ram /\ c.next = dev[w].next BY <1>2
<1> QED BY <1>1, <1>4, <1>5, <1>6, <1>7, RxAside

LEMMA Poll3cTxRx ==
  ASSUME RingInv, RxOrder, NEW w \in Nets, Poll3cTx(w) PROVE RxOrder'
<1> DEFINE x == transmit_upcall(w).data
<1>1. /\ DevOK /\ ProgOK /\ setup' = setup /\ arrived' = arrived /\ got' = got /\ rxpkts' = rxpkts
      /\ prog.pc = "tx" /\ Kind(w) = "3c"
      /\ \/ dev' = [dev EXCEPT ![w] = put_ether3c(@, x)] /\ prog' = prog
         \/ prog' = NextNet /\ dev' = dev
  BY DEF RingInv, Poll3cTx
<1> HIDE DEF x
<1> DEFINE c == [dev[w] EXCEPT !.tx = Append(@, x)]
<1>2. FifoOK(dev[w]) BY <1>1 DEF DevOK, NetOK
<1>3. c.rx = dev[w].rx BY <1>2 DEF FifoOK
<1>4. dev' = [dev EXCEPT ![w] = c] \/ dev' = dev BY <1>1 DEF put_ether3c
<1>5. prog' = prog \/ prog'.pc # "upcall" BY <1>1, StepNextNet
<1> HIDE DEF c
<1>6. Kind(w) = "ne" => c.ram = dev[w].ram /\ c.next = dev[w].next BY <1>1
<1> QED BY <1>1, <1>3, <1>4, <1>5, <1>6, RxAside

LEMMA PollPktdRx ==
  ASSUME RingInv, RxOrder, NEW w \in Nets, PollPktd(w) PROVE RxOrder'
<1>1. /\ ProgOK /\ setup' = setup /\ arrived' = arrived /\ got' = got /\ rxpkts' = rxpkts
      /\ dev' = dev /\ prog' = NextNet
  BY DEF RingInv, PollPktd
<1>2. prog'.pc # "upcall" BY <1>1, StepNextNet
<1> QED BY <1>1, <1>2, RxRests

LEMMA NicSentRx ==
  ASSUME RingInv, RxOrder, NEW w \in Nets, NicSent(w) PROVE RxOrder'
<1>1. /\ DevOK /\ setup' = setup /\ arrived' = arrived /\ got' = got /\ rxpkts' = rxpkts
      /\ prog' = prog /\ Kind(w) = "ne" /\ dev' = [dev EXCEPT ![w].tx = <<>>]
  BY DEF RingInv, NicSent
<1> DEFINE c == [dev[w] EXCEPT !.tx = <<>>]
<1>2. NicOK(dev[w]) BY <1>1 DEF DevOK, NetOK
<1>3. c.ram = dev[w].ram /\ c.next = dev[w].next BY <1>2 DEF NicOK
<1>4. dev' = [dev EXCEPT ![w] = c] BY <1>1
<1> HIDE DEF c
<1>5. Kind(w) = "3c" => c.rx = dev[w].rx BY <1>1
<1> QED BY <1>1, <1>3, <1>4, <1>5, RxAside

LEMMA FifoSentRx ==
  ASSUME RingInv, RxOrder, NEW w \in Nets, NEW ok \in BOOLEAN, FifoSent(w, ok) PROVE RxOrder'
<1>1. /\ DevOK /\ setup' = setup /\ arrived' = arrived /\ got' = got /\ rxpkts' = rxpkts
      /\ prog' = prog /\ Kind(w) = "3c" /\ dev' = [dev EXCEPT ![w].tx = Tail(@), ![w].txerr = ~ok]
  BY DEF RingInv, FifoSent
<1> DEFINE c == [dev[w] EXCEPT !.tx = Tail(@), !.txerr = ~ok]
<1>2. FifoOK(dev[w]) BY <1>1 DEF DevOK, NetOK
<1>3. c.rx = dev[w].rx BY <1>2 DEF FifoOK
<1>4. dev' = [dev EXCEPT ![w] = c] BY <1>1 DEF DevOK
<1> HIDE DEF c
<1>5. Kind(w) = "ne" => c.ram = dev[w].ram /\ c.next = dev[w].next BY <1>1
<1> QED BY <1>1, <1>3, <1>4, <1>5, RxAside

LEMMA InitRx == ASSUME NoSerial, Init PROVE RxOrder
<1>1. /\ setup \in Setups /\ dev = [w \in Nets |-> DevInit(w)] /\ rxpkts = <<>> /\ got = <<>>
      /\ prog.pc = "receive" /\ arrived = [w \in Nets |-> IF Kind(w) = "slip" THEN Total(w) ELSE 0]
  BY DEF Init
<1>2. DOMAIN got = {} BY <1>1
<1>3. ASSUME NEW w \in Nets PROVE RxAt(w, Kind(w), got, rxpkts, prog, dev[w], arrived[w])
  <2>1. dev[w] = DevInit(w) /\ arrived[w] = 0 BY <1>1 DEF NoSerial
  <2>2. GotOf(got, w) = {} BY <1>2 DEF GotOf
  <2>3. Firsts(rxpkts, w) = {} /\ Rising(rxpkts, w) BY <1>1, FirstsNone
  <2>4. HeldOf(prog, w) = {} BY <1>1 DEF HeldOf
  <2>5. Stored(Kind(w), dev[w]) = {} /\ StoredInOrder(Kind(w), dev[w])
    <3>1. CASE Kind(w) = "ne"
      <4>0. dev[w] = NicReset(<<>>) BY <2>1, <3>1 DEF DevInit
      <4>1. dev[w].ram = [p \in Pages |-> <<>>] BY <4>0 DEF NicReset, Pages
      <4>2. Starts(dev[w]) = {} BY <4>1 DEF Starts
      <4> QED BY <3>1, <4>2 DEF Stored, StoredInOrder
    <3>2. CASE Kind(w) = "3c"
      <4>1. dev[w].rx = <<>> BY <2>1, <3>2 DEF DevInit
      <4>2. DOMAIN dev[w].rx = {} BY <4>1
      <4> QED BY <3>2, <4>2 DEF Stored, StoredInOrder
    <3>3. CASE Kind(w) \notin {"ne", "3c"} BY <3>3 DEF Stored, StoredInOrder
    <3> QED BY <3>1, <3>2, <3>3
  <2> QED BY <2>1, <2>2, <2>3, <2>4, <2>5 DEF RxAt, Chain, Below
<1> QED BY <1>2, <1>3 DEF RxOrder, GotInOrder

LEMMA NextRx ==
  ASSUME Apart, Unmixed, RingInv, WholeInv, RxOrder, [Next]_vars PROVE RxOrder'
<1>1. CASE UNCHANGED vars
  <2>1. /\ setup' = setup /\ got' = got /\ rxpkts' = rxpkts /\ prog' = prog
        /\ arrived' = arrived /\ dev' = dev
    BY <1>1 DEF vars
  <2> QED BY <2>1, RxRests
<1>2. CASE GetHeader BY <1>2, GetHeaderRx
<1>3. CASE GetBody BY <1>3, GetBodyRx
<1>4. CASE UpcallBody BY <1>4, UpcallBodyRx
<1>5. CASE TxChar BY <1>5, NoTxChar
<1>6. ASSUME NEW w \in Nets, PollNeRx(w) \/ PollNeTx(w) \/ Poll3cRx(w) \/ Poll3cStat(w)
                             \/ Poll3cTx(w) \/ PollSlip(w) \/ PollPktd(w)
      PROVE  RxOrder'
  <2>1. ~PollSlip(w) BY NoSlip DEF PollSlip
  <2> QED BY <1>6, <2>1, PollNeRxRx, PollNeTxRx, Poll3cRxRx, Poll3cStatRx, Poll3cTxRx, PollPktdRx
<1>7. ASSUME NEW w \in Nets, Arrives(w) PROVE RxOrder'
  <2>1. ~SerRxInt(w) BY NoSlip DEF SerRxInt
  <2>2. TRUE \in BOOLEAN /\ FALSE \in BOOLEAN OBVIOUS
  <2> QED BY <1>7, <2>1, <2>2, NicArriveRx, FifoArriveRx, PktdAllocRx DEF Arrives
<1>8. ASSUME NEW w \in Nets, Sends(w) PROVE RxOrder'
  <2>1. ~SerTxInt(w) BY NoSlip DEF SerTxInt
  <2>2. TRUE \in BOOLEAN /\ FALSE \in BOOLEAN OBVIOUS
  <2> QED BY <1>8, <2>1, <2>2, NicSentRx, FifoSentRx DEF Sends
<1> QED BY <1>1, <1>2, <1>3, <1>4, <1>5, <1>6, <1>7, <1>8, PktdCompleteRx DEF Next, Main

-----------------------------------------------------------------------------
(* Frames go out in order.                                                  *)

LEMMA AllWholeSame ==
  ASSUME setup' = setup, NEW w, NEW q PROVE AllWhole(w, q)' <=> AllWhole(w, q)
  BY WholeSame DEF AllWhole

LEMMA TxAtSame ==
  ASSUME setup' = setup, NEW w, NEW kind, NEW g, NEW t, NEW card, NEW s
  PROVE  TxAt(w, kind, g, t, card, s)' <=> TxAt(w, kind, g, t, card, s)
<1> DEFINE o == Other(w)
           q == ToSend(kind, card)
<1>1. AllWhole(o, s)' <=> AllWhole(o, s) BY AllWholeSame
<1>2. AllWhole(o, q)' <=> AllWhole(o, q) BY AllWholeSame
<1> QED BY <1>1, <1>2 DEF TxAt

LEMMA LaidOutSame ==
  ASSUME setup' = setup, NEW t PROVE LaidOut(t)' <=> LaidOut(t)
  BY AfterSame DEF LaidOut

LEMMA StepOut ==
  ASSUME setup' = setup, txpkts' \in Content, LaidOut(txpkts'), sent' = [w \in Nets |-> sent'[w]],
         \A w \in Nets : TxAt(w, Kind(w), got', txpkts', dev'[w], sent'[w])
  PROVE  TxOrder'
<1>1. LaidOut(txpkts)' BY LaidOutSame
<1>2. \A w \in Nets : TxAt(w, Kind(w), got, txpkts, dev[w], sent[w])' BY TxAtSame DEF Kind
<1> QED BY <1>1, <1>2 DEF TxOrder

LEMMA OtherIs ==
  ASSUME NEW w \in Nets
  PROVE  Other(w) \in Nets /\ Other(Other(w)) = w /\ Other(w) # w
         /\ \A v \in Nets : v = w \/ v = Other(w)
  BY DEF Nets, Other

(* Fewer frames are in the ring, and the program may have got more.         *)
LEMMA TxLess ==
  ASSUME NEW w, NEW kind, NEW g, NEW t, NEW card, NEW s, TxAt(w, kind, g, t, card, s),
         NEW g1, GotOf(g, Other(w)) \subseteq GotOf(g1, Other(w)),
         NEW t1, Firsts(t1, Other(w)) \subseteq Firsts(t, Other(w)), Rising(t1, Other(w)),
         NEW card1, ToSend(kind, card1) = ToSend(kind, card)
  PROVE  TxAt(w, kind, g1, t1, card1, s)
<1> DEFINE o == Other(w)
           q == ToSend(kind, card)
<1> HIDE DEF o, q
<1>1. /\ AllWhole(o, s) /\ AllWhole(o, q) /\ Ups(s) /\ Ups(q)
      /\ Nums(s) \cup Nums(q) \cup Firsts(t, o) \subseteq GotOf(g, o)
      /\ Below(Nums(s), Nums(q) \cup Firsts(t, o)) /\ Below(Nums(q), Firsts(t, o))
      /\ kind = "pktd" => Firsts(t, o) = {}
  BY DEF TxAt, o, q
<1>2. /\ GotOf(g, o) \subseteq GotOf(g1, o) /\ Firsts(t1, o) \subseteq Firsts(t, o)
      /\ Rising(t1, o) /\ ToSend(kind, card1) = q
  BY DEF o, q
<1>3. Below(Nums(s), Nums(q) \cup Firsts(t1, o)) /\ Below(Nums(q), Firsts(t1, o))
  BY <1>1, <1>2 DEF Below
<1>4. Nums(s) \cup Nums(q) \cup Firsts(t1, o) \subseteq GotOf(g1, o)
  BY <1>1, <1>2
<1> QED BY <1>1, <1>2, <1>3, <1>4 DEF TxAt, o

LEMMA TxNumbers ==
  ASSUME TxOrder, NEW w \in Nets
  PROVE  /\ TxAt(w, Kind(w), got, txpkts, dev[w], sent[w])
         /\ Rising(txpkts, w) /\ Rising(txpkts, Other(w))
<1>1. \A v \in Nets : TxAt(v, Kind(v), got, txpkts, dev[v], sent[v]) BY DEF TxOrder
<1>2. \A v \in Nets : Rising(txpkts, Other(v)) BY <1>1 DEF TxAt
<1> QED BY <1>1, <1>2, OtherIs

(* The sending side does nothing.                                           *)
LEMMA TxRests ==
  ASSUME TxOrder, setup' = setup, txpkts' = txpkts, sent' = sent,
         got' = got \/ \A v \in Nets : GotOf(got, v) \subseteq GotOf(got', v),
         \A v \in Nets : ToSend(Kind(v), dev'[v]) = ToSend(Kind(v), dev[v])
  PROVE  TxOrder'
<1> DEFINE g == got'
<1>0. got' = g OBVIOUS
<1>1. \A v \in Nets : GotOf(got, v) \subseteq GotOf(g, v) OBVIOUS
<1> HIDE DEF g
<1>2. ASSUME NEW w \in Nets
      PROVE  TxAt(w, Kind(w), g, txpkts, dev'[w], sent[w])
  <2>1. TxAt(w, Kind(w), got, txpkts, dev[w], sent[w]) /\ Rising(txpkts, Other(w))
    BY TxNumbers
  <2>2. GotOf(got, Other(w)) \subseteq GotOf(g, Other(w)) BY <1>1, OtherIs
  <2> QED BY <2>1, <2>2, TxLess
<1>3. \A w \in Nets : TxAt(w, Kind(w), got', txpkts', dev'[w], sent'[w]) BY <1>0, <1>2
<1>4. txpkts' \in Content /\ LaidOut(txpkts') /\ sent' = [w \in Nets |-> sent'[w]] BY DEF TxOrder
<1> QED BY <1>3, <1>4, StepOut

LEMMA SameSend ==
  ASSUME NEW kind, NEW card, NEW c, kind \in {"ne", "3c"} => c.tx = card.tx
  PROVE  ToSend(kind, c) = ToSend(kind, card)
  BY DEF ToSend

LEMMA TxRestsAt ==
  ASSUME RingInv, TxOrder, setup' = setup, txpkts' = txpkts, sent' = sent, got' = got,
         NEW w \in Nets, NEW card, Kind(w) \in {"ne", "3c"} => card.tx = dev[w].tx,
         dev' = [dev EXCEPT ![w] = card] \/ dev' = dev
  PROVE  TxOrder'
<1>1. DevOK BY DEF RingInv
<1>2. (dev'[w] = card \/ dev'[w] = dev[w]) /\ \A v \in Nets \ {w} : dev'[v] = dev[v]
  BY <1>1, DevAt
<1>3. \A v \in Nets : Kind(v) \in {"ne", "3c"} => dev'[v].tx = dev[v].tx BY <1>2
<1>4. \A v \in Nets : ToSend(Kind(v), dev'[v]) = ToSend(Kind(v), dev[v]) BY <1>3, SameSend
<1> QED BY <1>4, TxRests

(* A frame goes out, or is lost with what may follow it.                    *)
Goes(q, q1, s, s1) ==
    \/ q1 = <<>> /\ s1 = s
    \/ q # <<>> /\ q1 = Tail(q) /\ (s1 = s \/ s1 = Append(s, Head(q)))

LEMMA TxSend ==
  ASSUME NEW w, NEW kind, NEW g, NEW t, NEW card, NEW s, TxAt(w, kind, g, t, card, s),
         NEW q, q = ToSend(kind, card), NEW card1, NEW q1, q1 = ToSend(kind, card1), NEW s1,
         Goes(q, q1, s, s1)
  PROVE  TxAt(w, kind, g, t, card1, s1)
<1> DEFINE o == Other(w)
           F == Firsts(t, o)
<1>1. /\ AllWhole(o, s) /\ AllWhole(o, q) /\ Ups(s) /\ Ups(q) /\ Rising(t, o)
      /\ Nums(s) \cup Nums(q) \cup F \subseteq GotOf(g, o)
      /\ Below(Nums(s), Nums(q) \cup F) /\ Below(Nums(q), F)
      /\ kind = "pktd" => F = {}
  BY DEF TxAt
<1> HIDE DEF o, F
<1>2. SUFFICES /\ AllWhole(o, s1) /\ AllWhole(o, q1) /\ Ups(s1) /\ Ups(q1)
               /\ Nums(s1) \cup Nums(q1) \subseteq Nums(s) \cup Nums(q)
               /\ Below(Nums(s1), Nums(q1) \cup F) /\ Below(Nums(q1), F)
  <2>1. Nums(s1) \cup Nums(q1) \cup F \subseteq GotOf(g, o) BY <1>1, <1>2
  <2> QED BY <1>1, <1>2, <2>1 DEF TxAt, o, F
<1>3. CASE q1 = <<>> /\ s1 = s
  <2>1. AllWhole(o, <<>>) /\ Nums(<<>>) = {} /\ Ups(<<>>) BY NumsNone
  <2>2. Nums(q1) = {} BY <1>3, <2>1
  <2>3. Below(Nums(s), {} \cup F) /\ Below({}, F) BY <1>1 DEF Below
  <2> QED BY <1>1, <1>3, <2>1, <2>2, <2>3
<1>4. CASE q # <<>> /\ q1 = Tail(q)
  <2> DEFINE x == Head(q)
  <2>1. /\ x \in Content /\ Whole(o, x) /\ No(x) \in Nums(q) /\ AllWhole(o, q1)
        /\ Nums(q1) \subseteq Nums(q) /\ Ups(q1) /\ Below({No(x)}, Nums(q1))
    BY <1>1, <1>4, NumsTail
  <2>2. Below(Nums(q1), F) /\ Below(Nums(s), Nums(q1) \cup F)
    BY <1>1, <2>1 DEF Below
  <2>3. CASE s1 = s BY <1>1, <2>1, <2>2, <2>3
  <2>4. CASE s1 = Append(s, x)
    <3> HIDE DEF x
    <3>1. Below(Nums(s), {No(x)}) BY <1>1, <2>1 DEF Below
    <3>2. AllWhole(o, s1) /\ Nums(s1) = Nums(s) \cup {No(x)} /\ Ups(s1)
      BY <1>1, <2>1, <2>4, <3>1, NumsAppend
    <3>3. Below({No(x)}, F) BY <1>1, <2>1 DEF Below
    <3>4. Below(Nums(s1), Nums(q1) \cup F) BY <2>1, <2>2, <3>2, <3>3 DEF Below
    <3> QED BY <2>1, <2>2, <3>2, <3>4
  <2>5. s1 = s \/ s1 = Append(s, x) BY <1>4 DEF Goes
  <2> QED BY <1>3, <2>3, <2>4, <2>5
<1> QED BY <1>3, <1>4 DEF Goes

LEMMA SentAt ==
  ASSUME TxOrder, NEW w \in Nets, NEW s1, sent' = [sent EXCEPT ![w] = s1]
  PROVE  /\ sent' = [v \in Nets |-> sent'[v]] /\ sent'[w] = s1
         /\ \A v \in Nets \ {w} : sent'[v] = sent[v]
<1> DEFINE all == sent'
<1>1. sent = [v \in Nets |-> sent[v]] BY DEF TxOrder
<1>2. all = [sent EXCEPT ![w] = s1] OBVIOUS
<1> HIDE DEF all
<1>3. /\ all = [v \in Nets |-> all[v]] /\ all[w] = s1
      /\ \A v \in Nets \ {w} : all[v] = sent[v]
  BY <1>1, <1>2
<1> QED BY <1>3 DEF all

LEMMA TxSends ==
  ASSUME TxOrder, setup' = setup, txpkts' = txpkts, got' = got, NEW w \in Nets,
         \A v \in Nets \ {w} : dev'[v] = dev[v],
         sent' = [v \in Nets |-> sent'[v]], \A v \in Nets \ {w} : sent'[v] = sent[v],
         Goes(ToSend(Kind(w), dev[w]), ToSend(Kind(w), dev'[w]), sent[w], sent'[w])
  PROVE  TxOrder'
<1> DEFINE card == dev'[w]
           s1 == sent'[w]
           q == ToSend(Kind(w), dev[w])
           q1 == ToSend(Kind(w), card)
<1>1. /\ card = dev'[w] /\ s1 = sent'[w] /\ q = ToSend(Kind(w), dev[w])
      /\ q1 = ToSend(Kind(w), card) /\ Goes(q, q1, sent[w], s1)
  OBVIOUS
<1> HIDE DEF card, s1, q, q1
<1>3. ASSUME NEW v \in Nets
      PROVE  TxAt(v, Kind(v), got, txpkts, dev'[v], sent'[v])
  <2>1. TxAt(v, Kind(v), got, txpkts, dev[v], sent[v]) BY TxNumbers
  <2>2. CASE v = w
    <3>1. TxAt(w, Kind(w), got, txpkts, card, s1) BY <1>1, <2>1, <2>2, TxSend
    <3> QED BY <1>1, <2>2, <3>1
  <2>3. CASE v # w BY <2>1, <2>3
  <2> QED BY <2>2, <2>3
<1>4. \A v \in Nets : TxAt(v, Kind(v), got', txpkts', dev'[v], sent'[v]) BY <1>3
<1>5. txpkts' \in Content /\ LaidOut(txpkts') BY DEF TxOrder
<1> QED BY <1>4, <1>5, StepOut

LEMMA NicSentTx ==
  ASSUME RingInv, TxOrder, NEW w \in Nets, NicSent(w)
  PROVE  TxOrder'
<1>1. /\ DevOK /\ setup' = setup /\ got' = got /\ txpkts' = txpkts /\ Kind(w) = "ne"
      /\ dev[w].tx # <<>> /\ dev' = [dev EXCEPT ![w].tx = <<>>]
      /\ sent' = [sent EXCEPT ![w] = Append(@, dev[w].tx)]
  BY DEF RingInv, NicSent
<1> DEFINE c == [dev[w] EXCEPT !.tx = <<>>]
           x == dev[w].tx
           s1 == Append(sent[w], x)
<1>2. NicOK(dev[w]) BY <1>1 DEF DevOK, NetOK
<1>3. c.tx = <<>> BY <1>2 DEF NicOK
<1>4. dev' = [dev EXCEPT ![w] = c] /\ sent' = [sent EXCEPT ![w] = s1] BY <1>1
<1> HIDE DEF c, s1
<1>5. dev'[w] = c /\ \A v \in Nets \ {w} : dev'[v] = dev[v] BY <1>1, <1>4, DevAt
<1>6. /\ sent' = [v \in Nets |-> sent'[v]] /\ sent'[w] = s1
      /\ \A v \in Nets \ {w} : sent'[v] = sent[v]
  BY <1>4, SentAt
<1>7. ToSend(Kind(w), dev[w]) = <<x>> /\ ToSend(Kind(w), dev'[w]) = <<>>
  BY <1>1, <1>3, <1>5 DEF ToSend
<1>8. <<x>> # <<>> /\ Head(<<x>>) = x /\ Tail(<<x>>) = <<>> OBVIOUS
<1>9. s1 = Append(sent[w], x) BY DEF s1
<1> HIDE DEF x
<1>10. Goes(<<x>>, <<>>, sent[w], s1) BY <1>8, <1>9 DEF Goes
<1>11. Goes(ToSend(Kind(w), dev[w]), ToSend(Kind(w), dev'[w]), sent[w], sent'[w])
  BY <1>6, <1>7, <1>10
<1> QED BY <1>1, <1>5, <1>6, <1>11, TxSends

LEMMA FifoSentTx ==
  ASSUME RingInv, TxOrder, NEW w \in Nets, NEW ok \in BOOLEAN, FifoSent(w, ok)
  PROVE  TxOrder'
<1>1. /\ DevOK /\ setup' = setup /\ got' = got /\ txpkts' = txpkts /\ Kind(w) = "3c"
      /\ dev[w].tx # <<>> /\ dev' = [dev EXCEPT ![w].tx = Tail(@), ![w].txerr = ~ok]
      /\ sent' = [sent EXCEPT ![w] = Append(@, Head(dev[w].tx))] \/ sent' = sent
  BY DEF RingInv, FifoSent
<1> DEFINE c == [dev[w] EXCEPT !.tx = Tail(@), !.txerr = ~ok]
           q == dev[w].tx
           s1 == Append(sent[w], Head(q))
<1>2. FifoOK(dev[w]) BY <1>1 DEF DevOK, NetOK
<1>3. c.tx = Tail(q) BY <1>2 DEF FifoOK
<1>4. dev' = [dev EXCEPT ![w] = c] BY <1>1 DEF DevOK
<1> HIDE DEF c
<1>5. dev'[w] = c /\ \A v \in Nets \ {w} : dev'[v] = dev[v] BY <1>1, <1>4, DevAt
<1>6. ToSend(Kind(w), dev[w]) = q /\ ToSend(Kind(w), dev'[w]) = Tail(q)
  BY <1>1, <1>3, <1>5 DEF ToSend
<1>7. q # <<>> BY <1>1
<1>8. sent = [v \in Nets |-> sent[v]] BY DEF TxOrder
<1>9. CASE sent' = sent
  <2>1. Goes(q, Tail(q), sent[w], sent'[w]) BY <1>7, <1>9 DEF Goes
  <2>2. sent' = [v \in Nets |-> sent'[v]] BY <1>8, <1>9
  <2>3. Goes(ToSend(Kind(w), dev[w]), ToSend(Kind(w), dev'[w]), sent[w], sent'[w])
    BY <1>6, <2>1
  <2> QED BY <1>1, <1>5, <1>9, <2>2, <2>3, TxSends
<1>10. CASE sent' = [sent EXCEPT ![w] = Append(@, Head(dev[w].tx))]
  <2>1. sent' = [sent EXCEPT ![w] = s1] BY <1>10
  <2>2. Goes(q, Tail(q), sent[w], s1) BY <1>7 DEF Goes
  <2> HIDE DEF s1
  <2>3. /\ sent' = [v \in Nets |-> sent'[v]] /\ sent'[w] = s1
        /\ \A v \in Nets \ {w} : sent'[v] = sent[v]
    BY <2>1, SentAt
  <2>4. Goes(ToSend(Kind(w), dev[w]), ToSend(Kind(w), dev'[w]), sent[w], sent'[w])
    BY <1>6, <2>2, <2>3
  <2> QED BY <1>1, <1>5, <2>3, <2>4, TxSends
<1> QED BY <1>1, <1>9, <1>10

LEMMA Poll3cStatTx ==
  ASSUME RingInv, TxOrder, NEW w \in Nets, Poll3cStat(w) PROVE TxOrder'
<1>1. /\ DevOK /\ ProgOK /\ setup' = setup /\ got' = got /\ txpkts' = txpkts /\ sent' = sent
      /\ prog.pc = "txstat" /\ prog.net = w
      /\ dev' = [dev EXCEPT ![w].tx = <<>>, ![w].txerr = FALSE] \/ dev' = dev
  BY DEF RingInv, Poll3cStat
<1>2. CASE dev' = dev
  <2>1. \A v \in Nets : ToSend(Kind(v), dev'[v]) = ToSend(Kind(v), dev[v]) BY <1>2
  <2> QED BY <1>1, <2>1, TxRests
<1>3. CASE dev' = [dev EXCEPT ![w].tx = <<>>, ![w].txerr = FALSE]
  <2> DEFINE c == [dev[w] EXCEPT !.tx = <<>>, !.txerr = FALSE]
  <2>1. Kind(w) = "3c" BY <1>1 DEF ProgOK
  <2>2. FifoOK(dev[w]) BY <1>1, <2>1 DEF DevOK, NetOK
  <2>3. c.tx = <<>> BY <2>2 DEF FifoOK
  <2>4. dev' = [dev EXCEPT ![w] = c] BY <1>1, <1>3 DEF DevOK
  <2> HIDE DEF c
  <2>5. dev'[w] = c /\ \A v \in Nets \ {w} : dev'[v] = dev[v] BY <1>1, <2>4, DevAt
  <2>6. ToSend(Kind(w), dev'[w]) = <<>> BY <2>1, <2>3, <2>5 DEF ToSend
  <2>7. Goes(ToSend(Kind(w), dev[w]), ToSend(Kind(w), dev'[w]), sent[w], sent'[w])
    BY <1>1, <2>6 DEF Goes
  <2>8. sent' = [v \in Nets |-> sent'[v]] /\ \A v \in Nets \ {w} : sent'[v] = sent[v]
    BY <1>1 DEF TxOrder
  <2> QED BY <1>1, <2>5, <2>7, <2>8, TxSends
<1> QED BY <1>1, <1>2, <1>3

(* A whole frame after a place in a ring                                    *)
LEMMA FrameOut ==
  ASSUME setup \in Setups, NEW o \in Nets, NEW ring \in Content, NEW i \in Nat, NEW len,
         FrameAfter(ring, i, o, len), NEW data, data = SubSeq(ring, i + 1, i + len)
  PROVE  Whole(o, data)
<1>1. len \in Nat /\ i + len <= Len(ring) /\ Len(ring) \in Nat BY AfterIs DEF Content
<1>2. data \in Content /\ Len(data) = len /\ \A j \in 1 .. len : data[j] = ring[i + j]
  <2>1. i + 1 \in Nat /\ i + len \in Nat /\ (i + len) - (i + 1) + 1 = len BY <1>1
  <2>2. Len(data) = len BY <1>1, <2>1
  <2>3. data \in Content
    BY <1>1, <2>1, Parts
  <2>4. ASSUME NEW j \in 1 .. len PROVE data[j] = ring[i + j]
    <3>1. data[j] = ring[(i + 1) + j - 1] BY <1>1, <2>1
    <3>2. (i + 1) + j - 1 = i + j BY <1>1
    <3> QED BY <3>1, <3>2
  <2> QED BY <2>2, <2>3, <2>4
<1>3. PICK m \in 1 .. Total(o) :
        len = Len(Frame(o, m)) /\ \A j \in 1 .. len : ring[i + j] = Frame(o, m)[j]
  BY DEF FrameAfter
<1>4. Frame(o, m) \in Content BY <1>3, FrameType
<1>5. \A j \in 1 .. len : data[j] = Frame(o, m)[j] BY <1>2, <1>3
<1>6. data = Frame(o, m) BY <1>2, <1>3, <1>4, <1>5 DEF Content
<1> QED BY <1>3, <1>6 DEF Whole

LEMMA LaidOutDrop ==
  ASSUME setup \in Setups, NEW t \in Content, LaidOut(t), NEW k \in Nat,
         NEW rest \in Content, Len(rest) = Len(t) - k,
         \A j \in 1 .. Len(rest) : rest[j] = t[j + k], rest # <<>> => t[k + 1][4] = 0
  PROVE  LaidOut(rest)
<1>1. /\ Len(t) \in Nat /\ DOMAIN t = 1 .. Len(t) /\ DOMAIN rest = 1 .. Len(rest)
      /\ Len(rest) \in Nat
  BY DEF Content
<1>2. ASSUME NEW i \in 1 .. Len(rest), rest[i][4] = 0
      PROVE  FrameAfter(rest, i, Other(rest[i][2]), rest[i][3])
  <2>1. rest[i] = t[i + k] /\ i + k \in 1 .. Len(t) /\ i \in Nat BY <1>1
  <2>2. FrameAfter(t, i + k, Other(rest[i][2]), rest[i][3])
    BY <1>1, <1>2, <2>1 DEF LaidOut
  <2>3. rest[i] \in Unit BY <1>1 DEF Content
  <2>4. Other(rest[i][2]) \in Nets BY <2>3, UnitParts, OtherIs
  <2> QED BY <2>1, <2>2, <2>4, AfterDrop
<1>3. rest # <<>> => rest[1][4] = 0
  <2> SUFFICES ASSUME rest # <<>> PROVE rest[1][4] = 0 OBVIOUS
  <2>1. Len(rest) # 0 BY DEF Content
  <2>2. 1 \in 1 .. Len(rest) /\ 1 + k = k + 1 BY <1>1, <2>1
  <2> QED BY <2>2
<1> QED BY <1>1, <1>2, <1>3 DEF LaidOut

(* The oldest frame of the transmit ring is taken.                          *)
Oldest(t) == SubSeq(t, 2, 1 + t[1][3])
AfterOldest(t) == SubSeq(t, 2 + t[1][3], Len(t))

LEMMA TxTakes ==
  ASSUME setup \in Setups, NEW w \in Nets, NEW t \in Content, LaidOut(t), t # <<>>, t[1][2] = w,
         \A v \in Nets : Rising(t, v)
  PROVE  /\ Oldest(t) \in Content /\ Whole(Other(w), Oldest(t))
         /\ AfterOldest(t) \in Content /\ LaidOut(AfterOldest(t))
         /\ \A v \in Nets : Firsts(AfterOldest(t), v) \subseteq Firsts(t, v)
                            /\ Rising(AfterOldest(t), v)
         /\ No(Oldest(t)) \in Firsts(t, Other(w))
         /\ Below({No(Oldest(t))}, Firsts(AfterOldest(t), Other(w)))
<1> DEFINE o == Other(w)
           len == t[1][3]
           data == Oldest(t)
           rest == AfterOldest(t)
           k == 1 + len
<1>1. o \in Nets BY OtherIs
<1>2. Len(t) \in Nat \ {0} /\ DOMAIN t = 1 .. Len(t) /\ 1 \in DOMAIN t BY DEF Content
<1>3. FrameAfter(t, 1, o, len) BY <1>2 DEF LaidOut
<1>0. data = SubSeq(t, 1 + 1, 1 + len) /\ rest = SubSeq(t, 2 + len, Len(t))
  BY DEF Oldest, AfterOldest
<1> HIDE DEF o, len, data, rest
<1>4. len \in Nat /\ 1 + len <= Len(t) /\ 1 \in Nat BY <1>1, <1>3, AfterIs
<1>5. Whole(o, data) BY <1>0, <1>1, <1>3, <1>4, FrameOut
<1>6. /\ data \in Content /\ Len(data) \in Nat \ {0} /\ data # <<>>
      /\ \A j \in 1 .. Len(data) : data[j][2] = o /\ data[j][3] = No(data) /\ data[j][4] = j
  BY <1>1, <1>5, WholeNo
<1>7. k \in Nat /\ k \in 0 .. Len(t) /\ k + 1 = 2 + len BY <1>2, <1>4
<1> HIDE DEF k
<1>8. /\ rest \in Content /\ Len(rest) = Len(t) - k
      /\ \A j \in 1 .. Len(rest) : rest[j] = t[j + k]
  <2>1. rest = SubSeq(t, k + 1, Len(t)) BY <1>0, <1>7
  <2> QED BY <1>7, <2>1, RestOf DEF Content
<1>9. rest # <<>> => t[k + 1][4] = 0
  <2> SUFFICES ASSUME rest # <<>> PROVE t[k + 1][4] = 0 OBVIOUS
  <2>1. Len(rest) # 0 /\ Len(rest) \in Nat BY <1>8 DEF Content
  <2>2. Len(rest) = Len(t) - k BY <1>8
  <2> DEFINE a == Len(rest)
             b == Len(t)
  <2>3. a \in Nat /\ a # 0 /\ b \in Nat /\ k \in Nat /\ a = b - k BY <1>2, <1>7, <2>1, <2>2
  <2> HIDE DEF a, b
  <2>4. k < b BY <2>3
  <2>5. k < Len(t) BY <2>4 DEF b
  <2>6. 1 + len < Len(t) BY <2>5 DEF k
  <2> QED BY <1>3, <2>6 DEF FrameAfter, k
<1>10. LaidOut(rest) BY <1>7, <1>8, <1>9, LaidOutDrop
<1>11. ASSUME NEW v \in Nets
       PROVE  /\ Firsts(rest, v) \subseteq Firsts(t, v) /\ Rising(rest, v)
              /\ \A i \in 1 .. Len(t) : i <= k /\ Start(t[i], v) =>
                    t[i][3] \in Firsts(t, v) /\ Below({t[i][3]}, Firsts(rest, v))
  <2>1. Rising(t, v) OBVIOUS
  <2> QED BY <1>7, <1>8, <2>1, FirstsDrop
<1>12. len # 0
  <2>1. Len(data) = len BY <1>0, <1>2, <1>4
  <2> QED BY <1>6, <2>1
<1>13. 2 \in 1 .. Len(t) /\ 2 <= k BY <1>2, <1>4, <1>12 DEF k
<1>14. t[2] = data[1] BY <1>0, <1>2, <1>4, <1>12
<1>15. Start(t[2], o) /\ t[2][3] = No(data)
  <2>1. 1 \in 1 .. Len(data) BY <1>6
  <2> QED BY <1>6, <1>14, <2>1 DEF Start
<1>16. No(data) \in Firsts(t, o) /\ Below({No(data)}, Firsts(rest, o))
  BY <1>1, <1>11, <1>13, <1>15
<1> QED BY <1>5, <1>6, <1>8, <1>10, <1>11, <1>16 DEF o, data, rest

(* The frame goes to the device.                                            *)
LEMMA TxLoad ==
  ASSUME NEW w, NEW kind, NEW g, NEW t, NEW card, NEW s, TxAt(w, kind, g, t, card, s),
         NEW o, o = Other(w), NEW data \in Content, Whole(o, data), NEW rest,
         Firsts(rest, o) \subseteq Firsts(t, o), Rising(rest, o),
         No(data) \in Firsts(t, o), Below({No(data)}, Firsts(rest, o)),
         NEW q, q = ToSend(kind, card), NEW card1, ToSend(kind, card1) = Append(q, data)
  PROVE  TxAt(w, kind, g, rest, card1, s)
<1> DEFINE F == Firsts(t, o)
           R == Firsts(rest, o)
           n == No(data)
           q1 == Append(q, data)
<1>1. /\ AllWhole(o, s) /\ AllWhole(o, q) /\ Ups(s) /\ Ups(q)
      /\ Nums(s) \cup Nums(q) \cup F \subseteq GotOf(g, o)
      /\ Below(Nums(s), Nums(q) \cup F) /\ Below(Nums(q), F)
      /\ kind = "pktd" => F = {}
  BY DEF TxAt
<1>2. R \subseteq F /\ n \in F /\ Below({n}, R) /\ Rising(rest, o) OBVIOUS
<1> HIDE DEF F, R, n
<1>3. Below(Nums(q), {n}) BY <1>1, <1>2 DEF Below
<1>4. AllWhole(o, q1) /\ Nums(q1) = Nums(q) \cup {n} /\ Ups(q1)
  BY <1>1, <1>3, NumsAppend DEF n
<1>5. ToSend(kind, card1) = q1 OBVIOUS
<1> HIDE DEF q1
<1>6. Below(Nums(s), Nums(q1) \cup R) /\ Below(Nums(q1), R) BY <1>1, <1>2, <1>4 DEF Below
<1>7. Nums(s) \cup Nums(q1) \cup R \subseteq GotOf(g, o) BY <1>1, <1>2, <1>4
<1>8. kind = "pktd" => R = {} BY <1>1, <1>2
<1> QED BY <1>1, <1>2, <1>4, <1>5, <1>6, <1>7, <1>8 DEF TxAt, R

LEMMA TxOne ==
  ASSUME RingInv, TxOrder, setup' = setup, sent' = sent, got' = got, NEW w \in Nets,
         txpkts # <<>>, txpkts[1][2] = w, txpkts' = AfterOldest(txpkts),
         \A v \in Nets \ {w} : dev'[v] = dev[v],
         ToSend(Kind(w), dev'[w]) = Append(ToSend(Kind(w), dev[w]), Oldest(txpkts))
  PROVE  TxOrder'
<1> DEFINE rest == AfterOldest(txpkts)
           data == Oldest(txpkts)
           card == dev'[w]
           q == ToSend(Kind(w), dev[w])
<1>1. setup \in Setups /\ txpkts \in Content /\ LaidOut(txpkts) BY DEF RingInv, TxOrder
<1>2. \A v \in Nets : Rising(txpkts, v) BY TxNumbers
<1>3. /\ txpkts' = rest /\ card = dev'[w] /\ q = ToSend(Kind(w), dev[w])
      /\ ToSend(Kind(w), card) = Append(q, data)
  OBVIOUS
<1>4. /\ data \in Content /\ Whole(Other(w), data) /\ rest \in Content /\ LaidOut(rest)
      /\ \A v \in Nets : Firsts(rest, v) \subseteq Firsts(txpkts, v) /\ Rising(rest, v)
      /\ No(data) \in Firsts(txpkts, Other(w)) /\ Below({No(data)}, Firsts(rest, Other(w)))
  BY <1>1, <1>2, TxTakes
<1> HIDE DEF rest, data, card, q
<1>5. ASSUME NEW v \in Nets PROVE TxAt(v, Kind(v), got, rest, dev'[v], sent[v])
  <2>1. TxAt(v, Kind(v), got, txpkts, dev[v], sent[v]) BY TxNumbers
  <2>2. Firsts(rest, Other(v)) \subseteq Firsts(txpkts, Other(v)) /\ Rising(rest, Other(v))
    BY <1>4, OtherIs
  <2>3. CASE v = w
    <3> DEFINE o == Other(w)
    <3>1. o = Other(w) OBVIOUS
    <3>2. /\ data \in Content /\ Whole(o, data) /\ No(data) \in Firsts(txpkts, o)
          /\ Below({No(data)}, Firsts(rest, o)) /\ Rising(rest, o)
          /\ Firsts(rest, o) \subseteq Firsts(txpkts, o)
          /\ TxAt(w, Kind(w), got, txpkts, dev[w], sent[w])
      BY <1>4, <2>1, <2>2, <2>3
    <3> HIDE DEF o
    <3>3. TxAt(w, Kind(w), got, rest, card, sent[w])
      BY <1>3, <3>1, <3>2, TxLoad
    <3> QED BY <1>3, <2>3, <3>3
  <2>4. CASE v # w
    <3>1. ToSend(Kind(v), dev[v]) = ToSend(Kind(v), dev[v])
          /\ GotOf(got, Other(v)) \subseteq GotOf(got, Other(v))
      OBVIOUS
    <3>2. TxAt(v, Kind(v), got, rest, dev[v], sent[v]) BY <2>1, <2>2, <3>1, TxLess
    <3> QED BY <2>4, <3>2
  <2> QED BY <2>3, <2>4
<1>6. \A v \in Nets : TxAt(v, Kind(v), got', txpkts', dev'[v], sent'[v]) BY <1>3, <1>5
<1>7. /\ txpkts' \in Content /\ LaidOut(txpkts') /\ sent' = [v \in Nets |-> sent'[v]]
  BY <1>3, <1>4 DEF TxOrder
<1> QED BY <1>6, <1>7, StepOut

(* What transmit_upcall gives, if anything                                  *)
LEMMA UpcallIs ==
  ASSUME RingInv, TxOrder, NEW w \in Nets
  PROVE  \/ /\ txpkts # <<>> /\ txpkts[1][2] = w
            /\ transmit_upcall(w).data = Oldest(txpkts) /\ transmit_upcall(w).data # <<>>
            /\ transmit_upcall(w).rest = AfterOldest(txpkts)
         \/ transmit_upcall(w).data = <<>> /\ transmit_upcall(w).rest = txpkts
<1>1. CASE txpkts # <<>> /\ txpkts[1][2] = w
  <2>1. setup \in Setups /\ txpkts \in Content /\ LaidOut(txpkts) BY DEF RingInv, TxOrder
  <2>2. \A v \in Nets : Rising(txpkts, v) BY TxNumbers
  <2>3. /\ transmit_upcall(w).data = Oldest(txpkts)
        /\ transmit_upcall(w).rest = AfterOldest(txpkts)
    BY <1>1 DEF transmit_upcall, Oldest, AfterOldest
  <2>4. Whole(Other(w), Oldest(txpkts)) BY <1>1, <2>1, <2>2, TxTakes
  <2>5. Oldest(txpkts) # <<>> BY <2>1, <2>4, OtherIs, WholeNo
  <2> QED BY <1>1, <2>3, <2>5
<1>2. CASE ~(txpkts # <<>> /\ txpkts[1][2] = w) BY <1>2 DEF transmit_upcall
<1> QED BY <1>1, <1>2

LEMMA PollNeTxTx == ASSUME RingInv, TxOrder, NEW w \in Nets, PollNeTx(w) PROVE TxOrder'
<1> DEFINE up == transmit_upcall(w)
           c == [dev[w] EXCEPT !.tx = up.data]
<1>1. /\ DevOK /\ setup' = setup /\ got' = got /\ sent' = sent /\ Kind(w) = "ne"
      /\ txpkts' = IF dev[w].tx = <<>> THEN up.rest ELSE txpkts
      /\ IF dev[w].tx = <<>> /\ up.data # <<>>
         THEN dev' = [dev EXCEPT ![w] = put_etherne(@, up.data)]
         ELSE dev' = dev
  BY DEF RingInv, PollNeTx
<1>2. CASE dev[w].tx = <<>> /\ up.data # <<>>
  <2>1. /\ txpkts # <<>> /\ txpkts[1][2] = w /\ up.data = Oldest(txpkts)
        /\ up.rest = AfterOldest(txpkts)
    BY <1>2, UpcallIs
  <2> HIDE DEF up
  <2>2. dev' = [dev EXCEPT ![w] = c] BY <1>1, <1>2 DEF put_etherne
  <2>3. NicOK(dev[w]) BY <1>1 DEF DevOK, NetOK
  <2>4. c.tx = up.data BY <2>3 DEF NicOK
  <2> HIDE DEF c
  <2>5. dev'[w] = c /\ \A v \in Nets \ {w} : dev'[v] = dev[v] BY <1>1, <2>2, DevAt
  <2> DEFINE data == up.data
  <2>6. ToSend(Kind(w), dev[w]) = <<>> /\ ToSend(Kind(w), dev'[w]) = <<data>>
    BY <1>1, <1>2, <2>4, <2>5 DEF ToSend
  <2>7. data = Oldest(txpkts) /\ txpkts' = AfterOldest(txpkts) BY <1>1, <1>2, <2>1
  <2> HIDE DEF data
  <2>8. Append(<<>>, data) = <<data>> OBVIOUS
  <2>9. ToSend(Kind(w), dev'[w]) = Append(ToSend(Kind(w), dev[w]), Oldest(txpkts))
    BY <2>6, <2>7, <2>8
  <2> QED BY <1>1, <2>1, <2>5, <2>7, <2>9, TxOne
<1>3. CASE ~(dev[w].tx = <<>> /\ up.data # <<>>)
  <2>1. up.data = <<>> => up.rest = txpkts BY UpcallIs
  <2>2. txpkts' = txpkts /\ dev' = dev BY <1>1, <1>3, <2>1
  <2> QED BY <1>1, <2>2, TxRests
<1> QED BY <1>2, <1>3

LEMMA Poll3cTxTx == ASSUME RingInv, TxOrder, NEW w \in Nets, Poll3cTx(w) PROVE TxOrder'
<1> DEFINE up == transmit_upcall(w)
           c == [dev[w] EXCEPT !.tx = Append(@, up.data)]
<1>1. /\ DevOK /\ setup' = setup /\ got' = got /\ sent' = sent /\ Kind(w) = "3c"
      /\ txpkts' = IF TxRoom(dev[w]) THEN up.rest ELSE txpkts
      /\ IF TxRoom(dev[w]) /\ up.data # <<>>
         THEN dev' = [dev EXCEPT ![w] = put_ether3c(@, up.data)]
         ELSE dev' = dev
  BY DEF RingInv, Poll3cTx
<1>2. CASE TxRoom(dev[w]) /\ up.data # <<>>
  <2>1. /\ txpkts # <<>> /\ txpkts[1][2] = w /\ up.data = Oldest(txpkts)
        /\ up.rest = AfterOldest(txpkts)
    BY <1>2, UpcallIs
  <2> HIDE DEF up
  <2>2. dev' = [dev EXCEPT ![w] = c] BY <1>1, <1>2 DEF put_ether3c
  <2>3. FifoOK(dev[w]) BY <1>1 DEF DevOK, NetOK
  <2> DEFINE data == up.data
  <2>4. c.tx = Append(dev[w].tx, data) BY <2>3 DEF FifoOK
  <2> HIDE DEF c
  <2>5. dev'[w] = c /\ \A v \in Nets \ {w} : dev'[v] = dev[v] BY <1>1, <2>2, DevAt
  <2>6. ToSend(Kind(w), dev'[w]) = Append(ToSend(Kind(w), dev[w]), data)
    BY <1>1, <1>2, <2>4, <2>5 DEF ToSend
  <2>7. data = Oldest(txpkts) /\ txpkts' = AfterOldest(txpkts) BY <1>1, <1>2, <2>1
  <2> HIDE DEF data
  <2>8. ToSend(Kind(w), dev'[w]) = Append(ToSend(Kind(w), dev[w]), Oldest(txpkts))
    BY <2>6, <2>7
  <2> QED BY <1>1, <2>1, <2>5, <2>7, <2>8, TxOne
<1>3. CASE ~(TxRoom(dev[w]) /\ up.data # <<>>)
  <2>1. up.data = <<>> => up.rest = txpkts BY UpcallIs
  <2>2. txpkts' = txpkts /\ dev' = dev BY <1>1, <1>3, <2>1
  <2> QED BY <1>1, <2>2, TxRests
<1> QED BY <1>2, <1>3

(* A header and its frame are put in the transmit ring.                     *)
LEMMA LaidOutAdd ==
  ASSUME setup \in Setups, NEW w \in Nets, NEW t \in Content, LaidOut(t),
         NEW data, Whole(Other(w), data)
  PROVE  LaidOut((t \o <<Header(w, data)>>) \o data)
<1> DEFINE o == Other(w)
           h == Header(w, data)
           m == Len(t) + 1
           ring == t \o <<h>>
           long == ring \o data
<1>1. o \in Nets BY OtherIs
<1>2. /\ data \in Content /\ Len(data) \in Nat \ {0} /\ data # <<>>
      /\ \A j \in 1 .. Len(data) : data[j][4] = j
  BY <1>1, WholeNo
<1>3. /\ h \in Unit /\ <<h>> \in Content /\ h[4] = 0 /\ h[2] = w /\ h[3] = Len(data)
      /\ <<h>> # <<>> /\ <<h>>[1] = h
  BY <1>2, HeaderType DEF Header
<1>4. Whole(o, data) OBVIOUS
<1> HIDE DEF o, h
<1>5. /\ Len(t) \in Nat /\ DOMAIN t = 1 .. Len(t) /\ m \in Nat \ {0} /\ Len(t) = m - 1
      /\ ring \in Content /\ Len(ring) = m /\ DOMAIN ring = 1 .. m /\ ring[m] = h
      /\ \A j \in 1 .. Len(t) : ring[j] = t[j]
  BY <1>3 DEF Content
<1> HIDE DEF ring, m
<1>6. /\ long \in Content /\ Len(long) = m + Len(data) /\ DOMAIN long = 1 .. m + Len(data)
      /\ \A j \in 1 .. m : long[j] = ring[j]
      /\ \A j \in 1 .. Len(data) : long[m + j] = data[j]
  <2>1. ring \in Seq(Unit) /\ data \in Seq(Unit) /\ Len(ring) = m BY <1>2, <1>5 DEF Content
  <2>2. /\ long \in Seq(Unit) /\ Len(long) = Len(ring) + Len(data)
        /\ DOMAIN long = 1 .. Len(ring) + Len(data)
        /\ \A j \in 1 .. Len(ring) : long[j] = ring[j]
        /\ \A j \in 1 .. Len(data) : long[Len(ring) + j] = data[j]
    BY <2>1
  <2> HIDE DEF long
  <2> QED BY <2>1, <2>2 DEF Content
<1> HIDE DEF long
<1>7. ASSUME NEW i \in 1 .. m + Len(data), long[i][4] = 0 PROVE i \in 1 .. m
  <2> SUFFICES ASSUME i > m PROVE FALSE BY <1>2, <1>5
  <2>1. i - m \in 1 .. Len(data) /\ m + (i - m) = i BY <1>2, <1>5
  <2>2. long[m + (i - m)] = data[i - m] /\ data[i - m][4] = i - m BY <1>2, <1>6, <2>1
  <2> QED BY <1>5, <1>7, <2>1, <2>2
<1>8. FrameAfter(long, m, o, Len(data))
  <2>1. PICK n \in 1 .. Total(o) : data = Frame(o, n) BY <1>4 DEF Whole
  <2>2. \A j \in 1 .. Len(data) : long[m + j] = Frame(o, n)[j] BY <1>6, <2>1
  <2>3. Len(data) = Len(Frame(o, n)) BY <2>1
  <2>4. m + Len(data) <= Len(long) /\ ~(m + Len(data) < Len(long)) BY <1>2, <1>5, <1>6
  <2> QED BY <2>2, <2>3, <2>4 DEF FrameAfter
<1>9. ASSUME NEW i \in 1 .. Len(t), t[i][4] = 0
      PROVE  FrameAfter(long, i, Other(t[i][2]), t[i][3])
  <2> DEFINE v == Other(t[i][2])
             len == t[i][3]
  <2>1. FrameAfter(t, i, v, len) BY <1>5, <1>9 DEF LaidOut
  <2>2. t[i] \in Unit BY <1>5, <1>9 DEF Content
  <2>3. v \in Nets /\ i \in Nat BY <2>2, UnitParts, OtherIs
  <2> HIDE DEF v, len
  <2>4. len \in Nat /\ i + len <= Len(t) BY <2>1, <2>3, AfterIs
  <2>5. <<h>>[1][4] = 0 BY <1>3
  <2>6. FrameAfter(ring, i, v, len) BY <1>3, <2>1, <2>3, <2>5, AfterGrow DEF ring
  <2>7. i + len # Len(ring) BY <1>5, <2>4
  <2>8. FrameAfter(long, i, v, len) BY <1>2, <1>5, <2>3, <2>6, <2>7, AfterGrow DEF long
  <2> QED BY <2>8 DEF v, len
<1>10. ASSUME NEW i \in DOMAIN long, long[i][4] = 0
       PROVE  FrameAfter(long, i, Other(long[i][2]), long[i][3])
  <2>1. i \in 1 .. m BY <1>6, <1>7, <1>10
  <2>2. CASE i = m
    <3>1. long[i] = h BY <1>5, <1>6, <2>1, <2>2
    <3> QED BY <1>3, <1>8, <2>2, <3>1 DEF o
  <2>3. CASE i # m
    <3>1. i \in 1 .. Len(t) /\ long[i] = t[i] BY <1>5, <1>6, <2>1, <2>3
    <3> QED BY <1>9, <1>10, <3>1
  <2> QED BY <2>2, <2>3
<1>11. long[1][4] = 0
  <2>1. 1 \in 1 .. m /\ long[1] = ring[1] BY <1>5, <1>6
  <2>2. CASE t = <<>>
    <3>1. m = 1 BY <1>5, <2>2 DEF m
    <3> QED BY <1>3, <1>5, <2>1, <3>1
  <2>3. CASE t # <<>>
    <3>1. Len(t) # 0 BY <2>3 DEF Content
    <3>2. 1 \in 1 .. Len(t) BY <1>5, <3>1
    <3>3. ring[1] = t[1] /\ t[1][4] = 0 BY <1>5, <2>3, <3>2 DEF LaidOut
    <3> QED BY <2>1, <3>3
  <2> QED BY <2>2, <2>3
<1> QED BY <1>10, <1>11 DEF LaidOut, long, ring, h

(* What of the frames of a net is on the sending side has been got.         *)
LEMMA TxGot ==
  ASSUME NEW w, NEW kind, NEW g, NEW t, NEW card, NEW s, TxAt(w, kind, g, t, card, s),
         NEW o, o = Other(w), NEW n, Below(GotOf(g, o), {n})
  PROVE  Below(Nums(s), {n}) /\ Below(Nums(ToSend(kind, card)), {n}) /\ Below(Firsts(t, o), {n})
<1> DEFINE A == Nums(s)
           B == Nums(ToSend(kind, card))
           C == Firsts(t, o)
           G == GotOf(g, o)
<1>1. A \cup B \cup C \subseteq G BY DEF TxAt
<1>2. Below(G, {n}) OBVIOUS
<1> HIDE DEF A, B, C, G
<1>3. Below(A, {n}) /\ Below(B, {n}) /\ Below(C, {n}) BY <1>1, <1>2 DEF Below
<1> QED BY <1>3 DEF A, B, C

(* A new frame is put in the ring for the net w.                            *)
LEMMA TxQueue ==
  ASSUME NEW w, NEW kind, kind # "pktd", NEW g, NEW t, NEW card, NEW s,
         TxAt(w, kind, g, t, card, s), NEW o, o = Other(w), NEW n, Below(GotOf(g, o), {n}),
         NEW g1, GotOf(g1, o) = GotOf(g, o) \cup {n},
         NEW t1, Firsts(t1, o) = Firsts(t, o) \cup {n}, Rising(t1, o)
  PROVE  TxAt(w, kind, g1, t1, card, s)
<1> DEFINE A == Nums(s)
           q == ToSend(kind, card)
           B == Nums(q)
           C == Firsts(t, o)
           G == GotOf(g, o)
<1>1. Below(A, {n}) /\ Below(B, {n}) /\ Below(C, {n}) BY TxGot
<1>2. /\ A \cup B \cup C \subseteq G /\ Below(A, B \cup C) /\ Below(B, C)
      /\ AllWhole(o, s) /\ AllWhole(o, q) /\ Ups(s) /\ Ups(q)
  BY DEF TxAt
<1>3. GotOf(g1, o) = G \cup {n} /\ Firsts(t1, o) = C \cup {n} OBVIOUS
<1> HIDE DEF A, B, C, G, q
<1>4. Below(A, B \cup (C \cup {n})) /\ Below(B, C \cup {n}) BY <1>1, <1>2 DEF Below
<1>5. A \cup B \cup (C \cup {n}) \subseteq G \cup {n} BY <1>2
<1>6. Below(A, B \cup Firsts(t1, o)) /\ Below(B, Firsts(t1, o))
      /\ A \cup B \cup Firsts(t1, o) \subseteq GotOf(g1, o)
  BY <1>3, <1>4, <1>5
<1> QED BY <1>2, <1>6 DEF TxAt, A, B, q

(* A packet driver has sent a new frame.                                    *)
LEMMA TxDirect ==
  ASSUME NEW w, NEW g, NEW t, NEW card, NEW s,
         TxAt(w, "pktd", g, t, card, s), NEW o, o = Other(w),
         NEW data \in Content, Whole(o, data), Below(GotOf(g, o), {No(data)}),
         NEW g1, GotOf(g1, o) = GotOf(g, o) \cup {No(data)}, NEW s1, s1 = Append(s, data)
  PROVE  TxAt(w, "pktd", g1, t, card, s1)
<1> DEFINE n == No(data)
           A == Nums(s)
           q == ToSend("pktd", card)
           G == GotOf(g, o)
<1>1. Below(A, {n}) BY TxGot
<1>2. /\ A \subseteq G /\ Firsts(t, o) = {} /\ AllWhole(o, s) /\ AllWhole(o, q)
      /\ Ups(s) /\ Ups(q) /\ Rising(t, o)
  BY DEF TxAt
<1>3. GotOf(g1, o) = G \cup {n} /\ Nums(q) = {} BY NumsNone DEF ToSend
<1> HIDE DEF q
<1>4. AllWhole(o, s1) /\ Nums(s1) = A \cup {n} /\ Ups(s1) BY <1>1, <1>2, NumsAppend
<1> HIDE DEF A, G, n
<1>5. /\ Nums(s1) \cup Nums(q) \cup Firsts(t, o) \subseteq GotOf(g1, o)
      /\ Below(Nums(s1), Nums(q) \cup Firsts(t, o)) /\ Below(Nums(q), Firsts(t, o))
  BY <1>2, <1>3, <1>4 DEF Below
<1> QED BY <1>2, <1>4, <1>5 DEF TxAt, q

LEMMA RingAdd ==
  ASSUME NEW ring \in Content, NEW w \in Nets, NEW data \in Content, Fits(ring, data)
  PROVE  buff_in(ring, <<Header(w, data)>> \o data) = (ring \o <<Header(w, data)>>) \o data
<1> DEFINE h == Header(w, data)
           more == <<h>> \o data
<1>1. Len(ring) \in Nat /\ Len(data) \in Nat /\ Len(ring) + 1 + Len(data) <= BUFFLEN
  BY BuffLenIs DEF Fits, Room, Content
<1>2. h \in Unit BY HeaderType
<1> HIDE DEF h
<1>3. more \in Content /\ Len(more) = 1 + Len(data) BY <1>2 DEF Content
<1>4. Len(ring) + Len(more) <= BUFFLEN BY <1>1, <1>3, BuffLenIs
<1>5. ring \o more = (ring \o <<h>>) \o data BY <1>2 DEF Content
<1> HIDE DEF more
<1>6. buff_in(ring, more) = ring \o more BY <1>3, <1>4, BuffInAll
<1> QED BY <1>5, <1>6 DEF h, more

LEMMA RingNumbers ==
  ASSUME setup \in Setups, NEW ring \in Content, NEW w \in Nets, NEW v \in Nets, NEW data,
         Whole(v, data), NEW u \in Nets, Rising(ring, u),
         u = v => Below(Firsts(ring, u), {No(data)})
  PROVE  /\ (ring \o <<Header(w, data)>>) \o data \in Content
         /\ Firsts((ring \o <<Header(w, data)>>) \o data, u)
              = Firsts(ring, u) \cup (IF u = v THEN {No(data)} ELSE {})
         /\ Rising((ring \o <<Header(w, data)>>) \o data, u)
<1> DEFINE h == Header(w, data)
           long == ring \o <<h>>
           last == long \o data
           F == Firsts(ring, u)
           N == IF u = v THEN {No(data)} ELSE {}
<1>1. data \in Content BY WholeNo
<1>2. <<h>> \in Content BY <1>1, HeaderType
<1>3. Firsts(<<h>>, u) = {} /\ Rising(<<h>>, u) BY FirstsHeader
<1>4. Firsts(data, u) = N /\ Rising(data, u) BY FirstsFrame
<1>5. F = Firsts(ring, u) /\ Below(F, {}) /\ Below(F, N) BY DEF Below
<1> HIDE DEF h, N
<1>6. long \in Content BY <1>2 DEF Content
<1> DEFINE one == <<h>>
<1>7. Firsts(long, u) = F /\ Rising(long, u)
  <2>1. one \in Content /\ Firsts(one, u) = {} /\ Rising(one, u) BY <1>2, <1>3
  <2>2. long = ring \o one OBVIOUS
  <2> HIDE DEF one, long
  <2>3. Below(Firsts(ring, u), Firsts(one, u)) BY <1>5, <2>1
  <2>4. Firsts(ring \o one, u) = Firsts(ring, u) \cup Firsts(one, u) /\ Rising(ring \o one, u)
    BY <2>1, <2>3, FirstsGrow
  <2> QED BY <2>1, <2>2, <2>4
<1> HIDE DEF long
<1>8. last \in Content BY <1>1, <1>6 DEF Content
<1>9. Firsts(last, u) = F \cup N /\ Rising(last, u)
  <2>1. Below(Firsts(long, u), Firsts(data, u)) BY <1>4, <1>5, <1>7
  <2>2. Firsts(last, u) = Firsts(long, u) \cup Firsts(data, u) /\ Rising(last, u)
    BY <1>1, <1>4, <1>6, <1>7, <2>1, FirstsGrow
  <2> QED BY <1>4, <1>7, <2>2
<1> QED BY <1>8, <1>9 DEF last, long, h, F, N

(* The frame that the program has taken is after all it has got of the net. *)
LEMMA TakenLast ==
  ASSUME RingInv, WholeInv, RxOrder, GetBody
  PROVE  /\ Below(GotOf(got, prog.net), {No(Taken)})
         /\ \A u \in Nets :
               GotOf(got', u) = GotOf(got, u) \cup (IF u = prog.net THEN {No(Taken)} ELSE {})
<1> DEFINE v == prog.net
           n == No(Taken)
           x == [net |-> prog.net, data |-> Taken]
<1>1. /\ v \in Nets /\ got' = Append(got, x) /\ x \in [net: Nets, data: Content]
      /\ got \in Seq([net: Nets, data: Content])
      /\ prog.len \in Nat \ {0} /\ prog.len <= Len(rxpkts)
      /\ Start(rxpkts[1], v) /\ rxpkts[1][3] = n
  BY FrameTaken
<1>2. x.net = v /\ No(x.data) = n OBVIOUS
<1>3. rxpkts \in Content BY DEF RingInv
<1> HIDE DEF v, n, x
<1>4. 1 \in DOMAIN rxpkts BY <1>1, <1>3 DEF Content
<1>5. n \in Firsts(rxpkts, v) BY <1>1, <1>4 DEF Firsts
<1>6. Below(GotOf(got, v), Firsts(rxpkts, v) \cup HeldOf(prog, v) \cup Stored(Kind(v), dev[v]))
  BY <1>1 DEF RxOrder, RxAt, Chain
<1>7. Below(GotOf(got, v), {n}) BY <1>5, <1>6 DEF Below
<1> DEFINE all == Append(got, x)
<1>8. \A u \in Nets : GotOf(all, u) = GotOf(got, u) \cup (IF u = x.net THEN {No(x.data)} ELSE {})
  <2>1. x \in [net: Nets, data: Content] /\ got \in Seq([net: Nets, data: Content]) BY <1>1
  <2> QED BY <2>1, GotGrow
<1>9. got' = all BY <1>1
<1> HIDE DEF all
<1>10. \A u \in Nets : GotOf(got', u) = GotOf(got, u) \cup (IF u = v THEN {n} ELSE {})
  BY <1>2, <1>8, <1>9
<1> QED BY <1>7, <1>10 DEF v, n

LEMMA GetBodyTx == ASSUME RingInv, WholeInv, RxOrder, TxOrder, GetBody PROVE TxOrder'
<1> DEFINE v == prog.net
           w == Other(v)
           data == Taken
           n == No(data)
           all == got'
<1>0. got' = all OBVIOUS
<1>1. /\ setup \in Setups /\ setup' = setup /\ dev' = dev /\ setup.forward \in BOOLEAN
      /\ IF setup.forward THEN put_net(w, data) ELSE UNCHANGED <<txpkts, sent, lost>>
  BY SetupAssumption DEF RingInv, GetBody, Taken
<1>2. v \in Nets /\ Whole(v, data) BY FrameTaken
<1>3. w \in Nets /\ Other(w) = v /\ w # v /\ \A u \in Nets : u = v \/ u = w BY <1>2, OtherIs
<1>4. /\ Below(GotOf(got, v), {n})
      /\ \A u \in Nets : GotOf(all, u) = GotOf(got, u) \cup (IF u = v THEN {n} ELSE {})
  BY TakenLast
<1> HIDE DEF v, w, all
<1>5. data \in Content BY <1>1, <1>2, WholeNo
<1>6. n = No(data) OBVIOUS
<1> HIDE DEF data, n
<1>7. \A u \in Nets : GotOf(got, u) \subseteq GotOf(all, u) BY <1>4
<1>8. \A u \in Nets : ToSend(Kind(u), dev'[u]) = ToSend(Kind(u), dev[u]) BY <1>1
<1>9. /\ GotOf(all, v) = GotOf(got, v) \cup {n} /\ GotOf(all, w) = GotOf(got, w)
  BY <1>2, <1>3, <1>4
<1>10. CASE txpkts' = txpkts /\ sent' = sent
  <2>1. \A u \in Nets : GotOf(got, u) \subseteq GotOf(got', u) BY <1>0, <1>7
  <2> QED BY <1>1, <1>8, <1>10, <2>1, TxRests
<1>11. /\ TxAt(w, Kind(w), got, txpkts, dev[w], sent[w])
       /\ TxAt(v, Kind(v), got, txpkts, dev[v], sent[v])
       /\ Rising(txpkts, v) /\ Rising(txpkts, w)
  BY <1>2, <1>3, TxNumbers
<1>12. txpkts \in Content /\ LaidOut(txpkts) /\ sent = [u \in Nets |-> sent[u]] BY DEF TxOrder
<1>13. Kind(w) \in {"ne", "3c", "pktd"} BY <1>3 DEF RingInv, DevOK, NetOK
<1>14. CASE Kind(w) = "pktd" /\ sent' = [sent EXCEPT ![w] = Append(@, data)] /\ txpkts' = txpkts
  <2> DEFINE s1 == Append(sent[w], data)
  <2>1. sent' = [sent EXCEPT ![w] = s1] /\ s1 = Append(sent[w], data) BY <1>14
  <2> HIDE DEF s1
  <2>2. /\ sent' = [u \in Nets |-> sent'[u]] /\ sent'[w] = s1
        /\ \A u \in Nets \ {w} : sent'[u] = sent[u]
    BY <1>3, <2>1, SentAt
  <2>3. TxAt(w, "pktd", all, txpkts, dev[w], s1)
    <3>1. TxAt(w, "pktd", got, txpkts, dev[w], sent[w]) /\ v = Other(w) BY <1>3, <1>11, <1>14
    <3>2. Below(GotOf(got, v), {No(data)}) /\ GotOf(all, v) = GotOf(got, v) \cup {No(data)}
      BY <1>4, <1>6, <1>9
    <3> QED BY <1>2, <1>5, <2>1, <3>1, <3>2, TxDirect
  <2>4. TxAt(v, Kind(v), all, txpkts, dev[v], sent[v])
    <3>1. /\ GotOf(got, Other(v)) \subseteq GotOf(all, Other(v)) /\ Rising(txpkts, Other(v))
          /\ Firsts(txpkts, Other(v)) \subseteq Firsts(txpkts, Other(v))
          /\ ToSend(Kind(v), dev[v]) = ToSend(Kind(v), dev[v])
      BY <1>3, <1>7, <1>11 DEF w
    <3> QED BY <1>11, <3>1, TxLess
  <2>5. \A u \in Nets : TxAt(u, Kind(u), got', txpkts', dev'[u], sent'[u])
    BY <1>0, <1>1, <1>2, <1>3, <1>14, <2>2, <2>3, <2>4
  <2> QED BY <1>1, <1>12, <1>14, <2>2, <2>5, StepOut
<1> DEFINE long == (txpkts \o <<Header(w, data)>>) \o data
<1>15. CASE Kind(w) # "pktd" /\ txpkts' = long /\ sent' = sent
  <2>1. LaidOut(long) BY <1>1, <1>2, <1>3, <1>12, LaidOutAdd
  <2>2. Below(Firsts(txpkts, v), {n}) BY <1>3, <1>4, <1>11, TxGot
  <2>3. ASSUME NEW u \in Nets
        PROVE  /\ long \in Content /\ Rising(long, u)
               /\ Firsts(long, u) = Firsts(txpkts, u) \cup (IF u = v THEN {n} ELSE {})
    <3>1. Rising(txpkts, u) BY <1>3, <1>11
    <3>2. u = v => Below(Firsts(txpkts, u), {No(data)}) BY <1>6, <2>2
    <3>3. setup \in Setups /\ txpkts \in Content /\ w \in Nets /\ v \in Nets /\ Whole(v, data)
      BY <1>1, <1>2, <1>3, <1>12
    <3>4. /\ long \in Content /\ Rising(long, u)
          /\ Firsts(long, u) = Firsts(txpkts, u) \cup (IF u = v THEN {No(data)} ELSE {})
      BY <3>1, <3>2, <3>3, RingNumbers
    <3> QED BY <1>6, <3>4
  <2> HIDE DEF long
  <2>4. /\ long \in Content /\ Rising(long, v) /\ Rising(long, w)
        /\ Firsts(long, v) = Firsts(txpkts, v) \cup {n} /\ Firsts(long, w) = Firsts(txpkts, w)
    <3>1. v \in Nets /\ w \in Nets /\ w # v BY <1>2, <1>3
    <3> QED BY <2>3, <3>1
  <2>5. TxAt(w, Kind(w), all, long, dev[w], sent[w])
    <3>1. /\ v = Other(w) /\ Kind(w) # "pktd" /\ Below(GotOf(got, v), {n})
          /\ TxAt(w, Kind(w), got, txpkts, dev[w], sent[w])
          /\ GotOf(all, v) = GotOf(got, v) \cup {n}
          /\ Firsts(long, v) = Firsts(txpkts, v) \cup {n} /\ Rising(long, v)
      BY <1>3, <1>4, <1>9, <1>11, <1>15, <2>4
    <3> QED BY <3>1, TxQueue
  <2>6. TxAt(v, Kind(v), all, long, dev[v], sent[v])
    <3>1. /\ GotOf(got, Other(v)) \subseteq GotOf(all, Other(v)) /\ Rising(long, Other(v))
          /\ Firsts(long, Other(v)) \subseteq Firsts(txpkts, Other(v))
          /\ ToSend(Kind(v), dev[v]) = ToSend(Kind(v), dev[v])
      BY <1>3, <1>7, <2>4 DEF w
    <3> QED BY <1>11, <3>1, TxLess
  <2>7. \A u \in Nets : TxAt(u, Kind(u), got', txpkts', dev'[u], sent'[u])
    BY <1>0, <1>1, <1>2, <1>3, <1>15, <2>5, <2>6
  <2>8. txpkts' \in Content /\ LaidOut(txpkts') /\ sent' = [u \in Nets |-> sent'[u]]
    BY <1>12, <1>15, <2>1, <2>4
  <2> QED BY <1>1, <2>7, <2>8, StepOut
<1> HIDE DEF long
<1>16. ASSUME put_net(w, data)
       PROVE  \/ txpkts' = txpkts /\ sent' = sent
              \/ Kind(w) = "pktd" /\ sent' = [sent EXCEPT ![w] = Append(@, data)]
                 /\ txpkts' = txpkts
              \/ Kind(w) # "pktd" /\ txpkts' = long /\ sent' = sent
  <2>1. CASE Kind(w) = "pktd" BY <1>16, <2>1 DEF put_net, put_pktd
  <2>2. CASE Kind(w) \in {"ne", "3c"}
    <3>1. /\ sent' = sent
          /\ IF Fits(txpkts, data)
             THEN txpkts' = buff_in(txpkts, <<Header(w, data)>> \o data)
             ELSE txpkts' = txpkts
      BY <1>16, <2>2 DEF put_net
    <3>2. Fits(txpkts, data) => buff_in(txpkts, <<Header(w, data)>> \o data) = long
      BY <1>3, <1>5, <1>12, RingAdd DEF long
    <3> QED BY <2>2, <3>1, <3>2
  <2> QED BY <1>13, <2>1, <2>2
<1> QED BY <1>1, <1>10, <1>14, <1>15, <1>16

(* The other steps are no concern of the sending side's.                    *)
LEMMA TxAside ==
  ASSUME TxOrder, setup' = setup, txpkts' = txpkts, sent' = sent, got' = got, dev' = dev
  PROVE  TxOrder'
<1>1. \A v \in Nets : ToSend(Kind(v), dev'[v]) = ToSend(Kind(v), dev[v]) OBVIOUS
<1> QED BY <1>1, TxRests

LEMMA PollNeRxTx == ASSUME RingInv, TxOrder, NEW w \in Nets, PollNeRx(w) PROVE TxOrder'
<1> DEFINE r == get_etherne(dev[w])
           c == r.card
<1>1. /\ DevOK /\ setup' = setup /\ txpkts' = txpkts /\ got' = got /\ sent' = sent
      /\ Kind(w) = "ne" /\ dev' = [dev EXCEPT ![w] = c]
  BY DEF RingInv, PollNeRx
<1>2. NicOK(dev[w]) BY <1>1 DEF DevOK, NetOK
<1>3. c.tx = dev[w].tx BY <1>2 DEF NicOK, get_etherne, resetnic, NicReset
<1> HIDE DEF c
<1> QED BY <1>1, <1>3, TxRestsAt

LEMMA Poll3cRxTx == ASSUME RingInv, TxOrder, NEW w \in Nets, Poll3cRx(w) PROVE TxOrder'
<1> DEFINE r == get_ether3c(dev[w])
           c == r.card
<1>1. /\ DevOK /\ setup' = setup /\ txpkts' = txpkts /\ got' = got /\ sent' = sent
      /\ Kind(w) = "3c" /\ dev' = [dev EXCEPT ![w] = c]
  BY DEF RingInv, Poll3cRx
<1>2. FifoOK(dev[w]) BY <1>1 DEF DevOK, NetOK
<1>3. c.tx = dev[w].tx BY <1>2 DEF FifoOK, get_ether3c
<1> HIDE DEF c
<1> QED BY <1>1, <1>3, TxRestsAt

LEMMA NicArriveTx == ASSUME RingInv, TxOrder, NEW w \in Nets, NicArrive(w) PROVE TxOrder'
<1> DEFINE data == Next_(w)
           c1 == [dev[w] EXCEPT !.overrun = TRUE]
           c2 == [dev[w] EXCEPT !.ram[dev[w].curr] = data, !.curr = nicwrap(@ + Len(data))]
<1>1. /\ DevOK /\ setup' = setup /\ txpkts' = txpkts /\ got' = got /\ sent' = sent
      /\ Kind(w) = "ne"
  BY DEF RingInv, NicArrive, Arriving
<1>2. dev' = [dev EXCEPT ![w] = c1] \/ dev' = [dev EXCEPT ![w] = c2]
  <2>1. \/ dev' = [dev EXCEPT ![w].overrun = TRUE]
        \/ dev' = [dev EXCEPT ![w].ram[dev[w].curr] = data, ![w].curr = nicwrap(@ + Len(data))]
    BY DEF NicArrive
  <2> HIDE DEF data
  <2> QED BY <1>1, <2>1 DEF DevOK
<1>3. NicOK(dev[w]) BY <1>1 DEF DevOK, NetOK
<1> HIDE DEF data
<1>4. c1.tx = dev[w].tx /\ c2.tx = dev[w].tx BY <1>3 DEF NicOK
<1> HIDE DEF c1, c2
<1>5. CASE dev' = [dev EXCEPT ![w] = c1] BY <1>1, <1>4, <1>5, TxRestsAt
<1>6. CASE dev' = [dev EXCEPT ![w] = c2] BY <1>1, <1>4, <1>6, TxRestsAt
<1> QED BY <1>2, <1>5, <1>6

LEMMA FifoArriveTx ==
  ASSUME RingInv, TxOrder, NEW w \in Nets, NEW ok \in BOOLEAN, FifoArrive(w, ok) PROVE TxOrder'
<1> DEFINE new == [data |-> Next_(w), ok |-> ok]
           c == [dev[w] EXCEPT !.rx = Append(@, new)]
<1>1. /\ DevOK /\ setup' = setup /\ txpkts' = txpkts /\ got' = got /\ sent' = sent
      /\ Kind(w) = "3c"
  BY DEF RingInv, FifoArrive, Arriving
<1>2. dev' = [dev EXCEPT ![w] = c] \/ dev' = dev BY <1>1 DEF FifoArrive, DevOK
<1>3. FifoOK(dev[w]) BY <1>1 DEF DevOK, NetOK
<1> HIDE DEF new
<1>4. c.tx = dev[w].tx BY <1>3 DEF FifoOK
<1> HIDE DEF c
<1> QED BY <1>1, <1>2, <1>4, TxRestsAt

LEMMA PktdSame ==
  ASSUME TxOrder, setup' = setup, txpkts' = txpkts, sent' = sent, got' = got,
         \A v \in Nets : Kind(v) \in {"ne", "3c"} => dev'[v] = dev[v]
  PROVE  TxOrder'
<1>1. \A v \in Nets : Kind(v) \in {"ne", "3c"} => dev'[v].tx = dev[v].tx OBVIOUS
<1>2. \A v \in Nets : ToSend(Kind(v), dev'[v]) = ToSend(Kind(v), dev[v]) BY <1>1, SameSend
<1> QED BY <1>2, TxRests

LEMMA PktdTx ==
  ASSUME Apart, RingInv, TxOrder, NEW w \in Nets, PktdAlloc(w) \/ PktdComplete(w) PROVE TxOrder'
<1>1. /\ setup \in Setups /\ DevOK /\ setup' = setup /\ txpkts' = txpkts /\ got' = got
      /\ sent' = sent /\ Kind(w) = "pktd"
  BY DEF RingInv, PktdAlloc, PktdComplete, Arriving
<1>2. handle2dtype(w) = w BY <1>1, HandleIs
<1>3. CASE PktdAlloc(w)
  <2> DEFINE n == Len(Next_(w))
  <2>1. arrived[w] < Total(w) BY <1>3 DEF PktdAlloc, Arriving
  <2>2. n \in Nat /\ TRUE \in BOOLEAN BY <2>1, NextType
  <2>3. dev' = [dev EXCEPT ![w].rxlen = n, ![w].copying = TRUE] BY <1>2, <1>3 DEF PktdAlloc
  <2> HIDE DEF n
  <2> QED BY <1>1, <2>2, <2>3, PktdDev, PktdSame
<1>4. CASE PktdComplete(w)
  <2>1. 0 \in Nat /\ FALSE \in BOOLEAN OBVIOUS
  <2>2. dev' = [dev EXCEPT ![w].copying = FALSE, ![w].rxlen = 0]
    BY <1>2, <1>4 DEF PktdComplete
  <2> QED BY <1>1, <2>1, <2>2, PktdDev, PktdSame
<1> QED BY <1>3, <1>4

LEMMA InitTx == ASSUME NoSerial, Init PROVE TxOrder
<1>1. /\ setup \in Setups /\ dev = [w \in Nets |-> DevInit(w)] /\ txpkts = <<>> /\ got = <<>>
      /\ sent = [w \in Nets |-> <<>>]
  BY DEF Init
<1>2. txpkts \in Content /\ LaidOut(txpkts) BY <1>1 DEF Content, LaidOut
<1>3. ASSUME NEW w \in Nets PROVE TxAt(w, Kind(w), got, txpkts, dev[w], sent[w])
  <2>1. dev[w] = DevInit(w) /\ sent[w] = <<>> BY <1>1
  <2>2. ToSend(Kind(w), dev[w]) = <<>>
    <3>1. CASE Kind(w) = "ne" BY <2>1, <3>1 DEF DevInit, NicReset, ToSend
    <3>2. CASE Kind(w) = "3c" BY <2>1, <3>2 DEF DevInit, ToSend
    <3> QED BY <3>1, <3>2 DEF ToSend
  <2> DEFINE o == Other(w)
  <2>3. Firsts(txpkts, o) = {} /\ Rising(txpkts, o) BY <1>1, FirstsNone
  <2> HIDE DEF o
  <2>4. AllWhole(o, <<>>) /\ Nums(<<>>) = {} /\ Ups(<<>>) BY NumsNone
  <2>5. /\ Nums(sent[w]) = {} /\ Nums(ToSend(Kind(w), dev[w])) = {}
        /\ AllWhole(o, sent[w]) /\ AllWhole(o, ToSend(Kind(w), dev[w]))
        /\ Ups(sent[w]) /\ Ups(ToSend(Kind(w), dev[w]))
    BY <2>1, <2>2, <2>4
  <2>6. \A A, B : A = {} => Below(A, B) BY DEF Below
  <2> QED BY <2>3, <2>5, <2>6 DEF TxAt, o
<1> QED BY <1>1, <1>2, <1>3 DEF TxOrder

LEMMA NextTx ==
  ASSUME Apart, RingInv, WholeInv, RxOrder, TxOrder, [Next]_vars PROVE TxOrder'
<1>1. CASE UNCHANGED vars BY <1>1, TxAside DEF vars
<1>2. CASE GetHeader BY <1>2, TxAside DEF GetHeader
<1>3. CASE GetBody BY <1>3, GetBodyTx
<1>4. CASE UpcallBody BY <1>4, TxAside DEF UpcallBody
<1>5. CASE TxChar BY <1>5, NoTxChar
<1>6. ASSUME NEW w \in Nets, PollNeRx(w) \/ PollNeTx(w) \/ Poll3cRx(w) \/ Poll3cStat(w)
                             \/ Poll3cTx(w) \/ PollSlip(w) \/ PollPktd(w)
      PROVE  TxOrder'
  <2>1. ~PollSlip(w) BY NoSlip DEF PollSlip
  <2>2. CASE PollPktd(w) BY <2>2, TxAside DEF PollPktd
  <2> QED BY <1>6, <2>1, <2>2, PollNeRxTx, PollNeTxTx, Poll3cRxTx, Poll3cStatTx, Poll3cTxTx
<1>7. ASSUME NEW w \in Nets, Arrives(w) PROVE TxOrder'
  <2>1. ~SerRxInt(w) BY NoSlip DEF SerRxInt
  <2>2. TRUE \in BOOLEAN /\ FALSE \in BOOLEAN OBVIOUS
  <2> QED BY <1>7, <2>1, <2>2, NicArriveTx, FifoArriveTx, PktdTx DEF Arrives
<1>8. ASSUME NEW w \in Nets, Sends(w) PROVE TxOrder'
  <2>1. ~SerTxInt(w) BY NoSlip DEF SerTxInt
  <2>2. TRUE \in BOOLEAN /\ FALSE \in BOOLEAN OBVIOUS
  <2> QED BY <1>8, <2>1, <2>2, NicSentTx, FifoSentTx DEF Sends
<1> QED BY <1>1, <1>2, <1>3, <1>4, <1>5, <1>6, <1>7, <1>8, PktdTx DEF Next, Main

(* Numbers that rise are frames in order, and one that has been got is one  *)
(* that was got as that frame.                                              *)
LEMMA InOrderIs ==
  ASSUME RingInv, WholeInv, RxOrder, TxOrder PROVE SentAsGot
<1>0. setup \in Setups BY DEF RingInv
<1>1. ASSUME NEW w \in Nets, NEW data, Whole(w, data) PROVE Number(data) = No(data)
  BY <1>1 DEF Number, No
<1>2. /\ \A k \in DOMAIN got : got[k].net \in Nets /\ Whole(got[k].net, got[k].data)
      /\ \A j, k \in DOMAIN got :
            j < k /\ got[j].net = got[k].net => No(got[j].data) < No(got[k].data)
  <2>1. /\ got \in Seq([net: Nets, data: Content])
        /\ \A k \in DOMAIN got : Whole(got[k].net, got[k].data)
    BY DEF WholeInv, GotWhole
  <2>2. \A k \in DOMAIN got : got[k] \in [net: Nets, data: Content]
    <3> DEFINE S == [net: Nets, data: Content]
    <3>1. got \in Seq(S) BY <2>1
    <3> HIDE DEF S
    <3>2. \A k \in DOMAIN got : got[k] \in S BY <3>1
    <3> QED BY <3>2 DEF S
  <2>3. \A k \in DOMAIN got : got[k].net \in Nets BY <2>2
  <2> QED BY <2>1, <2>3 DEF RxOrder, GotInOrder
<1>3. ASSUME NEW j \in DOMAIN got, NEW k \in DOMAIN got, j < k, got[j].net = got[k].net
      PROVE  Later(got[j].data, got[k].data)
  BY <1>1, <1>2, <1>3 DEF Later
<1>4. ASSUME NEW w \in Nets
      PROVE  /\ \A j, k \in DOMAIN sent[w] : j < k => Later(sent[w][j], sent[w][k])
             /\ \A k \in DOMAIN sent[w] : sent[w][k] \in GotFrom(Other(w))
  <2> DEFINE o == Other(w)
             s == sent[w]
  <2>1. TxAt(w, Kind(w), got, txpkts, dev[w], s) BY TxNumbers
  <2>2. AllWhole(o, s) /\ Ups(s) /\ Nums(s) \subseteq GotOf(got, o) BY <2>1 DEF TxAt
  <2>3. o \in Nets BY OtherIs
  <2> HIDE DEF o, s
  <2>4. \A k \in DOMAIN s : Whole(o, s[k]) /\ Number(s[k]) = No(s[k])
    BY <1>1, <2>2, <2>3 DEF AllWhole
  <2>5. \A j, k \in DOMAIN s : j < k => Later(s[j], s[k]) BY <2>2, <2>4 DEF Ups, Later
  <2>6. ASSUME NEW k \in DOMAIN s PROVE s[k] \in GotFrom(o)
    <3>1. No(s[k]) \in GotOf(got, o) BY <2>2 DEF Nums
    <3>2. PICK i \in DOMAIN got : got[i].net = o /\ No(s[k]) = No(got[i].data)
      BY <3>1 DEF GotOf
    <3>3. Whole(o, got[i].data) BY <1>2, <3>2
    <3>4. s[k] = got[i].data BY <1>0, <2>3, <2>4, <3>2, <3>3, WholeSameNo
    <3> QED BY <3>2, <3>4 DEF GotFrom
  <2> QED BY <2>5, <2>6 DEF o, s
<1> QED BY <1>3, <1>4 DEF SentAsGot

(* What the program has got of a net, and what goes out on a wire, is in    *)
(* the order of arrival, and what goes out was got on the other net and     *)
(* goes out once: through the card, the receive ring, the transmit ring     *)
(* that the nets share, and the card again.                                 *)
THEOREM InOrder == Spec => [](NoSerial /\ Apart /\ Unmixed => SentAsGot)
<1> DEFINE H == NoSerial /\ Apart /\ Unmixed
           J == H => RingInv /\ WholeInv /\ RxOrder /\ TxOrder
<1>1. Init => J BY InitRing, InitWhole, InitRx, InitTx
<1>2. J /\ [Next]_vars => J'
  <2> SUFFICES ASSUME J, [Next]_vars, H' PROVE RingInv' /\ WholeInv' /\ RxOrder' /\ TxOrder'
    OBVIOUS
  <2>1. setup' = setup BY SameSetup
  <2>2. H BY <2>1 DEF NoSerial, Apart, Unmixed, Kind
  <2>3. RingInv /\ WholeInv /\ RxOrder /\ TxOrder BY <2>2
  <2>4. RingInv' BY <2>2, <2>3, NextRing
  <2>5. WholeInv' BY <2>2, <2>3, NextWhole
  <2>6. RxOrder' BY <2>2, <2>3, NextRx
  <2>7. TxOrder' BY <2>2, <2>3, NextTx
  <2> QED BY <2>4, <2>5, <2>6, <2>7
<1>3. J => (H => SentAsGot) BY InOrderIs
<1> HIDE DEF J
<1>4. H <=> NoSerial /\ Apart /\ Unmixed OBVIOUS
<1> HIDE DEF H
<1> QED BY <1>1, <1>2, <1>3, <1>4, PTL DEF Spec
=============================================================================
