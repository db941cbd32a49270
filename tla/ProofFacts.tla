----------------------------- MODULE ProofFacts -----------------------------
(***************************************************************************)
(* Facts the proofs share: about remainders by a positive constant, for    *)
(* masked and wrapping pointers, and about sequences whose elements are of *)
(* several shapes, such as the frames on a line, which are said to be      *)
(* sequences of what is in them.                                           *)
(***************************************************************************)
EXTENDS Integers, Sequences, TLAPS

(* A remainder lies below its divisor, and a number is a multiple of the   *)
(* divisor plus its remainder.                                             *)
LEMMA DivMod ==
  ASSUME NEW L \in Nat \ {0}, NEW a \in Int 
  PROVE  /\ a % L \in 0 .. L-1
         /\ a \div L \in Int
         /\ a = L * (a \div L) + (a % L)
  BY SMT

(* The remainder is the only number below the divisor that differs from    *)
(* the argument by a multiple of the divisor.                              *)
LEMMA ModUnique ==
  ASSUME NEW L \in Nat \ {0}, NEW q \in Int, NEW r \in 0 .. L-1
  PROVE  (L * q + r) % L = r
<1> DEFINE a == L * q + r
           p == a \div L
           s == a % L
<1>1. a \in Int OBVIOUS
<1>2. p \in Int /\ s \in 0 .. L-1 /\ a = L * p + s
  BY <1>1, DivMod
<1> HIDE DEF p, s
<1>3. L * (q - p) = s - r
  BY <1>2
<1>4. q = p
  <2>1. CASE q - p >= 1
    <3>1. L * (q - p) >= L BY <1>2, <2>1
    <3> QED BY <1>2, <1>3, <3>1
  <2>2. CASE q - p <= -1
    <3>1. L * (q - p) <= -L BY <1>2, <2>2
    <3> QED BY <1>2, <1>3, <3>1
  <2> QED BY <2>1, <2>2, <1>2
<1> QED BY <1>2, <1>4 DEF s

(* A number below the divisor is its own remainder.                        *)
LEMMA ModSmall == 
  ASSUME NEW L \in Nat \ {0}, NEW a \in 0 .. L-1 
  PROVE  a % L = a
  BY SMT

(* A multiple of the divisor can be added without changing the remainder.  *)
LEMMA ModAddMultiple == 
  ASSUME NEW L \in Nat \ {0}, NEW a \in Int, NEW q \in Int
  PROVE (a + L * q) % L = a % L
<1>1. a % L \in 0 .. L-1 /\ a \div L \in Int /\ a = L * (a \div L) + (a % L) 
  BY DivMod
<1>2. q + (a \div L) \in Int 
  BY <1>1
<1>3. a + L * q = L * (q + (a \div L)) + (a % L) 
  BY <1>1
<1> QED BY <1>1, <1>2, <1>3, ModUnique

(* The remainder of a sum or a difference only needs the remainder of its  *)
(* terms.                                                                  *)
LEMMA ModAdd ==
  ASSUME NEW L \in Nat \ {0}, NEW a \in Int, NEW b \in Int
  PROVE  /\ ((a % L) + b) % L = (a + b) % L
         /\ (b - (a % L)) % L = (b - a) % L
<1> DEFINE d == a \div L
           m == a % L
<1>1. m \in Int /\ d \in Int /\ a = L * d + m
  BY DivMod
<1> HIDE DEF d, m
<1>2. a + b = (m + b) + L * d
  BY <1>1
<1>3. -d \in Int /\ b - a = (b - m) + L * (-d)
  BY <1>1
<1>4. m + b \in Int /\ b - m \in Int
  BY <1>1
<1>5. (a + b) % L = (m + b) % L
  <2>1. ((m + b) + L * d) % L = (m + b) % L
    BY <1>1, <1>4, ModAddMultiple
  <2> QED BY <1>2, <2>1
<1>6. (b - a) % L = (b - m) % L
  BY <1>3, <1>4, ModAddMultiple
<1> QED BY <1>5, <1>6 DEF m

(* A remainder by a multiple of L may be taken before the remainder by L.  *)
LEMMA ModMod ==
  ASSUME NEW L \in Nat \ {0}, NEW W \in Nat \ {0}, W % L = 0, NEW a \in Int
  PROVE  (a % W) % L = a % L
<1> DEFINE k == W \div L
           d == a \div W
           m == a % W
<1>1. k \in Int /\ W = L * k
  BY DivMod
<1>2. d \in Int /\ m \in Int /\ a = W * d + m
  BY DivMod
<1> HIDE DEF k, d, m
<1>3. k * d \in Int /\ W * d = L * (k * d)
  BY <1>1, <1>2
<1>4. a = m + L * (k * d)
  BY <1>1, <1>2, <1>3
<1>5. a % L = m % L
  BY <1>2, <1>3, <1>4, ModAddMultiple
<1> QED BY <1>5 DEF m

(* Moving pointer p by n changes its distance from q, or that of q from p, *)
(* by n, as long as the distance stays in range.                           *)
LEMMA ShiftAhead ==
  ASSUME NEW W \in Nat \ {0}, NEW p \in Int, NEW q \in Int, NEW n \in Int,
         ((p - q) % W) + n \in 0 .. W-1 
  PROVE  (((p + n) % W) - q) % W = ((p - q) % W) + n
<1>1. p + n \in Int /\ p - q \in Int /\ -q \in Int
  OBVIOUS
<1>2. (p + n) % W \in Int /\ (p - q) % W \in Int
  BY <1>1, DivMod
<1>3. (((p + n) % W) + (-q)) % W = ((p + n) + (-q)) % W
  BY <1>1, ModAdd
<1>4. (((p - q) % W) + n) % W = ((p - q) + n) % W
  BY <1>1, ModAdd
<1>5. (p + n) + (-q) = (p - q) + n /\ ((p + n) % W) + (-q) = ((p + n) % W) - q
  BY <1>2
<1>6. (((p + n) % W) - q) % W = (((p - q) % W) + n) % W
  BY <1>3, <1>4, <1>5
<1> QED BY <1>6, ModSmall

LEMMA ShiftBehind ==
  ASSUME NEW W \in Nat \ {0}, NEW p \in Int, NEW q \in Int, NEW n \in Int,
         ((q - p) % W) - n \in 0 .. W-1 
  PROVE  (q - ((p + n) % W)) % W = ((q - p) % W) - n
<1>1. p + n \in Int /\ q - p \in Int /\ -n \in Int
  OBVIOUS
<1>2. (p + n) % W \in Int /\ (q - p) % W \in Int
  BY <1>1, DivMod
<1>3. (q - ((p + n) % W)) % W = (q - (p + n)) % W
  BY <1>1, ModAdd
<1>4. (((q - p) % W) + (-n)) % W = ((q - p) + (-n)) % W
  BY <1>1, ModAdd
<1>5. q - (p + n) = (q - p) + (-n) /\ ((q - p) % W) + (-n) = ((q - p) % W) - n
  BY <1>2
<1>6. (q - ((p + n) % W)) % W = (((q - p) % W) - n) % W
  BY <1>3, <1>4, <1>5
<1> QED BY <1>6, ModSmall

(* Distances between three pointers add up, if the sum is in range.        *)
LEMMA Distances ==
  ASSUME NEW W \in Nat \ {0}, NEW p \in Int, NEW q \in Int, NEW r \in Int,
         ((q - p) % W) + ((r - q) % W) <= W - 1
  PROVE  (r - p) % W = ((q - p) % W) + ((r - q) % W)
<1> DEFINE a == (q - p) % W
           b == (r - q) % W
<1>0. q - p \in Int /\ r - q \in Int
  OBVIOUS
<1>1. a \in 0 .. W-1 /\ b \in 0 .. W-1
  BY <1>0, DivMod
<1>2. (a + b) % W = a + b
  BY <1>1, ModSmall
<1>3. (((q - p) % W) + b) % W = ((q - p) + b) % W
  <2>1. b \in Int
    BY <1>1
  <2> HIDE DEF b
  <2> QED BY <1>0, <2>1, ModAdd
<1>4. (b + (q - p)) % W = ((r - q) + (q - p)) % W
  BY <1>0, ModAdd
<1>5. (r - q) + (q - p) = r - p /\ b + (q - p) = (q - p) + b
  BY <1>1
<1> QED BY <1>2, <1>3, <1>4, <1>5

-----------------------------------------------------------------------------
IsSeq(s) == s \in Seq({s[i] : i \in DOMAIN s})

(* A sequence over any set is one.                                          *)
LEMMA SeqIsSeq ==
  ASSUME NEW S, NEW s \in Seq(S) PROVE IsSeq(s)
  BY DEF IsSeq

LEMMA EmptyIsSeq == IsSeq(<<>>)
  BY DEF IsSeq

LEMMA OneIsSeq ==
  ASSUME NEW x PROVE IsSeq(<<x>>) /\ DOMAIN <<x>> = {1} /\ <<x>>[1] = x
  BY DEF IsSeq

LEMMA TwoIsSeq ==
  ASSUME NEW x, NEW y
  PROVE IsSeq(<<x, y>>) /\ DOMAIN <<x, y>> = {1, 2} /\ <<x, y>>[1] = x /\ <<x, y>>[2] = y
  BY DEF IsSeq

(* What is in a concatenation was in one of its parts.                      *)
LEMMA Concat ==
  ASSUME NEW s, NEW t, IsSeq(s), IsSeq(t)
  PROVE /\ IsSeq(s \o t)
        /\ \A i \in DOMAIN (s \o t) :
             \/ \E j \in DOMAIN s : (s \o t)[i] = s[j]
             \/ \E j \in DOMAIN t : (s \o t)[i] = t[j]
<1> DEFINE S == {s[i] : i \in DOMAIN s} \cup {t[i] : i \in DOMAIN t}
<1>1. s \in Seq(S) /\ t \in Seq(S) BY DEF IsSeq
<1>2. s \o t \in Seq(S) BY <1>1
<1>3. ASSUME NEW i \in DOMAIN (s \o t)
      PROVE \/ \E j \in DOMAIN s : (s \o t)[i] = s[j]
            \/ \E j \in DOMAIN t : (s \o t)[i] = t[j]
  <2>1. (s \o t)[i] \in S BY <1>2
  <2> QED BY <2>1
<1> QED BY <1>2, <1>3, SeqIsSeq

LEMMA InConcat ==
  ASSUME NEW s, NEW t, IsSeq(s), IsSeq(t), NEW i \in DOMAIN (s \o t)
  PROVE \/ \E j \in DOMAIN s : (s \o t)[i] = s[j]
        \/ \E j \in DOMAIN t : (s \o t)[i] = t[j]
  BY Concat

(* Two of its elements, in their order: both of the first part, or the later *)
(* one of the second.                                                       *)
LEMMA ConcatOrder ==
  ASSUME NEW s, NEW t, IsSeq(s), IsSeq(t),
         NEW i \in DOMAIN (s \o t), NEW j \in DOMAIN (s \o t), i < j
  PROVE \/ i \in DOMAIN s /\ j \in DOMAIN s /\ (s \o t)[i] = s[i] /\ (s \o t)[j] = s[j]
        \/ \E k \in DOMAIN t : (s \o t)[j] = t[k]
<1> DEFINE S == {s[k] : k \in DOMAIN s} \cup {t[k] : k \in DOMAIN t}
<1>1. s \in Seq(S) /\ t \in Seq(S) BY DEF IsSeq
<1> HIDE DEF S
<1>2. /\ Len(s) \in Nat /\ DOMAIN s = 1 .. Len(s) /\ Len(t) \in Nat /\ DOMAIN t = 1 .. Len(t)
      /\ DOMAIN (s \o t) = 1 .. Len(s) + Len(t)
  BY <1>1
<1>3. CASE j <= Len(s) BY <1>1, <1>2, <1>3
<1>4. CASE j > Len(s)
  <2>1. j - Len(s) \in DOMAIN t /\ (s \o t)[j] = t[j - Len(s)] BY <1>1, <1>2, <1>4
  <2> QED BY <2>1
<1> QED BY <1>2, <1>3, <1>4

(* The first element, and the rest.                                         *)
LEMMA HeadTail ==
  ASSUME NEW s, IsSeq(s), s # <<>>
  PROVE /\ 1 \in DOMAIN s /\ Head(s) = s[1]
        /\ IsSeq(Tail(s))
        /\ \A i \in DOMAIN Tail(s) : i + 1 \in DOMAIN s /\ Tail(s)[i] = s[i + 1]
<1> DEFINE S == {s[i] : i \in DOMAIN s}
<1>1. s \in Seq(S) BY DEF IsSeq
<1>2. Tail(s) \in Seq(S) BY <1>1
<1>3. IsSeq(Tail(s)) BY <1>2, SeqIsSeq
<1>4. Len(s) \in Nat /\ Len(s) # 0 /\ DOMAIN s = 1 .. Len(s) BY <1>1
<1>5. 1 \in DOMAIN s /\ Head(s) = s[1] BY <1>4
<1>6. Len(Tail(s)) = Len(s) - 1 /\ DOMAIN Tail(s) = 1 .. Len(Tail(s)) BY <1>1, <1>2, <1>4
<1>7. ASSUME NEW i \in DOMAIN Tail(s) PROVE i + 1 \in DOMAIN s /\ Tail(s)[i] = s[i + 1]
  BY <1>1, <1>4, <1>6
<1> QED BY <1>3, <1>5, <1>7

(* A longer sequence by one.                                                *)
LEMMA Appended ==
  ASSUME NEW s, NEW x, IsSeq(s)
  PROVE /\ IsSeq(Append(s, x))
        /\ \A i \in DOMAIN Append(s, x) :
             Append(s, x)[i] = x \/ \E j \in DOMAIN s : Append(s, x)[i] = s[j]
<1> DEFINE S == {s[i] : i \in DOMAIN s} \cup {x}
<1>1. s \in Seq(S) BY DEF IsSeq
<1>2. Append(s, x) \in Seq(S) BY <1>1
<1>3. ASSUME NEW i \in DOMAIN Append(s, x)
      PROVE Append(s, x)[i] = x \/ \E j \in DOMAIN s : Append(s, x)[i] = s[j]
  <2>1. Append(s, x)[i] \in S BY <1>2
  <2> QED BY <2>1
<1> QED BY <1>2, <1>3, SeqIsSeq

-----------------------------------------------------------------------------
(* Short sequences, as what is in them.                                     *)
LEMMA SameSeq ==
  ASSUME NEW S, NEW T, NEW s \in Seq(S), NEW t \in Seq(T), Len(s) = Len(t),
         \A i \in 1 .. Len(s) : s[i] = t[i]
  PROVE s = t
  OBVIOUS

LEMMA OneOf ==
  ASSUME NEW S, NEW s \in Seq(S), Len(s) = 1 PROVE s = <<s[1]>>
<1> DEFINE t == <<s[1]>>
<1>1. t \in Seq(S) /\ Len(t) = 1 /\ t[1] = s[1] OBVIOUS
<1> HIDE DEF t
<1>2. \A i \in 1 .. Len(s) : s[i] = t[i] BY <1>1
<1>3. s = t BY <1>1, <1>2, SameSeq
<1> QED BY <1>3 DEF t

LEMMA TwoOf ==
  ASSUME NEW S, NEW s \in Seq(S), Len(s) = 2 PROVE s = <<s[1], s[2]>>
<1> DEFINE t == <<s[1], s[2]>>
<1>1. s[1] \in S /\ s[2] \in S
  <2>1. \A i \in 1 .. 2 : s[i] \in S OBVIOUS
  <2> QED BY <2>1
<1>2. t \in Seq(S) /\ Len(t) = 2 /\ t[1] = s[1] /\ t[2] = s[2] BY <1>1
<1> HIDE DEF t
<1>3. \A i \in 1 .. Len(s) : s[i] = t[i] BY <1>2
<1>4. s = t BY <1>2, <1>3, SameSeq
<1> QED BY <1>4 DEF t

LEMMA ThreeOf ==
  ASSUME NEW S, NEW s \in Seq(S), Len(s) = 3 PROVE s = <<s[1], s[2], s[3]>>
<1> DEFINE t == <<s[1], s[2], s[3]>>
<1>1. t \in Seq(S) /\ Len(t) = 3 /\ t[1] = s[1] /\ t[2] = s[2] /\ t[3] = s[3] OBVIOUS
<1> HIDE DEF t
<1>2. \A i \in 1 .. Len(s) : s[i] = t[i] BY <1>1
<1>3. s = t BY <1>1, <1>2, SameSeq
<1> QED BY <1>3 DEF t

LEMMA OneAndOne ==
  ASSUME NEW x, NEW y PROVE <<x>> \o <<y>> = <<x, y>> /\ Append(<<x>>, y) = <<x, y>>
<1> DEFINE S == {x, y}
           s == <<x>> \o <<y>>
           a == Append(<<x>>, y)
<1>1. <<x>> \in Seq(S) /\ <<y>> \in Seq(S) /\ y \in S OBVIOUS
<1>2. s \in Seq(S) /\ Len(s) = 2 /\ s[1] = x /\ s[2] = y BY <1>1
<1>3. a \in Seq(S) /\ Len(a) = 2 /\ a[1] = x /\ a[2] = y BY <1>1
<1> HIDE DEF s, a, S
<1>4. s = <<s[1], s[2]>> BY <1>2, TwoOf
<1>5. a = <<a[1], a[2]>> BY <1>3, TwoOf
<1> QED BY <1>2, <1>3, <1>4, <1>5 DEF s, a

LEMMA TwoAndOne ==
  ASSUME NEW x, NEW y, NEW z PROVE Append(<<x, y>>, z) = <<x, y, z>>
<1> DEFINE S == {x, y, z}
           s == Append(<<x, y>>, z)
<1>1. <<x, y>> \in Seq(S) /\ z \in S OBVIOUS
<1>2. s \in Seq(S) /\ Len(s) = 3 /\ s[1] = x /\ s[2] = y /\ s[3] = z BY <1>1
<1> HIDE DEF s, S
<1>3. s = <<s[1], s[2], s[3]>> BY <1>2, ThreeOf
<1> QED BY <1>2, <1>3 DEF s

LEMMA OneCut ==
  ASSUME NEW S, NEW s \in Seq(S), NEW i \in 1 .. Len(s) PROVE SubSeq(s, i, i) = <<s[i]>>
<1> DEFINE t == SubSeq(s, i, i)
<1>1. t \in Seq(S) /\ Len(t) = 1 /\ t[1] = s[i] OBVIOUS
<1> HIDE DEF t
<1> QED BY <1>1, OneOf DEF t

(* Nothing before or behind.                                                *)
LEMMA ConcatNone ==
  ASSUME NEW S, NEW s \in Seq(S) PROVE s \o <<>> = s /\ <<>> \o s = s
<1> DEFINE a == s \o <<>>
           b == <<>> \o s
<1>1. <<>> \in Seq(S) /\ Len(<<>>) = 0 /\ Len(s) \in Nat OBVIOUS
<1>2. a \in Seq(S) /\ Len(a) = Len(s) /\ \A i \in 1 .. Len(s) : a[i] = s[i] BY <1>1
<1>3. b \in Seq(S) /\ Len(b) = Len(s) /\ \A i \in 1 .. Len(s) : b[i] = s[i] BY <1>1
<1> HIDE DEF a, b
<1>4. a = s BY <1>2, SameSeq
<1>5. b = s BY <1>3, SameSeq
<1> QED BY <1>4, <1>5 DEF a, b
=============================================================================
