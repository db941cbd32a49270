---------------------------- MODULE CBuffProofs -----------------------------
(***************************************************************************)
(* Proofs about the circular buffer, for every buffer size and every       *)
(* pointer width of which it is a divisor: the pointers stay in order, an  *)
(* acknowledgement is taken only if it is of data on trial, the buffer is  *)
(* a byte queue with a trial mark, and the search in two blocks finds the  *)
(* first match in that queue.                                              *)
(***************************************************************************)
EXTENDS CBuff, ProofFacts, SequenceTheorems, WellFoundedInduction

LEMMA Constants ==
  /\ BuffLen \in Nat \ {0} /\ BuffLen > 1
  /\ Half \in Nat \ {0} /\ BuffLen <= Half
  /\ Wrap \in Nat \ {0} /\ Wrap = 2 * Half
  /\ Wrap % BuffLen = 0
<1>1. BuffLen \in Nat \ {0} /\ BuffLen > 1 /\ Half \in Nat \ {0} /\ Half % BuffLen = 0
  BY CBuffAssumption
<1>2. Wrap = 2 * Half /\ Wrap \in Nat \ {0}
  BY <1>1 DEF Wrap
<1>3. BuffLen <= Half
  <2> SUFFICES ASSUME Half < BuffLen PROVE FALSE
    BY <1>1
  <2>1. Half % BuffLen = Half
    BY <1>1, ModSmall
  <2> QED BY <2>1, <1>1
<1>4. Wrap % BuffLen = 0
  <2> DEFINE k == Half \div BuffLen
  <2>1. k \in Int /\ Half = BuffLen * k + 0
    BY <1>1, DivMod
  <2> HIDE DEF k
  <2>2. 2 * k \in Int /\ Wrap = BuffLen * (2 * k) + 0
    BY <1>1, <1>2, <2>1
  <2> QED BY <1>1, <2>2, ModUnique
<1> QED BY <1>1, <1>2, <1>3, <1>4

-----------------------------------------------------------------------------
(* While the pointers are in order, the masked lengths of the code are the *)
(* distances between the raw pointers.                                     *)
LEMMA MaskedLengths ==
  ASSUME in \in LWord, out \in LWord, trial \in LWord, PointerOrder
  PROVE  /\ buff_trylen = (trial - out) % Wrap
         /\ buff_untriedlen = (in - trial) % Wrap
         /\ buff_dlen = (in - out) % Wrap
         /\ buff_dlen = buff_trylen + buff_untriedlen
         /\ buff_trylen \in Nat /\ buff_untriedlen \in Nat
         /\ buff_dlen \in 0 .. BuffLen - 1
<1> USE Constants DEF LWord
<1> DEFINE a == (trial - out) % Wrap
           b == (in - trial) % Wrap
           c == (in - out) % Wrap
<1>0. /\ in \in Int /\ out \in Int /\ trial \in Int
      /\ trial - out \in Int /\ in - trial \in Int /\ in - out \in Int
  OBVIOUS
<1>1. a \in 0 .. Wrap-1 /\ b \in 0 .. Wrap-1 /\ c \in 0 .. Wrap-1
  BY <1>0, DivMod
<1>2. a + b <= BuffLen - 1
  BY DEF PointerOrder
<1>3. c = a + b
  <2>1. a + b <= Wrap - 1
    BY <1>1, <1>2
  <2> QED BY <1>0, <2>1, Distances
<1>4. a \in 0 .. BuffLen - 1 /\ b \in 0 .. BuffLen - 1 /\ c \in 0 .. BuffLen - 1
  BY <1>1, <1>2, <1>3
<1>5. /\ (trial - out) % BuffLen = a % BuffLen
      /\ (in - trial) % BuffLen = b % BuffLen
      /\ (in - out) % BuffLen = c % BuffLen
  BY <1>0, ModMod
<1>6. a % BuffLen = a /\ b % BuffLen = b /\ c % BuffLen = c
  BY <1>4, ModSmall
<1>7. /\ buff_trylen = a /\ buff_untriedlen = b /\ buff_dlen = c
  BY <1>5, <1>6 DEF buff_trylen, buff_untriedlen, buff_dlen, Mask
<1> QED BY <1>3, <1>4, <1>7

LEMMA AddStaysLWord ==
  ASSUME NEW p \in LWord, NEW n \in Int
  PROVE  LWordAdd(p, n) \in LWord
<1>1. p + n \in Int
  BY Constants DEF LWord
<1> QED BY <1>1, Constants, DivMod DEF LWord, LWordAdd

LEMMA MaskStaysIndex ==
  ASSUME NEW p \in Int
  PROVE  Mask(p) \in Index
  BY Constants, DivMod DEF Mask, Index

LEMMA SliceType ==
  ASSUME data \in [Index -> Byte], NEW p \in LWord, NEW n \in Nat
  PROVE  Slice(p, n) \in Seq(Byte)
<1>1. \A i \in 1 .. n : data[Mask(p + i - 1)] \in Byte
  <2> TAKE i \in 1 .. n
  <2>1. p + i - 1 \in Int
    BY Constants DEF LWord
  <2> QED BY <2>1, MaskStaysIndex
<1> QED BY <1>1 DEF Slice

LEMMA StoreType ==
  ASSUME data \in [Index -> Byte], NEW p \in LWord, NEW d \in Seq(Byte),
         NEW n \in 0 .. Len(d)
  PROVE  Store(p, d, n) \in [Index -> Byte]
<1> SUFFICES ASSUME NEW i \in Index, Mask(i - p) < n
             PROVE  d[Mask(i - p) + 1] \in Byte
  BY DEF Store
<1>1. i - p \in Int
  BY Constants DEF LWord, Index
<1>2. Mask(i - p) \in Nat
  BY <1>1, MaskStaysIndex, Constants DEF Index
<1>3. Mask(i - p) + 1 \in 1 .. Len(d)
  BY <1>2
<1> QED BY <1>3
-----------------------------------------------------------------------------
(* The pointers keep their order and their width whatever is called: the   *)
(* type invariant and PointerOrder together are inductive.                 *)
PointerInv == in \in LWord /\ out \in LWord /\ trial \in LWord /\ PointerOrder

(* The steps that move the input pointer by what fits in the free space.   *)
LEMMA InKeepsOrder ==
  ASSUME PointerInv, NEW n \in 0 .. buff_freelen, 
         in' = LWordAdd(in, n), UNCHANGED <<out, trial>>
  PROVE  PointerInv'
<1>1. in \in Int /\ out \in Int /\ trial \in Int /\ n \in Int
  BY Constants, MaskedLengths DEF PointerInv, buff_freelen, LWord
<1> DEFINE a == (trial - out) % Wrap
           b == (in - trial) % Wrap
<1>2. a \in Nat /\ b \in Nat /\ a + b + n <= BuffLen - 1
  BY Constants, MaskedLengths DEF PointerInv, buff_freelen
<1>3. b + n \in 0 .. Wrap - 1
  BY <1>1, <1>2, Constants
<1>4. (((in + n) % Wrap) - trial) % Wrap = b + n
  BY <1>1, <1>3, Constants, ShiftAhead
<1>5. (in' - trial) % Wrap = b + n
  BY <1>4 DEF LWordAdd
<1>6. PointerOrder'
  BY <1>1, <1>2, <1>5, Constants DEF PointerOrder
<1>7. in' \in LWord
  BY <1>1, AddStaysLWord DEF PointerInv
<1> QED BY <1>6, <1>7 DEF PointerInv

(* The steps that move the trial pointer, forward over untried bytes or    *)
(* back over tried ones.                                                   *)
LEMMA TrialKeepsOrder ==
  ASSUME PointerInv, NEW n \in - buff_trylen .. buff_untriedlen, 
         trial' = LWordAdd(trial, n), UNCHANGED <<in, out>>
  PROVE  PointerInv'
<1>1. in \in Int /\ out \in Int /\ trial \in Int /\ n \in Int
  BY Constants, MaskedLengths DEF PointerInv, LWord
<1> DEFINE a == (trial - out) % Wrap
           b == (in - trial) % Wrap
<1>2. a \in Nat /\ b \in Nat /\ a + b <= BuffLen - 1 /\ a + n >= 0 /\ b - n >= 0
  BY <1>1, Constants, MaskedLengths DEF PointerInv
<1>3. a + n \in 0 .. Wrap - 1 /\ b - n \in 0 .. Wrap - 1
  BY <1>1, <1>2, Constants
<1>4. (((trial + n) % Wrap) - out) % Wrap = a + n
  BY <1>1, <1>3, Constants, ShiftAhead
<1>5. (in - ((trial + n) % Wrap)) % Wrap = b - n
  BY <1>1, <1>3, Constants, ShiftBehind
<1>6. (trial' - out) % Wrap = a + n /\ (in - trial') % Wrap = b - n
  BY <1>4, <1>5 DEF LWordAdd
<1>7. PointerOrder'
  BY <1>1, <1>2, <1>6, Constants DEF PointerOrder
<1>8. trial' \in LWord
  BY <1>1, AddStaysLWord DEF PointerInv
<1> QED BY <1>7, <1>8 DEF PointerInv

(* All three pointers equal: an empty buffer.                              *)
LEMMA EqualPointers ==
  ASSUME NEW p \in LWord, in' = p, out' = p, trial' = p
  PROVE  PointerInv'
<1>1. p - p = 0 /\ 0 % Wrap = 0
  BY Constants, ModSmall DEF LWord
<1> QED BY <1>1, Constants DEF PointerInv, PointerOrder

(* The trial pointer back at the output pointer.                           *)
LEMMA RewindKeepsOrder ==
  ASSUME PointerInv, trial' = out, UNCHANGED <<in, out>>
  PROVE  PointerInv'
<1>1. out - out = 0 /\ 0 % Wrap = 0
  BY Constants, ModSmall DEF LWord, PointerInv
<1>2. (in - out) % Wrap \in 0 .. BuffLen - 1
  BY MaskedLengths DEF PointerInv
<1>3. PointerOrder'
  BY <1>1, <1>2, Constants DEF PointerOrder
<1> QED BY <1>3 DEF PointerInv

(* Removing n bytes, with the trial pointer pushed along if it is passed.  *)
LEMMA OutKeepsOrder ==
  ASSUME PointerInv, NEW n \in 0 .. buff_dlen,
         out' = LWordAdd(out, n), UNCHANGED in,
         trial' = IF buff_untriedlen > Mask(in - out') THEN out' ELSE trial
  PROVE  PointerInv'
<1>1. in \in Int /\ out \in Int /\ trial \in Int /\ n \in Int
  BY Constants, MaskedLengths DEF PointerInv, LWord
<1> DEFINE a == (trial - out) % Wrap
           b == (in - trial) % Wrap
           c == (in - out) % Wrap
<1>2. a \in Nat /\ b \in Nat /\ c = a + b /\ c <= BuffLen - 1 /\ n <= c /\ n >= 0
      /\ buff_untriedlen = b
  BY <1>1, Constants, MaskedLengths DEF PointerInv
<1>3. c - n \in 0 .. Wrap - 1 /\ c - n \in 0 .. BuffLen - 1
  BY <1>1, <1>2, Constants
<1>4. (in - ((out + n) % Wrap)) % Wrap = c - n
  BY <1>1, <1>3, Constants, ShiftBehind
<1>5. (in - out') % Wrap = c - n
  BY <1>4 DEF LWordAdd
<1>6. out' \in LWord
  BY <1>1, AddStaysLWord DEF PointerInv
<1>7. Mask(in - out') = c - n
  <2>1. in - out' \in Int
    BY <1>1, <1>6, Constants DEF LWord
  <2>2. (in - out') % BuffLen = (c - n) % BuffLen
    BY <1>5, <2>1, Constants, ModMod
  <2> QED BY <1>3, <2>2, Constants, ModSmall DEF Mask
<1>8. CASE b > c - n
  <2>1. trial' = out'
    BY <1>2, <1>7, <1>8
  <2>2. out' - out' = 0 /\ 0 % Wrap = 0
    BY <1>6, Constants, ModSmall DEF LWord
  <2>3. PointerOrder'
    BY <1>3, <1>5, <2>1, <2>2, Constants DEF PointerOrder
  <2> QED BY <1>6, <2>1, <2>3 DEF PointerInv
<1>9. CASE ~(b > c - n)
  <2>1. trial' = trial
    BY <1>2, <1>7, <1>9
  <2>2. a - n \in 0 .. Wrap - 1
    BY <1>1, <1>2, <1>9, Constants
  <2>3. (trial - ((out + n) % Wrap)) % Wrap = a - n
    BY <1>1, <2>2, Constants, ShiftBehind
  <2>4. (trial' - out') % Wrap = a - n /\ (in' - trial') % Wrap = b
    BY <2>1, <2>3 DEF LWordAdd
  <2>5. PointerOrder'
    BY <1>1, <1>2, <2>4, Constants DEF PointerOrder
  <2> QED BY <1>6, <2>1, <2>5 DEF PointerInv
<1> QED BY <1>8, <1>9

(* The values in_limits accepts are those between out and trial.  The sum  *)
(* of the two distances cannot reach Wrap because each is below Half.      *)
LEMMA LimitsSplit ==
  ASSUME PointerInv, NEW v \in LWord, in_limits(v, out, trial)
  PROVE  (trial - out) % Wrap = ((v - out) % Wrap) + ((trial - v) % Wrap)
<1>1. v \in Int /\ out \in Int /\ trial \in Int /\ v - out \in Int /\ trial - v \in Int
  BY Constants DEF PointerInv, LWord
<1>2. (v - out) % Wrap \in 0 .. Wrap-1 /\ (trial - v) % Wrap \in 0 .. Wrap-1
  BY <1>1, Constants, DivMod
<1>3. ((v - out) % Wrap) + ((trial - v) % Wrap) <= Wrap - 1
  BY <1>2, Constants DEF in_limits, NotNegative
<1>4. Wrap \in Nat \ {0}
  BY Constants
<1> QED BY <1>1, <1>3, <1>4, Distances

LEMMA AckKeepsOrder ==
  ASSUME PointerInv, NEW v \in LWord, AcceptAck(v)
  PROVE  PointerInv'
<1>1. (trial - out) % Wrap = ((v - out) % Wrap) + ((trial - v) % Wrap)
  BY LimitsSplit DEF AcceptAck
<1>2. /\ v \in Int /\ out \in Int /\ trial \in Int /\ in \in Int 
      /\ v - out \in Int /\ trial - v \in Int /\ in - trial \in Int
  BY Constants DEF PointerInv, LWord
<1>3. /\ (v - out) % Wrap \in 0 .. Wrap-1 /\ (trial - v) % Wrap \in 0 .. Wrap-1
      /\ (in - trial) % Wrap \in 0 .. Wrap-1
  BY <1>2, Constants, DivMod
<1>4. out' = v /\ in' = in /\ trial' = trial
  BY DEF AcceptAck
<1>5. PointerOrder'
  BY <1>1, <1>3, <1>4, Constants DEF PointerOrder, PointerInv
<1> QED BY <1>4, <1>5 DEF PointerInv
-----------------------------------------------------------------------------
Inv == TypeOK /\ PointerOrder

LEMMA InvPointers == Inv <=> PointerInv /\ data \in [Index -> Byte] /\ ret \in Seq(Byte)
  BY DEF Inv, TypeOK, PointerInv

LEMMA InitInv == Init => Inv
<1> SUFFICES ASSUME Init PROVE Inv
  OBVIOUS
<1>1. 0 \in LWord /\ 0 - 0 = 0 /\ 0 % Wrap = 0
  BY Constants, ModSmall DEF LWord
<1>2. PointerInv
  BY <1>1, Constants DEF Init, PointerInv, PointerOrder
<1>3. data \in [Index -> Byte] /\ ret \in Seq(Byte)
  BY CBuffAssumption DEF Init
<1> QED BY <1>2, <1>3, InvPointers

(* Every operation keeps the invariant.                                    *)
LEMMA NextInv == Inv /\ [Next]_vars => Inv'
<1> SUFFICES ASSUME Inv, [Next]_vars PROVE Inv'
  OBVIOUS
<1>1. PointerInv /\ data \in [Index -> Byte] /\ ret \in Seq(Byte)
  BY InvPointers
<1>2. /\ buff_trylen \in Nat /\ buff_untriedlen \in Nat /\ buff_dlen \in 0 .. BuffLen - 1
      /\ buff_freelen \in 0 .. BuffLen - 1
  BY <1>1, MaskedLengths, Constants DEF PointerInv, buff_freelen
<1>3. <<>> \in Seq(Byte)
  OBVIOUS
<1>4. ASSUME NEW start \in Starts, buff_setall(start)
      PROVE  Inv'
  <2>1. start \in LWord
    BY CBuffAssumption DEF LWord
  <2>2. PointerInv'
    BY <2>1, <1>4, EqualPointers DEF buff_setall
  <2> QED BY <1>1, <1>3, <1>4, <2>2 DEF buff_setall, Inv, TypeOK, PointerInv
<1>5. ASSUME NEW d \in Chunks, buff_in(d)
      PROVE  Inv'
  <2> DEFINE n == minw(Len(d), buff_freelen)
  <2>1. d \in Seq(Byte)
    BY CBuffAssumption
  <2>2. n \in 0 .. buff_freelen /\ n \in 0 .. Len(d)
    BY <1>2, <2>1 DEF minw
  <2>3. PointerInv'
    BY <1>1, <1>5, <2>2, InKeepsOrder DEF buff_in
  <2>4. data' \in [Index -> Byte]
    BY <1>1, <1>5, <2>1, <2>2, StoreType DEF buff_in, PointerInv
  <2> QED BY <1>3, <1>5, <2>3, <2>4 DEF buff_in, Inv, TypeOK, PointerInv
<1>6. ASSUME NEW f \in Chunks, NEW len \in 0 .. BuffLen, buff_infile(f, len)
      PROVE  Inv'
  <2> DEFINE n == minw(len, buff_freelen)
             n1 == minw(n, BuffLen - Mask(in))
             n2 == IF len < n1 THEN 0 ELSE n - n1
             count1 == minw(n1, Len(f))
             count2 == minw(n2, Len(f) - count1)
  <2>1. f \in Seq(Byte) /\ Len(f) \in Nat
    BY CBuffAssumption
  <2>2. Mask(in) \in Index
    BY <1>1, MaskStaysIndex, Constants DEF PointerInv, LWord
  <2>3. /\ n \in 0 .. buff_freelen
        /\ n1 \in 0 .. n
        /\ n2 \in 0 .. n - n1
    BY <1>2, <2>2, Constants DEF minw, Index
  <2>4. /\ count1 \in 0 .. Len(f) /\ count1 \in 0 .. n1
        /\ count2 \in 0 .. Len(f) - count1 /\ count2 \in 0 .. n - n1
    <3> HIDE DEF n, n1, n2
    <3> QED BY <2>1, <2>3, <1>2 DEF minw
  <2>5. count1 + count2 \in 0 .. buff_freelen
    <3> HIDE DEF n, n1, n2, count1, count2
    <3> QED BY <2>3, <2>4, <1>2
  <2>6. /\ in' = LWordAdd(in, count1 + count2) 
        /\ UNCHANGED <<out, trial>>
        /\ ret' = <<>>
    BY <1>6 DEF buff_infile
  <2>7. PointerInv'
    <3> HIDE DEF count1, count2
    <3> QED BY <1>1, <2>5, <2>6, InKeepsOrder
  <2>8. data' \in [Index -> Byte]
    <3>1. data' = [i \in Index |->
                IF i < count2 THEN f[count1 + i + 1]
                ELSE IF i - Mask(in) \in 0 .. count1 - 1
                     THEN f[i - Mask(in) + 1]
                     ELSE data[i]]
      BY <1>6 DEF buff_infile
    <3> HIDE DEF n, n1, n2, count1, count2
    <3>2. \A i \in Index : i < count2 => f[count1 + i + 1] \in Byte
      BY <2>1, <2>4, Constants DEF Index
    <3>3. \A i \in Index : i - Mask(in) \in 0 .. count1 - 1 => f[i - Mask(in) + 1] \in Byte
      BY <2>1, <2>2, <2>4, Constants DEF Index
    <3> QED BY <1>1, <3>1, <3>2, <3>3
  <2> QED BY <1>3, <2>6, <2>7, <2>8 DEF Inv, TypeOK, PointerInv
<1>7. ASSUME NEW maxlen \in 0 .. BuffLen, buff_try(maxlen)
      PROVE  Inv'
  <2> DEFINE n == minw(maxlen, buff_untriedlen)
  <2>1. n \in - buff_trylen .. buff_untriedlen /\ n \in Nat
    BY <1>2, Constants DEF minw
  <2>2. PointerInv'
    BY <1>1, <1>7, <2>1, TrialKeepsOrder DEF buff_try
  <2>3. ret' \in Seq(Byte)
    BY <1>1, <1>7, <2>1, SliceType DEF buff_try, PointerInv
  <2> QED BY <1>1, <1>7, <2>2, <2>3 DEF buff_try, Inv, TypeOK, PointerInv
<1>8. ASSUME NEW maxlen \in 0 .. BuffLen, buff_out(maxlen)
      PROVE  Inv'
  <2> DEFINE n == minw(maxlen, buff_dlen)
  <2>1. n \in 0 .. buff_dlen /\ n \in Nat
    BY <1>2, Constants DEF minw
  <2>2. PointerInv'
    BY <1>1, <1>8, <2>1, OutKeepsOrder DEF buff_out
  <2>3. ret' \in Seq(Byte)
    BY <1>1, <1>8, <2>1, SliceType DEF buff_out, PointerInv
  <2> QED BY <1>1, <1>8, <2>2, <2>3 DEF buff_out, Inv, TypeOK, PointerInv
<1>9. ASSUME NEW len \in 0 .. BuffLen, buff_retry(len)
      PROVE  Inv'
  <2> DEFINE n == - minw(len, buff_trylen)
  <2>1. n \in - buff_trylen .. buff_untriedlen
    BY <1>2, Constants DEF minw
  <2>2. PointerInv'
    BY <1>1, <1>9, <2>1, TrialKeepsOrder DEF buff_retry
  <2> QED BY <1>1, <1>3, <1>9, <2>2 DEF buff_retry, Inv, TypeOK, PointerInv
<1>10. ASSUME NEW rxack \in LWord, AcceptAck(rxack)
       PROVE  Inv'
  <2>1. PointerInv'
    BY <1>1, <1>10, AckKeepsOrder
  <2> QED BY <1>1, <1>3, <1>10, <2>1 DEF AcceptAck, Inv, TypeOK, PointerInv
<1>11. CASE RewindTrial
  <2>1. PointerInv'
    BY <1>1, <1>11, RewindKeepsOrder DEF RewindTrial
  <2> QED BY <1>1, <1>3, <1>11, <2>1 DEF RewindTrial, Inv, TypeOK, PointerInv
<1>12. CASE UNCHANGED vars
  BY <1>12 DEF vars, Inv, TypeOK, PointerOrder
<1> QED 
  BY <1>4, <1>5, <1>6, <1>7, <1>8, <1>9, <1>10, <1>11, <1>12 DEF Next

(* Whatever sequence of calls is made, the pointers keep their type, the   *)
(* array holds bytes and callers are given sequences of bytes.             *)
THEOREM TypeCorrect == Spec => []TypeOK
<1>1. Spec => []Inv
  BY InitInv, NextInv, PTL DEF Spec
<1>2. Inv => TypeOK
  BY DEF Inv
<1> QED BY <1>1, <1>2, PTL

(* Whatever sequence of calls is made, on any buffer size and any pointer  *)
(* width, the raw pointers stay in order within one buffer length.         *)
THEOREM PointersOrdered == Spec => []PointerOrder
<1>1. Spec => []Inv
  BY InitInv, NextInv, PTL DEF Spec
<1>2. Inv => PointerOrder
  BY DEF Inv
<1> QED BY <1>1, <1>2, PTL

(* in_limits accepts exactly the sequence values of data that is sent and  *)
(* not acknowledged, across the wrap of the 32-bit pointers.               *)
THEOREM AckWindowHolds == Spec => []AckWindow
<1>1. Spec => []Inv
  BY InitInv, NextInv, PTL DEF Spec
<1>2. Inv => AckWindow
  <2> SUFFICES ASSUME PointerInv, NEW v \in LWord
               PROVE  in_limits(v, out, trial) <=> (v - out) % Wrap <= buff_trylen
    BY InvPointers DEF AckWindow
  <2>1. /\ v \in Int /\ out \in Int /\ trial \in Int 
        /\ v - out \in Int /\ trial - v \in Int /\ trial - out \in Int
    BY Constants DEF PointerInv, LWord
  <2> DEFINE a == (trial - out) % Wrap
             b == (v - out) % Wrap
             c == (trial - v) % Wrap
  <2>2. buff_trylen = a /\ a \in 0 .. BuffLen - 1
    BY MaskedLengths, Constants DEF PointerInv
  <2>3. b \in 0 .. Wrap - 1 /\ c \in 0 .. Wrap - 1
    BY <2>1, Constants, DivMod
  <2>4. ASSUME in_limits(v, out, trial) PROVE b <= a
    BY <2>3, <2>4, LimitsSplit, Constants
  <2>5. ASSUME b <= a PROVE in_limits(v, out, trial)
    <3>1. a - b \in 0 .. Wrap - 1 /\ a - b < Half /\ b < Half
      BY <2>2, <2>3, <2>5, Constants
    <3>2. (a - b) % Wrap = c
      <4>1. (a + (-b)) % Wrap = ((trial - out) + (-b)) % Wrap
        <5>1. -b \in Int /\ trial - out \in Int /\ Wrap \in Nat \ {0}
          BY <2>1, <2>3, Constants
        <5> HIDE DEF b
        <5> QED BY <5>1, ModAdd
      <4>2. ((trial - out) - b) % Wrap = ((trial - out) - (v - out)) % Wrap
        BY <2>1, Constants, ModAdd
      <4>3. (trial - out) - (v - out) = trial - v /\ a + (-b) = a - b
            /\ (trial - out) + (-b) = (trial - out) - b
        BY <2>1, <2>2, <2>3
      <4> QED BY <4>1, <4>2, <4>3
    <3>3. c = a - b
      BY <3>1, <3>2, Constants, ModSmall
    <3> QED BY <3>1, <3>3 DEF in_limits, NotNegative
  <2> QED BY <2>2, <2>4, <2>5
<1> QED BY <1>1, <1>2, PTL

-----------------------------------------------------------------------------
(* The refinement of the byte queue                                        *)

(* What the invariant says of the abstract queue: how its lengths add up,   *)
(* how they follow from the raw pointers, and which bytes it holds.         *)
Lengths ==
    /\ in \in Int /\ out \in Int /\ trial \in Int
    /\ buff_trylen \in Nat /\ buff_untriedlen \in Nat /\ buff_dlen \in Nat
    /\ buff_dlen <= BuffLen - 1
    /\ buff_dlen = buff_trylen + buff_untriedlen

LengthsAreDistances ==
    /\ buff_trylen = (trial - out) % Wrap
    /\ buff_untriedlen = (in - trial) % Wrap
    /\ buff_dlen = (in - out) % Wrap

BytesHeld ==
    /\ Queue \in Seq(Byte) /\ Len(Queue) = buff_dlen
    /\ \A i \in 1 .. buff_dlen : Queue[i] = data[Mask(out + i - 1)]

QueueView == Lengths /\ LengthsAreDistances /\ BytesHeld

LEMMA InvView == Inv => QueueView
<1> SUFFICES ASSUME Inv PROVE QueueView
  OBVIOUS
<1>1. PointerInv /\ data \in [Index -> Byte] /\ out \in LWord
  BY InvPointers DEF PointerInv
<1>2. Lengths /\ LengthsAreDistances
  BY <1>1, MaskedLengths, Constants DEF PointerInv, LWord, Lengths, LengthsAreDistances
<1>3. buff_dlen \in Nat
  BY <1>2 DEF Lengths
<1>4. Queue \in Seq(Byte)
  BY <1>1, <1>3, SliceType DEF Queue
<1>5. BytesHeld
  BY <1>3, <1>4 DEF Queue, Slice, BytesHeld
<1> QED BY <1>2, <1>5 DEF QueueView

LEMMA InvViewNext == Inv' => QueueView'
BY InvView, PTL

LEMMA BytesAreBytes ==
    ASSUME QueueView
    PROVE  \A i \in 1 .. buff_dlen : Queue[i] \in Byte
<1>1. Queue \in Seq(Byte) /\ Len(Queue) = buff_dlen
  BY DEF QueueView, BytesHeld
<1> QED BY <1>1

LEMMA RoomLeft ==
    ASSUME QueueView
    PROVE  buff_freelen = BuffLen - 1 - buff_dlen /\ buff_freelen \in Nat
<1>1. buff_dlen \in Nat /\ buff_dlen <= BuffLen - 1
  BY DEF QueueView, Lengths
<1> QED BY <1>1, Constants DEF buff_freelen

-----------------------------------------------------------------------------
(* A pointer that has wrapped is masked to the place it would have had. *)
LEMMA MaskOfWrapped ==
    ASSUME NEW p \in Int, NEW k \in Int
    PROVE  Mask((p % Wrap) + k) = Mask(p + k)
<1>1. p % Wrap \in Int
  BY Constants, DivMod
<1>2. (((p % Wrap) % BuffLen) + k) % BuffLen = ((p % Wrap) + k) % BuffLen
  BY <1>1, Constants, ModAdd
<1>3. (p % Wrap) % BuffLen = p % BuffLen
  BY Constants, ModMod
<1>4. ((p % BuffLen) + k) % BuffLen = (p + k) % BuffLen
  BY Constants, ModAdd
<1> QED BY <1>2, <1>3, <1>4 DEF Mask

(* An offset may be taken before or after masking. *)
LEMMA MaskOfOffset ==
    ASSUME NEW p \in Int, NEW k \in Int
    PROVE  Mask(Mask(p) - k) = Mask(p - k)
<1>1. -k \in Int /\ Mask(p) \in Int
  BY Constants, DivMod DEF Mask
<1>2. Mask(Mask(p) + (-k)) = Mask(p + (-k))
  BY <1>1, Constants, ModAdd DEF Mask
<1>3. Mask(p) + (-k) = Mask(p) - k /\ p + (-k) = p - k
  BY <1>1
<1> QED BY <1>2, <1>3

(* Seen from the input pointer, the bytes held are the last ones of a turn. *)
LEMMA PlaceOfHeld ==
    ASSUME QueueView, NEW i \in 1 .. buff_dlen
    PROVE  Mask(out + i - 1 - in) = BuffLen - buff_dlen + i - 1
<1> DEFINE q == (in - out) \div BuffLen
           d == buff_dlen
           r == BuffLen - d + i - 1
<1>1. in \in Int /\ out \in Int /\ in - out \in Int
  BY DEF QueueView, Lengths
<1>2. d \in Nat /\ d <= BuffLen - 1 /\ i \in 1 .. d
  BY DEF QueueView, Lengths
<1>3. q \in Int /\ in - out = BuffLen * q + d
  BY <1>1, Constants, DivMod DEF buff_dlen, Mask
<1> HIDE DEF q, d
<1>4. r \in 0 .. BuffLen - 1
  BY <1>2, Constants
<1>5. -q - 1 \in Int
  BY <1>3
<1>6. out + i - 1 - in = BuffLen * (-q - 1) + r
  <2>1. BuffLen \in Int /\ i \in Int
    BY <1>2, Constants
  <2>2. BuffLen * (-q - 1) = -(BuffLen * q) - BuffLen
    BY <1>3, <2>1
  <2>3. BuffLen * q \in Int
    BY <1>3, <2>1
  <2> QED BY <1>1, <1>2, <1>3, <2>1, <2>2, <2>3
<1> HIDE DEF r
<1>7. (BuffLen * (-q - 1) + r) % BuffLen = r
  BY <1>4, <1>5, Constants, ModUnique
<1>8. Mask(out + i - 1 - in) = r
  BY <1>6, <1>7 DEF Mask
<1> QED BY <1>8 DEF r, d

-----------------------------------------------------------------------------
(* Storing bytes: those that are held stay where they are. *)
LEMMA LoadStep ==
    ASSUME Inv, Inv', NEW n \in 0 .. buff_freelen,
           in' = LWordAdd(in, n), UNCHANGED <<out, trial>>, ret' = <<>>,
           \A i \in 1 .. buff_dlen : data'[Mask(out + i - 1)] = data[Mask(out + i - 1)]
    PROVE  Fifo!Load
<1>1. QueueView /\ QueueView'
  BY InvView, InvViewNext
<1>2. n \in Int /\ n >= 0 /\ buff_dlen + n <= BuffLen - 1 /\ buff_dlen \in Nat
  <2>1. buff_dlen \in Nat
    BY <1>1 DEF QueueView, Lengths
  <2> QED BY <1>1, <2>1, RoomLeft, Constants
<1>3. buff_dlen' = buff_dlen + n
  <2>1. (in - out) % Wrap = buff_dlen /\ (in' - out') % Wrap = buff_dlen'
    BY <1>1 DEF QueueView, LengthsAreDistances
  <2>2. ((in - out) % Wrap) + n \in 0 .. Wrap - 1
    BY <1>2, <2>1, Constants
  <2>3. in \in Int /\ out \in Int /\ Wrap \in Nat \ {0} /\ n \in Int
    BY <1>1, <1>2, Constants DEF QueueView, Lengths
  <2>4. (((in + n) % Wrap) - out) % Wrap = ((in - out) % Wrap) + n
    BY <2>2, <2>3, ShiftAhead
  <2> QED BY <2>1, <2>4 DEF LWordAdd
<1>4. buff_trylen' = buff_trylen
  BY DEF buff_trylen, Mask
<1>5. \A i \in 1 .. buff_dlen : Queue'[i] = Queue[i]
  <2> TAKE i \in 1 .. buff_dlen
  <2>1. i \in 1 .. buff_dlen'
    BY <1>2, <1>3
  <2>2. Queue'[i] = data'[Mask(out' + i - 1)]
    BY <1>1, <2>1 DEF QueueView, BytesHeld, Mask
  <2>3. Queue[i] = data[Mask(out + i - 1)]
    BY <1>1 DEF QueueView, BytesHeld
  <2> QED BY <2>2, <2>3
<1>6. Len(Queue) = buff_dlen /\ Queue \in Seq(Byte) /\ Len(Queue') = buff_dlen'
  BY <1>1 DEF QueueView, BytesHeld
<1>7. SubSeq(Queue', 1, Len(Queue)) = Queue
  <2> DEFINE s == SubSeq(Queue', 1, buff_dlen)
  <2>1. \A i \in 1 .. buff_dlen : Queue'[i] \in Byte
    BY <1>1, <1>5, BytesAreBytes
  <2>2. s \in Seq(Byte) /\ Len(s) = buff_dlen /\ \A i \in 1 .. buff_dlen : s[i] = Queue'[i]
    BY <1>2, <2>1, SubSeqProperties
  <2> HIDE DEF s
  <2>3. s = Queue
    BY <1>5, <1>6, <2>2, SeqEqual
  <2> QED BY <1>6, <2>3 DEF s
<1>8. Len(Queue') \in Len(Queue) .. BuffLen - 1
  BY <1>2, <1>3, <1>6, Constants
<1> QED BY <1>4, <1>7, <1>8 DEF Fifo!Load

LEMMA InStep ==
    ASSUME Inv, Inv', NEW d \in Chunks, buff_in(d)
    PROVE  Fifo!Load
<1> DEFINE n == minw(Len(d), buff_freelen)
<1>1. QueueView /\ d \in Seq(Byte) /\ Len(d) \in Nat
  BY InvView, CBuffAssumption
<1>2. n \in 0 .. buff_freelen /\ n <= BuffLen - 1 - buff_dlen /\ n \in Nat
  BY <1>1, RoomLeft DEF minw
<1>3. /\ in' = LWordAdd(in, n) /\ UNCHANGED <<out, trial>> /\ ret' = <<>>
      /\ data' = Store(in, d, n)
  BY DEF buff_in
<1> HIDE DEF n
<1>4. ASSUME NEW i \in 1 .. buff_dlen
      PROVE  data'[Mask(out + i - 1)] = data[Mask(out + i - 1)]
  <2>1. out \in Int /\ in \in Int /\ buff_dlen \in Nat
    BY <1>1 DEF QueueView, Lengths
  <2>2. i \in Int /\ i >= 1 /\ out + i - 1 \in Int
    BY <2>1
  <2>3. Mask(out + i - 1) \in Index
    BY <2>2, MaskStaysIndex
  <2>4. Mask(Mask(out + i - 1) - in) = Mask(out + i - 1 - in)
    BY <2>1, <2>2, MaskOfOffset
  <2>5. Mask(out + i - 1 - in) = BuffLen - buff_dlen + i - 1
    BY <1>1, PlaceOfHeld
  <2>6. ~(Mask(Mask(out + i - 1) - in) < n)
    BY <1>2, <2>1, <2>2, <2>4, <2>5, Constants
  <2> QED BY <1>3, <2>3, <2>6 DEF Store
<1> QED BY <1>2, <1>3, <1>4, LoadStep

LEMMA InfileStep ==
    ASSUME Inv, Inv', NEW f \in Chunks, NEW len \in 0 .. BuffLen, buff_infile(f, len)
    PROVE  Fifo!Load
<1> DEFINE n == minw(len, buff_freelen)
           m == Mask(in)
           n1 == minw(n, BuffLen - m)
           n2 == IF len < n1 THEN 0 ELSE n - n1
           count1 == minw(n1, Len(f))
           count2 == minw(n2, Len(f) - count1)
<1>1. QueueView /\ f \in Seq(Byte) /\ Len(f) \in Nat
  BY InvView, CBuffAssumption
<1>2. in \in Int /\ out \in Int /\ buff_dlen \in Nat
  BY <1>1 DEF QueueView, Lengths
<1>3. m \in Nat /\ m <= BuffLen - 1
  BY <1>2, MaskStaysIndex, Constants DEF Index
<1>4. n \in 0 .. buff_freelen /\ n \in Nat /\ n <= BuffLen - 1 - buff_dlen /\ n <= len
  BY <1>1, RoomLeft, Constants DEF minw
<1>5. /\ in' = LWordAdd(in, count1 + count2) /\ UNCHANGED <<out, trial>> /\ ret' = <<>>
      /\ data' = [i \in Index |->
                IF i < count2 THEN f[count1 + i + 1]
                ELSE IF i - m \in 0 .. count1 - 1 THEN f[i - m + 1] ELSE data[i]]
  BY DEF buff_infile
<1> HIDE DEF n, m
<1>6. n1 \in Nat /\ n2 \in Nat /\ n1 + n2 <= n /\ (n2 > 0 => n1 = BuffLen - m)
  BY <1>3, <1>4, Constants DEF minw
<1> HIDE DEF n1, n2
<1>7. count1 \in Nat /\ count1 <= n1
  BY <1>1, <1>6 DEF minw
<1>8. count2 \in Nat /\ count2 <= n2
  <2>1. count1 <= Len(f)
    BY <1>1, <1>6 DEF minw
  <2> HIDE DEF count1
  <2> QED BY <1>1, <1>6, <1>7, <2>1 DEF minw
<1> HIDE DEF count1, count2
<1>9. count1 + count2 \in 0 .. buff_freelen
  <2>1. buff_freelen \in Nat
    BY <1>1, RoomLeft
  <2> QED BY <1>4, <1>6, <1>7, <1>8, <2>1
<1>10. ASSUME NEW i \in 1 .. buff_dlen
       PROVE  data'[Mask(out + i - 1)] = data[Mask(out + i - 1)]
  <2> DEFINE x == Mask(out + i - 1)
             k == BuffLen - buff_dlen + i - 1
  <2>1. out + i - 1 \in Int /\ i \in Int /\ i >= 1 /\ i <= buff_dlen
    BY <1>2
  <2>2. x \in Index /\ x \in Nat /\ x <= BuffLen - 1
    BY <2>1, MaskStaysIndex, Constants DEF Index
  <2>3. k \in Nat /\ k > n /\ k <= BuffLen - 1
    BY <1>2, <1>4, <2>1, Constants
  <2>4. (x - m) % BuffLen = k
    <3>1. Mask(out + i - 1 - in) = k
      BY <1>1, PlaceOfHeld
    <3>2. Mask(Mask(out + i - 1) - in) = Mask(out + i - 1 - in)
      BY <1>2, <2>1, MaskOfOffset
    <3>3. (x - in) % BuffLen = k
      BY <3>1, <3>2 DEF Mask
    <3>4. (x - (in % BuffLen)) % BuffLen = (x - in) % BuffLen
      <4>1. x \in Int
        BY <2>2
      <4> HIDE DEF x
      <4> QED BY <1>2, <4>1, Constants, ModAdd
    <3>5. m = in % BuffLen
      BY DEF m, Mask
    <3> HIDE DEF x, k
    <3> QED BY <3>3, <3>4, <3>5
  <2> HIDE DEF x, k
  <2>5. x = m + k \/ x = m + k - BuffLen
    <3>1. CASE x >= m
      <4>1. x - m \in 0 .. BuffLen - 1
        BY <1>3, <2>2, <3>1, Constants
      <4>2. (x - m) % BuffLen = x - m
        BY <4>1, Constants, ModSmall
      <4> QED BY <1>3, <2>2, <2>3, <2>4, <4>2
    <3>2. CASE x < m
      <4>1. x - m + BuffLen \in 0 .. BuffLen - 1 /\ x - m \in Int
        BY <1>3, <2>2, <3>2, Constants
      <4>2. (x - m + BuffLen) % BuffLen = x - m + BuffLen
        BY <4>1, Constants, ModSmall
      <4> DEFINE y == x - m
      <4>3. (y + BuffLen * 1) % BuffLen = y % BuffLen
        <5>1. y \in Int /\ 1 \in Int
          BY <4>1
        <5> HIDE DEF y
        <5> QED BY <5>1, Constants, ModAddMultiple
      <4>4. y + BuffLen * 1 = x - m + BuffLen
        BY <4>1, Constants
      <4> QED BY <1>3, <2>2, <2>3, <2>4, <4>2, <4>3, <4>4, Constants
    <3> QED BY <1>3, <2>2, <3>1, <3>2
  <2>6. ~(x < count2)
    BY <1>3, <1>4, <1>6, <1>8, <2>2, <2>3, <2>5, Constants
  <2>7. x - m \notin 0 .. count1 - 1
    BY <1>3, <1>4, <1>6, <1>7, <2>2, <2>3, <2>5, Constants
  <2>8. data'[x] = data[x]
    BY <1>5, <2>2, <2>6, <2>7
  <2> QED BY <2>8 DEF x
<1> QED BY <1>5, <1>9, <1>10, LoadStep

-----------------------------------------------------------------------------
(* Moving the trial pointer by n, forward or back *)
LEMMA TrialMoves ==
    ASSUME Inv, Inv', NEW n \in Int, 0 <= buff_trylen + n, buff_trylen + n <= buff_dlen,
           trial' = LWordAdd(trial, n), UNCHANGED <<in, out, data>>
    PROVE  buff_trylen' = buff_trylen + n
<1>1. QueueView /\ QueueView'
  BY InvView, InvViewNext
<1>2. /\ trial \in Int /\ out \in Int /\ Wrap \in Nat \ {0}
      /\ buff_trylen \in Nat /\ buff_dlen \in Nat /\ buff_dlen <= BuffLen - 1
  BY <1>1, Constants DEF QueueView, Lengths
<1>3. (trial - out) % Wrap = buff_trylen /\ (trial' - out') % Wrap = buff_trylen'
  BY <1>1 DEF QueueView, LengthsAreDistances
<1>4. ((trial - out) % Wrap) + n \in 0 .. Wrap - 1
  BY <1>2, <1>3, Constants
<1>5. (((trial + n) % Wrap) - out) % Wrap = ((trial - out) % Wrap) + n
  BY <1>2, <1>4, ShiftAhead
<1> QED BY <1>3, <1>5 DEF LWordAdd

LEMMA QueueKept ==
    ASSUME UNCHANGED <<in, out, data>>
    PROVE  Queue' = Queue /\ buff_dlen' = buff_dlen
<1>1. buff_dlen' = buff_dlen
  BY DEF buff_dlen, Mask
<1> QED BY <1>1 DEF Queue, Slice, Mask

LEMMA EmptyDistance == ASSUME NEW p \in Int PROVE (p - p) % Wrap = 0
<1>1. p - p = 0 /\ 0 % Wrap = 0
  BY Constants, ModSmall
<1> QED BY <1>1

(* Reading bytes on trial, and taking the trial back *)
LEMMA TryStep ==
    ASSUME Inv, Inv', NEW maxlen \in 0 .. BuffLen, buff_try(maxlen)
    PROVE  Fifo!Try
<1> DEFINE n == minw(maxlen, buff_untriedlen)
           t == buff_trylen
<1>1. QueueView /\ QueueView'
  BY InvView, InvViewNext
<1>2. /\ trial \in Int /\ out \in Int /\ t \in Nat /\ buff_untriedlen \in Nat
      /\ buff_dlen = t + buff_untriedlen
  BY <1>1 DEF QueueView, Lengths
<1>3. n \in Nat /\ t + n <= buff_dlen
  BY <1>2, Constants DEF minw
<1>4. ret' = Slice(trial, n) /\ trial' = LWordAdd(trial, n) /\ UNCHANGED <<in, out, data>>
  BY DEF buff_try
<1> HIDE DEF n
<1>5. buff_trylen' = t + n
  <2>1. n \in Int /\ 0 <= buff_trylen + n
    BY <1>2, <1>3
  <2> QED BY <1>3, <1>4, <2>1, TrialMoves
<1>6. Queue' = Queue
  BY <1>4, QueueKept
<1>7. Len(Queue) = buff_dlen /\ Queue \in Seq(Byte)
      /\ \A i \in 1 .. buff_dlen : Queue[i] = data[Mask(out + i - 1)]
  BY <1>1 DEF QueueView, BytesHeld
<1>8. \A i \in 1 .. buff_dlen : Queue[i] \in Byte
  BY <1>1, BytesAreBytes
<1>9. (trial - out) % BuffLen = t
  BY DEF buff_trylen, Mask
<1> HIDE DEF t
<1>10. ret' = SubSeq(Queue, t + 1, t + n)
  <2> DEFINE s == SubSeq(Queue, t + 1, t + n)
  <2>1. \A i \in t + 1 .. t + n : Queue[i] \in Byte
    BY <1>2, <1>3, <1>8
  <2>2. s \in Seq(Byte) /\ Len(s) = n /\ \A i \in 1 .. n : s[i] = Queue[t + i]
    <3>1. t + 1 \in Int /\ t + n \in Int
      BY <1>2, <1>3
    <3>2. Len(s) = n
      BY <1>2, <1>3, <2>1, <3>1, SubSeqProperties
    <3>3. (t + n) - (t + 1) + 1 = n /\ \A i \in 1 .. n : (t + 1) + i - 1 = t + i
      BY <1>2, <1>3
    <3> QED BY <2>1, <3>1, <3>2, <3>3, SubSeqProperties
  <2> HIDE DEF s
  <2>3. \A i \in 1 .. n : data[Mask(trial + i - 1)] = Queue[t + i]
    <3> TAKE i \in 1 .. n
    <3>1. trial - out \in Int /\ out + i - 1 \in Int /\ t + i \in 1 .. buff_dlen /\ i \in Int
      BY <1>2, <1>3
    <3>2. (t + (out + i - 1)) % BuffLen = ((trial - out) + (out + i - 1)) % BuffLen
      BY <1>9, <3>1, Constants, ModAdd
    <3>3. (trial - out) + (out + i - 1) = trial + i - 1 /\ t + (out + i - 1) = out + (t + i) - 1
      BY <1>2, <3>1
    <3>4. Queue[t + i] = data[Mask(out + (t + i) - 1)]
      BY <1>7, <3>1
    <3> QED BY <3>2, <3>3, <3>4 DEF Mask
  <2>4. ret' \in Seq(Byte)
    BY DEF Inv, TypeOK
  <2>5. Len(ret') = n /\ \A i \in 1 .. n : ret'[i] = data[Mask(trial + i - 1)]
    BY <1>3, <1>4, <2>4 DEF Slice
  <2>6. ret' = s
    BY <2>2, <2>3, <2>4, <2>5, SeqEqual
  <2> QED BY <2>6 DEF s
<1>11. buff_trylen' \in t .. Len(Queue)
  BY <1>2, <1>3, <1>5, <1>7
<1> QED BY <1>5, <1>6, <1>10, <1>11 DEF Fifo!Try, t

LEMMA RetryStep ==
    ASSUME Inv, Inv', NEW len \in 0 .. BuffLen, buff_retry(len)
    PROVE  Fifo!Retry
<1> DEFINE n == minw(len, buff_trylen)
<1>1. buff_trylen \in Nat /\ buff_dlen \in Nat /\ buff_trylen <= buff_dlen
  BY InvView DEF QueueView, Lengths
<1>2. n \in Nat /\ n <= buff_trylen
  BY <1>1, Constants DEF minw
<1>3. trial' = LWordAdd(trial, -n) /\ ret' = <<>> /\ UNCHANGED <<in, out, data>>
  BY DEF buff_retry
<1> HIDE DEF n
<1>4. buff_trylen' = buff_trylen + (-n)
  <2>1. -n \in Int /\ 0 <= buff_trylen + (-n) /\ buff_trylen + (-n) <= buff_dlen
    BY <1>1, <1>2
  <2> QED BY <1>3, <2>1, TrialMoves
<1>5. buff_trylen' \in 0 .. buff_trylen
  BY <1>1, <1>2, <1>4
<1>6. Queue' = Queue
  BY <1>3, QueueKept
<1> QED BY <1>3, <1>5, <1>6 DEF Fifo!Retry

LEMMA RewindStep ==
    ASSUME Inv, Inv', RewindTrial
    PROVE  Fifo!Retry
<1>1. QueueView /\ QueueView'
  BY InvView, InvViewNext
<1>2. trial' = out /\ ret' = <<>> /\ UNCHANGED <<in, out, data>>
  BY DEF RewindTrial
<1>3. buff_trylen' = 0
  <2>1. buff_trylen' = (trial' - out') % Wrap
    BY <1>1 DEF QueueView, LengthsAreDistances
  <2>2. (out - out) % Wrap = 0
    BY <1>1, EmptyDistance DEF QueueView, Lengths
  <2> QED BY <1>2, <2>1, <2>2
<1>4. Queue' = Queue
  BY <1>2, QueueKept
<1>5. buff_trylen' \in 0 .. buff_trylen
  BY <1>1, <1>3 DEF QueueView, Lengths
<1> QED BY <1>2, <1>4, <1>5 DEF Fifo!Retry

-----------------------------------------------------------------------------
(* Removing n bytes *)
LEMMA RemoveStep ==
    ASSUME Inv, Inv', NEW n \in 0 .. buff_dlen,
           out' = LWordAdd(out, n), UNCHANGED <<in, data>>
    PROVE  /\ Queue' = SubSeq(Queue, n + 1, Len(Queue))
           /\ buff_dlen' = buff_dlen - n
<1> DEFINE d == buff_dlen
<1>1. QueueView /\ QueueView'
  BY InvView, InvViewNext
<1>2. in \in Int /\ out \in Int /\ d \in Nat /\ d <= BuffLen - 1
  BY <1>1 DEF QueueView, Lengths
<1>3. n \in Nat /\ d - n \in Nat
  BY <1>2
<1>4. buff_dlen' = d - n
  <2>1. (in - out) % Wrap = buff_dlen /\ (in' - out') % Wrap = buff_dlen'
    BY <1>1 DEF QueueView, LengthsAreDistances
  <2>2. ((in - out) % Wrap) - n \in 0 .. Wrap - 1
    BY <1>2, <1>3, <2>1, Constants
  <2>3. n \in Int /\ Wrap \in Nat \ {0}
    BY <1>3, Constants
  <2>4. (in - ((out + n) % Wrap)) % Wrap = ((in - out) % Wrap) - n
    BY <1>2, <2>2, <2>3, ShiftBehind
  <2> QED BY <2>1, <2>4 DEF LWordAdd
<1>5. Len(Queue) = d /\ \A i \in 1 .. d : Queue[i] = data[Mask(out + i - 1)]
  BY <1>1 DEF QueueView, BytesHeld
<1>6. /\ Queue' \in Seq(Byte) /\ Len(Queue') = d - n
      /\ \A i \in 1 .. d - n : Queue'[i] = data[Mask(out' + i - 1)]
  BY <1>1, <1>4 DEF QueueView, BytesHeld, Mask
<1>7. \A i \in 1 .. d : Queue[i] \in Byte
  BY <1>1, BytesAreBytes
<1> HIDE DEF d
<1> DEFINE s == SubSeq(Queue, n + 1, d)
<1>8. s \in Seq(Byte) /\ Len(s) = d - n /\ \A i \in 1 .. d - n : s[i] = Queue[n + i]
  <2>1. n + 1 \in Int /\ d \in Int
    BY <1>2, <1>3
  <2>2. \A i \in n + 1 .. d : Queue[i] \in Byte
    BY <1>2, <1>3, <1>7
  <2>3. Len(s) = d - n
    BY <1>2, <1>3, <2>1, <2>2, SubSeqProperties
  <2>4. d - (n + 1) + 1 = d - n /\ \A i \in 1 .. d - n : (n + 1) + i - 1 = n + i
    BY <1>2, <1>3
  <2> QED BY <2>1, <2>2, <2>3, <2>4, SubSeqProperties
<1> HIDE DEF s
<1>9. \A i \in 1 .. d - n : Queue'[i] = Queue[n + i]
  <2> TAKE i \in 1 .. d - n
  <2>1. n + i \in 1 .. d /\ i \in Int /\ out + n \in Int /\ i - 1 \in Int
    BY <1>2, <1>3
  <2>2. Mask(((out + n) % Wrap) + (i - 1)) = Mask((out + n) + (i - 1))
    BY <2>1, MaskOfWrapped
  <2>3. (out + n) % Wrap \in Int
    <3>1. (out + n) % Wrap \in 0 .. Wrap - 1
      BY <2>1, Constants, DivMod
    <3> QED BY <3>1, Constants
  <2>4. out' + i - 1 = ((out + n) % Wrap) + (i - 1) /\ (out + n) + (i - 1) = out + (n + i) - 1
    BY <1>2, <1>3, <2>1, <2>3 DEF LWordAdd
  <2>5. Queue[n + i] = data[Mask(out + (n + i) - 1)]
    BY <1>5, <2>1
  <2> QED BY <1>6, <2>2, <2>4, <2>5
<1>10. Queue' = s
  BY <1>6, <1>8, <1>9, SeqEqual
<1> QED BY <1>4, <1>5, <1>10 DEF s, d

LEMMA UntriedKept ==
    ASSUME QueueView, QueueView', NEW n \in Nat, 
           buff_dlen' = buff_dlen - n, buff_untriedlen' = buff_untriedlen
    PROVE  buff_trylen' = buff_trylen - n /\ n <= buff_trylen
<1> DEFINE t == buff_trylen
           u == buff_untriedlen
           d == buff_dlen
           t1 == buff_trylen'
           d1 == buff_dlen'
<1>1. t \in Nat /\ u \in Nat /\ d = t + u
  BY DEF QueueView, Lengths
<1>2. t1 \in Nat /\ d1 = t1 + buff_untriedlen'
  BY DEF QueueView, Lengths
<1>3. d1 = t1 + u /\ d1 = d - n
  BY <1>2
<1>4. t1 \in Nat
  BY <1>2
<1> HIDE DEF t, u, d, t1, d1
<1>5. t1 = t - n /\ n <= t
  BY <1>1, <1>3, <1>4
<1> QED BY <1>5 DEF t, t1

LEMMA OutStep ==
    ASSUME Inv, Inv', NEW maxlen \in 0 .. BuffLen, buff_out(maxlen)
    PROVE  Fifo!Take
<1> DEFINE n == minw(maxlen, buff_dlen)
<1>1. QueueView /\ QueueView'
  BY InvView, InvViewNext
<1>2. /\ buff_dlen \in Nat /\ buff_trylen \in Nat /\ buff_untriedlen \in Nat
      /\ buff_dlen = buff_trylen + buff_untriedlen
  BY <1>1 DEF QueueView, Lengths
<1>3. n \in 0 .. buff_dlen /\ n \in Nat
  BY <1>2, Constants DEF minw
<1>4. /\ ret' = Slice(out, n) /\ out' = LWordAdd(out, n) /\ UNCHANGED <<in, data>>
      /\ trial' = IF buff_untriedlen > Mask(in - out') THEN out' ELSE trial
  BY DEF buff_out
<1> HIDE DEF n
<1>5. Queue' = SubSeq(Queue, n + 1, Len(Queue)) /\ buff_dlen' = buff_dlen - n
  BY <1>3, <1>4, RemoveStep
<1>6. Mask(in - out') = buff_dlen - n
  <2>1. Mask(in' - out') = buff_dlen'
    BY DEF buff_dlen, Mask
  <2> QED BY <1>4, <1>5, <2>1
<1>7. buff_trylen' = IF n < buff_trylen THEN buff_trylen - n ELSE 0
  <2>1. CASE buff_untriedlen > buff_dlen - n
    <3>1. trial' = out' /\ out' \in Int
      BY <1>1, <1>4, <1>6, <2>1 DEF QueueView, Lengths
    <3>2. buff_trylen' = (trial' - out') % Wrap
      BY <1>1 DEF QueueView, LengthsAreDistances
    <3>3. buff_trylen' = 0
      BY <3>1, <3>2, EmptyDistance
    <3> QED BY <1>2, <1>3, <2>1, <3>3
  <2>2. CASE ~(buff_untriedlen > buff_dlen - n)
    <3>1. trial' = trial
      BY <1>4, <1>6, <2>2
    <3>2. buff_untriedlen' = buff_untriedlen
      BY <1>4, <3>1 DEF buff_untriedlen, Mask
    <3>3. buff_trylen' = buff_trylen - n /\ n <= buff_trylen
      BY <1>1, <1>3, <1>5, <3>2, UntriedKept
    <3>4. CASE n < buff_trylen
      BY <3>3, <3>4
    <3>5. CASE n = buff_trylen
      BY <1>2, <3>3, <3>5
    <3> QED BY <1>2, <1>3, <3>3, <3>4, <3>5
  <2> QED BY <2>1, <2>2
<1>8. Len(Queue) = buff_dlen /\ \A i \in 1 .. buff_dlen : Queue[i] = data[Mask(out + i - 1)]
  BY <1>1 DEF QueueView, BytesHeld
<1>9. ret' = SubSeq(Queue, 1, n)
  <2> DEFINE s == SubSeq(Queue, 1, n)
  <2>1. \A i \in 1 .. n : Queue[i] \in Byte
    BY <1>1, <1>2, <1>3, BytesAreBytes
  <2>2. s \in Seq(Byte) /\ Len(s) = n /\ \A i \in 1 .. n : s[i] = Queue[i]
    BY <1>3, <2>1, SubSeqProperties
  <2> HIDE DEF s
  <2>3. ret' \in Seq(Byte)
    BY DEF Inv, TypeOK
  <2>4. Len(ret') = n /\ \A i \in 1 .. n : ret'[i] = data[Mask(out + i - 1)]
    BY <1>3, <1>4, <2>3 DEF Slice
  <2>5. \A i \in 1 .. n : ret'[i] = s[i]
    BY <1>2, <1>3, <1>8, <2>2, <2>4
  <2>6. ret' = s
    BY <2>2, <2>3, <2>4, <2>5, SeqEqual
  <2> QED BY <2>6 DEF s
<1>10. n \in 0 .. Len(Queue)
  BY <1>3, <1>8
<1> QED BY <1>5, <1>7, <1>9, <1>10 DEF Fifo!Take, Fifo!Remove

(* An acknowledgement that in_limits accepts removes bytes that are on      *)
(* trial.                                                                   *)
LEMMA AckStep ==
    ASSUME Inv, Inv', NEW rxack \in LWord, AcceptAck(rxack)
    PROVE  Fifo!Acknowledge
<1> DEFINE k == (rxack - out) % Wrap
           j == (trial - rxack) % Wrap
<1>1. QueueView /\ QueueView' /\ PointerInv
  BY InvView, InvViewNext, InvPointers
<1>2. out' = rxack /\ ret' = <<>> /\ UNCHANGED <<in, trial, data>> /\ in_limits(rxack, out, trial)
  BY DEF AcceptAck
<1>3. rxack \in Int /\ rxack \in 0 .. Wrap - 1 /\ out \in Int /\ trial \in Int
  BY <1>1, Constants DEF QueueView, Lengths, LWord
<1>4. rxack - out \in Int /\ trial - rxack \in Int
  BY <1>3
<1>5. k \in 0 .. Wrap - 1 /\ j \in 0 .. Wrap - 1
  BY <1>4, Constants, DivMod
<1>6. buff_trylen = k + j
  BY <1>1, <1>2, LimitsSplit DEF QueueView, LengthsAreDistances
<1>7. out' = LWordAdd(out, k)
  <2>1. (k + out) % Wrap = ((rxack - out) + out) % Wrap
    BY <1>3, <1>4, Constants, ModAdd
  <2>2. rxack % Wrap = rxack
    BY <1>3, Constants, ModSmall
  <2>3. k \in Int
    BY <1>5, Constants
  <2> HIDE DEF k
  <2>4. (rxack - out) + out = rxack /\ k + out = out + k
    BY <1>3, <2>3
  <2> QED BY <1>2, <2>1, <2>2, <2>4 DEF LWordAdd
<1> HIDE DEF k, j
<1>8. /\ buff_dlen \in Nat /\ buff_trylen \in Nat /\ buff_untriedlen \in Nat
      /\ buff_dlen = buff_trylen + buff_untriedlen
  BY <1>1 DEF QueueView, Lengths
<1>9. k \in 0 .. buff_trylen /\ k \in 0 .. buff_dlen
  BY <1>5, <1>6, <1>8, Constants
<1>10. Queue' = SubSeq(Queue, k + 1, Len(Queue)) /\ buff_dlen' = buff_dlen - k
  BY <1>2, <1>7, <1>9, RemoveStep
<1>11. buff_trylen' = IF k < buff_trylen THEN buff_trylen - k ELSE 0
  <2>1. buff_untriedlen' = buff_untriedlen
    BY <1>2 DEF buff_untriedlen, Mask
  <2>2. buff_trylen' = buff_trylen - k /\ k \in Nat /\ k <= buff_trylen
    <3>1. k \in Nat
      BY <1>8, <1>9
    <3> QED BY <1>1, <1>10, <2>1, <3>1, UntriedKept
  <2>3. CASE k < buff_trylen
    BY <2>2, <2>3
  <2>4. CASE k = buff_trylen
    BY <1>8, <2>2, <2>4
  <2> QED BY <1>8, <2>2, <2>3, <2>4
<1> QED BY <1>2, <1>9, <1>10, <1>11 DEF Fifo!Acknowledge, Fifo!Remove

LEMMA SetallStep ==
    ASSUME Inv, Inv', NEW start \in Starts, buff_setall(start)
    PROVE  Fifo!Empty
<1>1. QueueView'
  BY InvViewNext
<1>2. in' = out' /\ trial' = out' /\ ret' = <<>>
  BY DEF buff_setall
<1>3. (out' - out') % Wrap = 0
  BY <1>1, EmptyDistance DEF QueueView, Lengths
<1>4. buff_dlen' = 0 /\ buff_trylen' = 0
  BY <1>1, <1>2, <1>3 DEF QueueView, LengthsAreDistances
<1>5. Queue' = <<>>
  BY <1>1, <1>4, EmptySeq DEF QueueView, BytesHeld
<1> QED BY <1>2, <1>4, <1>5 DEF Fifo!Empty

-----------------------------------------------------------------------------
(* Whatever is called, on any buffer size and any pointer width, the array  *)
(* with its masks and wrapping pointers behaves as a queue with a trial     *)
(* mark: no byte is lost, repeated or put out of order.                     *)
THEOREM FifoImplemented == Spec => ImplementsFifo
<1>1. Init => Fifo!Init
  <2> SUFFICES ASSUME Init PROVE Fifo!Init
    OBVIOUS
  <2>1. QueueView
    BY InitInv, InvView
  <2>2. in = 0 /\ out = 0 /\ trial = 0 /\ ret = <<>>
    BY DEF Init
  <2>3. (0 - 0) % Wrap = 0
    BY EmptyDistance
  <2>4. buff_dlen = 0 /\ buff_trylen = 0
    BY <2>1, <2>2, <2>3 DEF QueueView, LengthsAreDistances
  <2>5. Queue = <<>>
    BY <2>1, <2>4, EmptySeq DEF QueueView, BytesHeld
  <2> QED BY <2>2, <2>4, <2>5 DEF Fifo!Init
<1>2. Inv /\ Inv' /\ [Next]_vars => [Fifo!Next]_Fifo!vars
  <2> SUFFICES ASSUME Inv, Inv', [Next]_vars PROVE [Fifo!Next]_Fifo!vars
    OBVIOUS
  <2>1. CASE UNCHANGED vars
    <3>1. UNCHANGED <<Queue, buff_trylen, ret>>
      BY <2>1 DEF vars, Queue, Slice, buff_dlen, buff_trylen, Mask
    <3> QED BY <3>1 DEF Fifo!vars
  <2>2. CASE Next
    <3>1. Fifo!Next
      BY <2>2, SetallStep, InStep, InfileStep, TryStep, OutStep, RetryStep, AckStep, RewindStep
      DEF Next, Fifo!Next
    <3> QED BY <3>1
  <2> QED BY <2>1, <2>2
<1>3. Spec => []Inv
  BY InitInv, NextInv, PTL DEF Spec
<1> QED BY <1>1, <1>2, <1>3, PTL DEF Spec, ImplementsFifo, Fifo!Spec

-----------------------------------------------------------------------------
(* The first element that memchr meets in a block *)
LEMMA LeastOf ==
    ASSUME NEW S, S \subseteq Nat, S # {}
    PROVE  LET m == CHOOSE i \in S : \A j \in S : i <= j IN m \in S /\ \A j \in S : m <= j
<1>1. PICK x \in S : \A y \in S : ~(<<y, x>> \in OpToRel(<, Nat))
  BY NatLessThanWellFounded, WFMin
<1>2. ASSUME NEW y \in S PROVE x <= y
  <2>1. x \in Nat /\ y \in Nat
    OBVIOUS
  <2>2. <<y, x>> \in OpToRel(<, Nat) <=> y < x
    BY <2>1 DEF OpToRel
  <2>3. ~(<<y, x>> \in OpToRel(<, Nat))
    BY <1>1
  <2>4. ~(y < x)
    BY <2>2, <2>3
  <2> QED BY <2>1, <2>4
<1> QED BY <1>2

(* Where the bytes held lie, seen from the start of the array *)
LEMMA PlaceFromStart ==
    ASSUME QueueView, NEW k \in 0 .. buff_dlen - 1
    PROVE  /\ Mask(out) + k < BuffLen => Mask(out + k) = Mask(out) + k
           /\ Mask(out) + k >= BuffLen => Mask(out + k) = Mask(out) + k - BuffLen
<1> DEFINE o == Mask(out)
<1>1. out \in Int /\ buff_dlen \in Nat /\ buff_dlen <= BuffLen - 1
  BY DEF QueueView, Lengths
<1>2. o \in Nat /\ o <= BuffLen - 1
  BY <1>1, MaskStaysIndex, Constants DEF Index
<1>3. k \in Nat /\ k < BuffLen
  BY <1>1, Constants
<1>4. (o + k) % BuffLen = Mask(out + k)
  <2>1. out \in Int /\ k \in Int
    BY <1>1, <1>3
  <2> QED BY <2>1, Constants, ModAdd DEF Mask
<1> HIDE DEF o
<1>5. CASE o + k < BuffLen
  <2>1. o + k \in 0 .. BuffLen - 1
    BY <1>2, <1>3, <1>5, Constants
  <2>2. (o + k) % BuffLen = o + k
    BY <2>1, Constants, ModSmall
  <2> QED BY <1>2, <1>3, <1>4, <1>5, <2>2, Constants DEF o
<1>6. CASE o + k >= BuffLen
  <2> DEFINE r == o + k - BuffLen
  <2>1. r \in 0 .. BuffLen - 1
    BY <1>2, <1>3, <1>6, Constants
  <2>2. o + k = BuffLen * 1 + r
    BY <1>2, <1>3, Constants
  <2> HIDE DEF r
  <2>3. (BuffLen * 1 + r) % BuffLen = r
    BY <2>1, Constants, ModUnique
  <2> QED BY <1>2, <1>3, <1>4, <1>6, <2>2, <2>3, Constants DEF o, r
<1> QED BY <1>2, <1>3, <1>5, <1>6, Constants

LEMMA SearchFindsFirst ==
    ASSUME QueueView, NEW c \in Byte
    PROVE  LET n == buff_chrlen(c) IN
           /\ \A i \in 1 .. n : Queue[i] # c
           /\ n > 0 => n < Len(Queue) /\ Queue[n + 1] = c
           /\ n = 0 => Queue = <<>> \/ Queue[1] = c \/ \A i \in 1 .. Len(Queue) : Queue[i] # c
<1> DEFINE o == Mask(out)
           d == buff_dlen
           n1 == minw(d, BuffLen - o)
           n2 == d - n1
           block1 == {i \in 0 .. n1 - 1 : data[o + i] = c}
           block2 == {i \in 0 .. n2 - 1 : data[i] = c}
           First(S) == CHOOSE i \in S : \A j \in S : i <= j
           n == buff_chrlen(c)
<1>1. out \in Int /\ d \in Nat /\ d <= BuffLen - 1
  BY DEF QueueView, Lengths
<1>2. o \in Nat /\ o <= BuffLen - 1
  BY <1>1, MaskStaysIndex, Constants DEF Index
<1>3. Len(Queue) = d /\ \A i \in 1 .. d : Queue[i] = data[Mask(out + i - 1)]
  BY DEF QueueView, BytesHeld
<1>4. n = IF block1 # {} THEN First(block1) 
          ELSE IF block2 # {} THEN n1 + First(block2) ELSE 0
  BY DEF buff_chrlen
<1>5. \A k \in 0 .. d - 1 : /\ o + k < BuffLen => Mask(out + k) = o + k
                            /\ o + k >= BuffLen => Mask(out + k) = o + k - BuffLen
  BY PlaceFromStart
<1> HIDE DEF o, d, n
<1>6. n1 \in Nat /\ n2 \in Nat /\ n1 <= d /\ n1 + n2 = d /\ o + n1 <= BuffLen
      /\ (n2 > 0 => o + n1 = BuffLen)
  BY <1>1, <1>2, Constants DEF minw
<1> HIDE DEF n1, n2
<1>7. \A k \in 0 .. d - 1 : Queue[k + 1] = IF k < n1 THEN data[o + k] ELSE data[k - n1]
  <2> TAKE k \in 0 .. d - 1
  <2>1. Queue[k + 1] = data[Mask(out + k)]
    <3>1. k + 1 \in 1 .. d /\ out + (k + 1) - 1 = out + k
      BY <1>1
    <3> QED BY <1>3, <3>1
  <2>2. CASE k < n1
    <3>1. Mask(out + k) = o + k
      BY <1>2, <1>5, <1>6, <2>2, Constants
    <3> QED BY <2>1, <2>2, <3>1
  <2>3. CASE k >= n1
    <3>1. o + k - BuffLen = k - n1 /\ o + k >= BuffLen
      BY <1>1, <1>2, <1>6, <2>3, Constants
    <3>2. Mask(out + k) = k - n1
      BY <1>5, <3>1
    <3> QED BY <1>6, <2>1, <2>3, <3>2
  <2> QED BY <1>6, <2>2, <2>3
<1>8. block1 \subseteq Nat /\ block2 \subseteq Nat
  OBVIOUS
<1>9. \A k \in 0 .. d - 1 : Queue[k + 1] = c <=> (k \in block1 \/ k - n1 \in block2)
  <2> TAKE k \in 0 .. d - 1
  <2>1. CASE k < n1
    <3>1. Queue[k + 1] = data[o + k] /\ k \in 0 .. n1 - 1 /\ k - n1 \notin 0 .. n2 - 1
      BY <1>6, <1>7, <2>1
    <3> QED BY <3>1
  <2>2. CASE k >= n1
    <3>1. Queue[k + 1] = data[k - n1] /\ k \notin 0 .. n1 - 1 /\ k - n1 \in 0 .. n2 - 1
      BY <1>1, <1>6, <1>7, <2>2
    <3> QED BY <3>1
  <2> QED BY <1>6, <2>1, <2>2
<1>10. \A k \in block1 : k \in 0 .. n1 - 1
  OBVIOUS
<1>11. \A k \in block2 : k \in 0 .. n2 - 1
  OBVIOUS
<1> HIDE DEF block1, block2
(* Either the first match is at offset n, or there is none. *)
<1>12. \/ n \in 0 .. d - 1 /\ Queue[n + 1] = c /\ \A k \in 0 .. d - 1 : k < n => Queue[k + 1] # c
       \/ n = 0 /\ \A k \in 0 .. d - 1 : Queue[k + 1] # c
  <2>1. CASE block1 # {}
    <3> DEFINE f == First(block1)
    <3>1. f \in block1 /\ \A j \in block1 : f <= j
      BY <1>8, <2>1, LeastOf
    <3>2. n = f
      BY <1>4, <2>1
    <3> HIDE DEF f
    <3>3. n \in 0 .. d - 1 /\ Queue[n + 1] = c
      BY <1>1, <1>6, <1>9, <1>10, <3>1, <3>2
    <3>4. ASSUME NEW k \in 0 .. d - 1, k < n PROVE Queue[k + 1] # c
      <4>1. k \notin block1
        BY <1>8, <3>1, <3>2, <3>4
      <4>2. k - n1 \notin block2
        BY <1>6, <1>10, <1>11, <3>1, <3>2, <3>4
      <4> QED BY <1>9, <4>1, <4>2
    <3> QED BY <3>3, <3>4
  <2>2. CASE block1 = {} /\ block2 # {}
    <3> DEFINE f == First(block2)
    <3>1. f \in block2 /\ \A j \in block2 : f <= j
      BY <1>8, <2>2, LeastOf
    <3>2. n = n1 + f
      BY <1>4, <2>2
    <3> HIDE DEF f
    <3>3. f \in 0 .. n2 - 1 /\ n - n1 = f
      BY <1>6, <1>11, <3>1, <3>2
    <3>4. n \in 0 .. d - 1 /\ Queue[n + 1] = c
      BY <1>1, <1>6, <1>9, <3>1, <3>2, <3>3
    <3>5. ASSUME NEW k \in 0 .. d - 1, k < n PROVE Queue[k + 1] # c
      <4>1. k - n1 < f
        BY <1>6, <3>2, <3>3, <3>5
      <4>2. k - n1 \notin block2
        <5> SUFFICES ASSUME k - n1 \in block2 PROVE FALSE
          OBVIOUS
        <5>1. f <= k - n1
          BY <3>1
        <5> QED BY <1>6, <3>3, <4>1, <5>1
      <4> QED BY <1>9, <2>2, <4>2
    <3> QED BY <3>4, <3>5
  <2>3. CASE block1 = {} /\ block2 = {}
    BY <1>4, <1>9, <2>3
  <2> QED BY <2>1, <2>2, <2>3
<1>13. \A i \in 1 .. d : i - 1 \in 0 .. d - 1 /\ (i - 1) + 1 = i
  BY <1>1
<1>14. CASE n \in 0 .. d - 1 /\ Queue[n + 1] = c /\ \A k \in 0 .. d - 1 : k < n => Queue[k + 1] # c
  <2>1. ASSUME NEW i \in 1 .. n PROVE Queue[i] # c
    <3>1. i - 1 \in 0 .. d - 1 /\ i - 1 < n /\ (i - 1) + 1 = i
      BY <1>1, <1>14
    <3> QED BY <1>14, <3>1
  <2>2. n = 0 => n + 1 = 1
    OBVIOUS
  <2> QED BY <1>1, <1>3, <1>14, <2>1, <2>2 DEF n
<1>15. CASE n = 0 /\ \A k \in 0 .. d - 1 : Queue[k + 1] # c
  <2>1. \A i \in 1 .. d : Queue[i] # c
    BY <1>13, <1>15
  <2> QED BY <1>3, <1>15, <2>1 DEF n
<1> QED BY <1>12, <1>14, <1>15

(* buff_chrlen, which searches up to the end of the array and then from its *)
(* start, returns the length of the text before the first match, wherever   *)
(* the bytes lie.                                                           *)
THEOREM ChrlenFinds == Spec => []ChrlenFindsFirst
<1>1. Inv => ChrlenFindsFirst
  BY InvView, SearchFindsFirst DEF ChrlenFindsFirst
<1> QED BY <1>1, InitInv, NextInv, PTL DEF Spec
=============================================================================
