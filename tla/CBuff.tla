------------------------------- MODULE CBuff --------------------------------
(***************************************************************************)
(* The circular buffer of NETUTIL.C (type CBUFF), which holds the receive  *)
(* and transmit data of every TCP socket and of the SCRATCHP protocol, and *)
(* the packet queues of NET.C.                                             *)
(*                                                                         *)
(* The buffer has three free-running 32-bit pointers, in, out and trial,   *)
(* that are masked to the buffer size when the data is accessed; TCP uses  *)
(* their values directly as sequence numbers, so they start anywhere and   *)
(* wrap.  The pointers are modelled modulo Wrap = 2 * Half (2^32 in the    *)
(* code) and "& (len - 1)" as a remainder, which it is because the size    *)
(* is a power of two; the mask of a 32-bit difference is the remainder of  *)
(* the difference because the size divides Wrap.                           *)
(***************************************************************************)
EXTENDS Integers, Sequences

CONSTANTS
  Byte, Zero,              (* byte values; the one static storage holds    *)
  BuffLen,                 (* bytes in the data array: bp->len             *)
  Half,                    (* half of the range of an LWORD                *)
  Starts,                  (* start values given to buff_setall            *)
  Chunks                   (* what callers offer to buff_in and buff_infile*)

Wrap == 2 * Half

ASSUME CBuffAssumption ==
  /\ BuffLen \in Nat \ {0, 1}
  /\ Half \in Nat \ {0}
  /\ Half % BuffLen = 0
  /\ Zero \in Byte
  /\ Starts \subseteq 0 .. Wrap - 1
  /\ Chunks \subseteq Seq(Byte)

VARIABLES
  in, out, trial,          (* the three pointers, 0 .. Wrap - 1            *)
  data,                    (* the array, 0 .. BuffLen - 1                  *)
  ret                      (* bytes given to the caller of the last call   *)

vars == <<in, out, trial, data, ret>>

Index == 0 .. BuffLen - 1
LWord == 0 .. Wrap - 1
Mask(p) == p % BuffLen
(* Mutant: pointer arithmetic that does not wrap.                          *)
LWordAdd_NoWrap(p, n) == p + n
LWordAdd(p, n) == (p + n) % Wrap
minw(a, b) == IF a < b THEN a ELSE b

-----------------------------------------------------------------------------
(* Lengths, and the comparison of sequence values.                         *)

buff_dlen == Mask(in - out)
buff_untriedlen == Mask(in - trial)
buff_trylen == Mask(trial - out)
(* Mutant: the byte that tells full from empty is used for data.           *)
buff_freelen_All == BuffLen - buff_dlen
buff_freelen == BuffLen - 1 - buff_dlen

(* A difference of LWORDs, read as a signed long, is not negative.         *)
NotNegative(d) == d % Wrap < Half
(* Mutant: the lower limit is excluded.                                    *)
in_limits_Open(val, lo, hi) == NotNegative(val - lo - 1) /\ NotNegative(hi - val)
in_limits(val, lo, hi) == NotNegative(val - lo) /\ NotNegative(hi - val)

(* The n bytes of the array from pointer p on.                             *)
Slice(p, n) == [i \in 1 .. n |-> data[Mask(p + i - 1)]]

(* The array with the first n bytes of d stored from pointer p on.         *)
Store(p, d, n) ==
  [i \in Index |-> IF Mask(i - p) < n THEN d[Mask(i - p) + 1] ELSE data[i]]

-----------------------------------------------------------------------------
buff_setall(start) ==
  /\ in' = start /\ out' = start /\ trial' = start
  /\ ret' = <<>>
  /\ UNCHANGED data

buff_in(d) ==
  LET n == minw(Len(d), buff_freelen) IN
  /\ data' = Store(in, d, n)
  /\ in' = LWordAdd(in, n)
  /\ ret' = <<>>
  /\ UNCHANGED <<out, trial>>

(* f is what is left of the file, len the room the caller allows.  The two *)
(* reads (up to the end of the array, then from its start) each stop at    *)
(* the end of the file.                                                    *)
buff_infile(f, len) ==
  LET n == minw(len, buff_freelen)
      n1 == minw(n, BuffLen - Mask(in))
      n2 == IF len < n1 THEN 0 ELSE n - n1
      count1 == minw(n1, Len(f))
      count2 == minw(n2, Len(f) - count1)
  IN
  /\ data' = [i \in Index |->
                IF i < count2 THEN f[count1 + i + 1]
                ELSE IF i - Mask(in) \in 0 .. count1 - 1
                     THEN f[i - Mask(in) + 1]
                     ELSE data[i]]
  /\ in' = LWordAdd(in, count1 + count2)
  /\ ret' = <<>>
  /\ UNCHANGED <<out, trial>>

buff_try(maxlen) ==
  LET n == minw(maxlen, buff_untriedlen) IN
  /\ ret' = Slice(trial, n)
  /\ trial' = LWordAdd(trial, n)
  /\ UNCHANGED <<in, out, data>>

(* Mutant: the output pointer overtakes the trial pointer.                 *)
buff_out_Overtake(maxlen) ==
  LET n == minw(maxlen, buff_dlen) IN
  /\ ret' = Slice(out, n)
  /\ out' = LWordAdd(out, n)
  /\ UNCHANGED <<in, trial, data>>

(* The trial pointer follows when the output pointer overtakes it.         *)
buff_out(maxlen) ==
  LET n == minw(maxlen, buff_dlen) 
      newout == LWordAdd(out, n)
  IN
  /\ ret' = Slice(out, n)
  /\ out' = newout
  /\ trial' = IF buff_untriedlen > Mask(in - newout) THEN newout ELSE trial
  /\ UNCHANGED <<in, data>>

buff_retry(len) ==
  /\ trial' = LWordAdd(trial, - minw(len, buff_trylen))
  /\ ret' = <<>>
  /\ UNCHANGED <<in, out, data>>

(* tsock_rx: an acknowledgement is taken only within the trial data.       *)
AcceptAck(rxack) ==
  /\ in_limits(rxack, out, trial)
  /\ out' = rxack
  /\ ret' = <<>>
  /\ UNCHANGED <<in, trial, data>>

(* remake_tsock: after a timeout all unacknowledged data is sent again.    *)
RewindTrial ==
  /\ trial' = out
  /\ ret' = <<>>
  /\ UNCHANGED <<in, out, data>>

(* Mutant: a match in the second block is not offset by the first.         *)
buff_chrlen_Second(c) ==
  LET n1 == minw(buff_dlen, BuffLen - Mask(out))
      block1 == {i \in 0 .. n1 - 1 : data[Mask(out) + i] = c}
      block2 == {i \in 0 .. buff_dlen - n1 - 1 : data[i] = c}
      First(S) == CHOOSE i \in S : \A j \in S : i <= j
  IN IF block1 # {} THEN First(block1)
     ELSE IF block2 # {} THEN First(block2)
     ELSE 0

(* The offset of the first c, 0 if there is none; the array is searched in *)
(* two blocks, like memchr on each.                                        *)
buff_chrlen(c) ==
  LET n1 == minw(buff_dlen, BuffLen - Mask(out))
      n2 == buff_dlen - n1
      block1 == {i \in 0 .. n1 - 1 : data[Mask(out) + i] = c}
      block2 == {i \in 0 .. n2 - 1 : data[i] = c}
      First(S) == CHOOSE i \in S : \A j \in S : i <= j
  IN IF block1 # {} THEN First(block1)
     ELSE IF block2 # {} THEN n1 + First(block2)
     ELSE 0

-----------------------------------------------------------------------------
Init ==
  /\ in = 0 /\ out = 0 /\ trial = 0
  /\ data = [i \in Index |-> Zero]
  /\ ret = <<>>

Next ==
  \/ \E start \in Starts : buff_setall(start)
  \/ \E d \in Chunks : buff_in(d)
  \/ \E f \in Chunks, len \in 0 .. BuffLen : buff_infile(f, len)
  \/ \E maxlen \in 0 .. BuffLen : buff_try(maxlen)
  \/ \E maxlen \in 0 .. BuffLen : buff_out(maxlen)
  \/ \E len \in 0 .. BuffLen : buff_retry(len)
  \/ \E rxack \in LWord : AcceptAck(rxack)
  \/ RewindTrial

Spec == Init /\ [][Next]_vars

-----------------------------------------------------------------------------
TypeOK ==
  /\ in \in LWord /\ out \in LWord /\ trial \in LWord
  /\ data \in [Index -> Byte]
  /\ ret \in Seq(Byte)

(* The raw pointers never pass each other: going round the 32-bit range    *)
(* from out, trial is met no later than in, and all three lie within one   *)
(* buffer length.  TCP sends the raw values as sequence numbers and every  *)
(* masked length relies on it, while each pointer is moved by a different  *)
(* party (in by the application, trial by the sender, out by the peer).    *)
PointerOrder == 
  ((trial - out) % Wrap) + ((in - trial) % Wrap) <= BuffLen - 1

(* in_limits with 32-bit wrap accepts exactly the values from out to trial *)
(* (the acknowledgements of data sent and not yet acknowledged).           *)
AckWindow == 
  \A v \in LWord : in_limits(v, out, trial) <=> (v - out) % Wrap <= buff_trylen

(* buff_chrlen, which searches the array in two blocks, returns the length *)
(* of the text before the first c (0 also when there is none).             *)
Queue == Slice(out, buff_dlen)
ChrlenFindsFirst ==
  \A c \in Byte : 
    LET n == buff_chrlen(c) IN
    /\ \A i \in 1 .. n : Queue[i] # c
    /\ n > 0 => n < Len(Queue) /\ Queue[n + 1] = c
    /\ n = 0 => Queue = <<>> \/ Queue[1] = c \/ \A i \in 1 .. Len(Queue) : Queue[i] # c

(* The array, its masks and its wrapping pointers behave as a queue with a *)
(* trial mark: no operation loses, repeats or reorders a byte.             *)
Fifo == INSTANCE ByteFifo WITH 
          Capacity <- BuffLen - 1, queue <- Queue, tried <- buff_trylen, ret <- ret
ImplementsFifo == Fifo!Spec
=============================================================================
