------------------------------ MODULE ByteFifo ------------------------------
(***************************************************************************)
(* What the circular buffer of NETUTIL.C promises to its callers: a queue  *)
(* of bytes of which a prefix is on trial (sent, but not yet               *)
(* acknowledged).  Bytes leave in the order in which they came, a trial    *)
(* reads them without removing them, and a trial can be taken back.        *)
(***************************************************************************)
EXTENDS Integers, Sequences

CONSTANT Capacity          (* the most bytes the queue ever holds          *)

VARIABLES
  queue,                   (* the bytes held, oldest first                 *)
  tried,                   (* how many of them are on trial                *)
  ret                      (* the bytes the last operation gave its caller *)

vars == <<queue, tried, ret>>

Empty == queue' = <<>> /\ tried' = 0 /\ ret' = <<>>

Load == 
  /\ Len(queue') \in Len(queue) .. Capacity
  /\ SubSeq(queue', 1, Len(queue)) = queue
  /\ ret' = <<>>
  /\ UNCHANGED tried

Try == 
  /\ tried' \in tried .. Len(queue)
  /\ ret' = SubSeq(queue, tried + 1, tried')
  /\ UNCHANGED queue

Retry == 
  /\ tried' \in 0 .. tried
  /\ ret' = <<>>
  /\ UNCHANGED queue

(* n bytes leave the front of the queue, on trial or not.                  *)
Remove(n) ==
  /\ queue' = SubSeq(queue, n + 1, Len(queue))
  /\ tried' = IF n < tried THEN tried - n ELSE 0

Take == \E n \in 0 .. Len(queue) : Remove(n) /\ ret' = SubSeq(queue, 1, n)

(* Only bytes on trial can be acknowledged.                                *)
Acknowledge == \E n \in 0 .. tried : Remove(n) /\ ret' = <<>>

Init == queue = <<>> /\ tried = 0 /\ ret = <<>>
Next == Empty \/ Load \/ Try \/ Retry \/ Take \/ Acknowledge
Spec == Init /\ [][Next]_vars
=============================================================================
