----------------------------- MODULE MCScratchp -----------------------------
(***************************************************************************)
(* Four plans for the scratch protocol: both users open, perhaps at once;  *)
(* one opens again while packets of the first connection are about; one    *)
(* writes more than the window holds, and more packets are lost than are   *)
(* sent again; and four packets may be under way, so that a START that was *)
(* sent again can reach the answering node after it has ended, and begin a *)
(* second stream there with the numbers of the first.                      *)
(***************************************************************************)
EXTENDS Scratchp

Writes(x, y) == [n \in Nodes |-> IF n = "a" THEN x ELSE y]

BothOpen == [write |-> Writes(1, 0), openers |-> {"a", "b"}, opens |-> 2, losses |-> 1, cap |-> 2]
Reopened == [write |-> Writes(2, 1), openers |-> {"a"}, opens |-> 2, losses |-> 1, cap |-> 2]
LongText == [write |-> Writes(3, 0), openers |-> {"a"}, opens |-> 1, losses |-> 2, cap |-> 2]

StaleStart == [write |-> Writes(0, 2), openers |-> {"a"}, opens |-> 1, losses |-> 1, cap |-> 4]

AllPlans == {BothOpen, Reopened, LongText, StaleStart}
=============================================================================
