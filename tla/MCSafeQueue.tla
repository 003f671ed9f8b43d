---------------------------- MODULE MCSafeQueue -----------------------------
(* Two producers, two consumers, two kinds of item, at most two queued: a    *)
(* consumer can find the item it was woken for taken by the other one.  No   *)
(* symmetry: a temporal property is checked.                                 *)
EXTENDS SafeQueue

CONSTANTS p1, p2, c1, c2, x1, x2

MCProducers == {p1, p2}
MCConsumers == {c1, c2}
MCItems == {x1, x2}
=============================================================================
