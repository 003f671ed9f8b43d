---------------------------- MODULE MCSinkDevice ----------------------------
(* SinkDevice with a bound on what the other devices queue. *)
EXTENDS SinkDevice

CONSTANT MaxPending   \* nothing but the sentinel is queued beyond it

ASSUME PendingAssumption == MaxPending \in Nat

BoundedNext ==
  \/ Owner
  \/ Thread
  \/ \E x \in Messages : Len(inQ) < MaxPending /\ Push(x)

BoundedFairSpec == Init /\ [][BoundedNext]_vars /\ Fairness
=============================================================================
