------------------------------- MODULE Filters ------------------------------
(* The part of a sequence that belongs to a set, and sequences put together: *)
(* what SelectSeq() and FlattenSeq() compute, in a form that can be reasoned *)
(* about (SelectSeq takes an operator, and the prover knows nothing of it).  *)
EXTENDS Integers, Sequences

(* The members of s that are in T, in their order. *)
Only(s, T) ==
  LET kept[n \in 0..Len(s)] ==
        IF n = 0 THEN <<>>
        ELSE IF s[n] \in T THEN Append(kept[n - 1], s[n])
        ELSE kept[n - 1]
  IN  kept[Len(s)]

(* The sequences in ss, one after the other. *)
Joined(ss) ==
  LET joined[n \in 0..Len(ss)] ==
        IF n = 0 THEN <<>> ELSE joined[n - 1] \o ss[n]
  IN  joined[Len(ss)]
=============================================================================
