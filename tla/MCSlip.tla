------------------------------- MODULE MCSlip -------------------------------
(* Three frames: each of the special bytes alone, each of the pairs that an  *)
(* escape could be confused with, and an ordinary byte.                      *)
EXTENDS Slip

MCPlain == {"a"}

MCPayloads ==
  {<<b>> : b \in Bytes}
  \cup {<<ESC, ESC_END>>, <<ESC, ESC_ESC>>, <<END, ESC>>, <<ESC_END, "a">>}
=============================================================================
