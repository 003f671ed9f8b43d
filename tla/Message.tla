------------------------------ MODULE Message -------------------------------
(* Message.h, Message.cpp: a Message is a vector of bytes with the address   *)
(* of the device it came from.  The routing looks at the first byte only, so *)
(* a message here is its source, the class of its first byte and, in place    *)
(* of the other bytes, the numbers of the commands, frames or packets that   *)
(* it is made of.                                                            *)
EXTENDS Integers, Sequences

Devices == {"con", "ser", "tun", "cap", "rtr"}

Null == "nullptr"

(* The first byte: 0x00, 0x31, 0xED, any other one, or none at all.  Of a    *)
(* message that begins with 0x31 the capture device tests the size too: it   *)
(* is "x31short" if it has five bytes or fewer.                              *)
Fronts == {"x00", "x31", "x31short", "xED", "other", "none"}

Message == [source : Devices \cup {Null}, front : Fronts, body : Seq(Nat)]

(* Message{nullptr, 0}, what releaseHold() queues. *)
Empty == [source |-> Null, front |-> "none", body |-> <<>>]

NonEmpty(m) == m.front # "none"

\* A mutant: the assignment hits the wrong member.
setSourceSwapped(m, src) == [m EXCEPT !.front = src]

setSource(m, src) == [m EXCEPT !.source = src]

isRaw(m) == m.front = "x00"
isCap(m) == m.front \in {"x31", "x31short"}
isControl(m) == m.front = "xED"

(* size() <= 5, where it is looked at. *)
isShort(m) == m.front = "x31short"

isPlain(m) == ~(isRaw(m) \/ isCap(m) \/ isControl(m))
=============================================================================
