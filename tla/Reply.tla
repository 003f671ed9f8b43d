------------------------------- MODULE Reply --------------------------------
(* Reply.cpp: decode() tests the size of some kinds of reply, then takes the *)
(* fields one after the other through a moving pointer.  Whether the size it *)
(* tests for is that of the fields it takes is up to two lists of numbers    *)
(* that are kept by hand.                                                    *)
(*                                                                           *)
(* A reply is its size and its first three bytes (those it has), since only  *)
(* these decide what is read; the JSON text is left out.                     *)
EXTENDS Integers

reply(size, b0, b1, b2) == [size |-> size, bytes |-> <<b0, b1, b2>>]

(* How far each helper moves the pointer. *)
getUint8 == 1
getUint16 == 2
getUint32 == 4
getPanId == 2
getAddr == 8
getExludedMask == 17

(* How far the fields of each diagnostic reply move it, after the first two  *)
(* bytes.                                                                    *)
Fields(id, count) ==
  CASE id = 1 -> getUint32 + getUint32 + getUint16 + getUint16
                 + getPanId + getPanId + getAddr + getAddr
    [] id = 2 -> 14 * getUint32
    [] id = 3 -> getUint32 + 10 * (getUint16 + getUint16)
    [] id = 4 -> getUint32 + getUint32 + getUint16 + getUint16 + getUint16
                 + getAddr + getAddr
    [] id = 5 -> getUint8 + getUint32 + 4 * getUint8 + getUint32 + getUint16
                 + 4 * getUint8 + getUint32 + getUint16 + getUint16 + getUint16
                 + getExludedMask
    [] id \in {6, 7} -> getUint8 + count * (getUint16 + getUint16)
    [] id = 8 -> getUint8 + 3 * getUint32 + getUint8 + getUint8
                 + getUint32 + getUint16 + getPanId + getUint16
    [] id = 9 -> 4 * getUint32 + getUint16 + getUint8 + 6 * getUint32
    [] id = 10 -> 8 * getUint32

(* The size of a diagnostic reply is tested before anything else of it.      *)
SizeFits(r) ==
  LET id == r.bytes[2]
  IN  CASE id = 1 -> r.size = 34
        [] id = 2 -> r.size = 58
        [] id = 3 -> r.size = 46
        [] id = 4 -> r.size = 32
        [] id = 5 -> r.size = 48
        [] id \in {6, 7} -> r.size >= 3 /\ r.size = 3 + 4 * r.bytes[3]
        [] id = 8 -> r.size = 59
        [] id = 9 -> r.size = 45
        [] id = 10 -> r.size = 34

\* A mutant: `validated` is forgotten.
NeighborUnvalidated == getUint8 + getUint32 + getAddr

Neighbor == getUint8 + getUint8 + getUint32 + getAddr

Result(text, reads) == [text |-> text, reads |-> reads]

(* What decode() prints, and how many bytes from the start it looks at.  An  *)
(* error message contains the whole reply; "log" is what goes to the error   *)
(* stream of the program instead of to the client.                           *)
decodeDiag(r) ==
  IF r.bytes[2] \notin 1..10 THEN Result("raw", r.size)
  ELSE IF SizeFits(r) THEN Result("json", 2 + Fields(r.bytes[2], r.bytes[3]))
  ELSE Result("error", r.size)

decodeNeighbors(r) ==
  IF r.size = 2 + 14 * r.bytes[2]
  THEN Result("json", 2 + r.bytes[2] * Neighbor)
  ELSE Result("error", r.size)

decode(r) ==
  IF r.size = 0 THEN Result("nothing", 0)
  ELSE CASE r.bytes[1] = 32 -> Result("json", 4)
         [] r.bytes[1] = 33 -> decodeDiag(r)
         [] r.bytes[1] = 35 -> decodeNeighbors(r)
         [] r.bytes[1] = 36 -> IF r.size = 9 THEN Result("json", 1 + getAddr)
                               ELSE Result("error", r.size)
         [] r.bytes[1] \in {34, 237} -> Result("json", r.size)
         [] r.bytes[1] = 208 -> Result("log", r.size)
         [] OTHER -> Result("raw", r.size)

-----------------------------------------------------------------------------
(* The replies decode() is safe for: those that have the bytes it looks at   *)
(* before any test of the size (the mode and two counts of a state, the      *)
(* number of a diagnosis, the count of neighbors).                           *)
LongEnough(r) ==
  r.size >= CASE r.bytes[1] = 32 -> 4 [] r.bytes[1] \in {33, 35} -> 2 [] OTHER -> 0

(* As many replies as decode() can tell apart, but for very long ones.       *)
KindsOf(type, seconds, thirds) ==
  [size : 0..64, bytes : {type} \X seconds \X thirds]

Kinds == KindsOf(33, 0..11 \ {6, 7}, {0}) \cup KindsOf(33, {6, 7}, 0..16)
         \cup KindsOf(35, 0..5, {0})
         \cup UNION {KindsOf(type, {0}, {0}) : type \in {0, 32, 34, 36, 208, 237}}

(* Nothing is read behind the end of a reply, and a reply that is printed as *)
(* a complete list of fields is read to its end; only of `diag 08` some      *)
(* bytes are left (Reply.cpp:322-324).                                       *)
ReadToItsEnd(r) ==
  LET d == decode(r)
  IN  /\ d.reads <= r.size
      /\ d.text = "json" /\ r.bytes[1] \in {33, 35, 36} /\ r.bytes[2] # 8
           => d.reads = r.size

EveryReplyReadToItsEnd == \A r \in Kinds : LongEnough(r) => ReadToItsEnd(r)
=============================================================================
