------------------------------- MODULE Pcapng -------------------------------
(* pcapng.h, pcapng.cpp: the blocks of a capture file.  Each begins with its *)
(* type and its length and ends with the length again, so that a file can be *)
(* read in both directions; a packet is padded to a multiple of four bytes.  *)
(*                                                                           *)
(* A file is a sequence of bytes.  The value of a 32-bit field stands in the *)
(* place of its first byte; fields nobody looks at are fillers, and so are   *)
(* timestamps.                                                               *)
EXTENDS Integers, Sequences, Filters

Filler == -1
Fill(n) == [i \in 1..n |-> Filler]
uint32(v) == <<v>> \o Fill(3)

SHBType == 168627466
IDBType == 1
EPBType == 6

(* sizeof SHB, IDB and EPB, and of the length repeated at the end.           *)
SHBSize == 24
IDBSize == 16
EPBSize == 28
LenSize == 4

(* A block around its other fields and its data. *)
Block(type, len, rest) == uint32(type) \o uint32(len) \o rest \o uint32(len)

SHB == Block(SHBType, SHBSize + LenSize, Fill(SHBSize - 8))
IDB == Block(IDBType, IDBSize + LenSize, Fill(IDBSize - 8))

padsize(pktlen) == IF pktlen % 4 # 0 THEN 4 - (pktlen % 4) ELSE 0

EPBLen(pktlen) == EPBSize + LenSize + pktlen + padsize(pktlen)

(* The interface, the time and the two lengths, the packet and its padding.  *)
Contents(pkt) ==
  Fill(12) \o uint32(Len(pkt)) \o uint32(Len(pkt)) \o pkt \o Fill(padsize(Len(pkt)))

(* EPB::write() *)
EPB(pkt) == Block(EPBType, EPBLen(Len(pkt)), Contents(pkt))

createHeader == SHB \o IDB

\* A mutant: five bytes are taken from the end, and the first is kept.
FrameOffByOne(m) == SubSeq(m, 1, Len(m) - 5)

(* CaptureDevice strips the first byte and the check sequence of a message.  *)
Frame(m) == SubSeq(m, 2, Len(m) - 4)

WrittenFor(m) == IF Len(m) > 5 THEN EPB(Frame(m)) ELSE <<>>

CaptureFileOf(messages) ==
  createHeader \o Joined([i \in DOMAIN messages |-> WrittenFor(messages[i])])

-----------------------------------------------------------------------------
(* A reader that follows the format's own rules, block by block; -1 is where *)
(* it finds the file broken.                                                 *)
LengthAt(file, o) == IF o + 4 <= Len(file) THEN file[o + 4] ELSE 0

WellFormedAt(file, o) ==
  LET len == LengthAt(file, o)
  IN  /\ len >= 12 /\ len % 4 = 0
      /\ o + len - 1 <= Len(file)
      /\ file[o + len - 4] = len

PacketsOf(file) ==
  LET packetsAt[o \in 1..(Len(file) + 1)] ==
        IF o = Len(file) + 1 THEN <<>>
        ELSE IF ~WellFormedAt(file, o) THEN << <<-1>> >>
        ELSE (IF file[o] # EPBType THEN <<>>
              ELSE << SubSeq(file, o + EPBSize, o + EPBSize + file[o + 20] - 1) >>)
             \o packetsAt[o + LengthAt(file, o)]
  IN  packetsAt[1]
=============================================================================
