------------------------------ MODULE TunDevice -----------------------------
(* TunDevice.cpp: one thread reads packets from the network interface and    *)
(* hands them to the router, the other writes messages to the interface.     *)
EXTENDS DeviceBus

CONSTANTS StrictOptions   \* the values of the option -s considered

ASSUME StrictAssumption == StrictOptions \subseteq BOOLEAN

VARIABLES ipv6only,  \* m_ipv6only: forward complete IPv6 packets only
          nic,       \* packets that wait to be read from the interface
          tunBuf,    \* startReceive()'s local msg: the packets it is made of
          read,      \* history: the packets read from the interface
          written    \* history: the messages written to the interface

tunVars == <<ipv6only, nic, tunBuf, read, written>>

TunInit ==
  /\ ipv6only \in StrictOptions
  /\ nic = <<>>
  /\ tunBuf = <<>>
  /\ read = <<>>
  /\ written = <<>>

(* A packet is [id, ipv6]; the interface delivers one packet per read, and   *)
(* the four bytes in front of it begin with 0x00.                            *)
TunMessage(buf) ==
  [source |-> "tun", front |-> "x00", body |-> [i \in DOMAIN buf |-> buf[i].id]]

(* isCompleteIpV6Msg(): anything will do, unless -s was given; then the      *)
(* first packet's length field must be the length of all that has been read. *)
Complete(buf) == ipv6only => Len(buf) = 1 /\ buf[1].ipv6

\* A mutant: the loop goes on without its flag.
TunReadForever ==
  /\ Goto("tunrx", "test", "select")
  /\ tunBuf' = <<>>
  /\ UNCHANGED <<inQ, hold, ipv6only, nic, read, written>>

(* runTx(): while (wantHold()) startReceive(). *)
TunReadTest ==
  /\ Goto("tunrx", "test", IF hold["tun"] THEN "select" ELSE "exited")
  /\ tunBuf' = <<>>
  /\ UNCHANGED <<inQ, hold, ipv6only, nic, read, written>>

\* A mutant: only a message that consists of one read is forwarded.
TunReadOnce ==
  /\ pc["tunrx"] = "select" /\ nic # <<>>
  /\ tunBuf' = Append(tunBuf, Head(nic))
  /\ IF Complete(tunBuf') /\ tunBuf = <<>>
     THEN Send(TunMessage(tunBuf')) ELSE UNCHANGED inQ
  /\ nic' = Tail(nic)
  /\ read' = Append(read, Head(nic))
  /\ UNCHANGED <<hold, pc, ipv6only, written>>

\* A mutant: every read is forwarded, whatever `strict` says.
TunReadAny ==
  /\ pc["tunrx"] = "select" /\ nic # <<>>
  /\ tunBuf' = Append(tunBuf, Head(nic))
  /\ Send(TunMessage(tunBuf'))
  /\ nic' = Tail(nic)
  /\ read' = Append(read, Head(nic))
  /\ UNCHANGED <<hold, pc, ipv6only, written>>

(* select() says readable: what is read is appended to msg, and msg is       *)
(* pushed if it is complete.  It is not cleared, so the loop goes on.        *)
TunRead ==
  /\ pc["tunrx"] = "select" /\ nic # <<>>
  /\ tunBuf' = Append(tunBuf, Head(nic))
  /\ IF Complete(tunBuf') THEN Send(TunMessage(tunBuf')) ELSE UNCHANGED inQ
  /\ nic' = Tail(nic)
  /\ read' = Append(read, Head(nic))
  /\ UNCHANGED <<hold, pc, ipv6only, written>>

(* select() times out after half a second of silence: msg is cleared, and    *)
(* the loop ends.                                                            *)
TunTimeout ==
  /\ nic = <<>>
  /\ Goto("tunrx", "select", "test")
  /\ tunBuf' = <<>>
  /\ UNCHANGED <<inQ, hold, ipv6only, nic, read, written>>

(* select() fails: startReceive() returns, and is called again. *)
TunSelectFails ==
  /\ Goto("tunrx", "select", "test")
  /\ tunBuf' = <<>>
  /\ UNCHANGED <<inQ, hold, ipv6only, nic, read, written>>

(* read() fails.  Its -1 becomes the length of a message, which is more than *)
(* a vector can hold; nobody catches the exception, so the program ends.     *)
TunReadFails ==
  /\ Goto("tunrx", "select", "terminated")
  /\ UNCHANGED <<inQ, hold, tunVars>>

\* A mutant: the flag is tested again between the pop and the write.
TunWriteIfHeld ==
  /\ Goto("tun", "pop", "test")
  /\ Dequeue("tun")
  /\ written' = IF NonEmpty(Head(inQ["tun"])) /\ hold["tun"]
                THEN Append(written, Head(inQ["tun"])) ELSE written
  /\ UNCHANGED <<hold, ipv6only, nic, tunBuf, read>>

(* runRx(): while (wantHold()) wait_and_pop, send; empty messages are not    *)
(* written.                                                                  *)
TunWrite ==
  /\ Goto("tun", "pop", "test")
  /\ Dequeue("tun")
  /\ written' = IF NonEmpty(Head(inQ["tun"]))
                THEN Append(written, Head(inQ["tun"])) ELSE written
  /\ UNCHANGED <<hold, ipv6only, nic, tunBuf, read>>

TunStep ==
  \/ TestHold("tun") /\ UNCHANGED tunVars
  \/ TunWrite

TunReadStep == TunReadTest \/ TunRead \/ TunTimeout

PacketArrives(packet) ==
  /\ nic' = Append(nic, packet)
  /\ UNCHANGED <<busVars, ipv6only, tunBuf, read, written>>
=============================================================================
