-------------------------------- MODULE Slip --------------------------------
(* SerialDevice.cpp at the level of bytes: frames are put between two END    *)
(* bytes, and END and ESC inside them are escaped.  The device looks for two *)
(* END bytes in what it has received so far and takes all up to the second.  *)
(*                                                                           *)
(* The line from the radio may cut the stream of bytes anywhere, and may     *)
(* lose a delimiter.  In the other direction, the operating system may take  *)
(* only the first bytes of a frame (write_some()).                           *)
EXTENDS Integers, SequencesExt, Filters

CONSTANTS Plain,       \* the bytes without a meaning of their own
          Payloads,    \* what the radio may send in one frame
          MaxFrames,   \* bounds of the model: frames sent, either way,
          MaxLost      \* and delimiters lost

(* The bytes 0xc0, 0xdb, 0xdc and 0xdd. *)
END == "END"
ESC == "ESC"
ESC_END == "ESC_END"
ESC_ESC == "ESC_ESC"

Bytes == Plain \cup {END, ESC, ESC_END, ESC_ESC}

ASSUME PlainAssumption == Plain \cap {END, ESC, ESC_END, ESC_ESC} = {}
ASSUME PayloadsAssumption == Payloads \subseteq Seq(Bytes) \ {<<>>}
ASSUME LineBoundsAssumption == MaxFrames \in Nat /\ MaxLost \in Nat

VARIABLES wire,       \* bytes sent and not yet received
          m_data,     \* the device's receive buffer
          sentFrames, \* history: the payloads sent
          received,   \* history: the messages handed to the router
          lost,       \* how many delimiters have been lost, at most MaxLost
          toRadio,    \* the bytes written to the port
          writes      \* history: the messages sent, and how many bytes of
                      \* the frame of each were written

receiveVars == <<wire, m_data, sentFrames, received, lost>>
sendVars == <<toRadio, writes>>
vars == <<receiveVars, sendVars>>

(* encode() *)
Escaped(byte) == CASE byte = END -> <<ESC, ESC_END>>
                   [] byte = ESC -> <<ESC, ESC_ESC>>
                   [] OTHER      -> <<byte>>

\* A mutant: a frame has a delimiter at its end only.
encodeEndOnly(msg) ==
  Joined([i \in DOMAIN msg |-> Escaped(msg[i])]) \o <<END>>

encode(msg) == <<END>> \o Joined([i \in DOMAIN msg |-> Escaped(msg[i])]) \o <<END>>

\* A mutant: an escape sequence is taken for its second byte.
DecodedLiterally(prev, byte) ==
  IF byte \in {END, ESC} THEN <<>> ELSE <<byte>>

(* decode(): END and ESC yield nothing, what follows an ESC is restored.     *)
Decoded(prev, byte) ==
  CASE byte \in {END, ESC} -> <<>>
    [] byte = ESC_END      -> IF prev = ESC THEN <<END>> ELSE <<ESC_END>>
    [] byte = ESC_ESC      -> IF prev = ESC THEN <<ESC>> ELSE <<ESC_ESC>>
    [] OTHER               -> <<byte>>

decode(msg) ==
  Joined([i \in DOMAIN msg |-> Decoded(msg[IF i = 1 THEN 1 ELSE i - 1], msg[i])])

Delimiters(buf) == {i \in DOMAIN buf : buf[i] = END}

\* A mutant: the frame's first delimiter need not be there.
MatchesFirst(buf) ==
  {n \in Delimiters(buf) : n > 1 /\ \A j \in Delimiters(buf) : j > 1 => j >= n}

(* match_slip(): the position of the second END, if there are two. *)
Matches(buf) ==
  {n \in Delimiters(buf) : \E i \in Delimiters(buf) :
     /\ i < n
     /\ \A j \in Delimiters(buf) : j = i \/ j >= n}

Init ==
  /\ wire = <<>>
  /\ m_data = <<>>
  /\ sentFrames = <<>>
  /\ received = <<>>
  /\ lost = 0
  /\ toRadio = <<>>
  /\ writes = <<>>

FramesLeft == Len(sentFrames) + Len(writes) < MaxFrames

(* The radio sends a frame. *)
Transmit ==
  /\ FramesLeft
  /\ \E p \in Payloads : /\ wire' = wire \o encode(p)
                         /\ sentFrames' = Append(sentFrames, p)
  /\ UNCHANGED <<m_data, received, lost, sendVars>>

(* The line loses a delimiter. *)
Lose ==
  /\ lost < MaxLost
  /\ \E i \in Delimiters(wire) : wire' = RemoveAt(wire, i)
  /\ lost' = lost + 1
  /\ UNCHANGED <<m_data, sentFrames, received, sendVars>>

(* async_read_until() reads some more only if the buffer holds no frame.     *)
ReadSome ==
  /\ Matches(m_data) = {}
  /\ \E n \in 1..Len(wire) : /\ m_data' = m_data \o SubSeq(wire, 1, n)
                             /\ wire' = SubSeq(wire, n + 1, Len(wire))
  /\ UNCHANGED <<sentFrames, received, lost, sendVars>>

\* A mutant: the whole buffer is consumed, not just the frame.
HandleMessageClears ==
  \E n \in Matches(m_data) :
    /\ received' = Append(received, decode(SubSeq(m_data, 1, n)))
    /\ m_data' = <<>>
    /\ UNCHANGED <<wire, sentFrames, lost, sendVars>>

(* handleMessage(): all bytes up to the match are decoded and consumed.      *)
HandleMessage ==
  \E n \in Matches(m_data) :
    /\ received' = Append(received, decode(SubSeq(m_data, 1, n)))
    /\ m_data' = SubSeq(m_data, n + 1, Len(m_data))
    /\ UNCHANGED <<wire, sentFrames, lost, sendVars>>

(* send(): the frame is encoded and handed to the port, which may take any   *)
(* number of its bytes, but at least one; nobody looks at how many.  (On an  *)
(* error write_some() has handed over nothing and throws, which ends the     *)
(* program: no step follows, here, and SerialSendFails there.)               *)
Send ==
  /\ FramesLeft
  /\ \E msg \in Payloads : \E n \in 1..Len(encode(msg)) :
       /\ toRadio' = toRadio \o SubSeq(encode(msg), 1, n)
       /\ writes' = Append(writes, [msg |-> msg, size |-> n])
  /\ UNCHANGED receiveVars

Finished ==
  /\ ~FramesLeft /\ wire = <<>> /\ Matches(m_data) = {}
  /\ UNCHANGED vars

Next == Transmit \/ Lose \/ ReadSome \/ HandleMessage \/ Send \/ Finished

Spec == Init /\ [][Next]_vars

-----------------------------------------------------------------------------
Quiet == wire = <<>> /\ Matches(m_data) = {}

(* Without a fault every frame is delivered as it was sent, in order, and as *)
(* soon as its last byte is there, wherever the stream was cut: what         *)
(* SerialDevice takes for granted of a frame.                                *)
FramesDelivered ==
  lost = 0 => /\ IsPrefix(received, sentFrames)
              /\ Quiet => received = sentFrames

(* One lost delimiter neither corrupts nor joins nor loses frames: all that  *)
(* is delivered is what was sent, in order.                                  *)
OneFaultHarmless == lost <= 1 => IsPrefix(received, sentFrames)

(* But it is never made up for.  As every frame brings two delimiters, from  *)
(* then on the end of each is taken for the start of the next, and a frame   *)
(* is not delivered before the next one begins.                              *)
LagsByOne ==
  lost = 1 /\ Quiet => Len(received) = Len(sentFrames) - 1

(* What stands before the n-th byte of a stream, up to the END before it. *)
Before(stream, n) ==
  LET first == CHOOSE i \in 1..n : /\ i > 1 => stream[i - 1] = END
                                   /\ \A j \in i..(n - 1) : stream[j] # END
  IN  SubSeq(stream, first, n - 1)

(* What the radio makes of a stream of bytes: each END ends a frame, and a   *)
(* frame without bytes is none.                                              *)
HeardAt(stream, n) ==
  IF stream[n] = END /\ Before(stream, n) # <<>>
  THEN <<decode(Before(stream, n))>> ELSE <<>>

Heard(stream) == Joined([n \in DOMAIN stream |-> HeardAt(stream, n)])

WrittenWhole(w) == w.size = Len(encode(w.msg))

(* The messages the radio can have got to the end of: a frame cut short ends *)
(* with the frame after it.                                                  *)
EndedWrites ==
  LET n == Len(writes)
  IN  IF n > 0 /\ ~WrittenWhole(writes[n]) THEN SubSeq(writes, 1, n - 1) ELSE writes

(* Messages of at least one byte. *)
NonEmpty == Seq(Bytes) \ {<<>>}

Truncated(w) == decode(SubSeq(encode(w.msg), 1, w.size))

(* An incomplete write spoils its own frame and no other, although its       *)
(* result is ignored (SerialDevice.cpp:208): the radio hears every message   *)
(* that was written whole, as it was and in order, and of the others what    *)
(* was written of them; a frame is never joined with the next.               *)
ShortWriteSpoilsOneFrame ==
  /\ Only(Heard(toRadio), NonEmpty)
       = Only([k \in DOMAIN EndedWrites |-> Truncated(EndedWrites[k])], NonEmpty)
  /\ \A k \in DOMAIN writes :
       WrittenWhole(writes[k]) => Truncated(writes[k]) = writes[k].msg
=============================================================================
