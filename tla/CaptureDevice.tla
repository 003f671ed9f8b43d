---------------------------- MODULE CaptureDevice ---------------------------
(* CaptureDevice.cpp: writes captured frames to the current capture file,    *)
(* and changes that file on a control message.                               *)
EXTENDS DeviceBus, Pcapng

VARIABLES capFile,    \* what run()'s `out` points to: an open file, or nothing
          captured    \* history: the frames written to a capture file

captureVars == <<capFile, captured>>

CaptureInit ==
  /\ capFile = "open"
  /\ captured = <<>>

(* The control message flushes `out`, then makes it point to a std::ofstream *)
(* that is local to the case: it dangles as soon as that block ends.  (If    *)
(* the new file cannot be opened nothing changes.)                           *)
ChangeFile ==
  /\ capFile' \in {"dangling", capFile}
  /\ UNCHANGED captured

WriteFrame(x) ==
  /\ captured' = IF capFile = "open" THEN Append(captured, x) ELSE captured
  /\ UNCHANGED capFile

\* A mutant: the test of the size is the wrong way round, no frame is written.
CaptureIgnores ==
  /\ Dequeue("cap")
  /\ LET x == Head(inQ["cap"])
     IN  IF isControl(x) THEN ChangeFile ELSE UNCHANGED captureVars
  /\ Goto("cap", "pop", "test")
  /\ UNCHANGED hold

(* A frame is written without its first byte and its check sequence, if that *)
(* leaves anything: of a frame of five bytes or fewer nothing is written, as *)
(* of an empty message, which only wakes the thread up.                      *)
Writable(x) == NonEmpty(x) /\ ~isShort(x)

CaptureWrite ==
  /\ Dequeue("cap")
  /\ LET x == Head(inQ["cap"])
     IN  IF isControl(x) THEN ChangeFile
         ELSE IF Writable(x) THEN WriteFrame(x)
         ELSE UNCHANGED captureVars
  /\ Goto("cap", "pop", "test")
  /\ UNCHANGED hold

(* What is done through the dangling pointer is undefined: a frame may be    *)
(* lost, as in WriteFrame, or the program ends.                              *)
CaptureCrash ==
  /\ capFile = "dangling" /\ inQ["cap"] # <<>> /\ Writable(Head(inQ["cap"]))
  /\ Goto("cap", "pop", "terminated")
  /\ UNCHANGED <<inQ, hold, captureVars>>

CaptureStep ==
  \/ TestHold("cap") /\ UNCHANGED captureVars
  \/ CaptureWrite
  \/ CaptureCrash

-----------------------------------------------------------------------------
(* A message of n bytes, no two alike, for the k-th captured frame. *)
Example(n, k) == [i \in 1..n |-> 100 * k + i]

(* The capture file, when its device has been stopped, whatever the lengths  *)
(* of the frames in `captured` (more than five bytes each), and with a frame *)
(* of five bytes or fewer anywhere among them: the packets read back from    *)
(* the file are the longer frames, without their first and last four bytes,  *)
(* byte for byte and in order.                                               *)
FilesReadBack ==
  pc["main"] = "done" =>
    \A sizes \in [1..(Len(captured) + 1) -> 4..10], short \in 1..(Len(captured) + 1) :
      (\A k \in DOMAIN sizes : sizes[k] > 5 <=> k # short) =>
        LET messages == [k \in DOMAIN sizes |-> Example(sizes[k], k)]
            Stripped(m) == [i \in 1..(Len(m) - 5) |-> m[i + 1]]
        IN  PacketsOf(CaptureFileOf(messages))
              = Joined([k \in DOMAIN sizes |->
                          IF k # short THEN <<Stripped(messages[k])>> ELSE <<>>])
=============================================================================
