------------------------------ MODULE MCWisund ------------------------------
(* The daemon with a few clients, commands, frames and packets. *)
EXTENDS WisundSinks

\* Packets numbered in their order; the second may be of another kind, so that
\* it has an IPv6 packet before it and one behind.
MCPackets == {p \in [id : 1..MaxPackets, ipv6 : BOOLEAN] : p.ipv6 \/ p.id = 2}

\* What a terminal's daemon does, within three bounds.  The first: in one
\* behaviour there are commands, or frames of the radio's own, or packets of the
\* interface (with -s, packets); a failure of a device takes the place of one.
Traffic == [commands |-> lines, frames |-> frames, packets |-> Len(read) + Len(nic)]
Most == [commands |-> MaxLines, frames |-> MaxFrames, packets |-> MaxPackets]

OneKind ==
  \E k \in DOMAIN Traffic :
    /\ Traffic[k] + errors <= Most[k]
    /\ ipv6only => k = "packets"
    /\ \A l \in DOMAIN Traffic \ {k} : Traffic[l] = 0

\* The second: what arrives when nobody will read it any more is left out.
ArrivesInTime ==
  /\ frames' # frames => pc["ser"] # "exited"
  /\ nic' # nic => pc["tunrx"] # "exited"

\* The third: a thread that is about to test its flag, finds it set and will not
\* find it cleared by main()'s next step does so before anything else happens.
\* (Its test then commutes with what the others do.)
Device(t) == IF t = "tunrx" THEN "tun" ELSE t

Prompt(t) ==
  /\ pc[t] = "test" /\ hold[Device(t)]
  /\ ~(pc["main"] = "release" /\ stopping = Device(t))

Prompts == {t \in Threads \ {"main", "con"} : Prompt(t)}

TestFlag(t) ==
  /\ RouterThread \/ SerThread \/ TunThread \/ TunReadThread \/ CaptureThread
  /\ pc'[t] # pc[t]

TrafficNext ==
  /\ IF Prompts = {} \/ Crashed THEN TerminalNext
     ELSE TestFlag(CHOOSE t \in Prompts : TRUE)
  /\ OneKind' /\ ArrivesInTime

TrafficSpec == Init /\ [][TrafficNext]_vars
=============================================================================
