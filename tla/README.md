# Verification of wisund

TLA+ models of the programs in this repository (`wisund`, the daemon, and
`wisunsimd`, the daemon with a simulated radio), checked with TLC, with proofs
checked by TLAPS. File names and line numbers refer to the repository; unless a
directory is given, a file is in `src/`.

## 1. The system

`wisund` connects a Wi-SUN radio board, behind a serial port, to three users: a
client that types commands over TCP (or at a terminal), the IPv6 stack of the
host through a TUN interface, and a capture file.

Every device of the program is an object with an input queue. A device sends by
putting a message into the input queue of the router, which hands it on to the
input queues of others by a list of rules. Each device has one or two threads.
The threads share queues and one flag per device, and nothing else.

| component | state | operations | thread(s) |
|---|---|---|---|
| `SafeQueue.h` | `data`, mutex `m`, condition `data_cond` | `push`, `try_pop`, `wait_and_pop`, `empty` | all |
| `SinkDevice` | `inQ`, `holdOnRxQueueEmpty` | `hold`, `releaseHold`, `wantHold`, `more`, the pops | |
| `Device` | `outQ` | `push` | |
| `Message` | bytes, `source` | `setSource`, `+=`, `isRaw`, `isCap`, `isControl`, `isPlain` | |
| `Router` | `rules` | `addRule`, `run` | 1, blocking loop |
| `Console`, `testmode.yy` | `real_quit`, `want_reset` | one action of the grammar per command; `runTx`, `runRx`, `run` | main reads; one more per session prints, draining loop |
| `SerialDevice` | `m_data`, the outstanding read | `startReceive`, `handleMessage`, `send`, `encode`, `decode` | 1, polling loop |
| `TunDevice` | `m_ipv6only`, the local `msg` | `startReceive`, `send` | 2, blocking loops |
| `CaptureDevice` | the local `out` | `run` | 1, blocking loop |
| `wisund.cpp` | which device is being stopped | `main` | main |
| `Simulator` | `lastMessage`, `fcie` | `run`, `send`, `receive` | 1, blocking loop |
| `Reply` | none | `decode` | called by the console |
| `pcapng` | none | `write` of the three blocks | called by the capture device |
| `testlex.l`, `testmode.yy` | what has been read of the client's text | the scanner's rules, the grammar | main |
| `server.cpp` | the connection of the request under way | `tool_call` and the HTTP handlers | a program of its own; one serves the requests |

How they interact:

- *queues*: everybody to the router, the router to everybody (`Router.cpp:104`);
- *flag and sentinel*: `main` and, for the console, the parsing thread stop a
  device with `releaseHold()`: clear the flag, then queue an empty message so
  that a thread asleep in `wait_and_pop()` wakes up and sees the flag
  (`SinkDevice.cpp:86`); then they `join()` the thread;
- *sessions*: the console's printing thread is started anew for each client
  (`Console.cpp:121`), but its queue lives on;
- *the web server* is a client like any other: for each request of a page it
  connects, sends one command, waits for one line of answer for at most 300 ms
  (`server.cpp:134`), and closes the connection;
- *the radio* answers commands, sends frames of its own, and nothing tells which
  answer belongs to which command.

What is hard, and which properties make it correct:

- **Queue.** Two threads, one mutex, a condition variable: no pop of an empty
  queue, no lost wakeup, first-in first-out.
- **Stopping a device.** The two statements of `releaseHold()` against the
  thread's test and its blocking pop: a join must not wait for a sleeper; the
  sentinel that a thread leaves behind when it ends early must not end the next
  session.
- **Routing.** The order of the rules, and the one message without a source that
  ends the program.
- **Conservation.** Through start-up, sessions and shutdown no message is
  duplicated or overtaken between where it enters and where it leaves, nor lost
  as long as the device it is for has not been stopped.
- **Sessions.** What was queued when a session was released is printed in it.
- **Packets.** The TUN device accumulates what it reads, and pushes from that.
- **Failures.** The port or the interface may fail at any moment: reception ends,
  or the buffer is dropped, or an exception nobody catches ends the program.
- **Framing.** Frames are cut out of a stream that arrives in pieces, with a
  delimiter lost now and then; frames that are sent may be written in part.
- **Command lines.** The scanner takes the longest match and the first rule at a
  tie, and must wait for a character more where a word or a list might go on.
- **Web requests.** The web server waits for an answer, the daemon for the end of
  the text; the time limit of the one races the answer of the other, and a page
  must not wait for ever nor be shown what it cannot make sense of.
- **Shutdown.** `main()` returns.
- **Simulator.** Each command it knows is answered once, also around a shutdown,
  and `diag 02` with a new count each time.
- **Replies.** The size that `decode()` tests for is that of the fields it takes.
- **Capture files.** The length at both ends of a block is that of the block.

`PROJECT.json` lists these as hazards, with the lines where they bite and the
properties that cover them.

## 2. The modules

| module | models |
|---|---|
| `Fifo` | abstract: a queue with indivisible operations |
| `SafeQueue`, `MCSafeQueue` | `SafeQueue.h`, one action per access to the mutex, the condition variable or the `std::queue`; implements `Fifo` |
| `SafeQueue_proofs` | theorems about it |
| `Filters` | the members of a sequence that are in a set (`Only`), sequences put together (`Joined`) |
| `Filters_proofs` | induction over sequences, and lemmas about these operators |
| `SinkDevice`, `MCSinkDevice` | hold, release, join against the three kinds of loop |
| `SinkDevice_proofs` | theorems about it |
| `Message` | a message: source, class of the first byte, numbers for the rest |
| `DeviceBus` | the queues and flags of all devices, the place of each thread |
| `Router` | rules and the routing loop, one rule per step |
| `RouterSystem`, `MCRouter`, `Router_proofs` | the router alone, with any rules and messages |
| `Slip`, `MCSlip` | the framing of what comes from the serial port and goes to it, byte by byte |
| `Slip_proofs` | theorems about it |
| `Console`, `SerialDevice`, `TunDevice`, `CaptureDevice` | the devices |
| `RadioLink` | what went to the radio and came from it; common to `SerialDevice` and `Simulator` |
| `Simulator` | the device that takes the radio's place in `wisunsimd` |
| `Reply` | which bytes of a reply `decode()` looks at |
| `Pcapng` | the blocks of a capture file, and what `CaptureDevice` writes |
| `Wisund` | the program: `main()`, the devices above, the radio, the interface, the clients |
| `CommandLine` | which texts are commands, and when the parser executes them |
| `WebServer` | web pages as clients of the daemon, by way of the web server |
| `WisundSinks` | each device of `Wisund` is a `SinkDevice` |
| `Wisund_proofs` | theorems about `Pcapng` and `Wisund`: types, routing, joins, the phases of a run, replies, the simulator, capture files |
| `Delivery_proofs` | theorems about `Wisund` and `WisundSinks`: what becomes of the messages, and the refinement |
| `WebServer_proofs` | theorems about `CommandLine` and `WebServer`, and that what the runs check are cases of `Wisund`'s `Spec` |
| `MCWisund`, `MCWeb` | what TLC runs: the daemon alone, the daemon with either kind of client |

They build on each other: `SafeQueue` is shown to implement `Fifo`, so all other
modules take queue operations as indivisible. `SinkDevice` is the protocol of one
device; `WisundSinks` shows, with a refinement mapping per device, that the
daemon follows it for all five. `Slip` shows that on a line without faults frames
arrive whole, in order and at once, so `SerialDevice` takes a frame for one event.
`WebServer` is `Wisund` with its clients at a terminal, unchanged, or with the web
server in their place, whose texts go through `CommandLine`.

`Wisund`'s `Spec` is the program among clients of any kind, who may type what they
like and as long as they like; the theorems about the program are about it. The
runs narrow the clients down: in `TerminalSpec` the last of them quits, so that
there is an end to check, and in `WebSpec` they are what `Clients` says.
`TerminalsAreClients` and `PagesAreClients` prove that both imply `Spec`.

Correspondence of state and actions:

- `pc[t]` is where a thread is. A test of the flag, a pop and what follows it are
  separate steps, since other threads may run between them (`ConsoleTestHold`,
  `ConsoleTestMore`, `ConsolePrint` for the three parts of `Console.cpp:109-113`).
  What a thread does between two accesses to shared state is one step with one of
  them.
- `inQ[d]`, `hold[d]` are `SinkDevice::inQ` and `holdOnRxQueueEmpty`.
- A message's `body` is a sequence of numbers: a command's number, a frame's, or
  those of the packets it is made of. The predicates look at the first byte only,
  and so do the rules.
- The grammar's actions are grouped by the message they send: `Command` for all
  of `compound()` and `simple()` (first byte 06), `Data` for `data` (any bytes),
  `last` (07) and `restart` (ff), `CaptureFile` for `capfile` (ED), `Help` for
  `help` (straight into the console's own queue). `Reject` is a line that sends
  nothing: `pause`, a syntax error, a rejected argument.
- `EndSession` is `quit` (`real_quit` set), an unreadable character (`reset()`:
  `real_quit` cleared), or the end of the client's stream (neither).
- `SerialReceive` is `handleMessage()`, run from `poll()`; `armed` says that a
  read is outstanding. After `SerialError` none is started again, as in
  `SerialDevice.cpp:170`. `SerialSendFails` is `write_some()` on a port that has
  failed: it throws (`SerialDevice.cpp:208`), nothing in the thread catches that,
  and the program ends (`Crashed`).
- `TunRead` appends to `tunBuf` (`msg`), pushes if complete, and does not clear
  it; only `TunTimeout` does (`TunDevice.cpp:192-216`), and the next call of
  `startReceive()` after an error of `select()` (`TunSelectFails`), since `msg` is
  local. A `read()` that fails returns -1, which `TunDevice.cpp:207` stores as a
  length of 2^64-1; the message of that length throws, and the program ends
  (`TunReadFails`).
- `CaptureDevice`'s `capFile` becomes `"dangling"` after a `capfile` command, as
  `out` then points to a stream that has been destroyed
  (`CaptureDevice.cpp:115-124`); writing to it loses the frame or ends the
  program. Only frames of more than five bytes are written
  (`CaptureDevice.cpp:135`): `Writable`; the others have the first byte
  `"x31short"` (`isShort`).
- `SIM` is `#if SIM` of `wisund.cpp`: other rules, other devices, the same
  `main()`. In that build `SerThread` is `Simulator::run()`. Its canned responses
  are records of a size and the first three bytes, by the name of their command
  (`simCmd`); `typed` says which command each line of the clients is, and is
  chosen at the start. `SimSend` is the pop and `send()`, `SimReceive` is
  `receive()` with the `clear()` at its end; `fcie` counts modulo `FcieModulus`
  instead of 2^32.
- `Reply`: each helper is the number of bytes it moves the pointer by, each kind
  of reply the sequence of helpers called for it; `decode` gives what is printed
  (JSON, an error, raw bytes; or a line on the daemon's own error output, `"log"`)
  and how many bytes have been looked at, the sum of
  the helpers called.
- `Pcapng`: a file is a sequence of bytes; the value of a 32-bit field stands in
  the place of its first byte. The reader `PacketsOf` is not in the repository: it
  follows the format's rules and is what the files are judged by. `FilesReadBack`
  asks it for the messages of the history, in all lengths, of the file that is
  there when the program has ended.
- `ReleaseFlag` and `ReleaseSentinel` are the two statements of `releaseHold()`;
  `stopping` is the device concerned; `JoinThread` waits for its thread (for
  `tun`: both) and goes on with the next of `ShutdownOrder`.
- `Slip`: `Send` is `send()` for the port: `writes` records of each message how
  many bytes of its frame `write_some()` took. `Heard` is what a receiver that
  follows the framing makes of all that was written: each END ends what stands
  between it and the END `Before` it, and nothing between two of them is no frame.
- `CommandLine`: a text is its keyword and the characters behind it, each by its
  class (`"a-f"`, `"1-9"`, ...). `Rules`, in the order of `testlex.l`, `FirstFit`
  and `Longest` are what flex generates from them; `OpenEnded` says that the
  scanner must see one character more; `Accepted` is the grammar with the tests
  in its actions (how many bytes, which values); `ExecutedAtOnce` says that the
  parser needs nothing behind the text to execute it.
- `WebServer`: `Request`, `Respond` and `Expire` are `tool_call()` from
  `connect()` to `getline()`, answered or timed out. The web server serves one
  request after the other, so the n-th request is the daemon's n-th connection
  and session, and when it has been answered (`Closed`) the daemon will meet the
  end of its text. `Settled` says that the parser has enough to go on. `WebAccept`,
  `WebParse` and `WebEnd` are the actions of `Wisund` under these conditions; a
  text that is no command is `Reject`.
- Variables called history (`issued`, `asked`, `printed`, `received`, `sent`,
  `read`, `written`, `captured`, `pushed`, `taken`, `givenIn`, `due`, `shown`) record what
  happened; no guard of the program reads them. The radio reads `sent`.

Operators introduced as "A mutant" are variants of a definition with a plausible
bug. They occur in no specification; `PROJECT.json` says which property each of
them violates when it takes the place of the definition.

## 3. The runs

| run | shows |
|---|---|
| `SafeQueue` | `MutualExclusion`, `NeverPopsEmpty`, `NoLostWakeup`; `ImplementsFifo` (refinement); `QueueDrains` (liveness) |
| `SinkDevice` | `NoStuckJoin`, `FewSentinels`; `EndsDrained` (a step of the thread); `JoinReturns` (liveness) |
| `Router` | `RulesInOrder`, `InboxesAsRouted`; `RouterStops` (liveness) |
| `Slip` | `FramesDelivered` without a fault; with a lost delimiter `OneFaultHarmless` and `LagsByOne`; with incomplete writes `ShortWriteSpoilsOneFrame` |
| `WisundTraffic` | the daemon, one session and the shutdown, with commands or frames or packets, and a failure: `CommandsConserved`, `RawConserved`, `CaptureConserved`, `OnlyItsKind`, `NeverTerminates`; `FilesReadBack` (of the capture file at the end); `EveryPacketForwarded` without `-s`, `WholePackets` with it |
| `WisunSim` | `wisunsimd`, two sessions: `SimulatorAnswers`, `RepliesConserved`, `SessionDrained`, `NoStuckJoins`, `SimulatedRepliesDecode`, `ReadsWhatItTested`; with two requests of web pages in place of the sessions `CommandsOfPages`, `AnswersOfPages` |
| `WisundSinks` | the daemon, one session (of either kind of client) and the shutdown: `ImplementsSinks` (refinement); `CommandsAreSent`, `ShutdownCompletes`, `PagesServed` (liveness) |
| `PacketTwice` | violated: `PacketsSentOnce` |
| `LateAnswer` | violated: `AnswersInTheirSession` |
| `CaptureLost` | violated: `CaptureConserved` with a `capfile` command |
| `Unrouted` | violated: `OneDestination` |
| `LostCommand` | violated: `CommandsExecuted` |

The last five are disagreements between code and documentation; the findings in
`PROJECT.json` quote both.

- `PacketTwice`: `TunDevice.cpp:210` pushes `msg` and keeps it. The next packet
  within half a second is appended and both are sent again, as one message. With
  `-s` the longer `msg` is never complete, and the second packet is lost.
- `LateAnswer`: an answer that comes after the session has been drained stays in
  the console's queue and is printed to the next client.
- `CaptureLost`: see `capFile` above.

- `Unrouted`: the predicates of the console's two rules, `isControl` and
  `isPlain`, leave a gap: a `data` command whose first byte is 00 or 31 matches no
  rule and vanishes, although `wisund.cpp:222` says "Everything else from the
  Console goes to the serial port".
- `LostCommand`: an argument such as `ff` fits the scanner's rule for identifiers
  as well as the one for bytes, and the former comes first (`testlex.l:132`), so
  that `setmac` with the address of `commands.md:22` written as bytes is not
  accepted, nor is `diag af`; `testlex.l:93` and `commands.md:25` have no such
  restriction. `AF`, `aF` and `9f` are accepted. `BytesAccepted` proves that, of
  two hexadecimal digits, exactly a small letter followed by a small letter or a
  decimal digit are not.

Where a property holds, and says less than a document does:

- `RulesInOrder` and `InboxesAsRouted` are about the loop of `Router.cpp:102-111`,
  which `doc/design.md:67` describes towards its end: each matching rule in
  order, up to and with a match without a predicate. The same paragraph also says
  that a message is sent "to exactly one of the other ports", and that rules are
  tried "until a successful rule is found". The code does neither: two matching
  rules with predicates deliver two copies, and a message may match none.
  `OneDestination` states the first for `main()`'s rules and is violated
  (`Unrouted`). Of those rules no two that lead to different devices match one
  message, so that more than one destination does not occur in the daemon.
- `CaptureConserved` and `FilesReadBack` are about captured frames of more than
  five bytes. `CaptureDevice.cpp:135` drops the shorter ones without a word, as
  they have nothing between the first byte and the check sequence;
  `doc/design.md:79` says that all incoming messages are written.
  `OnlyItsKind` and `FilesReadBack` say what becomes of a short frame: nothing is
  written of it, and the file stays readable.
- The conservation properties count what is still in the queue of a device that
  has been stopped, or in the router's queue after the router has ended, as in
  that queue. It is lost, without a word, when the program ends; taken literally,
  `doc/design.md:79` ("All incoming messages") does not allow that for captured
  frames, and of the others no document says anything. What the properties do say of it is that it is the end of the stream:
  nothing behind it has been delivered, and nothing is there twice.
- `CommandsOfPages` is about what the scanner accepts; what it should accept is
  `CommandsExecuted`.
- `AnswersOfPages`: the web server sends no line end (`server.cpp:140`). The
  scanner cannot know that `mac` or `state` is complete until the stream ends,
  which is when the web server has given up after 300 ms. The command is executed
  then; its answer waits in the console's queue and is what a later page is
  shown. A command that ends in a byte is executed at once, and its page may be
  shown its own answer, or one that has been waiting. Of a report the radio makes
  of its own accord (a number above `MaxLines`) the property only says that later
  pages are shown later lines.
- `LagsByOne`: after one lost delimiter each answer is delivered when the next
  frame begins, which a client sees as the answer to its previous command.

### Bounds

- `SafeQueue`: two producers, two consumers, two kinds of item, two queued. Two
  consumers are what it takes for one to find the item it was woken for taken.
  More of anything is covered by the proofs.
- `SinkDevice`: one kind of message, three queued (`MCSinkDevice`; the module
  itself has no such bound); any number of sessions.
- `Router`: lists of up to three rules from one device, with and without
  predicate, to two others and to itself; two messages that match some, match
  none, are empty or have no source. Three rules allow an unconditional one
  between two others.
- `Slip`: three frames, some from the radio and the others to it (one hit by the
  fault, one that pushes it out, one to see that the lag stays), nine payloads of
  critical bytes, any cut and any short writes, one lost delimiter.
- `Wisund*`: two messages of a kind, so that order can be wrong; one command
  where liveness matters, two sessions in `WisunSim` (the second meets the queue
  and the flag the first has left) and one elsewhere; one failure, of a read or a
  write of the port or of `select()` or `read()` of the interface; three packets,
  the second of any kind, so that a packet can follow a forwarded one, or one that
  is not, after a timeout or without. Everything the clients, the radio and the
  interface do may happen at any time, before and during shutdown, but for the
  bounds of `WisundTraffic` below. In `TerminalSpec` the last of the `MaxSessions` clients quits, so
  that the model need not go on waiting for a client. Lines that send nothing are
  left to the web pages: at a terminal `Reject` would add no state but
  `givenIn`, and the theorems about `Spec` cover it.
- `WisundTraffic` has three more bounds, in `MCWisund`. `OneKind`: in one behaviour
  there is one kind of traffic, commands (with the radio's answers), frames or
  packets, and a failure takes the place of one message. The kinds have different
  ways through the program and meet in the router's queue and, commands and
  packets, in the serial port's. `ArrivesInTime`: nothing arrives for a thread
  that has ended; it would only lie there. `Prompt`: a thread that tests its flag
  when that is set, and not about to be cleared, does so before anything else
  happens. Such a test changes only the place of the thread, and nobody else looks
  at that until it has ended, so that it can be moved to the front of what the
  others do. None of the three is in `Spec`, `TerminalSpec` or the other runs, and
  every property of the run is also proved of `Spec`, which has no bound.
- `WisunSim`: two lines of three kinds of command: one that is counted, one that
  is not, one the simulator does not know, and `help`; where it is a matter of the
  canned responses (`SimulatedRepliesDecode`), a command stands for all that are
  treated alike. `FcieModulus` is 602, so that the
  counter, which starts at 600, comes round with the second answer.
- Web pages: two requests in `WisunSim`, so that the second can be shown the
  answer to the first, and one in `WisundSinks`. Of the texts, `diag 02` is
  executed at once, `mac` at the end of the stream and `diag af` not at all;
  every other text of the pages is like one of these. `LostCommand` has the
  `setmac` that a user would type from `commands.md`. A text is one command: in a
  text such as `mac diag 02` the parser would execute the first as soon as the
  second word shows that it is complete. The 300 ms may be over at
  any time, also before the daemon accepts the connection.
- `Reply`: sizes up to 64 (the longest that is tested for, but for counts, is 59)
  for all kinds and all diagnosis numbers, with up to 16 slots and 5 neighbors.
- `Pcapng`: files of one message more than has been captured, up to three, of 4 to
  10 bytes, one of them too short to be written, at any place: every padding, and
  the sizes on either side of the limit. `CapturesReadBack` covers all others.

`CHECK_DEADLOCK` is off for `SinkDevice` and `Router` only: their harness ends
when the device has been joined. `Wisund` and `Slip` have an explicit `Finished`.

### Fairness

Weak fairness per thread: every thread of the program that can go on does, as the
scheduler guarantees. `main()` is fair in all but accepting a client, reading a
command and meeting the end of a session: those depend on the clients. So
`CommandsAreSent` is also asked of a client that stays connected, and
`ShutdownCompletes` begins where one has quit. The radio, the interface and the
serial line are not fair.

Of the web server the timer is fair (`Expire`): `getline()` fails when it runs
out. It replaces what the clients at a terminal do not owe us, so with it the
daemon is fair too in accepting a connection that has been made, reading a text
that has been sent and meeting its end. No page owes us a request. `PagesServed`,
`CommandsAreSent` and `ShutdownCompletes` have the form `[]<>`: what they wait
for, once reached, lasts until something new begins.

`JoinReturns` excludes messages that never stop coming for the console, because
its loop really goes on with them (`Console.cpp:109`). `ShutdownCompletes` holds
as traffic in the model ends; packets without any pause of half a second would
keep `TunDevice::startReceive()` in its inner loop (`TunDevice.cpp:192`).

## 4. The proofs

All for every value of the constants, under the assumptions named in the modules
(`NoItemAssumption`, `ThreadsAssumption`, `SentinelAssumption`,
`RulesAssumption`, `TrafficAssumption`, `SimAssumption`, `BoundsAssumption`,
`FrontsAssumption`, `PacketsAssumption`, `FcieAssumption`, `StrictAssumption`,
`PlainAssumption`, `PayloadsAssumption`, `ClientsAssumption`, `PagesAssumption`,
`TextsAssumption`, ...), which TLC evaluates. The bounds of the models are
constants like any other, so no theorem depends on one. Every safety property
that a passing run checks is the subject of a theorem. What narrows the inputs
down:

- `TextsAssumption`: the texts of the pages are `diag 02`, `diag af`, `setmac` with
  the address of `commands.md`, and the commands without an argument. The theorems
  about `CommandLine` that are there go further (`BytesAccepted`).
- `~Controls` in `CapturedFramesArrive`: no line of a client is `capfile` or `data`.
- `Lines` and `RadioFrame`: `"x31short"` is the one size of a message that is told
  apart, where the code looks at it (`CaptureDevice.cpp:135`).

- `Filters_proofs`: `SequenceInduction`. The library's induction theorems take an
  operator, which the provers cannot instantiate; here a statement is the *set* of
  the numbers, or sequences, for which it holds. From it follow the existence of
  the tables behind `Only` and `Joined` and how they go on by a member at either
  end, which is what the proofs about histories, frames and files use.

- `SafeQueue_proofs`: `TypeCorrect`, `Exclusion`, `PopsAreSafe`,
  `WakeupsSuffice`, `Refinement`. The inductive invariant says that the threads
  inside the locked region are exactly the holders of the mutex, that a consumer
  about to use `front()` or `pop()` faces a non-empty queue, that a sleeping
  consumer beside a non-empty queue has a counterpart on its way, and that a
  consumer between `front()` and `pop()` holds the head of the queue. Mutual
  exclusion is what makes the emptiness test still valid when it is used. For the
  refinement, `front()` is where the item leaves the abstract queue; all other
  steps of a consumer stutter, except a failed `try_pop`.
- `SinkDevice_proofs`: `TypeCorrect`, `JoinIsNeverStuck`, `NothingLeftBehind`,
  `SentinelsStayFew`. The invariant ties the phases of the two threads to the
  flag; that the flag is cleared before the sentinel is queued is what it turns
  on. For `SentinelsStayFew` it also bounds the number of sentinels by the phase
  of the owner: a thread that drains its queue leaves none of an earlier session
  behind, so that each session can only add its own.
- `Router_proofs`: `TypeCorrect`, `RulesTried` (`RulesInOrder`), `CopiesDelivered`
  (`InboxesAsRouted`). The invariant says that as long as the loop goes on no
  unconditional rule has matched, so that all the rules passed were
  to be tried; then (`RInv`) that a device's queue holds what is expected of
  all messages taken before, followed by a copy of the present one for each rule
  passed that leads there. `Expected` is not a function of the state alone: the
  rules must not change any more once the first message is taken (`History`).
- `Slip_proofs`: `FramesArrive`, `FaultContained`, `DelayStays` (`FramesDelivered`,
  `OneFaultHarmless`, `LagsByOne`), for any bytes and payloads, any number of
  frames and any cut of the stream. None is inductive: the invariant `FlowInv`
  says that buffer and line together hold the codes of the frames sent and not
  yet received; or, after one loss, these codes with the first or the last
  delimiter of one frame missing. (Once the frames before it have been read, what
  is left always lacks its first delimiter: this is the lag.) Its lemmas: a frame's code has two delimiters, at its
  ends, and decodes to the frame, by induction over the payload; where
  `match_slip()` finds the second delimiter of such a stream.
  `OneFrameSpoilt` (`ShortWriteSpoilsOneFrame`) rests on `HeardInv`: the radio has
  heard what has been written, but for a last frame cut short, which is what
  stands behind the last delimiter; the first byte of the next frame ends it.
- `Wisund_proofs`: the daemon and the simulator at once (`SIM` is a constant), for
  any number of sessions, commands, frames, packets and failing reads.
  - `TypeCorrect`, `RouterSurvives` (`NeverTerminates`) and `KindsKeptApart`
    (`OnlyItsKind`) rest on one inductive invariant, `IInv`: whatever stands in a
    device's queue, in a thread's hands or in a history is a message meant for that
    device (`Meant`), or the empty one. None of the three is inductive as it
    stands: what a device gets depends on the router's rules, these on the source
    and the first byte each sender puts on its messages, and the order of the rules
    must not matter for messages still on the way.
  - `JoinsReturn` (`NoStuckJoins`) adds `StopOK`: from the moment `main()` has
    cleared a device's flag the thread gets to its pop only on an earlier test of
    the flag, and after the second statement of `releaseHold()` finds something
    there. Its lemmas say of each thread's step that it leaves every other thread
    as awake as it was (`Wakes`).
  - `PhasesInductive`: for each device, from the place `main()` has reached
    (`Owner`), whether its thread exists, its flag is set and a sentinel may be in
    its queue, through start-up, sessions and shutdown.
  - `RepliesReadToTheirEnd`, `AnswersReadToTheirEnd` (`ReadsWhatItTested`):
    `decode()` kind by kind, and for any number of neighbors;
    `SimulatedRepliesFit` (`SimulatedRepliesDecode`) for the canned responses.
  - `CommandsAnswered` (`SimulatorAnswers`), in the build with `SIM`, which it
    assumes, as there is no simulator in the other. The invariant `SimOK` says
    that the last entry of `sent` is pending while the thread is between `send()`
    and `receive()`, and that the counter is the number of answers that count,
    modulo `FcieModulus`. Here `clear()` at the end of `receive()` is needed.
  - `BlockLength`, from the lengths of concatenations and the arithmetic of the
    padding, and `CapturesReadBack`: for every sequence of messages the reader gets
    back what was captured. The reader is a table over the positions of the file;
    that it exists is shown by induction, that it can start at any place by
    uniqueness, and what it gives by induction from the file's front, block by
    block. `CaptureFilesRead` (`FilesReadBack`) is what this says of the program.
- `Delivery_proofs`, for the same program.
  - `FlowsConserved` is the invariant of the conservation properties: for each
    kind of message, what has been put in equals, as a sequence, what has come out
    followed by what is on its way, in the destination's queue, in the router's
    hands if it has not been pushed yet, and in the router's queue. The record
    `pushed` of the rules that have applied (`RoutingOK`) is part of it: a message
    in the router's hands is on its way until it is pushed, and never after. From
    it follow `CommandsArrive`, `RawFramesArrive` and `CapturedFramesArrive`. The
    last assumes `~Controls`: a client can send `capfile` or `data` in no line;
    with `capfile` the property is violated, as `CaptureLost` shows, and a `data`
    line can carry the same bytes. It is about frames of more than five bytes, the
    only ones that are written.
  - `RepliesArrive` (`RepliesConserved`) adds the help texts (`HelpOK`), which go
    straight into the console's queue; `SessionsDrain` (`SessionDrained`) adds
    `DueOK`: what was due at the release, printed or queued, is the first part of
    what has been printed and what is queued, and of the former alone once the
    thread has ended.
  - `PacketsForwarded` and `PacketsWhole` (`EveryPacketForwarded`, `WholePackets`)
    rest on `PacketsOK`: the buffer, and every message on its way to the serial
    port, is a run of consecutive packets as they were read, the k-th message
    ending with the k-th packet; with `-s` it is a single packet, later than those
    before it.
  - `SinksImplemented` (`ImplementsSinks`): every step of the daemon is, for each
    of the five devices, a step of `SinkDevice` or a stutter, one lemma per thread
    and per step of `main()`. It uses `Phases`, to know what the flag and the
    thread of a device are when `main()` acts on it, and `Begun`. Where the
    program ends because of the dangling pointer (`Crashed`), `WisundSinks` asks
    no more of it.

- `WebServer_proofs`: web pages, and what they need of the program.
  - `BytesAccepted`: what `Longest`, `Tokens` and `OpenEnded` give for a word
    followed by a blank and two characters, rule by rule in the scanner's order,
    and from it whether the grammar accepts the line and executes it at once.
  - `TerminalsAreClients`, `PagesAreClients`: each step of `TerminalNext` and of
    `WebNext` is one of `Next` or leaves the daemon alone. So every theorem above
    also holds of the program with web pages, and the proofs below may use
    `IInv`, `CommandsConserved` and `RepliesConserved`.
  - `NumbersInductive` and `PrintedRepliesNumbered`: what was issued carries the
    number of a line typed before, and so does whatever the radio has heard and
    answered, or else it is a report. The number follows the message through queues
    and router because `CommandsConserved` and `RepliesConserved` make each member
    at the far end one of those put in.
  - `SessionsInductive`: sessions are counted up, and lines are printed in the
    order of their sessions, none in a session still to come.
  - `PagesCommandsArrive` (`CommandsOfPages`) rests on `PagesOK`: the daemon has
    not accepted more connections than there were requests, has read one text of
    each session, and the present one if it has got that far; what was issued is
    the texts read, without those that the scanner takes for something else; and a
    text read while its page still waits is one that is executed at once. From
    there to the simulator `CommandsArrive` takes over: what was issued is what is
    there or on its way, in the same order. Which texts are commands
    (`Accepted`) need not be known for this.
  - `PagesAnswered` (`AnswersOfPages`) rests on `ShownOK`: a page is shown a line
    printed in its own session, whose number is that of a text read before, so not
    of a later page; and of the page itself only if its text is executed at once,
    by the last part of `PagesOK`. Later pages are shown later lines because the
    lines are printed in the order of the sessions (`SessionsInductive`).

Only model-checked:

- All liveness: `QueueDrains`, `JoinReturns`, `RouterStops`, `CommandsAreSent`,
  `ShutdownCompletes`, `PagesServed`. The prover has no rule for fairness and
  ENABLED. Of three of them the safety part is proved, that no thread is left
  asleep: `WakeupsSuffice` for `QueueDrains`, `JoinIsNeverStuck` for `JoinReturns`,
  `JoinsReturn` for `ShutdownCompletes`.
- Of `CommandLine`, the grammar of the commands that take a list of bytes: for a
  list of any length the scanner's recursion would need an induction over the
  text. The runs do not use it; the theorems go as far as a word, alone or with
  one argument of two characters.

## 5. Not modelled

- Formatting of messages and replies, echo, verbose output, option parsing.
- Of `server.cpp` the static pages, the settings and the random numbers of
  `/get_diag`, which have nothing to do with the daemon, and its shutdown. A
  request whose command is empty or has 100 characters or more gets no response
  at all (`server.cpp:166`); it does not reach the daemon either. The pages
  themselves, and so what a user types into the field for any command
  (`web_root/index.html:158`).
- Clients at a terminal and web pages at the same time: the daemon serves one
  client at a time, so a terminal client only makes the pages wait until their
  300 ms are over, which the model allows anyway.
- Of the scanner the path behind `capfile`, which is put together from words,
  bytes and punctuation, and the classes of characters that only occur in it.
- What `decode()` does with replies too short for the bytes it looks at before it
  tests the size (`ReadsWhatItTested` is about the others), the time stamps of
  capture files.
- What `write()` to the interface returns (`TunDevice.cpp:222` ignores it: a packet
  the kernel does not take is lost), the errors of setting up a device, failing
  constructors, exhaustion of memory. After an exception that nobody catches the
  model stops (`Crashed`), as the program does; it is not started again.
- Text behind a complete command in one request of a page.
- `wisun-cli`'s loop after the end of its input (`wisund.cpp:251`), which is one
  empty session after another, and the descriptor that two stream buffers close
  (`wisund.cpp:274`): file descriptors are not part of the model.

## 6. Plan

1. Done: queue, protocol, router, framing both ways, daemon, simulator, replies,
   capture files, command lines, web server, failures of the port and the
   interface; proofs of every safety property that the runs check.
2. Left: the grammar of `capfile`, and several commands in one text of a page.
