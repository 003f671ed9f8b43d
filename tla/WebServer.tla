----------------------------- MODULE WebServer ------------------------------
(* server.cpp: a web page's request becomes a client session of the daemon.  *)
(* The server connects, sends the text of one command, waits for one line,   *)
(* and closes the connection when it has it or when 300 ms are over.  It has *)
(* one thread, which waits: connections are made one by one, and the n-th is *)
(* the daemon's n-th session, however late the daemon accepts it.            *)
(*                                                                           *)
(* The daemon is the one of module Wisund.  Its clients are either people at *)
(* a terminal, as there, or the web server's pages.                          *)
EXTENDS Wisund, CommandLine

CONSTANTS Clients,    \* "terminal" or "web"
          Texts       \* the commands the pages choose from

ASSUME ClientsAssumption == Clients \subseteq {"terminal", "web"}
ASSUME PagesAssumption == "web" \in Clients => "command" \in Lines
ASSUME TextsAssumption ==
  Texts \subseteq {"diag 02", "diag af", "setmac 00 19 59 ff fe 0f ff 01"} \cup PlainWords

VARIABLES client,     \* who the daemon's clients are
          texts,      \* the command of each request
          requests,   \* how many connections the web server has made
          shown       \* history: what the pages have been answered: 0 for an
                      \* empty response, else which of the lines printed

webVars == <<client, texts, requests, shown>>

(* The texts of the commands.  `diag` takes a byte and `setmac` eight (which *)
(* a user types into the page's own field), the others nothing.  A text is   *)
(* one command: where something stands behind a complete one, the parser     *)
(* might execute that before it meets the rest.                              *)
LineOf(command) ==
  CASE command = "diag 02" -> [keyword |-> "diag", behind |-> <<" ", "0", "1-9">>]
    [] command = "diag af" -> [keyword |-> "diag", behind |-> <<" ", "a-f", "a-f">>]
    [] command = "setmac 00 19 59 ff fe 0f ff 01" ->
         [keyword |-> "setmac",
          behind  |-> <<" ", "0", "0", " ", "1-9", "1-9", " ", "1-9", "1-9",
                        " ", "a-f", "a-f", " ", "a-f", "a-f", " ", "0", "a-f",
                        " ", "a-f", "a-f", " ", "0", "1-9">>]
    [] OTHER               -> [keyword |-> command, behind |-> <<>>]

IsCommand == [c \in Texts |-> Accepted(LineOf(c))]
AtOnce == [c \in Texts |-> ExecutedAtOnce(LineOf(c))]

(* In wisunsimd the simulator sees which commands they are.  What a client   *)
(* at a terminal types are commands.                                         *)
WebInit ==
  /\ Init
  /\ client \in Clients
  /\ texts \in IF client = "web" THEN [1..MaxSessions -> Texts] ELSE {<<>>}
  /\ IF client = "web" THEN \A n \in DOMAIN typed : typed[n] = texts[n]
     ELSE \A n \in DOMAIN typed : typed[n] \in Texts => IsCommand[typed[n]]
  /\ requests = 0
  /\ shown = <<>>

-----------------------------------------------------------------------------
(* The web server.  tool_call() is under way: *)
Waiting == requests > Len(shown)

(* Its stream has gone out of scope: the daemon meets the end of the text.   *)
Closed(n) == Len(shown) >= n

(* Whatever was printed in a session went to its client. *)
LinesTo(n) == {k \in DOMAIN printed : printed[k].session = n}

(* tool_call(): connect, send the command, without a line end. *)
Request ==
  /\ ~Waiting /\ requests < MaxSessions
  /\ requests' = requests + 1
  /\ UNCHANGED <<client, texts, shown>>

(* std::getline() returns the first line. *)
Respond ==
  /\ Waiting /\ LinesTo(requests) # {}
  /\ shown' = Append(shown, Min(LinesTo(requests)))
  /\ UNCHANGED <<client, texts, requests>>

\* A mutant: the stream has no time limit.
NeverExpire == FALSE /\ UNCHANGED webVars

(* expires_from_now(): getline() fails, the response is empty. *)
Expire ==
  /\ Waiting
  /\ shown' = Append(shown, 0)
  /\ UNCHANGED <<client, texts, requests>>

WebServerStep == client = "web" /\ (Request \/ Respond \/ Expire)

-----------------------------------------------------------------------------
(* The daemon's side of a connection. *)
WebAccept == session < requests /\ Accept

(* The scanner and the parser have read all there is; if that does not       *)
(* settle what the command is, they wait for the end of the text.            *)
Settled == AtOnce[texts[session]] \/ Closed(session)

WebParse ==
  /\ lines < session /\ Settled
  /\ IF IsCommand[texts[session]] THEN ParseOneOf({"command"}) ELSE Reject

\* A mutant: the end of the stream ends the session before the last word has
\* been parsed.
WebEndEarly == Closed(session) /\ EndSessionBy(FALSE, FALSE)

WebEnd == Closed(session) /\ lines = session /\ EndSessionBy(FALSE, FALSE)

WebServe == WebAccept \/ WebParse \/ WebEnd

(* No page asks for more, and none can stop the daemon. *)
WebFinished ==
  /\ client = "web" /\ pc["main"] = "accept" /\ session = MaxSessions
  /\ UNCHANGED <<vars, webVars>>

WebNext ==
  \/ /\ ~Crashed
     /\ \/ Lifecycle \/ Others
        \/ client = "terminal" /\ TerminalServe
        \/ client = "web" /\ WebServe
     /\ UNCHANGED webVars
  \/ WebServerStep /\ UNCHANGED vars
  \/ Finished /\ UNCHANGED webVars
  \/ WebFinished

WebSpec == WebInit /\ [][WebNext]_<<vars, webVars>>

(* The timer of the web server's stream expires; the daemon accepts a        *)
(* connection that has been made and reads a text that has been sent.  No    *)
(* page owes us a request.                                                   *)
WebFairSpec ==
  /\ WebSpec /\ Fairness
  /\ WF_webVars(client = "web" /\ Expire)
  /\ WF_vars(client = "web" /\ WebServe)

-----------------------------------------------------------------------------
(* Each text of a page that scanner and parser take for a command is at the  *)
(* simulator, or on its way there, once and in the order of the requests,    *)
(* whether or not its page is still waiting; no text is skipped, and nothing *)
(* else comes from the console.  (Which texts they take for one is another   *)
(* matter: see CommandsExecuted.)                                            *)
CommandsOfPages ==
  client = "web" =>
    LET commands == Only(sent \o inQ["ser"], Commands) \o InRouter(Commands)
        pages == IF pc["main"] \in {"accept", "loop"} THEN session ELSE lines
    IN  [k \in DOMAIN commands |-> commands[k].body[1]]
          = Only([n \in 1..pages |-> n], {n \in 1..pages : IsCommand[texts[n]]})

(* A page is shown the answer to its own command only if the command ends in *)
(* a byte.  The end of any other command is the end of the text, which is    *)
(* when the page has given up; its answer is what some later page is shown,  *)
(* as may be what the radio sends of its own accord (which has a greater     *)
(* number than any command).  No page is shown the answer to a later one's,  *)
(* or a line that another has been shown.                                    *)
AnswersOfPages ==
  \A n \in DOMAIN shown :
    shown[n] # 0 =>
      LET m == printed[shown[n]].msg.body[1]
      IN  /\ m <= MaxLines => m < n \/ (m = n /\ LineOf(texts[n]).behind # <<>>)
          /\ \A l \in 1..(n - 1) : shown[l] < shown[n]

(* Neither can the daemon, which reads until the text ends, and the web      *)
(* server, which waits for a line, wait for each other for ever, nor does a  *)
(* request wait behind those before it: every page gets a response, its      *)
(* command is executed, and the daemon is ready for the next client.         *)
PagesServed ==
  []<>(client = "web" =>
         /\ Len(shown) = requests
         /\ session = requests /\ lines = requests
         /\ pc["main"] = "accept")

-----------------------------------------------------------------------------
(* doc/commands.md:25 says of setmac that it "requires a sequence of eight   *)
(* hexadecimal numbers", and testlex.l:93 calls 0-9a-fA-F hexadecimal: a     *)
(* page's command that has been read has been executed.  This is violated by *)
(* the address that commands.md:22 shows.                                    *)
CommandsExecuted ==
  client = "web" => \A n \in 1..lines : \E i \in DOMAIN issued : issued[i].body = <<n>>
=============================================================================
