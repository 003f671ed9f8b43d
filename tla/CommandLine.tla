---------------------------- MODULE CommandLine -----------------------------
(* testlex.l and testmode.yy: which texts are commands, and when the parser  *)
(* executes them.  The scanner takes the longest match of its rules, at a    *)
(* tie that of the first rule, and so may have to wait for one character     *)
(* more than it uses.  The parser executes a command as soon as the rest of  *)
(* the input no longer matters.                                              *)
(*                                                                           *)
(* A text is a keyword and the characters behind it, which begin with a      *)
(* blank if there are any, without a line end.  Of a character only its      *)
(* class matters; `x` is any character without a rule of its own.            *)
EXTENDS Integers, SequencesExt, Filters

LowerHex == {"a-f"}
Lower == LowerHex \cup {"g-z"}
Decimal == {"0", "1-9"}
XDIGIT == Decimal \cup LowerHex \cup {"A-F"}
Blank == {" "}
Chars == Lower \cup XDIGIT \cup Blank \cup {"\n", ".", "/", "x"}

(* The rules behind those for the keywords, which are identifiers like any   *)
(* other as to where they end.                                               *)
Rules == <<"PERIOD", "DIVIDER", "ID", "HEXBYTE", "blank", "NEWLINE", "CHAR">>

Fits(rule, s) ==
  CASE rule = "PERIOD"  -> s = <<".">>
    [] rule = "DIVIDER" -> s = <<"/">>
    [] rule = "ID"      -> /\ s[1] \in Lower
                           /\ \A i \in DOMAIN s : s[i] \in Lower \cup Decimal
    [] rule = "HEXBYTE" -> Len(s) = 2 /\ {s[1], s[2]} \subseteq XDIGIT
    [] rule = "blank"   -> \A i \in DOMAIN s : s[i] \in Blank
    [] rule = "NEWLINE" -> s = <<"\n">>
    [] rule = "CHAR"    -> Len(s) = 1 /\ s # <<"\n">>

FirstFit(s) ==
  {Rules[i] : i \in {i \in DOMAIN Rules :
     Fits(Rules[i], s) /\ \A j \in 1..(i - 1) : ~Fits(Rules[j], s)}}

(* The length of the next token of s. *)
Longest(s) ==
  Max({n \in 1..Len(s) : FirstFit(SubSeq(s, 1, n)) # {}})

(* The tokens of s, each with the text it is made of. *)
Tokens(s) ==
  LET from[i \in 1..(Len(s) + 1)] ==
        IF i > Len(s) THEN <<>>
        ELSE LET text == SubSeq(s, i, i - 1 + Longest(SubSeq(s, i, Len(s))))
             IN  <<[text |-> text,
                    kind |-> CHOOSE r \in FirstFit(text) : TRUE]>>
                 \o from[i + Len(text)]
  IN  Only(from[1], {t \in Range(from[1]) : t.kind # "blank"})

(* Whether the last token might go on: the scanner then waits for what       *)
(* follows, or for the end of the stream.                                    *)
OpenEnded(text) == \E c \in Chars : Longest(Append(text, c)) > Len(text)

-----------------------------------------------------------------------------
(* What stands behind a keyword: a byte, or a number of bytes within bounds. *)
(* (`capfile` and its path are left out.)                                    *)
Operands(keyword) ==
  CASE keyword \in {"phy", "useparbs", "rank", "macsec", "maccap", "index",
                    "diag", "getzz", "ping", "pause"} -> "byte"
    [] keyword \in {"fchan", "exclude", "panid", "pansize", "routecost",
                    "netname", "data", "setmac"}      -> "bytes"
    [] OTHER                                          -> "none"

(* The keywords that are a command for the radio by themselves. *)
PlainWords == {"tr51cf", "lbr", "nlbr", "state", "buildid", "neighbors", "mac",
               "last", "restart"}

Values(line) == Tokens(line.behind)

AllBytes(tokens) == \A i \in DOMAIN tokens : tokens[i].kind = "HEXBYTE"

(* The tests in the grammar's actions. *)
NumberAccepted(keyword, tokens) ==
  CASE keyword \in {"panid", "pansize", "routecost"} -> Len(tokens) = 2
    [] keyword = "setmac"  -> Len(tokens) = 8
    [] keyword = "netname" -> Len(tokens) >= 2
    [] keyword = "exclude" -> \A i \in DOMAIN tokens : tokens[i].text # <<"0", "0">>
    [] OTHER               -> TRUE

(* The line is a command; but for `pause` and `quit` it sends something. *)
Accepted(line) ==
  LET tokens == Values(line)
  IN  /\ AllBytes(tokens)
      /\ CASE Operands(line.keyword) = "none"  -> tokens = <<>>
           [] Operands(line.keyword) = "byte"  -> Len(tokens) = 1
           [] Operands(line.keyword) = "bytes" -> /\ tokens # <<>>
                                                  /\ NumberAccepted(line.keyword, tokens)

\* A mutant: the scanner does not wait to see whether its token goes on.
ExecutedWhenComplete(line) == Accepted(line)

(* It is executed before anything that follows it has been read.  A list of  *)
(* bytes might go on, so the parser looks at the token behind it.            *)
ExecutedAtOnce(line) ==
  /\ Accepted(line)
  /\ Operands(line.keyword) # "bytes"
  /\ LET tokens == Values(line)
     IN  IF tokens = <<>> THEN FALSE ELSE ~OpenEnded(Last(tokens).text)
=============================================================================
