------------------------- MODULE WebServer_proofs --------------------------
(* Machine-checked proofs about the web server and the daemon it talks to:   *)
(* how a command is scanned; that the pages are clients of the kind the      *)
(* proofs about the daemon are about; which of their commands get to the     *)
(* daemon, and which answers get to them, for any number of requests.        *)
EXTENDS WebServer, Delivery_proofs

-----------------------------------------------------------------------------
(* The scanner. *)

(* The rules, by their place. *)
LEMMA RulesAre ==
  /\ DOMAIN Rules = 1..7
  /\ Rules[1] = "PERIOD" /\ Rules[2] = "DIVIDER" /\ Rules[3] = "ID" /\ Rules[4] = "HEXBYTE"
  /\ Rules[5] = "blank" /\ Rules[6] = "NEWLINE" /\ Rules[7] = "CHAR"
  BY DEF Rules

(* The first rule that fits, and that none does. *)
LEMMA FirstFitIs ==
  ASSUME NEW s
  PROVE  /\ \A k \in 1..7 :
              Fits(Rules[k], s) /\ (\A j \in 1..(k - 1) : ~Fits(Rules[j], s))
                => FirstFit(s) = {Rules[k]}
         /\ (\A j \in 1..7 : ~Fits(Rules[j], s)) => FirstFit(s) = {}
<1>1. DOMAIN Rules = 1..7
  BY RulesAre
<1>2. ASSUME NEW k \in 1..7, Fits(Rules[k], s), \A j \in 1..(k - 1) : ~Fits(Rules[j], s)
      PROVE  FirstFit(s) = {Rules[k]}
  <2> DEFINE I == {i \in DOMAIN Rules :
                     Fits(Rules[i], s) /\ \A j \in 1..(i - 1) : ~Fits(Rules[j], s)}
  <2>1. k \in I
    BY <1>1, <1>2
  <2>2. ASSUME NEW i \in I PROVE i = k
    <3>1. i \in 1..7 /\ Fits(Rules[i], s) /\ \A j \in 1..(i - 1) : ~Fits(Rules[j], s)
      BY <1>1
    <3>2. ~(i < k) /\ ~(k < i)
      BY <1>2, <3>1
    <3> QED
      BY <3>1, <3>2
  <2>3. I = {k}
    BY <2>1, <2>2
  <2>4. FirstFit(s) = {Rules[i] : i \in I}
    BY DEF FirstFit
  <2> HIDE DEF I
  <2> QED
    BY <2>3, <2>4
<1>3. ASSUME \A j \in 1..7 : ~Fits(Rules[j], s) PROVE FirstFit(s) = {}
  BY <1>1, <1>3 DEF FirstFit
<1> QED
  BY <1>2, <1>3

(* The greatest of a few lengths. *)
LEMMA MaxIs ==
  ASSUME NEW T \in SUBSET Int, NEW x \in T, \A y \in T : y <= x
  PROVE  Max(T) = x
<1>1. x \in T /\ \A y \in T : x >= y
  OBVIOUS
<1>2. \A z : z \in T /\ (\A y \in T : z >= y) => z = x
  <2> SUFFICES ASSUME NEW z \in T, \A y \in T : z >= y PROVE z = x
    OBVIOUS
  <2>1. z >= x /\ x >= z /\ z \in Int /\ x \in Int
    OBVIOUS
  <2> QED
    BY <2>1
<1> QED
  BY <1>1, <1>2 DEF Max

(* Parts of short texts. *)
LEMMA PartIs ==
  ASSUME NEW S, NEW s \in Seq(S), NEW m \in Int, NEW n \in Int, 1 <= m, m <= n, n <= Len(s),
         NEW t \in Seq(S), Len(t) = n - m + 1, \A i \in 1..Len(t) : t[i] = s[m + i - 1]
  PROVE  SubSeq(s, m, n) = t
<1> DEFINE u == SubSeq(s, m, n)
<1>1. \A i \in m..n : s[i] \in S
  OBVIOUS
<1>2. u \in Seq(S) /\ Len(u) = n - m + 1 /\ \A i \in 1..(n - m + 1) : u[i] = s[m + i - 1]
  BY <1>1, SubSeqProperties
<1> HIDE DEF u
<1>3. \A i \in 1..Len(u) : u[i] = t[i]
  BY <1>2
<1>4. u = t
  BY <1>2, <1>3, SeqEqual
<1> QED
  BY <1>4 DEF u

LEMMA Triples ==
  ASSUME NEW a \in Chars, NEW b \in Chars, NEW c \in Chars
  PROVE  /\ <<a>> \in Seq(Chars) /\ Len(<<a>>) = 1 /\ <<a>>[1] = a
         /\ <<a, b>> \in Seq(Chars) /\ Len(<<a, b>>) = 2 /\ <<a, b>>[1] = a /\ <<a, b>>[2] = b
         /\ <<a, b, c>> \in Seq(Chars) /\ Len(<<a, b, c>>) = 3
         /\ <<a, b, c>>[1] = a /\ <<a, b, c>>[2] = b /\ <<a, b, c>>[3] = c
  OBVIOUS

LEMMA Parts ==
  ASSUME NEW a \in Chars, NEW b \in Chars, NEW c \in Chars
  PROVE  /\ SubSeq(<<a>>, 1, 1) = <<a>>
         /\ SubSeq(<<a, b>>, 1, 1) = <<a>> /\ SubSeq(<<a, b>>, 1, 2) = <<a, b>>
         /\ SubSeq(<<a, b, c>>, 1, 1) = <<a>> /\ SubSeq(<<a, b, c>>, 1, 2) = <<a, b>>
         /\ SubSeq(<<a, b, c>>, 1, 3) = <<a, b, c>>
         /\ SubSeq(<<a, b, c>>, 2, 3) = <<b, c>> /\ SubSeq(<<a, b, c>>, 3, 3) = <<c>>
<1> DEFINE s == <<a, b, c>>
           t == <<a, b>>
           u == <<a>>
           v == <<b, c>>
           w == <<c>>
<1>1. /\ s \in Seq(Chars) /\ Len(s) = 3 /\ s[1] = a /\ s[2] = b /\ s[3] = c
      /\ t \in Seq(Chars) /\ Len(t) = 2 /\ t[1] = a /\ t[2] = b
      /\ v \in Seq(Chars) /\ Len(v) = 2 /\ v[1] = b /\ v[2] = c
      /\ u \in Seq(Chars) /\ Len(u) = 1 /\ u[1] = a
      /\ w \in Seq(Chars) /\ Len(w) = 1 /\ w[1] = c
  BY Triples
<1> HIDE DEF s, t, u, v, w
<1>2. SubSeq(u, 1, 1) = u /\ SubSeq(t, 1, 2) = t /\ SubSeq(s, 1, 3) = s
  BY <1>1, PartIs
<1>3. SubSeq(t, 1, 1) = u
  BY <1>1, PartIs
<1>4. SubSeq(s, 1, 1) = u
  BY <1>1, PartIs
<1>5. SubSeq(s, 1, 2) = t
  BY <1>1, PartIs
<1>6. SubSeq(s, 2, 3) = v
  BY <1>1, PartIs
<1>7. SubSeq(s, 3, 3) = w
  BY <1>1, PartIs
<1> QED
  BY <1>2, <1>3, <1>4, <1>5, <1>6, <1>7 DEF s, t, u, v, w

(* What the rules say. *)
LEMMA RulesSay ==
  ASSUME NEW s
  PROVE  /\ Fits("PERIOD", s) <=> s = <<".">>
         /\ Fits("DIVIDER", s) <=> s = <<"/">>
         /\ Fits("ID", s) <=> s[1] \in Lower /\ \A i \in DOMAIN s : s[i] \in Lower \cup Decimal
         /\ Fits("HEXBYTE", s) <=> Len(s) = 2 /\ {s[1], s[2]} \subseteq XDIGIT
         /\ Fits("blank", s) <=> \A i \in DOMAIN s : s[i] \in Blank
         /\ Fits("NEWLINE", s) <=> s = <<"\n">>
         /\ Fits("CHAR", s) <=> Len(s) = 1 /\ s # <<"\n">>
<1>1. Fits("PERIOD", s) <=> s = <<".">>
  BY DEF Fits
<1>2. Fits("DIVIDER", s) <=> s = <<"/">>
  BY DEF Fits
<1>3. Fits("ID", s) <=> s[1] \in Lower /\ \A i \in DOMAIN s : s[i] \in Lower \cup Decimal
  BY DEF Fits
<1>4. Fits("HEXBYTE", s) <=> Len(s) = 2 /\ {s[1], s[2]} \subseteq XDIGIT
  BY DEF Fits
<1>5. Fits("blank", s) <=> \A i \in DOMAIN s : s[i] \in Blank
  BY DEF Fits
<1>6. Fits("NEWLINE", s) <=> s = <<"\n">>
  BY DEF Fits
<1>7. Fits("CHAR", s) <=> Len(s) = 1 /\ s # <<"\n">>
  BY DEF Fits
<1> QED
  BY <1>1, <1>2, <1>3, <1>4, <1>5, <1>6, <1>7

(* Which rules a text of one, two or three characters fits. *)
LEMMA OneFits ==
  ASSUME NEW a \in Chars
  PROVE  LET s == <<a>>
         IN  /\ Fits("CHAR", s) <=> a # "\n"
             /\ Fits("ID", s) <=> a \in Lower
             /\ Fits("blank", s) <=> a = " "
             /\ ~Fits("HEXBYTE", s)
             /\ Fits("PERIOD", s) <=> a = "."
             /\ Fits("DIVIDER", s) <=> a = "/"
             /\ Fits("NEWLINE", s) <=> a = "\n"
<1> DEFINE s == <<a>>
<1>1. Len(s) = 1 /\ s[1] = a /\ DOMAIN s = {1}
  OBVIOUS
<1>2. \A b : s = <<b>> <=> a = b
  OBVIOUS
<1> HIDE DEF s
<1>3. ~Fits("HEXBYTE", s) /\ (Fits("ID", s) <=> a \in Lower)
  BY <1>1, RulesSay
<1>4. Fits("blank", s) <=> a = " "
  BY <1>1, RulesSay DEF Blank
<1>5. /\ Fits("CHAR", s) <=> a # "\n"
      /\ Fits("PERIOD", s) <=> a = "."
      /\ Fits("DIVIDER", s) <=> a = "/"
      /\ Fits("NEWLINE", s) <=> a = "\n"
  BY <1>1, <1>2, RulesSay
<1> QED
  BY <1>3, <1>4, <1>5 DEF s

LEMMA TwoFit ==
  ASSUME NEW a \in Chars, NEW b \in Chars
  PROVE  LET s == <<a, b>>
         IN  /\ Fits("HEXBYTE", s) <=> {a, b} \subseteq XDIGIT
             /\ Fits("ID", s) <=> a \in Lower /\ b \in Lower \cup Decimal
             /\ Fits("blank", s) <=> a = " " /\ b = " "
             /\ ~Fits("CHAR", s) /\ ~Fits("PERIOD", s) /\ ~Fits("DIVIDER", s)
             /\ ~Fits("NEWLINE", s)
<1> DEFINE s == <<a, b>>
<1>1. Len(s) = 2 /\ s[1] = a /\ s[2] = b /\ DOMAIN s = {1, 2}
  OBVIOUS
<1>2. \A c : s # <<c>>
  OBVIOUS
<1> HIDE DEF s
<1>3. /\ Fits("HEXBYTE", s) <=> {a, b} \subseteq XDIGIT
      /\ Fits("ID", s) <=> a \in Lower /\ b \in Lower \cup Decimal
  BY <1>1, RulesSay
<1>4. Fits("blank", s) <=> a = " " /\ b = " "
  BY <1>1, RulesSay DEF Blank
<1>5. ~Fits("CHAR", s) /\ ~Fits("PERIOD", s) /\ ~Fits("DIVIDER", s) /\ ~Fits("NEWLINE", s)
  BY <1>1, <1>2, RulesSay
<1> QED
  BY <1>3, <1>4, <1>5 DEF s

LEMMA ThreeFit ==
  ASSUME NEW a \in Chars, NEW b \in Chars, NEW c \in Chars
  PROVE  LET s == <<a, b, c>>
         IN  /\ ~Fits("HEXBYTE", s) /\ ~Fits("CHAR", s) /\ ~Fits("PERIOD", s)
             /\ ~Fits("DIVIDER", s) /\ ~Fits("NEWLINE", s)
             /\ Fits("ID", s) => a \in Lower /\ b \in Lower \cup Decimal
             /\ Fits("blank", s) => a = " " /\ b = " "
<1> DEFINE s == <<a, b, c>>
<1>0. s \in Seq(Chars) /\ Len(s) = 3 /\ s[1] = a /\ s[2] = b /\ s[3] = c
  BY Triples
<1> HIDE DEF s
<1>1. 1 \in DOMAIN s /\ 2 \in DOMAIN s
  BY <1>0
<1>2. \A d : s # <<d>>
  <2> SUFFICES ASSUME NEW d, s = <<d>> PROVE FALSE
    OBVIOUS
  <2>1. Len(<<d>>) = 1
    OBVIOUS
  <2> QED
    BY <1>0, <2>1
<1>3. ~Fits("HEXBYTE", s) /\ (Fits("ID", s) => a \in Lower /\ b \in Lower \cup Decimal)
  <2>1. Fits("HEXBYTE", s) => Len(s) = 2
    BY RulesSay
  <2>2. Fits("ID", s) => s[1] \in Lower /\ s[2] \in Lower \cup Decimal
    BY <1>1, RulesSay
  <2> QED
    BY <1>0, <2>1, <2>2
<1>4. Fits("blank", s) => a = " " /\ b = " "
  <2>1. Fits("blank", s) => s[1] \in Blank /\ s[2] \in Blank
    BY <1>1, RulesSay
  <2> QED
    BY <1>0, <2>1 DEF Blank
<1>5. ~Fits("CHAR", s) /\ ~Fits("PERIOD", s) /\ ~Fits("DIVIDER", s) /\ ~Fits("NEWLINE", s)
  BY <1>0, <1>2, RulesSay
<1> QED
  BY <1>3, <1>4, <1>5 DEF s

(* Two digits are a byte, unless the first rule that fits takes them for an  *)
(* identifier.                                                               *)
KindOf(c, d) ==
  IF c \in Lower /\ d \in Lower \cup Decimal THEN "ID" ELSE "HEXBYTE"

(* What behind a blank and two digits is a token. *)
LEMMA DigitsFit ==
  ASSUME NEW c \in XDIGIT, NEW d \in XDIGIT, NEW e \in Chars
  PROVE  /\ FirstFit(<<" ">>) = {"blank"}
         /\ FirstFit(<<" ", c>>) = {} /\ FirstFit(<<" ", c, d>>) = {}
         /\ FirstFit(<<c, d>>) = {KindOf(c, d)}
         /\ FirstFit(<<d>>) # {}
         /\ KindOf(c, d) = "HEXBYTE" => FirstFit(<<c, d, e>>) = {}
<1>0. /\ c \in Chars /\ d \in Chars /\ " " \in Chars
      /\ c # " " /\ c # "\n" /\ d # "\n" /\ d # " " /\ d # "." /\ d # "/"
      /\ " " \notin Lower /\ " " \notin XDIGIT /\ " " # "\n" /\ " " # "." /\ " " # "/"
  BY DEF XDIGIT, Chars, Decimal, LowerHex, Lower, Blank
<1>r. /\ DOMAIN Rules = 1..7
      /\ Rules[1] = "PERIOD" /\ Rules[2] = "DIVIDER" /\ Rules[3] = "ID" /\ Rules[4] = "HEXBYTE"
      /\ Rules[5] = "blank" /\ Rules[6] = "NEWLINE" /\ Rules[7] = "CHAR"
  BY RulesAre
<1>1. FirstFit(<<" ">>) = {"blank"}
  <2> DEFINE s == <<" ">>
  <2>1. /\ Fits("blank", s) /\ ~Fits("PERIOD", s) /\ ~Fits("DIVIDER", s) /\ ~Fits("ID", s)
        /\ ~Fits("HEXBYTE", s)
    BY <1>0, OneFits
  <2> HIDE DEF s
  <2>2. Fits(Rules[5], s) /\ \A j \in 1..(5 - 1) : ~Fits(Rules[j], s)
    BY <1>r, <2>1
  <2>3. FirstFit(s) = {Rules[5]}
    BY <2>2, FirstFitIs
  <2> QED
    BY <1>r, <2>3 DEF s
<1>2. FirstFit(<<" ", c>>) = {}
  <2> DEFINE s == <<" ", c>>
  <2>1. /\ ~Fits("blank", s) /\ ~Fits("PERIOD", s) /\ ~Fits("DIVIDER", s) /\ ~Fits("ID", s)
        /\ ~Fits("HEXBYTE", s) /\ ~Fits("NEWLINE", s) /\ ~Fits("CHAR", s)
    BY <1>0, TwoFit
  <2> HIDE DEF s
  <2>2. \A j \in 1..7 : ~Fits(Rules[j], s)
    BY <1>r, <2>1
  <2> QED
    BY <2>2, FirstFitIs DEF s
<1>3. FirstFit(<<" ", c, d>>) = {}
  <2> DEFINE s == <<" ", c, d>>
  <2>1. /\ ~Fits("blank", s) /\ ~Fits("PERIOD", s) /\ ~Fits("DIVIDER", s) /\ ~Fits("ID", s)
        /\ ~Fits("HEXBYTE", s) /\ ~Fits("NEWLINE", s) /\ ~Fits("CHAR", s)
    BY <1>0, ThreeFit
  <2> HIDE DEF s
  <2>2. \A j \in 1..7 : ~Fits(Rules[j], s)
    BY <1>r, <2>1
  <2> QED
    BY <2>2, FirstFitIs DEF s
<1>4. FirstFit(<<c, d>>) = {KindOf(c, d)}
  <2> DEFINE s == <<c, d>>
             id == c \in Lower /\ d \in Lower \cup Decimal
  <2>0. {c, d} \subseteq XDIGIT
    OBVIOUS
  <2>a. Fits("HEXBYTE", s) <=> {c, d} \subseteq XDIGIT
    BY <1>0, TwoFit
  <2>b. ~Fits("PERIOD", s) /\ ~Fits("DIVIDER", s) /\ (Fits("ID", s) <=> id)
    BY <1>0, TwoFit
  <2>1. ~Fits("PERIOD", s) /\ ~Fits("DIVIDER", s) /\ Fits("HEXBYTE", s) /\ (Fits("ID", s) <=> id)
    BY <2>0, <2>a, <2>b
  <2>2. KindOf(c, d) = IF id THEN "ID" ELSE "HEXBYTE"
    BY DEF KindOf
  <2> HIDE DEF s, id
  <2>3. CASE id
    <3>1. Fits(Rules[3], s) /\ \A j \in 1..(3 - 1) : ~Fits(Rules[j], s)
      BY <1>r, <2>1, <2>3
    <3>2. FirstFit(s) = {Rules[3]}
      BY <3>1, FirstFitIs
    <3> QED
      BY <1>r, <2>2, <2>3, <3>2 DEF s
  <2>4. CASE ~id
    <3>1. Fits(Rules[4], s) /\ \A j \in 1..(4 - 1) : ~Fits(Rules[j], s)
      BY <1>r, <2>1, <2>4
    <3>2. FirstFit(s) = {Rules[4]}
      BY <3>1, FirstFitIs
    <3> QED
      BY <1>r, <2>2, <2>4, <3>2 DEF s
  <2> QED
    BY <2>3, <2>4
<1>5. FirstFit(<<d>>) # {}
  <2> DEFINE s == <<d>>
  <2>1. /\ ~Fits("blank", s) /\ ~Fits("PERIOD", s) /\ ~Fits("DIVIDER", s)
        /\ ~Fits("HEXBYTE", s) /\ ~Fits("NEWLINE", s) /\ Fits("CHAR", s)
    BY <1>0, OneFits
  <2> HIDE DEF s
  <2>2. CASE Fits("ID", s)
    <3>1. Fits(Rules[3], s) /\ \A j \in 1..(3 - 1) : ~Fits(Rules[j], s)
      BY <1>r, <2>1, <2>2
    <3>2. FirstFit(s) = {Rules[3]}
      BY <3>1, FirstFitIs
    <3> QED
      BY <3>2 DEF s
  <2>3. CASE ~Fits("ID", s)
    <3>1. Fits(Rules[7], s) /\ \A j \in 1..(7 - 1) : ~Fits(Rules[j], s)
      BY <1>r, <2>1, <2>3
    <3>2. FirstFit(s) = {Rules[7]}
      BY <3>1, FirstFitIs
    <3> QED
      BY <3>2 DEF s
  <2> QED
    BY <2>2, <2>3
<1>6. ASSUME KindOf(c, d) = "HEXBYTE" PROVE FirstFit(<<c, d, e>>) = {}
  <2> DEFINE s == <<c, d, e>>
  <2>0. ~(c \in Lower /\ d \in Lower \cup Decimal)
    BY <1>6 DEF KindOf
  <2>1. /\ ~Fits("blank", s) /\ ~Fits("PERIOD", s) /\ ~Fits("DIVIDER", s) /\ ~Fits("ID", s)
        /\ ~Fits("HEXBYTE", s) /\ ~Fits("NEWLINE", s) /\ ~Fits("CHAR", s)
    BY <1>0, <2>0, ThreeFit
  <2> HIDE DEF s
  <2>2. \A j \in 1..7 : ~Fits(Rules[j], s)
    BY <1>r, <2>1
  <2> QED
    BY <2>2, FirstFitIs DEF s
<1> QED
  BY <1>1, <1>2, <1>3, <1>4, <1>5, <1>6

(* The length of a token, from the prefixes that are one. *)
Fit(s, n) == FirstFit(SubSeq(s, 1, n)) # {}

LEMMA LongestIs ==
  ASSUME NEW s, NEW l \in Nat, Len(s) = l, NEW n \in 1..l, Fit(s, n),
         \A k \in (n + 1)..l : ~Fit(s, k)
  PROVE  Longest(s) = n
<1> DEFINE fit == {k \in 1..l : Fit(s, k)}
<1>1. n \in fit
  OBVIOUS
<1>2. fit \in SUBSET Int
  OBVIOUS
<1>3. ASSUME NEW k \in fit PROVE k <= n
  <2>1. k \in 1..l /\ k \notin (n + 1)..l
    OBVIOUS
  <2> QED
    BY <2>1
<1>4. Longest(s) = Max(fit)
  BY DEF Longest, Fit
<1> HIDE DEF fit
<1> QED
  BY <1>1, <1>2, <1>3, <1>4, MaxIs

(* The lengths of the tokens. *)
LEMMA DigitsMeasured ==
  ASSUME NEW c \in XDIGIT, NEW d \in XDIGIT, NEW e \in Chars
  PROVE  /\ Longest(<<" ", c, d>>) = 1 /\ Longest(<<c, d>>) = 2 /\ Longest(<<d>>) = 1
         /\ KindOf(c, d) = "HEXBYTE" => Longest(<<c, d, e>>) = 2
<1>0. c \in Chars /\ d \in Chars /\ " " \in Chars
  BY DEF XDIGIT, Chars, Blank
<1>1. Longest(<<" ", c, d>>) = 1
  <2> DEFINE s == <<" ", c, d>>
  <2>1. SubSeq(s, 1, 1) = <<" ">> /\ SubSeq(s, 1, 2) = <<" ", c>> /\ SubSeq(s, 1, 3) = s
    BY <1>0, Parts
  <2>2. Len(s) = 3
    BY <1>0, Triples
  <2>3. FirstFit(s) = {} /\ FirstFit(<<" ", c>>) = {} /\ FirstFit(<<" ">>) # {}
    BY DigitsFit
  <2> HIDE DEF s
  <2>4. Fit(s, 1) /\ ~Fit(s, 2) /\ ~Fit(s, 3)
    BY <2>1, <2>3, Zenon DEF Fit
  <2>5. \A k \in (1 + 1)..3 : ~Fit(s, k)
    BY <2>4
  <2>6. 3 \in Nat /\ 1 \in 1..3 /\ \A k \in (1 + 1)..3 : ~Fit(s, k)
    BY <2>5
  <2>7. Longest(s) = 1
    BY <2>2, <2>4, <2>6, LongestIs
  <2> QED
    BY <2>7 DEF s
<1>2. Longest(<<c, d>>) = 2
  <2> DEFINE s == <<c, d>>
  <2>1. SubSeq(s, 1, 2) = s /\ Len(s) = 2
    BY <1>0, Parts, Triples
  <2>2. FirstFit(s) # {}
    BY DigitsFit
  <2> HIDE DEF s
  <2>3. Fit(s, 2)
    BY <2>1, <2>2, Zenon DEF Fit
  <2>6. 2 \in Nat /\ 2 \in 1..2 /\ \A k \in (2 + 1)..2 : ~Fit(s, k)
    OBVIOUS
  <2>7. Longest(s) = 2
    BY <2>1, <2>3, <2>6, LongestIs
  <2> QED
    BY <2>7 DEF s
<1>3. Longest(<<d>>) = 1
  <2> DEFINE s == <<d>>
  <2>1. SubSeq(s, 1, 1) = s /\ Len(s) = 1
    BY <1>0, Parts, Triples
  <2>2. FirstFit(s) # {}
    BY DigitsFit
  <2> HIDE DEF s
  <2>3. Fit(s, 1)
    BY <2>1, <2>2, Zenon DEF Fit
  <2>6. 1 \in Nat /\ 1 \in 1..1 /\ \A k \in (1 + 1)..1 : ~Fit(s, k)
    OBVIOUS
  <2>7. Longest(s) = 1
    BY <2>1, <2>3, <2>6, LongestIs
  <2> QED
    BY <2>7 DEF s
<1>4. ASSUME KindOf(c, d) = "HEXBYTE" PROVE Longest(<<c, d, e>>) = 2
  <2> DEFINE s == <<c, d, e>>
  <2>1. SubSeq(s, 1, 2) = <<c, d>> /\ SubSeq(s, 1, 3) = s
    BY <1>0, Parts
  <2>2. Len(s) = 3
    BY <1>0, Triples
  <2>3. FirstFit(s) = {} /\ FirstFit(<<c, d>>) # {}
    BY <1>4, DigitsFit
  <2> HIDE DEF s
  <2>4. Fit(s, 2) /\ ~Fit(s, 3)
    BY <2>1, <2>3, Zenon DEF Fit
  <2>5. \A k \in (2 + 1)..3 : ~Fit(s, k)
    BY <2>4
  <2>6. 3 \in Nat /\ 2 \in 1..3 /\ \A k \in (2 + 1)..3 : ~Fit(s, k)
    BY <2>5
  <2>7. Longest(s) = 2
    BY <2>2, <2>4, <2>6, LongestIs
  <2> QED
    BY <2>7 DEF s
<1> QED
  BY <1>1, <1>2, <1>3, <1>4

(* f is the table of the tokens from each character of s on.                 *)
TextAt(s, i) == SubSeq(s, i, i - 1 + Longest(SubSeq(s, i, Len(s))))

TokenAt(s, i) == [text |-> TextAt(s, i), kind |-> CHOOSE r \in FirstFit(TextAt(s, i)) : TRUE]

Scans(f, s) ==
  f = [i \in 1..(Len(s) + 1) |->
         IF i > Len(s) THEN <<>> ELSE <<TokenAt(s, i)>> \o f[i + Len(TextAt(s, i))]]

(* All that are not blanks. *)
Visible(ts) == Only(ts, {t \in Range(ts) : t.kind # "blank"})

(* Tokens() is the first entry of the table. *)
LEMMA TokensAre ==
  ASSUME NEW s, NEW v, \E f : Scans(f, s), \A f : Scans(f, s) => f[1] = v
  PROVE  Tokens(s) = Visible(v)
<1> DEFINE g == CHOOSE f : Scans(f, s)
<1>1. Scans(g, s)
  OBVIOUS
<1>2. Tokens(s) = Visible(g[1])
  BY DEF Tokens, Visible, Scans, TokenAt, TextAt
<1> HIDE DEF g
<1>3. g[1] = v
  BY <1>1
<1> QED
  BY <1>2, <1>3

(* Of no text. *)
LEMMA NoTokens == Tokens(<<>>) = <<>>
<1> DEFINE g == [i \in 1..1 |-> <<>>]
<1>1. ASSUME NEW f PROVE Scans(f, <<>>) <=> f = g
  <2>1. Len(<<>>) = 0
    OBVIOUS
  <2>2. [i \in 1..(Len(<<>>) + 1) |-> IF i > Len(<<>>) THEN <<>>
           ELSE <<TokenAt(<<>>, i)>> \o f[i + Len(TextAt(<<>>, i))]] = g
    BY <2>1
  <2> HIDE DEF g
  <2> QED
    BY <2>2 DEF Scans
<1>2. g[1] = <<>>
  OBVIOUS
<1> HIDE DEF g
<1>3. Tokens(<<>>) = Visible(<<>>)
  BY <1>1, <1>2, TokensAre
<1> QED
  BY <1>3, OnlyEmpty DEF Visible

LEMMA CatOfTwo ==
  ASSUME NEW S, NEW a \in Seq(S), NEW b \in Seq(S), Len(a) = 1, Len(b) = 1
  PROVE  Cat(a, b) \in Seq(S) /\ Len(Cat(a, b)) = 2 /\ Cat(a, b)[2] = b[1]
<1>1. Cat(a, b) \in Seq(S)
  BY DEF Cat
<1>2. Len(Cat(a, b)) = 2
  BY DEF Cat
<1>3. Cat(a, b)[2] = b[1]
  <2>1. \A i \in 1..(Len(a) + Len(b)) :
          (a \o b)[i] = IF i <= Len(a) THEN a[i] ELSE b[i - Len(a)]
    BY ConcatProperties
  <2>2. Cat(a, b)[2] = IF 2 <= Len(a) THEN a[2] ELSE b[2 - Len(a)]
    BY <2>1 DEF Cat
  <2> QED
    BY <2>2
<1> QED
  BY <1>1, <1>2, <1>3

(* Two digits behind a blank are one token. *)
Token(c, d) == [text |-> <<c, d>>, kind |-> KindOf(c, d)]

LEMMA DigitsScanned ==
  ASSUME NEW c \in XDIGIT, NEW d \in XDIGIT
  PROVE  Tokens(<<" ", c, d>>) = <<Token(c, d)>>
<1> DEFINE s == <<" ", c, d>>
           x == TokenAt(s, 1)
           y == TokenAt(s, 2)
           z == TokenAt(s, 3)
<1>0. c \in Chars /\ d \in Chars /\ " " \in Chars
  BY DEF XDIGIT, Chars, Blank
<1>1. /\ Len(s) = 3 /\ SubSeq(s, 1, 3) = s /\ SubSeq(s, 2, 3) = <<c, d>> /\ SubSeq(s, 3, 3) = <<d>>
      /\ SubSeq(s, 1, 1) = <<" ">>
      /\ Longest(s) = 1 /\ Longest(<<c, d>>) = 2 /\ Longest(<<d>>) = 1
  <2>1. Len(s) = 3
    BY <1>0, Triples
  <2>2. /\ SubSeq(s, 1, 3) = s /\ SubSeq(s, 2, 3) = <<c, d>> /\ SubSeq(s, 3, 3) = <<d>>
        /\ SubSeq(s, 1, 1) = <<" ">>
    BY <1>0, Parts
  <2>3. Longest(s) = 1 /\ Longest(<<c, d>>) = 2 /\ Longest(<<d>>) = 1
    BY <1>0, DigitsMeasured
  <2> HIDE DEF s
  <2> QED
    BY <2>1, <2>2, <2>3
<1>2. Len(<<" ">>) = 1 /\ Len(<<c, d>>) = 2 /\ Len(<<d>>) = 1
  BY <1>0, Triples
<1> HIDE DEF s
<1>3. TextAt(s, 1) = <<" ">> /\ TextAt(s, 2) = <<c, d>> /\ TextAt(s, 3) = <<d>>
  <2>1. 1 - 1 + 1 = 1 /\ 2 - 1 + 2 = 3 /\ 3 - 1 + 1 = 3
    OBVIOUS
  <2> QED
    BY <1>1, <2>1 DEF TextAt
<1>4. FirstFit(<<" ">>) = {"blank"} /\ FirstFit(<<c, d>>) = {KindOf(c, d)}
  BY <1>0, DigitsFit
<1>5. x.kind = "blank" /\ y = Token(c, d)
  <2>1. x = [text |-> <<" ">>, kind |-> "blank"]
    BY <1>3, <1>4 DEF TokenAt
  <2>2. y = Token(c, d)
    <3> DEFINE k == KindOf(c, d)
    <3>1. (CHOOSE r \in {k} : TRUE) = k
      OBVIOUS
    <3> HIDE DEF k
    <3>2. y = [text |-> <<c, d>>, kind |-> CHOOSE r \in {k} : TRUE]
      BY <1>3, <1>4 DEF TokenAt, k
    <3> HIDE DEF y
    <3> QED
      BY <3>1, <3>2 DEF Token, k
  <2> HIDE DEF x
  <2>3. x.kind = "blank"
    BY <2>1
  <2> QED
    BY <2>2, <2>3
<1>6. y.kind # "blank"
  BY <1>5 DEF Token, KindOf
<1> HIDE DEF x, y, z
<1> DEFINE entry(f, i) == IF i > Len(s) THEN <<>> ELSE <<TokenAt(s, i)>> \o f[i + Len(TextAt(s, i))]
<1>7. ASSUME NEW f
      PROVE  /\ entry(f, 1) = <<x>> \o f[2] /\ entry(f, 2) = <<y>> \o f[4]
             /\ entry(f, 3) = <<z>> \o f[4] /\ entry(f, 4) = <<>>
  <2>1. 1 + 1 = 2 /\ 2 + 2 = 4 /\ 3 + 1 = 4 /\ ~(1 > 3) /\ ~(2 > 3) /\ ~(3 > 3) /\ 4 > 3
    OBVIOUS
  <2> QED
    BY <1>1, <1>2, <1>3, <2>1 DEF x, y, z
<1>8. \A f : Scans(f, s) <=> f = [i \in 1..4 |-> entry(f, i)]
  <2>0. Len(s) = 3
    BY <1>1, Zenon
  <2>1. Len(s) + 1 = 4
    BY <2>0
  <2>2. ASSUME NEW f PROVE Scans(f, s) <=> f = [i \in 1..(Len(s) + 1) |-> entry(f, i)]
    BY DEF Scans
  <2> HIDE DEF entry
  <2> QED
    BY <2>1, <2>2
<1> HIDE DEF entry
<1>9. ASSUME NEW f, Scans(f, s) PROVE f[1] = <<x>> \o <<y>>
  <2>1. \A i \in 1..4 : f[i] = entry(f, i)
    <3> DEFINE h == [i \in 1..4 |-> entry(f, i)]
    <3>1. f = h
      BY <1>8, <1>9
    <3>2. \A i \in 1..4 : h[i] = entry(f, i)
      OBVIOUS
    <3> HIDE DEF h
    <3> QED
      BY <3>1, <3>2
  <2>0. f[1] = entry(f, 1) /\ f[2] = entry(f, 2) /\ f[4] = entry(f, 4)
    BY <2>1
  <2>2. f[4] = <<>> /\ f[2] = <<y>> \o f[4] /\ f[1] = <<x>> \o f[2]
    BY <1>7, <2>0, Zenon
  <2>3. f[2] = <<y>>
    BY <2>2
  <2> QED
    BY <2>2, <2>3
<1>10. \E f : Scans(f, s)
  <2> DEFINE g == [i \in 1..4 |-> IF i = 4 THEN <<>> ELSE IF i = 3 THEN <<z>>
                                  ELSE IF i = 2 THEN <<y>> ELSE <<x>> \o <<y>>]
  <2>1. g[1] = <<x>> \o <<y>> /\ g[2] = <<y>> /\ g[3] = <<z>> /\ g[4] = <<>>
    OBVIOUS
  <2>2. g = [i \in 1..4 |-> g[i]]
    OBVIOUS
  <2> HIDE DEF g
  <2>3. <<y>> \o <<>> = <<y>> /\ <<z>> \o <<>> = <<z>>
    OBVIOUS
  <2>4. g[1] = entry(g, 1) /\ g[2] = entry(g, 2) /\ g[3] = entry(g, 3) /\ g[4] = entry(g, 4)
    BY <1>7, <2>1, <2>3
  <2>5. \A i \in 1..4 : g[i] = entry(g, i)
    BY <2>4
  <2>6. g = [i \in 1..4 |-> entry(g, i)]
    BY <2>2, <2>5
  <2> QED
    BY <1>8, <2>6
<1>11. Tokens(s) = Visible(<<x>> \o <<y>>)
  BY <1>9, <1>10, TokensAre
<1>12. Visible(<<x>> \o <<y>>) = <<y>>
  <2> DEFINE S == {x, y}
             a == One(x)
             b == One(y)
             ts == Cat(a, b)
             T == {t \in Range(ts) : t.kind # "blank"}
  <2>1. <<x>> \in Seq(S) /\ <<y>> \in Seq(S) /\ Len(<<x>>) = 1 /\ Len(<<y>>) = 1
        /\ <<x>>[1] = x /\ <<y>>[1] = y
    OBVIOUS
  <2>2. a \in Seq(S) /\ b \in Seq(S) /\ Len(a) = 1 /\ Len(b) = 1 /\ a[1] = x /\ b[1] = y
    BY <2>1 DEF One
  <2> HIDE DEF a, b
  <2>3. ts \in Seq(S) /\ Len(ts) = 2 /\ ts[2] = y
    BY <2>2, CatOfTwo
  <2> HIDE DEF S, T, ts
  <2>4. 2 \in DOMAIN ts
    BY <2>3
  <2>5. y \in Range(ts)
    BY <2>3, <2>4 DEF Range
  <2>6. x \notin T /\ y \in T
    BY <1>5, <1>6, <2>5 DEF T
  <2>7. Only(ts, T) = Cat(Only(a, T), Only(b, T))
    BY <2>2, OnlyCat DEF ts
  <2>8. Only(a, T) = None /\ Only(b, T) = b
    BY <2>6, OnlySingle DEF a, b
  <2>9. Only(ts, T) = b
    BY <2>2, <2>7, <2>8, CatNone
  <2> QED
    BY <2>9 DEF Visible, T, ts, Cat, a, b, One
<1> QED
  BY <1>5, <1>11, <1>12 DEF s

-----------------------------------------------------------------------------
(* The parser. *)

(* The scanner does not wait behind a byte, as no token of three characters  *)
(* begins with one.                                                          *)
LEMMA BytesEnd ==
  ASSUME NEW c \in XDIGIT, NEW d \in XDIGIT, KindOf(c, d) = "HEXBYTE"
  PROVE  ~OpenEnded(<<c, d>>)
<1>0. c \in Chars /\ d \in Chars
  BY DEF XDIGIT, Chars
<1>1. ASSUME NEW e \in Chars PROVE Append(<<c, d>>, e) = <<c, d, e>>
  <2> DEFINE two == <<c, d>>
             three == <<c, d, e>>
             longer == Append(two, e)
  <2>1. two \in Seq(Chars) /\ Len(two) = 2 /\ two[1] = c /\ two[2] = d
    BY <1>0
  <2>2. three = [i \in 1..3 |-> three[i]] /\ three[1] = c /\ three[2] = d /\ three[3] = e
    OBVIOUS
  <2> HIDE DEF two, three
  <2>3. longer = [i \in 1..3 |-> IF i = 3 THEN e ELSE two[i]]
    <3> DEFINE n == Len(two)
               appended(k) == [i \in 1..k |-> IF i = k THEN e ELSE two[i]]
    <3>1. longer = appended(n + 1)
      <4>1. two \in Seq(Chars)
        BY <2>1, Zenon
      <4>2. \A t \in Seq(Chars) : Append(t, e)
              = [k \in 1..(Len(t) + 1) |-> IF k = Len(t) + 1 THEN e ELSE t[k]]
        BY AppendAsFunction
      <4> QED
        BY <4>1, <4>2, Zenon
    <3>2. n + 1 = 3
      BY <2>1
    <3> HIDE DEF n, appended
    <3>3. longer = appended(3)
      BY <3>1, <3>2, Zenon
    <3> QED
      BY <3>3 DEF appended
  <2>4. \A i \in 1..3 : (IF i = 3 THEN e ELSE two[i]) = three[i]
    BY <2>1, <2>2
  <2> HIDE DEF longer
  <2>5. longer = three
    BY <2>2, <2>3, <2>4
  <2> QED
    BY <2>5 DEF longer, two, three
<1>2. ASSUME NEW e \in Chars PROVE Longest(<<c, d, e>>) = 2
  BY DigitsMeasured
<1>3. Len(<<c, d>>) = 2
  BY <1>0, Triples
<1>4. ASSUME NEW e \in Chars PROVE ~(Longest(Append(<<c, d>>, e)) > Len(<<c, d>>))
  <2>1. Longest(Append(<<c, d>>, e)) = 2
    BY <1>1, <1>2, Zenon
  <2> DEFINE l == Longest(Append(<<c, d>>, e))
             m == Len(<<c, d>>)
  <2>2. l = 2 /\ m = 2
    BY <1>3, <2>1
  <2> HIDE DEF l, m
  <2>3. ~(l > m)
    BY <2>2
  <2> QED
    BY <2>3 DEF l, m
<1> QED
  BY <1>4 DEF OpenEnded

(* A command that takes a byte is accepted with any but those that the       *)
(* scanner takes for an identifier (a small letter and then a small letter   *)
(* or a decimal digit), and is executed as soon as its second digit has been *)
(* read.                                                                     *)
THEOREM BytesAccepted ==
  ASSUME NEW keyword, Operands(keyword) = "byte", NEW c \in XDIGIT, NEW d \in XDIGIT
  PROVE  LET line == [keyword |-> keyword, behind |-> <<" ", c, d>>]
         IN  /\ Accepted(line) <=> ~(c \in Lower /\ d \in Lower \cup Decimal)
             /\ ExecutedAtOnce(line) <=> Accepted(line)
<1> DEFINE line == [keyword |-> keyword, behind |-> <<" ", c, d>>]
           t == Token(c, d)
           ts == <<t>>
<1>1. line.keyword = keyword /\ line.behind = <<" ", c, d>>
  OBVIOUS
<1>2. Values(line) = ts
  BY DigitsScanned DEF Values
<1>3. t.kind = KindOf(c, d) /\ t.text = <<c, d>>
  BY DEF Token
<1>4. KindOf(c, d) = "HEXBYTE" <=> ~(c \in Lower /\ d \in Lower \cup Decimal)
  BY DEF KindOf
<1> HIDE DEF t, line
<1>5. Len(ts) = 1 /\ ts[1] = t /\ DOMAIN ts = {1} /\ ts # <<>>
  OBVIOUS
<1>6. Last(ts) = t
  BY <1>5 DEF Last
<1> HIDE DEF ts
<1>7. AllBytes(ts) <=> KindOf(c, d) = "HEXBYTE"
  BY <1>3, <1>5 DEF AllBytes
<1>8. Accepted(line) <=> KindOf(c, d) = "HEXBYTE"
  BY <1>1, <1>2, <1>5, <1>7 DEF Accepted
<1>9. ExecutedAtOnce(line) <=> Accepted(line)
  <2>1. ASSUME Accepted(line) PROVE ~OpenEnded(Last(ts).text)
    BY <1>3, <1>6, <1>8, <2>1, BytesEnd
  <2>2. ExecutedAtOnce(line) <=> Accepted(line) /\ ~OpenEnded(Last(ts).text)
    BY <1>1, <1>2, <1>5 DEF ExecutedAtOnce
  <2> QED
    BY <2>1, <2>2
<1> QED
  BY <1>4, <1>8, <1>9 DEF line

(* A text that is settled before its end has operands: a word by itself is   *)
(* not settled until the text ends.                                          *)
LEMMA SettledEarly ==
  ASSUME NEW c \in Texts, AtOnce[c]
  PROVE  LineOf(c).behind # <<>>
<1> DEFINE line == LineOf(c)
<1>1. ExecutedAtOnce(line)
  BY DEF AtOnce
<1> HIDE DEF line
<1>2. Values(line) # <<>>
  BY <1>1 DEF ExecutedAtOnce
<1>3. line.behind # <<>>
  BY <1>2, NoTokens DEF Values
<1> QED
  BY <1>3 DEF line

-----------------------------------------------------------------------------
(* What holds among clients of any kind holds among these.                   *)

(* People at a terminal are such clients: the last session ends with `quit`  *)
(* and lines that send nothing are left out.                                 *)
THEOREM TerminalsAreClients == TerminalSpec => Spec
<1>1. TerminalNext => Next
  BY DEF TerminalNext, TerminalServe, Next, Main, Serve
<1> QED
  BY <1>1, PTL DEF TerminalSpec, Spec

(* A page gives commands that the daemon's clients may give. *)
LEMMA PagesCommand ==
  ASSUME "command" \in Lines, ParseOneOf({"command"})
  PROVE  Parse
<1>1. ParseLine({"command"}) => ParseLine(Lines)
  BY DEF ParseLine
<1> QED
  BY <1>1 DEF Parse, ParseOneOf

(* Every step of the daemon among the pages is one it may take. *)
LEMMA WebStepIsStep ==
  ASSUME client \in Clients, [WebNext]_<<vars, webVars>>
  PROVE  [Next]_vars
<1>1. CASE ~Crashed /\ (Lifecycle \/ Others)
  BY <1>1 DEF Next, Main
<1>2. CASE ~Crashed /\ client = "terminal" /\ TerminalServe
  BY <1>2 DEF TerminalServe, Next, Main, Serve
<1>3. CASE ~Crashed /\ client = "web" /\ WebServe
  <2>1. "command" \in Lines
    BY <1>3, PagesAssumption
  <2>2. WebParse => Parse \/ Reject
    BY <2>1, PagesCommand DEF WebParse
  <2>3. WebAccept => Accept
    BY DEF WebAccept
  <2>4. WebEnd => EndSession
    BY DEF WebEnd, EndSession
  <2> QED
    BY <1>3, <2>2, <2>3, <2>4 DEF WebServe, Next, Main, Serve
<1>4. CASE WebServerStep /\ UNCHANGED vars
  BY <1>4
<1>5. CASE Finished /\ UNCHANGED webVars
  BY <1>5 DEF Next
<1>6. CASE WebFinished
  BY <1>6 DEF WebFinished
<1>7. CASE UNCHANGED <<vars, webVars>>
  BY <1>7
<1> QED
  BY <1>1, <1>2, <1>3, <1>4, <1>5, <1>6, <1>7 DEF WebNext

(* So are the pages: the daemon with the web server does only what the       *)
(* daemon alone may do, and all that is proved of it is true of it here.     *)
THEOREM PagesAreClients == WebSpec => Spec
<1>1. WebInit => Init /\ client \in Clients
  BY DEF WebInit
<1>2. client \in Clients /\ [WebNext]_<<vars, webVars>> => (client \in Clients)'
  BY DEF WebNext, WebServerStep, Request, Respond, Expire, WebFinished, webVars
<1>3. client \in Clients /\ [WebNext]_<<vars, webVars>> => [Next]_vars
  BY WebStepIsStep
<1> QED
  BY <1>1, <1>2, <1>3, PTL DEF WebSpec, Spec

-----------------------------------------------------------------------------
(* The numbers of the messages. *)

(* All of it is numbered by a command that has been given, or by more than   *)
(* any command: what the radio sends of its own accord.                      *)
Of(k) == {m \in Message : m.body # <<>> /\ m.body[1] \in 1..k}

Heard(k) == {m \in Message : m.body # <<>> /\ (m.body[1] \in 1..k \/ m.body[1] > MaxLines)}

(* What makes RepliesNumbered inductive. *)
NumbersOK ==
  /\ issued \in Seq(Of(lines))
  /\ port \in Seq(Heard(lines)) /\ received \in Seq(Heard(lines))
  /\ NonEmpty(lastMessage) => lastMessage \in Of(lines)

(* More commands, more numbers. *)
LEMMA NumbersGrow ==
  ASSUME NEW k \in Nat
  PROVE  /\ Of(k) \subseteq Heard(k)
         /\ Of(k) \subseteq Of(k + 1) /\ Heard(k) \subseteq Heard(k + 1)
  BY DEF Of, Heard

(* A selection's members were chosen from among those that may be in it.     *)
LEMMA OnlyFrom ==
  ASSUME NEW S, NEW s \in Seq(S), NEW T, NEW U, Only(s, T) \in Seq(U)
  PROVE  \A i \in DOMAIN s : s[i] \in T => s[i] \in U
<1> DEFINE Good(t) == Only(t, T) \in Seq(U) => \A i \in DOMAIN t : t[i] \in T => t[i] \in U
           G == {t \in Seq(S) : Good(t)}
<1>1. <<>> \in G
  OBVIOUS
<1>2. ASSUME NEW t \in Seq(S), t \in G, NEW x \in S PROVE Append(t, x) \in G
  <2> DEFINE a == Append(t, x)
             w == Only(t, T)
  <2>1. a \in Seq(S) /\ Len(a) = Len(t) + 1 /\ DOMAIN a = 1..(Len(t) + 1) /\ Len(t) \in Nat
        /\ DOMAIN t = 1..Len(t) /\ a[Len(t) + 1] = x /\ \A i \in 1..Len(t) : a[i] = t[i]
    BY AppendProperties
  <2>2. Only(a, T) = IF x \in T THEN Append(w, x) ELSE w
    BY OnlyAppend
  <2>3. w \in Seq(S)
    BY OnlySeq
  <2>4. x \in T /\ Append(w, x) \in Seq(U) => w \in Seq(U) /\ x \in U
    <3>1. Len(Append(w, x)) = Len(w) + 1 /\ Len(w) \in Nat /\ Append(w, x)[Len(w) + 1] = x
          /\ \A i \in 1..Len(w) : Append(w, x)[i] = w[i]
      BY <2>3, AppendProperties
    <3> HIDE DEF w
    <3> QED
      BY <2>3, <3>1
  <2>5. w \in Seq(U) => \A i \in 1..Len(t) : t[i] \in T => t[i] \in U
    BY <1>2, <2>1
  <2> HIDE DEF a, w
  <2>6. ASSUME Only(a, T) \in Seq(U), NEW i \in DOMAIN a, a[i] \in T PROVE a[i] \in U
    <3>1. w \in Seq(U) /\ (x \in T => x \in U)
      BY <2>2, <2>4, <2>6
    <3>2. CASE i = Len(t) + 1
      BY <2>1, <2>6, <3>1, <3>2
    <3>3. CASE i \in 1..Len(t)
      BY <2>1, <2>5, <2>6, <3>1, <3>3
    <3> QED
      BY <2>1, <3>2, <3>3
  <2>7. Good(a)
    BY <2>6
  <2> QED
    BY <2>1, <2>7 DEF a
<1> HIDE DEF G
<1>3. Seq(S) \subseteq G
  BY <1>1, <1>2, SequenceInduction
<1> QED
  BY <1>3 DEF G

(* Each of two sequences. *)
LEMMA EachPart ==
  ASSUME NEW S, NEW s \in Seq(S), NEW t \in Seq(S), NEW U, Cat(s, t) \in Seq(U)
  PROVE  s \in Seq(U) /\ t \in Seq(U)
<1>1. Cat(s, t) = s \o t
  BY DEF Cat
<1>2. /\ Len(s \o t) = Len(s) + Len(t) /\ Len(s) \in Nat /\ Len(t) \in Nat
      /\ \A i \in 1..Len(s) : (s \o t)[i] = s[i]
      /\ \A i \in 1..Len(t) : (s \o t)[Len(s) + i] = t[i]
  BY ConcatProperties
<1>3. \A i \in 1..Len(s) : s[i] \in U
  BY <1>1, <1>2
<1>4. \A i \in 1..Len(t) : t[i] \in U
  <2>1. \A i \in 1..Len(t) : Len(s) + i \in 1..Len(s \o t)
    BY <1>2
  <2> QED
    BY <1>1, <1>2, <2>1
<1>5. /\ DOMAIN s = 1..Len(s) /\ s = [i \in DOMAIN s |-> s[i]]
      /\ DOMAIN t = 1..Len(t) /\ t = [i \in DOMAIN t |-> t[i]]
  OBVIOUS
<1>6. s \in [1..Len(s) -> U] /\ t \in [1..Len(t) -> U]
  BY <1>3, <1>4, <1>5
<1>7. Len(s) \in Nat /\ Len(t) \in Nat
  OBVIOUS
<1>8. s \in Seq(U)
  BY <1>6, <1>7, SeqDef
<1>9. t \in Seq(U)
  BY <1>6, <1>7, SeqDef
<1> QED
  BY <1>8, <1>9

(* Both of them. *)
LEMMA BothParts ==
  ASSUME NEW S, NEW s \in Seq(S), NEW t \in Seq(S)
  PROVE  Cat(s, t) \in Seq(S)
  BY ConcatIsSeq DEF Cat

(* What is written to the port, or is to be, and is a command, has been      *)
(* issued.                                                                   *)
LEMMA SentWasIssued ==
  ASSUME IInv, CommandsConserved, NEW U, issued \in Seq(U)
  PROVE  /\ \A i \in DOMAIN sent : sent[i] \in Commands => sent[i] \in U
         /\ \A i \in DOMAIN inQ["ser"] : inQ["ser"][i] \in Commands => inQ["ser"][i] \in U
<1> DEFINE q == inQ["ser"]
           r == InRouter(Commands)
           a == Only(sent, Commands)
           b == Only(q, Commands)
<1>1. issued \in Seq(Message) /\ sent \in Seq(Message) /\ q \in Seq(Message)
  BY HistoriesTyped, WayTyped DEF Devices
<1>2. r \in Seq(Message)
  <2>1. r = Cat(Only(Hands, Commands), Only(inQ["rtr"], Commands))
    BY DEF InRouter, Hands, Cat, One, None
  <2>2. Hands \in Seq(Message) /\ inQ["rtr"] \in Seq(Message)
    BY WayTyped DEF Devices
  <2>3. Only(Hands, Commands) \in Seq(Message) /\ Only(inQ["rtr"], Commands) \in Seq(Message)
    BY <2>2, OnlySeq
  <2> HIDE DEF r
  <2> QED
    BY <2>1, <2>3, BothParts
<1>3. Only(issued, Commands) = Cat(Only(Cat(sent, q), Commands), r)
  BY DEF CommandsConserved, Cat
<1>4. Only(issued, Commands) \in Seq(U)
  BY OnlySeq
<1> HIDE DEF q, r
<1>5. a \in Seq(Message) /\ b \in Seq(Message) /\ Only(Cat(sent, q), Commands) = Cat(a, b)
  BY <1>1, OnlySeq, OnlyCat
<1> HIDE DEF a, b
<1>6. Cat(a, b) \in Seq(Message)
  BY <1>5, BothParts
<1>7. Cat(a, b) \in Seq(U)
  BY <1>2, <1>3, <1>4, <1>5, <1>6, EachPart
<1>8. a \in Seq(U) /\ b \in Seq(U)
  BY <1>5, <1>7, EachPart
<1>9. \A i \in DOMAIN sent : sent[i] \in Commands => sent[i] \in U
  BY <1>1, <1>8, OnlyFrom DEF a
<1>10. \A i \in DOMAIN q : q[i] \in Commands => q[i] \in U
  BY <1>1, <1>8, OnlyFrom DEF b
<1> QED
  BY <1>9, <1>10 DEF q

(* What is printed and comes from the radio has been received, and what is   *)
(* printed and does not has been asked for.                                  *)
LEMMA PrintedWasReceived ==
  ASSUME IInv, RepliesConserved, NEW U, received \in Seq(U), NEW W, asked \in Seq(W)
  PROVE  \A k \in DOMAIN printed :
           /\ printed[k].msg \in Message
           /\ printed[k].msg.source = "ser" => printed[k].msg \in U
           /\ printed[k].msg.source # "ser" => printed[k].msg \in W
<1> DEFINE P == Printed
           q == Only(inQ["con"], {m \in Message : NonEmpty(m)})
           r == InRouter(Replies)
           a == Only(P, Replies)
           b == Only(q, Replies)
           F == From("con")
           c == Only(P, F)
           d == Only(q, F)
<1>1. P \in Seq(Message) /\ inQ["con"] \in Seq(Message) /\ received \in Seq(Message)
  BY HistoriesTyped, WayTyped DEF Devices
<1>2. q \in Seq(Message)
  BY <1>1, OnlySeq
<1>3. r \in Seq(Message)
  <2>1. r = Cat(Only(Hands, Replies), Only(inQ["rtr"], Replies))
    BY DEF InRouter, Hands, Cat, One, None
  <2>2. Hands \in Seq(Message) /\ inQ["rtr"] \in Seq(Message)
    BY WayTyped DEF Devices
  <2>3. Only(Hands, Replies) \in Seq(Message) /\ Only(inQ["rtr"], Replies) \in Seq(Message)
    BY <2>2, OnlySeq
  <2> HIDE DEF r
  <2> QED
    BY <2>1, <2>3, BothParts
<1>4. Only(received, Replies) = Cat(Only(Cat(P, q), Replies), r) /\ asked = Only(Cat(P, q), F)
  BY DEF RepliesConserved, ConsoleOutput, Cat
<1>5. Only(received, Replies) \in Seq(U)
  BY OnlySeq
<1>6. ASSUME NEW k \in DOMAIN printed
      PROVE  /\ k \in DOMAIN P /\ P[k] = printed[k].msg /\ P[k] \in Taken("con")
  <2>1. printed \in Seq(Prints)
    BY DEF IInv, ConsoleOK
  <2>2. printed[k] \in Prints
    BY <2>1
  <2> QED
    BY <2>2 DEF Printed, Prints
<1> HIDE DEF P, q, r
<1>7. a \in Seq(Message) /\ b \in Seq(Message) /\ Only(Cat(P, q), Replies) = Cat(a, b)
  BY <1>1, <1>2, OnlySeq, OnlyCat
<1>8. c \in Seq(Message) /\ d \in Seq(Message) /\ Only(Cat(P, q), F) = Cat(c, d)
  BY <1>1, <1>2, OnlySeq, OnlyCat
<1> HIDE DEF a, b, c, d, F
<1>9. Cat(a, b) \in Seq(U)
  <2>1. Cat(a, b) \in Seq(Message)
    BY <1>7, BothParts
  <2> QED
    BY <1>3, <1>4, <1>5, <1>7, <2>1, EachPart
<1>10. a \in Seq(U)
  BY <1>7, <1>9, EachPart
<1>11. c \in Seq(W)
  BY <1>4, <1>8, EachPart
<1>12. \A k \in DOMAIN P : P[k] \in Replies => P[k] \in U
  BY <1>1, <1>10, OnlyFrom DEF a
<1>13. \A k \in DOMAIN P : P[k] \in F => P[k] \in W
  BY <1>1, <1>11, OnlyFrom DEF c
<1>14. \A m \in Taken("con") : m \in Message /\ (m \in Replies \/ (m \in F /\ m.source # "ser"))
                               /\ (m.source # "ser" => m \in F) /\ (m.source = "ser" => m \in Replies)
  BY DEF Taken, May, Filled, Meant, Replies, From, F
<1> QED
  BY <1>6, <1>12, <1>13, <1>14

(* What the simulator or the radio is to answer was given by a client.       *)
LEMMA CommandsNumbered ==
  ASSUME IInv, CommandsConserved, NumbersOK
  PROVE  /\ \A i \in DOMAIN sent : sent[i].source = "con" => sent[i] \in Of(lines)
         /\ SIM /\ inQ["ser"] # <<>> /\ NonEmpty(Head(inQ["ser"]))
              => Head(inQ["ser"]) \in Of(lines)
<1>1. issued \in Seq(Of(lines))
  BY DEF NumbersOK
<1>2. \A x \in Taken("ser") : /\ x.source = "con" => x \in Commands
                              /\ SIM => x.source = "con"
  BY DEF Taken, May, Filled, Meant, Commands, From
<1>3. sent \in Seq(Taken("ser")) /\ inQ["ser"] \in Seq(May("ser"))
  BY DEF IInv, SerOK, QueuesOK, Devices
<1>4. \A i \in DOMAIN sent : sent[i] \in Commands => sent[i] \in Of(lines)
  BY <1>1, SentWasIssued
<1>5. \A i \in DOMAIN sent : sent[i].source = "con" => sent[i] \in Of(lines)
  <2> HIDE DEF Of
  <2> QED
    BY <1>2, <1>3, <1>4
<1>6. ASSUME SIM, inQ["ser"] # <<>>, NonEmpty(Head(inQ["ser"]))
      PROVE  Head(inQ["ser"]) \in Of(lines)
  <2> DEFINE q == inQ["ser"]
  <2>1. 1 \in DOMAIN q /\ Head(q) = q[1] /\ q[1] \in May("ser")
    BY <1>3, <1>6
  <2>2. q[1] \in Commands
    BY <1>2, <1>6, <2>1 DEF Taken
  <2>3. \A i \in DOMAIN q : q[i] \in Commands => q[i] \in Of(lines)
    BY <1>1, SentWasIssued
  <2> HIDE DEF q
  <2>4. Head(q) \in Of(lines)
    BY <2>1, <2>2, <2>3
  <2> QED
    BY <2>4 DEF q
<1> QED
  BY <1>5, <1>6

(* What a step leaves alone.  Only a command is given a new number.          *)
LEMMA NumbersRest ==
  ASSUME IInv, [Next]_vars, ~Parse, ~Reject, ~Answer, ~RadioFrame, ~SerThread
  PROVE  UNCHANGED <<givenIn, issued, port, received, lastMessage>>
<1> USE DEF serVars, serialVars, simVars, consoleVars
<1>1. CASE UNCHANGED vars
  BY <1>1 DEF vars
<1>2. CASE RouterThread
  BY <1>2 DEF RouterThread
<1>3. CASE ConsoleThread
  BY <1>3 DEF ConsoleThread, ConsoleStep, ConsoleTestHold, ConsoleTestMore, ConsolePrint
<1>4. CASE TunThread \/ TunReadThread \/ CaptureThread
  BY <1>4 DEF TunThread, TunReadThread, CaptureThread
<1>5. CASE Packet \/ PortFails \/ InterfaceFails
  BY <1>5 DEF Packet, PortFails, SerialError, SerialSendFails, InterfaceFails
<1>6. CASE Lifecycle
  BY <1>6 DEF Lifecycle, HoldDevices, StartDevices, HoldRouter, StartRouter, HoldConsole,
              BeginShutdown, ReleaseFlag, ReleaseSentinel, JoinThread
<1>7. CASE Accept \/ EndSession
  BY <1>7 DEF Accept, BeginSession, EndSession, EndSessionBy, ParseEnd
<1> QED
  BY <1>1, <1>2, <1>3, <1>4, <1>5, <1>6, <1>7 DEF Next, Finished, Main, Serve, Others
(* More commands than before, and what was numbered right still is.          *)
LEMMA NumbersWider ==
  ASSUME IInv, NumbersOK
  PROVE  /\ lines \in Nat
         /\ issued \in Seq(Of(lines + 1))
         /\ port \in Seq(Heard(lines + 1)) /\ received \in Seq(Heard(lines + 1))
         /\ NonEmpty(lastMessage) => lastMessage \in Of(lines + 1)
<1>1. lines \in Nat
  BY DEF IInv, ConsoleOK, lines
<1> HIDE DEF lines
<1>2. Of(lines) \subseteq Of(lines + 1) /\ Heard(lines) \subseteq Heard(lines + 1)
  BY <1>1, NumbersGrow
<1> QED
  BY <1>1, <1>2, SeqMonotonic DEF NumbersOK

(* A line of a client, whether it sends something or not, takes a number.    *)
LEMMA LineNumbered ==
  ASSUME IInv, NumbersOK, Parse \/ Reject
  PROVE  NumbersOK'
<1>1. lines' = lines + 1 /\ UNCHANGED <<port, received, lastMessage>>
  <2>1. givenIn \in Seq(Nat) /\ session \in Nat
    BY DEF IInv, ConsoleOK
  <2>2. givenIn' = Append(givenIn, session)
    BY DEF Parse, ParseOneOf, ParseLine, Reject
  <2>3. lines' = lines + 1
    BY <2>1, <2>2 DEF lines
  <2> QED
    BY <2>3 DEF Parse, ParseOneOf, Reject, serVars, serialVars, simVars
<1>2. issued' = issued \/ \E x \in Of(lines + 1) : issued' = Append(issued, x)
  <2>1. lines + 1 \in Nat /\ lines + 1 \in 1..(lines + 1)
    BY NumbersWider
  <2>2. ASSUME NEW f \in Fronts PROVE setSource(NewLine(f), "con") \in Of(lines + 1)
    <3> HIDE DEF lines
    <3>1. setSource(NewLine(f), "con") = [source |-> "con", front |-> f, body |-> <<lines + 1>>]
      BY DEF setSource, NewLine
    <3> DEFINE n == lines + 1
               b == <<n>>
               x == [source |-> "con", front |-> f, body |-> b]
    <3>2. n \in Nat /\ n \in 1..n
      BY <2>1
    <3> HIDE DEF n
    <3>3. b \in Seq(Nat) /\ b # <<>> /\ b[1] \in 1..n
      BY <3>2
    <3> HIDE DEF b
    <3>4. x \in Message /\ x.body = b
      BY <3>3 DEF Message, Devices
    <3> HIDE DEF x
    <3>5. x \in Of(n)
      BY <3>3, <3>4 DEF Of
    <3> QED
      BY <3>1, <3>5 DEF x, b, n
  <2>3. {"other", "xED"} \subseteq Fronts /\ Fronts \ {"none", "x31short"} \subseteq Fronts
    BY DEF Fronts
  <2> HIDE DEF lines
  <2> QED
    BY <2>2, <2>3 DEF Parse, ParseOneOf, ParseLine, Reject, Command, Data, CaptureFile, Help,
                      ConsolePush
<1>3. issued' \in Seq(Of(lines + 1))
  BY <1>2, NumbersWider, AppendIsSeq
<1> HIDE DEF lines
<1> QED
  BY <1>1, <1>3, NumbersWider DEF NumbersOK

(* The device thread hands on what it has, with the number it has.           *)
LEMMA SerNumbers ==
  ASSUME IInv, CommandsConserved, NumbersOK, SerThread
  PROVE  NumbersOK'
<1> DEFINE O == Of(lines)
           H == Heard(lines)
<1>0. lines' = lines /\ issued' = issued /\ lines \in Nat
  BY NumbersWider DEF SerThread, consoleVars, lines
<1>a. issued \in Seq(O) /\ port \in Seq(H) /\ received \in Seq(H)
      /\ (NonEmpty(lastMessage) => lastMessage \in O)
  BY DEF NumbersOK
<1>b. O' = O /\ H' = H
  BY <1>0
<1>c. O \subseteq H
  BY <1>0, NumbersGrow
<1>1. CASE SIM
  <2>0. port' = port
    BY <1>1 DEF SerThread
  <2>1. CASE TestHold("ser") /\ UNCHANGED <<simVars, received, sent>>
    BY <1>0, <1>a, <1>b, <2>0, <2>1 DEF NumbersOK, simVars
  <2>2. CASE SimSend
    <3>1. received' = received /\ lastMessage' \in {lastMessage, Head(inQ["ser"])}
          /\ inQ["ser"] # <<>>
      BY <2>2 DEF SimSend, Dequeue
    <3>2. NonEmpty(Head(inQ["ser"])) => Head(inQ["ser"]) \in O
      BY <1>1, <3>1, CommandsNumbered
    <3>3. NonEmpty(lastMessage)' => lastMessage' \in O
      BY <1>a, <3>1, <3>2 DEF NonEmpty
    <3> QED
      BY <1>0, <1>a, <1>b, <2>0, <3>1, <3>3 DEF NumbersOK
  <2>3. CASE SimReceive
    <3> DEFINE m == lastMessage
               next == IF Counted(m) THEN (fcie + 1) % FcieModulus ELSE fcie
               x == Response(m, next)
    <3>1. ~NonEmpty(lastMessage)'
      BY <2>3 DEF SimReceive, NonEmpty, IInv, SerOK, Filled, Message
    <3>2. /\ ~Known(m) => received' = received
          /\ Known(m) => received' = Append(received, x)
      BY <2>3 DEF SimReceive, Receive
    <3>3. ASSUME Known(m) PROVE x \in H
      <4>1. m \in O
        BY <1>a, <3>3 DEF Known, NonEmpty
      <4>2. m.body \in Seq(Nat) /\ m.body # <<>> /\ m.body[1] \in 1..lines
        BY <4>1 DEF Of, Message
      <4>3. next \in Nat /\ SerOK
        BY FcieAssumption DEF IInv, SerOK
      <4> HIDE DEF next
      <4>4. x \in Message
        BY <3>3, <4>3, ResponseMay
      <4>5. x.body = m.body \/ x.body = <<m.body[1], next>>
        BY DEF Response
      <4> HIDE DEF x, m
      <4>6. x.body # <<>> /\ x.body[1] = m.body[1]
        BY <4>2, <4>5
      <4> QED
        BY <4>2, <4>4, <4>6 DEF Heard
    <3> HIDE DEF x, H
    <3>4. received' \in Seq(H)
      BY <1>a, <3>2, <3>3, AppendIsSeq
    <3>5. port \in Seq(H)
      BY <1>a
    <3> QED
      BY <1>0, <1>a, <1>b, <2>0, <3>1, <3>4, <3>5 DEF NumbersOK, H
  <2> QED
    BY <1>1, <2>1, <2>2, <2>3 DEF SerThread, SimulatorStep
<1>2. CASE ~SIM
  <2>1. lastMessage' = lastMessage
    BY <1>2 DEF SerThread, simVars
  <2>2. CASE SerialReceive
    <3> DEFINE m == Head(port)
               x == setSource(m, "ser")
    <3>1. port # <<>> /\ received' = Append(received, x) /\ port' = Tail(port)
      BY <2>2 DEF SerialReceive, FromPort
    <3>2. m \in H /\ Tail(port) \in Seq(H)
      BY <1>a, <3>1
    <3>3. x \in H
      <4> HIDE DEF m
      <4>1. m \in Message /\ m.body # <<>> /\ (m.body[1] \in 1..lines \/ m.body[1] > MaxLines)
        BY <3>2 DEF Heard
      <4>2. x \in Message /\ x.body = m.body
        BY <4>1 DEF setSource, Message, Devices
      <4> HIDE DEF x
      <4> QED
        BY <4>1, <4>2 DEF Heard
    <3> HIDE DEF x, H, m
    <3>4. received' \in Seq(H) /\ port' \in Seq(H)
      BY <1>a, <3>1, <3>2, <3>3, AppendIsSeq
    <3> QED
      BY <1>0, <1>a, <1>b, <2>1, <3>4 DEF NumbersOK, H
  <2>3. CASE ~SerialReceive
    <3>1. UNCHANGED <<port, received>>
      BY <1>2, <2>3 DEF SerThread, SerialStep, SerialStart, SerialTestHold, SerialPolled,
                        SerialSend, serialVars
    <3> QED
      BY <1>0, <1>a, <1>b, <2>1, <3>1 DEF NumbersOK
  <2> QED
    BY <2>2, <2>3
<1> QED
  BY <1>1, <1>2

(* What the radio answers is numbered as the command was, what else it sends *)
(* is numbered beyond all of them.                                           *)
LEMMA RadioNumbers ==
  ASSUME IInv, CommandsConserved, NumbersOK, Answer \/ RadioFrame
  PROVE  NumbersOK'
<1> DEFINE H == Heard(lines)
<1>0. lines' = lines /\ issued' = issued /\ lines \in Nat /\ UNCHANGED <<received, lastMessage>>
  <2>1. UNCHANGED <<consoleVars, received, lastMessage>>
    BY DEF Answer, RadioFrame, FrameArrives, simVars, serialVars
  <2> QED
    BY <2>1, NumbersWider DEF consoleVars, lines
<1>a. port \in Seq(H)
  BY DEF NumbersOK
<1>1. ASSUME NEW f \in Fronts, NEW b \in Seq(Nat), b # <<>>,
             b[1] \in 1..lines \/ b[1] > MaxLines, FrameArrives(f, b)
      PROVE  port' \in Seq(H)
  <2> DEFINE x == [source |-> Null, front |-> f, body |-> b]
  <2>1. x \in Message /\ x.body = b
    BY DEF Message
  <2>2. port' = Append(port, x)
    BY <1>1 DEF FrameArrives
  <2> HIDE DEF x
  <2>3. x \in H
    BY <1>1, <2>1 DEF Heard
  <2> HIDE DEF H
  <2> QED
    BY <1>a, <2>2, <2>3, AppendIsSeq
<1>2. port' \in Seq(H)
  <2>1. CASE Answer
    <3> DEFINE x == sent[answered + 1]
    <3>1. answered + 1 \in DOMAIN sent
      BY <2>1 DEF Answer, IInv, RadioOK, SerOK
    <3>2. x.source = "con" => x \in Of(lines)
      BY <3>1, CommandsNumbered
    <3>3. CASE x.source = "con"
      <4>1. FrameArrives("other", x.body)
        BY <2>1, <3>3 DEF Answer
      <4>2. x.body \in Seq(Nat) /\ x.body # <<>> /\ x.body[1] \in 1..lines
        BY <3>2, <3>3 DEF Of, Message
      <4>3. "other" \in Fronts
        BY DEF Fronts
      <4> HIDE DEF x, H
      <4> QED
        BY <1>1, <4>1, <4>2, <4>3
    <3>4. CASE x.source # "con"
      <4>1. port' = port
        BY <2>1, <3>4 DEF Answer, serialVars
      <4> QED
        BY <1>a, <4>1
    <3> QED
      BY <3>3, <3>4
  <2>2. CASE RadioFrame
    <3> DEFINE n == MaxLines + frames + 1
               b == <<n>>
    <3>1. PICK f \in FrameFronts : FrameArrives(f, b)
      BY <2>2 DEF RadioFrame
    <3>2. f \in Fronts /\ n \in Nat /\ n > MaxLines
      BY FrontsAssumption, BoundsAssumption DEF IInv, RadioOK
    <3> HIDE DEF n
    <3>3. b \in Seq(Nat) /\ b # <<>> /\ b[1] > MaxLines
      BY <3>2
    <3> HIDE DEF b, H
    <3> QED
      BY <1>1, <3>1, <3>2, <3>3
  <2> QED
    BY <2>1, <2>2
<1>3. H' = H
  BY <1>0
<1> HIDE DEF H
<1>4. port' \in Seq(H')
  BY <1>2, <1>3
<1> QED
  BY <1>0, <1>4 DEF NumbersOK, H

(* From the first step to the last. *)
THEOREM NumbersInductive == Spec => []NumbersOK
<1>1. Init => NumbersOK
  <2> SUFFICES ASSUME Init PROVE NumbersOK
    OBVIOUS
  <2>1. issued = <<>> /\ port = <<>> /\ received = <<>> /\ ~NonEmpty(lastMessage)
    BY DEF Init, ConsoleInit, SerialInit, SimInit, Empty, NonEmpty
  <2> QED
    BY <2>1, EmptyIsSeq DEF NumbersOK
<1>2. IInv /\ CommandsConserved /\ NumbersOK /\ [Next]_vars => NumbersOK'
  <2> SUFFICES ASSUME IInv, CommandsConserved, NumbersOK, [Next]_vars PROVE NumbersOK'
    OBVIOUS
  <2>1. CASE ~Parse /\ ~Reject /\ ~Answer /\ ~RadioFrame /\ ~SerThread
    <3>1. UNCHANGED <<givenIn, issued, port, received, lastMessage>>
      BY <2>1, NumbersRest
    <3> QED
      BY <3>1 DEF NumbersOK, lines, Of, Heard, NonEmpty
  <2> QED
    BY <2>1, LineNumbered, SerNumbers, RadioNumbers
<1> QED
  BY <1>1, <1>2, Inductive, CommandsArrive, PTL DEF Spec

(* No reply is printed to a command that nobody has given: the number of     *)
(* each is that of a command the console has parsed, or one of those that    *)
(* the radio gives to what it sends of its own accord.                       *)
RepliesNumbered ==
  \A k \in DOMAIN printed :
    LET m == printed[k].msg
    IN  m.source = "ser" => m.body[1] \in 1..lines \/ m.body[1] > MaxLines

(* This holds among clients of any kind, in both builds.                     *)
THEOREM PrintedRepliesNumbered == Spec => []RepliesNumbered
<1>1. IInv /\ RepliesConserved /\ NumbersOK => RepliesNumbered
  <2> SUFFICES ASSUME IInv, RepliesConserved, NumbersOK, NEW k \in DOMAIN printed,
                      printed[k].msg.source = "ser"
               PROVE  printed[k].msg.body[1] \in 1..lines \/ printed[k].msg.body[1] > MaxLines
    BY DEF RepliesNumbered
  <2>1. received \in Seq(Heard(lines)) /\ asked \in Seq(Message)
    BY HistoriesTyped DEF NumbersOK
  <2>2. printed[k].msg \in Heard(lines)
    BY <2>1, PrintedWasReceived
  <2> QED
    BY <2>2 DEF Heard
<1> QED
  BY <1>1, Inductive, RepliesArrive, NumbersInductive, PTL

-----------------------------------------------------------------------------
(* The pages. *)

(* What is printed is printed in the session of the moment. *)
LEMMA SessionsGrow ==
  ASSUME IInv, [Next]_vars
  PROVE  /\ session' = session \/ session' = session + 1
         /\ \/ printed' = printed
            \/ /\ session' = session
               /\ \E m : printed' = Append(printed, [msg |-> m, session |-> session])
<1> USE DEF consoleVars
<1>1. CASE UNCHANGED vars
  BY <1>1 DEF vars
<1>2. CASE RouterThread \/ SerThread \/ TunThread \/ TunReadThread \/ CaptureThread
  BY <1>2 DEF RouterThread, SerThread, TunThread, TunReadThread, CaptureThread
<1>3. CASE ConsoleThread
  BY <1>3 DEF ConsoleThread, ConsoleStep, ConsoleTestHold, ConsoleTestMore, ConsolePrint
<1>4. CASE Answer \/ RadioFrame \/ Packet \/ PortFails \/ InterfaceFails
  BY <1>4 DEF Answer, RadioFrame, Packet, PortFails, InterfaceFails
<1>5. CASE Lifecycle
  BY <1>5 DEF Lifecycle, HoldDevices, StartDevices, HoldRouter, StartRouter, HoldConsole,
              BeginShutdown, ReleaseFlag, ReleaseSentinel, JoinThread
<1>6. CASE Serve
  BY <1>6 DEF Serve, Accept, BeginSession, Parse, ParseOneOf, ParseLine, Reject, EndSession,
              EndSessionBy, ParseEnd
<1> QED
  BY <1>1, <1>2, <1>3, <1>4, <1>5, <1>6 DEF Next, Finished, Main, Others

(* What was printed before was printed in an earlier session, or in the same *)
(* one.                                                                      *)
SessionsOK ==
  \A k \in DOMAIN printed :
    /\ printed[k].session <= session
    /\ \A j \in 1..(k - 1) : printed[j].session <= printed[k].session

(* From the first step to the last. *)
THEOREM SessionsInductive == Spec => []SessionsOK
<1>1. Init => SessionsOK
  BY DEF Init, ConsoleInit, SessionsOK
<1>2. IInv /\ SessionsOK /\ [Next]_vars => SessionsOK'
  <2> SUFFICES ASSUME IInv, SessionsOK, [Next]_vars PROVE SessionsOK'
    OBVIOUS
  <2>1. printed \in Seq(Prints) /\ session \in Nat
    BY DEF IInv, ConsoleOK
  <2>2. \A k \in DOMAIN printed : printed[k].session \in Nat
    <3>1. \A k \in DOMAIN printed : printed[k] \in Prints
      BY <2>1
    <3>2. \A p \in Prints : p.session \in Nat
      BY DEF Prints
    <3> QED
      BY <3>1, <3>2
  <2>3. session' \in Nat /\ session' >= session
    BY <2>1, SessionsGrow
  <2>4. CASE printed' = printed
    BY <2>1, <2>2, <2>3, <2>4 DEF SessionsOK
  <2>5. ASSUME session' = session, NEW m,
               printed' = Append(printed, [msg |-> m, session |-> session])
        PROVE  SessionsOK'
    <3> DEFINE x == [msg |-> m, session |-> session]
               p == printed
               n == Len(printed)
    <3>1. x.session = session
      OBVIOUS
    <3> HIDE DEF x
    <3>2. /\ n \in Nat /\ DOMAIN p = 1..n /\ DOMAIN printed' = 1..(n + 1)
          /\ printed'[n + 1] = x /\ \A k \in 1..n : printed'[k] = p[k]
      BY <2>1, <2>5, AppendProperties DEF x
    <3>3. \A k \in 1..n : p[k].session \in Nat /\ p[k].session <= session
                          /\ \A j \in 1..(k - 1) : p[j].session <= p[k].session
      BY <2>2, <3>2 DEF SessionsOK
    <3> HIDE DEF p, n
    <3>4. ASSUME NEW k \in 1..(n + 1)
          PROVE  /\ printed'[k].session <= session'
                 /\ \A j \in 1..(k - 1) : printed'[j].session <= printed'[k].session
      <4>1. CASE k = n + 1
        BY <2>1, <2>5, <3>1, <3>2, <3>3, <4>1
      <4>2. CASE k \in 1..n
        BY <2>5, <3>2, <3>3, <4>2
      <4> QED
        BY <3>2, <4>1, <4>2
    <3> QED
      BY <3>2, <3>4 DEF SessionsOK
  <2> QED
    BY <2>4, <2>5, SessionsGrow
<1> QED
  BY <1>1, <1>2, Inductive, PTL DEF Spec

-----------------------------------------------------------------------------
(* The commands that are sent for the pages. *)

Upto(n) == [k \in 1..n |-> k]

Said == [k \in DOMAIN issued |-> issued[k].body[1]]

Wanted == {n \in DOMAIN texts : IsCommand[texts[n]]}

(* The daemon has accepted no more connections than have been made, and has  *)
(* read the text of each but perhaps the last.  A text that was settled      *)
(* before its page had a response was settled by itself.                     *)
PagesOnly ==
  /\ texts \in [1..MaxSessions -> Texts] /\ requests <= MaxSessions
  /\ session <= requests /\ asked = <<>> /\ issued \in Seq(Commands)
  /\ lines <= session /\ session <= lines + 1
  /\ pc["main"] # "parse" => lines = session
  /\ Said = Only(Upto(lines), Wanted)
  /\ \A n \in 1..lines : n > Len(shown) => AtOnce[texts[n]]

(* What makes CommandsOfPages inductive. *)
PagesOK ==
  /\ requests \in Nat /\ shown \in Seq(Nat)
  /\ Len(shown) <= requests /\ requests <= Len(shown) + 1
  /\ client # "web" => shown = <<>>
  /\ client = "web" => PagesOnly

(* One number more. *)
LEMMA UptoGrows ==
  ASSUME NEW n \in Nat
  PROVE  /\ Upto(n) \in Seq(Nat) /\ Upto(n) \in Seq(1..n)
         /\ Upto(n + 1) = Append(Upto(n), n + 1)
<1> DEFINE u == Upto(n)
           v == Upto(n + 1)
<1>1. u \in Seq(Nat) /\ u \in Seq(1..n) /\ Len(u) = n /\ \A k \in 1..n : u[k] = k
  BY DEF Upto
<1>2. v = [k \in 1..(n + 1) |-> k]
  BY DEF Upto
<1> HIDE DEF u, v
<1>3. Append(u, n + 1) = [k \in 1..(n + 1) |-> IF k = n + 1 THEN n + 1 ELSE u[k]]
  <2>1. Append(u, n + 1) = [k \in 1..(Len(u) + 1) |-> IF k = Len(u) + 1 THEN n + 1 ELSE u[k]]
    BY <1>1, AppendAsFunction
  <2> QED
    BY <1>1, <2>1
<1>4. \A k \in 1..(n + 1) : (IF k = n + 1 THEN n + 1 ELSE u[k]) = k
  BY <1>1
<1>5. v = Append(u, n + 1)
  BY <1>2, <1>3, <1>4
<1> QED
  BY <1>1, <1>5 DEF u, v

(* One message more. *)
LEMMA SaidGrows ==
  ASSUME issued \in Seq(Message), NEW x \in Message, NEW n, x.body[1] = n,
         issued' = Append(issued, x)
  PROVE  Said' = Append(Said, n)
<1> DEFINE l == Len(issued)
           s == Said
<1>1. /\ l \in Nat /\ DOMAIN issued = 1..l /\ DOMAIN issued' = 1..(l + 1)
      /\ issued'[l + 1] = x /\ \A k \in 1..l : issued'[k] = issued[k]
  BY AppendProperties
<1>2. Said' = [k \in 1..(l + 1) |-> issued'[k].body[1]]
  BY <1>1 DEF Said
<1>3. s = [k \in 1..l |-> issued[k].body[1]]
  BY <1>1 DEF Said
<1> DEFINE S == {s[k] : k \in 1..l} \cup {n}
<1>4. s \in Seq(S) /\ n \in S /\ Len(s) = l /\ \A k \in 1..l : s[k] = issued[k].body[1]
  BY <1>1, <1>3
<1> HIDE DEF s, S, l
<1>5. Append(s, n) = [k \in 1..(l + 1) |-> IF k = l + 1 THEN n ELSE s[k]]
  <2>1. Append(s, n) = [k \in 1..(Len(s) + 1) |-> IF k = Len(s) + 1 THEN n ELSE s[k]]
    BY <1>4, AppendAsFunction
  <2> QED
    BY <1>4, <2>1
<1>6. \A k \in 1..(l + 1) : issued'[k].body[1] = IF k = l + 1 THEN n ELSE s[k]
  BY <1>1, <1>4
<1>7. Said' = Append(s, n)
  BY <1>2, <1>5, <1>6
<1> QED
  BY <1>7 DEF s

(* The daemon does not look at the connections: it goes on with what it has. *)
LEMMA PagesRest ==
  ASSUME IInv, PagesOK, UNCHANGED webVars,
         \/ UNCHANGED vars
         \/ Others
         \/ Lifecycle
  PROVE  PagesOK'
<1> USE DEF consoleVars
<1>1. UNCHANGED <<session, givenIn, issued, asked>>
  <2>1. CASE UNCHANGED vars
    BY <2>1 DEF vars
  <2>2. CASE Others
    <3>1. CASE RouterThread \/ SerThread \/ TunThread \/ TunReadThread \/ CaptureThread
      BY <3>1 DEF RouterThread, SerThread, TunThread, TunReadThread, CaptureThread
    <3>2. CASE ConsoleThread
      BY <3>2 DEF ConsoleThread, ConsoleStep, ConsoleTestHold, ConsoleTestMore, ConsolePrint
    <3>3. CASE Answer \/ RadioFrame \/ Packet \/ PortFails \/ InterfaceFails
      BY <3>3 DEF Answer, RadioFrame, Packet, PortFails, InterfaceFails
    <3> QED
      BY <2>2, <3>1, <3>2, <3>3 DEF Others
  <2>3. CASE Lifecycle
    BY <2>3 DEF Lifecycle, HoldDevices, StartDevices, HoldRouter, StartRouter, HoldConsole,
                BeginShutdown, ReleaseFlag, ReleaseSentinel, JoinThread
  <2> QED
    BY <2>1, <2>2, <2>3
<1>2. pc["main"] = "parse" => pc'["main"] = "parse"
  <2>1. CASE UNCHANGED vars
    BY <2>1 DEF vars, busVars
  <2>2. CASE Others
    BY <2>2, OthersLeaveMain
  <2>3. CASE Lifecycle
    BY <2>3 DEF Lifecycle, HoldDevices, StartDevices, HoldRouter, StartRouter, HoldConsole,
                BeginShutdown, ReleaseFlag, ReleaseSentinel, JoinThread, Goto
  <2> QED
    BY <2>1, <2>2, <2>3
<1>3. PagesOnly => PagesOnly'
  <2>1. lines' = lines /\ Said' = Said /\ Wanted' = Wanted /\ UNCHANGED webVars
    BY <1>1 DEF lines, Said, Wanted, webVars, IsCommand
  <2> HIDE DEF lines
  <2> QED
    BY <1>1, <1>2, <2>1 DEF PagesOnly, webVars, AtOnce
<1> QED
  BY <1>3 DEF PagesOK, webVars

(* The pages do: what the web server does leaves the daemon alone.           *)
LEMMA ServerPages ==
  ASSUME IInv, PagesOK, WebServerStep, UNCHANGED vars
  PROVE  PagesOK'
<1>1. UNCHANGED <<session, givenIn, issued, asked, printed, pc, client, texts>> /\ client = "web"
  BY DEF vars, consoleVars, busVars, WebServerStep, Request, Respond, Expire
<1>2. lines' = lines /\ Said' = Said /\ Wanted' = Wanted /\ lines \in Nat /\ session \in Nat
  BY <1>1 DEF lines, Said, Wanted, IsCommand, IInv, ConsoleOK
<1>3. /\ requests \in Nat /\ shown \in Seq(Nat) /\ Len(shown) \in Nat
      /\ Len(shown) <= requests /\ requests <= Len(shown) + 1 /\ MaxSessions \in Nat
  BY BoundsAssumption DEF PagesOK
<1>4. PagesOnly
  BY <1>1 DEF PagesOK
<1> HIDE DEF lines
<1>5. CASE Request
  <2>1. requests = Len(shown) /\ requests' = requests + 1 /\ shown' = shown /\ requests < MaxSessions
    BY <1>3, <1>5 DEF Request, Waiting
  <2>2. PagesOnly'
    BY <1>1, <1>2, <1>3, <1>4, <2>1 DEF PagesOnly, AtOnce
  <2> QED
    BY <1>1, <1>3, <2>1, <2>2 DEF PagesOK
<1>6. CASE Respond \/ Expire
  <2>1. requests = Len(shown) + 1 /\ requests' = requests
    BY <1>3, <1>6 DEF Respond, Expire, Waiting
  <2>2. \E k \in Nat : shown' = Append(shown, k)
    <3>1. CASE Respond
      <4>1. LinesTo(requests) # {} /\ LinesTo(requests) \subseteq Nat
        BY <3>1 DEF Respond, LinesTo, IInv, ConsoleOK
      <4>2. Min(LinesTo(requests)) \in LinesTo(requests)
        BY <4>1, LeastNumber DEF Min
      <4> QED
        BY <3>1, <4>1, <4>2 DEF Respond
    <3>2. CASE Expire
      BY <3>2 DEF Expire
    <3> QED
      BY <1>6, <3>1, <3>2
  <2>3. shown' \in Seq(Nat) /\ Len(shown') = Len(shown) + 1
    BY <1>3, <2>2
  <2>4. PagesOnly'
    <3>1. \A n \in 1..lines : n > Len(shown') => AtOnce[texts[n]]
      BY <1>2, <1>3, <1>4, <2>3 DEF PagesOnly
    <3> QED
      BY <1>1, <1>2, <1>3, <1>4, <2>1, <3>1 DEF PagesOnly, AtOnce
  <2> QED
    BY <1>1, <1>3, <2>1, <2>3, <2>4 DEF PagesOK
<1> QED
  BY <1>5, <1>6 DEF WebServerStep

(* The daemon reads the text of a connection.                                *)
LEMMA DaemonPages ==
  ASSUME IInv, PagesOK, client = "web", WebServe, UNCHANGED webVars
  PROVE  PagesOK'
<1>1. UNCHANGED <<client, texts, requests, shown>>
  BY DEF webVars
<1>2. lines \in Nat /\ session \in Nat /\ requests \in Nat /\ Len(shown) \in Nat
  BY DEF lines, PagesOK, IInv, ConsoleOK
<1>3. PagesOnly
  BY DEF PagesOK
<1>4. Wanted' = Wanted
  BY <1>1 DEF Wanted, IsCommand
<1>0. DOMAIN pc = Threads /\ "main" \in Threads
  BY MainTypes DEF IInv, PlacesOK
<1>5. CASE WebAccept
  <2>1. /\ session < requests /\ session' = session + 1 /\ UNCHANGED <<givenIn, issued, asked>>
        /\ pc["main"] = "accept" /\ pc'["main"] = "parse"
    BY <1>0, <1>5 DEF WebAccept, Accept, BeginSession
  <2>2. lines' = lines /\ Said' = Said
    BY <2>1 DEF lines, Said
  <2> HIDE DEF lines
  <2>3. PagesOnly'
    BY <1>1, <1>2, <1>3, <1>4, <2>1, <2>2 DEF PagesOnly, AtOnce
  <2> QED
    BY <1>1, <2>3 DEF PagesOK
<1>6. CASE WebEnd
  <2>1. lines = session /\ UNCHANGED <<session, givenIn, issued, asked>>
    BY <1>6 DEF WebEnd, EndSessionBy, ParseEnd
  <2>2. lines' = lines /\ Said' = Said
    BY <2>1 DEF lines, Said
  <2> HIDE DEF lines
  <2>3. PagesOnly'
    BY <1>1, <1>2, <1>3, <1>4, <2>1, <2>2 DEF PagesOnly, AtOnce
  <2> QED
    BY <1>1, <2>3 DEF PagesOK
<1>7. CASE WebParse
  <2> DEFINE n == lines + 1
             u == Upto(lines)
  <2>1. lines < session /\ session = n /\ pc["main"] = "parse" /\ Settled
    BY <1>2, <1>3, <1>7 DEF WebParse, ParseOneOf, ParseLine, Reject, PagesOnly
  <2>2. UNCHANGED <<session, pc>> /\ givenIn' = Append(givenIn, session)
    BY <1>7 DEF WebParse, ParseOneOf, ParseLine, Reject, busVars
  <2>3. lines' = n
    <3>1. givenIn \in Seq(Nat)
      BY DEF IInv, ConsoleOK
    <3> QED
      BY <1>2, <2>2, <3>1 DEF lines
  <2>4. n \in DOMAIN texts /\ n \in Nat
    BY <1>2, <1>3, <2>1, BoundsAssumption DEF PagesOnly
  <2>5. IsCommand[texts[n]] <=> n \in Wanted
    BY <2>4 DEF Wanted
  <2>6. /\ asked' = asked /\ issued' \in Seq(Commands)
        /\ Said' = IF n \in Wanted THEN Append(Said, n) ELSE Said
    <3>1. CASE IsCommand[texts[n]]
      <4> DEFINE x == setSource(NewLine("other"), "con")
      <4>1. Command
        BY <1>7, <2>1, <3>1 DEF WebParse, ParseOneOf, ParseLine
      <4>2. asked' = asked /\ issued' = Append(issued, x)
        BY <4>1 DEF Command, ConsolePush
      <4>3. x = [source |-> "con", front |-> "other", body |-> <<n>>]
        BY DEF setSource, NewLine
      <4> HIDE DEF n, x
      <4>4. x \in Message /\ x.body[1] = n
        BY <2>4, <4>3 DEF Message, Devices, Fronts
      <4>c. x \in Commands
        BY <4>3, <4>4 DEF Commands, From, NonEmpty, isPlain, isControl, isRaw, isCap
      <4>5. issued \in Seq(Message) /\ issued \in Seq(Commands)
        BY <1>3, HistoriesTyped DEF PagesOnly
      <4>d. issued' \in Seq(Commands)
        BY <4>2, <4>c, <4>5, AppendIsSeq
      <4>6. Said' = Append(Said, n)
        BY <4>2, <4>4, <4>5, SaidGrows
      <4> QED
        BY <2>5, <3>1, <4>2, <4>d, <4>6
    <3>2. CASE ~IsCommand[texts[n]]
      <4>1. Reject
        BY <1>7, <2>1, <3>2 DEF WebParse
      <4>2. UNCHANGED <<asked, issued>>
        BY <4>1 DEF Reject
      <4> HIDE DEF n
      <4> QED
        BY <1>3, <2>5, <3>2, <4>2 DEF Said, PagesOnly
    <3> QED
      BY <3>1, <3>2
  <2>7. Said' = Only(Upto(n), Wanted)
    <3>1. u \in Seq(Nat) /\ Upto(n) = Append(u, n)
      BY <1>2, UptoGrows
    <3>2. Said = Only(u, Wanted)
      BY <1>3 DEF PagesOnly
    <3> HIDE DEF u, n
    <3>3. Only(Append(u, n), Wanted) = IF n \in Wanted THEN Append(Only(u, Wanted), n)
                                       ELSE Only(u, Wanted)
      BY <2>4, <3>1, OnlyAppend
    <3> QED
      BY <2>6, <3>1, <3>2, <3>3
  <2>8. n > Len(shown) => AtOnce[texts[n]]
    BY <1>2, <2>1 DEF Settled, Closed
  <2>9. \A k \in 1..n : k > Len(shown) => AtOnce[texts[k]]
    BY <1>2, <1>3, <2>8 DEF PagesOnly
  <2>10. Said' = Only(Upto(lines'), Wanted') /\ lines' = session' /\ pc' = pc
    BY <1>4, <2>1, <2>2, <2>3, <2>7
  <2>11. \A k \in 1..lines' : k > Len(shown') => AtOnce[texts'[k]]
    BY <1>1, <2>3, <2>9
  <2> HIDE DEF n, u, lines
  <2>12. PagesOnly'
    BY <1>1, <1>2, <1>3, <2>2, <2>6, <2>10, <2>11 DEF PagesOnly, AtOnce
  <2> QED
    BY <1>1, <2>12 DEF PagesOK
<1> QED
  BY <1>5, <1>6, <1>7 DEF WebServe

(* Whatever step is taken.  The web server does nothing for clients at a     *)
(* terminal.                                                                 *)
LEMMA StepOfPages ==
  ASSUME IInv, PagesOK, [WebNext]_<<vars, webVars>>
  PROVE  PagesOK'
<1>1. CASE ~Crashed /\ (Lifecycle \/ Others) /\ UNCHANGED webVars
  BY <1>1, PagesRest
<1>2. CASE client = "terminal" /\ UNCHANGED webVars
  BY <1>2 DEF PagesOK, webVars
<1>3. CASE client = "web" /\ WebServe /\ UNCHANGED webVars
  BY <1>3, DaemonPages
<1>4. CASE WebServerStep /\ UNCHANGED vars
  BY <1>4, ServerPages
<1>5. CASE UNCHANGED <<vars, webVars>>
  BY <1>5, PagesRest
<1> QED
  BY <1>1, <1>2, <1>3, <1>4, <1>5 DEF WebNext, Finished, WebFinished

(* From the first step to the last. *)
THEOREM PagesInductive == WebSpec => []PagesOK
<1>1. WebInit => PagesOK
  <2> SUFFICES ASSUME WebInit PROVE PagesOK
    OBVIOUS
  <2>1. /\ requests = 0 /\ shown = <<>>
        /\ session = 0 /\ givenIn = <<>> /\ issued = <<>> /\ asked = <<>>
    BY DEF WebInit, Init, ConsoleInit
  <2>2. lines = 0 /\ Said = <<>> /\ Upto(0) = <<>>
    BY <2>1 DEF lines, Said, Upto
  <2>3. Only(<<>>, Wanted) = <<>>
    BY OnlyEmpty
  <2>4. MaxSessions \in Nat
    BY BoundsAssumption
  <2>5. client = "web" => PagesOnly
    BY <2>1, <2>2, <2>3, <2>4 DEF WebInit, PagesOnly
  <2> QED
    BY <2>1, <2>5 DEF PagesOK
<1>2. IInv /\ PagesOK /\ [WebNext]_<<vars, webVars>> => PagesOK'
  BY StepOfPages
<1> QED
  BY <1>1, <1>2, PagesAreClients, Inductive, PTL DEF WebSpec

(* The numbers of the commands that are at the simulator, or on their way    *)
(* there, are those of the texts that have been read and are commands, each  *)
(* once and in the order of the requests.                                    *)
THEOREM PagesCommandsArrive == WebSpec => []CommandsOfPages
<1>1. IInv /\ CommandsConserved /\ PagesOK => CommandsOfPages
  <2> DEFINE pages == IF pc["main"] \in {"accept", "loop"} THEN session ELSE lines
             chosen(n) == {k \in 1..n : IsCommand[texts[k]]}
             commands == Only(sent \o inQ["ser"], Commands) \o InRouter(Commands)
  <2> SUFFICES ASSUME IInv, CommandsConserved, PagesOK, client = "web"
               PROVE  [k \in DOMAIN commands |-> commands[k].body[1]]
                        = Only([n \in 1..pages |-> n], chosen(pages))
    BY DEF CommandsOfPages
  <2>1. PagesOnly /\ lines \in Nat /\ session \in Nat /\ requests \in Nat
    BY DEF PagesOK, lines, IInv, ConsoleOK
  <2>2. commands = issued
    <3>1. Only(issued, Commands) = commands
      BY DEF CommandsConserved
    <3>2. issued \in Seq(Commands)
      BY <2>1 DEF PagesOnly
    <3> HIDE DEF commands
    <3> QED
      BY <3>1, <3>2, OnlyAll
  <2>3. pages = lines
    BY <2>1 DEF PagesOnly
  <2>4. Said = Only(Upto(lines), Wanted)
    BY <2>1 DEF PagesOnly
  <2>5. Only(Upto(lines), Wanted) = Only(Upto(lines), chosen(lines))
    <3> DEFINE u == Upto(lines)
               D == 1..lines
    <3>1. u \in Seq(D)
      BY <2>1, UptoGrows
    <3>2. D \cap Wanted = chosen(lines)
      <4>1. DOMAIN texts = 1..MaxSessions /\ lines <= MaxSessions /\ MaxSessions \in Nat
        BY <2>1, BoundsAssumption DEF PagesOnly
      <4> HIDE DEF lines
      <4> QED
        BY <2>1, <4>1 DEF Wanted
    <3> HIDE DEF u, D, chosen
    <3>3. Only(u, D) = u
      BY <3>1, OnlyAll
    <3>4. Only(Only(u, D), Wanted) = Only(u, D \cap Wanted)
      BY <3>1, OnlyOnly
    <3> QED
      BY <3>2, <3>3, <3>4 DEF u
  <2>6. Said = Only(Upto(pages), chosen(pages))
    BY <2>3, <2>4, <2>5
  <2> HIDE DEF pages, commands
  <2> QED
    BY <2>2, <2>6 DEF Upto, Said
<1> QED
  BY <1>1, PagesInductive, PagesAreClients, Inductive, CommandsArrive, PTL

-----------------------------------------------------------------------------
(* The answers that the pages are shown. *)

(* A page is shown a line of its own session.  The number on it is that of   *)
(* an earlier page's command, or of its own if that was settled by itself,   *)
(* or is the radio's.                                                        *)
ShownWell(n) ==
  LET k == shown[n]
      m == printed[k].msg.body[1]
  IN  k # 0 => /\ k \in DOMAIN printed /\ printed[k].session = n
               /\ m <= MaxLines => m < n \/ (m = n /\ AtOnce[texts[n]])

(* What makes AnswersOfPages inductive. *)
ShownOK == \A n \in DOMAIN shown : ShownWell(n)

(* What has been printed stays printed. *)
LEMMA PrintedStays ==
  ASSUME IInv, [Next]_vars
  PROVE  \A k \in DOMAIN printed : k \in DOMAIN printed' /\ printed'[k] = printed[k]
<1>1. printed \in Seq(Prints) /\ session \in Nat
  BY DEF IInv, ConsoleOK
<1>2. ASSUME NEW m, printed' = Append(printed, [msg |-> m, session |-> session])
      PROVE  \A k \in DOMAIN printed : k \in DOMAIN printed' /\ printed'[k] = printed[k]
  <2> DEFINE x == [msg |-> m, session |-> session]
             p == printed
             q == printed'
  <2>1. q = Append(p, x)
    BY <1>2
  <2> HIDE DEF x, q, p
  <2>2. \A s \in Seq(Prints) : /\ Len(s) \in Nat /\ DOMAIN s = 1..Len(s)
                               /\ DOMAIN Append(s, x) = 1..(Len(s) + 1)
                               /\ \A k \in 1..Len(s) : Append(s, x)[k] = s[k]
    BY AppendProperties
  <2>3. /\ Len(p) \in Nat /\ DOMAIN p = 1..Len(p) /\ DOMAIN q = 1..(Len(p) + 1)
        /\ \A k \in 1..Len(p) : q[k] = p[k]
    BY <1>1, <2>1, <2>2 DEF p
  <2>4. \A k \in DOMAIN p : k \in DOMAIN q /\ q[k] = p[k]
    BY <2>3
  <2> QED
    BY <2>4 DEF p, q
<1> QED
  BY <1>2, SessionsGrow

(* A page is shown what the daemon has printed for it.                       *)
LEMMA RespondsWell ==
  ASSUME IInv, RepliesConserved, NumbersOK, PagesOK, client = "web", Respond
  PROVE  LET k == Min(LinesTo(requests))
             m == printed[k].msg.body[1]
         IN  /\ k \in DOMAIN printed /\ printed[k].session = requests
             /\ m <= MaxLines => m < requests \/ (m = requests /\ AtOnce[texts[requests]])
<1> DEFINE k == Min(LinesTo(requests))
           x == printed[k].msg
           m == x.body[1]
<1>1. k \in DOMAIN printed /\ printed[k].session = requests
  <2>1. LinesTo(requests) # {} /\ LinesTo(requests) \subseteq Nat
    BY DEF Respond, LinesTo, IInv, ConsoleOK
  <2>2. k \in LinesTo(requests)
    BY <2>1, LeastNumber DEF Min
  <2> HIDE DEF k
  <2> QED
    BY <2>2 DEF LinesTo
<1>2. PagesOnly
  BY DEF PagesOK
<1>3. lines \in Nat /\ session \in Nat /\ requests \in Nat /\ Len(shown) \in Nat /\ MaxLines \in Nat
  BY BoundsAssumption DEF lines, PagesOK, IInv, ConsoleOK
<1> HIDE DEF k
<1>4. x \in Heard(lines)
  <2>1. received \in Seq(Heard(lines))
    BY DEF NumbersOK
  <2>2. asked \in Seq({})
    BY <1>2, EmptyIsSeq DEF PagesOnly
  <2>3. /\ x.source = "ser" => x \in Heard(lines)
        /\ x.source # "ser" => x \in {}
    BY <1>1, <2>1, <2>2, PrintedWasReceived
  <2> QED
    BY <2>3
<1>5. m \in Nat /\ (m \in 1..lines \/ m > MaxLines)
  BY <1>4 DEF Heard, Message
<1>6. lines <= requests /\ requests > Len(shown)
  BY <1>2, <1>3 DEF PagesOnly, Respond, Waiting
<1>7. \A n \in 1..lines : n > Len(shown) => AtOnce[texts[n]]
  BY <1>2 DEF PagesOnly
<1> HIDE DEF lines, m, x
<1>8. ASSUME m <= MaxLines PROVE m < requests \/ (m = requests /\ AtOnce[texts[requests]])
  <2>1. m \in 1..lines
    BY <1>3, <1>5, <1>8
  <2>2. CASE m = requests
    <3>1. requests \in 1..lines
      BY <2>1, <2>2
    <3>2. AtOnce[texts[requests]]
      BY <1>6, <1>7, <3>1
    <3> QED
      BY <2>2, <3>2
  <2>3. CASE m # requests
    BY <1>3, <1>6, <2>1, <2>3
  <2> QED
    BY <2>2, <2>3
<1> QED
  BY <1>1, <1>8 DEF k, m, x

(* No step takes back what a page has been shown, or shows it anything else. *)
LEMMA ShownKept ==
  ASSUME IInv, RepliesConserved, NumbersOK, PagesOK, ShownOK, client \in Clients,
         [WebNext]_<<vars, webVars>>
  PROVE  ShownOK'
<1>1. \A k \in DOMAIN printed : k \in DOMAIN printed' /\ printed'[k] = printed[k]
  BY WebStepIsStep, PrintedStays
<1>2. texts' = texts
  BY DEF WebNext, WebServerStep, Request, Respond, Expire, WebFinished, webVars
<1>3. ASSUME NEW n \in DOMAIN shown, n \in DOMAIN shown', shown'[n] = shown[n]
      PROVE  ShownWell(n)'
  <2>1. ShownWell(n)
    BY DEF ShownOK
  <2> QED
    BY <1>1, <1>2, <1>3, <2>1 DEF ShownWell, AtOnce
<1>4. CASE shown' = shown
  BY <1>3, <1>4 DEF ShownOK
<1>5. ASSUME NEW k \in Nat, shown' = Append(shown, k),
             Waiting, k # 0 => k = Min(LinesTo(requests)) /\ Respond /\ client = "web",
             UNCHANGED printed
      PROVE  ShownOK'
  <2> DEFINE l == Len(shown)
  <2>1. /\ l \in Nat /\ DOMAIN shown = 1..l /\ DOMAIN shown' = 1..(l + 1)
        /\ shown'[l + 1] = k /\ \A n \in 1..l : shown'[n] = shown[n]
    BY <1>5, AppendProperties DEF PagesOK
  <2>2. requests = l + 1
    BY <1>5, <2>1 DEF Waiting, PagesOK
  <2>3. ASSUME NEW n \in DOMAIN shown', n = l + 1 PROVE ShownWell(n)'
    <3>1. shown'[n] = k /\ requests = n
      BY <2>1, <2>2, <2>3
    <3>2. CASE k = 0
      BY <3>1, <3>2 DEF ShownWell
    <3>3. CASE k # 0
      <4>1. /\ k \in DOMAIN printed /\ printed[k].session = n
            /\ printed[k].msg.body[1] <= MaxLines
                 => \/ printed[k].msg.body[1] < n
                    \/ printed[k].msg.body[1] = n /\ AtOnce[texts[n]]
        BY <1>5, <3>1, <3>3, RespondsWell
      <4> QED
        BY <1>2, <1>5, <3>1, <4>1 DEF ShownWell, AtOnce
    <3> QED
      BY <3>2, <3>3
  <2>4. ASSUME NEW n \in DOMAIN shown', n # l + 1 PROVE ShownWell(n)'
    <3>1. n \in DOMAIN shown /\ shown'[n] = shown[n]
      BY <2>1, <2>4
    <3> QED
      BY <1>3, <3>1
  <2> QED
    BY <2>3, <2>4 DEF ShownOK
<1>6. CASE Respond /\ UNCHANGED vars /\ client = "web"
  <2> DEFINE k == Min(LinesTo(requests))
  <2>1. k \in DOMAIN printed
    BY <1>6, RespondsWell
  <2>2. k \in Nat /\ Waiting /\ shown' = Append(shown, k) /\ UNCHANGED printed
    BY <1>6, <2>1 DEF Respond, vars, consoleVars, IInv, ConsoleOK
  <2> HIDE DEF k
  <2> QED
    BY <1>5, <1>6, <2>2 DEF k
<1>7. CASE Expire /\ UNCHANGED vars
  <2>1. Waiting /\ shown' = Append(shown, 0) /\ UNCHANGED printed
    BY <1>7 DEF Expire, vars, consoleVars
  <2> QED
    BY <1>5, <2>1
<1> QED
  BY <1>4, <1>6, <1>7 DEF WebNext, WebServerStep, Request, WebFinished, webVars

(* From the first step to the last. *)
THEOREM ShownInductive == WebSpec => []ShownOK
<1>1. WebInit => ShownOK /\ client \in Clients
  BY DEF WebInit, ShownOK
<1>2. client \in Clients /\ [WebNext]_<<vars, webVars>> => (client \in Clients)'
  BY DEF WebNext, WebServerStep, Request, Respond, Expire, WebFinished, webVars
<1>3. /\ IInv /\ RepliesConserved /\ NumbersOK /\ PagesOK /\ ShownOK /\ client \in Clients
      /\ [WebNext]_<<vars, webVars>>
      => ShownOK'
  BY ShownKept
<1> QED
  BY <1>1, <1>2, <1>3, PagesAreClients, PagesInductive, Inductive, RepliesArrive,
     NumbersInductive, PTL DEF WebSpec

(* A page is shown the answer to its own command only if the command ends in *)
(* a byte, and never the answer to a later one's or a line shown before.     *)
THEOREM PagesAnswered == WebSpec => []AnswersOfPages
<1>1. IInv /\ SessionsOK /\ PagesOK /\ ShownOK => AnswersOfPages
  <2> SUFFICES ASSUME IInv, SessionsOK, PagesOK, ShownOK,
                      NEW n \in DOMAIN shown, shown[n] # 0
               PROVE  LET m == printed[shown[n]].msg.body[1]
                      IN  /\ m <= MaxLines => m < n \/ (m = n /\ LineOf(texts[n]).behind # <<>>)
                          /\ \A l \in 1..(n - 1) : shown[l] < shown[n]
    BY DEF AnswersOfPages
  <2>1. shown \in Seq(Nat) /\ client = "web" /\ PagesOnly /\ n \in Nat /\ n >= 1
    BY DEF PagesOK
  <2>2. ShownWell(n)
    BY DEF ShownOK
  <2>3. texts[n] \in Texts
    <3>1. n <= requests /\ requests \in Nat /\ requests <= MaxSessions /\ MaxSessions \in Nat
          /\ texts \in [1..MaxSessions -> Texts]
      BY <2>1, BoundsAssumption DEF PagesOK, PagesOnly
    <3> QED
      BY <2>1, <3>1
  <2>4. AtOnce[texts[n]] => LineOf(texts[n]).behind # <<>>
    BY <2>3, SettledEarly
  <2>5. ASSUME NEW l \in 1..(n - 1) PROVE shown[l] < shown[n]
    <3> DEFINE j == shown[l]
               k == shown[n]
    <3>1. l \in DOMAIN shown /\ l \in Nat /\ l < n /\ j \in Nat /\ k \in Nat
      BY <2>1
    <3>2. ShownWell(l)
      BY <3>1 DEF ShownOK
    <3>3. k \in DOMAIN printed /\ printed[k].session = n
      BY <2>2 DEF ShownWell
    <3>4. j # 0 => j \in DOMAIN printed /\ printed[j].session = l
      BY <3>2 DEF ShownWell
    <3>5. k # 0
      OBVIOUS
    <3>6. j # 0 => \A i \in 1..(j - 1) : printed[i].session <= printed[j].session
      BY <3>4 DEF SessionsOK
    <3>7. printed \in Seq(Prints)
      BY DEF IInv, ConsoleOK
    <3>8. k \in 1..Len(printed)
      BY <3>3, <3>7
    <3> HIDE DEF j, k
    <3>9. ASSUME j # 0 PROVE ~(k < j) /\ k # j
      <4>1. k # j
        BY <2>1, <3>1, <3>3, <3>4, <3>9
      <4>2. k < j => printed[k].session <= printed[j].session
        BY <3>1, <3>6, <3>8, <3>9
      <4> QED
        BY <2>1, <3>1, <3>3, <3>4, <3>9, <4>1, <4>2
    <3>10. j < k
      BY <3>1, <3>5, <3>9
    <3> QED
      BY <3>10 DEF j, k
  <2> QED
    BY <2>2, <2>4, <2>5 DEF ShownWell
<1> QED
  BY <1>1, PagesAreClients, PagesInductive, ShownInductive, Inductive, SessionsInductive, PTL
=============================================================================
