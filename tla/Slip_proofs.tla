---------------------------- MODULE Slip_proofs -----------------------------
(* Machine-checked proofs about the framing of the serial line: for any      *)
(* bytes, payloads and number of frames, and wherever the stream is cut.     *)
EXTENDS Slip, Filters_proofs

(* The bytes that stand between two delimiters. *)
Inner == Bytes \ {END}

Strings == Seq(Bytes)

(* The special bytes differ from each other and from the others. *)
LEMMA SpecialBytes ==
  /\ END \in Bytes /\ ESC \in Inner /\ ESC_END \in Inner /\ ESC_ESC \in Inner
  /\ Inner \subseteq Bytes /\ END \notin Inner
  /\ ESC # ESC_END /\ ESC # ESC_ESC /\ ESC_END # ESC_ESC
  BY DEF Bytes, Inner, END, ESC, ESC_END, ESC_ESC

(* A word of two members. *)
LEMMA TwoBytes ==
  ASSUME NEW S, NEW x \in S, NEW y \in S
  PROVE  <<x, y>> \in Seq(S) /\ <<x, y>> = Cat(One(x), One(y))
<1> DEFINE s == <<x>>
<1>1. s \in Seq(S) /\ <<x, y>> \in Seq(S)
  OBVIOUS
<1>2. Append(s, y) = <<x, y>>
  <2> DEFINE t == <<x, y>>
             u == Append(s, y)
  <2>1. t \in Seq(S) /\ Len(t) = 2 /\ t[1] = x /\ t[2] = y
    OBVIOUS
  <2>2. u \in Seq(S) /\ Len(u) = 2 /\ u[1] = x /\ u[2] = y
    OBVIOUS
  <2> HIDE DEF t, u
  <2>3. \A i \in 1..Len(u) : u[i] = t[i]
    BY <2>1, <2>2
  <2> QED
    BY <2>1, <2>2, <2>3, SeqEqual DEF t, u
<1> HIDE DEF s
<1>3. Append(s, y) = s \o <<y>>
  BY <1>1, AppendIsSeq
<1> QED
  BY <1>1, <1>2, <1>3 DEF Cat, One, s

(* An escaped byte. *)
LEMMA EscapedIs ==
  ASSUME NEW b \in Bytes
  PROVE  /\ Escaped(b) \in Seq(Inner)
         /\ b = END => Escaped(b) = Cat(One(ESC), One(ESC_END))
         /\ b = ESC => Escaped(b) = Cat(One(ESC), One(ESC_ESC))
         /\ b \notin {END, ESC} => Escaped(b) = One(b)
<1>1. CASE b = END
  <2>1. Escaped(b) = <<ESC, ESC_END>>
    BY <1>1, SpecialBytes DEF Escaped, END, ESC
  <2> QED
    BY <1>1, <2>1, SpecialBytes, TwoBytes
<1>2. CASE b = ESC
  <2>1. Escaped(b) = <<ESC, ESC_ESC>>
    BY <1>2, SpecialBytes DEF Escaped, END, ESC
  <2> QED
    BY <1>2, <2>1, SpecialBytes, TwoBytes
<1>3. CASE b \notin {END, ESC}
  <2>1. Escaped(b) = <<b>>
    BY <1>3 DEF Escaped
  <2>2. b \in Inner
    BY <1>3 DEF Inner
  <2> QED
    BY <1>3, <2>1, <2>2 DEF One
<1> QED
  BY <1>1, <1>2, <1>3

(* What decode() makes of one byte. *)
LEMMA DecodedIs ==
  ASSUME NEW b \in Bytes, NEW prev \in Bytes
  PROVE  /\ Decoded(prev, b) \in Strings
         /\ b \in {END, ESC} => Decoded(prev, b) = None
         /\ b = ESC_END => Decoded(prev, b) = IF prev = ESC THEN One(END) ELSE One(ESC_END)
         /\ b = ESC_ESC => Decoded(prev, b) = IF prev = ESC THEN One(ESC) ELSE One(ESC_ESC)
         /\ b \notin {END, ESC, ESC_END, ESC_ESC} => Decoded(prev, b) = One(b)
<1> USE SpecialBytes DEF Strings, One, None
<1>1. CASE b = END
  BY <1>1 DEF Decoded, END, ESC, ESC_END, ESC_ESC
<1>2. CASE b = ESC
  BY <1>2 DEF Decoded, END, ESC, ESC_END, ESC_ESC
<1>3. CASE b = ESC_END
  BY <1>3 DEF Decoded, END, ESC, ESC_END, ESC_ESC, Inner
<1>4. CASE b = ESC_ESC
  BY <1>4 DEF Decoded, END, ESC, ESC_END, ESC_ESC, Inner
<1>5. CASE b \notin {END, ESC, ESC_END, ESC_ESC}
  BY <1>5 DEF Decoded
<1> QED
  BY <1>1, <1>2, <1>3, <1>4, <1>5

-----------------------------------------------------------------------------
(* The bytes of a frame between its delimiters. *)
escape == [b \in Bytes |-> Escaped(b)]

Body(p) == Each(escape, p)

(* It is a table of sequences without a delimiter. *)
LEMMA EscapeTable == escape \in Tables(Bytes, Inner) /\ \A b \in Bytes : escape[b] = Escaped(b)
  BY EscapedIs DEF escape, Tables

(* A frame is its bytes between two delimiters. *)
LEMMA FrameIs ==
  ASSUME NEW p \in Strings
  PROVE  encode(p) = Cat(Cat(One(END), Body(p)), One(END))
<1>1. \A i \in 1..Len(p) : p[i] \in Bytes
  BY DEF Strings
<1>2. DOMAIN p = 1..Len(p)
  BY DEF Strings
<1>3. [i \in DOMAIN p |-> Escaped(p[i])] = [i \in 1..Len(p) |-> escape[p[i]]]
  BY <1>1, <1>2, EscapeTable
<1> QED
  BY <1>3 DEF encode, Body, Each, Cat, One

(* The bytes between the delimiters, byte after byte. *)
LEMMA BodyAdd ==
  ASSUME NEW p \in Strings, NEW x \in Bytes
  PROVE  /\ Body(None) = None
         /\ Body(p) \in Seq(Inner)
         /\ Body(Add(p, x)) = Cat(Body(p), Escaped(x))
  BY EscapeTable, EachAdd DEF Body, Strings

(* The last byte. *)
LastOf(m) == m[Len(m)]

(* decode() byte after byte. *)
LEMMA DecodeAdd ==
  ASSUME NEW m \in Strings, NEW b \in Bytes
  PROVE  /\ decode(None) = None
         /\ decode(m) \in Strings
         /\ m = None => decode(Add(m, b)) = Decoded(b, b)
         /\ m # None => decode(Add(m, b)) = Cat(decode(m), Decoded(LastOf(m), b))
<1> DEFINE Prev(s, i) == s[IF i = 1 THEN 1 ELSE i - 1]
           c(s) == [i \in 1..Len(s) |-> Decoded(Prev(s, i), s[i])]
           a == Append(m, b)
           l == Len(m)
           y == Decoded(Prev(a, l + 1), b)
<1>1. \A s \in Strings : /\ decode(s) = Joined(c(s))
                         /\ \A i \in 1..Len(s) : Prev(s, i) \in Bytes /\ s[i] \in Bytes
  <2> SUFFICES ASSUME NEW s \in Strings
               PROVE  /\ decode(s) = Joined(c(s))
                      /\ \A i \in 1..Len(s) : Prev(s, i) \in Bytes /\ s[i] \in Bytes
    OBVIOUS
  <2>1. DOMAIN s = 1..Len(s) /\ \A i \in 1..Len(s) : s[i] \in Bytes
    BY DEF Strings
  <2>2. \A i \in 1..Len(s) : Prev(s, i) \in Bytes
    BY <2>1
  <2> QED
    BY <2>1, <2>2 DEF decode
<1>2. /\ a \in Strings /\ Len(a) = l + 1 /\ l \in Nat /\ a[l + 1] = b
      /\ \A k \in 1..l : a[k] = m[k]
      /\ a = Add(m, b)
  BY DEF Strings, Add
<1>3. c(m) \in Seq(Strings) /\ Len(c(m)) = l
  <2>1. \A i \in 1..l : Decoded(Prev(m, i), m[i]) \in Strings
    BY <1>1, DecodedIs
  <2> HIDE DEF Prev
  <2> QED
    BY <1>2, <2>1
<1>4. y \in Strings
  <2>1. l + 1 \in 1..Len(a)
    BY <1>2
  <2>2. Prev(a, l + 1) \in Bytes
    BY <1>1, <1>2, <2>1
  <2> HIDE DEF Prev
  <2> QED
    BY <2>2, DecodedIs
<1>5. c(a) = Append(c(m), y) /\ Joined(Append(c(m), y)) = Joined(c(m)) \o y
  <2> DEFINE t == c(m)
  <2>1. \A k \in 1..l : Prev(a, k) = Prev(m, k)
    BY <1>2
  <2>2. c(a) = [k \in 1..(l + 1) |-> IF k = l + 1 THEN y ELSE t[k]]
    <3> HIDE DEF Prev, a
    <3> QED
      BY <1>2, <2>1
  <2>3. t \in Seq(Strings) /\ Len(t) = l
    BY <1>3
  <2> HIDE DEF t, y, c
  <2>4. Append(t, y) = [k \in 1..(Len(t) + 1) |-> IF k = Len(t) + 1 THEN y ELSE t[k]]
    BY <1>4, <2>3, AppendAsFunction
  <2>5. Joined(Append(t, y)) = Joined(t) \o y
    BY <1>4, <2>3, JoinedAppend
  <2> QED
    BY <2>2, <2>3, <2>4, <2>5 DEF t
<1>6. Joined(c(m)) \in Strings
  <2> DEFINE t == c(m)
  <2>1. t \in Seq(Seq(Bytes))
    BY <1>3 DEF Strings
  <2> HIDE DEF t
  <2> QED
    BY <2>1, JoinedType DEF t, Strings
<1>7. decode(Add(m, b)) = Cat(decode(m), y) /\ decode(m) \in Strings
  BY <1>1, <1>2, <1>5, <1>6 DEF Cat
<1>8. decode(None) = None
  <2>1. [i \in DOMAIN <<>> |-> Decoded(<<>>[IF i = 1 THEN 1 ELSE i - 1], <<>>[i])] = <<>>
    OBVIOUS
  <2> QED
    BY <2>1, JoinedEmpty DEF decode, None
<1>9. CASE m = None
  <2>1. l = 0 /\ Prev(a, l + 1) = b
    BY <1>2, <1>9 DEF None
  <2>2. y = Decoded(b, b)
    BY <2>1
  <2> QED
    BY <1>4, <1>7, <1>8, <1>9, <2>2, CatNone DEF Strings
<1>10. CASE m # None
  <2>1. l # 0 /\ Prev(a, l + 1) = m[l]
    BY <1>2, <1>10 DEF None, Strings
  <2> QED
    BY <1>7, <1>8, <1>10, <2>1 DEF LastOf
<1> QED
  BY <1>9, <1>10

(* The last byte is the one that was added. *)
LEMMA LastAdded ==
  ASSUME NEW m \in Strings, NEW x \in Bytes
  PROVE  LastOf(Add(m, x)) = x /\ Add(m, x) # None /\ Add(m, x) \in Strings
  BY DEF LastOf, Add, None, Strings

(* Words of bytes. *)
LEMMA BytesTyped ==
  ASSUME NEW s \in Strings, NEW t \in Strings, NEW x \in Bytes
  PROVE  /\ None \in Strings /\ One(x) \in Strings
         /\ Add(s, x) \in Strings /\ Cat(s, t) \in Strings
         /\ Cat(s, None) = s /\ Cat(None, s) = s
         /\ Add(None, x) = One(x) /\ One(x) # None
         /\ Cat(s, One(x)) = Add(s, x)
         /\ Cat(s, Add(t, x)) = Add(Cat(s, t), x)
<1> USE DEF Strings
<1>1. None \in Strings /\ One(x) \in Strings /\ Add(s, x) \in Strings /\ Cat(s, t) \in Strings
  BY WordsTyped
<1>2. Cat(s, None) = s /\ Cat(None, s) = s
  BY CatNone
<1>3. Add(None, x) = One(x) /\ One(x) # None
  <2>1. <<x>> # <<>>
    OBVIOUS
  <2> QED
    BY <2>1 DEF Add, One, None
<1>4. Cat(s, One(x)) = Add(s, x)
  BY AddOne
<1>5. Cat(s, Add(t, x)) = Add(Cat(s, t), x)
  BY CatAdd
<1> QED
  BY <1>1, <1>2, <1>3, <1>4, <1>5

(* A delimiter in front or at the end does not matter to decode(). *)
LEMMA DecodeDelimited ==
  ASSUME NEW r \in Strings
  PROVE  /\ decode(Cat(One(END), r)) = decode(r)
         /\ decode(Add(r, END)) = decode(r)
<1>0. END \in Bytes /\ One(END) \in Strings /\ decode(One(END)) = None /\ None \in Strings
  <2>1. END \in Bytes /\ None \in Strings /\ Add(None, END) = One(END) /\ One(END) \in Strings
    BY SpecialBytes, BytesTyped
  <2>2. decode(Add(None, END)) = Decoded(END, END)
    BY <2>1, DecodeAdd
  <2>3. Decoded(END, END) = None
    BY <2>1, DecodedIs
  <2> QED
    BY <2>1, <2>2, <2>3
<1>1. decode(Add(r, END)) = decode(r)
  <2>1. CASE r = None
    BY <1>0, <2>1, DecodeAdd, BytesTyped
  <2>2. CASE r # None
    <3>1. decode(Add(r, END)) = Cat(decode(r), Decoded(LastOf(r), END)) /\ decode(r) \in Strings
      BY <1>0, <2>2, DecodeAdd
    <3>2. LastOf(r) \in Bytes
      BY <2>2 DEF LastOf, None, Strings
    <3>3. Decoded(LastOf(r), END) = None
      BY <1>0, <3>2, DecodedIs
    <3> QED
      BY <3>1, <3>3, BytesTyped, <1>0
  <2> QED
    BY <2>1, <2>2
<1> DEFINE m(s) == Cat(One(END), s)
           G == {s \in Strings :
                   decode(m(s)) = decode(s) /\ (s # None => LastOf(m(s)) = LastOf(s))}
<1>2. None \in G
  BY <1>0, BytesTyped, DecodeAdd
<1>3. ASSUME NEW s \in Strings, s \in G, NEW x \in Bytes PROVE Add(s, x) \in G
  <2>1. /\ m(s) \in Strings /\ m(Add(s, x)) = Add(m(s), x) /\ Add(s, x) \in Strings
        /\ LastOf(Add(s, x)) = x /\ LastOf(Add(m(s), x)) = x
    BY <1>0, BytesTyped, LastAdded
  <2>2. CASE s = None
    <3>1. m(s) = One(END) /\ m(s) # None /\ LastOf(m(s)) = END
      <4>1. Add(None, END) = One(END) /\ LastOf(Add(None, END)) = END /\ One(END) # None
        BY <1>0, BytesTyped, LastAdded
      <4> QED
        BY <1>0, <2>2, <4>1, BytesTyped
    <3>2. decode(Add(m(s), x)) = Cat(decode(m(s)), Decoded(END, x))
      BY <2>1, <3>1, DecodeAdd
    <3>3. decode(Add(s, x)) = Decoded(x, x)
      BY <2>2, DecodeAdd
    <3>4. Decoded(x, x) = Decoded(END, x) /\ Decoded(END, x) \in Strings
      <4>1. /\ x # ESC => Decoded(x, x) = Decoded(END, x)
            /\ x = ESC => Decoded(x, x) = Decoded(END, x)
        BY <1>0, DecodedIs, SpecialBytes
      <4> QED
        BY <1>0, <4>1, DecodedIs
    <3>5. decode(m(s)) = None
      BY <1>3, <2>2, DecodeAdd, <1>0
    <3>6. Cat(None, Decoded(END, x)) = Decoded(END, x)
      BY <1>0, <3>4, BytesTyped
    <3>7. decode(m(Add(s, x))) = decode(Add(s, x))
      BY <2>1, <3>2, <3>3, <3>4, <3>5, <3>6
    <3>8. LastOf(m(Add(s, x))) = LastOf(Add(s, x))
      BY <2>1
    <3> HIDE DEF m
    <3> QED
      BY <2>1, <3>7, <3>8
  <2>3. CASE s # None
    <3>1. m(s) # None
      <4>1. Len(One(END)) = 1 /\ Len(Cat(One(END), s)) = Len(One(END)) + Len(s) /\ Len(s) \in Nat
        BY <1>0 DEF One, Cat, Strings
      <4> QED
        BY <4>1 DEF None
    <3>2. decode(Add(m(s), x)) = Cat(decode(m(s)), Decoded(LastOf(m(s)), x))
      BY <2>1, <3>1, DecodeAdd
    <3>3. decode(Add(s, x)) = Cat(decode(s), Decoded(LastOf(s), x))
      BY <2>3, DecodeAdd
    <3> QED
      BY <1>3, <2>1, <2>3, <3>2, <3>3
  <2> QED
    BY <2>2, <2>3
<1> HIDE DEF G
<1>4. Strings \subseteq G
  BY <1>2, <1>3, WordInduction DEF Strings
<1> QED
  BY <1>1, <1>4 DEF G

(* What is between the delimiters of a frame decodes to its payload. *)
LEMMA DecodeBody ==
  ASSUME NEW p \in Strings
  PROVE  decode(Body(p)) = p
<1> DEFINE m(s) == Cat(One(END), Body(s))
           G == {s \in Strings : decode(m(s)) = s /\ m(s) # None /\ LastOf(m(s)) \in Bytes \ {ESC}}
<1>0. /\ END \in Bytes /\ ESC \in Bytes /\ ESC_END \in Bytes /\ ESC_ESC \in Bytes
      /\ One(END) \in Strings /\ None \in Strings
  BY SpecialBytes, BytesTyped DEF Inner
<1>1. None \in G
  <2>1. m(None) = One(END)
    BY <1>0, BodyAdd, BytesTyped
  <2>2. One(END) = Add(None, END)
    BY <1>0, BytesTyped
  <2>3. decode(One(END)) = None
    BY <1>0, <2>2, DecodeDelimited, DecodeAdd
  <2>4. LastOf(One(END)) = END /\ One(END) # None
    BY <1>0, <2>2, LastAdded
  <2>5. END # ESC
    BY SpecialBytes
  <2> QED
    BY <1>0, <2>1, <2>3, <2>4, <2>5
<1>2. ASSUME NEW s \in Strings, s \in G, NEW x \in Bytes PROVE Add(s, x) \in G
  <2> DEFINE u == m(s)
             l == LastOf(u)
  <2>1. /\ decode(u) = s /\ u # None /\ l \in Bytes /\ l # ESC
    BY <1>2
  <2>2. Body(s) \in Strings /\ u \in Strings
    <3>1. Body(s) \in Seq(Inner)
      BY BodyAdd
    <3>2. Body(s) \in Strings
      BY <3>1, SpecialBytes, SeqMonotonic DEF Strings
    <3> QED
      BY <1>0, <3>2, BytesTyped
  <2>3. Body(Add(s, x)) = Cat(Body(s), Escaped(x)) /\ Add(s, x) \in Strings
    BY BodyAdd, BytesTyped
  <2>4. CASE x \notin {END, ESC}
    <3>1. m(Add(s, x)) = Add(u, x)
      <4>1. Escaped(x) = One(x)
        BY <2>4, EscapedIs
      <4> QED
        BY <1>0, <2>2, <2>3, <4>1, BytesTyped
    <3>2. decode(Add(u, x)) = Cat(s, Decoded(l, x))
      BY <2>1, <2>2, DecodeAdd
    <3>3. Decoded(l, x) = One(x)
      BY <2>1, <2>4, DecodedIs
    <3>4. LastOf(Add(u, x)) = x /\ Add(u, x) # None
      BY <2>2, LastAdded
    <3> QED
      BY <2>3, <2>4, <3>1, <3>2, <3>3, <3>4, BytesTyped
  <2>5. CASE x \in {END, ESC}
    <3> DEFINE y == IF x = END THEN ESC_END ELSE ESC_ESC
    <3>1. Escaped(x) = Cat(One(ESC), One(y)) /\ y \in Bytes /\ y # ESC
      BY <1>0, <2>5, EscapedIs, SpecialBytes
    <3>2. Decoded(ESC, y) = One(x)
      BY <1>0, <2>5, DecodedIs, SpecialBytes
    <3> HIDE DEF y
    <3>3. m(Add(s, x)) = Add(Add(u, ESC), y)
      <4>1. Cat(One(ESC), One(y)) = Add(One(ESC), y) /\ One(ESC) \in Strings
        BY <1>0, <3>1, BytesTyped
      <4>2. Cat(Body(s), Add(One(ESC), y)) = Add(Cat(Body(s), One(ESC)), y)
        BY <2>2, <3>1, <4>1, BytesTyped
      <4>3. Cat(Body(s), One(ESC)) = Add(Body(s), ESC) /\ Add(Body(s), ESC) \in Strings
        BY <1>0, <2>2, BytesTyped
      <4>4. m(Add(s, x)) = Add(Cat(One(END), Add(Body(s), ESC)), y)
        BY <1>0, <2>3, <3>1, <4>1, <4>2, <4>3, BytesTyped
      <4>5. Cat(One(END), Add(Body(s), ESC)) = Add(u, ESC)
        BY <1>0, <2>2, BytesTyped
      <4> QED
        BY <4>4, <4>5
    <3>4. decode(Add(u, ESC)) = Cat(s, Decoded(l, ESC)) /\ Decoded(l, ESC) = None
      BY <1>0, <2>1, <2>2, DecodeAdd, DecodedIs
    <3>5. /\ decode(Add(u, ESC)) = s /\ Add(u, ESC) \in Strings /\ Add(u, ESC) # None
          /\ LastOf(Add(u, ESC)) = ESC
      BY <1>0, <2>2, <3>4, BytesTyped, LastAdded
    <3>6. decode(Add(Add(u, ESC), y)) = Cat(s, Decoded(ESC, y))
      BY <3>1, <3>5, DecodeAdd
    <3>7. LastOf(Add(Add(u, ESC), y)) = y /\ Add(Add(u, ESC), y) # None
      BY <3>1, <3>5, LastAdded
    <3> QED
      BY <2>3, <3>1, <3>2, <3>3, <3>6, <3>7, BytesTyped
  <2> QED
    BY <2>4, <2>5
<1> HIDE DEF G
<1>3. Strings \subseteq G
  BY <1>1, <1>2, WordInduction DEF Strings
<1>4. decode(m(p)) = p
  BY <1>3 DEF G
<1>5. Body(p) \in Strings
  <2>1. Body(p) \in Seq(Inner)
    BY <1>0, BodyAdd
  <2> QED
    BY <2>1, SpecialBytes, SeqMonotonic DEF Strings
<1> QED
  BY <1>4, <1>5, DecodeDelimited

-----------------------------------------------------------------------------
(* There is at most one match. *)
LEMMA MatchUnique ==
  ASSUME NEW u \in Strings, NEW n \in Matches(u), NEW k \in Matches(u)
  PROVE  n = k
<1>1. /\ n \in Nat /\ k \in Nat /\ n \in Delimiters(u) /\ k \in Delimiters(u)
      /\ \A i \in Delimiters(u) : i \in Nat
  BY DEF Matches, Delimiters, Strings
<1>2. PICK i \in Delimiters(u) : i < n /\ \A j \in Delimiters(u) : j = i \/ j >= n
  BY DEF Matches
<1>3. PICK l \in Delimiters(u) : l < k /\ \A j \in Delimiters(u) : j = l \/ j >= k
  BY DEF Matches
<1> QED
  BY <1>1, <1>2, <1>3

(* A match stays where it is when more bytes come in. *)
LEMMA MatchStays ==
  ASSUME NEW m \in Strings, NEW w \in Strings, NEW n \in Matches(m)
  PROVE  n \in Matches(Cat(m, w)) /\ n \in 1..Len(m)
<1> DEFINE u == Cat(m, w)
<1>1. /\ n \in 1..Len(m) /\ m[n] = END /\ Len(m) \in Nat
      /\ DOMAIN m = 1..Len(m) /\ DOMAIN u = 1..(Len(m) + Len(w)) /\ Len(w) \in Nat
      /\ \A i \in 1..Len(m) : u[i] = m[i]
  BY DEF Matches, Delimiters, Strings, Cat
<1>2. PICK i \in Delimiters(m) : i < n /\ \A j \in Delimiters(m) : j = i \/ j >= n
  BY DEF Matches
<1> HIDE DEF u
<1>3. i \in Delimiters(u) /\ n \in Delimiters(u)
  BY <1>1, <1>2 DEF Delimiters
<1>4. ASSUME NEW j \in Delimiters(u) PROVE j = i \/ j >= n
  <2>1. j \in Nat /\ j >= 1 /\ u[j] = END
    BY <1>1 DEF Delimiters
  <2>2. CASE j < n
    <3>1. j \in Delimiters(m)
      BY <1>1, <2>1, <2>2 DEF Delimiters
    <3> QED
      BY <1>2, <3>1
  <2>3. CASE ~(j < n)
    BY <1>1, <2>1, <2>3
  <2> QED
    BY <2>2, <2>3
<1> QED
  BY <1>1, <1>2, <1>3, <1>4 DEF Matches, u

(* The bytes of two words put together. *)
LEMMA CatIs ==
  ASSUME NEW s \in Strings, NEW t \in Strings
  PROVE  /\ Cat(s, t) \in Strings /\ Len(s) \in Nat /\ Len(t) \in Nat
         /\ Len(Cat(s, t)) = Len(s) + Len(t)
         /\ DOMAIN Cat(s, t) = 1..(Len(s) + Len(t))
         /\ \A i \in 1..Len(s) : Cat(s, t)[i] = s[i]
         /\ \A i \in 1..Len(t) : Cat(s, t)[Len(s) + i] = t[i]
<1> DEFINE u == s \o t
<1>1. /\ u \in Strings /\ Len(u) = Len(s) + Len(t) /\ Len(s) \in Nat /\ Len(t) \in Nat
      /\ \A i \in 1..(Len(s) + Len(t)) : u[i] = IF i <= Len(s) THEN s[i] ELSE t[i - Len(s)]
  BY ConcatProperties DEF Strings
<1>2. DOMAIN u = 1..(Len(s) + Len(t))
  BY <1>1 DEF Strings
<1> HIDE DEF u
<1>3. \A i \in 1..Len(s) : u[i] = s[i]
  BY <1>1
<1>4. ASSUME NEW i \in 1..Len(t) PROVE u[Len(s) + i] = t[i]
  <2>1. Len(s) + i \in 1..(Len(s) + Len(t)) /\ ~(Len(s) + i <= Len(s)) /\ (Len(s) + i) - Len(s) = i
    BY <1>1
  <2> QED
    BY <1>1, <2>1
<1> QED
  BY <1>1, <1>2, <1>3, <1>4 DEF u, Cat

(* Two stretches of bytes, each with its delimiter at the end. *)
Two(a, b) == Cat(Add(a, END), Add(b, END))

LEMMA TwoIs ==
  ASSUME NEW a \in Seq(Inner), NEW b \in Seq(Inner)
  PROVE  /\ Two(a, b) \in Strings
         /\ Len(Two(a, b)) = Len(a) + Len(b) + 2
         /\ Two(a, b)[Len(a) + 1] = END
         /\ Two(a, b)[Len(a) + Len(b) + 2] = END
         /\ \A i \in 1..(Len(a) + Len(b) + 2) :
              i # Len(a) + 1 /\ i # Len(a) + Len(b) + 2 => Two(a, b)[i] # END
<1> DEFINE x == Add(a, END)
           y == Add(b, END)
<1>1. /\ x \in Strings /\ Len(x) = Len(a) + 1 /\ x[Len(a) + 1] = END
      /\ \A i \in 1..Len(a) : x[i] = a[i] /\ a[i] # END
      /\ Len(a) \in Nat
  BY SpecialBytes DEF Add, Strings, Inner
<1>2. /\ y \in Strings /\ Len(y) = Len(b) + 1 /\ y[Len(b) + 1] = END
      /\ \A i \in 1..Len(b) : y[i] = b[i] /\ b[i] # END
      /\ Len(b) \in Nat
  BY SpecialBytes DEF Add, Strings, Inner
<1> HIDE DEF x, y
<1> DEFINE t == Cat(x, y)
<1>3. /\ t \in Strings /\ Len(t) = Len(x) + Len(y)
      /\ \A i \in 1..Len(x) : t[i] = x[i]
      /\ \A i \in 1..Len(y) : t[Len(x) + i] = y[i]
  BY <1>1, <1>2, CatIs
<1> HIDE DEF t
<1>4. t[Len(a) + 1] = END /\ t[Len(a) + Len(b) + 2] = END
  BY <1>1, <1>2, <1>3
<1>5. ASSUME NEW i \in 1..(Len(a) + Len(b) + 2),
             i # Len(a) + 1, i # Len(a) + Len(b) + 2
      PROVE  t[i] # END
  <2>1. CASE i <= Len(a)
    BY <1>1, <1>2, <1>3, <2>1
  <2>2. CASE i > Len(a) + 1
    <3> DEFINE j == i - (Len(a) + 1)
    <3>1. j \in 1..Len(b) /\ j \in 1..Len(y) /\ Len(x) + j = i
      BY <1>1, <1>2, <1>5, <2>2
    <3> HIDE DEF j
    <3>2. t[Len(x) + j] = y[j] /\ y[j] # END
      BY <1>2, <1>3, <3>1
    <3> QED
      BY <3>1, <3>2
  <2> QED
    BY <1>1, <1>2, <1>5, <2>1, <2>2
<1> QED
  BY <1>1, <1>2, <1>3, <1>4, <1>5 DEF Two, t, x, y

(* If they are what comes next, the match is behind them: they are taken,    *)
(* and what follows them is left.                                            *)
LEMMA TwoTaken ==
  ASSUME NEW a \in Seq(Inner), NEW b \in Seq(Inner), NEW c \in Strings,
         NEW m \in Strings, NEW w \in Strings, Cat(m, w) = Cat(Two(a, b), c)
  PROVE  /\ \A n \in Matches(m) : /\ SubSeq(m, 1, n) = Two(a, b)
                                  /\ Cat(SubSeq(m, n + 1, Len(m)), w) = c
         /\ w = None => Matches(m) # {}
<1> DEFINE t == Two(a, b)
           u == Cat(t, c)
           k == Len(a) + Len(b) + 2
<1>1. /\ t \in Strings /\ Len(t) = k /\ t[Len(a) + 1] = END /\ t[k] = END
      /\ \A i \in 1..k : i # Len(a) + 1 /\ i # k => t[i] # END
      /\ Len(a) \in Nat /\ k \in Nat /\ Len(a) + 1 < k
  BY TwoIs
<1> HIDE DEF t, k
<1>0. /\ u \in Strings /\ Len(u) = Len(t) + Len(c) /\ Len(c) \in Nat
      /\ DOMAIN u = 1..(Len(t) + Len(c))
      /\ \A i \in 1..Len(t) : u[i] = t[i]
      /\ \A i \in 1..Len(c) : u[Len(t) + i] = c[i]
  BY <1>1, CatIs
<1>2. /\ u \in Strings /\ Len(u) = k + Len(c) /\ Len(c) \in Nat
      /\ DOMAIN u = 1..(k + Len(c))
      /\ \A i \in 1..k : u[i] = t[i]
      /\ \A i \in 1..Len(c) : u[k + i] = c[i]
  BY <1>0, <1>1
<1> HIDE DEF u
<1>3. k \in Matches(u)
  <2>1. Len(a) + 1 \in Delimiters(u) /\ k \in Delimiters(u) /\ Len(a) + 1 < k
    BY <1>1, <1>2 DEF Delimiters
  <2>2. ASSUME NEW j \in Delimiters(u) PROVE j = Len(a) + 1 \/ j >= k
    <3>1. j \in 1..(k + Len(c)) /\ u[j] = END
      BY <1>2 DEF Delimiters
    <3> QED
      BY <1>1, <1>2, <3>1
  <2> QED
    BY <2>1, <2>2 DEF Matches
<1>4. u = Cat(m, w)
  BY DEF u, t
<1>5. /\ Len(m) \in Nat /\ Len(w) \in Nat /\ Len(u) = Len(m) + Len(w)
      /\ \A i \in 1..Len(m) : u[i] = m[i]
      /\ \A i \in 1..Len(w) : u[Len(m) + i] = w[i]
  BY <1>4, CatIs
<1>6. ASSUME NEW n \in Matches(m)
      PROVE  /\ SubSeq(m, 1, n) = t
             /\ Cat(SubSeq(m, n + 1, Len(m)), w) = c
  <2>1. n = k /\ n \in 1..Len(m)
    BY <1>2, <1>3, <1>4, MatchStays, MatchUnique
  <2> DEFINE f == SubSeq(m, 1, k)
             r == SubSeq(m, k + 1, Len(m))
  <2>2. /\ f \in Strings /\ Len(f) = k /\ \A i \in 1..k : f[i] = m[i]
    BY <1>1, <1>5, <2>1 DEF Strings
  <2>3. /\ r \in Strings /\ Len(r) = Len(m) - k /\ \A i \in 1..(Len(m) - k) : r[i] = m[k + i]
    BY <1>1, <1>5, <2>1 DEF Strings
  <2> HIDE DEF f, r
  <2>4. f = t
    <3>1. ASSUME NEW i \in 1..k PROVE f[i] = t[i]
      <4>1. i \in 1..Len(m)
        BY <1>1, <1>5, <2>1
      <4>2. f[i] = m[i] /\ u[i] = m[i] /\ u[i] = t[i]
        BY <1>2, <1>5, <2>2, <4>1
      <4> QED
        BY <4>2
    <3> QED
      BY <1>1, <2>2, <3>1, SeqEqual DEF Strings
  <2> DEFINE v == Cat(r, w)
  <2>5. /\ v \in Strings /\ Len(v) = Len(r) + Len(w)
        /\ \A i \in 1..Len(r) : v[i] = r[i]
        /\ \A i \in 1..Len(w) : v[Len(r) + i] = w[i]
    BY <2>3, CatIs
  <2> HIDE DEF v
  <2>6. Len(v) = Len(c)
    <3>1. k + Len(c) = Len(m) + Len(w)
      BY <1>2, <1>5
    <3>2. Len(v) = (Len(m) - k) + Len(w)
      BY <2>3, <2>5
    <3> QED
      BY <1>1, <1>2, <1>5, <3>1, <3>2
  <2>7. ASSUME NEW i \in 1..Len(v) PROVE v[i] = c[i]
    <3>1. c[i] = u[k + i]
      BY <1>2, <2>6
    <3>2. CASE i <= Len(r)
      BY <1>1, <1>5, <2>1, <2>3, <2>5, <3>1, <3>2
    <3>3. CASE i > Len(r)
      <4>1. i - Len(r) \in 1..Len(w) /\ Len(r) + (i - Len(r)) = i /\ Len(m) + (i - Len(r)) = k + i
        BY <1>1, <1>2, <1>5, <2>1, <2>3, <2>5, <3>3
      <4> QED
        BY <1>5, <2>5, <3>1, <4>1
    <3> QED
      BY <1>1, <1>5, <2>1, <2>3, <3>2, <3>3
  <2>8. v = c
    BY <2>5, <2>6, <2>7, SeqEqual DEF Strings
  <2> QED
    BY <2>1, <2>4, <2>8 DEF f, r, v
<1>7. ASSUME w = None PROVE Matches(m) # {}
  <2>1. u = m
    BY <1>4, <1>7, CatNone DEF Strings
  <2> QED
    BY <1>3, <2>1
<1> QED
  BY <1>6, <1>7 DEF t

(* A single delimiter is no match. *)
LEMMA OneUnmatched ==
  ASSUME NEW a \in Seq(Inner), NEW b \in Seq(Inner),
         NEW m \in Strings, NEW w \in Strings,
         Cat(m, w) = a \/ Cat(m, w) = Cat(Add(a, END), b)
  PROVE  Matches(m) = {}
<1> SUFFICES ASSUME NEW n \in Matches(m) PROVE FALSE
  OBVIOUS
<1> DEFINE u == Cat(m, w)
<1>1. n \in Matches(u)
  BY MatchStays
<1>2. ASSUME NEW i \in Delimiters(u) PROVE i = Len(a) + 1
  <2>1. CASE u = a
    BY <2>1 DEF Delimiters, Inner
  <2>2. CASE u = Cat(Add(a, END), b)
    <3> DEFINE x == Add(a, END)
               v == Cat(x, b)
    <3>1. /\ x \in Strings /\ Len(x) = Len(a) + 1 /\ Len(a) \in Nat
          /\ \A j \in 1..Len(a) : x[j] = a[j] /\ a[j] # END
      BY SpecialBytes DEF Add, Strings, Inner
    <3>2. b \in Strings /\ Len(b) \in Nat /\ \A j \in 1..Len(b) : b[j] # END
      BY SpecialBytes, SeqMonotonic DEF Inner, Strings
    <3> HIDE DEF x
    <3>3. /\ DOMAIN v = 1..(Len(x) + Len(b))
          /\ \A j \in 1..Len(x) : v[j] = x[j]
          /\ \A j \in 1..Len(b) : v[Len(x) + j] = b[j]
      BY <3>1, <3>2, CatIs
    <3> HIDE DEF v
    <3>4. i \in 1..(Len(x) + Len(b)) /\ v[i] = END
      BY <2>2, <3>3 DEF Delimiters, v, x
    <3>5. CASE i > Len(x)
      <4>1. i - Len(x) \in 1..Len(b) /\ Len(x) + (i - Len(x)) = i
        BY <3>1, <3>2, <3>4, <3>5
      <4> QED
        BY <3>2, <3>3, <3>4, <4>1
    <3>6. CASE i <= Len(a)
      <4>1. i \in 1..Len(a) /\ i \in 1..Len(x)
        BY <3>1, <3>2, <3>4, <3>6
      <4> QED
        BY <3>1, <3>3, <3>4, <4>1
    <3> QED
      BY <3>1, <3>2, <3>4, <3>5, <3>6
  <2> QED
    BY <2>1, <2>2 DEF u
<1>3. PICK i \in Delimiters(u) : i < n
  BY <1>1 DEF Matches
<1>4. n \in Delimiters(u) /\ n \in Nat /\ Len(a) \in Nat
  BY <1>1 DEF Matches, Delimiters
<1> QED
  BY <1>2, <1>3, <1>4

-----------------------------------------------------------------------------
(* Words of equal length put together. *)
LEMMA CatCancel ==
  ASSUME NEW s \in Strings, NEW u \in Strings, NEW t \in Strings, NEW v \in Strings,
         Cat(s, t) = Cat(u, v), Len(s) = Len(u)
  PROVE  s = u /\ t = v
<1> DEFINE a == Cat(s, t)
<1>1. /\ Len(s) \in Nat /\ Len(t) \in Nat /\ Len(a) = Len(s) + Len(t)
      /\ \A i \in 1..Len(s) : a[i] = s[i]
      /\ \A i \in 1..Len(t) : a[Len(s) + i] = t[i]
  BY CatIs
<1>2. /\ Len(v) \in Nat /\ Len(a) = Len(s) + Len(v)
      /\ \A i \in 1..Len(s) : a[i] = u[i]
      /\ \A i \in 1..Len(v) : a[Len(s) + i] = v[i]
  <2> DEFINE e == Cat(u, v)
  <2>1. /\ Len(v) \in Nat /\ Len(e) = Len(u) + Len(v)
        /\ \A i \in 1..Len(u) : e[i] = u[i]
        /\ \A i \in 1..Len(v) : e[Len(u) + i] = v[i]
    BY CatIs
  <2>2. a = e
    OBVIOUS
  <2> HIDE DEF a, e
  <2> QED
    BY <2>1, <2>2
<1> HIDE DEF a
<1>3. s = u
  BY <1>1, <1>2, SeqEqual DEF Strings
<1>4. Len(t) = Len(v)
  BY <1>1, <1>2
<1>5. t = v
  BY <1>1, <1>2, <1>4, SeqEqual DEF Strings
<1> QED
  BY <1>3, <1>5

(* Two ways to cut a word. *)
LEMMA CutTwice ==
  ASSUME NEW s \in Strings, NEW t \in Strings, NEW x \in Strings, NEW y \in Strings,
         Cat(s, t) = Cat(x, y)
  PROVE  \/ Len(x) <= Len(s) /\ \E z \in Strings : s = Cat(x, z) /\ y = Cat(z, t)
         \/ Len(x) >= Len(s) /\ \E z \in Strings : x = Cat(s, z) /\ t = Cat(z, y)
<1>0. Len(s) \in Nat /\ Len(x) \in Nat
  BY CatIs
<1>1. \A u, v, p, q \in Strings :
        Cat(u, v) = Cat(p, q) /\ Len(p) <= Len(u) =>
          \E z \in Strings : u = Cat(p, z) /\ q = Cat(z, v)
  <2> SUFFICES ASSUME NEW u \in Strings, NEW v \in Strings, NEW p \in Strings, NEW q \in Strings,
                      Cat(u, v) = Cat(p, q), Len(p) <= Len(u)
               PROVE  \E z \in Strings : u = Cat(p, z) /\ q = Cat(z, v)
    OBVIOUS
  <2> DEFINE f == SubSeq(u, 1, Len(p))
             z == SubSeq(u, Len(p) + 1, Len(u))
             l == Len(p)
  <2>1. l \in Nat /\ Len(u) \in Nat /\ l <= Len(u)
    BY CatIs
  <2>2. /\ f \in Strings /\ Len(f) = l /\ z \in Strings /\ Len(z) = Len(u) - l
        /\ \A i \in 1..l : f[i] = u[i]
        /\ \A i \in 1..(Len(u) - l) : z[i] = u[l + i]
    BY <2>1 DEF Strings
  <2> HIDE DEF f, z, l
  <2> DEFINE w == Cat(f, z)
  <2>3. /\ w \in Strings /\ Len(w) = Len(f) + Len(z)
        /\ \A i \in 1..Len(f) : w[i] = f[i]
        /\ \A i \in 1..Len(z) : w[Len(f) + i] = z[i]
    BY <2>2, CatIs
  <2> HIDE DEF w
  <2>4. w = u
    <3>1. Len(w) = Len(u)
      BY <2>1, <2>2, <2>3
    <3>2. ASSUME NEW i \in 1..Len(w) PROVE w[i] = u[i]
      <4>1. CASE i <= l
        BY <2>1, <2>2, <2>3, <3>1, <4>1
      <4>2. CASE i > l
        <5> DEFINE j == i - l
        <5>1. j \in 1..Len(z) /\ l + j = i
          BY <2>1, <2>2, <3>1, <4>2
        <5> HIDE DEF j
        <5>2. w[l + j] = z[j] /\ z[j] = u[l + j]
          BY <2>2, <2>3, <5>1
        <5> QED
          BY <5>1, <5>2
      <4> QED
        BY <2>1, <3>1, <4>1, <4>2
    <3> QED
      BY <2>3, <3>1, <3>2, SeqEqual DEF Strings
  <2>5. Cat(f, Cat(z, v)) = Cat(p, q) /\ Cat(z, v) \in Strings
    <3>1. Cat(Cat(f, z), v) = Cat(f, Cat(z, v)) /\ Cat(z, v) \in Strings
      BY <2>2, CatThree, BytesTyped, SpecialBytes DEF Strings
    <3> QED
      BY <2>4, <3>1 DEF w
  <2>6. f = p /\ Cat(z, v) = q
    BY <2>2, <2>5, CatCancel DEF l
  <2> QED
    BY <2>2, <2>4, <2>6 DEF w
<1>2. CASE Len(x) <= Len(s)
  BY <1>1, <1>2
<1>3. CASE Len(x) >= Len(s)
  <2>1. \E z \in Strings : x = Cat(s, z) /\ t = Cat(z, y)
    BY <1>1, <1>3
  <2> QED
    BY <1>3, <2>1
<1> QED
  BY <1>0, <1>2, <1>3

(* The frames, one after the other. *)
encodings == [p \in Strings |-> encode(p)]

Coded(rest) == Each(encodings, rest)

Frames == Seq(Strings)

(* A frame is two stretches, the first one empty. *)
LEMMA FrameOf ==
  ASSUME NEW p \in Strings
  PROVE  /\ encode(p) = Two(None, Body(p))
         /\ encode(p) = Cat(One(END), Add(Body(p), END))
         /\ encode(p) = Add(Cat(One(END), Body(p)), END)
         /\ encode(p) \in Strings /\ Body(p) \in Strings /\ Body(p) \in Seq(Inner)
         /\ decode(encode(p)) = p
<1>1. END \in Bytes /\ One(END) \in Strings /\ Add(None, END) = One(END)
  BY SpecialBytes, BytesTyped
<1>2. Body(p) \in Seq(Inner)
  BY <1>1, BodyAdd
<1>3. Body(p) \in Strings
  BY <1>2, SpecialBytes, SeqMonotonic DEF Strings
<1> DEFINE b == Body(p)
           m == Cat(One(END), b)
<1>4. m \in Strings /\ Cat(m, One(END)) = Add(m, END) /\ Add(m, END) \in Strings
      /\ Cat(One(END), Add(b, END)) = Add(m, END)
  BY <1>1, <1>3, BytesTyped
<1>5. encode(p) = Add(m, END)
  BY <1>4, FrameIs
<1>6. decode(Add(m, END)) = p
  BY <1>3, <1>4, DecodeDelimited, DecodeBody
<1> QED
  BY <1>1, <1>2, <1>3, <1>4, <1>5, <1>6 DEF Two

(* The frames, one more and one less. *)
LEMMA CodedIs ==
  ASSUME NEW r \in Frames
  PROVE  /\ Coded(None) = None /\ Coded(r) \in Strings
         /\ \A p \in Strings : Coded(Add(r, p)) = Cat(Coded(r), encode(p))
         /\ \A p \in Strings : Coded(Cat(One(p), r)) = Cat(encode(p), Coded(r))
<1>1. encodings \in Tables(Strings, Bytes) /\ \A p \in Strings : encodings[p] = encode(p)
  BY FrameOf DEF encodings, Tables, Strings
<1>2. Coded(None) = None /\ Coded(r) \in Strings
  BY <1>1, EachOf DEF Coded, Strings, Frames
<1>3. ASSUME NEW p \in Strings
      PROVE  /\ Coded(Add(r, p)) = Cat(Coded(r), encode(p))
             /\ Coded(Cat(One(p), r)) = Cat(encode(p), Coded(r))
  <2>1. Each(encodings, Add(r, p)) = Cat(Each(encodings, r), encodings[p])
    BY <1>1, EachAdd DEF Frames
  <2>2. One(p) \in Frames
    BY DEF One, Frames
  <2>3. Each(encodings, Cat(One(p), r)) = Cat(Each(encodings, One(p)), Each(encodings, r))
    BY <1>1, <2>2, EachCat DEF Frames
  <2>4. Each(encodings, One(p)) = encodings[p]
    BY <1>1, EachOne
  <2> QED
    BY <1>1, <2>1, <2>3, <2>4 DEF Coded
<1> QED
  BY <1>2, <1>3

-----------------------------------------------------------------------------
(* What is left of the frames when one of the delimiters of frame h is lost: *)
(* the first one,                                                            *)
Unopened(before, h, after) == Cat(Coded(before), Cat(Add(Body(h), END), Coded(after)))

(* or the last one.                                                          *)
Unclosed(before, h, after) ==
  Cat(Coded(before), Cat(Cat(One(END), Body(h)), Coded(after)))

(* s holds the frames of rest, with one delimiter lost. *)
OneLost(s, rest) ==
  \E before \in Frames, h \in Strings, after \in Frames :
    /\ rest = Cat(Add(before, h), after)
    /\ s = Unopened(before, h, after) \/ s = Unclosed(before, h, after)

(* What has been sent and not received begins with frame h: two stretches of *)
(* bytes that decode to h.  What is behind them is left for the frames g.    *)
Begins(s, rest, h, a, b, g, c) ==
  /\ h \in Strings /\ g \in Frames /\ rest = Cat(One(h), g)
  /\ a \in Seq(Inner) /\ b \in Seq(Inner) /\ c \in Strings
  /\ s = Cat(Two(a, b), c)
  /\ decode(Two(a, b)) = h

(* A sequence has a first member, or none. *)
LEMMA FirstOf ==
  ASSUME NEW S, NEW r \in Seq(S)
  PROVE  r = None \/ \E x \in S, g \in Seq(S) : r = Cat(One(x), g)
  BY FirstRest

(* Frames that are complete. *)
LEMMA CompleteBegins ==
  ASSUME NEW rest \in Frames
  PROVE  \/ rest = None /\ Coded(rest) = None
         \/ \E h, a, b, g, c : Begins(Coded(rest), rest, h, a, b, g, c) /\ c = Coded(g)
<1>1. CASE rest = None
  BY <1>1, CodedIs
<1>2. CASE rest # None
  <2>1. PICK h \in Strings, g \in Frames : rest = Cat(One(h), g)
    BY <1>2, FirstOf DEF Frames
  <2>2. Coded(rest) = Cat(encode(h), Coded(g)) /\ Coded(g) \in Strings
    BY <2>1, CodedIs
  <2>3. None \in Seq(Inner)
    BY DEF None
  <2>4. Begins(Coded(rest), rest, h, None, Body(h), g, Coded(g))
    BY <2>1, <2>2, <2>3, FrameOf DEF Begins
  <2> QED
    BY <2>4
<1> QED
  BY <1>1, <1>2

(* Two words of frames. *)
LEMMA FramesTyped ==
  ASSUME NEW f \in Strings, NEW r \in Frames, NEW h \in Strings, NEW t \in Frames
  PROVE  /\ None \in Frames /\ Add(r, h) \in Frames /\ Cat(r, t) \in Frames
         /\ Add(None, h) = One(h) /\ Cat(None, t) = t /\ Cat(t, None) = t
         /\ Cat(Add(r, h), t) \in Frames
         /\ Cat(Add(Cat(One(f), r), h), t) = Cat(One(f), Cat(Add(r, h), t))
<1> USE DEF Frames
<1>1. /\ None \in Frames /\ Add(r, h) \in Frames /\ Cat(r, t) \in Frames /\ One(f) \in Frames
  BY WordsTyped
<1>2. Add(None, h) = One(h)
  BY DEF Add, None, One
<1>3. Cat(None, t) = t /\ Cat(t, None) = t
  BY CatNone
<1>4. Cat(Add(r, h), t) \in Frames
  BY <1>1, WordsTyped
<1>5. Add(Cat(One(f), r), h) = Cat(One(f), Add(r, h))
  BY <1>1, CatAdd
<1>6. Cat(Cat(One(f), Add(r, h)), t) = Cat(One(f), Cat(Add(r, h), t))
  BY <1>1, CatThree
<1> QED
  BY <1>1, <1>2, <1>3, <1>4, <1>5, <1>6

(* The two forms are words of bytes. *)
LEMMA LostTyped ==
  ASSUME NEW before \in Frames, NEW h \in Strings, NEW after \in Frames
  PROVE  /\ Cat(Add(Body(h), END), Coded(after)) \in Strings
         /\ Cat(Cat(One(END), Body(h)), Coded(after)) \in Strings
         /\ Unopened(before, h, after) \in Strings
         /\ Unclosed(before, h, after) \in Strings
<1>1. END \in Bytes /\ One(END) \in Strings
  BY SpecialBytes, BytesTyped
<1>2. /\ Body(h) \in Strings /\ Coded(after) \in Strings /\ Coded(before) \in Strings
  BY FrameOf, CodedIs
<1>3. Add(Body(h), END) \in Strings /\ Cat(One(END), Body(h)) \in Strings
  BY <1>1, <1>2, BytesTyped
<1>4. /\ Cat(Add(Body(h), END), Coded(after)) \in Strings
      /\ Cat(Cat(One(END), Body(h)), Coded(after)) \in Strings
  BY <1>1, <1>2, <1>3, BytesTyped
<1> QED
  BY <1>1, <1>2, <1>4, BytesTyped DEF Unopened, Unclosed

(* Frames of which one has lost a delimiter: at most one delimiter, and then *)
(* nothing but this frame; or the first frame can still be told, and what is *)
(* behind it has one delimiter too few again.                                *)
LEMMA LostBegins ==
  ASSUME NEW s, NEW rest, OneLost(s, rest)
  PROVE  \/ \E h \in Strings : /\ rest = One(h)
                              /\ \/ s = Cat(Add(Body(h), END), None)
                                 \/ s = Cat(Add(None, END), Body(h))
         \/ \E h, a, b, g, c : Begins(s, rest, h, a, b, g, c) /\ OneLost(c, g)
<1>0. /\ END \in Bytes /\ One(END) \in Strings /\ Add(None, END) = One(END)
      /\ None \in Strings /\ None \in Seq(Inner) /\ None \in Frames
  <2>1. None \in Seq(Inner) /\ None \in Frames /\ None \in Strings
    BY DEF None, Frames, Strings
  <2> QED
    BY <2>1, SpecialBytes, BytesTyped
<1>1. PICK before \in Frames, h \in Strings, after \in Frames :
        /\ rest = Cat(Add(before, h), after)
        /\ s = Unopened(before, h, after) \/ s = Unclosed(before, h, after)
  BY DEF OneLost
<1>2. CASE before # None
  <2>1. PICK f \in Strings, r \in Frames : before = Cat(One(f), r)
    BY <1>2, FirstOf DEF Frames
  <2> DEFINE g == Cat(Add(r, h), after)
  <2>2. rest = Cat(One(f), g) /\ g \in Frames
    BY <1>1, <2>1, FramesTyped
  <2>3. Coded(before) = Cat(encode(f), Coded(r)) /\ Coded(r) \in Strings /\ encode(f) \in Strings
    BY <2>1, CodedIs, FrameOf
  <2>4. encode(f) = Two(None, Body(f)) /\ Body(f) \in Seq(Inner) /\ decode(encode(f)) = f
    BY FrameOf
  <2>5. CASE s = Unopened(before, h, after)
    <3>1. s = Cat(encode(f), Unopened(r, h, after))
      BY <2>3, <2>5, LostTyped, CatThree DEF Unopened, Strings
    <3>2. OneLost(Unopened(r, h, after), g)
      BY DEF OneLost
    <3>3. Begins(s, rest, f, None, Body(f), g, Unopened(r, h, after))
      BY <1>0, <2>2, <2>4, <3>1, LostTyped DEF Begins
    <3> QED
      BY <3>2, <3>3
  <2>6. CASE s = Unclosed(before, h, after)
    <3>1. s = Cat(encode(f), Unclosed(r, h, after))
      BY <2>3, <2>6, LostTyped, CatThree DEF Unclosed, Strings
    <3>2. OneLost(Unclosed(r, h, after), g)
      BY DEF OneLost
    <3>3. Begins(s, rest, f, None, Body(f), g, Unclosed(r, h, after))
      BY <1>0, <2>2, <2>4, <3>1, LostTyped DEF Begins
    <3> QED
      BY <3>2, <3>3
  <2> QED
    BY <1>1, <2>5, <2>6
<1>3. CASE before = None
  <2>1. rest = Cat(One(h), after) /\ Coded(before) = None
    BY <1>0, <1>1, <1>3, FramesTyped, CodedIs
  <2>2. \/ s = Cat(Add(Body(h), END), Coded(after))
        \/ s = Cat(Cat(One(END), Body(h)), Coded(after))
    BY <1>1, <2>1, LostTyped, BytesTyped, <1>0 DEF Unopened, Unclosed
  <2>3. Body(h) \in Strings /\ Body(h) \in Seq(Inner) /\ decode(Body(h)) = h
    BY FrameOf, DecodeBody
  <2>4. CASE after = None
    <3>1. Coded(after) = None /\ rest = One(h)
      <4>1. One(h) \in Frames
        BY DEF One, Frames
      <4> QED
        BY <1>0, <2>1, <2>4, <4>1, CodedIs, FramesTyped
    <3>2. Cat(One(END), Body(h)) \in Strings
      BY <1>0, <2>3, BytesTyped
    <3> QED
      BY <1>0, <2>2, <3>1, <3>2, BytesTyped
  <2>5. CASE after # None
    <3>1. PICK g \in Strings, t \in Frames : after = Cat(One(g), t)
      BY <2>5, FirstOf DEF Frames
    <3> DEFINE c == Cat(Add(Body(g), END), Coded(t))
    <3>2. c \in Strings /\ Coded(t) \in Strings /\ Add(Body(g), END) \in Strings
      BY <1>0, LostTyped, FrameOf, CodedIs, BytesTyped
    <3>3. Coded(after) = Cat(One(END), c)
      <4>1. Coded(after) = Cat(Cat(One(END), Add(Body(g), END)), Coded(t))
        BY <3>1, CodedIs, FrameOf
      <4> QED
        BY <1>0, <3>2, <4>1, CatThree DEF Strings
    <3>4. OneLost(c, after)
      <4>1. after = Cat(Add(None, g), t)
        BY <1>0, <3>1, FramesTyped
      <4>2. c = Unopened(None, g, t)
        BY <1>0, <3>2, CodedIs, BytesTyped DEF Unopened
      <4> QED
        BY <1>0, <4>1, <4>2 DEF OneLost
    <3> HIDE DEF c
    <3> DEFINE l == Add(Body(h), END)
               k == Cat(One(END), Body(h))
    <3>5. /\ l \in Strings /\ k \in Strings /\ Cat(k, One(END)) = Cat(One(END), l)
          /\ Add(l, END) = Cat(l, One(END))
      <4>1. l \in Strings /\ k \in Strings
        BY <1>0, <2>3, BytesTyped
      <4>2. Cat(k, One(END)) = Add(k, END) /\ Add(k, END) = Cat(One(END), l)
        BY <1>0, <2>3, <4>1, BytesTyped
      <4>3. Add(l, END) = Cat(l, One(END))
        BY <1>0, <4>1, BytesTyped
      <4> QED
        BY <4>1, <4>2, <4>3
    <3>6. CASE s = Cat(l, Coded(after))
      <4>1. s = Cat(Two(Body(h), None), c)
        BY <1>0, <3>2, <3>3, <3>5, <3>6, CatThree DEF Two, Strings
      <4>2. decode(Two(Body(h), None)) = h
        BY <1>0, <2>3, <3>5, DecodeDelimited DEF Two
      <4>3. Begins(s, rest, h, Body(h), None, after, c)
        BY <1>0, <2>1, <2>3, <3>2, <4>1, <4>2 DEF Begins
      <4> QED
        BY <3>4, <4>3
    <3>7. CASE s = Cat(k, Coded(after))
      <4>1. s = Cat(Two(None, Body(h)), c)
        BY <1>0, <3>2, <3>3, <3>5, <3>7, CatThree DEF Two, Strings
      <4>2. decode(Two(None, Body(h))) = h
        BY FrameOf
      <4>3. Begins(s, rest, h, None, Body(h), after, c)
        BY <1>0, <2>1, <2>3, <3>2, <4>1, <4>2 DEF Begins
      <4> QED
        BY <3>4, <4>3
    <3> QED
      BY <2>2, <3>6, <3>7
  <2> QED
    BY <2>4, <2>5
<1> QED
  BY <1>2, <1>3

(* A frame more behind one that has lost a delimiter. *)
LEMMA LostMore ==
  ASSUME NEW s, NEW r \in Frames, NEW p \in Strings, OneLost(s, r)
  PROVE  OneLost(Cat(s, encode(p)), Add(r, p))
<1>1. PICK before \in Frames, h \in Strings, after \in Frames :
        /\ r = Cat(Add(before, h), after)
        /\ s = Unopened(before, h, after) \/ s = Unclosed(before, h, after)
  BY DEF OneLost
<1> DEFINE e == encode(p)
           c == Coded(after)
           l == Add(Body(h), END)
           k == Cat(One(END), Body(h))
<1>2. /\ e \in Strings /\ c \in Strings /\ Coded(before) \in Strings
      /\ l \in Strings /\ k \in Strings /\ Cat(l, c) \in Strings /\ Cat(k, c) \in Strings
  <2>1. END \in Bytes /\ One(END) \in Strings /\ Body(h) \in Strings
    BY SpecialBytes, BytesTyped, FrameOf
  <2>2. l \in Strings /\ k \in Strings
    BY <2>1, BytesTyped
  <2> QED
    BY <2>2, FrameOf, CodedIs, LostTyped
<1>3. /\ Add(after, p) \in Frames /\ Coded(Add(after, p)) = Cat(c, e)
      /\ Add(r, p) = Cat(Add(before, h), Add(after, p))
  <2>1. Add(before, h) \in Frames
    BY FramesTyped
  <2> QED
    BY <1>1, <2>1, FramesTyped, CodedIs, CatAdd DEF Frames
<1> HIDE DEF e, c, l, k
<1>4. /\ Cat(Cat(Coded(before), Cat(l, c)), e) = Cat(Coded(before), Cat(l, Cat(c, e)))
      /\ Cat(Cat(Coded(before), Cat(k, c)), e) = Cat(Coded(before), Cat(k, Cat(c, e)))
  BY <1>2, CatThree DEF Strings
<1>5. \/ Cat(s, e) = Unopened(before, h, Add(after, p))
      \/ Cat(s, e) = Unclosed(before, h, Add(after, p))
  BY <1>1, <1>3, <1>4 DEF Unopened, Unclosed, c, l, k
<1> QED
  BY <1>3, <1>5 DEF OneLost, e

(* The delimiters of a frame: nothing, or all of it, stands before them. *)
LEMMA FrameCut ==
  ASSUME NEW p \in Strings, NEW z \in Strings, NEW v \in Strings,
         encode(p) = Cat(Add(z, END), v)
  PROVE  \/ z = None /\ v = Add(Body(p), END)
         \/ z = Cat(One(END), Body(p)) /\ v = None
<1> DEFINE b == Body(p)
           e == encode(p)
           a == Add(z, END)
<1>0. /\ END \in Bytes /\ One(END) \in Strings /\ None \in Strings /\ b \in Strings
      /\ b \in Seq(Inner) /\ None \in Seq(Inner) /\ Len(None) = 0 /\ Len(One(END)) = 1
  <2>1. None \in Seq(Inner) /\ Len(None) = 0 /\ Len(One(END)) = 1
    BY DEF None, One
  <2> QED
    BY <2>1, SpecialBytes, BytesTyped, FrameOf
<1>1. /\ e = Cat(One(END), Add(b, END)) /\ e = Add(Cat(One(END), b), END)
      /\ e = Two(None, b) /\ e = Cat(a, v)
  BY FrameOf
<1>2. /\ a \in Strings /\ Len(a) = Len(z) + 1 /\ a[Len(z) + 1] = END /\ Len(z) \in Nat
      /\ a = Cat(z, One(END)) /\ Cat(One(END), b) \in Strings /\ Add(b, END) \in Strings
  <2>1. Len(a) = Len(z) + 1 /\ a[Len(z) + 1] = END /\ Len(z) \in Nat
    BY DEF Add, Strings
  <2>2. a \in Strings /\ a = Cat(z, One(END))
    BY <1>0, BytesTyped
  <2>3. Cat(One(END), b) \in Strings /\ Add(b, END) \in Strings
    BY <1>0, BytesTyped
  <2> HIDE DEF a
  <2> QED
    BY <2>1, <2>2, <2>3
<1>3. /\ Len(b) \in Nat /\ Len(v) \in Nat /\ Len(e) = Len(b) + 2 /\ Len(e) = Len(a) + Len(v)
      /\ \A i \in 1..Len(a) : e[i] = a[i]
  <2>1. Len(e) = Len(None) + Len(b) + 2
    BY <1>0, <1>1, TwoIs
  <2> HIDE DEF e, a, b
  <2>2. /\ Len(Cat(a, v)) = Len(a) + Len(v) /\ Len(v) \in Nat
        /\ \A i \in 1..Len(a) : Cat(a, v)[i] = a[i]
    BY <1>2, CatIs
  <2>3. Len(b) \in Nat
    BY <1>0 DEF Strings
  <2> QED
    BY <1>0, <1>1, <2>1, <2>2, <2>3
<1>4. \A i \in 1..(Len(b) + 2) : i # 1 /\ i # Len(b) + 2 => e[i] # END
  <2>1. \A i \in 1..(Len(None) + Len(b) + 2) :
          i # Len(None) + 1 /\ i # Len(None) + Len(b) + 2 => Two(None, b)[i] # END
    BY <1>0, TwoIs
  <2> QED
    BY <1>0, <1>1, <1>3, <2>1
<1>5. Len(z) = 0 \/ Len(z) = Len(b) + 1
  <2>1. e[Len(z) + 1] = END /\ Len(z) + 1 \in 1..(Len(b) + 2)
    BY <1>2, <1>3
  <2> QED
    BY <1>2, <1>3, <1>4, <2>1
<1> HIDE DEF a, b, e
<1>6. CASE Len(z) = 0
  <2> DEFINE o == One(END)
             w == Add(b, END)
  <2>0. /\ Cat(a, v) = Cat(o, w) /\ Len(a) = Len(o)
        /\ a \in Strings /\ o \in Strings /\ w \in Strings
    BY <1>0, <1>1, <1>2, <1>6
  <2> HIDE DEF o, w
  <2>3. a = o /\ v = w
    BY <2>0, CatCancel
  <2>1. a = One(END) /\ v = Add(b, END)
    BY <2>3 DEF o, w
  <2>2. z = None
    BY <1>6 DEF None, Strings
  <2> QED
    BY <2>1, <2>2 DEF b
<1>7. CASE Len(z) = Len(b) + 1
  <2> DEFINE k == Cat(One(END), b)
  <2>0. Len(k) = Len(One(END)) + Len(b)
    BY <1>0, CatIs
  <2>1. Len(k) = Len(z) /\ k \in Strings
    BY <1>0, <1>2, <1>3, <1>7, <2>0
  <2>2. Add(k, END) = Cat(k, One(END)) /\ Cat(One(END), v) \in Strings
    BY <1>0, <1>2, BytesTyped
  <2>3. Cat(Cat(z, One(END)), v) = Cat(z, Cat(One(END), v))
    BY <1>0, CatThree DEF Strings
  <2> HIDE DEF k
  <2> DEFINE o == One(END)
             w == Cat(o, v)
  <2>4. /\ Cat(z, w) = Cat(k, o) /\ w \in Strings /\ o \in Strings
        /\ Cat(o, v) = w /\ o = Cat(o, None)
    <3>1. Cat(z, w) = Cat(k, o)
      BY <1>1, <1>2, <2>2, <2>3 DEF k
    <3>2. w \in Strings /\ o \in Strings /\ Cat(o, v) = w
      BY <1>0, <2>2
    <3>3. o = Cat(o, None)
      BY <1>0, BytesTyped
    <3> QED
      BY <3>1, <3>2, <3>3
  <2> HIDE DEF o, w
  <2>5. z = k /\ w = o
    BY <2>1, <2>4, CatCancel
  <2>6. Cat(o, v) = Cat(o, None)
    BY <2>4, <2>5
  <2>7. v = None
    BY <1>0, <2>4, <2>6, CatCancel
  <2> QED
    BY <2>5, <2>7 DEF k, b
<1> QED
  BY <1>5, <1>6, <1>7

(* What has a delimiter in it is not nothing. *)
LEMMA AddedIsSome ==
  ASSUME NEW u \in Strings, NEW v \in Strings
  PROVE  Cat(Add(u, END), v) # None
<1> DEFINE w == Add(u, END)
           c == Cat(w, v)
<1>1. w \in Strings /\ Len(w) = Len(u) + 1 /\ Len(u) \in Nat
  BY SpecialBytes DEF Add, Strings
<1> HIDE DEF w
<1>2. Len(c) = Len(w) + Len(v) /\ Len(v) \in Nat
  BY <1>1, CatIs
<1> HIDE DEF c
<1>3. Len(c) # 0
  BY <1>1, <1>2
<1>4. Len(None) = 0
  BY DEF None
<1> QED
  BY <1>3, <1>4 DEF w, c

(* A lost delimiter: the frames without any one of their delimiters.         *)
LEMMA DelimiterLost ==
  ASSUME NEW rest \in Frames, NEW x \in Strings, NEW y \in Strings,
         Coded(rest) = Cat(Add(x, END), y)
  PROVE  OneLost(Cat(x, y), rest)
<1> DEFINE Harmed(r) == \A u, v \in Strings :
                          Coded(r) = Cat(Add(u, END), v) => OneLost(Cat(u, v), r)
           G == {r \in Frames : Harmed(r)}
<1>0. /\ END \in Bytes /\ One(END) \in Strings /\ Add(None, END) = One(END)
      /\ None \in Strings /\ None \in Frames
  <2>1. None \in Frames /\ None \in Strings
    BY DEF None, Frames, Strings
  <2> QED
    BY <2>1, SpecialBytes, BytesTyped
<1>1. None \in G
  <2> SUFFICES ASSUME NEW u \in Strings, NEW v \in Strings, None = Cat(Add(u, END), v)
               PROVE  FALSE
    BY <1>0, CodedIs
  <2> QED
    BY AddedIsSome
<1>2. ASSUME NEW r \in Frames, r \in G, NEW p \in Strings PROVE Add(r, p) \in G
  <2>0. Add(r, p) \in Frames /\ Coded(Add(r, p)) = Cat(Coded(r), encode(p)) /\ Coded(r) \in Strings
        /\ encode(p) \in Strings /\ Body(p) \in Strings
    BY CodedIs, FramesTyped, FrameOf
  <2> SUFFICES ASSUME NEW u \in Strings, NEW v \in Strings,
                      Cat(Coded(r), encode(p)) = Cat(Add(u, END), v)
               PROVE  OneLost(Cat(u, v), Add(r, p))
    BY <2>0
  <2>1. Add(u, END) \in Strings
    BY <1>0, BytesTyped
  <2>2. ASSUME NEW z \in Strings, Coded(r) = Cat(Add(u, END), z), v = Cat(z, encode(p))
        PROVE  OneLost(Cat(u, v), Add(r, p))
    <3>1. OneLost(Cat(u, z), r)
      BY <1>2, <2>2
    <3>2. Cat(u, v) = Cat(Cat(u, z), encode(p))
      BY <2>0, <2>2, CatThree DEF Strings
    <3> QED
      BY <3>1, <3>2, LostMore
  <2>3. ASSUME NEW z \in Strings, u = Cat(Coded(r), z), encode(p) = Cat(Add(z, END), v)
        PROVE  OneLost(Cat(u, v), Add(r, p))
    <3>1. Cat(u, v) = Cat(Coded(r), Cat(z, v))
      BY <2>0, <2>3, CatThree DEF Strings
    <3>2. \/ Cat(z, v) = Cat(Add(Body(p), END), None)
          \/ Cat(z, v) = Cat(Cat(One(END), Body(p)), None)
      <4>1. Add(Body(p), END) \in Strings
        BY <1>0, <2>0, BytesTyped
      <4>2. CASE z = None /\ v = Add(Body(p), END)
        BY <4>1, <4>2, BytesTyped, <1>0
      <4>3. CASE z = Cat(One(END), Body(p)) /\ v = None
        BY <4>3
      <4> QED
        BY <2>3, <4>2, <4>3, FrameCut
    <3>3. Cat(u, v) = Unopened(r, p, None) \/ Cat(u, v) = Unclosed(r, p, None)
      BY <1>0, <3>1, <3>2, CodedIs DEF Unopened, Unclosed
    <3>4. Add(r, p) = Cat(Add(r, p), None)
      BY <2>0, FramesTyped
    <3> QED
      BY <1>0, <3>3, <3>4 DEF OneLost
  <2> DEFINE w == Cat(One(END), v)
  <2>4. w \in Strings /\ Cat(Coded(r), encode(p)) = Cat(u, w)
    <3>1. Cat(Add(u, END), v) = Cat(u, w)
      BY <1>0, BytesTyped, CatThree DEF Strings
    <3> QED
      BY <1>0, <3>1, BytesTyped
  <2>5. \A z \in Strings : Cat(u, Cat(One(END), z)) = Cat(Add(u, END), z)
    BY <1>0, BytesTyped, CatThree DEF Strings
  <2>6. \A z \in Strings : Cat(z, w) = Cat(Add(z, END), v)
    BY <1>0, BytesTyped, CatThree DEF Strings
  <2>7. CASE \E z \in Strings : Coded(r) = Cat(u, z) /\ w = Cat(z, encode(p))
    <3>1. PICK z \in Strings : Coded(r) = Cat(u, z) /\ w = Cat(z, encode(p))
      BY <2>7
    <3>2. CASE z = None
      <4>1. u = Cat(Coded(r), None) /\ encode(p) = Cat(None, w)
        BY <1>0, <2>0, <2>4, <3>1, <3>2, BytesTyped
      <4> QED
        BY <1>0, <2>3, <2>6, <4>1
    <3>3. CASE z # None
      <4>1. PICK e \in Bytes, t \in Strings : z = Cat(One(e), t)
        BY <3>3, FirstOf DEF Strings
      <4>2. Cat(One(END), v) = Cat(One(e), Cat(t, encode(p))) /\ Cat(t, encode(p)) \in Strings
            /\ One(e) \in Strings
        <5>1. Cat(t, encode(p)) \in Strings /\ One(e) \in Strings
          BY <2>0, BytesTyped
        <5>2. Cat(Cat(One(e), t), encode(p)) = Cat(One(e), Cat(t, encode(p)))
          BY <2>0, <5>1, CatThree DEF Strings
        <5>3. w = Cat(One(e), Cat(t, encode(p)))
          BY <3>1, <4>1, <5>2
        <5> QED
          BY <5>1, <5>3
      <4>3. Len(One(END)) = Len(One(e))
        BY DEF One
      <4>4. One(END) = One(e) /\ v = Cat(t, encode(p))
        BY <1>0, <4>2, <4>3, CatCancel
      <4>5. Coded(r) = Cat(Add(u, END), t)
        BY <2>5, <3>1, <4>1, <4>4
      <4> QED
        BY <2>2, <4>4, <4>5
    <3> QED
      BY <3>2, <3>3
  <2>8. CASE \E z \in Strings : u = Cat(Coded(r), z) /\ encode(p) = Cat(z, w)
    BY <2>3, <2>6, <2>8
  <2> HIDE DEF w
  <2> DEFINE c == Coded(r)
             e == encode(p)
  <2>9. c \in Strings /\ e \in Strings /\ Cat(c, e) = Cat(u, w) /\ w \in Strings
    BY <2>0, <2>4
  <2> HIDE DEF c, e
  <2>10. \/ \E z \in Strings : c = Cat(u, z) /\ w = Cat(z, e)
         \/ \E z \in Strings : u = Cat(c, z) /\ e = Cat(z, w)
    <3>1. \/ Len(u) <= Len(c) /\ \E z \in Strings : c = Cat(u, z) /\ w = Cat(z, e)
          \/ Len(u) >= Len(c) /\ \E z \in Strings : u = Cat(c, z) /\ e = Cat(z, w)
      BY <2>9, CutTwice
    <3> QED
      BY <3>1
  <2> QED
    BY <2>7, <2>8, <2>10 DEF c, e
<1> HIDE DEF G
<1>3. Frames \subseteq G
  BY <1>1, <1>2, WordInduction DEF Frames
<1> QED
  BY <1>3 DEF G

-----------------------------------------------------------------------------
(* A word is what comes up to a place and what comes after it. *)
LEMMA CutAt ==
  ASSUME NEW s \in Strings, NEW n \in 1..Len(s)
  PROVE  /\ SubSeq(s, 1, n) \in Strings /\ SubSeq(s, n + 1, Len(s)) \in Strings
         /\ s = Cat(SubSeq(s, 1, n), SubSeq(s, n + 1, Len(s)))
         /\ SubSeq(s, 1, n - 1) \in Strings
         /\ SubSeq(s, 1, n) = Add(SubSeq(s, 1, n - 1), s[n])
<1> DEFINE f == SubSeq(s, 1, n)
           r == SubSeq(s, n + 1, Len(s))
           e == SubSeq(s, 1, n - 1)
<1>1. Len(s) \in Nat /\ n \in Nat /\ n <= Len(s) /\ s[n] \in Bytes /\ 1 <= n
  BY DEF Strings
<1>2. f \in Strings /\ Len(f) = n /\ \A i \in 1..n : f[i] = s[i]
  BY <1>1 DEF Strings
<1>3. r \in Strings /\ Len(r) = Len(s) - n /\ \A i \in 1..(Len(s) - n) : r[i] = s[n + i]
  BY <1>1 DEF Strings
<1>4. e \in Strings /\ Len(e) = n - 1 /\ \A i \in 1..(n - 1) : e[i] = s[i]
  BY <1>1 DEF Strings
<1> HIDE DEF f, r, e
<1> DEFINE t == Cat(f, r)
           a == Add(e, s[n])
<1>5. /\ t \in Strings /\ Len(t) = Len(f) + Len(r)
      /\ \A i \in 1..Len(f) : t[i] = f[i]
      /\ \A i \in 1..Len(r) : t[Len(f) + i] = r[i]
  BY <1>2, <1>3, CatIs
<1>6. /\ a \in Strings /\ Len(a) = Len(e) + 1 /\ a[Len(e) + 1] = s[n]
      /\ \A i \in 1..Len(e) : a[i] = e[i]
  BY <1>1, <1>4 DEF Add, Strings
<1> HIDE DEF t, a
<1>7. t = s
  <2>1. Len(t) = Len(s)
    BY <1>1, <1>2, <1>3, <1>5
  <2>2. ASSUME NEW i \in 1..Len(s) PROVE t[i] = s[i]
    <3>1. CASE i <= n
      <4>1. i \in 1..n /\ i \in 1..Len(f)
        BY <1>1, <1>2, <3>1
      <4> QED
        BY <1>2, <1>5, <4>1
    <3>2. CASE i > n
      <4> DEFINE j == i - n
      <4>1. j \in 1..Len(r) /\ j \in 1..(Len(s) - n) /\ n + j = i
        BY <1>1, <1>3, <3>2
      <4> HIDE DEF j
      <4>2. t[n + j] = r[j] /\ r[j] = s[n + j]
        BY <1>2, <1>3, <1>5, <4>1
      <4> QED
        BY <4>1, <4>2
    <3> QED
      BY <1>1, <3>1, <3>2
  <2> QED
    BY <1>5, <2>1, <2>2, SeqEqual DEF Strings
<1>8. a = f
  <2>1. Len(a) = Len(f)
    BY <1>1, <1>2, <1>4, <1>6
  <2>2. ASSUME NEW i \in 1..Len(a) PROVE a[i] = f[i]
    <3>1. CASE i = n
      <4>1. a[n] = s[n] /\ f[n] = s[n]
        BY <1>1, <1>2, <1>4, <1>6
      <4> QED
        BY <3>1, <4>1
    <3>2. CASE i # n
      <4>1. i \in 1..(n - 1) /\ i \in 1..Len(e) /\ i \in 1..n
        BY <1>1, <1>4, <1>6, <3>2
      <4> QED
        BY <1>2, <1>4, <1>6, <4>1
    <3> QED
      BY <3>1, <3>2
  <2> QED
    BY <1>2, <1>6, <2>1, <2>2, SeqEqual DEF Strings
<1> QED
  BY <1>2, <1>3, <1>4, <1>7, <1>8 DEF f, r, e, t, a

(* What comes first in a sequence is a prefix of it. *)
LEMMA PrefixOf ==
  ASSUME NEW S, NEW r \in Seq(S), NEW t \in Seq(S)
  PROVE  IsPrefix(r, Cat(r, t)) /\ Len(Cat(r, t)) = Len(r) + Len(t)
<1> DEFINE u == r \o t
           l == Len(r)
<1>1. /\ u \in Seq(S) /\ Len(u) = l + Len(t) /\ l \in Nat /\ Len(t) \in Nat
      /\ \A i \in 1..(l + Len(t)) : u[i] = IF i <= l THEN r[i] ELSE t[i - l]
  BY ConcatProperties
<1> HIDE DEF u
<1> DEFINE p == SubSeq(r, 1, l)
           q == SubSeq(u, 1, l)
<1>2. p \in Seq(S) /\ Len(p) = l /\ \A i \in 1..l : p[i] = r[i]
  OBVIOUS
<1>3. q \in Seq(S) /\ Len(q) = l /\ \A i \in 1..l : q[i] = u[i]
  BY <1>1
<1> HIDE DEF p, q
<1>4. \A i \in 1..l : p[i] = q[i]
  BY <1>1, <1>2, <1>3
<1>5. p = q
  BY <1>2, <1>3, <1>4, SeqEqual
<1>6. l <= Len(u)
  BY <1>1
<1> QED
  BY <1>1, <1>5, <1>6 DEF IsPrefix, Cat, u, p, q

-----------------------------------------------------------------------------
(* The bytes under way are those of the frames not yet received, with at     *)
(* most the one delimiter missing that was lost.                             *)
UnderWay(s, rest) ==
  /\ sentFrames = Cat(received, rest)
  /\ lost = 0 => s = Coded(rest)
  /\ lost = 1 => OneLost(s, rest)

FlowInv ==
  /\ wire \in Strings /\ m_data \in Strings
  /\ sentFrames \in Frames /\ received \in Frames /\ lost \in Nat
  /\ lost <= 1 => \E rest \in Frames : UnderWay(Cat(m_data, wire), rest)

(* Initially nothing is under way. *)
LEMMA InitFlow == Init => FlowInv
<1> SUFFICES ASSUME Init PROVE FlowInv
  OBVIOUS
<1>1. /\ wire = None /\ m_data = None /\ sentFrames = None /\ received = None /\ lost = 0
      /\ None \in Strings /\ None \in Frames
  BY DEF Init, None, Strings, Frames
<1>2. Cat(None, None) = None /\ Coded(None) = None
  BY <1>1, CodedIs, CatNone DEF Strings
<1> QED
  BY <1>1, <1>2 DEF FlowInv, UnderWay

(* A frame is sent. *)
LEMMA TransmitFlow == FlowInv /\ Transmit => FlowInv'
<1> SUFFICES ASSUME FlowInv, Transmit PROVE FlowInv'
  OBVIOUS
<1>1. PICK p \in Payloads : wire' = wire \o encode(p) /\ sentFrames' = Append(sentFrames, p)
  BY DEF Transmit
<1>2. /\ m_data' = m_data /\ received' = received /\ lost' = lost
      /\ wire \in Strings /\ m_data \in Strings
      /\ sentFrames \in Frames /\ received \in Frames /\ lost \in Nat
  BY DEF Transmit, FlowInv
<1>3. p \in Strings /\ encode(p) \in Strings
  <2>1. p \in Strings
    BY PayloadsAssumption DEF Strings
  <2> QED
    BY <2>1, FrameOf
<1>4. /\ wire' = Cat(wire, encode(p)) /\ sentFrames' = Add(sentFrames, p)
      /\ wire' \in Strings /\ sentFrames' \in Frames
  <2>1. wire' = Cat(wire, encode(p)) /\ sentFrames' = Add(sentFrames, p)
    BY <1>1 DEF Cat, Add
  <2>2. Cat(wire, encode(p)) \in Strings
    BY <1>2, <1>3, SpecialBytes, BytesTyped
  <2>3. Add(sentFrames, p) \in Frames
    BY <1>2, <1>3, FramesTyped
  <2> QED
    BY <2>1, <2>2, <2>3
<1>5. ASSUME lost <= 1
      PROVE  \E rest \in Frames : UnderWay(Cat(m_data, wire), rest)'
  <2>1. PICK rest \in Frames : UnderWay(Cat(m_data, wire), rest)
    BY <1>5 DEF FlowInv
  <2> DEFINE s == Cat(m_data, wire)
             more == Add(rest, p)
  <2>2. more \in Frames /\ Add(sentFrames, p) = Cat(received, more)
    BY <1>2, <1>3, <2>1, FramesTyped, CatAdd DEF UnderWay, Frames
  <2>3. Cat(m_data, wire') = Cat(s, encode(p))
    BY <1>2, <1>3, <1>4, CatThree DEF Strings
  <2>4. lost = 0 => Cat(s, encode(p)) = Coded(more)
    BY <1>3, <2>1, CodedIs DEF UnderWay
  <2>5. lost = 1 => OneLost(Cat(s, encode(p)), more)
    BY <1>3, <2>1, LostMore DEF UnderWay
  <2>6. UnderWay(Cat(m_data, wire), more)'
    BY <1>2, <1>4, <2>2, <2>3, <2>4, <2>5 DEF UnderWay
  <2> QED
    BY <2>2, <2>6
<1> QED
  BY <1>2, <1>4, <1>5 DEF FlowInv

(* A delimiter is lost. *)
LEMMA LoseFlow == FlowInv /\ Lose => FlowInv'
<1> SUFFICES ASSUME FlowInv, Lose PROVE FlowInv'
  OBVIOUS
<1>1. /\ m_data' = m_data /\ received' = received /\ sentFrames' = sentFrames /\ lost' = lost + 1
      /\ wire \in Strings /\ m_data \in Strings
      /\ sentFrames \in Frames /\ received \in Frames /\ lost \in Nat
  BY DEF Lose, FlowInv
<1>2. PICK i \in Delimiters(wire) : wire' = RemoveAt(wire, i)
  BY DEF Lose
<1>3. i \in 1..Len(wire) /\ wire[i] = END
  BY <1>1 DEF Delimiters, Strings
<1> DEFINE x == SubSeq(wire, 1, i - 1)
           y == SubSeq(wire, i + 1, Len(wire))
<1>4. x \in Strings /\ y \in Strings /\ wire = Cat(Add(x, END), y)
  BY <1>1, <1>3, CutAt
<1>5. wire' = Cat(x, y) /\ wire' \in Strings
  <2>1. wire' = Cat(x, y)
    BY <1>2 DEF RemoveAt, Cat
  <2> QED
    BY <1>4, <2>1, BytesTyped, SpecialBytes
<1> HIDE DEF x, y
<1>6. ASSUME lost = 0
      PROVE  \E rest \in Frames : UnderWay(Cat(m_data, wire), rest)'
  <2>1. PICK rest \in Frames : UnderWay(Cat(m_data, wire), rest)
    BY <1>6 DEF FlowInv
  <2> DEFINE u == Cat(m_data, x)
  <2>2. u \in Strings /\ Cat(m_data, wire') = Cat(u, y)
    BY <1>1, <1>4, <1>5, BytesTyped, SpecialBytes, CatThree DEF Strings
  <2>3. Cat(m_data, wire) = Cat(Add(u, END), y)
    <3>1. Add(x, END) \in Strings /\ Cat(m_data, Add(x, END)) = Add(u, END)
      BY <1>1, <1>4, BytesTyped, SpecialBytes
    <3> QED
      BY <1>1, <1>4, <3>1, CatThree DEF Strings
  <2>4. OneLost(Cat(u, y), rest)
    BY <1>4, <1>6, <2>1, <2>2, <2>3, DelimiterLost DEF UnderWay
  <2>5. lost' = 1 /\ sentFrames' = Cat(received', rest)
    BY <1>1, <1>6, <2>1 DEF UnderWay
  <2>6. UnderWay(Cat(m_data, wire), rest)'
    BY <1>1, <2>2, <2>4, <2>5 DEF UnderWay
  <2> QED
    BY <2>6
<1>7. lost' \in Nat /\ (lost' <= 1 => lost = 0)
  BY <1>1
<1> QED
  BY <1>1, <1>5, <1>6, <1>7 DEF FlowInv

(* Some bytes come in. *)
LEMMA ReadFlow == FlowInv /\ ReadSome => FlowInv'
<1> SUFFICES ASSUME FlowInv, ReadSome PROVE FlowInv'
  OBVIOUS
<1>1. PICK n \in 1..Len(wire) : /\ m_data' = m_data \o SubSeq(wire, 1, n)
                                /\ wire' = SubSeq(wire, n + 1, Len(wire))
  BY DEF ReadSome
<1>2. /\ received' = received /\ sentFrames' = sentFrames /\ lost' = lost
      /\ wire \in Strings /\ m_data \in Strings
      /\ sentFrames \in Frames /\ received \in Frames /\ lost \in Nat
  BY DEF ReadSome, FlowInv
<1> DEFINE f == SubSeq(wire, 1, n)
           r == SubSeq(wire, n + 1, Len(wire))
<1>3. f \in Strings /\ r \in Strings /\ wire = Cat(f, r)
  BY <1>2, CutAt
<1>4. m_data' = Cat(m_data, f) /\ wire' = r
  BY <1>1 DEF Cat
<1> HIDE DEF f, r
<1>5. m_data' \in Strings /\ Cat(m_data', wire') = Cat(m_data, wire)
  BY <1>2, <1>3, <1>4, BytesTyped, SpecialBytes, CatThree DEF Strings
<1>6. \A rest : UnderWay(Cat(m_data, wire), rest)' <=> UnderWay(Cat(m_data, wire), rest)
  BY <1>2, <1>5 DEF UnderWay
<1> QED
  BY <1>2, <1>3, <1>4, <1>5, <1>6 DEF FlowInv

(* A frame is decoded. *)
LEMMA HandleFlow == FlowInv /\ HandleMessage => FlowInv'
<1> SUFFICES ASSUME FlowInv, HandleMessage PROVE FlowInv'
  OBVIOUS
<1>1. PICK n \in Matches(m_data) :
        /\ received' = Append(received, decode(SubSeq(m_data, 1, n)))
        /\ m_data' = SubSeq(m_data, n + 1, Len(m_data))
  BY DEF HandleMessage
<1>2. /\ wire' = wire /\ sentFrames' = sentFrames /\ lost' = lost
      /\ wire \in Strings /\ m_data \in Strings
      /\ sentFrames \in Frames /\ received \in Frames /\ lost \in Nat
  BY DEF HandleMessage, FlowInv
<1> DEFINE f == SubSeq(m_data, 1, n)
           r == SubSeq(m_data, n + 1, Len(m_data))
<1>3. f \in Strings /\ r \in Strings /\ decode(f) \in Strings
  <2>1. n \in 1..Len(m_data)
    BY <1>2 DEF Matches, Delimiters, Strings
  <2>2. f \in Strings /\ r \in Strings
    BY <1>2, <2>1, CutAt
  <2> QED
    BY <2>2, DecodeAdd, SpecialBytes
<1>4. received' = Add(received, decode(f)) /\ m_data' = r /\ received' \in Frames
  <2>1. received' = Add(received, decode(f))
    BY <1>1 DEF Add
  <2>2. Add(received, decode(f)) \in Frames
    <3> DEFINE h == decode(f)
    <3>1. h \in Strings
      BY <1>3
    <3> HIDE DEF h
    <3>2. Add(received, h) \in Frames
      BY <1>2, <3>1, FramesTyped
    <3> QED
      BY <3>2 DEF h
  <2>3. m_data' = r
    BY <1>1
  <2> QED
    BY <2>1, <2>2, <2>3
<1>5. ASSUME NEW rest \in Frames, UnderWay(Cat(m_data, wire), rest), lost <= 1
      PROVE  \E left \in Frames : UnderWay(Cat(m_data, wire), left)'
  <2> DEFINE s == Cat(m_data, wire)
  <2>1. \E h, a, b, g, c : /\ Begins(s, rest, h, a, b, g, c)
                           /\ lost = 0 => c = Coded(g)
                           /\ lost = 1 => OneLost(c, g)
    <3>0. END \in Bytes /\ None \in Seq(Inner) /\ None \in Strings
      BY SpecialBytes DEF None, Strings
    <3>1. CASE lost = 0
      <4>1. s = Coded(rest)
        BY <1>5, <3>1 DEF UnderWay
      <4>2. s # None
        BY <1>2, <3>0, OneUnmatched
      <4> QED
        BY <3>1, <4>1, <4>2, CompleteBegins
    <3>2. CASE lost = 1
      <4>1. OneLost(s, rest)
        BY <1>5, <3>2 DEF UnderWay
      <4>2. \A h \in Strings : s # Cat(Add(Body(h), END), None) /\ s # Cat(Add(None, END), Body(h))
        BY <1>2, <3>0, FrameOf, OneUnmatched
      <4> HIDE DEF s
      <4> QED
        BY <3>2, <4>1, <4>2, LostBegins
    <3> QED
      BY <1>2, <1>5, <3>1, <3>2
  <2>2. PICK h, a, b, g, c : /\ Begins(s, rest, h, a, b, g, c)
                             /\ lost = 0 => c = Coded(g)
                             /\ lost = 1 => OneLost(c, g)
    BY <2>1
  <2>3. /\ h \in Strings /\ g \in Frames /\ rest = Cat(One(h), g)
        /\ a \in Seq(Inner) /\ b \in Seq(Inner) /\ c \in Strings
        /\ s = Cat(Two(a, b), c) /\ decode(Two(a, b)) = h
    BY <2>2 DEF Begins
  <2>4. f = Two(a, b) /\ Cat(r, wire) = c
    BY <1>2, <2>3, TwoTaken
  <2>5. sentFrames = Cat(Add(received, h), g)
    <3>1. One(h) \in Frames
      BY <2>3 DEF One, Frames
    <3>2. Add(received, h) = Cat(received, One(h))
      BY <1>2, <2>3, AddOne DEF Frames
    <3>3. Cat(Cat(received, One(h)), g) = Cat(received, Cat(One(h), g))
      BY <1>2, <2>3, <3>1, CatThree DEF Frames
    <3> QED
      BY <1>5, <2>3, <3>2, <3>3 DEF UnderWay
  <2>6. UnderWay(Cat(m_data, wire), g)'
    BY <1>2, <1>4, <2>2, <2>3, <2>4, <2>5 DEF UnderWay
  <2> QED
    BY <2>3, <2>6
<1> HIDE DEF f, r
<1>6. lost' <= 1 => \E left \in Frames : UnderWay(Cat(m_data, wire), left)'
  BY <1>2, <1>5 DEF FlowInv
<1> QED
  BY <1>2, <1>3, <1>4, <1>6 DEF FlowInv

(* Every step. *)
LEMMA StepFlow == FlowInv /\ [Next]_vars => FlowInv'
<1> SUFFICES ASSUME FlowInv, [Next]_vars PROVE FlowInv'
  OBVIOUS
<1>1. CASE Send \/ Finished \/ UNCHANGED vars
  <2>1. UNCHANGED receiveVars
    BY <1>1 DEF Send, Finished, vars
  <2> QED
    BY <2>1 DEF receiveVars, FlowInv, UnderWay
<1> QED
  BY <1>1, TransmitFlow, LoseFlow, ReadFlow, HandleFlow DEF Next

(* Up to one lost delimiter: the frames received are the first of those sent;*)
(* when all is quiet, they are all of them, or all but one.                  *)
LEMMA FlowMeans ==
  ASSUME FlowInv
  PROVE  FramesDelivered /\ OneFaultHarmless /\ LagsByOne
<1>1. /\ wire \in Strings /\ m_data \in Strings
      /\ sentFrames \in Frames /\ received \in Frames /\ lost \in Nat
  BY DEF FlowInv
<1>2. ASSUME lost <= 1
      PROVE  /\ IsPrefix(received, sentFrames)
             /\ lost = 0 /\ Quiet => received = sentFrames
             /\ lost = 1 /\ Quiet => Len(received) = Len(sentFrames) - 1
  <2>1. PICK rest \in Frames : UnderWay(Cat(m_data, wire), rest)
    BY <1>2 DEF FlowInv
  <2>2. IsPrefix(received, sentFrames) /\ Len(sentFrames) = Len(received) + Len(rest)
    BY <1>1, <2>1, PrefixOf DEF UnderWay, Frames
  <2> DEFINE s == Cat(m_data, wire)
  <2>3. ASSUME Quiet, NEW h, NEW a, NEW b, NEW g, NEW c, Begins(s, rest, h, a, b, g, c)
        PROVE  FALSE
    <3>1. wire = None /\ Matches(m_data) = {}
      BY <2>3 DEF Quiet, None
    <3>2. a \in Seq(Inner) /\ b \in Seq(Inner) /\ c \in Strings /\ s = Cat(Two(a, b), c)
      BY <2>3 DEF Begins
    <3> QED
      BY <1>1, <3>1, <3>2, TwoTaken
  <2>4. ASSUME lost = 0, Quiet PROVE received = sentFrames
    <3>1. rest = None
      BY <2>1, <2>3, <2>4, CompleteBegins DEF UnderWay
    <3> QED
      BY <1>1, <2>1, <3>1, CatNone DEF UnderWay, Frames
  <2>5. ASSUME lost = 1, Quiet PROVE Len(received) = Len(sentFrames) - 1
    <3>1. OneLost(s, rest)
      BY <2>1, <2>5 DEF UnderWay
    <3>2. \E h \in Strings : rest = One(h)
      <4> HIDE DEF s
      <4> QED
        BY <2>3, <2>5, <3>1, LostBegins
    <3>3. Len(rest) = 1
      BY <3>2 DEF One
    <3>4. Len(received) \in Nat
      BY <1>1 DEF Frames
    <3> QED
      BY <2>2, <3>3, <3>4
  <2> QED
    BY <2>2, <2>4, <2>5
<1> QED
  BY <1>1, <1>2 DEF FramesDelivered, OneFaultHarmless, LagsByOne

(* The inductive invariant of the receiving side. *)
THEOREM FlowInductive == Spec => []FlowInv
  BY InitFlow, StepFlow, PTL DEF Spec

(* handleMessage() delivers every frame as it was sent, in order, and as     *)
(* soon as it is complete, for any bytes and wherever the stream is cut.     *)
THEOREM FramesArrive == Spec => []FramesDelivered
  BY FlowInductive, FlowMeans, PTL

(* match_slip() and decode() deliver nothing that was not sent, and leave    *)
(* out nothing, when one delimiter is lost,                                  *)
THEOREM FaultContained == Spec => []OneFaultHarmless
  BY FlowInductive, FlowMeans, PTL

(* but every frame then waits for the one behind it.                         *)
THEOREM DelayStays == Spec => []LagsByOne
  BY FlowInductive, FlowMeans, PTL

-----------------------------------------------------------------------------
(* What stands before the n-th byte begins at i. *)
StartsAt(s, i, n) ==
  /\ i \in 1..n
  /\ i > 1 => s[i - 1] = END
  /\ \A j \in i..(n - 1) : s[j] # END

(* It begins at one place. *)
LEMMA BeforeIs ==
  ASSUME NEW s \in Strings, NEW n \in 1..(Len(s) + 1)
  PROVE  /\ \E i \in 1..n : StartsAt(s, i, n)
         /\ \A i \in 1..n : StartsAt(s, i, n) => Before(s, n) = SubSeq(s, i, n - 1)
<1>1. Len(s) \in Nat /\ n \in Nat /\ n >= 1
  BY DEF Strings
<1>2. \E i \in 1..n : StartsAt(s, i, n)
  <2> DEFINE T == {i \in 1..n : \A j \in i..(n - 1) : s[j] # END}
  <2>1. n \in T /\ T \in SUBSET Nat /\ T # {}
    <3>1. n \in 1..n /\ \A j \in n..(n - 1) : s[j] # END
      BY <1>1
    <3>2. n \in T
      BY <3>1
    <3>3. \A i \in 1..n : i \in Nat
      BY <1>1
    <3> QED
      BY <3>2, <3>3
  <2>2. PICK i \in T : \A k \in T : i <= k
    BY <2>1, LeastNumber
  <2>3. ASSUME i > 1, s[i - 1] # END PROVE FALSE
    <3>1. i - 1 \in 1..n /\ \A j \in (i - 1)..(n - 1) : j = i - 1 \/ j \in i..(n - 1)
      BY <1>1, <2>2, <2>3
    <3>2. i - 1 \in T
      BY <2>2, <2>3, <3>1
    <3> QED
      BY <2>1, <2>2, <3>2
  <2> QED
    BY <2>2, <2>3 DEF StartsAt
<1>3. ASSUME NEW i \in 1..n, NEW k \in 1..n, StartsAt(s, i, n), StartsAt(s, k, n), i < k
      PROVE  FALSE
  <2>1. k > 1 /\ k - 1 \in i..(n - 1)
    BY <1>1, <1>3
  <2> QED
    BY <1>3, <2>1 DEF StartsAt
<1>4. \A i, k \in 1..n : StartsAt(s, i, n) /\ StartsAt(s, k, n) => i = k
  BY <1>1, <1>3
<1>5. ASSUME NEW i \in 1..n, StartsAt(s, i, n)
      PROVE  Before(s, n) = SubSeq(s, i, n - 1)
  <2> DEFINE first == CHOOSE k \in 1..n : /\ k > 1 => s[k - 1] = END
                                          /\ \A j \in k..(n - 1) : s[j] # END
  <2>1. first \in 1..n /\ StartsAt(s, first, n)
    BY <1>5 DEF StartsAt
  <2>2. first = i
    BY <1>4, <1>5, <2>1
  <2>3. Before(s, n) = SubSeq(s, first, n - 1)
    BY DEF Before
  <2> HIDE DEF first
  <2> QED
    BY <2>2, <2>3
<1> QED
  BY <1>2, <1>5

(* The bytes of a word with one more. *)
LEMMA AddIs ==
  ASSUME NEW s \in Strings, NEW b \in Bytes
  PROVE  /\ Add(s, b) \in Strings /\ Len(s) \in Nat /\ Len(Add(s, b)) = Len(s) + 1
         /\ \A i \in 1..Len(s) : Add(s, b)[i] = s[i]
         /\ Add(s, b)[Len(s) + 1] = b
  BY DEF Add, Strings

(* A part of a word. *)
LEMMA PartIs ==
  ASSUME NEW s \in Strings, NEW i \in Nat, NEW k \in Nat,
         1 <= i, k <= Len(s), i <= k + 1
  PROVE  /\ SubSeq(s, i, k) \in Strings /\ Len(SubSeq(s, i, k)) = k + 1 - i
         /\ \A j \in 1..(k + 1 - i) : SubSeq(s, i, k)[j] = s[i + j - 1]
  BY DEF Strings

(* A byte more changes nothing before it. *)
LEMMA BeforeStays ==
  ASSUME NEW s \in Strings, NEW b \in Bytes, NEW n \in 1..(Len(s) + 1)
  PROVE  Before(Add(s, b), n) = Before(s, n) /\ Before(s, n) \in Strings
<1> DEFINE t == Add(s, b)
<1>1. /\ t \in Strings /\ Len(s) \in Nat /\ Len(t) = Len(s) + 1 /\ n \in 1..(Len(t) + 1)
      /\ \A i \in 1..Len(s) : t[i] = s[i]
  BY AddIs
<1> HIDE DEF t
<1>2. PICK i \in 1..n : StartsAt(s, i, n)
  BY BeforeIs
<1>3. StartsAt(t, i, n)
  BY <1>1, <1>2 DEF StartsAt
<1>4. Before(s, n) = SubSeq(s, i, n - 1) /\ Before(t, n) = SubSeq(t, i, n - 1)
  BY <1>1, <1>2, <1>3, BeforeIs
<1> DEFINE k == n - 1
<1>5. k \in Nat /\ i \in Nat /\ 1 <= i /\ k <= Len(s) /\ k <= Len(t) /\ i <= k + 1
  BY <1>1
<1> HIDE DEF k
<1> DEFINE p == SubSeq(s, i, k)
           q == SubSeq(t, i, k)
<1>6. /\ p \in Strings /\ Len(p) = k + 1 - i
      /\ \A j \in 1..(k + 1 - i) : p[j] = s[i + j - 1]
  BY <1>5, PartIs
<1>7. /\ q \in Strings /\ Len(q) = k + 1 - i
      /\ \A j \in 1..(k + 1 - i) : q[j] = t[i + j - 1]
  BY <1>1, <1>5, PartIs
<1> HIDE DEF p, q
<1>8. ASSUME NEW j \in 1..(k + 1 - i) PROVE p[j] = q[j]
  <2> DEFINE l == i + j - 1
  <2>1. l \in 1..Len(s)
    BY <1>1, <1>5
  <2> HIDE DEF l
  <2>2. p[j] = s[l] /\ q[j] = t[l]
    BY <1>6, <1>7 DEF l
  <2> QED
    BY <1>1, <2>1, <2>2
<1>9. p = q
  BY <1>6, <1>7, <1>8, SeqEqual DEF Strings
<1> QED
  BY <1>4, <1>6, <1>9 DEF p, q, k, t

(* What stands after the last delimiter. *)
After(s) == Before(s, Len(s) + 1)

(* A delimiter ends it, any other byte belongs to it. *)
LEMMA AfterAdd ==
  ASSUME NEW s \in Strings, NEW b \in Bytes
  PROVE  /\ After(s) \in Strings
         /\ b = END => After(Add(s, b)) = None
         /\ b # END => After(Add(s, b)) = Add(After(s), b)
<1> DEFINE t == Add(s, b)
           n == Len(s)
<1>1. /\ t \in Strings /\ n \in Nat /\ Len(t) = n + 1 /\ t[n + 1] = b
      /\ \A i \in 1..n : t[i] = s[i]
  BY AddIs
<1> HIDE DEF t, n
<1>2. n + 1 \in 1..(Len(s) + 1) /\ n + 2 \in 1..(Len(t) + 1)
  BY <1>1 DEF n
<1>3. After(s) \in Strings
  BY <1>2, BeforeStays DEF After, n
<1>4. After(t) = Before(t, n + 2)
  <2>1. Len(t) + 1 = n + 2
    BY <1>1
  <2> QED
    BY <2>1 DEF After
<1>5. ASSUME b = END PROVE After(t) = None
  <2>1. n + 2 \in 1..(n + 2) /\ StartsAt(t, n + 2, n + 2)
    BY <1>1, <1>5 DEF StartsAt
  <2>2. Before(t, n + 2) = SubSeq(t, n + 2, (n + 2) - 1)
    BY <1>1, <1>2, <2>1, BeforeIs
  <2>3. SubSeq(t, n + 2, (n + 2) - 1) = <<>>
    BY <1>1 DEF Strings
  <2> QED
    BY <1>4, <2>2, <2>3 DEF None
<1>6. ASSUME b # END PROVE After(t) = Add(After(s), b)
  <2>1. PICK i \in 1..(n + 1) : StartsAt(s, i, n + 1)
    BY <1>2, BeforeIs
  <2>2. After(s) = SubSeq(s, i, n)
    <3>1. Before(s, n + 1) = SubSeq(s, i, (n + 1) - 1)
      BY <1>2, <2>1, BeforeIs
    <3>2. (n + 1) - 1 = n
      BY <1>1
    <3> QED
      BY <3>1, <3>2 DEF After, n
  <2>3. i \in 1..(n + 2) /\ StartsAt(t, i, n + 2)
    BY <1>1, <1>6, <2>1 DEF StartsAt
  <2>4. After(t) = SubSeq(t, i, n + 1)
    <3>1. Before(t, n + 2) = SubSeq(t, i, (n + 2) - 1)
      BY <1>1, <1>2, <2>3, BeforeIs
    <3>2. (n + 2) - 1 = n + 1
      BY <1>1
    <3> QED
      BY <1>4, <3>1, <3>2
  <2> DEFINE p == SubSeq(s, i, n)
             q == SubSeq(t, i, n + 1)
             l == n + 1 - i
  <2>5. i \in Nat /\ 1 <= i /\ i <= n + 1 /\ l \in Nat /\ (n + 1) + 1 - i = l + 1
    BY <1>1
  <2>6. /\ p \in Strings /\ Len(p) = l
        /\ \A j \in 1..l : p[j] = s[i + j - 1]
    BY <1>1, <2>5, PartIs DEF n
  <2>7. /\ q \in Strings /\ Len(q) = l + 1
        /\ \A j \in 1..(l + 1) : q[j] = t[i + j - 1]
    <3> DEFINE k == n + 1
    <3>1. k \in Nat /\ k <= Len(t) /\ i <= k + 1 /\ k + 1 - i = l + 1
      BY <1>1, <2>5
    <3> HIDE DEF k, l
    <3>2. /\ SubSeq(t, i, k) \in Strings /\ Len(SubSeq(t, i, k)) = k + 1 - i
          /\ \A j \in 1..(k + 1 - i) : SubSeq(t, i, k)[j] = t[i + j - 1]
      BY <1>1, <2>5, <3>1, PartIs
    <3> QED
      BY <3>1, <3>2 DEF k
  <2> HIDE DEF p, q
  <2>8. /\ Add(p, b) \in Strings /\ Len(Add(p, b)) = l + 1
        /\ \A j \in 1..l : Add(p, b)[j] = p[j]
        /\ Add(p, b)[l + 1] = b
    <3>1. /\ Add(p, b) \in Strings /\ Len(Add(p, b)) = Len(p) + 1
          /\ \A j \in 1..Len(p) : Add(p, b)[j] = p[j]
          /\ Add(p, b)[Len(p) + 1] = b
      BY <2>6, AddIs
    <3> QED
      BY <2>6, <3>1
  <2>9. ASSUME NEW j \in 1..(l + 1) PROVE q[j] = Add(p, b)[j]
    <3> DEFINE k == i + j - 1
    <3>1. q[j] = t[k]
      BY <2>7
    <3>2. CASE j \in 1..l
      <4>1. k \in 1..n
        BY <1>1, <2>5, <3>2
      <4> HIDE DEF k
      <4>2. t[k] = s[k]
        BY <1>1, <4>1
      <4>3. p[j] = s[k]
        BY <2>6, <3>2 DEF k
      <4> QED
        BY <2>8, <3>1, <3>2, <4>2, <4>3
    <3>3. CASE j \notin 1..l
      <4>1. j = l + 1 /\ k = n + 1
        BY <1>1, <2>5, <3>3
      <4> HIDE DEF k, l
      <4> QED
        BY <1>1, <2>8, <3>1, <4>1
    <3> QED
      BY <3>2, <3>3
  <2>10. q = Add(p, b)
    <3> DEFINE u == Add(p, b)
    <3>1. u \in Strings /\ Len(u) = Len(q) /\ \A j \in 1..Len(q) : q[j] = u[j]
      BY <2>7, <2>8, <2>9
    <3> HIDE DEF u
    <3>2. q = u
      BY <2>7, <3>1, SeqEqual DEF Strings
    <3> QED
      BY <3>2 DEF u
  <2> QED
    BY <2>2, <2>4, <2>10 DEF p, q
<1> QED
  BY <1>3, <1>5, <1>6 DEF t

(* What the radio hears with one byte more. *)
LEMMA HeardAdd ==
  ASSUME NEW s \in Strings, NEW b \in Bytes
  PROVE  /\ Heard(None) = None /\ After(None) = None
         /\ Heard(s) \in Frames
         /\ b # END => Heard(Add(s, b)) = Heard(s)
         /\ b = END => Heard(Add(s, b)) =
              Cat(Heard(s), IF After(s) = None THEN None ELSE One(decode(After(s))))
<1> DEFINE t == Add(s, b)
           n == Len(s)
           c(u) == [i \in 1..Len(u) |-> HeardAt(u, i)]
           W == Seq(Strings)
<1>1. /\ t \in Strings /\ n \in Nat /\ Len(t) = n + 1 /\ t[n + 1] = b
      /\ \A i \in 1..n : t[i] = s[i]
  BY AddIs
<1>2. Heard(s) = Joined(c(s)) /\ Heard(t) = Joined(c(t)) /\ Heard(None) = None
  <2>1. DOMAIN s = 1..Len(s) /\ DOMAIN t = 1..Len(t)
    BY <1>1 DEF Strings
  <2>2. Heard(<<>>) = Joined(<<>>)
    <3>1. DOMAIN <<>> = {} /\ [i \in {} |-> HeardAt(<<>>, i)] = <<>>
      OBVIOUS
    <3> QED
      BY <3>1 DEF Heard
  <2> QED
    BY <2>1, <2>2, JoinedEmpty DEF Heard, None
<1> HIDE DEF t, n
<1>3. ASSUME NEW u \in Strings, NEW i \in 1..Len(u) PROVE HeardAt(u, i) \in W
  <2>1. i \in 1..(Len(u) + 1) /\ END \in Bytes
    BY SpecialBytes DEF Strings
  <2>2. Before(u, i) \in Strings
    BY <2>1, BeforeStays
  <2> DEFINE f == Before(u, i)
             d == decode(f)
  <2>3. d \in Strings
    BY <2>1, <2>2, DecodeAdd
  <2>4. HeardAt(u, i) = IF u[i] = END /\ f # <<>> THEN <<d>> ELSE <<>>
    BY DEF HeardAt
  <2> HIDE DEF d, f
  <2> QED
    BY <2>3, <2>4
<1>4. \A i \in 1..n : HeardAt(t, i) = HeardAt(s, i)
  <2> TAKE i \in 1..n
  <2>1. i \in 1..(Len(s) + 1) /\ t[i] = s[i]
    BY <1>1 DEF n
  <2>2. Before(t, i) = Before(s, i)
    BY <2>1, BeforeStays DEF t
  <2> QED
    BY <2>1, <2>2 DEF HeardAt
<1> DEFINE x == HeardAt(t, n + 1)
<1>5. x = IF b = END /\ After(s) # None THEN One(decode(After(s))) ELSE None
  <2>1. n + 1 \in 1..(Len(s) + 1)
    BY <1>1 DEF n
  <2>2. Before(t, n + 1) = After(s)
    BY <2>1, BeforeStays DEF After, t, n
  <2> QED
    BY <1>1, <2>2 DEF HeardAt, None, One
<1>6. x \in W
  BY <1>1, <1>3
<1>7. c(s) \in Seq(W) /\ Len(c(s)) = n
  BY <1>1, <1>3 DEF n
<1>8. Joined(c(t)) = Joined(c(s)) \o x
  <2> DEFINE y == c(s)
             z == c(t)
  <2>1. y \in Seq(W) /\ Len(y) = n /\ \A i \in 1..n : y[i] = HeardAt(s, i)
    BY <1>1, <1>7 DEF n
  <2>2. z = [i \in 1..(n + 1) |-> IF i = n + 1 THEN x ELSE y[i]]
    BY <1>1, <1>4, <2>1
  <2> HIDE DEF x, y, z, W
  <2>3. Append(y, x) = [i \in 1..(Len(y) + 1) |-> IF i = Len(y) + 1 THEN x ELSE y[i]]
    BY <1>6, <2>1, AppendAsFunction
  <2>4. Joined(Append(y, x)) = Joined(y) \o x
    BY <1>6, <2>1, JoinedAppend
  <2>5. z = Append(y, x)
    BY <2>1, <2>2, <2>3
  <2> QED
    BY <2>4, <2>5 DEF y, z
<1>9. Joined(c(s)) \in W
  <2> DEFINE y == c(s)
  <2>1. y \in Seq(Seq(Strings))
    BY <1>7
  <2> HIDE DEF y
  <2>2. Joined(y) \in Seq(Strings)
    BY <2>1, JoinedType
  <2> QED
    BY <2>2 DEF y
<1>10. Heard(s) \in Frames /\ Heard(t) = Cat(Heard(s), x)
  BY <1>2, <1>8, <1>9 DEF Cat, Frames
<1>11. After(None) = None
  <2>1. None \in Strings /\ Len(None) = 0
    BY DEF None, Strings
  <2>2. 1 \in 1..(Len(None) + 1) /\ StartsAt(None, 1, 1)
    BY <2>1 DEF StartsAt
  <2>3. Before(None, 1) = SubSeq(None, 1, 1 - 1)
    BY <2>1, <2>2, BeforeIs
  <2>4. SubSeq(None, 1, 1 - 1) = None
    BY DEF None
  <2> QED
    BY <2>1, <2>3, <2>4 DEF After
<1>12. Cat(Heard(s), None) = Heard(s)
  BY <1>10, CatNone DEF Frames
<1> HIDE DEF x
<1> QED
  BY <1>2, <1>5, <1>10, <1>11, <1>12 DEF t
(* A stretch without a delimiter is not heard before its end. *)
LEMMA StretchHeard ==
  ASSUME NEW s \in Strings, NEW w \in Seq(Inner)
  PROVE  /\ Cat(s, w) \in Strings
         /\ Heard(Cat(s, w)) = Heard(s)
         /\ After(Cat(s, w)) = Cat(After(s), w)
<1> DEFINE G == {u \in Seq(Inner) : /\ Cat(s, u) \in Strings
                                    /\ Heard(Cat(s, u)) = Heard(s)
                                    /\ After(Cat(s, u)) = Cat(After(s), u)}
<1>0. After(s) \in Strings /\ END \in Bytes /\ None \in Seq(Inner)
  BY SpecialBytes, AfterAdd DEF None
<1>1. None \in G
  <2>1. Cat(s, None) = s /\ Cat(After(s), None) = After(s)
    BY <1>0, CatNone DEF Strings
  <2> QED
    BY <1>0, <2>1
<1>2. ASSUME NEW u \in Seq(Inner), u \in G, NEW x \in Inner PROVE Add(u, x) \in G
  <2>1. x \in Bytes /\ x # END /\ u \in Strings /\ Add(u, x) \in Seq(Inner)
    <3>1. u \in Strings
      BY SpecialBytes, SeqMonotonic DEF Strings
    <3> QED
      BY <3>1, WordsTyped DEF Inner
  <2>2. Cat(s, Add(u, x)) = Add(Cat(s, u), x) /\ Cat(After(s), Add(u, x)) = Add(Cat(After(s), u), x)
    BY <1>0, <2>1, BytesTyped
  <2> DEFINE v == Cat(s, u)
  <2>3. v \in Strings /\ Heard(v) = Heard(s) /\ After(v) = Cat(After(s), u)
    BY <1>2
  <2> HIDE DEF v
  <2>4. Add(v, x) \in Strings /\ Heard(Add(v, x)) = Heard(v) /\ After(Add(v, x)) = Add(After(v), x)
    BY <2>1, <2>3, AddIs, HeardAdd, AfterAdd
  <2> QED
    BY <2>1, <2>2, <2>3, <2>4 DEF v
<1> HIDE DEF G
<1>3. Seq(Inner) \subseteq G
  BY <1>1, <1>2, WordInduction
<1> QED
  BY <1>3 DEF G

(* The messages of one byte or more that the radio has heard. *)
Full(frames) == Only(frames, NonEmpty)

(* A delimiter ends a frame, unless it is empty. *)
LEMMA DelimiterHeard ==
  ASSUME NEW s \in Strings
  PROVE  /\ Add(s, END) \in Strings /\ After(Add(s, END)) = None
         /\ After(s) \in Strings /\ decode(After(s)) \in Strings
         /\ Full(Heard(Add(s, END))) = Cat(Full(Heard(s)), Full(One(decode(After(s)))))
<1> DEFINE t == Add(s, END)
           a == After(s)
           d == decode(a)
<1>1. t \in Strings /\ END \in Bytes /\ a \in Strings /\ After(t) = None /\ None \in Strings
  BY SpecialBytes, AddIs, AfterAdd, BytesTyped
<1>2. d \in Strings /\ decode(None) = None
  BY <1>1, DecodeAdd
<1>3. Heard(s) \in Frames /\ Heard(t) = Cat(Heard(s), IF a = None THEN None ELSE One(d))
  BY <1>1, HeardAdd
<1> HIDE DEF t, a
<1>4. CASE a = None
  <2>1. Heard(t) = Heard(s)
    <3>1. Cat(Heard(s), None) = Heard(s)
      BY <1>3, CatNone DEF Frames
    <3> QED
      BY <1>3, <1>4, <3>1
  <2>2. d = None /\ None \notin NonEmpty
    BY <1>2, <1>4 DEF NonEmpty, None
  <2>3. Full(One(d)) = None
    BY <2>2, OnlySingle DEF Full
  <2>4. Full(Heard(s)) \in Frames
    BY <1>3, OnlySeq DEF Full, Frames
  <2>5. Cat(Full(Heard(s)), None) = Full(Heard(s))
    BY <2>4, CatNone DEF Frames
  <2> QED
    BY <1>1, <1>2, <2>1, <2>3, <2>5 DEF t, a
<1>5. CASE a # None
  <2>1. Heard(t) = Cat(Heard(s), One(d)) /\ One(d) \in Frames
    <3> HIDE DEF d
    <3>1. One(d) \in Frames
      BY <1>2 DEF Frames, One
    <3> QED
      BY <1>3, <1>5, <3>1
  <2> HIDE DEF d
  <2>2. Only(Cat(Heard(s), One(d)), NonEmpty) = Cat(Only(Heard(s), NonEmpty), Only(One(d), NonEmpty))
    BY <1>3, <2>1, OnlyCat DEF Frames
  <2> QED
    BY <1>1, <1>2, <2>1, <2>2 DEF Full, t, a, d
<1> QED
  BY <1>4, <1>5

-----------------------------------------------------------------------------
(* A message, and how many bytes of its frame were written. *)
Written == {w \in [msg : Payloads, size : Nat] : w.size \in 1..Len(encode(w.msg))}

(* A write of at least one byte. *)
LEMMA PieceIs ==
  ASSUME NEW m \in Payloads, NEW n \in 1..Len(encode(m))
  PROVE  LET f == SubSeq(encode(m), 1, n) IN
         /\ m \in Strings /\ m \in NonEmpty
         /\ n = Len(encode(m)) => f = encode(m) /\ decode(f) = m
         /\ n # Len(encode(m)) =>
              \E x \in Seq(Inner) : /\ x \in Strings
                                    /\ f = Cat(One(END), x)
                                    /\ decode(f) = decode(x)
<1> DEFINE e == encode(m)
           b == Body(m)
           c == Cat(One(END), b)
           f == SubSeq(e, 1, n)
<1>1. m \in Strings /\ m \in NonEmpty
  BY PayloadsAssumption DEF Strings, NonEmpty
<1>2. e \in Strings /\ b \in Seq(Inner) /\ b \in Strings /\ e = Add(c, END) /\ decode(e) = m
  BY <1>1, FrameOf
<1> DEFINE o == One(END)
<1>3. END \in Bytes /\ o \in Strings /\ o[1] = END /\ Len(o) = 1
  <2>1. END \in Bytes /\ o \in Strings
    BY SpecialBytes DEF One, Strings
  <2>2. o[1] = END /\ Len(o) = 1
    BY DEF One
  <2> QED
    BY <2>1, <2>2
<1> HIDE DEF e, b, o
<1>4. ASSUME n = Len(e) PROVE f = e
  BY <1>2, <1>4 DEF Strings
<1>5. ASSUME n # Len(e)
      PROVE  \E x \in Seq(Inner) : x \in Strings /\ f = Cat(One(END), x) /\ decode(f) = decode(x)
  <2>1. /\ c \in Strings /\ Len(b) \in Nat /\ Len(c) = 1 + Len(b)
        /\ \A i \in 1..1 : c[i] = END
        /\ \A i \in 1..Len(b) : c[1 + i] = b[i]
    <3>1. /\ Cat(o, b) \in Strings /\ Len(b) \in Nat /\ Len(Cat(o, b)) = Len(o) + Len(b)
          /\ \A i \in 1..Len(o) : Cat(o, b)[i] = o[i]
          /\ \A i \in 1..Len(b) : Cat(o, b)[Len(o) + i] = b[i]
      BY <1>2, <1>3, CatIs
    <3> QED
      BY <1>3, <3>1 DEF o
  <2> HIDE DEF c
  <2>2. Len(e) = Len(c) + 1 /\ \A i \in 1..Len(c) : e[i] = c[i]
    BY <1>2, <1>3, <2>1, AddIs
  <2>3. n \in Nat /\ 1 <= n /\ n <= Len(c) /\ n - 1 \in Nat /\ n - 1 <= Len(b) /\ n <= Len(e)
    BY <1>2, <1>5, <2>1, <2>2 DEF e
  <2> DEFINE l == n - 1
             x == SubSeq(b, 1, l)
             y == Cat(One(END), x)
  <2>4. x \in Seq(Inner) /\ x \in Strings /\ Len(x) = l /\ \A i \in 1..l : x[i] = b[i]
    <3>1. x \in Seq(Inner) /\ Len(x) = l /\ \A i \in 1..l : x[i] = b[i]
      BY <1>2, <2>3
    <3> QED
      BY <3>1, SpecialBytes, SeqMonotonic DEF Strings
  <2>5. f \in Strings /\ Len(f) = n /\ \A i \in 1..n : f[i] = e[i]
    BY <1>2, <2>3 DEF Strings
  <2> HIDE DEF x, f
  <2>6. /\ y \in Strings /\ Len(y) = 1 + l
        /\ \A i \in 1..1 : y[i] = END
        /\ \A i \in 1..l : y[1 + i] = x[i]
    <3>1. /\ Cat(o, x) \in Strings /\ Len(Cat(o, x)) = Len(o) + Len(x)
          /\ \A i \in 1..Len(o) : Cat(o, x)[i] = o[i]
          /\ \A i \in 1..Len(x) : Cat(o, x)[Len(o) + i] = x[i]
      BY <1>3, <2>4, CatIs
    <3> QED
      BY <1>3, <2>4, <3>1 DEF o
  <2> HIDE DEF y
  <2>7. ASSUME NEW i \in 1..n PROVE f[i] = y[i]
    <3>1. f[i] = c[i]
      BY <2>2, <2>3, <2>5
    <3>2. CASE i = 1
      BY <2>1, <2>6, <3>1, <3>2
    <3>3. CASE i # 1
      <4> DEFINE j == i - 1
      <4>1. j \in 1..l /\ j \in 1..Len(b) /\ 1 + j = i
        BY <2>3, <3>3
      <4> HIDE DEF j, l
      <4>2. c[1 + j] = b[j] /\ y[1 + j] = x[j] /\ x[j] = b[j]
        BY <2>1, <2>4, <2>6, <4>1
      <4> QED
        BY <3>1, <4>1, <4>2
    <3> QED
      BY <3>2, <3>3
  <2>8. f = y
    BY <2>3, <2>5, <2>6, <2>7, SeqEqual DEF Strings
  <2>9. decode(Cat(One(END), x)) = decode(x)
    BY <2>4, DecodeDelimited
  <2> QED
    BY <2>4, <2>8, <2>9 DEF y, o
<1> QED
  BY <1>1, <1>2, <1>4, <1>5 DEF e, f
(* What was written of each message. *)
Told(ws) == [k \in 1..Len(ws) |-> Truncated(ws[k])]

(* Of one write more. *)
LEMMA ToldAdd ==
  ASSUME NEW ws \in Seq(Written), NEW w \in Written
  PROVE  /\ Told(None) = None /\ Truncated(w) \in Strings
         /\ Told(ws) \in Frames
         /\ Told(Add(ws, w)) = Add(Told(ws), Truncated(w))
         /\ Full(Told(Add(ws, w))) = Cat(Full(Told(ws)), Full(One(Truncated(w))))
<1>1. \A v \in Written : Truncated(v) \in Strings
  <2> TAKE v \in Written
  <2> DEFINE f == SubSeq(encode(v.msg), 1, v.size)
  <2>1. v.msg \in Payloads /\ v.size \in 1..Len(encode(v.msg))
    BY DEF Written
  <2>2. v.msg \in Strings
    BY <2>1, PayloadsAssumption DEF Strings
  <2>3. encode(v.msg) \in Strings
    BY <2>2, FrameOf
  <2>4. f \in Strings
    BY <2>1, <2>3, CutAt
  <2> HIDE DEF f
  <2>5. decode(f) \in Strings
    BY <2>4, DecodeAdd, SpecialBytes
  <2> QED
    BY <2>5 DEF Truncated, f
<1>2. Told(None) = None
  BY DEF Told, None
<1> DEFINE x == Truncated(w)
           y == Told(ws)
<1>3. x \in Strings /\ y \in Seq(Strings) /\ Len(y) = Len(ws) /\ \A k \in 1..Len(ws) : y[k] = Truncated(ws[k])
  <2>1. Len(ws) \in Nat /\ \A k \in 1..Len(ws) : ws[k] \in Written
    OBVIOUS
  <2>2. \A k \in 1..Len(ws) : Truncated(ws[k]) \in Strings
    BY <1>1, <2>1
  <2> QED
    BY <1>1, <2>1, <2>2 DEF Told
<1>4. Told(Add(ws, w)) = Add(y, x)
  <2> DEFINE a == Append(ws, w)
  <2>1. Len(a) = Len(ws) + 1 /\ Len(ws) \in Nat /\ a[Len(ws) + 1] = w /\ \A k \in 1..Len(ws) : a[k] = ws[k]
    OBVIOUS
  <2> HIDE DEF a
  <2>2. Told(a) = [k \in 1..(Len(ws) + 1) |-> IF k = Len(ws) + 1 THEN x ELSE y[k]]
    BY <1>3, <2>1 DEF Told
  <2> HIDE DEF x, y
  <2>3. Append(y, x) = [k \in 1..(Len(y) + 1) |-> IF k = Len(y) + 1 THEN x ELSE y[k]]
    BY <1>3, AppendAsFunction
  <2>4. Told(a) = Append(y, x)
    BY <1>3, <2>2, <2>3
  <2> QED
    BY <2>4 DEF a, Add
<1> HIDE DEF x, y
<1>5. Only(Add(y, x), NonEmpty) = Cat(Only(y, NonEmpty), Only(One(x), NonEmpty))
  BY <1>3, OnlyAdd
<1> QED
  BY <1>2, <1>3, <1>4, <1>5 DEF x, y, Full, Frames

(* What the radio has heard is what was written, but for a last frame that   *)
(* was cut short: it still waits for its end.                                *)
AllHeard ==
  /\ After(toRadio) = None
  /\ \A n \in DOMAIN writes : n = Len(writes) => WrittenWhole(writes[n])
  /\ Full(Heard(toRadio)) = Full(Told(writes))

LastWaits ==
  \E ws \in Seq(Written), w \in Written :
    /\ writes = Add(ws, w) /\ ~WrittenWhole(w)
    /\ decode(After(toRadio)) = Truncated(w)
    /\ Full(Heard(toRadio)) = Full(Told(ws))

HeardInv ==
  /\ toRadio \in Strings
  /\ writes \in Seq(Written)
  /\ \A k \in DOMAIN writes :
       WrittenWhole(writes[k]) => Truncated(writes[k]) = writes[k].msg
  /\ AllHeard \/ LastWaits

(* Initially nothing is written. *)
LEMMA InitHeard == Init => HeardInv
<1> SUFFICES ASSUME Init PROVE HeardInv
  OBVIOUS
<1>1. toRadio = None /\ writes = None /\ None \in Strings /\ None \in Seq(Written)
  BY DEF Init, None, Strings
<1>2. DOMAIN None = {}
  BY DEF None
<1>3. After(None) = None /\ Heard(None) = None
  BY <1>1, SpecialBytes, HeardAdd
<1>4. Told(None) = None
  BY DEF Told, None
<1> QED
  BY <1>1, <1>2, <1>3, <1>4 DEF HeardInv, AllHeard

(* The first delimiter of the next frame ends the last one. *)
LEMMA NextHeard ==
  ASSUME HeardInv
  PROVE  /\ Add(toRadio, END) \in Strings /\ After(Add(toRadio, END)) = None
         /\ Full(Heard(Add(toRadio, END))) = Full(Told(writes))
<1> DEFINE t == Add(toRadio, END)
<1>1. toRadio \in Strings /\ writes \in Seq(Written)
  BY DEF HeardInv
<1>2. /\ t \in Strings /\ After(t) = None
      /\ Full(Heard(t)) = Cat(Full(Heard(toRadio)), Full(One(decode(After(toRadio)))))
  BY <1>1, DelimiterHeard
<1> HIDE DEF t
<1>3. CASE AllHeard
  <2>1. decode(None) = None /\ Heard(toRadio) \in Frames
    BY <1>1, SpecialBytes, DecodeAdd, HeardAdd
  <2>2. Full(One(None)) = None
    <3>1. None \notin NonEmpty
      BY DEF NonEmpty, None
    <3> QED
      BY <3>1, OnlySingle DEF Full
  <2>3. Full(Heard(toRadio)) \in Frames
    BY <2>1, OnlySeq DEF Full, Frames
  <2>4. Cat(Full(Heard(toRadio)), None) = Full(Heard(toRadio))
    BY <2>3, CatNone DEF Frames
  <2> QED
    BY <1>2, <1>3, <2>1, <2>2, <2>4 DEF AllHeard, t
<1>4. CASE LastWaits
  <2>1. PICK ws \in Seq(Written), w \in Written :
          /\ writes = Add(ws, w)
          /\ decode(After(toRadio)) = Truncated(w)
          /\ Full(Heard(toRadio)) = Full(Told(ws))
    BY <1>4 DEF LastWaits
  <2>2. Full(Told(Add(ws, w))) = Cat(Full(Told(ws)), Full(One(Truncated(w))))
    BY ToldAdd
  <2> QED
    BY <1>2, <2>1, <2>2 DEF t
<1> QED
  BY <1>3, <1>4 DEF HeardInv

(* A message is sent. *)
LEMMA SendHeard == HeardInv /\ Send => HeardInv'
<1> SUFFICES ASSUME HeardInv, Send PROVE HeardInv'
  OBVIOUS
<1>0. PICK m \in Payloads : \E n \in 1..Len(encode(m)) :
        /\ toRadio' = toRadio \o SubSeq(encode(m), 1, n)
        /\ writes' = Append(writes, [msg |-> m, size |-> n])
  BY DEF Send
<1>1. PICK n \in 1..Len(encode(m)) :
        /\ toRadio' = toRadio \o SubSeq(encode(m), 1, n)
        /\ writes' = Append(writes, [msg |-> m, size |-> n])
  BY <1>0
<1> DEFINE f == SubSeq(encode(m), 1, n)
           w == [msg |-> m, size |-> n]
           t == Add(toRadio, END)
<1>2. toRadio \in Strings /\ writes \in Seq(Written)
  BY DEF HeardInv
<1>3. toRadio' = Cat(toRadio, f) /\ writes' = Add(writes, w)
  BY <1>1 DEF Cat, Add
<1>4. /\ m \in Strings /\ m \in NonEmpty
      /\ n = Len(encode(m)) => f = encode(m) /\ decode(f) = m
      /\ n # Len(encode(m)) =>
           \E x \in Seq(Inner) : x \in Strings /\ f = Cat(One(END), x) /\ decode(f) = decode(x)
  BY PieceIs
<1>5. /\ w \in Written /\ Truncated(w) = decode(f)
      /\ WrittenWhole(w) <=> n = Len(encode(m))
      /\ w.msg = m
  <2>1. n \in Nat
    <3>1. encode(m) \in Strings
      BY <1>4, FrameOf
    <3> QED
      BY <3>1 DEF Strings
  <2> QED
    BY <2>1 DEF Written, Truncated, WrittenWhole
<1>6. /\ t \in Strings /\ After(t) = None
      /\ Full(Heard(t)) = Full(Told(writes))
  BY NextHeard
<1> HIDE DEF f, w, t
<1>7. /\ DOMAIN writes = 1..Len(writes) /\ DOMAIN writes' = 1..(Len(writes) + 1) /\ Len(writes) \in Nat
      /\ writes' \in Seq(Written) /\ writes'[Len(writes) + 1] = w /\ Len(writes') = Len(writes) + 1
      /\ \A k \in 1..Len(writes) : writes'[k] = writes[k]
  BY <1>2, <1>3, <1>5 DEF Add
<1>8. END \in Bytes /\ One(END) \in Strings
  BY SpecialBytes DEF One, Strings
<1>9. Cat(toRadio, One(END)) = t
  BY <1>2, <1>8, AddOne DEF t, Strings
<1>10. CASE n = Len(encode(m))
  <2> DEFINE b == Body(m)
             u == Cat(t, b)
  <2>1. /\ b \in Seq(Inner) /\ b \in Strings /\ Add(b, END) \in Strings /\ decode(b) = m
        /\ encode(m) = Cat(One(END), Add(b, END))
    <3>1. b \in Seq(Inner) /\ b \in Strings /\ encode(m) = Cat(One(END), Add(b, END))
      BY <1>4, FrameOf
    <3>2. decode(b) = m
      BY <1>4, DecodeBody
    <3> HIDE DEF b
    <3>3. Add(b, END) \in Strings
      BY <1>8, <3>1, BytesTyped
    <3> QED
      BY <3>1, <3>2, <3>3
  <2> HIDE DEF b
  <2>2. u \in Strings /\ Heard(u) = Heard(t) /\ After(u) = b
    <3>1. u \in Strings /\ Heard(u) = Heard(t) /\ After(u) = Cat(None, b)
      BY <1>6, <2>1, StretchHeard
    <3>2. Cat(None, b) = b
      BY <2>1, CatNone DEF Strings
    <3> QED
      BY <3>1, <3>2
  <2>3. toRadio' = Add(u, END)
    <3>1. Cat(toRadio, Cat(One(END), Add(b, END))) = Cat(t, Add(b, END))
      BY <1>2, <1>8, <1>9, <2>1, CatThree DEF Strings
    <3>2. Cat(t, Add(b, END)) = Add(u, END)
      BY <1>6, <1>8, <2>1, BytesTyped
    <3> QED
      BY <1>3, <1>4, <1>10, <2>1, <3>1, <3>2
  <2> HIDE DEF u
  <2>4. /\ Add(u, END) \in Strings /\ After(Add(u, END)) = None
        /\ Full(Heard(Add(u, END))) = Cat(Full(Heard(u)), Full(One(decode(After(u)))))
    BY <2>2, DelimiterHeard
  <2>5. Full(Told(Add(writes, w))) = Cat(Full(Told(writes)), Full(One(Truncated(w))))
    BY <1>2, <1>5, ToldAdd
  <2>6. Truncated(w) = m
    BY <1>4, <1>5, <1>10
  <2>7. After(toRadio)' = None /\ Full(Heard(toRadio))' = Full(Told(writes))'
    <3>1. Full(Heard(toRadio')) = Full(Told(writes'))
      BY <1>3, <1>6, <2>1, <2>2, <2>3, <2>4, <2>5, <2>6
    <3> QED
      BY <2>3, <2>4, <3>1
  <2>8. \A k \in DOMAIN writes' : k = Len(writes') => WrittenWhole(writes'[k])
    BY <1>5, <1>7, <1>10
  <2>9. AllHeard'
    BY <2>7, <2>8 DEF AllHeard
  <2>10. \A k \in DOMAIN writes' : WrittenWhole(writes'[k]) => Truncated(writes'[k]) = writes'[k].msg
    <3> SUFFICES ASSUME NEW k \in DOMAIN writes', WrittenWhole(writes'[k])
                 PROVE  Truncated(writes'[k]) = writes'[k].msg
      OBVIOUS
    <3>1. CASE k \in 1..Len(writes)
      BY <1>7, <3>1 DEF HeardInv
    <3>2. CASE k = Len(writes) + 1
      BY <1>5, <1>7, <2>6, <3>2
    <3> QED
      BY <1>7, <3>1, <3>2
  <2> QED
    BY <1>7, <2>3, <2>4, <2>9, <2>10 DEF HeardInv
<1>11. CASE n # Len(encode(m))
  <2>1. PICK x \in Seq(Inner) : x \in Strings /\ f = Cat(One(END), x) /\ decode(f) = decode(x)
    BY <1>4, <1>11
  <2> DEFINE u == Cat(t, x)
  <2>2. u \in Strings /\ Heard(u) = Heard(t) /\ After(u) = x
    <3>1. u \in Strings /\ Heard(u) = Heard(t) /\ After(u) = Cat(None, x)
      BY <1>6, <2>1, StretchHeard
    <3>2. Cat(None, x) = x
      BY <2>1, CatNone DEF Strings
    <3> QED
      BY <3>1, <3>2
  <2>3. toRadio' = u
    <3>1. Cat(toRadio, Cat(One(END), x)) = Cat(t, x)
      BY <1>2, <1>8, <1>9, <2>1, CatThree DEF Strings
    <3> QED
      BY <1>3, <2>1, <3>1
  <2>4. LastWaits'
    <3>1. writes' = Add(writes, w) /\ ~WrittenWhole(w) /\ writes \in Seq(Written) /\ w \in Written
      BY <1>2, <1>3, <1>5, <1>11
    <3>2. decode(After(toRadio')) = Truncated(w)
      BY <1>5, <2>1, <2>2, <2>3
    <3>3. Full(Heard(toRadio')) = Full(Told(writes))
      BY <1>6, <2>2, <2>3
    <3>4. \E ws \in Seq(Written), v \in Written :
            /\ writes' = Add(ws, v) /\ ~WrittenWhole(v)
            /\ decode(After(toRadio')) = Truncated(v)
            /\ Full(Heard(toRadio')) = Full(Told(ws))
      BY <3>1, <3>2, <3>3
    <3> QED
      BY <3>4 DEF LastWaits
  <2>5. \A k \in DOMAIN writes' : WrittenWhole(writes'[k]) => Truncated(writes'[k]) = writes'[k].msg
    <3> SUFFICES ASSUME NEW k \in DOMAIN writes', WrittenWhole(writes'[k])
                 PROVE  Truncated(writes'[k]) = writes'[k].msg
      OBVIOUS
    <3>1. CASE k \in 1..Len(writes)
      BY <1>7, <3>1 DEF HeardInv
    <3>2. CASE k = Len(writes) + 1
      BY <1>5, <1>7, <1>11, <3>2
    <3> QED
      BY <1>7, <3>1, <3>2
  <2> QED
    BY <1>7, <2>2, <2>3, <2>4, <2>5 DEF HeardInv
<1> QED
  BY <1>10, <1>11

(* Every step. *)
LEMMA StepHeard == HeardInv /\ [Next]_vars => HeardInv'
<1> SUFFICES ASSUME HeardInv, [Next]_vars PROVE HeardInv'
  OBVIOUS
<1>1. CASE Transmit \/ Lose \/ ReadSome \/ HandleMessage \/ Finished \/ UNCHANGED vars
  <2>1. toRadio' = toRadio /\ writes' = writes
    BY <1>1 DEF Transmit, Lose, ReadSome, HandleMessage, Finished, vars, sendVars
  <2> QED
    BY <2>1 DEF HeardInv, AllHeard, LastWaits
<1> QED
  BY <1>1, SendHeard DEF Next

(* Only a frame that was cut short is not heard as it was sent. *)
LEMMA HeardMeans == ASSUME HeardInv PROVE ShortWriteSpoilsOneFrame
<1>1. writes \in Seq(Written) /\ DOMAIN writes = 1..Len(writes) /\ Len(writes) \in Nat
  BY DEF HeardInv
<1> DEFINE l == Len(writes)
           ended == EndedWrites
<1>2. Full(Heard(toRadio)) = Full(Told(ended)) /\ DOMAIN ended = 1..Len(ended)
  <2>1. CASE AllHeard
    <3>1. l > 0 => WrittenWhole(writes[l])
      BY <1>1, <2>1 DEF AllHeard
    <3>2. ended = writes
      BY <3>1 DEF EndedWrites
    <3> QED
      BY <1>1, <2>1, <3>2 DEF AllHeard
  <2>2. CASE LastWaits
    <3>1. PICK ws \in Seq(Written), w \in Written :
            /\ writes = Add(ws, w) /\ ~WrittenWhole(w)
            /\ Full(Heard(toRadio)) = Full(Told(ws))
      BY <2>2 DEF LastWaits
    <3>2. l = Len(ws) + 1 /\ Len(ws) \in Nat /\ writes[l] = w
      BY <3>1 DEF Add
    <3>3. SubSeq(writes, 1, l - 1) = ws
      <4> DEFINE p == SubSeq(writes, 1, l - 1)
      <4>1. l - 1 = Len(ws) /\ \A i \in 1..Len(ws) : writes[i] = ws[i]
        BY <3>1, <3>2 DEF Add
      <4>2. p \in Seq(Written) /\ Len(p) = l - 1 /\ \A i \in 1..(l - 1) : p[i] = writes[i]
        BY <1>1, <3>2
      <4> HIDE DEF p, l
      <4>3. p = ws
        BY <4>1, <4>2, SeqEqual
      <4> QED
        BY <4>3 DEF p
    <3>4. ended = ws
      BY <3>1, <3>2, <3>3 DEF EndedWrites
    <3> HIDE DEF ended
    <3>5. DOMAIN ws = 1..Len(ws)
      OBVIOUS
    <3> QED
      BY <3>1, <3>4, <3>5
  <2> QED
    BY <2>1, <2>2 DEF HeardInv
<1>3. Only(Heard(toRadio), NonEmpty)
        = Only([k \in DOMAIN EndedWrites |-> Truncated(EndedWrites[k])], NonEmpty)
  BY <1>2 DEF Full, Told
<1> QED
  BY <1>3 DEF HeardInv, ShortWriteSpoilsOneFrame

(* The inductive invariant of the sending side. *)
THEOREM HeardInductive == Spec => []HeardInv
  BY InitHeard, StepHeard, PTL DEF Spec

(* send() ignores how much of a frame was written: an incomplete write       *)
(* spoils its own frame and no other, for any bytes and any number of frames.*)
THEOREM OneFrameSpoilt == Spec => []ShortWriteSpoilsOneFrame
  BY HeardInductive, HeardMeans, PTL
=============================================================================
