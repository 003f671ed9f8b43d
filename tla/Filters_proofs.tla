--------------------------- MODULE Filters_proofs ---------------------------
(* Induction over numbers and over sequences, in a form that needs no        *)
(* operator as a parameter, and what follows for Only() and Joined().        *)
EXTENDS Filters, SequenceTheorems, WellFoundedInduction, TLAPS

(* Every set of numbers that is not empty has a least member. *)
LEMMA LeastNumber ==
  ASSUME NEW T \in SUBSET Nat, T # {}
  PROVE  \E x \in T : \A y \in T : x <= y
<1> DEFINE R == OpToRel(<, Nat)
<1>1. IsWellFoundedOn(R, Nat)
  BY NatLessThanWellFounded
<1>2. \A x, y \in Nat : <<y, x>> \in R <=> y < x
  BY DEF OpToRel
<1> HIDE DEF R
<1>3. PICK x \in T : \A y \in T : <<y, x>> \notin R
  BY <1>1, WFMin
<1>4. ASSUME NEW y \in T PROVE x <= y
  <2>1. x \in Nat /\ y \in Nat
    OBVIOUS
  <2>2. ~(y < x)
    BY <1>2, <1>3, <2>1
  <2> QED
    BY <2>1, <2>2
<1> QED
  BY <1>4

(* Induction over the numbers: a set that holds 0 and with n also n + 1.     *)
LEMMA NumberInduction ==
  ASSUME NEW G, 0 \in G, \A n \in Nat : n \in G => n + 1 \in G
  PROVE  Nat \subseteq G
<1> SUFFICES ASSUME Nat \ G # {} PROVE FALSE
  OBVIOUS
<1>1. PICK n \in Nat \ G : \A m \in Nat \ G : n <= m
  <2>1. Nat \ G \in SUBSET Nat
    OBVIOUS
  <2> QED
    BY <2>1, LeastNumber
<1>2. n # 0
  OBVIOUS
<1>3. n - 1 \in Nat
  BY <1>2
<1>4. n - 1 \in G
  BY <1>1, <1>3
<1>5. (n - 1) + 1 \in G
  BY <1>3, <1>4
<1>6. (n - 1) + 1 = n
  OBVIOUS
<1> QED
  BY <1>5, <1>6

(* Induction over sequences: what holds of the empty one, and of a sequence  *)
(* with one more member at its end, holds of all.                            *)
LEMMA SequenceInduction ==
  ASSUME NEW S, NEW G, <<>> \in G,
         \A s \in Seq(S) : s \in G => \A x \in S : Append(s, x) \in G
  PROVE  Seq(S) \subseteq G
<1> DEFINE L == {n \in Nat : \A s \in Seq(S) : Len(s) = n => s \in G}
<1>1. 0 \in L
  OBVIOUS
<1>2. ASSUME NEW n \in Nat, n \in L PROVE n + 1 \in L
  <2> SUFFICES ASSUME NEW s \in Seq(S), Len(s) = n + 1 PROVE s \in G
    OBVIOUS
  <2> DEFINE t == SubSeq(s, 1, n)
             x == s[n + 1]
  <2>1. t \in Seq(S) /\ Len(t) = n /\ x \in S /\ s = Append(t, x)
    OBVIOUS
  <2>2. t \in G
    BY <1>2, <2>1
  <2> HIDE DEF t, x
  <2> QED
    BY <2>1, <2>2
<1> HIDE DEF L
<1>3. Nat \subseteq L
  BY <1>1, <1>2, NumberInduction
<1> QED
  BY <1>3 DEF L

-----------------------------------------------------------------------------
(* f is the table of what Only() keeps of the prefixes of s.                 *)
Keeps(f, s, T) ==
  f = [n \in 0..Len(s) |->
         IF n = 0 THEN <<>>
         ELSE IF s[n] \in T THEN Append(f[n - 1], s[n])
         ELSE f[n - 1]]

(* Its entries. *)
LEMMA KeepsEntries ==
  ASSUME NEW S, NEW s \in Seq(S), NEW T, NEW f, Keeps(f, s, T)
  PROVE  /\ f[0] = <<>>
         /\ \A n \in 1..Len(s) :
              f[n] = IF s[n] \in T THEN Append(f[n - 1], s[n]) ELSE f[n - 1]
<1> DEFINE h == [n \in 0..Len(s) |->
                   IF n = 0 THEN <<>>
                   ELSE IF s[n] \in T THEN Append(f[n - 1], s[n])
                   ELSE f[n - 1]]
<1>1. f = h
  BY DEF Keeps
<1>2. h[0] = <<>>
  OBVIOUS
<1>3. ASSUME NEW n \in 1..Len(s)
      PROVE  h[n] = IF s[n] \in T THEN Append(f[n - 1], s[n]) ELSE f[n - 1]
  OBVIOUS
<1> HIDE DEF h
<1> QED
  BY <1>1, <1>2, <1>3

(* No two tables for the same sequence. *)
LEMMA KeepsUnique ==
  ASSUME NEW S, NEW s \in Seq(S), NEW T, NEW f, NEW g, Keeps(f, s, T), Keeps(g, s, T)
  PROVE  f = g
<1>1. Len(s) \in Nat
  OBVIOUS
<1>2. DOMAIN f = 0..Len(s) /\ DOMAIN g = 0..Len(s)
  BY DEF Keeps
<1> DEFINE Same == {n \in Nat : n \in 0..Len(s) => f[n] = g[n]}
<1>3. 0 \in Same
  BY <1>1 DEF Keeps
<1>4. ASSUME NEW n \in Nat, n \in Same PROVE n + 1 \in Same
  <2> SUFFICES ASSUME n + 1 \in 0..Len(s) PROVE f[n + 1] = g[n + 1]
    OBVIOUS
  <2>1. f[n] = g[n] /\ n + 1 # 0 /\ (n + 1) - 1 = n
    BY <1>1, <1>4
  <2>2. f[n + 1] = IF s[n + 1] \in T THEN Append(f[n], s[n + 1]) ELSE f[n]
    BY <2>1 DEF Keeps
  <2>3. g[n + 1] = IF s[n + 1] \in T THEN Append(g[n], s[n + 1]) ELSE g[n]
    BY <2>1 DEF Keeps
  <2> QED
    BY <2>1, <2>2, <2>3
<1> HIDE DEF Same
<1>5. Nat \subseteq Same
  BY <1>3, <1>4, NumberInduction
<1>6. \A n \in 0..Len(s) : f[n] = g[n]
  BY <1>1, <1>5 DEF Same
<1>7. f = [n \in 0..Len(s) |-> f[n]] /\ g = [n \in 0..Len(s) |-> g[n]]
  BY DEF Keeps
<1> QED
  BY <1>6, <1>7

(* The table for one member more. *)
LEMMA KeepsAppend ==
  ASSUME NEW S, NEW s \in Seq(S), NEW x \in S, NEW T, NEW f, Keeps(f, s, T)
  PROVE  \E g : /\ Keeps(g, Append(s, x), T)
                /\ g[Len(s) + 1] = IF x \in T THEN Append(f[Len(s)], x) ELSE f[Len(s)]
<1> DEFINE l == Len(s)
           last == IF x \in T THEN Append(f[l], x) ELSE f[l]
           g == [n \in 0..(l + 1) |-> IF n = l + 1 THEN last ELSE f[n]]
           u == Append(s, x)
<1>1. l \in Nat /\ Len(u) = l + 1 /\ u[l + 1] = x
  OBVIOUS
<1>2. \A n \in 1..l : u[n] = s[n]
  OBVIOUS
<1> HIDE DEF u
<1>3. g[l + 1] = last
  BY <1>1
<1>4. \A n \in 0..l : g[n] = f[n]
  BY <1>1
<1>5. /\ f[0] = <<>>
      /\ \A n \in 1..l : f[n] = IF s[n] \in T THEN Append(f[n - 1], s[n]) ELSE f[n - 1]
  BY KeepsEntries
<1> HIDE DEF l
<1> DEFINE h == [n \in 0..Len(u) |-> IF n = 0 THEN <<>> ELSE IF u[n] \in T THEN Append(g[n - 1], u[n])
                          ELSE g[n - 1]]
<1>6. ASSUME NEW n \in 0..(l + 1) PROVE g[n] = h[n]
  <2>0. h[n] = IF n = 0 THEN <<>> ELSE IF u[n] \in T THEN Append(g[n - 1], u[n]) ELSE g[n - 1]
    BY <1>1
  <2> HIDE DEF g, h
  <2>1. CASE n = 0
    <3>1. f[0] = <<>> /\ g[0] = f[0]
      BY <1>1, <1>4, <1>5
    <3> QED
      BY <2>0, <2>1, <3>1
  <2>2. CASE n \in 1..l
    <3>1. u[n] = s[n] /\ g[n] = f[n] /\ g[n - 1] = f[n - 1] /\ n # 0
      BY <1>1, <1>2, <1>4, <2>2
    <3>2. f[n] = IF s[n] \in T THEN Append(f[n - 1], s[n]) ELSE f[n - 1]
      BY <1>1, <1>5, <2>2
    <3> QED
      BY <2>0, <3>1, <3>2
  <2>3. CASE n = l + 1
    <3>1. n - 1 = l /\ n # 0 /\ g[l] = f[l]
      BY <1>1, <1>4, <2>3
    <3> QED
      BY <1>1, <1>3, <2>0, <2>3, <3>1
  <2> QED
    BY <1>1, <2>1, <2>2, <2>3
<1>7. g = h
  <2>1. DOMAIN g = 0..(l + 1) /\ DOMAIN h = 0..(l + 1)
    BY <1>1
  <2>2. g = [n \in 0..(l + 1) |-> g[n]] /\ h = [n \in 0..(l + 1) |-> h[n]]
    BY <1>1
  <2> HIDE DEF g, h
  <2> QED
    BY <1>6, <2>2
<1>8. Keeps(g, u, T)
  <2> HIDE DEF g
  <2> QED
    BY <1>7 DEF Keeps
<1> QED
  BY <1>3, <1>8 DEF l, u

(* There is a table for every sequence. *)
LEMMA KeepsExists ==
  ASSUME NEW S, NEW s \in Seq(S), NEW T
  PROVE  \E f : Keeps(f, s, T)
<1> DEFINE G == {t \in Seq(S) : \E f : Keeps(f, t, T)}
<1>1. <<>> \in G
  <2>1. Keeps([n \in {0} |-> <<>>], <<>>, T)
    BY DEF Keeps
  <2> QED
    BY <2>1
<1>2. ASSUME NEW t \in Seq(S), t \in G, NEW x \in S PROVE Append(t, x) \in G
  BY <1>2, KeepsAppend
<1> HIDE DEF G
<1>3. Seq(S) \subseteq G
  BY <1>1, <1>2, SequenceInduction
<1> QED
  BY <1>3 DEF G

(* Only() is the last entry of the table. *)
LEMMA OnlyKeeps ==
  ASSUME NEW S, NEW s \in Seq(S), NEW T, NEW f, Keeps(f, s, T)
  PROVE  Only(s, T) = f[Len(s)]
<1> DEFINE g == CHOOSE h : Keeps(h, s, T)
<1>1. Keeps(g, s, T)
  OBVIOUS
<1>2. Only(s, T) = g[Len(s)]
  BY DEF Only, Keeps
<1> HIDE DEF g
<1> QED
  BY <1>1, <1>2, KeepsUnique

-----------------------------------------------------------------------------
(* Elementary facts about sequences, for sequences given by any expression.  *)
LEMMA EmptyIsSeq == ASSUME NEW S PROVE <<>> \in Seq(S)
  OBVIOUS

(* One member more. *)
LEMMA AppendIsSeq ==
  ASSUME NEW S, NEW s \in Seq(S), NEW x \in S
  PROVE  /\ Append(s, x) \in Seq(S)
         /\ Append(s, x) = s \o <<x>>
         /\ <<x>> \in Seq(S)
         /\ Append(s, x) # <<>>
  OBVIOUS

(* Append() as a function. *)
LEMMA AppendAsFunction ==
  ASSUME NEW S, NEW s \in Seq(S), NEW x \in S
  PROVE  Append(s, x) = [k \in 1..(Len(s) + 1) |-> IF k = Len(s) + 1 THEN x ELSE s[k]]
<1> DEFINE t == Append(s, x)
<1>1. /\ t \in Seq(S) /\ Len(t) = Len(s) + 1 /\ Len(s) \in Nat
      /\ \A i \in 1..Len(s) : t[i] = s[i]
      /\ t[Len(s) + 1] = x
  BY AppendProperties
<1> HIDE DEF t
<1>2. t = [k \in 1..Len(t) |-> t[k]]
  BY <1>1
<1> QED
  BY <1>1, <1>2 DEF t

(* Sequences one after the other. *)
LEMMA ConcatIsSeq ==
  ASSUME NEW S, NEW s \in Seq(S), NEW t \in Seq(S)
  PROVE  s \o t \in Seq(S) /\ s \o <<>> = s /\ <<>> \o s = s
  OBVIOUS

(* The order in which they are put together does not matter. *)
LEMMA ConcatThree ==
  ASSUME NEW S, NEW s \in Seq(S), NEW t \in Seq(S), NEW u \in Seq(S)
  PROVE  (s \o t) \o u = s \o (t \o u)
  OBVIOUS

(* A member is added to the last of them. *)
LEMMA AppendConcat ==
  ASSUME NEW S, NEW s \in Seq(S), NEW t \in Seq(S), NEW x \in S
  PROVE  s \o Append(t, x) = Append(s \o t, x)
  OBVIOUS

(* The first member and the rest. *)
LEMMA HeadTail ==
  ASSUME NEW S, NEW s \in Seq(S), s # <<>>
  PROVE  /\ Head(s) \in S /\ Tail(s) \in Seq(S)
         /\ s = <<Head(s)>> \o Tail(s)
  OBVIOUS

(* Nothing comes of nothing. *)
LEMMA OnlyEmpty == ASSUME NEW T PROVE Only(<<>>, T) = <<>>
<1> DEFINE f == [n \in {0} |-> <<>>]
<1>1. Keeps(f, <<>>, T)
  BY DEF Keeps
<1>2. <<>> \in Seq({}) /\ Len(<<>>) = 0 /\ f[0] = <<>>
  OBVIOUS
<1> HIDE DEF f
<1> QED
  BY <1>1, <1>2, OnlyKeeps

(* One member more at the end. *)
LEMMA OnlyAppend ==
  ASSUME NEW S, NEW s \in Seq(S), NEW x \in S, NEW T
  PROVE  Only(Append(s, x), T) = IF x \in T THEN Append(Only(s, T), x) ELSE Only(s, T)
<1>1. PICK f : Keeps(f, s, T)
  BY KeepsExists
<1>2. PICK g : /\ Keeps(g, Append(s, x), T)
               /\ g[Len(s) + 1] = IF x \in T THEN Append(f[Len(s)], x) ELSE f[Len(s)]
  BY <1>1, KeepsAppend
<1>3. Only(s, T) = f[Len(s)]
  BY <1>1, OnlyKeeps
<1>4. Append(s, x) \in Seq(S) /\ Len(Append(s, x)) = Len(s) + 1
  OBVIOUS
<1>5. Only(Append(s, x), T) = g[Len(s) + 1]
  BY <1>2, <1>4, OnlyKeeps
<1> QED
  BY <1>2, <1>3, <1>5

(* What is kept is a sequence of members of both sets. *)
LEMMA OnlyType ==
  ASSUME NEW S, NEW s \in Seq(S), NEW T
  PROVE  Only(s, T) \in Seq(S \cap T)
<1> DEFINE U == S \cap T
           G == {t \in Seq(S) : Only(t, T) \in Seq(U)}
<1>0. \A x \in S : x \in T => x \in U
  OBVIOUS
<1> HIDE DEF U
<1>1. <<>> \in G
  BY OnlyEmpty, EmptyIsSeq
<1>2. ASSUME NEW t \in Seq(S), t \in G, NEW x \in S PROVE Append(t, x) \in G
  <2>1. Only(Append(t, x), T) = IF x \in T THEN Append(Only(t, T), x) ELSE Only(t, T)
    BY OnlyAppend
  <2>2. Only(t, T) \in Seq(U) /\ Append(t, x) \in Seq(S)
    BY <1>2, AppendIsSeq
  <2>3. x \in T => Append(Only(t, T), x) \in Seq(U)
    BY <1>0, <2>2, AppendIsSeq
  <2> QED
    BY <2>1, <2>2, <2>3
<1> HIDE DEF G
<1>3. Seq(S) \subseteq G
  BY <1>1, <1>2, SequenceInduction
<1> QED
  BY <1>3 DEF G, U

(* In particular of the one it is kept from. *)
LEMMA OnlySeq ==
  ASSUME NEW S, NEW s \in Seq(S), NEW T
  PROVE  Only(s, T) \in Seq(S)
<1>1. S \cap T \subseteq S
  OBVIOUS
<1> QED
  BY <1>1, OnlyType, SeqMonotonic

(* Two sequences one after the other. *)
LEMMA OnlyConcat ==
  ASSUME NEW S, NEW s \in Seq(S), NEW t \in Seq(S), NEW T
  PROVE  Only(s \o t, T) = Only(s, T) \o Only(t, T)
<1> DEFINE G == {r \in Seq(S) : Only(s \o r, T) = Only(s, T) \o Only(r, T)}
<1>1. <<>> \in G
  <2>1. s \o <<>> = s /\ <<>> \in Seq(S)
    BY EmptyIsSeq, ConcatIsSeq
  <2>2. Only(s, T) \o <<>> = Only(s, T)
    BY OnlySeq, ConcatIsSeq
  <2>3. Only(<<>>, T) = <<>>
    BY OnlyEmpty
  <2> QED
    BY <2>1, <2>2, <2>3
<1>2. ASSUME NEW r \in Seq(S), r \in G, NEW x \in S PROVE Append(r, x) \in G
  <2>1. /\ s \o r \in Seq(S) /\ s \o Append(r, x) = Append(s \o r, x)
        /\ Append(r, x) \in Seq(S)
    BY AppendIsSeq, ConcatIsSeq, AppendConcat
  <2>2. Only(Append(s \o r, x), T) = IF x \in T THEN Append(Only(s \o r, T), x)
                                    ELSE Only(s \o r, T)
    BY <2>1, OnlyAppend
  <2>3. Only(Append(r, x), T) = IF x \in T THEN Append(Only(r, T), x) ELSE Only(r, T)
    BY OnlyAppend
  <2>4. Only(s, T) \in Seq(S) /\ Only(r, T) \in Seq(S)
    BY OnlySeq
  <2>5. Append(Only(s, T) \o Only(r, T), x) = Only(s, T) \o Append(Only(r, T), x)
    <3> DEFINE a == Only(s, T)
               b == Only(r, T)
    <3>1. a \in Seq(S) /\ b \in Seq(S)
      BY <2>4
    <3> HIDE DEF a, b
    <3>2. a \o Append(b, x) = Append(a \o b, x)
      BY <3>1, AppendConcat
    <3> QED
      BY <3>2 DEF a, b
  <2>6. Only(s \o r, T) = Only(s, T) \o Only(r, T)
    BY <1>2
  <2>7. Only(s \o Append(r, x), T) = Only(s, T) \o Only(Append(r, x), T)
    <3>1. CASE x \in T
      BY <2>1, <2>2, <2>3, <2>5, <2>6, <3>1, Zenon
    <3>2. CASE x \notin T
      BY <2>1, <2>2, <2>3, <2>6, <3>2, Zenon
    <3> QED
      BY <3>1, <3>2
  <2> QED
    BY <2>1, <2>7
<1> HIDE DEF G
<1>3. Seq(S) \subseteq G
  BY <1>1, <1>2, SequenceInduction
<1> QED
  BY <1>3 DEF G

(* A sequence of one member. *)
LEMMA OnlyOne ==
  ASSUME NEW x, NEW T
  PROVE  Only(<<x>>, T) = IF x \in T THEN <<x>> ELSE <<>>
<1> DEFINE none == <<>>
           S == {x}
<1>1. none \in Seq(S) /\ x \in S /\ Append(none, x) = <<x>> /\ Only(none, T) = none
  BY OnlyEmpty
<1> HIDE DEF none, S
<1>2. Only(Append(none, x), T) = IF x \in T THEN Append(Only(none, T), x) ELSE Only(none, T)
  BY <1>1, OnlyAppend
<1> QED
  BY <1>1, <1>2 DEF none

(* The first member, then the rest. *)
LEMMA OnlyHead ==
  ASSUME NEW S, NEW s \in Seq(S), s # <<>>, NEW T
  PROVE  Only(s, T) = Only(<<Head(s)>>, T) \o Only(Tail(s), T)
<1> DEFINE first == <<Head(s)>>
           rest == Tail(s)
<1>1. first \in Seq(S) /\ rest \in Seq(S) /\ s = first \o rest
  BY HeadTail, AppendIsSeq
<1> HIDE DEF first, rest
<1>2. Only(first \o rest, T) = Only(first, T) \o Only(rest, T)
  BY <1>1, OnlyConcat
<1> QED
  BY <1>1, <1>2 DEF first, rest

(* What belongs to the set as a whole is kept as a whole. *)
LEMMA OnlyAll ==
  ASSUME NEW S, NEW s \in Seq(S), NEW T, S \subseteq T
  PROVE  Only(s, T) = s
<1> DEFINE G == {t \in Seq(S) : Only(t, T) = t}
<1>1. <<>> \in G
  BY OnlyEmpty
<1>2. ASSUME NEW t \in Seq(S), t \in G, NEW x \in S PROVE Append(t, x) \in G
  BY <1>2, OnlyAppend
<1> HIDE DEF G
<1>3. Seq(S) \subseteq G
  BY <1>1, <1>2, SequenceInduction
<1> QED
  BY <1>3 DEF G

(* Nothing is kept of what does not. *)
LEMMA OnlyNone ==
  ASSUME NEW S, NEW s \in Seq(S), NEW T, S \cap T = {}
  PROVE  Only(s, T) = <<>>
<1>1. Only(s, T) \in Seq({})
  BY OnlyType
<1>2. \A u \in Seq({}) : u = <<>>
  OBVIOUS
<1> QED
  BY <1>1, <1>2

(* Keeping twice is keeping what belongs to both sets. *)
LEMMA OnlyOnly ==
  ASSUME NEW S, NEW s \in Seq(S), NEW N, NEW T
  PROVE  Only(Only(s, N), T) = Only(s, N \cap T)
<1> DEFINE G == {t \in Seq(S) : Only(Only(t, N), T) = Only(t, N \cap T)}
<1>1. <<>> \in G
  BY OnlyEmpty
<1>2. ASSUME NEW t \in Seq(S), t \in G, NEW x \in S PROVE Append(t, x) \in G
  <2>1. Only(Append(t, x), N) = IF x \in N THEN Append(Only(t, N), x) ELSE Only(t, N)
    BY OnlyAppend
  <2>2. Only(Append(t, x), N \cap T) = IF x \in N \cap T THEN Append(Only(t, N \cap T), x)
                                      ELSE Only(t, N \cap T)
    BY OnlyAppend
  <2>3. Only(Append(Only(t, N), x), T)
          = IF x \in T THEN Append(Only(Only(t, N), T), x) ELSE Only(Only(t, N), T)
    BY OnlySeq, OnlyAppend
  <2>4. Only(Only(t, N), T) = Only(t, N \cap T) /\ Append(t, x) \in Seq(S)
    BY <1>2, AppendIsSeq
  <2>5. x \in N \cap T <=> x \in N /\ x \in T
    OBVIOUS
  <2>6. Only(Only(Append(t, x), N), T) = Only(Append(t, x), N \cap T)
    <3>1. CASE x \in N /\ x \in T
      BY <2>1, <2>2, <2>3, <2>4, <2>5, <3>1, Zenon
    <3>2. CASE x \in N /\ x \notin T
      BY <2>1, <2>2, <2>3, <2>4, <2>5, <3>2, Zenon
    <3>3. CASE x \notin N
      BY <2>1, <2>2, <2>4, <2>5, <3>3, Zenon
    <3> QED
      BY <3>1, <3>2, <3>3
  <2> QED
    BY <2>4, <2>6
<1> HIDE DEF G
<1>3. Seq(S) \subseteq G
  BY <1>1, <1>2, SequenceInduction
<1> QED
  BY <1>3 DEF G
-----------------------------------------------------------------------------
(* Sequences as words.  The SMT translation writes the operators on sequences *)
(* out as functions, and then no longer finds the instance of a lemma about  *)
(* them; under a name of their own they stay as they are.                    *)
None == <<>>
One(x) == <<x>>
Add(s, x) == Append(s, x)
Cat(s, t) == s \o t
Rest(s) == Tail(s)

(* They are sequences. *)
LEMMA WordsTyped ==
  ASSUME NEW S, NEW s \in Seq(S), NEW t \in Seq(S), NEW x \in S
  PROVE  /\ None \in Seq(S) /\ One(x) \in Seq(S)
         /\ Add(s, x) \in Seq(S) /\ Cat(s, t) \in Seq(S)
<1>1. None \in Seq(S)
  BY DEF None
<1>2. One(x) \in Seq(S)
  BY DEF One
<1>3. Add(s, x) \in Seq(S)
  BY DEF Add
<1>4. Cat(s, t) \in Seq(S)
  BY DEF Cat
<1> QED
  BY <1>1, <1>2, <1>3, <1>4

(* Concatenation is associative, and nothing is its unit. *)
LEMMA CatThree ==
  ASSUME NEW S, NEW s \in Seq(S), NEW t \in Seq(S), NEW u \in Seq(S)
  PROVE  Cat(Cat(s, t), u) = Cat(s, Cat(t, u))
  BY DEF Cat

(* Nothing is the unit of concatenation. *)
LEMMA CatNone ==
  ASSUME NEW S, NEW s \in Seq(S)
  PROVE  Cat(s, None) = s /\ Cat(None, s) = s
  BY DEF Cat, None

(* To add a member is to concatenate one. *)
LEMMA AddOne ==
  ASSUME NEW S, NEW s \in Seq(S), NEW x \in S
  PROVE  Add(s, x) = Cat(s, One(x))
  BY DEF Add, Cat, One

(* What is not nothing has a first member and a rest. *)
LEMMA FirstRest ==
  ASSUME NEW S, NEW s \in Seq(S), s # None
  PROVE  /\ Head(s) \in S /\ Rest(s) \in Seq(S) /\ One(Head(s)) \in Seq(S)
         /\ s = Cat(One(Head(s)), Rest(s))
<1>1. s # <<>>
  BY DEF None
<1>2. Head(s) \in S /\ Rest(s) \in Seq(S)
  BY <1>1 DEF Rest
<1>4. One(Head(s)) \in Seq(S)
  BY <1>2 DEF One
<1>3. s = Cat(One(Head(s)), Rest(s))
  BY <1>1 DEF Cat, One, Rest
<1> QED
  BY <1>2, <1>3, <1>4

(* Only() of words. *)
LEMMA OnlyNothing == ASSUME NEW T PROVE Only(None, T) = None
  BY OnlyEmpty DEF None

(* Of one member. *)
LEMMA OnlySingle ==
  ASSUME NEW x, NEW T
  PROVE  (x \in T => Only(One(x), T) = One(x)) /\ (x \notin T => Only(One(x), T) = None)
  BY OnlyOne DEF One, None

(* Of two words. *)
LEMMA OnlyCat ==
  ASSUME NEW S, NEW s \in Seq(S), NEW t \in Seq(S), NEW T
  PROVE  Only(Cat(s, t), T) = Cat(Only(s, T), Only(t, T))
  BY OnlyConcat DEF Cat

(* Of one member more. *)
LEMMA OnlyAdd ==
  ASSUME NEW S, NEW s \in Seq(S), NEW x \in S, NEW T
  PROVE  Only(Add(s, x), T) = Cat(Only(s, T), Only(One(x), T))
<1>1. One(x) \in Seq(S)
  BY DEF One
<1> QED
  BY <1>1, AddOne, OnlyCat

-----------------------------------------------------------------------------
(* f is the table of the prefixes of ss, joined. *)
Joins(f, ss) ==
  f = [n \in 0..Len(ss) |-> IF n = 0 THEN <<>> ELSE f[n - 1] \o ss[n]]

(* Its entries. *)
LEMMA JoinsEntries ==
  ASSUME NEW S, NEW ss \in Seq(S), NEW f, Joins(f, ss)
  PROVE  /\ f[0] = <<>>
         /\ \A n \in 1..Len(ss) : f[n] = f[n - 1] \o ss[n]
<1> DEFINE h == [n \in 0..Len(ss) |-> IF n = 0 THEN <<>> ELSE f[n - 1] \o ss[n]]
<1>1. f = h
  BY DEF Joins
<1>2. h[0] = <<>>
  OBVIOUS
<1>3. ASSUME NEW n \in 1..Len(ss) PROVE h[n] = f[n - 1] \o ss[n]
  OBVIOUS
<1> HIDE DEF h
<1> QED
  BY <1>1, <1>2, <1>3

(* No two tables for the same sequences. *)
LEMMA JoinsUnique ==
  ASSUME NEW S, NEW ss \in Seq(S), NEW f, NEW g, Joins(f, ss), Joins(g, ss)
  PROVE  f = g
<1>1. Len(ss) \in Nat
  OBVIOUS
<1> DEFINE Same == {n \in Nat : n \in 0..Len(ss) => f[n] = g[n]}
<1>2. /\ f[0] = <<>> /\ g[0] = <<>>
      /\ \A n \in 1..Len(ss) : f[n] = f[n - 1] \o ss[n]
      /\ \A n \in 1..Len(ss) : g[n] = g[n - 1] \o ss[n]
  BY JoinsEntries
<1>3. 0 \in Same
  BY <1>1, <1>2
<1>4. ASSUME NEW n \in Nat, n \in Same PROVE n + 1 \in Same
  <2> SUFFICES ASSUME n + 1 \in 0..Len(ss) PROVE f[n + 1] = g[n + 1]
    OBVIOUS
  <2>1. f[n] = g[n] /\ n + 1 \in 1..Len(ss) /\ (n + 1) - 1 = n
    BY <1>1, <1>4
  <2>2. f[n + 1] = f[n] \o ss[n + 1]
    BY <1>2, <2>1
  <2>3. g[n + 1] = g[n] \o ss[n + 1]
    BY <1>2, <2>1
  <2> QED
    BY <2>1, <2>2, <2>3
<1> HIDE DEF Same
<1>5. Nat \subseteq Same
  BY <1>3, <1>4, NumberInduction
<1>6. \A n \in 0..Len(ss) : f[n] = g[n]
  BY <1>1, <1>5 DEF Same
<1>7. f = [n \in 0..Len(ss) |-> f[n]] /\ g = [n \in 0..Len(ss) |-> g[n]]
  BY DEF Joins
<1> QED
  BY <1>6, <1>7

(* The table for one sequence more. *)
LEMMA JoinsAppend ==
  ASSUME NEW S, NEW ss \in Seq(S), NEW x \in S, NEW f, Joins(f, ss)
  PROVE  \E g : /\ Joins(g, Append(ss, x))
                /\ g[Len(ss) + 1] = f[Len(ss)] \o x
<1> DEFINE l == Len(ss)
           last == f[l] \o x
           g == [n \in 0..(l + 1) |-> IF n = l + 1 THEN last ELSE f[n]]
           u == Append(ss, x)
<1>1. l \in Nat /\ Len(u) = l + 1 /\ u[l + 1] = x
  OBVIOUS
<1>2. \A n \in 1..l : u[n] = ss[n]
  OBVIOUS
<1> HIDE DEF u
<1>3. g[l + 1] = last
  BY <1>1
<1>4. \A n \in 0..l : g[n] = f[n]
  BY <1>1
<1>5. f[0] = <<>> /\ \A n \in 1..l : f[n] = f[n - 1] \o ss[n]
  BY JoinsEntries
<1> HIDE DEF l
<1> DEFINE h == [n \in 0..Len(u) |-> IF n = 0 THEN <<>> ELSE g[n - 1] \o u[n]]
<1>6. ASSUME NEW n \in 0..(l + 1) PROVE g[n] = h[n]
  <2>0. h[n] = IF n = 0 THEN <<>> ELSE g[n - 1] \o u[n]
    BY <1>1
  <2> HIDE DEF g, h
  <2>1. CASE n = 0
    <3>1. f[0] = <<>> /\ g[0] = f[0]
      BY <1>1, <1>4, <1>5
    <3> QED
      BY <2>0, <2>1, <3>1
  <2>2. CASE n \in 1..l
    <3>1. u[n] = ss[n] /\ g[n] = f[n] /\ g[n - 1] = f[n - 1] /\ n # 0
      BY <1>1, <1>2, <1>4, <2>2
    <3>2. f[n] = f[n - 1] \o ss[n]
      BY <1>1, <1>5, <2>2
    <3> QED
      BY <2>0, <3>1, <3>2
  <2>3. CASE n = l + 1
    <3>1. n - 1 = l /\ n # 0 /\ g[l] = f[l]
      BY <1>1, <1>4, <2>3
    <3> QED
      BY <1>1, <1>3, <2>0, <2>3, <3>1
  <2> QED
    BY <1>1, <2>1, <2>2, <2>3
<1>7. g = h
  <2>1. g = [n \in 0..(l + 1) |-> g[n]] /\ h = [n \in 0..(l + 1) |-> h[n]]
    BY <1>1
  <2> HIDE DEF g, h
  <2> QED
    BY <1>6, <2>1
<1>8. Joins(g, u)
  <2> HIDE DEF g
  <2> QED
    BY <1>7 DEF Joins
<1> QED
  BY <1>3, <1>8 DEF l, u

(* There is a table for all sequences. *)
LEMMA JoinsExists ==
  ASSUME NEW S, NEW ss \in Seq(S)
  PROVE  \E f : Joins(f, ss)
<1> DEFINE G == {t \in Seq(S) : \E f : Joins(f, t)}
<1>1. <<>> \in G
  <2>1. Joins([n \in {0} |-> <<>>], <<>>)
    BY DEF Joins
  <2> QED
    BY <2>1
<1>2. ASSUME NEW t \in Seq(S), t \in G, NEW x \in S PROVE Append(t, x) \in G
  BY <1>2, JoinsAppend
<1> HIDE DEF G
<1>3. Seq(S) \subseteq G
  BY <1>1, <1>2, SequenceInduction
<1> QED
  BY <1>3 DEF G

(* Joined() is the last entry of the table. *)
LEMMA JoinedIs ==
  ASSUME NEW S, NEW ss \in Seq(S), NEW f, Joins(f, ss)
  PROVE  Joined(ss) = f[Len(ss)]
<1> DEFINE g == CHOOSE h : Joins(h, ss)
<1>1. Joins(g, ss)
  OBVIOUS
<1>2. Joined(ss) = g[Len(ss)]
  BY DEF Joined, Joins
<1> HIDE DEF g
<1> QED
  BY <1>1, <1>2, JoinsUnique

(* Nothing joined is nothing. *)
LEMMA JoinedEmpty == Joined(<<>>) = <<>>
<1> DEFINE f == [n \in {0} |-> <<>>]
<1>1. Joins(f, <<>>)
  BY DEF Joins
<1>2. <<>> \in Seq({}) /\ Len(<<>>) = 0 /\ f[0] = <<>>
  OBVIOUS
<1> HIDE DEF f
<1> QED
  BY <1>1, <1>2, JoinedIs

(* One sequence more at the end. *)
LEMMA JoinedAppend ==
  ASSUME NEW S, NEW ss \in Seq(S), NEW x \in S
  PROVE  Joined(Append(ss, x)) = Joined(ss) \o x
<1>1. PICK f : Joins(f, ss)
  BY JoinsExists
<1>2. PICK g : /\ Joins(g, Append(ss, x))
               /\ g[Len(ss) + 1] = f[Len(ss)] \o x
  BY <1>1, JoinsAppend
<1>3. Joined(ss) = f[Len(ss)]
  BY <1>1, JoinedIs
<1>4. Append(ss, x) \in Seq(S) /\ Len(Append(ss, x)) = Len(ss) + 1
  OBVIOUS
<1>5. Joined(Append(ss, x)) = g[Len(ss) + 1]
  BY <1>2, <1>4, JoinedIs
<1> QED
  BY <1>2, <1>3, <1>5

(* Sequences over a set, joined, are one over this set. *)
LEMMA JoinedType ==
  ASSUME NEW S, NEW ss \in Seq(Seq(S))
  PROVE  Joined(ss) \in Seq(S)
<1> DEFINE W == Seq(S)
           G == {t \in Seq(W) : Joined(t) \in W}
<1>1. <<>> \in G
  BY JoinedEmpty, EmptyIsSeq
<1>2. ASSUME NEW t \in Seq(W), t \in G, NEW x \in W PROVE Append(t, x) \in G
  <2>1. Joined(Append(t, x)) = Joined(t) \o x
    BY JoinedAppend
  <2>2. Joined(t) \o x \in W
    BY <1>2, ConcatIsSeq
  <2>3. Append(t, x) \in Seq(W)
    BY AppendIsSeq
  <2> QED
    BY <2>1, <2>2, <2>3
<1> HIDE DEF G
<1>3. Seq(W) \subseteq G
  BY <1>1, <1>2, SequenceInduction
<1> QED
  BY <1>3 DEF G

-----------------------------------------------------------------------------
(* The functions that make a sequence over W of every member of S. *)
Tables(S, W) == [S -> Seq(W)]

(* What f makes of each member of s, joined. *)
Each(f, s) == Joined([k \in 1..Len(s) |-> f[s[k]]])

(* Of one member more. *)
LEMMA EachAppend ==
  ASSUME NEW S, NEW W, NEW f \in Tables(S, W), NEW s \in Seq(S), NEW x \in S
  PROVE  /\ Each(f, <<>>) = <<>>
         /\ Each(f, s) \in Seq(W) /\ f[x] \in Seq(W)
         /\ Each(f, Append(s, x)) = Each(f, s) \o f[x]
<1> USE DEF Tables
<1> DEFINE V == Seq(W)
           a == Append(s, x)
           c(t) == [k \in 1..Len(t) |-> f[t[k]]]
<1>1. /\ a \in Seq(S) /\ Len(a) = Len(s) + 1 /\ Len(s) \in Nat
      /\ a[Len(s) + 1] = x /\ \A k \in 1..Len(s) : a[k] = s[k]
  OBVIOUS
<1>2. \A k \in 1..Len(s) : s[k] \in S
  OBVIOUS
<1>3. f[x] \in V /\ \A y \in S : f[y] \in V
  OBVIOUS
<1> HIDE DEF a, V
<1>4. c(s) \in Seq(V) /\ Len(c(s)) = Len(s)
  BY <1>1, <1>2, <1>3
<1>5. c(a) = Append(c(s), f[x]) /\ Joined(Append(c(s), f[x])) = Joined(c(s)) \o f[x]
  <2> DEFINE t == c(s)
             y == f[x]
  <2>1. t \in Seq(V) /\ y \in V /\ Len(t) = Len(s) /\ \A k \in 1..Len(s) : t[k] = f[s[k]]
    BY <1>3, <1>4
  <2>2. c(a) = [k \in 1..(Len(s) + 1) |-> IF k = Len(s) + 1 THEN y ELSE t[k]]
    BY <1>1
  <2> HIDE DEF t, y, c
  <2>3. Append(t, y) = [k \in 1..(Len(t) + 1) |-> IF k = Len(t) + 1 THEN y ELSE t[k]]
    BY <2>1, AppendAsFunction
  <2>4. Joined(Append(t, y)) = Joined(t) \o y
    BY <2>1, JoinedAppend
  <2>5. c(a) = Append(t, y)
    BY <2>1, <2>2, <2>3
  <2> QED
    BY <2>4, <2>5 DEF t, y
<1>6. Joined(c(s)) \in Seq(W)
  <2> DEFINE t == c(s)
  <2>1. t \in Seq(Seq(W))
    BY <1>4 DEF V
  <2> HIDE DEF t
  <2>2. Joined(t) \in Seq(W)
    BY <2>1, JoinedType
  <2> QED
    BY <2>2 DEF t
<1>7. Each(f, <<>>) = <<>>
  <2>1. [k \in 1..Len(<<>>) |-> f[<<>>[k]]] = <<>>
    OBVIOUS
  <2> QED
    BY <2>1, JoinedEmpty DEF Each
<1>8. Each(f, s) = Joined(c(s)) /\ Each(f, a) = Joined(c(a))
  BY DEF Each
<1> QED
  BY <1>5, <1>6, <1>7, <1>8 DEF a

(* As words. *)
LEMMA EachAdd ==
  ASSUME NEW S, NEW W, NEW f \in Tables(S, W), NEW s \in Seq(S), NEW x \in S
  PROVE  /\ Each(f, None) = None
         /\ Each(f, s) \in Seq(W) /\ f[x] \in Seq(W)
         /\ Each(f, Add(s, x)) = Cat(Each(f, s), f[x])
  BY EachAppend DEF None, Add, Cat

(* Without a member more. *)
LEMMA EachOf ==
  ASSUME NEW S, NEW W, NEW f \in Tables(S, W), NEW s \in Seq(S)
  PROVE  /\ Each(f, None) = None
         /\ Each(f, s) \in Seq(W)
<1> DEFINE none == None
<1>1. \A x \in S : Each(f, None) = None /\ Each(f, s) \in Seq(W)
  BY EachAdd
<1>2. CASE S = {}
  <2>1. s = <<>>
    BY <1>2
  <2>2. Each(f, <<>>) = Joined([k \in 1..0 |-> f[<<>>[k]]])
    BY DEF Each
  <2>3. [k \in 1..0 |-> f[<<>>[k]]] = <<>>
    OBVIOUS
  <2> QED
    BY <2>1, <2>2, <2>3, JoinedEmpty, EmptyIsSeq DEF None
<1> QED
  BY <1>1, <1>2

(* A member is added to the second word. *)
LEMMA CatAdd ==
  ASSUME NEW S, NEW s \in Seq(S), NEW t \in Seq(S), NEW x \in S
  PROVE  Cat(s, Add(t, x)) = Add(Cat(s, t), x)
  BY DEF Cat, Add

(* Induction over words. *)
LEMMA WordInduction ==
  ASSUME NEW S, NEW G, None \in G,
         \A s \in Seq(S) : s \in G => \A x \in S : Add(s, x) \in G
  PROVE  Seq(S) \subseteq G
  BY SequenceInduction DEF None, Add

(* Of two words. *)
LEMMA EachCat ==
  ASSUME NEW S, NEW W, NEW f \in Tables(S, W), NEW s \in Seq(S), NEW t \in Seq(S)
  PROVE  Each(f, Cat(s, t)) = Cat(Each(f, s), Each(f, t))
<1> DEFINE G == {u \in Seq(S) : Each(f, Cat(s, u)) = Cat(Each(f, s), Each(f, u))}
<1>1. None \in G
  <2>1. Cat(s, None) = s /\ Each(f, None) = None /\ Each(f, s) \in Seq(W) /\ None \in Seq(S)
    BY CatNone, EachOf, EmptyIsSeq DEF None
  <2>2. Cat(Each(f, s), None) = Each(f, s)
    BY <2>1, CatNone
  <2> QED
    BY <2>1, <2>2
<1>2. ASSUME NEW u \in Seq(S), u \in G, NEW x \in S PROVE Add(u, x) \in G
  <2>1. /\ Cat(s, u) \in Seq(S) /\ Add(u, x) \in Seq(S)
        /\ Cat(s, Add(u, x)) = Add(Cat(s, u), x)
    BY WordsTyped, CatAdd
  <2>2. /\ Each(f, Add(Cat(s, u), x)) = Cat(Each(f, Cat(s, u)), f[x])
        /\ Each(f, Add(u, x)) = Cat(Each(f, u), f[x])
    BY <2>1, EachAdd
  <2>3. Each(f, s) \in Seq(W) /\ Each(f, u) \in Seq(W) /\ f[x] \in Seq(W)
    BY EachAdd
  <2>4. Cat(Cat(Each(f, s), Each(f, u)), f[x]) = Cat(Each(f, s), Cat(Each(f, u), f[x]))
    BY <2>3, CatThree
  <2>5. Each(f, Cat(s, u)) = Cat(Each(f, s), Each(f, u))
    BY <1>2
  <2> QED
    BY <2>1, <2>2, <2>4, <2>5
<1> HIDE DEF G
<1>3. Seq(S) \subseteq G
  BY <1>1, <1>2, WordInduction
<1> QED
  BY <1>3 DEF G

(* Of a word of one member. *)
LEMMA EachOne ==
  ASSUME NEW S, NEW W, NEW f \in Tables(S, W), NEW x \in S
  PROVE  Each(f, One(x)) = f[x]
<1>1. None \in Seq(S) /\ Add(None, x) = One(x)
  BY DEF None, Add, One
<1>2. Each(f, Add(None, x)) = Cat(Each(f, None), f[x]) /\ Each(f, None) = None
  BY <1>1, EachAdd
<1>3. f[x] \in Seq(W)
  BY DEF Tables
<1>4. Cat(None, f[x]) = f[x]
  BY <1>3, CatNone
<1> QED
  BY <1>1, <1>2, <1>4

(* Induction from the front. *)
LEMMA FrontInduction ==
  ASSUME NEW S, NEW G, None \in G,
         \A x \in S : \A s \in Seq(S) : s \in G => Cat(One(x), s) \in G
  PROVE  Seq(S) \subseteq G
<1> DEFINE L == {n \in Nat : \A s \in Seq(S) : Len(s) = n => s \in G}
<1>1. 0 \in L
  <2>1. \A s \in Seq(S) : Len(s) = 0 => s = None
    BY DEF None
  <2> QED
    BY <2>1
<1>2. ASSUME NEW n \in Nat, n \in L PROVE n + 1 \in L
  <2> SUFFICES ASSUME NEW s \in Seq(S), Len(s) = n + 1 PROVE s \in G
    OBVIOUS
  <2>1. s # None
    BY DEF None
  <2> DEFINE x == Head(s)
             r == Rest(s)
  <2>2. x \in S /\ r \in Seq(S) /\ s = Cat(One(x), r)
    BY <2>1, FirstRest
  <2>3. Len(r) = n
    BY <2>1 DEF Rest, None
  <2> HIDE DEF x, r
  <2> QED
    BY <1>2, <2>2, <2>3
<1> HIDE DEF L
<1>3. Nat \subseteq L
  BY <1>1, <1>2, NumberInduction
<1> QED
  BY <1>3 DEF L

(* The table has one member more in front. *)
LEMMA EachFront ==
  ASSUME NEW S, NEW W, NEW f \in Tables(S, W), NEW s \in Seq(S), NEW x \in S
  PROVE  Each(f, Cat(One(x), s)) = Cat(f[x], Each(f, s))
<1>1. One(x) \in Seq(S)
  BY DEF One
<1> QED
  BY <1>1, EachCat, EachOne
=============================================================================
